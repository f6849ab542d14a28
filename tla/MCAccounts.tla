------------------------------ MODULE MCAccounts ------------------------------
(***************************************************************************)
(* What the program keeps of its user, checked in one run: the settings    *)
(* (JsonStore), the GitHub accounts linked to profiles (DeviceAuth) and    *)
(* the AI connection (AiSetup).  A behaviour is of one of the three, the   *)
(* other two stay as they began.  There are no settings at first.          *)
(***************************************************************************)
EXTENDS JsonStore, Naturals

CONSTANTS Profiles, Flows, Patient, MaxConns, MaxActs

ASSUME AccountsAssumption == None \notin Profiles \union Flows
ASSUME SetupAssumption == MaxConns \in Nat /\ MaxActs \in Nat /\ None \notin 1..MaxConns

AllUnset == [f \in Fields |-> CHOOSE v \in Values : TRUE]

VARIABLES part,
          pc, for, aborted, controllers, pending, wake, polls, overdue, codes, token, link,
          leaving, modal, shown, seen, cancelled,
          conns, activeId, keys, consent, made, ui, flows, tangled, crossed, acts

D == INSTANCE DeviceAuth
S == INSTANCE AiSetup

authVars == <<pc, for, aborted, controllers, pending, wake, polls, overdue, codes, token, link,
              leaving, modal, shown, seen, cancelled>>
setupVars == <<conns, activeId, keys, consent, made, ui, flows, tangled, crossed, acts>>
allVars == <<part, vars, authVars, setupVars>>

AllInit ==
    /\ part \in {"store", "auth", "setup"}
    /\ Init /\ D!Init /\ S!Init
    /\ file = Defaults
    /\ part # "store" =>
          patch = [t \in Txs |-> CHOOSE x \in [field : Fields, value : Values] : TRUE]

Storing(A) == part = "store" /\ A /\ UNCHANGED <<part, authVars, setupVars>>
Linking(A) == part = "auth" /\ A /\ UNCHANGED <<part, vars, setupVars>>
Setting(A) == part = "setup" /\ A /\ UNCHANGED <<part, vars, authVars>>

AllNext == Storing(Next) \/ Linking(D!Next) \/ Setting(S!Next)
AllSpec == AllInit /\ [][AllNext]_allVars

\* The fairness of the three modules.
AllFair ==
    /\ \A t \in Txs : /\ WF_allVars(Storing(Begin(t)))
                      /\ WF_allVars(Storing(Read(t) \/ Write(t) \/ Fail(t)))
    /\ \A f \in Flows : /\ WF_allVars(Linking(D!CodeArrives(f) \/ D!CodeRequestFails(f)))
                        /\ WF_allVars(Linking(D!BeginPolling(f)))
                        /\ WF_allVars(Linking(D!Poll(f)))
                        /\ WF_allVars(Linking(D!WaitEnds(f)))
                        /\ WF_allVars(Linking(D!Settle(f)))
                        /\ WF_allVars(Linking(D!DeadlinePasses(f)))
    /\ WF_allVars(Setting(S!Answers))

AllFairSpec == AllSpec /\ AllFair

-----------------------------------------------------------------------------
(* Properties, of the parts that the modules state one by one.             *)

(* Whatever cancels, supersedes or disconnects a sign-in, a profile is     *)
(* linked to the account of its own code and to none that was cancelled,   *)
(* and the flow that goes on is the one the coordinator can still cancel   *)
(* (poll and start of GitHubAuthCoordinator.ts).                           *)
LinksRightly ==
    D!TypeOK /\ D!CancelledNeverLinks /\ D!LiveFlowsAreRegistered /\ D!LinksOwnAccount

(* What aiStore shows is true of what main keeps: a composer that is shown *)
(* can send, the key and the models shown are the connection's own, and    *)
(* an interrupted save, taken up again, leaves neither a second connection *)
(* nor a key without one (AiChatPanel.tsx:96-121, aiStore.ts).             *)
SetupIsTrue ==
    S!TypeOK /\ S!ReadyIsSendable /\ S!MetaOfShown /\ S!ModelsOfShown
    /\ S!NoOrphanKey /\ S!NoDuplicate

(* Everything begun here ends: a transaction settles behind one that has   *)
(* failed, a sign-in that nobody approves ends at its deadline, a form is  *)
(* not saving for ever, and a connection that is ready gets the consent.   *)
AccountsEnd ==
    /\ NeverWedged
    /\ D!FlowsEnd
    /\ S!SavingEnds
    /\ part = "setup" => S!ConsentFollows

(* Of two overlapping sign-ins each links the account of its own code,     *)
(* however soon the user gives up on a code (LinksOwnAccount).             *)
LinksOwnAccount == D!LinksOwnAccount
=============================================================================
