------------------------------- MODULE MCGuard -------------------------------
(***************************************************************************)
(* Small instances of Guard, Remedy and CommitDraft, checked in one run: a *)
(* behaviour is of one of the three, the others stay as they began.        *)
(***************************************************************************)
EXTENDS CommitDraft

CONSTANTS Profiles, Policies, RemotesOf, FirstAssigned, FirstIdentity, GivenIdentities, Origin,
          GuardActs, RemedyActs, MaxMoves

StartAtR1 == <<"r1", "b1">>
Author(p, scope) == [name |-> p, email |-> p, scope |-> scope]
Policy(allowed, blocked) ==
    [scoped |-> TRUE, allowed |-> allowed, blocked |-> blocked,
     owner |-> None, repo |-> None, actor |-> None]

\* The values for Guard: a repository assigned and one that is not, and a branch
\* that is allowed and blocked, or neither.
SomePolicies == {None, Policy({{"b1"}}, {{"b1"}}), Policy({}, {{"b2"}})}
OnlyOrigin == [r \in Repos |-> {[name |-> Origin, host |-> None, owner |-> None, repo |-> None]}]
R1ToP1 == [r \in Repos |-> IF r = "r1" THEN "p1" ELSE None]
GlobalP1 == [r \in Repos |-> Author("p1", "global")]
LocalOrGlobal == {Author("p1", "local"), Author(None, "local"), Author("p1", "global")}

VARIABLES part,
          record, exists, profile, gActive, screen, identity, branch, centre, header,
          assign, gActs, moves,
          rAssigned, rExists, rProfile, rIdentity, link, flow, rStore, view, button,
          fixed, met, missed, rActs, rMoves

G == INSTANCE Guard WITH MaxActs <- GuardActs, Identities <- GivenIdentities,
        active <- gActive, acts <- gActs
R == INSTANCE Remedy WITH assigned <- rAssigned, exists <- rExists, profile <- rProfile,
        identity <- rIdentity, store <- rStore, acts <- rActs, moves <- rMoves,
        MaxActs <- RemedyActs

\* None is no value of any kind, and a policy is one or none.
ASSUME GuardAssumption ==
    /\ None \notin Profiles /\ None \notin Branches /\ None \notin G!Abouts
    /\ \A p \in Profiles : G!ProfileOf(p) # None
    /\ Branches # {}
    /\ \A policy \in Policies \ {None} : policy.scoped \in BOOLEAN
    /\ FirstAssigned \in [Repos -> G!Maybe(Profiles)] /\ None \in Policies
    /\ FirstIdentity \in [Repos -> GivenIdentities]
    /\ {GuardActs, RemedyActs, MaxMoves} \subseteq Nat

guardVars == <<record, exists, profile, gActive, screen, identity, branch, centre, header,
               assign, gActs, moves>>
remedyVars == <<rAssigned, rExists, rProfile, rIdentity, link, flow, rStore, view, button,
                fixed, met, missed, rActs, rMoves>>
allVars == <<part, vars, guardVars, remedyVars>>

MCInit ==
    /\ part \in {"guard", "remedy", "draft"}
    /\ Init /\ G!Init /\ R!Init
    /\ part # "guard" => gActive = Start[1]
    /\ part # "remedy" => /\ rAssigned = None /\ rProfile = None
                          /\ rIdentity = Author(None, "local")
                          /\ link = [p \in Profiles |-> "none"]

Guarding(A) == part = "guard" /\ A /\ UNCHANGED <<part, vars, remedyVars>>
Fixing(A) == part = "remedy" /\ A /\ UNCHANGED <<part, vars, guardVars>>
Drafting(A) == part = "draft" /\ A /\ UNCHANGED <<part, guardVars, remedyVars>>

MCNext == Guarding(G!Next) \/ Fixing(R!Next) \/ Drafting(Next)
MCSpec == MCInit /\ [][MCNext]_allVars
MCFairSpec ==
    MCSpec /\ WF_allVars(Guarding(G!Answers) \/ Fixing(R!Answers) \/ Drafting(Background))

-----------------------------------------------------------------------------
(* Properties, of the parts that the modules state one by one; that of     *)
(* CommitDraft is its DraftsStayHome.                                      *)

(* The header's badge and the Safety Center "must never disagree on        *)
(* screen" about the same identity, once both have settled                 *)
(* (headerGuardStore.ts, safetyCenterStore.ts).                            *)
NeverDisagree == G!TypeOK /\ R!TypeOK /\ G!NeverDisagree

(* What is said of the active repository is said of it as it is now, and   *)
(* of its branch as the verdict has it: one shown as blocked cannot be     *)
(* pushed, one shown as allowed is not held back (SafetyCenterScreen.tsx). *)
BadgesAreTrue == G!BadgeOfActive /\ G!BadgeMatchesVerdict

(* A remedy that says it has succeeded removes the issues it was offered   *)
(* for, and reconnecting succeeds only once the account is linked          *)
(* (RemediationButton.tsx, Phase 103).                                     *)
RemediesCure == []R!FixCures /\ R!ReconnectedWhenLinked

(* The checks end, superseded or not, and so does every remedy; one that   *)
(* shows a code ends with the sign-in it was issued for, if it is heard.   *)
GuardEnds ==
    /\ part = "guard" => G!ChecksEnd
    /\ part = "remedy" => R!FixingEnds /\ R!WaitEnds
=============================================================================
