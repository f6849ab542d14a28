----------------------------- MODULE DeviceAuth -----------------------------
(***************************************************************************)
(* Connecting a profile to a GitHub account with the OAuth device flow:    *)
(* the connect modal of the renderer (ConnectGitHubModal.tsx), the         *)
(* coordinator in the main process (GitHubAuthCoordinator.ts) and the      *)
(* polling service it shares between all profiles (GitHubAuthService.ts).  *)
(*                                                                         *)
(* A flow is one call of startDeviceAuth.  Its device code is named by the *)
(* flow that requested it, and so are the token and the account that the   *)
(* code yields.  The main process runs one event loop: an action here is   *)
(* what runs between two awaits.                                           *)
(***************************************************************************)
EXTENDS Naturals, FiniteSets

CONSTANTS Profiles,
          Flows,     \* calls of startDeviceAuth, each used once
          None,      \* no profile, no flow, no token
          Patient    \* the user waits for a code before closing the modal

VARIABLES pc,           \* where each flow is
          for,          \* the profile each flow was started for
          aborted,      \* the flows whose AbortController has aborted
          controllers,  \* the coordinator's map: the flow registered per profile
          pending,      \* the service's one retained device code
          wake,         \* the flow whose wait requestImmediatePoll would end
          polls,        \* the device code each flow polls with
          overdue,      \* the flows whose polling deadline has passed
          codes,        \* at GitHub: what became of each device code
          token, link,  \* stored per profile: the token, the linked account
          leaving,      \* how far each profile's disconnect is
          modal,        \* the profile, flow and status of the connect modal
          shown,        \* the linked account the profile screen displays
          seen,         \* history: the codes the user was shown
          cancelled     \* history: flows cancelled before they had a token

service == <<pending, wake, polls>>
stored == <<token, link>>
history == <<seen, cancelled>>
vars == <<pc, for, aborted, controllers, service, overdue, codes, stored, leaving,
          modal, shown, history>>

-----------------------------------------------------------------------------
Polling == {"http", "waiting"}
Live == Polling \union {"identity", "storing", "linking"}
Ended == {"abandoned", "failed", "linked"}
Pcs == {"idle", "requesting", "opening"} \union Live \union Ended

Closed == [profile |-> None, flow |-> None, status |-> "closed"]

TypeOK ==
    /\ pc \in [Flows -> Pcs]
    /\ for \in [Flows -> Profiles \union {None}]
    /\ aborted \subseteq Flows
    /\ controllers \in [Profiles -> Flows \union {None}]
    /\ pending \in Flows \union {None}
    /\ wake \in Flows \union {None}
    /\ polls \in [Flows -> Flows \union {None}]
    /\ overdue \subseteq Flows
    /\ codes \in [Flows -> {"pending", "approved", "denied", "expired", "redeemed"}]
    /\ token \in [Profiles -> Flows \union {None}]
    /\ link \in [Profiles -> Flows \union {None}]
    /\ leaving \in [Profiles -> {"no", "deleting", "reading", "unlinking"}]
    /\ modal \in [profile : Profiles \union {None}, flow : Flows \union {None},
                  status : {"closed", "starting", "awaitingUser", "authorized", "failed"}]
    /\ shown \in [Profiles -> Flows \union {None}]
    /\ seen \subseteq Flows /\ cancelled \subseteq Flows
    /\ \A f \in Flows : for[f] = None <=> pc[f] = "idle"
    /\ \A f \in Flows : pc[f] \in Live => polls[f] # None

Init ==
    /\ pc = [f \in Flows |-> "idle"]
    /\ for = [f \in Flows |-> None]
    /\ aborted = {}
    /\ controllers = [p \in Profiles |-> None]
    /\ pending = None
    /\ wake = None
    /\ polls = [f \in Flows |-> None]
    /\ overdue = {}
    /\ codes = [f \in Flows |-> "pending"]
    /\ token = [p \in Profiles |-> None]
    /\ link = [p \in Profiles |-> None]
    /\ leaving = [p \in Profiles |-> "no"]
    /\ modal = Closed
    /\ shown = [p \in Profiles |-> None]
    /\ seen = {}
    /\ cancelled = {}

-----------------------------------------------------------------------------
(* abort(): of the flow registered for p.  A flow that waits between two   *)
(* polls ends at once, its sleep rejects; any other one runs on until it   *)
(* looks at its signal.  AfterAbort is the value of pc it leaves.          *)
AfterAbort(p) ==
    [f \in Flows |-> IF f = controllers[p] /\ pc[f] = "waiting" THEN "abandoned" ELSE pc[f]]

Abort(p) ==
    /\ aborted' = aborted \union ({controllers[p]} \ {None})
    /\ controllers' = [controllers EXCEPT ![p] = None]
    /\ wake' = IF controllers[p] # None /\ pc[controllers[p]] = "waiting" THEN None ELSE wake

(* The finally of poll(): forget the flow unless it was superseded.        *)
Unregister(f) ==
    controllers' = [controllers EXCEPT ![for[f]] = IF @ = f THEN None ELSE @]

(* poll() is over.                                                         *)
Finish(f, end) ==
    /\ pc' = [pc EXCEPT ![f] = end]
    /\ Unregister(f)

(* A thrown error: silent after an abort, an event of status s otherwise.  *)
Notify(f, s) ==
    modal' = IF f \notin aborted /\ modal.profile = for[f]
             THEN [modal EXCEPT !.status = s] ELSE modal

Fail(f) ==
    /\ Finish(f, IF f \in aborted THEN "abandoned" ELSE "failed")
    /\ Notify(f, "failed")

-----------------------------------------------------------------------------
(* startDeviceAuth, which a modal calls when it mounts and on a retry.     *)
Start(f, p) ==
    /\ pc[f] = "idle"
    /\ Abort(p)
    /\ pc' = [AfterAbort(p) EXCEPT ![f] = "requesting"]
    /\ for' = [for EXCEPT ![f] = p]
    /\ modal' = [profile |-> p, flow |-> f, status |-> "starting"]
    /\ UNCHANGED <<pending, polls, overdue, codes, stored, leaving, shown, history>>

OpenModal(f, p) ==
    /\ modal = Closed
    /\ Start(f, p)

Retry(f) ==
    /\ modal.status = "failed"
    /\ Start(f, modal.profile)

(* requestDeviceCode returns, and retains the code, or fails.              *)
CodeArrives(f) ==
    /\ pc[f] = "requesting"
    /\ pc' = [pc EXCEPT ![f] = "opening"]
    /\ pending' = f
    /\ UNCHANGED <<for, aborted, controllers, wake, polls, overdue, codes, stored, leaving,
                   modal, shown, history>>

CodeRequestFails(f) ==
    /\ pc[f] = "requesting"
    /\ pc' = [pc EXCEPT ![f] = "failed"]
    /\ modal' = IF modal.flow = f THEN [modal EXCEPT !.status = "failed"] ELSE modal
    /\ UNCHANGED <<for, aborted, controllers, service, overdue, codes, stored, leaving,
                   shown, history>>

(* The browser was opened: register the flow and poll in the background    *)
(* with the code that is pending now; the modal gets its code to show.     *)
BeginPolling(f) ==
    /\ pc[f] = "opening"
    /\ polls' = [polls EXCEPT ![f] = pending]
    /\ seen' = IF modal.flow = f THEN seen \union {f} ELSE seen
    /\ \/ /\ pending # None
          /\ pc' = [pc EXCEPT ![f] = "http"]
          /\ controllers' = [controllers EXCEPT ![for[f]] = f]
          /\ Notify(f, "awaitingUser")
       \/ /\ pending = None
          /\ pc' = [pc EXCEPT ![f] = "failed"]
          /\ controllers' = [controllers EXCEPT ![for[f]] = None]
          /\ Notify(f, "failed")
    /\ UNCHANGED <<for, aborted, pending, wake, overdue, codes, stored, leaving, shown,
                   cancelled>>

(* A poll that brought neither a token nor a refusal, a failed request     *)
(* included: give up once the deadline has passed, otherwise wait.  The    *)
(* wait of a flow that was aborted meanwhile rejects at once.              *)
PollAgain(f) ==
    \/ /\ f \in overdue
       /\ pending' = None
       /\ Fail(f)
       /\ UNCHANGED wake
    \/ /\ f \notin overdue /\ f \in aborted
       /\ Fail(f)
       /\ wake' = None
       /\ UNCHANGED pending
    \/ /\ f \notin overdue /\ f \notin aborted
       /\ pc' = [pc EXCEPT ![f] = "waiting"]
       /\ wake' = f
       /\ UNCHANGED <<controllers, pending, modal>>

Unanswered(f) ==
    /\ pc[f] = "http"
    /\ PollAgain(f)
    /\ UNCHANGED <<for, aborted, polls, overdue, codes, stored, leaving, shown, history>>

(* GitHub refuses: denied, expired, or a code it has honoured already.     *)
Refused(f) ==
    /\ pc[f] = "http"
    /\ codes[polls[f]] \in {"denied", "expired", "redeemed"}
    /\ pending' = None
    /\ Fail(f)
    /\ UNCHANGED <<for, aborted, wake, polls, overdue, codes, stored, leaving, shown, history>>

\* Mutant: poll() does not look at its signal.
ProceedAborted(f, next) ==
    /\ pc' = [pc EXCEPT ![f] = next]
    /\ UNCHANGED controllers

(* poll() looks at its signal before it goes on.                           *)
ProceedUnlessAborted(f, next) ==
    IF f \in aborted THEN Finish(f, "abandoned")
    ELSE pc' = [pc EXCEPT ![f] = next] /\ UNCHANGED controllers

(* GitHub issues the token.                                                *)
TokenArrives(f) ==
    /\ pc[f] = "http"
    /\ codes[polls[f]] = "approved"
    /\ codes' = [codes EXCEPT ![polls[f]] = "redeemed"]
    /\ pending' = None
    /\ ProceedUnlessAborted(f, "identity")
    /\ UNCHANGED <<for, aborted, wake, polls, overdue, stored, leaving, modal, shown, history>>

(* sleep() ends: whichever flow's wait is armed is forgotten.              *)
WaitEnds(f) ==
    /\ pc[f] = "waiting"
    /\ pc' = [pc EXCEPT ![f] = "http"]
    /\ wake' = None
    /\ UNCHANGED <<for, aborted, controllers, pending, polls, overdue, codes, stored, leaving,
                   modal, shown, history>>

(* The window regains focus: refreshDeviceAuth ends the armed wait, unless *)
(* its rate limit says no.                                                 *)
Refresh ==
    /\ modal.status = "awaitingUser"
    /\ controllers[modal.profile] # None
    /\ wake # None
    /\ pc' = [pc EXCEPT ![wake] = "http"]
    /\ wake' = None
    /\ UNCHANGED <<for, aborted, controllers, pending, polls, overdue, codes, stored, leaving,
                   modal, shown, history>>

(* The identity behind the token is known, or could not be read.           *)
IdentityArrives(f) ==
    /\ pc[f] = "identity"
    /\ ProceedUnlessAborted(f, "storing")
    /\ UNCHANGED <<for, aborted, service, overdue, codes, stored, leaving, modal, shown, history>>

StepFails(f) ==
    /\ pc[f] \in {"identity", "storing", "linking"}
    /\ Fail(f)
    /\ UNCHANGED <<for, aborted, service, overdue, codes, stored, leaving, shown, history>>

(* The encrypted token is written.                                         *)
TokenStored(f) ==
    /\ pc[f] = "storing"
    /\ token' = [token EXCEPT ![for[f]] = polls[f]]
    /\ pc' = [pc EXCEPT ![f] = "linking"]
    /\ UNCHANGED <<for, aborted, controllers, service, overdue, codes, link, leaving, modal,
                   shown, history>>

(* The profile is linked and `authorized` is sent, which makes an open     *)
(* modal of the profile reload the profiles.                               *)
Linked(f) ==
    /\ pc[f] = "linking"
    /\ link' = [link EXCEPT ![for[f]] = polls[f]]
    /\ Finish(f, "linked")
    /\ \/ /\ modal.profile = for[f]
          /\ modal' = [modal EXCEPT !.status = "authorized"]
          /\ shown' = link'
       \/ /\ modal.profile # for[f]
          /\ UNCHANGED <<modal, shown>>
    /\ UNCHANGED <<for, aborted, service, overdue, codes, token, leaving, history>>

-----------------------------------------------------------------------------
(* The user, in the renderer and on github.com.                            *)

(* Cancel, or the modal unmounts: cancelDeviceAuth unless authorized, and  *)
(* a reload of the profiles.                                               *)
Close ==
    /\ modal # Closed
    /\ Patient => pc[modal.flow] \notin {"requesting", "opening"}
    /\ modal' = Closed
    /\ shown' = link
    /\ \/ /\ modal.status = "authorized"
          /\ UNCHANGED <<pc, aborted, controllers, wake, cancelled>>
       \/ /\ modal.status # "authorized"
          /\ Abort(modal.profile)
          /\ pc' = AfterAbort(modal.profile)
          /\ cancelled' = cancelled \union
               {f \in {modal.flow} : pc[f] \notin {"storing", "linking"} \union Ended}
    /\ UNCHANGED <<for, pending, polls, overdue, codes, stored, leaving, seen>>

(* disconnect(): abort, delete the token, read the profile, unlink it.     *)
Disconnect(p) ==
    /\ modal = Closed
    /\ leaving[p] = "no"
    /\ shown[p] # None
    /\ Abort(p)
    /\ pc' = AfterAbort(p)
    /\ leaving' = [leaving EXCEPT ![p] = "deleting"]
    /\ UNCHANGED <<for, pending, polls, overdue, codes, stored, modal, shown, history>>

DeleteToken(p) ==
    /\ leaving[p] = "deleting"
    /\ token' = [token EXCEPT ![p] = None]
    /\ leaving' = [leaving EXCEPT ![p] = "reading"]
    /\ UNCHANGED <<pc, for, aborted, controllers, service, overdue, codes, link, modal, shown,
                   history>>

ReadLink(p) ==
    /\ leaving[p] = "reading"
    /\ leaving' = [leaving EXCEPT ![p] = IF link[p] = None THEN "no" ELSE "unlinking"]
    /\ shown' = IF link[p] = None THEN link ELSE shown
    /\ UNCHANGED <<pc, for, aborted, controllers, service, overdue, codes, stored, modal, history>>

Unlink(p) ==
    /\ leaving[p] = "unlinking"
    /\ link' = [link EXCEPT ![p] = None]
    /\ leaving' = [leaving EXCEPT ![p] = "no"]
    /\ shown' = link'
    /\ UNCHANGED <<pc, for, aborted, controllers, service, overdue, codes, token, modal, history>>

(* On github.com the user approves or denies a code that was shown.        *)
Decide(f, answer) ==
    /\ f \in seen
    /\ codes[f] = "pending"
    /\ codes' = [codes EXCEPT ![f] = answer]
    /\ UNCHANGED <<pc, for, aborted, controllers, service, overdue, stored, leaving, modal,
                   shown, history>>

(* Time: a code expires, and the deadline of a flow that polls passes.     *)
Expire(f) ==
    /\ codes[f] \in {"pending", "approved"}
    /\ pc[f] \notin {"idle", "requesting"}
    /\ codes' = [codes EXCEPT ![f] = "expired"]
    /\ UNCHANGED <<pc, for, aborted, controllers, service, overdue, stored, leaving, modal,
                   shown, history>>

DeadlinePasses(f) ==
    /\ pc[f] \in Polling
    /\ f \notin overdue
    /\ overdue' = overdue \union {f}
    /\ UNCHANGED <<pc, for, aborted, controllers, service, codes, stored, leaving, modal,
                   shown, history>>

-----------------------------------------------------------------------------
Poll(f) == Unanswered(f) \/ Refused(f) \/ TokenArrives(f)
Settle(f) == IdentityArrives(f) \/ StepFails(f) \/ TokenStored(f) \/ Linked(f)

Next ==
    \/ \E f \in Flows :
          \/ \E p \in Profiles : OpenModal(f, p)
          \/ Retry(f)
          \/ CodeArrives(f) \/ CodeRequestFails(f)
          \/ BeginPolling(f)
          \/ Poll(f)
          \/ WaitEnds(f)
          \/ Settle(f)
          \/ \E answer \in {"approved", "denied"} : Decide(f, answer)
          \/ Expire(f)
          \/ DeadlinePasses(f)
    \/ Refresh
    \/ Close
    \/ \E p \in Profiles : Disconnect(p) \/ DeleteToken(p) \/ ReadLink(p) \/ Unlink(p)

Spec == Init /\ [][Next]_vars

(* Every request is answered or fails, timers fire and time passes; the    *)
(* user need not do anything.                                              *)
Fairness ==
    \A f \in Flows :
        /\ WF_vars(CodeArrives(f) \/ CodeRequestFails(f))
        /\ WF_vars(BeginPolling(f))
        /\ WF_vars(Poll(f))
        /\ WF_vars(WaitEnds(f))
        /\ WF_vars(Settle(f))
        /\ WF_vars(DeadlinePasses(f))

FairSpec == Spec /\ Fairness

-----------------------------------------------------------------------------
(* Properties.                                                             *)

(* A sign-in that the user cancelled before it had reached the token store *)
(* stores nothing and links nothing (the signal checks of poll()).         *)
CancelledNeverLinks ==
    \A f \in cancelled : pc[f] \notin {"storing", "linking", "linked"}

(* Each profile has at most one flow that polls or signs in unaborted, and *)
(* it is the registered one, so that it "can be cancelled or superseded    *)
(* cleanly" (GitHubAuthCoordinator.ts:92).                                 *)
LiveFlowsAreRegistered ==
    \A f \in Flows : pc[f] \in Live /\ f \notin aborted => controllers[for[f]] = f

(* A profile gets the account of the code that was shown for it: "the      *)
(* OAuth flow is keyed by profile id" (ProfilesScreen.tsx handleConnectNew).*)
LinksOwnAccount ==
    \A p \in Profiles : \A account \in {token[p], link[p]} \ {None} : for[account] = p

(* A flow that was given a device code polls with it: "pollForToken called *)
(* before requestDeviceCode" is never what a user gets to see              *)
(* (GitHubAuthService.ts pollForToken).                                    *)
CodeIsKept == \A f \in Flows : pc[f] = "opening" => pending # None

(* "the UI can never disagree with what actually got saved, regardless of  *)
(* which side won the race" (ProfilesScreen.tsx, onClose of the modal):    *)
(* with nothing in progress the screen shows the stored links.             *)
Quiet == /\ \A f \in Flows : pc[f] \in Ended \union {"idle"}
         /\ \A p \in Profiles : leaving[p] = "no"
         /\ modal = Closed

ScreenShowsLinks == Quiet => shown = link

(* No sign-in goes on for ever: whatever GitHub and the network answer, or *)
(* do not, each flow links, fails or is abandoned (the deadline of         *)
(* pollForToken).                                                          *)
FlowsEnd == \A f \in Flows : pc[f] # "idle" ~> pc[f] \in Ended
=============================================================================
