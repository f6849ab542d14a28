------------------------------- MODULE Remedy --------------------------------
(***************************************************************************)
(* The remedies offered beside the issues of the gates: RemediationButton  *)
(* in the renderer and remediationExecutor in main.  Of the five actions   *)
(* the three that are offered for an issue are here; the two offered for a *)
(* failure of git are in CommitPush.                                       *)
(*                                                                         *)
(* One repository.  main knows the assignment, the profile active, the     *)
(* identity and the links to GitHub; the renderer goes by what it last     *)
(* listed (store) and by what the gates last read (view).                  *)
(***************************************************************************)
EXTENDS SafetyGate, Naturals

CONSTANTS Profiles,
          MaxActs,     \* bound: clicks, and changes from elsewhere
          MaxMoves     \* bound: calls and sign-ins that fail

Maybe(S) == S \union {None}
Remedies == {"set-local-identity", "switch-active-profile", "reconnect-github"}
Links == {"none", "linked", "invalid", "noscope"}
Identities == [name : Maybe(Profiles), email : Maybe(Profiles), scope : {"local", "global"}]

VARIABLES assigned,    \* the repository's record, here and in main
          exists, profile,    \* profiles and the active one, in the files
          identity, link,     \* git config; the token of each profile
          flow,        \* GitHubAuthCoordinator: a code has been issued for it
          store,       \* profilesStore
          view,        \* what the gates have read; None while they read
          button,
          fixed,       \* the codes that the last remedy to succeed is for
          met,         \* something else has changed since it was asked for
          missed,      \* a sign-in has ended unheard
          acts, moves

files == <<assigned, exists, profile, identity, link>>
ghosts == <<fixed, met, missed>>
vars == <<files, flow, store, view, button, ghosts, acts, moves>>

Idle == [at |-> "idle", to |-> None, error |-> FALSE, code |-> FALSE, authorized |-> FALSE,
         timer |-> FALSE]

TypeOK ==
    /\ assigned \in Maybe(Profiles) /\ exists \subseteq Profiles /\ profile \in Maybe(Profiles)
    /\ identity \in Identities /\ link \in [Profiles -> Links] /\ flow \in [Profiles -> BOOLEAN]
    /\ store \in [exists : SUBSET Profiles, profile : Maybe(Profiles)]
    /\ view \in Maybe([identity : Identities, link : Maybe(Links)])
    /\ button \in [Remedies -> [at : {"idle", "asked", "target", "answered", "reloading"},
                                to : Maybe(Profiles), error : BOOLEAN, code : BOOLEAN,
                                authorized : BOOLEAN, timer : BOOLEAN]]
    /\ met \in BOOLEAN /\ missed \in BOOLEAN
    /\ acts \in 0..MaxActs /\ moves \in 0..MaxMoves

-----------------------------------------------------------------------------
(* What the screen shows.                                                  *)

ProfileOf(p) == IF p = None THEN None
                ELSE [id |-> p, author |-> <<p, p>>, hosts |-> {}, alias |-> None]
ActiveProfile == IF store.profile \in store.exists THEN store.profile ELSE None

\* The link is read of the profile assigned; its account is the one it had.
LinkOf(l) ==
    IF l = None THEN None
    ELSE [login |-> IF l = "none" THEN None ELSE "account", token |-> l # "none",
          invalid |-> l = "invalid", scope |-> l # "noscope", actual |-> "account"]
Issues ==
    IF view = None THEN {}
    ELSE IdentityIssues([assigned |-> assigned], ProfileOf(ActiveProfile), view.identity)
         \union GitHubIssues(LinkOf(view.link))
RemediesShown == Remedies \intersect Offered(Issues)

-----------------------------------------------------------------------------
(* The button.                                                             *)

Act == acts < MaxActs /\ acts' = acts + 1
Fails == moves < MaxMoves /\ moves' = moves + 1
Set(a, fields) == [x \in DOMAIN button[a] |-> IF x \in DOMAIN fields THEN fields[x] ELSE button[a][x]]
Update(a, fields) == button' = [button EXCEPT ![a] = Set(a, fields)]

\* The profile that the remedy is asked for.
Target(a) == IF a = "set-local-identity" THEN store.profile ELSE assigned
MissingTarget(a) ==
    \/ a = "set-local-identity" /\ ActiveProfile = None
    \/ a # "set-local-identity" /\ assigned = None

Busy(b) == b.at # "idle" \/ b.timer \/ (b.code /\ ~b.authorized)

\* run, up to the call.
Click(a) ==
    /\ Act
    /\ a \in RemediesShown /\ button[a].at = "idle" /\ ~MissingTarget(a)
    /\ button' = [button EXCEPT ![a] = [Idle EXCEPT !.at = "asked", !.to = Target(a)]]
    /\ met' = (\E b \in Remedies \ {a} : Busy(button[b]))
    /\ fixed' = {}
    /\ UNCHANGED <<files, flow, store, view, missed, moves>>

\* executeRemediation has read the record.
FindTarget(a) ==
    /\ button[a].at = "asked"
    /\ Update(a, [at |-> "target", to |-> IF button[a].to # None THEN button[a].to ELSE assigned])
    /\ UNCHANGED <<files, flow, store, view, ghosts, acts, moves>>

Answered(a, error, code) == Update(a, [at |-> "answered", error |-> error, code |-> code])

\* Refused for a profile that is gone by now.
SetLocalIdentity ==
    LET a == "set-local-identity"
        p == button[a].to
    IN  /\ button[a].at = "target"
        /\ identity' = IF p \in exists THEN [name |-> p, email |-> p, scope |-> "local"] ELSE identity
        /\ Answered(a, p \notin exists, FALSE)
        /\ UNCHANGED <<assigned, exists, profile, link, flow, store, view, ghosts, acts, moves>>

\* Whether there is such a profile is not asked.
SwitchActiveProfile ==
    LET a == "switch-active-profile" IN
    /\ button[a].at = "target"
    /\ profile' = button[a].to
    /\ Answered(a, FALSE, FALSE)
    /\ UNCHANGED <<assigned, exists, identity, link, flow, store, view, ghosts, acts, moves>>

\* startDeviceAuth: a code is issued, and main waits for the user to enter it.
ReconnectGitHub ==
    LET a == "reconnect-github" IN
    /\ button[a].at = "target"
    /\ flow' = [flow EXCEPT ![button[a].to] = TRUE]
    /\ Update(a, [at |-> "answered"])
    /\ UNCHANGED <<files, store, view, ghosts, acts, moves>>

ExecuteFails(a) ==
    /\ button[a].at = "target" /\ Fails
    /\ Answered(a, TRUE, FALSE)
    /\ UNCHANGED <<files, flow, store, view, ghosts, acts>>

\* The profiles are listed again before anything else is done with the answer.
Reload(a) ==
    /\ button[a].at = "answered"
    /\ store' = [exists |-> exists, profile |-> profile]
    /\ Update(a, [at |-> "reloading"])
    /\ UNCHANGED <<files, flow, view, ghosts, acts, moves>>

\* onSuccess: the gates read again.
Succeeds(a) == view' = None /\ fixed' = {c \in Issues : ActionOf(c) = a}

\* Mutant: a code that has been issued counts as success (as it did once).
CodeIsSuccess(a) ==
    /\ button[a].at = "reloading"
    /\ Update(a, [at |-> "idle"])
    /\ IF button[a].error THEN UNCHANGED <<view, fixed>> ELSE Succeeds(a)
    /\ UNCHANGED <<files, flow, store, met, missed, acts, moves>>
\* A code is shown, and success waits for the sign-in.  One that has ended
\* before the code is shown was not heard.
Settle(a) ==
    /\ button[a].at = "reloading"
    /\ LET waits == a = "reconnect-github" /\ ~button[a].error IN
       /\ Update(a, [at |-> "idle", code |-> waits])
       /\ IF button[a].error \/ waits THEN UNCHANGED <<view, fixed>> ELSE Succeeds(a)
       /\ missed' = (missed \/ (waits /\ ~(button[a].to = assigned /\ flow[button[a].to])))
    /\ UNCHANGED <<files, flow, store, met, acts, moves>>

-----------------------------------------------------------------------------
(* The sign-in.                                                            *)

\* The listener is there while a code is shown, for the profile assigned.
Hears(p) == button["reconnect-github"].code /\ p = assigned
Heard(p, fields) == IF Hears(p) THEN Update("reconnect-github", fields) ELSE UNCHANGED button

Authorize(p, l) ==
    /\ flow[p]
    /\ flow' = [flow EXCEPT ![p] = FALSE]
    /\ link' = [link EXCEPT ![p] = l]
    /\ Heard(p, [authorized |-> TRUE, timer |-> TRUE])
    /\ UNCHANGED <<assigned, exists, profile, identity, store, view, ghosts, acts, moves>>

\* Denied, expired, or an error: the code is taken away.
SignInFails(p) ==
    /\ flow[p] /\ Fails
    /\ flow' = [flow EXCEPT ![p] = FALSE]
    /\ Heard(p, [code |-> FALSE])
    /\ UNCHANGED <<files, store, view, ghosts, acts>>

\* "Authorized as" has been up for its time, and the profiles are listed again.
AuthorizedTimer ==
    LET a == "reconnect-github" IN
    /\ button[a].timer
    /\ Update(a, [timer |-> FALSE])
    /\ store' = [exists |-> exists, profile |-> profile]
    /\ Succeeds(a)
    /\ UNCHANGED <<files, flow, met, missed, acts, moves>>

\* refreshBothStores has its answer.
GatesRead ==
    /\ view = None
    /\ view' = [identity |-> identity, link |-> IF assigned = None THEN None ELSE link[assigned]]
    /\ UNCHANGED <<files, flow, store, button, ghosts, acts, moves>>

-----------------------------------------------------------------------------
(* From elsewhere.                                                         *)

Elsewhere == Act /\ met' = TRUE /\ UNCHANGED <<flow, fixed, moves>>

\* Another profile is assigned, or the one assigned is dropped: a code that is
\* shown stays, its listener is renewed and its timer lost.  (An assignment to a
\* profile that is gone comes about in Records only; no remedy cures it.)
Reassign(p) ==
    /\ Elsewhere /\ p \in Maybe(exists) \ {assigned}
    /\ assigned' = p
    /\ Update("reconnect-github", [timer |-> FALSE])
    /\ missed' = (missed \/ button["reconnect-github"].code)
    /\ view' = None
    /\ UNCHANGED <<exists, profile, identity, link, store>>

DeleteProfile(p) ==
    /\ Elsewhere /\ p \in exists
    /\ exists' = exists \ {p}
    /\ profile' = IF profile = p THEN None ELSE profile
    /\ store' = [exists |-> exists', profile |-> profile']
    /\ assigned' = IF assigned = p THEN None ELSE assigned
    /\ view' = None
    /\ missed' = (missed \/ button["reconnect-github"].code)
    /\ Update("reconnect-github", [timer |-> button["reconnect-github"].timer /\ assigned # p])
    /\ UNCHANGED <<identity, link>>

SetActiveProfile(p) ==
    /\ Elsewhere /\ p \in exists /\ p # profile
    /\ profile' = p
    /\ store' = [exists |-> exists, profile |-> p]
    /\ view' = None
    /\ UNCHANGED <<assigned, exists, identity, link, button, missed>>

\* A token is revoked.
Revoke(p) ==
    /\ Elsewhere /\ link[p] # "none"
    /\ link' = [link EXCEPT ![p] = "invalid"]
    /\ UNCHANGED <<assigned, exists, profile, identity, store, view, button, missed>>

-----------------------------------------------------------------------------
Init ==
    /\ exists = Profiles
    /\ assigned \in Maybe(Profiles) /\ profile \in Maybe(Profiles)
    /\ \E p \in Maybe(Profiles), scope \in {"local", "global"} :
          identity = [name |-> p, email |-> p, scope |-> scope]
    /\ \E l \in Links : link = [p \in Profiles |-> l]
    /\ flow = [p \in Profiles |-> FALSE]
    /\ store = [exists |-> exists, profile |-> profile]
    /\ view = None
    /\ button = [a \in Remedies |-> Idle]
    /\ fixed = {} /\ met = FALSE /\ missed = FALSE
    /\ acts = 0 /\ moves = 0

Answers ==
    \/ \E a \in Remedies : FindTarget(a) \/ ExecuteFails(a) \/ Reload(a) \/ Settle(a)
    \/ SetLocalIdentity \/ SwitchActiveProfile \/ ReconnectGitHub
    \/ \E p \in Profiles : Authorize(p, "linked") \/ SignInFails(p)
    \/ AuthorizedTimer \/ GatesRead

Next ==
    \/ \E a \in Remedies : Click(a)
    \/ \E p \in Maybe(Profiles) : Reassign(p)
    \/ \E p \in Profiles : DeleteProfile(p) \/ SetActiveProfile(p) \/ Revoke(p)
    \/ Answers

Spec == Init /\ [][Next]_vars

\* Calls are answered, timers fire, and a sign-in ends (its code expires).
FairSpec == Spec /\ WF_vars(Answers)

-----------------------------------------------------------------------------
(* Properties.                                                             *)

\* remediation.ts, RemediationButton.tsx: a remedy that has succeeded removes
\* the issues it was offered for, once the gates have read again, unless
\* something else was changed since it was asked for.
FixCures == view # None /\ ~met => fixed \intersect Issues = {}

\* RemediationButton.tsx (Phase 103): reconnecting succeeds only with the account
\* linked; a code that is merely issued is not success.
ReconnectedWhenLinked ==
    [][ ("GITHUB_NOT_CONNECTED" \in fixed' /\ fixed' # fixed) => link[assigned] # "none" ]_vars

\* A remedy comes to its end, whatever becomes of it ...
FixingEnds == \A a \in Remedies : []<>(button[a].at = "idle")

\* ... and one that shows a code comes to "Authorized" or to a refusal, if the
\* sign-in has ended while it was heard.
WaitEnds == LET b == button["reconnect-github"] IN []<>(~b.code \/ b.authorized \/ missed)
=============================================================================
