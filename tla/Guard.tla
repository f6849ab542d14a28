-------------------------------- MODULE Guard --------------------------------
(***************************************************************************)
(* Two verdicts about the active repository are on screen at once: the     *)
(* badge of the header (headerGuardStore), always there, and the Safety    *)
(* Center (safetyCenterStore).  Each asks main for itself, and the Safety  *)
(* Center, once it has its own answer, asks the header to check again.     *)
(*                                                                         *)
(* The answer of a check that was superseded changes nothing and is left   *)
(* out.  The change of a store and the effects that React runs for it are  *)
(* one step.  A profile is the author it stands for.                       *)
(***************************************************************************)
EXTENDS SafetyGate, Naturals

CONSTANTS Profiles, Repos, Branches,
          Policies,     \* the push policies the records have
          RemotesOf,    \* the remotes of each repository
          FirstAssigned, FirstIdentity,
          Identities,   \* the identities git is given
          MaxActs,      \* bound: changes made by the user or from outside
          MaxMoves      \* bound: calls that fail

Maybe(S) == S \union {None}

VARIABLES record,    \* repositoriesStore, and appStore's copy of the active one
          exists, profile,   \* profilesStore: the profiles, the active one
          active, screen,
          identity, branch,  \* what git has
          centre, header,
          assign,    \* the assignment under way, as the Safety Center asked for it
          acts, moves

app == <<record, exists, profile, active, screen>>
git == <<identity, branch>>
vars == <<app, git, centre, header, assign, acts, moves>>

ProfileOf(p) == IF p = None THEN None
                ELSE [id |-> p, author |-> <<p, p>>, hosts |-> {}, alias |-> None]

\* What a check is about.
About(r, rec, p, known) ==
    [repo |-> r, record |-> Effective(rec, known), profile |-> IF p \in known THEN p ELSE None]
Now == IF active = None THEN None ELSE About(active, record[active], profile, exists)

Abouts == [repo : Repos, record : [assigned : Maybe(Profiles), policy : Policies],
           profile : Maybe(Profiles)]

\* The two stores, each with the check it has under way.
CentreState ==
    [about : Maybe(Abouts), at : {"idle", "asked", "read", "guarding"},
     seen : Maybe(Identities), branch : Maybe(Branches),
     shown : BOOLEAN, error : BOOLEAN, by : {"screen", "click"}]
HeaderState ==
    [about : Maybe(Abouts), at : {"idle", "asked", "read"},
     seen : Maybe(Identities), by : {"app", "centre"},
     state : {"checking", "ready", "review", "blocked", "not-checked"}]

TypeOK ==
    /\ record \in [Repos -> [assigned : Maybe(Profiles), policy : Policies]]
    /\ exists \subseteq Profiles /\ profile \in Maybe(Profiles)
    /\ active \in Maybe(Repos) /\ screen \in {"safety-center", "other"}
    /\ identity \in [Repos -> Identities] /\ branch \in [Repos -> Maybe(Branches)]
    /\ centre \in CentreState /\ header \in HeaderState
    /\ (header.state = "checking") = (header.at # "idle")
    /\ assign \in Maybe([repo : Repos, to : Profiles, known : SUBSET Profiles])
    /\ acts \in 0..MaxActs /\ moves \in 0..MaxMoves

-----------------------------------------------------------------------------
(* The two stores.                                                         *)

Checking(about, by) ==
    [about |-> about, at |-> "asked", seen |-> None, by |-> by, state |-> "checking"]
NotChecked ==
    [about |-> None, at |-> "idle", seen |-> None, by |-> "app", state |-> "not-checked"]

Check(about) == IF about = None THEN NotChecked ELSE Checking(about, "app")

Load(about) == [about |-> about, at |-> "asked", seen |-> None, branch |-> None,
                shown |-> FALSE, error |-> FALSE, by |-> "screen"]
NoLoad == [Load(None) EXCEPT !.at = "idle"]

\* What the header's effect is keyed on.
Key(a) == IF a = None THEN None ELSE <<a.repo, a.record.assigned, a.profile>>

\* (A change from one id that dangles to another would check the same again.)
GuardEffect(b, a) == IF Key(b) # Key(a) THEN Check(a) ELSE header
\* Keyed on the record itself and on the branch too; it does not reset.
CentreEffect == IF screen' = "safety-center" /\ active' # None THEN Load(Now') ELSE centre
Effects == header' = GuardEffect(Now, Now') /\ centre' = CentreEffect

-----------------------------------------------------------------------------
(* The user, and other parts of the program.                               *)

Act == acts < MaxActs /\ acts' = acts + 1
Fails == moves < MaxMoves /\ moves' = moves + 1

PickRepo(r) ==
    /\ Act /\ r # active
    /\ active' = r
    /\ UNCHANGED <<record, exists, profile, screen, git, assign, moves>>
    /\ Effects

\* The active repository is removed from the list.
CloseRepo ==
    /\ Act /\ active # None
    /\ active' = None
    /\ UNCHANGED <<record, exists, profile, screen, git, assign, moves>>
    /\ Effects

\* The change of the active profile has been answered.
SetProfile(p) ==
    /\ Act /\ p \in exists /\ p # profile
    /\ profile' = p
    /\ UNCHANGED <<record, exists, active, screen, git, assign, moves>>
    /\ Effects

\* The profiles are listed again; one of them may be gone, and with it the
\* profile active.
ListProfiles(gone) ==
    /\ Act /\ gone \subseteq exists
    /\ exists' = exists \ gone
    /\ profile' = IF profile \in gone THEN None ELSE profile
    /\ UNCHANGED <<record, active, screen, git, assign, moves>>
    /\ header' = Check(Now')
    /\ centre' = CentreEffect

SaveRecord(to, policy) ==
    /\ Act /\ active # None
    /\ record' = [record EXCEPT ![active] = [assigned |-> to, policy |-> policy]]
    /\ record' # record
    /\ UNCHANGED <<exists, profile, active, screen, git, assign, moves>>
    /\ Effects

SwitchBranch(b) ==
    /\ Act /\ active # None /\ b # branch[active]
    /\ branch' = [branch EXCEPT ![active] = b]
    /\ UNCHANGED <<app, identity, header, assign, moves>>
    /\ centre' = CentreEffect

OpenSafety ==
    /\ screen # "safety-center"
    /\ screen' = "safety-center"
    /\ UNCHANGED <<record, exists, profile, active, git, header, assign, acts, moves>>
    /\ centre' = CentreEffect

LeaveSafety ==
    /\ Act /\ screen = "safety-center"
    /\ screen' = "other"
    /\ UNCHANGED <<record, exists, profile, active, git, centre, header, assign, moves>>

\* refreshActiveRepo: the window has the focus again, HEAD or a branch has
\* moved, or the repository is picked once more.
RefreshActiveRepo ==
    /\ Act /\ active # None
    /\ UNCHANGED <<app, git, assign, moves>>
    /\ header' = Check(Now)
    /\ centre' = IF screen = "safety-center" THEN Load(Now) ELSE centre

\* git config, in a terminal or as a remedy.
SetIdentity(r, id) ==
    /\ Act /\ id # identity[r]
    /\ identity' = [identity EXCEPT ![r] = id]
    /\ UNCHANGED <<app, branch, centre, header, assign, moves>>

-----------------------------------------------------------------------------
(* The checks.                                                             *)

ReadIdentity(about) == identity[about.repo]

\* The three reads run at once; only what they find together is told apart.
CentreReads(ok) ==
    /\ centre.at = "asked"
    /\ centre' = [centre EXCEPT !.at = "read", !.error = ~ok,
                                !.seen = IF ok THEN ReadIdentity(centre.about) ELSE None,
                                !.branch = branch[centre.about.repo]]
    /\ IF ok THEN UNCHANGED moves ELSE Fails
    /\ UNCHANGED <<app, git, header, assign, acts>>

CentreAnswers ==
    /\ centre.at = "read"
    /\ centre' = [centre EXCEPT !.at = "guarding", !.shown = TRUE]
    /\ header' = Checking(centre.about, "centre")
    /\ UNCHANGED <<app, git, assign, acts, moves>>

\* Mutant: a check of the header that is superseded is waited for for ever.
WaitsForOwn ==
    /\ centre.at = "guarding" /\ header.by = "centre" /\ header.at = "idle"
    /\ centre' = [centre EXCEPT !.at = "idle"]
    /\ UNCHANGED <<app, git, header, assign, acts, moves>>
\* The load ends when the check it asked for has: superseded or not.
CentreEnds ==
    /\ centre.at = "guarding"
    /\ header.by = "centre" => header.at = "idle"
    /\ centre' = [centre EXCEPT !.at = "idle"]
    /\ UNCHANGED <<app, git, header, assign, acts, moves>>

HeaderReads(ok) ==
    /\ header.at = "asked"
    /\ header' = [header EXCEPT !.at = "read",
                                !.seen = IF ok THEN ReadIdentity(header.about) ELSE None]
    /\ IF ok THEN UNCHANGED moves ELSE Fails
    /\ UNCHANGED <<app, git, centre, assign, acts>>

\* Mutant: a warning does not show.
BlockedOrReady(about, id) ==
    IF id = None THEN "not-checked"
    ELSE IF HasBlocker(IdentityIssues(about.record, ProfileOf(about.profile), id))
         THEN "blocked" ELSE "ready"
StateOf(about, id) ==
    IF id = None THEN "not-checked"
    ELSE HeaderGuard(about.record, ProfileOf(about.profile), id)

HeaderAnswers ==
    /\ header.at = "read"
    /\ header' = [header EXCEPT !.at = "idle", !.state = StateOf(header.about, header.seen)]
    /\ UNCHANGED <<app, git, centre, assign, acts, moves>>

-----------------------------------------------------------------------------
(* "Assign this repo to ...".                                              *)

Shown == screen = "safety-center" /\ centre.at = "idle" /\ centre.about # None

AssignToActive ==
    /\ Act /\ Shown /\ assign = None
    /\ centre.about.record.assigned = None
    /\ profile \in exists
    /\ assign' = [repo |-> centre.about.repo, to |-> profile, known |-> exists]
    /\ UNCHANGED <<app, git, centre, header, moves>>

\* The repository becomes the active one.  This loads with what it knew at the
\* click; the effect of the screen, if that is there and if the record is new to
\* it, comes after and loads with what is so now.
AssignAnswers ==
    /\ assign # None
    /\ record' = [record EXCEPT ![assign.repo].assigned = assign.to]
    /\ active' = assign.repo
    /\ UNCHANGED <<exists, profile, screen, git, acts, moves>>
    /\ header' = GuardEffect(Now, Now')
    /\ centre' = IF screen = "safety-center" /\ <<record, active>>' # <<record, active>>
                 THEN Load(Now')
                 ELSE [Load(About(assign.repo, record'[assign.repo], assign.to, assign.known))
                         EXCEPT !.by = "click"]
    /\ assign' = None

AssignFails ==
    /\ assign # None /\ Fails
    /\ assign' = None
    /\ UNCHANGED <<app, git, centre, header, acts>>

-----------------------------------------------------------------------------
Init ==
    /\ record = [r \in Repos |-> [assigned |-> FirstAssigned[r], policy |-> None]]
    /\ exists = Profiles
    /\ active \in Repos /\ profile = FirstAssigned[active]
    /\ screen = "other"
    /\ identity = FirstIdentity
    /\ branch = [r \in Repos |-> CHOOSE b \in Branches : TRUE]
    /\ centre = NoLoad
    /\ header = Check(Now)
    /\ assign = None
    /\ acts = 0 /\ moves = 0

User ==
    \/ \E r \in Repos : PickRepo(r)
    \/ CloseRepo
    \/ \E p \in Profiles : SetProfile(p)
    \/ \E gone \in {{}} \union {{p} : p \in Profiles} : ListProfiles(gone)
    \/ \E to \in Maybe(Profiles), policy \in Policies : SaveRecord(to, policy)
    \/ \E b \in Maybe(Branches) : SwitchBranch(b)
    \/ OpenSafety \/ LeaveSafety \/ RefreshActiveRepo \/ AssignToActive
    \/ \E r \in Repos, id \in Identities : SetIdentity(r, id)

Answers ==
    \/ \E ok \in BOOLEAN : CentreReads(ok) \/ HeaderReads(ok)
    \/ CentreAnswers \/ CentreEnds \/ HeaderAnswers
    \/ AssignAnswers \/ AssignFails

Next == User \/ Answers
Spec == Init /\ [][Next]_vars

\* Every call is answered.
FairSpec == Spec /\ WF_vars(Answers)

-----------------------------------------------------------------------------
(* Properties.                                                             *)

Settled == centre.at = "idle" /\ header.at = "idle" /\ assign = None

\* headerGuardStore.ts, safetyCenterStore.ts: the badge and the Safety Center
\* "must never disagree on screen".  When both have settled and have read the
\* same identity, they are about the same repository, assignment and profile,
\* and the badge is blocked, under review or ready as the center has it.
NeverDisagree ==
    LET issues == IdentityIssues(centre.about.record, ProfileOf(centre.about.profile),
                                 centre.seen)
    IN  Settled /\ screen = "safety-center" /\ active # None
        /\ centre.seen # None /\ centre.seen = header.seen =>
          /\ Key(header.about) = Key(centre.about)
          /\ (header.state = "blocked") = HasBlocker(issues)
          /\ (header.state = "ready") = (issues = {})

\* safetyCenterStore.ts, GlobalHeader.tsx: with the Safety Center open and the
\* last load its own both are about what is active now, and a badge that the
\* application asked for always is.
BadgeOfActive ==
    /\ header.by = "app" => Key(header.about) = Key(Now)
    /\ Settled /\ screen = "safety-center" /\ active # None /\ centre.by = "screen" =>
          Key(header.about) = Key(Now) /\ centre.about = Now

\* Not so in general: a load that was under way when the Safety Center was left
\* asks for the badge of what was active then.
HeaderOfActive == header.at = "idle" => Key(header.about) = Key(Now)

\* SafetyCenterScreen.tsx: what the branch is called agrees with the verdict
\* beside it, which is reached another way: a branch shown as blocked cannot be
\* pushed, one shown as allowed is not held back by the policy.
Badge(policy, b) ==
    IF b = None \/ policy = None THEN "none"
    ELSE IF Matches(b, policy.blocked) THEN "blocked"
    ELSE IF policy.scoped /\ Matches(b, policy.allowed) THEN "allowed" ELSE "none"
To == [remotes |-> RemotesOf[centre.about.repo], branch |-> centre.branch, upstream |-> None,
       github |-> None, outgoing |-> None]
BadgeMatchesVerdict ==
    LET me == ProfileOf(centre.about.profile)
        held == {"PROTECTED_BRANCH_PUSH", "BRANCH_NOT_ALLOWED", "PUSH_POLICY_INCOMPLETE"}
                \intersect PushIssues(centre.about.record, me, centre.seen, To)
        shown == Badge(centre.about.record.policy, centre.branch)
    IN  Shown /\ centre.shown /\ centre.seen # None =>
          /\ shown = "blocked" => ~CenterPush(centre.about.record, me, centre.seen, To)
          /\ shown = "allowed" => held = {}

\* The Safety Center always stops loading, also when the check it waits for was
\* superseded, and the badge stops checking.
ChecksEnd == []<>(centre.at = "idle") /\ []<>(header.at = "idle")
=============================================================================
