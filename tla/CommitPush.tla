------------------------------ MODULE CommitPush ------------------------------
(***************************************************************************)
(* CommitPushScreen with the stores behind it: commitStore, remoteStore    *)
(* and the chained Commit & Push of commitAndPushStore.  Two sheets ask    *)
(* before a push; each reads the commits going out and the token, and      *)
(* shows a verdict of SafetyGate.  Main runs what is confirmed in the      *)
(* repository's queue.                                                     *)
(*                                                                         *)
(* The message is always typed here (CommitDraft models it), the identity  *)
(* and the profile are in order, and only the newest load of a store is    *)
(* followed: the answers of the others are ignored by the code.  The       *)
(* buttons are guarded as the screen guards them; a sheet is modal, so a   *)
(* repository is not switched under it, but the keyboard leaves the screen.*)
(***************************************************************************)
EXTENDS SafetyGate, Sequences, Naturals

CONSTANTS Repos, Branches, Remotes,
          Start,       \* the repository active at first, and its branch
          RemotesOf,   \* the remotes of each repository
          Https,       \* the remotes that are of GitHub, over HTTPS
          Guarded,     \* the branches each repository's policy blocks
          Foreign,     \* where commits of another author are ahead at first
          Worktree,    \* the index columns of each repository at first
          NSlots,      \* bound: reads of the sheets pending at once
          MaxCommits,  \* bound: commits asked for
          MaxActs,     \* bound: acts of the user
          MaxMoves     \* bound: failures, and branches changed outside

Maybe(S) == S \union {None}
Slots == 1..NSlots
Ids == 1..MaxCommits
Sides == {"push", "cp"}

VARIABLES active, current,    \* appStore: the repository and the branch shown
          mounted,            \* the screen is shown
          head,               \* the branch checked out in each repository
          ahead,              \* whose commits a push of a branch would send
          index,              \* the index column of the changed files
          made, sent,         \* commits made; with the remotes they reached
          commit,             \* commitStore; newest: the commit or (0) load begun last
          remote,             \* remoteStore
          sheet,              \* the two sheets
          flow,               \* commitAndPushStore
          reads,              \* what the sheets have asked for
          jobs,               \* per repository, the queue of main
          settling,           \* commits whose second status is being read
          event,              \* the last push confirmed
          begun, acts, moves

stores == <<commit, remote, sheet, flow, reads>>
git == <<head, ahead, index, made, sent>>
bounds == <<begun, acts, moves>>
vars == <<active, current, mounted, git, stores, jobs, settling, event, bounds>>

-----------------------------------------------------------------------------
(* The data of the gate.                                                   *)

Me == [id |-> "me", author |-> <<"me", "me@work">>, hosts |-> {}, alias |-> None]
Identity == [name |-> "me", email |-> "me@work", scope |-> "local"]
AuthorOf(who) == IF who = "own" THEN Me.author ELSE <<"other", "other@home">>
Policy(r) == [scoped |-> FALSE, allowed |-> {}, blocked |-> {Guarded[r]},
              owner |-> None, repo |-> None, actor |-> None]
Repository(r) == [assigned |-> Me.id, policy |-> Policy(r)]
Remote(m) == [name |-> m, host |-> None, owner |-> m, repo |-> m]

\* computeGithubPushContext: `token` is what was read, None when nothing was.
GitHubContext(m, token) ==
    IF m \notin Https THEN None
    ELSE [login |-> "me", actual |-> "me", scope |-> TRUE, invalid |-> FALSE,
          token |-> token = "token"]

StagedFiles(columns) == columns \ {"unmodified", "untracked", "ignored", "conflicted"}

Work(columns) == [staged |-> StagedFiles(columns) # {}, message |-> TRUE,
                  conflicts |-> "conflicted" \in columns]

Closed == [open |-> FALSE, remote |-> None, choice |-> FALSE,
           out |-> None, outPending |-> FALSE, token |-> None, tokenPending |-> FALSE,
           read |-> None]
Idle == [stage |-> "idle", remote |-> None, hash |-> None, id |-> None, disturbed |-> FALSE]
Authors == SUBSET {"own", "foreign"}
Columns == {"modified", "untracked", "conflicted"}
Targets == Repos \X Branches \X Remotes

Read == [side : Sides, kind : {"out", "token"}, target : Targets]
Job == [op : {"commit", "push", "pull", "fetch"}, by : {"user", "flow", "retry"},
        id : Maybe(Ids), repo : Repos, remote : Maybe(Remotes), branch : Branches]
Failure == [op : {"push", "pull", "refused"}, remote : Maybe(Remotes), branch : Maybe(Branches)]

\* What the stores and the sheets hold.  view: the index columns of the status;
\* known: the remotes, or the remotes and the upstream; newest: see `commit`.
CommitState ==
    [repo : Repos, view : Maybe(SUBSET Columns), loading : BOOLEAN, busy : BOOLEAN,
     hash : Maybe(Ids), error : BOOLEAN, newest : 0..MaxCommits]
RemoteState ==
    [repo : Repos, known : {"nothing", "remotes", "all"}, loading : BOOLEAN,
     fetching : Maybe(Remotes), pulling : Maybe(Remotes), pushing : BOOLEAN,
     error : BOOLEAN, success : BOOLEAN, failure : Maybe(Failure), newest : {"load", "pull"}]
Sheet ==
    [open : BOOLEAN, remote : Maybe(Remotes), choice : BOOLEAN,
     out : Maybe(Authors), outPending : BOOLEAN,
     token : Maybe({"token"}), tokenPending : BOOLEAN, read : Maybe(Targets)]
Flow ==
    [stage : {"idle", "confirming", "committing", "pushing", "done", "commit-failed",
              "push-failed"},
     remote : Maybe(Remotes), hash : Maybe(Ids), id : Maybe(Ids), disturbed : BOOLEAN]

TypeOK ==
    /\ active \in Repos /\ current \in Branches /\ mounted \in BOOLEAN
    /\ head \in [Repos -> Branches]
    /\ ahead \in [Targets -> Authors]
    /\ made \subseteq Ids \X Repos \X Branches /\ sent \subseteq Ids \X Remotes
    /\ index \in [Repos -> SUBSET Columns]
    /\ commit \in CommitState /\ remote \in RemoteState
    /\ sheet \in [Sides -> Sheet] /\ flow \in Flow
    /\ reads \in [Slots -> Maybe(Read)]
    /\ \A r \in Repos : \A i \in DOMAIN jobs[r] : jobs[r][i] \in Job
    /\ settling \subseteq Job
    /\ begun \in 0..MaxCommits /\ acts \in 0..MaxActs /\ moves \in 0..MaxMoves

-----------------------------------------------------------------------------
(* What the screen shows.                                                  *)

CpStage == flow.stage \in {"committing", "pushing"}
CpSheetOpen == sheet["cp"].choice \/ flow.stage = "confirming"

\* The buttons that can be pressed: not while the screen loads or behind a sheet.
ContentShown ==
    mounted /\ ~commit.loading /\ ~remote.loading /\ ~sheet["push"].open /\ ~CpSheetOpen

Shown == IF remote.known = "nothing" THEN {} ELSE RemotesOf[remote.repo]

CommitVerdict ==
    commit.view # None /\ CanCommit(Repository(commit.repo), Me, Identity, Work(commit.view))

CpTarget == PickPushTarget({Remote(m) : m \in Shown}, None)

CommitOffered == ContentShown /\ CommitVerdict /\ ~commit.busy
CpOffered == ContentShown /\ CpTarget.kind # "none" /\ ~CpStage
FetchOffered(m) ==
    ContentShown /\ m \in Shown /\ remote.fetching # m /\ remote.pulling = None /\ ~remote.pushing
PullOffered(m) ==
    ContentShown /\ m \in Shown /\ remote.pulling # m /\ remote.fetching = None /\ ~remote.pushing
PushOffered(m) ==
    /\ ContentShown /\ m \in Shown
    /\ remote.fetching = None /\ remote.pulling = None /\ ~remote.pushing

\* The data a sheet hands to the gate; what is pending is withheld.
To(s) == [remotes |-> {Remote(s.remote)}, branch |-> current, upstream |-> None,
          github |-> IF s.tokenPending THEN None ELSE GitHubContext(s.remote, s.token),
          outgoing |-> IF s.outPending \/ s.out = None THEN None
                       ELSE {AuthorOf(w) : w \in s.out}]

\* Mutant: the commits going out are not shown to the gate.
UnreadVerdict(s) ==
    /\ remote.known = "all" /\ s.remote # None
    /\ CanPush(Repository(remote.repo), Me, Identity, [To(s) EXCEPT !.outgoing = None])

PushVerdict(s) ==
    /\ remote.known = "all" /\ s.remote # None
    /\ CanPush(Repository(remote.repo), Me, Identity, To(s))

CpVerdict(s) ==
    /\ commit.view # None /\ remote.known = "all" /\ s.remote # None
    /\ CanCommitAndPush(Repository(commit.repo), Me, Identity, Work(commit.view), To(s))

Verified(s) == ~s.tokenPending /\ ~s.outPending
PushConfirmOffered == LET s == sheet["push"] IN
    mounted /\ s.open /\ PushVerdict(s) /\ ~remote.pushing /\ Verified(s)
CpConfirmOffered == LET s == sheet["cp"] IN
    mounted /\ flow.stage = "confirming" /\ ~s.choice /\ CpVerdict(s) /\ Verified(s)

\* "Safe to push": no issue at all, and nothing pending.
SaysSafe == LET s == sheet["push"] IN
    /\ mounted /\ s.open /\ remote.known = "all" /\ Verified(s)
    /\ PushIssues(Repository(remote.repo), Me, Identity, To(s)) = {}

\* The remedy offered for the last failure.  Pushing again would use the same
\* credential where the profile assigned is the active one, over HTTPS.
Recovery ==
    IF remote.failure = None THEN "none"
    ELSE IF remote.failure.op = "refused" THEN "none"
    ELSE IF remote.failure.op = "pull" THEN ErrorAction("divergentBranches")
    ELSE IF sheet["push"].remote \in Https THEN ErrorAction("authenticationFailed")
    ELSE ErrorAction("pushRejectedWrongAccount")
RecoveryOffered == ContentShown /\ remote.failure # None

-----------------------------------------------------------------------------
(* Loads.                                                                  *)

BeginCommitLoad(r) ==
    [commit EXCEPT !.repo = r, !.view = None, !.loading = TRUE, !.error = FALSE,
                   !.hash = IF commit.repo = r THEN @ ELSE None, !.newest = 0]

\* The outcome of an operation outlives a reload of the same repository.
BeginRemoteLoad(s, r) ==
    [s EXCEPT !.repo = r, !.known = "nothing", !.loading = TRUE, !.error = FALSE,
              !.success = s.repo = r /\ @,
              !.failure = IF s.repo = r THEN @ ELSE None, !.newest = "load"]

\* Both stores are loaded when the screen appears, and when the repository or
\* the branch changes under it.
LoadBoth(r) == commit' = BeginCommitLoad(r) /\ remote' = BeginRemoteLoad(remote, r)

Disturb == flow' = [flow EXCEPT !.disturbed = flow.stage # "idle"]
DisturbIf(b) == IF b THEN Disturb ELSE UNCHANGED flow

Fails == moves < MaxMoves /\ moves' = moves + 1

CommitLoaded(ok) ==
    /\ commit.loading /\ commit.newest = 0
    /\ commit' = [commit EXCEPT !.loading = FALSE, !.error = ~ok,
                      !.view = IF ok THEN index[commit.repo] ELSE @]
    /\ IF ok THEN UNCHANGED <<moves, flow>> ELSE Fails /\ Disturb
    /\ UNCHANGED <<active, current, mounted, git, remote, sheet, reads, jobs, settling,
                   event, begun, acts>>

\* The remotes, the upstream and the identity are read together; a read that
\* fails leaves its part empty.  The branch found is shown, through branchStore,
\* and a branch that is new to the screen reloads both stores.
RemoteLoaded(known) ==
    LET r == remote.repo
        answered == [remote EXCEPT !.loading = FALSE, !.known = known, !.error = known # "all"]
        news == r = active /\ head[r] # current
    IN  /\ remote.loading /\ remote.newest = "load"
        /\ IF news THEN current' = head[r] ELSE UNCHANGED current
        /\ remote' = IF news /\ mounted THEN BeginRemoteLoad(answered, r) ELSE answered
        /\ commit' = IF news /\ mounted THEN BeginCommitLoad(r) ELSE commit
        /\ IF known = "all" THEN UNCHANGED <<moves, flow>> ELSE Fails /\ Disturb
        /\ UNCHANGED <<active, mounted, git, sheet, reads, jobs, settling, event, begun, acts>>

-----------------------------------------------------------------------------
(* The repository, the branch and the screen change.                       *)

Act == acts < MaxActs /\ acts' = acts + 1

SwitchRepo(r) ==
    /\ Act /\ r # active /\ ~sheet["push"].open /\ ~CpSheetOpen
    /\ active' = r /\ current' = head[r]
    /\ IF mounted THEN LoadBoth(r) ELSE UNCHANGED <<commit, remote>>
    /\ Disturb
    /\ UNCHANGED <<mounted, git, sheet, reads, jobs, settling, event, begun, moves>>

\* Another program checks out a branch; the screen hears of it later.
CheckOut(b) ==
    /\ Fails /\ b # head[active]
    /\ head' = [head EXCEPT ![active] = b]
    /\ Disturb
    /\ UNCHANGED <<active, current, mounted, ahead, index, made, sent, commit, remote, sheet,
                   reads, jobs, settling, event, begun, acts>>

SeeBranch ==
    /\ current # head[active]
    /\ current' = head[active]
    /\ IF mounted THEN LoadBoth(active) ELSE UNCHANGED <<commit, remote>>
    /\ UNCHANGED <<active, mounted, git, sheet, flow, reads, jobs, settling, event, bounds>>

\* The sheets are state of the screen and go with it; the flow stays.
Leave ==
    /\ Act /\ mounted
    /\ mounted' = FALSE
    /\ sheet' = [x \in Sides |-> Closed]
    /\ reads' = [q \in Slots |-> None]
    /\ UNCHANGED <<active, current, git, commit, remote, flow, jobs, settling, event, begun, moves>>

Return ==
    /\ ~mounted
    /\ mounted' = TRUE
    /\ LoadBoth(active)
    /\ UNCHANGED <<active, current, git, sheet, flow, reads, jobs, settling, event, bounds>>

-----------------------------------------------------------------------------
(* The sheets and what they read.                                          *)

Free == {q \in Slots : reads[q] = None}
Take(k) == CHOOSE F \in SUBSET Free : Cardinality(F) = k

\* fetchPushPreflight, for a sheet opened on a remote.
Preflight(side, m) ==
    LET kinds == IF m \in Https THEN <<"out", "token">> ELSE <<"out">>
        target == <<remote.repo, current, m>>
    IN  /\ Cardinality(Free) >= Len(kinds)
        /\ LET taken == Take(Len(kinds)) IN
           reads' = [q \in Slots |->
                       IF q \in taken
                       THEN [side |-> side, target |-> target,
                             kind |-> kinds[1 + Cardinality({p \in taken : p < q})]]
                       ELSE reads[q]]
        /\ sheet' = [sheet EXCEPT ![side] =
                        [Closed EXCEPT !.open = TRUE, !.remote = m, !.outPending = TRUE,
                                       !.tokenPending = m \in Https]]

\* The answer goes to the sheet as it is now, whatever it was opened for.
OutgoingRead(q, ok) ==
    LET c == reads[q] IN
    /\ c # None /\ c.kind = "out"
    /\ reads' = [reads EXCEPT ![q] = None]
    /\ sheet' = [sheet EXCEPT ![c.side].outPending = FALSE,
                              ![c.side].out = IF ok THEN ahead[c.target] ELSE @,
                              ![c.side].read = IF ok THEN c.target ELSE @]
    /\ IF ok THEN UNCHANGED moves ELSE Fails
    /\ UNCHANGED <<active, current, mounted, git, commit, remote, flow, jobs, settling, event,
                   begun, acts>>

TokenRead(q, ok) ==
    LET c == reads[q] IN
    /\ c # None /\ c.kind = "token"
    /\ reads' = [reads EXCEPT ![q] = None]
    /\ sheet' = [sheet EXCEPT ![c.side].tokenPending = FALSE,
                              ![c.side].token = IF ok THEN "token" ELSE @]
    /\ IF ok THEN UNCHANGED moves ELSE Fails
    /\ UNCHANGED <<active, current, mounted, git, commit, remote, flow, jobs, settling, event,
                   begun, acts>>

OpenPush(m) ==
    /\ Act /\ PushOffered(m)
    /\ Preflight("push", m)
    /\ remote' = [remote EXCEPT !.error = FALSE, !.success = FALSE, !.failure = None]
    /\ UNCHANGED <<active, current, mounted, git, commit, flow, jobs, settling, event, begun, moves>>

ClosePush ==
    /\ Act /\ sheet["push"].open
    /\ sheet' = [sheet EXCEPT !["push"] = Closed]
    /\ UNCHANGED <<active, current, mounted, git, commit, remote, flow, reads, jobs, settling,
                   event, begun, moves>>

\* A stage that has ended is dismissed first.
OpenFlow(m) == flow' = [Idle EXCEPT !.stage = "confirming", !.remote = m]

OpenCp ==
    /\ Act /\ CpOffered
    /\ IF CpTarget.kind = "remote"
       THEN /\ Preflight("cp", CpTarget.remote)
            /\ OpenFlow(CpTarget.remote)
       ELSE /\ sheet' = [sheet EXCEPT !["cp"].choice = TRUE]
            /\ flow' = Idle
            /\ UNCHANGED reads
    /\ UNCHANGED <<active, current, mounted, git, commit, remote, jobs, settling, event, begun, moves>>

PickRemote(m) ==
    /\ Act /\ mounted /\ sheet["cp"].choice /\ m \in Shown
    /\ Preflight("cp", m)
    /\ OpenFlow(m)
    /\ UNCHANGED <<active, current, mounted, git, commit, remote, jobs, settling, event, begun, moves>>

CancelCp ==
    /\ Act /\ mounted /\ CpSheetOpen
    /\ sheet' = [sheet EXCEPT !["cp"] = Closed]
    /\ flow' = Idle
    /\ UNCHANGED <<active, current, mounted, git, commit, remote, reads, jobs, settling, event,
                   begun, moves>>

-----------------------------------------------------------------------------
(* What is confirmed is queued in main.                                    *)

Enqueue(r, op, by, id, m, b) ==
    [jobs EXCEPT ![r] = Append(@, [op |-> op, by |-> by, id |-> id, repo |-> r,
                                   remote |-> m, branch |-> b])]

\* Commits pending, whose outcome the stores will tell.
Committing == {i \in Ids : \/ \E j \in settling : j.id = i
                           \/ \E r \in Repos : \E k \in DOMAIN jobs[r] : jobs[r][k].id = i}

\* doCommit, for the repository of the store.  `m` is where a push follows.
DoCommit(by, m) ==
    /\ begun < MaxCommits /\ begun' = begun + 1
    /\ commit' = [commit EXCEPT !.busy = TRUE, !.error = FALSE, !.hash = None,
                                !.newest = begun + 1]
    /\ jobs' = Enqueue(commit.repo, "commit", by, begun + 1, m, current)

Commit ==
    /\ Act /\ CommitOffered
    /\ DoCommit("user", None)
    /\ Disturb
    /\ UNCHANGED <<active, current, mounted, git, remote, sheet, reads, settling, event, moves>>

\* What a push of the branch shown would send now, and whether the sheet's list
\* of authors was read for this very push.
Confirmed(side) ==
    LET s == sheet[side] target == <<remote.repo, current, s.remote>> IN
    event' = [side |-> side, read |-> s.read = target, foreign |-> "foreign" \in ahead[target]]

\* doRemotePush, for the repository of the store.
PushBegun == [remote EXCEPT !.pushing = TRUE, !.error = FALSE, !.success = FALSE,
                            !.failure = None]

ConfirmPush ==
    /\ Act /\ PushConfirmOffered
    /\ remote' = PushBegun
    /\ jobs' = Enqueue(remote.repo, "push", "user", None, sheet["push"].remote, current)
    /\ sheet' = [sheet EXCEPT !["push"].open = FALSE]
    /\ Confirmed("push")
    /\ UNCHANGED <<active, current, mounted, git, commit, flow, reads, settling, begun, moves>>

ConfirmCp ==
    /\ Act /\ CpConfirmOffered
    /\ DoCommit("flow", flow.remote)
    /\ flow' = [flow EXCEPT !.stage = "committing", !.id = begun + 1,
                            !.disturbed = Committing # {} \/ current # head[commit.repo]]
    /\ Confirmed("cp")
    /\ UNCHANGED <<active, current, mounted, git, remote, sheet, reads, settling, moves>>

Fetch(m) ==
    /\ Act /\ FetchOffered(m)
    /\ remote' = [remote EXCEPT !.fetching = m, !.error = FALSE, !.success = FALSE]
    /\ jobs' = Enqueue(remote.repo, "fetch", "user", None, m, current)
    /\ Disturb
    /\ UNCHANGED <<active, current, mounted, git, commit, sheet, reads, settling, event,
                   begun, moves>>

Pull(m) ==
    /\ Act /\ PullOffered(m)
    /\ remote' = [remote EXCEPT !.pulling = m, !.error = FALSE, !.success = FALSE,
                                !.failure = None, !.newest = "pull"]
    /\ jobs' = Enqueue(remote.repo, "pull", "user", None, m, current)
    /\ Disturb
    /\ UNCHANGED <<active, current, mounted, git, commit, sheet, reads, settling, event,
                   begun, moves>>

\* The banner acts on the repository shown and on what failed, past the gate.
\* A failure of the remedy itself has lost its remote and branch: what the
\* screen shows stands in.  (The button waits for one answer at a time; that it
\* is new when the screen appears again is left out.)
Retry ==
    LET f == remote.failure
        m == IF f.remote # None THEN f.remote ELSE sheet["push"].remote
    IN  /\ Act /\ RecoveryOffered
        /\ \A r \in Repos : \A k \in DOMAIN jobs[r] : jobs[r][k].by # "retry"
        /\ \/ Recovery = "switch-profile-and-retry-push"
           \/ Recovery = "merge-remote-into-local" /\ m # None
        /\ jobs' = Enqueue(remote.repo, f.op, "retry", None, IF m # None THEN m ELSE Origin,
                           IF f.branch # None THEN f.branch ELSE current)
        /\ UNCHANGED <<active, current, mounted, git, stores, settling, event, begun, moves>>

-----------------------------------------------------------------------------
(* Main runs the job at the head of a queue, and the screen is answered.   *)

Job1(r) == jobs[r][1]
Has(r, op) == jobs[r] # <<>> /\ Job1(r).op = op
Dequeued(r) == [jobs EXCEPT ![r] = Tail(@)]

\* Mutant: the push follows whatever came of the commit.
PushAnyway(job, store, queues) ==
    IF job.by # "flow"
    THEN jobs' = queues /\ UNCHANGED <<flow, remote>>
    ELSE /\ flow' = [flow EXCEPT !.stage = "pushing", !.hash = job.id]
         /\ remote' = PushBegun
         /\ jobs' = [queues EXCEPT ![remote.repo] =
                       Append(@, [op |-> "push", by |-> "flow", id |-> None,
                                  repo |-> remote.repo, remote |-> job.remote,
                                  branch |-> job.branch])]

\* What confirm() does once the commit has ended: it looks at the hash in the
\* store, and pushes from the repository remoteStore is on by then.
AfterCommit(job, store, queues) ==
    IF job.by # "flow"
    THEN jobs' = queues /\ UNCHANGED <<flow, remote>>
    ELSE IF store.hash = None
    THEN /\ flow' = [flow EXCEPT !.stage = "commit-failed"]
         /\ jobs' = queues /\ UNCHANGED remote
    ELSE /\ flow' = [flow EXCEPT !.stage = "pushing", !.hash = store.hash]
         /\ remote' = PushBegun
         /\ jobs' = [queues EXCEPT ![remote.repo] =
                       Append(@, [op |-> "push", by |-> "flow", id |-> None,
                                  repo |-> remote.repo, remote |-> job.remote,
                                  branch |-> job.branch])]

CommitRuns(r, ok) ==
    LET job == Job1(r) staged == StagedFiles(index[r]) IN
    /\ Has(r, "commit")
    /\ IF ok \/ staged = {} THEN UNCHANGED moves ELSE Fails
    /\ IF ok /\ staged # {}
       THEN /\ made' = made \union {<<job.id, r, head[r]>>}
            /\ index' = [index EXCEPT ![r] = @ \ staged]
            /\ ahead' = [t \in Targets |->
                           IF t[1] = r /\ t[2] = head[r] THEN ahead[t] \union {"own"}
                                                        ELSE ahead[t]]
            /\ commit' = [commit EXCEPT !.hash = job.id]
            /\ settling' = settling \union {job}
            /\ jobs' = Dequeued(r)
            /\ UNCHANGED <<flow, remote>>
       ELSE /\ commit' = [commit EXCEPT !.error = TRUE, !.busy = FALSE]
            /\ AfterCommit(job, commit, Dequeued(r))
            /\ UNCHANGED <<made, index, ahead, settling>>
    /\ UNCHANGED <<active, current, mounted, head, sent, sheet, reads, event, begun, acts>>

\* The status is read again, and kept if nothing newer was asked for.
CommitSettles(job) ==
    /\ job \in settling
    /\ settling' = settling \ {job}
    /\ commit' = [commit EXCEPT !.busy = FALSE,
                      !.view = IF commit.newest = job.id THEN index[job.repo] ELSE @]
    /\ AfterCommit(job, commit', jobs)
    /\ UNCHANGED <<active, current, mounted, git, sheet, reads, event, bounds>>

\* A push that has run: what confirm() finds is the store's error, whoever set it.
AfterPush(job, store) ==
    flow' = IF job.by # "flow" THEN flow
            ELSE [flow EXCEPT !.stage = IF store.error THEN "push-failed" ELSE "done"]

PushRuns(r, ok) ==
    LET job == Job1(r)
        failed == IF job.by = "retry" THEN [op |-> "push", remote |-> None, branch |-> None]
                  ELSE [op |-> "push", remote |-> job.remote, branch |-> job.branch]
    IN  /\ Has(r, "push")
        /\ jobs' = Dequeued(r)
        /\ IF ok
           THEN /\ ahead' = [ahead EXCEPT ![<<r, job.branch, job.remote>>] = {}]
                /\ sent' = sent \union {<<c[1], job.remote>> :
                               c \in {x \in made : x[2] = r /\ x[3] = job.branch}}
                /\ UNCHANGED moves
           ELSE Fails /\ UNCHANGED <<ahead, sent>>
        /\ IF job.by # "retry"
           THEN /\ remote' = [remote EXCEPT !.pushing = FALSE, !.success = ok \/ @,
                                !.error = ~ok \/ @, !.failure = IF ok THEN @ ELSE failed]
                /\ UNCHANGED commit
           ELSE IF ok
           THEN /\ remote' = BeginRemoteLoad([remote EXCEPT !.success = FALSE, !.failure = None],
                                            active)
                /\ commit' = BeginCommitLoad(active)
           ELSE /\ remote' = [remote EXCEPT !.error = TRUE, !.failure = failed]
                /\ UNCHANGED commit
        /\ AfterPush(job, remote')
        /\ UNCHANGED <<active, current, mounted, head, index, made, sheet, reads, settling,
                       event, begun, acts>>

Bring(brings) ==
    /\ ahead' = [t \in Targets |-> IF t \in brings THEN ahead[t] \union {"foreign"} ELSE ahead[t]]
    /\ sheet' = [x \in Sides |-> IF sheet[x].read \in brings
                                  THEN [sheet[x] EXCEPT !.read = None] ELSE sheet[x]]

\* A pull brings commits of others: they are ahead of every other remote.  It
\* refuses a branch that is no longer the one checked out.
PullRuns(r, ok) ==
    LET job == Job1(r)
        here == job.branch = head[r]
        failed == [op |-> "pull", remote |-> job.remote, branch |-> job.branch]
    IN  /\ Has(r, "pull") /\ job.by = "user"
        /\ jobs' = Dequeued(r)
        /\ IF ok \/ ~here THEN UNCHANGED moves ELSE Fails
        /\ IF ok /\ here
           THEN /\ Bring({<<r, head[r], m>> : m \in Remotes \ {job.remote}})
                /\ remote' = [remote EXCEPT !.pulling = None, !.success = TRUE]
                /\ UNCHANGED flow
           ELSE /\ remote' = [remote EXCEPT !.error = TRUE, !.failure = failed, !.pulling = None]
                /\ Disturb
                /\ UNCHANGED <<ahead, sheet>>
        /\ UNCHANGED <<active, current, mounted, head, index, made, sent, commit, reads, settling,
                       event, begun, acts>>

\* The remedy for a failed pull merges what the last fetch brought, into the
\* branch checked out by now, and only into a clean tree.  A merge may conflict.
MergeRuns(r, ok) ==
    LET job == Job1(r)
        clean == index[r] = {}
        refused == [op |-> "refused", remote |-> None, branch |-> None]
    IN  /\ Has(r, "pull") /\ job.by = "retry"
        /\ jobs' = Dequeued(r)
        /\ IF ok \/ ~clean THEN UNCHANGED moves ELSE Fails
        /\ IF ok /\ clean
           THEN /\ Bring({<<r, head[r], m>> : m \in Remotes \ {job.remote}})
                /\ remote' = BeginRemoteLoad([remote EXCEPT !.success = FALSE, !.failure = None],
                                             active)
                /\ commit' = BeginCommitLoad(active)
                /\ UNCHANGED index
           ELSE /\ index' = IF clean THEN [index EXCEPT ![r] = {"conflicted"}] ELSE index
                /\ remote' = [remote EXCEPT !.error = TRUE, !.failure = refused]
                /\ UNCHANGED <<ahead, sheet, commit>>
        /\ UNCHANGED <<active, current, mounted, head, made, sent, flow, reads, settling,
                       event, begun, acts>>

FetchRuns(r, ok) ==
    /\ Has(r, "fetch")
    /\ jobs' = Dequeued(r)
    /\ LET ended == [remote EXCEPT !.fetching = None, !.success = ok \/ @, !.error = ~ok \/ @] IN
       remote' = IF ok /\ remote.repo = r THEN BeginRemoteLoad(ended, r) ELSE ended
    /\ IF ok THEN UNCHANGED <<moves, flow>> ELSE Fails /\ Disturb
    /\ UNCHANGED <<active, current, mounted, git, commit, sheet, reads, settling, event,
                   begun, acts>>

-----------------------------------------------------------------------------

Init ==
    /\ active = Start[1] /\ current = Start[2] /\ mounted = TRUE
    /\ head = [r \in Repos |-> Start[2]]
    /\ ahead = [t \in Targets |-> IF t \in Foreign THEN {"foreign"} ELSE {}]
    /\ index = Worktree
    /\ made = {} /\ sent = {}
    /\ commit = [repo |-> active, view |-> Worktree[active], loading |-> FALSE, busy |-> FALSE,
                 hash |-> None, error |-> FALSE, newest |-> 0]
    /\ remote = [repo |-> active, known |-> "all", loading |-> FALSE, fetching |-> None,
                 pulling |-> None, pushing |-> FALSE, error |-> FALSE, success |-> FALSE,
                 failure |-> None, newest |-> "load"]
    /\ sheet = [x \in Sides |-> Closed]
    /\ flow = Idle
    /\ reads = [q \in Slots |-> None]
    /\ jobs = [r \in Repos |-> <<>>] /\ settling = {}
    /\ event = [side |-> None, read |-> FALSE, foreign |-> FALSE]
    /\ begun = 0 /\ acts = 0 /\ moves = 0

User ==
    \/ \E r \in Repos : SwitchRepo(r)
    \/ Leave \/ Return
    \/ \E m \in Remotes : OpenPush(m) \/ PickRemote(m) \/ Fetch(m) \/ Pull(m)
    \/ ClosePush \/ OpenCp \/ CancelCp
    \/ Commit \/ ConfirmPush \/ ConfirmCp \/ Retry

Background ==
    \/ \E ok \in BOOLEAN : CommitLoaded(ok)
    \/ \E known \in {"nothing", "remotes", "all"} : RemoteLoaded(known)
    \/ SeeBranch
    \/ \E q \in Slots, ok \in BOOLEAN : OutgoingRead(q, ok) \/ TokenRead(q, ok)
    \/ \E r \in Repos, ok \in BOOLEAN :
          CommitRuns(r, ok) \/ PushRuns(r, ok) \/ FetchRuns(r, ok)
          \/ PullRuns(r, ok) \/ MergeRuns(r, ok)
    \/ \E job \in settling : CommitSettles(job)

Next == User \/ (\E b \in Branches : CheckOut(b)) \/ Background

\* Every request is answered, and what main has queued runs.
FairSpec == Init /\ [][Next]_vars /\ WF_vars(Background)

-----------------------------------------------------------------------------
(* Properties.                                                             *)

\* A push confirmed in either sheet sends no commit of another author, when the
\* sheet has read the commits of that very push and none has come since: the
\* gate that keeps a wrong author from leaving holds through closing, opening
\* again, reloads and failures (AuthorIssues, fetchPushPreflight).
OnlyOwnConfirmed == event.read => ~event.foreign

\* What Commit & Push says has happened has happened, when nothing else touched
\* the stores it reads its outcome from: "done" only for a commit of its own
\* that has reached the remote, "commit failed" only without a commit, "push
\* failed" only with one.
FlowTellsTruth ==
    LET own == {c \in made : c[1] = flow.id} IN
    ~flow.disturbed =>
        /\ flow.stage \in {"pushing", "done", "push-failed"} => own # {} /\ flow.hash = flow.id
        /\ flow.stage = "done" => <<flow.id, flow.remote>> \in sent
        /\ flow.stage = "commit-failed" => own = {}

\* Commit & Push comes to an end once confirmed, whatever fails on the way.
FlowEnded == flow.stage \notin {"committing", "pushing"}
FlowEnds == flow.stage = "committing" ~> FlowEnded

\* No load hides the screen for ever: the operations that make a store ignore
\* the load under way cannot be started while it is.
Loading == commit.loading \/ remote.loading
LoadingEnds == Loading ~> ~Loading

\* "Safe to push" is said only after the commits going out were read.
SafeOnlyIfRead == SaysSafe => sheet["push"].out # None
=============================================================================
