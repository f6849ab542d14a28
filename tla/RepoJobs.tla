------------------------------ MODULE RepoJobs ------------------------------
(***************************************************************************)
(* The compound jobs that GitService and its IPC handlers run on one       *)
(* repository: commit, branch switches, creations and deletions, "bring    *)
(* changes and switch", fetch, pull, push, merge, and the two "return      *)
(* commit" actions.                                                        *)
(*                                                                         *)
(* GitRunner's queue for the repository is a FIFO of requests whose head   *)
(* is the job that runs: SerialQueue, which GitRunner is shown to          *)
(* implement.  Between two git invocations of a job only actors outside    *)
(* the queue act: the user who edits files or types git in a terminal,     *)
(* and other clones that push to the remote.                               *)
(***************************************************************************)
EXTENDS Git, Uncommit

CONSTANTS Requests,        \* IPC requests, each used once
          Nobody,          \* no branch expected; the user's own stash entries
          Ops,             \* the operations that are requested
          MaxCommits,      \* bound: commits in the repository
          TerminalActs,    \* bound: commands typed in a terminal
          TerminalMidJob,  \* whether the terminal may act inside a job
          CountMayFail     \* whether the rev-list of getUnpushedCount may fail

ASSUME NobodyAssumption == Nobody \notin Branches \union Requests
\* Init has up to three commits.
ASSUME BoundAssumption == MaxCommits \in Nat /\ MaxCommits >= 3
ASSUME OpsAssumption ==
    Ops \subseteq {"commit", "switch", "create", "delete", "forceDelete", "stashSwitch",
                   "fetch", "pull", "push", "merge", "returnLast", "returnAll"}

VARIABLES repo,       \* the repository
          job,        \* each request: what was asked and how far its job is
          queue,      \* the unsettled requests in call order, the head running
          made,       \* history: the edits the user has made
          forfeited,  \* history: edits given up by a forced branch deletion
          typed       \* terminal commands so far

vars == <<repo, job, queue, made, forfeited, typed>>

-----------------------------------------------------------------------------
WithExpected == {"pull", "merge", "returnLast", "returnAll"}
WithTarget == {"switch", "create", "delete", "forceDelete", "stashSwitch", "pull", "push", "merge"}
Uncommits == {"returnLast", "returnAll"}

Outcomes == {"none", "ok", "refused", "rejected", "conflict", "stashKept"}

NoContext == [unpushedCount |-> 0, hasUpstream |-> FALSE, workingTreeClean |-> FALSE,
              headIsMerge |-> FALSE, headIsRoot |-> FALSE, rangeHasMerge |-> FALSE,
              inProgressOp |-> FALSE, detachedHead |-> FALSE]

\* Mutant: HEAD is verified before the job is queued.
FirstStepUnverified(op) ==
    CASE op = "pull" -> "write"
      [] op \in WithExpected \ {"pull"} -> "status"
      [] op = "stashSwitch" -> "stash"
      [] op = "push" -> "probe"
      [] op = "commit" -> "commit"
      [] OTHER -> "write"

\* The first git invocation of each handler.
FirstStep(op) ==
    CASE op \in WithExpected -> "verify"
      [] op = "stashSwitch" -> "stash"
      [] op = "push" -> "probe"
      [] op = "commit" -> "commit"
      [] OTHER -> "write"

Steps == {"idle", "verify", "stash", "probe", "commit", "write", "hash", "status", "count",
          "rest", "reset", "switch", "pop", "restore", "settled"}

\* `flag` is stashSwitchPop's `stashed`, and the push's hasUpstream; `target` of
\* an uncommit is the branch whose upstream getStatus reported.
IdleJob == [pc |-> "idle", op |-> "none", expected |-> Nobody, target |-> Nobody,
            ctx |-> NoContext, flag |-> FALSE, outcome |-> "none"]

Active(r) == queue # <<>> /\ Head(queue) = r

\* The job that runs has made an invocation already.
MidJob == queue # <<>> /\ job[Head(queue)].pc # FirstStep(job[Head(queue)].op)

Tips(g) == {g.refs[b] : b \in Branches} \union {g.tracking[b] : b \in Branches}
             \union {g.remote[b] : b \in Branches}

Reachable(g) == UNION {Ancestors(g, c) : c \in Tips(g)}

StashedEdits(g) == UNION {g.stash[i].edits : i \in 1..Len(g.stash)}

Kept(g) == g.work \union StashedEdits(g) \union EditsIn(g, Reachable(g))

TypeOK ==
    /\ IsRepo(repo, Requests \union {Nobody})
    /\ \A r \in Requests :
          /\ job[r].pc \in Steps /\ job[r].op \in Ops \union {"none"}
          /\ job[r].expected \in Branches \union {Nobody}
          /\ job[r].target \in Branches \union {Nobody}
          /\ job[r].ctx \in Context(MaxCommits)
          /\ job[r].outcome \in Outcomes
          /\ job[r].outcome # "none" <=> job[r].pc = "settled"
    /\ \A i, j \in 1..Len(queue) : queue[i] = queue[j] => i = j
    /\ \A r \in Requests :
          (\E i \in 1..Len(queue) : queue[i] = r) <=> job[r].pc \notin {"idle", "settled"}
    /\ made \subseteq Edits /\ forfeited \subseteq made

PushedBranch(b) ==
    LET only == [x \in Branches |-> IF x = b THEN 1 ELSE 0]
    IN  [log |-> <<[first |-> 0, second |-> 0, edits |-> {}]>>,
         refs |-> only, tracking |-> only, remote |-> only, upstream |-> {b},
         head |-> b, work |-> {}, stash |-> <<>>, merging |-> 0]

\* A pushed branch; maybe an older entry in the user's stash, a local branch
\* with a commit of its own, or two commits that were not pushed.
Init ==
    /\ \E b \in Branches, e \in Edits :
          \/ repo = PushedBranch(b) /\ made = {}
          \/ /\ repo = [PushedBranch(b) EXCEPT !.stash = <<[owner |-> Nobody, edits |-> {e}]>>]
             /\ made = {e}
          \/ \E side \in Branches \ {b} :
                /\ repo = [PushedBranch(b) EXCEPT !.refs[side] = 2,
                             !.log = Append(@, [first |-> 1, second |-> 0, edits |-> {e}])]
                /\ made = {e}
          \/ /\ repo = [PushedBranch(b) EXCEPT !.refs[b] = 3,
                          !.log = @ \o <<[first |-> 1, second |-> 0, edits |-> {e}],
                                         [first |-> 2, second |-> 0, edits |-> Edits \ {e}]>>]
             /\ made = Edits
    /\ job = [r \in Requests |-> IdleJob]
    /\ queue = <<>>
    /\ forfeited = {}
    /\ typed = 0

-----------------------------------------------------------------------------
(* The renderer sends a request; it names the branch it shows, if it knows *)
(* one, and enqueueJob puts the job behind the ones before it.             *)
Submit(r, op, target, expected) ==
    /\ job[r].pc = "idle"
    /\ job' = [job EXCEPT ![r] = [IdleJob EXCEPT !.pc = FirstStep(op), !.op = op,
                                     !.target = target, !.expected = expected]]
    /\ queue' = Append(queue, r)
    /\ UNCHANGED <<repo, made, forfeited, typed>>

(* The job's promise settles, which releases the slot.                     *)
Settle(r, outcome) ==
    /\ job' = [job EXCEPT ![r].pc = "settled", ![r].outcome = outcome]
    /\ queue' = Tail(queue)

Proceed(r, step) ==
    /\ job' = [job EXCEPT ![r].pc = step]
    /\ UNCHANGED queue

Runs(r, step) == Active(r) /\ job[r].pc = step

\* A write invocation of the running job has one of git's outcomes.
Apply(out) ==
    /\ Len(out.repo.log) <= MaxCommits
    /\ repo' = out.repo
    /\ UNCHANGED <<made, typed>>

Result(out) == IF out.ok THEN "ok" ELSE "rejected"

(* verifyHeadBranch, the first step of pull, merge and both uncommits.     *)
VerifyHeadBranch(r) ==
    /\ Runs(r, "verify")
    /\ \/ /\ job[r].expected \notin {Nobody, repo.head}
          /\ Settle(r, "refused")
       \/ /\ job[r].expected \in {Nobody, repo.head}
          /\ Proceed(r, IF job[r].op = "pull" THEN "write" ELSE "status")
    /\ UNCHANGED <<repo, made, forfeited, typed>>

(* getStatus: the clean-tree check of a merge, and the first read of       *)
(* getUncommitContext.                                                     *)
ReadStatus(r) ==
    /\ Runs(r, "status")
    /\ \/ /\ job[r].op = "merge" /\ IsDirty(repo)
          /\ Settle(r, "refused")
       \/ /\ job[r].op = "merge" /\ ~IsDirty(repo)
          /\ Proceed(r, "write")
       \/ /\ job[r].op \in Uncommits
          /\ job' = [job EXCEPT ![r].pc = "count",
                                ![r].ctx.workingTreeClean = ~IsDirty(repo),
                                ![r].target = IF repo.head \in repo.upstream
                                              THEN repo.head ELSE Nobody]
          /\ UNCHANGED queue
    /\ UNCHANGED <<repo, made, forfeited, typed>>

(* getUnpushedCount.  The rev-list of <upstream>..HEAD is taken to fail    *)
(* only when the tracking ref is missing; any failure of it falls back to  *)
(* counting every commit of HEAD, with hasUpstream false.                  *)
ReadUnpushedCount(r) ==
    /\ Runs(r, "count")
    /\ LET up == job[r].target
           missing == IF up = Nobody THEN TRUE ELSE repo.tracking[up] = 0
       IN  \E fails \in {missing} \union (IF CountMayFail THEN {TRUE} ELSE {}) :
              job' = [job EXCEPT ![r].pc = "rest",
                        ![r].ctx.hasUpstream = ~fails,
                        ![r].ctx.unpushedCount = Cardinality(
                            IF fails THEN Ancestors(repo, Tip(repo))
                            ELSE CommitRange(repo, repo.tracking[up], Tip(repo)))]
    /\ UNCHANGED <<repo, queue, made, forfeited, typed>>

(* The other reads of getUncommitContext, on the range just counted.       *)
FullContext(r) ==
    LET ctx == job[r].ctx
        n == ctx.unpushedCount
        range == CommitRange(repo, FirstParent(repo, n), Tip(repo))
    IN  [ctx EXCEPT !.headIsMerge = IsMerge(repo, Tip(repo)),
                    !.headIsRoot = FirstParent(repo, 1) = 0,
                    !.inProgressOp = repo.merging # 0,
                    !.rangeHasMerge = ctx.hasUpstream /\ n >= 1
                                        /\ \E c \in range : IsMerge(repo, c)]

\* rev-list --merges HEAD~n..HEAD fails when HEAD~n does not resolve.
RangeUnresolved(r) ==
    /\ job[r].ctx.hasUpstream
    /\ job[r].ctx.unpushedCount >= 1
    /\ FirstParent(repo, job[r].ctx.unpushedCount) = 0

(* returnLastCommit and returnUnpushed decide on the context.              *)
MayReturn(op, ctx) ==
    \/ op = "returnLast" /\ CanReturnLast(ctx)
    \/ op = "returnAll" /\ CanReturnAllUnpushed(ctx)

Decide(r) ==
    /\ Runs(r, "rest")
    /\ \/ RangeUnresolved(r) /\ Settle(r, "rejected")
       \/ /\ ~RangeUnresolved(r)
          /\ ~MayReturn(job[r].op, FullContext(r))
          /\ Settle(r, "refused")
       \/ /\ ~RangeUnresolved(r)
          /\ MayReturn(job[r].op, FullContext(r))
          /\ job' = [job EXCEPT ![r].pc = "reset", ![r].ctx = FullContext(r)]
          /\ UNCHANGED queue
    /\ UNCHANGED <<repo, made, forfeited, typed>>

\* Mutant: one commit too few.
ReturnCountShort(r) ==
    IF job[r].op = "returnLast" \/ job[r].ctx.unpushedCount = 1
    THEN 1 ELSE job[r].ctx.unpushedCount - 1

ReturnCount(r) == IF job[r].op = "returnLast" THEN 1 ELSE job[r].ctx.unpushedCount

\* Mutant: reset --hard.
ResetHard(r) ==
    /\ Runs(r, "reset")
    /\ \E out \in ResetMixed(repo, ReturnCount(r)) :
          /\ Apply([out EXCEPT !.repo.work = IF out.ok THEN {} ELSE @])
          /\ Settle(r, Result(out))
    /\ UNCHANGED forfeited

(* resetMixed HEAD~1 or HEAD~returnAllCount.                               *)
Reset(r) ==
    /\ Runs(r, "reset")
    /\ \E out \in ResetMixed(repo, ReturnCount(r)) :
          Apply(out) /\ Settle(r, Result(out))
    /\ UNCHANGED forfeited

(* commit: git commit, then rev-parse HEAD, in one job.                    *)
CommitWrite(r) ==
    /\ Runs(r, "commit")
    /\ \E out \in Commit(repo) :
          /\ Apply(out)
          /\ \/ ~out.ok /\ Settle(r, "rejected")
             \/ /\ out.ok
                /\ Proceed(r, "hash")
    /\ UNCHANGED forfeited

CommitHash(r) ==
    /\ Runs(r, "hash")
    /\ Settle(r, "ok")
    /\ UNCHANGED <<repo, made, forfeited, typed>>

(* push: does the named branch have an upstream?                           *)
ProbeUpstream(r) ==
    /\ Runs(r, "probe")
    /\ job' = [job EXCEPT ![r].pc = "write",
                          ![r].flag = job[r].target \in repo.upstream
                                        /\ repo.tracking[job[r].target] # 0]
    /\ UNCHANGED <<repo, queue, made, forfeited, typed>>

(* The operations whose last step is one write, after which they settle.   *)
Writes(r, op, outs) ==
    /\ Runs(r, "write") /\ job[r].op = op
    /\ \E out \in outs : Apply(out) /\ Settle(r, Result(out))

RunSwitch(r) == Writes(r, "switch", Switch(repo, job[r].target)) /\ UNCHANGED forfeited
RunCreate(r) == Writes(r, "create", CreateBranch(repo, job[r].target)) /\ UNCHANGED forfeited

\* Mutant: deletion with branch -D.
RunDeleteForced(r) ==
    Writes(r, "delete", ForceDeleteBranch(repo, job[r].target)) /\ UNCHANGED forfeited

\* branch -d.
RunDelete(r) == Writes(r, "delete", DeleteBranch(repo, job[r].target)) /\ UNCHANGED forfeited

\* branch -D, behind the confirmation that it loses commits.
RunForceDelete(r) ==
    /\ Writes(r, "forceDelete", ForceDeleteBranch(repo, job[r].target))
    /\ forfeited' = forfeited \union (made \ Kept(repo'))

RunFetch(r) == Writes(r, "fetch", Fetch(repo)) /\ UNCHANGED forfeited
RunPull(r) == Writes(r, "pull", Pull(repo, job[r].target)) /\ UNCHANGED forfeited
RunMerge(r) == Writes(r, "merge", Merge(repo, repo.refs[job[r].target])) /\ UNCHANGED forfeited

\* -u unless the branch has an upstream.
RunPush(r) ==
    Writes(r, "push", Push(repo, job[r].target, ~job[r].flag)) /\ UNCHANGED forfeited

(* stashSwitchPop: stash push, and whether it reported a stash.            *)
StashStep(r) ==
    /\ Runs(r, "stash")
    /\ \E out \in StashPush(repo, r) :
          /\ Apply(out)
          /\ \/ ~out.ok /\ Settle(r, "rejected")
             \/ /\ out.ok
                /\ job' = [job EXCEPT ![r].pc = "switch",
                                      ![r].flag = Len(out.repo.stash) > Len(repo.stash)]
                /\ UNCHANGED queue
    /\ UNCHANGED forfeited

\* Mutants: no restore after a failed switch; a pop although nothing was stashed.
AfterSwitchNoRestore(r, ok) ==
    \/ (~job[r].flag \/ ~ok) /\ Settle(r, IF ok THEN "ok" ELSE "rejected")
    \/ job[r].flag /\ ok /\ Proceed(r, "pop")

AfterSwitchAlwaysPops(r, ok) == Proceed(r, IF ok THEN "pop" ELSE "restore")

(* What follows the switch: nothing was stashed, or pop, or restore.       *)
AfterSwitch(r, ok) ==
    \/ ~job[r].flag /\ Settle(r, IF ok THEN "ok" ELSE "rejected")
    \/ job[r].flag /\ Proceed(r, IF ok THEN "pop" ELSE "restore")

StashSwitch(r) ==
    /\ Runs(r, "switch")
    /\ \E out \in Switch(repo, job[r].target) : Apply(out) /\ AfterSwitch(r, out.ok)
    /\ UNCHANGED forfeited

(* The pop after a switch: a conflict leaves the stash and is reported.    *)
StashPopStep(r) ==
    /\ Runs(r, "pop")
    /\ \E out \in StashPop(repo) :
          Apply(out) /\ Settle(r, IF out.ok THEN "ok" ELSE "conflict")
    /\ UNCHANGED forfeited

(* The pop after a failed switch: the error says so if it fails as well.   *)
StashRestore(r) ==
    /\ Runs(r, "restore")
    /\ \E out \in StashPop(repo) :
          Apply(out) /\ Settle(r, IF out.ok THEN "rejected" ELSE "stashKept")
    /\ UNCHANGED forfeited

-----------------------------------------------------------------------------
(* Outside the queue.                                                      *)

UserEdits(e) ==
    /\ e \notin made
    /\ repo' = [repo EXCEPT !.work = @ \union {e}]
    /\ made' = made \union {e}
    /\ UNCHANGED <<job, queue, forfeited, typed>>

\* Another clone pushes a commit to a branch of the remote.
RemoteAdvances(b) ==
    /\ repo.remote[b] # 0
    /\ Len(repo.log) < MaxCommits
    /\ repo' = [repo EXCEPT
                  !.log = Append(@, [first |-> repo.remote[b], second |-> 0, edits |-> {}]),
                  !.remote[b] = Len(repo.log) + 1]
    /\ UNCHANGED <<job, queue, made, forfeited, typed>>

\* The user runs git in a terminal.
TerminalCommand ==
    /\ typed < TerminalActs
    /\ TerminalMidJob \/ ~MidJob
    /\ typed' = typed + 1
    /\ \E out \in Commit(repo) \union (UNION {Switch(repo, b) : b \in Branches})
                    \union StashPush(repo, Nobody) :
          /\ out.ok /\ out.repo # repo
          /\ Len(out.repo.log) <= MaxCommits
          /\ repo' = out.repo
    /\ UNCHANGED <<job, queue, made, forfeited>>

\* Callers may name the branch they show.  git:commit has no such field: the
\* model records the branch that was shown, and no step of a commit reads it.
Expectations(op) ==
    IF op \in WithExpected THEN {repo.head, Nobody}
    ELSE IF op = "commit" THEN {repo.head} ELSE {Nobody}
Targets(op) == IF op = "pull" THEN {repo.head} ELSE IF op \in WithTarget THEN Branches ELSE {Nobody}

Next ==
    \/ \E r \in Requests :
          \/ \E op \in Ops : \E t \in Targets(op), x \in Expectations(op) : Submit(r, op, t, x)
          \/ VerifyHeadBranch(r)
          \/ ReadStatus(r)
          \/ ReadUnpushedCount(r)
          \/ Decide(r)
          \/ Reset(r)
          \/ CommitWrite(r)
          \/ CommitHash(r)
          \/ ProbeUpstream(r)
          \/ RunSwitch(r)
          \/ RunCreate(r)
          \/ RunDelete(r)
          \/ RunForceDelete(r)
          \/ RunFetch(r)
          \/ RunPull(r)
          \/ RunPush(r)
          \/ RunMerge(r)
          \/ StashStep(r)
          \/ StashSwitch(r)
          \/ StashPopStep(r)
          \/ StashRestore(r)
    \/ \E e \in Edits : UserEdits(e)
    \/ \E b \in Branches : RemoteAdvances(b)
    \/ TerminalCommand

Spec == Init /\ [][Next]_vars

-----------------------------------------------------------------------------
(* Properties.                                                             *)

\* No operation loses work: every edit the user made is in the working tree,
\* in the stash or in a commit that a branch or origin still reaches, unless
\* it went with a branch whose deletion was forced (GitService.deleteBranch,
\* stashSwitchPop's "nothing is ever lost", resetMixed).
NothingLost == made \ forfeited \subseteq Kept(repo)

\* The state is well-typed, and no edit that the user has made is lost.
NothingIsLost == TypeOK /\ NothingLost

Owned(r) == {i \in 1..Len(repo.stash) : repo.stash[i].owner = r}

\* "Bring changes and switch" leaves no entry of its own in the stash unless it
\* says so: after success, and after a failed switch reported as just that,
\* the changes are out of the stash again.
StashReturned ==
    \A r \in Requests : job[r].outcome \in {"ok", "rejected"} => Owned(r) = {}

\* A step of the running job of r.
Step(r) == Active(r) /\ job'[r] # job[r]

\* `stash` is `older` with one entry of owner r on top.
HasOnTop(stash, older, r) == stash # <<>> /\ Head(stash).owner = r /\ Tail(stash) = older

\* A job pushes entries of its own on the stash, and a "bring changes and switch"
\* never pops an entry that it did not push, be it older than the job or pushed
\* by another one.
PopsOnlyItsOwn ==
    [][\A r \in Requests : Step(r) =>
          \/ repo'.stash = repo.stash
          \/ HasOnTop(repo'.stash, repo.stash, r)
          \/ HasOnTop(repo.stash, repo'.stash, r)]_vars

\* A pull, merge or return that names the branch its caller saw changes that
\* branch and no other, whatever was queued before it.
ActsOnExpectedBranch ==
    [][\A r \in Requests :
          Step(r) /\ job[r].op \in WithExpected /\ job[r].expected # Nobody =>
              \A b \in Branches \ {job[r].expected} : repo'.refs[b] = repo.refs[b]]_vars

Resets(r) == Step(r) /\ Runs(r, "reset") /\ repo'.refs # repo.refs

\* The commits that the reset takes off the branch.
Returned == CommitRange(repo, repo'.refs[repo.head], Tip(repo))

\* Neither return action takes back a commit that the branch's remote-tracking
\* branch has.
NeverReturnsPushed ==
    [][\A r \in Requests : Resets(r) /\ repo.head \in repo.upstream =>
          Returned \intersect Ancestors(repo, repo.tracking[repo.head]) = {}]_vars

\* "Return all unpushed" takes back every commit that the remote-tracking branch
\* does not have.
ReturnAllIsComplete ==
    [][\A r \in Requests : Resets(r) /\ job[r].op = "returnAll" =>
          Returned = CommitRange(repo, repo.tracking[repo.head], Tip(repo))]_vars

\* "No returning a merge commit or the root commit ... each is refused with a
\* plain message" (docs/plans/uncommit-to-changes-plan.md:144): what precedes
\* the reset of a return ends in a reset or a refusal, never in git's error.
RefusalsArePlain ==
    [][\A r \in Requests : Runs(r, "rest") /\ Step(r) => job'[r].outcome # "rejected"]_vars

\* "the in-queue verification every compound write performs immediately before
\* mutating" (GitService.verifyHeadBranch): a commit lands on the branch its
\* caller saw.
CommitsWhereSeen ==
    [][\A r \in Requests : Runs(r, "commit") /\ Step(r) /\ repo'.refs # repo.refs =>
          repo.head = job[r].expected]_vars
=============================================================================
