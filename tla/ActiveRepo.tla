----------------------------- MODULE ActiveRepo -----------------------------
(***************************************************************************)
(* The active repository and its branch list, as the window shows them:    *)
(* appStore, branchStore, the branch picker of GlobalHeader, BranchesScreen *)
(* and refreshActiveRepo in the renderer; RepoWatcherService in main; and  *)
(* a terminal that moves HEAD behind the program's back.                   *)
(*                                                                         *)
(* Each operation of branchStore is an async function: it sends a request, *)
(* main answers when git has run, and the renderer receives the answer     *)
(* later, in any order.  All of them share one request tracker, so at most *)
(* one request is current; `current` says that of each pending request.    *)
(***************************************************************************)
EXTENDS Naturals, FiniteSets

CONSTANTS Repos, Branches,
          First,      \* the repository at the head of the list
          Main,       \* the branch checked out at first
          None,       \* no repository, no branch
          Held,       \* <<repo, branch>>: held by a worktree that is gone
          NSlots,     \* bound: the requests that may be pending at once
          MaxActs,    \* bound: acts of the user
          MaxMoves,   \* bound: what the terminal does
          Refusable   \* the operations that may fail

ASSUME NoneAssumption == None \notin Repos \union Branches
ASSUME FirstAssumption == First \in Repos /\ Main \in Branches
ASSUME HeldAssumption == Held \subseteq Repos \X (Branches \ {Main})
ASSUME BoundsAssumption == {NSlots, MaxActs, MaxMoves} \subseteq Nat

VARIABLES head, refs, held,  \* git: HEAD's branch, the branches, the held ones
          active, currentBranch, screen,         \* appStore
          shown,       \* branchStore, as BranchesScreen and the header read it
          calls,       \* the requests of branchStore that are pending
          asked,       \* the last repo:watch or repo:unwatch not served yet
          watch,       \* main: the repository watched, a change not yet seen
          event,       \* a repo:changed event is on its way to the renderer
          acts, moves, \* what the user and the terminal did so far
          unmerged     \* history: deletions that git refused as not merged

\* shown.of is a history field too: the repository of the last answer painted.

disk == <<head, refs, held>>
app == <<active, currentBranch, screen>>
watcher == <<asked, watch, event>>
vars == <<head, refs, held, active, currentBranch, screen, shown, calls,
          asked, watch, event, acts, moves, unmerged>>

-----------------------------------------------------------------------------
Ops == {"load", "switch", "bring", "create", "delete", "force", "merge", "prune"}
Switches == {"switch", "bring"}
Slots == 1..NSlots
Maybe(S) == S \union {None}

\* What getBranches reports: `branches` is empty before the first answer.
Lists == [names : SUBSET Branches, current : Maybe(Branches), held : SUBSET Branches]
NoList == [names |-> {}, current |-> None, held |-> {}]
ListOf(r) == [names |-> refs[r], current |-> head[r],
              held |-> {b \in refs[r] : <<r, b>> \in held /\ b # head[r]}]

\* The outcomes of operations, and the armed confirmations.
Outcomes == {"switchError", "stashPopConflict", "mergeConflict"}
Confirms == {"delete", "force", "merge"}
NoOutcome == [o \in Outcomes |-> None]
Unarmed == [c \in Confirms |-> None]

Idle == [at |-> "idle"]
\* at: git works, its outcome travels, the list is read, the list travels.
Pending == [at : {"work", "worked", "list", "listed"}, op : Ops,
            repo : Repos, arg : Maybe(Branches), expect : Maybe(Branches),
            answer : {"", "ok", "error", "unmerged", "conflict"},
            list : Lists, current : BOOLEAN]

TypeOK ==
    /\ head \in [Repos -> Maybe(Branches)]
    /\ refs \in [Repos -> SUBSET Branches]
    /\ held \subseteq Held
    /\ active \in Maybe(Repos)
    /\ currentBranch \in Maybe(Branches)
    /\ screen \in {"branches", "other"}
    /\ shown \in [repo : Maybe(Repos), list : Lists, of : Maybe(Repos),
                  loading : BOOLEAN, failed : BOOLEAN, switching : BOOLEAN,
                  out : [Outcomes -> Maybe(Branches)],
                  armed : [Confirms -> Maybe(Branches)]]
    /\ calls \in [Slots -> Pending \union {Idle}]
    /\ asked \in [repo : Maybe(Repos), pending : BOOLEAN]
    /\ watch \in [repo : Maybe(Repos), unseen : BOOLEAN]
    /\ event \in BOOLEAN
    /\ acts \in 0..MaxActs /\ moves \in 0..MaxMoves
    /\ unmerged \subseteq Repos \X Branches

\* The stores are read, nothing is active yet; every branch exists.
Init ==
    /\ head = [r \in Repos |-> Main]
    /\ refs = [r \in Repos |-> Branches]
    /\ held = Held
    /\ active = None /\ currentBranch = None
    /\ screen = "other"
    /\ shown = [repo |-> None, list |-> NoList, of |-> None,
                loading |-> FALSE, failed |-> FALSE, switching |-> FALSE,
                out |-> NoOutcome, armed |-> Unarmed]
    /\ calls = [q \in Slots |-> Idle]
    /\ asked = [repo |-> None, pending |-> FALSE]
    /\ watch = [repo |-> None, unseen |-> FALSE]
    /\ event = FALSE
    /\ acts = 0 /\ moves = 0
    /\ unmerged = {}

-----------------------------------------------------------------------------
(* Requests.                                                               *)

Waiting == {q \in Slots : calls[q] # Idle}
Room == Waiting # Slots
FreeSlot == CHOOSE q \in Slots : calls[q] = Idle /\ \A p \in Slots : p < q => calls[p] # Idle

\* tracker.begin(): every request that was current is superseded.
Superseded == [q \in Slots |-> IF calls[q] = Idle THEN Idle
                               ELSE [calls[q] EXCEPT !.current = FALSE]]

Begin(at, op, r, b, expect) ==
    calls' = [Superseded EXCEPT ![FreeSlot] =
                [at |-> at, op |-> op, repo |-> r, arg |-> b, expect |-> expect,
                 answer |-> "", list |-> NoList, current |-> TRUE]]

Done(q) == calls' = [calls EXCEPT ![q] = Idle]

\* Mutant: a refresh wipes the outcomes of operations too.
LoadWipesOutcomes(r) ==
    /\ Room
    /\ Begin("list", "load", r, None, None)
    /\ shown' = [shown EXCEPT !.loading = TRUE, !.failed = FALSE, !.repo = r,
                   !.list = NoList, !.of = r, !.armed = Unarmed, !.out = NoOutcome]

\* Mutant: a load leaves the armed confirmations alone.
LoadKeepsArmed(r) ==
    /\ Room
    /\ Begin("list", "load", r, None, None)
    /\ shown' = [shown EXCEPT !.loading = TRUE, !.failed = FALSE, !.repo = r,
                   !.list = NoList, !.of = r,
                   !.out = IF r = shown.repo THEN @ ELSE NoOutcome]

(* branchStore.load: blank the list, disarm, and ask for the branches.     *)
Load(r) ==
    /\ Room
    /\ Begin("list", "load", r, None, None)
    /\ shown' = [shown EXCEPT !.loading = TRUE, !.failed = FALSE, !.repo = r,
                   !.list = NoList, !.of = r, !.armed = Unarmed,
                   !.out = IF r = shown.repo THEN @ ELSE NoOutcome]

(* branchStore.clear.                                                      *)
Clear ==
    /\ calls' = Superseded
    /\ shown' = [shown EXCEPT !.repo = None, !.list = NoList, !.of = None,
                   !.failed = FALSE, !.armed = Unarmed, !.out = NoOutcome]

-----------------------------------------------------------------------------
(* What the window offers.                                                 *)

\* The header's pill: a repository, no load, and no branch marked current.
Detached == active # None /\ ~shown.loading /\ shown.list.current = None

\* The picker of the header: its rows, those held elsewhere being disabled.
PickerOffers(b) ==
    /\ ~Detached
    /\ b \in shown.list.names \ shown.list.held
    /\ ~shown.switching

\* A row of BranchesScreen has buttons once the list is there.
Row(b) ==
    /\ screen = "branches"
    /\ active # None
    /\ ~shown.loading
    /\ b \in shown.list.names

\* Switch and Delete are for rows neither current nor in another worktree.
RowOffers(b) == Row(b) /\ b # shown.list.current /\ b \notin shown.list.held

\* Merge is for rows other than the current one, which must be known.
RowOffersMerge(b) ==
    Row(b) /\ shown.list.current # None /\ b # shown.list.current

\* The form that creates a branch.
FormOffers == screen = "branches" /\ active # None /\ ~shown.loading

Act == acts < MaxActs /\ acts' = acts + 1 /\ UNCHANGED moves

-----------------------------------------------------------------------------
(* The active repository.                                                  *)

(* App's effect on activeRepo.localPath: unwatch, then watch if there is   *)
(* one.  Main serves the two in the order sent.                            *)
AskWatch(r) == asked' = [repo |-> r, pending |-> TRUE]

(* setActiveRepo with another record, and the effects of that render:      *)
(* GlobalHeader loads or clears the branches, App moves the watch.         *)
SetActiveRepo(r) ==
    /\ r # active
    /\ active' = r
    /\ currentBranch' = None
    /\ AskWatch(r)
    /\ \/ r # None /\ Load(r)
       \/ r = None /\ Clear
    /\ UNCHANGED <<disk, screen, watch, event, unmerged>>

(* refreshActiveRepo('full'): the branches, and the screen shown, which is *)
(* not this module's.                                                      *)
RefreshActiveRepo ==
    /\ \/ active # None /\ Load(active)
       \/ active = None /\ UNCHANGED <<shown, calls>>

(* App's auto-selection of repos[0], when nothing is active.               *)
AutoSelect ==
    /\ active = None
    /\ SetActiveRepo(First)
    /\ UNCHANGED <<acts, moves>>

(* The header's picker; and the removal of the active repository from the  *)
(* list, which selects another or none.                                    *)
PickRepo(r) == Act /\ active # None /\ SetActiveRepo(r)

\* The same repository picked again, or the window focused again.
Revalidate ==
    /\ Act
    /\ active # None
    /\ RefreshActiveRepo
    /\ UNCHANGED <<disk, app, watcher, unmerged>>

\* Opening BranchesScreen loads; leaving it does not.
Navigate(s) ==
    /\ Act
    /\ s # screen
    /\ screen' = s
    /\ \/ s = "branches" /\ RefreshActiveRepo
       \/ s # "branches" /\ UNCHANGED <<shown, calls>>
    /\ UNCHANGED <<disk, active, currentBranch, watcher, unmerged>>

-----------------------------------------------------------------------------
(* The operations the user starts.                                         *)

Started(op, b, expect) ==
    /\ Act
    /\ Room
    /\ shown.repo # None
    /\ Begin("work", op, shown.repo, b, expect)
    /\ UNCHANGED <<disk, app, watcher, unmerged>>

(* doSwitch, from the picker or from a row.                                *)
DoSwitch(b) ==
    /\ RowOffers(b) \/ PickerOffers(b)
    /\ ~shown.switching
    /\ Started("switch", b, None)
    /\ shown' = [shown EXCEPT !.switching = TRUE, !.out["switchError"] = None]

(* doSwitchBringChanges: the quick fix of the header's switch banner.      *)
DoSwitchBringChanges ==
    LET b == shown.out["switchError"] IN
    /\ b # None
    /\ ~shown.switching
    /\ Started("bring", b, None)
    /\ shown' = [shown EXCEPT !.switching = TRUE,
                   !.out["switchError"] = None, !.out["stashPopConflict"] = None]

DoCreate(b) ==
    /\ FormOffers
    /\ Started("create", b, None)
    /\ UNCHANGED shown

(* The Delete button arms, its confirmation deletes.                       *)
ArmDelete(b) ==
    /\ Act
    /\ RowOffers(b)
    /\ b \notin {shown.armed["delete"], shown.armed["force"]}
    /\ shown' = [shown EXCEPT !.armed["delete"] = b, !.armed["merge"] = None]
    /\ UNCHANGED <<disk, app, calls, watcher, unmerged>>

DoDelete(b) ==
    /\ RowOffers(b)
    /\ shown.armed["delete"] = b
    /\ Started("delete", b, None)
    /\ shown' = [shown EXCEPT !.armed["delete"] = None]

(* The escalated confirmation is armed by a refusal only.                  *)
DoForceDelete(b) ==
    /\ RowOffers(b)
    /\ shown.armed["force"] = b
    /\ Started("force", b, None)
    /\ shown' = [shown EXCEPT !.armed["force"] = None]

ArmMerge(b) ==
    /\ Act
    /\ RowOffersMerge(b)
    /\ shown.armed["merge"] # b
    /\ shown' = [shown EXCEPT !.armed["merge"] = b, !.armed["delete"] = None]
    /\ UNCHANGED <<disk, app, calls, watcher, unmerged>>

(* doMerge names the branch it saw checked out, for main to verify.        *)
DoMerge(b) ==
    /\ RowOffersMerge(b)
    /\ shown.armed["merge"] = b
    /\ Started("merge", b, shown.list.current)
    /\ shown' = [shown EXCEPT !.armed["merge"] = None, !.out["mergeConflict"] = None]

(* Cancel disarms.                                                         *)
CancelConfirm(c) ==
    /\ Act
    /\ screen = "branches"
    /\ shown.armed[c] # None
    /\ shown' = [shown EXCEPT !.armed[c] = None]
    /\ UNCHANGED <<disk, app, calls, watcher, unmerged>>

(* doPruneWorktrees, offered on a row whose worktree is missing.           *)
DoPruneWorktrees ==
    /\ \E b \in shown.list.held : Row(b)
    /\ Started("prune", None, None)
    /\ UNCHANGED shown

(* The banners' own dismissals: Open status, and the stash notice.         *)
DismissOutcome(o) ==
    /\ Act
    /\ o \in {"switchError", "stashPopConflict"}
    /\ shown.out[o] # None
    /\ shown' = [shown EXCEPT !.out[o] = None]
    /\ screen' = "other"
    /\ UNCHANGED <<disk, active, currentBranch, calls, watcher, unmerged>>

-----------------------------------------------------------------------------
(* Main.                                                                   *)

Touched(r) == watch' = [watch EXCEPT !.unseen = @ \/ r = watch.repo]

Answered(q, answer) ==
    calls' = [calls EXCEPT ![q].at = "worked", ![q].answer = answer]

\* What git requires of the operation of request q.
Possible(q) ==
    LET r == calls[q].repo  b == calls[q].arg IN
    CASE calls[q].op \in Switches -> b \in refs[r] /\ <<r, b>> \notin held
      [] calls[q].op = "create" -> b \notin refs[r]
      [] calls[q].op \in {"delete", "force"} ->
            b \in refs[r] /\ b # head[r] /\ <<r, b>> \notin held
      [] calls[q].op = "merge" -> b \in refs[r] /\ head[r] = calls[q].expect
      [] OTHER -> TRUE

\* What it then does to the repository.
Effect(q) ==
    LET r == calls[q].repo  b == calls[q].arg IN
    /\ head' = IF calls[q].op \in Switches \union {"create"}
               THEN [head EXCEPT ![r] = b] ELSE head
    /\ refs' = CASE calls[q].op = "create" -> [refs EXCEPT ![r] = @ \union {b}]
                 [] calls[q].op \in {"delete", "force"} -> [refs EXCEPT ![r] = @ \ {b}]
                 [] OTHER -> refs
    /\ held' = IF calls[q].op = "prune" THEN {h \in held : h[1] # r} ELSE held

\* HEAD, the index, the configuration and the refs are fingerprinted; the
\* list of worktrees, which pruning changes, is not.
Moved(q) == IF calls[q].op = "prune" THEN UNCHANGED watch ELSE Touched(calls[q].repo)

Working(q) == calls[q] # Idle /\ calls[q].at = "work" /\ ~asked.pending

GitAccepts(q) ==
    /\ Working(q)
    /\ Possible(q)
    /\ Effect(q)
    /\ Answered(q, "ok")
    /\ Moved(q)
    /\ UNCHANGED <<app, shown, asked, event, acts, moves, unmerged>>

\* git refuses, or fails before it has changed anything.
GitRefuses(q) ==
    /\ Working(q)
    /\ ~Possible(q) \/ calls[q].op \in Refusable
    /\ Answered(q, "error")
    /\ UNCHANGED <<disk, app, shown, watcher, acts, moves, unmerged>>

\* branch -d refuses a branch whose commits nothing else reaches.
GitFindsUnmerged(q) ==
    /\ Working(q)
    /\ calls[q].op = "delete" /\ Possible(q)
    /\ Answered(q, "unmerged")
    /\ unmerged' = unmerged \union {<<calls[q].repo, calls[q].arg>>}
    /\ UNCHANGED <<disk, app, shown, watcher, acts, moves>>

\* A switch whose stash will not apply, a merge that leaves conflicts.
GitConflicts(q) ==
    /\ Working(q)
    /\ calls[q].op \in {"bring", "merge"} /\ Possible(q)
    /\ Effect(q)
    /\ Answered(q, "conflict")
    /\ Moved(q)
    /\ UNCHANGED <<app, shown, asked, event, acts, moves, unmerged>>

(* GitService.getBranches answers a request.                               *)
ReadBranches(q) ==
    /\ calls[q] # Idle /\ calls[q].at = "list" /\ ~asked.pending
    /\ \/ calls' = [calls EXCEPT ![q].at = "listed", ![q].answer = "ok",
                                 ![q].list = ListOf(calls[q].repo)]
       \/ /\ "load" \in Refusable
          /\ calls' = [calls EXCEPT ![q].at = "listed", ![q].answer = "error"]
    /\ UNCHANGED <<disk, app, shown, watcher, acts, moves, unmerged>>

-----------------------------------------------------------------------------
(* The renderer receives an answer.                                        *)

Receives(q, op, answer) ==
    calls[q] # Idle /\ calls[q].at = "worked" /\ calls[q].op \in op
        /\ calls[q].answer = answer

ThenList(q) == calls' = [calls EXCEPT ![q].at = "list"]

Settled == UNCHANGED <<disk, watcher, acts, moves, unmerged>>

(* The switch or the creation worked: name the branch, re-read the list.   *)
Switched(q) ==
    /\ Receives(q, Switches \union {"create"}, "ok")
    /\ currentBranch' = IF calls[q].current THEN calls[q].arg ELSE currentBranch
    /\ shown' = IF calls[q].current THEN [shown EXCEPT !.of = calls[q].repo] ELSE shown
    /\ ThenList(q)
    /\ UNCHANGED <<active, screen>> /\ Settled

(* A switch failed: say so next to the picker, for the branch it was for.  *)
SwitchFailed(q) ==
    /\ Receives(q, Switches, "error")
    /\ shown' = [shown EXCEPT !.switching = FALSE,
                   !.out["switchError"] =
                       IF calls[q].current THEN calls[q].arg ELSE @]
    /\ Done(q)
    /\ UNCHANGED app /\ Settled

(* The stash would not apply: the switch stands, the stash is kept, and    *)
(* Status shows it.                                                        *)
StashKept(q) ==
    /\ Receives(q, {"bring"}, "conflict")
    /\ shown' = [shown EXCEPT !.switching = FALSE,
                   !.out["stashPopConflict"] =
                       IF calls[q].current THEN calls[q].arg ELSE @]
    /\ currentBranch' = IF calls[q].current THEN calls[q].arg ELSE currentBranch
    /\ screen' = IF calls[q].current THEN "other" ELSE screen
    /\ Done(q)
    /\ UNCHANGED active /\ Settled

(* A deletion or a forced one worked or failed: re-read the list.          *)
Deleted(q) ==
    /\ \E answer \in {"ok", "error"} : Receives(q, {"delete", "force"}, answer)
    /\ ThenList(q)
    /\ UNCHANGED <<app, shown>> /\ Settled

(* The branch is not merged: arm the stronger confirmation.                *)
DeleteRefused(q) ==
    /\ Receives(q, {"delete"}, "unmerged")
    /\ shown' = [shown EXCEPT !.armed["force"] =
                   IF calls[q].current THEN calls[q].arg ELSE @]
    /\ Done(q)
    /\ UNCHANGED app /\ Settled

(* The merge or the pruning worked: re-read the list.                      *)
Merged(q) ==
    /\ Receives(q, {"merge", "prune"}, "ok")
    /\ ThenList(q)
    /\ UNCHANGED <<app, shown>> /\ Settled

MergeConflicted(q) ==
    /\ Receives(q, {"merge"}, "conflict")
    /\ shown' = [shown EXCEPT !.out["mergeConflict"] =
                   IF calls[q].current THEN calls[q].arg ELSE @]
    /\ Done(q)
    /\ UNCHANGED app /\ Settled

\* A creation, a merge or a pruning failed: only a message.
OnlyMessage(q) ==
    /\ Receives(q, {"create", "merge", "prune"}, "error")
    /\ Done(q)
    /\ UNCHANGED <<app, shown>> /\ Settled

Listed(q) == calls[q] # Idle /\ calls[q].at = "listed"

\* Mutant: a superseded load paints its answer.
LoadedLate(q) ==
    /\ Listed(q) /\ calls[q].op = "load"
    /\ shown' = [shown EXCEPT !.loading = FALSE,
                   !.failed = calls[q].answer = "error",
                   !.list = IF calls[q].answer = "ok" THEN calls[q].list ELSE @,
                   !.of = calls[q].repo]
    /\ currentBranch' = IF calls[q].answer = "ok"
                        THEN calls[q].list.current ELSE currentBranch
    /\ Done(q)
    /\ UNCHANGED <<active, screen>> /\ Settled

(* A load that is still current paints the list and asserts the branch.    *)
Loaded(q) ==
    /\ Listed(q) /\ calls[q].op = "load"
    /\ IF calls[q].current
       THEN /\ shown' = [shown EXCEPT !.loading = FALSE,
                           !.failed = calls[q].answer = "error",
                           !.list = IF calls[q].answer = "ok" THEN calls[q].list ELSE @,
                           !.of = calls[q].repo]
            /\ currentBranch' = IF calls[q].answer = "ok"
                                THEN calls[q].list.current ELSE currentBranch
       ELSE UNCHANGED <<shown, currentBranch>>
    /\ Done(q)
    /\ UNCHANGED <<active, screen>> /\ Settled

(* The list an operation re-reads after itself; a switch is over then.     *)
Refreshed(q) ==
    /\ Listed(q) /\ calls[q].op # "load"
    /\ shown' = [shown EXCEPT
           !.switching = IF calls[q].op \in Switches THEN FALSE ELSE @,
           !.list = IF calls[q].current /\ calls[q].answer = "ok"
                    THEN calls[q].list ELSE @,
           !.of = IF calls[q].current /\ calls[q].answer = "ok"
                  THEN calls[q].repo ELSE @]
    /\ Done(q)
    /\ UNCHANGED app /\ Settled

-----------------------------------------------------------------------------
(* The watcher.                                                            *)

(* watch() closes the previous watch and takes a baseline; unwatch().  Its *)
(* handler is synchronous, so it is served before git answers any request. *)
ServeWatch ==
    /\ asked.pending
    /\ watch' = [repo |-> asked.repo, unseen |-> FALSE]
    /\ asked' = [asked EXCEPT !.pending = FALSE]
    /\ UNCHANGED <<disk, app, shown, calls, event, acts, moves, unmerged>>

\* Mutant: the change is consumed and no event is sent.
CheckSilently ==
    /\ watch.unseen
    /\ watch' = [watch EXCEPT !.unseen = FALSE]
    /\ UNCHANGED <<disk, app, shown, calls, asked, event, acts, moves, unmerged>>

(* check(), run by a notification once debounced or by the safety net:     *)
(* whoever sees the change first consumes it and sends the events.         *)
Check ==
    /\ watch.unseen
    /\ watch' = [watch EXCEPT !.unseen = FALSE]
    /\ event' = TRUE
    /\ UNCHANGED <<disk, app, shown, calls, asked, acts, moves, unmerged>>

(* App's onChanged subscription: a full refresh, whatever repository the   *)
(* event names.                                                            *)
OnChanged ==
    /\ event
    /\ event' = FALSE
    /\ RefreshActiveRepo
    /\ UNCHANGED <<disk, app, asked, watch, acts, moves, unmerged>>

-----------------------------------------------------------------------------
(* A terminal, or another program, moves HEAD, adds or removes a branch.   *)
Terminal(r) ==
    /\ moves < MaxMoves /\ moves' = moves + 1
    /\ \/ \E b \in Maybe(refs[r]) :
            /\ b # head[r] /\ <<r, b>> \notin held
            /\ head' = [head EXCEPT ![r] = b] /\ UNCHANGED <<refs, held>>
       \/ \E b \in Branches :
            /\ b # head[r] /\ <<r, b>> \notin held
            /\ refs' = [refs EXCEPT ![r] = IF b \in @ THEN @ \ {b} ELSE @ \union {b}]
            /\ UNCHANGED <<head, held>>
    /\ Touched(r)
    /\ UNCHANGED <<app, shown, calls, asked, event, acts, unmerged>>

Background ==
    \/ AutoSelect \/ ServeWatch \/ Check \/ OnChanged
    \/ \E q \in Slots :
          \/ GitAccepts(q) \/ GitRefuses(q) \/ GitFindsUnmerged(q) \/ GitConflicts(q)
          \/ ReadBranches(q)
          \/ Switched(q) \/ SwitchFailed(q) \/ StashKept(q)
          \/ Deleted(q) \/ DeleteRefused(q) \/ Merged(q) \/ MergeConflicted(q)
          \/ OnlyMessage(q) \/ Loaded(q) \/ Refreshed(q)

User ==
    \/ \E r \in Maybe(Repos) : PickRepo(r)
    \/ Revalidate \/ DoSwitchBringChanges \/ DoPruneWorktrees
    \/ \E s \in {"branches", "other"} : Navigate(s)
    \/ \E b \in Branches :
          \/ DoSwitch(b) \/ DoCreate(b)
          \/ ArmDelete(b) \/ DoDelete(b) \/ DoForceDelete(b)
          \/ ArmMerge(b) \/ DoMerge(b)
    \/ \E c \in Confirms : CancelConfirm(c)
    \/ \E o \in Outcomes : DismissOutcome(o)

Next == Background \/ User \/ \E r \in Repos : Terminal(r)

Spec == Init /\ [][Next]_vars

(* Main answers, the renderer handles what arrives, the watcher's timers   *)
(* fire.  Nothing makes the user or the terminal act.                      *)
Fairness == WF_vars(Background)

FairSpec == Spec /\ Fairness

-----------------------------------------------------------------------------
(* Properties.                                                             *)

(* What the window shows belongs to the repository the user has chosen: no *)
(* answer of a request that a newer one superseded, least of all one about *)
(* the repository left, is painted (the request guard of branchStore).     *)
PaintsActiveRepo == shown.repo = active /\ shown.of = active

(* One switch at a time, and the picker is disabled for just as long, even *)
(* when the repository is changed meanwhile (branchStore `switching`).     *)
SwitchesOneAtATime ==
    LET switching == {q \in Waiting : calls[q].op \in Switches} IN
    /\ Cardinality(switching) <= 1
    /\ shown.switching <=> switching # {}

(* `branch -D` is offered, and asked for, only for a branch whose deletion *)
(* git has refused in that very repository: the stronger confirmation does *)
(* not outlive a change of repository with branches of the same names.     *)
ForceOnlyAfterRefusal ==
    /\ shown.armed["force"] # None => <<active, shown.armed["force"]>> \in unmerged
    /\ \A q \in Waiting :
          calls[q].op = "force" => <<calls[q].repo, calls[q].arg>> \in unmerged

(* The outcome of an operation stays until the user acts: no refresh, by   *)
(* an event or a late answer, wipes it out (branchStore.load, Phase 102).  *)
OutcomesSurvive ==
    [][acts' = acts =>
         \A o \in Outcomes : shown.out[o] # None => shown'.out[o] # None]_vars

(* The window shows the branches and the branch checked out as they are on *)
(* disk, or says that it could not (an error) or has not yet               *)
(* ("Loading...", see LoadingEnds).                                        *)
Truthful ==
    active # None /\ ~shown.failed /\ ~shown.loading =>
        /\ shown.list.names = refs[active]
        /\ shown.list.current = head[active]
        /\ currentBranch = head[active]

(* Once nobody acts any more the window is truthful, whatever the terminal *)
(* did behind the program's back and in whatever order the answers came.   *)
ShowsTruth == <>[]Truthful

(* A load does not keep BranchesScreen at "Loading..." for ever.  Refuted: *)
(* a quick fix started during a reload supersedes it, and only the request *)
(* superseded would have reset `loading`.                                  *)
LoadingEnds == shown.loading ~> ~shown.loading
=============================================================================
