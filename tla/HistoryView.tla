----------------------------- MODULE HistoryView -----------------------------
(***************************************************************************)
(* HistoryScreen and historyStore: the commits of the branch shown, a page *)
(* at a time, the details of the selected one, and "return commit", which  *)
(* moves unpushed commits back to the working changes.  Loads, pagination  *)
(* and details have a request tracker each.                                *)
(***************************************************************************)
EXTENDS Naturals, Sequences, SequencesExt, FiniteSets

U == INSTANCE Uncommit

CONSTANTS Repos, Branches,
          Main,       \* the branch checked out at first
          None,
          PageSize,   \* historyStore: commits asked for at a time
          NSlots,     \* bound: requests pending at once
          MaxId,      \* bound: commits of a repository
          MaxActs,    \* bound: acts of the user
          MaxMoves    \* bound: what the terminal does, and reads that fail

VARIABLES log,        \* git: the commits of each branch, the newest first
          unpushed,   \* git: how many of them the remote does not have
          head, dirty,
          active, current,  \* appStore: activeRepo, currentBranch
          screen,
          hist,       \* historyStore
          confirm,    \* HistoryScreen: the return that asks to be confirmed
          calls, event, acts, moves,
          crossed     \* history: a load and a Load more ran at the same time

git == <<log, unpushed, head, dirty>>
vars == <<git, active, current, screen, hist, confirm, calls, event, acts, moves, crossed>>

Maybe(S) == S \union {None}
Slots == 1..NSlots
Ids == 1..MaxId
Returns == {"last", "all"}
Idle == [at |-> "idle"]

\* git still has both of log and return state to read, or one, or none.
Pending == [at : {"both", "log", "state", "answer"},
            op : Returns \union {"load", "more", "detail"},
            repo : Repos, branch : Maybe(Branches), limit : Nat,
            id : Maybe(Ids), expect : Maybe(Branches),
            newest : BOOLEAN,     \* its tracker has begun no request since
            returning : BOOLEAN,  \* a return waits for this load
            ok : BOOLEAN, commits : Seq(Ids), state : [last : BOOLEAN, all : BOOLEAN, count : Nat]]

NoState == [last |-> FALSE, all |-> FALSE, count |-> 0]

TypeOK ==
    /\ \A r \in Repos, b \in Branches :
          log[r][b] \in Seq(Ids) /\ unpushed[r][b] \in 0..Len(log[r][b])
    /\ head \in [Repos -> Branches] /\ dirty \in [Repos -> BOOLEAN]
    /\ active \in Repos /\ current \in Maybe(Branches)
    /\ screen \in {"history", "other"}
    /\ hist \in [repo : Maybe(Repos), branch : Maybe(Branches), commits : Seq(Ids),
                 limit : Nat, loading : BOOLEAN, loadingMore : BOOLEAN, failed : BOOLEAN,
                 hasMore : BOOLEAN, state : [last : BOOLEAN, all : BOOLEAN, count : Nat],
                 returning : BOOLEAN, outcome : {"", "error", "returned"},
                 selected : Maybe(Ids), detail : Maybe(Ids), detailLoading : BOOLEAN,
                 stale : BOOLEAN]
    /\ hist.limit >= PageSize
    /\ confirm \in Maybe(Returns)
    /\ calls \in [Slots -> Pending \union {Idle}]
    /\ event \in BOOLEAN /\ crossed \in BOOLEAN
    /\ acts \in 0..MaxActs /\ moves \in 0..MaxMoves

\* hist.stale is a history field: the last load to end failed.

-----------------------------------------------------------------------------
Waiting == {q \in Slots : calls[q] # Idle}
Room == Waiting # Slots
FreeSlot == CHOOSE q \in Slots : calls[q] = Idle /\ \A p \in Slots : p < q => calls[p] # Idle

Request(op, r, b, at) ==
    [at |-> at, op |-> op, repo |-> r, branch |-> b, limit |-> 0, id |-> None,
     expect |-> None, newest |-> TRUE, returning |-> FALSE, ok |-> FALSE,
     commits |-> << >>, state |-> NoState]

\* tracker.begin(), of the tracker that the requests `op` share.
Superseding(op) ==
    [q \in Slots |-> IF calls[q] # Idle /\ calls[q].op = op
                     THEN [calls[q] EXCEPT !.newest = FALSE] ELSE calls[q]]

Unselected(h) == [h EXCEPT !.selected = None, !.detail = None, !.detailLoading = FALSE]

Target(h) == <<h.repo, h.branch>>

(* historyStore.load on the state h: another target starts from nothing at *)
(* the first page, the same one keeps what is shown and the depth reached. *)
Load(h, r, b, returning, q) ==
    LET changed == Target(h) # <<r, b>>
        limit == IF changed THEN PageSize ELSE h.limit
        kept == [h EXCEPT !.repo = r, !.branch = b, !.loading = TRUE,
                          !.failed = FALSE, !.limit = limit] IN
    /\ calls' = [Superseding("load") EXCEPT ![q] =
                   [Request("load", r, b, "both") EXCEPT !.limit = limit,
                                                         !.returning = returning]]
    /\ hist' = IF changed
               THEN Unselected([kept EXCEPT !.commits = << >>, !.hasMore = FALSE,
                                            !.state = NoState, !.outcome = ""])
               ELSE kept
    /\ crossed' = (crossed \/ \E p \in Waiting : calls[p].op = "more")

\* The screen is open on the first repository and its branch is known.
Init ==
    /\ log = [r \in Repos |-> [b \in Branches |-> IF b = Main THEN <<2, 1>> ELSE <<3, 1>>]]
    /\ unpushed = [r \in Repos |-> [b \in Branches |-> 1]]
    /\ head = [r \in Repos |-> Main] /\ dirty = [r \in Repos |-> FALSE]
    /\ active = CHOOSE r \in Repos : TRUE
    /\ current = Main
    /\ screen = "history"
    /\ hist = [repo |-> active, branch |-> Main, commits |-> << >>, limit |-> PageSize,
               loading |-> TRUE, loadingMore |-> FALSE, failed |-> FALSE, hasMore |-> FALSE,
               state |-> NoState, returning |-> FALSE, outcome |-> "",
               selected |-> None, detail |-> None, detailLoading |-> FALSE, stale |-> FALSE]
    /\ calls = [q \in Slots |->
                  IF q = 1 THEN [Request("load", active, Main, "both") EXCEPT !.limit = PageSize]
                  ELSE Idle]
    /\ confirm = None
    /\ event = FALSE /\ crossed = FALSE
    /\ acts = 0 /\ moves = 0

-----------------------------------------------------------------------------
(* The user.                                                               *)

Act == acts < MaxActs /\ acts' = acts + 1 /\ UNCHANGED <<git, event, moves>>

(* The header's picker: the branch is unknown until the branch list comes, *)
(* and the screen loads without it.                                        *)
PickRepo(r) ==
    /\ Act
    /\ r # active
    /\ active' = r
    /\ current' = None
    /\ IF screen = "history" THEN Room /\ Load(hist, r, None, FALSE, FreeSlot)
       ELSE UNCHANGED <<hist, calls, crossed>>
    /\ UNCHANGED <<screen, confirm>>

\* Leaving the screen forgets its confirmation, opening it loads.
Navigate ==
    /\ Act
    /\ \/ screen = "history" /\ screen' = "other" /\ confirm' = None
          /\ UNCHANGED <<hist, calls, crossed>>
       \/ screen = "other" /\ screen' = "history" /\ Room
          /\ Load(hist, active, current, FALSE, FreeSlot) /\ UNCHANGED confirm
    /\ UNCHANGED <<active, current>>

\* The body of the screen, in place of a spinner.
Shown == screen = "history" /\ ~hist.loading

\* The footer's Load more, once at a time.
LoadMore ==
    /\ Act /\ Room
    /\ Shown /\ hist.hasMore /\ ~hist.loadingMore
    /\ calls' = [Superseding("more") EXCEPT ![FreeSlot] =
                   [Request("more", hist.repo, hist.branch, "log")
                      EXCEPT !.limit = hist.limit + PageSize]]
    /\ hist' = [hist EXCEPT !.loadingMore = TRUE, !.failed = FALSE, !.limit = @ + PageSize]
    /\ crossed' = (crossed \/ \E p \in Waiting : calls[p].op = "load")
    /\ UNCHANGED <<active, current, screen, confirm>>

\* A row of the list; the row already selected is a no-op.
SelectCommit(i) ==
    /\ Act /\ Room
    /\ Shown
    /\ i \in Range(hist.commits)
    /\ hist.selected # i \/ (hist.detail = None /\ ~hist.detailLoading)
    /\ calls' = [Superseding("detail") EXCEPT ![FreeSlot] =
                   [Request("detail", hist.repo, hist.branch, "log") EXCEPT !.id = i]]
    /\ hist' = [hist EXCEPT !.selected = i, !.detail = None, !.detailLoading = TRUE]
    /\ UNCHANGED <<active, current, screen, confirm, crossed>>

(* The panel of unpushed commits: what the eligibility allows, with a      *)
(* question first.                                                         *)
StartConfirm(what) ==
    /\ Act
    /\ Shown
    /\ hist.state.count >= 1 /\ confirm = None
    /\ IF what = "last" THEN hist.state.last ELSE hist.state.count > 1 /\ hist.state.all
    /\ confirm' = what
    /\ hist' = [hist EXCEPT !.outcome = IF @ = "error" THEN "" ELSE @]
    /\ UNCHANGED <<active, current, screen, calls, crossed>>

CancelConfirm ==
    /\ Act
    /\ Shown /\ confirm # None /\ ~hist.returning
    /\ confirm' = None
    /\ UNCHANGED <<active, current, screen, hist, calls, crossed>>

(* returnLast and returnAllUnpushed name the branch that appStore knows,   *)
(* for main to verify; an unknown branch is not verified.                  *)
ConfirmReturn ==
    /\ Act /\ Room
    /\ Shown /\ hist.state.count >= 1
    /\ confirm # None /\ ~hist.returning
    /\ calls' = [calls EXCEPT ![FreeSlot] =
                   [Request(confirm, hist.repo, hist.branch, "log") EXCEPT !.expect = current]]
    /\ hist' = [hist EXCEPT !.returning = TRUE, !.outcome = ""]
    /\ UNCHANGED <<active, current, screen, confirm, crossed>>

-----------------------------------------------------------------------------
(* Main and git.                                                           *)

Working(q, ops) == calls[q] # Idle /\ calls[q].at # "answer" /\ calls[q].op \in ops

\* A read that fails is one of the MaxMoves.
OrFails(ok) ==
    \/ ok /\ UNCHANGED moves
    \/ ~ok /\ moves < MaxMoves /\ moves' = moves + 1

\* git log: of HEAD, whatever branch the window believes is checked out.  It
\* may fail.
ReadLog(q) ==
    /\ Working(q, {"load", "more"}) /\ calls[q].at # "state"
    /\ LET r == calls[q].repo
           asked == SubSeq(log[r][head[r]], 1,
                           IF Len(log[r][head[r]]) > calls[q].limit + 1
                           THEN calls[q].limit + 1 ELSE Len(log[r][head[r]])) IN
       \E ok \in BOOLEAN :
          /\ OrFails(ok)
          /\ calls' = [calls EXCEPT ![q].ok = ok, ![q].commits = IF ok THEN asked ELSE << >>,
                                    ![q].at = IF @ = "both" THEN "state" ELSE "answer"]
    /\ UNCHANGED <<git, active, current, screen, hist, confirm, event, acts, crossed>>

ContextOf(r) ==
    [unpushedCount |-> unpushed[r][head[r]], hasUpstream |-> TRUE,
     workingTreeClean |-> ~dirty[r], headIsMerge |-> FALSE,
     headIsRoot |-> Len(log[r][head[r]]) = 1, rangeHasMerge |-> FALSE,
     inProgressOp |-> FALSE, detachedHead |-> FALSE]

\* The other half of a load: history:getReturnState.
ReadReturnState(q) ==
    /\ Working(q, {"load"}) /\ calls[q].at # "log"
    /\ LET ctx == ContextOf(calls[q].repo) IN
       calls' = [calls EXCEPT ![q].at = IF @ = "both" THEN "log" ELSE "answer",
                   ![q].state = [last |-> U!CanReturnLast(ctx),
                                 all |-> U!CanReturnAllUnpushed(ctx),
                                 count |-> ctx.unpushedCount]]
    /\ UNCHANGED <<git, active, current, screen, hist, confirm, event, acts, moves, crossed>>

\* The details of a commit are in git, whatever branch has it.
ReadDetails(q) ==
    /\ Working(q, {"detail"})
    /\ \E ok \in BOOLEAN :
          /\ OrFails(ok)
          /\ calls' = [calls EXCEPT ![q].at = "answer", ![q].ok = ok]
    /\ UNCHANGED <<git, active, current, screen, hist, confirm, event, acts, crossed>>

\* Mutant: the branch is not verified.
NeverUnexpected(q) == TRUE

OnExpected(q) == calls[q].expect \in {None, head[calls[q].repo]}

Allowed(q) ==
    LET ctx == ContextOf(calls[q].repo) IN
    /\ OnExpected(q)
    /\ IF calls[q].op = "last" THEN U!CanReturnLast(ctx) ELSE U!CanReturnAllUnpushed(ctx)

(* uncommitExecutor, one job: the branch, the eligibility read afresh, the *)
(* reset.                                                                  *)
GitReturns(q) ==
    LET r == calls[q].repo  b == head[r]
        n == IF calls[q].op = "last" THEN 1 ELSE unpushed[r][b] IN
    /\ Working(q, Returns)
    /\ IF Allowed(q) /\ n < Len(log[r][b])
       THEN /\ log' = [log EXCEPT ![r][b] = SubSeq(@, n + 1, Len(@))]
            /\ unpushed' = [unpushed EXCEPT ![r][b] = @ - n]
            /\ dirty' = [dirty EXCEPT ![r] = TRUE]
            /\ event' = (event \/ r = active)
            /\ calls' = [calls EXCEPT ![q].at = "answer", ![q].ok = TRUE]
       ELSE /\ calls' = [calls EXCEPT ![q].at = "answer"]
            /\ UNCHANGED <<log, unpushed, dirty, event>>
    /\ UNCHANGED <<head, active, current, screen, hist, confirm, acts, moves, crossed>>

-----------------------------------------------------------------------------
(* The renderer receives an answer.                                        *)

Answered(q, ops) == calls[q] # Idle /\ calls[q].at = "answer" /\ calls[q].op \in ops
Done(q) == calls' = [calls EXCEPT ![q] = Idle]
FirstOf(s, n) == SubSeq(s, 1, IF Len(s) > n THEN n ELSE Len(s))

(* The first `limit` of what came, whether there is more, and no selection *)
(* that is not among them.                                                 *)
Paint(h, q) ==
    LET shown == FirstOf(calls[q].commits, calls[q].limit)
        painted == [h EXCEPT !.commits = shown, !.hasMore = Len(calls[q].commits) > calls[q].limit] IN
    IF h.selected \in Range(shown) THEN painted ELSE Unselected(painted)

(* The answer of a load: painted when it is the newest and Load more has   *)
(* not asked for a greater depth meanwhile; a failure is shown instead.    *)
(* If a return waited for it, the return is over and the status screen     *)
(* opens.                                                                  *)
Loaded(q) ==
    /\ Answered(q, {"load"})
    /\ LET after == IF calls[q].ok /\ calls[q].newest /\ hist.limit = calls[q].limit
                    THEN [Paint(hist, q) EXCEPT !.state = calls[q].state] ELSE hist IN
       hist' = [after EXCEPT !.loading = IF calls[q].newest THEN FALSE ELSE @,
                             !.failed = @ \/ (calls[q].newest /\ ~calls[q].ok),
                             !.stale = IF calls[q].newest THEN ~calls[q].ok ELSE @,
                             !.returning = IF calls[q].returning THEN FALSE ELSE @]
    /\ screen' = IF calls[q].returning THEN "other" ELSE screen
    /\ confirm' = IF calls[q].returning THEN None ELSE confirm
    /\ Done(q)
    /\ UNCHANGED <<git, active, current, event, acts, moves, crossed>>

StillWanted(q) == calls[q].newest /\ Target(hist) = <<calls[q].repo, calls[q].branch>>

(* The answer of Load more: dropped when another target is shown.  Whether *)
(* a load has painted since it was asked for is not looked at.             *)
MoreLoaded(q) ==
    /\ Answered(q, {"more"}) /\ calls[q].ok
    /\ hist' = [IF StillWanted(q) THEN Paint(hist, q) ELSE hist EXCEPT !.loadingMore = FALSE]
    /\ Done(q)
    /\ UNCHANGED <<git, active, current, screen, confirm, event, acts, moves, crossed>>

\* It failed: the depth is the one before it was asked for.
MoreFailed(q) ==
    /\ Answered(q, {"more"}) /\ ~calls[q].ok
    /\ hist' = IF StillWanted(q)
               THEN [hist EXCEPT !.limit = calls[q].limit - PageSize, !.failed = TRUE,
                                 !.loadingMore = FALSE]
               ELSE [hist EXCEPT !.loadingMore = FALSE]
    /\ Done(q)
    /\ UNCHANGED <<git, active, current, screen, confirm, event, acts, moves, crossed>>

\* Mutant: details are painted under whatever is selected by now.
DetailsUnderAnother(q) ==
    /\ Answered(q, {"detail"})
    /\ hist' = [hist EXCEPT !.detail = IF calls[q].ok THEN calls[q].id ELSE @,
                            !.detailLoading = FALSE]
    /\ Done(q)
    /\ UNCHANGED <<git, active, current, screen, confirm, event, acts, moves, crossed>>

DetailsLoaded(q) ==
    /\ Answered(q, {"detail"})
    /\ hist' = IF calls[q].newest /\ hist.selected = calls[q].id
               THEN [hist EXCEPT !.detail = IF calls[q].ok THEN calls[q].id ELSE @,
                                 !.detailLoading = FALSE]
               ELSE hist
    /\ Done(q)
    /\ UNCHANGED <<git, active, current, screen, confirm, event, acts, moves, crossed>>

(* The commits were returned: the message, and a load of that repository   *)
(* under the branch appStore knows by now.                                 *)
ReturnDone(q) ==
    /\ Answered(q, Returns) /\ calls[q].ok
    /\ Load([hist EXCEPT !.outcome = "returned"], calls[q].repo, current, TRUE, q)
    /\ UNCHANGED <<git, active, current, screen, confirm, event, acts, moves>>

\* Refused, or it failed: the message, whatever repository is shown.
ReturnRefused(q) ==
    /\ Answered(q, Returns) /\ ~calls[q].ok
    /\ hist' = [hist EXCEPT !.outcome = "error", !.returning = FALSE]
    /\ confirm' = None
    /\ Done(q)
    /\ UNCHANGED <<git, active, current, screen, event, acts, moves, crossed>>

-----------------------------------------------------------------------------
(* The branch list of the active repository arrives (ActiveRepo): the      *)
(* effect on currentBranch loads when it differs.                          *)
BranchKnown ==
    /\ current # head[active] /\ (current = None \/ event)
    /\ current' = head[active]
    /\ IF screen = "history" THEN Room /\ Load(hist, active, head[active], FALSE, FreeSlot)
       ELSE UNCHANGED <<hist, calls, crossed>>
    /\ UNCHANGED <<git, active, screen, confirm, event, acts, moves>>

(* repo:changed: a full refresh, of the history too when it is shown, and  *)
(* of the branch list, which is read by then.                              *)
OnChanged ==
    /\ event /\ current = head[active]
    /\ event' = FALSE
    /\ IF screen = "history" THEN Room /\ Load(hist, active, current, FALSE, FreeSlot)
       ELSE UNCHANGED <<hist, calls, crossed>>
    /\ UNCHANGED <<git, active, current, screen, confirm, acts, moves>>

(* A terminal commits, pushes or switches branch; the watcher reports it.  *)
Terminal(r) ==
    /\ moves < MaxMoves /\ moves' = moves + 1
    /\ \/ /\ \E i \in Ids \ UNION {Range(log[r][b]) : b \in Branches} :
                log' = [log EXCEPT ![r][head[r]] = <<i>> \o @]
          /\ unpushed' = [unpushed EXCEPT ![r][head[r]] = @ + 1]
          /\ UNCHANGED <<head, dirty>>
       \/ /\ unpushed[r][head[r]] > 0
          /\ unpushed' = [unpushed EXCEPT ![r][head[r]] = 0]
          /\ UNCHANGED <<log, head, dirty>>
       \/ /\ \E b \in Branches \ {head[r]} : head' = [head EXCEPT ![r] = b]
          /\ UNCHANGED <<log, unpushed, dirty>>
    /\ event' = (event \/ r = active)
    /\ UNCHANGED <<active, current, screen, hist, confirm, calls, acts, crossed>>

Background ==
    \/ BranchKnown \/ OnChanged
    \/ \E q \in Slots :
          \/ ReadLog(q) \/ ReadReturnState(q) \/ ReadDetails(q) \/ GitReturns(q)
          \/ Loaded(q) \/ MoreLoaded(q) \/ MoreFailed(q) \/ DetailsLoaded(q)
          \/ ReturnDone(q) \/ ReturnRefused(q)

Next ==
    \/ Background
    \/ \E r \in Repos : PickRepo(r) \/ Terminal(r)
    \/ Navigate \/ LoadMore \/ CancelConfirm \/ ConfirmReturn
    \/ \E i \in Ids : SelectCommit(i)
    \/ \E what \in Returns : StartConfirm(what)

Spec == Init /\ [][Next]_vars

\* Main answers, the renderer handles what arrives.
FairSpec == Spec /\ WF_vars(Background)

-----------------------------------------------------------------------------
(* Properties.                                                             *)

(* The details shown are those of the commit selected, and the selected    *)
(* commit is one of those listed, through every refresh, page and change   *)
(* of target (historyStore.selectCommit, selectionSurvives).               *)
DetailOfSelected ==
    /\ hist.detail # None => hist.detail = hist.selected
    /\ hist.selected # None => hist.selected \in Range(hist.commits)

(* A return moves commits of the branch the window named when it was       *)
(* confirmed, if it knew one: a branch switched meanwhile, by the terminal *)
(* for instance, loses nothing (uncommitExecutor, W1).                     *)
ReturnsFromNamedBranch ==
    [][\A q \in Slots :
         calls[q] # Idle /\ calls[q].op \in Returns /\ calls[q].expect # None /\ log' # log
         /\ calls'[q].at # calls[q].at
         => \A r \in Repos, b \in Branches :
               log'[r][b] # log[r][b] => <<r, b>> = <<calls[q].repo, calls[q].expect>>]_vars

(* The screen does not stay busy: every load, Load more and return ends,   *)
(* in whatever order answers come and repositories change.                 *)
Busy == hist.loading \/ hist.loadingMore \/ hist.returning \/ hist.detailLoading
BusyEnds == Busy ~> ~Busy

(* Once nobody acts, the commits listed are those of HEAD down to the      *)
(* depth the user reached, and so are the counts the returns are offered   *)
(* by, unless the last load failed (a later Load more hides its message).  *)
(* Not claimed when a load and a Load more were out at the same time (see  *)
(* README).                                                                *)
Truthful ==
    screen = "history" /\ ~crossed /\ ~hist.failed =>
        /\ hist.commits = FirstOf(log[active][head[active]], hist.limit)
        /\ ~hist.stale => hist.state.count = unpushed[active][head[active]]
ShowsTruth == <>[]Truthful
=============================================================================
