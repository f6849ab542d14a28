----------------------------- MODULE StatusView -----------------------------
(***************************************************************************)
(* StatusScreen, statusStore and the git commands behind them: the rows of *)
(* changed files, staging, discarding, deleting, and the diff of the       *)
(* selected file.  Each request is sent, answered by main and received in  *)
(* steps of their own; only the loads of the status share a tracker.       *)
(*                                                                         *)
(* A path has three versions: that of HEAD, of the index and of the        *)
(* working tree.  `git status` compares them, and the parser and the       *)
(* screen turn the comparison into rows.                                   *)
(***************************************************************************)
EXTENDS Naturals, FiniteSets

CONSTANTS Repos, Paths,
          Versions,   \* contents a file can have
          Absent,     \* no file
          None,
          Trees,      \* what a path may be at first: <<head, index, work>>
          NSlots,     \* bound: requests pending at once
          MaxActs,    \* bound: acts of the user
          MaxMoves    \* bound: edits made outside, and loads that fail

Maybe(S) == S \union {None}
Slots == 1..NSlots
Content == Versions \union {Absent}

VARIABLES tree,       \* the three versions of each path of each repository
          active,     \* appStore.activeRepo
          status,     \* statusStore: its repository, the rows, loading
          selected,   \* the file selected, and the diff shown for it
          armed,      \* the paths whose Discard or Delete asks to be confirmed
          calls,      \* requests pending
          event,      \* a change of the index was reported
          acts, moves

vars == <<tree, active, status, selected, armed, calls, event, acts, moves>>

-----------------------------------------------------------------------------
(* What git status reports, as parsePorcelainV2 reads it.                  *)

Compare(old, new) ==
    CASE old = new -> "unmodified"
      [] old = Absent -> "added"
      [] new = Absent -> "deleted"
      [] OTHER -> "modified"

\* The two columns: HEAD against the index, the index against the files.
Columns(t) ==
    IF t[1] = Absent /\ t[2] = Absent
    THEN IF t[3] = Absent THEN <<"unmodified", "unmodified">>
                          ELSE <<"untracked", "untracked">>
    ELSE IF t[2] = Absent /\ t[3] # Absent
    THEN <<"deleted", "untracked">>
    ELSE <<Compare(t[1], t[2]), Compare(t[2], t[3])>>

Kinds == {"unmodified", "added", "deleted", "modified", "untracked"}

\* The three sections of the screen; a file may be in two of them.
Staged(c) == c[1] \notin {"unmodified", "untracked"}
Unstaged(c) == c[2] \notin {"unmodified", "untracked"}
Untracked(c) == c[2] = "untracked"

\* No status yet, before the first answer.
NoRows == [p \in Paths |-> <<"unmodified", "unmodified">>]
RowsOf(r) == [p \in Paths |-> Columns(tree[r][p])]

\* WorkingCopyDestinationCard counts a path once, whatever its columns say.
ChangedPaths(rows) == {p \in Paths : rows[p] # <<"unmodified", "unmodified">>}

Idle == [at |-> "idle"]
Writes == {"stage", "unstage", "discard", "clean"}
\* at: git works, its answer travels.  A write on path None is for all files.
Pending == [at : {"work", "answer"}, op : Writes \union {"load", "diff"},
            repo : Repos, path : Maybe(Paths), current : BOOLEAN,
            ok : BOOLEAN, rows : [Paths -> Kinds \X Kinds]]

TypeOK ==
    /\ tree \in [Repos -> [Paths -> Content \X Content \X Content]]
    /\ active \in Repos
    /\ status \in [repo : Maybe(Repos), of : Maybe(Repos), loaded : BOOLEAN,
                   rows : [Paths -> Kinds \X Kinds],
                   loading : BOOLEAN, failed : BOOLEAN]
    /\ selected \in [path : Maybe(Paths), diff : Maybe(Repos \X Paths), loading : BOOLEAN]
    /\ armed \in [{"discard", "clean"} -> Maybe(Paths)]
    /\ None \in {armed.discard, armed.clean}
    /\ calls \in [Slots -> Pending \union {Idle}]
    /\ event \in BOOLEAN
    /\ acts \in 0..MaxActs /\ moves \in 0..MaxMoves

Unarmed == [discard |-> None, clean |-> None]
NoSelection == [path |-> None, diff |-> None, loading |-> FALSE]

-----------------------------------------------------------------------------
(* Requests.                                                               *)

Waiting == {q \in Slots : calls[q] # Idle}
Room == Waiting # Slots
FreeSlot == CHOOSE q \in Slots : calls[q] = Idle /\ \A p \in Slots : p < q => calls[p] # Idle

Request(op, r, p) == [at |-> "work", op |-> op, repo |-> r, path |-> p,
                      current |-> op = "load", ok |-> FALSE, rows |-> NoRows]

\* Beginning a load supersedes the loads before it.
Superseded(q) ==
    IF calls[q] = Idle THEN Idle ELSE [calls[q] EXCEPT !.current = FALSE]

\* `spared` is the slot whose answer led here: it is free again.
BeginLoad(r, spared) ==
    LET free == IF spared = 0 THEN FreeSlot ELSE spared IN
    calls' = [q \in Slots |-> IF q = free THEN Request("load", r, None)
                                          ELSE Superseded(q)]

Send(op, r, p) ==
    /\ Room
    /\ calls' = [calls EXCEPT ![FreeSlot] = Request(op, r, p)]

(* statusStore.loadStatus: the rows of another repository are dropped, the *)
(* rows of the same one stay until the answer.                             *)
LoadStatus(r, spared) ==
    /\ BeginLoad(r, spared)
    /\ status' = [status EXCEPT !.repo = r, !.loading = TRUE, !.failed = FALSE,
                    !.loaded = @ /\ r = status.repo,
                    !.rows = IF r = status.repo THEN @ ELSE NoRows,
                    !.of = IF r = status.repo THEN @ ELSE None]

\* The screen is mounted on the first repository: its effect has run.
Init ==
    /\ tree \in [Repos -> [Paths -> Trees]]
    /\ active = CHOOSE r \in Repos : TRUE
    /\ status = [repo |-> active, of |-> None, loaded |-> FALSE, rows |-> NoRows,
                 loading |-> TRUE, failed |-> FALSE]
    /\ calls = [q \in Slots |-> IF q = 1 THEN Request("load", active, None) ELSE Idle]
    /\ selected = NoSelection
    /\ armed = Unarmed
    /\ event = FALSE
    /\ acts = 0 /\ moves = 0

-----------------------------------------------------------------------------
(* The user.                                                               *)

Act == acts < MaxActs /\ acts' = acts + 1 /\ UNCHANGED <<tree, event, moves>>

\* The effect on activeRepo and currentBranch: no selection, a new load.  The
\* armed confirmations are other state of the screen, which it leaves alone.
PickRepo(r) ==
    /\ Act /\ Room
    /\ r # active
    /\ active' = r
    /\ selected' = [NoSelection EXCEPT !.loading = selected.loading]
    /\ LoadStatus(r, 0)
    /\ UNCHANGED <<armed>>

Refresh ==
    /\ Act /\ Room
    /\ ~status.loading
    /\ LoadStatus(active, 0)
    /\ UNCHANGED <<active, selected, armed>>

(* Selecting a row: the diff effect asks for the diff, unless the file is  *)
(* untracked.                                                              *)
Select(p) ==
    /\ Act
    /\ p \in ChangedPaths(status.rows)
    /\ \/ /\ Untracked(status.rows[p])
          /\ selected' = [selected EXCEPT !.path = p, !.diff = None]
          /\ UNCHANGED calls
       \/ /\ ~Untracked(status.rows[p])
          /\ Send("diff", active, p)
          /\ selected' = [selected EXCEPT !.path = p, !.loading = TRUE]
    /\ UNCHANGED <<active, status, armed>>

(* The panel's toggle between the staged and the unstaged half of the file *)
(* selected, when it has both.                                             *)
OtherHalf ==
    LET p == selected.path IN
    /\ Act
    /\ p # None
    /\ Staged(status.rows[p]) /\ Unstaged(status.rows[p])
    /\ Send("diff", active, p)
    /\ selected' = [selected EXCEPT !.loading = TRUE]
    /\ UNCHANGED <<active, status, armed>>

(* The buttons of a row and of a section: statusStore acts on the          *)
(* repository it has loaded.                                               *)
Stage(p) ==
    /\ Act
    /\ \E q \in Paths : p \in {q, None} /\ ~Staged(status.rows[q])
                        /\ q \in ChangedPaths(status.rows)
    /\ Send("stage", status.repo, p)
    /\ UNCHANGED <<active, status, selected, armed>>

Unstage(p) ==
    /\ Act
    /\ \E q \in Paths : p \in {q, None} /\ Staged(status.rows[q])
    /\ Send("unstage", status.repo, p)
    /\ UNCHANGED <<active, status, selected, armed>>

(* Discard is offered on an unstaged row, Delete on an untracked one; each *)
(* arms its confirmation and disarms the other.                            *)
ArmDiscard(p) ==
    /\ Act
    /\ Unstaged(status.rows[p]) /\ armed.discard # p
    /\ armed' = [discard |-> p, clean |-> None]
    /\ UNCHANGED <<active, status, selected, calls>>

ArmClean(p) ==
    /\ Act
    /\ Untracked(status.rows[p]) /\ armed.clean # p
    /\ armed' = [discard |-> None, clean |-> p]
    /\ UNCHANGED <<active, status, selected, calls>>

Disarm(op) ==
    /\ Act
    /\ armed[op] # None
    /\ armed' = [armed EXCEPT ![op] = None]
    /\ UNCHANGED <<active, status, selected, calls>>

(* The confirmation is on the row of the path armed; it acts on the active *)
(* repository.                                                             *)
DoDiscardFile(p) ==
    /\ Act
    /\ armed.discard = p /\ Unstaged(status.rows[p])
    /\ armed' = [armed EXCEPT !.discard = None]
    /\ Send("discard", active, p)
    /\ UNCHANGED <<active, status, selected>>

DoCleanFile(p) ==
    /\ Act
    /\ armed.clean = p /\ Untracked(status.rows[p])
    /\ armed' = [armed EXCEPT !.clean = None]
    /\ Send("clean", active, p)
    /\ UNCHANGED <<active, status, selected>>

-----------------------------------------------------------------------------
(* git.                                                                    *)

\* git add, git reset, git restore from the index, git clean of the untracked.
After(op, t) ==
    CASE op = "stage" -> <<t[1], t[3], t[3]>>
      [] op = "unstage" -> <<t[1], t[1], t[3]>>
      [] op = "discard" -> <<t[1], t[2], t[2]>>
      [] op = "clean" -> IF t[2] = Absent THEN <<t[1], t[2], Absent>> ELSE t

\* git restore and git add refuse a path that they do not know.
Refused(op, t) ==
    \/ op = "discard" /\ t[2] = Absent
    \/ op = "stage" /\ t[2] = Absent /\ t[3] = Absent

Touches(q) == {p \in Paths : calls[q].path \in {p, None}}

GitWrites(q) ==
    LET r == calls[q].repo  op == calls[q].op IN
    /\ calls[q] # Idle /\ calls[q].at = "work" /\ op \in Writes
    /\ \/ /\ \A p \in Touches(q) : calls[q].path = p => ~Refused(op, tree[r][p])
          /\ tree' = [tree EXCEPT ![r] =
                        [p \in Paths |-> IF p \in Touches(q) THEN After(op, @[p]) ELSE @[p]]]
          /\ calls' = [calls EXCEPT ![q].at = "answer", ![q].ok = TRUE]
          /\ event' = (event \/ (r = active /\ tree' # tree))
       \/ /\ \E p \in Touches(q) : calls[q].path = p /\ Refused(op, tree[r][p])
          /\ calls' = [calls EXCEPT ![q].at = "answer"]
          /\ UNCHANGED <<tree, event>>
    /\ UNCHANGED <<active, status, selected, armed, acts, moves>>

\* git status, or git diff, which says what it is the diff of; a status may
\* fail, when the directory of the repository is gone for instance.
GitReads(q) ==
    /\ calls[q] # Idle /\ calls[q].at = "work" /\ calls[q].op \in {"load", "diff"}
    /\ \/ calls' = [calls EXCEPT ![q].at = "answer", ![q].ok = TRUE,
                      ![q].rows = IF calls[q].op = "load" THEN RowsOf(calls[q].repo) ELSE NoRows]
          /\ UNCHANGED moves
       \/ calls[q].op = "load" /\ calls' = [calls EXCEPT ![q].at = "answer"]
          /\ moves < MaxMoves /\ moves' = moves + 1
    /\ UNCHANGED <<tree, active, status, selected, armed, event, acts>>

-----------------------------------------------------------------------------
(* The renderer receives an answer.                                        *)

Answered(q, ops) ==
    calls[q] # Idle /\ calls[q].at = "answer" /\ calls[q].op \in ops

Done(q) == calls' = [calls EXCEPT ![q] = Idle]

Paint(q) ==
    status' = [status EXCEPT !.loading = FALSE, !.loaded = calls[q].ok,
                 !.failed = ~calls[q].ok, !.rows = calls[q].rows,
                 !.of = IF calls[q].ok THEN calls[q].repo ELSE None]

(* The answer of a load that is still current: rows, or a failure without. *)
StatusLoaded(q) ==
    /\ Answered(q, {"load"})
    /\ IF calls[q].current THEN Paint(q) ELSE UNCHANGED status
    /\ Done(q)
    /\ UNCHANGED <<tree, active, selected, armed, event, acts, moves>>

(* The diff is painted whatever is selected by now.                        *)
DiffLoaded(q) ==
    /\ Answered(q, {"diff"})
    /\ selected' = [selected EXCEPT !.diff = <<calls[q].repo, calls[q].path>>,
                                    !.loading = FALSE]
    /\ Done(q)
    /\ UNCHANGED <<tree, active, status, armed, event, acts, moves>>

(* A write worked: the status of the repository it was for is loaded, even *)
(* when another is active by now.  It failed: only a message.              *)
Written(q) ==
    /\ Answered(q, Writes)
    /\ \/ calls[q].ok /\ LoadStatus(calls[q].repo, q)
       \/ ~calls[q].ok /\ Done(q) /\ UNCHANGED status
    /\ UNCHANGED <<tree, active, selected, armed, event, acts, moves>>

\* Mutant: the event is taken and nothing is read.
EventDropped ==
    /\ event
    /\ event' = FALSE
    /\ UNCHANGED <<tree, active, status, selected, armed, calls, acts, moves>>

(* The watcher's event refreshes the status of the active repository.      *)
OnIndexChanged ==
    /\ event
    /\ Room
    /\ event' = FALSE
    /\ LoadStatus(active, 0)
    /\ UNCHANGED <<tree, active, selected, armed, acts, moves>>

(* Somebody edits a file.  The watcher looks at .git only: an edit of the  *)
(* working tree is seen when a change of the index goes with it.           *)
Outside(r, p) ==
    /\ moves < MaxMoves /\ moves' = moves + 1
    /\ \E v \in Content :
          /\ v # tree[r][p][3]
          /\ tree' = [tree EXCEPT ![r][p] = <<@[1], v, v>>]
    /\ event' = (event \/ r = active)
    /\ UNCHANGED <<active, status, selected, armed, calls, acts>>

Background ==
    \/ OnIndexChanged
    \/ \E q \in Slots : \/ GitWrites(q) \/ GitReads(q)
                        \/ StatusLoaded(q) \/ DiffLoaded(q) \/ Written(q)

Next ==
    \/ Background
    \/ \E r \in Repos : PickRepo(r)
    \/ Refresh \/ OtherHalf
    \/ \E p \in Paths : Select(p) \/ ArmDiscard(p) \/ ArmClean(p)
                        \/ DoDiscardFile(p) \/ DoCleanFile(p)
    \/ \E p \in Maybe(Paths) : Stage(p) \/ Unstage(p)
    \/ \E op \in {"discard", "clean"} : Disarm(op)
    \/ \E r \in Repos, p \in Paths : Outside(r, p)

Spec == Init /\ [][Next]_vars
FairSpec == Spec /\ WF_vars(Background)

-----------------------------------------------------------------------------
(* Properties.                                                             *)

(* The rows shown are those of the repository statusStore says it has      *)
(* loaded, which its buttons act on: never those of another one, whose     *)
(* answer came late or whose rows were left while the next load runs       *)
(* (statusStore.loadStatus, W7).                                           *)
RowsOfStore == status.loaded => status.of = status.repo

(* Every load ends, whatever superseded it and whether it failed.          *)
LoadEnds == status.loading ~> ~status.loading

(* Once nobody acts, the rows are those git would report, or an error is   *)
(* shown, or the rows of another repository are (see DiscardsWhereShown).  *)
Truthful == status.repo = active /\ ~status.failed => status.rows = RowsOf(active)
ShowsTruth == <>[]Truthful

(* What is discarded or deleted is in the repository whose row was         *)
(* clicked.  Refuted: a stage of the repository left, answered after the   *)
(* switch, loads and shows its rows again, and the confirmed discard acts  *)
(* on the active repository (statusStore.stageFile, StatusScreen           *)
(* doDiscardFile), although the rows are reset "so a superseded row can't  *)
(* be clicked".                                                            *)
DiscardsWhereShown ==
    [][\A q \in Slots :
         calls[q] = Idle /\ calls'[q] # Idle /\ calls'[q].op \in {"discard", "clean"}
         => calls'[q].repo = status.of]_vars
=============================================================================
