------------------------------- MODULE MCViews -------------------------------
(***************************************************************************)
(* Small instances of StatusView and HistoryView, checked in one run: a    *)
(* behaviour is of one of the two, the other stays as it began.            *)
(***************************************************************************)
EXTENDS Naturals

CONSTANTS Repos, Branches, Main, Paths, Versions, Absent, Trees, None,
          PageSize, NSlots, MaxId, StatusActs, HistoryActs, MaxMoves

\* Staged, and since then edited again or removed.
EditedOrRemoved == {<<Absent, "v1", "v2">>, <<"v1", "v2", Absent>>}

VARIABLES part,
          tree, active, status, selected, armed, calls, event, acts, moves,
          log, unpushed, head, dirty, hActive, current, screen, hist, confirm,
          hCalls, hEvent, hActs, hMoves, crossed

S == INSTANCE StatusView WITH MaxActs <- StatusActs
H == INSTANCE HistoryView WITH MaxActs <- HistoryActs, active <- hActive,
         calls <- hCalls, event <- hEvent, acts <- hActs, moves <- hMoves

\* None is no value of any kind; the histories begin with the commits 1 to 3.
ASSUME ViewsAssumption ==
    /\ None \notin Repos /\ None \notin Branches /\ None \notin Paths /\ None \notin 1..MaxId
    /\ Repos # {} /\ Main \in Branches
    /\ Trees \subseteq S!Content \X S!Content \X S!Content
    /\ {PageSize, StatusActs, HistoryActs, MaxMoves} \subseteq Nat
    /\ NSlots \in Nat \ {0} /\ MaxId \in Nat /\ MaxId >= 3

statusVars == <<tree, active, status, selected, armed, calls, event, acts, moves>>
historyVars == <<log, unpushed, head, dirty, hActive, current, screen, hist, confirm,
                 hCalls, hEvent, hActs, hMoves, crossed>>
vars == <<part, statusVars, historyVars>>

Init ==
    /\ part \in {"status", "history"}
    /\ S!Init /\ H!Init
    /\ part = "history" =>
          tree = [r \in Repos |-> [p \in Paths |-> CHOOSE t \in Trees : TRUE]]

Status(A) == part = "status" /\ A /\ UNCHANGED <<part, historyVars>>
History(A) == part = "history" /\ A /\ UNCHANGED <<part, statusVars>>

Next == Status(S!Next) \/ History(H!Next)
Spec == Init /\ [][Next]_vars
FairSpec == Spec /\ WF_vars(Status(S!Background) \/ History(H!Background))

-----------------------------------------------------------------------------
(* Properties, of the parts that the modules state one by one.             *)

(* The rows of the status and the details of a commit are those of what    *)
(* the store says it has loaded and selected, whichever answer comes last  *)
(* (the request guards of statusStore and historyStore).                   *)
ShowsItsOwn == S!TypeOK /\ S!RowsOfStore /\ H!TypeOK /\ H!DetailOfSelected

(* Commits are returned only from the branch the confirmation named        *)
(* (expectedBranch of HistoryScreen and uncommitExecutor.ts).              *)
ReturnsFromNamedBranch == H!ReturnsFromNamedBranch

(* Once nobody acts any more nothing is still loading or busy, and both    *)
(* screens show what git holds, whatever the terminal did meanwhile (the   *)
(* watcher's events and the reload after each operation).  The acts of the *)
(* user are bounded: this implies what the modules state of each.          *)
ViewsSettle ==
    <>[](/\ part = "status" => S!Truthful /\ ~status.loading
         /\ part = "history" => H!Truthful /\ ~H!Busy)
=============================================================================
