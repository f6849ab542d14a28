------------------------------ MODULE ViewsProofs ------------------------------
(***************************************************************************)
(* Theorems about StatusView and HistoryView, for any repositories,        *)
(* branches, paths and contents, any number of acts, of commits and of     *)
(* requests at once: what the two screens show is what their stores say    *)
(* they have loaded and selected, and commits are returned only from the   *)
(* branch that was named.                                                  *)
(***************************************************************************)
EXTENDS MCViews, Sequences, TLAPS

-----------------------------------------------------------------------------
(* StatusView.  A load that is current is for the repository the store     *)
(* says it is on: whatever moves the store supersedes the loads before.    *)
(* And a diff is of a file.                                                *)

Rows == [Paths -> S!Kinds \X S!Kinds]
StatusState == [repo : S!Maybe(Repos), of : S!Maybe(Repos), loaded : BOOLEAN,
                rows : Rows, loading : BOOLEAN, failed : BOOLEAN]
StatusCalls == [S!Slots -> S!Pending \union {S!Idle}]

CallsOfStore ==
    \A q \in S!Slots : calls[q] # S!Idle =>
        /\ calls[q].current => calls[q].op = "load" /\ calls[q].repo = status.repo
        /\ calls[q].op = "diff" => calls[q].path \in Paths

StatusInv == S!TypeOK /\ S!RowsOfStore /\ CallsOfStore /\ status.repo \in Repos

\* What a request is, with each of its fields.
Fields(c) ==
    /\ c.at \in {"work", "answer"} /\ c.op \in S!Writes \union {"load", "diff"}
    /\ c.repo \in Repos /\ c.path \in S!Maybe(Paths)
    /\ c.current \in BOOLEAN /\ c.ok \in BOOLEAN /\ c.rows \in Rows
    /\ c = [at |-> c.at, op |-> c.op, repo |-> c.repo, path |-> c.path,
            current |-> c.current, ok |-> c.ok, rows |-> c.rows]

LEMMA PendingFields ==
    ASSUME NEW c
    PROVE  (c \in S!Pending <=> Fields(c)) /\ (c \in S!Pending => c # S!Idle)
<1>1. S!Pending = [at : {"work", "answer"}, op : S!Writes \union {"load", "diff"},
                   repo : Repos, path : S!Maybe(Paths), current : BOOLEAN,
                   ok : BOOLEAN, rows : Rows]
  BY DEF S!Pending, Rows
<1>2. c \in S!Pending => Fields(c)
  BY <1>1 DEF Fields
<1>3. Fields(c) => c \in S!Pending
  BY <1>1 DEF Fields
<1>4. c \in S!Pending => c # S!Idle
  BY <1>1 DEF S!Idle
<1> QED BY <1>2, <1>3, <1>4

\* What git reports is a pair of kinds.
LEMMA RowsType == S!NoRows \in Rows /\ \A r : S!RowsOf(r) \in Rows
<1>1. \A t : S!Columns(t) \in S!Kinds \X S!Kinds
  BY DEF S!Columns, S!Compare, S!Kinds
<1> QED BY <1>1 DEF S!NoRows, S!RowsOf, Rows, S!Kinds

LEMMA RequestType ==
    ASSUME NEW op \in S!Writes \union {"load", "diff"}, NEW r \in Repos, NEW p \in S!Maybe(Paths)
    PROVE  /\ S!Request(op, r, p) \in S!Pending
           /\ S!Request(op, r, p).op = op /\ S!Request(op, r, p).repo = r
           /\ S!Request(op, r, p).current = (op = "load")
<1>1. Fields(S!Request(op, r, p))
  BY RowsType DEF Fields, S!Request
<1> QED BY <1>1, PendingFields DEF S!Request

\* A load, from whichever slot: the store is on its repository, and it is the
\* only one that is current.
LEMMA LoadBrings ==
    ASSUME StatusInv, NEW r \in Repos, NEW spared, S!LoadStatus(r, spared)
    PROVE  status' \in StatusState /\ calls' \in StatusCalls
           /\ S!RowsOfStore' /\ CallsOfStore' /\ status'.repo \in Repos
<1>1. status \in StatusState /\ calls \in StatusCalls
  BY DEF StatusInv, S!TypeOK, StatusState, StatusCalls, Rows
<1>2. /\ status' \in StatusState /\ status'.repo = r
      /\ status'.loaded => status.loaded /\ r = status.repo /\ status'.of = status.of
  BY <1>1, RowsType DEF S!LoadStatus, StatusState, S!Maybe
<1>3. S!RowsOfStore'
  BY <1>2 DEF StatusInv, S!RowsOfStore
<1>4. PICK free : calls' = [q \in S!Slots |-> IF q = free THEN S!Request("load", r, None)
                                              ELSE S!Superseded(q)]
  BY DEF S!LoadStatus, S!BeginLoad
<1>5. S!Request("load", r, None) \in S!Pending /\ S!Request("load", r, None).op = "load"
        /\ S!Request("load", r, None).repo = r
  BY RequestType DEF S!Maybe
<1>6. ASSUME NEW q \in S!Slots
      PROVE  /\ S!Superseded(q) \in S!Pending \union {S!Idle}
             /\ S!Superseded(q) # S!Idle =>
                    /\ ~S!Superseded(q).current
                    /\ S!Superseded(q).op = "diff" => S!Superseded(q).path \in Paths
  <2>1. CASE calls[q] = S!Idle
    BY <2>1 DEF S!Superseded
  <2>2. CASE calls[q] # S!Idle
    <3>1. Fields(calls[q])
      BY <1>1, <2>2, PendingFields DEF StatusCalls
    <3>2. PICK c : c = calls[q]
      OBVIOUS
    <3>3. PICK d : d = [c EXCEPT !.current = FALSE]
      OBVIOUS
    <3>4. d = [at |-> c.at, op |-> c.op, repo |-> c.repo, path |-> c.path,
               current |-> FALSE, ok |-> c.ok, rows |-> c.rows]
      BY <3>1, <3>2, <3>3 DEF Fields
    <3>5. Fields(d) /\ ~d.current /\ d.op = c.op /\ d.path = c.path
      BY <3>1, <3>2, <3>4 DEF Fields
    <3> QED BY <2>2, <3>2, <3>3, <3>5, PendingFields DEF S!Superseded, StatusInv, CallsOfStore
  <2> QED BY <2>1, <2>2
<1>7. calls' \in StatusCalls
  BY <1>4, <1>5, <1>6 DEF StatusCalls
<1>8. CallsOfStore'
  BY <1>2, <1>4, <1>5, <1>6 DEF CallsOfStore
<1> QED BY <1>2, <1>3, <1>7, <1>8

\* A request of another kind changes neither the store nor what is current.
LEMMA SendKeeps ==
    ASSUME StatusInv, NEW op \in S!Writes \union {"diff"}, NEW r \in Repos,
           NEW p \in S!Maybe(Paths), op = "diff" => p # None, S!Send(op, r, p),
           status' = status
    PROVE  calls' \in StatusCalls /\ CallsOfStore'
<1>1. calls \in StatusCalls
  BY DEF StatusInv, S!TypeOK, StatusCalls
<1>2. PICK c : c = S!Request(op, r, p)
  OBVIOUS
<1>3. c \in S!Pending /\ ~c.current /\ c.op = op /\ c.path = p
  BY <1>2, RequestType DEF S!Writes, S!Request
<1>4. calls' = [calls EXCEPT ![S!FreeSlot] = c]
  BY <1>2 DEF S!Send
<1> QED BY <1>1, <1>3, <1>4 DEF StatusInv, StatusCalls, CallsOfStore, S!Maybe

\* An answer of git leaves what the request is for as it is.
LEMMA AnswerKeeps ==
    ASSUME StatusInv, NEW q \in S!Slots, calls[q] # S!Idle, NEW d, d \in S!Pending,
           d.op = calls[q].op, d.path = calls[q].path, d.repo = calls[q].repo, d.current = calls[q].current,
           calls' = [calls EXCEPT ![q] = d], status' = status
    PROVE  calls' \in StatusCalls /\ CallsOfStore'
<1>1. calls \in StatusCalls
  BY DEF StatusInv, S!TypeOK, StatusCalls
<1> QED BY <1>1 DEF StatusInv, StatusCalls, CallsOfStore

\* One request less.
LEMMA DoneKeeps ==
    ASSUME StatusInv, NEW q \in S!Slots, S!Done(q), status'.repo = status.repo
    PROVE  calls' \in StatusCalls /\ CallsOfStore'
<1>1. calls \in StatusCalls
  BY DEF StatusInv, S!TypeOK, StatusCalls
<1> QED BY <1>1 DEF StatusInv, StatusCalls, CallsOfStore, S!Done

\* What does not touch the requests: the types of the rest.
StatusRest ==
    /\ tree \in [Repos -> [Paths -> S!Content \X S!Content \X S!Content]]
    /\ active \in Repos
    /\ selected \in [path : S!Maybe(Paths), diff : S!Maybe(Repos \X Paths), loading : BOOLEAN]
    /\ armed \in [{"discard", "clean"} -> S!Maybe(Paths)]
    /\ None \in {armed.discard, armed.clean}
    /\ event \in BOOLEAN
    /\ acts \in 0..StatusActs /\ moves \in 0..MaxMoves

LEMMA StatusParts == S!TypeOK <=> StatusRest /\ status \in StatusState /\ calls \in StatusCalls
BY DEF S!TypeOK, StatusRest, StatusState, StatusCalls, Rows

\* What a row is clicked for is a path.
LEMMA ActedOn ==
    ASSUME StatusInv, S!Act
    PROVE  acts' \in 0..StatusActs /\ tree' = tree /\ event' = event /\ moves' = moves
BY ViewsAssumption DEF StatusInv, S!TypeOK, S!Act

LEMMA StatusInit == Init => StatusInv
<1> SUFFICES ASSUME S!Init PROVE StatusInv
  BY DEF Init
<1>1. active \in Repos
  BY ViewsAssumption DEF S!Init
<1>2. S!Request("load", active, None) \in S!Pending
        /\ S!Request("load", active, None).repo = active
        /\ S!Request("load", active, None).op = "load"
  BY <1>1, RequestType DEF S!Maybe
<1>3. calls \in StatusCalls /\ CallsOfStore
  <2>1. PICK c : c = S!Request("load", active, None)
    OBVIOUS
  <2>2. calls = [q \in S!Slots |-> IF q = 1 THEN S!Request("load", active, None) ELSE S!Idle]
    BY DEF S!Init
  <2>3. calls = [q \in S!Slots |-> IF q = 1 THEN c ELSE S!Idle]
    BY <2>1, <2>2
  <2>4. status.repo = active
    BY DEF S!Init
  <2> QED BY <1>2, <2>1, <2>3, <2>4 DEF StatusCalls, CallsOfStore
<1>4. status \in StatusState /\ S!RowsOfStore /\ status.repo \in Repos
  BY <1>1, RowsType DEF S!Init, StatusState, S!Maybe, S!RowsOfStore
<1>5. StatusRest
  <2>1. tree \in [Repos -> [Paths -> S!Content \X S!Content \X S!Content]]
    BY ViewsAssumption DEF S!Init
  <2>2. acts \in 0..StatusActs /\ moves \in 0..MaxMoves
    <3>1. StatusActs \in Nat /\ MaxMoves \in Nat
      BY ViewsAssumption
    <3>2. acts = 0 /\ moves = 0
      BY DEF S!Init
    <3> QED BY <3>1, <3>2
  <2>3. event = FALSE /\ selected = S!NoSelection /\ armed = S!Unarmed
    BY DEF S!Init
  <2>4. armed \in [{"discard", "clean"} -> S!Maybe(Paths)] /\ armed.discard = None
    BY <2>3 DEF S!Unarmed, S!Maybe
  <2>5. selected \in [path : S!Maybe(Paths), diff : S!Maybe(Repos \X Paths), loading : BOOLEAN]
    BY <2>3 DEF S!NoSelection, S!Maybe
  <2> QED BY <1>1, <2>1, <2>2, <2>3, <2>4, <2>5 DEF StatusRest
<1> QED BY <1>3, <1>4, <1>5, StatusParts DEF StatusInv

LEMMA StatusNext == StatusInv /\ [S!Next]_statusVars => StatusInv'
<1> SUFFICES ASSUME StatusInv, [S!Next]_statusVars PROVE StatusInv'
  OBVIOUS
<1> DEFINE Kept == status' \in StatusState /\ calls' \in StatusCalls
                     /\ S!RowsOfStore' /\ CallsOfStore' /\ status'.repo \in Repos
<1>1. StatusRest /\ status \in StatusState /\ calls \in StatusCalls
        /\ S!RowsOfStore /\ CallsOfStore /\ status.repo \in Repos
  BY StatusParts DEF StatusInv
<1>2. StatusRest' /\ Kept => StatusInv'
  BY DEF StatusInv, S!TypeOK, StatusRest, StatusState, StatusCalls, Rows
<1>3. status' = status => status' \in StatusState /\ S!RowsOfStore' /\ status'.repo \in Repos
  BY <1>1 DEF S!RowsOfStore
<1>4. status' = status /\ calls' = calls => Kept
  BY <1>1 DEF S!RowsOfStore, CallsOfStore
<1>5. \A p \in Paths : p \in S!Maybe(Paths)
  BY DEF S!Maybe
<1>6. S!Act => acts' \in 0..StatusActs /\ tree' = tree /\ event' = event /\ moves' = moves
  BY ActedOn
<1> HIDE DEF Kept
<1>7. ASSUME NEW r \in Repos, S!PickRepo(r) PROVE StatusInv'
  <2>1. Kept
    BY <1>7, LoadBrings DEF S!PickRepo, Kept
  <2>2. StatusRest'
    BY <1>1, <1>6, <1>7 DEF S!PickRepo, StatusRest, S!NoSelection, S!Maybe
  <2> QED BY <1>2, <2>1, <2>2
<1>8. ASSUME S!Refresh PROVE StatusInv'
  <2>1. Kept
    BY <1>1, <1>8, LoadBrings DEF S!Refresh, Kept, StatusRest
  <2>2. StatusRest'
    BY <1>1, <1>6, <1>8 DEF S!Refresh, StatusRest
  <2> QED BY <1>2, <2>1, <2>2
<1>9. ASSUME NEW p \in Paths, S!Select(p) PROVE StatusInv'
  <2>1. Kept
    <3>1. CASE UNCHANGED calls
      BY <1>4, <1>9, <3>1 DEF S!Select
    <3>2. CASE S!Send("diff", active, p)
      <4>1. active \in Repos /\ "diff" \in S!Writes \union {"diff"} /\ status' = status
        BY <1>1, <1>9 DEF S!Select, StatusRest
      <4>2. calls' \in StatusCalls /\ CallsOfStore'
        <5>1. p # None /\ p \in S!Maybe(Paths)
          BY <1>5, ViewsAssumption
        <5> QED BY <3>2, <4>1, <5>1, SendKeeps
      <4> QED BY <1>1, <1>3, <4>1, <4>2 DEF Kept
    <3> QED BY <1>9, <3>1, <3>2 DEF S!Select
  <2>2. StatusRest'
    BY <1>1, <1>6, <1>9 DEF S!Select, StatusRest, S!Maybe
  <2> QED BY <1>2, <2>1, <2>2
<1>10. ASSUME S!OtherHalf PROVE StatusInv'
  <2>1. Kept
    <3>1. /\ active \in Repos /\ "diff" \in S!Writes \union {"diff"} /\ status' = status
          /\ selected.path \in S!Maybe(Paths) /\ selected.path # None
          /\ S!Send("diff", active, selected.path)
      <4>1. /\ active \in Repos /\ selected.path \in S!Maybe(Paths)
            /\ "diff" \in S!Writes \union {"diff"}
        BY <1>1 DEF StatusRest
      <4>2. /\ selected.path # None /\ S!Send("diff", active, selected.path)
            /\ status' = status
        BY <1>10 DEF S!OtherHalf
      <4> QED BY <4>1, <4>2
    <3>2. calls' \in StatusCalls /\ CallsOfStore'
      <4>1. PICK p : p = selected.path
        OBVIOUS
      <4> QED BY <3>1, <4>1, SendKeeps
    <3> QED BY <1>1, <1>3, <3>1, <3>2 DEF Kept
  <2>2. StatusRest'
    BY <1>1, <1>6, <1>10 DEF S!OtherHalf, StatusRest
  <2> QED BY <1>2, <2>1, <2>2
<1>11. ASSUME NEW p \in S!Maybe(Paths), S!Stage(p) \/ S!Unstage(p) PROVE StatusInv'
  <2>1. status' = status
    BY <1>11 DEF S!Stage, S!Unstage
  <2>2. PICK op \in {"stage", "unstage"} : S!Send(op, status.repo, p)
    BY <1>11 DEF S!Stage, S!Unstage
  <2>3. Kept
    <3>1. op \in S!Writes \union {"diff"} /\ op # "diff" /\ status.repo \in Repos
      BY <1>1 DEF S!Writes
    <3> QED BY <1>3, <2>1, <2>2, <3>1, SendKeeps DEF Kept
  <2>4. StatusRest'
    BY <1>1, <1>6, <1>11 DEF S!Stage, S!Unstage, StatusRest
  <2> QED BY <1>2, <2>3, <2>4
<1>12. ASSUME NEW p \in Paths, S!ArmDiscard(p) \/ S!ArmClean(p) PROVE StatusInv'
  <2>1. Kept
    BY <1>4, <1>12 DEF S!ArmDiscard, S!ArmClean
  <2>2. StatusRest'
    BY <1>1, <1>5, <1>6, <1>12 DEF S!ArmDiscard, S!ArmClean, StatusRest, S!Maybe
  <2> QED BY <1>2, <2>1, <2>2
<1>13. ASSUME NEW op \in {"discard", "clean"}, S!Disarm(op) PROVE StatusInv'
  <2>1. Kept
    BY <1>4, <1>13 DEF S!Disarm
  <2>2. StatusRest'
    BY <1>1, <1>6, <1>13 DEF S!Disarm, StatusRest, S!Maybe
  <2> QED BY <1>2, <2>1, <2>2
<1>14. ASSUME NEW p \in Paths, S!DoDiscardFile(p) \/ S!DoCleanFile(p) PROVE StatusInv'
  <2>1. status' = status /\ active \in Repos
    BY <1>1, <1>14 DEF S!DoDiscardFile, S!DoCleanFile, StatusRest
  <2>2. PICK op \in {"discard", "clean"} : S!Send(op, active, p)
    BY <1>14 DEF S!DoDiscardFile, S!DoCleanFile
  <2>3. Kept
    <3>1. op \in S!Writes \union {"diff"} /\ op # "diff"
      BY DEF S!Writes
    <3> QED BY <1>3, <1>5, <2>1, <2>2, <3>1, SendKeeps DEF Kept
  <2>4. StatusRest'
    BY <1>1, <1>6, <1>14 DEF S!DoDiscardFile, S!DoCleanFile, StatusRest, S!Maybe
  <2> QED BY <1>2, <2>3, <2>4
<1>15. ASSUME NEW q \in S!Slots, S!GitWrites(q) PROVE StatusInv'
  <2>1. calls[q] \in S!Pending /\ calls[q] # S!Idle /\ status' = status
    BY <1>1, <1>15 DEF S!GitWrites, StatusCalls
  <2>2. PICK c : c = calls[q]
    OBVIOUS
  <2>3. Fields(c) /\ c.repo \in Repos
    BY <2>1, <2>2, PendingFields DEF Fields
  <2>4. Kept
    <3>1. PICK ok \in BOOLEAN : calls' = [calls EXCEPT ![q] =
            [at |-> "answer", op |-> c.op, repo |-> c.repo, path |-> c.path,
             current |-> c.current, ok |-> ok, rows |-> c.rows]]
      BY <1>1, <1>15, <2>2, <2>3 DEF S!GitWrites, StatusCalls, Fields
    <3>2. PICK d : d = [at |-> "answer", op |-> c.op, repo |-> c.repo, path |-> c.path,
                        current |-> c.current, ok |-> ok, rows |-> c.rows]
      OBVIOUS
    <3>3. d \in S!Pending /\ d.op = c.op /\ d.path = c.path /\ d.repo = c.repo
          /\ d.current = c.current
      BY <2>3, <3>2, PendingFields DEF Fields
    <3> QED BY <1>3, <2>1, <2>2, <3>1, <3>2, <3>3, AnswerKeeps DEF Kept
  <2>5. StatusRest'
    <3>1. \A t \in S!Content \X S!Content \X S!Content :
              S!After(c.op, t) \in S!Content \X S!Content \X S!Content
      <4>1. c.op \in S!Writes
        BY <1>15, <2>2 DEF S!GitWrites
      <4> QED BY <4>1 DEF S!After, S!Writes, S!Content
    <3>2. tree' \in [Repos -> [Paths -> S!Content \X S!Content \X S!Content]]
      <4>1. CASE tree' = tree
        BY <1>1, <4>1 DEF StatusRest
      <4>2. CASE tree' = [tree EXCEPT ![c.repo] =
                  [p \in Paths |-> IF p \in S!Touches(q) THEN S!After(c.op, @[p]) ELSE @[p]]]
        <5>1. [p \in Paths |-> IF p \in S!Touches(q) THEN S!After(c.op, tree[c.repo][p])
                               ELSE tree[c.repo][p]]
                 \in [Paths -> S!Content \X S!Content \X S!Content]
          BY <1>1, <2>3, <3>1 DEF StatusRest
        <5> QED BY <1>1, <2>3, <4>2, <5>1 DEF StatusRest
      <4> QED BY <1>15, <2>2, <4>1, <4>2 DEF S!GitWrites
    <3>3. event' \in BOOLEAN
      BY <1>1, <1>15 DEF S!GitWrites, StatusRest
    <3> QED BY <1>1, <1>15, <3>2, <3>3 DEF S!GitWrites, StatusRest
  <2> QED BY <1>2, <2>4, <2>5
<1>16. ASSUME NEW q \in S!Slots, S!GitReads(q) PROVE StatusInv'
  <2>1. calls[q] \in S!Pending /\ calls[q] # S!Idle /\ status' = status
    BY <1>1, <1>16 DEF S!GitReads, StatusCalls
  <2>2. PICK c : c = calls[q]
    OBVIOUS
  <2>3. Fields(c)
    BY <2>1, <2>2, PendingFields
  <2>4. Kept
    <3>1. PICK ok \in BOOLEAN, rows \in Rows : calls' = [calls EXCEPT ![q] =
            [at |-> "answer", op |-> c.op, repo |-> c.repo, path |-> c.path,
             current |-> c.current, ok |-> ok, rows |-> rows]]
      <4>1. S!NoRows \in Rows /\ S!RowsOf(c.repo) \in Rows /\ c.rows \in Rows
        BY <2>3, RowsType DEF Fields
      <4>2. \/ calls' = [calls EXCEPT ![q].at = "answer", ![q].ok = TRUE,
                           ![q].rows = IF c.op = "load" THEN S!RowsOf(c.repo) ELSE S!NoRows]
            \/ calls' = [calls EXCEPT ![q].at = "answer"]
        BY <1>16, <2>2 DEF S!GitReads
      <4> QED BY <1>1, <2>2, <2>3, <4>1, <4>2 DEF StatusCalls, Fields
    <3>2. PICK d : d = [at |-> "answer", op |-> c.op, repo |-> c.repo, path |-> c.path,
                        current |-> c.current, ok |-> ok, rows |-> rows]
      OBVIOUS
    <3>3. d \in S!Pending /\ d.op = c.op /\ d.path = c.path /\ d.repo = c.repo
          /\ d.current = c.current
      BY <2>3, <3>2, PendingFields DEF Fields
    <3> QED BY <1>3, <2>1, <2>2, <3>1, <3>2, <3>3, AnswerKeeps DEF Kept
  <2>5. StatusRest'
    BY <1>1, <1>16, ViewsAssumption DEF S!GitReads, StatusRest
  <2> QED BY <1>2, <2>4, <2>5
<1>17. ASSUME NEW q \in S!Slots, S!StatusLoaded(q) PROVE StatusInv'
  <2>1. calls[q] # S!Idle /\ calls[q] \in S!Pending /\ S!Done(q)
    BY <1>1, <1>17 DEF S!StatusLoaded, S!Answered, StatusCalls
  <2>2. Fields(calls[q])
    BY <2>1, PendingFields
  <2>3. CASE calls[q].current /\ S!Paint(q)
    <3>1. calls[q].repo = status.repo
      BY <1>1, <2>1, <2>3 DEF CallsOfStore
    <3>2. status' \in StatusState /\ status'.repo = status.repo /\ S!RowsOfStore'
      BY <1>1, <2>2, <2>3, <3>1 DEF S!Paint, StatusState, Fields, S!RowsOfStore, S!Maybe
    <3>3. Kept
      BY <1>1, <2>1, <3>2, DoneKeeps DEF Kept
    <3> QED BY <1>1, <1>2, <1>17, <3>3 DEF S!StatusLoaded, StatusRest
  <2>4. CASE status' = status
    <3>1. Kept
      BY <1>3, <2>1, <2>4, DoneKeeps DEF Kept
    <3> QED BY <1>1, <1>2, <1>17, <3>1 DEF S!StatusLoaded, StatusRest
  <2> QED BY <1>17, <2>3, <2>4 DEF S!StatusLoaded
<1>18. ASSUME NEW q \in S!Slots, S!DiffLoaded(q) PROVE StatusInv'
  <2>1. calls[q] # S!Idle /\ calls[q] \in S!Pending /\ S!Done(q) /\ status' = status
    BY <1>1, <1>18 DEF S!DiffLoaded, S!Answered, StatusCalls
  <2>2. Kept
    BY <1>3, <2>1, DoneKeeps DEF Kept
  <2>3. Fields(calls[q]) /\ calls[q].path \in Paths
    BY <1>1, <1>18, <2>1, PendingFields DEF S!DiffLoaded, S!Answered, CallsOfStore
  <2>4. StatusRest'
    BY <1>1, <1>18, <2>3 DEF S!DiffLoaded, StatusRest, Fields, S!Maybe
  <2> QED BY <1>2, <2>2, <2>4
<1>19. ASSUME NEW q \in S!Slots, S!Written(q) PROVE StatusInv'
  <2>1. calls[q] # S!Idle /\ calls[q] \in S!Pending
    BY <1>1, <1>19 DEF S!Written, S!Answered, StatusCalls
  <2>2. calls[q].repo \in Repos
    BY <2>1, PendingFields DEF Fields
  <2>3. Kept
    <3>1. CASE S!LoadStatus(calls[q].repo, q)
      BY <2>2, <3>1, LoadBrings DEF Kept
    <3>2. CASE S!Done(q) /\ status' = status
      BY <1>3, <3>2, DoneKeeps DEF Kept
    <3> QED BY <1>19, <3>1, <3>2 DEF S!Written
  <2>4. StatusRest'
    BY <1>1, <1>19 DEF S!Written, StatusRest
  <2> QED BY <1>2, <2>3, <2>4
<1>20. ASSUME S!OnIndexChanged PROVE StatusInv'
  <2>1. Kept
    BY <1>1, <1>20, LoadBrings DEF S!OnIndexChanged, Kept, StatusRest
  <2>2. StatusRest'
    BY <1>1, <1>20 DEF S!OnIndexChanged, StatusRest
  <2> QED BY <1>2, <2>1, <2>2
<1>21. ASSUME NEW r \in Repos, NEW p \in Paths, S!Outside(r, p) PROVE StatusInv'
  <2>1. Kept
    BY <1>4, <1>21 DEF S!Outside
  <2>2. PICK v \in S!Content : tree' = [tree EXCEPT ![r][p] = <<@[1], v, v>>]
    BY <1>21 DEF S!Outside
  <2>3. tree' \in [Repos -> [Paths -> S!Content \X S!Content \X S!Content]]
    <3>1. <<tree[r][p][1], v, v>> \in S!Content \X S!Content \X S!Content
      BY <1>1, <2>2 DEF StatusRest
    <3> QED BY <1>1, <2>2, <3>1 DEF StatusRest
  <2>4. moves' \in 0..MaxMoves /\ event' \in BOOLEAN
    BY <1>1, <1>21, ViewsAssumption DEF S!Outside, StatusRest
  <2>5. StatusRest'
    BY <1>1, <1>21, <2>3, <2>4 DEF S!Outside, StatusRest
  <2> QED BY <1>2, <2>1, <2>5
<1>22. ASSUME UNCHANGED statusVars PROVE StatusInv'
  BY <1>1, <1>2, <1>4, <1>22 DEF statusVars, StatusRest
<1> QED
  BY <1>7, <1>8, <1>9, <1>10, <1>11, <1>12, <1>13, <1>14, <1>15, <1>16, <1>17, <1>18, <1>19,
     <1>20, <1>21, <1>22 DEF S!Next, S!Background, statusVars, S!vars

-----------------------------------------------------------------------------
(* HistoryView.  The depth of a Load more is two pages at least: when it   *)
(* fails, the store goes back to one page or more.                         *)

ReturnState == [last : BOOLEAN, all : BOOLEAN, count : Nat]
HistState == [repo : Repos, branch : H!Maybe(Branches), commits : Seq(H!Ids),
              limit : Nat, loading : BOOLEAN, loadingMore : BOOLEAN, failed : BOOLEAN,
              hasMore : BOOLEAN, state : ReturnState,
              returning : BOOLEAN, outcome : {"", "error", "returned"},
              selected : H!Maybe(H!Ids), detail : H!Maybe(H!Ids), detailLoading : BOOLEAN,
              stale : BOOLEAN]
HistCalls == [H!Slots -> H!Pending \union {H!Idle}]

GitState ==
    /\ log \in [Repos -> [Branches -> Seq(H!Ids)]]
    /\ unpushed \in [Repos -> [Branches -> Nat]]
    /\ \A r \in Repos, b \in Branches : unpushed[r][b] <= Len(log[r][b])
    /\ head \in [Repos -> Branches] /\ dirty \in [Repos -> BOOLEAN]

HistRest ==
    /\ hActive \in Repos /\ current \in H!Maybe(Branches)
    /\ screen \in {"history", "other"} /\ confirm \in H!Maybe(H!Returns)
    /\ hEvent \in BOOLEAN /\ hActs \in 0..HistoryActs /\ hMoves \in 0..MaxMoves

Detailed(h) ==
    /\ h.detail # None => h.detail = h.selected
    /\ h.selected # None => h.selected \in H!Range(h.commits)

DeepEnough ==
    \A q \in H!Slots : hCalls[q] # H!Idle /\ hCalls[q].op = "more"
                          => hCalls[q].limit >= PageSize + PageSize

StoreKept == hist \in HistState /\ hist.limit >= PageSize /\ Detailed(hist)
CallsKept == hCalls \in HistCalls /\ DeepEnough /\ crossed \in BOOLEAN

HistoryInv == GitState /\ HistRest /\ StoreKept /\ CallsKept

LEMMA HistoryShows == HistoryInv => H!TypeOK /\ H!DetailOfSelected
<1> SUFFICES ASSUME HistoryInv PROVE H!TypeOK /\ H!DetailOfSelected
  OBVIOUS
<1>1. \A r \in Repos, b \in Branches :
          log[r][b] \in Seq(H!Ids) /\ unpushed[r][b] \in 0..Len(log[r][b])
  BY DEF HistoryInv, GitState
<1>2. H!DetailOfSelected
  BY DEF HistoryInv, StoreKept, Detailed, H!DetailOfSelected
<1> QED BY <1>1, <1>2 DEF HistoryInv, GitState, HistRest, StoreKept, CallsKept, H!TypeOK,
                          HistState, HistCalls, ReturnState, H!Maybe

\* A request as it is made.
LEMMA HRequestType ==
    ASSUME NEW op \in H!Returns \union {"load", "more", "detail"}, NEW r \in Repos,
           NEW b \in H!Maybe(Branches), NEW at \in {"both", "log"}
    PROVE  H!Request(op, r, b, at) \in H!Pending /\ H!Request(op, r, b, at).op = op
<1>1. H!NoState \in ReturnState /\ << >> \in Seq(H!Ids) /\ None \in H!Maybe(H!Ids)
        /\ None \in H!Maybe(Branches)
  BY DEF H!NoState, ReturnState, H!Maybe
<1>2. PICK c : c = H!Request(op, r, b, at)
  OBVIOUS
<1>3. c = [at |-> at, op |-> op, repo |-> r, branch |-> b, limit |-> 0, id |-> None,
           expect |-> None, newest |-> TRUE, returning |-> FALSE, ok |-> FALSE,
           commits |-> << >>, state |-> H!NoState]
  BY <1>2 DEF H!Request
<1>4. c \in H!Pending /\ c.op = op
  BY <1>1, <1>3 DEF H!Pending, ReturnState
<1> QED BY <1>2, <1>4

\* The requests with their fields filled in.
LEMMA FilledType ==
    ASSUME NEW c \in H!Pending
    PROVE  /\ \A n \in Nat : LET d == [c EXCEPT !.limit = n] IN
                 d \in H!Pending /\ d.op = c.op /\ d.limit = n
           /\ \A i \in H!Ids : LET d == [c EXCEPT !.id = i] IN
                 d \in H!Pending /\ d.op = c.op
           /\ \A e \in H!Maybe(Branches) : LET d == [c EXCEPT !.expect = e] IN
                 d \in H!Pending /\ d.op = c.op
<1>1. ASSUME NEW n \in Nat, NEW d, d = [c EXCEPT !.limit = n]
      PROVE  d \in H!Pending /\ d.op = c.op /\ d.limit = n
  BY <1>1 DEF H!Pending
<1>2. ASSUME NEW i \in H!Ids, NEW d, d = [c EXCEPT !.id = i]
      PROVE  d \in H!Pending /\ d.op = c.op
  BY <1>2 DEF H!Pending, H!Maybe
<1>3. ASSUME NEW e \in H!Maybe(Branches), NEW d, d = [c EXCEPT !.expect = e]
      PROVE  d \in H!Pending /\ d.op = c.op
  BY <1>3 DEF H!Pending
<1> QED BY <1>1, <1>2, <1>3

LEMMA NotIdle == \A c \in H!Pending : c # H!Idle
BY DEF H!Pending, H!Idle

\* A request that is not its tracker's newest any more.
LEMMA Supersedes ==
    ASSUME hCalls \in HistCalls, DeepEnough, NEW op, NEW q \in H!Slots
    PROVE  /\ H!Superseding(op)[q] \in H!Pending \union {H!Idle}
           /\ H!Superseding(op)[q] # H!Idle /\ H!Superseding(op)[q].op = "more"
                 => H!Superseding(op)[q].limit >= PageSize + PageSize
<1>1. CASE ~(hCalls[q] # H!Idle /\ hCalls[q].op = op)
  BY <1>1 DEF H!Superseding, HistCalls, DeepEnough
<1>2. CASE hCalls[q] # H!Idle /\ hCalls[q].op = op
  <2>1. PICK c \in H!Pending : c = hCalls[q]
    BY <1>2 DEF HistCalls
  <2>2. PICK d : d = [c EXCEPT !.newest = FALSE]
    OBVIOUS
  <2>3. d \in H!Pending /\ d.op = c.op /\ d.limit = c.limit
    BY <2>2 DEF H!Pending
  <2>4. H!Superseding(op)[q] = d
    BY <1>2, <2>1, <2>2 DEF H!Superseding
  <2> QED BY <1>2, <2>1, <2>3, <2>4 DEF DeepEnough
<1> QED BY <1>1, <1>2

\* One more request, which supersedes others.
LEMMA SupersedeKeeps ==
    ASSUME hCalls \in HistCalls, DeepEnough, NEW op, NEW q, NEW d \in H!Pending,
           d.op = "more" => d.limit >= PageSize + PageSize,
           hCalls' = [H!Superseding(op) EXCEPT ![q] = d]
    PROVE  hCalls' \in HistCalls /\ DeepEnough'
<1>1. H!Superseding(op) = [p \in H!Slots |-> H!Superseding(op)[p]]
  BY DEF H!Superseding
<1>2. \A p \in H!Slots : /\ H!Superseding(op)[p] \in H!Pending \union {H!Idle}
                         /\ H!Superseding(op)[p] # H!Idle /\ H!Superseding(op)[p].op = "more"
                              => H!Superseding(op)[p].limit >= PageSize + PageSize
  BY Supersedes
<1>3. PICK f : f = H!Superseding(op)
  OBVIOUS
<1>4. f \in HistCalls
  BY <1>1, <1>2, <1>3 DEF HistCalls
<1>5. hCalls' = [f EXCEPT ![q] = d]
  BY <1>3
<1> QED BY <1>2, <1>3, <1>4, <1>5 DEF HistCalls, DeepEnough

\* One request changed, for what it is otherwise.
LEMMA ChangeKeeps ==
    ASSUME hCalls \in HistCalls, DeepEnough, NEW q \in H!Slots, NEW d \in H!Pending,
           d.op = "more" => d.limit >= PageSize + PageSize,
           hCalls' = [hCalls EXCEPT ![q] = d]
    PROVE  hCalls' \in HistCalls /\ DeepEnough'
BY DEF HistCalls, DeepEnough

\* One request less.
LEMMA HDoneKeeps ==
    ASSUME CallsKept, NEW q \in H!Slots, H!Done(q), UNCHANGED crossed
    PROVE  CallsKept'
BY DEF CallsKept, HistCalls, DeepEnough, H!Done

\* Nothing selected.
LEMMA UnselectedKeeps ==
    ASSUME NEW h \in HistState
    PROVE  H!Unselected(h) \in HistState /\ H!Unselected(h).limit = h.limit
           /\ Detailed(H!Unselected(h))
BY DEF H!Unselected, HistState, Detailed, H!Maybe

\* A load, of whatever target.
LEMMA LoadKeeps ==
    ASSUME CallsKept, NEW h \in HistState, h.limit >= PageSize, Detailed(h),
           NEW r \in Repos, NEW b \in H!Maybe(Branches), NEW ret \in BOOLEAN, NEW q,
           H!Load(h, r, b, ret, q)
    PROVE  StoreKept' /\ CallsKept'
<1>1. PageSize \in Nat
  BY ViewsAssumption
<1>2. PICK limit : limit = IF H!Target(h) # <<r, b>> THEN PageSize ELSE h.limit
  OBVIOUS
<1>3. limit \in Nat /\ limit >= PageSize
  <2>1. h.limit \in Nat /\ h.limit >= PageSize
    BY DEF HistState
  <2> QED BY <1>1, <1>2, <2>1
<1>4. PICK kept : kept = [h EXCEPT !.repo = r, !.branch = b, !.loading = TRUE,
                                   !.failed = FALSE, !.limit = limit]
  OBVIOUS
<1>5. kept \in HistState /\ kept.limit = limit /\ kept.commits = h.commits
        /\ kept.selected = h.selected /\ kept.detail = h.detail
  BY <1>3, <1>4 DEF HistState, H!Maybe
<1>6. PICK blank : blank = [kept EXCEPT !.commits = << >>, !.hasMore = FALSE,
                                        !.state = H!NoState, !.outcome = ""]
  OBVIOUS
<1>7. blank \in HistState /\ blank.limit = limit
  <2>1. H!NoState \in ReturnState /\ << >> \in Seq(H!Ids)
    BY DEF H!NoState, ReturnState
  <2> QED BY <1>5, <1>6, <2>1 DEF HistState
<1>8. hist' = IF H!Target(h) # <<r, b>> THEN H!Unselected(blank) ELSE kept
  BY <1>2, <1>4, <1>6 DEF H!Load
<1>9. StoreKept'
  BY <1>3, <1>5, <1>7, <1>8, UnselectedKeeps DEF StoreKept, Detailed
<1>10. PICK c \in H!Pending : c = H!Request("load", r, b, "both") /\ c.op = "load"
  BY HRequestType
<1>11. PICK d : d = [c EXCEPT !.limit = limit, !.returning = ret]
  OBVIOUS
<1>12. d \in H!Pending /\ d.op = "load" /\ hCalls' = [H!Superseding("load") EXCEPT ![q] = d]
  <2>1. d \in H!Pending /\ d.op = "load"
    BY <1>3, <1>10, <1>11 DEF H!Pending
  <2>2. hCalls' = [H!Superseding("load") EXCEPT ![q] =
                     [H!Request("load", r, b, "both") EXCEPT !.limit = limit, !.returning = ret]]
    BY <1>2 DEF H!Load
  <2> QED BY <1>10, <1>11, <2>1, <2>2
<1>13. hCalls' \in HistCalls /\ DeepEnough'
  BY <1>12, SupersedeKeeps DEF CallsKept
<1>14. crossed' \in BOOLEAN
  BY DEF H!Load, CallsKept
<1> QED BY <1>9, <1>13, <1>14 DEF CallsKept

\* The commits an answer brings are listed, with no selection outside them.
LEMMA PaintKeeps ==
    ASSUME NEW h \in HistState, Detailed(h), NEW q, hCalls[q] \in H!Pending
    PROVE  H!Paint(h, q) \in HistState /\ H!Paint(h, q).limit = h.limit
           /\ Detailed(H!Paint(h, q))
<1>1. PICK c : c = hCalls[q] /\ c.commits \in Seq(H!Ids) /\ c.limit \in Nat
  BY DEF H!Pending
<1>2. PICK shown : shown = H!FirstOf(c.commits, c.limit)
  OBVIOUS
<1>3. shown \in Seq(H!Ids)
  BY <1>1, <1>2 DEF H!FirstOf
<1>4. PICK more \in BOOLEAN : more = (Len(c.commits) > c.limit)
  <2>1. (Len(c.commits) > c.limit) \in BOOLEAN
    OBVIOUS
  <2> QED BY <2>1
<1>5. PICK painted : painted = [h EXCEPT !.commits = shown, !.hasMore = more]
  OBVIOUS
<1>6. painted \in HistState /\ painted.limit = h.limit /\ painted.commits = shown
        /\ painted.selected = h.selected /\ painted.detail = h.detail
  BY <1>3, <1>5 DEF HistState
<1>7. H!Paint(h, q) = IF h.selected \in H!Range(shown) THEN painted ELSE H!Unselected(painted)
  BY <1>1, <1>2, <1>4, <1>5 DEF H!Paint
<1>8. CASE h.selected \in H!Range(shown)
  BY <1>6, <1>7, <1>8 DEF Detailed
<1>9. CASE h.selected \notin H!Range(shown)
  BY <1>6, <1>7, <1>9, UnselectedKeeps
<1> QED BY <1>8, <1>9

LEMMA HistoryInit == Init => HistoryInv
<1> SUFFICES ASSUME H!Init PROVE HistoryInv
  BY DEF Init
<1>1. hActive \in Repos /\ Main \in Branches /\ Main \in H!Maybe(Branches) /\ PageSize \in Nat
  BY ViewsAssumption DEF H!Init, H!Maybe
<1>2. GitState
  <2>1. \A i \in {1, 2, 3} : i \in H!Ids
    BY ViewsAssumption DEF H!Ids
  <2>2. log = [r \in Repos |-> [b \in Branches |-> IF b = Main THEN <<2, 1>> ELSE <<3, 1>>]]
    BY DEF H!Init
  <2>3. <<2, 1>> \in Seq(H!Ids) /\ <<3, 1>> \in Seq(H!Ids)
          /\ Len(<<2, 1>>) = 2 /\ Len(<<3, 1>>) = 2
    BY <2>1
  <2>4. log \in [Repos -> [Branches -> Seq(H!Ids)]]
          /\ \A r \in Repos, b \in Branches : Len(log[r][b]) = 2
    BY <2>2, <2>3
  <2>5. unpushed = [r \in Repos |-> [b \in Branches |-> 1]]
    BY DEF H!Init
  <2>6. head \in [Repos -> Branches] /\ dirty \in [Repos -> BOOLEAN]
    BY <1>1 DEF H!Init
  <2>7. unpushed \in [Repos -> [Branches -> Nat]] /\ \A r \in Repos, b \in Branches : unpushed[r][b] = 1
    BY <2>5
  <2>8. \A r \in Repos, b \in Branches : unpushed[r][b] <= Len(log[r][b])
    <3>1. ASSUME NEW r \in Repos, NEW b \in Branches PROVE unpushed[r][b] <= Len(log[r][b])
      <4>1. unpushed[r][b] = 1 /\ Len(log[r][b]) = 2
        BY <2>4, <2>7
      <4> QED BY <4>1
    <3> QED BY <3>1
  <2> QED BY <2>4, <2>6, <2>7, <2>8 DEF GitState
<1>3. HistRest
  <2>1. current = Main /\ screen = "history" /\ confirm = None /\ hEvent = FALSE
          /\ hActs = 0 /\ hMoves = 0
    BY DEF H!Init
  <2>2. HistoryActs \in Nat /\ MaxMoves \in Nat
    BY ViewsAssumption
  <2>3. hActs \in 0..HistoryActs /\ hMoves \in 0..MaxMoves
    BY <2>1, <2>2
  <2>4. current \in H!Maybe(Branches) /\ confirm \in H!Maybe(H!Returns)
    BY <1>1, <2>1 DEF H!Maybe
  <2> QED BY <1>1, <2>1, <2>3, <2>4 DEF HistRest
<1>4. StoreKept
  <2>1. hist = [repo |-> hActive, branch |-> Main, commits |-> << >>, limit |-> PageSize,
               loading |-> TRUE, loadingMore |-> FALSE, failed |-> FALSE, hasMore |-> FALSE,
               state |-> H!NoState, returning |-> FALSE, outcome |-> "",
               selected |-> None, detail |-> None, detailLoading |-> FALSE, stale |-> FALSE]
    BY DEF H!Init
  <2>2. H!NoState \in ReturnState
    BY DEF H!NoState, ReturnState
  <2>3. hist \in HistState
    <3>1. hActive \in H!Maybe(Repos) /\ None \in H!Maybe(H!Ids) /\ << >> \in Seq(H!Ids)
      BY <1>1 DEF H!Maybe
    <3> QED BY <1>1, <2>1, <2>2, <3>1 DEF HistState
  <2>4. hist.limit >= PageSize /\ Detailed(hist)
    <3>1. hist.limit = PageSize /\ hist.detail = None /\ hist.selected = None
      BY <2>1
    <3> QED BY <1>1, <3>1 DEF Detailed
  <2> QED BY <2>3, <2>4 DEF StoreKept
<1>5. CallsKept
  <2>1. PICK c \in H!Pending : c = H!Request("load", hActive, Main, "both") /\ c.op = "load"
    BY <1>1, HRequestType
  <2>2. PICK d : d = [c EXCEPT !.limit = PageSize]
    OBVIOUS
  <2>3. d \in H!Pending /\ d.op = "load" /\ hCalls = [q \in H!Slots |-> IF q = 1 THEN d ELSE H!Idle]
    <3>1. d \in H!Pending /\ d.op = "load"
      BY <1>1, <2>1, <2>2 DEF H!Pending
    <3>2. hCalls = [q \in H!Slots |->
              IF q = 1 THEN [H!Request("load", hActive, Main, "both") EXCEPT !.limit = PageSize]
              ELSE H!Idle]
      BY DEF H!Init
    <3> QED BY <2>1, <2>2, <3>1, <3>2
  <2>4. crossed = FALSE
    BY DEF H!Init
  <2> QED BY <2>3, <2>4 DEF CallsKept, HistCalls, DeepEnough
<1> QED BY <1>2, <1>3, <1>4, <1>5 DEF HistoryInv

\* An act of the user leaves git, the event and the moves as they are.
LEMMA HActed ==
    ASSUME HistoryInv, H!Act
    PROVE  GitState' /\ UNCHANGED <<hEvent, hMoves>> /\ hActs' \in 0..HistoryActs
<1>1. UNCHANGED <<log, unpushed, head, dirty, hEvent, hMoves>>
  BY DEF H!Act, H!git
<1>2. GitState'
  BY <1>1 DEF HistoryInv, GitState
<1>3. hActs' \in 0..HistoryActs
  <2>1. hActs \in Nat /\ hActs < HistoryActs /\ hActs' = hActs + 1 /\ HistoryActs \in Nat
    BY ViewsAssumption DEF HistoryInv, HistRest, H!Act
  <2> QED BY <2>1
<1> QED BY <1>1, <1>2, <1>3

\* The user.
LEMMA UserKeeps ==
    ASSUME HistoryInv, (\E r \in Repos : H!PickRepo(r)) \/ H!Navigate \/ H!LoadMore
                       \/ H!CancelConfirm \/ H!ConfirmReturn
                       \/ (\E i \in H!Ids : H!SelectCommit(i))
                       \/ \E what \in H!Returns : H!StartConfirm(what)
    PROVE  HistoryInv'
<1>1. /\ HistRest /\ StoreKept /\ CallsKept /\ PageSize \in Nat /\ None \in H!Maybe(Branches)
      /\ None \in H!Maybe(H!Returns) /\ hist.limit \in Nat
  BY ViewsAssumption DEF HistoryInv, H!Maybe, StoreKept, HistState
<1>2. H!Act
  BY DEF H!PickRepo, H!Navigate, H!LoadMore, H!CancelConfirm, H!ConfirmReturn, H!SelectCommit,
         H!StartConfirm
<1>3. GitState' /\ UNCHANGED <<hEvent, hMoves>> /\ hActs' \in 0..HistoryActs
  BY <1>2, HActed
<1>4. UNCHANGED <<hist, hCalls, crossed>> => StoreKept' /\ CallsKept'
  BY <1>1 DEF StoreKept, CallsKept, DeepEnough
<1>5. ASSUME NEW r \in Repos, H!PickRepo(r) PROVE HistoryInv'
  <2>1. StoreKept' /\ CallsKept'
    <3>1. CASE H!Load(hist, r, None, FALSE, H!FreeSlot)
      BY <1>1, <3>1, LoadKeeps DEF StoreKept
    <3> QED BY <1>4, <1>5, <3>1 DEF H!PickRepo
  <2>2. HistRest'
    BY <1>1, <1>3, <1>5 DEF HistRest, H!PickRepo
  <2> QED BY <1>3, <2>1, <2>2 DEF HistoryInv
<1>6. ASSUME H!Navigate PROVE HistoryInv'
  <2>1. StoreKept' /\ CallsKept'
    <3>1. CASE H!Load(hist, hActive, current, FALSE, H!FreeSlot)
      BY <1>1, <3>1, LoadKeeps DEF StoreKept, HistRest
    <3> QED BY <1>4, <1>6, <3>1 DEF H!Navigate
  <2>2. HistRest'
    BY <1>1, <1>3, <1>6 DEF HistRest, H!Navigate
  <2> QED BY <1>3, <2>1, <2>2 DEF HistoryInv
<1>7. ASSUME H!LoadMore PROVE HistoryInv'
  <2>1. hist.repo \in Repos /\ hist.branch \in H!Maybe(Branches) /\ hist.limit >= PageSize
    BY <1>1 DEF StoreKept, HistState
  <2>2. PICK c \in H!Pending : c = H!Request("more", hist.repo, hist.branch, "log") /\ c.op = "more"
    BY <2>1, HRequestType
  <2>3. PICK d : d = [c EXCEPT !.limit = hist.limit + PageSize]
    OBVIOUS
  <2>4. d \in H!Pending /\ d.limit >= PageSize + PageSize
    <3>1. hist.limit + PageSize \in Nat /\ hist.limit + PageSize >= PageSize + PageSize
      BY <1>1, <2>1
    <3> QED BY <2>3, <3>1, FilledType
  <2>5. hCalls' = [H!Superseding("more") EXCEPT ![H!FreeSlot] = d]
    BY <1>7, <2>2, <2>3 DEF H!LoadMore
  <2>6. CallsKept'
    <3>1. hCalls' \in HistCalls /\ DeepEnough'
      BY <1>1, <2>4, <2>5, SupersedeKeeps DEF CallsKept
    <3>2. crossed' \in BOOLEAN
      BY <1>1, <1>7 DEF H!LoadMore, CallsKept
    <3> QED BY <3>1, <3>2 DEF CallsKept
  <2>7. StoreKept'
    <3>3. PICK n \in Nat : n = hist.limit + PageSize
      BY <1>1
    <3>1. hist' = [hist EXCEPT !.loadingMore = TRUE, !.failed = FALSE, !.limit = n]
      BY <1>1, <1>7, <3>3 DEF H!LoadMore, StoreKept, HistState
    <3>2. hist' \in HistState /\ hist'.limit = hist.limit + PageSize
          /\ hist'.detail = hist.detail /\ hist'.selected = hist.selected
          /\ hist'.commits = hist.commits
      BY <1>1, <3>1, <3>3 DEF StoreKept, HistState
    <3> QED BY <1>1, <2>1, <3>2 DEF StoreKept, Detailed
  <2>8. HistRest'
    BY <1>1, <1>3, <1>7 DEF HistRest, H!LoadMore
  <2> QED BY <1>3, <2>6, <2>7, <2>8 DEF HistoryInv
<1>8. ASSUME NEW i \in H!Ids, H!SelectCommit(i) PROVE HistoryInv'
  <2>1. PICK c \in H!Pending : c = H!Request("detail", hist.repo, hist.branch, "log") /\ c.op = "detail"
    <3>1. hist.repo \in Repos /\ hist.branch \in H!Maybe(Branches)
      BY <1>1 DEF StoreKept, HistState
    <3> QED BY <3>1, HRequestType
  <2>2. PICK d : d = [c EXCEPT !.id = i]
    OBVIOUS
  <2>3. d \in H!Pending /\ d.op = "detail"
    BY <2>1, <2>2, FilledType
  <2>4. hCalls' = [H!Superseding("detail") EXCEPT ![H!FreeSlot] = d]
    BY <1>8, <2>1, <2>2 DEF H!SelectCommit
  <2>5. CallsKept'
    <3>1. hCalls' \in HistCalls /\ DeepEnough'
      BY <1>1, <2>3, <2>4, SupersedeKeeps DEF CallsKept
    <3>2. crossed' \in BOOLEAN
      BY <1>1, <1>8 DEF H!SelectCommit, CallsKept
    <3> QED BY <3>1, <3>2 DEF CallsKept
  <2>6. StoreKept'
    <3>1. hist' = [hist EXCEPT !.selected = i, !.detail = None, !.detailLoading = TRUE]
          /\ i \in H!Range(hist.commits)
      BY <1>8 DEF H!SelectCommit
    <3>2. hist' \in HistState /\ hist'.limit = hist.limit /\ hist'.detail = None
          /\ hist'.selected = i /\ hist'.commits = hist.commits
      BY <1>1, <3>1 DEF StoreKept, HistState, H!Maybe
    <3> QED BY <1>1, <3>1, <3>2 DEF StoreKept, Detailed
  <2>7. HistRest'
    BY <1>1, <1>3, <1>8 DEF HistRest, H!SelectCommit
  <2> QED BY <1>3, <2>5, <2>6, <2>7 DEF HistoryInv
<1>9. ASSUME NEW what \in H!Returns, H!StartConfirm(what) PROVE HistoryInv'
  <2>1. StoreKept'
    <3>1. PICK msg \in {"", "error", "returned"} : hist' = [hist EXCEPT !.outcome = msg]
      BY <1>1, <1>9 DEF H!StartConfirm, StoreKept, HistState
    <3>2. hist' \in HistState /\ hist'.limit = hist.limit /\ hist'.detail = hist.detail
          /\ hist'.selected = hist.selected /\ hist'.commits = hist.commits
      BY <1>1, <3>1 DEF StoreKept, HistState
    <3> QED BY <1>1, <3>2 DEF StoreKept, Detailed
  <2>2. CallsKept'
    BY <1>1, <1>9 DEF H!StartConfirm, CallsKept, DeepEnough
  <2>3. HistRest'
    BY <1>1, <1>3, <1>9 DEF HistRest, H!StartConfirm, H!Maybe
  <2> QED BY <1>3, <2>1, <2>2, <2>3 DEF HistoryInv
<1>10. ASSUME H!CancelConfirm PROVE HistoryInv'
  <2>1. HistRest'
    BY <1>1, <1>3, <1>10 DEF HistRest, H!CancelConfirm
  <2> QED BY <1>3, <1>4, <1>10, <2>1 DEF HistoryInv, H!CancelConfirm
<1>11. ASSUME H!ConfirmReturn PROVE HistoryInv'
  <2>1. PICK c \in H!Pending : c = H!Request(confirm, hist.repo, hist.branch, "log") /\ c.op = confirm
    <3>1. hist.repo \in Repos /\ hist.branch \in H!Maybe(Branches)
      BY <1>1 DEF StoreKept, HistState
    <3>2. confirm \in H!Returns
      BY <1>1, <1>11 DEF H!ConfirmReturn, HistRest, H!Maybe
    <3> QED BY <3>1, <3>2, HRequestType
  <2>2. PICK d : d = [c EXCEPT !.expect = current]
    OBVIOUS
  <2>3. d \in H!Pending /\ d.op # "more" /\ hCalls' = [hCalls EXCEPT ![H!FreeSlot] = d]
    <3>1. d \in H!Pending /\ d.op = confirm
      BY <1>1, <2>1, <2>2, FilledType DEF HistRest
    <3>2. confirm # "more"
      BY <1>1, <1>11 DEF H!ConfirmReturn, HistRest, H!Maybe, H!Returns
    <3> QED BY <1>11, <2>1, <2>2, <3>1, <3>2 DEF H!ConfirmReturn
  <2>4. CallsKept'
    <3>1. crossed' = crossed
      BY <1>11 DEF H!ConfirmReturn
    <3> QED BY <1>1, <2>3, <3>1 DEF CallsKept, HistCalls, DeepEnough
  <2>5. StoreKept'
    <3>1. hist' = [hist EXCEPT !.returning = TRUE, !.outcome = ""]
      BY <1>11 DEF H!ConfirmReturn
    <3>2. hist' \in HistState /\ hist'.limit = hist.limit /\ hist'.detail = hist.detail
          /\ hist'.selected = hist.selected /\ hist'.commits = hist.commits
      BY <1>1, <3>1 DEF StoreKept, HistState
    <3> QED BY <1>1, <3>2 DEF StoreKept, Detailed
  <2>6. HistRest'
    BY <1>1, <1>3, <1>11 DEF HistRest, H!ConfirmReturn
  <2> QED BY <1>3, <2>4, <2>5, <2>6 DEF HistoryInv
<1> QED BY <1>5, <1>6, <1>7, <1>8, <1>9, <1>10, <1>11

\* Main and git.  A read that fails is one of the moves.
LEMMA FailsType ==
    ASSUME HistRest, NEW ok \in BOOLEAN, H!OrFails(ok)
    PROVE  hMoves' \in 0..MaxMoves
<1>1. hMoves \in 0..MaxMoves /\ MaxMoves \in Nat
  BY ViewsAssumption DEF HistRest
<1>2. hMoves' = hMoves \/ (hMoves < MaxMoves /\ hMoves' = hMoves + 1)
  BY DEF H!OrFails
<1> QED BY <1>1, <1>2

\* What a return leaves of a branch, and what a commit adds to it.
LEMMA DropCommits ==
    ASSUME NEW s \in Seq(H!Ids), NEW n \in Nat, n < Len(s)
    PROVE  SubSeq(s, n + 1, Len(s)) \in Seq(H!Ids) /\ Len(SubSeq(s, n + 1, Len(s))) = Len(s) - n
OBVIOUS

LEMMA ReadKeeps ==
    ASSUME HistoryInv, NEW q \in H!Slots,
           H!ReadLog(q) \/ H!ReadReturnState(q) \/ H!ReadDetails(q)
    PROVE  HistoryInv'
<1>1. /\ GitState /\ HistRest /\ StoreKept /\ CallsKept
      /\ hCalls \in HistCalls /\ DeepEnough
  BY DEF HistoryInv, CallsKept
<1>2. PICK c \in H!Pending : c = hCalls[q]
  BY <1>1 DEF H!ReadLog, H!ReadReturnState, H!ReadDetails, H!Working, HistCalls
<1>3. c # H!Idle /\ (c.op = "more" => c.limit >= PageSize + PageSize) /\ c.repo \in Repos
        /\ c.limit \in Nat
  BY <1>1, <1>2, NotIdle DEF DeepEnough, H!Pending
<1>4. UNCHANGED <<log, unpushed, head, dirty, hActive, current, screen, hist, confirm, hEvent,
                  hActs, crossed>>
  BY DEF H!ReadLog, H!ReadReturnState, H!ReadDetails, H!git
<1>5. hMoves' \in 0..MaxMoves
  <2>1. ASSUME NEW ok \in BOOLEAN, H!OrFails(ok) PROVE hMoves' \in 0..MaxMoves
    BY <1>1, <2>1, FailsType
  <2> QED BY <1>1, <2>1 DEF H!ReadLog, H!ReadReturnState, H!ReadDetails, HistRest
<1>6. \E d \in H!Pending : /\ d.op = c.op /\ d.limit = c.limit
                           /\ hCalls' = [hCalls EXCEPT ![q] = d]
  <2>1. CASE H!ReadLog(q)
    <3>1. PICK k : k = log[c.repo][head[c.repo]]
      OBVIOUS
    <3>2. k \in Seq(H!Ids)
      BY <1>1, <1>3, <3>1 DEF GitState
    <3>3. PICK asked : asked = SubSeq(k, 1, IF Len(k) > c.limit + 1 THEN c.limit + 1 ELSE Len(k))
      OBVIOUS
    <3>4. asked \in Seq(H!Ids)
      BY <1>3, <3>2, <3>3
    <3>5. PICK ok \in BOOLEAN : hCalls' = [hCalls EXCEPT ![q].ok = ok,
                                   ![q].commits = IF ok THEN asked ELSE << >>,
                                   ![q].at = IF @ = "both" THEN "state" ELSE "answer"]
      BY <1>2, <2>1, <3>1, <3>3 DEF H!ReadLog
    <3>6. PICK commits \in Seq(H!Ids) : commits = IF ok THEN asked ELSE << >>
      <4>1. << >> \in Seq(H!Ids)
        OBVIOUS
      <4>2. (IF ok THEN asked ELSE << >>) \in Seq(H!Ids)
        BY <3>4, <4>1
      <4> QED BY <4>2
    <3>7. PICK at \in {"state", "answer"} : at = IF c.at = "both" THEN "state" ELSE "answer"
      OBVIOUS
    <3>8. PICK d : d = [c EXCEPT !.ok = ok, !.commits = commits, !.at = at]
      OBVIOUS
    <3>9. d \in H!Pending /\ d.op = c.op /\ d.limit = c.limit
      BY <3>8 DEF H!Pending
    <3>10. hCalls' = [hCalls EXCEPT ![q] = d]
      BY <1>1, <1>2, <3>5, <3>6, <3>7, <3>8 DEF HistCalls, H!Pending
    <3> QED BY <3>9, <3>10
  <2>2. CASE H!ReadReturnState(q)
    <3>1. PICK ctx : ctx = H!ContextOf(c.repo)
      OBVIOUS
    <3>2. PICK st : st = [last |-> H!U!CanReturnLast(ctx), all |-> H!U!CanReturnAllUnpushed(ctx),
                          count |-> ctx.unpushedCount]
      OBVIOUS
    <3>3. st \in ReturnState
      <4>1. ctx.unpushedCount = unpushed[c.repo][head[c.repo]]
        BY <3>1 DEF H!ContextOf
      <4>2. ctx.unpushedCount \in Nat
        BY <1>1, <1>3, <4>1 DEF GitState
      <4>3. H!U!CanReturnLast(ctx) \in BOOLEAN /\ H!U!CanReturnAllUnpushed(ctx) \in BOOLEAN
        BY DEF H!U!CanReturnLast, H!U!CanReturnAllUnpushed
      <4> QED BY <3>2, <4>2, <4>3 DEF ReturnState
    <3>4. hCalls' = [hCalls EXCEPT ![q].at = IF @ = "both" THEN "log" ELSE "answer",
                                   ![q].state = st]
      BY <1>2, <2>2, <3>1, <3>2 DEF H!ReadReturnState
    <3>5. PICK at \in {"log", "answer"} : at = IF c.at = "both" THEN "log" ELSE "answer"
      OBVIOUS
    <3>6. PICK d : d = [c EXCEPT !.at = at, !.state = st]
      OBVIOUS
    <3>7. d \in H!Pending /\ d.op = c.op /\ d.limit = c.limit
      BY <3>3, <3>6 DEF H!Pending, ReturnState
    <3>8. hCalls' = [hCalls EXCEPT ![q] = d]
      BY <1>1, <1>2, <3>4, <3>5, <3>6 DEF HistCalls, H!Pending
    <3> QED BY <3>7, <3>8
  <2>3. CASE H!ReadDetails(q)
    <3>1. PICK ok \in BOOLEAN : hCalls' = [hCalls EXCEPT ![q].at = "answer", ![q].ok = ok]
      BY <2>3 DEF H!ReadDetails
    <3>2. PICK d : d = [c EXCEPT !.at = "answer", !.ok = ok]
      OBVIOUS
    <3>3. d \in H!Pending /\ d.op = c.op /\ d.limit = c.limit
      BY <3>2 DEF H!Pending
    <3>4. hCalls' = [hCalls EXCEPT ![q] = d]
      BY <1>1, <1>2, <3>1, <3>2 DEF HistCalls, H!Pending
    <3> QED BY <3>3, <3>4
  <2> QED BY <2>1, <2>2, <2>3
<1>7. hCalls' \in HistCalls /\ DeepEnough'
  BY <1>1, <1>3, <1>6, ChangeKeeps
<1>8. GitState' /\ HistRest' /\ StoreKept'
  BY <1>1, <1>4, <1>5 DEF GitState, HistRest, StoreKept
<1> QED BY <1>1, <1>4, <1>7, <1>8 DEF HistoryInv, CallsKept

\* A return takes from a branch no more commits than it has that are unpushed.
LEMMA ReturnKeeps ==
    ASSUME HistoryInv, NEW q \in H!Slots, H!GitReturns(q)
    PROVE  HistoryInv'
<1>1. /\ GitState /\ HistRest /\ StoreKept /\ CallsKept
      /\ hCalls \in HistCalls /\ DeepEnough
  BY DEF HistoryInv, CallsKept
<1>2. PICK c \in H!Pending : c = hCalls[q]
  BY <1>1 DEF H!GitReturns, H!Working, HistCalls
<1>3. c # H!Idle /\ c.op \in H!Returns
  BY <1>2, NotIdle DEF H!GitReturns, H!Working
<1>4. PICK r \in Repos, b \in Branches : r = c.repo /\ b = head[r]
  BY <1>1, <1>2 DEF GitState, H!Pending
<1>5. UNCHANGED <<head, hActive, current, screen, hist, confirm, hActs, hMoves, crossed>>
  BY DEF H!GitReturns
<1>6. StoreKept'
  BY <1>1, <1>5 DEF StoreKept
<1>7. hCalls' \in HistCalls /\ DeepEnough'
  <2>1. PICK ok \in BOOLEAN : hCalls' = [hCalls EXCEPT ![q].at = "answer", ![q].ok = ok]
    <3>1. \/ hCalls' = [hCalls EXCEPT ![q].at = "answer", ![q].ok = TRUE]
          \/ hCalls' = [hCalls EXCEPT ![q].at = "answer"]
      BY DEF H!GitReturns
    <3>2. [hCalls EXCEPT ![q].at = "answer"] = [hCalls EXCEPT ![q].at = "answer", ![q].ok = c.ok]
      BY <1>1, <1>2 DEF HistCalls, H!Pending
    <3>3. c.ok \in BOOLEAN
      BY DEF H!Pending
    <3> QED BY <3>1, <3>2, <3>3
  <2>2. PICK d : d = [c EXCEPT !.at = "answer", !.ok = ok]
    OBVIOUS
  <2>3. d \in H!Pending /\ d.op = c.op
    BY <2>2 DEF H!Pending
  <2>4. hCalls' = [hCalls EXCEPT ![q] = d]
    BY <1>1, <1>2, <2>1, <2>2 DEF HistCalls, H!Pending
  <2>5. c.op # "more"
    BY <1>3 DEF H!Returns
  <2> QED BY <1>1, <2>3, <2>4, <2>5, ChangeKeeps
<1>8. GitState' /\ hEvent' \in BOOLEAN
  <2>1. CASE UNCHANGED <<log, unpushed, dirty, hEvent>>
    BY <1>1, <1>5, <2>1 DEF GitState, HistRest
  <2>2. CASE ~UNCHANGED <<log, unpushed, dirty, hEvent>>
    <3>1. PICK n : n = IF c.op = "last" THEN 1 ELSE unpushed[r][b]
      OBVIOUS
    <3>2. /\ H!Allowed(q) /\ n < Len(log[r][b])
          /\ log' = [log EXCEPT ![r][b] = SubSeq(log[r][b], n + 1, Len(log[r][b]))]
          /\ unpushed' = [unpushed EXCEPT ![r][b] = unpushed[r][b] - n]
          /\ dirty' = [dirty EXCEPT ![r] = TRUE]
          /\ hEvent' = (hEvent \/ r = hActive)
      BY <1>1, <1>2, <1>4, <2>2, <3>1 DEF H!GitReturns, GitState
    <3>3. PICK ctx : ctx = H!ContextOf(r)
      OBVIOUS
    <3>4. ctx.unpushedCount = unpushed[r][b]
      BY <1>4, <3>3 DEF H!ContextOf
    <3>5. c.op = "last" => unpushed[r][b] >= 1
      <4>1. c.op = "last" => H!U!CanReturnLast(ctx)
        BY <1>2, <1>4, <3>2, <3>3 DEF H!Allowed
      <4>2. unpushed[r][b] \in Nat
        BY <1>1 DEF GitState
      <4>3. H!U!CanReturnLast(ctx) => ~(ctx.unpushedCount < 1)
        BY DEF H!U!CanReturnLast, H!U!LastRefusal, H!U!GlobalRefusal
      <4> QED BY <3>4, <4>1, <4>2, <4>3
    <3>6. /\ n \in Nat /\ n <= unpushed[r][b] /\ unpushed[r][b] \in Nat
          /\ log[r][b] \in Seq(H!Ids) /\ unpushed[r][b] <= Len(log[r][b])
      BY <1>1, <3>1, <3>5 DEF GitState
    <3>7. PICK s \in Seq(H!Ids) : s = SubSeq(log[r][b], n + 1, Len(log[r][b]))
                                  /\ Len(s) = Len(log[r][b]) - n
      BY <3>2, <3>6, DropCommits
    <3>8. PICK m \in Nat : m = unpushed[r][b] - n /\ m <= Len(s)
      BY <3>6, <3>7
    <3>9. log' = [log EXCEPT ![r][b] = s] /\ unpushed' = [unpushed EXCEPT ![r][b] = m]
      BY <3>2, <3>7, <3>8
    <3>10. GitState'
      <4>1. log' \in [Repos -> [Branches -> Seq(H!Ids)]]
              /\ unpushed' \in [Repos -> [Branches -> Nat]]
        BY <1>1, <3>9 DEF GitState
      <4>2. ASSUME NEW r1 \in Repos, NEW b1 \in Branches
            PROVE  unpushed'[r1][b1] <= Len(log'[r1][b1])
        <5>1. CASE r1 = r /\ b1 = b
          <6>1. log'[r1][b1] = s /\ unpushed'[r1][b1] = m
            BY <1>1, <3>9, <5>1 DEF GitState
          <6> QED BY <3>8, <6>1
        <5>2. CASE ~(r1 = r /\ b1 = b)
          <6>1. log'[r1][b1] = log[r1][b1] /\ unpushed'[r1][b1] = unpushed[r1][b1]
            BY <1>1, <3>9, <5>2 DEF GitState
          <6> QED BY <1>1, <6>1 DEF GitState
        <5> QED BY <5>1, <5>2
      <4>3. head' \in [Repos -> Branches] /\ dirty' \in [Repos -> BOOLEAN]
        BY <1>1, <1>5, <3>2 DEF GitState
      <4> QED BY <4>1, <4>2, <4>3 DEF GitState
    <3> QED BY <1>1, <3>2, <3>10 DEF HistRest
  <2> QED BY <2>1, <2>2
<1>9. HistRest'
  BY <1>1, <1>5, <1>8 DEF HistRest
<1> QED BY <1>1, <1>5, <1>6, <1>7, <1>8, <1>9 DEF HistoryInv, CallsKept

\* Flags of the store that say nothing of what it shows.
LEMMA FlagsKeep ==
    ASSUME NEW h \in HistState, h.limit >= PageSize, Detailed(h), NEW to \in HistState,
           to.limit = h.limit, to.commits = h.commits, to.selected = h.selected,
           to.detail = h.detail
    PROVE  to.limit >= PageSize /\ Detailed(to)
BY DEF Detailed

\* The renderer receives an answer.
LEMMA AnswerHeard ==
    ASSUME HistoryInv, NEW q \in H!Slots,
           H!Loaded(q) \/ H!MoreLoaded(q) \/ H!MoreFailed(q) \/ H!DetailsLoaded(q)
           \/ H!ReturnDone(q) \/ H!ReturnRefused(q)
    PROVE  HistoryInv'
<1>1. /\ GitState /\ HistRest /\ StoreKept /\ CallsKept /\ hCalls \in HistCalls /\ DeepEnough
      /\ hist \in HistState /\ hist.limit >= PageSize /\ Detailed(hist)
      /\ current \in H!Maybe(Branches)
  BY DEF HistoryInv, CallsKept, StoreKept, HistRest
<1>2. PICK c \in H!Pending : c = hCalls[q]
  BY <1>1 DEF H!Loaded, H!MoreLoaded, H!MoreFailed, H!DetailsLoaded, H!ReturnDone,
              H!ReturnRefused, H!Answered, HistCalls
<1>3. c # H!Idle /\ (c.op = "more" => c.limit >= PageSize + PageSize)
        /\ /\ c.repo \in Repos /\ c.limit \in Nat /\ c.newest \in BOOLEAN /\ c.ok \in BOOLEAN
           /\ c.returning \in BOOLEAN /\ c.state \in ReturnState /\ c.id \in H!Maybe(H!Ids)
  <2>1. /\ c.repo \in Repos /\ c.limit \in Nat /\ c.newest \in BOOLEAN /\ c.ok \in BOOLEAN
        /\ c.returning \in BOOLEAN /\ c.state \in ReturnState /\ c.id \in H!Maybe(H!Ids)
    BY DEF H!Pending, ReturnState
  <2> QED BY <1>1, <1>2, <2>1, NotIdle DEF DeepEnough
<1>4. UNCHANGED <<log, unpushed, head, dirty, hActive, current, hEvent, hActs, hMoves>>
  BY DEF H!Loaded, H!MoreLoaded, H!MoreFailed, H!DetailsLoaded, H!ReturnDone, H!ReturnRefused, H!git
<1>5. GitState'
  BY <1>1, <1>4 DEF GitState
<1>6. H!Paint(hist, q) \in HistState /\ H!Paint(hist, q).limit = hist.limit
        /\ Detailed(H!Paint(hist, q))
  BY <1>1, <1>2, PaintKeeps
<1>7. ASSUME H!Done(q), UNCHANGED crossed PROVE CallsKept'
  BY <1>1, <1>7, HDoneKeeps
<1>8. ASSUME H!Loaded(q) PROVE HistoryInv'
  <2>1. PICK after : after = IF c.ok /\ c.newest /\ hist.limit = c.limit
                             THEN [H!Paint(hist, q) EXCEPT !.state = c.state] ELSE hist
    OBVIOUS
  <2>2. after \in HistState /\ after.limit >= PageSize /\ Detailed(after)
    <3>1. PICK p \in HistState : p = H!Paint(hist, q)
      BY <1>6
    <3>2. PICK to : to = [p EXCEPT !.state = c.state]
      OBVIOUS
    <3>3. to \in HistState /\ to.limit = p.limit /\ to.commits = p.commits
            /\ to.selected = p.selected /\ to.detail = p.detail
      BY <1>3, <3>2 DEF HistState
    <3>4. to.limit >= PageSize /\ Detailed(to)
      BY <1>1, <1>6, <3>1, <3>3, FlagsKeep
    <3> QED BY <1>1, <2>1, <3>1, <3>2, <3>3, <3>4
  <2>3. hist' = [after EXCEPT !.loading = IF c.newest THEN FALSE ELSE @,
                              !.failed = @ \/ (c.newest /\ ~c.ok),
                              !.stale = IF c.newest THEN ~c.ok ELSE @,
                              !.returning = IF c.returning THEN FALSE ELSE @]
    BY <1>2, <1>8, <2>1 DEF H!Loaded
  <2>4. hist' \in HistState /\ hist'.limit = after.limit /\ hist'.commits = after.commits
          /\ hist'.selected = after.selected /\ hist'.detail = after.detail
    <3>1. PICK f1 \in BOOLEAN, f2 \in BOOLEAN, f3 \in BOOLEAN, f4 \in BOOLEAN :
              hist' = [after EXCEPT !.loading = f1, !.failed = f2, !.stale = f3, !.returning = f4]
      <4>1. /\ (IF c.newest THEN FALSE ELSE after.loading) \in BOOLEAN
            /\ (after.failed \/ (c.newest /\ ~c.ok)) \in BOOLEAN
            /\ (IF c.newest THEN ~c.ok ELSE after.stale) \in BOOLEAN
            /\ (IF c.returning THEN FALSE ELSE after.returning) \in BOOLEAN
        BY <1>3, <2>2 DEF HistState
      <4>2. hist' = [after EXCEPT !.loading = IF c.newest THEN FALSE ELSE after.loading,
                                  !.failed = after.failed \/ (c.newest /\ ~c.ok),
                                  !.stale = IF c.newest THEN ~c.ok ELSE after.stale,
                                  !.returning = IF c.returning THEN FALSE ELSE after.returning]
        BY <2>2, <2>3 DEF HistState
      <4> QED BY <4>1, <4>2
    <3>2. PICK h \in HistState : h = after
      BY <2>2
    <3>3. PICK mid : mid = [h EXCEPT !.loading = f1, !.failed = f2]
      OBVIOUS
    <3>4. mid \in HistState
      BY <3>3 DEF HistState
    <3>5. PICK to : to = [mid EXCEPT !.stale = f3, !.returning = f4]
      OBVIOUS
    <3>6. to \in HistState
      BY <3>4, <3>5 DEF HistState
    <3>7. to.limit = h.limit /\ to.commits = h.commits /\ to.selected = h.selected
            /\ to.detail = h.detail
      BY <3>3, <3>4, <3>5 DEF HistState
    <3>8. hist' = to
      BY <3>1, <3>2, <3>3, <3>5 DEF HistState
    <3> QED BY <3>2, <3>6, <3>7, <3>8
  <2>5. StoreKept'
    BY <2>2, <2>4, FlagsKeep DEF StoreKept
  <2>6. CallsKept'
    BY <1>7, <1>8 DEF H!Loaded
  <2>7. HistRest'
    BY <1>1, <1>4, <1>8 DEF HistRest, H!Loaded, H!Maybe
  <2> QED BY <1>5, <2>5, <2>6, <2>7 DEF HistoryInv
<1>9. ASSUME H!MoreLoaded(q) PROVE HistoryInv'
  <2>1. PICK after : after = IF H!StillWanted(q) THEN H!Paint(hist, q) ELSE hist
    OBVIOUS
  <2>2. after \in HistState /\ after.limit >= PageSize /\ Detailed(after)
    BY <1>1, <1>6, <2>1
  <2>3. hist' = [after EXCEPT !.loadingMore = FALSE]
    BY <1>9, <2>1 DEF H!MoreLoaded
  <2>4. hist' \in HistState /\ hist'.limit = after.limit /\ hist'.commits = after.commits
          /\ hist'.selected = after.selected /\ hist'.detail = after.detail
    BY <2>2, <2>3 DEF HistState
  <2>5. StoreKept'
    BY <2>2, <2>4, FlagsKeep DEF StoreKept
  <2>6. CallsKept'
    BY <1>7, <1>9 DEF H!MoreLoaded
  <2>7. HistRest'
    BY <1>1, <1>4, <1>9 DEF HistRest, H!MoreLoaded
  <2> QED BY <1>5, <2>5, <2>6, <2>7 DEF HistoryInv
<1>10. ASSUME H!MoreFailed(q) PROVE HistoryInv'
  <2>1. PICK n \in Nat : n = c.limit - PageSize /\ n >= PageSize
    <3>1. c.limit >= PageSize + PageSize /\ c.limit \in Nat /\ PageSize \in Nat
      BY <1>2, <1>3, <1>10, ViewsAssumption DEF H!MoreFailed, H!Answered
    <3> QED BY <3>1
  <2>2. \/ hist' = [hist EXCEPT !.limit = n, !.failed = TRUE, !.loadingMore = FALSE]
        \/ hist' = [hist EXCEPT !.loadingMore = FALSE]
    BY <1>2, <1>10, <2>1 DEF H!MoreFailed
  <2>3. hist' \in HistState /\ hist'.limit >= PageSize /\ hist'.commits = hist.commits
          /\ hist'.selected = hist.selected /\ hist'.detail = hist.detail
    <3>1. CASE hist' = [hist EXCEPT !.limit = n, !.failed = TRUE, !.loadingMore = FALSE]
      BY <1>1, <2>1, <3>1 DEF HistState
    <3>2. CASE hist' = [hist EXCEPT !.loadingMore = FALSE]
      BY <1>1, <3>2 DEF HistState
    <3> QED BY <2>2, <3>1, <3>2
  <2>4. StoreKept'
    BY <1>1, <2>3 DEF StoreKept, Detailed
  <2>5. CallsKept'
    BY <1>7, <1>10 DEF H!MoreFailed
  <2>6. HistRest'
    BY <1>1, <1>4, <1>10 DEF HistRest, H!MoreFailed
  <2> QED BY <1>5, <2>4, <2>5, <2>6 DEF HistoryInv
<1>11. ASSUME H!DetailsLoaded(q) PROVE HistoryInv'
  <2>1. \/ hist' = hist
        \/ /\ hist.selected = c.id
           /\ hist' = [hist EXCEPT !.detail = IF c.ok THEN c.id ELSE @, !.detailLoading = FALSE]
    BY <1>2, <1>11 DEF H!DetailsLoaded
  <2>2. StoreKept'
    <3>1. CASE hist' = hist
      BY <1>1, <3>1 DEF StoreKept
    <3>2. CASE /\ hist.selected = c.id
               /\ hist' = [hist EXCEPT !.detail = IF c.ok THEN c.id ELSE @, !.detailLoading = FALSE]
      <4>1. PICK i \in H!Maybe(H!Ids) : i = IF c.ok THEN c.id ELSE hist.detail
        <5>1. hist.detail \in H!Maybe(H!Ids)
          BY <1>1 DEF HistState
        <5> QED BY <1>3, <5>1
      <4>2. hist' = [hist EXCEPT !.detail = i, !.detailLoading = FALSE]
        BY <1>1, <3>2, <4>1 DEF HistState
      <4>3. hist' \in HistState /\ hist'.limit = hist.limit /\ hist'.commits = hist.commits
              /\ hist'.selected = hist.selected /\ hist'.detail = i
        BY <1>1, <4>2 DEF HistState
      <4> QED BY <1>1, <3>2, <4>1, <4>3 DEF StoreKept, Detailed
    <3> QED BY <2>1, <3>1, <3>2
  <2>3. CallsKept'
    BY <1>7, <1>11 DEF H!DetailsLoaded
  <2>4. HistRest'
    BY <1>1, <1>4, <1>11 DEF HistRest, H!DetailsLoaded
  <2> QED BY <1>5, <2>2, <2>3, <2>4 DEF HistoryInv
<1>12. ASSUME H!ReturnDone(q) PROVE HistoryInv'
  <2>1. PICK h : h = [hist EXCEPT !.outcome = "returned"]
    OBVIOUS
  <2>2. h \in HistState /\ h.limit = hist.limit /\ h.commits = hist.commits
          /\ h.selected = hist.selected /\ h.detail = hist.detail
    BY <1>1, <2>1 DEF HistState
  <2>3. h.limit >= PageSize /\ Detailed(h)
    BY <1>1, <2>2, FlagsKeep
  <2>4. H!Load(h, c.repo, current, TRUE, q)
    BY <1>2, <1>12, <2>1 DEF H!ReturnDone
  <2>5. StoreKept' /\ CallsKept'
    BY <1>1, <1>3, <2>2, <2>3, <2>4, LoadKeeps
  <2>6. HistRest'
    BY <1>1, <1>4, <1>12 DEF HistRest, H!ReturnDone
  <2> QED BY <1>5, <2>5, <2>6 DEF HistoryInv
<1>13. ASSUME H!ReturnRefused(q) PROVE HistoryInv'
  <2>1. hist' = [hist EXCEPT !.outcome = "error", !.returning = FALSE]
    BY <1>13 DEF H!ReturnRefused
  <2>2. hist' \in HistState /\ hist'.limit = hist.limit /\ hist'.commits = hist.commits
          /\ hist'.selected = hist.selected /\ hist'.detail = hist.detail
    BY <1>1, <2>1 DEF HistState
  <2>3. StoreKept'
    BY <1>1, <2>2, FlagsKeep DEF StoreKept
  <2>4. CallsKept'
    BY <1>7, <1>13 DEF H!ReturnRefused
  <2>5. HistRest'
    BY <1>1, <1>4, <1>13 DEF HistRest, H!ReturnRefused, H!Maybe
  <2> QED BY <1>5, <2>3, <2>4, <2>5 DEF HistoryInv
<1> QED BY <1>8, <1>9, <1>10, <1>11, <1>12, <1>13

\* The branch list arrives, or the watcher reports a change.
LEMMA NoticeKeeps ==
    ASSUME HistoryInv, H!BranchKnown \/ H!OnChanged
    PROVE  HistoryInv'
<1>1. /\ GitState /\ HistRest /\ StoreKept /\ CallsKept
      /\ hist \in HistState /\ hist.limit >= PageSize /\ Detailed(hist)
      /\ hActive \in Repos /\ head[hActive] \in H!Maybe(Branches) /\ current \in H!Maybe(Branches)
  BY DEF HistoryInv, StoreKept, HistRest, GitState, H!Maybe
<1>2. GitState'
  BY <1>1 DEF GitState, H!BranchKnown, H!OnChanged, H!git
<1>3. HistRest'
  BY <1>1 DEF HistRest, H!BranchKnown, H!OnChanged
<1>4. StoreKept' /\ CallsKept'
  <2>1. CASE UNCHANGED <<hist, hCalls, crossed>>
    BY <1>1, <2>1 DEF StoreKept, CallsKept, DeepEnough
  <2>2. CASE H!Load(hist, hActive, head[hActive], FALSE, H!FreeSlot)
    BY <1>1, <2>2, LoadKeeps
  <2>3. CASE H!Load(hist, hActive, current, FALSE, H!FreeSlot)
    BY <1>1, <2>3, LoadKeeps
  <2> QED BY <2>1, <2>2, <2>3 DEF H!BranchKnown, H!OnChanged
<1> QED BY <1>2, <1>3, <1>4 DEF HistoryInv

\* The terminal.
LEMMA TerminalKeeps ==
    ASSUME HistoryInv, NEW r \in Repos, H!Terminal(r)
    PROVE  HistoryInv'
<1>1. GitState /\ HistRest /\ StoreKept /\ CallsKept
  BY DEF HistoryInv
<1>2. UNCHANGED <<hActive, current, screen, hist, confirm, hCalls, hActs, crossed>>
  BY DEF H!Terminal
<1>3. StoreKept' /\ CallsKept'
  BY <1>1, <1>2 DEF StoreKept, CallsKept, DeepEnough
<1>4. HistRest'
  <2>1. hMoves' \in 0..MaxMoves
    <3>1. hMoves \in 0..MaxMoves /\ MaxMoves \in Nat /\ hMoves < MaxMoves /\ hMoves' = hMoves + 1
      BY <1>1, ViewsAssumption DEF HistRest, H!Terminal
    <3> QED BY <3>1
  <2>2. hEvent' \in BOOLEAN
    BY <1>1 DEF H!Terminal, HistRest
  <2> QED BY <1>1, <1>2, <2>1, <2>2 DEF HistRest
<1>5. PICK b \in Branches : b = head[r]
  BY <1>1 DEF GitState
<1>6. CASE /\ \E i \in H!Ids : log' = [log EXCEPT ![r][b] = <<i>> \o @]
           /\ unpushed' = [unpushed EXCEPT ![r][b] = @ + 1]
           /\ UNCHANGED <<head, dirty>>
  <2>1. PICK i \in H!Ids : log' = [log EXCEPT ![r][b] = <<i>> \o log[r][b]]
    BY <1>1, <1>6 DEF GitState
  <2>2. log[r][b] \in Seq(H!Ids) /\ unpushed[r][b] \in Nat /\ unpushed[r][b] <= Len(log[r][b])
    BY <1>1 DEF GitState
  <2>3. PICK s \in Seq(H!Ids) : s = <<i>> \o log[r][b] /\ Len(s) = Len(log[r][b]) + 1
    <3>1. PICK k \in Seq(H!Ids) : k = log[r][b]
      BY <2>2
    <3>2. <<i>> \o k \in Seq(H!Ids) /\ Len(<<i>> \o k) = Len(k) + 1
      OBVIOUS
    <3> QED BY <3>1, <3>2
  <2>4. PICK m \in Nat : m = unpushed[r][b] + 1 /\ m <= Len(s)
    BY <2>2, <2>3
  <2>5. log' = [log EXCEPT ![r][b] = s]
    BY <2>1, <2>3
  <2>6. unpushed' = [unpushed EXCEPT ![r][b] = m]
    BY <1>1, <1>6, <2>4 DEF GitState
  <2>7. log' \in [Repos -> [Branches -> Seq(H!Ids)]]
          /\ unpushed' \in [Repos -> [Branches -> Nat]]
    BY <1>1, <2>5, <2>6 DEF GitState
  <2>8. ASSUME NEW r1 \in Repos, NEW b1 \in Branches
        PROVE  unpushed'[r1][b1] <= Len(log'[r1][b1])
    <3>1. CASE r1 = r /\ b1 = b
      <4>1. log'[r1][b1] = s /\ unpushed'[r1][b1] = m
        BY <1>1, <2>5, <2>6, <3>1 DEF GitState
      <4> QED BY <2>4, <4>1
    <3>2. CASE ~(r1 = r /\ b1 = b)
      <4>1. log'[r1][b1] = log[r1][b1] /\ unpushed'[r1][b1] = unpushed[r1][b1]
        BY <1>1, <2>5, <2>6, <3>2 DEF GitState
      <4> QED BY <1>1, <4>1 DEF GitState
    <3> QED BY <3>1, <3>2
  <2>9. GitState'
    BY <1>1, <1>6, <2>7, <2>8 DEF GitState
  <2> QED BY <1>3, <1>4, <2>9 DEF HistoryInv
<1>7. CASE /\ unpushed' = [unpushed EXCEPT ![r][b] = 0]
           /\ UNCHANGED <<log, head, dirty>>
  <2>1. unpushed' \in [Repos -> [Branches -> Nat]]
    BY <1>1, <1>7 DEF GitState
  <2>2. ASSUME NEW r1 \in Repos, NEW b1 \in Branches
        PROVE  unpushed'[r1][b1] <= Len(log[r1][b1])
    <3>1. unpushed'[r1][b1] = 0 \/ unpushed'[r1][b1] = unpushed[r1][b1]
      BY <1>1, <1>7 DEF GitState
    <3>2. Len(log[r1][b1]) \in Nat /\ unpushed[r1][b1] <= Len(log[r1][b1])
      BY <1>1 DEF GitState
    <3> QED BY <3>1, <3>2
  <2>3. GitState'
    BY <1>1, <1>7, <2>1, <2>2 DEF GitState
  <2> QED BY <1>3, <1>4, <2>3 DEF HistoryInv
<1>8. CASE /\ \E to \in Branches : head' = [head EXCEPT ![r] = to]
           /\ UNCHANGED <<log, unpushed, dirty>>
  <2>1. GitState'
    BY <1>1, <1>8 DEF GitState
  <2> QED BY <1>3, <1>4, <2>1 DEF HistoryInv
<1> QED BY <1>5, <1>6, <1>7, <1>8 DEF H!Terminal

LEMMA HistoryNext == HistoryInv /\ [H!Next]_historyVars => HistoryInv'
<1> SUFFICES ASSUME HistoryInv, [H!Next]_historyVars PROVE HistoryInv'
  OBVIOUS
<1>1. CASE UNCHANGED historyVars
  BY <1>1 DEF historyVars, HistoryInv, GitState, HistRest, StoreKept, CallsKept, DeepEnough
<1>2. CASE H!Background
  BY <1>2, NoticeKeeps, ReadKeeps, ReturnKeeps, AnswerHeard DEF H!Background
<1>3. CASE \E r \in Repos : H!Terminal(r)
  BY <1>3, TerminalKeeps
<1>4. CASE (\E r \in Repos : H!PickRepo(r)) \/ H!Navigate \/ H!LoadMore
           \/ H!CancelConfirm \/ H!ConfirmReturn
           \/ (\E i \in H!Ids : H!SelectCommit(i)) \/ \E what \in H!Returns : H!StartConfirm(what)
  BY <1>4, UserKeeps
<1> QED BY <1>1, <1>2, <1>3, <1>4 DEF H!Next

-----------------------------------------------------------------------------
(* The rows of the status, whatever acts, answers and changes of the       *)
(* working tree come in between, are those of what statusStore says it has *)
(* loaded; the details shown by the history are those of the commit        *)
(* selected, and that commit is one of those listed (the request guards of *)
(* statusStore and historyStore).                                          *)
THEOREM ShowsCorrect == Spec => []ShowsItsOwn
<1>1. Init => StatusInv /\ HistoryInv
  BY StatusInit, HistoryInit
<1>2. StatusInv /\ HistoryInv /\ [Next]_vars => (StatusInv /\ HistoryInv)'
  <2> SUFFICES ASSUME StatusInv, HistoryInv, [Next]_vars PROVE StatusInv' /\ HistoryInv'
    OBVIOUS
  <2>1. [S!Next]_statusVars /\ [H!Next]_historyVars
    BY DEF Next, Status, History, vars
  <2> QED BY <2>1, StatusNext, HistoryNext
<1>3. StatusInv /\ HistoryInv => ShowsItsOwn
  BY HistoryShows DEF StatusInv, ShowsItsOwn
<1> QED BY <1>1, <1>2, <1>3, PTL DEF Spec

(* No commit is returned from a branch other than the one the confirmation *)
(* named, however HEAD moves between the confirmation and the reset        *)
(* (expectedBranch of HistoryScreen and uncommitExecutor.ts).              *)
THEOREM ReturnsCorrect == Spec => ReturnsFromNamedBranch
<1> DEFINE Named == \A q \in H!Slots :
                hCalls[q] # H!Idle /\ hCalls[q].op \in H!Returns /\ hCalls[q].expect # None
                /\ log' # log /\ hCalls'[q].at # hCalls[q].at
                => \A r \in Repos, b \in Branches :
                      log'[r][b] # log[r][b] => <<r, b>> = <<hCalls[q].repo, hCalls[q].expect>>
<1>1. Init => HistoryInv
  BY HistoryInit
<1>2. HistoryInv /\ [Next]_vars => HistoryInv'
  <2>1. [Next]_vars => [H!Next]_historyVars
    BY DEF Next, Status, History, vars
  <2> QED BY <2>1, HistoryNext
<1>3. HistoryInv /\ [Next]_vars => [Named]_(H!vars)
  <2> SUFFICES ASSUME HistoryInv, [Next]_vars, log' # log PROVE Named
    BY DEF H!vars
  <2>1. H!Next
    BY DEF Next, Status, History, vars, historyVars
  <2>2. (\E p \in H!Slots : H!GitReturns(p)) \/ (\E r \in Repos : H!Terminal(r))
    BY <2>1 DEF H!Next, H!Background, H!BranchKnown, H!OnChanged, H!ReadLog, H!ReadReturnState,
                H!ReadDetails, H!Loaded, H!MoreLoaded, H!MoreFailed, H!DetailsLoaded, H!ReturnDone,
                H!ReturnRefused, H!PickRepo, H!Navigate, H!LoadMore, H!CancelConfirm,
                H!ConfirmReturn, H!SelectCommit, H!StartConfirm, H!Act, H!git
  <2>3. CASE \E r \in Repos : H!Terminal(r)
    BY <2>3 DEF H!Terminal
  <2>4. ASSUME NEW p \in H!Slots, H!GitReturns(p) PROVE Named
    <3>1. PICK r : r = hCalls[p].repo
      OBVIOUS
    <3>2. H!Allowed(p) /\ \E s : log' = [log EXCEPT ![r][head[r]] = s]
      BY <2>4, <3>1 DEF H!GitReturns
    <3>3. hCalls[p].expect \in {None, head[r]}
      BY <3>1, <3>2 DEF H!Allowed, H!OnExpected
    <3>4. \A r1 \in Repos, b1 \in Branches : log'[r1][b1] # log[r1][b1] => r1 = r /\ b1 = head[r]
      BY <3>2 DEF HistoryInv, GitState
    <3>5. \A q \in H!Slots : q # p => hCalls'[q] = hCalls[q]
      BY <2>4 DEF H!GitReturns, HistoryInv, CallsKept, HistCalls
    <3> QED BY <3>1, <3>3, <3>4, <3>5
  <2> QED BY <2>2, <2>3, <2>4
<1> QED BY <1>1, <1>2, <1>3, PTL DEF Spec, ReturnsFromNamedBranch, H!ReturnsFromNamedBranch
=============================================================================
