-------------------------- MODULE GitRunnerProofs --------------------------
(***************************************************************************)
(* Theorems about GitRunner for every set of calls and directories and     *)
(* every bound on the length of a job.                                     *)
(*                                                                         *)
(* FifoExclusive is not inductive: it needs to know that the chain of tail *)
(* promises numbers the calls of a directory 1, 2, 3, ... without a gap or *)
(* a repetition (ChainInv).  OneUnsignalledWriter needs, besides, that an  *)
(* un-signalled writer belongs to a running call, which waits for nothing  *)
(* else (ChildInv).                                                        *)
(***************************************************************************)
EXTENDS GitRunner, TLAPS

\* A call that has not started has spawned nothing; without this TypeOK is
\* not inductive (step could pass MaxSteps).
FreshInv ==
    \A c \in Calls : status[c] \in {"new", "queued"} => step[c] = 0

TypeInv == TypeOK /\ FreshInv

\* The tail of a directory is its call with the greatest place.
TailInv ==
    /\ \A w \in Cwds : queues[w] # NoCall =>
          cwd[queues[w]] = w /\ place[queues[w]] > 0
    /\ \A c \in Calls : place[c] > 0 =>
          queues[cwd[c]] # NoCall /\ place[c] <= place[queues[cwd[c]]]

\* A call is chained to the call of its directory with the place before.
ChainInv ==
    /\ \A c \in Calls : place[c] > 0 /\ prev[c] = NoCall => place[c] = 1
    /\ \A c \in Calls : place[c] > 0 /\ prev[c] # NoCall =>
          /\ cwd[prev[c]] = cwd[c]
          /\ place[prev[c]] > 0
          /\ place[c] = place[prev[c]] + 1
    /\ \A c, d \in Calls :
          cwd[c] = cwd[d] /\ place[c] = place[d] /\ place[c] > 0 => c = d

\* Exactly the writes and jobs that were not rejected up front have a place.
PlaceInv ==
    \A c \in Calls :
        /\ status[c] = "new" => place[c] = 0
        /\ place[c] > 0 => kind[c] # "read"
        /\ status[c] = "queued" => place[c] > 0
        /\ HoldsSlot(c) => place[c] > 0

\* Only the reads of a job run together, or outlive the promise of their call.
Sole(p) == p.write \/ kind[p.call] # "job"

\* Any other un-signalled child is the only one of a call that is running.
ChildInv ==
    /\ \A p \in procs : ~p.killed => status[p.call] \notin {"new", "queued"}
    /\ \A p \in procs : Sole(p) /\ ~p.killed => status[p.call] = "running"
    /\ \A p \in procs : p.write => kind[p.call] # "read"
    /\ \A p, q \in procs :
          Sole(p) /\ ~p.killed /\ ~q.killed /\ p.call = q.call => p = q

IInv == TypeInv /\ TailInv /\ ChainInv /\ PlaceInv /\ FifoExclusive /\ ChildInv

-----------------------------------------------------------------------------
(* The cases of a step, used by every proof below.                         *)
LEMMA NextCases ==
    ASSUME [Next]_vars
    PROVE  \/ \E c \in Calls : \/ RejectAborted(c) \/ RunRead(c) \/ Enqueue(c)
                               \/ Start(c) \/ Abort(c)
           \/ \E c \in Calls, w, t \in BOOLEAN : JobSpawn(c, w, t)
           \/ \E c \in Calls, o \in Settled : JobFinish(c, o)
           \/ \E p \in procs, o \in Settled : Close(p, o)
           \/ \E p \in procs : Exit(p)
           \/ \E p \in procs : Timeout(p)
           \/ UNCHANGED vars
  BY DEF Next

(* execute(): the child it adds is a process of the call it is for.        *)
LEMMA SpawnType ==
    ASSUME TypeOK, NEW c \in Calls, NEW w \in BOOLEAN, NEW t \in BOOLEAN,
           step[c] < MaxSteps, Spawn(c, w, t)
    PROVE  /\ step' \in [Calls -> 0..MaxSteps]
           /\ \A d \in Calls : d # c => step'[d] = step[d]
           /\ procs' \subseteq Processes
<1>1. step[c] + 1 \in 1..MaxSteps
  BY MaxStepsAssumption DEF TypeOK
<1>2. [call |-> c, step |-> step[c] + 1, write |-> w, timed |-> t,
       killed |-> FALSE] \in Processes
  BY <1>1 DEF Processes
<1>3. step' \in [Calls -> 0..MaxSteps] /\ \A d \in Calls : d # c => step'[d] = step[d]
  BY <1>1 DEF Spawn, TypeOK
<1>. QED
  BY <1>2, <1>3 DEF Spawn, TypeOK

(* The types, and the bounds on the fields that no step changes, hold      *)
(* initially and are kept by every step of the runner.                     *)
LEMMA TypeInvInductive ==
    /\ Init => TypeInv
    /\ TypeInv /\ [Next]_vars => TypeInv'
<1>1. Init => TypeInv
  BY MaxStepsAssumption DEF Init, TypeInv, TypeOK, FreshInv, Statuses
<1>2. ASSUME TypeInv, [Next]_vars PROVE TypeInv'
  <2> USE <1>2, MaxStepsAssumption DEF TypeInv, TypeOK, FreshInv, rigid, Settled, Statuses
  <2>1. ASSUME NEW c \in Calls, RejectAborted(c) PROVE TypeInv'
    BY <2>1 DEF RejectAborted
  <2>2. ASSUME NEW c \in Calls, RunRead(c) PROVE TypeInv'
    <3>1. step[c] < MaxSteps
      BY <2>2 DEF RunRead
    <3>2. timed[c] \in BOOLEAN
      BY Zenon
    <3>3. step' \in [Calls -> 0..MaxSteps] /\ procs' \subseteq Processes
          /\ \A d \in Calls : d # c => step'[d] = step[d]
      BY <2>2, <3>1, <3>2, SpawnType DEF RunRead
    <3>. QED
      BY <2>2, <3>3 DEF RunRead
  <2>3. ASSUME NEW c \in Calls, Enqueue(c) PROVE TypeInv'
    BY <2>3 DEF Enqueue, PlaceOf
  <2>4. ASSUME NEW c \in Calls, Start(c) PROVE TypeInv'
    <3>1. step[c] < MaxSteps
      BY <2>4 DEF Start
    <3>2. timed[c] \in BOOLEAN
      BY Zenon
    <3>3. step' \in [Calls -> 0..MaxSteps] /\ procs' \subseteq Processes
          /\ \A d \in Calls : d # c => step'[d] = step[d]
      BY <2>4, <3>1, <3>2, SpawnType DEF Start
    <3>. QED
      BY <2>4, <3>3 DEF Start
  <2>5. ASSUME NEW c \in Calls, NEW w \in BOOLEAN, NEW t \in BOOLEAN, JobSpawn(c, w, t)
        PROVE  TypeInv'
    <3>1. step' \in [Calls -> 0..MaxSteps] /\ procs' \subseteq Processes
          /\ \A d \in Calls : d # c => step'[d] = step[d]
      BY <2>5, SpawnType DEF JobSpawn
    <3>. QED
      BY <2>5, <3>1 DEF JobSpawn
  <2>6. ASSUME NEW c \in Calls, NEW o \in Settled, JobFinish(c, o) PROVE TypeInv'
    BY <2>6 DEF JobFinish
  <2>7. ASSUME NEW p \in procs, NEW o \in Settled, Close(p, o) PROVE TypeInv'
    BY <2>7 DEF Close, Deliver, Processes
  <2>8. ASSUME NEW p \in procs, Exit(p) PROVE TypeInv'
    BY <2>8 DEF Exit
  <2>9. ASSUME NEW p \in procs, Timeout(p) PROVE TypeInv'
    BY <2>9 DEF Timeout, SettleCancelled, Deliver, Processes
  <2>10. ASSUME NEW c \in Calls, Abort(c) PROVE TypeInv'
    BY <2>10 DEF Abort, SettleCancelled, Deliver, Processes, Awaited
  <2>11. CASE UNCHANGED vars
    BY <2>11 DEF vars
  <2>. QED
    BY <2>1, <2>2, <2>3, <2>4, <2>5, <2>6, <2>7, <2>8, <2>9, <2>10, <2>11, NextCases
<1>. QED
  BY <1>1, <1>2

(* Every variable keeps its type, for every set of calls and directories.  *)
THEOREM TypeCorrect == Spec => []TypeOK
<1>1. TypeInv => TypeOK
  BY DEF TypeInv
<1>. QED
  BY <1>1, TypeInvInductive, PTL DEF Spec

-----------------------------------------------------------------------------
(* What a step may do to the promises, the chain and the children: all that *)
(* the invariants below need to know of it.                                 *)

\* The chain of tail promises is left alone.
ChainKept == UNCHANGED <<cwd, kind, queues, prev, place>>

\* Only call c's promise may have changed.
OnlyStatus(c, s) ==
    /\ status' \in [Calls -> Statuses]
    /\ status'[c] = s
    /\ \A d \in Calls : d # c => status'[d] = status[d]

(* What the settling of an invocation does to the promises of the calls:   *)
(* it settles that of its own call, unless a job only receives the result. *)
LEMMA DeliverEffect ==
    ASSUME TypeOK, NEW p \in procs, NEW o \in Settled, Deliver(p, o)
    PROVE  /\ p.call \in Calls
           /\ \/ kind[p.call] = "job" /\ status' = status
              \/ kind[p.call] # "job" /\ OnlyStatus(p.call, o)
  BY DEF TypeOK, Deliver, OnlyStatus, Settled, Statuses, Processes

(* A promise that settles was running, or was never queued.                *)
LEMMA StatusSteps ==
    ASSUME TypeInv, ChildInv, [Next]_vars
    PROVE  \/ /\ ChainKept
              /\ \/ status' = status
                 \/ \E c \in Calls :
                       \/ status[c] = "new" /\ OnlyStatus(c, "rejected")
                       \/ /\ status[c] = "new" /\ kind[c] = "read"
                          /\ OnlyStatus(c, "running")
                       \/ /\ status[c] = "queued" /\ TailSettled(c)
                          /\ OnlyStatus(c, "running")
                       \/ /\ status[c] = "running"
                          /\ \E o \in Settled : OnlyStatus(c, o)
           \/ \E c \in Calls : Enqueue(c)
  <1> USE TypeInv DEF TypeInv, rigid, ChainKept
  <1>1. ASSUME NEW c \in Calls, RejectAborted(c)
        PROVE  ChainKept /\ status[c] = "new" /\ OnlyStatus(c, "rejected")
    BY <1>1 DEF RejectAborted, OnlyStatus, TypeOK, Statuses, Settled
  <1>2. ASSUME NEW c \in Calls, RunRead(c)
        PROVE  /\ ChainKept /\ status[c] = "new" /\ kind[c] = "read"
               /\ OnlyStatus(c, "running")
    BY <1>2 DEF RunRead, OnlyStatus, TypeOK, Statuses
  <1>3. ASSUME NEW c \in Calls, Start(c)
        PROVE  /\ ChainKept /\ status[c] = "queued" /\ TailSettled(c)
               /\ OnlyStatus(c, "running")
    BY <1>3 DEF Start, OnlyStatus, TypeOK, Statuses
  <1>4. ASSUME NEW c \in Calls, NEW w \in BOOLEAN, NEW t \in BOOLEAN, JobSpawn(c, w, t)
        PROVE  ChainKept /\ status' = status
    BY <1>4 DEF JobSpawn
  <1>5. ASSUME NEW c \in Calls, NEW o \in Settled, JobFinish(c, o)
        PROVE  ChainKept /\ status[c] = "running" /\ OnlyStatus(c, o)
    BY <1>5 DEF JobFinish, OnlyStatus, TypeOK, Statuses
  <1>6. ASSUME NEW p \in procs, NEW o \in Settled, ~p.killed, Deliver(p, o)
        PROVE  \/ status' = status
               \/ /\ p.call \in Calls /\ status[p.call] = "running"
                  /\ OnlyStatus(p.call, o)
    BY <1>6, DeliverEffect, ChildInv DEF ChildInv, Sole
  <1>7. ASSUME NEW p \in procs, NEW o \in Settled, Close(p, o)
        PROVE  ChainKept /\ Deliver(p, o) /\ ~p.killed
    BY <1>7 DEF Close
  <1>8. ASSUME NEW p \in procs, Exit(p) PROVE ChainKept /\ status' = status
    BY <1>8 DEF Exit
  <1>9. ASSUME NEW p \in procs, Timeout(p)
        PROVE  ChainKept /\ Deliver(p, "rejected") /\ ~p.killed
    BY <1>9 DEF Timeout, SettleCancelled
  <1>10. ASSUME NEW c \in Calls, Abort(c)
         PROVE  /\ ChainKept
                /\ \/ status' = status
                   \/ \E p \in procs : ~p.killed /\ Deliver(p, "rejected")
    BY <1>10 DEF Abort, SettleCancelled, Awaited
  <1>11. CASE UNCHANGED vars
    BY <1>11 DEF vars
  <1>12. "rejected" \in Settled
    BY DEF Settled
  <1>. QED
    BY <1>1, <1>2, <1>3, <1>4, <1>5, <1>6, <1>7, <1>8, <1>9, <1>10, <1>11, <1>12, NextCases
       DEF vars

-----------------------------------------------------------------------------
(* Enqueue: the new tail gets the place after the old one.                 *)
LEMMA EnqueueEffect ==
    ASSUME IInv, NEW c \in Calls, Enqueue(c)
    PROVE  TailInv' /\ ChainInv' /\ PlaceInv' /\ FifoExclusive'
  <1> DEFINE w == cwd[c]
             tail == queues[w]
  <1> USE DEF IInv, TypeInv
  <1>1. /\ status[c] = "new" /\ kind[c] # "read" /\ place[c] = 0
        /\ w \in Cwds /\ tail \in Calls \union {NoCall}
        /\ UNCHANGED <<cwd, kind>>
    BY DEF Enqueue, TypeOK, PlaceInv, rigid
  <1>2. /\ place'[c] = PlaceOf(tail) + 1 /\ prev'[c] = tail /\ queues'[w] = c
        /\ status'[c] = "queued"
        /\ place' \in [Calls -> Nat] /\ PlaceOf(tail) \in Nat
        /\ \A d \in Calls : d # c =>
              place'[d] = place[d] /\ prev'[d] = prev[d] /\ status'[d] = status[d]
        /\ \A v \in Cwds : v # w => queues'[v] = queues[v]
    BY <1>1 DEF Enqueue, TypeOK, PlaceOf
  <1>3. \A d \in Calls : cwd[d] = w => place[d] <= PlaceOf(tail)
    BY <1>1 DEF TailInv, PlaceOf, TypeOK
  <1>4. tail # NoCall => tail # c /\ cwd[tail] = w /\ place[tail] > 0
    BY <1>1 DEF TailInv
  <1>5. TailInv'
    <2>1. ASSUME NEW v \in Cwds, queues'[v] # NoCall
          PROVE  cwd[queues'[v]] = v /\ place'[queues'[v]] > 0
      BY <1>1, <1>2, <2>1 DEF TailInv, TypeOK
    <2>2. ASSUME NEW d \in Calls, place'[d] > 0
          PROVE  queues'[cwd[d]] # NoCall /\ place'[d] <= place'[queues'[cwd[d]]]
      <3>1. CASE cwd[d] = w
        BY <1>1, <1>2, <1>3, <3>1, NoCallAssumption DEF TypeOK
      <3>2. CASE cwd[d] # w
        <4>1. queues'[cwd[d]] = queues[cwd[d]] /\ place'[d] = place[d]
          BY <1>1, <1>2, <3>2 DEF TypeOK
        <4>2. queues[cwd[d]] # c
          BY <1>1, <3>2, NoCallAssumption DEF TailInv, TypeOK
        <4>. QED
          BY <1>2, <2>2, <4>1, <4>2 DEF TailInv, TypeOK
      <3>. QED
        BY <3>1, <3>2
    <2>. QED
      BY <1>1, <2>1, <2>2 DEF TailInv
  <1>6. ChainInv'
    <2>1. ASSUME NEW d \in Calls, place'[d] > 0
          PROVE  /\ prev'[d] = NoCall => place'[d] = 1
                 /\ prev'[d] # NoCall =>
                       /\ cwd[prev'[d]] = cwd[d]
                       /\ place'[prev'[d]] > 0
                       /\ place'[d] = place'[prev'[d]] + 1
      <3>1. CASE d = c
        BY <1>1, <1>2, <1>4, <3>1 DEF PlaceOf, TypeOK
      <3>2. CASE d # c
        <4>1. prev[d] # NoCall => prev[d] # c /\ prev[d] \in Calls
          BY <1>1, <1>2, <2>1, <3>2 DEF ChainInv, TypeOK
        <4>. QED
          BY <1>1, <1>2, <2>1, <3>2, <4>1 DEF ChainInv
      <3>. QED
        BY <3>1, <3>2
    <2>2. ASSUME NEW d \in Calls, NEW e \in Calls,
                 cwd[d] = cwd[e], place'[d] = place'[e], place'[d] > 0
          PROVE  d = e
      <3>1. ASSUME NEW f \in Calls, f # c, cwd[f] = w PROVE place'[f] < place'[c]
        BY <1>1, <1>2, <1>3, <3>1 DEF TypeOK
      <3>. QED
        BY <1>1, <1>2, <2>2, <3>1 DEF ChainInv, TypeOK
    <2>. QED
      BY <1>1, <2>1, <2>2 DEF ChainInv
  <1>7. PlaceInv'
    BY <1>1, <1>2 DEF PlaceInv, HoldsSlot, TypeOK
  <1>8. FifoExclusive'
    <2> SUFFICES ASSUME NEW d \in Calls, NEW e \in Calls,
                        cwd[d] = cwd[e], 0 < place'[e], place'[e] < place'[d],
                        status'[d] # "queued"
                 PROVE  status'[e] \in Settled
      BY <1>1 DEF FifoExclusive, Behind, IsSettled
    <2>1. d # c
      BY <1>2
    <2>2. e # c
      BY <1>1, <1>2, <1>3, <2>1 DEF TypeOK
    <2>. QED
      BY <1>2, <2>1, <2>2 DEF FifoExclusive, Behind, IsSettled
  <1>. QED
    BY <1>5, <1>6, <1>7, <1>8

(* A started call keeps everything before it settled: its predecessor has  *)
(* settled, hence started, hence all before the predecessor have settled.  *)
LEMMA TurnIsNext ==
    ASSUME IInv, NEW c \in Calls, status[c] = "queued", TailSettled(c),
           NEW d \in Calls, Behind(c, d)
    PROVE  IsSettled(d)
<1> USE DEF IInv, TypeInv
<1>1. place[c] > 0 /\ place[c] \in Nat /\ place[d] \in Nat
  BY DEF PlaceInv, TypeOK
<1>2. prev[c] # NoCall
  BY <1>1 DEF ChainInv, Behind
<1>3. /\ prev[c] \in Calls /\ cwd[prev[c]] = cwd[c] /\ place[prev[c]] > 0
      /\ place[c] = place[prev[c]] + 1 /\ place[prev[c]] \in Nat
      /\ IsSettled(prev[c])
  BY <1>1, <1>2 DEF ChainInv, TypeOK, TailSettled
<1>4. CASE place[d] = place[prev[c]]
  BY <1>3, <1>4 DEF ChainInv, Behind
<1>5. CASE place[d] < place[prev[c]]
  BY <1>3, <1>5 DEF FifoExclusive, Behind, IsSettled, Settled
<1>. QED
  BY <1>1, <1>3, <1>4, <1>5 DEF Behind

(* A step that leaves the chain alone keeps the numbering and the order.   *)
LEMMA ChainKeptEffect ==
    ASSUME IInv, ChainKept,
           \/ status' = status
           \/ \E c \in Calls :
                 \/ status[c] = "new" /\ OnlyStatus(c, "rejected")
                 \/ status[c] = "new" /\ kind[c] = "read" /\ OnlyStatus(c, "running")
                 \/ status[c] = "queued" /\ TailSettled(c) /\ OnlyStatus(c, "running")
                 \/ status[c] = "running" /\ \E o \in Settled : OnlyStatus(c, o)
    PROVE  TailInv' /\ ChainInv' /\ PlaceInv' /\ FifoExclusive'
<1> USE DEF IInv, TypeInv, ChainKept
<1>1. TailInv' /\ ChainInv'
  BY DEF TailInv, ChainInv
<1>2. PlaceInv'
  BY DEF PlaceInv, HoldsSlot, OnlyStatus, Settled
<1>3. ASSUME NEW d \in Calls, IsSettled(d) PROVE IsSettled(d)'
  BY <1>3 DEF IsSettled, OnlyStatus, Settled
<1>4. FifoExclusive'
  <2> SUFFICES ASSUME NEW c \in Calls, NEW d \in Calls, Behind(c, d),
                      status'[c] # "queued"
               PROVE  IsSettled(d)
    BY <1>3 DEF FifoExclusive, Behind
  <2>1. CASE status[c] # "queued"
    BY <2>1 DEF FifoExclusive
  <2>2. CASE status[c] = "queued"
    <3>1. TailSettled(c)
      BY <2>2 DEF OnlyStatus
    <3>. QED
      BY <2>2, <3>1, TurnIsNext
  <2>. QED
    BY <2>1, <2>2
<1>. QED
  BY <1>1, <1>2, <1>4

(* But for the reads of a job, a call waits for one un-signalled child at  *)
(* a time, and only while it runs: no handler settles a call whose child   *)
(* it has not removed or signalled, and a write is awaited on its own.     *)
LEMMA ChildInvStep ==
    ASSUME TypeInv, ChildInv, [Next]_vars
    PROVE  ChildInv'
<1> USE DEF ChildInv, TypeInv, Sole
<1>1. ASSUME NEW c \in Calls, RejectAborted(c) PROVE ChildInv'
  BY <1>1 DEF RejectAborted, rigid, TypeOK, Processes
<1>2. ASSUME NEW c \in Calls, NEW w \in BOOLEAN, NEW t \in BOOLEAN,
             Spawn(c, w, t), UNCHANGED kind, w => kind[c] # "read",
             \A p \in procs : ~p.killed /\ p.call = c => ~Sole(p) /\ ~w,
             \/ status' = status /\ status[c] = "running"
             \/ OnlyStatus(c, "running")
      PROVE  ChildInv'
  <2> DEFINE new == [call |-> c, step |-> step[c] + 1, write |-> w,
                     timed |-> t, killed |-> FALSE]
  <2>1. procs' = procs \union {new}
    BY <1>2 DEF Spawn
  <2>2. new.call = c /\ new.write = w
    OBVIOUS
  <2>3. \A p \in procs : p.call \in Calls
    BY DEF TypeOK, Processes
  <2> HIDE DEF new
  <2>4. /\ \A p \in procs' : ~p.killed => status'[p.call] \notin {"new", "queued"}
        /\ \A p \in procs' : Sole(p)' /\ ~p.killed => status'[p.call] = "running"
    BY <1>2, <2>1, <2>2, <2>3 DEF OnlyStatus
  <2>5. \A p \in procs' : p.write => kind'[p.call] # "read"
    BY <1>2, <2>1, <2>2
  <2>6. \A p, q \in procs' :
           Sole(p)' /\ ~p.killed /\ ~q.killed /\ p.call = q.call => p = q
    BY <1>2, <2>1, <2>2
  <2>. QED
    BY <2>4, <2>5, <2>6
<1>3. ASSUME NEW c \in Calls, RunRead(c) PROVE ChildInv'
  <2>1. timed[c] \in BOOLEAN
    BY Zenon DEF TypeOK
  <2>2. OnlyStatus(c, "running") /\ Spawn(c, FALSE, timed[c]) /\ UNCHANGED kind
    BY <1>3 DEF RunRead, OnlyStatus, TypeOK, Statuses, rigid
  <2>3. \A p \in procs : ~p.killed => p.call # c
    BY <1>3 DEF RunRead
  <2>4. PICK w \in BOOLEAN : Spawn(c, w, timed[c]) /\ ~w
    BY <2>2, Zenon
  <2>. QED
    BY <1>2, <2>1, <2>2, <2>3, <2>4
<1>4. ASSUME NEW c \in Calls, Start(c) PROVE ChildInv'
  <2>1. timed[c] \in BOOLEAN
    BY Zenon DEF TypeOK
  <2>2. OnlyStatus(c, "running") /\ UNCHANGED kind
    BY <1>4 DEF Start, OnlyStatus, TypeOK, Statuses, rigid
  <2>3. \A p \in procs : ~p.killed => p.call # c
    BY <1>4 DEF Start
  <2>4. CASE kind[c] = "write" /\ Spawn(c, TRUE, timed[c])
    <3>1. kind[c] # "read"
      BY <2>4
    <3>2. PICK w \in BOOLEAN : Spawn(c, w, timed[c])
      BY <2>4, Zenon
    <3>. QED
      BY <1>2, <2>1, <2>2, <2>3, <3>1, <3>2
  <2>5. CASE kind[c] = "job" /\ UNCHANGED procs
    BY <2>2, <2>5 DEF OnlyStatus, TypeOK, Processes
  <2>. QED
    BY <1>4, <2>4, <2>5 DEF Start
<1>5. ASSUME NEW c \in Calls, NEW w \in BOOLEAN, NEW t \in BOOLEAN, JobSpawn(c, w, t)
      PROVE  ChildInv'
  <2>1. /\ Spawn(c, w, t) /\ UNCHANGED kind /\ kind[c] = "job"
        /\ status' = status /\ status[c] = "running"
    BY <1>5 DEF JobSpawn, rigid
  <2>2. \A p \in procs : ~p.killed /\ p.call = c => ~Sole(p) /\ ~w
    BY <1>5 DEF JobSpawn, Awaited
  <2>. QED
    BY <1>2, <2>1, <2>2
<1>6. ASSUME NEW c \in Calls, NEW o \in Settled, JobFinish(c, o) PROVE ChildInv'
  BY <1>6 DEF JobFinish, Awaited, rigid, TypeOK, Processes
<1>7. ASSUME NEW p \in procs, NEW o \in Settled, Close(p, o) PROVE ChildInv'
  BY <1>7, DeliverEffect DEF Close, OnlyStatus, rigid, TypeOK, Processes
<1>8. ASSUME NEW p \in procs, Exit(p) PROVE ChildInv'
  BY <1>8 DEF Exit, rigid
<1>9. ASSUME NEW p \in procs, ~p.killed, SettleCancelled(p) PROVE ChildInv'
  <2> DEFINE gone == [p EXCEPT !.killed = TRUE]
  <2>1. p \in Processes
    BY DEF TypeOK
  <2>2. gone.killed /\ gone.call = p.call /\ gone.write = p.write
    BY <2>1 DEF Processes
  <2>3. /\ procs' = (procs \ {p}) \union {gone} /\ UNCHANGED kind
        /\ status' = status \/ OnlyStatus(p.call, "rejected")
    BY <1>9, DeliverEffect DEF SettleCancelled, rigid, Settled
  <2>4. \A q \in procs : q.call \in Calls
    BY DEF TypeOK, Processes
  <2> HIDE DEF gone
  <2>5. /\ \A q \in procs : Sole(q) /\ ~q.killed /\ q # p => q.call # p.call
        /\ status[p.call] \notin {"new", "queued"}
    BY <1>9
  <2>6. \A q \in procs' : ~q.killed => q \in procs /\ q # p
    BY <2>2, <2>3
  <2>7. /\ \A q \in procs' : ~q.killed => status'[q.call] \notin {"new", "queued"}
        /\ \A q \in procs' : Sole(q)' /\ ~q.killed => status'[q.call] = "running"
    BY <2>3, <2>4, <2>5, <2>6 DEF OnlyStatus
  <2>8. \A q \in procs' : q.write => kind'[q.call] # "read"
    BY <2>2, <2>3
  <2>9. \A q, u \in procs' :
           Sole(q)' /\ ~q.killed /\ ~u.killed /\ q.call = u.call => q = u
    BY <2>3, <2>6
  <2>. QED
    BY <2>7, <2>8, <2>9
<1>10. ASSUME NEW p \in procs, Timeout(p) PROVE ChildInv'
  BY <1>9, <1>10 DEF Timeout
<1>11. ASSUME NEW c \in Calls, Abort(c) PROVE ChildInv'
  BY <1>9, <1>11 DEF Abort, Awaited, rigid
<1>12. ASSUME NEW c \in Calls, Enqueue(c) PROVE ChildInv'
  BY <1>12 DEF Enqueue, rigid, TypeOK, Processes
<1>13. CASE UNCHANGED vars
  BY <1>13 DEF vars
<1>. QED
  BY <1>1, <1>3, <1>4, <1>5, <1>6, <1>7, <1>8, <1>10, <1>11, <1>12, <1>13, NextCases

(* The inductive invariant holds initially and every step keeps it.        *)
LEMMA IInvInductive ==
    /\ Init => IInv
    /\ IInv /\ [Next]_vars => IInv'
<1>1. Init => TailInv /\ ChainInv /\ PlaceInv /\ FifoExclusive /\ ChildInv
  BY DEF Init, TailInv, ChainInv, PlaceInv, FifoExclusive, Behind, ChildInv, HoldsSlot
<1>2. ASSUME IInv, [Next]_vars
      PROVE  TailInv' /\ ChainInv' /\ PlaceInv' /\ FifoExclusive'
  BY <1>2, StatusSteps, EnqueueEffect, ChainKeptEffect DEF IInv
<1>. QED
  BY <1>1, <1>2, TypeInvInductive, ChildInvStep DEF IInv

(* At most one body runs per directory, in call order: whoever has started *)
(* finds everything queued before it settled (GitRunner.ts enqueue).       *)
THEOREM FifoCorrect == Spec => []FifoExclusive
<1>1. IInv => FifoExclusive
  BY DEF IInv
<1>. QED
  BY <1>1, IInvInductive, PTL DEF Spec

(* Two git children write in one directory only if all but one of them     *)
(* were sent SIGTERM (GitRunner.ts execute, settleCancelled).              *)
THEOREM UnsignalledWriterCorrect == Spec => []OneUnsignalledWriter
<1>1. ASSUME IInv PROVE OneUnsignalledWriter
  <2> USE <1>1 DEF IInv, TypeInv
  <2>1. ASSUME NEW p \in procs, p.write, ~p.killed
        PROVE  p.call \in Calls /\ HoldsSlot(p.call) /\ place[p.call] > 0
    BY <2>1 DEF ChildInv, Sole, HoldsSlot, PlaceInv, TypeOK, Processes
  <2>2. ASSUME NEW p \in procs, NEW q \in procs, p.write, ~p.killed,
               q.write, ~q.killed, cwd[q.call] = cwd[p.call]
        PROVE  q = p
    <3>1. place[p.call] \in Nat /\ place[q.call] \in Nat
      BY <2>1, <2>2 DEF TypeOK
    <3>2. ~ Behind(p.call, q.call) /\ ~ Behind(q.call, p.call)
      BY <2>1, <2>2 DEF FifoExclusive, HoldsSlot, IsSettled, Settled
    <3>3. place[p.call] = place[q.call]
      BY <2>1, <2>2, <3>1, <3>2 DEF Behind
    <3>4. p.call = q.call
      BY <2>1, <2>2, <3>3 DEF ChainInv
    <3>. QED
      BY <2>2, <3>4 DEF ChildInv, Sole
  <2>. QED
    BY <2>1, <2>2 DEF OneUnsignalledWriter
<1>. QED
  BY <1>1, IInvInductive, PTL DEF Spec

(* A settled promise never changes, whatever its child does afterwards     *)
(* (GitRunner.ts execute, the `settled` flag).                             *)
THEOREM SettlesOnceCorrect == Spec => SettlesOnce
<1>1. ASSUME IInv, [Next]_vars
      PROVE  \A c \in Calls : IsSettled(c) => status'[c] = status[c]
  <2>1. CASE \E c \in Calls : Enqueue(c)
    BY <1>1, <2>1 DEF Enqueue, IsSettled, Settled, IInv, TypeInv, TypeOK
  <2>2. CASE ~ \E c \in Calls : Enqueue(c)
    BY <1>1, <2>2, StatusSteps DEF IInv, IsSettled, Settled, OnlyStatus
  <2>. QED
    BY <2>1, <2>2
<1>2. IInv /\ [Next]_vars => [\A c \in Calls : IsSettled(c) => status'[c] = status[c]]_vars
  BY <1>1
<1>. QED
  BY <1>2, IInvInductive, PTL DEF Spec, SettlesOnce

-----------------------------------------------------------------------------
(* The refinement: enqueue is Join, a call's turn is Enter, settling is    *)
(* Leave, and every other step stutters.                                   *)
LEMMA QueueStep ==
    ASSUME IInv, [Next]_vars
    PROVE  [Queue!Next]_Queue!vars
<1> DEFINE phase == [c \in Calls |-> PhaseOf(c)]
           issued == [w \in Cwds |-> PlaceOf(queues[w])]
<1> USE DEF IInv, TypeInv
<1>0. ASSUME NEW c \in Calls, NEW s, PhaseOf(c)' = s,
             \A d \in Calls : d # c => PhaseOf(d)' = PhaseOf(d)
      PROVE  phase' = [phase EXCEPT ![c] = s]
  BY <1>0
<1>1. ASSUME NEW c \in Calls, Enqueue(c) PROVE Queue!Join(c)
  <2>1. /\ status[c] = "new" /\ kind[c] # "read" /\ place[c] = 0
        /\ cwd[c] \in Cwds /\ UNCHANGED <<cwd, kind>>
        /\ place' = [place EXCEPT ![c] = PlaceOf(queues[cwd[c]]) + 1]
        /\ status' = [status EXCEPT ![c] = "queued"]
        /\ queues' = [queues EXCEPT ![cwd[c]] = c]
    BY <1>1 DEF Enqueue, TypeOK, PlaceInv, rigid
  <2>2. place'[c] = PlaceOf(queues[cwd[c]]) + 1 /\ place'[c] # 0 /\ PlaceOf(queues[cwd[c]]) \in Nat
    BY <2>1 DEF PlaceOf, TypeOK
  <2>3. phase' = [phase EXCEPT ![c] = "waiting"]
    <3>1. PhaseOf(c)' = "waiting"
      BY <2>1, <2>2 DEF PhaseOf, TypeOK
    <3>2. \A d \in Calls : d # c => PhaseOf(d)' = PhaseOf(d)
      BY <2>1 DEF PhaseOf, TypeOK
    <3>. QED
      BY <1>0, <3>1, <3>2
  <2>4. phase[c] = "away"
    BY <2>1 DEF PhaseOf
  <2>5. \A w \in Cwds : queues[w] # c
    BY <2>1, NoCallAssumption DEF TailInv, TypeOK
  <2>6. issued' = [issued EXCEPT ![cwd[c]] = @ + 1]
    <3>1. ASSUME NEW w \in Cwds, w # cwd[c] PROVE PlaceOf(queues[w])' = PlaceOf(queues[w])
      BY <2>1, <2>5, <3>1 DEF PlaceOf, TypeOK
    <3>2. PlaceOf(queues[cwd[c]])' = PlaceOf(queues[cwd[c]]) + 1
      BY <2>1, <2>2, NoCallAssumption DEF PlaceOf, TypeOK
    <3>. QED
      BY <2>1, <3>1, <3>2
  <2>7. place' = [place EXCEPT ![c] = issued[cwd[c]] + 1]
    BY <2>1
  <2>. QED
    BY <2>1, <2>3, <2>4, <2>6, <2>7 DEF Queue!Join
<1>2. ASSUME ChainKept PROVE issued' = issued /\ place' = place /\ cwd' = cwd
  BY <1>2 DEF ChainKept, PlaceOf
<1>3. ASSUME ChainKept, status' = status PROVE UNCHANGED Queue!vars
  BY <1>2, <1>3 DEF Queue!vars, PhaseOf, ChainKept
<1>4. ASSUME NEW c \in Calls, ChainKept, status[c] = "new", OnlyStatus(c, "rejected")
      PROVE  UNCHANGED Queue!vars
  <2>1. place[c] = 0
    BY <1>4 DEF PlaceInv
  <2>. QED
    BY <1>2, <1>4, <2>1 DEF Queue!vars, PhaseOf, ChainKept, OnlyStatus
<1>5. ASSUME NEW c \in Calls, NEW s \in Statuses, ChainKept, kind[c] = "read", OnlyStatus(c, s)
      PROVE  UNCHANGED Queue!vars
  BY <1>2, <1>5 DEF Queue!vars, PhaseOf, ChainKept, OnlyStatus
<1>6. ASSUME NEW c \in Calls, ChainKept, kind[c] # "read", status[c] = "queued",
             TailSettled(c), OnlyStatus(c, "running")
      PROVE  Queue!Enter(c)
  <2>1. place[c] > 0 /\ place[c] # 0
    BY <1>6 DEF PlaceInv, TypeOK
  <2>2. phase[c] = "waiting" /\ phase' = [phase EXCEPT ![c] = "inside"]
    <3>1. PhaseOf(c) = "waiting" /\ PhaseOf(c)' = "inside"
      BY <1>6, <2>1 DEF PhaseOf, ChainKept, OnlyStatus
    <3>2. \A d \in Calls : d # c => PhaseOf(d)' = PhaseOf(d)
      BY <1>6 DEF PhaseOf, ChainKept, OnlyStatus
    <3>. QED
      BY <1>0, <3>1, <3>2
  <2>3. ASSUME NEW d \in Calls, Queue!Ahead(d, c) PROVE phase[d] = "gone"
    <3>1. Behind(c, d) /\ place[d] # 0 /\ place[d] > 0
      BY <2>3 DEF Queue!Ahead, Behind, TypeOK
    <3>2. IsSettled(d) /\ kind[d] # "read"
      BY <1>6, <3>1, TurnIsNext DEF PlaceInv
    <3>. QED
      BY <3>1, <3>2 DEF PhaseOf, IsSettled, Settled
  <2>. QED
    BY <1>2, <1>6, <2>2, <2>3 DEF Queue!Enter
<1>7. ASSUME NEW c \in Calls, NEW o \in Settled, ChainKept, kind[c] # "read",
             status[c] = "running", OnlyStatus(c, o)
      PROVE  Queue!Leave(c)
  <2>1. place[c] > 0 /\ place[c] # 0
    BY <1>7 DEF PlaceInv, HoldsSlot, TypeOK
  <2>2. phase[c] = "inside" /\ phase' = [phase EXCEPT ![c] = "gone"]
    <3>1. PhaseOf(c) = "inside" /\ PhaseOf(c)' = "gone"
      BY <1>7, <2>1 DEF PhaseOf, ChainKept, OnlyStatus, Settled
    <3>2. \A d \in Calls : d # c => PhaseOf(d)' = PhaseOf(d)
      BY <1>7 DEF PhaseOf, ChainKept, OnlyStatus
    <3>. QED
      BY <1>0, <3>1, <3>2
  <2>. QED
    BY <1>2, <1>7, <2>2 DEF Queue!Leave
<1>8. ASSUME NEW c \in Calls, status[c] = "queued" PROVE kind[c] # "read"
  BY <1>8 DEF PlaceInv
<1>9. "running" \in Statuses /\ Settled \subseteq Statuses
  BY DEF Statuses
<1>. QED
  BY <1>1, <1>3, <1>4, <1>5, <1>6, <1>7, <1>8, <1>9, StatusSteps DEF Queue!Next

(* The chain of tail promises is a serial queue for every set of callers   *)
(* and directories (GitRunner.ts enqueue).                                 *)
THEOREM RunnerImplementsQueue == Spec => ImplementsQueue
<1>1. Init => Queue!Init
  BY DEF Init, Queue!Init, PhaseOf, PlaceOf
<1>. QED
  BY <1>1, QueueStep, IInvInductive, PTL DEF Spec, ImplementsQueue, Queue!Spec
=============================================================================
