------------------------ MODULE RemoteBindingProofs ------------------------
(***************************************************************************)
(* Proofs about RemoteBinding and, for requests that come in turn, about   *)
(* MCRemoteBinding.  OthersUntouched says of the origin's host what it is; *)
(* to hold after the next step it needs that no handler is about to        *)
(* rewrite it (NoRewrite), and that needs, for an origin that was never on *)
(* GitHub, that no copy of the record has a marker (Unmarked): a marker    *)
(* alone makes a handler bind or restore whatever host it finds.           *)
(***************************************************************************)
EXTENDS MCRemoteBinding, SequenceTheorems, TLAPS

Handler == [pc : Pcs, want : Profiles \union {None}, snapshot : Records,
            updated : Records, host : Hosts, mark : Hosts]

Config == [host : Hosts, name : Profiles \union {None}, email : Profiles \union {None}]

\* The part of TypeOK that a step reads; the queue does not matter here.
Shape ==
    /\ record \in Records
    /\ config \in Config
    /\ original \in Hosts \ Aliased
    /\ h \in [Updates -> Handler]

NoRewrite ==
    original # GitHub => config.host = original /\ \A u \in Updates : h[u].pc # "setUrl"

UnmarkedRecord(rec) == rec.preBind = None

UnmarkedHandler(g) ==
    UnmarkedRecord(g.snapshot) /\ UnmarkedRecord(g.updated) /\ g.mark = None

Unmarked ==
    original = Elsewhere => UnmarkedRecord(record) /\ \A u \in Updates : UnmarkedHandler(h[u])

IInv == Shape /\ NoRewrite /\ Unmarked

-----------------------------------------------------------------------------
\* The invariant holds initially.
LEMMA InitIInv == Init => IInv
BY ProfilesAssumption
   DEF Init, IInv, Shape, Handler, Config, NoRewrite, Unmarked, UnmarkedRecord, UnmarkedHandler,
       Records, Hosts, Pcs, IdleHandler

\* What the step of one handler has to show: the rest is left alone.
Allowed(g, rec, conf) ==
    /\ g \in Handler /\ rec \in Records /\ conf \in Config
    /\ original # GitHub => conf.host = original /\ g.pc # "setUrl"
    /\ original = Elsewhere => UnmarkedRecord(rec) /\ UnmarkedHandler(g)

\* A step of one handler that is allowed keeps the invariant.
LEMMA HandlerStep ==
    ASSUME IInv, NEW u \in Updates, NEW g, Step(u, g), Allowed(g, record', config'),
           UNCHANGED original
    PROVE  IInv'
<1>1. /\ h'[u] = g
      /\ \A v \in Updates \ {u} : h'[v] = h[v]
      /\ h' \in [Updates -> Handler]
    BY DEF IInv, Shape, Step, Allowed
<1>2. Shape'
    BY <1>1 DEF IInv, Shape, Allowed
<1>3. NoRewrite'
    BY <1>1 DEF IInv, NoRewrite, Allowed
<1>4. Unmarked'
    BY <1>1 DEF IInv, Unmarked, Allowed
<1> QED
    BY <1>2, <1>3, <1>4 DEF IInv

\* What is known of a handler, and of the record, before its step.
LEMMA Before ==
    ASSUME IInv, NEW u \in Updates
    PROVE  /\ Allowed(h[u], record, config)
           /\ h[u].want \in Profiles \union {None}
           /\ h[u].snapshot \in Records /\ h[u].updated \in Records
           /\ h[u].host \in Hosts /\ h[u].mark \in Hosts
BY DEF IInv, Shape, NoRewrite, Unmarked, Allowed, Handler

\* A handler that goes on, or gives up, is as it was but for its place.
LEMMA OnlyMoves ==
    ASSUME IInv, NEW u \in Updates, NEW step \in Pcs \ {"setUrl"}, Goto(u, step),
           UNCHANGED original, record' \in Records, config' \in Config,
           original # GitHub => config'.host = original,
           original = Elsewhere => UnmarkedRecord(record')
    PROVE  IInv'
<1> DEFINE g == [h[u] EXCEPT !.pc = step]
<1>1. /\ g \in Handler /\ g.pc = step
      /\ g.snapshot = h[u].snapshot /\ g.updated = h[u].updated /\ g.mark = h[u].mark
    BY Before DEF Allowed, Handler
<1>2. Step(u, g)
    BY DEF Goto
<1> HIDE DEF g
<1>3. Allowed(g, record', config')
    BY <1>1, Before DEF Allowed, UnmarkedHandler
<1> QED
    BY <1>2, <1>3, HandlerStep

-----------------------------------------------------------------------------
\* A request starts with no record read; the reads copy the stored one.
LEMMA Requests ==
    ASSUME IInv, NEW u \in Updates, NEW p \in Profiles \union {None}, Request(u, p)
    PROVE  IInv'
<1> DEFINE g == [IdleHandler EXCEPT !.pc = "read", !.want = p]
<1>1. /\ g \in Handler /\ g.pc = "read"
      /\ g.snapshot.preBind = None /\ g.updated.preBind = None /\ g.mark = None
    BY DEF IdleHandler, Handler, Records, Hosts, Pcs
<1>2. Step(u, g) /\ UNCHANGED <<record, config, original>>
    BY DEF Request
<1> HIDE DEF g
<1>3. Allowed(g, record', config')
    BY <1>1, <1>2, Before DEF Allowed, UnmarkedHandler, UnmarkedRecord
<1> QED
    BY <1>2, <1>3, HandlerStep

\* The reads copy the record into the handler.
LEMMA RecordReads ==
    ASSUME IInv, NEW u \in Updates, NEW step \in {"write", "markWrite"},
           Step(u, [h[u] EXCEPT !.pc = step, !.snapshot = record]),
           UNCHANGED <<record, config, original>>
    PROVE  IInv'
<1> DEFINE g == [h[u] EXCEPT !.pc = step, !.snapshot = record]
<1>1. /\ g \in Handler /\ g.pc = step
      /\ g.snapshot = record /\ g.updated = h[u].updated /\ g.mark = h[u].mark
    BY Before DEF Allowed, Handler, Pcs
<1>2. Step(u, g)
    OBVIOUS
<1> HIDE DEF g
<1>3. Allowed(g, record', config')
    BY <1>1, Before DEF Allowed, UnmarkedHandler
<1> QED
    BY <1>2, <1>3, HandlerStep

\* The writes of the record store a copy with another profile or marker.
LEMMA PatchedKeeps ==
    ASSUME IInv, NEW u \in Updates
    PROVE  Patched(u) \in Records /\ Patched(u).preBind = h[u].snapshot.preBind
BY Before DEF Patched, Records

\* The first write stores the copy with the profile asked for.
LEMMA RecordWrites ==
    ASSUME IInv, NEW u \in Updates, NEW step \in {"name", "remotes"},
           record' = Patched(u), UNCHANGED <<config, original>>,
           Step(u, [h[u] EXCEPT !.pc = step, !.updated = Patched(u)])
    PROVE  IInv'
<1> DEFINE g == [h[u] EXCEPT !.pc = step, !.updated = Patched(u)]
<1>1. /\ g \in Handler /\ g.pc = step
      /\ g.snapshot = h[u].snapshot /\ g.updated = Patched(u) /\ g.mark = h[u].mark
    BY Before, PatchedKeeps DEF Allowed, Handler, Pcs
<1>2. Step(u, g)
    OBVIOUS
<1> HIDE DEF g
<1>3. Allowed(g, record', config')
    BY <1>1, Before, PatchedKeeps DEF Allowed, UnmarkedHandler, UnmarkedRecord
<1> QED
    BY <1>2, <1>3, HandlerStep

\* The second one stores the copy with the marker.
LEMMA MarkWrites ==
    ASSUME IInv, NEW u \in Updates, WriteMark(u)
    PROVE  IInv'
<1>1. /\ record' \in Records
      /\ record'.preBind = h[u].mark
    BY Before DEF WriteMark, Records
<1>2. /\ original = Elsewhere => UnmarkedRecord(record')
      /\ config' \in Config
      /\ original # GitHub => config'.host = original
    BY <1>1, Before DEF WriteMark, Allowed, UnmarkedRecord, UnmarkedHandler
<1> QED
    BY <1>1, <1>2, OnlyMoves DEF WriteMark, Pcs

\* The identity writes do not concern the host.
LEMMA IdentityWrites ==
    ASSUME IInv, NEW u \in Updates, WriteName(u) \/ WriteEmail(u)
    PROVE  IInv'
<1>1. config' \in Config /\ config'.host = config.host
    BY Before DEF WriteName, WriteEmail, Allowed, Config
<1>2. Goto(u, "email") \/ Goto(u, "remotes")
    BY DEF WriteName, WriteEmail, GiveUp
<1>3. UNCHANGED <<record, original>>
    BY DEF WriteName, WriteEmail
<1> QED
    BY <1>1, <1>2, <1>3, Before, OnlyMoves DEF Allowed, Pcs

\* A handler decides to rewrite only an origin that it may rewrite.
LEMMA Decision ==
    ASSUME IInv, NEW u \in Updates, ReadRemotes(u)
    PROVE  IInv'
<1> DEFINE rec == h[u].updated
<1>1. UNCHANGED <<record, config, original>>
    BY DEF ReadRemotes
<1>2. rec \in Records /\ rec.assigned \in Profiles \union {None} /\ rec.preBind \in Hosts
    BY Before DEF Records
<1>3. original \notin {GitHub, None, Absent} => original = Elsewhere
    BY DEF IInv, Shape, Hosts
<1>4. original # GitHub => config.host = original
    BY Before DEF Allowed
<1>5. original = Elsewhere => rec.preBind = None
    BY Before DEF Allowed, UnmarkedHandler, UnmarkedRecord
<1>6. ASSUME NEW host \in Hosts, NEW mark \in Hosts, original = GitHub,
             Step(u, [h[u] EXCEPT !.pc = "setUrl", !.host = host, !.mark = mark])
      PROVE  IInv'
    <2> DEFINE g == [h[u] EXCEPT !.pc = "setUrl", !.host = host, !.mark = mark]
    <2>1. g \in Handler
        BY Before DEF Allowed, Handler, Pcs
    <2>2. Allowed(g, record', config')
        BY <2>1, <1>1, <1>6, Before, HostsAssumption DEF Allowed
    <2> QED
        BY <2>2, <1>1, <1>6, HandlerStep
<1>7. ASSUME Binds(rec, config.host),
             Step(u, [h[u] EXCEPT !.pc = "setUrl", !.host = rec.assigned,
                                  !.mark = BindMark(rec, config.host)])
      PROVE  IInv'
    <2>1. original = GitHub
        BY <1>3, <1>4, <1>5, <1>7, HostsAssumption DEF Binds
    <2>2. rec.assigned \in Hosts /\ BindMark(rec, config.host) \in Hosts
        BY <1>2, <1>7, Before DEF Binds, BindMark, Hosts, Allowed, Config
    <2> QED
        BY <2>1, <2>2, <1>6, <1>7
<1>8. ASSUME Restores(rec), config.host \notin {None, Absent},
             Step(u, [h[u] EXCEPT !.pc = "setUrl", !.host = rec.preBind, !.mark = None])
      PROVE  IInv'
    <2>1. original = GitHub
        BY <1>3, <1>4, <1>5, <1>8 DEF Restores
    <2> QED
        BY <2>1, <1>2, <1>6, <1>8 DEF Hosts
<1>9. ASSUME Step(u, [h[u] EXCEPT !.pc = "markRead", !.mark = None])
      PROVE  IInv'
    <2> DEFINE g == [h[u] EXCEPT !.pc = "markRead", !.mark = None]
    <2>1. /\ g \in Handler /\ g.pc = "markRead"
          /\ g.snapshot = h[u].snapshot /\ g.updated = h[u].updated /\ g.mark = None
        BY Before DEF Allowed, Handler, Pcs, Hosts
    <2>2. Step(u, g)
        BY <1>9
    <2> HIDE DEF g
    <2>3. Allowed(g, record', config')
        BY <2>1, <1>1, Before DEF Allowed, UnmarkedHandler
    <2> QED
        BY <2>2, <2>3, <1>1, HandlerStep
<1>10. CASE Goto(u, "done")
    BY <1>1, <1>10, Before, OnlyMoves DEF Allowed, Pcs
<1> QED
    BY <1>7, <1>8, <1>9, <1>10 DEF ReadRemotes, GiveUp

\* The rewrite itself only happens to an origin on GitHub.
LEMMA Rewrite ==
    ASSUME IInv, NEW u \in Updates, SetUrl(u)
    PROVE  IInv'
<1>1. original = GitHub
    BY Before DEF SetUrl, Allowed
<1>2. config' \in Config
    BY Before DEF SetUrl, Allowed, Config
<1>3. UNCHANGED <<record, original>> /\ (Goto(u, "done") \/ Goto(u, "markRead"))
    BY DEF SetUrl, GiveUp
<1> QED
    BY <1>1, <1>2, <1>3, Before, HostsAssumption, OnlyMoves DEF Allowed, Pcs

\* Quitting ends handlers; the user moves an origin when none runs.
LEMMA Quit ==
    ASSUME IInv, Crash
    PROVE  IInv'
<1>1. \A u \in Updates : h'[u] = h[u] \/ h'[u] = [h[u] EXCEPT !.pc = "done"]
    BY DEF Crash
<1>2. ASSUME NEW u \in Updates
      PROVE  /\ h'[u] \in Handler
             /\ h'[u].pc \in {h[u].pc, "done"} /\ h'[u].snapshot = h[u].snapshot
             /\ h'[u].updated = h[u].updated /\ h'[u].mark = h[u].mark
    <2>1. h[u] \in Handler
        BY DEF IInv, Shape
    <2> QED
        BY <1>1, <2>1 DEF Handler, Pcs
<1>3. UNCHANGED <<record, config, original>>
    BY DEF Crash
<1>4. h' \in [Updates -> Handler]
    BY <1>2 DEF Crash
<1>5. Shape'
    BY <1>3, <1>4 DEF IInv, Shape
<1>6. NoRewrite'
    BY <1>2, <1>3 DEF IInv, NoRewrite
<1>7. Unmarked'
    BY <1>2, <1>3 DEF IInv, Unmarked, UnmarkedHandler
<1> QED
    BY <1>5, <1>6, <1>7 DEF IInv

\* The user moves an origin when no handler runs.
LEMMA UserMoves ==
    ASSUME IInv, NEW host \in {None, GitHub, Absent}, UserSetsOrigin(host)
    PROVE  IInv'
<1>1. original' = host /\ config' = [config EXCEPT !.host = host] /\ UNCHANGED <<record, h>>
    BY DEF UserSetsOrigin
<1>2. \A u \in Updates : h[u].pc # "setUrl"
    BY DEF UserSetsOrigin, Rest, Running
<1>3. host \in Hosts \ Aliased
    BY ProfilesAssumption, HostsAssumption DEF Hosts
<1>4. config' \in Config /\ config'.host = host
    BY <1>1, <1>3 DEF IInv, Shape, Config
<1>5. Shape'
    BY <1>1, <1>3, <1>4 DEF IInv, Shape
<1>6. NoRewrite'
    BY <1>1, <1>2, <1>4 DEF NoRewrite
<1>7. Unmarked'
    BY <1>1, HostsAssumption DEF Unmarked
<1> QED
    BY <1>5, <1>6, <1>7 DEF IInv

\* Every step keeps the invariant.
LEMMA NextIInv == IInv /\ [Next]_vars => IInv'
<1> SUFFICES ASSUME IInv, [Next]_vars PROVE IInv'
    OBVIOUS
<1>1. ASSUME NEW u \in Updates, NEW p \in Profiles \union {None}, Request(u, p) PROVE IInv'
    BY <1>1, Requests
<1>2. ASSUME NEW u \in Updates, ReadRecord(u) \/ ReadForMark(u) PROVE IInv'
    BY <1>2, RecordReads DEF ReadRecord, ReadForMark
<1>3. ASSUME NEW u \in Updates, WriteRecord(u) PROVE IInv'
    BY <1>3, RecordWrites DEF WriteRecord
<1>4. ASSUME NEW u \in Updates, WriteName(u) \/ WriteEmail(u) PROVE IInv'
    BY <1>4, IdentityWrites
<1>5. ASSUME NEW u \in Updates, ReadRemotes(u) PROVE IInv'
    BY <1>5, Decision
<1>6. ASSUME NEW u \in Updates, SetUrl(u) PROVE IInv'
    BY <1>6, Rewrite
<1>7. ASSUME NEW u \in Updates, WriteMark(u) PROVE IInv'
    BY <1>7, MarkWrites
<1>8. ASSUME NEW u \in Updates, StoreFails(u) PROVE IInv'
    BY <1>8, OnlyMoves, Before DEF StoreFails, GiveUp, Allowed, Pcs
<1>9. CASE Crash
    BY <1>9, Quit
<1>10. ASSUME NEW host \in {None, GitHub, Absent}, UserSetsOrigin(host) PROVE IInv'
    BY <1>10, UserMoves
<1>11. CASE UNCHANGED vars
    BY <1>11 DEF IInv, Shape, NoRewrite, Unmarked, vars
<1> QED
    BY <1>1, <1>2, <1>3, <1>4, <1>5, <1>6, <1>7, <1>8, <1>9, <1>10, <1>11 DEF Next

(* Whatever assignments overlap, whichever of their steps fail and whenever*)
(* the program quits: an origin that is not the profiles' to bind keeps its*)
(* host (remoteReconcile.ts, ADR 0009).                                    *)
THEOREM OthersCorrect == Spec => []OthersUntouched
<1>1. IInv => OthersUntouched
    BY DEF IInv, NoRewrite, OthersUntouched
<1> QED
    BY InitIInv, NextIInv, <1>1, PTL DEF Spec

-----------------------------------------------------------------------------
(* The queue, and the identity.                                            *)

\* q is a queue of the updates of W, each once.
Queues(q, W) ==
    /\ q \in Seq(Updates)
    /\ \A i, j \in 1..Len(q) : q[i] = q[j] => i = j
    /\ \A u \in Updates : (\E i \in 1..Len(q) : q[i] = u) <=> u \in W

Waiting == {u \in Updates : h[u].pc \in QueuedPcs}

QueueInv == Queues(queue, Waiting)

\* An update that enters a queue is its last one.
LEMMA Entered ==
    ASSUME NEW q, NEW W, Queues(q, W), NEW u \in Updates \ W, NEW t, t = Append(q, u)
    PROVE  /\ Queues(t, W \union {u})
           /\ Len(q) \in Nat /\ Len(t) = Len(q) + 1 /\ t[Len(t)] = u
           /\ \A i \in 1..Len(q) : t[i] = q[i]
<1>1. q \in Seq(Updates) /\ Len(q) \in Nat
  BY DEF Queues
<1>2. t \in Seq(Updates) /\ Len(t) = Len(q) + 1 /\ t[Len(q) + 1] = u /\ \A i \in 1..Len(q) : t[i] = q[i]
  BY <1>1, AppendProperties
<1>3. \A i \in 1..Len(q) : q[i] # u
  BY DEF Queues
<1>4. \A i \in 1..Len(t) : i = Len(q) + 1 \/ i \in 1..Len(q)
  BY <1>1, <1>2
<1>5. \A i, j \in 1..Len(t) : t[i] = t[j] => i = j
  BY <1>2, <1>3, <1>4 DEF Queues
<1>6. ASSUME NEW v \in Updates
      PROVE  (\E i \in 1..Len(t) : t[i] = v) <=> v \in W \union {u}
  <2>1. ASSUME NEW i \in 1..Len(t), t[i] = v  PROVE v \in W \union {u}
    BY <2>1, <1>2, <1>4 DEF Queues
  <2>2. ASSUME v \in W  PROVE \E i \in 1..Len(t) : t[i] = v
    <3>1. PICK i \in 1..Len(q) : q[i] = v
      BY <2>2 DEF Queues
    <3> QED BY <3>1, <1>1, <1>2
  <2>3. ASSUME v = u  PROVE \E i \in 1..Len(t) : t[i] = v
    BY <2>3, <1>1, <1>2
  <2> QED BY <2>1, <2>2, <2>3
<1> QED BY <1>1, <1>2, <1>5, <1>6 DEF Queues

\* The first of a queue leaves the others in their order.
Leaves(q, W, t) ==
    /\ Queues(t, W \ {q[1]}) /\ q[1] \in Updates
    /\ Len(t) \in Nat /\ Len(q) = Len(t) + 1
    /\ \A i \in 1..Len(t) : t[i] = q[i + 1]

\* A queue that its first one leaves.
LEMMA Left ==
    ASSUME NEW q, NEW W, Queues(q, W), q # <<>>, NEW t, t = Tail(q)
    PROVE  Leaves(q, W, t)
<1>1. q \in Seq(Updates) /\ Len(q) \in Nat
  BY DEF Queues
<1>2. t \in Seq(Updates) /\ Len(t) \in Nat /\ Len(q) = Len(t) + 1 /\ \A i \in 1..Len(t) : t[i] = q[i + 1]
  BY <1>1, HeadTailProperties
<1>3. q[1] \in Updates
  BY <1>1, <1>2, ElementOfSeq
<1>4. \A i \in 1..Len(q) : i = 1 \/ (i - 1 \in 1..Len(t) /\ t[i - 1] = q[i])
  <2>1. ASSUME NEW i \in 1..Len(q), i # 1  PROVE i - 1 \in 1..Len(t) /\ t[i - 1] = q[(i - 1) + 1] /\ (i - 1) + 1 = i
    <3>1. i - 1 \in 1..Len(t) /\ (i - 1) + 1 = i
      BY <2>1, <1>2
    <3> QED BY <3>1, <1>2
  <2> QED BY <2>1
<1>5. \A i \in 1..Len(t) : i + 1 \in 1..Len(q) /\ i + 1 # 1 /\ 1 \in 1..Len(q)
  BY <1>2
<1>6. \A i, j \in 1..Len(t) : t[i] = t[j] => i = j
  <2>1. ASSUME NEW i \in 1..Len(t), NEW j \in 1..Len(t), t[i] = t[j]  PROVE i = j
    <3>1. i + 1 = j + 1
      BY <2>1, <1>2, <1>5 DEF Queues
    <3> QED BY <3>1
  <2> QED BY <2>1
<1>7. ASSUME NEW v \in Updates
      PROVE  (\E i \in 1..Len(t) : t[i] = v) <=> v \in W \ {q[1]}
  <2>1. ASSUME NEW i \in 1..Len(t), t[i] = v  PROVE v \in W \ {q[1]}
    <3>1. q[i + 1] = v /\ i + 1 \in 1..Len(q) /\ i + 1 # 1 /\ 1 \in 1..Len(q)
      BY <2>1, <1>2, <1>5
    <3> QED BY <3>1 DEF Queues
  <2>2. ASSUME v \in W \ {q[1]}  PROVE \E i \in 1..Len(t) : t[i] = v
    <3>1. PICK i \in 1..Len(q) : q[i] = v
      BY <2>2 DEF Queues
    <3> QED BY <3>1, <2>2, <1>4
  <2> QED BY <2>1, <2>2
<1> QED BY <1>2, <1>3, <1>6, <1>7 DEF Queues, Leaves

\* Whose turn it is leaves the queue from its head.
LEMMA Dequeues ==
    ASSUME QueueInv, NEW u \in Updates, Turn(u)
    PROVE  /\ Dequeued(u) = Tail(queue) /\ queue # <<>> /\ queue[1] = u
<1>1. queue \in Seq(Updates) /\ Len(queue) \in Nat /\ queue # <<>>
  BY DEF QueueInv, Queues, Turn
<1>2. queue[1] = u /\ 1 \in 1..Len(queue)
  <2>1. Len(queue) # 0
    BY <1>1, EmptySeq
  <2> QED BY <2>1, <1>1, HeadTailProperties DEF Turn
<1>3. PICK k : k = (CHOOSE i \in 1..Len(queue) : queue[i] = u)
  OBVIOUS
<1>4. Dequeued(u) = SubSeq(queue, 1, 0) \o SubSeq(queue, 2, Len(queue))
  <2>1. k = 1 /\ k - 1 = 0 /\ k + 1 = 2
    BY <1>2, <1>3 DEF QueueInv, Queues
  <2>2. Dequeued(u) = RemoveAt(queue, k)
    BY <1>3 DEF Dequeued
  <2>3. RemoveAt(queue, k) = SubSeq(queue, 1, k - 1) \o SubSeq(queue, k + 1, Len(queue))
    BY DEF RemoveAt
  <2> QED BY <2>1, <2>2, <2>3
<1>5. SubSeq(queue, 1, 0) = <<>> /\ SubSeq(queue, 2, Len(queue)) = Tail(queue)
  BY <1>1, <1>2
<1>6. Tail(queue) \in Seq(Updates)
  BY <1>1, HeadTailProperties
<1> QED BY <1>1, <1>2, <1>4, <1>5, <1>6, ConcatEmptySeq

-----------------------------------------------------------------------------
(* What each step does to its handler.                                     *)

Others(u) == \A v \in Updates \ {u} : h'[v] = h[v]

\* The handler of u is what its step makes of it.
LEMMA Becomes ==
    ASSUME IInv, NEW u \in Updates, NEW g, Step(u, g)
    PROVE  h'[u] = g /\ Others(u)
BY DEF Step, IInv, Shape, Others

\* The data of u's handler stay.
SameData(u) ==
    /\ h'[u].want = h[u].want /\ h'[u].snapshot = h[u].snapshot
    /\ h'[u].updated = h[u].updated /\ h'[u].host = h[u].host /\ h'[u].mark = h[u].mark

\* A handler that moves keeps its data.
LEMMA Went ==
    ASSUME IInv, NEW u \in Updates, NEW step, Goto(u, step)
    PROVE  Others(u) /\ h'[u].pc = step /\ SameData(u)
<1> DEFINE g == [h[u] EXCEPT !.pc = step]
<1>1. h[u] \in Handler
  BY DEF IInv, Shape
<1>2. /\ g.pc = step /\ g.want = h[u].want /\ g.snapshot = h[u].snapshot
      /\ g.updated = h[u].updated /\ g.host = h[u].host /\ g.mark = h[u].mark
  BY <1>1 DEF Handler
<1>3. Step(u, g)
  BY DEF Goto
<1> HIDE DEF g
<1> QED BY <1>2, <1>3, Becomes DEF SameData

\* A request starts from nothing.
LEMMA Requested ==
    ASSUME IInv, NEW u \in Updates, NEW p, Request(u, p)
    PROVE  /\ Others(u) /\ h[u].pc = "idle" /\ h'[u].pc = "read" /\ h'[u].want = p
           /\ h'[u].snapshot.preBind = None /\ h'[u].updated.preBind = None /\ h'[u].mark = None
<1> DEFINE g == [IdleHandler EXCEPT !.pc = "read", !.want = p]
<1>1. /\ g.pc = "read" /\ g.want = p
      /\ g.snapshot.preBind = None /\ g.updated.preBind = None /\ g.mark = None
  BY DEF IdleHandler
<1>2. Step(u, g) /\ h[u].pc = "idle"
  BY DEF Request
<1> HIDE DEF g
<1> QED BY <1>1, <1>2, Becomes

\* A read of the record takes a copy.
LEMMA Snapshot ==
    ASSUME IInv, NEW u \in Updates, NEW step,
           Step(u, [h[u] EXCEPT !.pc = step, !.snapshot = record])
    PROVE  /\ Others(u) /\ h'[u].pc = step /\ h'[u].snapshot = record
           /\ h'[u].want = h[u].want /\ h'[u].updated = h[u].updated
           /\ h'[u].host = h[u].host /\ h'[u].mark = h[u].mark
<1> DEFINE g == [h[u] EXCEPT !.pc = step, !.snapshot = record]
<1>1. h[u] \in Handler
  BY DEF IInv, Shape
<1>2. /\ g.pc = step /\ g.want = h[u].want /\ g.snapshot = record
      /\ g.updated = h[u].updated /\ g.host = h[u].host /\ g.mark = h[u].mark
  BY <1>1 DEF Handler
<1>3. Step(u, g)
  OBVIOUS
<1> HIDE DEF g
<1> QED BY <1>2, <1>3, Becomes

\* The first write keeps what was written.
LEMMA Wrote ==
    ASSUME IInv, NEW u \in Updates, NEW step,
           Step(u, [h[u] EXCEPT !.pc = step, !.updated = Patched(u)])
    PROVE  /\ Others(u) /\ h'[u].pc = step /\ h'[u].updated = Patched(u)
           /\ h'[u].want = h[u].want /\ h'[u].snapshot = h[u].snapshot
           /\ h'[u].host = h[u].host /\ h'[u].mark = h[u].mark
<1> DEFINE g == [h[u] EXCEPT !.pc = step, !.updated = Patched(u)]
<1>1. h[u] \in Handler
  BY DEF IInv, Shape
<1>2. /\ g.pc = step /\ g.want = h[u].want /\ g.snapshot = h[u].snapshot
      /\ g.updated = Patched(u) /\ g.host = h[u].host /\ g.mark = h[u].mark
  BY <1>1 DEF Handler
<1>3. Step(u, g)
  OBVIOUS
<1> HIDE DEF g
<1> QED BY <1>2, <1>3, Becomes

\* The decision to rewrite sets a host and a marker.
LEMMA Decided ==
    ASSUME IInv, NEW u \in Updates, NEW host, NEW mark,
           Step(u, [h[u] EXCEPT !.pc = "setUrl", !.host = host, !.mark = mark])
    PROVE  /\ Others(u) /\ h'[u].pc = "setUrl" /\ h'[u].host = host /\ h'[u].mark = mark
           /\ h'[u].want = h[u].want /\ h'[u].snapshot = h[u].snapshot
           /\ h'[u].updated = h[u].updated
<1> DEFINE g == [h[u] EXCEPT !.pc = "setUrl", !.host = host, !.mark = mark]
<1>1. h[u] \in Handler
  BY DEF IInv, Shape
<1>2. /\ g.pc = "setUrl" /\ g.want = h[u].want /\ g.snapshot = h[u].snapshot
      /\ g.updated = h[u].updated /\ g.host = host /\ g.mark = mark
  BY <1>1 DEF Handler
<1>3. Step(u, g)
  OBVIOUS
<1> HIDE DEF g
<1> QED BY <1>2, <1>3, Becomes

\* The decision to clear the marker sets that only.
LEMMA Unmarks ==
    ASSUME IInv, NEW u \in Updates, Step(u, [h[u] EXCEPT !.pc = "markRead", !.mark = None])
    PROVE  /\ Others(u) /\ h'[u].pc = "markRead" /\ h'[u].mark = None
           /\ h'[u].want = h[u].want /\ h'[u].snapshot = h[u].snapshot
           /\ h'[u].updated = h[u].updated /\ h'[u].host = h[u].host
<1> DEFINE g == [h[u] EXCEPT !.pc = "markRead", !.mark = None]
<1>1. h[u] \in Handler
  BY DEF IInv, Shape
<1>2. /\ g.pc = "markRead" /\ g.want = h[u].want /\ g.snapshot = h[u].snapshot
      /\ g.updated = h[u].updated /\ g.host = h[u].host /\ g.mark = None
  BY <1>1 DEF Handler
<1>3. Step(u, g)
  OBVIOUS
<1> HIDE DEF g
<1> QED BY <1>2, <1>3, Becomes

\* The four outcomes of reading the remotes, besides a failure.
ToRewrite(u) ==
    \/ /\ Binds(h[u].updated, config.host)
       /\ h'[u].host = h[u].updated.assigned
       /\ h'[u].mark = BindMark(h[u].updated, config.host)
    \/ /\ Restores(h[u].updated) /\ config.host \notin {None, Absent}
       /\ h'[u].host = h[u].updated.preBind /\ h'[u].mark = None

ToUnmark(u) == Restores(h[u].updated) /\ config.host = None /\ h'[u].mark = None

ToNothing(u) ==
    /\ ~ Binds(h[u].updated, config.host) /\ (~ Restores(h[u].updated) \/ config.host = Absent)
    /\ h'[u].mark = h[u].mark

\* What reading the remotes may lead to.
LEMMA RemotesRead ==
    ASSUME IInv, NEW u \in Updates, ReadRemotes(u)
    PROVE  /\ Others(u) /\ h[u].pc = "remotes"
           /\ h'[u].want = h[u].want /\ h'[u].snapshot = h[u].snapshot
           /\ h'[u].updated = h[u].updated
           /\ UNCHANGED <<record, config, original, last>>
           /\ \/ h'[u].pc = "setUrl" /\ queue' = Append(queue, u) /\ UNCHANGED disturbed /\ ToRewrite(u)
              \/ h'[u].pc = "markRead" /\ UNCHANGED <<queue, disturbed>> /\ ToUnmark(u)
              \/ h'[u].pc = "done" /\ UNCHANGED <<queue, disturbed>> /\ ToNothing(u)
              \/ h'[u].pc = "done" /\ UNCHANGED queue /\ disturbed' /\ h'[u].mark = h[u].mark
<1> DEFINE rec == h[u].updated
<1>1. UNCHANGED <<record, config, original, last>> /\ h[u].pc = "remotes"
  BY DEF ReadRemotes
<1>2. CASE /\ Binds(rec, config.host)
           /\ Step(u, [h[u] EXCEPT !.pc = "setUrl", !.host = rec.assigned,
                                   !.mark = BindMark(rec, config.host)])
           /\ queue' = Append(queue, u) /\ UNCHANGED disturbed
  <2>1. PICK mark : mark = BindMark(rec, config.host)
    OBVIOUS
  <2>2. Step(u, [h[u] EXCEPT !.pc = "setUrl", !.host = rec.assigned, !.mark = mark])
    BY <1>2, <2>1
  <2>3. /\ Others(u) /\ h'[u].pc = "setUrl" /\ h'[u].host = rec.assigned /\ h'[u].mark = mark
        /\ h'[u].want = h[u].want /\ h'[u].snapshot = h[u].snapshot
        /\ h'[u].updated = h[u].updated
    BY <2>2, Decided
  <2>4. ToRewrite(u)
    BY <1>2, <2>1, <2>3 DEF ToRewrite
  <2> QED BY <1>1, <1>2, <2>3, <2>4
<1>3. CASE /\ Restores(rec) /\ config.host \notin {None, Absent}
           /\ Step(u, [h[u] EXCEPT !.pc = "setUrl", !.host = rec.preBind, !.mark = None])
           /\ queue' = Append(queue, u) /\ UNCHANGED disturbed
  <2>1. /\ Others(u) /\ h'[u].pc = "setUrl" /\ h'[u].host = rec.preBind /\ h'[u].mark = None
        /\ h'[u].want = h[u].want /\ h'[u].snapshot = h[u].snapshot
        /\ h'[u].updated = h[u].updated
    BY <1>3, Decided
  <2>2. ToRewrite(u)
    BY <1>3, <2>1 DEF ToRewrite
  <2> QED BY <1>1, <1>3, <2>1, <2>2
<1>4. CASE /\ Restores(rec) /\ config.host = None
           /\ Step(u, [h[u] EXCEPT !.pc = "markRead", !.mark = None])
           /\ UNCHANGED <<queue, disturbed>>
  BY <1>1, <1>4, Unmarks DEF ToUnmark
<1>5. CASE /\ ~ Binds(rec, config.host) /\ (~ Restores(rec) \/ config.host = Absent)
           /\ Goto(u, "done") /\ UNCHANGED <<queue, disturbed>>
  BY <1>1, <1>5, Went DEF ToNothing, SameData
<1>6. CASE GiveUp(u, "done") /\ UNCHANGED queue
  BY <1>1, <1>6, Went DEF GiveUp, SameData
<1> QED BY <1>2, <1>3, <1>4, <1>5, <1>6 DEF ReadRemotes

-----------------------------------------------------------------------------
(* The queue holds the updates that wait for a git write.                  *)

Stays(u) == UNCHANGED queue /\ (h'[u].pc \in QueuedPcs <=> h[u].pc \in QueuedPcs)
Joins(u) == queue' = Append(queue, u) /\ h[u].pc \notin QueuedPcs /\ h'[u].pc \in QueuedPcs
Parts(u) == Turn(u) /\ queue' = Tail(queue) /\ h'[u].pc \notin QueuedPcs
Rejoins(u) == Turn(u) /\ queue' = Append(Tail(queue), u) /\ h'[u].pc \in QueuedPcs

Queueing(u) == Others(u) /\ (Stays(u) \/ Joins(u) \/ Parts(u) \/ Rejoins(u))

\* Each way of using the queue keeps its order.
LEMMA QueueStep ==
    ASSUME QueueInv, NEW u \in Updates, Queueing(u)
    PROVE  QueueInv'
<1>1. \A v \in Updates \ {u} : v \in Waiting' <=> v \in Waiting
  BY DEF Queueing, Others, Waiting
<1>2. Waiting \subseteq Updates /\ Waiting' \subseteq Updates
  BY DEF Waiting
<1>3. (u \in Waiting <=> h[u].pc \in QueuedPcs) /\ (u \in Waiting' <=> h'[u].pc \in QueuedPcs)
  BY DEF Waiting
<1>4. CASE Stays(u)
  <2>1. Waiting' = Waiting
    BY <1>1, <1>2, <1>3, <1>4 DEF Stays
  <2> QED BY <2>1, <1>4 DEF Stays, QueueInv
<1>5. CASE Joins(u)
  <2>1. Waiting' = Waiting \union {u} /\ u \in Updates \ Waiting
    BY <1>1, <1>2, <1>3, <1>5 DEF Joins
  <2>2. Queues(queue', Waiting \union {u})
    BY <2>1, <1>5, Entered DEF Joins, QueueInv
  <2> QED BY <2>1, <2>2 DEF QueueInv
<1>6. CASE Turn(u) /\ (Parts(u) \/ Rejoins(u))
  <2>1. queue # <<>> /\ queue[1] = u
    BY <1>6, Dequeues
  <2>2. PICK t : t = Tail(queue)
    OBVIOUS
  <2>3. Queues(t, Waiting \ {u})
    BY <2>1, <2>2, Left DEF QueueInv, Leaves
  <2>4. CASE Parts(u)
    <3>1. Waiting' = Waiting \ {u}
      BY <1>1, <1>2, <1>3, <2>4 DEF Parts
    <3> QED BY <3>1, <2>2, <2>3, <2>4 DEF Parts, QueueInv
  <2>5. CASE Rejoins(u)
    <3>1. Waiting' = (Waiting \ {u}) \union {u} /\ u \in Updates \ (Waiting \ {u})
      BY <1>1, <1>2, <1>3, <2>5 DEF Rejoins
    <3>2. Queues(queue', (Waiting \ {u}) \union {u})
      BY <3>1, <2>2, <2>3, <2>5, Entered DEF Rejoins
    <3> QED BY <3>1, <3>2 DEF QueueInv
  <2> QED BY <1>6, <2>4, <2>5
<1> QED BY <1>4, <1>5, <1>6 DEF Queueing, Parts, Rejoins

\* A step of the handler of u, once the request is there.
Handles(u) ==
    \/ ReadRecord(u) \/ WriteRecord(u) \/ WriteName(u) \/ WriteEmail(u) \/ ReadRemotes(u)
    \/ SetUrl(u) \/ ReadForMark(u) \/ WriteMark(u) \/ StoreFails(u)

\* What the identity depends on: the steps of a handler but its two writes, with
\* the write that a named profile still owes.
Aside(u) ==
    /\ Others(u) /\ (Stays(u) \/ Joins(u) \/ Parts(u))
    /\ h[u].pc # "email" /\ h'[u].pc # "email" /\ h'[u].want = h[u].want
    /\ config'.name = config.name /\ config'.email = config.email
    /\ last' = last
    /\ disturbed' \/ disturbed' = disturbed
    /\ ~ disturbed' /\ h[u].want \in Named /\ h[u].pc \in {"read", "write", "name"} =>
          h'[u].pc \in {"read", "write", "name"}

\* The steps that write no identity are Aside.
LEMMA AsideSteps ==
    ASSUME IInv, QueueInv, NEW u \in Updates,
           \/ ReadRecord(u) \/ WriteRecord(u) \/ ReadRemotes(u)
           \/ SetUrl(u) \/ ReadForMark(u) \/ WriteMark(u) \/ StoreFails(u)
    PROVE  Aside(u)
<1>0. config \in Config
  BY DEF IInv, Shape
<1>1. CASE ReadRecord(u) \/ ReadForMark(u)
  <2>1. PICK step \in {"write", "markWrite"} :
            Step(u, [h[u] EXCEPT !.pc = step, !.snapshot = record])
    BY <1>1 DEF ReadRecord, ReadForMark
  <2>2. /\ h[u].pc \in {"read", "markRead"} /\ (h[u].pc = "read" => step = "write")
        /\ UNCHANGED <<config, queue, last, disturbed>>
    <3>1. CASE ReadRecord(u)
      <4>1. Step(u, [h[u] EXCEPT !.pc = "write", !.snapshot = record])
        BY <3>1 DEF ReadRecord
      <4>2. h'[u].pc = "write"
        BY <4>1, Snapshot
      <4>3. h'[u].pc = step
        BY <2>1, Snapshot
      <4> QED BY <3>1, <4>2, <4>3 DEF ReadRecord
    <3>2. CASE ReadForMark(u)
      BY <3>2 DEF ReadForMark
    <3> QED BY <1>1, <3>1, <3>2
  <2>3. Others(u) /\ h'[u].pc = step /\ h'[u].want = h[u].want
    BY <2>1, Snapshot
  <2>4. Stays(u)
    BY <2>2, <2>3 DEF Stays, QueuedPcs
  <2>5. h[u].pc # "email" /\ h'[u].pc # "email"
    BY <2>2, <2>3
  <2> QED BY <2>2, <2>3, <2>4, <2>5 DEF Aside
<1>2. CASE WriteRecord(u)
  <2>1. CASE /\ h[u].want \in Named /\ queue' = Append(queue, u)
             /\ Step(u, [h[u] EXCEPT !.pc = "name", !.updated = Patched(u)])
    <3>1. Others(u) /\ h'[u].pc = "name" /\ h'[u].want = h[u].want
      BY <2>1, Wrote
    <3>2. Joins(u)
      BY <3>1, <2>1, <1>2 DEF Joins, QueuedPcs, WriteRecord
    <3> QED BY <3>1, <3>2, <1>2 DEF WriteRecord, Aside
  <2>2. CASE /\ h[u].want \notin Named /\ UNCHANGED queue
             /\ Step(u, [h[u] EXCEPT !.pc = "remotes", !.updated = Patched(u)])
    <3>1. Others(u) /\ h'[u].pc = "remotes" /\ h'[u].want = h[u].want
      BY <2>2, Wrote
    <3>2. Stays(u)
      BY <3>1, <2>2, <1>2 DEF Stays, QueuedPcs, WriteRecord
    <3> QED BY <3>1, <3>2, <2>2, <1>2 DEF WriteRecord, Aside
  <2> QED BY <1>2, <2>1, <2>2 DEF WriteRecord
<1>3. CASE ReadRemotes(u)
  BY <1>3, RemotesRead DEF Aside, Stays, Joins, QueuedPcs
<1>4. CASE SetUrl(u)
  <2>1. /\ h[u].pc = "setUrl" /\ Turn(u) /\ queue' = Tail(queue) /\ last' = last
        /\ disturbed' \/ disturbed' = disturbed
    BY <1>4, Dequeues DEF SetUrl, GiveUp
  <2>2. config'.name = config.name /\ config'.email = config.email
    BY <1>0, <1>4 DEF SetUrl, Config
  <2>3. Goto(u, "done") \/ Goto(u, "markRead")
    BY <1>4 DEF SetUrl, GiveUp
  <2>4. Others(u) /\ h'[u].pc \in {"done", "markRead"} /\ h'[u].want = h[u].want
    BY <2>3, Went DEF SameData
  <2> QED BY <2>1, <2>2, <2>4 DEF Aside, Parts, QueuedPcs
<1>5. CASE WriteMark(u)
  BY <1>5, Went DEF WriteMark, SameData, Aside, Stays, QueuedPcs
<1>6. CASE StoreFails(u)
  BY <1>6, Went DEF StoreFails, GiveUp, SameData, Aside, Stays, QueuedPcs
<1> QED BY <1>1, <1>2, <1>3, <1>4, <1>5, <1>6

\* The writes of the identity, done or failed.
LEMMA NameWritten ==
    ASSUME IInv, QueueInv, NEW u \in Updates, WriteName(u)
    PROVE  /\ Others(u) /\ SameData(u) /\ h[u].pc = "name" /\ Turn(u)
           /\ UNCHANGED <<record, original, last>>
           /\ config'.host = config.host /\ config'.email = config.email
           /\ \/ /\ config'.name = h[u].want /\ h'[u].pc = "email"
                 /\ queue' = Append(Tail(queue), u) /\ UNCHANGED disturbed
              \/ h'[u].pc = "remotes" /\ queue' = Tail(queue) /\ disturbed'
<1>1. config \in Config
  BY DEF IInv, Shape
<1>2. /\ h[u].pc = "name" /\ Turn(u) /\ UNCHANGED <<record, original, last>>
      /\ Dequeued(u) = Tail(queue)
  BY Dequeues DEF WriteName
<1>3. CASE /\ config' = [config EXCEPT !.name = h[u].want] /\ Goto(u, "email")
           /\ queue' = Append(Dequeued(u), u) /\ UNCHANGED disturbed
  <2>1. config'.name = h[u].want /\ config'.host = config.host /\ config'.email = config.email
    BY <1>1, <1>3 DEF Config
  <2> QED BY <2>1, <1>2, <1>3, Went
<1>4. CASE GiveUp(u, "remotes") /\ queue' = Dequeued(u) /\ UNCHANGED config
  BY <1>2, <1>4, Went DEF GiveUp
<1> QED BY <1>3, <1>4 DEF WriteName

\* The email's write, done or failed.
LEMMA EmailWritten ==
    ASSUME IInv, QueueInv, NEW u \in Updates, WriteEmail(u)
    PROVE  /\ Others(u) /\ SameData(u) /\ h[u].pc = "email" /\ Turn(u)
           /\ UNCHANGED <<record, original, last>>
           /\ config'.host = config.host /\ config'.name = config.name
           /\ h'[u].pc = "remotes" /\ queue' = Tail(queue)
           /\ disturbed' \/ (config'.email = h[u].want /\ UNCHANGED disturbed)
<1>1. config \in Config
  BY DEF IInv, Shape
<1>2. /\ h[u].pc = "email" /\ Turn(u) /\ UNCHANGED <<record, original, last>>
      /\ queue' = Tail(queue)
  BY Dequeues DEF WriteEmail
<1>3. CASE /\ config' = [config EXCEPT !.email = h[u].want] /\ Goto(u, "remotes")
           /\ UNCHANGED disturbed
  <2>1. config'.email = h[u].want /\ config'.host = config.host /\ config'.name = config.name
    BY <1>1, <1>3 DEF Config
  <2> QED BY <2>1, <1>2, <1>3, Went
<1>4. CASE GiveUp(u, "remotes") /\ UNCHANGED config
  BY <1>2, <1>4, Went DEF GiveUp
<1> QED BY <1>3, <1>4 DEF WriteEmail

\* Every step of a handler uses the queue in one of these ways.
LEMMA HandlesQueueing ==
    ASSUME IInv, QueueInv, NEW u \in Updates, Handles(u)
    PROVE  Queueing(u) /\ h'[u].want = h[u].want /\ last' = last
<1>1. CASE WriteName(u)
  BY <1>1, NameWritten DEF Queueing, Rejoins, Parts, QueuedPcs, SameData
<1>2. CASE WriteEmail(u)
  BY <1>2, EmailWritten DEF Queueing, Parts, QueuedPcs, SameData
<1>3. CASE Aside(u)
  BY <1>3 DEF Aside, Queueing
<1> QED BY <1>1, <1>2, <1>3, AsideSteps DEF Handles

-----------------------------------------------------------------------------
(* The identity ends as one profile's.                                     *)

\* v is the last update of E in the queue q.
LastIs(q, E, v) ==
    /\ v \in E
    /\ \E k \in 1..Len(q) : q[k] = v /\ \A j \in 1..Len(q) : q[j] \in E => j <= k

AtEmail == {u \in Updates : h[u].pc = "email"}

\* The name is that of the last email to come or, if none is to come, that of
\* the email.
Whole ==
    /\ \A v \in Updates : LastIs(queue, AtEmail, v) => config.name = h[v].want
    /\ AtEmail = {} => config.name = config.email

\* A handler of the profile asked for last has its name to write still.
Owing == \E u \in Updates : h[u].want = last /\ h[u].pc \in {"read", "write", "name"}

IdentityInv == ~ disturbed /\ last \in Named => Owing \/ Whole

\* Which update is the last of E does not change with the others around it.
LEMMA LastEntered ==
    ASSUME NEW q, NEW W, Queues(q, W), NEW u \in Updates \ W, NEW t, t = Append(q, u),
           NEW E, NEW v, LastIs(t, E, v)
    PROVE  IF u \in E THEN v = u ELSE LastIs(q, E, v)
<1>1. Len(q) \in Nat /\ Len(t) = Len(q) + 1 /\ t[Len(t)] = u /\ \A j \in 1..Len(q) : t[j] = q[j]
  BY Entered
<1>2. PICK i \in 1..Len(t) : t[i] = v /\ \A j \in 1..Len(t) : t[j] \in E => j <= i
  BY DEF LastIs
<1>3. i = Len(t) \/ (i \in 1..Len(q) /\ i < Len(t))
  BY <1>1, <1>2
<1>4. Len(t) \in 1..Len(t)
  BY <1>1
<1>5. CASE i = Len(t)
  BY <1>1, <1>2, <1>5 DEF LastIs
<1>6. CASE i \in 1..Len(q) /\ i < Len(t)
  <2>1. u \notin E
    BY <1>1, <1>2, <1>4, <1>6
  <2>2. \A j \in 1..Len(q) : j \in 1..Len(t)
    BY <1>1
  <2> QED BY <1>1, <1>2, <1>6, <2>1, <2>2 DEF LastIs
<1> QED BY <1>3, <1>5, <1>6

\* The last update stays the last when the first one leaves.
LEMMA LastLeft ==
    ASSUME NEW q, NEW W, Queues(q, W), q # <<>>, NEW t, t = Tail(q), NEW E,
           NEW v, LastIs(t, E \ {q[1]}, v)
    PROVE  LastIs(q, E, v)
<1>1. /\ Len(t) \in Nat /\ Len(q) = Len(t) + 1
      /\ \A j \in 1..Len(t) : t[j] = q[j + 1]
  <2>1. Leaves(q, W, t)
    BY Left
  <2> QED BY <2>1 DEF Leaves
<1>2. PICK i \in 1..Len(t) : t[i] = v /\ \A j \in 1..Len(t) : t[j] \in E \ {q[1]} => j <= i
  BY DEF LastIs
<1>3. i + 1 \in 1..Len(q) /\ v = q[i + 1] /\ v \in E
  BY <1>1, <1>2 DEF LastIs
<1>4. ASSUME NEW j \in 1..Len(q), q[j] \in E  PROVE j <= i + 1
  <2>1. CASE j = 1
    BY <2>1, <1>1, <1>2
  <2>2. CASE j # 1
    <3>1. j - 1 \in 1..Len(t) /\ (j - 1) + 1 = j /\ 1 \in 1..Len(q)
      BY <2>2, <1>1
    <3>2. t[j - 1] = q[j]
      BY <3>1, <1>1
    <3>3. q[j] # q[1]
      BY <2>2, <3>1 DEF Queues
    <3>4. j - 1 <= i
      BY <3>1, <3>2, <3>3, <1>2, <1>4
    <3> QED BY <3>4, <1>1, <1>2
  <2> QED BY <2>1, <2>2
<1> QED BY <1>3, <1>4 DEF LastIs

\* A step that is no write of the identity keeps Whole, and a name that is owed.
LEMMA AsideIdentity ==
    ASSUME QueueInv, IdentityInv, NEW u \in Updates, Aside(u)
    PROVE  IdentityInv'
<1> SUFFICES ASSUME ~ disturbed', last' \in Named  PROVE Owing' \/ Whole'
  BY DEF IdentityInv
<1>1. ~ disturbed /\ last \in Named /\ (Owing \/ Whole)
  BY DEF IdentityInv, Aside
<1>2. CASE Owing
  <2>1. PICK v \in Updates : h[v].want = last /\ h[v].pc \in {"read", "write", "name"}
    BY <1>2 DEF Owing
  <2>2. h'[v].want = last' /\ h'[v].pc \in {"read", "write", "name"}
    BY <2>1, <1>1 DEF Aside, Others
  <2> QED BY <2>2 DEF Owing
<1>3. CASE Whole
  <2>1. AtEmail' = AtEmail /\ u \notin AtEmail
    BY DEF AtEmail, Aside, Others
  <2>2. \A v \in Updates : h'[v].want = h[v].want
    BY DEF Aside, Others
  <2>3. ASSUME NEW v \in Updates, LastIs(queue', AtEmail, v)
        PROVE  LastIs(queue, AtEmail, v)
    <3>1. CASE Stays(u)
      BY <2>3, <3>1 DEF Stays
    <3>2. CASE Joins(u)
      <4>1. u \in Updates \ Waiting /\ Queues(queue, Waiting)
        BY <3>2 DEF Joins, Waiting, QueueInv
      <4> QED BY <2>1, <2>3, <3>2, <4>1, LastEntered DEF Joins
    <3>3. CASE Parts(u)
      <4>1. queue # <<>> /\ queue[1] = u /\ queue' = Tail(queue)
        BY <3>3, Dequeues DEF Parts
      <4>2. AtEmail \ {queue[1]} = AtEmail
        BY <2>1, <4>1
      <4>3. Queues(queue, Waiting) /\ LastIs(queue', AtEmail \ {queue[1]}, v)
        BY <2>3, <4>2 DEF QueueInv
      <4> QED BY <4>1, <4>3, LastLeft
    <3> QED BY <3>1, <3>2, <3>3 DEF Aside
  <2> QED BY <2>1, <2>2, <2>3, <1>3 DEF Whole, Aside
<1> QED BY <1>1, <1>2, <1>3

\* The handler that writes the name writes the last of the emails.
LEMMA NameIdentity ==
    ASSUME IInv, QueueInv, IdentityInv, NEW u \in Updates, WriteName(u)
    PROVE  IdentityInv'
<1> SUFFICES ASSUME ~ disturbed'  PROVE Whole'
  BY DEF IdentityInv
<1>1. /\ Others(u) /\ SameData(u) /\ h'[u].pc = "email" /\ Turn(u)
      /\ config'.name = h[u].want /\ queue' = Append(Tail(queue), u)
  BY NameWritten
<1>2. queue # <<>> /\ queue[1] = u
  BY <1>1, Dequeues
<1>3. PICK t : t = Tail(queue)
  OBVIOUS
<1>4. Queues(t, Waiting \ {u}) /\ u \in Updates \ (Waiting \ {u})
  BY <1>2, <1>3, Left DEF QueueInv, Leaves
<1>5. u \in AtEmail'
  BY <1>1 DEF AtEmail
<1>6. ASSUME NEW v \in Updates, LastIs(queue', AtEmail', v)
      PROVE  config'.name = h'[v].want
  <2>1. queue' = Append(t, u)
    BY <1>1, <1>3
  <2>2. v = u
    BY <2>1, <1>4, <1>5, <1>6, LastEntered
  <2> QED BY <2>2, <1>1 DEF SameData
<1> QED BY <1>5, <1>6 DEF Whole

\* The handler that writes the last email writes the profile of the name.
LEMMA EmailIdentity ==
    ASSUME IInv, QueueInv, IdentityInv, NEW u \in Updates, WriteEmail(u)
    PROVE  IdentityInv'
<1> SUFFICES ASSUME ~ disturbed', last' \in Named  PROVE Owing' \/ Whole'
  BY DEF IdentityInv
<1>1. /\ Others(u) /\ SameData(u) /\ h[u].pc = "email" /\ h'[u].pc = "remotes" /\ Turn(u)
      /\ queue' = Tail(queue) /\ config'.name = config.name /\ config'.email = h[u].want
      /\ last' = last /\ disturbed' = disturbed
  BY EmailWritten
<1>2. queue # <<>> /\ queue[1] = u
  BY <1>1, Dequeues
<1>3. AtEmail' = AtEmail \ {u} /\ u \in AtEmail
  BY <1>1 DEF AtEmail, Others
<1>4. \A v \in Updates : h'[v].want = h[v].want
  BY <1>1 DEF Others, SameData
<1>5. CASE Owing
  <2>1. PICK v \in Updates : h[v].want = last /\ h[v].pc \in {"read", "write", "name"}
    BY <1>5 DEF Owing
  <2>2. h'[v].want = last' /\ h'[v].pc \in {"read", "write", "name"}
    BY <2>1, <1>1 DEF Others
  <2> QED BY <2>2 DEF Owing
<1>6. CASE Whole
  <2>1. ASSUME NEW v \in Updates, LastIs(queue', AtEmail', v)
        PROVE  config'.name = h'[v].want
    <3>1. LastIs(queue', AtEmail \ {queue[1]}, v) /\ Queues(queue, Waiting)
      BY <2>1, <1>2, <1>3 DEF QueueInv
    <3>2. LastIs(queue, AtEmail, v)
      BY <3>1, <1>1, <1>2, LastLeft
    <3> QED BY <3>2, <1>1, <1>4, <1>6 DEF Whole
  <2>2. ASSUME AtEmail' = {}  PROVE config'.name = config'.email
    <3>1. AtEmail = {u}
      BY <2>2, <1>3
    <3>2. LastIs(queue, AtEmail, u)
      <4>1. Len(queue) \in Nat /\ 1 \in 1..Len(queue)
        BY <1>2, Left DEF QueueInv, Leaves
      <4>2. ASSUME NEW j \in 1..Len(queue), queue[j] \in AtEmail  PROVE j <= 1
        BY <4>1, <4>2, <3>1, <1>2 DEF QueueInv, Queues
      <4> QED BY <4>1, <4>2, <3>1, <1>2 DEF LastIs
    <3> QED BY <3>2, <1>1, <1>6 DEF Whole
  <2> QED BY <2>1, <2>2 DEF Whole
<1> QED BY <1>1, <1>5, <1>6 DEF IdentityInv

\* Initially nothing waits and no profile was asked for.
LEMMA InitIdentity == Init => QueueInv /\ IdentityInv
<1> SUFFICES ASSUME Init  PROVE QueueInv /\ IdentityInv
  OBVIOUS
<1>1. /\ queue = <<>> /\ last = None
      /\ \A u \in Updates : h[u].pc = "idle"
  BY DEF Init, IdleHandler
<1>2. queue \in Seq(Updates) /\ Len(queue) = 0
  BY <1>1, EmptySeq
<1>3. \A u \in Updates : u \notin Waiting
  BY <1>1 DEF Waiting, QueuedPcs
<1>4. QueueInv
  BY <1>2, <1>3 DEF QueueInv, Queues
<1>5. None \notin Named
  BY ProfilesAssumption, HostsAssumption
<1> QED BY <1>1, <1>4, <1>5 DEF IdentityInv

\* Requests, handlers and quitting keep the queue in order.
LEMMA NextQueue == IInv /\ QueueInv /\ [Next]_vars => QueueInv'
<1> SUFFICES ASSUME IInv, QueueInv, [Next]_vars  PROVE QueueInv'
  OBVIOUS
<1>1. ASSUME NEW u \in Updates, NEW p \in Profiles \union {None}, Request(u, p)
      PROVE  QueueInv'
  <2>1. Others(u) /\ h[u].pc = "idle" /\ h'[u].pc = "read" /\ queue' = queue
    BY <1>1, Requested DEF Request
  <2>2. Queueing(u)
    BY <2>1 DEF Queueing, Stays, QueuedPcs
  <2> QED BY <2>2, QueueStep
<1>2. ASSUME NEW u \in Updates, Handles(u)  PROVE QueueInv'
  BY <1>2, HandlesQueueing, QueueStep
<1>3. CASE Crash
  <2>1. ASSUME NEW u \in Updates  PROVE u \notin Waiting'
    <3>1. h[u] \in Handler
      BY DEF IInv, Shape
    <3>2. h'[u] = IF Running(u) THEN [h[u] EXCEPT !.pc = "done"] ELSE h[u]
      BY <1>3 DEF Crash
    <3>3. h'[u].pc \in {"idle", "done"}
      BY <3>1, <3>2 DEF Running, Handler
    <3> QED BY <3>3 DEF Waiting, QueuedPcs
  <2>2. queue' \in Seq(Updates) /\ Len(queue') = 0
    BY <1>3, EmptySeq DEF Crash
  <2> QED BY <2>1, <2>2 DEF QueueInv, Queues
<1>4. ASSUME NEW host \in {None, GitHub, Absent}, UserSetsOrigin(host)  PROVE QueueInv'
  BY <1>4 DEF UserSetsOrigin, QueueInv, Queues, Waiting
<1>5. CASE UNCHANGED vars
  BY <1>5 DEF vars, QueueInv, Queues, Waiting
<1> QED BY <1>1, <1>2, <1>3, <1>4, <1>5 DEF Next, Handles

\* Every step keeps IdentityInv.
LEMMA NextIdentity == IInv /\ QueueInv /\ IdentityInv /\ [Next]_vars => IdentityInv'
<1> SUFFICES ASSUME IInv, QueueInv, IdentityInv, [Next]_vars  PROVE IdentityInv'
  OBVIOUS
<1>1. ASSUME NEW u \in Updates, NEW p \in Profiles \union {None}, Request(u, p)
      PROVE  IdentityInv'
  <2>1. h'[u].pc = "read" /\ h'[u].want = p /\ last' = p
    BY <1>1, Requested DEF Request
  <2> QED BY <2>1 DEF Owing, IdentityInv
<1>2. ASSUME NEW u \in Updates, Handles(u)  PROVE IdentityInv'
  BY <1>2, AsideSteps, AsideIdentity, NameIdentity, EmailIdentity DEF Handles
<1>3. CASE Crash
  BY <1>3 DEF Crash, IdentityInv
<1>4. ASSUME NEW host \in {None, GitHub, Absent}, UserSetsOrigin(host)  PROVE IdentityInv'
  BY <1>4 DEF UserSetsOrigin, IdentityInv
<1>5. CASE UNCHANGED vars
  BY <1>5 DEF vars, IdentityInv, Owing, Whole, LastIs, AtEmail
<1> QED BY <1>1, <1>2, <1>3, <1>4, <1>5 DEF Next, Handles

(* The name and the email are written apart, and handlers overlap; unless a*)
(* write fails after the last request, which names a profile with an       *)
(* identity, they end as those of one profile (setLocalIdentity): emails   *)
(* are queued in the order in which the names were written.                *)
THEOREM IdentityCorrect == Spec => []IdentityIsWhole
<1>1. Init => IInv /\ QueueInv /\ IdentityInv
  BY InitIInv, InitIdentity
<1>2. IInv /\ QueueInv /\ IdentityInv /\ [Next]_vars => (IInv /\ QueueInv /\ IdentityInv)'
  BY NextIInv, NextQueue, NextIdentity
<1>3. IInv /\ QueueInv /\ IdentityInv => IdentityIsWhole
  <2> SUFFICES ASSUME IdentityInv, Rest, ~ disturbed, last \in Named
               PROVE  config.name = config.email
    BY DEF IdentityIsWhole
  <2>1. \A u \in Updates : h[u].pc \in {"idle", "done"}
    BY DEF Rest, Running
  <2>2. ~ Owing /\ AtEmail = {}
    BY <2>1 DEF Owing, AtEmail
  <2> QED BY <2>2 DEF IdentityInv, Whole
<1> QED BY <1>1, <1>2, <1>3, PTL DEF Spec

-----------------------------------------------------------------------------
(* What the markers and the hosts can be, and the types.                   *)

Marks == {None, GitHub}

\* A marker is GitHub's host, and only an alias or GitHub's host is written.
MarkedHandler(g) ==
    /\ g.snapshot.preBind \in Marks /\ g.updated.preBind \in Marks /\ g.mark \in Marks
    /\ g.pc = "setUrl" => g.host \in Aliased \union {GitHub}

MarksInv == record.preBind \in Marks /\ \A u \in Updates : MarkedHandler(h[u])

\* The origin is HTTPS, or gone, just when the user made it so.
HostsInv == \A host \in {None, Absent} : original = host <=> config.host = host

LastInv == last \in Profiles \union {None} /\ disturbed \in BOOLEAN

TypeInv == IInv /\ QueueInv /\ MarksInv /\ HostsInv /\ LastInv

\* A handler whose markers are right, and a record, leave the others as they were.
LEMMA MarksStep ==
    ASSUME MarksInv, NEW u \in Updates, Others(u), MarkedHandler(h'[u]), record'.preBind \in Marks
    PROVE  MarksInv'
BY DEF MarksInv, Others

\* No step of a handler makes another marker.
LEMMA MarksHandled ==
    ASSUME IInv, MarksInv, NEW u \in Updates, Handles(u)
    PROVE  MarksInv'
<1>0. /\ MarkedHandler(h[u]) /\ record.preBind \in Marks
      /\ record \in Records /\ h[u].snapshot \in Records /\ h[u].updated \in Records
  BY Before DEF MarksInv, Allowed
<1>1. CASE ReadRecord(u) \/ ReadForMark(u)
  <2>1. PICK step \in {"write", "markWrite"} :
            Step(u, [h[u] EXCEPT !.pc = step, !.snapshot = record])
    BY <1>1 DEF ReadRecord, ReadForMark
  <2>2. record' = record
    BY <1>1 DEF ReadRecord, ReadForMark
  <2>3. Others(u) /\ MarkedHandler(h'[u])
    BY <2>1, <1>0, Snapshot DEF MarkedHandler
  <2> QED BY <2>2, <2>3, <1>0, MarksStep
<1>2. CASE WriteRecord(u)
  <2>1. PICK step \in {"name", "remotes"} :
            Step(u, [h[u] EXCEPT !.pc = step, !.updated = Patched(u)])
    BY <1>2 DEF WriteRecord
  <2>2. record' = Patched(u) /\ Patched(u).preBind = h[u].snapshot.preBind
    BY <1>2, PatchedKeeps DEF WriteRecord
  <2>3. Others(u) /\ MarkedHandler(h'[u])
    BY <2>1, <2>2, <1>0, Wrote DEF MarkedHandler
  <2> QED BY <2>2, <2>3, <1>0, MarksStep DEF MarkedHandler
<1>3. CASE ReadRemotes(u)
  <2>1. /\ Others(u) /\ record' = record
        /\ h'[u].snapshot = h[u].snapshot /\ h'[u].updated = h[u].updated
        /\ \/ h'[u].pc = "setUrl" /\ ToRewrite(u)
           \/ h'[u].pc # "setUrl" /\ h'[u].mark \in Marks
    BY <1>0, <1>3, RemotesRead DEF ToUnmark, ToNothing, MarkedHandler, Marks
  <2>2. CASE ToRewrite(u)
    BY <2>1, <2>2, <1>0, MarksStep
       DEF ToRewrite, Binds, BindMark, Restores, MarkedHandler, Marks
  <2>3. CASE h'[u].pc # "setUrl" /\ h'[u].mark \in Marks
    BY <2>1, <2>3, <1>0, MarksStep DEF MarkedHandler
  <2> QED BY <2>1, <2>2, <2>3
<1>4. CASE WriteMark(u)
  <2>1. record'.preBind = h[u].mark
    BY <1>0, <1>4 DEF WriteMark, Records
  <2>2. Others(u) /\ MarkedHandler(h'[u])
    BY <1>0, <1>4, Went DEF WriteMark, MarkedHandler, SameData
  <2> QED BY <2>1, <2>2, <1>0, MarksStep DEF MarkedHandler
<1>5. CASE WriteName(u) \/ WriteEmail(u) \/ SetUrl(u) \/ StoreFails(u)
  <2>1. PICK step \in Pcs \ {"setUrl"} : Goto(u, step)
    BY <1>5 DEF WriteName, WriteEmail, SetUrl, StoreFails, GiveUp, Pcs
  <2>2. record' = record
    BY <1>5 DEF WriteName, WriteEmail, SetUrl, StoreFails
  <2>3. Others(u) /\ MarkedHandler(h'[u])
    BY <2>1, <1>0, Went DEF MarkedHandler, SameData
  <2> QED BY <2>2, <2>3, <1>0, MarksStep
<1> QED BY <1>1, <1>2, <1>3, <1>4, <1>5 DEF Handles

\* No step of a handler makes an HTTPS origin, or one that is gone.
LEMMA HostsHandled ==
    ASSUME IInv, MarksInv, HostsInv, QueueInv, NEW u \in Updates, Handles(u)
    PROVE  HostsInv'
<1>1. CASE SetUrl(u)
  <2>1. original = GitHub /\ original' = original /\ h[u].pc = "setUrl"
    BY <1>1, Before DEF SetUrl, Allowed
  <2>2. config'.host = config.host \/ config'.host = h[u].host
    BY <1>1, Before DEF SetUrl, Allowed, Config
  <2>3. h[u].host \notin {None, Absent}
    BY <2>1, ProfilesAssumption, HostsAssumption DEF MarksInv, MarkedHandler
  <2> QED BY <2>1, <2>2, <2>3, HostsAssumption DEF HostsInv
<1>2. CASE WriteName(u)
  BY <1>2, NameWritten DEF HostsInv
<1>3. CASE WriteEmail(u)
  BY <1>3, EmailWritten DEF HostsInv
<1>4. CASE ReadRecord(u) \/ WriteRecord(u) \/ ReadRemotes(u) \/ ReadForMark(u) \/ WriteMark(u) \/ StoreFails(u)
  <2>1. UNCHANGED <<original, config>>
    BY <1>4 DEF ReadRecord, WriteRecord, ReadRemotes, ReadForMark, WriteMark, StoreFails
  <2> QED BY <2>1 DEF HostsInv
<1> QED BY <1>1, <1>2, <1>3, <1>4 DEF Handles

\* No step of a handler changes the profile asked for.
LEMMA LastHandled ==
    ASSUME LastInv, IInv, QueueInv, NEW u \in Updates, Handles(u)
    PROVE  LastInv'
<1>1. last' = last
  BY HandlesQueueing
<1>2. disturbed' = TRUE \/ disturbed' = disturbed
  BY DEF Handles, ReadRecord, WriteRecord, WriteName, WriteEmail, ReadRemotes, SetUrl,
         ReadForMark, WriteMark, StoreFails, GiveUp
<1> QED BY <1>1, <1>2 DEF LastInv

\* The invariant of the types holds initially.
LEMMA InitTypeInv == Init => TypeInv
<1> SUFFICES ASSUME Init  PROVE TypeInv
  OBVIOUS
<1>1. MarksInv /\ HostsInv /\ LastInv
  BY DEF Init, IdleHandler, MarksInv, MarkedHandler, Marks, HostsInv, LastInv
<1> QED BY <1>1, InitIInv, InitIdentity DEF TypeInv

\* Every step keeps it.
LEMMA NextTypeInv == TypeInv /\ [Next]_vars => TypeInv'
<1> SUFFICES ASSUME TypeInv, [Next]_vars  PROVE MarksInv' /\ HostsInv' /\ LastInv'
  BY NextIInv, NextQueue DEF TypeInv
<1>0. IInv /\ QueueInv /\ MarksInv /\ HostsInv /\ LastInv
  BY DEF TypeInv
<1>1. ASSUME NEW u \in Updates, NEW p \in Profiles \union {None}, Request(u, p)
      PROVE  MarksInv' /\ HostsInv' /\ LastInv'
  <2>1. /\ Others(u) /\ h[u].pc = "idle" /\ h'[u].pc = "read" /\ last' = p
        /\ h'[u].snapshot.preBind = None /\ h'[u].updated.preBind = None /\ h'[u].mark = None
    BY <1>0, <1>1, Requested DEF Request
  <2>2. UNCHANGED <<record, config, original, queue>> /\ disturbed' = FALSE
    BY <1>1 DEF Request
  <2>3. MarksInv'
    BY <2>1, <2>2, <1>0, MarksStep DEF MarkedHandler, Marks, MarksInv
  <2> QED BY <2>1, <2>2, <2>3, <1>0 DEF HostsInv, LastInv
<1>2. ASSUME NEW u \in Updates, Handles(u)
      PROVE  MarksInv' /\ HostsInv' /\ LastInv'
  BY <1>0, <1>2, MarksHandled, HostsHandled, LastHandled
<1>3. CASE Crash
  <2>1. UNCHANGED <<record, config, original, last>> /\ disturbed' = TRUE
    BY <1>3 DEF Crash
  <2>2. ASSUME NEW u \in Updates  PROVE MarkedHandler(h'[u])
    <3>1. h[u] \in Handler /\ MarkedHandler(h[u])
      BY <1>0 DEF IInv, Shape, MarksInv
    <3>2. h'[u] = IF Running(u) THEN [h[u] EXCEPT !.pc = "done"] ELSE h[u]
      BY <1>3 DEF Crash
    <3>3. /\ h'[u].pc \in {"idle", "done"} /\ h'[u].snapshot = h[u].snapshot
          /\ h'[u].updated = h[u].updated /\ h'[u].mark = h[u].mark
      BY <3>1, <3>2 DEF Running, Handler
    <3> QED BY <3>1, <3>3 DEF MarkedHandler
  <2> QED BY <2>1, <2>2, <1>0 DEF MarksInv, HostsInv, LastInv
<1>4. ASSUME NEW host \in {None, GitHub, Absent}, UserSetsOrigin(host)
      PROVE  MarksInv' /\ HostsInv' /\ LastInv'
  <2>1. /\ original' = host /\ config' = [config EXCEPT !.host = host] /\ disturbed' = TRUE
        /\ UNCHANGED <<record, h, last>>
    BY <1>4 DEF UserSetsOrigin
  <2>2. config'.host = host
    BY <2>1, <1>0 DEF IInv, Shape, Config
  <2> QED BY <2>1, <2>2, <1>0 DEF MarksInv, HostsInv, LastInv
<1>5. CASE UNCHANGED vars
  BY <1>0, <1>5 DEF vars, MarksInv, HostsInv, LastInv
<1> QED BY <1>1, <1>2, <1>3, <1>4, <1>5 DEF Next, Handles

\* The invariant types every variable.
LEMMA Typed == TypeInv => TypeOK
<1> SUFFICES ASSUME TypeInv  PROVE TypeOK
  OBVIOUS
<1>1. \A u \in Updates : (\E i \in 1..Len(queue) : queue[i] = u) <=> h[u].pc \in QueuedPcs
  BY DEF TypeInv, QueueInv, Queues, Waiting
<1>2. queue \in Seq(Updates) /\ \A i, j \in 1..Len(queue) : queue[i] = queue[j] => i = j
  BY DEF TypeInv, QueueInv, Queues
<1>3. HostsInv /\ LastInv /\ Shape
  BY DEF TypeInv, IInv
<1> QED BY <1>1, <1>2, <1>3 DEF TypeOK, Shape, HostsInv, LastInv, Config, Handler

-----------------------------------------------------------------------------
(* Requests that come in turn.                                             *)

\* The host that an origin is to have once p is assigned.
Governed(p) == IF p \in Aliased /\ original = GitHub THEN p ELSE original

\* The origin has the user's host, or is bound and has a marker to restore it.
Settled ==
    \/ config.host = original
    \/ config.host \in Aliased /\ original = GitHub /\ record.preBind = GitHub

\* What the one handler that runs has made true, and is about to write.
InTurn(u) ==
    /\ h[u].want = last
    /\ h[u].pc \in {"write", "markWrite"} => h[u].snapshot = record
    /\ h[u].pc \notin {"read", "write"} => h[u].updated = record /\ record.assigned = last
    /\ h[u].pc \notin {"markRead", "markWrite"} => Settled
    /\ h[u].pc = "setUrl" =>
          /\ original = GitHub /\ h[u].host = Governed(last)
          /\ h[u].mark = IF last \in Aliased THEN GitHub ELSE None
    /\ h[u].pc \in {"markRead", "markWrite"} =>
          config.host = Governed(last) /\ (last \in Aliased => h[u].mark = GitHub)
    /\ ~ disturbed /\ last \in Named =>
          /\ h[u].pc = "email" => config.name = last
          /\ h[u].pc \in {"remotes", "setUrl", "markRead", "markWrite"} =>
                config.name = last /\ config.email = last

\* The profile asked for last has what it is to have.
Governs ==
    ~ disturbed =>
        /\ last \in Named => config.name = last /\ config.email = last
        /\ config.host = Governed(last)

AtRest == Settled /\ last = record.assigned /\ Governs

ApartInv ==
    apart => OneAtATime /\ (Rest => AtRest) /\ \A u \in Updates : Running(u) => InTurn(u)

\* A step of the handler that runs has to show what holds of it, or at rest.
LEMMA ApartStep ==
    ASSUME ApartInv, apart, NEW u \in Updates, Running(u) \/ Rest, Others(u),
           Running(u)' => InTurn(u)', ~ Running(u)' => AtRest'
    PROVE  ApartInv'
<1>1. \A v \in Updates \ {u} : ~ Running(v)
  BY DEF ApartInv, OneAtATime, Rest
<1>2. \A v \in Updates \ {u} : ~ Running(v)'
  BY <1>1 DEF Running, Others
<1>3. OneAtATime'
  BY <1>2 DEF OneAtATime
<1>4. Rest' => ~ Running(u)'
  BY DEF Rest
<1> QED BY <1>2, <1>3, <1>4 DEF ApartInv

\* Initially the origin is the user's and no profile governs.
LEMMA InitApart == MCInit => ApartInv
<1> SUFFICES ASSUME MCInit  PROVE ApartInv
  OBVIOUS
<1>1. \A u \in Updates : h[u].pc = "idle"
  BY DEF MCInit, Init, IdleHandler
<1>2. config.host = original /\ last = None /\ record.assigned = None
  BY DEF MCInit, Init
<1>3. None \notin Named /\ None \notin Aliased
  BY ProfilesAssumption, HostsAssumption
<1>4. AtRest
  BY <1>2, <1>3 DEF AtRest, Settled, Governs, Governed
<1> QED BY <1>1, <1>4 DEF ApartInv, OneAtATime, Running

\* A request comes when nothing runs.
LEMMA ApartRequest ==
    ASSUME TypeInv, ApartInv, apart, OneAtATime', NEW u \in Updates,
           NEW p \in Profiles \union {None}, Request(u, p)
    PROVE  ApartInv'
<1>1. /\ Others(u) /\ h[u].pc = "idle" /\ h'[u].pc = "read" /\ h'[u].want = p /\ last' = p
      /\ UNCHANGED <<record, config, original>>
  BY Requested DEF Request, TypeInv
<1>2. Rest
  <2>1. ASSUME NEW v \in Updates, Running(v)  PROVE FALSE
    <3>1. v # u /\ h'[v] = h[v]
      BY <2>1, <1>1 DEF Running, Others
    <3>2. Running(v)' /\ Running(u)'
      BY <3>1, <2>1, <1>1 DEF Running
    <3> QED BY <3>1, <3>2 DEF OneAtATime
  <2> QED BY <2>1 DEF Rest
<1>3. Settled
  BY <1>2 DEF ApartInv, AtRest
<1>4. InTurn(u)' /\ Running(u)'
  BY <1>1, <1>3 DEF InTurn, Settled, Running
<1> QED BY <1>1, <1>2, <1>4, ApartStep

\* The record of the one handler that runs is the one it read.
LEMMA ApartReads ==
    ASSUME TypeInv, ApartInv, apart, NEW u \in Updates, ReadRecord(u) \/ ReadForMark(u)
    PROVE  ApartInv'
<1>0. IInv
  BY DEF TypeInv
<1>1. UNCHANGED <<record, config, original, last, disturbed>>
  BY DEF ReadRecord, ReadForMark
<1>2. InTurn(u) /\ Running(u)
  BY DEF ApartInv, ReadRecord, ReadForMark, Running
<1>3. CASE ReadRecord(u)
  <2>1. Step(u, [h[u] EXCEPT !.pc = "write", !.snapshot = record]) /\ h[u].pc = "read"
    BY <1>3 DEF ReadRecord
  <2>2. Others(u) /\ h'[u].pc = "write" /\ h'[u].snapshot = record /\ h'[u].want = h[u].want
    BY <1>0, <2>1, Snapshot
  <2>3. InTurn(u)' /\ Running(u)'
    BY <1>1, <1>2, <2>1, <2>2 DEF InTurn, Settled, Running
  <2> QED BY <1>2, <2>2, <2>3, ApartStep
<1>4. CASE ReadForMark(u)
  <2>1. Step(u, [h[u] EXCEPT !.pc = "markWrite", !.snapshot = record]) /\ h[u].pc = "markRead"
    BY <1>4 DEF ReadForMark
  <2>2. /\ Others(u) /\ h'[u].pc = "markWrite" /\ h'[u].snapshot = record
        /\ h'[u].want = h[u].want /\ h'[u].updated = h[u].updated /\ h'[u].mark = h[u].mark
    BY <1>0, <2>1, Snapshot
  <2>3. InTurn(u)' /\ Running(u)'
    BY <1>1, <1>2, <2>1, <2>2 DEF InTurn, Settled, Governed, Running
  <2> QED BY <1>2, <2>2, <2>3, ApartStep
<1> QED BY <1>3, <1>4

\* The write of the record makes the profile asked for the assigned one.
LEMMA ApartWrites ==
    ASSUME TypeInv, ApartInv, apart, NEW u \in Updates, WriteRecord(u)
    PROVE  ApartInv'
<1>0. IInv
  BY DEF TypeInv
<1>1. UNCHANGED <<config, original, last, disturbed>> /\ record' = Patched(u) /\ h[u].pc = "write"
  BY DEF WriteRecord
<1>2. InTurn(u) /\ Running(u)
  BY <1>1 DEF ApartInv, Running
<1>3. h[u].snapshot = record /\ h[u].want = last /\ Settled
  BY <1>1, <1>2 DEF InTurn
<1>4. record'.assigned = last /\ record'.preBind = record.preBind
  BY <1>0, <1>1, <1>3 DEF Patched, IInv, Shape, Records
<1>5. PICK step \in {"name", "remotes"} :
          /\ step = "remotes" => h[u].want \notin Named
          /\ Step(u, [h[u] EXCEPT !.pc = step, !.updated = Patched(u)])
  BY DEF WriteRecord
<1>6. Others(u) /\ h'[u].pc = step /\ h'[u].updated = record' /\ h'[u].want = h[u].want
  BY <1>0, <1>1, <1>5, Wrote
<1>7. InTurn(u)'
  BY <1>1, <1>3, <1>4, <1>5, <1>6 DEF InTurn, Settled
<1>8. Running(u)'
  BY <1>5, <1>6 DEF Running
<1> QED BY <1>2, <1>6, <1>7, <1>8, ApartStep

\* The identity becomes the profile's.
LEMMA ApartIdentity ==
    ASSUME TypeInv, ApartInv, apart, NEW u \in Updates, WriteName(u) \/ WriteEmail(u)
    PROVE  ApartInv'
<1>0. IInv /\ QueueInv
  BY DEF TypeInv
<1>1. CASE WriteName(u)
  <2>1. /\ Others(u) /\ SameData(u) /\ h[u].pc = "name"
        /\ UNCHANGED <<record, original, last>> /\ config'.host = config.host
        /\ \/ config'.name = h[u].want /\ h'[u].pc = "email"
           \/ h'[u].pc = "remotes" /\ disturbed'
    BY <1>0, <1>1, NameWritten
  <2>2. InTurn(u) /\ Running(u)
    BY <2>1 DEF ApartInv, Running
  <2>3. InTurn(u)' /\ Running(u)'
    BY <2>1, <2>2 DEF InTurn, Settled, SameData, Running
  <2> QED BY <2>1, <2>2, <2>3, ApartStep
<1>2. CASE WriteEmail(u)
  <2>1. /\ Others(u) /\ SameData(u) /\ h[u].pc = "email" /\ h'[u].pc = "remotes"
        /\ UNCHANGED <<record, original, last>>
        /\ config'.host = config.host /\ config'.name = config.name
        /\ disturbed' \/ (config'.email = h[u].want /\ disturbed' = disturbed)
    BY <1>0, <1>2, EmailWritten
  <2>2. InTurn(u) /\ Running(u)
    BY <2>1 DEF ApartInv, Running
  <2>3. InTurn(u)' /\ Running(u)'
    BY <2>1, <2>2 DEF InTurn, Settled, SameData, Running
  <2> QED BY <2>1, <2>2, <2>3, ApartStep
<1> QED BY <1>1, <1>2

\* The decision: bind, restore, forget the marker, or leave an origin that is
\* as it is to be.
LEMMA ApartDecision ==
    ASSUME TypeInv, ApartInv, apart, NEW u \in Updates, ReadRemotes(u)
    PROVE  ApartInv'
<1>0. IInv /\ MarksInv /\ HostsInv
  BY DEF TypeInv
<1>1. /\ Others(u) /\ h[u].pc = "remotes"
      /\ h'[u].want = h[u].want /\ h'[u].updated = h[u].updated
      /\ UNCHANGED <<record, config, original, last>>
      /\ \/ h'[u].pc = "setUrl" /\ UNCHANGED disturbed /\ ToRewrite(u)
         \/ h'[u].pc = "markRead" /\ UNCHANGED disturbed /\ ToUnmark(u)
         \/ h'[u].pc = "done" /\ UNCHANGED disturbed /\ ToNothing(u)
         \/ h'[u].pc = "done" /\ disturbed'
  BY <1>0, RemotesRead
<1>2. InTurn(u) /\ Running(u)
  BY <1>1 DEF ApartInv, Running
<1>3. /\ h[u].want = last /\ h[u].updated = record /\ record.assigned = last /\ Settled
      /\ ~ disturbed /\ last \in Named => config.name = last /\ config.email = last
  BY <1>1, <1>2 DEF InTurn
<1>4. record.preBind \in Marks
  BY <1>0 DEF MarksInv
<1>5. Aliased \cap {None, GitHub, Elsewhere, Absent} = {}
  BY ProfilesAssumption, HostsAssumption
<1>6. original \in {None, GitHub, Elsewhere, Absent}
  BY <1>0 DEF IInv, Shape, Hosts
<1>7. original = Elsewhere => record.preBind = None
  BY <1>0 DEF IInv, Unmarked, UnmarkedRecord
<1>8. CASE h'[u].pc = "setUrl" /\ UNCHANGED disturbed /\ ToRewrite(u)
  <2>1. original = GitHub
    BY <1>3, <1>4, <1>5, <1>6, <1>7, <1>8, HostsAssumption
       DEF ToRewrite, Binds, Restores, Settled, Marks
  <2>2. h'[u].host = Governed(last) /\ h'[u].mark = IF last \in Aliased THEN GitHub ELSE None
    BY <2>1, <1>3, <1>4, <1>8 DEF ToRewrite, Binds, BindMark, Restores, Governed, Marks
  <2>3. InTurn(u)' /\ Running(u)'
    BY <1>1, <1>3, <1>8, <2>1, <2>2 DEF InTurn, Settled, Governed, Running
  <2> QED BY <1>1, <1>2, <2>3, ApartStep
<1>9. CASE h'[u].pc = "markRead" /\ UNCHANGED disturbed /\ ToUnmark(u)
  <2>1. last \notin Aliased /\ config.host = original
    BY <1>3, <1>5, <1>9 DEF ToUnmark, Restores, Settled
  <2>2. InTurn(u)' /\ Running(u)'
    BY <1>1, <1>3, <1>9, <2>1 DEF InTurn, Settled, Governed, Running
  <2> QED BY <1>1, <1>2, <2>2, ApartStep
<1>10. CASE h'[u].pc = "done" /\ UNCHANGED disturbed /\ ToNothing(u)
  <2>1. config.host = Governed(last)
    BY <1>3, <1>4, <1>5, <1>6, <1>10, HostsAssumption
       DEF ToNothing, Binds, Restores, Settled, Governed, Marks
  <2>2. AtRest' /\ ~ Running(u)'
    BY <1>1, <1>3, <1>10, <2>1 DEF AtRest, Settled, Governs, Governed, Running
  <2> QED BY <1>1, <1>2, <2>2, ApartStep
<1>11. CASE h'[u].pc = "done" /\ disturbed'
  <2>1. AtRest' /\ ~ Running(u)'
    BY <1>1, <1>3, <1>11 DEF AtRest, Settled, Governs, Running
  <2> QED BY <1>1, <1>2, <2>1, ApartStep
<1> QED BY <1>1, <1>8, <1>9, <1>10, <1>11

\* The rewrite gives the origin the host it is to have.
LEMMA ApartRewrite ==
    ASSUME TypeInv, ApartInv, apart, NEW u \in Updates, SetUrl(u)
    PROVE  ApartInv'
<1>0. IInv /\ QueueInv
  BY DEF TypeInv
<1>1. h[u].pc = "setUrl" /\ UNCHANGED <<record, original, last>>
  BY DEF SetUrl
<1>2. InTurn(u) /\ Running(u)
  BY <1>1 DEF ApartInv, Running
<1>3. /\ h[u].want = last /\ h[u].updated = record /\ record.assigned = last /\ Settled
      /\ original = GitHub /\ h[u].host = Governed(last)
      /\ h[u].mark = IF last \in Aliased THEN GitHub ELSE None
      /\ ~ disturbed /\ last \in Named => config.name = last /\ config.email = last
  BY <1>1, <1>2 DEF InTurn
<1>4. CASE /\ config' = [config EXCEPT !.host = h[u].host] /\ UNCHANGED disturbed
           /\ Goto(u, IF h[u].updated.preBind = h[u].mark THEN "done" ELSE "markRead")
  <2>1. config'.host = Governed(last) /\ config'.name = config.name /\ config'.email = config.email
    BY <1>0, <1>3, <1>4 DEF IInv, Shape, Config
  <2>2. CASE record.preBind = h[u].mark
    <3>1. Goto(u, "done")
      BY <1>3, <1>4, <2>2
    <3>2. Others(u) /\ h'[u].pc = "done"
      BY <1>0, <3>1, Went
    <3>3. AtRest' /\ ~ Running(u)'
      BY <1>1, <1>3, <1>4, <2>1, <2>2, <3>2 DEF AtRest, Settled, Governs, Governed, Running
    <3> QED BY <1>2, <3>2, <3>3, ApartStep
  <2>3. CASE record.preBind # h[u].mark
    <3>1. Goto(u, "markRead")
      BY <1>3, <1>4, <2>3
    <3>2. Others(u) /\ SameData(u) /\ h'[u].pc = "markRead"
      BY <1>0, <3>1, Went
    <3>3. InTurn(u)' /\ Running(u)'
      BY <1>1, <1>3, <1>4, <2>1, <3>2 DEF InTurn, Governed, SameData, Running
    <3> QED BY <1>2, <3>2, <3>3, ApartStep
  <2> QED BY <2>2, <2>3
<1>5. CASE GiveUp(u, "done") /\ UNCHANGED config
  <2>1. Others(u) /\ h'[u].pc = "done" /\ disturbed'
    BY <1>0, <1>5, Went DEF GiveUp
  <2>2. AtRest' /\ ~ Running(u)'
    BY <1>1, <1>3, <1>5, <2>1 DEF AtRest, Settled, Governs, Running
  <2> QED BY <1>2, <2>1, <2>2, ApartStep
<1> QED BY <1>4, <1>5 DEF SetUrl

\* The marker that is stored last belongs to that host.
LEMMA ApartMark ==
    ASSUME TypeInv, ApartInv, apart, NEW u \in Updates, WriteMark(u)
    PROVE  ApartInv'
<1>0. IInv /\ MarksInv
  BY DEF TypeInv
<1>1. /\ h[u].pc = "markWrite" /\ UNCHANGED <<config, original, last, disturbed>>
      /\ record' = [h[u].snapshot EXCEPT !.preBind = h[u].mark]
  BY DEF WriteMark
<1>2. InTurn(u) /\ Running(u)
  BY <1>1 DEF ApartInv, Running
<1>3. /\ h[u].snapshot = record /\ record.assigned = last
      /\ config.host = Governed(last) /\ (last \in Aliased => h[u].mark = GitHub)
      /\ ~ disturbed /\ last \in Named => config.name = last /\ config.email = last
  BY <1>1, <1>2 DEF InTurn
<1>4. record'.assigned = last /\ record'.preBind = h[u].mark
  BY <1>0, <1>1, <1>3 DEF IInv, Shape, Records
<1>5. Others(u) /\ h'[u].pc = "done"
  BY <1>0, Went DEF WriteMark
<1>6. AtRest' /\ ~ Running(u)'
  BY <1>1, <1>3, <1>4, <1>5 DEF AtRest, Settled, Governs, Governed, Running
<1> QED BY <1>2, <1>5, <1>6, ApartStep

\* Every step of requests that come in turn keeps ApartInv.
LEMMA NextApart == TypeInv /\ ApartInv /\ [MCNext]_<<vars, apart>> => ApartInv'
<1> SUFFICES ASSUME TypeInv, ApartInv, [MCNext]_<<vars, apart>>, apart'  PROVE ApartInv'
  BY DEF ApartInv
<1>1. CASE MCNext
  <2>1. /\ Next /\ apart /\ OneAtATime' /\ ~ Crash /\ \A u \in Updates : ~ StoreFails(u)
    BY <1>1 DEF MCNext
  <2>2. ASSUME NEW u \in Updates, NEW p \in Profiles \union {None}, Request(u, p) PROVE ApartInv'
    BY <2>1, <2>2, ApartRequest
  <2>3. ASSUME NEW u \in Updates, Handles(u)  PROVE ApartInv'
    BY <2>1, <2>3, ApartReads, ApartWrites, ApartIdentity, ApartDecision, ApartRewrite, ApartMark
       DEF Handles
  <2>4. ASSUME NEW host \in {None, GitHub, Absent}, UserSetsOrigin(host)  PROVE ApartInv'
    <3>1. /\ Rest /\ original' = host /\ config' = [config EXCEPT !.host = host]
          /\ disturbed' = TRUE /\ UNCHANGED <<record, h, last>>
      BY <2>4 DEF UserSetsOrigin
    <3>2. config'.host = host
      BY <3>1 DEF TypeInv, IInv, Shape, Config
    <3>3. AtRest'
      BY <2>1, <3>1, <3>2 DEF ApartInv, AtRest, Settled, Governs
    <3>4. \A u \in Updates : ~ Running(u)'
      BY <3>1 DEF Rest, Running
    <3> QED BY <3>3, <3>4 DEF ApartInv, OneAtATime
  <2> QED BY <2>1, <2>2, <2>3, <2>4 DEF Next, Handles
<1>2. CASE UNCHANGED <<vars, apart>>
  BY <1>2 DEF vars, ApartInv, OneAtATime, Rest, Running, AtRest, Settled, Governs, Governed, InTurn
<1> QED BY <1>1, <1>2

\* Both invariants hold of requests that come in turn.
LEMMA ApartInvariance == MCSpec => [](TypeInv /\ ApartInv)
<1>1. MCInit => TypeInv /\ ApartInv
  BY InitTypeInv, InitApart DEF MCInit
<1>2. TypeInv /\ ApartInv /\ [MCNext]_<<vars, apart>> => (TypeInv /\ ApartInv)'
  <2>1. [MCNext]_<<vars, apart>> => [Next]_vars
    BY DEF MCNext
  <2> QED BY <2>1, NextTypeInv, NextApart
<1> QED BY <1>1, <1>2, PTL DEF MCSpec

(* When requests come in turn, nothing quits and the store does not fail,  *)
(* the profile asked for last governs the identity and the key: whatever   *)
(* git commands failed before, and wherever the user moved the origin.     *)
THEOREM GovernsCorrect == MCSpec => []GovernsApart
<1>1. TypeInv /\ ApartInv => GovernsApart
  BY DEF ApartInv, AtRest, Governs, Governed, GovernsApart, AssignmentGoverns
<1> QED BY <1>1, ApartInvariance, PTL

(* Then, too, the host that a bound origin had is in its marker, so that it*)
(* can be restored (remoteReconcile.ts); and the types hold in any case.   *)
THEOREM RecoverableCorrect == MCSpec => []RecoverableApart
<1>1. TypeInv /\ ApartInv => RecoverableApart
  <2> SUFFICES ASSUME TypeInv, ApartInv, apart, Rest
               PROVE  original \in {config.host, record.preBind}
    BY Typed DEF RecoverableApart, HostRecoverable
  <2> QED BY DEF ApartInv, AtRest, Settled
<1> QED BY <1>1, ApartInvariance, PTL
=============================================================================
