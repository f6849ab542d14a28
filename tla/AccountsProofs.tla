--------------------------- MODULE AccountsProofs ---------------------------
(***************************************************************************)
(* Proofs about what the program keeps of its user.  JsonStore: its types, *)
(* and that a change of the file is always one patch laid over what the    *)
(* file holds, provided that a file that exists can be read; without the   *)
(* proviso (Unreadable) it is refuted.  DeviceAuth: that profiles are      *)
(* linked rightly, if the user waits for a code before closing the modal   *)
(* (Patient).  AiSetup: that what is shown of the AI connection is true.   *)
(***************************************************************************)
EXTENDS MCAccounts, SequenceTheorems, TLAPS

Pending == {"queued", "reading", "writing"}
Begun == {"reading", "writing"} \union Settled

\* The chain: two pending transactions are ordered, and the tail is the last of them.
Ordered ==
    \A c, d \in Txs :
       c # d /\ status[c] \in Pending /\ status[d] \in Pending
          => c \in before[d] \/ d \in before[c]

TailIsLast ==
    \A d \in Txs : status[d] \in Pending => /\ queue # None
                                            /\ d = queue \/ d \in before[queue]

\* What a transaction was chained to.
ChainedTo ==
    \A c \in Txs : before[c] = IF prev[c] = None THEN {} ELSE before[prev[c]] \union {prev[c]}

\* Only calls that were made are in the chain.
ChainIsMade ==
    /\ queue # None => status[queue] # "new"
    /\ \A c \in Txs : \A e \in before[c] : status[e] # "new"

\* A transaction has its turn after all those before it.
InTurn ==
    \A c \in Txs : status[c] \in Begun => \A e \in before[c] : status[e] \in Settled

\* What a transaction is about to overwrite is what it read.
Fresh == \A c \in Txs : status[c] = "writing" => current[c] = file

IInv ==
    TypeOK /\ Ordered /\ TailIsLast /\ ChainedTo /\ ChainIsMade /\ InTurn /\ Fresh

-----------------------------------------------------------------------------
\* The types hold initially and every step keeps them, whatever readFile does.
LEMMA InitType == Init => TypeOK
BY DefaultsAssumption DEF Init, TypeOK, Contents, Statuses

\* No step leaves the types, whatever transactions run.
LEMMA NextType == TypeOK /\ [Next]_vars => TypeOK'
<1> SUFFICES ASSUME TypeOK, [Next]_vars PROVE TypeOK'
    OBVIOUS
<1> USE DEF TypeOK, Contents, Statuses, Settled
<1>1. ASSUME NEW t \in Txs, Update(t) PROVE TypeOK'
    BY <1>1 DEF Update
<1>2. ASSUME NEW t \in Txs, Begin(t) PROVE TypeOK'
    BY <1>2 DEF Begin
<1>3. ASSUME NEW t \in Txs, Read(t) PROVE TypeOK'
    BY <1>3, DefaultsAssumption DEF Read
<1>4. ASSUME NEW t \in Txs, Write(t) PROVE TypeOK'
    BY <1>4 DEF Write, Patched
<1>5. ASSUME NEW t \in Txs, Fail(t) PROVE TypeOK'
    BY <1>5 DEF Fail
<1>6. CASE Restart
    BY <1>6 DEF Restart
<1>7. CASE UNCHANGED vars
    BY <1>7 DEF vars
<1> QED
    BY <1>1, <1>2, <1>3, <1>4, <1>5, <1>6, <1>7 DEF Next

(* Every variable keeps its type (JsonStore.ts read, write, update).       *)
THEOREM TypeCorrect == Spec => []TypeOK
BY InitType, NextType, PTL DEF Spec

-----------------------------------------------------------------------------
\* A write never finds another transaction about to write: the chain orders them.
LEMMA WritesAlone ==
    ASSUME IInv, NEW t \in Txs, status[t] \in {"reading", "writing"},
           NEW u \in Txs, u # t
    PROVE  status[u] \notin {"reading", "writing"}
BY DEF IInv, Ordered, InTurn, Pending, Begun, Settled

\* A new transaction takes its place behind all the pending ones.
LEMMA UpdateKeeps ==
    ASSUME IInv, TypeOK', NEW t \in Txs, Update(t)
    PROVE  IInv'
<1> USE DEF IInv, TypeOK
<1>1. t \notin before[t] /\ queue # t /\ (\A c \in Txs : t \notin before[c] /\ prev[c] # t)
  <2>1. queue # t /\ \A c \in Txs : t \notin before[c]
    BY NoneAssumption DEF Update, ChainIsMade
  <2>2. ASSUME NEW c \in Txs, prev[c] = t PROVE t \in before[c]
    <3>1. prev[c] # None
        BY <2>2, NoneAssumption
    <3>2. before[c] = before[prev[c]] \union {prev[c]}
        BY <3>1 DEF ChainedTo
    <3> QED
        BY <2>2, <3>2
  <2> QED
    BY <2>1, <2>2
<1>2. /\ \A c \in Txs \ {t} : before'[c] = before[c] /\ prev'[c] = prev[c]
      /\ \A c \in Txs \ {t} : status'[c] = status[c]
      /\ status'[t] = "queued" /\ queue' = t /\ prev'[t] = queue
      /\ before'[t] = IF queue = None THEN {} ELSE before[queue] \union {queue}
    BY DEF Update
<1>3. Ordered' /\ TailIsLast'
  <2>1. \A d \in Txs \ {t} : status'[d] \in Pending =>
            /\ queue # None /\ (d = queue \/ d \in before[queue])
            /\ d \in before'[t]
    BY <1>2 DEF TailIsLast
  <2>2. ASSUME NEW c \in Txs, NEW d \in Txs, c # d, status'[c] \in Pending, status'[d] \in Pending
        PROVE  c \in before'[d] \/ d \in before'[c]
    <3>1. CASE c = t \/ d = t
      BY <2>1, <2>2, <3>1
    <3>2. CASE c # t /\ d # t
      BY <1>2, <2>2, <3>2 DEF Ordered
    <3> QED BY <3>1, <3>2
  <2>3. TailIsLast'
    BY <1>2, <2>1, NoneAssumption DEF TailIsLast
  <2> QED BY <2>2, <2>3 DEF Ordered
<1>4. ChainedTo'
    BY <1>1, <1>2 DEF ChainedTo
<1>5. ChainIsMade'
    BY <1>1, <1>2 DEF ChainIsMade
<1>6. InTurn'
    BY <1>1, <1>2 DEF InTurn, Begun, Settled
<1>7. Fresh'
    BY <1>2 DEF Fresh, Update
<1> QED
    BY <1>3, <1>4, <1>5, <1>6, <1>7

\* A transaction that begins has only settled ones before it.
LEMMA BeginKeeps ==
    ASSUME IInv, TypeOK', NEW t \in Txs, Begin(t)
    PROVE  IInv'
<1> USE DEF IInv, TypeOK
<1>1. /\ \A c \in Txs \ {t} : status'[c] = status[c]
      /\ status[t] = "queued" /\ status'[t] = "reading"
      /\ UNCHANGED <<file, current, queue, prev, before>>
    BY DEF Begin
<1>2. \A e \in before[t] : status[e] \in Settled
    BY DEF Begin, Turn, ChainedTo, InTurn, Begun
<1>3. Ordered' /\ TailIsLast'
    BY <1>1 DEF Ordered, TailIsLast, Pending
<1>4. ChainedTo' /\ ChainIsMade'
    BY <1>1 DEF ChainedTo, ChainIsMade
<1>5. InTurn'
    BY <1>1, <1>2 DEF InTurn, Begun, Settled
<1>6. Fresh'
    BY <1>1 DEF Fresh
<1> QED
    BY <1>3, <1>4, <1>5, <1>6

\* What is read is what the file holds.
LEMMA ReadKeeps ==
    ASSUME IInv, TypeOK', Unreadable = FALSE, NEW t \in Txs, Read(t)
    PROVE  IInv'
<1> USE DEF IInv, TypeOK
<1>1. /\ \A c \in Txs \ {t} : status'[c] = status[c] /\ current'[c] = current[c]
      /\ status[t] = "reading" /\ status'[t] = "writing" /\ current'[t] = file
      /\ UNCHANGED <<file, queue, prev, before>>
    BY DEF Read
<1>2. Ordered' /\ TailIsLast'
    BY <1>1 DEF Ordered, TailIsLast, Pending
<1>3. ChainedTo' /\ ChainIsMade'
    BY <1>1 DEF ChainedTo, ChainIsMade
<1>4. InTurn' /\ Fresh'
    BY <1>1 DEF InTurn, Begun, Settled, Fresh
<1> QED
    BY <1>2, <1>3, <1>4

\* A transaction that settles, having written or not, leaves no other snapshot stale.
LEMMA SettleKeeps ==
    ASSUME IInv, TypeOK', NEW t \in Txs, Write(t) \/ Fail(t)
    PROVE  IInv'
<1> USE DEF IInv, TypeOK
<1>1. /\ \A c \in Txs \ {t} : status'[c] = status[c]
      /\ status[t] \in {"reading", "writing"} /\ status'[t] \in Settled
      /\ UNCHANGED <<current, queue, prev, before>>
    BY DEF Write, Fail, Settled
<1>2. Ordered' /\ TailIsLast'
    BY <1>1 DEF Ordered, TailIsLast, Pending, Settled
<1>3. ChainedTo' /\ ChainIsMade'
    BY <1>1 DEF ChainedTo, ChainIsMade, Settled
<1>4. InTurn'
    BY <1>1 DEF InTurn, Begun, Settled
<1>5. Fresh'
    BY <1>1, WritesAlone DEF Fresh, Settled
<1> QED
    BY <1>2, <1>3, <1>4, <1>5

\* A restart settles whatever was pending.
LEMMA RestartKeeps ==
    ASSUME IInv, TypeOK', Restart
    PROVE  IInv'
<1> USE DEF IInv, TypeOK
<1>1. /\ \A c \in Txs : status'[c] \in Settled \union {"new"}
      /\ \A c \in Txs : status[c] # "new" => status'[c] \in Settled
      /\ queue' = None
      /\ UNCHANGED <<file, current, prev, before>>
    BY DEF Restart, Statuses, Settled
<1>2. Ordered' /\ TailIsLast' /\ Fresh'
    BY <1>1 DEF Ordered, TailIsLast, Fresh, Pending, Settled
<1>3. ChainedTo'
    BY <1>1 DEF ChainedTo
<1>4. \A c \in Txs : \A e \in before[c] : status'[e] \in Settled
    BY <1>1 DEF ChainIsMade
<1>5. ChainIsMade' /\ InTurn'
    BY <1>1, <1>4 DEF ChainIsMade, InTurn, Settled
<1> QED
    BY <1>2, <1>3, <1>5

-----------------------------------------------------------------------------
\* The invariant holds initially and every step keeps it.
LEMMA InitIInv == Init => IInv
BY InitType
   DEF Init, IInv, Ordered, TailIsLast, ChainedTo, ChainIsMade, InTurn, Fresh,
       Pending, Begun, Settled

\* Every step of the store keeps the invariant.
LEMMA NextIInv ==
    ASSUME Unreadable = FALSE
    PROVE  IInv /\ [Next]_vars => IInv'
<1> SUFFICES ASSUME IInv, [Next]_vars PROVE IInv'
    OBVIOUS
<1>1. TypeOK'
    BY NextType DEF IInv
<1>2. CASE UNCHANGED vars
    BY <1>2
       DEF IInv, TypeOK, Ordered, TailIsLast, ChainedTo, ChainIsMade, InTurn, Fresh, vars
<1>3. CASE Next
    BY <1>1, <1>3, UpdateKeeps, BeginKeeps, ReadKeeps, SettleKeeps, RestartKeeps DEF Next
<1> QED
    BY <1>2, <1>3

\* A step changes the file by one patch laid over what the file holds.
LEMMA StepIsAtomic ==
    ASSUME IInv, [Next]_vars
    PROVE  file' = file \/ \E t \in Txs : status[t] = "writing" /\ file' = Patched(t, file)
<1>1. CASE \E t \in Txs : Write(t)
    BY <1>1 DEF Write, IInv, Fresh
<1>2. CASE ~\E t \in Txs : Write(t)
    BY <1>2 DEF Next, Update, Begin, Read, Fail, Restart, vars
<1> QED
    BY <1>1, <1>2

(* The lost update that update() was written against cannot happen: with a *)
(* file that can be read, every change of the file is one patch laid over  *)
(* what the file holds at that moment, for any number of transactions,     *)
(* failures and restarts.                                                  *)
THEOREM Atomic ==
    ASSUME Unreadable = FALSE
    PROVE  Spec => UpdatesAreAtomic
<1>1. Init => IInv
    BY InitIInv
<1>2. IInv /\ [Next]_vars => IInv'
    BY NextIInv
<1>3. IInv /\ [Next]_vars
      => [file' = file \/ \E t \in Txs : status[t] = "writing" /\ file' = Patched(t, file)]_vars
    BY StepIsAtomic
<1> QED
    BY <1>1, <1>2, <1>3, PTL DEF Spec, UpdatesAreAtomic

-----------------------------------------------------------------------------
(* Sign-ins.                                                               *)

Early == {"requesting", "opening"}

\* The modal is closed, or of the flow it started.
ModalInv ==
    \/ modal = D!Closed
    \/ modal.flow \in Flows /\ modal.profile \in Profiles /\ modal.profile = for[modal.flow]

\* A flow without a code is the modal's, and has taken its profile's place.
EarlyInv ==
    \A f \in Flows : pc[f] \in Early =>
        /\ modal.flow = f /\ modal.status \in {"starting", "authorized"}
        /\ controllers[for[f]] = None

\* Only a flow that waits can be woken, and none waits after an abort.
WakeInv ==
    /\ wake # None => pc[wake] = "waiting"
    /\ \A f \in Flows : pc[f] = "waiting" => f \notin aborted

\* A flow polls with the code that was requested for it.
OwnCode == \A f \in Flows : polls[f] \in {None, f} /\ (pc[f] = "opening" => pending \in {None, f})

\* A cancelled flow has its signal to look at, or is over.
CancelInv ==
    \A f \in cancelled : \/ pc[f] \in {"http", "identity"} /\ f \in aborted
                         \/ pc[f] \in {"abandoned", "failed"}

AuthInv ==
    /\ D!TypeOK /\ ModalInv /\ EarlyInv /\ WakeInv /\ OwnCode /\ CancelInv
    /\ D!LiveFlowsAreRegistered /\ D!LinksOwnAccount

\* Before the first sign-in.
LEMMA InitAuth == D!Init => AuthInv
<1> SUFFICES ASSUME D!Init  PROVE AuthInv
  OBVIOUS
<1>1. D!TypeOK
  BY DEF D!Init, D!TypeOK, D!Closed, D!Pcs, D!Live, D!Polling
<1>2. D!LiveFlowsAreRegistered /\ D!LinksOwnAccount
  BY DEF D!Init, D!LiveFlowsAreRegistered, D!LinksOwnAccount, D!Live, D!Polling
<1>3. ModalInv /\ EarlyInv /\ WakeInv /\ OwnCode /\ CancelInv
  BY DEF D!Init, ModalInv, EarlyInv, WakeInv, OwnCode, CancelInv, Early
<1> QED BY <1>1, <1>2, <1>3 DEF AuthInv

\* The request for a code returns.
LEMMA CodeSteps ==
    ASSUME AuthInv, NEW f \in Flows, D!CodeArrives(f) \/ D!CodeRequestFails(f)
    PROVE  AuthInv'
<1> USE DEF AuthInv
<1>1. CASE D!CodeArrives(f)
  <2>1. /\ pc[f] = "requesting" /\ pc' = [pc EXCEPT ![f] = "opening"] /\ pending' = f
        /\ UNCHANGED <<for, aborted, controllers, wake, polls, overdue, codes, token, link, leaving,
                       modal, shown, seen, cancelled>>
    BY <1>1 DEF D!CodeArrives, D!stored, D!history
  <2>2. D!TypeOK'
    BY <2>1 DEF D!TypeOK, D!Pcs, D!Live, D!Polling
  <2>3. ModalInv' /\ EarlyInv' /\ WakeInv' /\ CancelInv'
    BY <2>1 DEF ModalInv, EarlyInv, WakeInv, CancelInv, D!TypeOK, Early
  <2>4. OwnCode'
    BY <2>1 DEF OwnCode, EarlyInv, D!TypeOK, Early
  <2>5. D!LiveFlowsAreRegistered' /\ D!LinksOwnAccount'
    BY <2>1 DEF D!LiveFlowsAreRegistered, D!LinksOwnAccount, D!TypeOK, D!Live, D!Polling
  <2> QED BY <2>2, <2>3, <2>4, <2>5
<1>2. CASE D!CodeRequestFails(f)
  <2>1. /\ pc[f] = "requesting" /\ pc' = [pc EXCEPT ![f] = "failed"]
        /\ modal' = IF modal.flow = f THEN [modal EXCEPT !.status = "failed"] ELSE modal
        /\ UNCHANGED <<for, aborted, controllers, pending, wake, polls, overdue, codes, token, link,
                       leaving, shown, seen, cancelled>>
    BY <1>2 DEF D!CodeRequestFails, D!stored, D!history, D!service
  <2>2. D!TypeOK'
    BY <2>1 DEF D!TypeOK, D!Pcs, D!Live, D!Polling, D!Ended
  <2>3. ModalInv' /\ EarlyInv' /\ WakeInv' /\ CancelInv' /\ OwnCode'
    BY <2>1, AccountsAssumption
       DEF ModalInv, EarlyInv, WakeInv, CancelInv, OwnCode, D!TypeOK, Early, D!Closed
  <2>4. D!LiveFlowsAreRegistered' /\ D!LinksOwnAccount'
    BY <2>1 DEF D!LiveFlowsAreRegistered, D!LinksOwnAccount, D!TypeOK, D!Live, D!Polling
  <2> QED BY <2>2, <2>3, <2>4
<1> QED BY <1>1, <1>2

\* What abort() of p's flow leaves: other flows, and what is stored, stay.
AbortOf(p, next) ==
    /\ aborted \subseteq aborted' /\ aborted' \subseteq Flows
    /\ controllers[p] \in aborted' \union {None}
    /\ controllers' = [controllers EXCEPT ![p] = None]
    /\ wake' \in {wake, None} /\ (wake' # None => next[wake] = "waiting")
    /\ \A f \in Flows : next[f] = "waiting" => f \notin aborted'
    /\ next \in [Flows -> D!Pcs]
    /\ \A f \in Flows : next[f] = pc[f] \/ (pc[f] = "waiting" /\ next[f] = "abandoned")

\* What abort does to the flows and their controllers.
LEMMA Aborted ==
    ASSUME AuthInv, NEW p \in Profiles, D!Abort(p)
    PROVE  AbortOf(p, D!AfterAbort(p))
<1>1. /\ controllers[p] \in Flows \union {None} /\ pc \in [Flows -> D!Pcs] /\ aborted \subseteq Flows
      /\ wake \in Flows \union {None}
  BY DEF AuthInv, D!TypeOK
<1>2. WakeInv
  BY DEF AuthInv
<1>3. D!AfterAbort(p) \in [Flows -> D!Pcs]
  BY <1>1 DEF D!AfterAbort, D!Pcs, D!Ended
<1>4. /\ wake' \in {wake, None} /\ aborted \subseteq aborted' /\ aborted' \subseteq Flows
      /\ controllers[p] \in aborted' \union {None} /\ controllers' = [controllers EXCEPT ![p] = None]
  BY <1>1 DEF D!Abort
<1>5. \A f \in Flows : \/ D!AfterAbort(p)[f] = pc[f]
                       \/ pc[f] = "waiting" /\ D!AfterAbort(p)[f] = "abandoned"
  BY DEF D!AfterAbort
<1>6. ASSUME wake' # None  PROVE D!AfterAbort(p)[wake] = "waiting"
  BY <1>1, <1>2, <1>6, AccountsAssumption DEF D!AfterAbort, D!Abort, WakeInv
<1>7. \A f \in Flows : D!AfterAbort(p)[f] = "waiting" => f \notin aborted'
  BY <1>2 DEF D!AfterAbort, D!Abort, WakeInv
<1> QED BY <1>3, <1>4, <1>5, <1>6, <1>7 DEF AbortOf

\* A start aborts the flow of its profile, and comes when no other flow is
\* without a code.
LEMMA StartStep ==
    ASSUME AuthInv, NEW f \in Flows, NEW p \in Profiles, D!Start(f, p),
           modal = D!Closed \/ modal.status = "failed"
    PROVE  AuthInv'
<1> USE DEF AuthInv
<1>1. PICK next : next = D!AfterAbort(p)
  OBVIOUS
<1>2. AbortOf(p, next)
  BY <1>1, Aborted DEF D!Start
<1>3. /\ pc[f] = "idle" /\ pc' = [next EXCEPT ![f] = "requesting"]
      /\ for' = [for EXCEPT ![f] = p]
      /\ modal' = [profile |-> p, flow |-> f, status |-> "starting"]
      /\ UNCHANGED <<pending, polls, overdue, codes, token, link, leaving, shown, seen, cancelled>>
  BY <1>1 DEF D!Start, D!stored, D!history
<1>4. \A g \in Flows : pc[g] \notin Early
  BY DEF EarlyInv, D!Closed
<1>5. /\ pc' \in [Flows -> D!Pcs] /\ pc'[f] = "requesting"
      /\ \A g \in Flows \ {f} : pc'[g] = pc[g] \/ (pc[g] = "waiting" /\ pc'[g] = "abandoned")
      /\ \A g \in Flows \ {f} : for'[g] = for[g]
      /\ for'[f] = p /\ for \in [Flows -> Profiles \union {None}]
      /\ controllers'[p] = None /\ \A q \in Profiles \ {p} : controllers'[q] = controllers[q]
      /\ controllers' \in [Profiles -> Flows \union {None}]
  BY <1>2, <1>3 DEF AbortOf, D!TypeOK, D!Pcs
<1>6. D!TypeOK'
  <2>1. /\ for' \in [Flows -> Profiles \union {None}]
        /\ \A g \in Flows : for'[g] = None <=> pc'[g] = "idle"
        /\ \A g \in Flows : pc'[g] \in D!Live => polls'[g] # None
    <3>1. for' \in [Flows -> Profiles \union {None}]
      BY <1>3, <1>5
    <3>2. ASSUME NEW g \in Flows \ {f}
          PROVE  (for'[g] = None <=> pc'[g] = "idle") /\ (pc'[g] \in D!Live => polls'[g] # None)
      <4>1. for'[g] = for[g] /\ polls' = polls /\ (pc'[g] = pc[g] \/ (pc[g] = "waiting" /\ pc'[g] = "abandoned"))
        BY <1>3, <1>5
      <4> QED BY <4>1 DEF D!TypeOK, D!Live, D!Polling
    <3>3. (for'[f] = None <=> pc'[f] = "idle") /\ pc'[f] \notin D!Live
      BY <1>5, AccountsAssumption DEF D!Live, D!Polling
    <3> QED BY <3>1, <3>2, <3>3
  <2>2. /\ modal' \in [profile : Profiles \union {None}, flow : Flows \union {None},
                       status : {"closed", "starting", "awaitingUser", "authorized", "failed"}]
        /\ wake' \in Flows \union {None} /\ aborted' \subseteq Flows
    BY <1>2, <1>3 DEF D!TypeOK, AbortOf
  <2> QED BY <1>3, <1>5, <2>1, <2>2 DEF D!TypeOK
<1>7. ModalInv' /\ EarlyInv'
  BY <1>3, <1>4, <1>5 DEF ModalInv, EarlyInv, Early
<1>8. WakeInv'
  BY <1>2, <1>3, <1>5, AccountsAssumption DEF WakeInv, AbortOf, D!TypeOK
<1>9. OwnCode' /\ CancelInv'
  BY <1>2, <1>3, <1>5 DEF OwnCode, CancelInv, AbortOf, D!TypeOK
<1>10. D!LiveFlowsAreRegistered'
  BY <1>2, <1>3, <1>5 DEF D!LiveFlowsAreRegistered, AbortOf, D!Live, D!Polling, D!TypeOK
<1>11. D!LinksOwnAccount'
  <2>1. for[f] = None
    BY <1>3 DEF D!TypeOK
  <2>2. ASSUME NEW q \in Profiles, NEW account \in {token[q], link[q]} \ {None}
        PROVE  for'[account] = q
    <3>1. for[account] = q /\ account \in Flows
      BY <2>2 DEF D!LinksOwnAccount, D!TypeOK
    <3>2. account # f
      BY <2>1, <3>1, AccountsAssumption
    <3> QED BY <3>1, <3>2, <1>5
  <2> QED BY <2>2, <1>3 DEF D!LinksOwnAccount
<1> QED BY <1>6, <1>7, <1>8, <1>9, <1>10, <1>11

\* The modal of an unaborted flow: what Notify changes is its status only.
LEMMA Notified ==
    ASSUME AuthInv, NEW f \in Flows, NEW s \in {"awaitingUser", "failed"}, D!Notify(f, s)
    PROVE  /\ modal'.flow = modal.flow /\ modal'.profile = modal.profile
           /\ modal' \in [profile : Profiles \union {None}, flow : Flows \union {None},
                          status : {"closed", "starting", "awaitingUser", "authorized", "failed"}]
           /\ modal' = modal \/ (modal.profile = for[f] /\ f \notin aborted)
<1>1. modal \in [profile : Profiles \union {None}, flow : Flows \union {None},
                 status : {"closed", "starting", "awaitingUser", "authorized", "failed"}]
  BY DEF AuthInv, D!TypeOK
<1> QED BY <1>1 DEF D!Notify

\* The code that was requested for the flow is the one it polls with, as long
\* as no one else requested one.
LEMMA PollingBegins ==
    ASSUME AuthInv, NEW f \in Flows, D!BeginPolling(f)
    PROVE  AuthInv'
<1> USE DEF AuthInv
<1>1. /\ pc[f] = "opening" /\ polls' = [polls EXCEPT ![f] = pending]
      /\ seen' = IF modal.flow = f THEN seen \union {f} ELSE seen
      /\ \/ /\ pending # None /\ pc' = [pc EXCEPT ![f] = "http"]
            /\ controllers' = [controllers EXCEPT ![for[f]] = f]
            /\ D!Notify(f, "awaitingUser")
         \/ /\ pending = None /\ pc' = [pc EXCEPT ![f] = "failed"]
            /\ controllers' = [controllers EXCEPT ![for[f]] = None]
            /\ D!Notify(f, "failed")
      /\ UNCHANGED <<for, aborted, pending, wake, overdue, codes, token, link, leaving, shown, cancelled>>
  BY DEF D!BeginPolling, D!stored
<1>2. /\ pc[f] \in Early /\ modal.flow = f /\ controllers[for[f]] = None /\ for[f] \in Profiles
      /\ pending \in {None, f}
      /\ \A g \in Flows \ {f} : pc[g] \notin Early
  BY <1>1 DEF EarlyInv, Early, OwnCode, D!TypeOK
<1>3. PICK s \in {"awaitingUser", "failed"} : D!Notify(f, s)
  BY <1>1
<1>4. /\ modal'.flow = modal.flow /\ modal'.profile = modal.profile
      /\ modal' \in [profile : Profiles \union {None}, flow : Flows \union {None},
                     status : {"closed", "starting", "awaitingUser", "authorized", "failed"}]
  BY <1>3, Notified
<1>5. D!TypeOK'
  BY <1>1, <1>2, <1>4 DEF D!TypeOK, D!Pcs, D!Live, D!Polling, D!Ended
<1>6. ModalInv' /\ EarlyInv' /\ WakeInv'
  BY <1>1, <1>2, <1>4, AccountsAssumption
     DEF ModalInv, EarlyInv, WakeInv, Early, D!TypeOK, D!Closed
<1>7. OwnCode' /\ CancelInv'
  BY <1>1, <1>2 DEF OwnCode, CancelInv, D!TypeOK
<1>8. D!LiveFlowsAreRegistered'
  <2>1. ASSUME NEW g \in Flows \ {f}, pc'[g] \in D!Live, g \notin aborted'
        PROVE  controllers'[for'[g]] = g
    <3>1. pc'[g] = pc[g] /\ for'[g] = for[g] /\ aborted' = aborted
      BY <1>1 DEF D!TypeOK
    <3>2. controllers[for[g]] = g /\ g # None
      BY <2>1, <3>1, AccountsAssumption DEF D!LiveFlowsAreRegistered
    <3>3. for[g] # for[f]
      BY <1>2, <3>2
    <3>4. for[g] \in Profiles
      BY <2>1, <3>1 DEF D!TypeOK, D!Live, D!Polling
    <3> QED BY <1>1, <3>1, <3>2, <3>3, <3>4 DEF D!TypeOK
  <2>2. pc'[f] \in D!Live => controllers'[for'[f]] = f
    BY <1>1, <1>2 DEF D!TypeOK, D!Live, D!Polling
  <2> QED BY <2>1, <2>2 DEF D!LiveFlowsAreRegistered
<1>9. D!LinksOwnAccount'
  BY <1>1 DEF D!LinksOwnAccount
<1> QED BY <1>5, <1>6, <1>7, <1>8, <1>9

\* A live flow that ends, or goes on without an abort, keeps the invariant: the
\* modal hears of it only from the flow that is registered.
Ends(f) ==
    /\ pc[f] \in D!Live
    /\ \E end \in {"abandoned", "failed", "linked"} :
          /\ end = "linked" => f \notin cancelled
          /\ pc' = [pc EXCEPT ![f] = end]
    /\ D!Unregister(f)
    /\ wake' \in {wake, None} /\ (pc[f] = "waiting" => wake' = None)
    /\ pending' \in {pending, None}
    /\ modal'.flow = modal.flow /\ modal'.profile = modal.profile
    /\ modal' \in [profile : Profiles \union {None}, flow : Flows \union {None},
                   status : {"closed", "starting", "awaitingUser", "authorized", "failed"}]
    /\ \/ modal' = modal
       \/ modal.profile = for[f] /\ (modal'.status = "authorized" \/ f \notin aborted)
    /\ UNCHANGED <<for, aborted, polls, leaving, cancelled>>

\* A flow that ends, and leaves nothing behind that it could disturb.
LEMMA EndStep ==
    ASSUME AuthInv, NEW f \in Flows, Ends(f),
           overdue' \subseteq Flows /\ seen' \subseteq Flows,
           codes' \in [Flows -> {"pending", "approved", "denied", "expired", "redeemed"}],
           shown' \in [Profiles -> Flows \union {None}],
           token' \in [Profiles -> Flows \union {None}],
           link' \in [Profiles -> Flows \union {None}],
           D!LinksOwnAccount'
    PROVE  AuthInv'
<1> USE DEF AuthInv
<1>1. PICK end \in {"abandoned", "failed", "linked"} :
          pc' = [pc EXCEPT ![f] = end] /\ (end = "linked" => f \notin cancelled)
  BY DEF Ends
<1>2. /\ pc'[f] = end /\ \A g \in Flows \ {f} : pc'[g] = pc[g]
      /\ pc \in [Flows -> D!Pcs] /\ pc' \in [Flows -> D!Pcs]
  BY <1>1 DEF D!TypeOK, D!Pcs, D!Ended
<1>3. for[f] \in Profiles /\ pc[f] \in D!Live /\ pc[f] \notin Early /\ polls[f] # None
  BY DEF Ends, D!TypeOK, D!Live, D!Polling, Early
<1>4. /\ controllers' \in [Profiles -> Flows \union {None}]
      /\ \A p \in Profiles : controllers'[p] = IF p = for[f] /\ controllers[p] = f THEN None ELSE controllers[p]
  BY <1>3 DEF Ends, D!Unregister, D!TypeOK
<1>5. D!TypeOK'
  <2>1. /\ \A g \in Flows : for'[g] = None <=> pc'[g] = "idle"
        /\ \A g \in Flows : pc'[g] \in D!Live => polls'[g] # None
    BY <1>2, <1>3 DEF Ends, D!TypeOK, D!Live, D!Polling
  <2> QED BY <1>2, <1>4, <2>1 DEF Ends, D!TypeOK
<1>6. ModalInv'
  <2>1. CASE modal' = modal
    BY <2>1 DEF Ends, ModalInv
  <2>2. CASE modal.profile = for[f]
    BY <1>3, <2>2, AccountsAssumption DEF Ends, ModalInv, D!Closed
  <2> QED BY <2>1, <2>2 DEF Ends
<1>7. EarlyInv'
  <2> SUFFICES ASSUME NEW g \in Flows, pc'[g] \in Early
               PROVE  /\ modal'.flow = g /\ modal'.status \in {"starting", "authorized"}
                      /\ controllers'[for'[g]] = None
    BY DEF EarlyInv
  <2>1. g # f /\ pc[g] \in Early
    BY <1>2 DEF Early
  <2>2. modal.flow = g /\ modal.status \in {"starting", "authorized"} /\ controllers[for[g]] = None
        /\ for[g] \in Profiles
    BY <2>1 DEF EarlyInv, D!TypeOK, Early
  <2>3. modal.profile = for[g]
    BY <2>2, AccountsAssumption DEF ModalInv, D!Closed
  <2>4. ~ (modal.profile = for[f] /\ f \notin aborted)
    <3>1. ASSUME for[g] = for[f], f \notin aborted  PROVE FALSE
      <4>1. controllers[for[f]] = f
        BY <1>3, <3>1 DEF D!LiveFlowsAreRegistered
      <4> QED BY <4>1, <3>1, <2>2, AccountsAssumption
    <3> QED BY <2>3, <3>1
  <2> QED BY <1>4, <2>2, <2>4 DEF Ends
<1>8. WakeInv'
  BY <1>2 DEF WakeInv, Ends, D!TypeOK
<1>9. OwnCode' /\ CancelInv'
  BY <1>1, <1>2 DEF OwnCode, CancelInv, Ends, D!TypeOK
<1>10. D!LiveFlowsAreRegistered'
  BY <1>2, <1>4 DEF D!LiveFlowsAreRegistered, Ends, D!Live, D!Polling, D!TypeOK
<1> QED BY <1>5, <1>6, <1>7, <1>8, <1>9, <1>10

\* A live flow that goes on, which it does with its signal unheeded only where
\* it does not look at it.
Advances(f) ==
    /\ pc[f] \in D!Live
    /\ \E next \in D!Live : /\ pc' = [pc EXCEPT ![f] = next]
                            /\ f \in cancelled => next \in {"http", "identity"}
                            /\ next = "waiting" => f \notin aborted
                            /\ \/ wake' = None
                               \/ wake' = wake /\ pc[f] # "waiting"
                               \/ wake' = f /\ next = "waiting"
    /\ pending' \in {pending, None}
    /\ UNCHANGED <<for, aborted, controllers, polls, leaving, modal, shown, seen, cancelled>>

\* A flow that goes on by one step of its own.
LEMMA AdvanceStep ==
    ASSUME AuthInv, NEW f \in Flows, Advances(f), overdue' \subseteq Flows,
           codes' \in [Flows -> {"pending", "approved", "denied", "expired", "redeemed"}],
           token' \in [Profiles -> Flows \union {None}],
           link' \in [Profiles -> Flows \union {None}],
           D!LinksOwnAccount'
    PROVE  AuthInv'
<1> USE DEF AuthInv
<1>1. PICK next \in D!Live : /\ pc' = [pc EXCEPT ![f] = next]
                             /\ f \in cancelled => next \in {"http", "identity"}
                             /\ next = "waiting" => f \notin aborted
                             /\ \/ wake' = None
                                \/ wake' = wake /\ pc[f] # "waiting"
                                \/ wake' = f /\ next = "waiting"
  BY DEF Advances
<1>2. /\ pc'[f] = next /\ \A g \in Flows \ {f} : pc'[g] = pc[g]
      /\ pc \in [Flows -> D!Pcs] /\ pc' \in [Flows -> D!Pcs] /\ pc[f] \in D!Live
      /\ next \notin Early /\ next # "idle" /\ pc[f] # "idle"
  <2>1. pc \in [Flows -> D!Pcs] /\ pc' = [pc EXCEPT ![f] = next]
    BY <1>1 DEF D!TypeOK
  <2>2. pc[f] \in D!Live /\ next \in D!Pcs
    BY DEF Advances, D!Pcs
  <2>3. next \notin Early /\ next # "idle" /\ pc[f] # "idle"
    BY <2>2 DEF D!Live, D!Polling, Early
  <2> QED BY <2>1, <2>2, <2>3
<1>3. D!TypeOK'
  BY <1>1, <1>2 DEF Advances, D!TypeOK
<1>4. ModalInv' /\ EarlyInv'
  BY <1>2 DEF Advances, ModalInv, EarlyInv
<1>5. WakeInv'
  BY <1>1, <1>2 DEF Advances, WakeInv, D!TypeOK
<1>6. OwnCode' /\ CancelInv'
  BY <1>1, <1>2 DEF Advances, OwnCode, CancelInv, D!TypeOK, D!Live, D!Polling
<1>7. D!LiveFlowsAreRegistered'
  BY <1>2 DEF D!LiveFlowsAreRegistered, Advances
<1> QED BY <1>3, <1>4, <1>5, <1>6, <1>7

\* What the stores hold stays.
LEMMA StoresKept ==
    ASSUME AuthInv, UNCHANGED <<for, token, link>>
    PROVE  /\ token' \in [Profiles -> Flows \union {None}] /\ link' \in [Profiles -> Flows \union {None}]
           /\ D!LinksOwnAccount'
BY DEF AuthInv, D!TypeOK, D!LinksOwnAccount

\* A failure, heard of by the modal or not, ends its flow.
LEMMA FailEnds ==
    ASSUME AuthInv, NEW f \in Flows, pc[f] \in D!Live, D!Fail(f),
           wake' \in {wake, None} /\ (pc[f] = "waiting" => wake' = None),
           pending' \in {pending, None},
           UNCHANGED <<for, aborted, polls, leaving, cancelled>>
    PROVE  Ends(f)
<1>1. /\ modal'.flow = modal.flow /\ modal'.profile = modal.profile
      /\ modal' \in [profile : Profiles \union {None}, flow : Flows \union {None},
                     status : {"closed", "starting", "awaitingUser", "authorized", "failed"}]
      /\ modal' = modal \/ (modal.profile = for[f] /\ f \notin aborted)
  BY Notified DEF D!Fail
<1>2. \E end \in {"abandoned", "failed"} : pc' = [pc EXCEPT ![f] = end]
  BY DEF D!Fail, D!Finish
<1>3. D!Unregister(f)
  BY DEF D!Fail, D!Finish
<1> QED BY <1>1, <1>2, <1>3 DEF Ends

\* poll() looks at its signal: an aborted flow ends there, and a cancelled one
\* was aborted.
LEMMA Proceeds ==
    ASSUME AuthInv, NEW f \in Flows, NEW next \in {"identity", "storing"},
           pc[f] \in {"http", "identity"}, D!ProceedUnlessAborted(f, next),
           pending' \in {pending, None},
           UNCHANGED <<for, aborted, wake, polls, leaving, modal, shown, seen, cancelled>>
    PROVE  Ends(f) \/ Advances(f)
<1>1. pc[f] \in D!Live /\ next \in D!Live /\ pc[f] # "waiting" /\ next # "waiting"
  BY DEF D!Live, D!Polling
<1>2. CASE f \in aborted
  <2>1. pc' = [pc EXCEPT ![f] = "abandoned"] /\ D!Unregister(f)
    BY <1>2 DEF D!ProceedUnlessAborted, D!Finish
  <2>2. modal \in [profile : Profiles \union {None}, flow : Flows \union {None},
                  status : {"closed", "starting", "awaitingUser", "authorized", "failed"}]
    BY DEF AuthInv, D!TypeOK
  <2>3. \E end \in {"abandoned", "failed", "linked"} :
          (end = "linked" => f \notin cancelled) /\ pc' = [pc EXCEPT ![f] = end]
    BY <2>1
  <2> QED BY <1>1, <2>1, <2>2, <2>3 DEF Ends
<1>3. CASE f \notin aborted
  <2>1. pc' = [pc EXCEPT ![f] = next] /\ UNCHANGED controllers
    BY <1>3 DEF D!ProceedUnlessAborted
  <2>2. f \notin cancelled
    BY <1>3 DEF AuthInv, CancelInv
  <2> QED BY <1>1, <2>1, <2>2 DEF Advances
<1> QED BY <1>2, <1>3

\* A poll gets no answer, a refusal or a token, and a wait between two polls ends.
LEMMA PollSteps ==
    ASSUME AuthInv, NEW f \in Flows, D!Poll(f) \/ D!WaitEnds(f)
    PROVE  AuthInv'
<1>0. /\ overdue \subseteq Flows /\ seen \subseteq Flows
      /\ codes \in [Flows -> {"pending", "approved", "denied", "expired", "redeemed"}]
      /\ shown \in [Profiles -> Flows \union {None}] /\ CancelInv
  BY DEF AuthInv, D!TypeOK
<1>1. CASE D!Unanswered(f)
  <2>1. /\ pc[f] = "http" /\ pc[f] \in D!Live /\ D!PollAgain(f)
        /\ UNCHANGED <<for, aborted, polls, overdue, codes, token, link, leaving, shown, seen, cancelled>>
    BY <1>1 DEF D!Unanswered, D!stored, D!history, D!Live, D!Polling
  <2>2. CASE D!Fail(f)
    <3>1. wake' \in {wake, None} /\ pending' \in {pending, None}
      <4>1. CASE f \in overdue
        BY <2>1, <4>1 DEF D!PollAgain
      <4>2. CASE f \notin overdue
        <5>1. \/ wake' = None /\ UNCHANGED pending
              \/ f \notin aborted /\ wake' = f /\ UNCHANGED pending /\ pc' = [pc EXCEPT ![f] = "waiting"]
          BY <2>1, <4>2 DEF D!PollAgain
        <5>2. pc'[f] # "waiting"
          BY <2>2, <2>1 DEF D!Fail, D!Finish, AuthInv, D!TypeOK
        <5> QED BY <5>1, <5>2 DEF AuthInv, D!TypeOK
      <4> QED BY <4>1, <4>2
    <3>2. Ends(f)
      BY <2>1, <2>2, <3>1, FailEnds
    <3> QED BY <1>0, <2>1, <3>2, EndStep, StoresKept
  <2>3. CASE /\ f \notin aborted /\ pc' = [pc EXCEPT ![f] = "waiting"] /\ wake' = f
             /\ UNCHANGED <<controllers, pending, modal>>
    <3>1. f \notin cancelled /\ "waiting" \in D!Live
      BY <1>0, <2>1, <2>3 DEF CancelInv, D!Live, D!Polling
    <3>2. Advances(f)
      BY <2>1, <2>3, <3>1 DEF Advances
    <3> QED BY <1>0, <2>1, <3>2, AdvanceStep, StoresKept
  <2> QED BY <2>1, <2>2, <2>3 DEF D!PollAgain
<1>2. CASE D!Refused(f)
  <2>1. /\ pc[f] = "http" /\ pc[f] \in D!Live /\ D!Fail(f) /\ pending' = None
        /\ UNCHANGED <<for, aborted, wake, polls, overdue, codes, token, link, leaving, shown, seen,
                       cancelled>>
    BY <1>2 DEF D!Refused, D!stored, D!history, D!Live, D!Polling
  <2>2. Ends(f)
    BY <2>1, FailEnds
  <2> QED BY <1>0, <2>1, <2>2, EndStep, StoresKept
<1>3. CASE D!TokenArrives(f)
  <2>1. /\ pc[f] = "http" /\ pc[f] \in D!Live /\ D!ProceedUnlessAborted(f, "identity")
        /\ pending' = None /\ codes' = [codes EXCEPT ![polls[f]] = "redeemed"]
        /\ UNCHANGED <<for, aborted, wake, polls, overdue, token, link, leaving, modal, shown, seen,
                       cancelled>>
    BY <1>3 DEF D!TokenArrives, D!stored, D!history, D!Live, D!Polling
  <2>2. codes' \in [Flows -> {"pending", "approved", "denied", "expired", "redeemed"}]
    BY <1>0, <2>1
  <2>3. Ends(f) \/ Advances(f)
    BY <2>1, Proceeds
  <2> QED BY <1>0, <2>1, <2>2, <2>3, EndStep, AdvanceStep, StoresKept
<1>4. CASE D!WaitEnds(f)
  <2>1. /\ pc[f] = "waiting" /\ pc' = [pc EXCEPT ![f] = "http"] /\ wake' = None
        /\ UNCHANGED <<for, aborted, controllers, pending, polls, overdue, codes, token, link, leaving,
                       modal, shown, seen, cancelled>>
    BY <1>4 DEF D!WaitEnds, D!stored, D!history
  <2>2. pc[f] \in D!Live /\ "http" \in D!Live
    BY <2>1 DEF D!Live, D!Polling
  <2>3. Advances(f)
    BY <2>1, <2>2 DEF Advances
  <2> QED BY <1>0, <2>1, <2>3, AdvanceStep, StoresKept
<1> QED BY <1>1, <1>2, <1>3, <1>4 DEF D!Poll

\* The window regains focus: the flow that waits, if any, polls at once.
LEMMA RefreshStep ==
    ASSUME AuthInv, D!Refresh
    PROVE  AuthInv'
<1>1. /\ wake # None /\ pc' = [pc EXCEPT ![wake] = "http"] /\ wake' = None
      /\ UNCHANGED <<for, aborted, controllers, pending, polls, overdue, codes, token, link, leaving,
                     modal, shown, seen, cancelled>>
  BY DEF D!Refresh, D!stored, D!history
<1>2. wake \in Flows /\ pc[wake] = "waiting"
  BY <1>1 DEF AuthInv, D!TypeOK, WakeInv
<1>3. "http" \in D!Live /\ "waiting" \in D!Live
  BY DEF D!Live, D!Polling
<1>4. Advances(wake)
  BY <1>1, <1>2, <1>3 DEF Advances
<1>5. /\ overdue' \subseteq Flows
      /\ codes' \in [Flows -> {"pending", "approved", "denied", "expired", "redeemed"}]
  BY <1>1 DEF AuthInv, D!TypeOK
<1> QED BY <1>1, <1>2, <1>4, <1>5, AdvanceStep, StoresKept

\* What follows a token: its identity is read, it is stored, the profile linked, or it fails.
LEMMA SettleSteps ==
    ASSUME AuthInv, NEW f \in Flows, D!Settle(f)
    PROVE  AuthInv'
<1>0. /\ overdue \subseteq Flows /\ seen \subseteq Flows
      /\ codes \in [Flows -> {"pending", "approved", "denied", "expired", "redeemed"}]
      /\ shown \in [Profiles -> Flows \union {None}]
      /\ token \in [Profiles -> Flows \union {None}] /\ link \in [Profiles -> Flows \union {None}]
      /\ CancelInv /\ D!LinksOwnAccount
  BY DEF AuthInv, D!TypeOK
<1>1. CASE D!IdentityArrives(f)
  <2>1. /\ pc[f] = "identity" /\ pc[f] \in D!Live /\ D!ProceedUnlessAborted(f, "storing")
        /\ UNCHANGED <<for, aborted, pending, wake, polls, overdue, codes, token, link, leaving, modal,
                       shown, seen, cancelled>>
    BY <1>1 DEF D!IdentityArrives, D!service, D!stored, D!history, D!Live, D!Polling
  <2>2. Ends(f) \/ Advances(f)
    BY <2>1, Proceeds
  <2> QED BY <1>0, <2>1, <2>2, EndStep, AdvanceStep, StoresKept
<1>2. CASE D!StepFails(f)
  <2>1. /\ pc[f] \in D!Live /\ pc[f] # "waiting" /\ D!Fail(f)
        /\ UNCHANGED <<for, aborted, pending, wake, polls, overdue, codes, token, link, leaving, shown,
                       seen, cancelled>>
    BY <1>2 DEF D!StepFails, D!service, D!stored, D!history, D!Live, D!Polling
  <2>2. Ends(f)
    BY <2>1, FailEnds
  <2> QED BY <1>0, <2>1, <2>2, EndStep, StoresKept
<1>3. pc[f] \in D!Live => polls[f] = f /\ for[f] \in Profiles
  BY DEF AuthInv, D!TypeOK, OwnCode, D!Live, D!Polling
<1>4. CASE D!TokenStored(f)
  <2>1. /\ pc[f] = "storing" /\ pc' = [pc EXCEPT ![f] = "linking"]
        /\ token' = [token EXCEPT ![for[f]] = polls[f]]
        /\ UNCHANGED <<for, aborted, controllers, pending, wake, polls, overdue, codes, link, leaving,
                       modal, shown, seen, cancelled>>
    BY <1>4 DEF D!TokenStored, D!service, D!history
  <2>2. pc[f] \in D!Live /\ "linking" \in D!Live /\ f \notin cancelled
    BY <1>0, <2>1 DEF CancelInv, D!Live, D!Polling
  <2>3. Advances(f)
    BY <2>1, <2>2 DEF Advances
  <2>4. token' \in [Profiles -> Flows \union {None}] /\ D!LinksOwnAccount'
    BY <1>0, <1>3, <2>1, <2>2 DEF D!LinksOwnAccount
  <2> QED BY <1>0, <2>1, <2>3, <2>4, AdvanceStep
<1>5. CASE D!Linked(f)
  <2>1. /\ pc[f] = "linking" /\ D!Finish(f, "linked")
        /\ link' = [link EXCEPT ![for[f]] = polls[f]]
        /\ \/ /\ modal.profile = for[f] /\ modal' = [modal EXCEPT !.status = "authorized"]
              /\ shown' = link'
           \/ UNCHANGED <<modal, shown>>
        /\ UNCHANGED <<for, aborted, pending, wake, polls, overdue, codes, token, leaving, seen,
                       cancelled>>
    BY <1>5 DEF D!Linked, D!service, D!history
  <2>2. pc[f] \in D!Live /\ f \notin cancelled /\ pc' = [pc EXCEPT ![f] = "linked"] /\ D!Unregister(f)
    BY <1>0, <2>1 DEF CancelInv, D!Live, D!Polling, D!Finish
  <2>3. link' \in [Profiles -> Flows \union {None}] /\ D!LinksOwnAccount'
    BY <1>0, <1>3, <2>1, <2>2 DEF D!LinksOwnAccount
  <2>4. /\ modal'.flow = modal.flow /\ modal'.profile = modal.profile
        /\ modal' \in [profile : Profiles \union {None}, flow : Flows \union {None},
                       status : {"closed", "starting", "awaitingUser", "authorized", "failed"}]
        /\ modal' = modal \/ (modal.profile = for[f] /\ modal'.status = "authorized")
    BY <2>1 DEF AuthInv, D!TypeOK
  <2>5. Ends(f)
    BY <2>1, <2>2, <2>4 DEF Ends
  <2>6. shown' \in [Profiles -> Flows \union {None}]
    BY <1>0, <2>1, <2>3
  <2> QED BY <1>0, <2>1, <2>3, <2>5, <2>6, EndStep
<1> QED BY <1>1, <1>2, <1>4, <1>5 DEF D!Settle

\* An abort in a closed modal: every part that the aborted flow could disturb.
LEMMA AbortStep ==
    ASSUME AuthInv, NEW p \in Profiles, AbortOf(p, pc'), modal' = D!Closed,
           \A g \in Flows : pc[g] \notin Early, CancelInv', cancelled' \subseteq Flows,
           shown' \in [Profiles -> Flows \union {None}],
           leaving' \in [Profiles -> {"no", "deleting", "reading", "unlinking"}],
           UNCHANGED <<for, pending, polls, overdue, codes, token, link, seen>>
    PROVE  AuthInv'
<1> USE DEF AuthInv
<1>1. /\ pc' \in [Flows -> D!Pcs]
      /\ \A g \in Flows : pc'[g] = pc[g] \/ (pc[g] = "waiting" /\ pc'[g] = "abandoned")
      /\ controllers' = [controllers EXCEPT ![p] = None]
      /\ aborted \subseteq aborted' /\ aborted' \subseteq Flows
  BY DEF AbortOf
<1>2. /\ modal' \in [profile : Profiles \union {None}, flow : Flows \union {None},
                     status : {"closed", "starting", "awaitingUser", "authorized", "failed"}]
      /\ wake' \in Flows \union {None}
      /\ controllers' \in [Profiles -> Flows \union {None}]
  BY <1>1 DEF D!Closed, AbortOf, D!TypeOK
<1>3. /\ \A g \in Flows : for'[g] = None <=> pc'[g] = "idle"
      /\ \A g \in Flows : pc'[g] \in D!Live => polls'[g] # None
  BY <1>1 DEF D!TypeOK, D!Live, D!Polling
<1>4. D!TypeOK'
  BY <1>1, <1>2, <1>3 DEF D!TypeOK
<1>5. ModalInv' /\ EarlyInv' /\ OwnCode'
  BY <1>1 DEF ModalInv, EarlyInv, OwnCode, Early, D!Closed
<1>6. WakeInv'
  BY <1>1 DEF WakeInv, AbortOf
<1>7. D!LiveFlowsAreRegistered'
  <2> SUFFICES ASSUME NEW g \in Flows, pc'[g] \in D!Live, g \notin aborted'
               PROVE  controllers'[for[g]] = g
    BY DEF D!LiveFlowsAreRegistered
  <2>1. pc[g] \in D!Live /\ g \notin aborted /\ for[g] \in Profiles
    BY <1>1 DEF D!TypeOK, D!Live, D!Polling
  <2>2. controllers[for[g]] = g
    BY <2>1 DEF D!LiveFlowsAreRegistered
  <2>3. for[g] # p
    BY <2>2, AccountsAssumption DEF AbortOf
  <2> QED BY <1>1, <2>1, <2>2, <2>3 DEF D!TypeOK
<1>8. D!LinksOwnAccount'
  BY DEF D!LinksOwnAccount
<1> QED BY <1>4, <1>5, <1>6, <1>7, <1>8

\* Cancel, or the modal unmounts, or the user disconnects.  The assumption: the
\* user does not close the modal before its code is there.
LEMMA CloseStep ==
    ASSUME Patient, AuthInv, D!Close
    PROVE  AuthInv'
<1> USE DEF AuthInv
<1>1. /\ modal # D!Closed /\ pc[modal.flow] \notin Early /\ modal' = D!Closed /\ shown' = link
      /\ UNCHANGED <<for, pending, polls, overdue, codes, token, link, leaving, seen>>
  BY DEF D!Close, D!stored, Early
<1>2. modal.flow \in Flows /\ modal.profile \in Profiles /\ modal.profile = for[modal.flow]
  BY <1>1 DEF ModalInv
<1>3. \A g \in Flows : pc[g] \notin Early
  BY <1>1 DEF EarlyInv
<1>4. modal' \in [profile : Profiles \union {None}, flow : Flows \union {None},
                 status : {"closed", "starting", "awaitingUser", "authorized", "failed"}]
  BY <1>1 DEF D!Closed
<1>5. CASE UNCHANGED <<pc, aborted, controllers, wake, cancelled>>
  <2>1. D!TypeOK'
    BY <1>1, <1>4, <1>5 DEF D!TypeOK
  <2>2. ModalInv' /\ EarlyInv' /\ WakeInv' /\ OwnCode' /\ CancelInv'
    BY <1>1, <1>3, <1>5 DEF ModalInv, EarlyInv, WakeInv, OwnCode, CancelInv, D!Closed
  <2>3. D!LiveFlowsAreRegistered' /\ D!LinksOwnAccount'
    BY <1>1, <1>5 DEF D!LiveFlowsAreRegistered, D!LinksOwnAccount
  <2> QED BY <2>1, <2>2, <2>3
<1>6. CASE /\ D!Abort(modal.profile) /\ pc' = D!AfterAbort(modal.profile)
           /\ cancelled' = cancelled \union
                {f \in {modal.flow} : pc[f] \notin {"storing", "linking"} \union D!Ended}
  <2>1. AbortOf(modal.profile, pc')
    BY <1>2, <1>6, Aborted
  <2>2. cancelled' \subseteq Flows
    BY <1>2, <1>6 DEF D!TypeOK
  <2>3. ASSUME NEW f \in Flows, f \in cancelled'
        PROVE  (pc'[f] \in {"http", "identity"} /\ f \in aborted') \/ pc'[f] \in {"abandoned", "failed"}
    <3>1. CASE f \in cancelled
      BY <2>1, <3>1 DEF CancelInv, AbortOf
    <3>2. CASE f = modal.flow /\ pc[f] \notin {"storing", "linking"} \union D!Ended
      <4>1. pc[f] \in {"http", "waiting", "identity"}
        BY <1>2, <1>3, <3>2, AccountsAssumption DEF D!TypeOK, D!Pcs, D!Live, D!Polling, Early
      <4>2. f \in aborted \/ controllers[modal.profile] = f
        BY <1>2, <3>2, <4>1 DEF D!LiveFlowsAreRegistered, D!Live, D!Polling
      <4>3. f \in aborted'
        BY <2>1, <4>2, AccountsAssumption DEF AbortOf
      <4>4. pc[f] = "waiting" => pc'[f] = "abandoned"
        BY <1>6, <3>2, <4>1, <4>2, <1>2, AccountsAssumption DEF D!AfterAbort, WakeInv
      <4> QED BY <2>1, <4>1, <4>3, <4>4 DEF AbortOf
    <3> QED BY <1>6, <2>3, <3>1, <3>2
  <2>4. CancelInv'
    BY <2>2, <2>3 DEF CancelInv
  <2>5. /\ shown' \in [Profiles -> Flows \union {None}]
        /\ leaving' \in [Profiles -> {"no", "deleting", "reading", "unlinking"}]
    BY <1>1 DEF D!TypeOK
  <2> QED BY <1>1, <1>2, <1>3, <2>1, <2>2, <2>4, <2>5, AbortStep
<1> QED BY <1>5, <1>6 DEF D!Close

\* Disconnecting: abort, delete the token, read the profile, unlink it.
LEMMA LeaveSteps ==
    ASSUME AuthInv, NEW p \in Profiles,
           D!Disconnect(p) \/ D!DeleteToken(p) \/ D!ReadLink(p) \/ D!Unlink(p)
    PROVE  AuthInv'
<1> USE DEF AuthInv
<1>1. CASE D!Disconnect(p)
  <2>1. /\ modal = D!Closed /\ modal' = D!Closed /\ D!Abort(p) /\ pc' = D!AfterAbort(p)
        /\ leaving' = [leaving EXCEPT ![p] = "deleting"]
        /\ UNCHANGED <<for, pending, polls, overdue, codes, token, link, shown, seen, cancelled>>
    BY <1>1 DEF D!Disconnect, D!stored, D!history
  <2>2. AbortOf(p, pc')
    BY <2>1, Aborted
  <2>3. \A g \in Flows : pc[g] \notin Early
    BY <2>1 DEF EarlyInv, D!Closed
  <2>4. CancelInv'
    BY <2>1, <2>2 DEF CancelInv, AbortOf, D!TypeOK
  <2>5. /\ shown' \in [Profiles -> Flows \union {None}] /\ cancelled' \subseteq Flows
        /\ leaving' \in [Profiles -> {"no", "deleting", "reading", "unlinking"}]
    BY <2>1 DEF D!TypeOK
  <2> QED BY <2>1, <2>2, <2>3, <2>4, <2>5, AbortStep
<1>2. CASE D!DeleteToken(p) \/ D!ReadLink(p) \/ D!Unlink(p)
  <2>1. UNCHANGED <<pc, for, aborted, controllers, pending, wake, polls, overdue, codes, modal, seen,
                    cancelled>>
    BY <1>2 DEF D!DeleteToken, D!ReadLink, D!Unlink, D!stored, D!history, D!service
  <2>2. /\ token' \in {token, [token EXCEPT ![p] = None]}
        /\ link' \in {link, [link EXCEPT ![p] = None]}
        /\ shown' \in {shown, link, link'}
        /\ \E l \in {"no", "reading", "unlinking"} : leaving' = [leaving EXCEPT ![p] = l]
    BY <1>2 DEF D!DeleteToken, D!ReadLink, D!Unlink, D!stored
  <2>3. D!TypeOK'
    <3>1. /\ token' \in [Profiles -> Flows \union {None}] /\ link' \in [Profiles -> Flows \union {None}]
          /\ shown' \in [Profiles -> Flows \union {None}]
          /\ leaving' \in [Profiles -> {"no", "deleting", "reading", "unlinking"}]
      BY <2>2 DEF D!TypeOK
    <3> QED BY <2>1, <3>1 DEF D!TypeOK
  <2>4. ModalInv' /\ EarlyInv' /\ WakeInv' /\ OwnCode' /\ CancelInv' /\ D!LiveFlowsAreRegistered'
    BY <2>1 DEF ModalInv, EarlyInv, WakeInv, OwnCode, CancelInv, D!LiveFlowsAreRegistered
  <2>5. D!LinksOwnAccount'
    <3>1. \A q \in Profiles : token'[q] \in {token[q], None} /\ link'[q] \in {link[q], None}
      BY <2>2 DEF D!TypeOK
    <3> QED BY <2>1, <3>1 DEF D!LinksOwnAccount
  <2> QED BY <2>3, <2>4, <2>5
<1> QED BY <1>1, <1>2

\* GitHub and the clock touch no flow.
LEMMA OutsideSteps ==
    ASSUME AuthInv, NEW f \in Flows,
           \/ D!Decide(f, "approved") \/ D!Decide(f, "denied")
           \/ D!Expire(f) \/ D!DeadlinePasses(f)
    PROVE  AuthInv'
<1> USE DEF AuthInv
<1>1. UNCHANGED <<pc, for, aborted, controllers, pending, wake, polls, token, link, leaving, modal,
                  shown, seen, cancelled>>
  BY DEF D!Decide, D!Expire, D!DeadlinePasses, D!stored, D!history, D!service
<1>2. /\ codes' \in [Flows -> {"pending", "approved", "denied", "expired", "redeemed"}]
      /\ overdue' \subseteq Flows
  BY DEF D!Decide, D!Expire, D!DeadlinePasses, D!TypeOK
<1>3. D!TypeOK'
  BY <1>1, <1>2 DEF D!TypeOK
<1>4. ModalInv' /\ EarlyInv' /\ WakeInv' /\ OwnCode' /\ CancelInv'
  BY <1>1 DEF ModalInv, EarlyInv, WakeInv, OwnCode, CancelInv
<1>5. D!LiveFlowsAreRegistered' /\ D!LinksOwnAccount'
  BY <1>1 DEF D!LiveFlowsAreRegistered, D!LinksOwnAccount
<1> QED BY <1>3, <1>4, <1>5

\* Every step of the sign-ins keeps the invariant.
LEMMA NextAuth ==
    ASSUME Patient, AuthInv, D!Next
    PROVE  AuthInv'
<1>1. ASSUME NEW f \in Flows, NEW p \in Profiles, D!OpenModal(f, p)  PROVE AuthInv'
  BY <1>1, StartStep DEF D!OpenModal
<1>2. ASSUME NEW f \in Flows, D!Retry(f)  PROVE AuthInv'
  <2>1. modal.profile \in Profiles
    BY <1>2 DEF D!Retry, AuthInv, ModalInv, D!Closed
  <2> QED BY <1>2, <2>1, StartStep DEF D!Retry
<1>3. ASSUME NEW f \in Flows, D!CodeArrives(f) \/ D!CodeRequestFails(f)  PROVE AuthInv'
  BY <1>3, CodeSteps
<1>4. ASSUME NEW f \in Flows, D!BeginPolling(f)  PROVE AuthInv'
  BY <1>4, PollingBegins
<1>5. ASSUME NEW f \in Flows, D!Poll(f) \/ D!WaitEnds(f)  PROVE AuthInv'
  BY <1>5, PollSteps
<1>6. ASSUME NEW f \in Flows, D!Settle(f)  PROVE AuthInv'
  BY <1>6, SettleSteps
<1>7. ASSUME NEW f \in Flows, \/ \E answer \in {"approved", "denied"} : D!Decide(f, answer)
                              \/ D!Expire(f) \/ D!DeadlinePasses(f)
      PROVE  AuthInv'
  BY <1>7, OutsideSteps
<1>8. ASSUME NEW p \in Profiles, D!Disconnect(p) \/ D!DeleteToken(p) \/ D!ReadLink(p) \/ D!Unlink(p)
      PROVE  AuthInv'
  BY <1>8, LeaveSteps
<1> QED BY <1>1, <1>2, <1>3, <1>4, <1>5, <1>6, <1>7, <1>8, RefreshStep, CloseStep DEF D!Next

\* The settings and the AI connection are no part of it.
LEMMA UnchangedAuth ==
    ASSUME AuthInv, UNCHANGED authVars
    PROVE  AuthInv'
BY DEF AuthInv, authVars, D!TypeOK, ModalInv, EarlyInv, WakeInv, OwnCode, CancelInv,
       D!LiveFlowsAreRegistered, D!LinksOwnAccount

(* For any number of profiles and sign-ins, whatever cancels, supersedes   *)
(* or disconnects them: a profile is linked to the account of its own      *)
(* code, nothing that was cancelled is stored or linked, and the flow that *)
(* goes on is the one the coordinator can still cancel.  It takes a user   *)
(* who waits for a code before closing the modal: without that, the run    *)
(* AuthOwnAccount shows the account of another profile linked.             *)
THEOREM LinksCorrect ==
    ASSUME Patient
    PROVE  AllSpec => []LinksRightly
<1>1. AllInit => AuthInv
  BY InitAuth DEF AllInit
<1>2. AuthInv /\ [AllNext]_allVars => AuthInv'
  <2> SUFFICES ASSUME AuthInv, [AllNext]_allVars  PROVE AuthInv'
    OBVIOUS
  <2>1. CASE D!Next
    BY <2>1, NextAuth
  <2>2. CASE UNCHANGED authVars
    BY <2>2, UnchangedAuth
  <2> QED BY <2>1, <2>2 DEF AllNext, Storing, Linking, Setting, allVars
<1>3. AuthInv => LinksRightly
  BY DEF AuthInv, CancelInv, LinksRightly, D!CancelledNeverLinks
<1> QED BY <1>1, <1>2, <1>3, PTL DEF AllSpec

-----------------------------------------------------------------------------
(* The AI connection.                                                      *)

SeenType == [conns : Seq(S!Ids), active : S!Maybe(S!Ids), on : BOOLEAN]
FlowType == [at : S!Steps, id : S!Maybe(S!Ids), then : S!Steps, seen : SeenType]
UiType == [conns : Seq(S!Ids), active : S!Maybe(S!Ids), meta : S!Maybe(S!Ids),
           models : S!Maybe(S!Ids), on : BOOLEAN, fetched : BOOLEAN]

MainType ==
    /\ conns \in Seq(S!Ids) /\ activeId \in S!Maybe(S!Ids) /\ keys \subseteq S!Ids
    /\ consent \in BOOLEAN /\ made \in 0..MaxConns

SetupType ==
    /\ MainType /\ ui \in UiType /\ flows \in [S!Chains -> FlowType]
    /\ tangled \in BOOLEAN /\ crossed \in BOOLEAN /\ acts \in 0..MaxActs

\* The steps that belong to each call; what comes after a load.
WalkOf(f, x) ==
    /\ x.at = "create" => f \in S!Forms
    /\ x.at = "update" => f = "inline"
    /\ x.at = "key" => f \in S!Forms \union {"key"}
    /\ x.at = "enable" => f \in S!Forms \union {"key", "enable"}
    /\ x.at \in {"ask", "models"} => f \in S!Forms \union {"fetch"}
    /\ x.at = "model" => f \in S!Forms \union {"model"}
    /\ x.at \in {"delete", "dropKey"} => f = "delete"
    /\ x.at \in {"list", "meta"} => f \in S!Calls /\ x.then \in {"idle", "key"}
    /\ x.at \in {"list", "meta"} /\ x.then = "key" => f \in S!Forms
    /\ f \in S!Forms /\ x.at # "idle" /\ x.at \notin {"create", "list", "meta"} => x.id \in S!Ids
    /\ f = "fetch" /\ x.at # "idle" => x.id \in S!Ids
    /\ x.at \in {"list", "meta"} /\ x.then = "key" => x.id \in S!Ids
    /\ x.at \in {"key", "delete", "dropKey", "model"} => x.id \in S!Ids

WalkInv == \A f \in S!Chains : WalkOf(f, flows[f])

\* AI is shown as on only if it is, as no one turns it off.
ConsentInv == (ui.on => consent) /\ \A f \in S!Chains : flows[f].seen.on => consent

\* The models are of the connection shown.
ModelsInv == ~crossed /\ ui.models # None => ui.models = S!ShownId

Busy(f) == flows[f].at # "idle"

OneCall == \A f, g \in S!Calls : Busy(f) /\ Busy(g) => f = g

\* Main has one connection at most, and it is the active one.
OneConn == \/ conns = <<>> /\ activeId = None
           \/ activeId \in S!Ids /\ conns = <<activeId>>
Only(id) == conns = <<id>> /\ activeId = id

\* What is shown is what main has.
Synced == ui.conns = conns /\ ui.active = activeId

\* A key is of a connection, or of the one that is being deleted.
KeysInv ==
    \A k \in keys : \/ conns = <<k>>
                    \/ flows["delete"].at = "dropKey" /\ flows["delete"].id = k

\* The key shown is the one of the connection shown, which has it unless it has
\* just been deleted.
MetaInv ==
    ui.meta # None => /\ ui.meta = S!ShownId
                      /\ ui.meta \in keys \/ flows["delete"].at \in {"list", "meta"}

\* What a call has made true when it comes to a step.
Course(f) ==
    /\ flows[f].at = "create" => conns = <<>> /\ Synced
    /\ flows[f].at \in {"update", "key", "enable", "delete"} => Only(flows[f].id) /\ Synced
    /\ flows[f].at = "enable" => flows[f].id \in keys
    /\ flows[f].at \in {"ask", "models", "model"} => Synced
    /\ flows[f].at = "dropKey" => conns = <<>>
    /\ flows[f].at = "meta" => flows[f].seen.conns = conns /\ flows[f].seen.active = activeId
    /\ flows[f].at \in {"list", "meta"} /\ flows[f].then = "key" => Only(flows[f].id)

\* As long as calls come one at a time.
TurnInv ==
    /\ OneCall /\ OneConn /\ KeysInv /\ MetaInv
    /\ \A f \in S!Calls : Busy(f) => Course(f)
    /\ (\A f \in S!Calls : ~Busy(f)) => Synced

WeakInv == SetupType /\ WalkInv /\ ConsentInv /\ ModelsInv
SetupInv == WeakInv /\ (~tangled => TurnInv)

\* The flows that the actions make.
LEMMA FlowWith ==
    ASSUME NEW x \in FlowType, NEW step \in S!Steps, NEW y, y = [x EXCEPT !.at = step]
    PROVE  /\ y \in FlowType /\ y.at = step /\ y.id = x.id /\ y.then = x.then
           /\ y.seen = x.seen
BY DEF FlowType

\* A call that has not begun, or has ended, waits for nothing.
LEMMA IdleType ==
    /\ S!Idle \in FlowType /\ S!Idle.at = "idle" /\ S!Idle.then = "idle" /\ S!Idle.id = None
    /\ S!Idle.seen.on = FALSE
<1>1. <<>> \in Seq(S!Ids)
  BY EmptySeq
<1>2. S!Snapshot(<<>>, None, FALSE) \in SeenType /\ S!Snapshot(<<>>, None, FALSE).on = FALSE
  BY <1>1 DEF S!Snapshot, SeenType, S!Maybe
<1> QED BY <1>2 DEF S!Idle, FlowType, S!Steps, S!Maybe

\* The load with which a screen begins.
LEMMA LoadingType ==
    /\ S!Loading \in FlowType /\ S!Loading.at = "list" /\ S!Loading.then = "idle"
    /\ S!Loading.seen.on = FALSE
<1>1. "list" \in S!Steps
  BY DEF S!Steps
<1>2. S!Loading = [S!Idle EXCEPT !.at = "list"]
  BY DEF S!Loading
<1> QED BY <1>1, <1>2, IdleType, FlowWith

\* A call at a step, of a connection, that nothing follows.
AtOf(x, step, id) ==
    x \in FlowType /\ x.at = step /\ x.id = id /\ x.then = "idle" /\ x.seen.on = FALSE

\* A call comes to a step with nothing to do afterwards.
LEMMA AtType ==
    ASSUME NEW step \in S!Steps, NEW id \in S!Maybe(S!Ids)
    PROVE  AtOf(S!At(step, id), step, id)
<1>1. PICK i \in FlowType : i = S!Idle
  BY IdleType
<1>2. i.then = "idle" /\ i.seen.on = FALSE
  BY <1>1, IdleType
<1>3. S!At(step, id) = [i EXCEPT !.at = step, !.id = id]
  BY <1>1 DEF S!At
<1> DEFINE y == [i EXCEPT !.at = step, !.id = id]
<1>4. y \in FlowType /\ y.at = step /\ y.id = id /\ y.then = i.then /\ y.seen = i.seen
  BY DEF FlowType
<1> HIDE DEF y
<1> QED BY <1>2, <1>3, <1>4 DEF y, AtOf

\* A screen that has loaded nothing.
LEMMA BlankType ==
    /\ S!Blank \in UiType /\ S!Blank.conns = <<>> /\ S!Blank.active = None
    /\ S!Blank.meta = None /\ S!Blank.models = None /\ S!Blank.on = FALSE
<1>1. <<>> \in Seq(S!Ids)
  BY EmptySeq
<1> QED BY <1>1 DEF S!Blank, UiType, S!Maybe

\* At the start there is no connection, and the screen is loading.
LEMMA InitSetup == S!Init => SetupInv
<1> SUFFICES ASSUME S!Init  PROVE SetupInv
  OBVIOUS
<1>0. /\ S!Blank \in UiType /\ S!Idle \in FlowType /\ S!Loading \in FlowType
      /\ S!Loading.at = "list" /\ S!Loading.then = "idle" /\ S!Loading.seen.on = FALSE
      /\ S!Idle.at = "idle" /\ S!Idle.seen.on = FALSE
  BY BlankType, IdleType, LoadingType
<1>1. /\ conns = <<>> /\ activeId = None /\ keys = {} /\ consent = FALSE /\ made = 0
      /\ ui = S!Blank /\ tangled = FALSE /\ crossed = FALSE /\ acts = 0
      /\ flows = [f \in S!Chains |-> IF f = "mount" THEN S!Loading ELSE S!Idle]
  BY DEF S!Init
<1>2. SetupType
  <2>1. <<>> \in Seq(S!Ids)
    BY EmptySeq
  <2>2. 0 \in 0..MaxConns /\ 0 \in 0..MaxActs
    BY SetupAssumption
  <2>3. MainType
    BY <1>1, <2>1, <2>2 DEF MainType, S!Maybe
  <2>4. flows \in [S!Chains -> FlowType]
    BY <1>0, <1>1
  <2> QED BY <1>0, <1>1, <2>2, <2>3, <2>4 DEF SetupType
<1>3. WalkInv /\ ConsentInv
  BY <1>0, <1>1 DEF WalkInv, WalkOf, ConsentInv, S!Calls, S!Chains, S!Blank
<1>4. ModelsInv /\ OneConn /\ KeysInv /\ MetaInv
  BY <1>1 DEF ModelsInv, OneConn, KeysInv, MetaInv, S!Blank
<1>5. OneCall /\ \A f \in S!Calls : Busy(f) => Course(f)
  BY <1>0, <1>1 DEF OneCall, Busy, Course, S!Chains
<1>6. Busy("mount") /\ "mount" \in S!Calls
  BY <1>0, <1>1 DEF Busy, S!Chains, S!Calls
<1> QED BY <1>2, <1>3, <1>4, <1>5, <1>6 DEF SetupInv, WeakInv, TurnInv

\* What is shown first depends on the list and the active id that are shown.
LEMMA ShownStays ==
    ASSUME ui'.conns = ui.conns, ui'.active = ui.active
    PROVE  S!ShownId' = S!ShownId
BY DEF S!ShownId, S!ActiveOf, S!Contains

\* One connection that is the active one is the one shown.
LEMMA ActiveShown ==
    ASSUME NEW v, NEW id \in S!Ids, v.conns = <<id>>, v.active = id
    PROVE  S!ActiveOf(v) = id
<1>1. id # None
  BY SetupAssumption DEF S!Ids
<1>2. Len(<<id>>) = 1 /\ <<id>>[1] = id
  OBVIOUS
<1>3. S!Contains(v.conns, v.active)
  BY <1>2 DEF S!Contains
<1> QED BY <1>1, <1>3 DEF S!ActiveOf

\* Without a connection none is shown.
LEMMA NoneShown ==
    ASSUME NEW v, v.conns = <<>>, v.active = None
    PROVE  S!ActiveOf(v) = None
BY DEF S!ActiveOf

\* One call goes on, the others stay where they are.
Move(f) ==
    /\ flows' \in [S!Chains -> FlowType]
    /\ \A g \in S!Chains \ {f} : flows'[g] = flows[g]

\* Goes moves one call.
LEMMA Moved ==
    ASSUME WeakInv, NEW f \in S!Chains, NEW x \in FlowType, S!Goes(f, x)
    PROVE  Move(f) /\ flows'[f] = x
BY DEF WeakInv, SetupType, S!Goes, Move

\* What such a load is.
LoadOf(x, id, then) ==
    /\ x \in FlowType /\ x.at = "list" /\ x.id = id /\ x.then = then
    /\ x.seen.on = FALSE

\* A call that re-reads the connections and then goes on.
LEMMA LoadType ==
    ASSUME NEW f, NEW id \in S!Maybe(S!Ids), NEW then \in S!Steps
    PROVE  LoadOf(S!Load(f, id, then), id, then)
<1>1. "list" \in S!Steps
  BY DEF S!Steps
<1>2. PICK x : x = S!At("list", id)
  OBVIOUS
<1>3. x \in FlowType /\ x.at = "list" /\ x.id = id /\ x.seen.on = FALSE
  BY <1>1, <1>2, AtType DEF AtOf
<1>4. S!Load(f, id, then) = [x EXCEPT !.then = then]
  BY <1>2 DEF S!Load
<1> QED BY <1>3, <1>4 DEF FlowType, LoadOf

\* The next step of a call: it keeps its connection and what it has read.
LEMMA ToType ==
    ASSUME WeakInv, NEW f \in S!Chains, NEW step \in S!Steps
    PROVE  /\ S!To(f, step) \in FlowType /\ S!To(f, step).at = step
           /\ S!To(f, step).id = flows[f].id /\ S!To(f, step).then = flows[f].then
           /\ S!To(f, step).seen = flows[f].seen
<1>1. flows[f] \in FlowType
  BY DEF WeakInv, SetupType
<1>2. S!To(f, step) = [flows[f] EXCEPT !.at = step]
  BY DEF S!To
<1> QED BY <1>1, <1>2, FlowWith

\* What every step of a call must keep, even if calls overlap.
LEMMA WeakStep ==
    ASSUME WeakInv, NEW f \in S!Chains, Move(f), WalkOf(f, flows'[f]), MainType', ui' \in UiType,
           crossed' \in BOOLEAN, UNCHANGED <<tangled, acts>>,
           flows'[f].seen.on => consent', consent => consent', ui'.on => consent', ModelsInv'
    PROVE  WeakInv'
<1>1. SetupType'
  BY DEF WeakInv, SetupType, Move
<1>2. WalkInv'
  BY DEF WeakInv, WalkInv, Move
<1>3. ConsentInv'
  BY DEF WeakInv, ConsentInv, Move
<1> QED BY <1>1, <1>2, <1>3 DEF WeakInv

\* The only call under way.
LEMMA Alone ==
    ASSUME TurnInv, NEW f \in S!Calls, Busy(f)
    PROVE  \A g \in S!Calls \ {f} : flows[g].at = "idle"
BY DEF TurnInv, OneCall, Busy

\* What a step of the only call must make true.
LEMMA TurnStep ==
    ASSUME TurnInv, NEW f \in S!Calls, Busy(f), Move(f), OneConn', KeysInv', MetaInv',
           flows'[f].at # "idle" => Course(f)', flows'[f].at = "idle" => Synced'
    PROVE  TurnInv'
<1>1. \A g \in S!Calls \ {f} : flows'[g].at = "idle"
  BY Alone DEF Move, S!Chains
<1>2. OneCall'
  BY <1>1 DEF OneCall, Busy
<1>3. (\A g \in S!Calls : Busy(g) => Course(g))'
  BY <1>1 DEF Busy
<1>4. (\A g \in S!Calls : ~Busy(g))' => Synced'
  BY DEF Busy
<1> QED BY <1>2, <1>3, <1>4 DEF TurnInv

\* What the program does by itself disturbs no call.
LEMMA EffectTurn ==
    ASSUME TurnInv, NEW f \in S!Effects, Move(f), UNCHANGED <<conns, activeId, keys>>,
           ui'.conns = ui.conns, ui'.active = ui.active, ui'.meta = ui.meta
    PROVE  TurnInv'
<1>1. \A g \in S!Calls : g \in S!Chains \ {f}
  BY DEF S!Calls, S!Forms, S!Effects, S!Chains
<1>2. \A g \in S!Calls : flows'[g] = flows[g]
  BY <1>1 DEF Move
<1>3. "delete" \in S!Calls
  BY DEF S!Calls
<1>4. OneCall' /\ OneConn' /\ KeysInv'
  BY <1>2, <1>3 DEF TurnInv, OneCall, OneConn, KeysInv, Busy
<1>5. MetaInv'
  BY <1>2, <1>3, ShownStays DEF TurnInv, MetaInv
<1>6. (\A g \in S!Calls : Busy(g) => Course(g))'
  BY <1>2 DEF TurnInv, Busy, Course, Synced, Only
<1>7. (\A g \in S!Calls : ~Busy(g))' => Synced'
  BY <1>2 DEF TurnInv, Busy, Synced
<1> QED BY <1>4, <1>5, <1>6, <1>7 DEF TurnInv

\* Where keys, lists and what is shown stay, so does what is said of them, unless
\* the call that goes on is a delete.
LEMMA Stays ==
    ASSUME TurnInv, NEW f \in S!Calls, Busy(f), Move(f), f # "delete",
           UNCHANGED <<conns, activeId, keys>>,
           ui'.conns = ui.conns, ui'.active = ui.active, ui'.meta = ui.meta
    PROVE  OneConn' /\ KeysInv' /\ MetaInv'
<1>1. flows'["delete"] = flows["delete"]
  BY DEF Move, S!Chains, S!Calls
<1> QED BY <1>1, ShownStays DEF TurnInv, OneConn, KeysInv, MetaInv

\* A list of models stays true while the same connection is shown.
LEMMA ModelsStay ==
    ASSUME ModelsInv, ui'.models = None \/ (ui'.models = ui.models /\ crossed' = crossed),
           ui'.conns = ui.conns, ui'.active = ui.active
    PROVE  ModelsInv'
BY ShownStays DEF ModelsInv

\* create: a form, which is shown only without a connection, makes the first.
LEMMA CreateStep ==
    ASSUME SetupInv, NEW f \in S!Chains, S!Create(f)
    PROVE  SetupInv'
<1> USE DEF SetupInv
<1>0. /\ flows[f].at = "create" /\ UNCHANGED <<ui, tangled, crossed, acts>>
      /\ f \in S!Forms /\ f \in S!Calls /\ Busy(f) /\ f # "delete" /\ MainType /\ ui \in UiType
      /\ crossed \in BOOLEAN /\ (ui.on => consent) /\ ModelsInv
  BY DEF S!Create, WeakInv, WalkInv, WalkOf, S!Calls, S!Forms, Busy, SetupType, ConsentInv
<1>1. ModelsInv'
  BY <1>0, ModelsStay
<1>2. CASE S!Goes(f, S!Idle) /\ UNCHANGED S!main
  <2>1. Move(f) /\ flows'[f] = S!Idle /\ flows'[f].at = "idle" /\ flows'[f].seen.on = FALSE
    BY <1>2, Moved, IdleType
  <2>2. UNCHANGED <<conns, activeId, keys, consent, made>>
    BY <1>2 DEF S!main
  <2>3. WeakInv'
    <3>1. WalkOf(f, flows'[f])
      BY <2>1 DEF WalkOf
    <3>2. MainType'
      BY <1>0, <2>2 DEF MainType
    <3> QED BY <1>0, <1>1, <2>1, <2>2, <3>1, <3>2, WeakStep
  <2>4. ASSUME TurnInv  PROVE TurnInv'
    <3>1. OneConn' /\ KeysInv' /\ MetaInv'
      BY <1>0, <2>1, <2>2, <2>4, Stays
    <3>2. Synced'
      BY <1>0, <2>2, <2>4 DEF TurnInv, Course, Synced
    <3> QED BY <1>0, <2>1, <2>4, <3>1, <3>2, TurnStep
  <2> QED BY <1>0, <2>3, <2>4
<1>3. CASE /\ made < MaxConns /\ made' = made + 1 /\ conns' = Append(conns, made + 1)
           /\ activeId' = S!FirstActive(made + 1) /\ S!Goes(f, S!Load(f, made + 1, "key"))
           /\ UNCHANGED <<keys, consent>>
  <2> PICK c : c = made + 1
    OBVIOUS
  <2>0. /\ made < MaxConns /\ made' = c /\ conns' = Append(conns, c)
        /\ activeId' = S!FirstActive(c) /\ S!Goes(f, S!Load(f, c, "key"))
        /\ UNCHANGED <<keys, consent>>
    BY <1>3
  <2>1. c \in S!Ids /\ c \in 0..MaxConns /\ c \in S!Maybe(S!Ids) /\ "key" \in S!Steps
    BY <1>0, <1>3, SetupAssumption DEF MainType, S!Ids, S!Maybe, S!Steps
  <2>2. PICK x : x = S!Load(f, c, "key")
    OBVIOUS
  <2>3. x \in FlowType /\ x.at = "list" /\ x.id = c /\ x.then = "key" /\ x.seen.on = FALSE
    <3>1. LoadOf(S!Load(f, c, "key"), c, "key")
      BY <2>1, LoadType
    <3> QED BY <2>2, <3>1 DEF LoadOf
  <2>4. Move(f) /\ flows'[f] = x
    BY <2>0, <2>2, <2>3, Moved
  <2>5. MainType'
    <3>1. conns' \in Seq(S!Ids)
      BY <1>0, <2>0, <2>1, AppendProperties DEF MainType
    <3>2. activeId' \in S!Maybe(S!Ids)
      BY <1>0, <2>0, <2>1 DEF MainType, S!FirstActive
    <3> QED BY <1>0, <2>0, <2>1, <3>1, <3>2 DEF MainType
  <2>6. WeakInv'
    <3>1. WalkOf(f, x)
      BY <1>0, <2>1, <2>3 DEF WalkOf
    <3> QED BY <1>0, <1>1, <2>0, <2>3, <2>4, <2>5, <3>1, WeakStep
  <2>7. ASSUME TurnInv  PROVE TurnInv'
    <3>1. conns = <<>> /\ Synced /\ OneConn /\ KeysInv /\ MetaInv
      BY <1>0, <2>7 DEF TurnInv, Course
    <3>2. activeId = None
      <4>1. \A v : <<v>> # <<>>
        OBVIOUS
      <4> QED BY <3>1, <4>1 DEF OneConn
    <3>3. Only(c)'
      <4>1. conns' = <<c>>
        BY <2>0, <3>1
      <4> QED BY <2>0, <3>2, <4>1 DEF Only, S!FirstActive
    <3>4. flows["delete"].at = "idle" /\ flows'["delete"] = flows["delete"]
      BY <1>0, <2>4, <2>7, Alone DEF Move, S!Calls, S!Chains
    <3>5. keys = {}
      <4>1. \A v : <<v>> # <<>>
        OBVIOUS
      <4> QED BY <3>1, <3>4, <4>1 DEF KeysInv
    <3>6. ui.meta = None
      BY <3>1, <3>2, NoneShown DEF MetaInv, Synced, S!ShownId
    <3>7. OneConn' /\ KeysInv' /\ MetaInv'
      BY <1>0, <2>0, <2>1, <3>3, <3>5, <3>6 DEF OneConn, Only, KeysInv, MetaInv
    <3>8. Course(f)'
      BY <2>3, <2>4, <3>3 DEF Course, Only
    <3> QED BY <1>0, <2>3, <2>4, <2>7, <3>7, <3>8, TurnStep
  <2> QED BY <1>0, <2>6, <2>7
<1> QED BY <1>2, <1>3 DEF S!Create

\* update, and the load that follows.
LEMMA UpdateStep ==
    ASSUME SetupInv, NEW f \in S!Chains, S!Update(f) \/ S!SaveModel(f)
    PROVE  SetupInv'
<1> USE DEF SetupInv
<1>0. /\ flows[f].at \in {"update", "model"} /\ UNCHANGED <<ui, tangled, crossed, acts>>
      /\ f \in S!Calls /\ Busy(f) /\ f # "delete" /\ MainType /\ ui \in UiType
      /\ UNCHANGED <<conns, activeId, keys, consent, made>>
      /\ crossed \in BOOLEAN /\ (ui.on => consent) /\ ModelsInv
      /\ flows[f].id \in S!Maybe(S!Ids)
  BY DEF S!Update, S!SaveModel, S!main, WeakInv, WalkInv, WalkOf, S!Calls, S!Forms, Busy, SetupType,
         ConsentInv, FlowType
<1>1. ModelsInv'
  BY <1>0, ModelsStay
<1>2. PICK x : /\ S!Goes(f, x)
               /\ \/ x = S!Idle
                  \/ x = S!Load(f, flows[f].id, "idle")
                  \/ flows[f].at = "update" /\ x = S!Load(f, flows[f].id, "key")
  BY DEF S!Update, S!SaveModel
<1>3. /\ x \in FlowType /\ x.seen.on = FALSE
      /\ \/ x.at = "idle"
         \/ x.at = "list" /\ x.then = "idle"
         \/ x.at = "list" /\ x.then = "key" /\ flows[f].at = "update" /\ x.id = flows[f].id
  <2>1. "idle" \in S!Steps /\ "key" \in S!Steps
    BY DEF S!Steps
  <2>2. CASE x = S!Idle
    BY <2>2, IdleType
  <2>3. CASE x = S!Load(f, flows[f].id, "idle")
    <3>1. LoadOf(S!Load(f, flows[f].id, "idle"), flows[f].id, "idle")
      BY <1>0, <2>1, LoadType
    <3> QED BY <2>3, <3>1 DEF LoadOf
  <2>4. CASE flows[f].at = "update" /\ x = S!Load(f, flows[f].id, "key")
    <3>1. LoadOf(S!Load(f, flows[f].id, "key"), flows[f].id, "key")
      BY <1>0, <2>1, LoadType
    <3> QED BY <2>4, <3>1 DEF LoadOf
  <2> QED BY <1>2, <2>2, <2>3, <2>4
<1>4. Move(f) /\ flows'[f] = x
  BY <1>2, <1>3, Moved
<1>5. WeakInv'
  <2>1. WalkOf(f, x)
    <3>1. flows[f].at = "update" => f = "inline" /\ flows[f].id \in S!Ids
      BY DEF WeakInv, WalkInv, WalkOf, S!Forms
    <3> QED BY <1>0, <1>3, <3>1 DEF WalkOf, S!Forms, S!Calls
  <2>2. MainType'
    BY <1>0 DEF MainType
  <2> QED BY <1>0, <1>1, <1>3, <1>4, <2>1, <2>2, WeakStep
<1>6. ASSUME TurnInv  PROVE TurnInv'
  <2>1. OneConn' /\ KeysInv' /\ MetaInv'
    BY <1>0, <1>4, <1>6, Stays
  <2>2. Synced /\ (flows[f].at = "update" => Only(flows[f].id))
    BY <1>0, <1>6 DEF TurnInv, Course
  <2>3. Synced'
    BY <1>0, <2>2 DEF Synced
  <2>4. x.at # "idle" => Course(f)'
    BY <1>0, <1>3, <1>4, <2>2 DEF Course, Only
  <2> QED BY <1>0, <1>4, <1>6, <2>1, <2>3, <2>4, TurnStep
<1> QED BY <1>0, <1>5, <1>6

\* list: what is read is what main has.
LEMMA ListStep ==
    ASSUME SetupInv, NEW f \in S!Chains, S!List(f)
    PROVE  SetupInv'
<1> USE DEF SetupInv
<1>0. /\ flows[f].at = "list" /\ UNCHANGED <<ui, tangled, crossed, acts>>
      /\ f \in S!Calls /\ Busy(f) /\ MainType /\ ui \in UiType
      /\ UNCHANGED <<conns, activeId, keys, consent, made>>
      /\ crossed \in BOOLEAN /\ (ui.on => consent) /\ ModelsInv
      /\ WalkOf(f, flows[f])
  BY DEF S!List, S!main, WeakInv, WalkInv, WalkOf, Busy, SetupType, ConsentInv
<1>1. ModelsInv'
  BY <1>0, ModelsStay
<1>2. PICK sn : sn = S!Snapshot(conns, activeId, consent)
  OBVIOUS
<1>3. sn \in SeenType /\ sn.conns = conns /\ sn.active = activeId /\ sn.on = consent
  BY <1>0, <1>2 DEF S!Snapshot, SeenType, MainType
<1>4. PICK y \in FlowType : /\ y = S!To(f, "meta") /\ y.at = "meta" /\ y.id = flows[f].id
                            /\ y.then = flows[f].then
  <2>1. "meta" \in S!Steps
    BY DEF S!Steps
  <2> QED BY <2>1, ToType
<1>5. PICK x : x = [y EXCEPT !.seen = sn]
  OBVIOUS
<1>6. x \in FlowType /\ x.at = "meta" /\ x.id = flows[f].id /\ x.then = flows[f].then /\ x.seen = sn
  BY <1>3, <1>4, <1>5 DEF FlowType
<1>7. Move(f) /\ flows'[f] = x
  <2>1. S!Goes(f, x)
    BY <1>2, <1>4, <1>5 DEF S!List
  <2> QED BY <1>6, <2>1, Moved
<1>8. WeakInv'
  <2>1. WalkOf(f, x)
    BY <1>0, <1>6 DEF WalkOf
  <2>2. MainType'
    BY <1>0 DEF MainType
  <2> QED BY <1>0, <1>1, <1>3, <1>6, <1>7, <2>1, <2>2, WeakStep
<1>9. ASSUME TurnInv  PROVE TurnInv'
  <2>1. OneConn' /\ KeysInv' /\ MetaInv'
    <3>1. TurnInv /\ f \in S!Calls /\ Busy(f) /\ Move(f)
      BY <1>0, <1>7, <1>9
    <3>2. CASE f # "delete"
      BY <1>0, <3>1, <3>2, Stays
    <3>3. CASE f = "delete"
      BY <1>0, <1>6, <1>7, <1>9, <3>3, ShownStays DEF TurnInv, OneConn, KeysInv, MetaInv
    <3> QED BY <3>2, <3>3
  <2>2. flows[f].then = "key" => Only(flows[f].id)
    BY <1>0, <1>9 DEF TurnInv, Course
  <2>3. Course(f)'
    BY <1>0, <1>3, <1>6, <1>7, <2>2 DEF Course, Only
  <2> QED BY <1>0, <1>6, <1>7, <1>9, <2>1, <2>3, TurnStep
<1> QED BY <1>0, <1>8, <1>9

\* What a load sets.
LEMMA LoadedType ==
    ASSUME NEW read \in SeenType
    PROVE  /\ S!Loaded(read) \in UiType /\ S!Loaded(read).conns = read.conns
           /\ S!Loaded(read).active = read.active /\ S!Loaded(read).models = None
           /\ S!Loaded(read).on = read.on
           /\ S!Loaded(read).meta # None => /\ S!Loaded(read).meta = S!ActiveOf(read)
                                            /\ S!Loaded(read).meta \in keys
<1>1. S!ActiveOf(read) \in S!Maybe(S!Ids)
  <2>1. read.conns \in Seq(S!Ids) /\ read.active \in S!Maybe(S!Ids)
    BY DEF SeenType
  <2>2. read.conns # <<>> => Head(read.conns) \in S!Ids
    BY <2>1, HeadTailProperties
  <2> QED BY <2>1, <2>2 DEF S!ActiveOf, S!Maybe
<1>2. PICK c \in S!Maybe(S!Ids) : c = S!ActiveOf(read)
  BY <1>1
<1>3. S!Loaded(read) = [conns |-> read.conns, active |-> read.active,
                        meta |-> IF c # None THEN IF c \in keys THEN c ELSE None ELSE None,
                        models |-> None, on |-> read.on, fetched |-> FALSE]
  BY <1>2 DEF S!Loaded
<1>4. None \in S!Maybe(S!Ids)
  BY DEF S!Maybe
<1> QED BY <1>2, <1>3, <1>4 DEF UiType, SeenType

\* The key's description ends a load.
LEMMA MetaStep ==
    ASSUME SetupInv, NEW f \in S!Chains, S!Meta(f)
    PROVE  SetupInv'
<1> USE DEF SetupInv
<1>0. /\ flows[f].at = "meta" /\ UNCHANGED <<tangled, crossed, acts>>
      /\ f \in S!Calls /\ Busy(f) /\ MainType
      /\ UNCHANGED <<conns, activeId, keys, consent, made>>
      /\ crossed \in BOOLEAN /\ (flows[f].seen.on => consent)
      /\ WalkOf(f, flows[f]) /\ flows[f] \in FlowType
  BY DEF S!Meta, S!main, WeakInv, WalkInv, WalkOf, Busy, SetupType, ConsentInv
<1>1. PICK read \in SeenType : read = flows[f].seen
  BY <1>0 DEF FlowType
<1>2. /\ ui' \in UiType /\ ui'.conns = read.conns /\ ui'.active = read.active
      /\ ui'.models = None /\ ui'.on = read.on
      /\ ui'.meta # None => ui'.meta = S!ActiveOf(read) /\ ui'.meta \in keys
  BY <1>1, LoadedType DEF S!Meta
<1>3. ModelsInv'
  BY <1>2 DEF ModelsInv
<1>4. PICK x \in FlowType : /\ S!Goes(f, x) /\ x.seen.on = FALSE
                            /\ \/ x.at = "idle"
                               \/ x.at = "key" /\ x.id = flows[f].id /\ flows[f].then = "key"
  <2>1. CASE flows[f].then = "idle"
    BY <2>1, IdleType DEF S!Meta
  <2>2. CASE flows[f].then # "idle"
    <3>1. flows[f].then = "key" /\ flows[f].id \in S!Maybe(S!Ids) /\ "key" \in S!Steps
      BY <1>0, <2>2 DEF WalkOf, FlowType, S!Steps
    <3>2. S!Goes(f, S!At("key", flows[f].id))
      BY <2>2, <3>1 DEF S!Meta
    <3>3. PICK y : y = S!At("key", flows[f].id)
      OBVIOUS
    <3>4. AtOf(y, "key", flows[f].id)
      BY <3>1, <3>3, AtType
    <3>5. y \in FlowType /\ y.at = "key" /\ y.id = flows[f].id /\ y.seen.on = FALSE
      BY <3>4 DEF AtOf
    <3> QED BY <3>1, <3>2, <3>3, <3>5
  <2> QED BY <2>1, <2>2
<1>5. Move(f) /\ flows'[f] = x
  BY <1>4, Moved
<1>6. WeakInv'
  <2>1. WalkOf(f, x)
    BY <1>0, <1>4 DEF WalkOf, S!Calls, S!Forms
  <2>2. MainType'
    BY <1>0 DEF MainType
  <2> QED BY <1>0, <1>1, <1>2, <1>3, <1>4, <1>5, <2>1, <2>2, WeakStep
<1>7. ASSUME TurnInv  PROVE TurnInv'
  <2>1. Course(f) /\ OneConn /\ KeysInv
    BY <1>0, <1>7 DEF TurnInv
  <2>2. Synced'
    BY <1>0, <1>1, <1>2, <2>1 DEF Course, Synced
  <2>3. OneConn' /\ KeysInv'
    <3>1. flows["delete"].at # "dropKey"
      BY <1>0, <1>7, Alone DEF S!Calls
    <3> QED BY <1>0, <2>1, <3>1 DEF OneConn, KeysInv
  <2>4. MetaInv'
    <3>1. S!ShownId' = S!ActiveOf(read)
      BY <1>2 DEF S!ShownId, S!ActiveOf, S!Contains
    <3> QED BY <1>0, <1>2, <3>1 DEF MetaInv
  <2>5. x.at # "idle" => Course(f)'
    BY <1>0, <1>4, <1>5, <2>1, <2>2 DEF Course, Only
  <2> QED BY <1>0, <1>5, <1>7, <2>2, <2>3, <2>4, <2>5, TurnStep
<1> QED BY <1>0, <1>6, <1>7

\* A key is stored, or refused.
LEMMA CredentialStep ==
    ASSUME SetupInv, NEW f \in S!Chains, S!SaveCredential(f)
    PROVE  SetupInv'
<1> USE DEF SetupInv
<1>0. /\ flows[f].at = "key" /\ UNCHANGED <<conns, activeId, consent, made, tangled, crossed, acts>>
      /\ f \in S!Calls /\ Busy(f) /\ MainType /\ ui \in UiType /\ f # "delete"
      /\ crossed \in BOOLEAN /\ (ui.on => consent) /\ (flows[f].seen.on => consent) /\ ModelsInv
      /\ WalkOf(f, flows[f]) /\ flows[f].id \in S!Ids
  BY DEF S!SaveCredential, WeakInv, WalkInv, WalkOf, Busy, SetupType, ConsentInv, S!Calls, S!Forms
<1>1. TurnInv => Synced /\ Only(flows[f].id) /\ OneConn /\ KeysInv /\ MetaInv
  BY <1>0 DEF TurnInv, Course
<1>2. CASE flows' = S!KeyRefused(f) /\ UNCHANGED <<keys, ui>>
  <2>1. S!Goes(f, S!Idle)
    BY <1>2 DEF S!KeyRefused, S!Goes
  <2>2. Move(f) /\ flows'[f] = S!Idle /\ flows'[f].at = "idle" /\ flows'[f].seen.on = FALSE
    BY <2>1, Moved, IdleType
  <2>3. WeakInv'
    <3>1. WalkOf(f, flows'[f])
      BY <2>2 DEF WalkOf
    <3>2. MainType' /\ ModelsInv'
      BY <1>0, <1>2, ModelsStay DEF MainType
    <3> QED BY <1>0, <1>2, <2>2, <3>1, <3>2, WeakStep
  <2>4. ASSUME TurnInv  PROVE TurnInv'
    <3>1. OneConn' /\ KeysInv' /\ MetaInv'
      BY <1>0, <1>2, <2>2, <2>4, Stays
    <3>2. Synced'
      BY <1>0, <1>1, <1>2, <2>4 DEF Synced
    <3> QED BY <1>0, <2>2, <2>4, <3>1, <3>2, TurnStep
  <2> QED BY <1>0, <2>3, <2>4
<1>3. CASE /\ keys' = keys \union {flows[f].id}
           /\ ui' = [ui EXCEPT !.meta = flows[f].id, !.models = None, !.fetched = FALSE]
           /\ S!Goes(f, IF ui.on THEN S!AfterKey(f) ELSE S!To(f, "enable"))
  <2>1. /\ ui' \in UiType /\ ui'.conns = ui.conns /\ ui'.active = ui.active /\ ui'.on = ui.on
        /\ ui'.meta = flows[f].id /\ ui'.models = None
    BY <1>0, <1>3 DEF UiType, S!Maybe
  <2>2. PICK x \in FlowType : /\ S!Goes(f, x) /\ x.seen.on \in {FALSE, flows[f].seen.on}
                              /\ \/ x.at = "idle"
                                 \/ x.at = "ask" /\ f \in S!Forms /\ x.id = flows[f].id
                                 \/ x.at = "enable" /\ x.id = flows[f].id
    <3>1. CASE S!Goes(f, S!To(f, "enable"))
      <4>1. "enable" \in S!Steps
        BY DEF S!Steps
      <4>2. PICK y : y = S!To(f, "enable")
        OBVIOUS
      <4>3. y \in FlowType /\ y.at = "enable" /\ y.id = flows[f].id /\ y.seen.on = flows[f].seen.on
        BY <4>1, <4>2, ToType
      <4> QED BY <3>1, <4>2, <4>3
    <3>2. CASE S!Goes(f, S!To(f, "ask")) /\ f \in S!Forms
      <4>1. "ask" \in S!Steps
        BY DEF S!Steps
      <4>2. PICK y : y = S!To(f, "ask")
        OBVIOUS
      <4>3. y \in FlowType /\ y.at = "ask" /\ y.id = flows[f].id /\ y.seen.on = flows[f].seen.on
        BY <4>1, <4>2, ToType
      <4> QED BY <3>2, <4>2, <4>3
    <3>3. CASE S!Goes(f, S!Idle)
      BY <3>3, IdleType
    <3> QED BY <1>3, <3>1, <3>2, <3>3 DEF S!AfterKey
  <2>3. Move(f) /\ flows'[f] = x
    BY <2>2, Moved
  <2>4. WeakInv'
    <3>1. WalkOf(f, x)
      BY <1>0, <2>2 DEF WalkOf, S!Calls, S!Forms
    <3>2. MainType'
      BY <1>0, <1>3 DEF MainType
    <3>3. ModelsInv'
      BY <2>1 DEF ModelsInv
    <3> QED BY <1>0, <2>1, <2>2, <2>3, <3>1, <3>2, <3>3, WeakStep
  <2>5. ASSUME TurnInv  PROVE TurnInv'
    <3>1. Synced' /\ OneConn' /\ Only(flows[f].id)
      BY <1>0, <1>1, <2>1, <2>5 DEF Synced, OneConn
    <3>2. flows'["delete"] = flows["delete"]
      BY <1>0, <2>3 DEF Move, S!Chains, S!Calls
    <3>3. KeysInv'
      BY <1>0, <1>1, <1>3, <2>5, <3>1, <3>2 DEF KeysInv, Only
    <3>4. S!ShownId' = flows[f].id
      <4>1. S!ActiveOf(ui) = flows[f].id
        BY <1>0, <1>1, <2>5, ActiveShown DEF Synced, Only
      <4> QED BY <2>1, <4>1, ShownStays DEF S!ShownId
    <3>5. MetaInv'
      BY <1>3, <2>1, <3>4 DEF MetaInv
    <3>6. x.at # "idle" => Course(f)'
      <4>1. flows[f].id \in keys' /\ conns' = <<flows[f].id>> /\ activeId' = flows[f].id
        BY <1>0, <1>3, <3>1 DEF Only
      <4> QED BY <2>2, <2>3, <3>1, <4>1 DEF Course, Only
    <3> QED BY <1>0, <2>3, <2>5, <3>1, <3>3, <3>5, <3>6, TurnStep
  <2> QED BY <1>0, <2>4, <2>5
<1> QED BY <1>2, <1>3 DEF S!SaveCredential

\* The consent: by a call that has stored a key, or by the panel itself.
LEMMA ConsentStep ==
    ASSUME SetupInv, NEW f \in S!Chains, S!SetAiEnabled(f)
    PROVE  SetupInv'
<1> USE DEF SetupInv
<1>0. /\ flows[f].at = "enable" /\ UNCHANGED <<conns, activeId, keys, made, tangled, crossed, acts>>
      /\ MainType /\ ui \in UiType /\ crossed \in BOOLEAN /\ ModelsInv
      /\ consent' = TRUE /\ ui' = [ui EXCEPT !.on = TRUE]
      /\ WalkOf(f, flows[f])
  BY DEF S!SetAiEnabled, WeakInv, WalkInv, SetupType
<1>1. /\ ui' \in UiType /\ ui'.conns = ui.conns /\ ui'.active = ui.active /\ ui'.meta = ui.meta
      /\ ui'.models = ui.models
  BY <1>0 DEF UiType
<1>2. PICK x \in FlowType : /\ S!Goes(f, x)
                            /\ \/ x.at = "idle"
                               \/ x.at = "ask" /\ f \in S!Forms /\ x.id = flows[f].id
  <2>1. CASE f \in S!Forms
    <3>1. "ask" \in S!Steps
      BY DEF S!Steps
    <3>2. PICK y : y = S!To(f, "ask")
      OBVIOUS
    <3>3. y \in FlowType /\ y.at = "ask" /\ y.id = flows[f].id
      BY <3>1, <3>2, ToType
    <3> QED BY <2>1, <3>2, <3>3 DEF S!SetAiEnabled
  <2>2. CASE f \notin S!Forms
    BY <2>2, IdleType DEF S!SetAiEnabled
  <2> QED BY <2>1, <2>2
<1>3. Move(f) /\ flows'[f] = x
  BY <1>2, Moved
<1>4. WeakInv'
  <2>1. WalkOf(f, x)
    BY <1>0, <1>2 DEF WalkOf, S!Calls, S!Forms
  <2>2. MainType' /\ ModelsInv'
    BY <1>0, <1>1, ModelsStay DEF MainType
  <2> QED BY <1>0, <1>1, <1>3, <2>1, <2>2, WeakStep
<1>5. ASSUME TurnInv  PROVE TurnInv'
  <2>1. CASE f \in S!Calls
    <3>1. f # "delete" /\ Busy(f)
      BY <1>0 DEF WalkOf, S!Forms, Busy
    <3>2. OneConn' /\ KeysInv' /\ MetaInv'
      BY <1>0, <1>1, <1>3, <1>5, <2>1, <3>1, Stays
    <3>3. Synced
      BY <1>0, <1>5, <2>1, <3>1 DEF TurnInv, Course
    <3>4. Synced'
      BY <1>0, <1>1, <3>3 DEF Synced
    <3>5. x.at # "idle" => Course(f)'
      BY <1>2, <1>3, <3>4 DEF Course
    <3> QED BY <1>3, <1>5, <2>1, <3>1, <3>2, <3>4, <3>5, TurnStep
  <2>2. CASE f \in S!Effects
    BY <1>0, <1>1, <1>3, <1>5, <2>2, EffectTurn
  <2> QED BY <2>1, <2>2 DEF S!Chains
<1> QED BY <1>0, <1>4, <1>5

\* The models: asked for by a form, or by the screens themselves.
LEMMA ModelsStep ==
    ASSUME SetupInv, NEW f \in S!Chains, S!AskModels(f) \/ S!ModelsAnswer(f)
    PROVE  SetupInv'
<1> USE DEF SetupInv
<1>0. /\ flows[f].at \in {"ask", "models"}
      /\ UNCHANGED <<conns, activeId, keys, consent, made, tangled, acts>>
      /\ MainType /\ ui \in UiType /\ crossed \in BOOLEAN /\ ModelsInv
      /\ (ui.on => consent) /\ (flows[f].seen.on => consent)
      /\ WalkOf(f, flows[f]) /\ flows[f].id \in S!Ids
  BY DEF S!AskModels, S!ModelsAnswer, S!main, WeakInv, WalkInv, WalkOf, SetupType, ConsentInv
<1>1. PICK m \in {ui.models, None, flows[f].id} :
          /\ ui' = [ui EXCEPT !.models = m] /\ crossed' \in BOOLEAN
          /\ \/ m = ui.models /\ crossed' = crossed
             \/ m = None
             \/ m = flows[f].id /\ (crossed' \/ flows[f].id = S!ShownId)
  <2>1. ui = [ui EXCEPT !.models = ui.models]
    BY <1>0 DEF UiType
  <2>2. CASE S!AskModels(f)
    <3>1. CASE ui' = ui /\ crossed' = crossed
      BY <1>0, <2>1, <3>1
    <3>2. CASE ui' = [ui EXCEPT !.models = None] /\ crossed' = crossed
      BY <1>0, <3>2
    <3> QED BY <2>2, <3>1, <3>2 DEF S!AskModels
  <2>3. CASE S!ModelsAnswer(f)
    <3>1. CASE ui' = [ui EXCEPT !.models = None] /\ crossed' = crossed
      BY <1>0, <3>1
    <3>2. CASE /\ ui' = [ui EXCEPT !.models = flows[f].id]
               /\ crossed' = (crossed \/ flows[f].id # S!ShownId)
      <4>1. crossed' \in BOOLEAN /\ (crossed' \/ flows[f].id = S!ShownId)
        BY <3>2
      <4> QED BY <3>2, <4>1
    <3> QED BY <2>3, <3>1, <3>2 DEF S!ModelsAnswer
  <2> QED BY <2>2, <2>3
<1>2. /\ ui' \in UiType /\ ui'.conns = ui.conns /\ ui'.active = ui.active /\ ui'.meta = ui.meta
      /\ ui'.on = ui.on /\ ui'.models = m
  BY <1>0, <1>1 DEF UiType, S!Maybe
<1>3. PICK x \in FlowType : /\ S!Goes(f, x) /\ x.seen.on \in {FALSE, flows[f].seen.on}
                            /\ \/ x.at = "idle"
                               \/ x.at = "models" /\ x.id = flows[f].id
                               \/ x.at = "model" /\ f \in S!Forms /\ x.id = flows[f].id
  <2>1. CASE S!Goes(f, S!Idle)
    BY <2>1, IdleType
  <2>2. ASSUME NEW step \in {"models", "model"}, S!Goes(f, S!To(f, step)),
               step = "model" => f \in S!Forms
        PROVE  \E x \in FlowType : /\ S!Goes(f, x) /\ x.seen.on \in {FALSE, flows[f].seen.on}
                            /\ \/ x.at = "idle"
                               \/ x.at = "models" /\ x.id = flows[f].id
                               \/ x.at = "model" /\ f \in S!Forms /\ x.id = flows[f].id
    <3>1. step \in S!Steps
      BY DEF S!Steps
    <3>2. PICK y : y = S!To(f, step)
      OBVIOUS
    <3>3. y \in FlowType /\ y.at = step /\ y.id = flows[f].id /\ y.seen.on = flows[f].seen.on
      BY <3>1, <3>2, ToType
    <3> QED BY <2>2, <3>2, <3>3
  <2>3. \/ S!Goes(f, S!Idle) \/ S!Goes(f, S!To(f, "models"))
        \/ S!Goes(f, S!To(f, "model")) /\ f \in S!Forms
    BY DEF S!AskModels, S!ModelsAnswer
  <2> QED BY <2>1, <2>2, <2>3
<1>4. Move(f) /\ flows'[f] = x
  BY <1>3, Moved
<1>5. WeakInv'
  <2>1. WalkOf(f, x)
    BY <1>0, <1>3 DEF WalkOf, S!Calls, S!Forms
  <2>2. MainType'
    BY <1>0 DEF MainType
  <2>3. ModelsInv'
    BY <1>0, <1>1, <1>2, ShownStays DEF ModelsInv
  <2> QED BY <1>0, <1>1, <1>2, <1>3, <1>4, <2>1, <2>2, <2>3, WeakStep
<1>6. ASSUME TurnInv  PROVE TurnInv'
  <2>1. CASE f \in S!Calls
    <3>1. f # "delete" /\ Busy(f)
      BY <1>0, <2>1 DEF WalkOf, S!Forms, Busy
    <3>2. OneConn' /\ KeysInv' /\ MetaInv'
      BY <1>0, <1>2, <1>4, <1>6, <2>1, <3>1, Stays
    <3>3. Synced
      BY <1>0, <1>6, <2>1, <3>1 DEF TurnInv, Course
    <3>4. Synced'
      BY <1>0, <1>2, <3>3 DEF Synced
    <3>5. x.at # "idle" => Course(f)'
      BY <1>3, <1>4, <3>4 DEF Course
    <3> QED BY <1>4, <1>6, <2>1, <3>1, <3>2, <3>4, <3>5, TurnStep
  <2>2. CASE f \in S!Effects
    BY <1>0, <1>2, <1>4, <1>6, <2>2, EffectTurn
  <2> QED BY <2>1, <2>2 DEF S!Chains
<1> QED BY <1>0, <1>5, <1>6

\* The one connection goes, or none does.
LEMMA WithoutType ==
    ASSUME conns \in Seq(S!Ids), NEW c, S!Contains(conns, c)
    PROVE  S!Without(c) \in Seq(S!Ids) /\ (conns = <<c>> => S!Without(c) = <<>>)
<1>1. PICK i \in 1..Len(conns) : i = CHOOSE k \in 1..Len(conns) : conns[k] = c
  BY DEF S!Contains
<1>2. S!Without(c) = SubSeq(conns, 1, i - 1) \o SubSeq(conns, i + 1, Len(conns))
  BY <1>1 DEF S!Without, S!RemoveAt
<1>3. S!Without(c) \in Seq(S!Ids)
  <2>1. Len(conns) \in Nat /\ i \in 1..Len(conns)
    OBVIOUS
  <2>2. SubSeq(conns, 1, i - 1) \in Seq(S!Ids) /\ SubSeq(conns, i + 1, Len(conns)) \in Seq(S!Ids)
    BY <2>1
  <2> QED BY <1>2, <2>2
<1>4. ASSUME conns = <<c>>  PROVE S!Without(c) = <<>>
  <2>1. Len(conns) = 1 /\ i = 1
    BY <1>4
  <2>2. SubSeq(conns, 1, 0) = <<>> /\ SubSeq(conns, 2, 1) = <<>>
    BY <1>4
  <2>3. S!Without(c) = <<>> \o <<>>
    BY <1>2, <2>1, <2>2
  <2> QED BY <2>3
<1> QED BY <1>3, <1>4

\* delete: the only connection goes, and its key is next.
LEMMA DeleteStep ==
    ASSUME SetupInv, NEW f \in S!Chains, S!DeleteConnection(f)
    PROVE  SetupInv'
<1> USE DEF SetupInv
<1>0. /\ flows[f].at = "delete" /\ UNCHANGED <<ui, keys, consent, made, tangled, crossed, acts>>
      /\ f = "delete" /\ f \in S!Calls /\ Busy(f) /\ MainType /\ ui \in UiType
      /\ crossed \in BOOLEAN /\ (ui.on => consent) /\ (flows[f].seen.on => consent) /\ ModelsInv
      /\ flows[f].id \in S!Ids /\ flows[f].id # None
  BY SetupAssumption
     DEF S!DeleteConnection, WeakInv, WalkInv, WalkOf, Busy, SetupType, ConsentInv, S!Calls, S!Ids
<1>1. ModelsInv'
  BY <1>0, ModelsStay
<1>2. CASE /\ S!Contains(conns, flows[f].id) /\ conns' = S!Without(flows[f].id)
           /\ activeId' = IF activeId = flows[f].id THEN None ELSE activeId
           /\ S!Goes(f, S!To(f, "dropKey"))
  <2>1. PICK x : x = S!To(f, "dropKey")
    OBVIOUS
  <2>2. /\ x \in FlowType /\ x.at = "dropKey" /\ x.id = flows[f].id /\ x.seen.on = flows[f].seen.on
    <3>1. "dropKey" \in S!Steps
      BY DEF S!Steps
    <3> QED BY <2>1, <3>1, ToType
  <2>3. Move(f) /\ flows'[f] = x
    BY <1>2, <2>1, <2>2, Moved
  <2>4. conns' \in Seq(S!Ids) /\ (conns = <<flows[f].id>> => conns' = <<>>)
    BY <1>0, <1>2, WithoutType DEF MainType
  <2>5. WeakInv'
    <3>1. WalkOf(f, x)
      BY <1>0, <2>2 DEF WalkOf, S!Forms
    <3>2. MainType'
      BY <1>0, <1>2, <2>4 DEF MainType, S!Maybe
    <3> QED BY <1>0, <1>1, <2>2, <2>3, <3>1, <3>2, WeakStep
  <2>6. ASSUME TurnInv  PROVE TurnInv'
    <3>1. Only(flows[f].id) /\ KeysInv /\ MetaInv
      BY <1>0, <2>6 DEF TurnInv, Course
    <3>2. conns' = <<>> /\ activeId' = None
      BY <1>2, <2>4, <3>1 DEF Only
    <3>3. \A k \in keys : k = flows[f].id
      <4>1. \A v, w : <<v>> = <<w>> => v = w
        OBVIOUS
      <4> QED BY <1>0, <3>1, <4>1 DEF KeysInv, Only
    <3>4. OneConn' /\ KeysInv'
      BY <1>0, <2>2, <2>3, <3>2, <3>3 DEF OneConn, KeysInv
    <3>5. MetaInv'
      BY <1>0, <3>1, ShownStays DEF MetaInv
    <3>6. Course(f)'
      BY <2>2, <2>3, <3>2 DEF Course
    <3> QED BY <1>0, <2>2, <2>3, <2>6, <3>4, <3>5, <3>6, TurnStep
  <2> QED BY <1>0, <2>5, <2>6
<1>3. CASE ~ S!Contains(conns, flows[f].id) /\ S!Goes(f, S!Idle) /\ UNCHANGED <<conns, activeId>>
  <2>1. Move(f) /\ flows'[f] = S!Idle /\ flows'[f].at = "idle" /\ flows'[f].seen.on = FALSE
    BY <1>3, Moved, IdleType
  <2>2. WeakInv'
    <3>1. WalkOf(f, flows'[f])
      BY <2>1 DEF WalkOf
    <3>2. MainType'
      BY <1>0, <1>3 DEF MainType
    <3> QED BY <1>0, <1>1, <2>1, <3>1, <3>2, WeakStep
  <2>3. ~ TurnInv
    <3>1. \A v : Len(<<v>>) = 1 /\ <<v>>[1] = v
      OBVIOUS
    <3> QED BY <1>0, <1>3, <3>1 DEF TurnInv, Course, Only, S!Contains
  <2> QED BY <1>0, <2>2, <2>3
<1> QED BY <1>0, <1>2, <1>3 DEF S!DeleteConnection

\* The key goes after its connection.
LEMMA DropStep ==
    ASSUME SetupInv, NEW f \in S!Chains, S!DropKey(f)
    PROVE  SetupInv'
<1> USE DEF SetupInv
<1>0. /\ flows[f].at = "dropKey" /\ UNCHANGED <<conns, activeId, consent, made, ui, tangled, crossed, acts>>
      /\ keys' = keys \ {flows[f].id}
      /\ f = "delete" /\ f \in S!Calls /\ Busy(f) /\ MainType /\ ui \in UiType
      /\ crossed \in BOOLEAN /\ (ui.on => consent) /\ ModelsInv
      /\ flows[f].id \in S!Maybe(S!Ids)
  BY DEF S!DropKey, WeakInv, WalkInv, WalkOf, Busy, SetupType, ConsentInv, S!Calls, FlowType
<1>1. PICK x : x = S!Load(f, flows[f].id, "idle")
  OBVIOUS
<1>2. x \in FlowType /\ x.at = "list" /\ x.then = "idle" /\ x.seen.on = FALSE
  <2>1. "idle" \in S!Steps
    BY DEF S!Steps
  <2>2. LoadOf(x, flows[f].id, "idle")
    BY <1>0, <1>1, <2>1, LoadType
  <2> QED BY <2>2 DEF LoadOf
<1>3. Move(f) /\ flows'[f] = x
  BY <1>1, <1>2, Moved DEF S!DropKey
<1>4. WeakInv'
  <2>1. WalkOf(f, x)
    BY <1>0, <1>2 DEF WalkOf, S!Forms
  <2>2. MainType'
    BY <1>0 DEF MainType
  <2>3. ModelsInv'
    BY <1>0, ModelsStay
  <2> QED BY <1>0, <1>2, <1>3, <2>1, <2>2, <2>3, WeakStep
<1>5. ASSUME TurnInv  PROVE TurnInv'
  <2>1. conns = <<>> /\ OneConn /\ KeysInv /\ MetaInv
    BY <1>0, <1>5 DEF TurnInv, Course
  <2>2. OneConn'
    BY <1>0, <2>1 DEF OneConn
  <2>3. keys' = {}
    <3>1. \A v : <<v>> # <<>>
      OBVIOUS
    <3> QED BY <1>0, <2>1, <3>1 DEF KeysInv
  <2>4. KeysInv'
    BY <2>3 DEF KeysInv
  <2>5. MetaInv'
    BY <1>0, <1>2, <1>3, <2>1, ShownStays DEF MetaInv
  <2>6. Course(f)'
    BY <1>2, <1>3 DEF Course
  <2> QED BY <1>0, <1>2, <1>3, <1>5, <2>2, <2>4, <2>5, <2>6, TurnStep
<1> QED BY <1>0, <1>4, <1>5

\* The connection shown is one of those there are.
LEMMA ShownType ==
    ASSUME SetupInv
    PROVE  S!ShownId \in S!Maybe(S!Ids)
<1>1. ui.conns \in Seq(S!Ids) /\ ui.active \in S!Maybe(S!Ids)
  BY DEF SetupInv, WeakInv, SetupType, UiType
<1>2. ui.conns # <<>> => Head(ui.conns) \in S!Ids
  BY <1>1, HeadTailProperties
<1> QED BY <1>1, <1>2 DEF S!ShownId, S!ActiveOf, S!Maybe

\* The panels ask for models and turn AI on by themselves.
LEMMA EffectSteps ==
    ASSUME SetupInv, S!FetchModels \/ S!EnableEffect
    PROVE  SetupInv'
<1> USE DEF SetupInv
<1>0. /\ UNCHANGED <<conns, activeId, keys, consent, made, tangled, crossed, acts>>
      /\ MainType /\ ui \in UiType /\ crossed \in BOOLEAN /\ (ui.on => consent) /\ ModelsInv
  BY DEF S!FetchModels, S!EnableEffect, S!main, WeakInv, SetupType, ConsentInv
<1>1. PICK f \in S!Effects, x \in FlowType :
         /\ S!Goes(f, x) /\ WalkOf(f, x) /\ x.seen.on = FALSE
  <2>1. CASE S!FetchModels
    <3>1. S!ShownId \in S!Ids
      BY <2>1, ShownType DEF S!FetchModels, S!WantsModels, S!Ready, S!Maybe
    <3>2. "ask" \in S!Steps /\ S!ShownId \in S!Maybe(S!Ids)
      BY <3>1 DEF S!Steps, S!Maybe
    <3>3. PICK y : y = S!At("ask", S!ShownId)
      OBVIOUS
    <3>4. AtOf(y, "ask", S!ShownId)
      BY <3>2, <3>3, AtType
    <3>5. y \in FlowType /\ y.at = "ask" /\ y.id \in S!Ids /\ y.seen.on = FALSE
      BY <3>1, <3>4 DEF AtOf
    <3>6. WalkOf("fetch", y)
      BY <3>5 DEF WalkOf, S!Forms
    <3>7. "fetch" \in S!Effects /\ S!Goes("fetch", y)
      BY <2>1, <3>3 DEF S!FetchModels, S!Effects
    <3> QED BY <3>5, <3>6, <3>7
  <2>2. CASE S!EnableEffect
    <3>1. "enable" \in S!Steps /\ None \in S!Maybe(S!Ids)
      BY DEF S!Steps, S!Maybe
    <3>2. PICK y : y = S!At("enable", None)
      OBVIOUS
    <3>3. AtOf(y, "enable", None)
      BY <3>1, <3>2, AtType
    <3>4. y \in FlowType /\ y.at = "enable" /\ y.seen.on = FALSE
      BY <3>3 DEF AtOf
    <3>5. WalkOf("enable", y)
      BY <3>4 DEF WalkOf, S!Forms
    <3>6. "enable" \in S!Effects /\ S!Goes("enable", y)
      BY <2>2, <3>2 DEF S!EnableEffect, S!Effects
    <3> QED BY <3>4, <3>5, <3>6
  <2> QED BY <2>1, <2>2
<1>2. f \in S!Chains /\ Move(f) /\ flows'[f] = x
  BY <1>1, Moved DEF S!Chains
<1>3. /\ ui' \in UiType /\ ui'.conns = ui.conns /\ ui'.active = ui.active /\ ui'.meta = ui.meta
      /\ ui'.on = ui.on /\ ui'.models = ui.models
  BY <1>0 DEF S!FetchModels, S!EnableEffect, UiType
<1>4. WeakInv'
  <2>1. MainType' /\ ModelsInv'
    BY <1>0, <1>3, ModelsStay DEF MainType
  <2> QED BY <1>0, <1>1, <1>2, <1>3, <2>1, WeakStep
<1>5. TurnInv => TurnInv'
  BY <1>0, <1>1, <1>2, <1>3, EffectTurn
<1> QED BY <1>0, <1>4, <1>5

\* A call of the user: at its beginning, what it acts on is what is shown.
Starts(f, x) ==
    /\ x \in FlowType /\ WalkOf(f, x) /\ x.seen.on = FALSE
    /\ x.at \in {"create", "update", "key", "delete", "model", "list"}
    /\ x.at = "create" => S!ShownId = None
    /\ x.at \in {"update", "key", "delete"} => x.id = S!ShownId /\ S!ShownId # None
    /\ x.at = "list" => x.then = "idle"

\* The user begins a call while none is under way, or the calls are tangled from then on.
LEMMA ActStep ==
    ASSUME SetupInv, NEW f \in S!Calls, NEW x, Starts(f, x), S!Act(f, x)
    PROVE  SetupInv'
<1> USE DEF SetupInv
<1>0. /\ ~ tangled /\ acts < MaxActs /\ acts' = acts + 1 /\ acts \in 0..MaxActs
      /\ tangled' = (tangled \/ \E g \in S!Calls : Busy(g))
      /\ UNCHANGED <<conns, activeId, keys, consent, made, ui, crossed>>
      /\ MainType /\ ui \in UiType /\ crossed \in BOOLEAN /\ ModelsInv /\ WalkInv /\ ConsentInv
  BY DEF S!Act, S!IdleFlow, S!main, Busy, WeakInv, SetupType
<1>1. Move(f) /\ flows'[f] = x /\ f \in S!Chains
  <2>1. S!Goes(f, x) /\ f \in S!Chains
    BY DEF S!Act, S!Goes, S!Chains
  <2> QED BY <2>1, Moved DEF Starts
<1>2. WeakInv'
  <2>1. acts' \in 0..MaxActs
    BY <1>0, SetupAssumption
  <2>2. tangled' \in BOOLEAN
    BY <1>0
  <2>3. MainType' /\ ModelsInv'
    BY <1>0, ModelsStay DEF MainType
  <2>4. SetupType'
    BY <1>0, <1>1, <2>1, <2>2, <2>3 DEF SetupType, Move
  <2>5. WalkInv' /\ ConsentInv'
    BY <1>0, <1>1 DEF Move, Starts, WalkInv, ConsentInv
  <2> QED BY <2>3, <2>4, <2>5 DEF WeakInv
<1>3. ASSUME ~ tangled'  PROVE TurnInv'
  <2>1. \A g \in S!Calls : ~ Busy(g)
    BY <1>0, <1>3
  <2>2. Synced /\ OneConn /\ KeysInv /\ MetaInv
    BY <1>0, <2>1 DEF TurnInv
  <2>3. \A g \in S!Calls \ {f} : flows'[g].at = "idle"
    BY <1>1, <2>1 DEF Move, Busy, S!Chains
  <2>4. flows'[f].at # "idle" /\ flows'[f].at # "dropKey"
    BY <1>1 DEF Starts
  <2>5. OneCall' /\ (\A g \in S!Calls : ~Busy(g))' => Synced'
    BY <2>3, <2>4 DEF OneCall, Busy
  <2>6. OneConn'
    BY <1>0, <2>2 DEF OneConn
  <2>7. flows["delete"].at = "idle"
    BY <2>1 DEF S!Calls, Busy
  <2>8. KeysInv' /\ MetaInv'
    BY <1>0, <2>2, <2>7, ShownStays DEF KeysInv, MetaInv
  <2>9. Course(f)'
    <3>1. Synced'
      BY <1>0, <2>2 DEF Synced
    <3>2. CASE S!ShownId = None
      <4>1. activeId \in S!Ids /\ conns = <<activeId>> => S!ShownId = activeId
        BY <2>2, ActiveShown DEF Synced, S!ShownId
      <4>2. conns = <<>>
        BY <2>2, <3>2, <4>1, SetupAssumption DEF OneConn, S!Ids
      <4> QED BY <1>0, <1>1, <3>1, <3>2, <4>2 DEF Course, Starts
    <3>3. CASE S!ShownId # None
      <4>1. activeId \in S!Ids /\ conns = <<activeId>>
        BY <2>2, <3>3, NoneShown DEF Synced, S!ShownId, OneConn
      <4>2. S!ShownId = activeId
        BY <2>2, <4>1, ActiveShown DEF Synced, S!ShownId
      <4> QED BY <1>0, <1>1, <3>1, <3>3, <4>1, <4>2 DEF Course, Starts, Only
    <3> QED BY <3>2, <3>3
  <2>10. (\A g \in S!Calls : Busy(g) => Course(g))'
    BY <2>3, <2>9 DEF Busy
  <2> QED BY <2>3, <2>4, <2>5, <2>6, <2>8, <2>10 DEF TurnInv, OneCall, Busy
<1> QED BY <1>2, <1>3

\* The acts of the user, from what is shown.
LEMMA UserSteps ==
    ASSUME SetupInv,
           S!SaveSetup \/ S!SaveInline \/ S!SaveKey \/ S!PickModel \/ S!Delete \/ S!Mount
    PROVE  SetupInv'
<1>0. S!ShownId \in S!Maybe(S!Ids) /\ None \in S!Maybe(S!Ids)
  BY ShownType DEF S!Maybe
<1>1. ASSUME NEW step \in {"create", "update", "key", "delete", "model"}, NEW f \in S!Calls,
             NEW id \in S!Maybe(S!Ids), NEW x, x = S!At(step, id),
             step = "create" => S!ShownId = None /\ f \in S!Forms,
             step # "create" => id = S!ShownId /\ S!ShownId # None,
             step = "update" => f = "inline", step = "key" => f = "key",
             step = "delete" => f = "delete", step = "model" => f = "model"
      PROVE  Starts(f, x)
  <2>1. step \in S!Steps
    BY DEF S!Steps
  <2>2. AtOf(x, step, id)
    BY <1>1, <2>1, AtType
  <2>3. step # "create" => id \in S!Ids
    BY <1>1 DEF S!Maybe
  <2>4. x \in FlowType /\ x.at = step /\ x.id = id /\ x.seen.on = FALSE
    BY <2>2 DEF AtOf
  <2>5. WalkOf(f, x)
    BY <1>1, <2>3, <2>4 DEF WalkOf, S!Forms
  <2> QED BY <1>1, <2>3, <2>4, <2>5 DEF Starts
<1> USE <1>0
<1>2. CASE S!SaveSetup
  <2>1. Starts("setup", S!At("create", None))
    BY <1>1, <1>2 DEF S!SaveSetup, S!Calls, S!Forms
  <2> QED BY <1>2, <2>1, ActStep DEF S!SaveSetup, S!Calls, S!Forms
<1>3. CASE S!SaveInline
  <2>1. Starts("inline", S!InlineStart)
    <3>1. CASE S!ShownId = None
      <4>1. Starts("inline", S!At("create", None))
        BY <1>1, <3>1 DEF S!Calls, S!Forms
      <4> QED BY <3>1, <4>1 DEF S!InlineStart
    <3>2. CASE S!ShownId # None
      <4>1. Starts("inline", S!At("update", S!ShownId))
        BY <1>1, <3>2 DEF S!Calls, S!Forms
      <4> QED BY <3>2, <4>1 DEF S!InlineStart
    <3> QED BY <3>1, <3>2
  <2> QED BY <1>3, <2>1, ActStep DEF S!SaveInline, S!Calls, S!Forms
<1>4. CASE S!SaveKey
  <2>1. Starts("key", S!At("key", S!ShownId))
    BY <1>1, <1>4 DEF S!SaveKey, S!Calls
  <2> QED BY <1>4, <2>1, ActStep DEF S!SaveKey, S!Calls
<1>5. CASE S!PickModel
  <2>1. PICK y : y = S!At("model", S!ShownId)
    OBVIOUS
  <2>2. Starts("model", y) /\ y.then = "idle"
    <3>1. Starts("model", y)
      BY <1>1, <1>5, <2>1 DEF S!PickModel, S!Calls
    <3>2. "model" \in S!Steps
      BY DEF S!Steps
    <3>3. AtOf(y, "model", S!ShownId)
      BY <2>1, <3>2, AtType
    <3> QED BY <3>1, <3>3 DEF AtOf
  <2>3. [y EXCEPT !.then = "idle"] = y
    BY <2>2 DEF Starts, FlowType
  <2>4. S!Act("model", y)
    BY <1>5, <2>1, <2>3 DEF S!PickModel
  <2> QED BY <2>2, <2>4, ActStep DEF S!Calls
<1>6. CASE S!Delete
  <2>1. Starts("delete", S!At("delete", S!ShownId))
    BY <1>1, <1>6 DEF S!Delete, S!Calls
  <2> QED BY <1>6, <2>1, ActStep DEF S!Delete, S!Calls
<1>7. CASE S!Mount
  <2>1. Starts("mount", S!Loading)
    BY LoadingType DEF Starts, WalkOf, S!Calls, S!Forms
  <2> QED BY <1>7, <2>1, ActStep DEF S!Mount, S!Calls
<1> QED BY <1>2, <1>3, <1>4, <1>5, <1>6, <1>7

\* The program ends, and starts again by loading; a delete may be cut in two.
LEMMA RestartStep ==
    ASSUME SetupInv, S!Restart
    PROVE  SetupInv'
<1> USE DEF SetupInv
<1>0. /\ ~ tangled /\ acts < MaxActs /\ acts' = acts + 1 /\ acts \in 0..MaxActs
      /\ tangled' = (tangled \/ flows["delete"].at = "dropKey")
      /\ UNCHANGED <<conns, activeId, keys, consent, made, crossed>> /\ ui' = S!Blank
      /\ flows' = [f \in S!Chains |-> IF f = "mount" THEN S!Loading ELSE S!Idle]
      /\ MainType /\ crossed \in BOOLEAN
  BY DEF S!Restart, S!main, WeakInv, SetupType
<1>1. /\ flows' \in [S!Chains -> FlowType] /\ flows'["mount"] = S!Loading
      /\ \A f \in S!Chains \ {"mount"} : flows'[f] = S!Idle
  BY <1>0, IdleType, LoadingType DEF S!Chains, S!Calls
<1>2. WeakInv'
  <2>1. acts' \in 0..MaxActs
    BY <1>0, SetupAssumption
  <2>2. tangled' \in BOOLEAN
    BY <1>0
  <2>3. MainType'
    BY <1>0 DEF MainType
  <2>4. SetupType'
    BY <1>0, <1>1, <2>1, <2>2, <2>3, BlankType DEF SetupType
  <2>5. WalkInv'
    BY <1>1, IdleType, LoadingType DEF WalkInv, WalkOf, S!Calls, S!Forms
  <2>6. ConsentInv' /\ ModelsInv'
    BY <1>0, <1>1, IdleType, LoadingType, BlankType DEF ConsentInv, ModelsInv
  <2> QED BY <2>4, <2>5, <2>6 DEF WeakInv
<1>3. ASSUME ~ tangled'  PROVE TurnInv'
  <2>1. OneConn /\ KeysInv /\ flows["delete"].at # "dropKey"
    BY <1>0, <1>3 DEF TurnInv
  <2>2. OneConn' /\ KeysInv' /\ MetaInv'
    BY <1>0, <2>1, BlankType DEF OneConn, KeysInv, MetaInv
  <2>3. OneCall' /\ (\A f \in S!Calls : Busy(f) => Course(f))'
    BY <1>1, IdleType, LoadingType DEF OneCall, Busy, Course, S!Chains
  <2>4. Busy("mount")' /\ "mount" \in S!Calls
    BY <1>1, LoadingType DEF Busy, S!Calls
  <2> QED BY <2>2, <2>3, <2>4 DEF TurnInv
<1> QED BY <1>2, <1>3

\* Every step of AiSetup keeps the invariant.
LEMMA NextSetup ==
    ASSUME SetupInv, S!Next
    PROVE  SetupInv'
BY CreateStep, UpdateStep, ListStep, MetaStep, CredentialStep, ConsentStep, ModelsStep, DeleteStep,
   DropStep, EffectSteps, UserSteps, RestartStep
   DEF S!Next, S!Answers

\* The settings and the sign-ins are no part of it.
LEMMA UnchangedSetup ==
    ASSUME SetupInv, UNCHANGED setupVars
    PROVE  SetupInv'
<1>1. S!ShownId' = S!ShownId
  BY ShownStays DEF setupVars
<1> QED BY <1>1
        DEF setupVars, SetupInv, WeakInv, SetupType, MainType, WalkInv, ConsentInv, ModelsInv, TurnInv,
            OneCall, OneConn, KeysInv, MetaInv, Course, Busy, Synced, Only

\* The invariant gives each part of the property.
LEMMA SetupTells ==
    ASSUME SetupInv
    PROVE  SetupIsTrue
<1> USE DEF SetupInv
<1>1. S!TypeOK
  BY DEF WeakInv, SetupType, MainType, UiType, FlowType, S!TypeOK, S!NoneOr, S!Maybe
<1>2. S!MetaOfShown /\ S!ModelsOfShown
  BY DEF WeakInv, ModelsInv, TurnInv, MetaInv, S!MetaOfShown, S!ModelsOfShown
<1>3. S!NoDuplicate
  <2>1. conns = <<>> => Len(conns) = 0
    OBVIOUS
  <2>2. conns = <<activeId>> => Len(conns) = 1
    OBVIOUS
  <2>3. ~ tangled => Len(conns) \in {0, 1}
    BY <2>1, <2>2 DEF TurnInv, OneConn
  <2>4. \A n \in {0, 1} : n <= 1
    OBVIOUS
  <2>5. PICK n : n = Len(conns)
    OBVIOUS
  <2>6. n \in {0, 1} => n <= 1
    BY <2>4
  <2> SUFFICES ASSUME ~ tangled  PROVE n <= 1
    BY <2>5 DEF S!NoDuplicate
  <2> QED BY <2>3, <2>5, <2>6
<1>4. S!NoOrphanKey
  <2> SUFFICES ASSUME ~ tangled, S!IdleFlow("delete"), NEW k \in keys
               PROVE  S!Contains(conns, k)
    BY DEF S!NoOrphanKey
  <2>1. conns = <<k>>
    BY DEF TurnInv, KeysInv, S!IdleFlow
  <2>2. Len(<<k>>) = 1 /\ <<k>>[1] = k
    OBVIOUS
  <2> QED BY <2>1, <2>2 DEF S!Contains
<1>5. S!ReadyIsSendable
  <2> SUFFICES ASSUME ~ tangled, S!Quiet, S!Ready, ui.on
               PROVE  S!Sendable
    BY DEF S!ReadyIsSendable
  <2>1. Synced /\ OneConn /\ MetaInv
    BY DEF TurnInv, S!Quiet, S!IdleFlow, S!Chains, Busy
  <2>2. S!ShownId # None /\ ui.meta # None /\ flows["delete"].at = "idle"
    BY DEF S!Ready, S!Quiet, S!IdleFlow, S!Chains, S!Calls
  <2>3. activeId \in S!Ids /\ conns = <<activeId>>
    BY <2>1, <2>2, NoneShown DEF Synced, OneConn, S!ShownId
  <2>4. S!ShownId = activeId
    BY <2>1, <2>3, ActiveShown DEF Synced, S!ShownId
  <2>5. activeId \in keys /\ consent
    BY <2>1, <2>2, <2>4 DEF MetaInv, WeakInv, ConsentInv
  <2>6. Len(<<activeId>>) = 1 /\ <<activeId>>[1] = activeId
    OBVIOUS
  <2>7. S!Contains(conns, activeId)
    BY <2>3, <2>6 DEF S!Contains
  <2> QED BY <2>3, <2>5, <2>7, SetupAssumption DEF S!Sendable, S!Ids
<1> QED BY <1>1, <1>2, <1>3, <1>4, <1>5 DEF SetupIsTrue

(* For any number of connections and acts of the user, as long as two of   *)
(* the calls do not overlap (tangled): what aiStore shows is true of main. *)
(* A composer that is shown can send, the key and the models shown are the *)
(* connection's own, and an interrupted save, taken up again, leaves       *)
(* neither a second connection nor a key without one.                      *)
THEOREM SetupCorrect == AllSpec => []SetupIsTrue
<1>1. AllInit => SetupInv
  BY InitSetup DEF AllInit
<1>2. SetupInv /\ [AllNext]_allVars => SetupInv'
  <2> SUFFICES ASSUME SetupInv, [AllNext]_allVars  PROVE SetupInv'
    OBVIOUS
  <2>1. CASE S!Next
    BY <2>1, NextSetup
  <2>2. CASE UNCHANGED setupVars
    BY <2>2, UnchangedSetup
  <2> QED BY <2>1, <2>2 DEF AllNext, Storing, Linking, Setting, allVars
<1>3. SetupInv => SetupIsTrue
  BY SetupTells
<1> QED BY <1>1, <1>2, <1>3, PTL DEF AllSpec
=============================================================================
