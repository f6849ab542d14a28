----------------------------- MODULE GitRunner -----------------------------
(***************************************************************************)
(* src/main/git/GitRunner.ts: the only way this program runs git.          *)
(*                                                                         *)
(* A call is one use of the runner's interface: run() with readOnly true   *)
(* ("read"), run() with readOnly false ("write"), or enqueueJob ("job").   *)
(* Reads spawn git at once.  Writes and jobs hang their body on the tail   *)
(* promise of their directory, which `queues` remembers.  A job's body     *)
(* runs git up to MaxSteps times: reads through run(), possibly several at *)
(* once (a Promise.all), and writes, each awaited on its own, through      *)
(* runWrite, which spawns without queueing.                                *)
(*                                                                         *)
(* A git process outlives its promise: a timeout or an abort rejects the   *)
(* promise and sends SIGTERM, and nobody waits for the process to exit.    *)
(***************************************************************************)
EXTENDS Naturals, FiniteSets

CONSTANTS Calls,     \* the calls made on the runner, each used once
          Cwds,      \* the working directories
          NoCall,    \* the absence of a tail promise
          MaxSteps   \* bound: git invocations in the body of one job

ASSUME NoCallAssumption == NoCall \notin Calls
ASSUME MaxStepsAssumption == MaxSteps \in Nat \ {0}

VARIABLES cwd,      \* the parameters of each call, fixed from the start:
          kind,     \*   its directory, which method it uses,
          timed,    \*   and whether run() is given a timeoutMs
          status,   \* the promise the caller holds
          queues,   \* the call whose promise is each directory's tail
          prev,     \* the tail each queued call was chained to
          place,    \* history: position of the call in its directory's chain
          step,     \* git invocations made so far by each call
          procs,    \* the live git processes
          aborted   \* the calls whose AbortSignal has fired

rigid == <<cwd, kind, timed>>
vars == <<cwd, kind, timed, status, queues, prev, place, step, procs, aborted>>

-----------------------------------------------------------------------------
Kinds == {"read", "write", "job"}
Settled == {"resolved", "rejected"}
Statuses == {"new", "queued", "running"} \union Settled

\* One spawned child: `killed` once SIGTERM was sent and its promise rejected.
Processes == [call : Calls, step : 1..MaxSteps, write : BOOLEAN,
              timed : BOOLEAN, killed : BOOLEAN]

\* The invocations of call c whose promises are pending.
Awaited(c) == {p \in procs : p.call = c /\ ~p.killed}

IsSettled(c) == status[c] \in Settled

\* c is (or is the body of) a write that has started and not settled.
HoldsSlot(c) == kind[c] # "read" /\ status[c] = "running"

PlaceOf(c) == IF c = NoCall THEN 0 ELSE place[c]

TypeOK ==
    /\ cwd \in [Calls -> Cwds]
    /\ kind \in [Calls -> Kinds]
    /\ timed \in [Calls -> BOOLEAN]
    /\ status \in [Calls -> Statuses]
    /\ queues \in [Cwds -> Calls \union {NoCall}]
    /\ prev \in [Calls -> Calls \union {NoCall}]
    /\ place \in [Calls -> Nat]
    /\ step \in [Calls -> 0..MaxSteps]
    /\ procs \subseteq Processes
    /\ aborted \subseteq Calls

Init ==
    /\ cwd \in [Calls -> Cwds]
    /\ kind \in [Calls -> Kinds]
    /\ timed \in [Calls -> BOOLEAN]
    /\ \A c \in Calls : timed[c] => kind[c] # "job"
    /\ status = [c \in Calls |-> "new"]
    /\ queues = [w \in Cwds |-> NoCall]
    /\ prev = [c \in Calls |-> NoCall]
    /\ place = [c \in Calls |-> 0]
    /\ step = [c \in Calls |-> 0]
    /\ procs = {}
    /\ aborted = {}

-----------------------------------------------------------------------------
(* execute(): spawn a child for the next invocation of call c.             *)
Spawn(c, isWrite, hasTimeout) ==
    /\ step' = [step EXCEPT ![c] = @ + 1]
    /\ procs' = procs \union
         {[call |-> c, step |-> step[c] + 1, write |-> isWrite,
           timed |-> hasTimeout, killed |-> FALSE]}

(* The promise of an invocation settles.  run() hands that promise to its  *)
(* caller; a job's body receives the result and decides what to do next.   *)
Deliver(p, outcome) ==
    status' = IF kind[p.call] = "job" THEN status
              ELSE [status EXCEPT ![p.call] = outcome]

(* run() with a signal that is aborted already.                            *)
RejectAborted(c) ==
    /\ status[c] = "new"
    /\ kind[c] # "job"
    /\ c \in aborted
    /\ status' = [status EXCEPT ![c] = "rejected"]
    /\ UNCHANGED <<rigid, queues, prev, place, step, procs, aborted>>

(* run() with readOnly: executes at once, whatever the queue holds.        *)
RunRead(c) ==
    /\ status[c] = "new"
    /\ kind[c] = "read"
    /\ c \notin aborted
    /\ status' = [status EXCEPT ![c] = "running"]
    /\ Spawn(c, FALSE, timed[c])
    /\ UNCHANGED <<rigid, queues, prev, place, aborted>>

\* Mutant: enqueue() does not remember the new tail.
EnqueueForgetsTail(c) ==
    /\ status[c] = "new"
    /\ kind[c] # "read"
    /\ c \notin aborted
    /\ status' = [status EXCEPT ![c] = "queued"]
    /\ prev' = [prev EXCEPT ![c] = queues[cwd[c]]]
    /\ place' = [place EXCEPT ![c] = PlaceOf(queues[cwd[c]]) + 1]
    /\ UNCHANGED <<rigid, queues, step, procs, aborted>>

(* enqueue(): chain the call to its directory's tail and become the tail.  *)
Enqueue(c) ==
    /\ status[c] = "new"
    /\ kind[c] # "read"
    /\ c \notin aborted
    /\ status' = [status EXCEPT ![c] = "queued"]
    /\ prev' = [prev EXCEPT ![c] = queues[cwd[c]]]
    /\ place' = [place EXCEPT ![c] = PlaceOf(queues[cwd[c]]) + 1]
    /\ queues' = [queues EXCEPT ![cwd[c]] = c]
    /\ UNCHANGED <<rigid, step, procs, aborted>>

\* Mutants: the body waits for the tail to start, or for it to resolve.
TailStarted(c) == prev[c] # NoCall => status[prev[c]] # "queued"
TailResolved(c) == prev[c] # NoCall => status[prev[c]] = "resolved"

(* tail.then(fn, fn): fn runs once the tail has settled, either way.       *)
TailSettled(c) == prev[c] # NoCall => IsSettled(prev[c])

(* The call's turn comes.  A write executes at once; it does not look at   *)
(* its signal again, and a listener added to an aborted signal never runs. *)
Start(c) ==
    /\ status[c] = "queued"
    /\ TailSettled(c)
    /\ status' = [status EXCEPT ![c] = "running"]
    /\ \/ kind[c] = "write" /\ Spawn(c, TRUE, timed[c])
       \/ kind[c] = "job" /\ UNCHANGED <<step, procs>>
    /\ UNCHANGED <<rigid, queues, prev, place, aborted>>

\* Mutant: the body of a job never stops calling git.
JobSpawnForever(c, isWrite, hasTimeout) ==
    /\ kind[c] = "job"
    /\ status[c] = "running"
    /\ \A p \in Awaited(c) : ~p.write /\ ~isWrite
    /\ Spawn(c, isWrite, hasTimeout)
    /\ UNCHANGED <<rigid, status, queues, prev, place, aborted>>

(* The body of a job makes its next invocation.                            *)
JobSpawn(c, isWrite, hasTimeout) ==
    /\ kind[c] = "job"
    /\ status[c] = "running"
    /\ \A p \in Awaited(c) : ~p.write /\ ~isWrite
    /\ step[c] < MaxSteps
    /\ Spawn(c, isWrite, hasTimeout)
    /\ UNCHANGED <<rigid, status, queues, prev, place, aborted>>

(* The body of a job returns or throws, which releases the slot.  It may   *)
(* throw because one of several reads failed, the others still running.    *)
JobFinish(c, outcome) ==
    /\ kind[c] = "job"
    /\ status[c] = "running"
    /\ \A p \in Awaited(c) : ~p.write /\ outcome = "rejected"
    /\ status' = [status EXCEPT ![c] = outcome]
    /\ UNCHANGED <<rigid, queues, prev, place, step, procs, aborted>>

(* child.on('close') or child.on('error') of a child not cancelled:        *)
(* exit code 0 resolves, anything else (a failed spawn too) rejects.       *)
Close(p, outcome) ==
    /\ ~p.killed
    /\ procs' = procs \ {p}
    /\ Deliver(p, outcome)
    /\ UNCHANGED <<rigid, queues, prev, place, step, aborted>>

\* Mutant: the 'close' handler does not test `settled`.
ExitSettlesAgain(p) ==
    /\ p.killed
    /\ procs' = procs \ {p}
    /\ Deliver(p, "resolved")
    /\ UNCHANGED <<rigid, queues, prev, place, step, aborted>>

(* child.on('close') of a child already cancelled: `settled` is set.       *)
Exit(p) ==
    /\ p.killed
    /\ procs' = procs \ {p}
    /\ UNCHANGED <<rigid, status, queues, prev, place, step, aborted>>

\* Mutant: the promise is rejected and the child is left running.
SettleWithoutKill(p) ==
    /\ Deliver(p, "rejected")
    /\ UNCHANGED <<rigid, queues, prev, place, step, procs>>

(* settleCancelled(): SIGTERM, reject now, do not wait for 'close'.        *)
SettleCancelled(p) ==
    /\ procs' = (procs \ {p}) \union {[p EXCEPT !.killed = TRUE]}
    /\ Deliver(p, "rejected")
    /\ UNCHANGED <<rigid, queues, prev, place, step>>

Timeout(p) ==
    /\ p.timed
    /\ ~p.killed
    /\ SettleCancelled(p)
    /\ UNCHANGED aborted

(* The caller aborts.  Only a call whose child is running has a listener.  *)
Abort(c) ==
    /\ kind[c] # "job"
    /\ ~IsSettled(c)
    /\ c \notin aborted
    /\ aborted' = aborted \union {c}
    /\ \/ \E p \in Awaited(c) : SettleCancelled(p)
       \/ /\ Awaited(c) = {}
          /\ UNCHANGED <<rigid, status, queues, prev, place, step, procs>>

Next ==
    \/ \E c \in Calls :
          \/ RejectAborted(c)
          \/ RunRead(c)
          \/ Enqueue(c)
          \/ Start(c)
          \/ \E w, t \in BOOLEAN : JobSpawn(c, w, t)
          \/ \E o \in Settled : JobFinish(c, o)
          \/ Abort(c)
    \/ \E p \in procs :
          \/ \E o \in Settled : Close(p, o)
          \/ Exit(p)
          \/ Timeout(p)

Spec == Init /\ [][Next]_vars

(* What the code's scheduling justifies.  The event loop runs the reaction *)
(* to a settled promise, the body of a job returns, a timer fires, and a   *)
(* git without a timeout (a local command) exits.  A git with a timeout (a *)
(* network command, a read) may hang, and so may a child once signalled.   *)
Fairness ==
    \A c \in Calls :
        /\ WF_vars(Start(c))
        /\ WF_vars(\E o \in Settled : Awaited(c) = {} /\ JobFinish(c, o))
        /\ WF_vars(\E p \in Awaited(c) : Timeout(p))
        /\ WF_vars(\E p \in Awaited(c), o \in Settled : ~p.timed /\ Close(p, o))

FairSpec == Spec /\ Fairness

-----------------------------------------------------------------------------
(* Properties.                                                             *)

\* c was chained behind d in the same directory.
Behind(c, d) == cwd[c] = cwd[d] /\ 0 < place[d] /\ place[d] < place[c]

(* The body of a write or of a compound job starts only after everything   *)
(* queued before it for the same directory has settled, so at most one     *)
(* body holds the slot and slots are granted in call order (GitRunner.ts   *)
(* enqueue and the contract of enqueueJob).                                *)
FifoExclusive ==
    \A c, d \in Calls :
        Behind(c, d) /\ status[c] # "queued" => IsSettled(d)

(* Of the git processes writing in one directory at most one has not been  *)
(* sent SIGTERM, and it belongs to the call that holds the slot: a second  *)
(* writer can only be one that execute() gave up on.                       *)
OneUnsignalledWriter ==
    \A p, q \in procs :
        p.write /\ ~p.killed =>
            /\ HoldsSlot(p.call)
            /\ q.write /\ ~q.killed /\ cwd[q.call] = cwd[p.call] => q = p

(* A promise settles once and keeps its outcome: a late 'close' of a child *)
(* that was cancelled changes nothing its caller sees (the `settled` flag).*)
SettlesOnce ==
    [][\A c \in Calls : IsSettled(c) => status'[c] = status[c]]_vars

(* No queue is ever wedged: each queued call runs and settles, although    *)
(* calls before it fail, time out, or make several invocations.            *)
EveryCallSettles ==
    \A c \in Calls : status[c] \in {"queued", "running"} ~> IsSettled(c)

(* While a job holds the slot nothing else writes to the repository: the   *)
(* comment of enqueueJob (GitRunner.ts:143-145) says that a job "executes  *)
(* atomically against every other write for the same repo".                *)
JobsAreAtomic ==
    \A p, q \in procs :
        p.write /\ q.write /\ cwd[p.call] = cwd[q.call] /\ kind[q.call] = "job"
            /\ ~q.killed => p.call = q.call

-----------------------------------------------------------------------------
(* The promise chain implements the serial queue.                          *)
PhaseOf(c) ==
    CASE kind[c] = "read" \/ place[c] = 0 -> "away"
      [] status[c] = "queued" -> "waiting"
      [] status[c] = "running" -> "inside"
      [] OTHER -> "gone"

Queue == INSTANCE SerialQueue WITH
    phase <- [c \in Calls |-> PhaseOf(c)],
    issued <- [w \in Cwds |-> PlaceOf(queues[w])]

(* The chain of tail promises kept by enqueue() behaves as one FIFO queue  *)
(* for each directory.                                                     *)
ImplementsQueue == Queue!Spec
=============================================================================
