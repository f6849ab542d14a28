----------------------------- MODULE JsonStore -----------------------------
(***************************************************************************)
(* src/main/storage/JsonStore.ts: a JSON file and its update()             *)
(* transactions, which SettingsService uses.  A transaction reads the      *)
(* file, applies its patch to what it read and writes the result to a      *)
(* temporary file that it renames over the old one; `queue` chains the     *)
(* transactions of one run of the program.                                 *)
(***************************************************************************)
CONSTANTS Txs,           \* calls of update(), each used once
          None,          \* no transaction
          Fields,        \* the fields of the settings
          Values,        \* what a field may hold
          Defaults,      \* what a missing file stands for
          Unreadable     \* whether readFile may fail on a file that exists

ASSUME NoneAssumption == None \notin Txs
ASSUME DefaultsAssumption == Defaults \in [Fields -> Values]
ASSUME UnreadableAssumption == Unreadable \in BOOLEAN

VARIABLES patch,     \* the field each transaction sets and its value, fixed
          file,      \* the contents of the file
          status,    \* where each transaction is
          current,   \* what each transaction has read
          queue,     \* the transaction whose promise `this.queue` is
          prev,      \* the one each transaction was chained to
          before     \* history: the transactions chained before each one

vars == <<patch, file, status, current, queue, prev, before>>

-----------------------------------------------------------------------------
Settled == {"done", "failed"}
Statuses == {"new", "queued", "reading", "writing"} \union Settled

Contents == [Fields -> Values]

\* Mutant: what is saved is the patch alone, without what it was to be laid over.
PatchAlone(t, c) == [f \in {patch[t].field} |-> patch[t].value]

\* The transaction's mutate: {...current, ...patch}.
Patched(t, c) == [c EXCEPT ![patch[t].field] = patch[t].value]

TypeOK ==
    /\ patch \in [Txs -> [field : Fields, value : Values]]
    /\ file \in Contents
    /\ status \in [Txs -> Statuses]
    /\ current \in [Txs -> Contents]
    /\ queue \in Txs \union {None}
    /\ prev \in [Txs -> Txs \union {None}]
    /\ before \in [Txs -> SUBSET Txs]

Init ==
    /\ patch \in [Txs -> [field : Fields, value : Values]]
    /\ file \in Contents
    /\ status = [t \in Txs |-> "new"]
    /\ current = [t \in Txs |-> Defaults]
    /\ queue = None
    /\ prev = [t \in Txs |-> None]
    /\ before = [t \in Txs |-> {}]

-----------------------------------------------------------------------------
\* Mutant: a transaction does not wait for the one before it.
UpdateUnchained(t) ==
    /\ status[t] = "new"
    /\ status' = [status EXCEPT ![t] = "queued"]
    /\ prev' = prev
    /\ before' = before
    /\ queue' = t
    /\ UNCHANGED <<patch, file, current>>

(* update(): chain the transaction to the one before it.                   *)
Update(t) ==
    /\ status[t] = "new"
    /\ status' = [status EXCEPT ![t] = "queued"]
    /\ prev' = [prev EXCEPT ![t] = queue]
    /\ before' = [before EXCEPT ![t] = IF queue = None THEN {} ELSE before[queue] \union {queue}]
    /\ queue' = t
    /\ UNCHANGED <<patch, file, current>>

\* Mutant: a failed transaction is not turned into a resolved queue.
TurnUnlessFailed(t) == prev[t] # None => status[prev[t]] = "done"

(* queue.then(run, run), on a queue that either outcome resolves.          *)
Turn(t) == prev[t] # None => status[prev[t]] \in Settled

Begin(t) ==
    /\ status[t] = "queued"
    /\ Turn(t)
    /\ status' = [status EXCEPT ![t] = "reading"]
    /\ UNCHANGED <<patch, file, current, queue, prev, before>>

(* read(): a readFile that fails, for whatever reason, yields the defaults.*)
Read(t) ==
    /\ status[t] = "reading"
    /\ \E c \in {file} \union (IF Unreadable THEN {Defaults} ELSE {}) :
          current' = [current EXCEPT ![t] = c]
    /\ status' = [status EXCEPT ![t] = "writing"]
    /\ UNCHANGED <<patch, file, queue, prev, before>>

(* write(): the rename puts the whole new contents in place.               *)
Write(t) ==
    /\ status[t] = "writing"
    /\ file' = Patched(t, current[t])
    /\ status' = [status EXCEPT ![t] = "done"]
    /\ UNCHANGED <<patch, current, queue, prev, before>>

(* The contents do not parse, or the write fails: the caller gets an error.*)
Fail(t) ==
    /\ status[t] \in {"reading", "writing"}
    /\ status' = [status EXCEPT ![t] = "failed"]
    /\ UNCHANGED <<patch, file, current, queue, prev, before>>

(* The program quits and starts again: the file stays, its chain is new.   *)
Restart ==
    /\ status' = [t \in Txs |-> IF status[t] \in {"queued", "reading", "writing"}
                                THEN "failed" ELSE status[t]]
    /\ queue' = None
    /\ UNCHANGED <<patch, file, current, prev, before>>

Next ==
    \/ \E t \in Txs : \/ Update(t) \/ Begin(t) \/ Read(t) \/ Write(t) \/ Fail(t)
    \/ Restart

Spec == Init /\ [][Next]_vars

(* Promises are resumed, and file operations end.                          *)
Fairness == \A t \in Txs : WF_vars(Begin(t)) /\ WF_vars(Read(t) \/ Write(t) \/ Fail(t))

FairSpec == Spec /\ Fairness

-----------------------------------------------------------------------------
(* Properties.                                                             *)

(* "Atomic read-modify-write": whenever the file changes, it is by one     *)
(* transaction's patch applied to what the file holds at that moment, so   *)
(* no patch is lost (the comment of update(), W19).                        *)
UpdatesAreAtomic ==
    [][file' = file \/ \E t \in Txs : status[t] = "writing" /\ file' = Patched(t, file)]_vars

(* "a failed transaction never wedges the queue for whoever calls update() *)
(* next" (JsonStore.ts update): every transaction settles.                 *)
NeverWedged == \A t \in Txs : status[t] = "queued" ~> status[t] \in Settled
=============================================================================
