---------------------------- MODULE SerialQueue ----------------------------
(***************************************************************************)
(* What GitRunner's write queue promises, without the promise chain that   *)
(* implements it: the calls made for one working directory enter one at a  *)
(* time, in the order in which they were made, and calls for different     *)
(* directories do not wait for each other.                                 *)
(***************************************************************************)
EXTENDS Naturals

CONSTANTS Calls,   \* the calls made on the runner, each used once
          Cwds     \* the working directories (the keys of the queues)

VARIABLES cwd,     \* the directory each call is for, fixed from the start
          phase,   \* where each call is with respect to its queue
          place,   \* the place each call was given in its queue, 0 for none
          issued   \* the last place given out by each queue

vars == <<cwd, phase, place, issued>>

Phases == {"away", "waiting", "inside", "gone"}

TypeOK ==
    /\ cwd \in [Calls -> Cwds]
    /\ phase \in [Calls -> Phases]
    /\ place \in [Calls -> Nat]
    /\ issued \in [Cwds -> Nat]

\* d was given an earlier place than c in the same queue.
Ahead(d, c) == cwd[d] = cwd[c] /\ 0 < place[d] /\ place[d] < place[c]

Init ==
    /\ cwd \in [Calls -> Cwds]
    /\ phase = [c \in Calls |-> "away"]
    /\ place = [c \in Calls |-> 0]
    /\ issued = [w \in Cwds |-> 0]

Join(c) ==
    /\ phase[c] = "away"
    /\ phase' = [phase EXCEPT ![c] = "waiting"]
    /\ place' = [place EXCEPT ![c] = issued[cwd[c]] + 1]
    /\ issued' = [issued EXCEPT ![cwd[c]] = @ + 1]
    /\ UNCHANGED cwd

Enter(c) ==
    /\ phase[c] = "waiting"
    /\ \A d \in Calls : Ahead(d, c) => phase[d] = "gone"
    /\ phase' = [phase EXCEPT ![c] = "inside"]
    /\ UNCHANGED <<cwd, place, issued>>

Leave(c) ==
    /\ phase[c] = "inside"
    /\ phase' = [phase EXCEPT ![c] = "gone"]
    /\ UNCHANGED <<cwd, place, issued>>

Next == \E c \in Calls : Join(c) \/ Enter(c) \/ Leave(c)

Spec == Init /\ [][Next]_vars
=============================================================================
