-------------------------- MODULE MCRemoteBinding --------------------------
(***************************************************************************)
(* A small instance of RemoteBinding in which requests may overlap and     *)
(* everything may fail.  Two of its properties hold only of a behaviour    *)
(* in which neither has happened yet but a failing git; `apart` tells      *)
(* such a behaviour from the others.                                       *)
(***************************************************************************)
EXTENDS RemoteBinding, TLC

VARIABLE apart

UpdateSymmetry == Permutations(Updates) \union Permutations(Aliased)

OneAtATime == \A u, v \in Updates : Running(u) /\ Running(v) => u = v

MCInit == Init /\ apart = TRUE

MCNext ==
    /\ Next
    /\ apart' = (apart /\ OneAtATime' /\ ~Crash /\ \A u \in Updates : ~StoreFails(u))

MCSpec == MCInit /\ [][MCNext]_<<vars, apart>>

(* The profile asked for last governs the identity and the key, as long as *)
(* requests came one after the other (AssignmentGoverns).                  *)
GovernsApart == apart => AssignmentGoverns

(* The host an SSH origin had before it was bound can be restored,         *)
(* whichever git commands failed on the way (HostRecoverable), and every   *)
(* variable keeps its type.                                                *)
RecoverableApart == TypeOK /\ (apart => HostRecoverable)
=============================================================================
