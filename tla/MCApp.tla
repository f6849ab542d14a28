--------------------------------- MODULE MCApp ---------------------------------
(***************************************************************************)
(* Small instances of ActiveRepo and Records, checked in one run: a        *)
(* behaviour is of one of the two, the other stays as it began.  The two   *)
(* repositories have branches of the same names, one of which is held by a *)
(* worktree that is gone; of the records one repository is assigned and    *)
(* another may be added, of three profiles the last may be created.        *)
(***************************************************************************)
EXTENDS ActiveRepo

CONSTANTS Profiles, FirstProfiles, Assigned, RecordActs, RecordMoves

OneHeld == {<<"r2", "b2">>}
FirstAssigned == [r \in {"r1"} |-> "p1"]

VARIABLES part,
          file, fresh, known, repo, selected, rScreen, ready, pForm, rForm, rCalls,
          follow, overlap, crossed, rActs, rMoves

R == INSTANCE Records WITH
        screen <- rScreen, calls <- rCalls,
        acts <- rActs, moves <- rMoves, MaxActs <- RecordActs, MaxMoves <- RecordMoves

\* The repositories there are at first are assigned to profiles there are;
\* None is no value of any kind; the two lists are loaded at the same time.
ASSUME RecordsAssumption ==
    /\ FirstProfiles \subseteq Profiles /\ DOMAIN Assigned \subseteq Repos
    /\ \A r \in DOMAIN Assigned : Assigned[r] \in FirstProfiles \union {None}
    /\ Profiles \intersect Repos = {} /\ None \notin Profiles \union Repos
    /\ None \notin R!Data \union R!Record /\ None \notin R!Call
    /\ NSlots >= 2 /\ {RecordActs, RecordMoves} \subseteq Nat

recordVars == <<file, fresh, known, repo, selected, rScreen, ready, pForm, rForm, rCalls,
                follow, overlap, crossed, rActs, rMoves>>
appVars == <<part, vars, recordVars>>

AppInit == part \in {"branches", "records"} /\ Init /\ R!Init

Branching(A) == part = "branches" /\ A /\ UNCHANGED <<part, recordVars>>
Recording(A) == part = "records" /\ A /\ UNCHANGED <<part, vars>>

AppNext == Branching(Next) \/ Recording(R!Next)
AppSpec == AppInit /\ [][AppNext]_appVars
AppFairSpec == AppSpec /\ WF_appVars(Branching(Background) \/ Recording(R!Background))

-----------------------------------------------------------------------------
(* Properties, of the parts that the modules state one by one.             *)

(* The branches shown are those of the repository the user has chosen,     *)
(* whichever answer comes last (the request guard of branchStore).         *)
ShowsChosenRepo == TypeOK /\ PaintsActiveRepo

(* One switch at a time, and a forced deletion only where git has refused  *)
(* the plain one: across changes of repository neither the lock nor the    *)
(* stronger confirmation is left behind (branchStore).                     *)
SwitchesAreSafe == SwitchesOneAtATime /\ ForceOnlyAfterRefusal

(* Once all calls are answered, files, stores and screens agree: each      *)
(* profile holds its own data, no repository is assigned to one that is    *)
(* gone, the lists shown are the files, and the profile active is the one  *)
(* the active repository asks for (the stores of profiles, repositories    *)
(* and the app; profiles:delete).                                          *)
RecordsAreTrue ==
    R!TypeOK /\ R!OwnData /\ R!NoGhosts /\ R!StoresMatchFiles /\ R!FollowsAssignment

(* Nothing the user has to see or to choose changes unasked: no refresh    *)
(* wipes the outcome of an operation (branchStore.load), and the active    *)
(* repository is replaced only where it is gone (pickAutoSelectedRepo).    *)
NothingMovesUnasked == OutcomesSurvive /\ R!RepoStays

(* Once nobody acts any more the window shows what is on disk, whatever    *)
(* the terminal did behind its back (ShowsTruth of ActiveRepo), and no     *)
(* form is saving (which implies SavingEnds of Records).                   *)
AppSettles == <>[](Truthful /\ ~R!Saving)
=============================================================================
