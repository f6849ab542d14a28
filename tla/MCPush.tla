-------------------------------- MODULE MCPush --------------------------------
(***************************************************************************)
(* Small instances of CommitPush and AiChat, checked in one run: a         *)
(* behaviour is of one of the two, the other stays as it began.  For       *)
(* CommitPush one repository has two remotes, of which one is asked for a  *)
(* token and the other is ahead by somebody else's commit; the other       *)
(* repository has a branch its policy blocks and no remote of the          *)
(* preferred name.  In AiChat a proposal edits two files, one of which is  *)
(* not the same on both branches.                                          *)
(***************************************************************************)
EXTENDS AiChat

CONSTANTS Origin, Remotes, Https, PushBranches, Start, RemotesOf, Guarded, Foreign, Worktree,
          NSlots, MaxCommits, PushActs, PushMoves

TwoPaths == <<"p", "q">>

\* The values for the two repositories.
Of(a, b) == [r \in Repos |-> IF r = "ra" THEN a ELSE b]
StartOnMain == <<"ra", "main">>
TwoRemotes == Of({"origin", "fork"}, {"fork", "mirror"})
DevOfTheOther == Of({}, {"dev"})
ForkAndMirror == {<<"ra", "main", "fork">>, <<"rb", "main", "mirror">>}
SomeChanges == Of({"modified"}, {"modified", "untracked"})

VARIABLES part,
          pActive, current, mounted, head, ahead, index, made, sent, commit, remote, sheet,
          flow, reads, jobs, settling, event, begun, acts, pMoves

P == INSTANCE CommitPush WITH
        Branches <- PushBranches, active <- pActive, moves <- pMoves, MaxActs <- PushActs,
        MaxMoves <- PushMoves

\* Origin is a name that remotes may have, a repository has remotes, and None
\* is no value of any kind.
ASSUME PushAssumption ==
    /\ Origin \in Remotes /\ RemotesOf \in [Repos -> SUBSET Remotes]
    /\ Start[1] \in Repos /\ Start[2] \in PushBranches
    /\ Worktree \in [Repos -> SUBSET P!Columns]
    /\ {NSlots, MaxCommits, PushActs, PushMoves} \subseteq Nat
    /\ None \notin Remotes /\ None \notin P!Ids /\ None \notin P!Targets
    /\ \A S \in P!Authors : S # None
    /\ \A S \in SUBSET {P!AuthorOf(w) : w \in {"own", "foreign"}} : S # None
    /\ P!Me # None

pushVars == <<pActive, current, mounted, head, ahead, index, made, sent, commit, remote,
              sheet, flow, reads, jobs, settling, event, begun, acts, pMoves>>
allVars == <<part, vars, pushVars>>

MCInit == part \in {"push", "chat"} /\ Init /\ P!Init

Pushing(A) == part = "push" /\ A /\ UNCHANGED <<part, vars>>
Chatting(A) == part = "chat" /\ A /\ UNCHANGED <<part, pushVars>>

MCNext == Pushing(P!Next) \/ Chatting(Next)
MCSpec == MCInit /\ [][MCNext]_allVars
MCFairSpec == MCSpec /\ WF_allVars(Pushing(P!Background) \/ Chatting(Answers))

-----------------------------------------------------------------------------
(* Properties of CommitPush, of the parts that it states one by one; those *)
(* of AiChat are its ChatIsTrue, EditsLandWhole and StopStops.             *)

(* A push that either sheet confirmed, after it had read the commits going *)
(* out, sends no commit of another author, through closing, opening again, *)
(* reloads and failures (fetchPushPreflight, the gate's author issues).    *)
OnlyOwnConfirmed == P!TypeOK /\ P!OnlyOwnConfirmed

(* "Done" only for a commit that has reached the remote, "commit failed"   *)
(* only without one, "push failed" only with one, when nothing else has    *)
(* touched the stores commitAndPushStore reads its outcome from.           *)
FlowTellsTruth == P!FlowTellsTruth

(* What was started ends, whatever fails: the flow once confirmed, the     *)
(* loads that hide the screen, each reply, and the chat's being busy       *)
(* (commitAndPushStore, the request guards, runStreamingChat's finally).   *)
(* The acts of the user are bounded, so all has ended in the end: this     *)
(* implies what the modules state of each.                                 *)
EverythingEnds ==
    <>[](/\ P!FlowEnded /\ ~P!Loading
         /\ ~chat.pending /\ \A n \in Sends : ~Streaming(n))
=============================================================================
