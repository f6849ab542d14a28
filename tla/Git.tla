-------------------------------- MODULE Git --------------------------------
(***************************************************************************)
(* The repository that the services drive, and what each git command they  *)
(* run may do to it.  git itself is not in this code base: every command   *)
(* is modelled from how GitService uses it, as the set of outcomes         *)
(* [ok, repo] that its exit code and its effect can have.                  *)
(*                                                                         *)
(* Commits are numbered in the order in which they are made; 0 is none.    *)
(* The content of files is abstracted to a set of user edits, each of      *)
(* which sits in the working tree, in the stash or in commits.             *)
(***************************************************************************)
EXTENDS Naturals, Sequences, FiniteSets

CONSTANTS Branches,   \* branch names; origin has a branch of each name
          Edits       \* the edits a user makes to files

\* A repository on `head`, with `merging` the other parent of an open merge.
\* `tracking` holds origin/<branch> as last fetched, `remote` the server's.
IsRepo(g, owners) ==
    LET commits == 0..Len(g.log)
    IN  /\ g.log \in Seq([first : commits, second : commits, edits : SUBSET Edits])
        /\ g.refs \in [Branches -> commits]
        /\ g.tracking \in [Branches -> commits]
        /\ g.remote \in [Branches -> commits]
        /\ g.upstream \subseteq Branches
        /\ g.head \in Branches /\ g.refs[g.head] # 0
        /\ g.work \subseteq Edits
        /\ g.stash \in Seq([owner : owners, edits : SUBSET Edits])
        /\ g.merging \in commits

Done(g) == [ok |-> TRUE, repo |-> g]
Failed(g) == [ok |-> FALSE, repo |-> g]

Tip(g) == g.refs[g.head]

\* The commits reachable from c, itself included.
Ancestors(g, c) ==
    LET anc[i \in 0..Len(g.log)] ==
          IF i = 0 THEN {}
          ELSE {i} \union anc[g.log[i].first] \union anc[g.log[i].second]
    IN  anc[c]

\* a..b in git's notation: what b reaches and a does not.
CommitRange(g, a, b) == Ancestors(g, b) \ Ancestors(g, a)

\* HEAD~n: n steps along first parents, 0 when it does not resolve.
FirstParent(g, n) ==
    LET back[i \in 0..n] ==
          IF i = 0 THEN Tip(g)
          ELSE IF back[i - 1] = 0 THEN 0 ELSE g.log[back[i - 1]].first
    IN  back[n]

EditsIn(g, commits) == UNION {g.log[c].edits : c \in commits}

IsMerge(g, c) == g.log[c].second # 0

\* status reports a changed file: an edit, or the files of an open merge.
IsDirty(g) == g.work # {} \/ g.merging # 0

AddCommit(g, second, edits) ==
    [g EXCEPT !.log = Append(@, [first |-> Tip(g), second |-> second, edits |-> edits]),
              !.refs[g.head] = Len(g.log) + 1]

\* git commit: of what is staged, any part of the edits.  It fails with
\* nothing staged or with unresolved conflicts, and it concludes a merge.
Commit(g) ==
    {Failed(g)} \union
    {Done([AddCommit(g, g.merging, s) EXCEPT !.work = g.work \ s, !.merging = 0]) :
        s \in IF g.merging = 0 THEN (SUBSET g.work) \ {{}} ELSE {g.work}}

\* git switch <b>: creates b from origin/b if only that exists.  It refuses
\* in an open merge, and when edits would be overwritten.
Switch(g, b) ==
    LET exists == g.refs[b] # 0
        moved == IF exists THEN [g EXCEPT !.head = b]
                 ELSE [g EXCEPT !.head = b, !.refs[b] = g.tracking[b],
                                !.upstream = @ \union {b}]
    IN  IF g.merging # 0 \/ (~exists /\ g.tracking[b] = 0) THEN {Failed(g)}
        ELSE {Done(moved)} \union (IF g.work # {} THEN {Failed(g)} ELSE {})

\* git switch -c <b>: refuses a name that exists; no upstream is set.
CreateBranch(g, b) ==
    IF g.refs[b] # 0 THEN {Failed(g)}
    ELSE {Done([g EXCEPT !.refs[b] = Tip(g), !.head = b])}

Removed(g, b) == [g EXCEPT !.refs[b] = 0, !.upstream = @ \ {b}]

\* git branch -d <b>: refuses the current branch and an unmerged one.
DeleteBranch(g, b) ==
    LET against == IF b \in g.upstream /\ g.tracking[b] # 0 THEN g.tracking[b] ELSE Tip(g)
    IN  IF b = g.head \/ g.refs[b] = 0 \/ g.refs[b] \notin Ancestors(g, against)
        THEN {Failed(g)}
        ELSE {Done(Removed(g, b))}

\* git branch -D <b>: refuses only the current branch.
ForceDeleteBranch(g, b) ==
    IF b = g.head \/ g.refs[b] = 0 THEN {Failed(g)} ELSE {Done(Removed(g, b))}

\* git fetch <remote>: the network may fail.
Fetch(g) == {Failed(g), Done([g EXCEPT !.tracking = g.remote])}

\* Bring `c` into HEAD by a fast-forward; edits in the way make it fail.
FastForward(g, c) ==
    {Done([g EXCEPT !.refs[g.head] = c])} \union (IF g.work # {} THEN {Failed(g)} ELSE {})

\* git pull --ff-only <remote> <b>.
Pull(g, b) ==
    LET f == [g EXCEPT !.tracking[b] = g.remote[b]]
        c == g.remote[b]
    IN  {Failed(g)} \union
        (IF c = 0 \/ f.merging # 0 THEN {Failed(f)}
         ELSE IF c \in Ancestors(f, Tip(f)) THEN {Done(f)}
         ELSE IF Tip(f) \in Ancestors(f, c) THEN FastForward(f, c)
         ELSE {Failed(f)})

\* git push [-u] <remote> <b>: rejected unless a fast-forward.  Killed by the
\* timeout it may have updated the server and not origin/b.
Push(g, b, setUpstream) ==
    LET landed == [g EXCEPT !.remote[b] = g.refs[b]]
        pushed == [landed EXCEPT !.tracking[b] = g.refs[b],
                                 !.upstream = IF setUpstream THEN @ \union {b} ELSE @]
    IN  {Failed(g)} \union
        (IF g.refs[b] = 0 \/ (g.remote[b] # 0 /\ g.remote[b] \notin Ancestors(g, g.refs[b]))
         THEN {} ELSE {Done(pushed), Failed(landed)})

\* git merge --no-edit <commit>: up to date, fast-forward, a merge commit, or
\* a conflict that leaves the merge open.
Merge(g, c) ==
    {Failed(g)} \union
    (IF c = 0 \/ g.merging # 0 THEN {}
     ELSE IF c \in Ancestors(g, Tip(g)) THEN {Done(g)}
     ELSE IF Tip(g) \in Ancestors(g, c) THEN FastForward(g, c)
     ELSE {Done(AddCommit(g, c, {})), Failed([g EXCEPT !.merging = c])})

\* git reset --mixed HEAD~n: the files stay, so the edits of the commits left
\* behind are in the working tree again; an open merge is forgotten.
ResetMixed(g, n) ==
    LET c == FirstParent(g, n)
    IN  {Failed(g)} \union
        (IF c = 0 THEN {}
         ELSE {Done([g EXCEPT !.refs[g.head] = c, !.merging = 0,
                              !.work = @ \union EditsIn(g, CommitRange(g, c, Tip(g)))])})

\* git stash push --include-untracked: nothing to save is a success.
StashPush(g, owner) ==
    IF g.merging # 0 THEN {Failed(g)}
    ELSE IF g.work = {} THEN {Failed(g), Done(g)}
    ELSE {Failed(g),
          Done([g EXCEPT !.work = {}, !.stash = <<[owner |-> owner, edits |-> g.work]>> \o @])}

\* git stash pop: on a conflict the entry stays; it may also not apply at all.
StashPop(g) ==
    IF g.stash = <<>> THEN {Failed(g)}
    ELSE LET applied == [g EXCEPT !.work = @ \union Head(g.stash).edits]
         IN  {Failed(g), Failed(applied), Done([applied EXCEPT !.stash = Tail(@)])}
=============================================================================
