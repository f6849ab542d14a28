--------------------------- MODULE RepoJobsProofs ---------------------------
(***************************************************************************)
(* Theorems about RepoJobs, for all branches, edits, requests and bounds.  *)
(*                                                                         *)
(* IInv is the inductive invariant.  Its part RepoInv says what git        *)
(* guarantees and every lemma about commits needs: a commit comes after    *)
(* its parents, so that its ancestors are well-defined; every branch names *)
(* a commit that exists; and a tracking branch is behind its remote one,   *)
(* or a fetch could drop a commit.  JobInv is the discipline of the queue: *)
(* only its head has left its first step.  HeadInv, StashInv and CountInv  *)
(* say what the running job has read or put away, and that it is still so. *)
(*                                                                         *)
(* Each git command is first shown to keep every edit (the lemmas ...Keeps *)
(* about a repository g), then each step of a job to be one of these or a  *)
(* read (...Ran, ...Benign), and the invariants follow by kind of step.    *)
(***************************************************************************)
EXTENDS RepoJobs, SequenceTheorems, FiniteSetTheorems, WellFoundedInduction, TLAPS

\* A log in which every commit comes after its parents.
IsLog(log) ==
    /\ log \in Seq([first : Nat, second : Nat, edits : SUBSET Edits])
    /\ \A i \in 1..Len(log) : log[i].first \in 0..(i - 1) /\ log[i].second \in 0..(i - 1)

\* A set of naturals has a least element: the induction of this module looks at
\* the least counterexample.
LEMMA Least ==
    ASSUME NEW T, T \subseteq Nat, T # {}
    PROVE  \E x \in T : \A y \in T : x <= y
<1> DEFINE R == {ss \in Nat \X Nat : ss[1] < ss[2]}
<1>1. IsWellFoundedOn(R, Nat)
  <2>1. R = OpToRel(<, Nat)
    BY DEF OpToRel
  <2> QED BY <2>1, NatLessThanWellFounded, Zenon
<1>2. PICK x \in T : \A y \in T : ~ (<<y, x>> \in R)
  <2> HIDE DEF R
  <2> QED BY <1>1, WFMin
<1>3. ASSUME NEW y \in T, ~ (x <= y)  PROVE FALSE
  <2>1. x \in Nat /\ y \in Nat /\ y < x
    BY <1>3
  <2>2. <<y, x>> \in Nat \X Nat /\ <<y, x>>[1] = y /\ <<y, x>>[2] = x
    BY <2>1
  <2>3. <<y, x>> \in R
    BY <2>1, <2>2
  <2> QED BY <1>2, <2>3
<1> QED BY <1>3

\* The recursive function in Ancestors exists: commits come after their parents.
LEMMA AncestorsFunction ==
    ASSUME NEW log, IsLog(log)
    PROVE  \E f : f = [i \in 0..Len(log) |->
                         IF i = 0 THEN {} ELSE {i} \union f[log[i].first] \union f[log[i].second]]
<1> DEFINE Unfolds(f, n) ==
              f = [i \in 0..n |->
                     IF i = 0 THEN {} ELSE {i} \union f[log[i].first] \union f[log[i].second]]
           Undefined == {n \in 0..Len(log) : ~ \E f : Unfolds(f, n)}
<1>1. /\ Len(log) \in Nat
      /\ \A i \in 1..Len(log) : log[i].first \in 0..(i - 1) /\ log[i].second \in 0..(i - 1)
  BY DEF IsLog
<1>2. SUFFICES Undefined = {}
  <2>1. Len(log) \in 0..Len(log)
    BY <1>1
  <2> HIDE DEF Unfolds
  <2>2. \E f : Unfolds(f, Len(log))
    BY <1>2, <2>1
  <2> QED BY <2>2 DEF Unfolds
<1>3. SUFFICES ASSUME Undefined # {}
               PROVE  FALSE
  OBVIOUS
<1>4. PICK n \in Undefined : \A m \in Undefined : n <= m
  <2>1. Undefined \subseteq Nat
    BY <1>1
  <2> HIDE DEF Undefined
  <2> QED BY <1>3, <2>1, Least
<1>5. n \in 0..Len(log) /\ ~ \E f : Unfolds(f, n)
  OBVIOUS
<1>6. CASE n = 0
  <2> Unfolds([i \in 0..n |-> {}], n)
    BY <1>6
  <2> QED BY <1>5
<1>7. CASE n # 0
  <2>1. n - 1 \in 0..Len(log) /\ ~ (n <= n - 1)
    BY <1>1, <1>5, <1>7
  <2>2. n - 1 \notin Undefined
    BY <1>4, <2>1
  <2>3. PICK f : Unfolds(f, n - 1)
    BY <2>1, <2>2
  <2> DEFINE h == [i \in 0..n |-> IF i = n THEN {n} \union f[log[n].first] \union f[log[n].second]
                                  ELSE f[i]]
  <2>4. ASSUME NEW i \in 0..n
        PROVE  h[i] = IF i = 0 THEN {}
                      ELSE {i} \union h[log[i].first] \union h[log[i].second]
    <3>1. CASE i = 0
      <4>1. 0 \in 0..(n - 1) /\ 0 \in 0..n /\ 0 # n
        BY <1>1, <1>5, <1>7
      <4>2. f[0] = {}
        BY <2>3, <4>1
      <4> QED BY <3>1, <4>1, <4>2
    <3>2. CASE i # 0
      <4>1. /\ i \in 1..Len(log) /\ i \in 0..n
            /\ log[i].first \in 0..(i - 1) /\ log[i].second \in 0..(i - 1)
        <5>1. i \in 1..Len(log)
          BY <1>1, <1>5, <3>2
        <5> QED BY <1>1, <5>1
      <4>2. h[log[i].first] = f[log[i].first] /\ h[log[i].second] = f[log[i].second]
        BY <4>1, <1>5
      <4>3. i # n => f[i] = {i} \union f[log[i].first] \union f[log[i].second]
        <5>1. i # n => i \in 0..(n - 1)
          BY <1>1, <1>5
        <5> QED BY <2>3, <3>2, <5>1
      <4> QED BY <4>2, <4>3, <3>2
    <3> QED BY <3>1, <3>2
  <2>5. Unfolds(h, n)
    <3> HIDE DEF h
    <3>1. h = [i \in 0..n |-> h[i]]
      BY DEF h
    <3>2. [i \in 0..n |-> h[i]] = [i \in 0..n |-> IF i = 0 THEN {}
                        ELSE {i} \union h[log[i].first] \union h[log[i].second]]
      BY <2>4
    <3> QED BY <3>1, <3>2
  <2> QED BY <1>5, <2>5
<1> QED BY <1>6, <1>7

\* The parents of a commit exist and come before it.
LEMMA LogType ==
    ASSUME NEW log, IsLog(log)
    PROVE  /\ Len(log) \in Nat
           /\ \A i \in 1..Len(log) :
                 /\ log[i].first \in 0..(i - 1) /\ log[i].second \in 0..(i - 1)
                 /\ log[i].first \in 0..Len(log) /\ log[i].second \in 0..Len(log)
                 /\ log[i] \in [first : Nat, second : Nat, edits : SUBSET Edits]
<1> DEFINE Entry == [first : Nat, second : Nat, edits : SUBSET Edits]
<1>1. /\ Len(log) \in Nat
      /\ \A i \in 1..Len(log) :
            log[i].first \in 0..(i - 1) /\ log[i].second \in 0..(i - 1)
  BY DEF IsLog
<1>2. \A i \in 1..Len(log) : log[i] \in Entry
  <2> HIDE DEF Entry
  <2>1. log \in Seq(Entry)
    BY DEF IsLog, Entry
  <2> QED BY <2>1, ElementOfSeq
<1> QED BY <1>1, <1>2

\* The ancestors of a commit are itself and those of its parents.
LEMMA AncestorsUnfold ==
    ASSUME NEW g, IsLog(g.log), NEW c \in 0..Len(g.log)
    PROVE  Ancestors(g, c) = IF c = 0 THEN {}
                             ELSE {c} \union Ancestors(g, g.log[c].first)
                                    \union Ancestors(g, g.log[c].second)
<1> DEFINE anc == CHOOSE f : f = [i \in 0..Len(g.log) |->
                    IF i = 0 THEN {} ELSE {i} \union f[g.log[i].first] \union f[g.log[i].second]]
<1>1. \A i : Ancestors(g, i) = anc[i]
  BY DEF Ancestors
<1>2. anc = [i \in 0..Len(g.log) |->
               IF i = 0 THEN {} ELSE {i} \union anc[g.log[i].first] \union anc[g.log[i].second]]
  BY AncestorsFunction, Zenon
<1> HIDE DEF anc
<1>3. anc[c] = IF c = 0 THEN {} ELSE {c} \union anc[g.log[c].first] \union anc[g.log[c].second]
  BY <1>2
<1> QED BY <1>1, <1>3

\* No ancestor of a commit comes after it.
LEMMA AncestorsBelow ==
    ASSUME NEW g, IsLog(g.log), NEW c \in 0..Len(g.log)
    PROVE  /\ Ancestors(g, c) \subseteq 1..c
           /\ c # 0 => c \in Ancestors(g, c)
<1> DEFINE Wrong == {i \in 0..Len(g.log) : ~ Ancestors(g, i) \subseteq 1..i}
<1>1. Wrong = {}
  <2>1. SUFFICES ASSUME Wrong # {}
                 PROVE  FALSE
    OBVIOUS
  <2>2. PICK i \in Wrong : \A j \in Wrong : i <= j
    <3>1. Wrong \subseteq Nat
      BY LogType
    <3> HIDE DEF Wrong
    <3> QED BY <2>1, <3>1, Least
  <2>3. i \in 0..Len(g.log) /\ i # 0
    BY AncestorsUnfold
  <2>4. /\ g.log[i].first \in 0..(i - 1) /\ g.log[i].second \in 0..(i - 1)
        /\ g.log[i].first \in 0..Len(g.log) /\ g.log[i].second \in 0..Len(g.log)
    BY <2>3, LogType
  <2>5. ASSUME NEW p \in 0..(i - 1), p \in 0..Len(g.log)
        PROVE  Ancestors(g, p) \subseteq 1..(i - 1)
    <3>1. ~ (i <= p)
      BY <2>3, <2>5, LogType
    <3>2. Ancestors(g, p) \subseteq 1..p
      BY <2>2, <2>5, <3>1
    <3> QED BY <3>2, <2>3, LogType
  <2>6. Ancestors(g, i) = {i} \union Ancestors(g, g.log[i].first)
                              \union Ancestors(g, g.log[i].second)
    BY <2>3, AncestorsUnfold
  <2>7. Ancestors(g, i) \subseteq 1..i
    <3>1. {i} \subseteq 1..i /\ 1..(i - 1) \subseteq 1..i
      BY <2>3, LogType
    <3> QED BY <2>4, <2>5, <2>6, <3>1
  <2> QED BY <2>7
<1>2. Ancestors(g, c) \subseteq 1..c
  BY <1>1
<1>3. c # 0 => c \in Ancestors(g, c)
  BY AncestorsUnfold
<1> QED BY <1>2, <1>3

\* An ancestor's ancestors are ancestors.
LEMMA AncestorsTransitive ==
    ASSUME NEW g, IsLog(g.log), NEW c \in 0..Len(g.log), NEW a \in Ancestors(g, c)
    PROVE  Ancestors(g, a) \subseteq Ancestors(g, c)
<1> DEFINE Wrong == {i \in 0..Len(g.log) : ~ \A x \in Ancestors(g, i) :
                                                Ancestors(g, x) \subseteq Ancestors(g, i)}
<1>1. Wrong = {}
  <2>1. SUFFICES ASSUME Wrong # {}
                 PROVE  FALSE
    OBVIOUS
  <2>2. PICK i \in Wrong : \A j \in Wrong : i <= j
    <3>1. Wrong \subseteq Nat
      BY LogType
    <3> HIDE DEF Wrong
    <3> QED BY <2>1, <3>1, Least
  <2>3. i \in 0..Len(g.log) /\ i # 0
    BY AncestorsUnfold
  <2>4. /\ g.log[i].first \in 0..(i - 1) /\ g.log[i].second \in 0..(i - 1)
        /\ g.log[i].first \in 0..Len(g.log) /\ g.log[i].second \in 0..Len(g.log)
    BY <2>3, LogType
  <2>5. ASSUME NEW p \in 0..(i - 1), p \in 0..Len(g.log)
        PROVE  \A x \in Ancestors(g, p) : Ancestors(g, x) \subseteq Ancestors(g, p)
    <3>1. ~ (i <= p)
      BY <2>3, <2>5, LogType
    <3> QED BY <2>2, <2>5, <3>1
  <2>6. Ancestors(g, i) = {i} \union Ancestors(g, g.log[i].first)
                              \union Ancestors(g, g.log[i].second)
    BY <2>3, AncestorsUnfold
  <2>7. \A x \in Ancestors(g, i) : Ancestors(g, x) \subseteq Ancestors(g, i)
    BY <2>4, <2>5, <2>6
  <2> QED BY <2>7
<1> QED BY <1>1

\* h has the commits of g, and maybe more.
Extends(g, h) ==
    /\ Len(g.log) <= Len(h.log)
    /\ \A i \in 1..Len(g.log) : h.log[i] = g.log[i]

\* New commits give the older ones no new ancestors.
LEMMA AncestorsKept ==
    ASSUME NEW g, NEW h, IsLog(g.log), IsLog(h.log), Extends(g, h), NEW c \in 0..Len(g.log)
    PROVE  /\ Ancestors(h, c) = Ancestors(g, c)
           /\ c \in 0..Len(h.log)
<1>0. ASSUME NEW i \in 0..Len(g.log)
      PROVE  i \in 0..Len(h.log) /\ (i # 0 => h.log[i] = g.log[i])
  <2>1. Len(g.log) \in Nat /\ Len(h.log) \in Nat /\ Len(g.log) <= Len(h.log)
    BY LogType DEF Extends
  <2>2. i # 0 => i \in 1..Len(g.log)
    BY <2>1
  <2> QED BY <2>1, <2>2 DEF Extends
<1> DEFINE Wrong == {i \in 0..Len(g.log) : Ancestors(h, i) # Ancestors(g, i)}
<1>1. Wrong = {}
  <2>1. SUFFICES ASSUME Wrong # {}
                 PROVE  FALSE
    OBVIOUS
  <2>2. PICK i \in Wrong : \A j \in Wrong : i <= j
    <3>1. Wrong \subseteq Nat
      BY LogType
    <3> HIDE DEF Wrong
    <3> QED BY <2>1, <3>1, Least
  <2>3. i \in 0..Len(g.log) /\ i # 0
    BY <1>0, AncestorsUnfold
  <2>4. /\ g.log[i].first \in 0..(i - 1) /\ g.log[i].second \in 0..(i - 1)
        /\ g.log[i].first \in 0..Len(g.log) /\ g.log[i].second \in 0..Len(g.log)
    BY <2>3, LogType
  <2>5. ASSUME NEW p \in 0..(i - 1), p \in 0..Len(g.log)
        PROVE  Ancestors(h, p) = Ancestors(g, p)
    <3>1. ~ (i <= p)
      BY <2>3, <2>5, LogType
    <3> QED BY <2>2, <2>5, <3>1
  <2>6. Ancestors(g, i) = {i} \union Ancestors(g, g.log[i].first)
                              \union Ancestors(g, g.log[i].second)
    BY <2>3, AncestorsUnfold
  <2>7. Ancestors(h, i) = {i} \union Ancestors(h, g.log[i].first)
                              \union Ancestors(h, g.log[i].second)
    BY <1>0, <2>3, AncestorsUnfold
  <2>8. Ancestors(h, i) = Ancestors(g, i)
    BY <2>4, <2>5, <2>6, <2>7
  <2> QED BY <2>8
<1> QED BY <1>0, <1>1

Entries == [first : Nat, second : Nat, edits : SUBSET Edits]
Stashed == [owner : Requests \union {Nobody}, edits : SUBSET Edits]
Repos == [log : Seq(Entries), refs : [Branches -> Nat], tracking : [Branches -> Nat],
          remote : [Branches -> Nat], upstream : SUBSET Branches, head : Branches,
          work : SUBSET Edits, stash : Seq(Stashed), merging : Nat]

\* Every commit that is named exists.
Named(g) ==
    /\ \A b \in Branches : /\ g.refs[b] \in 0..Len(g.log)
                           /\ g.tracking[b] \in 0..Len(g.log)
                           /\ g.remote[b] \in 0..Len(g.log)
    /\ g.merging \in 0..Len(g.log)
    /\ Tip(g) # 0

\* What was fetched from a branch of origin, the branch of origin still has.
Behind(g) ==
    \A b \in Branches : g.tracking[b] = 0 \/ g.tracking[b] \in Ancestors(g, g.remote[b])

Sound(g) == g \in Repos /\ IsLog(g.log) /\ Named(g) /\ Behind(g)

\* h reaches each commit that a branch of g is on.
Covers(g, h) == \A t \in Tips(g) : t = 0 \/ t \in Reachable(h)

\* Whatever is behind a branch, local, tracking or remote, is reachable.
LEMMA ReachableMember ==
    ASSUME NEW g, Sound(g), NEW b \in Branches
    PROVE  /\ Ancestors(g, g.refs[b]) \subseteq Reachable(g)
           /\ Ancestors(g, g.tracking[b]) \subseteq Reachable(g)
           /\ Ancestors(g, g.remote[b]) \subseteq Reachable(g)
           /\ g.refs[b] = 0 \/ g.refs[b] \in Reachable(g)
           /\ g.tracking[b] = 0 \/ g.tracking[b] \in Reachable(g)
           /\ g.remote[b] = 0 \/ g.remote[b] \in Reachable(g)
<1>1. g.refs[b] \in Tips(g) /\ g.tracking[b] \in Tips(g) /\ g.remote[b] \in Tips(g)
  BY DEF Tips
<1>2. \A c \in Tips(g) : Ancestors(g, c) \subseteq Reachable(g)
  BY DEF Reachable
<1>3. /\ g.refs[b] \in 0..Len(g.log)
      /\ g.tracking[b] \in 0..Len(g.log)
      /\ g.remote[b] \in 0..Len(g.log)
  BY DEF Sound, Named
<1> QED BY <1>1, <1>2, <1>3, AncestorsBelow DEF Sound

\* The tips of a sound repository are commits of it, or none.
LEMMA TipsExist ==
    ASSUME NEW g, Sound(g)
    PROVE  Tips(g) \subseteq 0..Len(g.log)
BY DEF Sound, Named, Tips

\* What a commit reaches is reachable if the commit is.
LEMMA ReachableClosed ==
    ASSUME NEW g, Sound(g), NEW c \in Reachable(g)
    PROVE  Ancestors(g, c) \subseteq Reachable(g) /\ c \in 1..Len(g.log)
<1>1. PICK t \in Tips(g) : c \in Ancestors(g, t)
  BY DEF Reachable
<1>2. t \in 0..Len(g.log) /\ IsLog(g.log)
  BY TipsExist DEF Sound
<1>3. Ancestors(g, c) \subseteq Ancestors(g, t)
  BY <1>1, <1>2, AncestorsTransitive
<1>4. c \in 1..t /\ Len(g.log) \in Nat
  BY <1>1, <1>2, AncestorsBelow, LogType
<1>5. c \in 1..Len(g.log)
  BY <1>2, <1>4
<1> QED BY <1>3, <1>5 DEF Reachable

\* If h covers g, what the commits of g hold is in reach in h.
LEMMA CommitsKept ==
    ASSUME NEW g, NEW h, Sound(g), Sound(h), Extends(g, h), Covers(g, h)
    PROVE  /\ Reachable(g) \subseteq Reachable(h)
           /\ EditsIn(g, Reachable(g)) \subseteq EditsIn(h, Reachable(h))
<1>1. ASSUME NEW c \in Reachable(g)
      PROVE  c \in Reachable(h) /\ h.log[c] = g.log[c]
  <2>1. PICK t \in Tips(g) : c \in Ancestors(g, t)
    BY DEF Reachable
  <2>2. t \in 0..Len(g.log) /\ IsLog(g.log) /\ IsLog(h.log)
    BY TipsExist DEF Sound
  <2>3. t # 0
    BY <2>1, <2>2, AncestorsUnfold
  <2>4. Ancestors(h, t) \subseteq Reachable(h)
    BY <2>3, ReachableClosed DEF Covers
  <2>5. c \in Reachable(h)
    BY <2>1, <2>2, <2>4, AncestorsKept
  <2>6. h.log[c] = g.log[c]
    BY ReachableClosed DEF Extends
  <2> QED BY <2>5, <2>6
<1>2. EditsIn(g, Reachable(g)) \subseteq EditsIn(h, Reachable(h))
  BY <1>1 DEF EditsIn
<1> QED BY <1>1, <1>2

\* Nothing kept is lost if h covers g and keeps its files and its stash.
LEMMA KeptGrows ==
    ASSUME NEW g, NEW h, Sound(g), Sound(h), Extends(g, h), Covers(g, h),
           g.work \subseteq Kept(h), StashedEdits(g) \subseteq Kept(h)
    PROVE  Kept(g) \subseteq Kept(h)
<1>1. EditsIn(g, Reachable(g)) \subseteq EditsIn(h, Reachable(h))
  BY CommitsKept
<1> QED BY <1>1 DEF Kept

\* A step that makes no commit: what it must show to keep the repository sound.
LEMMA SameLog ==
    ASSUME NEW g, NEW h, Sound(g), h.log = g.log
    PROVE  /\ Extends(g, h) /\ IsLog(h.log)
           /\ \A c \in 0..Len(g.log) : Ancestors(h, c) = Ancestors(g, c)
<1>1. IsLog(g.log) /\ Len(g.log) \in Nat
  BY LogType DEF Sound
<1>2. Extends(g, h)
  BY <1>1 DEF Extends
<1> QED BY <1>1, <1>2, AncestorsKept

\* The log of h is that of g and one commit more.
Longer(g, h, e) ==
    /\ Extends(g, h) /\ IsLog(h.log) /\ h.log \in Seq(Entries)
    /\ Len(g.log) \in Nat
    /\ Len(h.log) = Len(g.log) + 1
    /\ h.log[Len(g.log) + 1] = e
    /\ \A c \in 0..Len(g.log) : c \in 0..Len(h.log) /\ Ancestors(h, c) = Ancestors(g, c)
    /\ Ancestors(h, Len(g.log) + 1) =
         {Len(g.log) + 1} \union Ancestors(g, e.first) \union Ancestors(g, e.second)

\* Appending a commit with existing parents gives a longer log.
LEMMA LongerLog ==
    ASSUME NEW g, NEW h, Sound(g), NEW e \in Entries,
           e.first \in 0..Len(g.log), e.second \in 0..Len(g.log),
           h.log = Append(g.log, e)
    PROVE  Longer(g, h, e)
<1> DEFINE n == Len(g.log)
<1>1. IsLog(g.log) /\ n \in Nat /\ g.log \in Seq(Entries)
  <2>1. IsLog(g.log) /\ g.log \in Seq(Entries)
    BY DEF Sound, IsLog, Entries
  <2>2. n \in Nat
    BY <2>1, LogType
  <2> QED BY <2>1, <2>2
<1>2. /\ h.log \in Seq(Entries) /\ Len(h.log) = n + 1
      /\ \A i \in 1..n : h.log[i] = g.log[i]
      /\ h.log[n + 1] = e
  BY <1>1, AppendProperties
<1>3. IsLog(h.log)
  <2>1. ASSUME NEW i \in 1..(n + 1)
        PROVE  h.log[i].first \in 0..(i - 1) /\ h.log[i].second \in 0..(i - 1)
    <3>1. CASE i = n + 1
      BY <1>1, <1>2, <3>1
    <3>2. CASE i # n + 1
      <4>1. i \in 1..n
        BY <1>1, <3>2
      <4> QED BY <1>1, <1>2, <4>1, LogType
    <3> QED BY <3>1, <3>2
  <2> HIDE DEF n
  <2> QED BY <1>2, <2>1 DEF IsLog, Entries
<1>4. Extends(g, h)
  BY <1>1, <1>2 DEF Extends
<1>5. \A c \in 0..n : c \in 0..Len(h.log) /\ Ancestors(h, c) = Ancestors(g, c)
  BY <1>1, <1>3, <1>4, AncestorsKept
<1>6. Ancestors(h, n + 1) = {n + 1} \union Ancestors(g, e.first) \union Ancestors(g, e.second)
  <2>1. n + 1 \in 0..Len(h.log) /\ n + 1 # 0
    BY <1>1, <1>2
  <2>2. Ancestors(h, n + 1) = {n + 1} \union Ancestors(h, h.log[n + 1].first)
                                      \union Ancestors(h, h.log[n + 1].second)
    BY <1>3, <2>1, AncestorsUnfold
  <2> QED BY <1>2, <1>5, <2>2
<1> QED BY <1>1, <1>2, <1>3, <1>4, <1>5, <1>6 DEF Longer

-----------------------------------------------------------------------------
(* The git commands: each keeps every edit.                                *)
\* h is sound and has every edit that g has.
Keeps(g, h) == Sound(h) /\ Kept(g) \subseteq Kept(h)

\* The step touched at most the current branch, and no stash entry.
OnHead(g, h) ==
    /\ h.head = g.head /\ h.stash = g.stash
    /\ \A b \in Branches \ {g.head} : h.refs[b] = g.refs[b]

\* A command that fails and changes nothing keeps everything.
LEMMA KeepsSame ==
    ASSUME NEW g, Sound(g)
    PROVE  Keeps(g, g) /\ OnHead(g, g)
BY DEF Keeps, OnHead

\* HEAD is at a commit.
LEMMA TipType ==
    ASSUME NEW g, Sound(g)
    PROVE  /\ g.head \in Branches /\ Tip(g) = g.refs[g.head]
           /\ Tip(g) \in 0..Len(g.log) /\ Tip(g) # 0 /\ Tip(g) \in Nat
           /\ g.log[Tip(g)] \in Entries
           /\ Tip(g) \in Ancestors(g, Tip(g))
           /\ Ancestors(g, Tip(g)) \subseteq Reachable(g)
<1>1. g.head \in Branches /\ IsLog(g.log)
  BY DEF Sound, Repos
<1>2. Tip(g) \in 0..Len(g.log) /\ Tip(g) # 0 /\ Tip(g) = g.refs[g.head]
  BY <1>1 DEF Sound, Named, Tip
<1>3. Len(g.log) \in Nat
  BY <1>1, LogType
<1>4. Tip(g) \in 1..Len(g.log) /\ Tip(g) \in Nat
  BY <1>2, <1>3
<1> QED BY <1>1, <1>2, <1>4, AncestorsBelow, LogType, ReachableMember DEF Entries

\* A commit on top of HEAD, of a part of the working tree or of nothing.
LEMMA AddCommitKeeps ==
    ASSUME NEW g, Sound(g), NEW second \in 0..Len(g.log), NEW edits \in SUBSET g.work,
           NEW h, h = [AddCommit(g, second, edits) EXCEPT !.work = g.work \ edits, !.merging = 0]
    PROVE  Keeps(g, h) /\ OnHead(g, h)
<1> DEFINE n == Len(g.log) + 1
<1>1. /\ g.head \in Branches /\ Tip(g) \in 0..Len(g.log) /\ edits \in SUBSET Edits
      /\ g \in Repos
  BY TipType DEF Sound, Repos
<1>2. /\ h.log = Append(g.log, [first |-> Tip(g), second |-> second, edits |-> edits])
      /\ h.refs = [g.refs EXCEPT ![g.head] = n]
      /\ h.tracking = g.tracking /\ h.remote = g.remote /\ h.upstream = g.upstream
      /\ h.head = g.head /\ h.work = g.work \ edits /\ h.stash = g.stash /\ h.merging = 0
      /\ h = [log |-> h.log, refs |-> h.refs, tracking |-> h.tracking, remote |-> h.remote,
              upstream |-> h.upstream, head |-> h.head, work |-> h.work, stash |-> h.stash,
              merging |-> h.merging]
  BY <1>1 DEF AddCommit, Repos
<1>3. /\ Extends(g, h) /\ IsLog(h.log) /\ h.log \in Seq(Entries)
      /\ Len(g.log) \in Nat /\ Len(h.log) = n /\ n \in 1..Len(h.log)
      /\ h.log[n].edits = edits
      /\ \A c \in 0..Len(g.log) : c \in 0..Len(h.log) /\ Ancestors(h, c) = Ancestors(g, c)
      /\ Ancestors(h, n) = {n} \union Ancestors(g, Tip(g)) \union Ancestors(g, second)
  <2>1. PICK e : e = [first |-> Tip(g), second |-> second, edits |-> edits]
    OBVIOUS
  <2>2. Len(g.log) \in Nat
    BY LogType DEF Sound
  <2>3. e \in Entries /\ e.first = Tip(g) /\ e.second = second /\ e.edits = edits
    BY <1>1, <2>1, <2>2 DEF Entries
  <2>4. Longer(g, h, e)
    BY <1>1, <1>2, <2>1, <2>3, LongerLog
  <2> QED BY <2>3, <2>4 DEF Longer
<1>4. h \in Repos
  <2>1. h.refs \in [Branches -> Nat]
    <3>1. n \in Nat /\ g.refs \in [Branches -> Nat] /\ g.head \in Branches
      BY <1>1, <1>3 DEF Repos
    <3>2. \A refs : refs = [g.refs EXCEPT ![g.head] = n] => refs \in [Branches -> Nat]
      BY ONLY <3>1
    <3> QED BY <1>2, <3>2
  <2> QED BY <1>1, <1>2, <1>3, <2>1 DEF Repos
<1>5. \A b \in Branches : h.refs[b] = IF b = g.head THEN n ELSE g.refs[b]
  BY <1>1, <1>2 DEF Repos
<1>6. Sound(h)
  <2>1. Named(h)
    <3>1. /\ \A b \in Branches : /\ g.refs[b] \in 0..Len(g.log)
                                 /\ g.tracking[b] \in 0..Len(g.log)
                                 /\ g.remote[b] \in 0..Len(g.log)
          /\ Len(h.log) = n /\ Len(g.log) \in Nat
      BY <1>3 DEF Sound, Named
    <3>0. /\ h.tracking = g.tracking /\ h.remote = g.remote
          /\ \A b \in Branches : h.refs[b] = n \/ h.refs[b] = g.refs[b]
      BY <1>2, <1>5
    <3>4. n \in 0..n /\ \A i \in 0..Len(g.log) : i \in 0..n
      BY <3>1
    <3>2. \A b \in Branches : /\ h.refs[b] \in 0..Len(h.log)
                              /\ h.tracking[b] \in 0..Len(h.log)
                              /\ h.remote[b] \in 0..Len(h.log)
      BY <3>0, <3>1, <3>4
    <3>3. h.merging \in 0..Len(h.log) /\ Tip(h) = n /\ n # 0
      BY <1>1, <1>2, <1>5, <3>1 DEF Tip
    <3> QED BY <3>2, <3>3 DEF Named
  <2>2. Behind(h)
    BY <1>2, <1>3 DEF Sound, Behind, Named
  <2> QED BY <1>3, <1>4, <2>1, <2>2 DEF Sound
<1>7. Covers(g, h)
  <2>1. n \in Reachable(h) /\ Ancestors(h, n) \subseteq Reachable(h)
    BY <1>1, <1>3, <1>5, <1>6, ReachableMember
  <2>2. Tip(g) \in Reachable(h)
    BY <1>3, <2>1, TipType
  <2>3. ASSUME NEW b \in Branches
        PROVE  /\ g.refs[b] = 0 \/ g.refs[b] \in Reachable(h)
               /\ g.tracking[b] = 0 \/ g.tracking[b] \in Reachable(h)
               /\ g.remote[b] = 0 \/ g.remote[b] \in Reachable(h)
    BY <1>2, <1>5, <1>6, <2>2, ReachableMember DEF Tip
  <2> QED BY <2>3 DEF Covers, Tips
<1>8. Kept(g) \subseteq Kept(h)
  <2>1. edits \subseteq EditsIn(h, Reachable(h))
    <3>1. n \in Reachable(h)
      <4>1. h.refs[g.head] = n /\ n # 0 /\ g.head \in Branches
        BY <1>1, <1>3, <1>5
      <4> QED BY <1>6, <4>1, ReachableMember
    <3> QED BY <1>3, <3>1 DEF EditsIn
  <2>2. g.work \subseteq Kept(h) /\ StashedEdits(g) \subseteq Kept(h)
    BY <1>2, <2>1 DEF Kept, StashedEdits
  <2> QED BY <1>3, <1>6, <1>7, <2>2, KeptGrows
<1> QED BY <1>2, <1>5, <1>6, <1>8 DEF Keeps, OnHead

\* git commit keeps every edit and moves the branch of HEAD only.
LEMMA CommitKeeps ==
    ASSUME NEW g, Sound(g), NEW out \in Commit(g)
    PROVE  Keeps(g, out.repo) /\ OnHead(g, out.repo)
<1>1. CASE out = Failed(g)
  BY <1>1, KeepsSame DEF Failed
<1>2. ASSUME NEW s \in SUBSET g.work,
             out = Done([AddCommit(g, g.merging, s) EXCEPT !.work = g.work \ s, !.merging = 0])
      PROVE  Keeps(g, out.repo) /\ OnHead(g, out.repo)
  <2>1. g.merging \in 0..Len(g.log)
    BY DEF Sound, Named
  <2>2. out.repo = [AddCommit(g, g.merging, s) EXCEPT !.work = g.work \ s, !.merging = 0]
    BY <1>2 DEF Done
  <2> QED BY <2>1, <2>2, AddCommitKeeps
<1> QED BY <1>1, <1>2 DEF Commit

\* A step that makes no commit and leaves the files where they are.
Moves(g, h) ==
    /\ h \in Repos /\ Named(h) /\ Behind(h)
    /\ h.log = g.log /\ h.work = g.work /\ h.stash = g.stash

\* A command that moves branches keeps everything if the old tips stay covered.
LEMMA MovesKeep ==
    ASSUME NEW g, Sound(g), NEW h, Moves(g, h)
    PROVE  Sound(h) /\ (Covers(g, h) => Keeps(g, h))
<1>1. Sound(h) /\ Extends(g, h)
  BY SameLog DEF Moves, Sound
<1>2. g.work \subseteq Kept(h) /\ StashedEdits(g) \subseteq Kept(h)
  BY DEF Moves, Kept, StashedEdits
<1> QED BY <1>1, <1>2, KeptGrows DEF Keeps

\* Tracking branches stay behind the remote when neither moves.
LEMMA BehindSame ==
    ASSUME NEW g, Sound(g), NEW h, h.log = g.log, h.tracking = g.tracking, h.remote = g.remote
    PROVE  Behind(h)
<1>1. \A b \in Branches : Ancestors(h, g.remote[b]) = Ancestors(g, g.remote[b])
  BY SameLog DEF Sound, Named
<1> QED BY <1>1 DEF Sound, Behind

\* To cover g it is enough to reach what its branches are on.
LEMMA CoversBranches ==
    ASSUME NEW g, NEW h,
           \A b \in Branches : /\ g.refs[b] = 0 \/ g.refs[b] \in Reachable(h)
                               /\ g.tracking[b] = 0 \/ g.tracking[b] \in Reachable(h)
                               /\ g.remote[b] = 0 \/ g.remote[b] \in Reachable(h)
    PROVE  Covers(g, h)
BY DEF Covers, Tips

\* git switch keeps every edit and leaves the stash alone.
LEMMA SwitchKeeps ==
    ASSUME NEW g, Sound(g), NEW b \in Branches, NEW out \in Switch(g, b)
    PROVE  Keeps(g, out.repo) /\ out.repo.stash = g.stash /\ out.repo.log = g.log
<1>1. CASE out = Failed(g)
  BY <1>1, KeepsSame DEF Failed
<1>2. ASSUME g.refs[b] # 0 \/ g.tracking[b] # 0,
             NEW h, h = IF g.refs[b] # 0 THEN [g EXCEPT !.head = b]
                        ELSE [g EXCEPT !.head = b, !.refs[b] = g.tracking[b],
                                       !.upstream = @ \union {b}]
      PROVE  Keeps(g, h) /\ h.stash = g.stash /\ h.log = g.log
  <2>1. /\ g \in Repos
        /\ h \in Repos /\ h.log = g.log /\ h.work = g.work /\ h.stash = g.stash
        /\ h.tracking = g.tracking /\ h.remote = g.remote /\ h.merging = g.merging
        /\ h.head = b
    BY <1>2 DEF Sound, Repos
  <2>2. /\ h.refs[b] # 0 /\ h.refs[b] \in {g.refs[b], g.tracking[b]}
        /\ \A x \in Branches : g.refs[x] = 0 \/ h.refs[x] = g.refs[x]
        /\ \A x \in Branches : x = b \/ h.refs[x] = g.refs[x]
    BY <1>2, <2>1 DEF Repos
  <2>3. Named(h)
    BY <2>1, <2>2 DEF Sound, Named, Tip
  <2>4. Behind(h)
    BY <2>1, BehindSame
  <2>5. Moves(g, h)
    BY <2>1, <2>3, <2>4 DEF Moves
  <2>6. Sound(h)
    BY <2>5, MovesKeep
  <2>7. Covers(g, h)
    <3>1. \A x \in Branches : /\ g.refs[x] = 0 \/ g.refs[x] \in Reachable(h)
                              /\ g.tracking[x] = 0 \/ g.tracking[x] \in Reachable(h)
                              /\ g.remote[x] = 0 \/ g.remote[x] \in Reachable(h)
      BY <2>1, <2>2, <2>6, ReachableMember
    <3> QED BY <3>1, CoversBranches
  <2> QED BY <2>1, <2>5, <2>7, MovesKeep
<1> QED BY <1>1, <1>2 DEF Switch, Done

\* git switch -c keeps every edit and leaves the stash alone.
LEMMA CreateKeeps ==
    ASSUME NEW g, Sound(g), NEW b \in Branches, NEW out \in CreateBranch(g, b)
    PROVE  Keeps(g, out.repo) /\ out.repo.stash = g.stash /\ out.repo.log = g.log
<1>1. CASE out = Failed(g)
  BY <1>1, KeepsSame DEF Failed
<1>2. ASSUME g.refs[b] = 0, NEW h, h = [g EXCEPT !.refs[b] = Tip(g), !.head = b]
      PROVE  Keeps(g, h) /\ h.stash = g.stash /\ h.log = g.log
  <2>1. /\ g \in Repos /\ Tip(g) \in Nat /\ Tip(g) \in 0..Len(g.log) /\ Tip(g) # 0
    BY TipType DEF Sound
  <2>2. /\ h \in Repos /\ h.log = g.log /\ h.work = g.work /\ h.stash = g.stash
        /\ h.tracking = g.tracking /\ h.remote = g.remote /\ h.merging = g.merging
        /\ h.head = b
        /\ \A x \in Branches : h.refs[x] = IF x = b THEN Tip(g) ELSE g.refs[x]
    BY <1>2, <2>1 DEF Repos
  <2>3. Named(h)
    BY <2>1, <2>2 DEF Sound, Named, Tip
  <2>4. Behind(h)
    BY <2>2, BehindSame
  <2>5. Moves(g, h)
    BY <2>2, <2>3, <2>4 DEF Moves
  <2>6. Sound(h)
    BY <2>5, MovesKeep
  <2>7. Covers(g, h)
    <3>1. \A x \in Branches : /\ g.refs[x] = 0 \/ g.refs[x] \in Reachable(h)
                              /\ g.tracking[x] = 0 \/ g.tracking[x] \in Reachable(h)
                              /\ g.remote[x] = 0 \/ g.remote[x] \in Reachable(h)
      BY <1>2, <2>2, <2>6, ReachableMember
    <3> QED BY <3>1, CoversBranches
  <2> QED BY <2>2, <2>5, <2>7, MovesKeep
<1> QED BY <1>1, <1>2 DEF CreateBranch, Done

\* Of what is removed, soundness is all that a forced deletion keeps.
LEMMA RemovedSound ==
    ASSUME NEW g, Sound(g), NEW b \in Branches, b # g.head,
           NEW h, h = Removed(g, b)
    PROVE  /\ Moves(g, h) /\ Sound(h)
           /\ h.head = g.head
           /\ \A x \in Branches : x # b => h.refs[x] = g.refs[x]
           /\ h.tracking = g.tracking /\ h.remote = g.remote
<1>1. /\ g \in Repos /\ g.head \in Branches
      /\ h \in Repos /\ h.log = g.log /\ h.work = g.work /\ h.stash = g.stash
      /\ h.tracking = g.tracking /\ h.remote = g.remote /\ h.merging = g.merging
      /\ h.head = g.head
      /\ \A x \in Branches : h.refs[x] = IF x = b THEN 0 ELSE g.refs[x]
  BY DEF Sound, Repos, Removed
<1>2. Len(g.log) \in Nat
  BY LogType DEF Sound
<1>3. Named(h)
  BY <1>1, <1>2 DEF Sound, Named, Tip
<1>4. Behind(h)
  BY <1>1, BehindSame
<1>5. Moves(g, h)
  BY <1>1, <1>3, <1>4 DEF Moves
<1> QED BY <1>1, <1>5, MovesKeep

\* git branch -D leaves a sound repository; what it loses is forfeited.
LEMMA ForceDeleteSound ==
    ASSUME NEW g, Sound(g), NEW b \in Branches, NEW out \in ForceDeleteBranch(g, b)
    PROVE  Sound(out.repo) /\ out.repo.stash = g.stash /\ out.repo.log = g.log
             /\ out.repo.head = g.head
BY RemovedSound DEF ForceDeleteBranch, Failed, Done, Moves

\* git branch -d keeps every edit: the branch it deletes is merged.
LEMMA DeleteKeeps ==
    ASSUME NEW g, Sound(g), NEW b \in Branches, NEW out \in DeleteBranch(g, b)
    PROVE  Keeps(g, out.repo) /\ out.repo.stash = g.stash /\ out.repo.log = g.log
             /\ out.repo.head = g.head
<1>1. CASE out = Failed(g)
  BY <1>1, KeepsSame DEF Failed
<1>2. ASSUME b # g.head,
             NEW t \in {g.tracking[b], Tip(g)}, g.refs[b] \in Ancestors(g, t),
             NEW h, h = Removed(g, b)
      PROVE  Keeps(g, h) /\ h.stash = g.stash /\ h.log = g.log /\ h.head = g.head
  <2>1. /\ Moves(g, h) /\ Sound(h)
        /\ h.head = g.head /\ g.head \in Branches
        /\ \A x \in Branches : x # b => h.refs[x] = g.refs[x]
        /\ h.tracking = g.tracking /\ h.remote = g.remote
        /\ h.log = g.log /\ h.stash = g.stash
    BY <1>2, RemovedSound, TipType DEF Moves
  <2>2. t \in 0..Len(g.log) /\ Ancestors(h, t) = Ancestors(g, t)
    <3>1. t \in 0..Len(g.log)
      BY <2>1, TipType DEF Sound, Named
    <3> QED BY <2>1, <3>1, SameLog
  <2>3. Ancestors(h, t) \subseteq Reachable(h)
    BY <1>2, <2>1, ReachableMember DEF Tip
  <2>4. Covers(g, h)
    <3>1. \A x \in Branches : /\ g.refs[x] = 0 \/ g.refs[x] \in Reachable(h)
                              /\ g.tracking[x] = 0 \/ g.tracking[x] \in Reachable(h)
                              /\ g.remote[x] = 0 \/ g.remote[x] \in Reachable(h)
      BY <1>2, <2>1, <2>2, <2>3, ReachableMember
    <3> QED BY <3>1, CoversBranches
  <2> QED BY <2>1, <2>4, MovesKeep
<1> QED BY <1>1, <1>2 DEF DeleteBranch, Done

\* git fetch
LEMMA FetchKeeps ==
    ASSUME NEW g, Sound(g), NEW out \in Fetch(g)
    PROVE  Keeps(g, out.repo) /\ OnHead(g, out.repo) /\ out.repo.refs = g.refs
             /\ out.repo.log = g.log
<1>1. CASE out = Failed(g)
  BY <1>1, KeepsSame DEF Failed
<1>2. ASSUME NEW h, h = [g EXCEPT !.tracking = g.remote]
      PROVE  Keeps(g, h) /\ OnHead(g, h) /\ h.refs = g.refs /\ h.log = g.log
  <2>1. /\ g \in Repos /\ g.head \in Branches
        /\ h \in Repos /\ h.log = g.log /\ h.work = g.work /\ h.stash = g.stash
        /\ h.tracking = g.remote /\ h.remote = g.remote /\ h.merging = g.merging
        /\ h.head = g.head /\ h.refs = g.refs
    BY <1>2 DEF Sound, Repos
  <2>2. Named(h)
    BY <2>1 DEF Sound, Named, Tip
  <2>3. \A b \in Branches : g.remote[b] \in 0..Len(g.log)
                               /\ Ancestors(h, g.remote[b]) = Ancestors(g, g.remote[b])
    BY <2>1, SameLog DEF Sound, Named
  <2>4. Behind(h)
    BY <2>1, <2>3, AncestorsBelow DEF Sound, Behind
  <2>5. Moves(g, h)
    BY <2>1, <2>2, <2>4 DEF Moves
  <2>6. Sound(h)
    BY <2>5, MovesKeep
  <2>7. Covers(g, h)
    <3>1. ASSUME NEW b \in Branches
          PROVE  /\ g.refs[b] = 0 \/ g.refs[b] \in Reachable(h)
                 /\ g.remote[b] = 0 \/ g.remote[b] \in Reachable(h)
                 /\ Ancestors(g, g.remote[b]) \subseteq Reachable(h)
      BY <2>1, <2>3, <2>6, ReachableMember
    <3>2. \A b \in Branches : g.tracking[b] = 0 \/ g.tracking[b] \in Reachable(h)
      BY <3>1 DEF Sound, Behind
    <3> QED BY <3>1, <3>2, CoversBranches
  <2> QED BY <2>1, <2>5, <2>7, MovesKeep DEF OnHead
<1> QED BY <1>1, <1>2 DEF Fetch, Done

\* HEAD's branch moves to a commit that reaches the one it was on.
LEMMA ForwardKeeps ==
    ASSUME NEW g, Sound(g), NEW c \in 0..Len(g.log), Tip(g) \in Ancestors(g, c),
           NEW out \in FastForward(g, c)
    PROVE  Keeps(g, out.repo) /\ OnHead(g, out.repo) /\ out.repo.log = g.log
<1>1. CASE out = Failed(g)
  BY <1>1, KeepsSame DEF Failed
<1>2. ASSUME NEW h, h = [g EXCEPT !.refs[g.head] = c]
      PROVE  Keeps(g, h) /\ OnHead(g, h) /\ h.log = g.log
  <2>1. g \in Repos /\ g.head \in Branches /\ c \in Nat /\ c # 0
    BY AncestorsUnfold, LogType, TipType DEF Sound
  <2>2. /\ h \in Repos /\ h.log = g.log /\ h.work = g.work /\ h.stash = g.stash
        /\ h.tracking = g.tracking /\ h.remote = g.remote /\ h.merging = g.merging
        /\ h.head = g.head
        /\ \A x \in Branches : h.refs[x] = IF x = g.head THEN c ELSE g.refs[x]
    BY <1>2, <2>1 DEF Repos
  <2>3. Named(h)
    BY <2>1, <2>2 DEF Sound, Named, Tip
  <2>4. Behind(h)
    BY <2>2, BehindSame
  <2>5. Moves(g, h)
    BY <2>2, <2>3, <2>4 DEF Moves
  <2>6. Sound(h) /\ Ancestors(h, c) = Ancestors(g, c)
    BY <2>2, <2>5, MovesKeep, SameLog
  <2>7. Tip(g) \in Reachable(h)
    BY <2>1, <2>2, <2>6, ReachableMember
  <2>8. Covers(g, h)
    <3>1. \A x \in Branches : /\ g.refs[x] = 0 \/ g.refs[x] \in Reachable(h)
                              /\ g.tracking[x] = 0 \/ g.tracking[x] \in Reachable(h)
                              /\ g.remote[x] = 0 \/ g.remote[x] \in Reachable(h)
      BY <2>2, <2>6, <2>7, ReachableMember DEF Tip
    <3> QED BY <3>1, CoversBranches
  <2> QED BY <2>2, <2>5, <2>8, MovesKeep DEF OnHead
<1> QED BY <1>1, <1>2 DEF FastForward, Done

\* git merge keeps every edit and moves the branch of HEAD only.
LEMMA MergeKeeps ==
    ASSUME NEW g, Sound(g), NEW c \in 0..Len(g.log), NEW out \in Merge(g, c)
    PROVE  Keeps(g, out.repo) /\ OnHead(g, out.repo)
<1>1. CASE out \in {Failed(g), Done(g)}
  BY <1>1, KeepsSame DEF Failed, Done
<1>2. CASE c # 0 /\ g.merging = 0 /\ Tip(g) \in Ancestors(g, c) /\ out \in FastForward(g, c)
  BY <1>2, ForwardKeeps
<1>3. CASE g.merging = 0 /\ out = Done(AddCommit(g, c, {}))
  <2>1. g \in Repos /\ g.head \in Branches
    BY DEF Sound, Repos
  <2>2. AddCommit(g, c, {}) = [AddCommit(g, c, {}) EXCEPT !.work = g.work \ {}, !.merging = 0]
    <3>1. g.work = g.work \ {}
      OBVIOUS
    <3> QED BY <1>3, <2>1, <3>1 DEF AddCommit, Repos
  <2> QED BY <1>3, <2>2, AddCommitKeeps DEF Done
<1>4. ASSUME NEW h, h = [g EXCEPT !.merging = c]
      PROVE  Keeps(g, h) /\ OnHead(g, h)
  <2>1. c \in Nat
    BY LogType DEF Sound
  <2>2. /\ h \in Repos /\ h.log = g.log /\ h.work = g.work /\ h.stash = g.stash
        /\ h.tracking = g.tracking /\ h.remote = g.remote /\ h.merging = c
        /\ h.head = g.head /\ h.refs = g.refs
    BY <1>4, <2>1 DEF Sound, Repos
  <2>3. Named(h)
    BY <2>2 DEF Sound, Named, Tip
  <2>4. Behind(h)
    BY <2>2, BehindSame
  <2>5. Moves(g, h)
    BY <2>2, <2>3, <2>4 DEF Moves
  <2>6. Covers(g, h)
    <3>1. \A x \in Branches : /\ g.refs[x] = 0 \/ g.refs[x] \in Reachable(h)
                              /\ g.tracking[x] = 0 \/ g.tracking[x] \in Reachable(h)
                              /\ g.remote[x] = 0 \/ g.remote[x] \in Reachable(h)
      BY <2>2, <2>5, MovesKeep, ReachableMember
    <3> QED BY <3>1, CoversBranches
  <2> QED BY <2>2, <2>5, <2>6, MovesKeep DEF OnHead
<1>5. out = Failed([g EXCEPT !.merging = c]) => Keeps(g, out.repo) /\ OnHead(g, out.repo)
  BY <1>4 DEF Failed
<1> QED BY <1>1, <1>2, <1>3, <1>5 DEF Merge

\* Keeping is transitive.
LEMMA KeepsTwice ==
    ASSUME NEW f, NEW g, NEW h, Keeps(f, g), OnHead(f, g), Keeps(g, h), OnHead(g, h)
    PROVE  Keeps(f, h) /\ OnHead(f, h)
BY DEF Keeps, OnHead

\* git pull --ff-only keeps every edit and moves the branch of HEAD only.
LEMMA PullKeeps ==
    ASSUME NEW g, Sound(g), NEW b \in Branches, NEW out \in Pull(g, b)
    PROVE  Keeps(g, out.repo) /\ OnHead(g, out.repo) /\ out.repo.log = g.log
<1>1. PICK f : f = [g EXCEPT !.tracking[b] = g.remote[b]]
  OBVIOUS
<1>2. PICK c : c = g.remote[b]
  OBVIOUS
<1>3. Keeps(g, f) /\ OnHead(g, f) /\ f.log = g.log /\ Sound(f) /\ c \in 0..Len(f.log)
  <2>1. /\ g \in Repos /\ g.head \in Branches
        /\ f \in Repos /\ f.log = g.log /\ f.work = g.work /\ f.stash = g.stash
        /\ f.remote = g.remote /\ f.merging = g.merging
        /\ f.head = g.head /\ f.refs = g.refs
        /\ \A x \in Branches : f.tracking[x] = IF x = b THEN c ELSE g.tracking[x]
    BY <1>1, <1>2 DEF Sound, Repos
  <2>2. Named(f)
    BY <1>2, <2>1 DEF Sound, Named, Tip
  <2>3. \A x \in Branches : g.remote[x] \in 0..Len(g.log)
                               /\ Ancestors(f, g.remote[x]) = Ancestors(g, g.remote[x])
    BY <2>1, SameLog DEF Sound, Named
  <2>4. c = 0 \/ c \in Ancestors(g, c)
    BY <1>2, <2>3, AncestorsBelow DEF Sound
  <2>5. Behind(f)
    BY <1>2, <2>1, <2>3, <2>4 DEF Sound, Behind
  <2>6. Moves(g, f)
    BY <2>1, <2>2, <2>5 DEF Moves
  <2>7. Sound(f)
    BY <2>6, MovesKeep
  <2>8. Covers(g, f)
    <3>1. ASSUME NEW x \in Branches
          PROVE  /\ g.refs[x] = 0 \/ g.refs[x] \in Reachable(f)
                 /\ g.remote[x] = 0 \/ g.remote[x] \in Reachable(f)
                 /\ Ancestors(g, g.remote[x]) \subseteq Reachable(f)
      BY <2>1, <2>3, <2>7, ReachableMember
    <3>2. \A x \in Branches : g.tracking[x] = 0 \/ g.tracking[x] \in Reachable(f)
      BY <3>1 DEF Sound, Behind
    <3> QED BY <3>1, <3>2, CoversBranches
  <2> QED BY <1>2, <2>1, <2>3, <2>6, <2>7, <2>8, MovesKeep DEF OnHead
<1>4. \/ out \in {Failed(g), Failed(f), Done(f)}
      \/ Tip(f) \in Ancestors(f, c) /\ out \in FastForward(f, c)
  BY <1>1, <1>2 DEF Pull
<1>5. CASE out \in {Failed(g), Failed(f), Done(f)}
  BY <1>3, <1>5, KeepsSame DEF Failed, Done
<1>6. CASE Tip(f) \in Ancestors(f, c) /\ out \in FastForward(f, c)
  <2>1. Keeps(f, out.repo) /\ OnHead(f, out.repo) /\ out.repo.log = f.log
    BY <1>3, <1>6, ForwardKeeps
  <2> QED BY <1>3, <2>1, KeepsTwice
<1> QED BY <1>4, <1>5, <1>6

\* git push keeps every edit and moves no local branch.
LEMMA PushKeeps ==
    ASSUME NEW g, Sound(g), NEW b \in Branches, NEW setUpstream, NEW out \in Push(g, b, setUpstream)
    PROVE  Keeps(g, out.repo) /\ OnHead(g, out.repo) /\ out.repo.refs = g.refs
             /\ out.repo.log = g.log
<1>1. CASE out = Failed(g)
  BY <1>1, KeepsSame DEF Failed
<1>2. ASSUME g.refs[b] # 0, g.remote[b] = 0 \/ g.remote[b] \in Ancestors(g, g.refs[b]),
             NEW h, NEW t \in {g.tracking[b], g.refs[b]}, NEW up \in SUBSET Branches,
             h = [g EXCEPT !.remote[b] = g.refs[b], !.tracking[b] = t, !.upstream = up]
      PROVE  Keeps(g, h) /\ OnHead(g, h) /\ h.refs = g.refs /\ h.log = g.log
  <2>1. g \in Repos /\ g.head \in Branches /\ IsLog(g.log)
    BY DEF Sound, Repos
  <2>2. /\ h \in Repos /\ h.log = g.log /\ h.work = g.work /\ h.stash = g.stash
        /\ h.merging = g.merging /\ h.head = g.head /\ h.refs = g.refs
        /\ \A x \in Branches : h.remote[x] = IF x = b THEN g.refs[b] ELSE g.remote[x]
        /\ \A x \in Branches : h.tracking[x] = IF x = b THEN t ELSE g.tracking[x]
    BY <1>2, <2>1 DEF Repos
  <2>3. Named(h)
    BY <2>2 DEF Sound, Named, Tip
  <2>4. \A x \in Branches : /\ g.remote[x] \in 0..Len(g.log) /\ g.refs[x] \in 0..Len(g.log)
                            /\ Ancestors(h, g.remote[x]) = Ancestors(g, g.remote[x])
                            /\ Ancestors(h, g.refs[x]) = Ancestors(g, g.refs[x])
    BY <2>2, SameLog DEF Sound, Named
  <2>5. g.refs[b] \in Ancestors(g, g.refs[b])
    BY <1>2, <2>1, <2>4, AncestorsBelow
  <2>6. g.tracking[b] = 0 \/ g.tracking[b] \in Ancestors(g, g.refs[b])
    <3>1. CASE g.remote[b] = 0
      BY <2>1, <2>4, <3>1, AncestorsUnfold DEF Sound, Behind
    <3>2. CASE g.remote[b] \in Ancestors(g, g.refs[b])
      BY <2>1, <2>4, <3>2, AncestorsTransitive DEF Sound, Behind
    <3> QED BY <1>2, <3>1, <3>2
  <2>7. Behind(h)
    BY <2>2, <2>4, <2>5, <2>6 DEF Sound, Behind
  <2>8. Moves(g, h)
    BY <2>2, <2>3, <2>7 DEF Moves
  <2>9. Sound(h)
    BY <2>8, MovesKeep
  <2>10. Covers(g, h)
    <3>1. ASSUME NEW x \in Branches
          PROVE  /\ g.refs[x] = 0 \/ g.refs[x] \in Reachable(h)
                 /\ Ancestors(g, g.refs[x]) \subseteq Reachable(h)
                 /\ x # b => g.tracking[x] = 0 \/ g.tracking[x] \in Reachable(h)
                 /\ x # b => g.remote[x] = 0 \/ g.remote[x] \in Reachable(h)
      BY <2>2, <2>4, <2>9, ReachableMember
    <3> QED BY <1>2, <2>6, <3>1, CoversBranches
  <2> QED BY <2>2, <2>8, <2>10, MovesKeep DEF OnHead
<1>3. ASSUME NEW h, h = [g EXCEPT !.remote[b] = g.refs[b]]
      PROVE  h = [g EXCEPT !.remote[b] = g.refs[b], !.tracking[b] = g.tracking[b],
                           !.upstream = g.upstream]
  BY <1>3 DEF Sound, Repos
<1>4. ASSUME NEW h, h = [[g EXCEPT !.remote[b] = g.refs[b]]
                            EXCEPT !.tracking[b] = g.refs[b],
                                   !.upstream = IF setUpstream THEN @ \union {b} ELSE @]
      PROVE  h = [g EXCEPT !.remote[b] = g.refs[b], !.tracking[b] = g.refs[b],
                    !.upstream = IF setUpstream THEN g.upstream \union {b} ELSE g.upstream]
  BY <1>4 DEF Sound, Repos
<1>5. /\ g.upstream \in SUBSET Branches
      /\ (IF setUpstream THEN g.upstream \union {b} ELSE g.upstream) \in SUBSET Branches
  BY DEF Sound, Repos
<1>6. PICK landed : landed = [g EXCEPT !.remote[b] = g.refs[b]]
  OBVIOUS
<1>7. PICK pushed : pushed = [landed EXCEPT !.tracking[b] = g.refs[b],
                                !.upstream = IF setUpstream THEN @ \union {b} ELSE @]
  OBVIOUS
<1>8. \/ out = Failed(g)
      \/ /\ g.refs[b] # 0 /\ (g.remote[b] = 0 \/ g.remote[b] \in Ancestors(g, g.refs[b]))
         /\ out \in {Done(pushed), Failed(landed)}
  BY <1>6, <1>7 DEF Push
<1>9. out = Done(pushed) => out.repo = pushed
  BY DEF Done
<1>10. out = Failed(landed) => out.repo = landed
  BY DEF Failed
<1>11. CASE /\ g.refs[b] # 0 /\ (g.remote[b] = 0 \/ g.remote[b] \in Ancestors(g, g.refs[b]))
            /\ out = Done(pushed)
  <2>1. pushed = [g EXCEPT !.remote[b] = g.refs[b], !.tracking[b] = g.refs[b],
                    !.upstream = IF setUpstream THEN g.upstream \union {b} ELSE g.upstream]
    BY <1>4, <1>6, <1>7
  <2>2. PICK up \in SUBSET Branches :
           up = IF setUpstream THEN g.upstream \union {b} ELSE g.upstream
    BY <1>5
  <2>3. pushed = [g EXCEPT !.remote[b] = g.refs[b], !.tracking[b] = g.refs[b], !.upstream = up]
    BY <2>1, <2>2
  <2>4. Keeps(g, pushed) /\ OnHead(g, pushed) /\ pushed.refs = g.refs /\ pushed.log = g.log
    BY <1>2, <1>11, <2>3
  <2> QED BY <1>9, <1>11, <2>4
<1>12. CASE /\ g.refs[b] # 0 /\ (g.remote[b] = 0 \/ g.remote[b] \in Ancestors(g, g.refs[b]))
            /\ out = Failed(landed)
  <2>1. landed = [g EXCEPT !.remote[b] = g.refs[b], !.tracking[b] = g.tracking[b],
                    !.upstream = g.upstream]
    BY <1>3, <1>6
  <2>2. Keeps(g, landed) /\ OnHead(g, landed) /\ landed.refs = g.refs /\ landed.log = g.log
    BY <1>2, <1>5, <1>12, <2>1
  <2> QED BY <1>10, <1>12, <2>2
<1> QED BY <1>1, <1>8, <1>11, <1>12

\* The n steps of HEAD~n, one commit each.
Walk(g, back, n) ==
    back = [i \in 0..n |-> IF i = 0 THEN Tip(g)
                           ELSE IF back[i - 1] = 0 THEN 0 ELSE g.log[back[i - 1]].first]

\* The recursive function in FirstParent exists.
LEMMA WalkExists ==
    ASSUME NEW g, NEW n \in Nat
    PROVE  \E back : Walk(g, back, n)
<1> DEFINE Stuck == {m \in Nat : ~ \E back : Walk(g, back, m)}
<1>1. SUFFICES ASSUME Stuck # {}
               PROVE  FALSE
  OBVIOUS
<1>2. PICK m \in Stuck : \A k \in Stuck : m <= k
  <2>1. Stuck \subseteq Nat
    OBVIOUS
  <2> HIDE DEF Stuck
  <2> QED BY <1>1, <2>1, Least
<1>3. m \in Nat /\ ~ \E back : Walk(g, back, m)
  OBVIOUS
<1>4. CASE m = 0
  <2>1. Walk(g, [i \in 0..0 |-> Tip(g)], 0)
    BY DEF Walk
  <2> QED BY <1>3, <1>4, <2>1
<1>5. CASE m # 0
  <2>1. m - 1 \in Nat /\ ~ (m <= m - 1)
    BY <1>3, <1>5
  <2>2. PICK f : Walk(g, f, m - 1)
    BY <1>2, <2>1
  <2> DEFINE h == [i \in 0..m |-> IF i = m THEN IF f[m - 1] = 0 THEN 0 ELSE g.log[f[m - 1]].first
                                  ELSE f[i]]
  <2>3. ASSUME NEW i \in 0..m
        PROVE  h[i] = IF i = 0 THEN Tip(g)
                      ELSE IF h[i - 1] = 0 THEN 0 ELSE g.log[h[i - 1]].first
    <3>1. CASE i = m
      <4>1. h[m - 1] = f[m - 1]
        BY <2>1
      <4> QED BY <1>5, <3>1, <4>1
    <3>2. CASE i # m
      <4>1. i \in 0..(m - 1) /\ i # 0 => i - 1 \in 0..(m - 1) /\ i - 1 # m /\ i - 1 \in 0..m
        BY <1>3, <3>2
      <4>2. i \in 0..(m - 1)
        BY <1>3, <3>2
      <4>3. f[i] = IF i = 0 THEN Tip(g) ELSE IF f[i - 1] = 0 THEN 0 ELSE g.log[f[i - 1]].first
        BY <2>2, <4>2 DEF Walk
      <4>4. i # 0 => h[i - 1] = f[i - 1]
        BY <4>1, <4>2
      <4> QED BY <3>2, <4>3, <4>4
    <3> QED BY <3>1, <3>2
  <2>4. Walk(g, h, m)
    <3> HIDE DEF h
    <3>1. h = [i \in 0..m |-> h[i]]
      BY DEF h
    <3>2. [i \in 0..m |-> h[i]] = [i \in 0..m |-> IF i = 0 THEN Tip(g)
                                  ELSE IF h[i - 1] = 0 THEN 0 ELSE g.log[h[i - 1]].first]
      BY <2>3
    <3> QED BY <3>1, <3>2 DEF Walk
  <2> QED BY <1>3, <2>4
<1> QED BY <1>4, <1>5

\* HEAD~n is the end of a walk of n steps.
LEMMA FirstParentWalk ==
    ASSUME NEW g, NEW n \in Nat
    PROVE  \E back : Walk(g, back, n) /\ FirstParent(g, n) = back[n]
<1> DEFINE back == CHOOSE f : f = [i \in 0..n |-> IF i = 0 THEN Tip(g)
                              ELSE IF f[i - 1] = 0 THEN 0 ELSE g.log[f[i - 1]].first]
<1>1. FirstParent(g, n) = back[n]
  BY DEF FirstParent
<1>2. Walk(g, back, n)
  BY WalkExists, Zenon DEF Walk
<1> HIDE DEF back
<1> QED BY <1>1, <1>2

\* Every commit of a walk exists, is behind HEAD and comes before the last.
LEMMA WalkType ==
    ASSUME NEW g, Sound(g), NEW n \in Nat, NEW back, Walk(g, back, n)
    PROVE  /\ back[0] = Tip(g)
           /\ \A i \in 1..n : back[i] = IF back[i - 1] = 0 THEN 0 ELSE g.log[back[i - 1]].first
           /\ \A i \in 0..n : /\ back[i] \in 0..Len(g.log)
                              /\ back[i] # 0 => back[i] \in Ancestors(g, Tip(g))
<1>1. back[0] = Tip(g)
  BY DEF Walk
<1>2. \A i \in 1..n : back[i] = IF back[i - 1] = 0 THEN 0 ELSE g.log[back[i - 1]].first
  BY DEF Walk
<1> DEFINE Stray == {i \in 0..n : ~ (/\ back[i] \in 0..Len(g.log)
                                     /\ back[i] # 0 => back[i] \in Ancestors(g, Tip(g)))}
<1>3. Stray = {}
  <2>1. SUFFICES ASSUME Stray # {}
                 PROVE  FALSE
    OBVIOUS
  <2>2. PICK i \in Stray : \A j \in Stray : i <= j
    <3>1. Stray \subseteq Nat
      OBVIOUS
    <3> HIDE DEF Stray
    <3> QED BY <2>1, <3>1, Least
  <2>3. i \in 1..n
    BY <1>1, TipType
  <2>4. i - 1 \in 0..n /\ ~ (i <= i - 1)
    BY <2>3
  <2>5. back[i - 1] \in 0..Len(g.log) /\ (back[i - 1] # 0 => back[i - 1] \in Ancestors(g, Tip(g)))
    BY <2>2, <2>4
  <2>6. IsLog(g.log) /\ Len(g.log) \in Nat
    BY LogType DEF Sound
  <2>7. CASE back[i - 1] = 0
    BY <1>2, <2>3, <2>6, <2>7
  <2>8. CASE back[i - 1] # 0
    <3>1. back[i - 1] \in 1..Len(g.log) /\ back[i] = g.log[back[i - 1]].first
      BY <1>2, <2>3, <2>5, <2>6, <2>8
    <3>2. back[i] \in 0..Len(g.log)
      BY <2>6, <3>1, LogType
    <3>3. Ancestors(g, back[i]) \subseteq Ancestors(g, back[i - 1])
      BY <2>5, <2>6, <2>8, <3>1, AncestorsUnfold
    <3>4. Ancestors(g, back[i - 1]) \subseteq Ancestors(g, Tip(g))
      BY <2>5, <2>6, <2>8, TipType, AncestorsTransitive
    <3>5. back[i] # 0 => back[i] \in Ancestors(g, back[i])
      BY <2>6, <3>2, AncestorsBelow
    <3> QED BY <3>2, <3>3, <3>4, <3>5
  <2> QED BY <2>7, <2>8
<1> QED BY <1>1, <1>2, <1>3

\* git reset --mixed keeps every edit: what leaves the branch is in the files.
LEMMA ResetKeeps ==
    ASSUME NEW g, Sound(g), NEW n \in Nat, NEW out \in ResetMixed(g, n)
    PROVE  Keeps(g, out.repo) /\ OnHead(g, out.repo) /\ out.repo.log = g.log
<1>1. CASE out = Failed(g)
  BY <1>1, KeepsSame DEF Failed
<1>2. PICK c : c = FirstParent(g, n)
  OBVIOUS
<1>3. c \in 0..Len(g.log) /\ (c # 0 => c \in Ancestors(g, Tip(g)))
  <2>1. PICK back : Walk(g, back, n) /\ c = back[n]
    BY <1>2, FirstParentWalk
  <2> QED BY <2>1, WalkType
<1>4. ASSUME c # 0,
             NEW h, h = [g EXCEPT !.refs[g.head] = c, !.merging = 0,
                           !.work = @ \union EditsIn(g, CommitRange(g, c, Tip(g)))]
      PROVE  Keeps(g, h) /\ OnHead(g, h) /\ h.log = g.log
  <2>1. /\ g \in Repos /\ g.head \in Branches /\ IsLog(g.log) /\ Len(g.log) \in Nat
        /\ c \in Nat
    BY <1>3, LogType DEF Sound, Repos
  <2>2. EditsIn(g, CommitRange(g, c, Tip(g))) \subseteq Edits
    <3>1. ASSUME NEW x \in CommitRange(g, c, Tip(g))
          PROVE  g.log[x].edits \subseteq Edits
      <4>1. x \in Reachable(g)
        BY TipType DEF CommitRange
      <4>2. x \in 1..Len(g.log)
        BY <4>1, ReachableClosed
      <4> QED BY <2>1, <4>2, LogType
    <3> QED BY <3>1 DEF EditsIn
  <2>3. /\ h \in Repos /\ h.log = g.log /\ h.stash = g.stash
        /\ h.work = g.work \union EditsIn(g, CommitRange(g, c, Tip(g)))
        /\ h.tracking = g.tracking /\ h.remote = g.remote /\ h.merging = 0
        /\ h.head = g.head
        /\ \A x \in Branches : h.refs[x] = IF x = g.head THEN c ELSE g.refs[x]
    BY <1>4, <2>1, <2>2 DEF Repos
  <2>4. Named(h)
    BY <1>3, <1>4, <2>1, <2>3 DEF Sound, Named, Tip
  <2>5. Behind(h)
    BY <2>3, BehindSame
  <2>6. Sound(h)
    BY <2>1, <2>3, <2>4, <2>5 DEF Sound
  <2>7. \A t \in 0..Len(g.log) : Ancestors(h, t) = Ancestors(g, t)
    BY <2>3, SameLog
  <2>8. ASSUME NEW x \in Reachable(g)
        PROVE  x \in Reachable(h) \/ x \in CommitRange(g, c, Tip(g))
    <3>1. PICK t : /\ x \in Ancestors(g, t)
                   /\ \E b \in Branches : t \in {g.refs[b], g.tracking[b], g.remote[b]}
      <4>1. PICK t \in Tips(g) : x \in Ancestors(g, t)
        BY DEF Reachable
      <4> QED BY <4>1 DEF Tips
    <3>0. PICK b \in Branches : t \in {g.refs[b], g.tracking[b], g.remote[b]}
      BY <3>1
    <3>2. t \in 0..Len(g.log) /\ Ancestors(h, t) = Ancestors(g, t)
      BY <2>7, <3>0 DEF Sound, Named
    <3>3. CASE t \in {h.refs[b], h.tracking[b], h.remote[b]}
      BY <2>6, <3>1, <3>2, <3>3, ReachableMember
    <3>4. CASE t \notin {h.refs[b], h.tracking[b], h.remote[b]}
      <4>1. t = Tip(g)
        BY <2>3, <3>0, <3>4 DEF Tip
      <4>2. Ancestors(g, c) \subseteq Reachable(h)
        BY <1>3, <2>1, <2>3, <2>6, <2>7, ReachableMember
      <4> QED BY <3>1, <4>1, <4>2 DEF CommitRange
    <3> QED BY <3>3, <3>4
  <2>9. Kept(g) \subseteq Kept(h)
    BY <2>3, <2>8 DEF Kept, EditsIn, StashedEdits
  <2> QED BY <2>3, <2>6, <2>9 DEF Keeps, OnHead
<1> QED BY <1>1, <1>2, <1>4 DEF ResetMixed, Done

\* The step touched nothing but the files and the stash.
FilesOnly(g, h) ==
    /\ h.log = g.log /\ h.head = g.head /\ h.refs = g.refs
    /\ h.tracking = g.tracking /\ h.remote = g.remote /\ h.upstream = g.upstream

\* A command that only moves edits between files and stash keeps them.
LEMMA FilesKeep ==
    ASSUME NEW g, Sound(g), NEW h \in Repos, FilesOnly(g, h), h.merging = g.merging,
           g.work \union StashedEdits(g) \subseteq h.work \union StashedEdits(h)
    PROVE  Keeps(g, h)
<1>1. Named(h) /\ Behind(h)
  BY BehindSame DEF Sound, Named, Tip, FilesOnly
<1>2. Sound(h)
  BY <1>1, SameLog DEF Sound, FilesOnly
<1>3. Covers(g, h)
  <2>1. \A b \in Branches : /\ g.refs[b] = 0 \/ g.refs[b] \in Reachable(h)
                            /\ g.tracking[b] = 0 \/ g.tracking[b] \in Reachable(h)
                            /\ g.remote[b] = 0 \/ g.remote[b] \in Reachable(h)
    BY <1>2, ReachableMember DEF FilesOnly
  <2> QED BY <2>1, CoversBranches
<1>4. g.work \subseteq Kept(h) /\ StashedEdits(g) \subseteq Kept(h)
  BY DEF Kept
<1> QED BY <1>2, <1>3, <1>4, SameLog, KeptGrows DEF Keeps, FilesOnly

\* t is s with the entry e on top.
OnTop(e, s, t) ==
    /\ Len(t) = Len(s) + 1 /\ t[1] = e
    /\ \A i \in 1..Len(s) : t[i + 1] = s[i]

\* The stash after a push.
LEMMA Pushed ==
    ASSUME NEW e \in Stashed, NEW s \in Seq(Stashed)
    PROVE  <<e>> \o s \in Seq(Stashed) /\ OnTop(e, s, <<e>> \o s)
             /\ Head(<<e>> \o s) = e /\ Tail(<<e>> \o s) = s /\ <<e>> \o s # <<>>
BY DEF OnTop

\* The stash before a pop.
LEMMA Popped ==
    ASSUME NEW s \in Seq(Stashed), s # <<>>
    PROVE  Tail(s) \in Seq(Stashed) /\ Head(s) \in Stashed /\ OnTop(Head(s), Tail(s), s)
BY DEF OnTop

\* git stash push keeps every edit, and adds at most one entry, its owner's.
LEMMA StashPushKeeps ==
    ASSUME NEW g, Sound(g), NEW o \in Requests \union {Nobody}, NEW out \in StashPush(g, o)
    PROVE  /\ Keeps(g, out.repo) /\ FilesOnly(g, out.repo)
           /\ \/ out.repo.stash = g.stash
              \/ out.ok /\ \E e \in Stashed : e.owner = o /\ out.repo.stash = <<e>> \o g.stash
<1>1. CASE out \in {Failed(g), Done(g)}
  BY <1>1, KeepsSame DEF Failed, Done, FilesOnly
<1>2. ASSUME NEW h, NEW e, e = [owner |-> o, edits |-> g.work],
             h = [g EXCEPT !.work = {}, !.stash = <<e>> \o g.stash]
      PROVE  Keeps(g, h) /\ FilesOnly(g, h) /\ h.stash = <<e>> \o g.stash
               /\ e \in Stashed /\ e.owner = o
  <2>1. g \in Repos /\ e \in Stashed /\ g.stash \in Seq(Stashed) /\ e.edits = g.work
          /\ e.owner = o
    BY <1>2 DEF Sound, Repos, Stashed
  <2>2. <<e>> \o g.stash \in Seq(Stashed) /\ OnTop(e, g.stash, <<e>> \o g.stash)
    BY <2>1, Pushed
  <2>3. h \in Repos /\ FilesOnly(g, h) /\ h.work = {} /\ h.stash = <<e>> \o g.stash
          /\ h.merging = g.merging
    BY <1>2, <2>1, <2>2 DEF Repos, FilesOnly
  <2>4. g.work \union StashedEdits(g) \subseteq StashedEdits(h)
    <3>1. Len(g.stash) \in Nat /\ Len(h.stash) = Len(g.stash) + 1 /\ h.stash[1] = e
            /\ \A i \in 1..Len(g.stash) : h.stash[i + 1] = g.stash[i]
      BY <2>1, <2>2, <2>3 DEF OnTop
    <3>2. 1 \in 1..Len(h.stash) /\ \A i \in 1..Len(g.stash) : i + 1 \in 1..Len(h.stash)
      BY <3>1
    <3> QED BY <2>1, <3>1, <3>2 DEF StashedEdits
  <2> QED BY <2>1, <2>3, <2>4, FilesKeep
<1>3. CASE out = Done([g EXCEPT !.work = {}, !.stash = <<[owner |-> o, edits |-> g.work]>> \o @])
  <2>1. PICK e : e = [owner |-> o, edits |-> g.work]
    OBVIOUS
  <2>2. PICK h : h = [g EXCEPT !.work = {}, !.stash = <<e>> \o g.stash]
    OBVIOUS
  <2>3. out.repo = h /\ out.ok
    BY <1>3, <2>1, <2>2 DEF Done, Sound, Repos
  <2>4. Keeps(g, h) /\ FilesOnly(g, h) /\ h.stash = <<e>> \o g.stash /\ e \in Stashed
          /\ e.owner = o
    BY <1>2, <2>1, <2>2
  <2> QED BY <2>3, <2>4
<1> QED BY <1>1, <1>3 DEF StashPush

\* git stash pop keeps every edit, and removes at most the top entry.
LEMMA StashPopKeeps ==
    ASSUME NEW g, Sound(g), NEW out \in StashPop(g)
    PROVE  /\ Keeps(g, out.repo) /\ FilesOnly(g, out.repo)
           /\ \/ ~out.ok /\ out.repo.stash = g.stash
              \/ out.ok /\ g.stash # <<>> /\ out.repo.stash = Tail(g.stash)
<1>1. CASE out = Failed(g)
  BY <1>1, KeepsSame DEF Failed, FilesOnly
<1>2. CASE g.stash # <<>>
  <2>1. PICK applied : applied = [g EXCEPT !.work = @ \union Head(g.stash).edits]
    OBVIOUS
  <2>2. PICK h : h = [applied EXCEPT !.stash = Tail(@)]
    OBVIOUS
  <2>3. /\ g \in Repos /\ g.stash \in Seq(Stashed) /\ Head(g.stash) \in Stashed
        /\ Head(g.stash).edits \subseteq Edits /\ Tail(g.stash) \in Seq(Stashed)
        /\ OnTop(Head(g.stash), Tail(g.stash), g.stash)
    <3>1. g \in Repos /\ g.stash \in Seq(Stashed)
      BY DEF Sound, Repos
    <3>2. Head(g.stash) \in Stashed /\ Tail(g.stash) \in Seq(Stashed)
            /\ OnTop(Head(g.stash), Tail(g.stash), g.stash)
      BY <1>2, <3>1, Popped
    <3> QED BY <3>1, <3>2 DEF Stashed
  <2>4. /\ applied \in Repos /\ FilesOnly(g, applied) /\ applied.merging = g.merging
        /\ applied.work = g.work \union Head(g.stash).edits /\ applied.stash = g.stash
    BY <2>1, <2>3 DEF Repos, FilesOnly
  <2>5. /\ h \in Repos /\ FilesOnly(g, h) /\ h.merging = g.merging
        /\ h.work = g.work \union Head(g.stash).edits /\ h.stash = Tail(g.stash)
    BY <2>2, <2>3, <2>4 DEF Repos, FilesOnly
  <2>6. Keeps(g, applied)
    BY <2>4, FilesKeep DEF StashedEdits
  <2>7. StashedEdits(g) \subseteq Head(g.stash).edits \union StashedEdits(h)
    <3>1. /\ Len(h.stash) \in Nat /\ Len(g.stash) = Len(h.stash) + 1
          /\ g.stash[1] = Head(g.stash)
          /\ \A i \in 1..Len(h.stash) : g.stash[i + 1] = h.stash[i]
      BY <2>3, <2>5 DEF OnTop
    <3>2. \A i \in 1..Len(g.stash) : i = 1 \/ (i - 1 \in 1..Len(h.stash) /\ i = (i - 1) + 1)
      BY <3>1
    <3>3. \A i \in 1..Len(g.stash) : \/ g.stash[i] = Head(g.stash)
                                     \/ \E j \in 1..Len(h.stash) : g.stash[i] = h.stash[j]
      BY <3>1, <3>2
    <3> QED BY <3>3 DEF StashedEdits
  <2>8. Keeps(g, h)
    BY <2>5, <2>7, FilesKeep
  <2>9. out \in {Failed(g), Failed(applied), Done(h)}
    BY <1>2, <2>1, <2>2 DEF StashPop
  <2> QED BY <1>1, <1>2, <2>4, <2>5, <2>6, <2>8, <2>9 DEF Failed, Done
<1> QED BY <1>1, <1>2 DEF StashPop

-----------------------------------------------------------------------------
(* The queue, and the records of the jobs.                                 *)
JobRecord == [pc : Steps, op : Ops \union {"none"}, expected : Branches \union {Nobody},
              target : Branches \union {Nobody}, ctx : Context(MaxCommits),
              flag : BOOLEAN, outcome : Outcomes]

\* The operation that a step belongs to, and what the operation names.
Shape(j) ==
    /\ j \in JobRecord
    /\ j.outcome # "none" <=> j.pc = "settled"
    /\ j.pc \in {"verify", "status"} => j.op \in WithExpected
    /\ j.pc \in {"count", "rest", "reset"} => j.op \in Uncommits
    /\ j.pc \in {"stash", "switch", "pop", "restore"} => j.op = "stashSwitch"
    /\ j.pc = "probe" => j.op = "push"
    /\ j.pc \in {"commit", "hash"} => j.op = "commit"
    /\ j.op \in WithTarget /\ j.pc \notin {"idle", "settled"} => j.target \in Branches

Unsettled(j) == j.pc \notin {"idle", "settled"}

\* The requests whose jobs are not settled stand in the queue, each once, and
\* only the first of them has left its first step.
QueueInv ==
    /\ queue \in Seq(Requests)
    /\ \A i, k \in 1..Len(queue) : queue[i] = queue[k] => i = k
    /\ \A r \in Requests : (\E i \in 1..Len(queue) : queue[i] = r) <=> Unsettled(job[r])
    /\ \A i \in 2..Len(queue) : job[queue[i]].pc = FirstStep(job[queue[i]].op)

JobInv ==
    /\ DOMAIN job = Requests /\ job = [r \in Requests |-> job[r]]
    /\ \A r \in Requests : Shape(job[r])
    /\ QueueInv

RepoInv == Sound(repo) /\ Len(repo.log) <= MaxCommits

HistoryInv == made \subseteq Edits /\ forfeited \subseteq made

\* The inductive invariant.
IInv == JobInv /\ RepoInv /\ HistoryInv /\ NothingLost

\* Where the jobs begin.
LEMMA FirstStepType ==
    ASSUME NEW op
    PROVE  /\ FirstStep(op) \in {"verify", "stash", "probe", "commit", "write"}
           /\ FirstStep(op) = "verify" <=> op \in WithExpected
           /\ FirstStep(op) = "stash" => op = "stashSwitch"
           /\ FirstStep(op) = "probe" => op = "push"
           /\ FirstStep(op) = "commit" => op = "commit"
BY DEF FirstStep, WithExpected

\* The request that runs is the first of the queue and not settled.
LEMMA Running ==
    ASSUME JobInv, NEW r \in Requests, Active(r)
    PROVE  /\ queue \in Seq(Requests) /\ Len(queue) \in Nat /\ Len(queue) >= 1
           /\ queue[1] = r /\ 1 \in 1..Len(queue)
           /\ Unsettled(job[r]) /\ Shape(job[r])
<1>1. queue \in Seq(Requests) /\ queue # <<>> /\ Head(queue) = r
  BY DEF JobInv, QueueInv, Active
<1>2. Len(queue) \in Nat /\ Len(queue) >= 1 /\ queue[1] = r /\ 1 \in 1..Len(queue)
  BY <1>1
<1> QED BY <1>1, <1>2 DEF JobInv, QueueInv

\* The record of r is replaced by j.
Replaces(r, j) == job' = [job EXCEPT ![r] = j]

\* Replacing one record leaves the others.
LEMMA Replaced ==
    ASSUME JobInv, NEW r \in Requests, NEW j, Shape(j), Replaces(r, j)
    PROVE  /\ DOMAIN job' = Requests /\ job' = [q \in Requests |-> job'[q]]
           /\ job'[r] = j
           /\ \A q \in Requests : q # r => job'[q] = job[q]
           /\ \A q \in Requests : Shape(job'[q])
BY DEF JobInv, Replaces

\* A request that joins the queue stands at its end, at its first step.
LEMMA SubmitJobs ==
    ASSUME JobInv, NEW r \in Requests, job[r].pc = "idle",
           NEW j, Shape(j), Unsettled(j), j.pc = FirstStep(j.op), Replaces(r, j),
           queue' = Append(queue, r)
    PROVE  JobInv'
<1> DEFINE n == Len(queue)
<1>1. /\ DOMAIN job' = Requests /\ job' = [q \in Requests |-> job'[q]]
      /\ job'[r] = j
      /\ \A q \in Requests : q # r => job'[q] = job[q]
      /\ \A q \in Requests : Shape(job'[q])
  BY Replaced
<1>2. queue \in Seq(Requests) /\ n \in Nat
  BY DEF JobInv, QueueInv
<1>3. /\ queue' \in Seq(Requests) /\ Len(queue') = n + 1 /\ queue'[n + 1] = r
      /\ \A i \in 1..n : queue'[i] = queue[i] /\ queue[i] \in Requests
  BY <1>2, AppendProperties, ElementOfSeq
<1>4. \A i \in 1..n : queue[i] # r
  <2>1. ~ Unsettled(job[r])
    BY DEF Unsettled
  <2> QED BY <2>1 DEF JobInv, QueueInv
<1>5. \A i, k \in 1..(n + 1) : queue'[i] = queue'[k] => i = k
  <2>1. \A i \in 1..(n + 1) : i = n + 1 \/ i \in 1..n
    BY <1>2
  <2>2. \A i, k \in 1..n : queue[i] = queue[k] => i = k
    BY DEF JobInv, QueueInv
  <2> QED BY <1>3, <1>4, <2>1, <2>2
<1>6. ASSUME NEW q \in Requests
      PROVE  (\E i \in 1..(n + 1) : queue'[i] = q) <=> Unsettled(job'[q])
  <2>1. (\E i \in 1..n : queue[i] = q) <=> Unsettled(job[q])
    BY DEF JobInv, QueueInv
  <2>2. CASE q = r
    <3>1. n + 1 \in 1..(n + 1)
      BY <1>2
    <3> QED BY <1>1, <1>3, <2>2, <3>1
  <2>3. CASE q # r
    <3>1. \A i \in 1..(n + 1) : i = n + 1 \/ i \in 1..n
      BY <1>2
    <3>2. \A i \in 1..n : i \in 1..(n + 1)
      BY <1>2
    <3> QED BY <1>1, <1>3, <2>1, <2>3, <3>1, <3>2
  <2> QED BY <2>2, <2>3
<1>7. ASSUME NEW i \in 2..(n + 1)
      PROVE  job'[queue'[i]].pc = FirstStep(job'[queue'[i]].op)
  <2>1. CASE i = n + 1
    BY <1>1, <1>3, <2>1
  <2>2. CASE i # n + 1
    <3>1. i \in 2..n /\ i \in 1..n
      BY <1>2, <2>2
    <3> QED BY <1>1, <1>3, <1>4, <3>1 DEF JobInv, QueueInv
  <2> QED BY <2>1, <2>2
<1> QED BY <1>1, <1>3, <1>5, <1>6, <1>7 DEF JobInv, QueueInv

\* A running job that goes on leaves the queue as it is.
LEMMA ProceedJobs ==
    ASSUME JobInv, NEW r \in Requests, Active(r),
           NEW j, Shape(j), Unsettled(j), Replaces(r, j), UNCHANGED queue
    PROVE  JobInv'
<1>1. /\ DOMAIN job' = Requests /\ job' = [q \in Requests |-> job'[q]]
      /\ job'[r] = j
      /\ \A q \in Requests : q # r => job'[q] = job[q]
      /\ \A q \in Requests : Shape(job'[q])
  BY Replaced
<1>2. /\ queue \in Seq(Requests) /\ Len(queue) \in Nat /\ queue[1] = r
      /\ 1 \in 1..Len(queue) /\ Unsettled(job[r])
  BY Running
<1>3. \A i \in 2..Len(queue) : queue[i] # r /\ queue[i] \in Requests
  <2>1. \A i \in 2..Len(queue) : i \in 1..Len(queue) /\ i # 1
    BY <1>2
  <2> QED BY <1>2, <2>1, ElementOfSeq DEF JobInv, QueueInv
<1>4. \A q \in Requests : (\E i \in 1..Len(queue) : queue[i] = q) <=> Unsettled(job'[q])
  BY <1>1, <1>2 DEF JobInv, QueueInv
<1>5. \A i \in 2..Len(queue) : job'[queue[i]].pc = FirstStep(job'[queue[i]].op)
  BY <1>1, <1>3 DEF JobInv, QueueInv
<1> QED BY <1>1, <1>2, <1>4, <1>5 DEF JobInv, QueueInv

\* A running job that settles leaves the queue to the next one.
LEMMA SettleJobs ==
    ASSUME JobInv, NEW r \in Requests, Active(r),
           NEW j, Shape(j), ~ Unsettled(j), Replaces(r, j), queue' = Tail(queue)
    PROVE  JobInv'
<1>1. /\ DOMAIN job' = Requests /\ job' = [q \in Requests |-> job'[q]]
      /\ job'[r] = j
      /\ \A q \in Requests : q # r => job'[q] = job[q]
      /\ \A q \in Requests : Shape(job'[q])
  BY Replaced
<1>2. PICK n : n = Len(queue) - 1
  OBVIOUS
<1>3. /\ queue \in Seq(Requests) /\ n \in Nat /\ Len(queue) = n + 1 /\ queue[1] = r
  BY <1>2, Running
<1>4. /\ queue' \in Seq(Requests) /\ Len(queue') = n
      /\ \A i \in 1..n : queue'[i] = queue[i + 1] /\ i + 1 \in 1..(n + 1) /\ i + 1 \in 2..(n + 1)
  BY <1>3
<1>5. \A i, k \in 1..(n + 1) : queue[i] = queue[k] => i = k
  BY <1>3 DEF JobInv, QueueInv
<1>6. \A i \in 1..n : queue'[i] # r /\ queue'[i] \in Requests
  <2>1. 1 \in 1..(n + 1) /\ \A i \in 1..n : i + 1 # 1
    BY <1>3
  <2> QED BY <1>3, <1>4, <1>5, <2>1, ElementOfSeq
<1>7. \A i, k \in 1..n : queue'[i] = queue'[k] => i = k
  BY <1>3, <1>4, <1>5
<1>8. ASSUME NEW q \in Requests
      PROVE  (\E i \in 1..n : queue'[i] = q) <=> Unsettled(job'[q])
  <2>1. (\E i \in 1..(n + 1) : queue[i] = q) <=> Unsettled(job[q])
    BY <1>3 DEF JobInv, QueueInv
  <2>2. CASE q = r
    BY <1>1, <1>6, <2>2
  <2>3. CASE q # r
    <3>1. \A i \in 1..(n + 1) : i = 1 \/ (i - 1 \in 1..n /\ (i - 1) + 1 = i)
      BY <1>3
    <3>2. (\E i \in 1..n : queue'[i] = q) <=> \E i \in 1..(n + 1) : queue[i] = q
      BY <1>3, <1>4, <2>3, <3>1
    <3> QED BY <1>1, <2>1, <2>3, <3>2
  <2> QED BY <2>2, <2>3
<1>9. ASSUME NEW i \in 2..n
      PROVE  job'[queue'[i]].pc = FirstStep(job'[queue'[i]].op)
  <2>1. i \in 1..n /\ i + 1 \in 2..Len(queue)
    BY <1>3
  <2> QED BY <1>1, <1>4, <1>6, <2>1 DEF JobInv, QueueInv
<1> QED BY <1>1, <1>4, <1>7, <1>8, <1>9 DEF JobInv, QueueInv

-----------------------------------------------------------------------------
(* The steps of the jobs, and of the actors outside the queue.             *)
\* The running job goes on to the record j.
Advances(r, j) ==
    /\ Shape(j) /\ Unsettled(j) /\ j.op = job[r].op /\ j.expected = job[r].expected
    /\ Replaces(r, j) /\ UNCHANGED queue

\* A step of the running job of r.
Ran(r) ==
    /\ Active(r)
    /\ \/ \E o \in Outcomes \ {"none"} : Settle(r, o)
       \/ \E j : Advances(r, j)

\* The record of a job that settles.
LEMMA SettleType ==
    ASSUME JobInv, NEW r \in Requests, NEW o \in Outcomes \ {"none"}, Settle(r, o)
    PROVE  \E j : /\ Shape(j) /\ ~ Unsettled(j) /\ Replaces(r, j)
                  /\ j.op = job[r].op /\ j.pc = "settled" /\ j.outcome = o
<1>1. PICK j : j = [job[r] EXCEPT !.pc = "settled", !.outcome = o]
  OBVIOUS
<1>2. job[r] \in JobRecord
  BY DEF JobInv, Shape
<1>3. j \in JobRecord /\ j.pc = "settled" /\ j.outcome = o /\ j.op = job[r].op
  BY <1>1, <1>2 DEF JobRecord, Steps
<1>4. Shape(j) /\ ~ Unsettled(j)
  BY <1>3 DEF Shape, Unsettled
<1>5. Replaces(r, j)
  BY <1>1, <1>2 DEF Settle, Replaces, JobInv
<1> QED BY <1>3, <1>4, <1>5

\* A step of the running job keeps the queue and the records well-formed.
LEMMA RanInv ==
    ASSUME JobInv, NEW r \in Requests, Ran(r)
    PROVE  JobInv'
<1>1. ASSUME NEW o \in Outcomes \ {"none"}, Settle(r, o)
      PROVE  JobInv'
  <2>1. PICK j : Shape(j) /\ ~ Unsettled(j) /\ Replaces(r, j)
    BY <1>1, SettleType
  <2> QED BY <1>1, <2>1, SettleJobs DEF Ran, Settle
<1>2. ASSUME NEW j, Advances(r, j)
      PROVE  JobInv'
  BY <1>2, ProceedJobs DEF Ran, Advances
<1> QED BY <1>1, <1>2 DEF Ran

\* Most steps only change pc.
LEMMA ProceedAdvances ==
    ASSUME JobInv, NEW r \in Requests, NEW step, Proceed(r, step),
           \/ step = "write" /\ job[r].pc \in {"verify", "status"}
           \/ step = "status" /\ job[r].op \in WithExpected /\ job[r].pc = "verify"
           \/ step = "hash" /\ job[r].pc = "commit"
           \/ step \in {"pop", "restore"} /\ job[r].pc = "switch"
    PROVE  \E j : Advances(r, j) /\ j = [job[r] EXCEPT !.pc = step]
<1>1. PICK j : j = [job[r] EXCEPT !.pc = step]
  OBVIOUS
<1>2. Shape(job[r]) /\ job[r] \in JobRecord
  BY DEF JobInv, Shape
<1>3. /\ j \in JobRecord /\ j.pc = step /\ j.op = job[r].op /\ j.expected = job[r].expected
      /\ j.target = job[r].target /\ j.outcome = job[r].outcome
  BY <1>1, <1>2 DEF JobRecord, Steps
<1>4. Shape(j) /\ Unsettled(j)
  BY <1>2, <1>3 DEF Shape, Unsettled
<1>5. Replaces(r, j)
  BY <1>1, <1>2 DEF Proceed, Replaces, JobInv
<1> QED BY <1>1, <1>3, <1>4, <1>5 DEF Advances, Proceed

\* verifyHeadBranch is a step of the running job.
LEMMA VerifyRan ==
    ASSUME JobInv, NEW r \in Requests, VerifyHeadBranch(r)
    PROVE  Ran(r)
<1>1. Active(r) /\ job[r].pc = "verify" /\ job[r].op \in WithExpected
  BY DEF VerifyHeadBranch, Runs, JobInv, Shape
<1>2. "refused" \in Outcomes \ {"none"}
  BY DEF Outcomes
<1>3. CASE Settle(r, "refused")
  BY <1>1, <1>2, <1>3 DEF Ran
<1>4. CASE Proceed(r, IF job[r].op = "pull" THEN "write" ELSE "status")
  <2>1. \E j : Advances(r, j)
    BY <1>1, <1>4, ProceedAdvances
  <2> QED BY <1>1, <2>1 DEF Ran
<1> QED BY <1>3, <1>4 DEF VerifyHeadBranch

\* getStatus is a step of the running job.
LEMMA StatusRan ==
    ASSUME JobInv, RepoInv, NEW r \in Requests, ReadStatus(r)
    PROVE  Ran(r)
<1>1. Active(r) /\ job[r].pc = "status" /\ job[r] \in JobRecord /\ Shape(job[r])
  BY DEF ReadStatus, Runs, JobInv, Shape
<1>2. "refused" \in Outcomes \ {"none"}
  BY DEF Outcomes
<1>3. CASE Settle(r, "refused")
  BY <1>1, <1>2, <1>3 DEF Ran
<1>4. CASE Proceed(r, "write")
  <2>1. \E j : Advances(r, j)
    BY <1>1, <1>4, ProceedAdvances
  <2> QED BY <1>1, <2>1 DEF Ran
<1>5. ASSUME job[r].op \in Uncommits,
             NEW clean, clean = ~ IsDirty(repo),
             NEW up \in Branches \union {Nobody},
             job' = [job EXCEPT ![r].pc = "count", ![r].ctx.workingTreeClean = clean,
                                ![r].target = up],
             UNCHANGED queue
      PROVE  Ran(r)
  <2>1. PICK j : j = [job[r] EXCEPT !.pc = "count", !.target = up,
                                     !.ctx = [@ EXCEPT !.workingTreeClean = clean]]
    OBVIOUS
  <2>2. [job[r].ctx EXCEPT !.workingTreeClean = clean] \in Context(MaxCommits)
    BY <1>1, <1>5 DEF JobRecord, Context
  <2>3. /\ j \in JobRecord /\ j.pc = "count" /\ j.op = job[r].op
        /\ j.expected = job[r].expected /\ j.outcome = job[r].outcome
    BY <1>1, <1>5, <2>1, <2>2 DEF JobRecord, Steps
  <2>4. Shape(j) /\ Unsettled(j)
    BY <1>1, <1>5, <2>3 DEF Shape, Unsettled, Uncommits, WithTarget
  <2>5. Replaces(r, j)
    BY <1>1, <1>5, <2>1 DEF Replaces, JobInv, JobRecord
  <2>6. Advances(r, j)
    BY <1>5, <2>3, <2>4, <2>5 DEF Advances
  <2> QED BY <1>1, <2>6 DEF Ran
<1>6. CASE /\ job[r].op \in Uncommits
           /\ job' = [job EXCEPT ![r].pc = "count",
                                 ![r].ctx.workingTreeClean = ~ IsDirty(repo),
                                 ![r].target = IF repo.head \in repo.upstream
                                               THEN repo.head ELSE Nobody]
           /\ UNCHANGED queue
  <2>1. (IF repo.head \in repo.upstream THEN repo.head ELSE Nobody) \in Branches \union {Nobody}
    BY TipType DEF RepoInv
  <2> QED BY <1>5, <1>6, <2>1
<1> QED BY <1>3, <1>4, <1>6 DEF ReadStatus

\* How many commits a range has, the bound allows.
LEMMA CountType ==
    ASSUME NEW S \in SUBSET (1..Len(repo.log)), RepoInv
    PROVE  Cardinality(S) \in 0..MaxCommits /\ IsFiniteSet(S)
<1>1. Len(repo.log) \in Nat /\ Len(repo.log) <= MaxCommits
  BY LogType DEF RepoInv, Sound
<1>2. IsFiniteSet(1..Len(repo.log)) /\ Cardinality(1..Len(repo.log)) = Len(repo.log)
  BY <1>1, FS_Interval
<1>3. IsFiniteSet(S) /\ Cardinality(S) <= Len(repo.log)
  BY <1>2, FS_Subset
<1>4. Cardinality(S) \in Nat
  BY <1>3, FS_CardinalityType
<1> QED BY <1>1, <1>3, <1>4, BoundAssumption

\* Ancestors are commits of the repository.
LEMMA AncestorsExist ==
    ASSUME NEW g, Sound(g), NEW c \in 0..Len(g.log)
    PROVE  Ancestors(g, c) \subseteq 1..Len(g.log)
<1>1. Ancestors(g, c) \subseteq 1..c /\ Len(g.log) \in Nat
  BY AncestorsBelow, LogType DEF Sound
<1> QED BY <1>1

\* getUnpushedCount is a step of the running job.
LEMMA CountRan ==
    ASSUME JobInv, RepoInv, NEW r \in Requests, ReadUnpushedCount(r)
    PROVE  Ran(r)
<1>1. Active(r) /\ job[r].pc = "count" /\ job[r] \in JobRecord /\ Shape(job[r])
  BY DEF ReadUnpushedCount, Runs, JobInv, Shape
<1>2. PICK fails : job' = [job EXCEPT ![r].pc = "rest",
                      ![r].ctx.hasUpstream = ~ fails,
                      ![r].ctx.unpushedCount = Cardinality(
                          IF fails THEN Ancestors(repo, Tip(repo))
                          ELSE CommitRange(repo, repo.tracking[job[r].target], Tip(repo)))]
  BY DEF ReadUnpushedCount
<1>3. PICK n : n = Cardinality(IF fails THEN Ancestors(repo, Tip(repo))
                          ELSE CommitRange(repo, repo.tracking[job[r].target], Tip(repo)))
  OBVIOUS
<1>4. PICK has \in BOOLEAN : has = ~ fails
  OBVIOUS
<1>5. job' = [job EXCEPT ![r].pc = "rest", ![r].ctx.hasUpstream = has,
                         ![r].ctx.unpushedCount = n]
  BY <1>2, <1>3, <1>4, Zenon
<1>6. UNCHANGED queue
  BY DEF ReadUnpushedCount
<1>7. n \in 0..MaxCommits
  <2>1. /\ Ancestors(repo, Tip(repo)) \in SUBSET (1..Len(repo.log))
        /\ \A t : CommitRange(repo, t, Tip(repo)) \in SUBSET (1..Len(repo.log))
    BY TipType, AncestorsExist DEF RepoInv, CommitRange
  <2> QED BY <1>3, <2>1, CountType
<1>8. PICK j : j = [job[r] EXCEPT !.pc = "rest",
                        !.ctx = [@ EXCEPT !.hasUpstream = has, !.unpushedCount = n]]
  OBVIOUS
<1>9. [job[r].ctx EXCEPT !.hasUpstream = has, !.unpushedCount = n] \in Context(MaxCommits)
  BY <1>1, <1>4, <1>7 DEF JobRecord, Context
<1>10. /\ j \in JobRecord /\ j.pc = "rest" /\ j.op = job[r].op /\ j.target = job[r].target
      /\ j.expected = job[r].expected /\ j.outcome = job[r].outcome
  BY <1>1, <1>8, <1>9 DEF JobRecord, Steps
<1>11. Shape(j) /\ Unsettled(j)
  BY <1>1, <1>10 DEF Shape, Unsettled
<1>12. Replaces(r, j)
  BY <1>1, <1>5, <1>8 DEF Replaces, JobInv, JobRecord
<1> QED BY <1>1, <1>6, <1>10, <1>11, <1>12 DEF Ran, Advances

\* The context on which a return decides is a context.
LEMMA FullContextType ==
    ASSUME JobInv, NEW r \in Requests
    PROVE  FullContext(r) \in Context(MaxCommits)
<1>1. job[r].ctx \in Context(MaxCommits)
  BY DEF JobInv, Shape, JobRecord
<1>2. PICK headMerge, root, open, merge :
         /\ headMerge \in BOOLEAN /\ root \in BOOLEAN /\ open \in BOOLEAN /\ merge \in BOOLEAN
         /\ FullContext(r) = [job[r].ctx EXCEPT !.headIsMerge = headMerge, !.headIsRoot = root,
                                !.inProgressOp = open, !.rangeHasMerge = merge]
  <2>1. IsMerge(repo, Tip(repo)) \in BOOLEAN
    BY DEF IsMerge
  <2> QED BY <2>1 DEF FullContext
<1> QED BY <1>1, <1>2 DEF Context

\* The decision of a return is a step of the running job.
LEMMA DecideRan ==
    ASSUME JobInv, RepoInv, NEW r \in Requests, Decide(r)
    PROVE  Ran(r)
<1>1. Active(r) /\ job[r].pc = "rest" /\ job[r] \in JobRecord /\ Shape(job[r])
  BY DEF Decide, Runs, JobInv, Shape
<1>2. {"refused", "rejected"} \subseteq Outcomes \ {"none"}
  BY DEF Outcomes
<1>3. CASE Settle(r, "refused") \/ Settle(r, "rejected")
  BY <1>1, <1>2, <1>3 DEF Ran
<1>4. CASE /\ job' = [job EXCEPT ![r].pc = "reset", ![r].ctx = FullContext(r)]
           /\ UNCHANGED queue
  <2>1. PICK j : j = [job[r] EXCEPT !.pc = "reset", !.ctx = FullContext(r)]
    OBVIOUS
  <2>2. /\ j \in JobRecord /\ j.pc = "reset" /\ j.op = job[r].op /\ j.target = job[r].target
        /\ j.expected = job[r].expected /\ j.outcome = job[r].outcome
    BY <1>1, <2>1, FullContextType DEF JobRecord, Steps
  <2>3. Shape(j) /\ Unsettled(j)
    BY <1>1, <2>2 DEF Shape, Unsettled
  <2>4. Replaces(r, j)
    BY <1>1, <1>4, <2>1 DEF Replaces, JobInv, JobRecord
  <2> QED BY <1>1, <1>4, <2>2, <2>3, <2>4 DEF Ran, Advances
<1> QED BY <1>3, <1>4 DEF Decide

\* The upstream probe of a push is a step of the running job.
LEMMA ProbeRan ==
    ASSUME JobInv, NEW r \in Requests, ProbeUpstream(r)
    PROVE  Ran(r)
<1>1. Active(r) /\ job[r].pc = "probe" /\ job[r] \in JobRecord /\ Shape(job[r])
  BY DEF ProbeUpstream, Runs, JobInv, Shape
<1>2. PICK f \in BOOLEAN : f = (job[r].target \in repo.upstream
                                  /\ repo.tracking[job[r].target] # 0)
  OBVIOUS
<1>3. PICK j : j = [job[r] EXCEPT !.pc = "write", !.flag = f]
  OBVIOUS
<1>4. /\ j \in JobRecord /\ j.pc = "write" /\ j.op = job[r].op /\ j.target = job[r].target
      /\ j.expected = job[r].expected /\ j.outcome = job[r].outcome
  BY <1>1, <1>2, <1>3 DEF JobRecord, Steps
<1>5. Shape(j) /\ Unsettled(j)
  BY <1>1, <1>4 DEF Shape, Unsettled
<1>6. job' = [job EXCEPT ![r].pc = "write", ![r].flag = f] /\ UNCHANGED queue
  BY <1>2 DEF ProbeUpstream
<1>7. Replaces(r, j)
  BY <1>1, <1>3, <1>6 DEF Replaces, JobInv, JobRecord
<1> QED BY <1>1, <1>4, <1>5, <1>6, <1>7 DEF Ran, Advances

\* rev-parse after a commit is a step of the running job.
LEMMA HashRan ==
    ASSUME JobInv, NEW r \in Requests, CommitHash(r)
    PROVE  Ran(r)
BY DEF CommitHash, Runs, Ran, Outcomes

\* The steps of a job that only read.
Reads(r) ==
    \/ VerifyHeadBranch(r) \/ ReadStatus(r) \/ ReadUnpushedCount(r)
    \/ Decide(r) \/ CommitHash(r) \/ ProbeUpstream(r)

\* The steps that only read change nothing but their job.
LEMMA ReadsRan ==
    ASSUME IInv, NEW r \in Requests, Reads(r)
    PROVE  Ran(r) /\ UNCHANGED <<repo, made, forfeited, typed>>
<1>1. Ran(r)
  BY VerifyRan, StatusRan, CountRan, DecideRan, HashRan, ProbeRan DEF Reads, IInv
<1>2. UNCHANGED <<repo, made, forfeited, typed>>
  BY DEF Reads, VerifyHeadBranch, ReadStatus, ReadUnpushedCount, Decide, CommitHash,
         ProbeUpstream
<1> QED BY <1>1, <1>2

\* A write of the running job of r that loses nothing.
Benign(r) ==
    /\ Ran(r) /\ UNCHANGED <<made, forfeited, typed>>
    /\ Keeps(repo, repo') /\ Len(repo'.log) <= MaxCommits

\* A write settles as ok or as rejected.
LEMMA ResultType ==
    ASSUME NEW out
    PROVE  Result(out) \in {"ok", "rejected"} /\ Result(out) \in Outcomes \ {"none"}
BY DEF Result, Outcomes

\* The one write of an operation that has no other step to follow it.
LEMMA WritesRan ==
    ASSUME NEW r \in Requests, NEW op, NEW outs, Writes(r, op, outs)
    PROVE  /\ Ran(r) /\ job[r].pc = "write" /\ job[r].op = op
           /\ UNCHANGED <<made, typed>>
           /\ \E out \in outs : repo' = out.repo /\ Len(out.repo.log) <= MaxCommits
BY ResultType DEF Writes, Ran, Runs, Apply

\* An operation on a branch names one.
LEMMA TargetType ==
    ASSUME IInv, NEW r \in Requests, job[r].op \in WithTarget, Unsettled(job[r])
    PROVE  job[r].target \in Branches
BY DEF IInv, JobInv, Shape, Unsettled

\* The reset of a return loses nothing and stays on HEAD's branch.
LEMMA ResetBenign ==
    ASSUME IInv, NEW r \in Requests, Reset(r)
    PROVE  Benign(r) /\ OnHead(repo, repo')
<1>1. PICK out \in ResetMixed(repo, ReturnCount(r)) : Apply(out) /\ Settle(r, Result(out))
  BY DEF Reset
<1>2. ReturnCount(r) \in Nat
  BY BoundAssumption DEF ReturnCount, IInv, JobInv, Shape, JobRecord, Context
<1>3. Keeps(repo, out.repo) /\ OnHead(repo, out.repo)
  BY <1>1, <1>2, ResetKeeps DEF IInv, RepoInv
<1> QED BY <1>1, <1>3, ResultType DEF Benign, Ran, Reset, Runs, Apply

\* A commit loses nothing and stays on HEAD's branch.
LEMMA CommitBenign ==
    ASSUME IInv, NEW r \in Requests, CommitWrite(r)
    PROVE  Benign(r) /\ OnHead(repo, repo')
<1>1. PICK out \in Commit(repo) :
         /\ Apply(out)
         /\ \/ Settle(r, "rejected")
            \/ Proceed(r, "hash")
  BY DEF CommitWrite
<1>2. Keeps(repo, out.repo) /\ OnHead(repo, out.repo)
  BY <1>1, CommitKeeps DEF IInv, RepoInv
<1>3. Active(r) /\ job[r].pc = "commit" /\ JobInv /\ "rejected" \in Outcomes \ {"none"}
  BY DEF CommitWrite, Runs, IInv, Outcomes
<1>4. Ran(r)
  BY <1>1, <1>3, ProceedAdvances DEF Ran
<1> QED BY <1>1, <1>2, <1>4 DEF CommitWrite, Apply, Benign

\* A fetch loses nothing and moves no local branch.
LEMMA FetchBenign ==
    ASSUME IInv, NEW r \in Requests, RunFetch(r)
    PROVE  Benign(r) /\ OnHead(repo, repo')
<1>1. Writes(r, "fetch", Fetch(repo)) /\ UNCHANGED forfeited
  BY DEF RunFetch
<1>2. PICK out \in Fetch(repo) : repo' = out.repo /\ Len(out.repo.log) <= MaxCommits
  BY <1>1, WritesRan
<1> QED BY <1>1, <1>2, WritesRan, FetchKeeps DEF Benign, IInv, RepoInv

\* A pull loses nothing and stays on HEAD's branch.
LEMMA PullBenign ==
    ASSUME IInv, NEW r \in Requests, RunPull(r)
    PROVE  Benign(r) /\ OnHead(repo, repo')
<1>1. Writes(r, "pull", Pull(repo, job[r].target)) /\ UNCHANGED forfeited
  BY DEF RunPull
<1>2. PICK out \in Pull(repo, job[r].target) :
         repo' = out.repo /\ Len(out.repo.log) <= MaxCommits
  BY <1>1, WritesRan
<1>3. job[r].target \in Branches
  BY <1>1, WritesRan, TargetType DEF WithTarget, Unsettled
<1> QED BY <1>1, <1>2, <1>3, WritesRan, PullKeeps DEF Benign, IInv, RepoInv

\* A push loses nothing and moves no local branch.
LEMMA PushBenign ==
    ASSUME IInv, NEW r \in Requests, RunPush(r)
    PROVE  Benign(r) /\ OnHead(repo, repo')
<1>1. Writes(r, "push", Push(repo, job[r].target, ~job[r].flag)) /\ UNCHANGED forfeited
  BY DEF RunPush
<1>2. PICK out \in Push(repo, job[r].target, ~job[r].flag) :
         repo' = out.repo /\ Len(out.repo.log) <= MaxCommits
  BY <1>1, WritesRan
<1>3. job[r].target \in Branches
  BY <1>1, WritesRan, TargetType DEF WithTarget, Unsettled
<1>4. Keeps(repo, out.repo) /\ OnHead(repo, out.repo)
  BY <1>2, <1>3, PushKeeps DEF IInv, RepoInv
<1> QED BY <1>1, <1>2, <1>4, WritesRan DEF Benign

\* A merge loses nothing and stays on HEAD's branch.
LEMMA MergeBenign ==
    ASSUME IInv, NEW r \in Requests, RunMerge(r)
    PROVE  Benign(r) /\ OnHead(repo, repo')
<1>1. Writes(r, "merge", Merge(repo, repo.refs[job[r].target])) /\ UNCHANGED forfeited
  BY DEF RunMerge
<1>2. PICK out \in Merge(repo, repo.refs[job[r].target]) :
         repo' = out.repo /\ Len(out.repo.log) <= MaxCommits
  BY <1>1, WritesRan
<1>3. job[r].target \in Branches
  BY <1>1, WritesRan, TargetType DEF WithTarget, Unsettled
<1>4. repo.refs[job[r].target] \in 0..Len(repo.log) /\ Sound(repo)
  BY <1>3 DEF IInv, RepoInv, Sound, Named
<1>5. Keeps(repo, out.repo) /\ OnHead(repo, out.repo)
  BY <1>2, <1>4, MergeKeeps
<1> QED BY <1>1, <1>2, <1>5, WritesRan DEF Benign

\* A switch loses nothing.
LEMMA SwitchBenign ==
    ASSUME IInv, NEW r \in Requests, RunSwitch(r)
    PROVE  Benign(r) /\ repo'.stash = repo.stash /\ job[r].op = "switch"
<1>1. Writes(r, "switch", Switch(repo, job[r].target)) /\ UNCHANGED forfeited
  BY DEF RunSwitch
<1>2. PICK out \in Switch(repo, job[r].target) :
         repo' = out.repo /\ Len(out.repo.log) <= MaxCommits
  BY <1>1, WritesRan
<1>3. job[r].target \in Branches
  BY <1>1, WritesRan, TargetType DEF WithTarget, Unsettled
<1> QED BY <1>1, <1>2, <1>3, WritesRan, SwitchKeeps DEF Benign, IInv, RepoInv

\* A branch creation loses nothing.
LEMMA CreateBenign ==
    ASSUME IInv, NEW r \in Requests, RunCreate(r)
    PROVE  Benign(r) /\ repo'.stash = repo.stash /\ job[r].op = "create"
<1>1. Writes(r, "create", CreateBranch(repo, job[r].target)) /\ UNCHANGED forfeited
  BY DEF RunCreate
<1>2. PICK out \in CreateBranch(repo, job[r].target) :
         repo' = out.repo /\ Len(out.repo.log) <= MaxCommits
  BY <1>1, WritesRan
<1>3. job[r].target \in Branches
  BY <1>1, WritesRan, TargetType DEF WithTarget, Unsettled
<1> QED BY <1>1, <1>2, <1>3, WritesRan, CreateKeeps DEF Benign, IInv, RepoInv

\* An unforced deletion loses nothing.
LEMMA DeleteBenign ==
    ASSUME IInv, NEW r \in Requests, RunDelete(r)
    PROVE  Benign(r) /\ repo'.stash = repo.stash /\ job[r].op = "delete"
             /\ repo'.head = repo.head
<1>1. Writes(r, "delete", DeleteBranch(repo, job[r].target)) /\ UNCHANGED forfeited
  BY DEF RunDelete
<1>2. PICK out \in DeleteBranch(repo, job[r].target) :
         repo' = out.repo /\ Len(out.repo.log) <= MaxCommits
  BY <1>1, WritesRan
<1>3. job[r].target \in Branches
  BY <1>1, WritesRan, TargetType DEF WithTarget, Unsettled
<1> QED BY <1>1, <1>2, <1>3, WritesRan, DeleteKeeps DEF Benign, IInv, RepoInv

\* A forced deletion keeps the repository sound, and what it loses it owns up to.
LEMMA ForceDeleteSafe ==
    ASSUME IInv, NEW r \in Requests, RunForceDelete(r)
    PROVE  /\ Ran(r) /\ job[r].op = "forceDelete" /\ UNCHANGED <<made, typed>>
           /\ Sound(repo') /\ Len(repo'.log) <= MaxCommits
           /\ repo'.stash = repo.stash /\ repo'.head = repo.head
           /\ forfeited' = forfeited \union (made \ Kept(repo'))
<1>1. /\ Writes(r, "forceDelete", ForceDeleteBranch(repo, job[r].target))
      /\ forfeited' = forfeited \union (made \ Kept(repo'))
  BY DEF RunForceDelete
<1>2. PICK out \in ForceDeleteBranch(repo, job[r].target) :
         repo' = out.repo /\ Len(out.repo.log) <= MaxCommits
  BY <1>1, WritesRan
<1>3. job[r].target \in Branches
  BY <1>1, WritesRan, TargetType DEF WithTarget, Unsettled
<1>4. Sound(out.repo) /\ out.repo.stash = repo.stash /\ out.repo.head = repo.head
  BY <1>2, <1>3, ForceDeleteSound DEF IInv, RepoInv
<1> QED BY <1>1, <1>2, <1>4, WritesRan

\* The switch of "bring changes and switch" loses nothing.
LEMMA StashSwitchBenign ==
    ASSUME IInv, NEW r \in Requests, StashSwitch(r)
    PROVE  Benign(r) /\ repo'.stash = repo.stash
<1>1. PICK out \in Switch(repo, job[r].target) : Apply(out) /\ AfterSwitch(r, out.ok)
  BY DEF StashSwitch
<1>2. Active(r) /\ job[r].pc = "switch" /\ JobInv /\ job[r].op = "stashSwitch"
  BY DEF StashSwitch, Runs, IInv, JobInv, Shape
<1>3. job[r].target \in Branches
  BY <1>2, TargetType DEF WithTarget, Unsettled
<1>4. Keeps(repo, out.repo) /\ out.repo.stash = repo.stash
  BY <1>1, <1>3, SwitchKeeps DEF IInv, RepoInv
<1>5. Ran(r)
  <2>1. {"ok", "rejected"} \subseteq Outcomes \ {"none"}
    BY DEF Outcomes
  <2>2. CASE Settle(r, IF out.ok THEN "ok" ELSE "rejected")
    BY <1>2, <2>1, <2>2 DEF Ran
  <2>3. CASE Proceed(r, IF out.ok THEN "pop" ELSE "restore")
    <3>1. \E j : Advances(r, j)
      BY <1>2, <2>3, ProceedAdvances
    <3> QED BY <1>2, <3>1 DEF Ran
  <2> QED BY <1>1, <2>2, <2>3 DEF AfterSwitch
<1> QED BY <1>1, <1>4, <1>5 DEF StashSwitch, Apply, Benign

\* The stash push of "bring changes and switch" loses nothing.
LEMMA StashBenign ==
    ASSUME IInv, NEW r \in Requests, StashStep(r)
    PROVE  Benign(r) /\ FilesOnly(repo, repo')
<1>1. PICK out \in StashPush(repo, r) :
         /\ Apply(out)
         /\ \/ Settle(r, "rejected")
            \/ /\ job' = [job EXCEPT ![r].pc = "switch",
                                     ![r].flag = Len(out.repo.stash) > Len(repo.stash)]
               /\ UNCHANGED queue
  BY DEF StashStep
<1>2. Active(r) /\ job[r].pc = "stash" /\ Shape(job[r]) /\ job[r] \in JobRecord
  BY DEF StashStep, Runs, IInv, JobInv, Shape
<1>3. Keeps(repo, out.repo) /\ FilesOnly(repo, out.repo)
  BY <1>1, StashPushKeeps DEF IInv, RepoInv
<1>4. CASE Settle(r, "rejected")
  BY <1>1, <1>2, <1>3, <1>4 DEF Ran, Benign, Apply, StashStep, Outcomes
<1>5. ASSUME NEW f \in BOOLEAN,
             job' = [job EXCEPT ![r].pc = "switch", ![r].flag = f], UNCHANGED queue
      PROVE  Ran(r)
  <2>1. PICK j : j = [job[r] EXCEPT !.pc = "switch", !.flag = f]
    OBVIOUS
  <2>2. /\ j \in JobRecord /\ j.pc = "switch" /\ j.op = job[r].op /\ j.target = job[r].target
        /\ j.expected = job[r].expected /\ j.outcome = job[r].outcome
    BY <1>2, <2>1 DEF JobRecord, Steps
  <2>3. Shape(j) /\ Unsettled(j)
    BY <1>2, <2>2 DEF Shape, Unsettled
  <2>4. Replaces(r, j)
    BY <1>2, <1>5, <2>1 DEF Replaces, IInv, JobInv, JobRecord
  <2> QED BY <1>2, <1>5, <2>2, <2>3, <2>4 DEF Ran, Advances
<1>6. CASE /\ job' = [job EXCEPT ![r].pc = "switch",
                                 ![r].flag = Len(out.repo.stash) > Len(repo.stash)]
           /\ UNCHANGED queue
  <2>0. PICK f : f = (Len(out.repo.stash) > Len(repo.stash))
    OBVIOUS
  <2>1. f \in BOOLEAN
    BY <2>0
  <2>2. Ran(r)
    BY <1>5, <1>6, <2>0, <2>1
  <2> QED BY <1>1, <1>3, <2>2 DEF Benign, Apply, StashStep
<1> QED BY <1>1, <1>4, <1>6, <1>3 DEF Apply

\* The pop of "bring changes and switch" loses nothing.
LEMMA PopBenign ==
    ASSUME IInv, NEW r \in Requests, StashPopStep(r) \/ StashRestore(r)
    PROVE  Benign(r) /\ FilesOnly(repo, repo')
<1>1. PICK out \in StashPop(repo), o \in Outcomes \ {"none"} : Apply(out) /\ Settle(r, o)
  BY DEF StashPopStep, StashRestore, Outcomes
<1>2. Active(r) /\ UNCHANGED forfeited
  BY DEF StashPopStep, StashRestore, Runs
<1>3. Keeps(repo, out.repo) /\ FilesOnly(repo, out.repo)
  BY <1>1, StashPopKeeps DEF IInv, RepoInv
<1> QED BY <1>1, <1>2, <1>3 DEF Ran, Benign, Apply

\* A step that has nothing to do with git or with history.
LEMMA SubmitInv ==
    ASSUME IInv, NEW r \in Requests, NEW op \in Ops, NEW t \in Targets(op),
           NEW x \in Expectations(op), Submit(r, op, t, x)
    PROVE  /\ JobInv' /\ UNCHANGED <<repo, made, forfeited, typed>>
           /\ \E j : /\ Replaces(r, j) /\ Shape(j) /\ j.op = op /\ j.expected = x
                     /\ j.pc = FirstStep(op) /\ j.outcome = "none"
<1>1. PICK j : j = [IdleJob EXCEPT !.pc = FirstStep(op), !.op = op, !.target = t,
                                   !.expected = x]
  OBVIOUS
<1>2. repo.head \in Branches
  BY TipType DEF IInv, RepoInv
<1>3. x \in Branches \union {Nobody} /\ t \in Branches \union {Nobody}
        /\ (op \in WithTarget => t \in Branches)
  BY <1>2 DEF Expectations, Targets, WithTarget
<1>4. NoContext \in Context(MaxCommits)
  BY BoundAssumption DEF NoContext, Context
<1>5. FirstStep(op) \in Steps
  BY FirstStepType DEF Steps
<1>6. /\ j \in JobRecord /\ j.pc = FirstStep(op) /\ j.op = op /\ j.target = t
      /\ j.expected = x /\ j.outcome = "none"
  BY <1>1, <1>3, <1>4, <1>5 DEF JobRecord, IdleJob, Outcomes
<1>7. Shape(j) /\ Unsettled(j)
  BY <1>3, <1>6, FirstStepType DEF Shape, Unsettled
<1>8. Replaces(r, j)
  BY <1>1 DEF Submit, Replaces
<1>9. JobInv'
  BY <1>6, <1>7, <1>8, SubmitJobs DEF Submit, IInv
<1> QED BY <1>6, <1>7, <1>8, <1>9 DEF Submit

\* An edit of the user is in the files at once and disturbs nothing.
LEMMA UserKeeps ==
    ASSUME IInv, NEW e \in Edits, UserEdits(e)
    PROVE  /\ Keeps(repo, repo') /\ FilesOnly(repo, repo') /\ repo'.stash = repo.stash
           /\ e \in Kept(repo')
<1>1. PICK h : h = [repo EXCEPT !.work = @ \union {e}]
  OBVIOUS
<1>2. Sound(repo) /\ repo \in Repos
  BY DEF IInv, RepoInv, Sound
<1>3. /\ h \in Repos /\ FilesOnly(repo, h) /\ h.merging = repo.merging
      /\ h.stash = repo.stash /\ h.work = repo.work \union {e}
  BY <1>1, <1>2 DEF Repos, FilesOnly
<1>4. StashedEdits(h) = StashedEdits(repo)
  BY <1>3 DEF StashedEdits
<1>5. Keeps(repo, h)
  BY <1>2, <1>3, <1>4, FilesKeep
<1>6. e \in Kept(h)
  BY <1>3 DEF Kept
<1> QED BY <1>1, <1>3, <1>5, <1>6 DEF UserEdits

\* A push by another clone adds a commit and moves a branch of the remote only.
LEMMA RemoteKeeps ==
    ASSUME IInv, NEW b \in Branches, RemoteAdvances(b)
    PROVE  /\ Keeps(repo, repo') /\ Len(repo'.log) <= MaxCommits
           /\ repo'.stash = repo.stash /\ repo'.head = repo.head /\ repo'.refs = repo.refs
           /\ repo'.tracking = repo.tracking /\ repo'.upstream = repo.upstream
           /\ repo'.work = repo.work /\ repo'.merging = repo.merging
           /\ Extends(repo, repo')
<1>1. PICK e : e = [first |-> repo.remote[b], second |-> 0, edits |-> {}]
  OBVIOUS
<1>2. PICK h : h = [repo EXCEPT !.log = Append(@, e), !.remote[b] = Len(repo.log) + 1]
  OBVIOUS
<1>3. Sound(repo) /\ repo \in Repos /\ IsLog(repo.log) /\ Len(repo.log) \in Nat
  BY LogType DEF IInv, RepoInv, Sound
<1>4. PICK n : n = Len(repo.log) + 1
  OBVIOUS
<1>5. n \in Nat /\ repo.remote[b] \in 0..Len(repo.log)
  BY <1>3, <1>4 DEF Sound, Named
<1>6. e \in Entries /\ e.first = repo.remote[b] /\ e.second = 0
  BY <1>1, <1>3, <1>5 DEF Entries
<1>7. /\ h.log = Append(repo.log, e) /\ h.remote = [repo.remote EXCEPT ![b] = n]
      /\ h.refs = repo.refs /\ h.tracking = repo.tracking /\ h.upstream = repo.upstream
      /\ h.head = repo.head /\ h.work = repo.work /\ h.stash = repo.stash
      /\ h.merging = repo.merging
  BY <1>2, <1>3, <1>4 DEF Repos
<1>8. Longer(repo, h, e)
  <2>1. 0 \in 0..Len(repo.log)
    BY <1>3
  <2> QED BY <1>3, <1>5, <1>6, <1>7, <2>1, LongerLog
<1>9. /\ Extends(repo, h) /\ IsLog(h.log) /\ h.log \in Seq(Entries) /\ Len(h.log) = n
      /\ \A c \in 0..Len(repo.log) :
            c \in 0..Len(h.log) /\ Ancestors(h, c) = Ancestors(repo, c)
      /\ Ancestors(h, n) = {n} \union Ancestors(repo, repo.remote[b]) \union Ancestors(repo, 0)
  BY <1>4, <1>6, <1>8 DEF Longer
<1>10. \A x \in Branches : h.remote[x] = IF x = b THEN n ELSE repo.remote[x]
  BY <1>3, <1>7 DEF Repos
<1>11. h \in Repos
  <2>1. h.remote \in [Branches -> Nat]
    BY <1>3, <1>5, <1>7 DEF Repos
  <2>2. DOMAIN h = DOMAIN repo /\ h = [f \in DOMAIN repo |-> h[f]]
    BY <1>2, <1>3 DEF Repos
  <2> QED BY <1>2, <1>3, <1>7, <1>9, <2>1 DEF Repos
<1>12. Named(h) /\ n \in 0..Len(h.log)
  BY <1>3, <1>5, <1>7, <1>9, <1>10 DEF Sound, Named, Tip
<1>13. Behind(h)
  BY <1>3, <1>7, <1>9, <1>10 DEF Sound, Behind, Named
<1>14. Sound(h)
  BY <1>9, <1>11, <1>12, <1>13 DEF Sound
<1>15. Covers(repo, h)
  <2>1. repo.remote[b] \in Reachable(h) \/ repo.remote[b] = 0
    <3>1. Ancestors(h, n) \subseteq Reachable(h)
      BY <1>10, <1>14, ReachableMember
    <3>2. repo.remote[b] = 0 \/ repo.remote[b] \in Ancestors(repo, repo.remote[b])
      BY <1>3, <1>5, AncestorsBelow
    <3> QED BY <1>9, <3>1, <3>2
  <2>2. \A x \in Branches : /\ repo.refs[x] = 0 \/ repo.refs[x] \in Reachable(h)
                            /\ repo.tracking[x] = 0 \/ repo.tracking[x] \in Reachable(h)
                            /\ repo.remote[x] = 0 \/ repo.remote[x] \in Reachable(h)
    BY <1>7, <1>10, <1>14, <2>1, ReachableMember
  <2> QED BY <2>2, CoversBranches
<1>16. Keeps(repo, h)
  <2>1. repo.work \subseteq Kept(h) /\ StashedEdits(repo) \subseteq Kept(h)
    BY <1>7 DEF Kept, StashedEdits
  <2> QED BY <1>3, <1>9, <1>14, <1>15, <2>1, KeptGrows DEF Keeps
<1>17. repo' = h /\ Len(h.log) <= MaxCommits
  BY <1>1, <1>2, <1>3, <1>4, <1>9, BoundAssumption DEF RemoteAdvances
<1> QED BY <1>7, <1>9, <1>16, <1>17

\* A command typed in a terminal loses nothing, and stashes only as the user's own.
LEMMA TerminalKeeps ==
    ASSUME IInv, TerminalCommand
    PROVE  /\ Keeps(repo, repo') /\ Len(repo'.log) <= MaxCommits
           /\ UNCHANGED <<job, queue, made, forfeited>>
           /\ \/ repo'.stash = repo.stash
              \/ \E e \in Stashed : e.owner = Nobody /\ repo'.stash = <<e>> \o repo.stash
<1>1. PICK out \in Commit(repo) \union (UNION {Switch(repo, b) : b \in Branches})
                    \union StashPush(repo, Nobody) :
         Len(out.repo.log) <= MaxCommits /\ repo' = out.repo
  BY DEF TerminalCommand
<1>2. Sound(repo)
  BY DEF IInv, RepoInv
<1>3. /\ Keeps(repo, out.repo)
      /\ \/ out.repo.stash = repo.stash
         \/ \E e \in Stashed : e.owner = Nobody /\ out.repo.stash = <<e>> \o repo.stash
  <2>1. CASE out \in Commit(repo)
    BY <1>2, <2>1, CommitKeeps DEF OnHead
  <2>2. ASSUME NEW b \in Branches, out \in Switch(repo, b)
        PROVE  Keeps(repo, out.repo) /\ out.repo.stash = repo.stash
    BY <1>2, <2>2, SwitchKeeps
  <2>3. CASE out \in StashPush(repo, Nobody)
    <3>1. Nobody \in Requests \union {Nobody}
      OBVIOUS
    <3> QED BY <1>2, <2>3, <3>1, StashPushKeeps
  <2>4. \/ out \in Commit(repo) \/ out \in StashPush(repo, Nobody)
        \/ \E b \in Branches : out \in Switch(repo, b)
    OBVIOUS
  <2> QED BY <2>1, <2>2, <2>3, <2>4
<1> QED BY <1>1, <1>3 DEF TerminalCommand

-----------------------------------------------------------------------------
(* The inductive invariant, and that nothing is lost.                      *)

\* A step that loses nothing keeps the invariant.
LEMMA BenignInv ==
    ASSUME IInv, NEW r \in Requests, Benign(r)
    PROVE  IInv'
<1>1. JobInv'
  BY RanInv DEF Benign, IInv
<1>2. RepoInv' /\ HistoryInv' /\ NothingLost'
  BY DEF Benign, IInv, RepoInv, HistoryInv, NothingLost, Keeps
<1> QED BY <1>1, <1>2 DEF IInv

\* Every step keeps the invariant: those that lose nothing, and the forced
\* deletion, which forfeits what it loses.
LEMMA NextIInv ==
    ASSUME IInv, [Next]_vars
    PROVE  IInv'
<1>1. ASSUME NEW r \in Requests, Reads(r)
      PROVE  IInv'
  <2>1. Ran(r) /\ UNCHANGED <<repo, made, forfeited, typed>>
    BY <1>1, ReadsRan
  <2>2. JobInv'
    BY <2>1, RanInv DEF IInv
  <2>3. RepoInv' /\ HistoryInv' /\ NothingLost'
    BY <2>1 DEF IInv, RepoInv, HistoryInv, NothingLost
  <2> QED BY <2>2, <2>3 DEF IInv
<1>2. ASSUME NEW r \in Requests,
             \/ Reset(r) \/ CommitWrite(r) \/ RunFetch(r) \/ RunPull(r) \/ RunPush(r)
             \/ RunMerge(r) \/ RunSwitch(r) \/ RunCreate(r) \/ RunDelete(r)
             \/ StashStep(r) \/ StashSwitch(r) \/ StashPopStep(r) \/ StashRestore(r)
      PROVE  IInv'
  BY <1>2, BenignInv, ResetBenign, CommitBenign, FetchBenign, PullBenign, PushBenign,
     MergeBenign, SwitchBenign, CreateBenign, DeleteBenign, StashBenign, StashSwitchBenign,
     PopBenign
<1>3. ASSUME NEW r \in Requests, RunForceDelete(r)
      PROVE  IInv'
  <2>1. /\ Ran(r) /\ UNCHANGED made /\ Sound(repo') /\ Len(repo'.log) <= MaxCommits
        /\ forfeited' = forfeited \union (made \ Kept(repo'))
    BY <1>3, ForceDeleteSafe
  <2>2. JobInv'
    BY <2>1, RanInv DEF IInv
  <2> QED BY <2>1, <2>2 DEF IInv, RepoInv, HistoryInv, NothingLost
<1>4. ASSUME NEW r \in Requests, NEW op \in Ops, NEW t \in Targets(op),
             NEW x \in Expectations(op), Submit(r, op, t, x)
      PROVE  IInv'
  <2>1. JobInv' /\ UNCHANGED <<repo, made, forfeited, typed>>
    BY <1>4, SubmitInv
  <2> QED BY <2>1 DEF IInv, RepoInv, HistoryInv, NothingLost
<1>5. ASSUME UNCHANGED <<job, queue>>
      PROVE  JobInv'
  BY <1>5 DEF IInv, JobInv, QueueInv
<1>6. ASSUME NEW e \in Edits, UserEdits(e)
      PROVE  IInv'
  <2>1. Keeps(repo, repo') /\ FilesOnly(repo, repo') /\ e \in Kept(repo')
    BY <1>6, UserKeeps
  <2>2. UNCHANGED <<job, queue, forfeited>> /\ made' = made \union {e}
    BY <1>6 DEF UserEdits
  <2>3. RepoInv' /\ HistoryInv' /\ NothingLost'
    BY <2>1, <2>2 DEF IInv, RepoInv, HistoryInv, NothingLost, Keeps, FilesOnly
  <2> QED BY <1>5, <2>2, <2>3 DEF IInv
<1>7. ASSUME NEW b \in Branches, RemoteAdvances(b)
      PROVE  IInv'
  <2>1. Keeps(repo, repo') /\ Len(repo'.log) <= MaxCommits
    BY <1>7, RemoteKeeps
  <2>2. UNCHANGED <<job, queue, made, forfeited>>
    BY <1>7 DEF RemoteAdvances
  <2>3. RepoInv' /\ HistoryInv' /\ NothingLost'
    BY <2>1, <2>2 DEF IInv, RepoInv, HistoryInv, NothingLost, Keeps
  <2> QED BY <1>5, <2>2, <2>3 DEF IInv
<1>8. CASE TerminalCommand
  <2>1. /\ Keeps(repo, repo') /\ Len(repo'.log) <= MaxCommits
        /\ UNCHANGED <<job, queue, made, forfeited>>
    BY <1>8, TerminalKeeps
  <2>2. RepoInv' /\ HistoryInv' /\ NothingLost'
    BY <2>1 DEF IInv, RepoInv, HistoryInv, NothingLost, Keeps
  <2> QED BY <1>5, <2>1, <2>2 DEF IInv
<1>9. CASE UNCHANGED vars
  <2>1. UNCHANGED <<job, queue, repo, made, forfeited>>
    BY <1>9 DEF vars
  <2> QED BY <1>5, <2>1 DEF IInv, RepoInv, HistoryInv, NothingLost
<1> QED BY <1>1, <1>2, <1>3, <1>4, <1>6, <1>7, <1>8, <1>9 DEF Next, Reads

\* A repository in which origin's branches are as they were fetched.
LEMMA FetchedSound ==
    ASSUME NEW g \in Repos, IsLog(g.log), Named(g), g.tracking = g.remote
    PROVE  Sound(g)
<1>1. Behind(g)
  BY AncestorsBelow DEF Behind, Named
<1> QED BY <1>1 DEF Sound

\* Every entry is the user's.
UsersOwn(stash) == \A i \in 1..Len(stash) : stash[i].owner = Nobody

\* Each of the initial repositories is sound and keeps the edits already made.
LEMMA InitRepo ==
    ASSUME Init
    PROVE  /\ Sound(repo) /\ Len(repo.log) <= 3 /\ made \subseteq Edits /\ made \subseteq Kept(repo)
           /\ UsersOwn(repo.stash)
<1>1. PICK b \in Branches, e \in Edits :
          \/ repo = PushedBranch(b) /\ made = {}
          \/ /\ repo = [PushedBranch(b) EXCEPT !.stash = <<[owner |-> Nobody, edits |-> {e}]>>]
             /\ made = {e}
          \/ \E side \in Branches \ {b} :
                /\ repo = [PushedBranch(b) EXCEPT !.refs[side] = 2,
                             !.log = Append(@, [first |-> 1, second |-> 0, edits |-> {e}])]
                /\ made = {e}
          \/ /\ repo = [PushedBranch(b) EXCEPT !.refs[b] = 3,
                          !.log = @ \o <<[first |-> 1, second |-> 0, edits |-> {e}],
                                         [first |-> 2, second |-> 0, edits |-> Edits \ {e}]>>]
             /\ made = Edits
  BY DEF Init
<1>2. PICK only : only = [x \in Branches |-> IF x = b THEN 1 ELSE 0]
  OBVIOUS
<1>3. PICK c1 : c1 = [first |-> 0, second |-> 0, edits |-> {}]
  OBVIOUS
<1>0. PICK l1, none : l1 = <<c1>> /\ none = <<>>
  OBVIOUS
<1>11. UsersOwn(none)
  BY <1>0 DEF UsersOwn
<1>4. PushedBranch(b) =
        [log |-> l1, refs |-> only, tracking |-> only, remote |-> only, upstream |-> {b},
         head |-> b, work |-> {}, stash |-> none, merging |-> 0]
  BY <1>0, <1>2, <1>3 DEF PushedBranch
<1>5. only \in [Branches -> Nat] /\ \A x \in Branches : only[x] = IF x = b THEN 1 ELSE 0
  BY <1>2
<1>6. c1 \in Entries /\ c1.first = 0 /\ c1.second = 0
  BY <1>3 DEF Entries
<1>7. CASE repo = PushedBranch(b) /\ made = {}
  <2>1. repo \in Repos
    BY <1>0, <1>4, <1>5, <1>6, <1>7 DEF Repos
  <2>2. IsLog(repo.log) /\ Len(repo.log) = 1 /\ Named(repo) /\ repo.tracking = repo.remote
    BY <1>0, <1>4, <1>5, <1>6, <1>7 DEF IsLog, Entries, Named, Tip
  <2>3. repo.stash = none
    BY <1>4, <1>7
  <2> QED BY <1>7, <1>11, <2>1, <2>2, <2>3, FetchedSound
<1>8. CASE /\ repo = [PushedBranch(b) EXCEPT !.stash = <<[owner |-> Nobody, edits |-> {e}]>>]
           /\ made = {e}
  <2>1. PICK s : s = [owner |-> Nobody, edits |-> {e}]
    OBVIOUS
  <2>2. s \in Stashed /\ s.edits = {e}
    BY <2>1 DEF Stashed
  <2>0. PICK st : st = <<s>>
    OBVIOUS
  <2>3. repo = [log |-> l1, refs |-> only, tracking |-> only, remote |-> only,
                upstream |-> {b}, head |-> b, work |-> {}, stash |-> st, merging |-> 0]
    <3>1. repo = [PushedBranch(b) EXCEPT !.stash = st]
      BY <1>8, <2>1, <2>0
    <3> QED BY <1>4, <3>1
  <2>4. repo \in Repos
    BY <1>0, <1>5, <1>6, <2>0, <2>2, <2>3 DEF Repos
  <2>5. IsLog(repo.log) /\ Len(repo.log) = 1 /\ Named(repo) /\ repo.tracking = repo.remote
    BY <1>0, <1>5, <1>6, <2>3 DEF IsLog, Entries, Named, Tip
  <2>6. e \in StashedEdits(repo)
    BY <2>0, <2>2, <2>3 DEF StashedEdits
  <2>7. Sound(repo)
    BY <2>4, <2>5, FetchedSound
  <2>8. made \subseteq Kept(repo)
    BY <1>8, <2>6 DEF Kept
  <2>9. Len(repo.log) <= 3
    BY <2>5
  <2>10. made \subseteq Edits
    BY <1>8
  <2>11. UsersOwn(repo.stash)
    <3>1. repo.stash = st /\ Len(st) = 1 /\ st[1] = s /\ s.owner = Nobody
      BY <2>0, <2>1, <2>3
    <3> QED BY <3>1 DEF UsersOwn
  <2> QED BY <2>7, <2>8, <2>9, <2>10, <2>11
<1>9. ASSUME NEW side \in Branches \ {b},
             repo = [PushedBranch(b) EXCEPT !.refs[side] = 2,
                       !.log = Append(@, [first |-> 1, second |-> 0, edits |-> {e}])],
             made = {e}
      PROVE  /\ Sound(repo) /\ Len(repo.log) <= 3 /\ made \subseteq Edits /\ made \subseteq Kept(repo)
             /\ UsersOwn(repo.stash)
  <2>1. PICK c2 : c2 = [first |-> 1, second |-> 0, edits |-> {e}]
    OBVIOUS
  <2>2. c2 \in Entries /\ c2.first = 1 /\ c2.second = 0 /\ c2.edits = {e}
    BY <2>1 DEF Entries
  <2>3. PICK refs : refs = [only EXCEPT ![side] = 2]
    OBVIOUS
  <2>4. refs \in [Branches -> Nat] /\ refs[side] = 2 /\ refs[b] = 1
          /\ \A x \in Branches : refs[x] \in 0..2
    BY <1>5, <1>9, <2>3
  <2>0. PICK l : l = <<c1, c2>>
    OBVIOUS
  <2>5. repo = [log |-> l, refs |-> refs, tracking |-> only, remote |-> only,
                upstream |-> {b}, head |-> b, work |-> {}, stash |-> none, merging |-> 0]
    <3>1. l = Append(l1, c2)
      BY <1>0, <2>0
    <3>2. repo = [PushedBranch(b) EXCEPT !.refs = refs, !.log = l]
      BY <1>4, <1>9, <2>1, <2>3, <3>1
    <3>3. PICK q : q = [PushedBranch(b) EXCEPT !.refs = refs]
      OBVIOUS
    <3>4. q = [log |-> l1, refs |-> refs, tracking |-> only, remote |-> only,
               upstream |-> {b}, head |-> b, work |-> {}, stash |-> none, merging |-> 0]
      BY <1>4, <3>3
    <3>5. repo = [q EXCEPT !.log = l]
      BY <3>2, <3>3
    <3> QED BY <3>4, <3>5
  <2>6. repo \in Repos
    BY <1>0, <1>5, <1>6, <2>0, <2>2, <2>4, <2>5 DEF Repos
  <2>7. /\ Len(repo.log) = 2 /\ repo.log[1] = c1 /\ repo.log[2] = c2
        /\ repo.log \in Seq(Entries)
    BY <1>6, <2>0, <2>2, <2>5
  <2>8. IsLog(repo.log)
    <3>1. \A i \in 1..2 : i = 1 \/ i = 2
      OBVIOUS
    <3> QED BY <1>6, <2>2, <2>7, <3>1 DEF IsLog, Entries
  <2>9. Named(repo) /\ repo.tracking = repo.remote
    <3>1. /\ repo.refs = refs /\ repo.tracking = only /\ repo.remote = only
          /\ repo.merging = 0 /\ repo.head = b /\ Len(repo.log) = 2
      BY <2>5, <2>7
    <3>2. \A x \in Branches : only[x] \in 0..2
      BY <1>5
    <3>3. 0 \in 0..2 /\ refs[b] # 0
      BY <2>4
    <3> QED BY <2>4, <3>1, <3>2, <3>3 DEF Named, Tip
  <2>10. Sound(repo)
    BY <2>6, <2>8, <2>9, FetchedSound
  <2>11. 2 \in Reachable(repo)
    BY <2>4, <2>5, <2>10, ReachableMember
  <2>12. made \subseteq Kept(repo)
    BY <1>9, <2>2, <2>7, <2>11 DEF Kept, EditsIn
  <2>13. UsersOwn(repo.stash)
    BY <1>11, <2>5
  <2> QED BY <1>9, <2>7, <2>10, <2>12, <2>13
<1>10. CASE /\ repo = [PushedBranch(b) EXCEPT !.refs[b] = 3,
                         !.log = @ \o <<[first |-> 1, second |-> 0, edits |-> {e}],
                                        [first |-> 2, second |-> 0, edits |-> Edits \ {e}]>>]
            /\ made = Edits
  <2>1. PICK c2, c3 : /\ c2 = [first |-> 1, second |-> 0, edits |-> {e}]
                      /\ c3 = [first |-> 2, second |-> 0, edits |-> Edits \ {e}]
    OBVIOUS
  <2>2. /\ c2 \in Entries /\ c2.first = 1 /\ c2.second = 0 /\ c2.edits = {e}
        /\ c3 \in Entries /\ c3.first = 2 /\ c3.second = 0 /\ c3.edits = Edits \ {e}
    BY <2>1 DEF Entries
  <2>3. PICK refs : refs = [only EXCEPT ![b] = 3]
    OBVIOUS
  <2>4. refs \in [Branches -> Nat] /\ refs[b] = 3 /\ \A x \in Branches : refs[x] \in 0..3
    BY <1>5, <2>3
  <2>0. PICK l : l = <<c1, c2, c3>>
    OBVIOUS
  <2>5. repo = [log |-> l, refs |-> refs, tracking |-> only, remote |-> only,
                upstream |-> {b}, head |-> b, work |-> {}, stash |-> none, merging |-> 0]
    <3>1. l = l1 \o <<c2, c3>>
      BY <1>0, <2>0
    <3>2. repo = [PushedBranch(b) EXCEPT !.refs = refs, !.log = l]
      BY <1>4, <1>10, <2>1, <2>3, <3>1
    <3>3. PICK q : q = [PushedBranch(b) EXCEPT !.refs = refs]
      OBVIOUS
    <3>4. q = [log |-> l1, refs |-> refs, tracking |-> only, remote |-> only,
               upstream |-> {b}, head |-> b, work |-> {}, stash |-> none, merging |-> 0]
      BY <1>4, <3>3
    <3>5. repo = [q EXCEPT !.log = l]
      BY <3>2, <3>3
    <3> QED BY <3>4, <3>5
  <2>6. repo \in Repos
    BY <1>0, <1>5, <1>6, <2>0, <2>2, <2>4, <2>5 DEF Repos
  <2>7. /\ Len(repo.log) = 3 /\ repo.log[1] = c1 /\ repo.log[2] = c2 /\ repo.log[3] = c3
        /\ repo.log \in Seq(Entries)
    BY <1>6, <2>0, <2>2, <2>5
  <2>8. IsLog(repo.log)
    <3>1. \A i \in 1..3 : i = 1 \/ i = 2 \/ i = 3
      OBVIOUS
    <3> QED BY <1>6, <2>2, <2>7, <3>1 DEF IsLog, Entries
  <2>9. Named(repo) /\ repo.tracking = repo.remote
    <3>1. /\ repo.refs = refs /\ repo.tracking = only /\ repo.remote = only
          /\ repo.merging = 0 /\ repo.head = b /\ Len(repo.log) = 3
      BY <2>5, <2>7
    <3>2. \A x \in Branches : only[x] \in 0..3
      BY <1>5
    <3>3. 0 \in 0..3 /\ refs[b] # 0
      BY <2>4
    <3> QED BY <2>4, <3>1, <3>2, <3>3 DEF Named, Tip
  <2>10. Sound(repo)
    BY <2>6, <2>8, <2>9, FetchedSound
  <2>11. 2 \in Reachable(repo) /\ 3 \in Reachable(repo)
    <3>1. 3 \in Reachable(repo) /\ Ancestors(repo, 3) \subseteq Reachable(repo)
      <4>1. b \in Branches /\ repo.refs[b] = 3
        BY <2>4, <2>5
      <4> QED BY <2>10, <4>1, ReachableMember
    <3>2. 2 \in Ancestors(repo, 2) /\ Ancestors(repo, 2) \subseteq Ancestors(repo, 3)
      BY <2>2, <2>7, <2>8, AncestorsBelow, AncestorsUnfold
    <3> QED BY <3>1, <3>2
  <2>12. \A x \in Edits : x \in c2.edits \/ x \in c3.edits
    BY <2>2
  <2>13. made \subseteq EditsIn(repo, Reachable(repo))
    BY <1>10, <2>7, <2>11, <2>12 DEF EditsIn
  <2>14. made \subseteq Kept(repo)
    BY <2>13 DEF Kept
  <2>15. UsersOwn(repo.stash)
    BY <1>11, <2>5
  <2> QED BY <1>10, <2>7, <2>10, <2>14, <2>15
<1> QED BY <1>1, <1>7, <1>8, <1>9, <1>10

\* The invariant holds initially.
LEMMA InitIInv ==
    ASSUME Init
    PROVE  IInv
<1>1. RepoInv /\ HistoryInv /\ NothingLost
  <2>1. Sound(repo) /\ Len(repo.log) <= 3 /\ made \subseteq Edits /\ made \subseteq Kept(repo)
    BY InitRepo
  <2>2. Len(repo.log) \in Nat
    BY <2>1, LogType DEF Sound
  <2>3. forfeited = {}
    BY DEF Init
  <2> QED BY <2>1, <2>2, <2>3, BoundAssumption DEF RepoInv, HistoryInv, NothingLost
<1>2. /\ job = [r \in Requests |-> IdleJob] /\ queue = <<>>
  BY DEF Init
<1>3. NoContext \in Context(MaxCommits)
  BY BoundAssumption DEF NoContext, Context
<1>4. Shape(IdleJob) /\ ~ Unsettled(IdleJob)
  BY <1>3 DEF Shape, JobRecord, IdleJob, Outcomes, Unsettled, Steps, WithTarget
<1>5. QueueInv
  BY <1>2, <1>4 DEF QueueInv
<1>6. JobInv
  BY <1>2, <1>4, <1>5 DEF JobInv
<1> QED BY <1>1, <1>6 DEF IInv

\* The invariant implies the type invariant.
LEMMA Typed ==
    ASSUME IInv
    PROVE  TypeOK
<1>1. IsRepo(repo, Requests \union {Nobody})
  <2>1. Sound(repo) /\ repo \in Repos /\ Len(repo.log) \in Nat
    BY LogType DEF IInv, RepoInv, Sound
  <2> DEFINE E == [first : 0..Len(repo.log), second : 0..Len(repo.log), edits : SUBSET Edits]
  <2>2. repo.log \in Seq(E)
    <3>1. \A i \in 1..Len(repo.log) : repo.log[i] \in E
      BY LogType DEF IInv, RepoInv, Sound
    <3>2. repo.log = [i \in 1..Len(repo.log) |-> repo.log[i]]
      BY <2>1 DEF Repos
    <3> HIDE DEF E
    <3>3. repo.log \in [1..Len(repo.log) -> E]
      BY <3>1, <3>2
    <3> QED BY <2>1, <3>3, SeqDef
  <2>3. /\ repo.refs \in [Branches -> 0..Len(repo.log)]
        /\ repo.tracking \in [Branches -> 0..Len(repo.log)]
        /\ repo.remote \in [Branches -> 0..Len(repo.log)]
        /\ repo.merging \in 0..Len(repo.log)
        /\ repo.refs[repo.head] # 0
    BY <2>1 DEF Sound, Named, Repos, Tip
  <2> QED BY <2>1, <2>2, <2>3 DEF IsRepo, Repos, Stashed
<1>2. \A r \in Requests :
          /\ job[r].pc \in Steps /\ job[r].op \in Ops \union {"none"}
          /\ job[r].expected \in Branches \union {Nobody}
          /\ job[r].target \in Branches \union {Nobody}
          /\ job[r].ctx \in Context(MaxCommits)
          /\ job[r].outcome \in Outcomes
          /\ job[r].outcome # "none" <=> job[r].pc = "settled"
  BY DEF IInv, JobInv, Shape, JobRecord
<1>3. /\ \A i, j \in 1..Len(queue) : queue[i] = queue[j] => i = j
      /\ \A r \in Requests :
            (\E i \in 1..Len(queue) : queue[i] = r) <=> job[r].pc \notin {"idle", "settled"}
      /\ made \subseteq Edits /\ forfeited \subseteq made
  BY DEF IInv, JobInv, QueueInv, HistoryInv, Unsettled
<1> QED BY <1>1, <1>2, <1>3 DEF TypeOK

\* IInv is an invariant of RepoJobs.
LEMMA Invariance == Spec => []IInv
<1>1. Init => IInv
  BY InitIInv
<1>2. IInv /\ [Next]_vars => IInv'
  BY NextIInv
<1> QED BY <1>1, <1>2, PTL DEF Spec

\* No operation loses work.  Whatever is committed, stashed, switched, pulled,
\* merged, reset or deleted, by the jobs, by the user's terminal in the middle of
\* one or by other clones: an edit is in the files, in the stash or in a commit
\* some branch reaches, unless it went with a branch deleted by force.
THEOREM NothingIsLostCorrect == Spec => []NothingIsLost
<1>1. IInv => NothingIsLost
  BY Typed DEF NothingIsLost, IInv
<1> QED BY <1>1, Invariance, PTL

-----------------------------------------------------------------------------
(* What one job keeps from another, when nobody types git inside a job.    *)

\* A "bring changes and switch" has its changes in the stash.
Holds(j) == j.pc \in {"pop", "restore"} \/ (j.pc = "switch" /\ j.flag)

\* A pull, merge or return has verified HEAD.
Verified(j) == j.op \in WithExpected /\ j.pc \notin {"idle", "verify", "settled"}

Counting(j) == j.pc \in {"count", "rest", "reset"}

\* A request that waits holds nothing, has verified nothing and has read nothing.
LEMMA Others ==
    ASSUME JobInv, NEW r \in Requests, Active(r), NEW q \in Requests, q # r
    PROVE  ~ Holds(job[q]) /\ ~ Verified(job[q]) /\ ~ Counting(job[q])
<1>1. CASE ~ Unsettled(job[q])
  BY <1>1 DEF Unsettled, Holds, Verified, Counting
<1>2. CASE Unsettled(job[q])
  <2>1. PICK i \in 1..Len(queue) : queue[i] = q
    BY <1>2 DEF JobInv, QueueInv
  <2>2. i \in 2..Len(queue)
    BY <2>1, Running
  <2>3. job[q].pc = FirstStep(job[q].op)
    BY <2>1, <2>2 DEF JobInv, QueueInv
  <2> QED BY <2>3, FirstStepType DEF Holds, Verified, Counting
<1> QED BY <1>1, <1>2

\* Nor has any request between two jobs.
LEMMA NoneMidJob ==
    ASSUME JobInv, ~ MidJob, NEW q \in Requests
    PROVE  ~ Holds(job[q]) /\ ~ Verified(job[q]) /\ ~ Counting(job[q])
<1>1. CASE queue = <<>>
  <2>1. ~ Unsettled(job[q])
    BY <1>1 DEF JobInv, QueueInv
  <2> QED BY <2>1 DEF Unsettled, Holds, Verified, Counting
<1>2. CASE queue # <<>>
  <2>1. Head(queue) \in Requests /\ Active(Head(queue))
    BY <1>2 DEF JobInv, QueueInv, Active
  <2>2. job[Head(queue)].pc = FirstStep(job[Head(queue)].op)
    BY <1>2 DEF MidJob
  <2>3. CASE q = Head(queue)
    BY <2>2, <2>3, FirstStepType DEF Holds, Verified, Counting
  <2>4. CASE q # Head(queue)
    BY <2>1, <2>4, Others
  <2> QED BY <2>3, <2>4
<1> QED BY <1>1, <1>2

\* A step of the running job changes no other record.
LEMMA RanType ==
    ASSUME JobInv, NEW r \in Requests, Ran(r)
    PROVE  /\ Unsettled(job[r]) /\ Shape(job[r])
           /\ \A q \in Requests : q # r => job'[q] = job[q]
           /\ \/ job'[r].pc = "settled" /\ job'[r].op = job[r].op
              \/ /\ Shape(job'[r]) /\ Unsettled(job'[r])
                 /\ job'[r].op = job[r].op /\ job'[r].expected = job[r].expected
<1>1. Unsettled(job[r]) /\ Shape(job[r])
  BY Running DEF Ran
<1>2. ASSUME NEW o \in Outcomes \ {"none"}, Settle(r, o)
      PROVE  /\ \A q \in Requests : q # r => job'[q] = job[q]
             /\ job'[r].pc = "settled" /\ job'[r].op = job[r].op
  <2>1. PICK j : /\ Shape(j) /\ ~ Unsettled(j) /\ Replaces(r, j)
                 /\ j.op = job[r].op /\ j.pc = "settled" /\ j.outcome = o
    BY <1>2, SettleType
  <2> QED BY <2>1, Replaced
<1>3. ASSUME NEW j, Advances(r, j)
      PROVE  /\ \A q \in Requests : q # r => job'[q] = job[q]
             /\ Shape(job'[r]) /\ Unsettled(job'[r])
             /\ job'[r].op = job[r].op /\ job'[r].expected = job[r].expected
  <2>1. /\ job'[r] = j
        /\ \A q \in Requests : q # r => job'[q] = job[q]
    BY <1>3, Replaced DEF Advances
  <2> QED BY <1>3, <2>1 DEF Advances
<1> QED BY <1>1, <1>2, <1>3 DEF Ran

\* HEAD stays where a job has verified it.
HeadInv ==
    \A r \in Requests : Verified(job[r]) => job[r].expected \in {Nobody, repo.head}

\* A step of the running job keeps HEAD where it verified it.
LEMMA HeadRan ==
    ASSUME IInv, HeadInv, NEW r \in Requests, Ran(r), job[r].pc # "verify",
           repo'.head = repo.head \/ job[r].op \notin WithExpected
    PROVE  HeadInv'
<1>1. JobInv /\ Active(r)
  BY DEF IInv, Ran
<1>2. ASSUME NEW q \in Requests, q # r
      PROVE  ~ Verified(job'[q])
  BY <1>1, <1>2, RanType, Others
<1>3. Verified(job'[r]) => job'[r].expected \in {Nobody, repo'.head}
  <2>1. /\ Unsettled(job[r])
        /\ \/ job'[r].pc = "settled"
           \/ job'[r].op = job[r].op /\ job'[r].expected = job[r].expected
    BY <1>1, RanType
  <2> QED BY <2>1 DEF HeadInv, Verified, Unsettled
<1> QED BY <1>2, <1>3 DEF HeadInv

\* So does a step of no job, if it leaves HEAD.
LEMMA HeadStays ==
    ASSUME HeadInv, UNCHANGED job, repo'.head = repo.head
    PROVE  HeadInv'
BY DEF HeadInv

\* The steps of a running job, by what they may do to HEAD and its branch.
OnHeadStep(r) ==
    \/ Reset(r) \/ CommitWrite(r) \/ RunFetch(r) \/ RunPull(r) \/ RunPush(r) \/ RunMerge(r)

BranchStep(r) ==
    RunSwitch(r) \/ RunCreate(r) \/ RunDelete(r) \/ RunForceDelete(r) \/ StashSwitch(r)

StashOnly(r) == StashStep(r) \/ StashPopStep(r) \/ StashRestore(r)

\* The steps by kind.
LEMMA Cases ==
    ASSUME [Next]_vars
    PROVE  \/ \E r \in Requests : Reads(r) \/ OnHeadStep(r) \/ BranchStep(r) \/ StashOnly(r)
           \/ \E r \in Requests, op \in Ops : \E t \in Targets(op), x \in Expectations(op) :
                 Submit(r, op, t, x)
           \/ \E e \in Edits : UserEdits(e)
           \/ \E b \in Branches : RemoteAdvances(b)
           \/ TerminalCommand
           \/ UNCHANGED vars
BY DEF Next, Reads, OnHeadStep, BranchStep, StashOnly

\* What the writes on HEAD's branch have in common.
LEMMA OnHeadFacts ==
    ASSUME IInv, NEW r \in Requests, OnHeadStep(r)
    PROVE  /\ Ran(r) /\ OnHead(repo, repo')
           /\ job[r].pc # "verify" /\ job[r].op # "stashSwitch"
<1>1. Ran(r) /\ OnHead(repo, repo')
  BY ResetBenign, CommitBenign, FetchBenign, PullBenign, PushBenign, MergeBenign
     DEF OnHeadStep, Benign
<1>2. Shape(job[r])
  BY DEF IInv, JobInv
<1>3. \/ job[r].pc \in {"reset", "commit"}
      \/ job[r].pc = "write" /\ job[r].op \in {"fetch", "pull", "push", "merge"}
  BY DEF OnHeadStep, Reset, CommitWrite, RunFetch, RunPull, RunPush, RunMerge, Writes, Runs
<1> QED BY <1>1, <1>2, <1>3 DEF Shape, Uncommits

\* What the writes on other branches have in common.
LEMMA BranchFacts ==
    ASSUME IInv, NEW r \in Requests, BranchStep(r)
    PROVE  /\ Ran(r) /\ repo'.stash = repo.stash
           /\ job[r].pc # "verify" /\ job[r].op \notin WithExpected
           /\ job[r].op = "stashSwitch" => StashSwitch(r)
<1>1. Ran(r) /\ repo'.stash = repo.stash
  BY SwitchBenign, CreateBenign, DeleteBenign, ForceDeleteSafe, StashSwitchBenign
     DEF BranchStep, Benign
<1>2. Shape(job[r])
  BY DEF IInv, JobInv
<1>3. \/ job[r].pc = "write" /\ job[r].op \in {"switch", "create", "delete", "forceDelete"}
      \/ job[r].pc = "switch" /\ StashSwitch(r)
  BY DEF BranchStep, RunSwitch, RunCreate, RunDelete, RunForceDelete, StashSwitch, Writes, Runs
<1> QED BY <1>1, <1>2, <1>3 DEF Shape, WithExpected

\* What the stash steps have in common.
LEMMA StashFacts ==
    ASSUME IInv, NEW r \in Requests, StashOnly(r)
    PROVE  /\ Ran(r) /\ FilesOnly(repo, repo')
           /\ job[r].pc # "verify" /\ job[r].op \notin WithExpected
<1>1. Ran(r) /\ FilesOnly(repo, repo')
  BY StashBenign, PopBenign DEF StashOnly, Benign
<1>2. Shape(job[r])
  BY DEF IInv, JobInv
<1>3. job[r].pc \in {"stash", "pop", "restore"}
  BY DEF StashOnly, StashStep, StashPopStep, StashRestore, Runs
<1> QED BY <1>1, <1>2, <1>3 DEF Shape, WithExpected

\* Every step keeps HEAD where the running job has verified it.
LEMMA NextHeadInv ==
    ASSUME IInv, HeadInv, ~ TerminalMidJob, [Next]_vars
    PROVE  HeadInv'
<1>1. ASSUME NEW r \in Requests, Reads(r)
      PROVE  HeadInv'
  <2>1. Ran(r) /\ UNCHANGED repo
    BY <1>1, ReadsRan
  <2>2. CASE job[r].pc # "verify"
    BY <2>1, <2>2, HeadRan
  <2>3. CASE job[r].pc = "verify"
    <3>1. VerifyHeadBranch(r)
      BY <1>1, <2>3 DEF Reads, ReadStatus, ReadUnpushedCount, Decide, CommitHash,
                        ProbeUpstream, Runs
    <3>2. JobInv /\ Active(r)
      BY <2>1 DEF IInv, Ran
    <3>3. \A q \in Requests : q # r => ~ Verified(job'[q])
      BY <2>1, <3>2, RanType, Others
    <3>4. job[r].expected \in {Nobody, repo.head} \/ Settle(r, "refused")
      BY <3>1 DEF VerifyHeadBranch
    <3>5. Settle(r, "refused") => job'[r].pc = "settled"
      BY <3>2, SettleType, Replaced DEF Outcomes
    <3>6. job'[r].pc = "settled" \/ job'[r].expected = job[r].expected
      BY <2>1, <3>2, RanType
    <3>7. Verified(job'[r]) => job'[r].expected \in {Nobody, repo'.head}
      BY <2>1, <3>4, <3>5, <3>6 DEF Verified
    <3> QED BY <3>3, <3>7 DEF HeadInv
  <2> QED BY <2>2, <2>3
<1>2. ASSUME NEW r \in Requests, OnHeadStep(r)
      PROVE  HeadInv'
  BY <1>2, OnHeadFacts, HeadRan DEF OnHead
<1>3. ASSUME NEW r \in Requests, BranchStep(r)
      PROVE  HeadInv'
  BY <1>3, BranchFacts, HeadRan
<1>4. ASSUME NEW r \in Requests, StashOnly(r)
      PROVE  HeadInv'
  BY <1>4, StashFacts, HeadRan
<1>5. ASSUME NEW r \in Requests, NEW op \in Ops, NEW t \in Targets(op),
             NEW x \in Expectations(op), Submit(r, op, t, x)
      PROVE  HeadInv'
  <2>1. UNCHANGED repo /\ JobInv
    BY <1>5, SubmitInv DEF IInv
  <2>2. PICK j : Replaces(r, j) /\ Shape(j) /\ j.op = op /\ j.pc = FirstStep(op)
    BY <1>5, SubmitInv
  <2>3. job'[r] = j /\ \A q \in Requests : q # r => job'[q] = job[q]
    BY <2>1, <2>2, Replaced
  <2>4. ~ Verified(j)
    BY <2>2, FirstStepType DEF Verified
  <2> QED BY <2>1, <2>3, <2>4 DEF HeadInv
<1>6. ASSUME NEW e \in Edits, UserEdits(e)
      PROVE  HeadInv'
  BY <1>6, UserKeeps, HeadStays DEF UserEdits, FilesOnly
<1>7. ASSUME NEW b \in Branches, RemoteAdvances(b)
      PROVE  HeadInv'
  BY <1>7, RemoteKeeps, HeadStays DEF RemoteAdvances
<1>8. CASE TerminalCommand
  <2>1. \A q \in Requests : ~ Verified(job[q])
    BY <1>8, NoneMidJob DEF TerminalCommand, IInv
  <2>2. UNCHANGED job
    BY <1>8 DEF TerminalCommand
  <2> QED BY <2>1, <2>2 DEF HeadInv
<1>9. CASE UNCHANGED vars
  BY <1>9 DEF vars, HeadInv
<1> QED BY <1>1, <1>2, <1>3, <1>4, <1>5, <1>6, <1>7, <1>8, <1>9, Cases

\* The step of one request that the property speaks of.
LEMMA StepOfRunning ==
    ASSUME IInv, NEW r \in Requests, Step(r), NEW q \in Requests, Ran(q)
    PROVE  q = r
BY DEF Step, Ran, Active

\* After the verification the only branch in reach of the job's writes is HEAD's.
LEMMA ExpectedStep ==
    ASSUME IInv, HeadInv, [Next]_vars, NEW r \in Requests, Step(r),
           job[r].op \in WithExpected, job[r].expected # Nobody,
           NEW b \in Branches \ {job[r].expected}
    PROVE  repo'.refs[b] = repo.refs[b]
<1>1. ASSUME NEW q \in Requests, Reads(q)
      PROVE  repo'.refs[b] = repo.refs[b]
  BY <1>1, ReadsRan
<1>2. ASSUME NEW q \in Requests, OnHeadStep(q)
      PROVE  repo'.refs[b] = repo.refs[b]
  <2>1. q = r /\ OnHead(repo, repo') /\ job[r].pc # "verify"
    BY <1>2, OnHeadFacts, StepOfRunning
  <2>2. Unsettled(job[r])
    BY Running DEF Step, IInv
  <2>3. job[r].expected = repo.head
    BY <2>1, <2>2 DEF HeadInv, Verified, Unsettled
  <2> QED BY <2>1, <2>3 DEF OnHead
<1>3. ASSUME NEW q \in Requests, BranchStep(q)
      PROVE  FALSE
  BY <1>3, BranchFacts, StepOfRunning
<1>4. ASSUME NEW q \in Requests, StashOnly(q)
      PROVE  repo'.refs[b] = repo.refs[b]
  BY <1>4, StashFacts DEF FilesOnly
<1>5. ASSUME NEW q \in Requests, NEW op \in Ops, NEW t \in Targets(op),
             NEW x \in Expectations(op), Submit(q, op, t, x)
      PROVE  repo'.refs[b] = repo.refs[b]
  BY <1>5 DEF Submit
<1>6. ASSUME NEW e \in Edits, UserEdits(e)
      PROVE  FALSE
  BY <1>6 DEF UserEdits, Step
<1>7. ASSUME NEW x \in Branches, RemoteAdvances(x)
      PROVE  FALSE
  BY <1>7 DEF RemoteAdvances, Step
<1>8. CASE TerminalCommand
  BY <1>8 DEF TerminalCommand, Step
<1>9. CASE UNCHANGED vars
  BY <1>9 DEF vars
<1> QED BY <1>1, <1>2, <1>3, <1>4, <1>5, <1>6, <1>7, <1>8, <1>9, Cases

\* A pull, merge or return that names a branch changes that branch only: what
\* verifyHeadBranch has seen is still so at every later write of the job.  The
\* assumption: nobody types git in a terminal between two invocations of a job.
THEOREM ExpectedBranchCorrect ==
    ASSUME ~ TerminalMidJob
    PROVE  Spec => ActsOnExpectedBranch
<1>1. Init => HeadInv
  <2>1. Init => job = [r \in Requests |-> IdleJob]
    BY DEF Init
  <2>2. IdleJob.pc = "idle"
    BY DEF IdleJob
  <2> QED BY <2>1, <2>2 DEF HeadInv, Verified
<1>2. IInv /\ HeadInv /\ [Next]_vars => HeadInv'
  BY NextHeadInv
<1>3. IInv /\ HeadInv /\ [Next]_vars =>
        [\A r \in Requests :
          Step(r) /\ job[r].op \in WithExpected /\ job[r].expected # Nobody =>
              \A b \in Branches \ {job[r].expected} : repo'.refs[b] = repo.refs[b]]_vars
  BY ExpectedStep
<1> QED BY <1>1, <1>2, <1>3, Invariance, PTL DEF Spec, ActsOnExpectedBranch
-----------------------------------------------------------------------------
(* The entries of the stash.                                               *)

OwnNone(r, stash) == \A i \in 1..Len(stash) : stash[i].owner # r

\* The only entry of r is the top one.
OwnTop(r, stash) == stash # <<>> /\ \A i \in 1..Len(stash) : stash[i].owner = r <=> i = 1

Fits(r, j, stash) ==
    /\ Holds(j) => OwnTop(r, stash)
    /\ ~ Holds(j) /\ j.outcome \notin {"conflict", "stashKept"} => OwnNone(r, stash)

\* An entry of a request is in the stash while its job holds its changes there,
\* and after that only if the outcome says so.
StashInv == \A r \in Requests : Fits(r, job[r], repo.stash)

\* A push puts one entry of its owner on top and disturbs nobody else's.
LEMMA OwnPushed ==
    ASSUME NEW e \in Stashed, NEW s \in Seq(Stashed), NEW t, t = <<e>> \o s
    PROVE  /\ HasOnTop(t, s, e.owner)
           /\ \A r : r # e.owner /\ OwnNone(r, s) => OwnNone(r, t)
           /\ OwnNone(e.owner, s) => OwnTop(e.owner, t)
<1>1. t \in Seq(Stashed) /\ OnTop(e, s, t) /\ Head(t) = e /\ Tail(t) = s /\ t # <<>>
  BY Pushed
<1>2. Len(s) \in Nat /\ Len(t) = Len(s) + 1 /\ t[1] = e /\ \A i \in 1..Len(s) : t[i + 1] = s[i]
  BY <1>1 DEF OnTop
<1>3. \A i \in 1..Len(t) : i = 1 \/ (i # 1 /\ i - 1 \in 1..Len(s) /\ t[i] = s[i - 1])
  <2>1. \A i \in 1..Len(t) : i = 1 \/ (i # 1 /\ i - 1 \in 1..Len(s) /\ i = (i - 1) + 1)
    BY <1>2
  <2> QED BY <1>2, <2>1
<1> QED BY <1>1, <1>2, <1>3 DEF HasOnTop, OwnNone, OwnTop

\* A pop by the owner of the top entry takes that one.
LEMMA OwnPopped ==
    ASSUME NEW s \in Seq(Stashed), s # <<>>, NEW r, OwnTop(r, s), NEW t, t = Tail(s)
    PROVE  /\ HasOnTop(s, t, r) /\ OwnNone(r, t)
           /\ \A q : OwnNone(q, s) => OwnNone(q, t)
<1>1. t \in Seq(Stashed) /\ OnTop(Head(s), t, s)
  BY Popped
<1>2. /\ Len(t) \in Nat /\ Len(s) = Len(t) + 1 /\ s[1] = Head(s) /\ 1 \in 1..Len(s)
      /\ \A i \in 1..Len(t) : s[i + 1] = t[i] /\ i + 1 \in 1..Len(s) /\ i + 1 # 1
  BY <1>1 DEF OnTop
<1> QED BY <1>2 DEF HasOnTop, OwnNone, OwnTop

\* An unsettled job has no outcome yet, and a settled one holds nothing.
LEMMA Outcome ==
    ASSUME NEW j, Shape(j)
    PROVE  /\ Unsettled(j) => j.outcome = "none"
           /\ j.outcome # "none" => ~ Holds(j)
           /\ j.op # "stashSwitch" => ~ Holds(j)
BY DEF Shape, Unsettled, Holds

\* A settled job holds nothing and has its outcome.
LEMMA Settled ==
    ASSUME JobInv, NEW r \in Requests, NEW o \in Outcomes \ {"none"}, Settle(r, o)
    PROVE  job'[r].pc = "settled" /\ job'[r].outcome = o /\ ~ Holds(job'[r])
<1>1. PICK j : Shape(j) /\ ~ Unsettled(j) /\ Replaces(r, j) /\ j.pc = "settled" /\ j.outcome = o
  BY SettleType
<1>2. job'[r] = j
  BY <1>1, Replaced
<1> QED BY <1>1, <1>2 DEF Holds

\* A step that leaves the stash need only fit it itself.
LEMMA StashStays ==
    ASSUME IInv, StashInv, NEW r \in Requests, Ran(r), repo'.stash = repo.stash,
           Fits(r, job'[r], repo.stash)
    PROVE  StashInv'
<1>1. \A q \in Requests : q # r => job'[q] = job[q]
  BY RanType DEF IInv
<1> QED BY <1>1 DEF StashInv

\* The other operations leave the stash as it fits.
LEMMA StashApart ==
    ASSUME IInv, StashInv, NEW r \in Requests, Ran(r), repo'.stash = repo.stash,
           job[r].op # "stashSwitch"
    PROVE  StashInv'
<1>1. JobInv /\ Unsettled(job[r]) /\ Shape(job[r])
  BY RanType DEF IInv
<1>2. OwnNone(r, repo.stash)
  BY <1>1, Outcome DEF StashInv, Fits
<1>3. ~ Holds(job'[r])
  <2>1. \/ job'[r].pc = "settled"
        \/ Shape(job'[r]) /\ job'[r].op = job[r].op
    BY <1>1, RanType
  <2> QED BY <2>1, Outcome DEF Holds
<1> QED BY <1>2, <1>3, StashStays DEF Fits

\* stash push: what it saves is its own, on top.
LEMMA StashStepFits ==
    ASSUME IInv, StashInv, NEW r \in Requests, StashStep(r)
    PROVE  /\ StashInv'
           /\ repo'.stash = repo.stash \/ HasOnTop(repo'.stash, repo.stash, r)
<1>1. PICK out \in StashPush(repo, r) :
         /\ Apply(out)
         /\ \/ ~ out.ok /\ Settle(r, "rejected")
            \/ job' = [job EXCEPT ![r].pc = "switch",
                                  ![r].flag = Len(out.repo.stash) > Len(repo.stash)]
  BY DEF StashStep
<1>2. JobInv /\ Ran(r) /\ Active(r) /\ job[r].pc = "stash" /\ Shape(job[r])
        /\ job[r] \in JobRecord
  BY StashBenign DEF StashStep, Runs, IInv, JobInv, Shape, Benign
<1>3. repo'.stash = out.repo.stash /\ repo.stash \in Seq(Stashed)
  BY <1>1 DEF Apply, IInv, RepoInv, Sound, Repos
<1>4. OwnNone(r, repo.stash)
  BY <1>2, Outcome DEF StashInv, Fits, Unsettled, Holds
<1>5. \/ out.repo.stash = repo.stash
      \/ out.ok /\ \E e \in Stashed : e.owner = r /\ out.repo.stash = <<e>> \o repo.stash
  <2>1. r \in Requests \union {Nobody} /\ Sound(repo)
    BY DEF IInv, RepoInv
  <2> QED BY <1>1, <2>1, StashPushKeeps
<1>6. CASE ~ out.ok /\ Settle(r, "rejected")
  <2>1. ~ Holds(job'[r])
    BY <1>2, <1>6, Settled DEF Outcomes
  <2>2. repo'.stash = repo.stash
    BY <1>3, <1>5, <1>6
  <2> QED BY <1>2, <1>4, <2>1, <2>2, StashStays DEF Fits
<1>7. ASSUME NEW f \in BOOLEAN, f = (Len(out.repo.stash) > Len(repo.stash)),
             job' = [job EXCEPT ![r].pc = "switch", ![r].flag = f]
      PROVE  /\ StashInv'
             /\ repo'.stash = repo.stash \/ HasOnTop(repo'.stash, repo.stash, r)
  <2>1. /\ job'[r].pc = "switch" /\ job'[r].flag = f
        /\ \A q \in Requests : q # r => job'[q] = job[q]
    BY <1>2, <1>7 DEF JobInv, JobRecord
  <2>2. Holds(job'[r]) <=> f
    BY <2>1 DEF Holds
  <2>3. CASE out.repo.stash = repo.stash
    <3>1. ~ f
      <4>1. Len(repo.stash) \in Nat /\ ~ (Len(repo.stash) > Len(repo.stash))
        BY <1>3
      <4> QED BY <1>7, <2>3, <4>1
    <3> QED BY <1>2, <1>3, <1>4, <2>2, <2>3, <3>1, StashStays DEF Fits
  <2>4. ASSUME NEW e \in Stashed, e.owner = r, out.repo.stash = <<e>> \o repo.stash
        PROVE  StashInv' /\ HasOnTop(repo'.stash, repo.stash, r)
    <3>1. /\ HasOnTop(repo'.stash, repo.stash, r) /\ OwnTop(r, repo'.stash)
          /\ \A q \in Requests : q # r /\ OwnNone(q, repo.stash) => OwnNone(q, repo'.stash)
      BY <1>3, <1>4, <2>4, OwnPushed
    <3>2. f
      <4>1. Len(out.repo.stash) > Len(repo.stash)
        BY <1>3, <2>4, Pushed DEF OnTop
      <4> QED BY <1>7, <4>1
    <3>3. Fits(r, job'[r], repo'.stash)
      BY <2>2, <3>1, <3>2 DEF Fits
    <3>4. ASSUME NEW q \in Requests, q # r
          PROVE  Fits(q, job'[q], repo'.stash)
      <4>1. ~ Holds(job[q]) /\ Fits(q, job[q], repo.stash)
        BY <1>2, <3>4, Others DEF StashInv
      <4> QED BY <2>1, <3>1, <3>4, <4>1 DEF Fits
    <3> QED BY <3>1, <3>3, <3>4 DEF StashInv
  <2> QED BY <1>3, <1>5, <2>3, <2>4
<1>8. CASE job' = [job EXCEPT ![r].pc = "switch",
                              ![r].flag = Len(out.repo.stash) > Len(repo.stash)]
  <2>1. PICK f : f = (Len(out.repo.stash) > Len(repo.stash))
    OBVIOUS
  <2>2. f \in BOOLEAN
    BY <2>1
  <2> QED BY <1>7, <1>8, <2>1, <2>2
<1> QED BY <1>1, <1>6, <1>7, <1>8, <1>3, <1>5

\* The switch: whatever was stashed is popped or restored.
LEMMA StashSwitchFits ==
    ASSUME IInv, StashInv, NEW r \in Requests, StashSwitch(r)
    PROVE  StashInv' /\ repo'.stash = repo.stash
<1>1. JobInv /\ Ran(r) /\ repo'.stash = repo.stash /\ Shape(job[r]) /\ job[r].pc = "switch"
  BY StashSwitchBenign DEF Benign, IInv, JobInv, StashSwitch, Runs
<1>2. PICK ok : AfterSwitch(r, ok)
  BY DEF StashSwitch
<1>3. job[r].outcome = "none" /\ (Holds(job[r]) <=> job[r].flag)
  BY <1>1, Outcome DEF Unsettled, Holds, Shape, JobRecord
<1>4. CASE ~ job[r].flag /\ Settle(r, IF ok THEN "ok" ELSE "rejected")
  <2>1. ~ Holds(job'[r])
    BY <1>1, <1>4, Settled DEF Outcomes
  <2>2. OwnNone(r, repo.stash)
    BY <1>3, <1>4 DEF StashInv, Fits
  <2> QED BY <1>1, <2>1, <2>2, StashStays DEF Fits
<1>5. CASE job[r].flag /\ Proceed(r, IF ok THEN "pop" ELSE "restore")
  <2>1. PICK j : Advances(r, j) /\ j = [job[r] EXCEPT !.pc = IF ok THEN "pop" ELSE "restore"]
    BY <1>1, <1>5, ProceedAdvances
  <2>2. job'[r] = j
    BY <1>1, <2>1, Replaced DEF Advances
  <2>3. j.pc \in {"pop", "restore"}
    BY <1>1, <2>1 DEF Shape, JobRecord
  <2>4. OwnTop(r, repo.stash)
    BY <1>3, <1>5 DEF StashInv, Fits
  <2> QED BY <1>1, <2>2, <2>3, <2>4, StashStays DEF Fits, Holds
<1> QED BY <1>1, <1>2, <1>4, <1>5 DEF AfterSwitch

\* The pop after the switch, or after a failed one: it takes the job's own entry,
\* or it leaves the stash and the outcome says so.
LEMMA PopFits ==
    ASSUME IInv, StashInv, NEW r \in Requests, StashPopStep(r) \/ StashRestore(r)
    PROVE  /\ StashInv'
           /\ repo'.stash = repo.stash \/ HasOnTop(repo.stash, repo'.stash, r)
<1>1. PICK out \in StashPop(repo), o \in Outcomes \ {"none"} :
         /\ Apply(out) /\ Settle(r, o)
         /\ ~ out.ok => o \in {"conflict", "stashKept"}
  BY DEF StashPopStep, StashRestore, Outcomes
<1>2. JobInv /\ Ran(r) /\ Active(r) /\ Holds(job[r])
  BY PopBenign DEF Benign, IInv, StashPopStep, StashRestore, Runs, Holds
<1>3. repo'.stash = out.repo.stash /\ repo.stash \in Seq(Stashed)
  BY <1>1 DEF Apply, IInv, RepoInv, Sound, Repos
<1>4. OwnTop(r, repo.stash)
  BY <1>2 DEF StashInv, Fits
<1>5. job'[r].outcome = o /\ ~ Holds(job'[r])
  BY <1>1, <1>2, Settled
<1>6. \/ ~ out.ok /\ out.repo.stash = repo.stash
      \/ repo.stash # <<>> /\ out.repo.stash = Tail(repo.stash)
  BY <1>1, StashPopKeeps DEF IInv, RepoInv
<1>7. CASE ~ out.ok /\ out.repo.stash = repo.stash
  BY <1>1, <1>2, <1>3, <1>5, <1>7, StashStays DEF Fits
<1>8. CASE repo.stash # <<>> /\ out.repo.stash = Tail(repo.stash)
  <2>1. /\ HasOnTop(repo.stash, repo'.stash, r) /\ OwnNone(r, repo'.stash)
        /\ \A q \in Requests : OwnNone(q, repo.stash) => OwnNone(q, repo'.stash)
    BY <1>3, <1>4, <1>8, OwnPopped
  <2>2. ASSUME NEW q \in Requests, q # r
        PROVE  Fits(q, job'[q], repo'.stash)
    <3>1. ~ Holds(job[q]) /\ Fits(q, job[q], repo.stash)
      BY <1>2, <2>2, Others DEF StashInv
    <3>2. job'[q] = job[q]
      BY <1>2, <2>2, RanType
    <3> QED BY <2>1, <3>1, <3>2 DEF Fits
  <2> QED BY <1>5, <2>1, <2>2 DEF StashInv, Fits
<1> QED BY <1>6, <1>7, <1>8

\* Every step keeps the owners of the stash right, and a job's step pushes or pops
\* an entry of its own or none.
LEMMA NextStashInv ==
    ASSUME IInv, StashInv, ~ TerminalMidJob, [Next]_vars
    PROVE  /\ StashInv'
           /\ \A r \in Requests : Step(r) => \/ repo'.stash = repo.stash
                                             \/ HasOnTop(repo'.stash, repo.stash, r)
                                             \/ HasOnTop(repo.stash, repo'.stash, r)
<1> DEFINE Only == \A r \in Requests : Step(r) => \/ repo'.stash = repo.stash
                                                  \/ HasOnTop(repo'.stash, repo.stash, r)
                                                  \/ HasOnTop(repo.stash, repo'.stash, r)
<1>1. ASSUME NEW r \in Requests, Reads(r)
      PROVE  StashInv' /\ Only
  <2>1. Ran(r) /\ repo'.stash = repo.stash /\ Shape(job[r])
    BY <1>1, ReadsRan DEF IInv, JobInv
  <2>2. job[r].pc \in {"verify", "status", "count", "rest", "hash", "probe"}
    BY <1>1 DEF Reads, VerifyHeadBranch, ReadStatus, ReadUnpushedCount, Decide, CommitHash,
                ProbeUpstream, Runs
  <2>3. job[r].op # "stashSwitch"
    BY <2>1, <2>2 DEF Shape, WithExpected, Uncommits
  <2> QED BY <2>1, <2>3, StashApart
<1>2. ASSUME NEW r \in Requests, OnHeadStep(r)
      PROVE  StashInv' /\ Only
  <2>1. Ran(r) /\ repo'.stash = repo.stash /\ job[r].op # "stashSwitch"
    BY <1>2, OnHeadFacts DEF OnHead
  <2> QED BY <2>1, StashApart
<1>3. ASSUME NEW r \in Requests, BranchStep(r)
      PROVE  StashInv' /\ Only
  BY <1>3, BranchFacts, StashSwitchFits, StashApart
<1>4. ASSUME NEW r \in Requests, StashOnly(r)
      PROVE  StashInv' /\ Only
  <2>1. /\ StashInv'
        /\ \/ repo'.stash = repo.stash
           \/ HasOnTop(repo'.stash, repo.stash, r)
           \/ HasOnTop(repo.stash, repo'.stash, r)
    BY <1>4, StashStepFits, PopFits DEF StashOnly
  <2>2. \A q \in Requests : Step(q) => q = r
    BY <1>4, StashFacts, StepOfRunning
  <2> QED BY <2>1, <2>2
<1>5. ASSUME NEW r \in Requests, NEW op \in Ops, NEW t \in Targets(op),
             NEW x \in Expectations(op), Submit(r, op, t, x)
      PROVE  StashInv' /\ Only
  <2>1. UNCHANGED repo /\ JobInv
    BY <1>5, SubmitInv DEF IInv
  <2>2. PICK j : Replaces(r, j) /\ Shape(j) /\ j.pc = FirstStep(op)
    BY <1>5, SubmitInv
  <2>3. job'[r] = j /\ \A q \in Requests : q # r => job'[q] = job[q]
    BY <2>1, <2>2, Replaced
  <2>4. ~ Holds(j) /\ ~ Holds(job[r]) /\ job[r].outcome = "none"
    BY <1>5, <2>1, <2>2, FirstStepType DEF Holds, Submit, JobInv, Shape, JobRecord
  <2>5. OwnNone(r, repo.stash)
    BY <2>4 DEF StashInv, Fits
  <2> QED BY <2>1, <2>3, <2>4, <2>5 DEF StashInv, Fits
<1>6. ASSUME UNCHANGED job, repo'.stash = repo.stash
      PROVE  StashInv' /\ Only
  BY <1>6 DEF StashInv
<1>7. ASSUME NEW e \in Edits, UserEdits(e)
      PROVE  StashInv' /\ Only
  BY <1>6, <1>7, UserKeeps DEF UserEdits
<1>8. ASSUME NEW b \in Branches, RemoteAdvances(b)
      PROVE  StashInv' /\ Only
  BY <1>6, <1>8, RemoteKeeps DEF RemoteAdvances
<1>9. CASE TerminalCommand
  <2>1. UNCHANGED job /\ Only
    BY <1>9, TerminalKeeps DEF Step
  <2>2. ASSUME NEW e \in Stashed, e.owner = Nobody, repo'.stash = <<e>> \o repo.stash
        PROVE  StashInv'
    <3>1. repo.stash \in Seq(Stashed)
      BY DEF IInv, RepoInv, Sound, Repos
    <3>2. \A q \in Requests : OwnNone(q, repo.stash) => OwnNone(q, repo'.stash)
      BY <2>2, <3>1, OwnPushed, NobodyAssumption
    <3>3. \A q \in Requests : ~ Holds(job[q])
      BY <1>9, NoneMidJob DEF TerminalCommand, IInv
    <3> QED BY <2>1, <3>2, <3>3 DEF StashInv, Fits
  <2> QED BY <1>6, <1>9, <2>1, <2>2, TerminalKeeps
<1>10. CASE UNCHANGED vars
  BY <1>6, <1>10 DEF vars
<1> QED BY <1>1, <1>2, <1>3, <1>4, <1>5, <1>7, <1>8, <1>9, <1>10, Cases

\* Initially the stash is the user's.
LEMMA InitStashInv ==
    ASSUME Init
    PROVE  StashInv
<1>1. job = [r \in Requests |-> IdleJob]
  BY DEF Init
<1>2. \A r \in Requests : ~ Holds(job[r])
  BY <1>1 DEF Holds, IdleJob
<1>3. \A r \in Requests : OwnNone(r, repo.stash)
  BY InitRepo, NobodyAssumption DEF UsersOwn, OwnNone
<1> QED BY <1>2, <1>3 DEF StashInv, Fits

\* StashInv is an invariant of RepoJobs.
LEMMA StashInvariance ==
    ASSUME ~ TerminalMidJob
    PROVE  Spec => []StashInv
<1>1. Init => StashInv
  BY InitStashInv
<1>2. IInv /\ StashInv /\ [Next]_vars => StashInv'
  BY NextStashInv
<1> QED BY <1>1, <1>2, Invariance, PTL DEF Spec

\* "Bring changes and switch" leaves no entry behind unless its outcome says so
\* (stashSwitchPop).  The assumption: nobody types git in a terminal between two
\* invocations of a job.
THEOREM StashReturnedCorrect ==
    ASSUME ~ TerminalMidJob
    PROVE  Spec => []StashReturned
<1>1. IInv /\ StashInv => StashReturned
  <2>1. SUFFICES ASSUME IInv, StashInv, NEW r \in Requests,
                        job[r].outcome \in {"ok", "rejected"}
                 PROVE  Owned(r) = {}
    BY DEF StashReturned
  <2>2. ~ Holds(job[r])
    BY <2>1, Outcome DEF IInv, JobInv
  <2>3. OwnNone(r, repo.stash)
    BY <2>1, <2>2 DEF StashInv, Fits
  <2> QED BY <2>3 DEF OwnNone, Owned
<1> QED BY <1>1, Invariance, StashInvariance, PTL

\* stashSwitchPop pops what it pushed: never an older entry of the user, nor one
\* that another job left after a conflict.  The assumption: nobody types git in a
\* terminal between two invocations of a job.
THEOREM PopsOnlyItsOwnCorrect ==
    ASSUME ~ TerminalMidJob
    PROVE  Spec => PopsOnlyItsOwn
<1>1. IInv /\ StashInv /\ [Next]_vars =>
        [\A r \in Requests : Step(r) =>
          \/ repo'.stash = repo.stash
          \/ HasOnTop(repo'.stash, repo.stash, r)
          \/ HasOnTop(repo.stash, repo'.stash, r)]_vars
  BY NextStashInv
<1> QED BY <1>1, Invariance, StashInvariance, PTL DEF Spec, PopsOnlyItsOwn
-----------------------------------------------------------------------------
(* What a return takes back, when the count of a branch's commits is right. *)

\* HEAD~n does not change with commits that others add.
LEMMA FirstParentKept ==
    ASSUME NEW g, NEW h, Sound(g), Extends(g, h), h.head = g.head, h.refs = g.refs,
           NEW n \in Nat
    PROVE  FirstParent(h, n) = FirstParent(g, n) /\ FirstParent(g, n) \in 0..Len(g.log)
<1>1. PICK back : Walk(g, back, n) /\ FirstParent(g, n) = back[n]
  BY FirstParentWalk
<1>2. PICK other : Walk(h, other, n) /\ FirstParent(h, n) = other[n]
  BY FirstParentWalk
<1>3. /\ back[0] = Tip(g)
      /\ \A i \in 1..n : back[i] = IF back[i - 1] = 0 THEN 0 ELSE g.log[back[i - 1]].first
      /\ \A i \in 0..n : back[i] \in 0..Len(g.log)
  BY <1>1, WalkType
<1>4. /\ other[0] = Tip(h)
      /\ \A i \in 1..n : other[i] = IF other[i - 1] = 0 THEN 0 ELSE h.log[other[i - 1]].first
  BY <1>2 DEF Walk
<1> DEFINE Apart == {i \in 0..n : other[i] # back[i]}
<1>5. Apart = {}
  <2>1. SUFFICES ASSUME Apart # {}
                 PROVE  FALSE
    OBVIOUS
  <2>2. PICK i \in Apart : \A j \in Apart : i <= j
    <3>1. Apart \subseteq Nat
      OBVIOUS
    <3> HIDE DEF Apart
    <3> QED BY <2>1, <3>1, Least
  <2>3. i \in 1..n
    BY <1>3, <1>4 DEF Tip
  <2>4. i - 1 \in 0..n /\ ~ (i <= i - 1)
    BY <2>3
  <2>5. other[i - 1] = back[i - 1]
    BY <2>2, <2>4
  <2>6. back[i - 1] # 0 => h.log[back[i - 1]] = g.log[back[i - 1]]
    <3>1. Len(g.log) \in Nat
      BY LogType DEF Sound
    <3>2. back[i - 1] # 0 => back[i - 1] \in 1..Len(g.log)
      BY <1>3, <2>4, <3>1
    <3> QED BY <3>2 DEF Extends
  <2> QED BY <1>3, <1>4, <2>2, <2>3, <2>5, <2>6
<1> QED BY <1>1, <1>2, <1>3, <1>5

\* A walk that reaches a commit falls all the way.
LEMMA WalkFalls ==
    ASSUME NEW g, Sound(g), NEW n \in Nat, NEW back, Walk(g, back, n), back[n] # 0
    PROVE  /\ \A i \in 0..n : back[i] \in 1..Len(g.log)
           /\ \A i \in 0..n, j \in 0..n : i < j =>
                 /\ back[j] < back[i]
                 /\ Ancestors(g, back[j]) \subseteq Ancestors(g, back[i])
<1>1. /\ \A i \in 1..n : back[i] = IF back[i - 1] = 0 THEN 0 ELSE g.log[back[i - 1]].first
      /\ \A i \in 0..n : back[i] \in 0..Len(g.log)
  BY WalkType
<1>2. IsLog(g.log) /\ Len(g.log) \in Nat
  BY LogType DEF Sound
<1>3. ASSUME NEW i \in 0..n, back[i] = 0
      PROVE  FALSE
  <2> DEFINE Up == {j \in 0..n : i <= j /\ back[j] # 0}
  <2>1. Up \subseteq Nat /\ n \in Up
    OBVIOUS
  <2>2. PICK j \in Up : \A k \in Up : j <= k
    <3> HIDE DEF Up
    <3> QED BY <2>1, Least
  <2>3. j \in 1..n /\ j - 1 \in 0..n /\ i <= j - 1 /\ ~ (j <= j - 1)
    <3>1. j \in 0..n /\ i <= j /\ j # i
      BY <1>3
    <3> QED BY <3>1
  <2>4. back[j - 1] = 0
    BY <2>2, <2>3
  <2> QED BY <1>1, <2>3, <2>4
<1>4. \A i \in 0..n : back[i] \in 1..Len(g.log)
  BY <1>1, <1>2, <1>3
<1>5. ASSUME NEW j \in 1..n
      PROVE  /\ back[j] < back[j - 1]
             /\ Ancestors(g, back[j]) \subseteq Ancestors(g, back[j - 1])
  <2>1. j - 1 \in 0..n /\ j \in 0..n
    BY <1>5
  <2>4. back[j - 1] \in 1..Len(g.log) /\ back[j - 1] # 0
    BY <1>2, <1>4, <2>1
  <2>2. back[j] = g.log[back[j - 1]].first /\ back[j - 1] \in 1..Len(g.log)
    BY <1>1, <2>4
  <2>3. back[j] \in 0..(back[j - 1] - 1) /\ back[j - 1] \in 0..Len(g.log) /\ back[j - 1] # 0
    BY <1>2, <2>2, LogType
  <2>5. Ancestors(g, back[j]) \subseteq Ancestors(g, back[j - 1])
    BY <1>2, <2>2, <2>3, AncestorsUnfold
  <2> QED BY <1>2, <2>2, <2>3, <2>5
<1>6. ASSUME NEW i \in 0..n, NEW j \in 0..n, i < j
      PROVE  /\ back[j] < back[i]
             /\ Ancestors(g, back[j]) \subseteq Ancestors(g, back[i])
  <2> DEFINE Off == {k \in 0..n : i < k /\ ~ (/\ back[k] < back[i]
                                              /\ Ancestors(g, back[k]) \subseteq Ancestors(g, back[i]))}
  <2>1. Off = {}
    <3>1. SUFFICES ASSUME Off # {}
                   PROVE  FALSE
      OBVIOUS
    <3>2. PICK k \in Off : \A m \in Off : k <= m
      <4>1. Off \subseteq Nat
        OBVIOUS
      <4> HIDE DEF Off
      <4> QED BY <3>1, <4>1, Least
    <3>3. k \in 1..n /\ k - 1 \in 0..n /\ ~ (k <= k - 1) /\ (i = k - 1 \/ i < k - 1)
      <4>1. k \in 0..n /\ i < k
        OBVIOUS
      <4> QED BY <4>1
    <3>4. /\ back[k] < back[k - 1]
          /\ Ancestors(g, back[k]) \subseteq Ancestors(g, back[k - 1])
      BY <1>5, <3>3
    <3>5. CASE i = k - 1
      BY <3>4, <3>5
    <3>6. CASE i < k - 1
      <4>1. /\ back[k - 1] < back[i]
            /\ Ancestors(g, back[k - 1]) \subseteq Ancestors(g, back[i])
        BY <3>2, <3>3, <3>6
      <4>2. back[k] \in Nat /\ back[k - 1] \in Nat /\ back[i] \in Nat
        BY <1>1, <1>2, <3>3
      <4>3. back[k] < back[i]
        BY <3>4, <4>1, <4>2
      <4> QED BY <3>4, <4>1, <4>3
    <3> QED BY <3>3, <3>5, <3>6
  <2> QED BY <1>6, <2>1
<1> QED BY <1>4, <1>6

\* HEAD~n leaves n commits behind if there is no merge among them, and as many
\* commits of HEAD that t does not have can only be the same ones.
LEMMA ReturnsTheRange ==
    ASSUME NEW g, Sound(g), NEW n \in Nat, NEW c, c = FirstParent(g, n), c # 0,
           \A x \in CommitRange(g, c, Tip(g)) : ~ IsMerge(g, x),
           NEW t \in 0..Len(g.log), n = Cardinality(CommitRange(g, t, Tip(g)))
    PROVE  CommitRange(g, c, Tip(g)) = CommitRange(g, t, Tip(g))
<1> DEFINE R == CommitRange(g, c, Tip(g))
           U == CommitRange(g, t, Tip(g))
<1>1. PICK back : Walk(g, back, n) /\ c = back[n]
  BY FirstParentWalk
<1>2. /\ back[0] = Tip(g)
      /\ \A i \in 1..n : back[i] = IF back[i - 1] = 0 THEN 0 ELSE g.log[back[i - 1]].first
      /\ \A i \in 0..n : back[i] # 0 => back[i] \in Ancestors(g, Tip(g))
  BY <1>1, WalkType
<1>3. /\ \A i \in 0..n : back[i] \in 1..Len(g.log)
      /\ \A i \in 0..n, j \in 0..n : i < j =>
            /\ back[j] < back[i]
            /\ Ancestors(g, back[j]) \subseteq Ancestors(g, back[i])
  BY <1>1, WalkFalls
<1>4. /\ IsLog(g.log) /\ Len(g.log) \in Nat /\ Tip(g) \in 0..Len(g.log)
      /\ \A i \in 0..n : back[i] \in 0..Len(g.log) /\ back[i] # 0
  BY <1>3, LogType, TipType DEF Sound
<1>5. \A i \in 0..(n - 1) : i \in 0..n /\ i + 1 \in 1..n /\ (i + 1) - 1 = i /\ i < n /\ n \in 0..n
  OBVIOUS
<1>6. ASSUME NEW i \in 0..(n - 1)
      PROVE  back[i] \in R
  <2>1. Ancestors(g, c) \subseteq 1..c /\ back[n] < back[i] /\ back[i] \in Nat
    BY <1>1, <1>3, <1>4, <1>5, AncestorsBelow
  <2>2. back[i] \notin Ancestors(g, c)
    BY <1>1, <1>4, <1>5, <2>1
  <2> QED BY <1>2, <1>4, <1>5, <2>2 DEF CommitRange
<1>7. ASSUME NEW i \in 0..(n - 1)
      PROVE  Ancestors(g, back[i]) = {back[i]} \union Ancestors(g, back[i + 1])
  <2>1. g.log[back[i]].second = 0 /\ back[i + 1] = g.log[back[i]].first
    BY <1>2, <1>4, <1>5, <1>6 DEF IsMerge
  <2>2. Ancestors(g, 0) = {}
    BY <1>4, AncestorsUnfold
  <2>3. back[i] \in 0..Len(g.log) /\ back[i] # 0
    BY <1>4, <1>5
  <2>4. Ancestors(g, back[i]) = {back[i]} \union Ancestors(g, g.log[back[i]].first)
                                \union Ancestors(g, g.log[back[i]].second)
    BY <1>4, <2>3, AncestorsUnfold
  <2> QED BY <2>1, <2>2, <2>4
<1> DEFINE Open == {i \in 0..n : ~ \A x \in Ancestors(g, Tip(g)) :
                       x \in Ancestors(g, back[i]) \/ \E j \in 0..(i - 1) : x = back[j]}
<1>8. Open = {}
  <2>1. SUFFICES ASSUME Open # {}
                 PROVE  FALSE
    OBVIOUS
  <2>2. PICK i \in Open : \A j \in Open : i <= j
    <3>1. Open \subseteq Nat
      OBVIOUS
    <3> HIDE DEF Open
    <3> QED BY <2>1, <3>1, Least
  <2>3. i \in 1..n
    BY <1>2
  <2>4. i - 1 \in 0..n /\ i - 1 \in 0..(n - 1) /\ ~ (i <= i - 1) /\ (i - 1) + 1 = i
    BY <2>3
  <2>5. \A x \in Ancestors(g, Tip(g)) :
           x \in Ancestors(g, back[i - 1]) \/ \E j \in 0..((i - 1) - 1) : x = back[j]
    BY <2>2, <2>4
  <2>6. i - 1 \in 0..(i - 1) /\ \A j \in 0..((i - 1) - 1) : j \in 0..(i - 1)
    BY <2>3
  <2>7. Ancestors(g, back[i - 1]) = {back[i - 1]} \union Ancestors(g, back[i])
    BY <1>7, <2>4
  <2> QED BY <2>2, <2>5, <2>6, <2>7
<1>9. ASSUME NEW x \in R
      PROVE  \E j \in 0..(n - 1) : x = back[j]
  <2>1. n \in 0..n /\ x \in Ancestors(g, Tip(g)) /\ x \notin Ancestors(g, back[n])
    BY <1>1 DEF CommitRange
  <2> QED BY <1>8, <2>1
<1>10. R \subseteq 1..Len(g.log) /\ U \subseteq 1..Len(g.log)
  BY <1>4, AncestorsExist DEF CommitRange
<1>11. IsFiniteSet(R) /\ IsFiniteSet(U)
  <2>1. IsFiniteSet(1..Len(g.log))
    BY <1>4, FS_Interval, 1 \in Int, Len(g.log) \in Int
  <2> HIDE DEF R, U
  <2> QED BY <1>10, <2>1, FS_Subset
<1>12. Cardinality(R) = n
  <2> DEFINE f == [i \in 1..n |-> back[i - 1]]
  <2>1. \A i \in 1..n : i - 1 \in 0..(n - 1) /\ i - 1 \in 0..n
    OBVIOUS
  <2>2. f \in [1..n -> R]
    BY <1>6, <2>1
  <2>3. ASSUME NEW i \in 1..n, NEW j \in 1..n, f[i] = f[j]
        PROVE  i = j
    <3>1. i - 1 \in 0..n /\ j - 1 \in 0..n /\ back[i - 1] = back[j - 1] /\ back[i - 1] \in Nat
      BY <1>4, <2>1, <2>3
    <3>2. ~ (i - 1 < j - 1) /\ ~ (j - 1 < i - 1)
      BY <1>3, <3>1
    <3> QED BY <3>2
  <2>4. ASSUME NEW x \in R
        PROVE  \E i \in 1..n : f[i] = x
    <3>1. PICK j \in 0..(n - 1) : x = back[j]
      BY <1>9
    <3>2. j + 1 \in 1..n /\ (j + 1) - 1 = j
      BY <1>5
    <3>3. f[j + 1] = x
      BY <3>1, <3>2
    <3> QED BY <3>2, <3>3
  <2>6. /\ \A i, j \in 1..n : f[i] = f[j] => i = j
        /\ \A x \in R : \E i \in 1..n : f[i] = x
    BY <2>3, <2>4
  <2> HIDE DEF f, R
  <2>5. f \in Bijection(1..n, R)
    BY <2>2, <2>6, Zenon DEF Bijection, Injection, Surjection, IsInjective
  <2> QED BY <2>5, FS_CountingElements DEF ExistsBijection
<1>13. CASE \E u \in U : u \in Ancestors(g, c)
  <2>1. PICK u \in U : u \in Ancestors(g, c)
    BY <1>13
  <2>2. R \subseteq U
    <3>1. SUFFICES ASSUME NEW x \in R
                   PROVE  x \notin Ancestors(g, t)
      BY DEF CommitRange
    <3>2. PICK j \in 0..(n - 1) : x = back[j]
      BY <1>9
    <3>3. u \in Ancestors(g, x)
      BY <1>1, <1>3, <1>5, <2>1, <3>2
    <3>4. x \in Ancestors(g, t) => u \in Ancestors(g, t)
      BY <1>4, <3>3, AncestorsTransitive
    <3>5. u \notin Ancestors(g, t)
      BY <2>1 DEF CommitRange
    <3> QED BY <3>4, <3>5
  <2>3. R = U
    <3> HIDE DEF R, U
    <3> QED BY <1>11, <1>12, <2>2, FS_Subset DEF U
  <2> QED BY <2>1, <2>3 DEF CommitRange
<1>14. CASE ~ \E u \in U : u \in Ancestors(g, c)
  <2>1. U \subseteq R
    BY <1>14 DEF CommitRange
  <2> HIDE DEF R, U
  <2>2. U = R
    BY <1>11, <1>12, <2>1, FS_Subset DEF U
  <2> QED BY <2>2 DEF U, R
<1> QED BY <1>13, <1>14

Unpushed(g) == CommitRange(g, g.tracking[g.head], Tip(g))

HasTracking(g) == g.head \in g.upstream /\ g.tracking[g.head] # 0

\* What the refusals leave of the commits to be returned.
Cleared(g, op, ctx) ==
    /\ ctx.unpushedCount >= 1 /\ ~ IsMerge(g, Tip(g))
    /\ op = "returnAll" =>
          /\ ctx.hasUpstream
          /\ \A c \in CommitRange(g, FirstParent(g, ctx.unpushedCount), Tip(g)) : ~ IsMerge(g, c)

\* What the job of a return has read is true of g.
Counted(g, j) ==
    /\ Counting(j) => j.target = IF g.head \in g.upstream THEN g.head ELSE Nobody
    /\ j.pc \in {"rest", "reset"} =>
          /\ j.ctx.hasUpstream <=> HasTracking(g)
          /\ HasTracking(g) => j.ctx.unpushedCount = Cardinality(Unpushed(g))
    /\ j.pc = "reset" => Cleared(g, j.op, j.ctx)

CountInv == \A r \in Requests : Counted(repo, job[r])

\* h has the branches of g as they are.
SameView(g, h) ==
    /\ Extends(g, h) /\ IsLog(h.log) /\ h.head = g.head /\ h.refs = g.refs
    /\ h.tracking = g.tracking /\ h.upstream = g.upstream

\* What a return has read stays true while HEAD's branch and its upstream stay.
LEMMA CountedKept ==
    ASSUME NEW g, Sound(g), NEW h, SameView(g, h), NEW j, Shape(j), Counted(g, j)
    PROVE  Counted(h, j)
<1>1. /\ Tip(h) = Tip(g) /\ Tip(g) \in 0..Len(g.log) /\ Tip(g) # 0 /\ g.head \in Branches
      /\ h.head = g.head /\ h.tracking = g.tracking /\ h.upstream = g.upstream
  BY TipType DEF SameView, Tip
<1>2. IsLog(g.log) /\ IsLog(h.log) /\ Extends(g, h) /\ Len(g.log) \in Nat
  BY LogType DEF SameView, Sound
<1>3. ASSUME NEW a \in 0..Len(g.log)
      PROVE  CommitRange(h, a, Tip(h)) = CommitRange(g, a, Tip(g))
  BY <1>1, <1>2, AncestorsKept DEF CommitRange
<1>4. HasTracking(h) <=> HasTracking(g)
  BY <1>1 DEF HasTracking
<1>5. Unpushed(h) = Unpushed(g)
  <2>1. g.tracking[g.head] \in 0..Len(g.log)
    BY <1>1 DEF Sound, Named
  <2> QED BY <1>1, <1>3, <2>1 DEF Unpushed
<1>6. ASSUME NEW x \in 1..Len(g.log)
      PROVE  IsMerge(h, x) <=> IsMerge(g, x)
  BY <1>2 DEF Extends, IsMerge
<1>7. Cleared(g, j.op, j.ctx) => Cleared(h, j.op, j.ctx)
  <2>1. PICK n : n = j.ctx.unpushedCount
    OBVIOUS
  <2>2. n \in Nat
    BY <2>1, BoundAssumption DEF Shape, JobRecord, Context
  <2>3. FirstParent(h, n) = FirstParent(g, n) /\ FirstParent(g, n) \in 0..Len(g.log)
    BY <1>2, <2>2, FirstParentKept DEF SameView
  <2>4. CommitRange(h, FirstParent(h, n), Tip(h)) = CommitRange(g, FirstParent(g, n), Tip(g))
    BY <1>3, <2>3
  <2>5. CommitRange(g, FirstParent(g, n), Tip(g)) \subseteq 1..Len(g.log)
    BY <1>1, AncestorsExist DEF CommitRange
  <2>6. Tip(g) \in 1..Len(g.log)
    BY <1>1, <1>2
  <2> QED BY <1>1, <1>6, <2>1, <2>4, <2>5, <2>6 DEF Cleared
<1> QED BY <1>1, <1>4, <1>5, <1>7 DEF Counted

\* Only the running job has read anything.
LEMMA CountStep ==
    ASSUME IInv, NEW r \in Requests, Ran(r), Counted(repo', job'[r])
    PROVE  CountInv'
<1>1. JobInv /\ Active(r)
  BY DEF IInv, Ran
<1>2. ASSUME NEW q \in Requests, q # r
      PROVE  ~ Counting(job'[q])
  BY <1>1, <1>2, RanType, Others
<1> QED BY <1>2 DEF CountInv, Counted, Counting

\* A job that reads nothing has nothing to be wrong about.
LEMMA NotCounting ==
    ASSUME NEW g, NEW j, ~ Counting(j)
    PROVE  Counted(g, j)
BY DEF Counted, Counting

\* The steps of other operations, and the last one of a return.
LEMMA CountApart ==
    ASSUME IInv, NEW r \in Requests, Ran(r),
           job[r].op \notin Uncommits \/ job'[r].pc = "settled"
    PROVE  CountInv'
<1>1. ~ Counting(job'[r])
  <2>1. \/ job'[r].pc = "settled"
        \/ Shape(job'[r]) /\ job'[r].op = job[r].op
    BY RanType DEF IInv
  <2> QED BY <2>1 DEF Shape, Counting
<1> QED BY <1>1, CountStep, NotCounting

\* A job that proceeds is at the step it proceeds to.
LEMMA ProceedPc ==
    ASSUME JobInv, NEW r \in Requests, NEW step, Proceed(r, step)
    PROVE  job'[r].pc = step
BY DEF JobInv, Shape, JobRecord, Proceed

\* getStatus names the upstream that the count is about to use.
LEMMA StatusCounted ==
    ASSUME IInv, NEW r \in Requests, ReadStatus(r)
    PROVE  Counted(repo', job'[r])
<1>1. JobInv /\ job[r] \in JobRecord /\ UNCHANGED repo
  BY DEF IInv, JobInv, Shape, ReadStatus
<1>2. CASE Settle(r, "refused")
  BY <1>1, <1>2, Settled, NotCounting DEF Outcomes, Counting
<1>3. CASE Proceed(r, "write")
  BY <1>1, <1>3, ProceedPc, NotCounting DEF Counting
<1>4. ASSUME NEW clean, NEW up,
             up = IF repo.head \in repo.upstream THEN repo.head ELSE Nobody,
             job' = [job EXCEPT ![r].pc = "count", ![r].ctx.workingTreeClean = clean,
                                ![r].target = up]
      PROVE  Counted(repo', job'[r])
  <2>1. job'[r].pc = "count" /\ job'[r].target = up
    BY <1>1, <1>4 DEF JobInv, JobRecord
  <2> QED BY <1>1, <1>4, <2>1 DEF Counted
<1>5. CASE job' = [job EXCEPT ![r].pc = "count",
                              ![r].ctx.workingTreeClean = ~ IsDirty(repo),
                              ![r].target = IF repo.head \in repo.upstream
                                            THEN repo.head ELSE Nobody]
  BY <1>4, <1>5
<1> QED BY <1>2, <1>3, <1>5 DEF ReadStatus

\* getUnpushedCount counts what the upstream lacks, when it does not fail.
LEMMA CountCounted ==
    ASSUME IInv, CountInv, ~ CountMayFail, NEW r \in Requests, ReadUnpushedCount(r)
    PROVE  Counted(repo', job'[r])
<1>1. /\ JobInv /\ job[r] \in JobRecord /\ UNCHANGED repo /\ job[r].pc = "count"
      /\ job[r].ctx \in Context(MaxCommits)
  BY DEF IInv, JobInv, Shape, ReadUnpushedCount, Runs, JobRecord
<1>2. PICK up : up = job[r].target
  OBVIOUS
<1>3. up = IF repo.head \in repo.upstream THEN repo.head ELSE Nobody
  BY <1>1, <1>2 DEF CountInv, Counted, Counting
<1>4. repo.head \in Branches
  BY TipType DEF IInv, RepoInv
<1>5. PICK fails : /\ fails = IF up = Nobody THEN TRUE ELSE repo.tracking[up] = 0
                   /\ job' = [job EXCEPT ![r].pc = "rest",
                        ![r].ctx.hasUpstream = ~ fails,
                        ![r].ctx.unpushedCount = Cardinality(
                            IF fails THEN Ancestors(repo, Tip(repo))
                            ELSE CommitRange(repo, repo.tracking[up], Tip(repo)))]
  BY <1>2 DEF ReadUnpushedCount
<1>6. PICK n : n = Cardinality(IF fails THEN Ancestors(repo, Tip(repo))
                               ELSE CommitRange(repo, repo.tracking[up], Tip(repo)))
  OBVIOUS
<1>7. PICK has \in BOOLEAN : has = ~ fails
  OBVIOUS
<1>8. has <=> HasTracking(repo)
  BY <1>3, <1>4, <1>5, <1>7, NobodyAssumption DEF HasTracking
<1>9. HasTracking(repo) => n = Cardinality(Unpushed(repo))
  <2>1. HasTracking(repo) => ~ fails /\ up = repo.head
    BY <1>3, <1>7, <1>8 DEF HasTracking
  <2> QED BY <1>6, <2>1 DEF Unpushed
<1>10. job' = [job EXCEPT ![r].pc = "rest", ![r].ctx.hasUpstream = has,
                          ![r].ctx.unpushedCount = n]
  BY <1>5, <1>6, <1>7, Zenon
<1>11. PICK c : c = [job[r].ctx EXCEPT !.hasUpstream = has, !.unpushedCount = n]
  OBVIOUS
<1>12. c.hasUpstream = has /\ c.unpushedCount = n
  BY <1>1, <1>11 DEF Context
<1>13. job'[r].pc = "rest" /\ job'[r].target = up /\ job'[r].ctx = c
  <2>1. PICK j : j = [job[r] EXCEPT !.pc = "rest", !.ctx = c]
    OBVIOUS
  <2>2. job' = [job EXCEPT ![r] = j]
    BY <1>1, <1>10, <1>11, <2>1 DEF JobInv, JobRecord
  <2>3. job'[r] = j
    BY <1>1, <2>2 DEF JobInv
  <2> QED BY <1>1, <1>2, <2>1, <2>3 DEF JobRecord
<1> QED BY <1>1, <1>3, <1>8, <1>9, <1>12, <1>13 DEF Counted

\* The decision lets only a cleared range through.
LEMMA DecideCounted ==
    ASSUME IInv, CountInv, NEW r \in Requests, Decide(r)
    PROVE  Counted(repo', job'[r])
<1>1. /\ JobInv /\ job[r] \in JobRecord /\ UNCHANGED repo /\ job[r].pc = "rest"
      /\ job[r].ctx \in Context(MaxCommits) /\ job[r].op \in Uncommits
  BY DEF IInv, JobInv, Shape, Decide, Runs, JobRecord
<1>2. CASE Settle(r, "refused") \/ Settle(r, "rejected")
  BY <1>1, <1>2, Settled, NotCounting DEF Outcomes, Counting
<1>3. CASE /\ MayReturn(job[r].op, FullContext(r))
           /\ job' = [job EXCEPT ![r].pc = "reset", ![r].ctx = FullContext(r)]
  <2>1. PICK old, n : old = job[r].ctx /\ n = old.unpushedCount
    OBVIOUS
  <2>2. PICK c : c = FullContext(r)
    OBVIOUS
  <2>3. PICK headMerge \in BOOLEAN, root \in BOOLEAN, open \in BOOLEAN, merge \in BOOLEAN :
           /\ headMerge = IsMerge(repo, Tip(repo))
           /\ merge = (/\ old.hasUpstream /\ n >= 1
                       /\ \E x \in CommitRange(repo, FirstParent(repo, n), Tip(repo)) :
                             IsMerge(repo, x))
           /\ c = [old EXCEPT !.headIsMerge = headMerge, !.headIsRoot = root,
                              !.inProgressOp = open, !.rangeHasMerge = merge]
    <3>1. IsMerge(repo, Tip(repo)) \in BOOLEAN
      BY DEF IsMerge
    <3> QED BY <2>1, <2>2, <3>1 DEF FullContext
  <2>4. /\ c.hasUpstream = old.hasUpstream /\ c.unpushedCount = n
        /\ c.headIsMerge = headMerge /\ c.rangeHasMerge = merge
    BY <1>1, <2>1, <2>3 DEF Context
  <2>5. /\ job'[r].pc = "reset" /\ job'[r].op = job[r].op /\ job'[r].target = job[r].target
        /\ job'[r].ctx = c
    BY <1>1, <1>3, <2>2 DEF JobInv, JobRecord
  <2>6. /\ LastRefusal(c) = "none"
        /\ job[r].op = "returnAll" => AllRefusal(c) = "none"
    BY <1>3, <2>2 DEF MayReturn, CanReturnLast, CanReturnAllUnpushed, AllRefusal
  <2>7. ~ (n < 1) /\ ~ headMerge
    BY <2>4, <2>6 DEF LastRefusal
  <2>8. n \in Nat
    BY <1>1, <2>1, BoundAssumption DEF Context
  <2>9. job[r].op = "returnAll" => c.hasUpstream /\ ~ merge
    BY <2>4, <2>6 DEF AllRefusal
  <2>10. Cleared(repo, job[r].op, c)
    BY <2>3, <2>4, <2>7, <2>8, <2>9 DEF Cleared
  <2>11. /\ old.hasUpstream <=> HasTracking(repo)
         /\ HasTracking(repo) => n = Cardinality(Unpushed(repo))
         /\ job[r].target = IF repo.head \in repo.upstream THEN repo.head ELSE Nobody
    BY <1>1, <2>1 DEF CountInv, Counted, Counting
  <2> QED BY <1>1, <2>4, <2>5, <2>10, <2>11 DEF Counted
<1> QED BY <1>2, <1>3 DEF Decide

\* Actors outside the queue leave HEAD's branch and its upstream as read.
LEMMA CountStays ==
    ASSUME IInv, CountInv, UNCHANGED job, SameView(repo, repo')
    PROVE  CountInv'
BY CountedKept DEF CountInv, IInv, JobInv, RepoInv

\* Every step keeps what the running return has read true.
LEMMA NextCountInv ==
    ASSUME IInv, CountInv, ~ TerminalMidJob, ~ CountMayFail, [Next]_vars
    PROVE  CountInv'
<1>1. ASSUME NEW r \in Requests, Reads(r)
      PROVE  CountInv'
  <2>1. Ran(r)
    BY <1>1, ReadsRan
  <2>2. CASE ReadStatus(r) \/ ReadUnpushedCount(r) \/ Decide(r)
    BY <2>1, <2>2, StatusCounted, CountCounted, DecideCounted, CountStep
  <2>3. CASE VerifyHeadBranch(r)
    <3>1. JobInv
      BY DEF IInv
    <3>2. job'[r].pc \in {"settled", "write", "status"}
      BY <2>3, <3>1, Settled, ProceedPc DEF VerifyHeadBranch, Outcomes
    <3> QED BY <2>1, <3>2, CountStep, NotCounting DEF Counting
  <2>4. CASE CommitHash(r) \/ ProbeUpstream(r)
    <3>1. Shape(job[r]) /\ job[r].pc \in {"hash", "probe"}
      BY <2>4 DEF IInv, JobInv, CommitHash, ProbeUpstream, Runs
    <3> QED BY <2>1, <3>1, CountApart DEF Shape, Uncommits
  <2> QED BY <1>1, <2>2, <2>3, <2>4 DEF Reads
<1>2. ASSUME NEW r \in Requests, OnHeadStep(r)
      PROVE  CountInv'
  <2>1. Ran(r) /\ Shape(job[r]) /\ JobInv
    BY <1>2, OnHeadFacts DEF IInv, JobInv
  <2>2. CASE Reset(r)
    <3>1. \E o \in Outcomes \ {"none"} : Settle(r, o)
      BY <2>2, ResultType DEF Reset
    <3> QED BY <2>1, <3>1, Settled, CountApart
  <2>3. CASE ~ Reset(r)
    <3>1. job[r].pc = "commit" \/ job[r].op \in {"fetch", "pull", "push", "merge"}
      BY <1>2, <2>3 DEF OnHeadStep, CommitWrite, RunFetch, RunPull, RunPush, RunMerge,
                        Writes, Runs
    <3> QED BY <2>1, <3>1, CountApart DEF Shape, Uncommits
  <2> QED BY <2>2, <2>3
<1>3. ASSUME NEW r \in Requests, BranchStep(r) \/ StashOnly(r)
      PROVE  CountInv'
  BY <1>3, BranchFacts, StashFacts, CountApart DEF WithExpected, Uncommits
<1>5. ASSUME NEW r \in Requests, NEW op \in Ops, NEW t \in Targets(op),
             NEW x \in Expectations(op), Submit(r, op, t, x)
      PROVE  CountInv'
  <2>1. UNCHANGED repo /\ JobInv
    BY <1>5, SubmitInv DEF IInv
  <2>2. PICK j : Replaces(r, j) /\ Shape(j) /\ j.pc = FirstStep(op)
    BY <1>5, SubmitInv
  <2>3. job'[r] = j /\ \A q \in Requests : q # r => job'[q] = job[q]
    BY <2>1, <2>2, Replaced
  <2>4. ~ Counting(j)
    BY <2>2, FirstStepType DEF Counting
  <2> QED BY <2>1, <2>3, <2>4, NotCounting DEF CountInv
<1>6. IsLog(repo.log) /\ Sound(repo) /\ Extends(repo, repo)
  <2>1. Sound(repo)
    BY DEF IInv, RepoInv
  <2> QED BY <2>1, SameLog
<1>7. ASSUME NEW e \in Edits, UserEdits(e)
      PROVE  CountInv'
  <2>1. FilesOnly(repo, repo') /\ UNCHANGED job
    BY <1>7, UserKeeps DEF UserEdits
  <2>2. Extends(repo, repo') /\ IsLog(repo'.log)
    BY <1>6, <2>1, SameLog DEF FilesOnly
  <2> QED BY <2>1, <2>2, CountStays DEF SameView, FilesOnly
<1>8. ASSUME NEW b \in Branches, RemoteAdvances(b)
      PROVE  CountInv'
  <2>1. SameView(repo, repo')
    BY <1>8, RemoteKeeps DEF SameView, Keeps, Sound
  <2> QED BY <1>8, <2>1, CountStays DEF RemoteAdvances
<1>9. CASE TerminalCommand
  <2>1. \A q \in Requests : ~ Counting(job'[q])
    BY <1>9, NoneMidJob DEF TerminalCommand, IInv
  <2> QED BY <2>1, NotCounting DEF CountInv
<1>10. CASE UNCHANGED vars
  BY <1>10 DEF vars, CountInv
<1> QED BY <1>1, <1>2, <1>3, <1>5, <1>7, <1>8, <1>9, <1>10, Cases

\* CountInv is an invariant of RepoJobs.
LEMMA CountInvariance ==
    ASSUME ~ TerminalMidJob, ~ CountMayFail
    PROVE  Spec => []CountInv
<1>1. Init => CountInv
  <2>1. Init => job = [r \in Requests |-> IdleJob]
    BY DEF Init
  <2>2. ~ Counting(IdleJob)
    BY DEF IdleJob, Counting
  <2> QED BY <2>1, <2>2, NotCounting DEF CountInv
<1>2. IInv /\ CountInv /\ [Next]_vars => CountInv'
  BY NextCountInv
<1> QED BY <1>1, <1>2, Invariance, PTL DEF Spec

\* A reset that moves a branch moves HEAD's, ReturnCount steps back.
LEMMA ResetStep ==
    ASSUME IInv, [Next]_vars, NEW r \in Requests, Resets(r)
    PROVE  /\ FirstParent(repo, ReturnCount(r)) # 0
           /\ repo'.refs[repo.head] = FirstParent(repo, ReturnCount(r))
<1>1. Reset(r)
  <2>1. ASSUME NEW q \in Requests, Reads(q)
        PROVE  FALSE
    BY <2>1, ReadsRan DEF Resets
  <2>2. ASSUME NEW q \in Requests, OnHeadStep(q)
        PROVE  Reset(r)
    <3>1. q = r
      BY <2>2, OnHeadFacts, StepOfRunning DEF Resets
    <3> QED BY <2>2, <3>1 DEF OnHeadStep, CommitWrite, RunFetch, RunPull, RunPush, RunMerge,
                              Writes, Runs, Resets
  <2>3. ASSUME NEW q \in Requests, BranchStep(q)
        PROVE  FALSE
    <3>1. q = r
      BY <2>3, BranchFacts, StepOfRunning DEF Resets
    <3> QED BY <2>3, <3>1 DEF BranchStep, RunSwitch, RunCreate, RunDelete, RunForceDelete,
                              StashSwitch, Writes, Runs, Resets
  <2>4. ASSUME NEW q \in Requests, StashOnly(q)
        PROVE  FALSE
    BY <2>4, StashFacts DEF FilesOnly, Resets
  <2>5. ASSUME NEW q \in Requests, NEW op \in Ops, NEW t \in Targets(op),
               NEW x \in Expectations(op), Submit(q, op, t, x)
        PROVE  FALSE
    BY <2>5 DEF Submit, Resets
  <2>6. ASSUME \/ \E e \in Edits : UserEdits(e)
               \/ \E b \in Branches : RemoteAdvances(b)
               \/ TerminalCommand
               \/ UNCHANGED vars
        PROVE  FALSE
    BY <2>6 DEF UserEdits, RemoteAdvances, TerminalCommand, vars, Resets, Step
  <2> QED BY <2>1, <2>2, <2>3, <2>4, <2>5, <2>6, Cases
<1>2. PICK c : c = FirstParent(repo, ReturnCount(r))
  OBVIOUS
<1>3. PICK out \in ResetMixed(repo, ReturnCount(r)) : repo' = out.repo
  BY <1>1 DEF Reset, Apply
<1>4. PICK work : out = Failed(repo) \/
                  (c # 0 /\ out = Done([repo EXCEPT !.refs[repo.head] = c, !.merging = 0,
                                                     !.work = work]))
  <2>1. PICK work : work = repo.work \union EditsIn(repo, CommitRange(repo, c, Tip(repo)))
    OBVIOUS
  <2>2. Done([repo EXCEPT !.refs[repo.head] = c, !.merging = 0,
                          !.work = @ \union EditsIn(repo, CommitRange(repo, c, Tip(repo)))])
          = Done([repo EXCEPT !.refs[repo.head] = c, !.merging = 0, !.work = work])
    BY <2>1
  <2> QED BY <1>2, <1>3, <2>2 DEF ResetMixed
<1>5. out # Failed(repo)
  BY <1>3 DEF Failed, Resets
<1>6. repo \in Repos /\ repo.head \in Branches
  BY TipType DEF IInv, RepoInv, Sound
<1>7. repo' = [repo EXCEPT !.refs[repo.head] = c, !.merging = 0, !.work = work]
  BY <1>3, <1>4, <1>5 DEF Done
<1>8. repo'.refs[repo.head] = c
  BY <1>6, <1>7 DEF Repos
<1> QED BY <1>2, <1>4, <1>5, <1>8

\* What the reset of a return takes off the branch.
LEMMA ResetReturns ==
    ASSUME IInv, CountInv, [Next]_vars, NEW r \in Requests, Resets(r)
    PROVE  /\ job[r].op = "returnAll" => Returned = Unpushed(repo)
           /\ repo.head \in repo.upstream =>
                 Returned \intersect Ancestors(repo, repo.tracking[repo.head]) = {}
<1>1. /\ Sound(repo) /\ IsLog(repo.log) /\ job[r].pc = "reset" /\ job[r].op \in Uncommits
      /\ repo.head \in Branches /\ repo.tracking[repo.head] \in 0..Len(repo.log)
  BY TipType DEF IInv, RepoInv, JobInv, Shape, Resets, Runs, Sound, Named
<1>2. PICK c : c = FirstParent(repo, ReturnCount(r))
  OBVIOUS
<1>3. c # 0 /\ Returned = CommitRange(repo, c, Tip(repo))
  BY <1>2, ResetStep DEF Returned
<1>4. PICK n : n = job[r].ctx.unpushedCount
  OBVIOUS
<1>5. n \in Nat
  BY <1>4, BoundAssumption DEF IInv, JobInv, Shape, JobRecord, Context
<1>6. /\ job[r].ctx.hasUpstream <=> HasTracking(repo)
      /\ HasTracking(repo) => n = Cardinality(Unpushed(repo))
      /\ n >= 1 /\ ~ IsMerge(repo, Tip(repo))
      /\ job[r].op = "returnAll" =>
            /\ job[r].ctx.hasUpstream
            /\ \A x \in CommitRange(repo, FirstParent(repo, n), Tip(repo)) : ~ IsMerge(repo, x)
  BY <1>1, <1>4 DEF CountInv, Counted, Cleared
<1>7. ASSUME job[r].op = "returnAll"
      PROVE  Returned = Unpushed(repo)
  <2>1. c = FirstParent(repo, n) /\ n = Cardinality(Unpushed(repo))
    BY <1>2, <1>4, <1>6, <1>7 DEF ReturnCount
  <2>2. \A x \in CommitRange(repo, c, Tip(repo)) : ~ IsMerge(repo, x)
    BY <1>6, <1>7, <2>1
  <2> QED BY <1>1, <1>3, <1>5, <2>1, <2>2, ReturnsTheRange DEF Unpushed
<1>8. ASSUME job[r].op # "returnAll", repo.head \in repo.upstream
      PROVE  Returned \intersect Ancestors(repo, repo.tracking[repo.head]) = {}
  <2>1. Tip(repo) \in 0..Len(repo.log) /\ Tip(repo) # 0
    BY <1>1, TipType
  <2>2. Ancestors(repo, 0) = {}
    BY <1>1, <2>1, AncestorsUnfold, LogType
  <2>3. c = repo.log[Tip(repo)].first
    <3>1. PICK back : Walk(repo, back, 1) /\ c = back[1]
      BY <1>1, <1>2, <1>8, FirstParentWalk DEF ReturnCount, Uncommits
    <3>2. 1 \in 1..1 /\ back[0] = Tip(repo)
      BY <1>1, <3>1, WalkType
    <3>3. back[1] = IF back[1 - 1] = 0 THEN 0 ELSE repo.log[back[1 - 1]].first
      BY <1>1, <3>1, <3>2, WalkType
    <3> QED BY <2>1, <3>1, <3>2, <3>3
  <2>4. Ancestors(repo, Tip(repo)) = {Tip(repo)} \union Ancestors(repo, c)
    BY <1>1, <1>6, <2>1, <2>2, <2>3, AncestorsUnfold DEF IsMerge
  <2>5. Returned \subseteq {Tip(repo)}
    BY <1>3, <2>4 DEF CommitRange
  <2>6. CASE repo.tracking[repo.head] = 0
    BY <2>2, <2>6
  <2>7. CASE repo.tracking[repo.head] # 0
    <3>1. Cardinality(Unpushed(repo)) # 0
      BY <1>5, <1>6, <1>8, <2>7 DEF HasTracking
    <3>2. Unpushed(repo) # {}
      BY <3>1, FS_EmptySet
    <3>3. Tip(repo) \notin Ancestors(repo, repo.tracking[repo.head])
      BY <1>1, <3>2, AncestorsTransitive DEF Unpushed, CommitRange
    <3> QED BY <2>5, <3>3
  <2> QED BY <2>6, <2>7
<1>9. Unpushed(repo) \intersect Ancestors(repo, repo.tracking[repo.head]) = {}
  BY DEF Unpushed, CommitRange
<1> QED BY <1>7, <1>8, <1>9

\* No return takes back a commit that origin has (uncommit.ts, "nothing-unpushed").
\* The assumptions: nobody types git in a terminal between two invocations of a
\* job, and the rev-list of getUnpushedCount fails only without a tracking branch.
THEOREM NeverReturnsPushedCorrect ==
    ASSUME ~ TerminalMidJob, ~ CountMayFail
    PROVE  Spec => NeverReturnsPushed
<1>1. IInv /\ CountInv /\ [Next]_vars =>
        [\A r \in Requests : Resets(r) /\ repo.head \in repo.upstream =>
            Returned \intersect Ancestors(repo, repo.tracking[repo.head]) = {}]_vars
  BY ResetReturns
<1> QED BY <1>1, Invariance, CountInvariance, PTL DEF Spec, NeverReturnsPushed

\* "Return all unpushed" resets HEAD~n for the n that getUnpushedCount counted,
\* which takes back all of them and nothing else: with no merge among the n
\* commits behind HEAD, the first-parent walk cannot leave the counted range.  The
\* assumptions are those of NeverReturnsPushedCorrect.
THEOREM ReturnAllIsCompleteCorrect ==
    ASSUME ~ TerminalMidJob, ~ CountMayFail
    PROVE  Spec => ReturnAllIsComplete
<1>1. IInv /\ CountInv /\ [Next]_vars =>
        [\A r \in Requests : Resets(r) /\ job[r].op = "returnAll" =>
            Returned = CommitRange(repo, repo.tracking[repo.head], Tip(repo))]_vars
  BY ResetReturns DEF Unpushed
<1> QED BY <1>1, Invariance, CountInvariance, PTL DEF Spec, ReturnAllIsComplete
=============================================================================
