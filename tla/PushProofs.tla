------------------------------ MODULE PushProofs ------------------------------
(***************************************************************************)
(* Theorems about the two specifications of MCPush.  CommitPush: what a    *)
(* push that a sheet confirmed sends, and that what Commit & Push says has *)
(* happened has happened.  AiChat: what the chat shows is true, and the    *)
(* edits of a proposal land whole.                                         *)
(***************************************************************************)
EXTENDS MCPush, FiniteSetTheorems, SequenceTheorems, TLAPS

-----------------------------------------------------------------------------
(* CommitPush.                                                             *)

Branch == PushBranches

\* The types, by parts.
ShownType == pActive \in Repos /\ current \in Branch /\ mounted \in BOOLEAN
GitType ==
    /\ head \in [Repos -> Branch] /\ ahead \in [P!Targets -> P!Authors]
    /\ index \in [Repos -> SUBSET P!Columns]
    /\ made \subseteq P!Ids \X Repos \X Branch /\ sent \subseteq P!Ids \X Remotes
StoreType == commit \in P!CommitState /\ remote \in P!RemoteState
SheetType == sheet \in [P!Sides -> P!Sheet] /\ reads \in [P!Slots -> P!Maybe(P!Read)]
FlowType == flow \in P!Flow
QueueType == jobs \in [Repos -> Seq(P!Job)] /\ settling \subseteq P!Job
BoundType == begun \in 0..MaxCommits /\ acts \in 0..PushActs /\ pMoves \in 0..PushMoves

PushType == ShownType /\ GitType /\ StoreType /\ SheetType /\ FlowType /\ QueueType /\ BoundType

-----------------------------------------------------------------------------
(* The queues.                                                             *)

\* What a job has: a commit its number, all others a remote; the flow only commits
\* and pushes.
JobOf(j, last) ==
    /\ j.op = "commit" => /\ j.id \in 1..last
                          /\ j.by \in {"user", "flow"}
                          /\ j.by = "flow" => j.remote # None
    /\ j.op # "commit" => j.id = None /\ j.remote # None
    /\ j.op \in {"fetch", "pull"} => j.by # "flow"

\* A commit is pending at one place, and was not made before.
WorkOf(q, st, mk, last) ==
    /\ \A r \in Repos : \A k \in DOMAIN q[r] : q[r][k].repo = r /\ JobOf(q[r][k], last)
    /\ \A j \in st : j.op = "commit" /\ JobOf(j, last)
    /\ \A r, s \in Repos : \A k \in DOMAIN q[r], l \in DOMAIN q[s] :
          q[r][k].id # None /\ q[r][k].id = q[s][l].id => r = s /\ k = l
    /\ \A j \in st : \A r \in Repos : \A k \in DOMAIN q[r] : q[r][k].id # j.id
    /\ \A i, j \in st : i.id = j.id => i = j
    /\ \A c \in mk : c[1] \in 1..last
    /\ \A r \in Repos : \A k \in DOMAIN q[r] : \A c \in mk : q[r][k].id # c[1]

\* The flow's jobs: its commit while it is committing, one push while it pushes.
OfFlow(j) == j.by = "flow"
FlowJob(j, fl) ==
    OfFlow(j) => /\ j.remote = fl.remote
                 /\ j.op = "commit" => fl.stage = "committing" /\ j.id = fl.id
                 /\ j.op = "push" => fl.stage = "pushing"
FlowPush(j) == j.op = "push" /\ OfFlow(j)

Over == {"pushing", "done", "commit-failed", "push-failed"}

\* What the flow is waiting for, and that a commit that is over is not pending.
FlowWorkOf(q, st, last, fl) ==
    /\ \A r \in Repos : \A k \in DOMAIN q[r] : FlowJob(q[r][k], fl)
    /\ \A j \in st : FlowJob(j, fl)
    /\ \A r, s \in Repos : \A k \in DOMAIN q[r], l \in DOMAIN q[s] :
          FlowPush(q[r][k]) /\ FlowPush(q[s][l]) => r = s /\ k = l
    /\ fl.stage \in Over \union {"committing"} => fl.id \in 1..last
    /\ fl.stage \in Over =>
          /\ \A r \in Repos : \A k \in DOMAIN q[r] : q[r][k].id # fl.id
          /\ \A j \in st : j.id # fl.id

WorkInv == WorkOf(jobs, settling, made, begun)
FlowWorkInv == FlowWorkOf(jobs, settling, begun, flow)

-----------------------------------------------------------------------------
(* The sheets and the flow.                                                *)

\* They name the remotes they were opened for.
OpenInv ==
    /\ sheet["push"].open => sheet["push"].remote # None
    /\ sheet["cp"].choice => flow.stage = "idle"
    /\ flow.stage # "idle" => flow.remote # None

\* A list of authors that is still of use is up to date about other authors.
ReadInv ==
    \A x \in P!Sides :
       sheet[x].read # None =>
          /\ sheet[x].out # None
          /\ "foreign" \in ahead[sheet[x].read] => "foreign" \in sheet[x].out

\* The screen's stores are on the repository shown.
OnShown == commit.repo = pActive /\ remote.repo = pActive
SameInv == mounted => OnShown

\* The commit of a flow that nothing disturbs: it is the only one, of the branch
\* that is checked out; what the store says of it is true.
CommitsOf(q, st, fl) ==
    /\ OnShown
    /\ \A r \in Repos : \A k \in DOMAIN q[r] :
          q[r][k].op = "commit" =>
             /\ OfFlow(q[r][k]) /\ r = pActive /\ q[r][k].branch = head[pActive]
             /\ commit.hash = None
    /\ \A j \in st :
          /\ OfFlow(j) /\ j.branch = head[pActive] /\ commit.hash = fl.id
          /\ <<fl.id, pActive, j.branch>> \in made

\* Its push, of the branch that has the commit.
PushesOf(q, fl) ==
    \A r \in Repos : \A k \in DOMAIN q[r] :
       FlowPush(q[r][k]) => <<fl.id, r, q[r][k].branch>> \in made

FlowInv ==
    ~flow.disturbed =>
       /\ flow.stage = "committing" => CommitsOf(jobs, settling, flow)
       /\ flow.stage = "pushing" => PushesOf(jobs, flow)

PushInv ==
    /\ PushType /\ WorkInv /\ FlowWorkInv /\ OpenInv /\ ReadInv /\ SameInv /\ FlowInv
    /\ P!OnlyOwnConfirmed /\ P!FlowTellsTruth

-----------------------------------------------------------------------------
(* A queue that loses its first job, and one that gets a job.              *)

\* A queue that loses its first job: every other one moves up.
LEMMA TailPlaces ==
    ASSUME NEW S, NEW s \in Seq(S), s # <<>>, NEW t, t = Tail(s)
    PROVE  /\ t \in Seq(S) /\ 1 \in DOMAIN s
           /\ \A k \in DOMAIN t : k + 1 \in DOMAIN s /\ t[k] = s[k + 1] /\ k + 1 # 1 /\ k \in Nat
OBVIOUS

\* A queue that gets a job: it is the last one.
LEMMA AppendPlaces ==
    ASSUME NEW S, NEW s \in Seq(S), NEW e \in S, NEW t, t = Append(s, e)
    PROVE  /\ t \in Seq(S) /\ Len(s) + 1 \in DOMAIN t /\ t[Len(s) + 1] = e
           /\ \A k \in DOMAIN t : \/ k \in DOMAIN s /\ t[k] = s[k] /\ k # Len(s) + 1
                                  \/ k = Len(s) + 1 /\ t[k] = e
OBVIOUS

\* A job leaves a queue.
LEMMA DropWork ==
    ASSUME NEW q \in [Repos -> Seq(P!Job)], NEW st, NEW mk, NEW last, WorkOf(q, st, mk, last),
           NEW r \in Repos, q[r] # <<>>, NEW p, p = [q EXCEPT ![r] = Tail(@)]
    PROVE  WorkOf(p, st, mk, last) /\ p \in [Repos -> Seq(P!Job)]
<1>1. /\ p[r] \in Seq(P!Job)
      /\ \A k \in DOMAIN p[r] : k + 1 \in DOMAIN q[r] /\ p[r][k] = q[r][k + 1] /\ k \in Nat
  BY TailPlaces
<1>2. \A s \in Repos \ {r} : p[s] = q[s]
  OBVIOUS
<1>3. \A s \in Repos : \A k \in DOMAIN p[s] : \E l \in DOMAIN q[s] : p[s][k] = q[s][l]
  BY <1>1, <1>2
<1>4. p \in [Repos -> Seq(P!Job)]
  BY <1>1, <1>2
<1>5. \A s \in Repos : \A k \in DOMAIN p[s] : p[s][k].repo = s /\ JobOf(p[s][k], last)
  BY <1>3 DEF WorkOf
<1>6. ASSUME NEW s \in Repos, NEW t \in Repos, NEW k \in DOMAIN p[s], NEW l \in DOMAIN p[t],
             p[s][k].id # None, p[s][k].id = p[t][l].id
      PROVE  s = t /\ k = l
  <2>1. PICK k2 \in DOMAIN q[s] : /\ p[s][k] = q[s][k2]
                                  /\ s = r => k2 = k + 1 /\ k \in Nat
                                  /\ s # r => k2 = k
    BY <1>1, <1>2
  <2>2. PICK l2 \in DOMAIN q[t] : /\ p[t][l] = q[t][l2]
                                  /\ t = r => l2 = l + 1 /\ l \in Nat
                                  /\ t # r => l2 = l
    BY <1>1, <1>2
  <2>3. s = t /\ k2 = l2
    BY <1>6, <2>1, <2>2 DEF WorkOf
  <2> QED BY <2>1, <2>2, <2>3
<1> QED BY <1>3, <1>4, <1>5, <1>6 DEF WorkOf

\* A job comes to a queue: one that is no commit, or the next commit.
LEMMA AddWork ==
    ASSUME NEW q \in [Repos -> Seq(P!Job)], NEW st, NEW mk, NEW last \in Nat, NEW next \in Nat,
           WorkOf(q, st, mk, last), last <= next, next <= MaxCommits,
           NEW r \in Repos, NEW e \in P!Job, e.repo = r, JobOf(e, next),
           e.op = "commit" => e.id = last + 1,
           NEW p, p = [q EXCEPT ![r] = Append(@, e)]
    PROVE  WorkOf(p, st, mk, next) /\ p \in [Repos -> Seq(P!Job)]
<1>1. /\ p[r] \in Seq(P!Job)
      /\ \A k \in DOMAIN p[r] : \/ k \in DOMAIN q[r] /\ p[r][k] = q[r][k]
                                \/ k = Len(q[r]) + 1 /\ p[r][k] = e
  BY AppendPlaces
<1>2. \A s \in Repos \ {r} : p[s] = q[s]
  OBVIOUS
<1>3. p \in [Repos -> Seq(P!Job)]
  BY <1>1, <1>2
<1>4. \A s \in Repos : \A k \in DOMAIN p[s] : \/ k \in DOMAIN q[s] /\ p[s][k] = q[s][k]
                                              \/ s = r /\ k = Len(q[r]) + 1 /\ p[s][k] = e
  BY <1>1, <1>2
<1>5. \A j : JobOf(j, last) => JobOf(j, next)
  BY DEF JobOf
<1>6. \A s \in Repos : \A k \in DOMAIN q[s] : q[s][k].id # None => q[s][k].id \in 1..last
  BY DEF WorkOf, JobOf
<1>7. e.id # None => e.id = last + 1
  BY DEF JobOf
<1>8. \A s \in Repos : \A k \in DOMAIN q[s] : q[s][k].id # None => q[s][k].id # e.id
  BY <1>6, <1>7
<1>9. ASSUME NEW s \in Repos, NEW t \in Repos, NEW k \in DOMAIN p[s], NEW l \in DOMAIN p[t],
             p[s][k].id # None, p[s][k].id = p[t][l].id
      PROVE  s = t /\ k = l
  <2>1. CASE k \in DOMAIN q[s] /\ p[s][k] = q[s][k]
    BY <1>4, <1>8, <1>9, <2>1 DEF WorkOf
  <2>2. CASE s = r /\ k = Len(q[r]) + 1 /\ p[s][k] = e
    BY <1>4, <1>8, <1>9, <2>2
  <2> QED BY <1>4, <2>1, <2>2
<1>10. \A s \in Repos : \A k \in DOMAIN p[s] : p[s][k].repo = s /\ JobOf(p[s][k], next)
  BY <1>4, <1>5 DEF WorkOf
<1>11. /\ \A j \in st : j.op = "commit" /\ JobOf(j, next)
       /\ \A c \in mk : c[1] \in 1..next
  BY <1>5 DEF WorkOf
<1>12. /\ \A j \in st : j.id \in 1..last
       /\ \A c \in mk : c[1] \in 1..last
  BY DEF WorkOf, JobOf
<1>13. \A i \in 1..last : e.id # i
  BY <1>7, PushAssumption DEF P!Ids
<1>14. /\ \A j \in st : \A s \in Repos : \A k \in DOMAIN p[s] : p[s][k].id # j.id
       /\ \A s \in Repos : \A k \in DOMAIN p[s] : \A c \in mk : p[s][k].id # c[1]
  BY <1>4, <1>12, <1>13 DEF WorkOf
<1>15. \A i, j \in st : i.id = j.id => i = j
  BY DEF WorkOf
<1> QED BY <1>3, <1>9, <1>10, <1>11, <1>14, <1>15 DEF WorkOf

\* The same for the flow.
LEMMA DropFlowWork ==
    ASSUME NEW q \in [Repos -> Seq(P!Job)], NEW st, NEW last, NEW fl, FlowWorkOf(q, st, last, fl),
           NEW r \in Repos, q[r] # <<>>, NEW p, p = [q EXCEPT ![r] = Tail(@)]
    PROVE  FlowWorkOf(p, st, last, fl)
<1>1. /\ p[r] \in Seq(P!Job)
      /\ \A k \in DOMAIN p[r] : k + 1 \in DOMAIN q[r] /\ p[r][k] = q[r][k + 1] /\ k \in Nat
  BY TailPlaces
<1>2. \A s \in Repos \ {r} : p[s] = q[s]
  OBVIOUS
<1>3. \A s \in Repos : \A k \in DOMAIN p[s] : \E l \in DOMAIN q[s] : p[s][k] = q[s][l]
  BY <1>1, <1>2
<1>4. ASSUME NEW s \in Repos, NEW t \in Repos, NEW k \in DOMAIN p[s], NEW l \in DOMAIN p[t],
             FlowPush(p[s][k]), FlowPush(p[t][l])
      PROVE  s = t /\ k = l
  <2>1. PICK k2 \in DOMAIN q[s] : /\ p[s][k] = q[s][k2]
                                  /\ s = r => k2 = k + 1 /\ k \in Nat
                                  /\ s # r => k2 = k
    BY <1>1, <1>2
  <2>2. PICK l2 \in DOMAIN q[t] : /\ p[t][l] = q[t][l2]
                                  /\ t = r => l2 = l + 1 /\ l \in Nat
                                  /\ t # r => l2 = l
    BY <1>1, <1>2
  <2>3. s = t /\ k2 = l2
    BY <1>4, <2>1, <2>2 DEF FlowWorkOf
  <2> QED BY <2>1, <2>2, <2>3
<1> QED BY <1>3, <1>4 DEF FlowWorkOf

\* A job that is not the flow's, and that no flow waits for.
LEMMA AddOther ==
    ASSUME NEW q \in [Repos -> Seq(P!Job)], NEW st, NEW last \in Nat, NEW next \in Nat, NEW fl,
           FlowWorkOf(q, st, last, fl), last <= next, next <= MaxCommits,
           NEW r \in Repos, NEW e \in P!Job, ~OfFlow(e), e.id = None \/ e.id = last + 1,
           NEW p, p = [q EXCEPT ![r] = Append(@, e)]
    PROVE  FlowWorkOf(p, st, next, fl)
<1>1. /\ p[r] \in Seq(P!Job)
      /\ \A k \in DOMAIN p[r] : \/ k \in DOMAIN q[r] /\ p[r][k] = q[r][k]
                                \/ k = Len(q[r]) + 1 /\ p[r][k] = e
  BY AppendPlaces
<1>2. \A s \in Repos : \A k \in DOMAIN p[s] : \/ k \in DOMAIN q[s] /\ p[s][k] = q[s][k]
                                              \/ p[s][k] = e
  BY <1>1
<1>3. ~FlowPush(e) /\ FlowJob(e, fl)
  BY DEF FlowPush, FlowJob
<1>4. \A s, t \in Repos : \A k \in DOMAIN p[s], l \in DOMAIN p[t] :
         FlowPush(p[s][k]) /\ FlowPush(p[t][l]) => s = t /\ k = l
  BY <1>2, <1>3 DEF FlowWorkOf
<1>5. \A s \in Repos : \A k \in DOMAIN p[s] : FlowJob(p[s][k], fl)
  BY <1>2, <1>3 DEF FlowWorkOf
<1>6. fl.stage \in Over \union {"committing"} => fl.id \in 1..next /\ fl.id # e.id
  BY PushAssumption DEF FlowWorkOf, P!Ids
<1>7. fl.stage \in Over => \A s \in Repos : \A k \in DOMAIN p[s] : p[s][k].id # fl.id
  BY <1>2, <1>6 DEF FlowWorkOf
<1>8. fl.stage \in Over => \A j \in st : j.id # fl.id
  BY DEF FlowWorkOf
<1>9. \A j \in st : FlowJob(j, fl)
  BY DEF FlowWorkOf
<1> QED BY <1>4, <1>5, <1>6, <1>7, <1>8, <1>9 DEF FlowWorkOf

\* What is left of the queues when a job has left its own: no job of its number.
LeftBy(e, q, p, r, last) ==
    /\ e \in P!Job /\ e.repo = r /\ JobOf(e, last) /\ 1 \in DOMAIN q[r]
    /\ e.op = "commit" => \A s \in Repos : \A k \in DOMAIN p[s] : p[s][k].id # e.id
    /\ \A s \in Repos : \A k \in DOMAIN p[s] :
          \E l \in DOMAIN q[s] : p[s][k] = q[s][l] /\ (s = r => l # 1)

\* A job that has left its queue is in none.
LEMMA DropJob ==
    ASSUME NEW q \in [Repos -> Seq(P!Job)], NEW st, NEW mk, NEW last \in Nat, last <= MaxCommits,
           WorkOf(q, st, mk, last), NEW r \in Repos, q[r] # <<>>, NEW e, e = q[r][1],
           NEW p, p = [q EXCEPT ![r] = Tail(@)]
    PROVE  LeftBy(e, q, p, r, last)
<1>1. /\ p[r] \in Seq(P!Job) /\ 1 \in DOMAIN q[r]
      /\ \A k \in DOMAIN p[r] : k + 1 \in DOMAIN q[r] /\ p[r][k] = q[r][k + 1] /\ k + 1 # 1
  BY TailPlaces
<1>2. \A s \in Repos \ {r} : p[s] = q[s]
  OBVIOUS
<1>3. e \in P!Job
  BY <1>1
<1>4. e.repo = r /\ JobOf(e, last)
  BY <1>1 DEF WorkOf
<1>5. \A s \in Repos : \A k \in DOMAIN p[s] :
          \E l \in DOMAIN q[s] : p[s][k] = q[s][l] /\ (s = r => l # 1)
  BY <1>1, <1>2
<1>6. e.op = "commit" => e.id # None
  BY <1>4, PushAssumption DEF JobOf, P!Ids
<1>7. \A s \in Repos : \A k \in DOMAIN q[s] : e.op = "commit" /\ q[s][k].id = e.id => s = r /\ k = 1
  BY <1>1, <1>6 DEF WorkOf
<1> QED BY <1>1, <1>3, <1>4, <1>5, <1>7 DEF LeftBy

\* A commit that has been made waits for its status.
LEMMA SettleWork ==
    ASSUME NEW q \in [Repos -> Seq(P!Job)], NEW st, NEW mk, NEW last \in Nat, last <= MaxCommits,
           WorkOf(q, st, mk, last), NEW r \in Repos, q[r] # <<>>, NEW e, e = q[r][1],
           e.op = "commit", NEW b, NEW p, p = [q EXCEPT ![r] = Tail(@)]
    PROVE  WorkOf(p, st \union {e}, mk \union {<<e.id, r, b>>}, last)
<1>1. WorkOf(p, st, mk, last)
  BY DropWork
<1>2. /\ JobOf(e, last) /\ 1 \in DOMAIN q[r]
      /\ \A s \in Repos : \A k \in DOMAIN p[s] : p[s][k].id # e.id
  <2>1. LeftBy(e, q, p, r, last)
    BY DropJob
  <2> QED BY <2>1 DEF LeftBy
<1>3. e.id \in 1..last
  BY <1>2 DEF JobOf
<1>4. \A j \in st : j.id # e.id
  BY <1>2 DEF WorkOf
<1>5. PICK c : c = <<e.id, r, b>>
  OBVIOUS
<1>6. c[1] = e.id
  BY <1>5
<1>7. WorkOf(p, st \union {e}, mk \union {c}, last)
  BY <1>1, <1>2, <1>3, <1>4, <1>6 DEF WorkOf
<1> QED BY <1>5, <1>7

\* A status that has been read.
LEMMA SettledWork ==
    ASSUME NEW q, NEW st, NEW mk, NEW last, WorkOf(q, st, mk, last), NEW e \in st
    PROVE  /\ WorkOf(q, st \ {e}, mk, last) /\ e.op = "commit" /\ JobOf(e, last)
           /\ \A s \in Repos : \A k \in DOMAIN q[s] : q[s][k].id # e.id
           /\ \A j \in st \ {e} : j.id # e.id
BY DEF WorkOf

\* The flow waits for nothing when it is neither committing nor pushing.
LEMMA NoFlowJob ==
    ASSUME NEW q \in [Repos -> Seq(P!Job)], NEW st \in SUBSET P!Job, NEW mk, NEW last, NEW fl,
           WorkOf(q, st, mk, last), FlowWorkOf(q, st, last, fl),
           fl.stage \notin {"committing", "pushing"}
    PROVE  /\ \A s \in Repos : \A k \in DOMAIN q[s] : ~OfFlow(q[s][k])
           /\ \A j \in st : ~OfFlow(j)
<1>1. ASSUME NEW j \in P!Job, JobOf(j, last), FlowJob(j, fl)  PROVE ~OfFlow(j)
  BY <1>1 DEF P!Job, JobOf, FlowJob, OfFlow
<1>2. \A s \in Repos : \A k \in DOMAIN q[s] :
         q[s][k] \in P!Job /\ JobOf(q[s][k], last) /\ FlowJob(q[s][k], fl)
  BY DEF WorkOf, FlowWorkOf
<1>3. \A j \in st : JobOf(j, last) /\ FlowJob(j, fl)
  BY DEF WorkOf, FlowWorkOf
<1> QED BY <1>1, <1>2, <1>3

\* Then it may begin again,
LEMMA FlowAnew ==
    ASSUME NEW q \in [Repos -> Seq(P!Job)], NEW st \in SUBSET P!Job, NEW mk, NEW last, NEW fl,
           WorkOf(q, st, mk, last), FlowWorkOf(q, st, last, fl),
           fl.stage \notin {"committing", "pushing"},
           NEW to, to.stage \in {"idle", "confirming"}
    PROVE  FlowWorkOf(q, st, last, to)
<1>1. /\ \A s \in Repos : \A k \in DOMAIN q[s] : ~OfFlow(q[s][k])
      /\ \A j \in st : ~OfFlow(j)
  BY NoFlowJob
<1> QED BY <1>1 DEF FlowWorkOf, FlowJob, FlowPush, Over

\* and commit.
LEMMA FlowCommits ==
    ASSUME NEW q \in [Repos -> Seq(P!Job)], NEW st \in SUBSET P!Job, NEW mk, NEW last \in Nat,
           NEW fl, WorkOf(q, st, mk, last), FlowWorkOf(q, st, last, fl), fl.stage = "confirming",
           NEW to, to.stage = "committing", to.id = last + 1,
           NEW r \in Repos, NEW e \in P!Job, e.op = "commit", e.id = to.id, e.remote = to.remote,
           NEW p, p = [q EXCEPT ![r] = Append(@, e)]
    PROVE  FlowWorkOf(p, st, last + 1, to)
<1>1. /\ \A s \in Repos : \A k \in DOMAIN q[s] : ~OfFlow(q[s][k])
      /\ \A j \in st : ~OfFlow(j)
  BY NoFlowJob
<1>2. /\ p[r] \in Seq(P!Job)
      /\ \A k \in DOMAIN p[r] : \/ k \in DOMAIN q[r] /\ p[r][k] = q[r][k]
                                \/ k = Len(q[r]) + 1 /\ p[r][k] = e
  BY AppendPlaces
<1>3. \A s \in Repos : \A k \in DOMAIN p[s] : ~OfFlow(p[s][k]) \/ p[s][k] = e
  BY <1>1, <1>2
<1>4. FlowJob(e, to) /\ ~FlowPush(e)
  BY DEF FlowJob, FlowPush
<1>5. \A s \in Repos : \A k \in DOMAIN p[s] : FlowJob(p[s][k], to) /\ ~FlowPush(p[s][k])
  BY <1>3, <1>4 DEF FlowJob, FlowPush
<1>6. \A j \in st : FlowJob(j, to)
  BY <1>1 DEF FlowJob
<1>7. to.id \in 1..(last + 1) /\ to.stage \notin Over
  BY DEF Over
<1> QED BY <1>5, <1>6, <1>7 DEF FlowWorkOf

\* Its commit is over, without one,
LEMMA FlowFails ==
    ASSUME NEW q, NEW st, NEW last, NEW fl, FlowWorkOf(q, st, last, fl), fl.stage = "committing",
           \A s \in Repos : \A k \in DOMAIN q[s] : q[s][k].id # fl.id,
           \A j \in st : j.op = "commit" /\ j.id # fl.id,
           NEW mk, WorkOf(q, st, mk, last),
           NEW to, to.stage = "commit-failed", to.id = fl.id, to.remote = fl.remote
    PROVE  FlowWorkOf(q, st, last, to)
<1>1. fl.id \in 1..last
  BY DEF FlowWorkOf
<1>2. ASSUME NEW j, FlowJob(j, fl), JobOf(j, last), j.id # fl.id
      PROVE  FlowJob(j, to) /\ ~FlowPush(j)
  BY <1>2 DEF FlowJob, JobOf, FlowPush
<1>3. \A s \in Repos : \A k \in DOMAIN q[s] : FlowJob(q[s][k], to) /\ ~FlowPush(q[s][k])
  BY <1>2 DEF FlowWorkOf, WorkOf
<1>4. \A j \in st : FlowJob(j, to)
  BY <1>2 DEF FlowWorkOf, WorkOf
<1> QED BY <1>1, <1>3, <1>4 DEF FlowWorkOf

\* or with one, and a push follows.
LEMMA FlowPushes ==
    ASSUME NEW q \in [Repos -> Seq(P!Job)], NEW st, NEW last \in Nat, last <= MaxCommits,
           NEW fl, FlowWorkOf(q, st, last, fl), fl.stage = "committing",
           \A s \in Repos : \A k \in DOMAIN q[s] : q[s][k].id # fl.id,
           \A j \in st : j.op = "commit" /\ j.id # fl.id,
           NEW mk, WorkOf(q, st, mk, last),
           NEW to, to.stage = "pushing", to.id = fl.id, to.remote = fl.remote,
           NEW r \in Repos, NEW e \in P!Job, e.op = "push", e.id = None, e.remote = fl.remote,
           NEW p, p = [q EXCEPT ![r] = Append(@, e)]
    PROVE  FlowWorkOf(p, st, last, to)
<1>1. fl.id \in 1..last /\ fl.id # None
  BY PushAssumption DEF FlowWorkOf, P!Ids
<1>2. ASSUME NEW j, FlowJob(j, fl), JobOf(j, last), j.id # fl.id
      PROVE  FlowJob(j, to) /\ ~FlowPush(j)
  BY <1>2 DEF FlowJob, JobOf, FlowPush
<1>3. \A s \in Repos : \A k \in DOMAIN q[s] : FlowJob(q[s][k], to) /\ ~FlowPush(q[s][k])
  BY <1>2 DEF FlowWorkOf, WorkOf
<1>4. \A j \in st : FlowJob(j, to)
  BY <1>2 DEF FlowWorkOf, WorkOf
<1>5. FlowJob(e, to)
  BY DEF FlowJob
<1>6. /\ p[r] \in Seq(P!Job)
      /\ \A k \in DOMAIN p[r] : \/ k \in DOMAIN q[r] /\ p[r][k] = q[r][k]
                                \/ k = Len(q[r]) + 1 /\ p[r][k] = e
  BY AppendPlaces
<1>7. \A s \in Repos : \A k \in DOMAIN p[s] : \/ k \in DOMAIN q[s] /\ p[s][k] = q[s][k]
                                              \/ s = r /\ k = Len(q[r]) + 1 /\ p[s][k] = e
  BY <1>6
<1>8. \A s \in Repos : \A k \in DOMAIN p[s] :
         /\ FlowJob(p[s][k], to) /\ p[s][k].id # fl.id
         /\ FlowPush(p[s][k]) => s = r /\ k = Len(q[r]) + 1
  BY <1>1, <1>3, <1>5, <1>7
<1> QED BY <1>1, <1>4, <1>8 DEF FlowWorkOf

\* A flow that is over, after its push.
Ended(fl, to) ==
    to.stage \in {"done", "push-failed"} /\ to.id = fl.id /\ to.remote = fl.remote

\* Its push was the only one.
LEMMA FlowEndsPush ==
    ASSUME NEW q \in [Repos -> Seq(P!Job)], NEW st, NEW mk, NEW last, NEW fl,
           WorkOf(q, st, mk, last), FlowWorkOf(q, st, last, fl),
           NEW r \in Repos, q[r] # <<>>, NEW e, e = q[r][1], FlowPush(e),
           NEW p, p = [q EXCEPT ![r] = Tail(@)],
           NEW to, Ended(fl, to)
    PROVE  FlowWorkOf(p, st, last, to)
<1>1. FlowWorkOf(p, st, last, fl)
  BY DropFlowWork
<1>2. /\ p[r] \in Seq(P!Job) /\ 1 \in DOMAIN q[r]
      /\ \A k \in DOMAIN p[r] : k + 1 \in DOMAIN q[r] /\ p[r][k] = q[r][k + 1] /\ k + 1 # 1
  BY TailPlaces
<1>3. \A s \in Repos \ {r} : p[s] = q[s]
  OBVIOUS
<1>4. \A s \in Repos : \A k \in DOMAIN p[s] :
          \E l \in DOMAIN q[s] : p[s][k] = q[s][l] /\ (s = r => l # 1)
  BY <1>2, <1>3
<1>5. \A s \in Repos : \A l \in DOMAIN q[s] : FlowPush(q[s][l]) => s = r /\ l = 1
  BY <1>2 DEF FlowWorkOf
<1>6. \A s \in Repos : \A k \in DOMAIN p[s] : ~FlowPush(p[s][k])
  BY <1>4, <1>5
<1>7. fl.stage = "pushing"
  BY <1>2 DEF FlowWorkOf, FlowJob, FlowPush
<1>8. ASSUME NEW j, FlowJob(j, fl), ~FlowPush(j)  PROVE FlowJob(j, to)
  BY <1>7, <1>8 DEF FlowJob, FlowPush, Ended
<1>9. \A j \in st : FlowJob(j, fl) /\ ~FlowPush(j)
  BY DEF FlowWorkOf, WorkOf, FlowPush
<1>10. /\ \A s \in Repos : \A k \in DOMAIN p[s] : FlowJob(p[s][k], to)
       /\ \A j \in st : FlowJob(j, to)
  BY <1>1, <1>6, <1>8, <1>9 DEF FlowWorkOf
<1> QED BY <1>1, <1>6, <1>7, <1>10 DEF FlowWorkOf, Over, Ended

-----------------------------------------------------------------------------
(* What the stores become.                                                 *)

\* A load of a repository: the last commit stays in the store if it is the same one.
LEMMA CommitLoadType ==
    ASSUME commit \in P!CommitState, NEW r \in Repos
    PROVE  /\ P!BeginCommitLoad(r) \in P!CommitState /\ P!BeginCommitLoad(r).repo = r
           /\ commit.repo = r => P!BeginCommitLoad(r).hash = commit.hash
<1>1. 0 \in 0..MaxCommits
  BY PushAssumption
<1> QED BY <1>1 DEF P!CommitState, P!BeginCommitLoad, P!Maybe

\* The same of remoteStore, which keeps the outcome of an operation.
LEMMA RemoteLoadType ==
    ASSUME NEW s \in P!RemoteState, NEW r \in Repos
    PROVE  P!BeginRemoteLoad(s, r) \in P!RemoteState /\ P!BeginRemoteLoad(s, r).repo = r
<1>1. PICK fails : fails = IF s.repo = r THEN s.failure ELSE None
  OBVIOUS
<1>2. PICK done \in BOOLEAN : done = (s.repo = r /\ s.success)
  BY DEF P!RemoteState
<1>3. fails \in P!Maybe(P!Failure)
  BY <1>1 DEF P!RemoteState, P!Maybe
<1>4. P!BeginRemoteLoad(s, r) = [s EXCEPT !.repo = r, !.known = "nothing", !.loading = TRUE,
          !.error = FALSE, !.success = done, !.failure = fails, !.newest = "load"]
  BY <1>1, <1>2 DEF P!BeginRemoteLoad, P!RemoteState
<1> QED BY <1>3, <1>4 DEF P!RemoteState

\* The flow is as it was, or more disturbed.
Kept(fl, to) ==
    /\ to \in P!Flow /\ to.stage = fl.stage /\ to.remote = fl.remote
    /\ to.id = fl.id /\ to.hash = fl.hash
    /\ ~to.disturbed => ~fl.disturbed \/ fl.stage = "idle"

\* A flow that is disturbed goes on.
LEMMA DisturbKeeps ==
    ASSUME flow \in P!Flow, P!Disturb
    PROVE  Kept(flow, flow') /\ flow'.disturbed = (flow.stage # "idle")
BY DEF P!Flow, P!Disturb, Kept

\* So does one that nothing touches.
LEMMA SameFlow ==
    ASSUME flow \in P!Flow, UNCHANGED flow
    PROVE  Kept(flow, flow')
BY DEF Kept

\* The jobs that a flow waits for are those of its stage.
LEMMA FlowWorkKept ==
    ASSUME NEW q, NEW st, NEW last, NEW fl, NEW to, FlowWorkOf(q, st, last, fl), Kept(fl, to)
    PROVE  FlowWorkOf(q, st, last, to)
<1>1. \A j : FlowJob(j, fl) => FlowJob(j, to)
  BY DEF FlowJob, Kept
<1> QED BY <1>1 DEF FlowWorkOf, Kept

\* What the flow says stays true as long as it says the same.
LEMMA TruthKept ==
    ASSUME P!FlowTellsTruth, Kept(flow, flow'), UNCHANGED made, sent \subseteq sent'
    PROVE  P!FlowTellsTruth'
<1>1. CASE flow.stage = "idle"
  BY <1>1 DEF P!FlowTellsTruth, Kept
<1>2. CASE flow.stage # "idle"
  BY <1>2 DEF P!FlowTellsTruth, Kept
<1> QED BY <1>1, <1>2

\* A step in which no job begins or ends: what the screen does on its own.
LEMMA QuietStep ==
    ASSUME PushInv, PushType', OpenInv', ReadInv', SameInv', Kept(flow, flow'),
           UNCHANGED <<jobs, settling, made, sent, event, begun>>,
           ~flow'.disturbed /\ flow.stage = "committing" /\ OnShown
              => /\ OnShown' /\ pActive' = pActive /\ head' = head
                 /\ commit'.hash = commit.hash
    PROVE  PushInv'
<1>1. WorkInv' /\ P!OnlyOwnConfirmed' /\ P!FlowTellsTruth'
  BY TruthKept DEF PushInv, WorkInv, P!OnlyOwnConfirmed
<1>2. FlowWorkInv'
  BY FlowWorkKept DEF PushInv, FlowWorkInv
<1>3. ~flow'.disturbed /\ flow'.stage = "committing" => CommitsOf(jobs, settling, flow)'
  BY DEF PushInv, FlowInv, Kept, CommitsOf
<1>4. ~flow'.disturbed /\ flow'.stage = "pushing" => PushesOf(jobs, flow)'
  BY DEF PushInv, FlowInv, Kept, PushesOf
<1> QED BY <1>1, <1>2, <1>3, <1>4 DEF PushInv, FlowInv

-----------------------------------------------------------------------------
(* Loads, and changes of what is shown.                                    *)

\* The status has been read, or not.
LEMMA CommitLoadedStep ==
    ASSUME PushInv, NEW ok \in BOOLEAN, P!CommitLoaded(ok)
    PROVE  PushInv'
<1> USE DEF PushInv
<1>0. /\ commit \in P!CommitState /\ index[commit.repo] \in SUBSET P!Columns
      /\ flow \in P!Flow /\ pMoves \in 0..PushMoves
  BY DEF PushType, StoreType, FlowType, BoundType, GitType, P!CommitState
<1>1. /\ UNCHANGED <<pActive, current, mounted, head, ahead, index, made, sent, remote, sheet,
                     reads, jobs, settling, event, begun, acts>>
      /\ commit' = [commit EXCEPT !.loading = FALSE, !.error = ~ok,
                      !.view = IF ok THEN index[commit.repo] ELSE @]
      /\ IF ok THEN UNCHANGED <<pMoves, flow>> ELSE P!Fails /\ P!Disturb
  BY DEF P!CommitLoaded, P!git
<1>2. commit' \in P!CommitState /\ commit'.repo = commit.repo /\ commit'.hash = commit.hash
  BY <1>0, <1>1 DEF P!CommitState, P!Maybe
<1>3. Kept(flow, flow')
  BY <1>0, <1>1, DisturbKeeps, SameFlow
<1>4. pMoves' \in 0..PushMoves
  BY <1>0, <1>1, PushAssumption DEF P!Fails
<1>5. PushType'
  BY <1>1, <1>2, <1>3, <1>4 DEF PushType, ShownType, GitType, StoreType, SheetType, FlowType,
                               QueueType, BoundType, Kept
<1>6. OpenInv' /\ ReadInv' /\ SameInv'
  BY <1>1, <1>2, <1>3 DEF OpenInv, ReadInv, SameInv, OnShown, Kept
<1>7. OnShown => OnShown'
  BY <1>1, <1>2 DEF OnShown
<1> QED BY <1>1, <1>2, <1>3, <1>5, <1>6, <1>7, QuietStep

\* The remotes have been read; a branch that is new to the screen reloads both stores.
LEMMA RemoteLoadedStep ==
    ASSUME PushInv, NEW known \in {"nothing", "remotes", "all"}, P!RemoteLoaded(known)
    PROVE  PushInv'
<1> USE DEF PushInv
<1>0. /\ commit \in P!CommitState /\ remote \in P!RemoteState /\ remote.repo \in Repos
      /\ flow \in P!Flow /\ pMoves \in 0..PushMoves /\ pActive \in Repos
      /\ current \in Branch /\ \A r \in Repos : head[r] \in Branch
  BY DEF PushType, StoreType, FlowType, BoundType, GitType, ShownType, P!RemoteState
<1>1. PICK answered : answered = [remote EXCEPT !.loading = FALSE, !.known = known,
                                                !.error = known # "all"]
  OBVIOUS
<1>2. answered \in P!RemoteState /\ answered.repo = remote.repo
  BY <1>0, <1>1 DEF P!RemoteState
<1>3. PICK news : news = (remote.repo = pActive /\ head[remote.repo] # current)
  OBVIOUS
<1>4. /\ UNCHANGED <<pActive, mounted, head, ahead, index, made, sent, sheet, reads, jobs,
                     settling, event, begun, acts>>
      /\ IF news THEN current' = head[remote.repo] ELSE UNCHANGED current
      /\ remote' = IF news /\ mounted THEN P!BeginRemoteLoad(answered, remote.repo) ELSE answered
      /\ commit' = IF news /\ mounted THEN P!BeginCommitLoad(remote.repo) ELSE commit
      /\ IF known = "all" THEN UNCHANGED <<pMoves, flow>> ELSE P!Fails /\ P!Disturb
  BY <1>1, <1>3 DEF P!RemoteLoaded, P!git
<1>5. remote' \in P!RemoteState /\ remote'.repo = remote.repo
  BY <1>0, <1>2, <1>4, RemoteLoadType
<1>6. /\ commit' \in P!CommitState
      /\ commit' # commit => commit'.repo = remote.repo
      /\ commit.repo = remote.repo => commit'.repo = commit.repo /\ commit'.hash = commit.hash
  BY <1>0, <1>4, CommitLoadType
<1>7. Kept(flow, flow')
  BY <1>0, <1>4, DisturbKeeps, SameFlow
<1>8. pMoves' \in 0..PushMoves /\ current' \in Branch
  BY <1>0, <1>4, PushAssumption DEF P!Fails
<1>9. PushType'
  BY <1>4, <1>5, <1>6, <1>7, <1>8 DEF PushType, ShownType, GitType, StoreType, SheetType, FlowType,
                               QueueType, BoundType, Kept
<1>10. OnShown => OnShown' /\ commit'.hash = commit.hash
  BY <1>4, <1>5, <1>6 DEF OnShown
<1>11. OpenInv' /\ ReadInv' /\ SameInv'
  BY <1>4, <1>7, <1>10 DEF OpenInv, ReadInv, SameInv, Kept
<1> QED BY <1>4, <1>7, <1>9, <1>10, <1>11, QuietStep

\* Both stores are loaded for the repository shown, or, with the screen away, neither.
LEMMA Reload ==
    ASSUME commit \in P!CommitState, remote \in P!RemoteState, NEW r \in Repos,
           IF mounted THEN P!LoadBoth(r) ELSE UNCHANGED <<commit, remote>>
    PROVE  /\ commit' \in P!CommitState /\ remote' \in P!RemoteState
           /\ mounted => commit'.repo = r /\ remote'.repo = r
           /\ commit.repo = r /\ remote.repo = r
                 => /\ commit'.repo = r /\ remote'.repo = r
                    /\ commit'.hash = commit.hash
BY CommitLoadType, RemoteLoadType DEF P!LoadBoth

\* Another repository, branch or screen: both stores are loaded for what is shown.
LEMMA ShownSteps ==
    ASSUME PushInv, (\E r \in Repos : P!SwitchRepo(r)) \/ P!SeeBranch \/ P!Return
    PROVE  PushInv'
<1> USE DEF PushInv
<1>0. /\ commit \in P!CommitState /\ remote \in P!RemoteState
      /\ flow \in P!Flow /\ acts \in 0..PushActs /\ pActive \in Repos
      /\ current \in Branch /\ \A r \in Repos : head[r] \in Branch
  BY DEF PushType, StoreType, FlowType, BoundType, GitType, ShownType
<1>1. /\ UNCHANGED <<head, ahead, index, made, sent, sheet, reads, jobs, settling, event, begun,
                     pMoves>>
      /\ pActive' \in Repos /\ current' \in Branch /\ mounted' \in BOOLEAN
      /\ acts' \in 0..PushActs
  <2>1. CASE \E r \in Repos : P!SwitchRepo(r)
    <3>1. PICK r \in Repos : P!SwitchRepo(r)
      BY <2>1
    <3>2. acts' \in 0..PushActs
      BY <1>0, <3>1, PushAssumption DEF P!SwitchRepo, P!Act
    <3> QED BY <1>0, <3>1, <3>2 DEF P!SwitchRepo, P!git, PushType, ShownType
  <2>2. CASE P!SeeBranch
    BY <1>0, <2>2 DEF P!SeeBranch, P!git, P!bounds, PushType, ShownType
  <2>3. CASE P!Return
    BY <1>0, <2>3 DEF P!Return, P!git, P!bounds
  <2> QED BY <2>1, <2>2, <2>3
<1>2. /\ commit' \in P!CommitState /\ remote' \in P!RemoteState
      /\ mounted' => commit'.repo = pActive' /\ remote'.repo = pActive'
      /\ OnShown /\ pActive' = pActive => OnShown' /\ commit'.hash = commit.hash
  <2>1. CASE \E r \in Repos : P!SwitchRepo(r)
    <3>1. PICK r \in Repos : P!SwitchRepo(r)
      BY <2>1
    <3>2. /\ pActive' = r /\ mounted' = mounted /\ r # pActive
          /\ IF mounted THEN P!LoadBoth(r) ELSE UNCHANGED <<commit, remote>>
      BY <3>1 DEF P!SwitchRepo
    <3> QED BY <1>0, <3>2, Reload DEF OnShown
  <2>2. CASE P!SeeBranch
    <3>1. /\ pActive' = pActive /\ mounted' = mounted
          /\ IF mounted THEN P!LoadBoth(pActive) ELSE UNCHANGED <<commit, remote>>
      BY <2>2 DEF P!SeeBranch
    <3> QED BY <1>0, <3>1, Reload DEF OnShown
  <2>3. CASE P!Return
    <3>1. pActive' = pActive /\ P!LoadBoth(pActive)
      BY <2>3 DEF P!Return
    <3> QED BY <1>0, <3>1, CommitLoadType, RemoteLoadType DEF OnShown, P!LoadBoth
  <2> QED BY <2>1, <2>2, <2>3
<1>3. /\ Kept(flow, flow')
      /\ ~flow'.disturbed /\ flow.stage = "committing" => pActive' = pActive
  BY <1>0, DisturbKeeps, SameFlow DEF P!SwitchRepo, P!SeeBranch, P!Return
<1>4. PushType'
  BY <1>1, <1>2, <1>3 DEF PushType, ShownType, GitType, StoreType, SheetType, FlowType,
                          QueueType, BoundType, Kept
<1>5. OpenInv' /\ ReadInv' /\ SameInv'
  BY <1>1, <1>2, <1>3 DEF OpenInv, ReadInv, SameInv, OnShown, Kept
<1> QED BY <1>1, <1>2, <1>3, <1>4, <1>5, QuietStep

\* Another program checks out a branch.
LEMMA CheckOutStep ==
    ASSUME PushInv, NEW b \in Branch, P!CheckOut(b)
    PROVE  PushInv'
<1> USE DEF PushInv
<1>0. /\ flow \in P!Flow /\ pMoves \in 0..PushMoves /\ pActive \in Repos
      /\ head \in [Repos -> Branch]
  BY DEF PushType, FlowType, BoundType, GitType, ShownType
<1>1. /\ UNCHANGED <<pActive, current, mounted, ahead, index, made, sent, commit, remote, sheet,
                     reads, jobs, settling, event, begun, acts>>
      /\ head' = [head EXCEPT ![pActive] = b] /\ P!Fails /\ P!Disturb
  BY DEF P!CheckOut
<1>2. Kept(flow, flow') /\ flow'.disturbed = (flow.stage # "idle")
  BY <1>0, <1>1, DisturbKeeps
<1>3. head' \in [Repos -> Branch] /\ pMoves' \in 0..PushMoves
  BY <1>0, <1>1, PushAssumption DEF P!Fails
<1>4. PushType'
  BY <1>1, <1>2, <1>3 DEF PushType, ShownType, GitType, StoreType, SheetType, FlowType,
                          QueueType, BoundType, Kept
<1>5. OpenInv' /\ ReadInv' /\ SameInv'
  BY <1>1, <1>2 DEF OpenInv, ReadInv, SameInv, OnShown, Kept
<1> QED BY <1>1, <1>2, <1>4, <1>5, QuietStep

\* The sheets go with the screen.
LEMMA LeaveStep ==
    ASSUME PushInv, P!Leave
    PROVE  PushInv'
<1> USE DEF PushInv
<1>0. flow \in P!Flow /\ acts \in 0..PushActs
  BY DEF PushType, FlowType, BoundType
<1>1. /\ UNCHANGED <<pActive, current, head, ahead, index, made, sent, commit, remote, flow, jobs,
                     settling, event, begun, pMoves>>
      /\ mounted' = FALSE /\ P!Act
      /\ sheet' = [x \in P!Sides |-> P!Closed] /\ reads' = [q \in P!Slots |-> None]
  BY DEF P!Leave, P!git
<1>2. /\ P!Closed \in P!Sheet /\ ~P!Closed.open /\ ~P!Closed.choice /\ P!Closed.read = None
  BY DEF P!Closed, P!Sheet, P!Maybe
<1>3. sheet' \in [P!Sides -> P!Sheet] /\ reads' \in [P!Slots -> P!Maybe(P!Read)]
  BY <1>1, <1>2 DEF P!Maybe
<1>4. acts' \in 0..PushActs
  BY <1>0, <1>1, PushAssumption DEF P!Act
<1>5. PushType'
  BY <1>1, <1>3, <1>4 DEF PushType, ShownType, GitType, StoreType, SheetType, FlowType,
                          QueueType, BoundType
<1>6. OpenInv' /\ ReadInv' /\ SameInv'
  BY <1>1, <1>2 DEF OpenInv, ReadInv, SameInv, P!Sides
<1>7. Kept(flow, flow') /\ (OnShown => OnShown')
  BY <1>0, <1>1, SameFlow DEF OnShown
<1> QED BY <1>1, <1>5, <1>6, <1>7, QuietStep

-----------------------------------------------------------------------------
(* The sheets.                                                             *)

\* The answer to a sheet: what it shows of the commits going out is what is ahead.
LEMMA OutgoingReadStep ==
    ASSUME PushInv, NEW q \in P!Slots, NEW ok \in BOOLEAN, P!OutgoingRead(q, ok)
    PROVE  PushInv'
<1> USE DEF PushInv
<1>0. /\ flow \in P!Flow /\ pMoves \in 0..PushMoves /\ sheet \in [P!Sides -> P!Sheet]
      /\ reads \in [P!Slots -> P!Maybe(P!Read)] /\ ahead \in [P!Targets -> P!Authors]
  BY DEF PushType, FlowType, BoundType, SheetType, GitType
<1>1. PICK c \in P!Read : c = reads[q]
  BY <1>0 DEF P!OutgoingRead, P!Maybe
<1>2. c.side \in P!Sides /\ c.target \in P!Targets
  BY DEF P!Read
<1>3. /\ UNCHANGED <<pActive, current, mounted, head, ahead, index, made, sent, commit, remote,
                     flow, jobs, settling, event, begun, acts>>
      /\ reads' = [reads EXCEPT ![q] = None]
      /\ sheet' = [sheet EXCEPT ![c.side].outPending = FALSE,
                                ![c.side].out = IF ok THEN ahead[c.target] ELSE @,
                                ![c.side].read = IF ok THEN c.target ELSE @]
      /\ IF ok THEN UNCHANGED pMoves ELSE P!Fails
  BY <1>1 DEF P!OutgoingRead, P!git
<1>4. PICK s \in P!Sheet : s = sheet[c.side]
  BY <1>0, <1>2
<1>5. PICK y : y = [s EXCEPT !.outPending = FALSE,
                             !.out = IF ok THEN ahead[c.target] ELSE @,
                             !.read = IF ok THEN c.target ELSE @]
  OBVIOUS
<1>6. sheet' = [sheet EXCEPT ![c.side] = y]
  BY <1>0, <1>2, <1>3, <1>4, <1>5
<1>7. ahead[c.target] \in P!Authors /\ ahead[c.target] # None
  BY <1>0, <1>2, PushAssumption
<1>8. y \in P!Sheet /\ y.open = s.open /\ y.remote = s.remote /\ y.choice = s.choice
  BY <1>2, <1>5, <1>7 DEF P!Sheet, P!Maybe
<1>9. IF ok THEN y.out = ahead[c.target] /\ y.read = c.target ELSE y.out = s.out /\ y.read = s.read
  BY <1>5 DEF P!Sheet
<1>10. reads' \in [P!Slots -> P!Maybe(P!Read)] /\ sheet' \in [P!Sides -> P!Sheet]
  BY <1>0, <1>2, <1>3, <1>6, <1>8 DEF P!Maybe
<1>11. pMoves' \in 0..PushMoves
  BY <1>0, <1>3, PushAssumption DEF P!Fails
<1>12. PushType'
  BY <1>3, <1>10, <1>11 DEF PushType, ShownType, GitType, StoreType, SheetType, FlowType,
                            QueueType, BoundType
<1>13. \A x \in P!Sides : /\ sheet'[x].open = sheet[x].open
                          /\ sheet'[x].remote = sheet[x].remote
                          /\ sheet'[x].choice = sheet[x].choice
  BY <1>0, <1>4, <1>6, <1>8
<1>14. OpenInv'
  BY <1>3, <1>13 DEF OpenInv, P!Sides
<1>15. ReadInv'
  <2> SUFFICES ASSUME NEW x \in P!Sides, sheet'[x].read # None
               PROVE  /\ sheet'[x].out # None
                      /\ "foreign" \in ahead[sheet'[x].read] => "foreign" \in sheet'[x].out
    BY <1>3 DEF ReadInv
  <2>1. CASE x = c.side
    BY <1>0, <1>4, <1>6, <1>7, <1>9, <2>1 DEF ReadInv
  <2>2. CASE x # c.side
    BY <1>0, <1>6, <2>2 DEF ReadInv
  <2> QED BY <2>1, <2>2
<1>16. SameInv' /\ (OnShown => OnShown') /\ Kept(flow, flow')
  BY <1>0, <1>3, SameFlow DEF SameInv, OnShown
<1> QED BY <1>3, <1>12, <1>14, <1>15, <1>16, QuietStep

\* The answer about the token says nothing of the commits going out.
LEMMA TokenReadStep ==
    ASSUME PushInv, NEW q \in P!Slots, NEW ok \in BOOLEAN, P!TokenRead(q, ok)
    PROVE  PushInv'
<1> USE DEF PushInv
<1>0. /\ flow \in P!Flow /\ pMoves \in 0..PushMoves /\ sheet \in [P!Sides -> P!Sheet]
      /\ reads \in [P!Slots -> P!Maybe(P!Read)]
  BY DEF PushType, FlowType, BoundType, SheetType
<1>1. PICK c \in P!Read : c = reads[q]
  BY <1>0 DEF P!TokenRead, P!Maybe
<1>2. c.side \in P!Sides
  BY DEF P!Read
<1>3. /\ UNCHANGED <<pActive, current, mounted, head, ahead, index, made, sent, commit, remote,
                     flow, jobs, settling, event, begun, acts>>
      /\ reads' = [reads EXCEPT ![q] = None]
      /\ sheet' = [sheet EXCEPT ![c.side].tokenPending = FALSE,
                                ![c.side].token = IF ok THEN "token" ELSE @]
      /\ IF ok THEN UNCHANGED pMoves ELSE P!Fails
  BY <1>1 DEF P!TokenRead, P!git
<1>4. PICK s \in P!Sheet : s = sheet[c.side]
  BY <1>0, <1>2
<1>5. PICK y : y = [s EXCEPT !.tokenPending = FALSE, !.token = IF ok THEN "token" ELSE @]
  OBVIOUS
<1>6. sheet' = [sheet EXCEPT ![c.side] = y]
  BY <1>0, <1>2, <1>3, <1>4, <1>5
<1>7. /\ y \in P!Sheet /\ y.open = s.open /\ y.remote = s.remote /\ y.choice = s.choice
      /\ y.out = s.out /\ y.read = s.read
  BY <1>5 DEF P!Sheet, P!Maybe
<1>8. reads' \in [P!Slots -> P!Maybe(P!Read)] /\ sheet' \in [P!Sides -> P!Sheet]
  BY <1>0, <1>2, <1>3, <1>6, <1>7 DEF P!Maybe
<1>9. pMoves' \in 0..PushMoves
  BY <1>0, <1>3, PushAssumption DEF P!Fails
<1>10. PushType'
  BY <1>3, <1>8, <1>9 DEF PushType, ShownType, GitType, StoreType, SheetType, FlowType,
                          QueueType, BoundType
<1>11. \A x \in P!Sides : /\ sheet'[x].open = sheet[x].open
                          /\ sheet'[x].remote = sheet[x].remote
                          /\ sheet'[x].choice = sheet[x].choice
                          /\ sheet'[x].out = sheet[x].out
                          /\ sheet'[x].read = sheet[x].read
  BY <1>0, <1>4, <1>6, <1>7
<1>12. OpenInv'
  BY <1>3, <1>11 DEF OpenInv, P!Sides
<1>13. ReadInv'
  BY <1>3, <1>11 DEF ReadInv
<1>14. SameInv' /\ (OnShown => OnShown') /\ Kept(flow, flow')
  BY <1>0, <1>3, SameFlow DEF SameInv, OnShown
<1> QED BY <1>3, <1>10, <1>12, <1>13, <1>14, QuietStep

\* CommitPush has FiniteSets of its own.
LEMMA SameCardinality == \A S : P!Cardinality(S) = Cardinality(S)
BY DEF P!Cardinality, Cardinality

\* A set of at least one or two slots has one, or two, of them.
LEMMA TakeIsThere ==
    ASSUME NEW n \in {1, 2}, Cardinality(P!Free) >= n
    PROVE  P!Take(n) \in SUBSET P!Free /\ Cardinality(P!Take(n)) = n
<1>1. IsFiniteSet(P!Free)
  <2>1. IsFiniteSet(P!Slots)
    BY PushAssumption, FS_Interval DEF P!Slots
  <2>2. P!Free \in SUBSET P!Slots
    BY DEF P!Free
  <2> QED BY <2>1, <2>2, FS_Subset
<1>2. Cardinality(P!Free) \in Nat
  BY <1>1, FS_CardinalityType
<1>3. PICK a \in P!Free : TRUE
  <2>1. P!Free # {}
    BY <1>2, FS_EmptySet
  <2> QED BY <2>1
<1>4. \E F \in SUBSET P!Free : Cardinality(F) = n
  <2>1. CASE n = 1
    <3>1. Cardinality({a}) = 1 /\ {a} \in SUBSET P!Free
      BY <1>3, FS_Singleton
    <3> QED BY <2>1, <3>1
  <2>2. CASE n = 2
    <3>1. Cardinality(P!Free \ {a}) = Cardinality(P!Free) - 1 /\ IsFiniteSet(P!Free \ {a})
      BY <1>1, <1>3, FS_RemoveElement
    <3>2. P!Free \ {a} # {}
      <4>1. Cardinality(P!Free \ {a}) # 0
        BY <1>2, <2>2, <3>1
      <4> QED BY <4>1, FS_EmptySet
    <3>3. PICK b \in P!Free \ {a} : TRUE
      BY <3>2
    <3>4. Cardinality({a}) = 1 /\ IsFiniteSet({a})
      BY FS_Singleton
    <3>5. Cardinality({a} \cup {b}) = 2
      BY <3>3, <3>4, FS_AddElement
    <3>6. {a} \cup {b} \in SUBSET P!Free
      BY <1>3, <3>3
    <3> QED BY <2>2, <3>5, <3>6
  <2> QED BY <2>1, <2>2
<1> QED BY <1>4, SameCardinality DEF P!Take

\* A sheet as it opens: it is for its remote, and has read nothing.
Opened(x, m) == /\ x \in P!Sheet /\ x.open /\ x.remote = m /\ ~x.choice /\ x.read = None

\* The reads of a sheet that opens have places of their own.
LEMMA PreflightType ==
    ASSUME PushType, NEW side \in P!Sides, NEW m \in Remotes, P!Preflight(side, m)
    PROVE  /\ SheetType'
           /\ \E x : Opened(x, m) /\ sheet' = [sheet EXCEPT ![side] = x]
<1>0. /\ remote.repo \in Repos /\ current \in Branch /\ sheet \in [P!Sides -> P!Sheet]
      /\ reads \in [P!Slots -> P!Maybe(P!Read)]
  BY DEF PushType, StoreType, ShownType, SheetType, P!RemoteState
<1>1. PICK kinds : kinds = IF m \in Https THEN <<"out", "token">> ELSE <<"out">>
  OBVIOUS
<1>2. PICK n \in {1, 2} : n = Len(kinds) /\ \A i \in 1..n : kinds[i] \in {"out", "token"}
  <2>1. CASE m \in Https
    BY <1>1, <2>1
  <2>2. CASE m \notin Https
    BY <1>1, <2>2
  <2> QED BY <2>1, <2>2
<1>3. PICK taken : taken = P!Take(n)
  OBVIOUS
<1>4. PICK target : target = <<remote.repo, current, m>>
  OBVIOUS
<1>5. Cardinality(P!Free) >= n
  BY <1>1, <1>2, SameCardinality DEF P!Preflight
<1>6. taken \in SUBSET P!Free /\ Cardinality(taken) = n
  BY <1>3, <1>5, TakeIsThere
<1>7. reads' = [q \in P!Slots |->
                  IF q \in taken
                  THEN [side |-> side, target |-> target,
                        kind |-> kinds[1 + Cardinality({p \in taken : p < q})]]
                  ELSE reads[q]]
  BY <1>1, <1>2, <1>3, <1>4, SameCardinality DEF P!Preflight
<1>8. IsFiniteSet(taken)
  <2>1. IsFiniteSet(P!Slots) /\ P!Free \in SUBSET P!Slots
    BY PushAssumption, FS_Interval DEF P!Slots, P!Free
  <2>2. taken \in SUBSET P!Slots
    BY <1>6, <2>1
  <2> QED BY <2>1, <2>2, FS_Subset
<1>9. \A q \in taken : kinds[1 + Cardinality({p \in taken : p < q})] \in {"out", "token"}
  <2> SUFFICES ASSUME NEW q \in taken
               PROVE  kinds[1 + Cardinality({p \in taken : p < q})] \in {"out", "token"}
    OBVIOUS
  <2>1. q \in Nat
    BY <1>6, PushAssumption DEF P!Free, P!Slots
  <2>2. PICK lower : lower = {p \in taken : p < q}
    OBVIOUS
  <2>3. lower \in SUBSET (taken \ {q})
    BY <2>1, <2>2
  <2>4. IsFiniteSet(taken \ {q}) /\ Cardinality(taken \ {q}) = n - 1
    BY <1>6, <1>8, FS_RemoveElement
  <2>5. IsFiniteSet(lower) /\ Cardinality(lower) <= n - 1
    BY <2>3, <2>4, FS_Subset
  <2>6. Cardinality(lower) \in Nat
    BY <2>5, FS_CardinalityType
  <2>7. 1 + Cardinality(lower) \in 1..n
    BY <2>5, <2>6
  <2> QED BY <1>2, <2>2, <2>7
<1>10. target \in P!Targets
  BY <1>0, <1>4 DEF P!Targets, Branch
<1>11. reads' \in [P!Slots -> P!Maybe(P!Read)]
  <2>1. \A q \in taken : [side |-> side, target |-> target,
                          kind |-> kinds[1 + Cardinality({p \in taken : p < q})]] \in P!Read
    BY <1>9, <1>10 DEF P!Read
  <2> QED BY <1>0, <1>7, <2>1 DEF P!Maybe
<1>12. PICK x : x = [P!Closed EXCEPT !.open = TRUE, !.remote = m, !.outPending = TRUE,
                                     !.tokenPending = m \in Https]
  OBVIOUS
<1>13. Opened(x, m)
  <2>1. x = [open |-> TRUE, remote |-> m, choice |-> FALSE, out |-> None, outPending |-> TRUE,
             token |-> None, tokenPending |-> m \in Https, read |-> None]
    BY <1>12 DEF P!Closed
  <2>2. x \in P!Sheet
    BY <2>1, SMT DEF P!Sheet, P!Maybe
  <2> QED BY <2>1, <2>2 DEF Opened
<1>14. sheet' = [sheet EXCEPT ![side] = x]
  BY <1>12 DEF P!Preflight
<1> QED BY <1>0, <1>11, <1>13, <1>14 DEF SheetType, Opened

\* A step of the screen that begins the flow anew, or dismisses it.
LEMMA AnewStep ==
    ASSUME PushInv, PushType', OpenInv', ReadInv', SameInv',
           UNCHANGED <<jobs, settling, made, event, begun>>,
           flow.stage \notin {"committing", "pushing"}, flow'.stage \in {"idle", "confirming"}
    PROVE  PushInv'
<1>1. WorkInv' /\ P!OnlyOwnConfirmed'
  BY DEF PushInv, WorkInv, P!OnlyOwnConfirmed
<1>2. FlowWorkInv'
  <2>1. FlowWorkOf(jobs, settling, begun, flow')
    BY FlowAnew DEF PushInv, FlowWorkInv, WorkInv, PushType, QueueType
  <2> QED BY <2>1 DEF FlowWorkInv
<1>3. FlowInv' /\ P!FlowTellsTruth'
  BY DEF FlowInv, P!FlowTellsTruth
<1> QED BY <1>1, <1>2, <1>3 DEF PushInv

\* The rule that picks the remote names one of those shown.
LEMMA CpTargetIsShown ==
    ASSUME PushType, P!CpTarget.kind = "remote"
    PROVE  P!CpTarget.remote \in Remotes
<1>1. remote.repo \in Repos
  BY DEF PushType, StoreType, P!RemoteState
<1>2. P!Shown \subseteq Remotes
  BY <1>1, PushAssumption DEF P!Shown
<1>3. PICK S : S = {P!Remote(m) : m \in P!Shown}
  OBVIOUS
<1>4. \A x \in S : x.name \in Remotes
  BY <1>2, <1>3 DEF P!Remote
<1>5. \A T : T # {} => P!Only(T) \in T
  BY DEF P!Only
<1>6. P!Named(S, None) \subseteq S /\ P!Named(S, Origin) \subseteq S
  BY DEF P!Named
<1>7. P!CpTarget = P!PickPushTarget(S, None)
  BY <1>3 DEF P!CpTarget
<1>8. CASE P!CpTarget.remote = P!Only(P!Named(S, None)).name /\ P!Named(S, None) # {}
  BY <1>4, <1>5, <1>6, <1>8
<1>9. CASE P!CpTarget.remote = P!Only(P!Named(S, Origin)).name /\ P!Named(S, Origin) # {}
  BY <1>4, <1>5, <1>6, <1>9
<1>10. CASE P!CpTarget.remote = P!Only(S).name /\ S # {}
  BY <1>4, <1>5, <1>10
<1> QED BY <1>7, <1>8, <1>9, <1>10 DEF P!PickPushTarget

\* A sheet that has been opened on a remote, or closed.
LEMMA SheetOpens ==
    ASSUME PushInv, NEW side \in P!Sides, NEW x, x \in P!Sheet, x.read = None,
           x.open => x.remote # None, sheet' = [sheet EXCEPT ![side] = x], UNCHANGED ahead
    PROVE  /\ ReadInv'
           /\ sheet'["push"].open => sheet'["push"].remote # None
           /\ sheet'["cp"].choice => IF side = "cp" THEN x.choice ELSE sheet["cp"].choice
<1>1. sheet \in [P!Sides -> P!Sheet]
  BY DEF PushInv, PushType, SheetType
<1>2. \A y \in P!Sides : sheet'[y] = IF y = side THEN x ELSE sheet[y]
  BY <1>1
<1>3. ReadInv'
  BY <1>2 DEF PushInv, ReadInv
<1>4. sheet'["push"].open => sheet'["push"].remote # None
  BY <1>2 DEF PushInv, OpenInv, P!Sides
<1> QED BY <1>2, <1>3, <1>4 DEF P!Sides

\* The push sheet is opened: it has read nothing yet.
LEMMA OpenPushStep ==
    ASSUME PushInv, NEW m \in Remotes, P!OpenPush(m)
    PROVE  PushInv'
<1> USE DEF PushInv
<1>0. /\ flow \in P!Flow /\ acts \in 0..PushActs /\ remote \in P!RemoteState
      /\ PushType /\ OpenInv /\ m # None
  BY PushAssumption DEF PushType, FlowType, BoundType, StoreType
<1>1. /\ UNCHANGED <<pActive, current, mounted, head, ahead, index, made, sent, commit, flow, jobs,
                     settling, event, begun, pMoves>>
      /\ remote' = [remote EXCEPT !.error = FALSE, !.success = FALSE, !.failure = None]
      /\ P!Act /\ P!Preflight("push", m)
  BY DEF P!OpenPush, P!git
<1>2. SheetType' /\ \E x : Opened(x, m) /\ sheet' = [sheet EXCEPT !["push"] = x]
  BY <1>0, <1>1, PreflightType DEF P!Sides
<1>3. PICK x : Opened(x, m) /\ sheet' = [sheet EXCEPT !["push"] = x]
  BY <1>2
<1>4. /\ ReadInv' /\ (sheet'["push"].open => sheet'["push"].remote # None)
      /\ sheet'["cp"].choice => sheet["cp"].choice
  BY <1>0, <1>1, <1>3, SheetOpens DEF Opened, P!Sides
<1>5. remote' \in P!RemoteState /\ remote'.repo = remote.repo
  BY <1>0, <1>1 DEF P!RemoteState, P!Maybe
<1>6. acts' \in 0..PushActs
  BY <1>0, <1>1, PushAssumption DEF P!Act
<1>7. PushType'
  BY <1>1, <1>2, <1>5, <1>6 DEF PushType, ShownType, GitType, StoreType, FlowType, QueueType,
                                BoundType
<1>8. OpenInv' /\ SameInv' /\ (OnShown => OnShown') /\ Kept(flow, flow')
  BY <1>0, <1>1, <1>4, <1>5, SameFlow DEF OpenInv, SameInv, OnShown
<1> QED BY <1>1, <1>4, <1>7, <1>8, QuietStep

\* It is closed.
LEMMA ClosePushStep ==
    ASSUME PushInv, P!ClosePush
    PROVE  PushInv'
<1> USE DEF PushInv
<1>0. /\ flow \in P!Flow /\ acts \in 0..PushActs /\ sheet \in [P!Sides -> P!Sheet]
  BY DEF PushType, FlowType, BoundType, SheetType
<1>1. /\ UNCHANGED <<pActive, current, mounted, head, ahead, index, made, sent, commit, remote, flow,
                     reads, jobs, settling, event, begun, pMoves>>
      /\ P!Act /\ sheet' = [sheet EXCEPT !["push"] = P!Closed]
  BY DEF P!ClosePush, P!git
<1>2. P!Closed \in P!Sheet /\ ~P!Closed.open /\ ~P!Closed.choice /\ P!Closed.read = None
  BY DEF P!Closed, P!Sheet, P!Maybe
<1>3. /\ ReadInv' /\ (sheet'["push"].open => sheet'["push"].remote # None)
      /\ sheet'["cp"].choice => sheet["cp"].choice
  BY <1>1, <1>2, SheetOpens DEF P!Sides
<1>4. acts' \in 0..PushActs /\ sheet' \in [P!Sides -> P!Sheet]
  BY <1>0, <1>1, <1>2, PushAssumption DEF P!Act, P!Sides
<1>5. PushType'
  BY <1>1, <1>4 DEF PushType, ShownType, GitType, StoreType, SheetType, FlowType, QueueType,
                    BoundType
<1>6. OpenInv' /\ SameInv' /\ (OnShown => OnShown') /\ Kept(flow, flow')
  BY <1>0, <1>1, <1>3, SameFlow DEF OpenInv, SameInv, OnShown
<1> QED BY <1>1, <1>3, <1>5, <1>6, QuietStep

\* Commit & Push is opened on a remote.
LEMMA CpOpens ==
    ASSUME PushInv, NEW m \in Remotes, P!Act, P!Preflight("cp", m), P!OpenFlow(m),
           flow.stage \notin {"committing", "pushing"},
           UNCHANGED <<pActive, current, mounted, head, ahead, index, made, sent, commit, remote,
                       jobs, settling, event, begun, pMoves>>
    PROVE  PushInv'
<1> USE DEF PushInv
<1>0. acts \in 0..PushActs /\ PushType /\ m # None
  BY PushAssumption DEF PushType, BoundType
<1>1. SheetType' /\ \E x : Opened(x, m) /\ sheet' = [sheet EXCEPT !["cp"] = x]
  BY <1>0, PreflightType DEF P!Sides
<1>2. PICK x : Opened(x, m) /\ sheet' = [sheet EXCEPT !["cp"] = x]
  BY <1>1
<1>3. /\ ReadInv' /\ (sheet'["push"].open => sheet'["push"].remote # None)
      /\ ~sheet'["cp"].choice
  BY <1>0, <1>2, SheetOpens DEF Opened, P!Sides
<1>4. flow' \in P!Flow /\ flow'.stage = "confirming" /\ flow'.remote = m
  BY DEF P!OpenFlow, P!Idle, P!Flow, P!Maybe
<1>5. acts' \in 0..PushActs
  BY <1>0, PushAssumption DEF P!Act
<1>6. PushType'
  BY <1>1, <1>4, <1>5 DEF PushType, ShownType, GitType, StoreType, FlowType, QueueType, BoundType
<1>7. OpenInv' /\ SameInv'
  BY <1>0, <1>3, <1>4 DEF OpenInv, SameInv, OnShown
<1> QED BY <1>3, <1>4, <1>6, <1>7, AnewStep

\* Commit & Push is opened, on a remote or to choose one, or cancelled.
LEMMA CpSteps ==
    ASSUME PushInv, P!OpenCp \/ (\E m \in Remotes : P!PickRemote(m)) \/ P!CancelCp
    PROVE  PushInv'
<1> USE DEF PushInv
<1>0. /\ acts \in 0..PushActs /\ sheet \in [P!Sides -> P!Sheet] /\ PushType
      /\ sheet["cp"] \in P!Sheet
  BY DEF PushType, BoundType, SheetType, P!Sides
<1>1. P!Idle \in P!Flow /\ P!Idle.stage = "idle"
  BY DEF P!Idle, P!Flow, P!Maybe
<1>2. ASSUME NEW x \in P!Sheet, x.read = None, ~x.open, P!Act, flow' = P!Idle,
             sheet' = [sheet EXCEPT !["cp"] = x], flow.stage \notin {"committing", "pushing"},
             UNCHANGED <<pActive, current, mounted, head, ahead, index, made, sent, commit, remote,
                         reads, jobs, settling, event, begun, pMoves>>
      PROVE  PushInv'
  <2>1. acts' \in 0..PushActs /\ sheet' \in [P!Sides -> P!Sheet]
    BY <1>0, <1>2, PushAssumption DEF P!Act, P!Sides
  <2>2. PushType'
    BY <1>1, <1>2, <2>1 DEF PushType, ShownType, GitType, StoreType, SheetType, FlowType, QueueType,
                            BoundType
  <2>3. ReadInv' /\ (sheet'["push"].open => sheet'["push"].remote # None)
    BY <1>2, SheetOpens DEF P!Sides
  <2>4. OpenInv' /\ SameInv'
    BY <1>1, <1>2, <2>3 DEF OpenInv, SameInv, OnShown
  <2> QED BY <1>1, <1>2, <2>2, <2>3, <2>4, AnewStep
<1>3. CASE P!OpenCp
  <2>1. /\ UNCHANGED <<pActive, current, mounted, head, ahead, index, made, sent, commit, remote,
                        jobs, settling, event, begun, pMoves>>
        /\ P!Act /\ flow.stage \notin {"committing", "pushing"}
    BY <1>3 DEF P!OpenCp, P!git, P!CpOffered, P!CpStage
  <2>2. CASE P!CpTarget.kind = "remote"
    <3>1. PICK m \in Remotes : m = P!CpTarget.remote
      BY <1>0, <2>2, CpTargetIsShown
    <3>2. P!Preflight("cp", m) /\ P!OpenFlow(m)
      BY <1>3, <2>2, <3>1 DEF P!OpenCp
    <3> QED BY <2>1, <3>2, CpOpens
  <2>3. CASE P!CpTarget.kind # "remote"
    <3>1. PICK s \in P!Sheet : s = sheet["cp"]
      BY <1>0
    <3>2. PICK y : y = [s EXCEPT !.choice = TRUE]
      OBVIOUS
    <3>3. /\ y \in P!Sheet /\ y.open = s.open /\ y.remote = s.remote
          /\ y.out = s.out /\ y.read = s.read
      BY <3>2 DEF P!Sheet
    <3>4. sheet' = [sheet EXCEPT !["cp"] = y] /\ flow' = P!Idle /\ UNCHANGED reads
      BY <1>0, <1>3, <2>3, <3>1, <3>2 DEF P!OpenCp, P!Sides
    <3>5. acts' \in 0..PushActs /\ sheet' \in [P!Sides -> P!Sheet]
      BY <1>0, <2>1, <3>3, <3>4, PushAssumption DEF P!Act, P!Sides
    <3>6. PushType'
      BY <1>1, <2>1, <3>4, <3>5 DEF PushType, ShownType, GitType, StoreType, SheetType, FlowType,
                                    QueueType, BoundType
    <3>7. \A x \in P!Sides : /\ sheet'[x].open = sheet[x].open
                             /\ sheet'[x].remote = sheet[x].remote
                             /\ sheet'[x].out = sheet[x].out
                             /\ sheet'[x].read = sheet[x].read
      BY <1>0, <3>1, <3>3, <3>4
    <3>8. OpenInv' /\ SameInv'
      BY <1>1, <2>1, <3>4, <3>7 DEF OpenInv, SameInv, OnShown, P!Sides
    <3>9. ReadInv'
      BY <2>1, <3>7 DEF ReadInv
    <3> QED BY <1>1, <2>1, <3>4, <3>6, <3>8, <3>9, AnewStep
  <2> QED BY <2>2, <2>3
<1>4. CASE \E m \in Remotes : P!PickRemote(m)
  <2>1. PICK m \in Remotes : P!PickRemote(m)
    BY <1>4
  <2>2. flow.stage = "idle"
    BY <2>1 DEF P!PickRemote, OpenInv
  <2> QED BY <2>1, <2>2, CpOpens DEF P!PickRemote, P!git
<1>5. CASE P!CancelCp
  <2>1. P!Closed \in P!Sheet /\ ~P!Closed.open /\ P!Closed.read = None
    BY DEF P!Closed, P!Sheet, P!Maybe
  <2>2. flow.stage \notin {"committing", "pushing"}
    BY <1>5 DEF P!CancelCp, P!CpSheetOpen, OpenInv
  <2> QED BY <1>2, <1>5, <2>1, <2>2 DEF P!CancelCp, P!git
<1> QED BY <1>3, <1>4, <1>5

-----------------------------------------------------------------------------
(* What is queued.                                                         *)

\* The jobs that come with a step that queues one.
LEMMA QueueGrows ==
    ASSUME jobs \in [Repos -> Seq(P!Job)], NEW r \in Repos, NEW e \in P!Job,
           jobs' = [jobs EXCEPT ![r] = Append(@, e)]
    PROVE  /\ jobs' \in [Repos -> Seq(P!Job)]
           /\ \A s \in Repos : \A k \in DOMAIN jobs'[s] :
                 \/ k \in DOMAIN jobs[s] /\ jobs'[s][k] = jobs[s][k]
                 \/ s = r /\ jobs'[s][k] = e
<1>1. /\ jobs'[r] \in Seq(P!Job)
      /\ \A k \in DOMAIN jobs'[r] : \/ k \in DOMAIN jobs[r] /\ jobs'[r][k] = jobs[r][k]
                                    \/ k = Len(jobs[r]) + 1 /\ jobs'[r][k] = e
  BY AppendPlaces
<1>2. \A s \in Repos \ {r} : jobs'[s] = jobs[s]
  OBVIOUS
<1> QED BY <1>1, <1>2

\* A push, pull or fetch that is not the flow's.
OtherJob(e, r) ==
    e \in P!Job /\ e.repo = r /\ e.op # "commit" /\ e.by # "flow" /\ e.id = None /\ e.remote # None

\* A step that queues one leaves the flow as it was.
LEMMA AddStep ==
    ASSUME PushInv, NEW r \in Repos, NEW e, OtherJob(e, r),
           jobs' = [jobs EXCEPT ![r] = Append(@, e)],
           PushType', OpenInv', ReadInv', SameInv', P!OnlyOwnConfirmed', Kept(flow, flow'),
           UNCHANGED <<pActive, head, settling, made, sent, begun>>,
           commit'.hash = commit.hash, OnShown => OnShown'
    PROVE  PushInv'
<1> USE DEF OtherJob
<1>1. /\ jobs \in [Repos -> Seq(P!Job)] /\ begun \in Nat /\ begun <= MaxCommits
      /\ WorkOf(jobs, settling, made, begun) /\ FlowWorkOf(jobs, settling, begun, flow)
  BY PushAssumption DEF PushInv, PushType, QueueType, BoundType, WorkInv, FlowWorkInv
<1>2. JobOf(e, begun) /\ ~OfFlow(e) /\ ~FlowPush(e)
  BY DEF JobOf, OfFlow, FlowPush
<1>3. PICK last \in Nat : last = begun /\ last <= last /\ last <= MaxCommits
  BY <1>1
<1>4. PICK p : p = [jobs EXCEPT ![r] = Append(@, e)]
  OBVIOUS
<1>5. e \in P!Job /\ e.repo = r /\ (e.op = "commit" => e.id = last + 1)
  OBVIOUS
<1>6. WorkOf(jobs', settling, made, begun)
  <2>1. WorkOf(jobs, settling, made, last) /\ JobOf(e, last)
    BY <1>1, <1>2, <1>3
  <2>2. WorkOf(p, settling, made, last)
    BY <1>1, <1>3, <1>4, <1>5, <2>1, AddWork
  <2> QED BY <1>3, <1>4, <2>2
<1>7. FlowWorkOf(jobs', settling, begun, flow')
  <2>1. FlowWorkOf(p, settling, last, flow)
    BY <1>1, <1>2, <1>3, <1>4, <1>5, AddOther
  <2>2. FlowWorkOf(jobs', settling, begun, flow)
    BY <1>3, <1>4, <2>1
  <2> QED BY <2>2, FlowWorkKept
<1>8. WorkInv' /\ FlowWorkInv'
  BY <1>6, <1>7 DEF WorkInv, FlowWorkInv
<1>9. P!FlowTellsTruth'
  BY TruthKept DEF PushInv
<1>10. \A s \in Repos : \A k \in DOMAIN jobs'[s] : \/ k \in DOMAIN jobs[s] /\ jobs'[s][k] = jobs[s][k]
                                                   \/ s = r /\ jobs'[s][k] = e
  BY <1>1, QueueGrows
<1>11. ~flow'.disturbed /\ flow'.stage = "committing" => CommitsOf(jobs, settling, flow)'
  BY <1>10 DEF PushInv, FlowInv, Kept, CommitsOf
<1>12. ~flow'.disturbed /\ flow'.stage = "pushing" => PushesOf(jobs, flow)'
  BY <1>2, <1>10 DEF PushInv, FlowInv, Kept, PushesOf
<1> QED BY <1>8, <1>9, <1>11, <1>12 DEF PushInv, FlowInv

\* The user fetches or pulls.
LEMMA FetchPullSteps ==
    ASSUME PushInv, NEW m \in Remotes, P!Fetch(m) \/ P!Pull(m)
    PROVE  PushInv'
<1> USE DEF PushInv
<1>0. /\ flow \in P!Flow /\ acts \in 0..PushActs /\ remote \in P!RemoteState
      /\ remote.repo \in Repos /\ current \in Branch /\ m # None
      /\ jobs \in [Repos -> Seq(P!Job)]
  BY PushAssumption DEF PushType, FlowType, BoundType, StoreType, ShownType, QueueType, P!RemoteState
<1>1. /\ UNCHANGED <<pActive, current, mounted, head, ahead, index, made, sent, commit, sheet, reads,
                     settling, event, begun, pMoves>>
      /\ P!Act /\ P!Disturb
  BY DEF P!Fetch, P!Pull, P!git
<1>2. PICK op \in {"fetch", "pull"} : jobs' = P!Enqueue(remote.repo, op, "user", None, m, current)
  BY DEF P!Fetch, P!Pull
<1>3. PICK e : e = [op |-> op, by |-> "user", id |-> None, repo |-> remote.repo, remote |-> m,
                    branch |-> current]
  OBVIOUS
<1>4. OtherJob(e, remote.repo)
  BY <1>0, <1>3 DEF OtherJob, P!Job, P!Maybe, Branch
<1>5. jobs' = [jobs EXCEPT ![remote.repo] = Append(@, e)]
  BY <1>2, <1>3 DEF P!Enqueue
<1>6. jobs' \in [Repos -> Seq(P!Job)]
  BY <1>0, <1>4, <1>5, QueueGrows DEF OtherJob
<1>7. remote' \in P!RemoteState /\ remote'.repo = remote.repo
  BY <1>0 DEF P!Fetch, P!Pull, P!RemoteState, P!Maybe
<1>8. acts' \in 0..PushActs
  BY <1>0, <1>1, PushAssumption DEF P!Act
<1>9. Kept(flow, flow')
  BY <1>0, <1>1, DisturbKeeps
<1>10. PushType'
  BY <1>1, <1>6, <1>7, <1>8, <1>9 DEF PushType, ShownType, GitType, StoreType, SheetType, FlowType,
                                      QueueType, BoundType, Kept
<1>11. OpenInv' /\ ReadInv' /\ SameInv' /\ P!OnlyOwnConfirmed' /\ (OnShown => OnShown')
  BY <1>1, <1>7, <1>9 DEF OpenInv, ReadInv, SameInv, OnShown, P!OnlyOwnConfirmed, Kept
<1> QED BY <1>0, <1>1, <1>4, <1>5, <1>9, <1>10, <1>11, AddStep

\* What failed is tried again with a remedy.
LEMMA RetryStep ==
    ASSUME PushInv, P!Retry
    PROVE  PushInv'
<1> USE DEF PushInv
<1>0. /\ flow \in P!Flow /\ acts \in 0..PushActs /\ remote \in P!RemoteState
      /\ remote.repo \in Repos /\ current \in Branch
      /\ jobs \in [Repos -> Seq(P!Job)] /\ sheet["push"] \in P!Sheet
  BY DEF PushType, FlowType, BoundType, StoreType, ShownType, QueueType, SheetType, P!Sides,
         P!RemoteState
<1>1. /\ UNCHANGED <<pActive, current, mounted, head, ahead, index, made, sent, commit, remote,
                     sheet, flow, reads, settling, event, begun, pMoves>>
      /\ P!Act
  BY DEF P!Retry, P!git, P!stores
<1>2. PICK f \in P!Failure : f = remote.failure
  BY <1>0 DEF P!Retry, P!RecoveryOffered, P!RemoteState, P!Maybe
<1>3. f.op \in {"push", "pull"}
  <2>1. f.op # "refused"
    BY <1>2 DEF P!Retry, P!Recovery
  <2> QED BY <2>1 DEF P!Failure
<1>4. PICK m : m = IF f.remote # None THEN f.remote ELSE sheet["push"].remote
  OBVIOUS
<1>5. m \in P!Maybe(Remotes)
  BY <1>0, <1>4 DEF P!Failure, P!Sheet
<1>6. PICK to : to = IF m # None THEN m ELSE Origin
  OBVIOUS
<1>7. to \in Remotes /\ to # None
  BY <1>5, <1>6, PushAssumption DEF P!Maybe
<1>8. PICK b : b = IF f.branch # None THEN f.branch ELSE current
  OBVIOUS
<1>9. b \in Branch
  BY <1>0, <1>8 DEF P!Failure, P!Maybe, Branch
<1>10. PICK e : e = [op |-> f.op, by |-> "retry", id |-> None, repo |-> remote.repo, remote |-> to,
                     branch |-> b]
  OBVIOUS
<1>11. OtherJob(e, remote.repo)
  BY <1>0, <1>3, <1>7, <1>9, <1>10 DEF OtherJob, P!Job, P!Maybe, Branch
<1>12. jobs' = [jobs EXCEPT ![remote.repo] = Append(@, e)]
  BY <1>2, <1>4, <1>6, <1>8, <1>10 DEF P!Retry, P!Enqueue
<1>13. jobs' \in [Repos -> Seq(P!Job)]
  BY <1>0, <1>11, <1>12, QueueGrows DEF OtherJob
<1>14. acts' \in 0..PushActs
  BY <1>0, <1>1, PushAssumption DEF P!Act
<1>15. PushType'
  BY <1>1, <1>13, <1>14 DEF PushType, ShownType, GitType, StoreType, SheetType, FlowType,
                            QueueType, BoundType
<1>16. /\ OpenInv' /\ ReadInv' /\ SameInv' /\ P!OnlyOwnConfirmed' /\ (OnShown => OnShown')
       /\ Kept(flow, flow')
  BY <1>0, <1>1, SameFlow DEF OpenInv, ReadInv, SameInv, OnShown, P!OnlyOwnConfirmed
<1> QED BY <1>0, <1>1, <1>11, <1>12, <1>15, <1>16, AddStep

-----------------------------------------------------------------------------
(* What is confirmed.                                                      *)

\* The push gate lets no commit of another author out, when it is told of it.
LEMMA ForeignBlocks ==
    ASSUME NEW repository, NEW to, NEW S \in SUBSET {P!AuthorOf(w) : w \in {"own", "foreign"}},
           to.outgoing = S, P!AuthorOf("foreign") \in S
    PROVE  ~P!CanPush(repository, P!Me, P!Identity, to)
<1>1. S # None /\ P!Me # None
  BY PushAssumption
<1>2. P!AuthorOf("foreign") # P!Me.author
  BY DEF P!AuthorOf, P!Me
<1>3. "OUTGOING_WRONG_AUTHOR" \in P!AuthorIssues(S, P!Me)
  BY <1>1, <1>2 DEF P!AuthorIssues, P!Issue
<1>4. "OUTGOING_WRONG_AUTHOR" \in P!PushIssues(repository, P!Me, P!Identity, to)
  BY <1>3 DEF P!PushIssues
<1>5. "OUTGOING_WRONG_AUTHOR" \notin P!Warnings
  BY DEF P!Warnings
<1> QED BY <1>4, <1>5 DEF P!CanPush, P!HasBlocker, P!Blockers

\* A verdict that lets a push through, on a list that was read for this push.
LEMMA ConfirmedIsOwn ==
    ASSUME PushInv, NEW x \in P!Sides, NEW s, s = sheet[x],
           P!PushVerdict(s) \/ P!CpVerdict(s), P!Verified(s)
    PROVE  s.read = <<remote.repo, current, s.remote>>
              => "foreign" \notin ahead[<<remote.repo, current, s.remote>>]
<1> SUFFICES ASSUME s.read = <<remote.repo, current, s.remote>>,
                    "foreign" \in ahead[<<remote.repo, current, s.remote>>]
             PROVE  FALSE
  OBVIOUS
<1>1. s \in P!Sheet /\ remote.repo \in Repos /\ current \in Branch
  BY DEF PushInv, PushType, SheetType, ShownType, StoreType, P!RemoteState
<1>2. s.remote # None
  BY DEF P!PushVerdict, P!CpVerdict
<1>3. s.remote \in Remotes /\ s.out \in P!Maybe(P!Authors)
  BY <1>1, <1>2 DEF P!Sheet, P!Maybe
<1>4. s.read # None
  <2>1. <<remote.repo, current, s.remote>> \in P!Targets
    BY <1>1, <1>3 DEF P!Targets, Branch
  <2> QED BY <2>1, PushAssumption
<1>5. s.out # None /\ "foreign" \in s.out
  BY <1>4 DEF PushInv, ReadInv
<1>6. PICK S : S = {P!AuthorOf(w) : w \in s.out}
  OBVIOUS
<1>7. S \in SUBSET {P!AuthorOf(w) : w \in {"own", "foreign"}} /\ P!AuthorOf("foreign") \in S
  BY <1>3, <1>5, <1>6 DEF P!Maybe, P!Authors
<1>8. PICK to : to = P!To(s)
  OBVIOUS
<1>9. /\ to.outgoing = S
      /\ to = [remotes |-> to.remotes, branch |-> to.branch, upstream |-> to.upstream,
               github |-> to.github, outgoing |-> S]
  BY <1>5, <1>6, <1>8 DEF P!To, P!Verified
<1>10. CASE P!PushVerdict(s)
  BY <1>7, <1>8, <1>9, <1>10, ForeignBlocks DEF P!PushVerdict
<1>11. CASE P!CpVerdict(s)
  <2>1. PICK T : T = S \union {<<P!Identity.name, P!Identity.email>>}
    OBVIOUS
  <2>2. <<P!Identity.name, P!Identity.email>> = P!AuthorOf("own")
    BY DEF P!Identity, P!AuthorOf, P!Me
  <2>3. T \in SUBSET {P!AuthorOf(w) : w \in {"own", "foreign"}} /\ P!AuthorOf("foreign") \in T
    BY <1>7, <2>1, <2>2
  <2>4. PICK out : out = [to EXCEPT !.outgoing = @ \union {<<P!Identity.name, P!Identity.email>>}]
    OBVIOUS
  <2>5. out.outgoing = T
    BY <1>9, <2>1, <2>4
  <2>6. P!CanPush(P!Repository(commit.repo), P!Me, P!Identity, out)
    BY <1>8, <1>11, <2>4 DEF P!CpVerdict, P!CanCommitAndPush
  <2> QED BY <2>3, <2>5, <2>6, ForeignBlocks
<1> QED BY <1>10, <1>11

\* The push sheet is confirmed.
LEMMA ConfirmPushStep ==
    ASSUME PushInv, P!ConfirmPush
    PROVE  PushInv'
<1> USE DEF PushInv
<1>0. /\ flow \in P!Flow /\ acts \in 0..PushActs /\ remote \in P!RemoteState
      /\ remote.repo \in Repos /\ current \in Branch /\ sheet \in [P!Sides -> P!Sheet]
      /\ jobs \in [Repos -> Seq(P!Job)] /\ sheet["push"] \in P!Sheet /\ "push" \in P!Sides
  BY DEF PushType, FlowType, BoundType, StoreType, ShownType, QueueType, SheetType, P!Sides,
         P!RemoteState
<1>1. /\ UNCHANGED <<pActive, current, mounted, head, ahead, index, made, sent, commit, flow, reads,
                     settling, begun, pMoves>>
      /\ P!Act /\ remote' = P!PushBegun /\ P!Confirmed("push")
      /\ jobs' = P!Enqueue(remote.repo, "push", "user", None, sheet["push"].remote, current)
      /\ sheet' = [sheet EXCEPT !["push"].open = FALSE]
  BY DEF P!ConfirmPush, P!git
<1>2. PICK s : s = sheet["push"]
  OBVIOUS
<1>3. P!PushVerdict(s) /\ P!Verified(s) /\ s.remote # None
  BY <1>2 DEF P!ConfirmPush, P!PushConfirmOffered, P!PushVerdict
<1>4. s \in P!Sheet /\ s.remote \in Remotes
  BY <1>0, <1>2, <1>3 DEF P!Sheet, P!Maybe
<1>5. PICK e : e = [op |-> "push", by |-> "user", id |-> None, repo |-> remote.repo,
                    remote |-> s.remote, branch |-> current]
  OBVIOUS
<1>6. OtherJob(e, remote.repo)
  BY <1>0, <1>3, <1>4, <1>5 DEF OtherJob, P!Job, P!Maybe, Branch
<1>7. jobs' = [jobs EXCEPT ![remote.repo] = Append(@, e)]
  BY <1>1, <1>2, <1>5 DEF P!Enqueue
<1>8. jobs' \in [Repos -> Seq(P!Job)]
  BY <1>0, <1>6, <1>7, QueueGrows DEF OtherJob
<1>9. remote' \in P!RemoteState /\ remote'.repo = remote.repo
  BY <1>0, <1>1 DEF P!PushBegun, P!RemoteState, P!Maybe
<1>10. acts' \in 0..PushActs
  BY <1>0, <1>1, PushAssumption DEF P!Act
<1>11. PICK y : y = [s EXCEPT !.open = FALSE]
  OBVIOUS
<1>12. /\ y \in P!Sheet /\ ~y.open /\ y.remote = s.remote /\ y.choice = s.choice
       /\ y.out = s.out /\ y.read = s.read
  BY <1>4, <1>11 DEF P!Sheet
<1>13. sheet' = [sheet EXCEPT !["push"] = y]
  BY <1>0, <1>1, <1>2, <1>11
<1>14. sheet' \in [P!Sides -> P!Sheet]
  BY <1>0, <1>12, <1>13
<1>15. PushType'
  BY <1>1, <1>8, <1>9, <1>10, <1>14 DEF PushType, ShownType, GitType, StoreType, SheetType, FlowType,
                                        QueueType, BoundType
<1>16. \A x \in P!Sides : /\ sheet'[x].open => sheet[x].open
                          /\ sheet'[x].remote = sheet[x].remote
                          /\ sheet'[x].choice = sheet[x].choice
                          /\ sheet'[x].out = sheet[x].out /\ sheet'[x].read = sheet[x].read
  BY <1>0, <1>2, <1>12, <1>13
<1>17. OpenInv' /\ ReadInv'
  BY <1>1, <1>16 DEF OpenInv, ReadInv, P!Sides
<1>18. SameInv' /\ (OnShown => OnShown') /\ Kept(flow, flow')
  BY <1>0, <1>1, <1>9, SameFlow DEF SameInv, OnShown
<1>19. P!OnlyOwnConfirmed'
  <2>1. s.read = <<remote.repo, current, s.remote>>
           => "foreign" \notin ahead[<<remote.repo, current, s.remote>>]
    BY <1>0, <1>2, <1>3, ConfirmedIsOwn
  <2> QED BY <1>1, <1>2, <2>1 DEF P!Confirmed, P!OnlyOwnConfirmed
<1> QED BY <1>0, <1>1, <1>6, <1>7, <1>15, <1>17, <1>18, <1>19, AddStep

\* A commit that is asked for.
Asked(e, by, m) ==
    /\ e \in P!Job /\ e.op = "commit" /\ e.by = by /\ e.id = begun + 1 /\ e.repo = commit.repo
    /\ e.remote = m /\ e.branch = current
    /\ jobs' = [jobs EXCEPT ![commit.repo] = Append(@, e)] /\ jobs' \in [Repos -> Seq(P!Job)]
    /\ begun' = begun + 1 /\ begun' \in 0..MaxCommits
    /\ commit' \in P!CommitState /\ commit'.repo = commit.repo /\ commit'.hash = None
    /\ WorkOf(jobs', settling, made, begun')

\* doCommit queues a commit with the next number, and forgets the last hash.
LEMMA CommitAsked ==
    ASSUME PushInv, NEW by \in {"user", "flow"}, NEW m \in P!Maybe(Remotes),
           by = "flow" => m # None, P!DoCommit(by, m)
    PROVE  \E e : Asked(e, by, m)
<1> USE DEF PushInv
<1>0. /\ commit \in P!CommitState /\ commit.repo \in Repos /\ current \in Branch
      /\ begun \in Nat /\ begun < MaxCommits /\ MaxCommits \in Nat
      /\ jobs \in [Repos -> Seq(P!Job)] /\ WorkOf(jobs, settling, made, begun)
  BY PushAssumption DEF PushType, StoreType, ShownType, BoundType, QueueType, P!CommitState, WorkInv,
                        P!DoCommit
<1>1. PICK last \in Nat : last = begun
  BY <1>0
<1>2. PICK next \in Nat : next = last + 1 /\ last <= next /\ next <= MaxCommits /\ next \in 1..next
                          /\ next \in P!Ids /\ next \in 0..MaxCommits
  BY <1>0, <1>1 DEF P!Ids
<1>3. PICK e : e = [op |-> "commit", by |-> by, id |-> next, repo |-> commit.repo, remote |-> m,
                    branch |-> current]
  OBVIOUS
<1>4. e \in P!Job
  BY <1>0, <1>2, <1>3 DEF P!Job, P!Maybe, Branch
<1>5. JobOf(e, next) /\ e.repo = commit.repo /\ (e.op = "commit" => e.id = last + 1)
  BY <1>2, <1>3 DEF JobOf
<1>6. PICK p : p = [jobs EXCEPT ![commit.repo] = Append(@, e)]
  OBVIOUS
<1>7. jobs' = p
  BY <1>1, <1>2, <1>3, <1>6 DEF P!DoCommit, P!Enqueue
<1>8. WorkOf(p, settling, made, next) /\ p \in [Repos -> Seq(P!Job)]
  <2>1. WorkOf(jobs, settling, made, last) /\ jobs \in [Repos -> Seq(P!Job)]
    BY <1>0, <1>1
  <2>2. PICK s \in Repos : s = commit.repo
    BY <1>0
  <2>3. p = [jobs EXCEPT ![s] = Append(@, e)] /\ e.repo = s
    BY <1>5, <1>6, <2>2
  <2>4. /\ last <= next /\ next <= MaxCommits /\ last \in Nat /\ next \in Nat
        /\ e \in P!Job /\ s \in Repos
    BY <1>2, <1>4
  <2>5. JobOf(e, next) /\ (e.op = "commit" => e.id = last + 1)
    BY <1>5
  <2>6. WorkOf(p, settling, made, next)
    BY <2>1, <2>3, <2>4, <2>5, AddWork
  <2>7. p \in [Repos -> Seq(P!Job)]
    BY <2>1, <2>3, <2>4, <2>5, AddWork
  <2> QED BY <2>6, <2>7
<1>9. begun' = next
  BY <1>1, <1>2 DEF P!DoCommit
<1>10. commit' \in P!CommitState /\ commit'.repo = commit.repo /\ commit'.hash = None
  <2>1. commit' = [commit EXCEPT !.busy = TRUE, !.error = FALSE, !.hash = None, !.newest = next]
    BY <1>1, <1>2 DEF P!DoCommit
  <2> QED BY <1>0, <1>2, <2>1 DEF P!CommitState, P!Maybe
<1>11. Asked(e, by, m)
  BY <1>1, <1>2, <1>3, <1>4, <1>6, <1>7, <1>8, <1>9, <1>10 DEF Asked
<1> QED BY <1>11

\* A commit that no push follows.
LEMMA CommitStep ==
    ASSUME PushInv, P!Commit
    PROVE  PushInv'
<1> USE DEF PushInv
<1>0. /\ flow \in P!Flow /\ acts \in 0..PushActs /\ commit.repo \in Repos
      /\ begun \in Nat /\ begun < MaxCommits /\ jobs \in [Repos -> Seq(P!Job)]
      /\ FlowWorkOf(jobs, settling, begun, flow)
  BY PushAssumption DEF PushType, FlowType, BoundType, StoreType, QueueType, FlowWorkInv,
                        P!Commit, P!DoCommit, P!CommitState
<1>1. /\ UNCHANGED <<pActive, current, mounted, head, ahead, index, made, sent, remote, sheet, reads,
                     settling, event, pMoves>>
      /\ P!Act /\ P!Disturb /\ P!DoCommit("user", None)
  BY DEF P!Commit, P!git
<1>2. PICK e : Asked(e, "user", None)
  BY <1>1, CommitAsked DEF P!Maybe
<1>3. Kept(flow, flow') /\ flow'.disturbed = (flow.stage # "idle")
  BY <1>0, <1>1, DisturbKeeps
<1>4. PICK last \in Nat, next \in Nat :
         last = begun /\ next = begun' /\ next = last + 1 /\ last <= next /\ next <= MaxCommits
  BY <1>0, <1>2, PushAssumption DEF Asked
<1>5. PICK p : p = [jobs EXCEPT ![commit.repo] = Append(@, e)] /\ jobs' = p
  BY <1>2 DEF Asked
<1>6. FlowWorkOf(p, settling, next, flow)
  <2>1. e \in P!Job /\ ~OfFlow(e) /\ (e.id = None \/ e.id = last + 1)
    BY <1>2, <1>4 DEF Asked, OfFlow
  <2>2. FlowWorkOf(jobs, settling, last, flow)
    BY <1>0, <1>4
  <2> QED BY <1>0, <1>4, <1>5, <2>1, <2>2, AddOther
<1>7. FlowWorkInv'
  <2>1. FlowWorkOf(p, settling, next, flow')
    BY <1>3, <1>6, FlowWorkKept
  <2> QED BY <1>1, <1>4, <1>5, <2>1 DEF FlowWorkInv
<1>8. WorkInv'
  BY <1>1, <1>2 DEF WorkInv, Asked
<1>9. acts' \in 0..PushActs
  BY <1>0, <1>1, PushAssumption DEF P!Act
<1>10. PushType'
  BY <1>1, <1>2, <1>3, <1>9 DEF PushType, ShownType, GitType, StoreType, SheetType, FlowType,
                                QueueType, BoundType, Kept, Asked
<1>11. OpenInv' /\ ReadInv' /\ SameInv' /\ P!OnlyOwnConfirmed'
  BY <1>1, <1>2, <1>3 DEF OpenInv, ReadInv, SameInv, OnShown, P!OnlyOwnConfirmed, Kept, Asked
<1>12. P!FlowTellsTruth'
  BY <1>1, <1>3, TruthKept
<1>13. FlowInv'
  BY <1>3 DEF FlowInv, Kept
<1> QED BY <1>7, <1>8, <1>10, <1>11, <1>12, <1>13

\* The flow's commit: nothing disturbs it if no other is pending and the branch
\* shown is the one checked out.
LEMMA ConfirmCpStep ==
    ASSUME PushInv, P!ConfirmCp
    PROVE  PushInv'
<1> USE DEF PushInv
<1>0. /\ flow \in P!Flow /\ acts \in 0..PushActs /\ commit.repo \in Repos
      /\ begun \in Nat /\ begun < MaxCommits /\ jobs \in [Repos -> Seq(P!Job)]
      /\ settling \in SUBSET P!Job /\ "cp" \in P!Sides
      /\ FlowWorkOf(jobs, settling, begun, flow) /\ WorkOf(jobs, settling, made, begun)
  BY PushAssumption DEF PushType, FlowType, BoundType, StoreType, QueueType, FlowWorkInv, WorkInv,
                        P!ConfirmCp, P!DoCommit, P!CommitState, P!Sides
<1>1. /\ UNCHANGED <<pActive, current, mounted, head, ahead, index, made, sent, remote, sheet, reads,
                     settling, pMoves>>
      /\ P!Act /\ P!DoCommit("flow", flow.remote) /\ P!Confirmed("cp")
      /\ flow' = [flow EXCEPT !.stage = "committing", !.id = begun + 1,
                     !.disturbed = P!Committing # {} \/ current # head[commit.repo]]
  BY DEF P!ConfirmCp, P!git
<1>2. PICK s : s = sheet["cp"]
  OBVIOUS
<1>3. /\ mounted /\ flow.stage = "confirming" /\ ~sheet["cp"].choice
      /\ P!CpVerdict(s) /\ P!Verified(s)
  BY <1>2 DEF P!ConfirmCp, P!CpConfirmOffered
<1>4. flow.remote # None /\ flow.remote \in P!Maybe(Remotes)
  BY <1>0, <1>3 DEF OpenInv, P!Flow
<1>5. PICK e : Asked(e, "flow", flow.remote)
  BY <1>1, <1>4, CommitAsked
<1>6. PICK last \in Nat, next \in Nat :
         /\ last = begun /\ next = begun' /\ next = last + 1 /\ last <= next /\ next <= MaxCommits
         /\ next \in P!Ids
  BY <1>0, <1>5, PushAssumption DEF Asked, P!Ids
<1>7. PICK d : d = (P!Committing # {} \/ current # head[commit.repo])
  OBVIOUS
<1>8. /\ flow' \in P!Flow /\ flow'.stage = "committing" /\ flow'.id = next
      /\ flow'.remote = flow.remote
      /\ ~flow'.disturbed => P!Committing = {} /\ current = head[commit.repo]
  <2>1. CASE P!Committing # {} \/ current # head[commit.repo]
    <3>1. flow' = [flow EXCEPT !.stage = "committing", !.id = next, !.disturbed = TRUE]
      BY <1>1, <1>6, <2>1
    <3> QED BY <1>0, <1>6, <3>1 DEF P!Flow, P!Maybe
  <2>2. CASE ~(P!Committing # {} \/ current # head[commit.repo])
    <3>1. flow' = [flow EXCEPT !.stage = "committing", !.id = next, !.disturbed = FALSE]
      BY <1>1, <1>6, <2>2
    <3> QED BY <1>0, <1>6, <2>2, <3>1 DEF P!Flow, P!Maybe
  <2> QED BY <2>1, <2>2
<1>9. PICK p : p = [jobs EXCEPT ![commit.repo] = Append(@, e)] /\ jobs' = p
  BY <1>5 DEF Asked
<1>10. FlowWorkInv'
  <2>1. e \in P!Job /\ e.op = "commit" /\ e.id = flow'.id /\ e.remote = flow'.remote
    BY <1>5, <1>6, <1>8 DEF Asked
  <2>2. FlowWorkOf(jobs, settling, last, flow) /\ WorkOf(jobs, settling, made, last)
    BY <1>0, <1>6
  <2>3. PICK to : to = flow'
    OBVIOUS
  <2>4. FlowWorkOf(p, settling, last + 1, to)
    BY <1>0, <1>3, <1>6, <1>8, <1>9, <2>1, <2>2, <2>3, FlowCommits
  <2> QED BY <1>1, <1>6, <1>9, <2>3, <2>4 DEF FlowWorkInv
<1>11. WorkInv'
  BY <1>1, <1>5 DEF WorkInv, Asked
<1>12. acts' \in 0..PushActs
  BY <1>0, <1>1, PushAssumption DEF P!Act
<1>13. PushType'
  BY <1>1, <1>5, <1>8, <1>12 DEF PushType, ShownType, GitType, StoreType, SheetType, FlowType,
                                 QueueType, BoundType, Asked
<1>14. OpenInv' /\ ReadInv' /\ SameInv'
  BY <1>1, <1>3, <1>4, <1>5, <1>8 DEF OpenInv, ReadInv, SameInv, OnShown, Asked
<1>15. P!OnlyOwnConfirmed'
  <2>1. s.read = <<remote.repo, current, s.remote>>
           => "foreign" \notin ahead[<<remote.repo, current, s.remote>>]
    BY <1>0, <1>2, <1>3, ConfirmedIsOwn
  <2> QED BY <1>1, <1>2, <2>1 DEF P!Confirmed, P!OnlyOwnConfirmed
<1>16. P!FlowTellsTruth'
  BY <1>8 DEF P!FlowTellsTruth
<1>17. FlowInv'
  <2> SUFFICES ASSUME ~flow'.disturbed  PROVE CommitsOf(jobs, settling, flow)'
    BY <1>8 DEF FlowInv
  <2>1. P!Committing = {} /\ current = head[commit.repo]
    BY <1>8
  <2>2. OnShown /\ OnShown'
    BY <1>1, <1>3, <1>5 DEF SameInv, OnShown, Asked
  <2>3. \A j \in settling : j.op = "commit" /\ JobOf(j, begun)
    BY <1>0 DEF WorkOf
  <2>4. \A i : i \in 1..begun => i \in P!Ids
    BY <1>0, PushAssumption DEF P!Ids
  <2>5. \A j \in settling : FALSE
    BY <2>1, <2>3, <2>4 DEF P!Committing, JobOf
  <2>6. \A r \in Repos : \A k \in DOMAIN jobs[r] : jobs[r][k].op # "commit"
    <3>1. \A r \in Repos : \A k \in DOMAIN jobs[r] : JobOf(jobs[r][k], begun)
      BY <1>0 DEF WorkOf
    <3> QED BY <2>1, <2>4, <3>1 DEF P!Committing, JobOf
  <2>7. \A r \in Repos : \A k \in DOMAIN jobs'[r] :
           \/ k \in DOMAIN jobs[r] /\ jobs'[r][k] = jobs[r][k]
           \/ r = commit.repo /\ jobs'[r][k] = e
    BY <1>0, <1>5, QueueGrows DEF Asked
  <2>8. /\ OfFlow(e) /\ e.branch = head'[pActive'] /\ commit.repo = pActive' /\ commit'.hash = None
    BY <1>1, <1>5, <2>1, <2>2 DEF Asked, OfFlow, OnShown
  <2> QED BY <1>1, <2>2, <2>5, <2>6, <2>7, <2>8 DEF CommitsOf
<1> QED BY <1>10, <1>11, <1>13, <1>14, <1>15, <1>16, <1>17

-----------------------------------------------------------------------------
(* What main runs.                                                         *)

\* A job has run, and the flow goes on as it was.
LEMMA DropStep ==
    ASSUME PushInv, NEW r \in Repos, jobs[r] # <<>>, jobs' = P!Dequeued(r),
           PushType', OpenInv', ReadInv', SameInv', Kept(flow, flow'),
           UNCHANGED <<pActive, head, settling, made, event, begun>>, sent \subseteq sent',
           OnShown => OnShown' /\ commit'.hash = commit.hash
    PROVE  PushInv'
<1>1. /\ jobs \in [Repos -> Seq(P!Job)]
      /\ WorkOf(jobs, settling, made, begun) /\ FlowWorkOf(jobs, settling, begun, flow)
  BY DEF PushInv, PushType, QueueType, WorkInv, FlowWorkInv
<1>2. PICK p : p = [jobs EXCEPT ![r] = Tail(@)] /\ jobs' = p
  BY DEF P!Dequeued
<1>3. WorkOf(p, settling, made, begun)
  BY <1>1, <1>2, DropWork
<1>4. FlowWorkOf(p, settling, begun, flow')
  <2>1. FlowWorkOf(p, settling, begun, flow)
    BY <1>1, <1>2, DropFlowWork
  <2> QED BY <2>1, FlowWorkKept
<1>5. WorkInv' /\ FlowWorkInv'
  BY <1>2, <1>3, <1>4 DEF WorkInv, FlowWorkInv
<1>6. \A s \in Repos : \A k \in DOMAIN p[s] : \E l \in DOMAIN jobs[s] : p[s][k] = jobs[s][l]
  <2>1. /\ p[r] \in Seq(P!Job)
        /\ \A k \in DOMAIN p[r] : k + 1 \in DOMAIN jobs[r] /\ p[r][k] = jobs[r][k + 1]
    BY <1>1, <1>2, TailPlaces
  <2>2. \A s \in Repos \ {r} : p[s] = jobs[s]
    BY <1>1, <1>2
  <2> QED BY <2>1, <2>2
<1>7. ~flow'.disturbed /\ flow'.stage = "committing" => CommitsOf(jobs, settling, flow)'
  BY <1>2, <1>6 DEF PushInv, FlowInv, Kept, CommitsOf
<1>8. ~flow'.disturbed /\ flow'.stage = "pushing" => PushesOf(jobs, flow)'
  <2> SUFFICES ASSUME ~flow'.disturbed, flow'.stage = "pushing",
                      NEW s \in Repos, NEW k \in DOMAIN p[s], FlowPush(p[s][k])
               PROVE  <<flow.id, s, p[s][k].branch>> \in made
    BY <1>2 DEF PushesOf, Kept
  <2>1. PICK l \in DOMAIN jobs[s] : p[s][k] = jobs[s][l]
    BY <1>6
  <2>2. PushesOf(jobs, flow)
    BY DEF PushInv, FlowInv, Kept
  <2> QED BY <2>1, <2>2 DEF PushesOf
<1>9. P!FlowTellsTruth' /\ P!OnlyOwnConfirmed'
  BY TruthKept DEF PushInv, P!OnlyOwnConfirmed
<1> QED BY <1>5, <1>7, <1>8, <1>9 DEF PushInv, FlowInv

\* The queues are still queues.
LEMMA Dropped ==
    ASSUME PushInv, NEW r \in Repos, jobs[r] # <<>>
    PROVE  /\ P!Dequeued(r) \in [Repos -> Seq(P!Job)]
           /\ P!Job1(r) \in P!Job /\ P!Job1(r).repo = r /\ JobOf(P!Job1(r), begun)
           /\ FlowJob(P!Job1(r), flow) /\ 1 \in DOMAIN jobs[r]
<1>1. /\ jobs \in [Repos -> Seq(P!Job)]
      /\ WorkOf(jobs, settling, made, begun) /\ FlowWorkOf(jobs, settling, begun, flow)
  BY DEF PushInv, PushType, QueueType, WorkInv, FlowWorkInv
<1>2. PICK p : p = [jobs EXCEPT ![r] = Tail(@)]
  OBVIOUS
<1>3. p \in [Repos -> Seq(P!Job)]
  BY <1>1, <1>2, DropWork
<1>4. 1 \in DOMAIN jobs[r] /\ jobs[r][1] \in P!Job
  BY <1>1
<1> QED BY <1>1, <1>2, <1>3, <1>4 DEF P!Dequeued, P!Job1, WorkOf, FlowWorkOf

\* A fetch that ran.
LEMMA FetchRunsStep ==
    ASSUME PushInv, NEW r \in Repos, NEW ok \in BOOLEAN, P!FetchRuns(r, ok)
    PROVE  PushInv'
<1> USE DEF PushInv
<1>0. /\ flow \in P!Flow /\ remote \in P!RemoteState /\ pMoves \in 0..PushMoves
      /\ P!Dequeued(r) \in [Repos -> Seq(P!Job)]
  BY Dropped DEF PushType, FlowType, BoundType, StoreType, P!FetchRuns, P!Has
<1>1. /\ UNCHANGED <<pActive, current, mounted, head, ahead, index, made, sent, commit, sheet, reads,
                     settling, event, begun, acts>>
      /\ jobs[r] # <<>> /\ jobs' = P!Dequeued(r)
      /\ IF ok THEN UNCHANGED <<pMoves, flow>> ELSE P!Fails /\ P!Disturb
  BY DEF P!FetchRuns, P!Has, P!git
<1>2. PICK ended : ended = [remote EXCEPT !.fetching = None, !.success = ok \/ @, !.error = ~ok \/ @]
  OBVIOUS
<1>3. ended \in P!RemoteState /\ ended.repo = remote.repo
  BY <1>0, <1>2 DEF P!RemoteState, P!Maybe
<1>4. remote' = IF ok /\ remote.repo = r THEN P!BeginRemoteLoad(ended, r) ELSE ended
  BY <1>2 DEF P!FetchRuns
<1>5. remote' \in P!RemoteState /\ remote'.repo = remote.repo
  BY <1>3, <1>4, RemoteLoadType
<1>6. Kept(flow, flow') /\ pMoves' \in 0..PushMoves
  BY <1>0, <1>1, DisturbKeeps, SameFlow, PushAssumption DEF P!Fails
<1>7. PushType'
  BY <1>0, <1>1, <1>5, <1>6 DEF PushType, ShownType, GitType, StoreType, SheetType, FlowType,
                                QueueType, BoundType, Kept
<1>8. OpenInv' /\ ReadInv' /\ SameInv' /\ (OnShown => OnShown')
  BY <1>1, <1>5, <1>6 DEF OpenInv, ReadInv, SameInv, OnShown, Kept
<1> QED BY <1>1, <1>6, <1>7, <1>8, DropStep

\* Commits of others come to be ahead: the lists of authors they belong on are of no use.
LEMMA BringKeeps ==
    ASSUME PushInv, NEW B, P!Bring(B)
    PROVE  /\ ahead' \in [P!Targets -> P!Authors] /\ sheet' \in [P!Sides -> P!Sheet] /\ ReadInv'
           /\ \A x \in P!Sides : /\ sheet'[x].open = sheet[x].open
                                 /\ sheet'[x].remote = sheet[x].remote
                                 /\ sheet'[x].choice = sheet[x].choice
<1>1. ahead \in [P!Targets -> P!Authors] /\ sheet \in [P!Sides -> P!Sheet]
  BY DEF PushInv, PushType, GitType, SheetType
<1>2. ahead' \in [P!Targets -> P!Authors] /\ \A t \in P!Targets \ B : ahead'[t] = ahead[t]
  BY <1>1 DEF P!Bring, P!Authors
<1>3. \A s \in P!Sheet : /\ [s EXCEPT !.read = None] \in P!Sheet
                         /\ [s EXCEPT !.read = None].open = s.open
                         /\ [s EXCEPT !.read = None].remote = s.remote
                         /\ [s EXCEPT !.read = None].choice = s.choice
                         /\ [s EXCEPT !.read = None].read = None
  BY DEF P!Sheet, P!Maybe
<1>4. sheet' = [x \in P!Sides |-> IF sheet[x].read \in B THEN [sheet[x] EXCEPT !.read = None]
                                                         ELSE sheet[x]]
  BY DEF P!Bring
<1>5. /\ sheet' \in [P!Sides -> P!Sheet]
      /\ \A x \in P!Sides : /\ sheet'[x].open = sheet[x].open
                            /\ sheet'[x].remote = sheet[x].remote
                            /\ sheet'[x].choice = sheet[x].choice
                            /\ sheet'[x].read # None => sheet'[x] = sheet[x] /\ sheet[x].read \notin B
  BY <1>1, <1>3, <1>4
<1>6. \A x \in P!Sides : sheet[x].read # None => sheet[x].read \in P!Targets
  BY <1>1 DEF P!Sheet, P!Maybe
<1>7. ReadInv'
  BY <1>2, <1>5, <1>6 DEF PushInv, ReadInv
<1> QED BY <1>2, <1>5, <1>7

\* A pull that ran, or refused.
LEMMA PullRunsStep ==
    ASSUME PushInv, NEW r \in Repos, NEW ok \in BOOLEAN, P!PullRuns(r, ok)
    PROVE  PushInv'
<1> USE DEF PushInv
<1>0. /\ flow \in P!Flow /\ remote \in P!RemoteState /\ pMoves \in 0..PushMoves
      /\ P!Dequeued(r) \in [Repos -> Seq(P!Job)] /\ P!Job1(r) \in P!Job /\ head[r] \in Branch
  BY Dropped DEF PushType, FlowType, BoundType, StoreType, GitType, P!PullRuns, P!Has
<1>1. /\ UNCHANGED <<pActive, current, mounted, head, index, made, sent, commit, reads,
                     settling, event, begun, acts>>
      /\ jobs[r] # <<>> /\ jobs' = P!Dequeued(r)
      /\ pMoves' = pMoves \/ P!Fails
  BY DEF P!PullRuns, P!Has
<1>2. Kept(flow, flow') /\ pMoves' \in 0..PushMoves
  BY <1>0, <1>1, DisturbKeeps, SameFlow, PushAssumption DEF P!Fails, P!PullRuns
<1>3. PICK job \in P!Job : job = P!Job1(r)
  BY <1>0
<1>4. \/ /\ P!Bring({<<r, head[r], m>> : m \in Remotes \ {job.remote}})
         /\ remote' = [remote EXCEPT !.pulling = None, !.success = TRUE]
      \/ /\ remote' = [remote EXCEPT !.error = TRUE, !.pulling = None,
                         !.failure = [op |-> "pull", remote |-> job.remote, branch |-> job.branch]]
         /\ UNCHANGED <<ahead, sheet>>
  BY <1>3 DEF P!PullRuns
<1>5. remote' \in P!RemoteState /\ remote'.repo = remote.repo
  <2>1. [op |-> "pull", remote |-> job.remote, branch |-> job.branch] \in P!Failure
    BY DEF P!Job, P!Failure, P!Maybe
  <2> QED BY <1>0, <1>4, <2>1 DEF P!RemoteState, P!Maybe
<1>6. /\ ahead' \in [P!Targets -> P!Authors] /\ sheet' \in [P!Sides -> P!Sheet] /\ ReadInv'
      /\ \A x \in P!Sides : /\ sheet'[x].open = sheet[x].open
                            /\ sheet'[x].remote = sheet[x].remote
                            /\ sheet'[x].choice = sheet[x].choice
  <2>1. CASE P!Bring({<<r, head[r], m>> : m \in Remotes \ {job.remote}})
    BY <2>1, BringKeeps
  <2>2. CASE UNCHANGED <<ahead, sheet>>
    BY <2>2 DEF PushType, GitType, SheetType, ReadInv
  <2> QED BY <1>4, <2>1, <2>2
<1>7. PushType'
  BY <1>0, <1>1, <1>2, <1>5, <1>6 DEF PushType, ShownType, GitType, StoreType, SheetType, FlowType,
                                      QueueType, BoundType, Kept
<1>8. OpenInv' /\ SameInv' /\ (OnShown => OnShown')
  BY <1>1, <1>2, <1>5, <1>6 DEF OpenInv, SameInv, OnShown, Kept, P!Sides
<1> QED BY <1>1, <1>2, <1>6, <1>7, <1>8, DropStep

\* The remedy of a pull that ran, or refused.
LEMMA MergeRunsStep ==
    ASSUME PushInv, NEW r \in Repos, NEW ok \in BOOLEAN, P!MergeRuns(r, ok)
    PROVE  PushInv'
<1> USE DEF PushInv
<1>0. /\ flow \in P!Flow /\ remote \in P!RemoteState /\ pMoves \in 0..PushMoves
      /\ P!Dequeued(r) \in [Repos -> Seq(P!Job)] /\ pActive \in Repos
      /\ commit \in P!CommitState /\ index \in [Repos -> SUBSET P!Columns]
  BY Dropped DEF PushType, FlowType, BoundType, StoreType, GitType, ShownType, P!MergeRuns, P!Has
<1>1. /\ UNCHANGED <<pActive, current, mounted, head, made, sent, flow, reads, settling, event,
                     begun, acts>>
      /\ jobs[r] # <<>> /\ jobs' = P!Dequeued(r)
      /\ pMoves' = pMoves \/ P!Fails
  BY DEF P!MergeRuns, P!Has
<1>2. Kept(flow, flow') /\ pMoves' \in 0..PushMoves
  BY <1>0, <1>1, SameFlow, PushAssumption DEF P!Fails
<1>3. PICK job : job = P!Job1(r)
  OBVIOUS
<1>4. PICK cleared : cleared = [remote EXCEPT !.success = FALSE, !.failure = None]
  OBVIOUS
<1>5. PICK refused : refused = [op |-> "refused", remote |-> None, branch |-> None]
  OBVIOUS
<1>6. \/ /\ P!Bring({<<r, head[r], m>> : m \in Remotes \ {job.remote}})
         /\ remote' = P!BeginRemoteLoad(cleared, pActive)
         /\ commit' = P!BeginCommitLoad(pActive)
         /\ UNCHANGED index
      \/ /\ index' = [index EXCEPT ![r] = {"conflicted"}] \/ index' = index
         /\ remote' = [remote EXCEPT !.error = TRUE, !.failure = refused]
         /\ UNCHANGED <<ahead, sheet, commit>>
  BY <1>3, <1>4, <1>5 DEF P!MergeRuns
<1>7. cleared \in P!RemoteState /\ refused \in P!Failure
  BY <1>0, <1>4, <1>5 DEF P!RemoteState, P!Maybe, P!Failure
<1>8. /\ remote' \in P!RemoteState /\ commit' \in P!CommitState
      /\ index' \in [Repos -> SUBSET P!Columns]
      /\ \/ commit' = commit /\ remote'.repo = remote.repo
         \/ /\ commit'.repo = pActive /\ remote'.repo = pActive
            /\ commit.repo = pActive => commit'.hash = commit.hash
  <2>1. CASE /\ remote' = P!BeginRemoteLoad(cleared, pActive)
             /\ commit' = P!BeginCommitLoad(pActive)
             /\ UNCHANGED index
    BY <1>0, <1>7, <2>1, CommitLoadType, RemoteLoadType
  <2>2. CASE /\ index' = [index EXCEPT ![r] = {"conflicted"}] \/ index' = index
             /\ remote' = [remote EXCEPT !.error = TRUE, !.failure = refused]
             /\ UNCHANGED commit
    <3>1. remote' \in P!RemoteState /\ remote'.repo = remote.repo
      BY <1>0, <1>7, <2>2 DEF P!RemoteState, P!Maybe
    <3>2. index' \in [Repos -> SUBSET P!Columns]
      BY <1>0, <2>2 DEF P!Columns
    <3> QED BY <1>0, <2>2, <3>1, <3>2
  <2> QED BY <1>6, <2>1, <2>2
<1>9. /\ ahead' \in [P!Targets -> P!Authors] /\ sheet' \in [P!Sides -> P!Sheet] /\ ReadInv'
      /\ \A x \in P!Sides : /\ sheet'[x].open = sheet[x].open
                            /\ sheet'[x].remote = sheet[x].remote
                            /\ sheet'[x].choice = sheet[x].choice
  <2>1. CASE P!Bring({<<r, head[r], m>> : m \in Remotes \ {job.remote}})
    BY <2>1, BringKeeps
  <2>2. CASE UNCHANGED <<ahead, sheet>>
    BY <2>2 DEF PushType, GitType, SheetType, ReadInv
  <2> QED BY <1>6, <2>1, <2>2
<1>10. PushType'
  BY <1>0, <1>1, <1>2, <1>8, <1>9 DEF PushType, ShownType, GitType, StoreType, SheetType, FlowType,
                                      QueueType, BoundType, Kept
<1>11. OnShown => OnShown' /\ commit'.hash = commit.hash
  BY <1>1, <1>8 DEF OnShown
<1>12. OpenInv' /\ SameInv'
  BY <1>1, <1>2, <1>9, <1>11 DEF OpenInv, SameInv, Kept, P!Sides
<1> QED BY <1>1, <1>2, <1>9, <1>10, <1>11, <1>12, DropStep

\* A push that ran: all that was ahead is there.
LEMMA PushRunsStep ==
    ASSUME PushInv, NEW r \in Repos, NEW ok \in BOOLEAN, P!PushRuns(r, ok)
    PROVE  PushInv'
<1> USE DEF PushInv
<1>0. /\ flow \in P!Flow /\ remote \in P!RemoteState /\ pMoves \in 0..PushMoves
      /\ P!Dequeued(r) \in [Repos -> Seq(P!Job)] /\ P!Job1(r) \in P!Job /\ pActive \in Repos
      /\ commit \in P!CommitState /\ ahead \in [P!Targets -> P!Authors]
      /\ JobOf(P!Job1(r), begun) /\ FlowJob(P!Job1(r), flow) /\ 1 \in DOMAIN jobs[r]
      /\ jobs \in [Repos -> Seq(P!Job)]
      /\ WorkOf(jobs, settling, made, begun) /\ FlowWorkOf(jobs, settling, begun, flow)
      /\ made \subseteq P!Ids \X Repos \X Branch /\ sent \subseteq P!Ids \X Remotes
  BY Dropped DEF PushType, FlowType, BoundType, StoreType, GitType, ShownType, QueueType,
                 P!PushRuns, P!Has, WorkInv, FlowWorkInv
<1>1. PICK job \in P!Job : job = P!Job1(r)
  BY <1>0
<1>2. /\ UNCHANGED <<pActive, current, mounted, head, index, made, sheet, reads, settling, event,
                     begun, acts>>
      /\ jobs[r] # <<>> /\ jobs' = P!Dequeued(r) /\ job.op = "push"
      /\ pMoves' = pMoves \/ P!Fails
  BY <1>1 DEF P!PushRuns, P!Has
<1>3. job.remote \in Remotes /\ job.branch \in Branch /\ job.remote # None
  BY <1>0, <1>1, <1>2 DEF JobOf, P!Job, P!Maybe, Branch
<1>4. PICK reached : reached = {<<c[1], job.remote>> : c \in {x \in made : x[2] = r /\ x[3] = job.branch}}
  OBVIOUS
<1>5. PICK target : target = <<r, job.branch, job.remote>>
  OBVIOUS
<1>6. IF ok THEN ahead' = [ahead EXCEPT ![target] = {}] /\ sent' = sent \union reached
            ELSE UNCHANGED <<ahead, sent>>
  BY <1>1, <1>4, <1>5 DEF P!PushRuns
<1>7. /\ ahead' \in [P!Targets -> P!Authors] /\ sent \subseteq sent' /\ sent' \subseteq P!Ids \X Remotes
      /\ \A t \in P!Targets : ahead'[t] = ahead[t] \/ ahead'[t] = {}
      /\ pMoves' \in 0..PushMoves
  <2>1. reached \subseteq P!Ids \X Remotes
    BY <1>0, <1>3, <1>4
  <2>2. pMoves' \in 0..PushMoves
    BY <1>0, <1>2, PushAssumption DEF P!Fails
  <2>3. {} \in P!Authors
    BY DEF P!Authors
  <2> QED BY <1>0, <1>6, <2>1, <2>2, <2>3
<1>8. PICK failed \in P!Failure :
         failed = IF job.by = "retry" THEN [op |-> "push", remote |-> None, branch |-> None]
                  ELSE [op |-> "push", remote |-> job.remote, branch |-> job.branch]
  <2>1. /\ [op |-> "push", remote |-> None, branch |-> None] \in P!Failure
        /\ [op |-> "push", remote |-> job.remote, branch |-> job.branch] \in P!Failure
    BY <1>3 DEF P!Failure, P!Maybe, Branch
  <2> QED BY <2>1
<1>9. PICK cleared : cleared = [remote EXCEPT !.success = FALSE, !.failure = None]
  OBVIOUS
<1>10. cleared \in P!RemoteState
  BY <1>0, <1>9 DEF P!RemoteState, P!Maybe
<1>11. \/ /\ job.by # "retry" /\ UNCHANGED commit
          /\ remote' = [remote EXCEPT !.pushing = FALSE, !.success = ok \/ @,
                           !.error = ~ok \/ @, !.failure = IF ok THEN @ ELSE failed]
       \/ /\ remote' = P!BeginRemoteLoad(cleared, pActive)
          /\ commit' = P!BeginCommitLoad(pActive)
       \/ remote' = [remote EXCEPT !.error = TRUE, !.failure = failed] /\ UNCHANGED commit
  BY <1>1, <1>8, <1>9 DEF P!PushRuns
<1>12. /\ remote' \in P!RemoteState /\ commit' \in P!CommitState
       /\ \/ commit' = commit /\ remote'.repo = remote.repo
          \/ /\ commit'.repo = pActive /\ remote'.repo = pActive
             /\ commit.repo = pActive => commit'.hash = commit.hash
  <2>1. CASE remote' = P!BeginRemoteLoad(cleared, pActive) /\ commit' = P!BeginCommitLoad(pActive)
    BY <1>0, <1>10, <2>1, CommitLoadType, RemoteLoadType
  <2>2. CASE /\ UNCHANGED commit
             /\ remote' = [remote EXCEPT !.pushing = FALSE, !.success = ok \/ @,
                             !.error = ~ok \/ @, !.failure = IF ok THEN @ ELSE failed]
    <3>1. PICK fails : fails = IF ok THEN remote.failure ELSE failed
      OBVIOUS
    <3>5. remote.failure \in P!Maybe(P!Failure)
      BY <1>0 DEF P!RemoteState
    <3>6. failed \in P!Maybe(P!Failure)
      BY DEF P!Maybe
    <3>2. fails \in P!Maybe(P!Failure) /\ commit' = commit
      BY <2>2, <3>1, <3>5, <3>6
    <3>3. remote' = [remote EXCEPT !.pushing = FALSE, !.success = ok \/ remote.success,
                       !.error = ~ok \/ remote.error, !.failure = fails]
      BY <1>0, <2>2, <3>1 DEF P!RemoteState
    <3>4. remote' \in P!RemoteState /\ remote'.repo = remote.repo
      BY <1>0, <3>2, <3>3 DEF P!RemoteState
    <3> QED BY <1>0, <3>2, <3>4
  <2>3. CASE remote' = [remote EXCEPT !.error = TRUE, !.failure = failed] /\ UNCHANGED commit
    BY <1>0, <1>8, <2>3 DEF P!RemoteState, P!Maybe
  <2> QED BY <1>11, <2>1, <2>2, <2>3
<1>13. flow' = IF job.by # "flow" THEN flow
               ELSE [flow EXCEPT !.stage = IF remote'.error THEN "push-failed" ELSE "done"]
  BY <1>1 DEF P!PushRuns, P!AfterPush
<1>14. flow' \in P!Flow /\ flow'.remote = flow.remote
  BY <1>0, <1>13 DEF P!Flow
<1>15. PushType'
  BY <1>0, <1>2, <1>7, <1>12, <1>14 DEF PushType, ShownType, GitType, StoreType, SheetType, FlowType,
                                      QueueType, BoundType
<1>16. OnShown => OnShown' /\ commit'.hash = commit.hash
  BY <1>2, <1>12 DEF OnShown
<1>17. SameInv' /\ ReadInv'
  <2>1. \A x \in P!Sides : sheet[x].read # None => sheet[x].read \in P!Targets
    BY DEF PushType, SheetType, P!Sheet, P!Maybe
  <2>2. ReadInv'
    BY <1>2, <1>7, <2>1 DEF ReadInv
  <2> QED BY <1>2, <1>12, <1>16, <2>2 DEF SameInv, OnShown
<1>18. CASE job.by # "flow"
  <2>1. Kept(flow, flow')
    BY <1>0, <1>13, <1>18 DEF Kept
  <2>2. OpenInv'
    BY <1>2, <2>1 DEF OpenInv, Kept
  <2> QED BY <1>2, <1>7, <1>15, <1>16, <1>17, <2>1, <2>2, DropStep
<1>19. CASE job.by = "flow"
  <2>1. FlowPush(job) /\ job.remote = flow.remote /\ flow.stage = "pushing"
    BY <1>0, <1>1, <1>2, <1>19 DEF FlowPush, OfFlow, FlowJob
  <2>2. /\ flow'.stage \in {"done", "push-failed"} /\ flow'.id = flow.id
        /\ flow'.hash = flow.hash /\ flow'.disturbed = flow.disturbed
        /\ flow'.stage = "done" => ~remote'.error
    BY <1>0, <1>13, <1>19 DEF P!Flow
  <2>3. flow'.stage = "done" => ok
    <3>1. CASE ok
      BY <3>1
    <3>2. CASE ~ok
      <4>1. remote' = [remote EXCEPT !.pushing = FALSE, !.success = ok \/ @,
                           !.error = ~ok \/ @, !.failure = IF ok THEN @ ELSE failed]
        BY <1>1, <1>8, <1>19, <3>2 DEF P!PushRuns
      <4>2. remote'.error
        BY <1>0, <3>2, <4>1 DEF P!RemoteState
      <4> QED BY <2>2, <4>2
    <3> QED BY <3>1, <3>2
  <2>4. PICK p : p = [jobs EXCEPT ![r] = Tail(@)] /\ jobs' = p
    BY <1>2 DEF P!Dequeued
  <2>5. WorkInv'
    <3>1. WorkOf(p, settling, made, begun)
      BY <1>0, <1>2, <2>4, DropWork
    <3> QED BY <1>2, <2>4, <3>1 DEF WorkInv
  <2>6. FlowWorkInv'
    <3>1. PICK to : to = flow'
      OBVIOUS
    <3>2. job = jobs[r][1] /\ FlowPush(job)
      BY <1>1, <2>1 DEF P!Job1
    <3>3. Ended(flow, to)
      BY <1>14, <2>2, <3>1 DEF Ended
    <3>4. FlowWorkOf(p, settling, begun, to)
      <4>1. /\ WorkOf(jobs, settling, made, begun) /\ FlowWorkOf(jobs, settling, begun, flow)
            /\ jobs \in [Repos -> Seq(P!Job)] /\ jobs[r] # <<>> /\ r \in Repos
            /\ p = [jobs EXCEPT ![r] = Tail(@)]
        BY <1>0, <1>2, <2>4
      <4> QED BY <3>2, <3>3, <4>1, FlowEndsPush
    <3> QED BY <1>2, <2>4, <3>1, <3>4 DEF FlowWorkInv
  <2>7. OpenInv' /\ FlowInv' /\ P!OnlyOwnConfirmed'
    BY <1>2, <1>14, <2>1, <2>2 DEF OpenInv, FlowInv, P!OnlyOwnConfirmed
  <2>8. P!FlowTellsTruth'
    <3> SUFFICES ASSUME ~flow'.disturbed
                 PROVE  /\ {c \in made : c[1] = flow.id} # {} /\ flow.hash = flow.id
                        /\ flow'.stage = "done" => <<flow.id, flow.remote>> \in sent'
      BY <1>2, <1>14, <2>2 DEF P!FlowTellsTruth
    <3>1. {c \in made : c[1] = flow.id} # {} /\ flow.hash = flow.id
      BY <2>1, <2>2 DEF P!FlowTellsTruth
    <3>2. <<flow.id, r, job.branch>> \in made
      BY <1>0, <1>1, <2>1, <2>2 DEF FlowInv, PushesOf, P!Job1
    <3>3. <<flow.id, job.remote>> \in reached
      BY <1>4, <3>2
    <3> QED BY <1>6, <2>1, <2>3, <3>1, <3>3
  <2> QED BY <1>15, <1>17, <2>5, <2>6, <2>7, <2>8
<1> QED BY <1>18, <1>19

\* What becomes of the flow when its commit is over: if nothing disturbed it, the
\* hash in the store says whether there is one.
LEMMA FlowGoesOn ==
    ASSUME PushInv, NEW job \in P!Job, OfFlow(job), job.op = "commit", FlowJob(job, flow),
           NEW q \in [Repos -> Seq(P!Job)], NEW st,
           WorkOf(q, st, made, begun), FlowWorkOf(q, st, begun, flow),
           \A s \in Repos : \A k \in DOMAIN q[s] : q[s][k].id # flow.id,
           \A j \in st : j.id # flow.id,
           NEW store, store.hash = commit.hash, P!AfterCommit(job, store, q),
           ~flow.disturbed => IF commit.hash = None THEN {c \in made : c[1] = flow.id} = {}
                              ELSE /\ commit.hash = flow.id
                                   /\ <<flow.id, remote.repo, job.branch>> \in made,
           settling' = st, UNCHANGED <<begun, made, sent>>
    PROVE  /\ jobs' \in [Repos -> Seq(P!Job)] /\ remote' \in P!RemoteState
           /\ remote'.repo = remote.repo /\ flow' \in P!Flow /\ flow'.remote = flow.remote
           /\ flow'.stage \in {"pushing", "commit-failed"} /\ flow.stage = "committing"
           /\ WorkInv' /\ FlowWorkInv' /\ FlowInv' /\ P!FlowTellsTruth'
<1> USE DEF PushInv
<1>1. /\ flow \in P!Flow /\ remote \in P!RemoteState /\ commit \in P!CommitState
      /\ remote.repo \in Repos /\ begun \in Nat /\ begun <= MaxCommits
  BY PushAssumption DEF PushType, FlowType, StoreType, BoundType, P!RemoteState
<1>2. flow.stage = "committing" /\ job.id = flow.id /\ job.remote = flow.remote /\ flow.remote # None
  BY DEF FlowJob, OpenInv
<1>3. \A j \in st : j.op = "commit" /\ j.id # flow.id
  BY DEF WorkOf
<1>4. CASE commit.hash = None
  <2>1. flow' = [flow EXCEPT !.stage = "commit-failed"] /\ jobs' = q /\ remote' = remote
    BY <1>4 DEF P!AfterCommit, OfFlow
  <2>2. PICK to : to = flow'
    OBVIOUS
  <2>3. /\ to \in P!Flow /\ to.stage = "commit-failed" /\ to.id = flow.id /\ to.remote = flow.remote
        /\ to.disturbed = flow.disturbed
    BY <1>1, <2>1, <2>2 DEF P!Flow
  <2>4. FlowWorkOf(q, st, begun, to)
    BY <1>2, <1>3, <2>3, FlowFails
  <2>5. WorkInv' /\ FlowWorkInv'
    BY <2>1, <2>2, <2>4 DEF WorkInv, FlowWorkInv
  <2>6. FlowInv' /\ P!FlowTellsTruth'
    BY <1>4, <2>2, <2>3 DEF FlowInv, P!FlowTellsTruth
  <2> QED BY <1>1, <1>2, <2>1, <2>2, <2>3, <2>5, <2>6
<1>5. CASE commit.hash # None
  <2>1. PICK e : e = [op |-> "push", by |-> "flow", id |-> None, repo |-> remote.repo,
                      remote |-> job.remote, branch |-> job.branch]
    OBVIOUS
  <2>2. PICK p : p = [q EXCEPT ![remote.repo] = Append(@, e)]
    OBVIOUS
  <2>3. /\ flow' = [flow EXCEPT !.stage = "pushing", !.hash = commit.hash]
        /\ remote' = P!PushBegun /\ jobs' = p
    BY <1>5, <2>1, <2>2 DEF P!AfterCommit, OfFlow
  <2>4. PICK to : to = flow'
    OBVIOUS
  <2>5. /\ to \in P!Flow /\ to.stage = "pushing" /\ to.id = flow.id /\ to.remote = flow.remote
        /\ to.disturbed = flow.disturbed /\ to.hash = commit.hash
    BY <1>1, <2>3, <2>4 DEF P!Flow, P!CommitState
  <2>6. /\ e \in P!Job /\ e.op = "push" /\ e.id = None /\ e.remote = flow.remote
        /\ e.repo = remote.repo
    BY <1>1, <1>2, <2>1 DEF P!Job, P!Maybe
  <2>7. PICK last \in Nat : last = begun /\ last <= last /\ last <= MaxCommits
    BY <1>1
  <2>8. WorkOf(p, st, made, last)
    <3>1. WorkOf(q, st, made, last) /\ JobOf(e, last) /\ (e.op = "commit" => e.id = last + 1)
      BY <1>2, <2>1, <2>6, <2>7 DEF JobOf
    <3>2. PICK r \in Repos : r = remote.repo
      BY <1>1
    <3>3. e.repo = r /\ p = [q EXCEPT ![r] = Append(@, e)]
      BY <2>2, <2>6, <3>2
    <3>4. /\ last <= last /\ last <= MaxCommits /\ last \in Nat /\ e \in P!Job /\ r \in Repos
          /\ q \in [Repos -> Seq(P!Job)]
      BY <2>6, <2>7
    <3> QED BY <3>1, <3>3, <3>4, AddWork
  <2>9. FlowWorkOf(p, st, last, to)
    <3>1. FlowWorkOf(q, st, last, flow) /\ WorkOf(q, st, made, last)
      BY <2>7
    <3> QED BY <1>1, <1>2, <1>3, <2>2, <2>5, <2>6, <2>7, <3>1, FlowPushes
  <2>10. WorkInv' /\ FlowWorkInv'
    BY <2>3, <2>4, <2>7, <2>8, <2>9 DEF WorkInv, FlowWorkInv
  <2>11. remote' \in P!RemoteState /\ remote'.repo = remote.repo
    BY <1>1, <2>3 DEF P!PushBegun, P!RemoteState, P!Maybe
  <2>12. P!FlowTellsTruth'
    BY <1>5, <2>4, <2>5 DEF P!FlowTellsTruth
  <2>13. \A s \in Repos : \A k \in DOMAIN q[s] : ~FlowPush(q[s][k])
    BY <1>2 DEF FlowWorkOf, FlowJob, FlowPush
  <2>14. \A s \in Repos : \A k \in DOMAIN p[s] : \/ k \in DOMAIN q[s] /\ p[s][k] = q[s][k]
                                                 \/ s = remote.repo /\ p[s][k] = e
    <3>1. /\ p[remote.repo] \in Seq(P!Job)
          /\ \A k \in DOMAIN p[remote.repo] :
                \/ k \in DOMAIN q[remote.repo] /\ p[remote.repo][k] = q[remote.repo][k]
                \/ p[remote.repo][k] = e
      BY <1>1, <2>2, <2>6, AppendPlaces
    <3>2. \A s \in Repos \ {remote.repo} : p[s] = q[s]
      BY <2>2
    <3> QED BY <3>1, <3>2
  <2>15. ~flow.disturbed => PushesOf(p, to)'
    <3> SUFFICES ASSUME ~flow.disturbed, NEW s \in Repos, NEW k \in DOMAIN p[s], FlowPush(p[s][k])
                 PROVE  <<flow.id, s, p[s][k].branch>> \in made
      BY <2>5 DEF PushesOf
    <3>1. s = remote.repo /\ p[s][k] = e
      BY <2>13, <2>14
    <3> QED BY <1>5, <2>1, <3>1
  <2>16. FlowInv'
    BY <2>3, <2>4, <2>5, <2>15 DEF FlowInv, PushesOf
  <2>17. p \in [Repos -> Seq(P!Job)]
    <3>1. p[remote.repo] \in Seq(P!Job)
      BY <1>1, <2>2, <2>6, AppendPlaces
    <3> QED BY <1>1, <2>2, <3>1
  <2> QED BY <1>2, <2>3, <2>4, <2>5, <2>10, <2>11, <2>12, <2>16, <2>17
<1> QED BY <1>4, <1>5

\* A commit that fails, or has nothing to commit.
LEMMA CommitFailsStep ==
    ASSUME PushInv, NEW r \in Repos, NEW ok \in BOOLEAN, P!CommitRuns(r, ok),
           ~(ok /\ P!StagedFiles(index[r]) # {})
    PROVE  PushInv'
<1> USE DEF PushInv
<1>0. /\ flow \in P!Flow /\ remote \in P!RemoteState /\ pMoves \in 0..PushMoves
      /\ P!Dequeued(r) \in [Repos -> Seq(P!Job)] /\ P!Job1(r) \in P!Job
      /\ commit \in P!CommitState /\ begun \in Nat /\ begun <= MaxCommits
      /\ JobOf(P!Job1(r), begun) /\ FlowJob(P!Job1(r), flow) /\ 1 \in DOMAIN jobs[r]
      /\ jobs \in [Repos -> Seq(P!Job)]
      /\ WorkOf(jobs, settling, made, begun) /\ FlowWorkOf(jobs, settling, begun, flow)
  BY Dropped, PushAssumption DEF PushType, FlowType, BoundType, StoreType, QueueType,
                                 P!CommitRuns, P!Has, WorkInv, FlowWorkInv
<1>1. PICK job \in P!Job : job = P!Job1(r)
  BY <1>0
<1>2. /\ UNCHANGED <<pActive, current, mounted, head, ahead, index, made, sent, sheet, reads,
                     settling, event, begun, acts>>
      /\ jobs[r] # <<>> /\ job.op = "commit"
      /\ commit' = [commit EXCEPT !.error = TRUE, !.busy = FALSE]
      /\ P!AfterCommit(job, commit, P!Dequeued(r))
      /\ pMoves' = pMoves \/ P!Fails
  BY <1>1 DEF P!CommitRuns, P!Has
<1>3. /\ commit' \in P!CommitState /\ commit'.repo = commit.repo /\ commit'.hash = commit.hash
      /\ pMoves' \in 0..PushMoves
  <2>1. commit' \in P!CommitState /\ commit'.repo = commit.repo /\ commit'.hash = commit.hash
    BY <1>0, <1>2 DEF P!CommitState
  <2> QED BY <1>0, <1>2, <2>1, PushAssumption DEF P!Fails
<1>4. ReadInv' /\ P!OnlyOwnConfirmed'
  BY <1>2 DEF ReadInv, P!OnlyOwnConfirmed
<1>5. CASE ~OfFlow(job)
  <2>1. jobs' = P!Dequeued(r) /\ UNCHANGED <<flow, remote>>
    BY <1>2, <1>5 DEF P!AfterCommit, OfFlow
  <2>2. PushType'
    BY <1>0, <1>2, <1>3, <2>1 DEF PushType, ShownType, GitType, StoreType, SheetType, FlowType,
                                  QueueType, BoundType
  <2>3. OpenInv' /\ SameInv' /\ (OnShown => OnShown') /\ Kept(flow, flow')
    BY <1>0, <1>2, <1>3, <2>1, SameFlow DEF OpenInv, SameInv, OnShown
  <2> QED BY <1>2, <1>3, <1>4, <2>1, <2>2, <2>3, DropStep
<1>6. CASE OfFlow(job)
  <2>1. PICK p : p = [jobs EXCEPT ![r] = Tail(@)] /\ p = P!Dequeued(r)
    BY DEF P!Dequeued
  <2>2. WorkOf(p, settling, made, begun) /\ FlowWorkOf(p, settling, begun, flow)
    BY <1>0, <1>2, <2>1, DropWork, DropFlowWork
  <2>3. job.id = flow.id /\ flow.stage = "committing" /\ job.id # None
    BY <1>0, <1>1, <1>2, <1>6, PushAssumption DEF FlowJob, JobOf, P!Ids
  <2>4. \A s \in Repos : \A k \in DOMAIN p[s] : p[s][k].id # flow.id
    <3>1. LeftBy(job, jobs, p, r, begun)
      BY <1>0, <1>1, <1>2, <2>1, DropJob DEF P!Job1
    <3> QED BY <1>2, <2>3, <3>1 DEF LeftBy
  <2>5. /\ \A j \in settling : j.id # flow.id
        /\ {c \in made : c[1] = flow.id} = {}
    BY <1>0, <1>1, <2>3 DEF WorkOf, P!Job1
  <2>6. ~flow.disturbed => commit.hash = None
    BY <1>0, <1>1, <1>2, <2>3 DEF FlowInv, CommitsOf, P!Job1
  <2>7. /\ jobs' \in [Repos -> Seq(P!Job)] /\ remote' \in P!RemoteState
        /\ remote'.repo = remote.repo /\ flow' \in P!Flow /\ flow'.remote = flow.remote
        /\ flow'.stage \in {"pushing", "commit-failed"}
        /\ WorkInv' /\ FlowWorkInv' /\ FlowInv' /\ P!FlowTellsTruth'
    <3>1. PICK store : store = commit
      OBVIOUS
    <3>2. P!AfterCommit(job, store, p) /\ store.hash = commit.hash /\ p \in [Repos -> Seq(P!Job)]
      BY <1>0, <1>2, <2>1, <3>1
    <3>3. FlowJob(job, flow)
      BY <1>0, <1>1
    <3> QED BY <1>2, <1>6, <2>2, <2>4, <2>5, <2>6, <3>2, <3>3, FlowGoesOn
  <2>8. PushType'
    BY <1>0, <1>2, <1>3, <2>7 DEF PushType, ShownType, GitType, StoreType, SheetType, FlowType,
                                  QueueType, BoundType
  <2>9. OpenInv' /\ SameInv'
    BY <1>2, <1>3, <2>3, <2>7 DEF OpenInv, SameInv, OnShown
  <2> QED BY <1>4, <2>7, <2>8, <2>9
<1> QED BY <1>5, <1>6

\* A commit that is made: its status is read next.
LEMMA CommitMadeStep ==
    ASSUME PushInv, NEW r \in Repos, NEW ok \in BOOLEAN, P!CommitRuns(r, ok),
           ok, P!StagedFiles(index[r]) # {}
    PROVE  PushInv'
<1> USE DEF PushInv
<1>0. /\ flow \in P!Flow /\ P!Dequeued(r) \in [Repos -> Seq(P!Job)] /\ P!Job1(r) \in P!Job
      /\ commit \in P!CommitState /\ begun \in Nat /\ begun <= MaxCommits /\ MaxCommits \in Nat
      /\ JobOf(P!Job1(r), begun) /\ FlowJob(P!Job1(r), flow) /\ 1 \in DOMAIN jobs[r]
      /\ jobs \in [Repos -> Seq(P!Job)] /\ settling \subseteq P!Job
      /\ WorkOf(jobs, settling, made, begun) /\ FlowWorkOf(jobs, settling, begun, flow)
      /\ head \in [Repos -> Branch] /\ index \in [Repos -> SUBSET P!Columns]
      /\ ahead \in [P!Targets -> P!Authors] /\ made \subseteq P!Ids \X Repos \X Branch
  <2>1. jobs[r] # <<>>
    BY DEF P!CommitRuns, P!Has
  <2>2. /\ P!Dequeued(r) \in [Repos -> Seq(P!Job)] /\ P!Job1(r) \in P!Job
        /\ JobOf(P!Job1(r), begun) /\ FlowJob(P!Job1(r), flow) /\ 1 \in DOMAIN jobs[r]
    BY <2>1, Dropped
  <2>3. WorkOf(jobs, settling, made, begun) /\ FlowWorkOf(jobs, settling, begun, flow)
    BY DEF WorkInv, FlowWorkInv
  <2>4. PushType
    OBVIOUS
  <2>5. flow \in P!Flow /\ begun \in Nat /\ begun <= MaxCommits /\ MaxCommits \in Nat
    BY <2>4, PushAssumption DEF PushType, FlowType, BoundType
  <2>6. /\ commit \in P!CommitState
        /\ jobs \in [Repos -> Seq(P!Job)] /\ settling \subseteq P!Job
    BY <2>4 DEF PushType, StoreType, QueueType
  <2>7. /\ head \in [Repos -> Branch] /\ index \in [Repos -> SUBSET P!Columns]
        /\ ahead \in [P!Targets -> P!Authors] /\ made \subseteq P!Ids \X Repos \X Branch
    BY <2>4 DEF PushType, GitType
  <2> QED BY <2>2, <2>3, <2>5, <2>6, <2>7
<1>1. PICK job \in P!Job : job = P!Job1(r)
  BY <1>0
<1>2. PICK c : c = <<job.id, r, head[r]>>
  OBVIOUS
<1>3. /\ UNCHANGED <<pActive, current, mounted, head, sent, remote, flow, sheet, reads, event,
                     begun, acts, pMoves>>
      /\ jobs[r] # <<>> /\ job.op = "commit"
      /\ made' = made \union {c} /\ settling' = settling \union {job}
      /\ index' = [index EXCEPT ![r] = @ \ P!StagedFiles(index[r])]
      /\ ahead' = [t \in P!Targets |->
                     IF t[1] = r /\ t[2] = head[r] THEN ahead[t] \union {"own"} ELSE ahead[t]]
      /\ commit' = [commit EXCEPT !.hash = job.id]
      /\ jobs' = P!Dequeued(r)
  BY <1>1, <1>2 DEF P!CommitRuns, P!Has
<1>4. job.id \in 1..begun /\ job.id \in P!Ids /\ job.id # None
  BY <1>0, <1>1, <1>3, PushAssumption DEF JobOf, P!Ids
<1>5. commit' \in P!CommitState /\ commit'.repo = commit.repo /\ commit'.hash = job.id
  BY <1>0, <1>3, <1>4 DEF P!CommitState, P!Maybe
<1>6. /\ c \in P!Ids \X Repos \X Branch /\ c[1] = job.id
      /\ index' \in [Repos -> SUBSET P!Columns] /\ ahead' \in [P!Targets -> P!Authors]
  BY <1>0, <1>2, <1>3, <1>4 DEF P!Authors
<1>7. PushType'
  BY <1>0, <1>3, <1>5, <1>6 DEF PushType, ShownType, GitType, StoreType, SheetType, FlowType,
                                QueueType, BoundType
<1>8. OpenInv' /\ SameInv' /\ (OnShown => OnShown') /\ P!OnlyOwnConfirmed'
  BY <1>3, <1>5 DEF OpenInv, SameInv, OnShown, P!OnlyOwnConfirmed
<1>9. ReadInv'
  <2>1. \A x \in P!Sides : sheet[x].read # None => sheet[x].read \in P!Targets
    BY DEF PushType, SheetType, P!Sheet, P!Maybe
  <2>2. \A t \in P!Targets : "foreign" \in ahead'[t] => "foreign" \in ahead[t]
    BY <1>3
  <2> QED BY <1>3, <2>1, <2>2 DEF ReadInv
<1>10. PICK p : p = [jobs EXCEPT ![r] = Tail(@)] /\ jobs' = p
  BY <1>3 DEF P!Dequeued
<1>11. WorkInv'
  <2>1. WorkOf(p, settling \union {job}, made \union {<<job.id, r, head[r]>>}, begun)
    BY <1>0, <1>1, <1>3, <1>10, SettleWork DEF P!Job1
  <2> QED BY <1>2, <1>3, <1>10, <2>1 DEF WorkInv
<1>12. FlowWorkInv'
  <2>1. FlowWorkOf(p, settling, begun, flow)
    BY <1>0, <1>3, <1>10, DropFlowWork
  <2>2. flow.stage \in Over => job.id # flow.id
    BY <1>0, <1>1 DEF FlowWorkOf, P!Job1
  <2>3. FlowWorkOf(p, settling \union {job}, begun, flow)
    BY <1>0, <1>1, <2>1, <2>2 DEF FlowWorkOf
  <2> QED BY <1>3, <1>10, <2>3 DEF FlowWorkInv
<1>13. P!FlowTellsTruth'
  <2>1. flow.stage = "commit-failed" => job.id # flow.id
    BY <1>0, <1>1 DEF FlowWorkOf, P!Job1, Over
  <2> QED BY <1>3, <1>6, <2>1 DEF P!FlowTellsTruth
<1>14. /\ \A s \in Repos : \A k \in DOMAIN p[s] : p[s][k].id # job.id
       /\ \A s \in Repos : \A k \in DOMAIN p[s] : \E l \in DOMAIN jobs[s] : p[s][k] = jobs[s][l]
  <2>1. LeftBy(job, jobs, p, r, begun)
    BY <1>0, <1>1, <1>3, <1>10, DropJob DEF P!Job1
  <2>2. \A s \in Repos : \A k \in DOMAIN p[s] : p[s][k].id # job.id
    BY <1>3, <2>1 DEF LeftBy
  <2>3. \A s \in Repos : \A k \in DOMAIN p[s] : \E l \in DOMAIN jobs[s] : p[s][k] = jobs[s][l]
    <3> SUFFICES ASSUME NEW s \in Repos, NEW k \in DOMAIN p[s]
                 PROVE  \E l \in DOMAIN jobs[s] : p[s][k] = jobs[s][l]
      OBVIOUS
    <3>1. PICK l \in DOMAIN jobs[s] : p[s][k] = jobs[s][l] /\ (s = r => l # 1)
      BY <2>1 DEF LeftBy
    <3> QED BY <3>1
  <2> QED BY <2>2, <2>3
<1>15. FlowInv'
  <2>1. CASE ~flow.disturbed /\ flow.stage = "committing"
    <3>1. CommitsOf(jobs, settling, flow)
      BY <2>1 DEF FlowInv
    <3>2. OfFlow(job) /\ r = pActive /\ job.branch = head[pActive] /\ commit.hash = None
      BY <1>0, <1>1, <1>3, <3>1 DEF CommitsOf, P!Job1
    <3>3. job.id = flow.id
      BY <1>0, <1>1, <1>3, <3>2 DEF FlowJob
    <3>4. settling = {}
      BY <1>4, <3>1, <3>2, <3>3 DEF CommitsOf
    <3>5. \A s \in Repos : \A k \in DOMAIN p[s] : p[s][k].op # "commit"
      <4> SUFFICES ASSUME NEW s \in Repos, NEW k \in DOMAIN p[s], p[s][k].op = "commit"
                   PROVE  FALSE
        OBVIOUS
      <4>1. PICK l \in DOMAIN jobs[s] : p[s][k] = jobs[s][l]
        BY <1>14
      <4>2. OfFlow(p[s][k]) /\ FlowJob(p[s][k], flow)
        BY <1>0, <3>1, <4>1 DEF CommitsOf, FlowWorkOf
      <4>3. p[s][k].id = job.id
        BY <3>3, <4>2 DEF FlowJob
      <4> QED BY <1>14, <4>3
    <3>6. CommitsOf(jobs, settling, flow)'
      BY <1>2, <1>3, <1>5, <1>8, <1>10, <3>1, <3>2, <3>3, <3>4, <3>5 DEF CommitsOf
    <3> QED BY <1>3, <2>1, <3>6 DEF FlowInv
  <2>2. CASE ~flow.disturbed /\ flow.stage = "pushing"
    <3>1. PushesOf(jobs, flow)'
      <4> SUFFICES ASSUME NEW s \in Repos, NEW k \in DOMAIN p[s], FlowPush(p[s][k])
                   PROVE  <<flow.id, s, p[s][k].branch>> \in made
        BY <1>3, <1>10 DEF PushesOf
      <4>1. PICK l \in DOMAIN jobs[s] : p[s][k] = jobs[s][l]
        BY <1>14
      <4> QED BY <2>2, <4>1 DEF FlowInv, PushesOf
    <3> QED BY <1>3, <2>2, <3>1 DEF FlowInv
  <2> QED BY <1>3, <2>1, <2>2 DEF FlowInv
<1> QED BY <1>7, <1>8, <1>9, <1>11, <1>12, <1>13, <1>15

\* The status has been read: the screen has the commit's hash.
LEMMA CommitSettlesStep ==
    ASSUME PushInv, NEW job \in settling, P!CommitSettles(job)
    PROVE  PushInv'
<1> USE DEF PushInv
<1>0. /\ flow \in P!Flow /\ remote \in P!RemoteState /\ commit \in P!CommitState
      /\ begun \in Nat /\ begun <= MaxCommits /\ job \in P!Job /\ settling \subseteq P!Job
      /\ jobs \in [Repos -> Seq(P!Job)] /\ index \in [Repos -> SUBSET P!Columns]
      /\ WorkOf(jobs, settling, made, begun) /\ FlowWorkOf(jobs, settling, begun, flow)
  BY PushAssumption DEF PushType, FlowType, BoundType, StoreType, QueueType, GitType, WorkInv,
                        FlowWorkInv
<1>1. /\ UNCHANGED <<pActive, current, mounted, head, ahead, index, made, sent, sheet, reads, event,
                     begun, acts, pMoves>>
      /\ settling' = settling \ {job} /\ P!AfterCommit(job, commit', jobs)
      /\ commit' = [commit EXCEPT !.busy = FALSE,
                       !.view = IF commit.newest = job.id THEN index[job.repo] ELSE @]
  BY DEF P!CommitSettles, P!git, P!bounds
<1>2. commit' \in P!CommitState /\ commit'.repo = commit.repo /\ commit'.hash = commit.hash
  <2>1. index[job.repo] \in SUBSET P!Columns
    BY <1>0 DEF P!Job
  <2> QED BY <1>0, <1>1, <2>1 DEF P!CommitState, P!Maybe
<1>3. /\ WorkOf(jobs, settling \ {job}, made, begun) /\ job.op = "commit" /\ JobOf(job, begun)
      /\ \A s \in Repos : \A k \in DOMAIN jobs[s] : jobs[s][k].id # job.id
      /\ \A j \in settling \ {job} : j.id # job.id
  BY <1>0, SettledWork
<1>4. FlowWorkOf(jobs, settling \ {job}, begun, flow) /\ FlowJob(job, flow)
  BY <1>0 DEF FlowWorkOf
<1>5. ReadInv' /\ P!OnlyOwnConfirmed'
  BY <1>1 DEF ReadInv, P!OnlyOwnConfirmed
<1>6. CASE ~OfFlow(job)
  <2>1. UNCHANGED <<jobs, flow, remote>>
    BY <1>1, <1>6 DEF P!AfterCommit, OfFlow
  <2>2. PushType'
    BY <1>0, <1>1, <1>2, <2>1 DEF PushType, ShownType, GitType, StoreType, SheetType, FlowType,
                                  QueueType, BoundType
  <2>3. OpenInv' /\ SameInv' /\ (OnShown => OnShown')
    BY <1>1, <1>2, <2>1 DEF OpenInv, SameInv, OnShown
  <2>4. WorkInv' /\ FlowWorkInv' /\ P!FlowTellsTruth'
    BY <1>1, <1>3, <1>4, <2>1 DEF WorkInv, FlowWorkInv, P!FlowTellsTruth
  <2>5. ~flow.disturbed /\ flow.stage = "committing" => CommitsOf(jobs, settling, flow)'
    BY <1>1, <1>2, <2>1, <2>3 DEF FlowInv, CommitsOf
  <2>6. ~flow.disturbed /\ flow.stage = "pushing" => PushesOf(jobs, flow)'
    BY <1>1, <2>1 DEF FlowInv, PushesOf
  <2> QED BY <1>5, <2>1, <2>2, <2>3, <2>4, <2>5, <2>6 DEF FlowInv
<1>7. CASE OfFlow(job)
  <2>1. job.id = flow.id /\ flow.stage = "committing" /\ job.id # None
    BY <1>0, <1>3, <1>4, <1>7, PushAssumption DEF FlowJob, JobOf, P!Ids
  <2>2. ~flow.disturbed => /\ commit.hash = flow.id /\ commit.hash # None
                           /\ <<flow.id, remote.repo, job.branch>> \in made
    BY <2>1 DEF FlowInv, CommitsOf, OnShown
  <2>3. /\ jobs' \in [Repos -> Seq(P!Job)] /\ remote' \in P!RemoteState
        /\ remote'.repo = remote.repo /\ flow' \in P!Flow /\ flow'.remote = flow.remote
        /\ flow'.stage \in {"pushing", "commit-failed"}
        /\ WorkInv' /\ FlowWorkInv' /\ FlowInv' /\ P!FlowTellsTruth'
    <3>1. PICK store : store = commit'
      OBVIOUS
    <3>2. P!AfterCommit(job, store, jobs) /\ store.hash = commit.hash
      BY <1>1, <1>2, <3>1
    <3>3. PICK st : st = settling \ {job}
      OBVIOUS
    <3>4. /\ WorkOf(jobs, st, made, begun) /\ FlowWorkOf(jobs, st, begun, flow)
          /\ \A j \in st : j.id # flow.id
          /\ \A s \in Repos : \A k \in DOMAIN jobs[s] : jobs[s][k].id # flow.id
          /\ settling' = st
      BY <1>1, <1>3, <1>4, <2>1, <3>3
    <3> QED BY <1>0, <1>1, <1>3, <1>4, <1>7, <2>2, <3>2, <3>4, FlowGoesOn
  <2>4. PushType'
    BY <1>0, <1>1, <1>2, <2>3 DEF PushType, ShownType, GitType, StoreType, SheetType, FlowType,
                                  QueueType, BoundType
  <2>5. OpenInv' /\ SameInv'
    BY <1>1, <1>2, <2>1, <2>3 DEF OpenInv, SameInv, OnShown
  <2> QED BY <1>5, <2>3, <2>4, <2>5
<1> QED BY <1>6, <1>7

-----------------------------------------------------------------------------
(* The whole.                                                              *)

\* It holds at first,
LEMMA InitPush == ASSUME P!Init  PROVE PushInv
<1>1. /\ Start[1] \in Repos /\ Start[2] \in Branch /\ Worktree \in [Repos -> SUBSET P!Columns]
      /\ 0 \in 0..MaxCommits /\ 0 \in 0..PushActs /\ 0 \in 0..PushMoves
  BY PushAssumption DEF Branch
<1>2. ShownType /\ GitType /\ BoundType
  BY <1>1 DEF P!Init, ShownType, GitType, BoundType, P!Authors
<1>3. StoreType /\ OnShown
  <2>1. commit \in P!CommitState
    BY <1>1 DEF P!Init, P!CommitState, P!Maybe
  <2>2. remote \in P!RemoteState
    BY <1>1 DEF P!Init, P!RemoteState, P!Maybe
  <2> QED BY <2>1, <2>2 DEF P!Init, StoreType, OnShown
<1>4. /\ sheet = [x \in P!Sides |-> P!Closed]
      /\ P!Closed \in P!Sheet /\ ~P!Closed.open /\ ~P!Closed.choice /\ P!Closed.read = None
  BY DEF P!Init, P!Closed, P!Sheet, P!Maybe
<1>5. SheetType
  BY <1>4 DEF P!Init, SheetType, P!Maybe
<1>6. flow = P!Idle /\ flow \in P!Flow /\ flow.stage = "idle"
  BY DEF P!Init, P!Idle, P!Flow, P!Maybe
<1>7. QueueType /\ WorkInv
  BY DEF P!Init, QueueType, WorkInv, WorkOf
<1>8. FlowWorkInv
  BY <1>6 DEF P!Init, FlowWorkInv, FlowWorkOf, Over
<1>9. OpenInv /\ ReadInv
  BY <1>4, <1>6 DEF OpenInv, ReadInv, P!Sides
<1>10. FlowInv /\ P!FlowTellsTruth
  BY <1>6 DEF FlowInv, P!FlowTellsTruth
<1>11. P!OnlyOwnConfirmed
  BY DEF P!Init, P!OnlyOwnConfirmed
<1> QED BY <1>2, <1>3, <1>5, <1>6, <1>7, <1>8, <1>9, <1>10, <1>11
        DEF PushInv, PushType, FlowType, SameInv

\* through what the user does,
LEMMA UserStep == ASSUME PushInv, P!User  PROVE PushInv'
<1>1. CASE (\E r \in Repos : P!SwitchRepo(r)) \/ P!Return
  BY <1>1, ShownSteps
<1>2. CASE P!Leave
  BY <1>2, LeaveStep
<1>3. CASE \E m \in Remotes : P!OpenPush(m)
  BY <1>3, OpenPushStep
<1>4. CASE \E m \in Remotes : P!Fetch(m) \/ P!Pull(m)
  BY <1>4, FetchPullSteps
<1>5. CASE P!OpenCp \/ (\E m \in Remotes : P!PickRemote(m)) \/ P!CancelCp
  BY <1>5, CpSteps
<1>6. CASE P!ClosePush
  BY <1>6, ClosePushStep
<1>7. CASE P!Commit
  BY <1>7, CommitStep
<1>8. CASE P!ConfirmPush
  BY <1>8, ConfirmPushStep
<1>9. CASE P!ConfirmCp
  BY <1>9, ConfirmCpStep
<1>10. CASE P!Retry
  BY <1>10, RetryStep
<1> QED BY <1>1, <1>2, <1>3, <1>4, <1>5, <1>6, <1>7, <1>8, <1>9, <1>10 DEF P!User

\* and through what is answered and what main runs.
LEMMA BackgroundStep == ASSUME PushInv, P!Background  PROVE PushInv'
<1>1. CASE \E ok \in BOOLEAN : P!CommitLoaded(ok)
  BY <1>1, CommitLoadedStep
<1>2. CASE \E known \in {"nothing", "remotes", "all"} : P!RemoteLoaded(known)
  BY <1>2, RemoteLoadedStep
<1>3. CASE P!SeeBranch
  BY <1>3, ShownSteps
<1>4. CASE \E q \in P!Slots, ok \in BOOLEAN : P!OutgoingRead(q, ok) \/ P!TokenRead(q, ok)
  BY <1>4, OutgoingReadStep, TokenReadStep
<1>5. CASE \E r \in Repos, ok \in BOOLEAN :
              P!CommitRuns(r, ok) \/ P!PushRuns(r, ok) \/ P!FetchRuns(r, ok)
              \/ P!PullRuns(r, ok) \/ P!MergeRuns(r, ok)
  <2>1. PICK r \in Repos, ok \in BOOLEAN :
           P!CommitRuns(r, ok) \/ P!PushRuns(r, ok) \/ P!FetchRuns(r, ok)
           \/ P!PullRuns(r, ok) \/ P!MergeRuns(r, ok)
    BY <1>5
  <2>2. CASE P!CommitRuns(r, ok)
    BY <2>2, CommitMadeStep, CommitFailsStep
  <2>3. CASE P!PushRuns(r, ok)
    BY <2>3, PushRunsStep
  <2>4. CASE P!FetchRuns(r, ok)
    BY <2>4, FetchRunsStep
  <2>5. CASE P!PullRuns(r, ok)
    BY <2>5, PullRunsStep
  <2>6. CASE P!MergeRuns(r, ok)
    BY <2>6, MergeRunsStep
  <2> QED BY <2>1, <2>2, <2>3, <2>4, <2>5, <2>6
<1>6. CASE \E job \in settling : P!CommitSettles(job)
  BY <1>6, CommitSettlesStep
<1> QED BY <1>1, <1>2, <1>3, <1>4, <1>5, <1>6 DEF P!Background

\* A step of the chat, or none.
LEMMA OtherSteps == ASSUME PushInv, UNCHANGED pushVars  PROVE PushInv'
<1>1. UNCHANGED <<pActive, current, mounted, head, ahead, index, made, sent, commit, remote, sheet,
                  flow, reads, jobs, settling, event, begun, acts, pMoves>>
  BY DEF pushVars
<1>2. PushType' /\ OpenInv' /\ ReadInv' /\ SameInv' /\ (OnShown => OnShown')
  BY <1>1 DEF PushInv, PushType, ShownType, GitType, StoreType, SheetType, FlowType, QueueType,
              BoundType, OpenInv, ReadInv, SameInv, OnShown
<1>3. Kept(flow, flow')
  BY <1>1, SameFlow DEF PushInv, PushType, FlowType
<1> QED BY <1>1, <1>2, <1>3, QuietStep

\* So it always holds.
LEMMA PushInvInductive == MCSpec => []PushInv
<1>1. MCInit => PushInv
  BY InitPush DEF MCInit
<1>2. PushInv /\ [MCNext]_allVars => PushInv'
  <2> SUFFICES ASSUME PushInv, [MCNext]_allVars  PROVE PushInv'
    OBVIOUS
  <2>1. CASE P!User \/ P!Background
    BY <2>1, UserStep, BackgroundStep
  <2>2. CASE \E b \in Branch : P!CheckOut(b)
    BY <2>2, CheckOutStep
  <2>3. CASE UNCHANGED pushVars
    BY <2>3, OtherSteps
  <2> QED BY <2>1, <2>2, <2>3 DEF MCNext, Pushing, Chatting, P!Next, allVars, Branch
<1> QED BY <1>1, <1>2, PTL DEF MCSpec

\* The screen is never told to send another author's commit: a push that either
\* sheet confirmed, after it had read the commits going out, sends none
\* (fetchPushPreflight, the gate's author issues); and CommitPush's types hold.
THEOREM OwnCorrect == MCSpec => []OnlyOwnConfirmed
<1>1. PushInv => OnlyOwnConfirmed
  <2> SUFFICES ASSUME PushInv  PROVE OnlyOwnConfirmed
    OBVIOUS
  <2>1. \A r \in Repos : \A i \in DOMAIN jobs[r] : jobs[r][i] \in P!Job
    BY DEF PushInv, PushType, QueueType
  <2>2. P!TypeOK
    BY <2>1 DEF PushInv, PushType, ShownType, GitType, StoreType, SheetType, FlowType, QueueType,
                BoundType, P!TypeOK, Branch
  <2> QED BY <2>2 DEF PushInv, OnlyOwnConfirmed
<1> QED BY <1>1, PushInvInductive, PTL

\* What Commit & Push says has happened has happened, when nothing else touched
\* the stores it reads its outcome from (commitAndPushStore.confirm).
THEOREM TruthCorrect == MCSpec => []FlowTellsTruth
<1>1. PushInv => FlowTellsTruth
  BY DEF PushInv, FlowTellsTruth
<1> QED BY <1>1, PushInvInductive, PTL

-----------------------------------------------------------------------------
(* AiChat, for any repositories, proposals and numbers of sends, clicks    *)
(* and moves.                                                              *)

\* What the configurations of AiChat have in common.
Configured ==
    /\ None \notin Repos /\ First \in Repos
    /\ Len(Paths) \in Nat \ {0}  \* an empty proposal is refused
    /\ MaxSends \in Nat /\ MaxApplies \in Nat /\ MaxMoves \in Nat

-----------------------------------------------------------------------------
(* The inductive invariant.                                                *)

Steps == {"stream", "ask", "suggest", "over"}

\* A send that was made has an origin, one that was not has no bubble, and a
\* proposal has its bubble only when it has ended.
Shape ==
    \A n \in Sends :
       /\ sends[n].at = "unsent" => bubbles[n].status = "none" /\ bubbles[n].stamp = None
       /\ sends[n].at # "unsent" => sends[n].origin \in Repos
       /\ sends[n].kind = "propose" /\ bubbles[n].status # "none" => sends[n].at = "over"

\* While no two operations were ever under way at once, there is one at most.
OneOperation ==
    ~overlap =>
       /\ \A m, n \in Sends : Live(m) /\ Live(n) => m = n
       /\ \A j, k \in DOMAIN applies : Applying(j) /\ Applying(k) => j = k
       /\ \A n \in Sends, k \in DOMAIN applies : ~(Live(n) /\ Applying(k))

\* What is applied is a proposal that has ended, in its own repository.
OfProposal ==
    \A k \in DOMAIN applies :
       LET s == sends[applies[k].of] IN
       s.at = "over" /\ s.kind = "propose" /\ s.origin = applies[k].into

\* The queue of a repository is held by one batch at a time.
OneHolds ==
    \A j, k \in DOMAIN applies :
       Holds(j) /\ Holds(k) /\ applies[j].into = applies[k].into => j = k

\* What a batch has written is on the branch checked out, while it holds.
OnCurrentBranch ==
    \A k \in DOMAIN applies :
       /\ applies[k].at = "queued" => applies[k].on = {}
       /\ Holds(k) => applies[k].on \subseteq {branch[applies[k].into]}
       /\ \E b \in Branches : applies[k].on \subseteq {b}

\* What is about to be written over is what was compared, or an editor's.
SeenAtWrite ==
    \A k \in DOMAIN applies :
       applies[k].at = "write" =>
          /\ applies[k].edit <= Len(Paths)
          /\ applies[k].raced \/ StillAsSeen(k)

ChatInv == ChatIsTrue /\ Shape /\ OneOperation
EditInv == EditsLandWhole /\ OfProposal /\ OneHolds /\ OnCurrentBranch /\ SeenAtWrite
IInv == ChatInv /\ EditInv

-----------------------------------------------------------------------------
(* What every step of main's work on send n comes to.                      *)

Effect(n) ==
    /\ Live(n)
    /\ sends' \in [Sends -> SendState] /\ bubbles' \in [Sends -> ChatMessage]
    /\ \A m \in Sends \ {n} : sends'[m] = sends[m] /\ bubbles'[m] = bubbles[m]
    /\ sends'[n].kind = sends[n].kind /\ sends'[n].origin = sends[n].origin
    /\ sends'[n].at \in Steps
    /\ bubbles'[n].from \subseteq bubbles[n].from \union {n}
    /\ bubbles'[n].stamp \in {bubbles[n].stamp, sends[n].origin}
    /\ bubbles'[n].applied = bubbles[n].applied
    /\ \/ bubbles'[n].status = bubbles[n].status
       \/ sends[n].kind # "chat" /\ sends'[n].at = "over"
    /\ chat' = IF sends'[n].at = "over" THEN [pending |-> FALSE, request |-> 0] ELSE chat
    /\ Quiet

\* What a handler makes of a bubble and of a send.
LEMMA MessageTypes ==
    ASSUME NEW b \in ChatMessage, NEW v \in BOOLEAN, NEW w \in BOOLEAN
    PROVE  LET c == [b EXCEPT !.error = v, !.streaming = w] IN
           /\ c \in ChatMessage
           /\ c.from = b.from /\ c.stamp = b.stamp /\ c.applied = b.applied
           /\ c.status = b.status
BY DEF ChatMessage

\* A bubble that streams, or no longer, is otherwise the same.
LEMMA StreamingTypes ==
    ASSUME NEW b \in ChatMessage, NEW w \in BOOLEAN
    PROVE  LET c == [b EXCEPT !.streaming = w] IN
           /\ c \in ChatMessage
           /\ c.from = b.from /\ c.stamp = b.stamp /\ c.applied = b.applied
           /\ c.status = b.status
BY DEF ChatMessage

\* So is one that is taken away.
LEMMA GoneTypes ==
    ASSUME NEW b \in ChatMessage
    PROVE  LET c == [b EXCEPT !.status = "gone", !.streaming = FALSE] IN
           /\ c \in ChatMessage /\ c.status = "gone"
           /\ c.from = b.from /\ c.stamp = b.stamp /\ c.applied = b.applied
BY DEF ChatMessage

\* A send that comes to a step is otherwise the same, and so are the others.
LEMMA SendTypes ==
    ASSUME TypeOK, NEW n \in Sends, NEW step \in Steps
    PROVE  /\ At(n, step) \in [Sends -> SendState]
           /\ At(n, step)[n].at = step
           /\ At(n, step)[n].kind = sends[n].kind
           /\ At(n, step)[n].origin = sends[n].origin
           /\ \A m \in Sends \ {n} : At(n, step)[m] = sends[m]
<1> DEFINE s == [sends[n] EXCEPT !.at = step, !.aborted = FALSE]
<1>1. sends \in [Sends -> SendState] /\ sends[n] \in SendState
  BY DEF TypeOK
<1>2. s \in SendState /\ s.at = step /\ s.kind = sends[n].kind /\ s.origin = sends[n].origin
  BY <1>1 DEF SendState, Steps
<1>3. At(n, step) = [sends EXCEPT ![n] = s]
  BY <1>1 DEF At
<1> HIDE DEF s
<1> QED
  BY <1>1, <1>2, <1>3

\* A send that fails is an effect on it alone.
LEMMA FailEffect ==
    ASSUME TypeOK, NEW n \in Sends, Live(n), Fail(n), Quiet
    PROVE  Effect(n)
<1>1. sends' = At(n, "over") /\ sends' \in [Sends -> SendState] /\ sends'[n].at = "over"
      /\ sends'[n].kind = sends[n].kind /\ sends'[n].origin = sends[n].origin
      /\ \A m \in Sends \ {n} : sends'[m] = sends[m]
  BY SendTypes DEF Fail, Steps
<1>2. /\ bubbles' \in [Sends -> ChatMessage]
      /\ \A m \in Sends \ {n} : bubbles'[m] = bubbles[m]
      /\ bubbles'[n].from = bubbles[n].from /\ bubbles'[n].stamp = bubbles[n].stamp
      /\ bubbles'[n].applied = bubbles[n].applied /\ bubbles'[n].status = bubbles[n].status
  <2> DEFINE b == [bubbles[n] EXCEPT !.error = TRUE, !.streaming = FALSE]
  <2>1. bubbles \in [Sends -> ChatMessage] /\ bubbles[n] \in ChatMessage
    BY DEF TypeOK
  <2>2. b \in ChatMessage /\ b.from = bubbles[n].from /\ b.stamp = bubbles[n].stamp
        /\ b.applied = bubbles[n].applied /\ b.status = bubbles[n].status
    BY <2>1, MessageTypes
  <2>3. bubbles' = bubbles \/ bubbles' = [bubbles EXCEPT ![n] = b]
    BY DEF Fail, Bubble
  <2> HIDE DEF b
  <2> QED
    BY <2>1, <2>2, <2>3
<1> QED
  BY <1>1, <1>2 DEF Effect, Fail, End, Steps

\* A piece of text adds its own send to a bubble and nothing else.
LEMMA GrowTypes ==
    ASSUME TypeOK, NEW n \in Sends
    PROVE  /\ Grow(n) \in [Sends -> ChatMessage]
           /\ \A m \in Sends \ {n} : Grow(n)[m] = bubbles[m]
           /\ Grow(n)[n].from \subseteq bubbles[n].from \union {n}
           /\ Grow(n)[n].stamp = bubbles[n].stamp /\ Grow(n)[n].applied = bubbles[n].applied
           /\ Grow(n)[n].status = bubbles[n].status
<1>1. \A m \in Sends : bubbles[m] \in ChatMessage
  BY DEF TypeOK
<1>2. Appended(bubbles[n], n) \in ChatMessage
      /\ Appended(bubbles[n], n).from = bubbles[n].from \union {n}
      /\ Appended(bubbles[n], n).stamp = bubbles[n].stamp
      /\ Appended(bubbles[n], n).applied = bubbles[n].applied
      /\ Appended(bubbles[n], n).status = bubbles[n].status
  <2> DEFINE b == bubbles[n]
             grown == IF b.grown < 2 THEN b.grown + 1 ELSE b.grown
             from == b.from \union {n}
             c == [b EXCEPT !.from = from, !.grown = grown]
  <2>1. b \in ChatMessage
    BY <1>1
  <2>2. from \in SUBSET Sends /\ grown \in 0..2
    BY <2>1 DEF ChatMessage
  <2>3. c \in ChatMessage /\ c.from = from /\ c.stamp = b.stamp /\ c.applied = b.applied
        /\ c.status = b.status
    <3> HIDE DEF b, from, grown
    <3> QED
      BY <2>1, <2>2 DEF ChatMessage
  <2>4. Appended(b, n) = c
    BY DEF Appended
  <2> HIDE DEF c
  <2> QED
    BY <2>3, <2>4
<1> QED
  BY <1>1, <1>2 DEF Grow, Heard

\* A reply that is whole is an effect on its own send and bubble.
LEMMA RepliedEffect ==
    ASSUME TypeOK, NEW n \in Sends, Live(n), Quiet,
           NEW shown \in [Sends -> ChatMessage],
           \A m \in Sends \ {n} : shown[m] = bubbles[m],
           shown[n].from \subseteq bubbles[n].from \union {n},
           shown[n].stamp = bubbles[n].stamp, shown[n].applied = bubbles[n].applied,
           shown[n].status = bubbles[n].status,
           Replied(n, shown)
    PROVE  Effect(n)
<1>1. bubbles' = [shown EXCEPT ![n] = [shown[n] EXCEPT !.streaming = FALSE]]
  BY DEF Replied
<1>2. /\ bubbles' \in [Sends -> ChatMessage]
      /\ \A m \in Sends \ {n} : bubbles'[m] = bubbles[m]
      /\ bubbles'[n].from \subseteq bubbles[n].from \union {n}
      /\ bubbles'[n].stamp = bubbles[n].stamp
      /\ bubbles'[n].applied = bubbles[n].applied /\ bubbles'[n].status = bubbles[n].status
  <2> DEFINE b == [shown[n] EXCEPT !.streaming = FALSE]
  <2>1. b \in ChatMessage /\ b.from = shown[n].from /\ b.stamp = shown[n].stamp
        /\ b.applied = shown[n].applied /\ b.status = shown[n].status
    BY StreamingTypes
  <2> HIDE DEF b
  <2>2. bubbles' = [shown EXCEPT ![n] = b]
    BY <1>1 DEF b
  <2> QED
    BY <2>1, <2>2
<1>3. PICK step \in {"suggest", "over"} :
         /\ sends' = At(n, step)
         /\ IF step = "over" THEN End(n, TRUE) ELSE UNCHANGED chat
  BY DEF Replied
<1>4. sends' \in [Sends -> SendState] /\ sends'[n].at = step
      /\ sends'[n].kind = sends[n].kind /\ sends'[n].origin = sends[n].origin
      /\ \A m \in Sends \ {n} : sends'[m] = sends[m]
  BY <1>3, SendTypes DEF Steps
<1> QED
  <2>1. chat' = IF sends'[n].at = "over" THEN [pending |-> FALSE, request |-> 0] ELSE chat
    BY <1>3, <1>4 DEF End
  <2> QED
    BY <1>2, <1>4, <2>1 DEF Effect, Steps

Handled(n) ==
    \/ Preview(n) \/ StreamEnds(n) \/ StreamBreaks(n) \/ AskFails(n) \/ ReplyAnswers(n) \/ Delta(n)
    \/ \E b \in BOOLEAN : CommandAnswers(n, b) \/ Suggest(n, b)

\* Each step of main's handler is one.
LEMMA HandlerEffect ==
    ASSUME Configured, TypeOK, Shape, NEW n \in Sends, Handled(n)
    PROVE  Effect(n)
<1>0. /\ bubbles \in [Sends -> ChatMessage] /\ bubbles[n] \in ChatMessage
      /\ sends \in [Sends -> SendState] /\ sends[n] \in SendState
  BY DEF TypeOK
<1>1. ASSUME NEW step \in {"stream", "ask"}, Live(n), sends' = At(n, step),
             UNCHANGED <<chat, bubbles>>, Quiet
      PROVE  Effect(n)
  <2>1. step \in Steps
    BY DEF Steps
  <2>2. /\ sends' \in [Sends -> SendState]
        /\ sends'[n].at = step
        /\ sends'[n].kind = sends[n].kind /\ sends'[n].origin = sends[n].origin
        /\ \A m \in Sends \ {n} : sends'[m] = sends[m]
    BY <1>1, <2>1, SendTypes
  <2>3. chat' = IF sends'[n].at = "over" THEN [pending |-> FALSE, request |-> 0] ELSE chat
    BY <1>1, <2>2
  <2> QED
    BY <1>0, <1>1, <2>1, <2>2, <2>3 DEF Effect
<1>2. CASE Preview(n)
  <2>1. Live(n) /\ Quiet
    BY <1>2 DEF Preview, Live
  <2>2. CASE Fail(n)
    BY <2>1, <2>2, FailEffect
  <2>3. CASE sends' = At(n, FirstForm(n)) /\ UNCHANGED <<chat, bubbles>>
    BY <1>1, <2>1, <2>3 DEF FirstForm
  <2> QED
    BY <1>2, <2>2, <2>3 DEF Preview
<1>3. CASE StreamEnds(n)
  BY <1>0, <1>3, RepliedEffect DEF StreamEnds, Live
<1>4. CASE StreamBreaks(n)
  BY <1>1, <1>4 DEF StreamBreaks, Live
<1>5. CASE AskFails(n)
  BY <1>5, FailEffect DEF AskFails, Live
<1>6. CASE ReplyAnswers(n)
  BY <1>6, GrowTypes, RepliedEffect DEF ReplyAnswers, Live
<1>7. CASE Delta(n)
  <2>1. /\ Live(n) /\ Quiet /\ bubbles' = Grow(n) /\ sends' = sends /\ chat' = chat
        /\ sends[n].at \in Steps /\ sends[n].at # "over"
    BY <1>7 DEF Delta, Live, Steps
  <2> QED
    BY <1>0, <2>1, GrowTypes DEF Effect
<1>8. ASSUME NEW b \in BOOLEAN, CommandAnswers(n, b) PROVE Effect(n)
  <2> DEFINE shown == [bubbles[n] EXCEPT !.status = "shown", !.from = {n}, !.stamp = Stamp(n)]
             told == [sends[n] EXCEPT !.at = "over", !.checked = b,
                                      !.before = files[sends[n].origin]]
  <2>1. Live(n) /\ Quiet /\ sends[n].at = "ask" /\ sends[n].kind # "chat"
        /\ chat' = [pending |-> FALSE, request |-> 0]
    BY <1>8 DEF CommandAnswers, Live, End
  <2>2. sends[n].origin \in Repos /\ files[sends[n].origin] \in [PathSet -> Contents]
    BY <2>1 DEF Shape, TypeOK
  <2>3. shown \in ChatMessage /\ shown.status = "shown" /\ shown.from = {n}
        /\ shown.stamp = sends[n].origin /\ shown.applied = bubbles[n].applied
    BY <1>0, <2>2 DEF ChatMessage, Stamp, Maybe
  <2>4. told \in SendState /\ told.at = "over" /\ told.kind = sends[n].kind
        /\ told.origin = sends[n].origin
    BY <1>0, <2>2 DEF SendState
  <2>5. bubbles' = [bubbles EXCEPT ![n] = shown] /\ sends' = [sends EXCEPT ![n] = told]
    BY <1>8 DEF CommandAnswers
  <2> HIDE DEF shown, told
  <2>6. /\ sends' \in [Sends -> SendState] /\ bubbles' \in [Sends -> ChatMessage]
        /\ sends'[n] = told /\ bubbles'[n] = shown
        /\ \A m \in Sends \ {n} : sends'[m] = sends[m] /\ bubbles'[m] = bubbles[m]
    BY <1>0, <2>3, <2>4, <2>5
  <2> QED
    BY <2>1, <2>3, <2>4, <2>6 DEF Effect, Steps
<1>9. ASSUME NEW b \in BOOLEAN, Suggest(n, b) PROVE Effect(n)
  <2> DEFINE card == [bubbles[n] EXCEPT !.stamp = Stamp(n)]
  <2>1. Live(n) /\ Quiet /\ sends' = At(n, "over")
        /\ chat' = [pending |-> FALSE, request |-> 0]
        /\ (bubbles' = bubbles \/ bubbles' = [bubbles EXCEPT ![n] = card])
    BY <1>9 DEF Suggest, Live, End, Bubble
  <2>2. sends[n].origin \in Repos
    BY <2>1 DEF Shape, Live
  <2>3. card \in ChatMessage /\ card.status = bubbles[n].status /\ card.from = bubbles[n].from
        /\ card.stamp = sends[n].origin /\ card.applied = bubbles[n].applied
    BY <1>0, <2>2 DEF ChatMessage, Stamp, Maybe
  <2> HIDE DEF card
  <2>4. /\ bubbles' \in [Sends -> ChatMessage]
        /\ bubbles'[n] \in {bubbles[n], card}
        /\ \A m \in Sends \ {n} : bubbles'[m] = bubbles[m]
    BY <1>0, <2>1, <2>3
  <2>5. /\ sends' \in [Sends -> SendState] /\ sends'[n].at = "over"
        /\ sends'[n].kind = sends[n].kind /\ sends'[n].origin = sends[n].origin
        /\ \A m \in Sends \ {n} : sends'[m] = sends[m]
    BY <2>1, SendTypes DEF Steps
  <2> QED
    BY <2>1, <2>3, <2>4, <2>5 DEF Effect, Steps
<1> QED
  BY <1>2, <1>3, <1>4, <1>5, <1>6, <1>7, <1>8, <1>9 DEF Handled

-----------------------------------------------------------------------------
(* Such a step keeps the invariant.                                        *)

\* What a batch of edits holds.
LEMMA ApplyTypes ==
    ASSUME TypeOK, NEW k \in DOMAIN applies
    PROVE  /\ applies[k] \in Application
           /\ applies[k].of \in Sends /\ applies[k].into \in Repos
           /\ applies[k].edit \in 1..(Len(Paths) + 1) /\ applies[k].on \subseteq Branches
           /\ applies[k].raced \in BOOLEAN /\ applies[k].clobbered \in BOOLEAN
           /\ applies[k].at \in {"queued", "compare", "write", "failed", "over"}
<1>1. applies[k] \in Application
  BY DEF TypeOK
<1> QED
  BY <1>1 DEF Application

(* The edits go on as they did where a step leaves the files, the          *)
(* applications and the proposals applied alone.                           *)
LEMMA EditsUnaffected ==
    ASSUME TypeOK, EditInv, UNCHANGED <<files, branch, applies>>,
           \A k \in DOMAIN applies : sends'[applies[k].of] = sends[applies[k].of],
           \A n \in Sends : bubbles'[n].applied => bubbles[n].applied
    PROVE  EditInv'
<1> USE DEF EditInv, EditsLandWhole
<1>1. \A k \in DOMAIN applies : StillAsSeen(k) <=> StillAsSeen(k)'
  BY DEF StillAsSeen, Path
<1>2. OfProposal' /\ EditsAtOrigin' /\ SeenAtWrite'
  BY <1>1 DEF OfProposal, EditsAtOrigin, SeenAtWrite
<1>3. OneHolds' /\ OnCurrentBranch' /\ NothingClobbered' /\ OneBranch'
  BY DEF OneHolds, Holds, OnCurrentBranch, NothingClobbered, OneBranch
<1>4. AppliedIsWhole'
  BY DEF AppliedIsWhole
<1> QED
  BY <1>2, <1>3, <1>4

\* An effect on one send keeps the invariant.
LEMMA EffectKeeps ==
    ASSUME Configured, IInv, NEW n \in Sends, Effect(n)
    PROVE  IInv'
<1> USE DEF IInv, ChatInv, ChatIsTrue, EditInv, EditsLandWhole
<1>1. /\ sends \in [Sends -> SendState] /\ bubbles \in [Sends -> ChatMessage]
      /\ UNCHANGED <<active, stops, files, branch, applies, overlap, moves>>
  BY DEF TypeOK, Effect, Quiet, Work
<1>2. TypeOK'
  <2>1. chat' \in Chat
    BY DEF Effect, TypeOK, Chat, Configured
  <2> QED
    BY <1>1, <2>1 DEF Effect, TypeOK
<1>3. OwnReply'
  BY DEF Effect, OwnReply
<1>4. CardOfOrigin'
  BY DEF Effect, CardOfOrigin
<1>5. Shape'
  BY DEF Effect, Shape, Live, Steps
<1>6. \A m \in Sends \ {n} : Live(m)' <=> Live(m)
  BY DEF Effect, Live
<1>7. Live(n)' <=> sends'[n].at # "over"
  BY DEF Effect, Live, Steps
<1>8. \A k \in DOMAIN applies : Applying(k)' <=> Applying(k)
  BY <1>1 DEF Applying
<1>9. OneOperation'
  BY <1>1, <1>6, <1>7, <1>8 DEF OneOperation, Effect
<1>10. BusyIsTrue'
  <2> SUFFICES ASSUME ~overlap PROVE (chat.pending <=> UnderWay)'
    BY <1>1 DEF BusyIsTrue
  <2>1. chat.pending /\ UnderWay
    BY DEF BusyIsTrue, UnderWay, Effect
  <2>2. CASE sends'[n].at = "over"
    <3>1. ~UnderWay'
      BY <1>1, <1>6, <1>7, <1>8, <2>2 DEF OneOperation, Effect, UnderWay
    <3> QED
      BY <2>2, <3>1 DEF Effect
  <2>3. CASE sends'[n].at # "over"
    BY <1>7, <2>1, <2>3 DEF Effect, UnderWay
  <2> QED
    BY <2>2, <2>3
<1>11. EditInv'
  <2>1. \A k \in DOMAIN applies : sends'[applies[k].of] = sends[applies[k].of]
    BY ApplyTypes DEF OfProposal, Effect, Live
  <2>2. \A m \in Sends : bubbles'[m].applied => bubbles[m].applied
    BY DEF Effect
  <2> HIDE DEF EditInv
  <2> QED
    BY <1>1, <2>1, <2>2, EditsUnaffected
<1> QED
  BY <1>2, <1>3, <1>4, <1>5, <1>9, <1>10, <1>11

\* A message is sent.
LEMMA SendKeeps ==
    ASSUME Configured, IInv, NEW n \in Sends, NEW kind \in {"chat", "commit", "propose"},
           Send(n, kind)
    PROVE  IInv'
<1> USE DEF IInv, ChatInv, ChatIsTrue
<1> DEFINE asked == [sends[n] EXCEPT !.kind = kind, !.origin = active, !.at = "preview"]
           shown == [bubbles[n] EXCEPT !.status = "shown", !.streaming = TRUE]
<1>1. /\ sends \in [Sends -> SendState] /\ bubbles \in [Sends -> ChatMessage]
      /\ sends[n] \in SendState /\ bubbles[n] \in ChatMessage /\ active \in Repos
      /\ UNCHANGED <<active, stops, files, branch, applies, moves>>
  BY DEF TypeOK, Send, Work
<1>2. asked \in SendState /\ asked.at = "preview" /\ asked.kind = kind /\ asked.origin = active
  BY <1>1 DEF SendState, Maybe
<1>3. shown \in ChatMessage /\ shown.status = "shown" /\ shown.from = bubbles[n].from
      /\ shown.stamp = bubbles[n].stamp /\ shown.applied = bubbles[n].applied
  BY <1>1 DEF ChatMessage
<1>4. /\ sends[n].at = "unsent" /\ sends' = [sends EXCEPT ![n] = asked]
      /\ bubbles' = IF kind = "chat" THEN [bubbles EXCEPT ![n] = shown] ELSE bubbles
      /\ chat' = [pending |-> TRUE, request |-> IF kind = "chat" THEN n ELSE chat.request]
      /\ overlap' = (overlap \/ UnderWay \/ stops # {})
  BY DEF Send
<1> HIDE DEF asked, shown
<1>5. /\ sends' \in [Sends -> SendState] /\ bubbles' \in [Sends -> ChatMessage]
      /\ sends'[n] = asked /\ bubbles'[n] \in {bubbles[n], shown}
      /\ kind # "chat" => bubbles'[n] = bubbles[n]
      /\ \A m \in Sends \ {n} : sends'[m] = sends[m] /\ bubbles'[m] = bubbles[m]
  BY <1>1, <1>2, <1>3, <1>4
<1>6. TypeOK'
  <2>1. chat' \in Chat
    BY <1>4 DEF TypeOK, Chat, Configured, Sends
  <2>2. overlap' \in BOOLEAN
    BY <1>4 DEF TypeOK, UnderWay
  <2> QED
    BY <1>1, <1>5, <2>1, <2>2 DEF TypeOK
<1>7. OwnReply'
  BY <1>3, <1>5 DEF OwnReply
<1>8. CardOfOrigin' /\ Shape'
  BY <1>1, <1>2, <1>3, <1>4, <1>5 DEF CardOfOrigin, Shape
<1>9. Live(n)' /\ \A m \in Sends \ {n} : Live(m)' <=> Live(m)
  BY <1>2, <1>5 DEF Live
<1>10. \A k \in DOMAIN applies : Applying(k)' <=> Applying(k)
  BY <1>1 DEF Applying
<1>11. OneOperation'
  BY <1>1, <1>4, <1>9, <1>10 DEF OneOperation, UnderWay
<1>12. BusyIsTrue'
  BY <1>4, <1>9 DEF BusyIsTrue, UnderWay
<1>13. EditInv'
  <2>1. \A k \in DOMAIN applies : sends'[applies[k].of] = sends[applies[k].of]
    BY <1>4, <1>5, ApplyTypes DEF EditInv, OfProposal
  <2>2. \A m \in Sends : bubbles'[m].applied => bubbles[m].applied
    BY <1>3, <1>5
  <2> QED
    BY <1>1, <2>1, <2>2, EditsUnaffected
<1> QED
  BY <1>6, <1>7, <1>8, <1>11, <1>12, <1>13

(* Stop, whenever it reaches main, New chat, and another repository.       *)
LEMMA StopArrivesKeeps ==
    ASSUME Configured, IInv, NEW n \in Sends, StopArrives(n)
    PROVE  IInv'
<1> USE DEF IInv, ChatInv, ChatIsTrue
<1> DEFINE stopped == [sends[n] EXCEPT !.aborted = TRUE, !.stopped = TRUE]
<1>1. /\ sends \in [Sends -> SendState] /\ bubbles \in [Sends -> ChatMessage]
      /\ sends[n] \in SendState
      /\ UNCHANGED <<active, files, branch, applies, moves>>
  BY DEF TypeOK, StopArrives, Work
<1>2. stopped \in SendState /\ stopped.at = sends[n].at /\ stopped.kind = sends[n].kind
      /\ stopped.origin = sends[n].origin
  BY <1>1 DEF SendState
<1>3. \/ sends' = sends
      \/ sends[n].at \in {"stream", "ask"} /\ sends' = [sends EXCEPT ![n] = stopped]
  BY <1>1 DEF StopArrives
<1> HIDE DEF stopped
<1>4. /\ sends' \in [Sends -> SendState]
      /\ \A m \in Sends : /\ sends'[m].at = sends[m].at /\ sends'[m].kind = sends[m].kind
                          /\ sends'[m].origin = sends[m].origin
                          /\ sends[m].at = "over" => sends'[m] = sends[m]
  BY <1>1, <1>2, <1>3
<1>5. /\ bubbles' \in [Sends -> ChatMessage]
      /\ \A m \in Sends : /\ bubbles'[m].status = bubbles[m].status
                          /\ bubbles'[m].from = bubbles[m].from
                          /\ bubbles'[m].stamp = bubbles[m].stamp
                          /\ bubbles'[m].applied = bubbles[m].applied
  <2>1. bubbles' = [m \in Sends |-> [bubbles[m] EXCEPT !.streaming = FALSE]]
    BY DEF StopArrives
  <2> QED
    BY <1>1, <2>1, StreamingTypes
<1>6. /\ chat' = [pending |-> FALSE, request |-> 0] /\ stops' = stops \ {n}
      /\ overlap' = (overlap \/ UnderWay)
  BY DEF StopArrives
<1>7. TypeOK'
  <2>1. chat' \in Chat /\ overlap' \in BOOLEAN /\ stops' \subseteq Sends
    BY <1>6 DEF TypeOK, Chat, Configured, UnderWay
  <2> QED
    BY <1>1, <1>4, <1>5, <2>1 DEF TypeOK
<1>8. OwnReply' /\ CardOfOrigin' /\ Shape'
  BY <1>4, <1>5 DEF OwnReply, CardOfOrigin, Shape
<1>9. UnderWay' <=> UnderWay
  BY <1>1, <1>4 DEF UnderWay, Live, Applying
<1>10. OneOperation' /\ BusyIsTrue'
  BY <1>1, <1>4, <1>6, <1>9 DEF OneOperation, BusyIsTrue, Live, Applying
<1>11. EditInv'
  <2>1. \A k \in DOMAIN applies : sends'[applies[k].of] = sends[applies[k].of]
    BY <1>4, ApplyTypes DEF EditInv, OfProposal
  <2> QED
    BY <1>1, <1>5, <2>1, EditsUnaffected
<1> QED
  BY <1>7, <1>8, <1>10, <1>11

\* The user stops a reply, clears the chat or shows another repository.
LEMMA PanelKeeps ==
    ASSUME Configured, IInv, Stop \/ Clear \/ \E r \in Repos : SwitchRepo(r)
    PROVE  IInv'
<1> USE DEF IInv, ChatInv, ChatIsTrue
<1>1. moves' \in 0..MaxMoves /\ UNCHANGED <<sends, files, branch, applies, overlap>>
  <2>1. moves \in 0..MaxMoves /\ MaxMoves \in Nat
    BY DEF TypeOK, Configured
  <2>2. Move /\ UNCHANGED <<sends, files, branch, applies, overlap>>
    BY DEF Stop, Clear, SwitchRepo, Work
  <2> QED
    BY <2>1, <2>2 DEF Move
<1>2. /\ bubbles' \in [Sends -> ChatMessage]
      /\ \A m \in Sends : /\ bubbles'[m].status = "none" <=> bubbles[m].status = "none"
                          /\ bubbles'[m].from = bubbles[m].from
                          /\ bubbles'[m].stamp = bubbles[m].stamp
                          /\ bubbles'[m].applied = bubbles[m].applied
  <2>1. bubbles \in [Sends -> ChatMessage]
    BY DEF TypeOK
  <2>2. CASE Clear
    <3> DEFINE gone(m) == [bubbles[m] EXCEPT !.status = "gone", !.streaming = FALSE]
    <3>1. \A m \in Sends : /\ gone(m) \in ChatMessage /\ gone(m).status = "gone"
                           /\ gone(m).from = bubbles[m].from /\ gone(m).stamp = bubbles[m].stamp
                           /\ gone(m).applied = bubbles[m].applied
      BY <2>1, GoneTypes
    <3>2. bubbles' = [m \in Sends |-> IF bubbles[m].status = "shown" THEN gone(m)
                                                                    ELSE bubbles[m]]
      BY <2>2 DEF Clear
    <3> HIDE DEF gone
    <3> QED
      BY <2>1, <3>1, <3>2
  <2>3. CASE Stop \/ \E r \in Repos : SwitchRepo(r)
    BY <2>1, <2>3 DEF Stop, SwitchRepo
  <2> QED
    BY <2>2, <2>3
<1>3. chat' \in Chat /\ chat'.pending = chat.pending
  <2>1. chat \in Chat /\ 0 \in 0..MaxSends
    BY DEF TypeOK, Configured
  <2>2. [chat EXCEPT !.request = 0] \in Chat
        /\ [chat EXCEPT !.request = 0].pending = chat.pending
    BY <2>1 DEF Chat
  <2>3. chat' = chat \/ chat' = [chat EXCEPT !.request = 0]
    BY DEF Stop, Clear, SwitchRepo
  <2> QED
    BY <2>1, <2>2, <2>3
<1>4. stops' \subseteq Sends /\ active' \in Repos
  <2>1. chat.request \in 0..MaxSends /\ stops \subseteq Sends /\ active \in Repos
    BY DEF TypeOK, Chat
  <2>2. chat.request # 0 => chat.request \in Sends
    BY <2>1 DEF Configured, Sends
  <2> QED
    BY <2>1, <2>2 DEF Stop, Clear, SwitchRepo
<1>5. TypeOK'
  BY <1>1, <1>2, <1>3, <1>4 DEF TypeOK
<1>6. OwnReply' /\ CardOfOrigin' /\ Shape'
  BY <1>1, <1>2 DEF OwnReply, CardOfOrigin, Shape
<1>7. OneOperation' /\ BusyIsTrue'
  BY <1>1, <1>3 DEF OneOperation, BusyIsTrue, UnderWay, Live, Applying
<1>8. EditInv'
  BY <1>1, <1>2, EditsUnaffected
<1> QED
  BY <1>5, <1>6, <1>7, <1>8

-----------------------------------------------------------------------------
(* The steps of a batch of edits.                                          *)

(* What the chat shows goes on as it did where its state, and which        *)
(* applications are under way, stay the same.                              *)
LEMMA ChatUnaffected ==
    ASSUME ChatInv, TypeOK', UNCHANGED <<chat, bubbles, sends, overlap>>,
           DOMAIN applies' = DOMAIN applies,
           \A k \in DOMAIN applies : Applying(k)' <=> Applying(k)
    PROVE  ChatInv'
<1> USE DEF ChatInv, ChatIsTrue
<1>1. OwnReply' /\ CardOfOrigin' /\ Shape'
  BY DEF OwnReply, CardOfOrigin, Shape
<1>2. OneOperation' /\ BusyIsTrue'
  BY DEF OneOperation, BusyIsTrue, UnderWay, Live
<1> QED
  BY <1>1, <1>2

\* A batch that changes leaves the others alone.
LEMMA ReplaceTypes ==
    ASSUME TypeOK, NEW k \in DOMAIN applies, NEW a \in Application,
           applies' = [applies EXCEPT ![k] = a]
    PROVE  /\ applies' \in Seq(Application) /\ Len(applies') = Len(applies)
           /\ DOMAIN applies' = DOMAIN applies /\ applies'[k] = a
           /\ \A j \in DOMAIN applies \ {k} : applies'[j] = applies[j]
<1>1. applies \in Seq(Application) /\ k \in 1..Len(applies)
  BY DEF TypeOK
<1> QED
  BY <1>1, ExceptSeq

\* What is on one branch is on no two.
LEMMA BranchCount ==
    ASSUME NEW on, NEW b, on \subseteq {b}
    PROVE  Cardinality(on) <= 1
<1>1. on = {} \/ on = {b}
  OBVIOUS
<1>2. Cardinality({}) = 0 /\ Cardinality({b}) = 1
  BY FS_EmptySet, FS_Singleton
<1> QED
  BY <1>1, <1>2

(* A step that makes e of the batch k.                                     *)
Advances(k, e) ==
    /\ applies' = [applies EXCEPT ![k] = e] /\ UNCHANGED <<sends, branch>>
    /\ e.of = applies[k].of /\ e.into = applies[k].into /\ e.edit >= applies[k].edit
    /\ ~e.clobbered /\ e.at # "queued"
    /\ e.at \in {"compare", "write"} =>
          /\ \A j \in DOMAIN applies \ {k} : Holds(j) => applies[j].into # e.into
          /\ e.on \subseteq {branch[e.into]}
    /\ \E b \in Branches : e.on \subseteq {b}
    /\ e.at = "write" => /\ e.edit = applies[k].edit /\ e.edit <= Len(Paths)
                         /\ StillAsSeen(k) /\ files' = files
    /\ files' # files => Holds(k)
    /\ \A r \in Repos \ {e.into} : files'[r] = files[r]
    /\ \A n \in Sends : bubbles'[n].applied =>
          bubbles[n].applied \/ (n = e.of /\ e.edit > Len(Paths))

(* The edits land as they should where one batch moves on, and another     *)
(* does not lose what it compared.                                         *)
LEMMA AdvanceKeeps ==
    ASSUME TypeOK, EditInv, NEW k \in DOMAIN applies, NEW e \in Application, Advances(k, e)
    PROVE  EditInv'
<1> USE DEF EditInv, EditsLandWhole, Advances
<1>1. /\ DOMAIN applies' = DOMAIN applies /\ applies'[k] = e
      /\ \A j \in DOMAIN applies \ {k} : applies'[j] = applies[j]
  BY ReplaceTypes
<1>2. \A j \in DOMAIN applies : applies'[j].of = applies[j].of /\ applies'[j].into = applies[j].into
  BY <1>1
<1>3. OfProposal' /\ EditsAtOrigin'
  BY <1>1, <1>2 DEF OfProposal, EditsAtOrigin
<1>4. NothingClobbered'
  BY <1>1 DEF NothingClobbered
<1>5. OneHolds'
  BY <1>1, <1>2 DEF OneHolds, Holds
<1>6. OnCurrentBranch'
  BY <1>1, <1>2 DEF OnCurrentBranch, Holds
<1>7. OneBranch'
  BY <1>6, BranchCount DEF OnCurrentBranch, OneBranch
<1>8. SeenAtWrite'
  <2> SUFFICES ASSUME NEW j \in DOMAIN applies, applies'[j].at = "write"
               PROVE  /\ applies'[j].edit <= Len(Paths)
                      /\ applies'[j].raced \/ StillAsSeen(j)'
    BY <1>1 DEF SeenAtWrite
  <2>1. CASE j = k
    BY <1>1, <2>1 DEF StillAsSeen, Path
  <2>2. CASE j # k
    <3>1. applies'[j] = applies[j] /\ applies[j].into \in Repos /\ Holds(j)
      BY <1>1, <2>2, ApplyTypes DEF Holds
    <3>2. files'[applies[j].into] = files[applies[j].into]
      BY <2>2, <3>1 DEF OneHolds
    <3> QED
      BY <3>1, <3>2 DEF SeenAtWrite, StillAsSeen, Path
  <2> QED
    BY <2>1, <2>2
<1>9. AppliedIsWhole'
  <2> SUFFICES ASSUME NEW n \in Sends, bubbles'[n].applied
               PROVE  \E j \in DOMAIN applies : applies'[j].of = n /\ applies'[j].edit > Len(Paths)
    BY <1>1 DEF AppliedIsWhole
  <2>1. CASE bubbles[n].applied
    <3>1. PICK j \in DOMAIN applies : applies[j].of = n /\ applies[j].edit > Len(Paths)
      BY <2>1 DEF AppliedIsWhole
    <3>2. CASE j = k
      <4>1. e.edit \in Nat /\ applies[k].edit \in Nat /\ Len(Paths) + 1 \in Int
        BY ApplyTypes DEF Application, Configured
      <4> QED
        BY <1>1, <3>1, <3>2, <4>1
    <3> QED
      BY <1>1, <3>1, <3>2
  <2>2. CASE n = e.of /\ e.edit > Len(Paths)
    BY <1>1, <2>2
  <2> QED
    BY <2>1, <2>2
<1> QED
  BY <1>3, <1>4, <1>5, <1>6, <1>7, <1>8, <1>9

(* A batch moves on: it takes the queue, compares, or writes.              *)
LEMMA BatchKeeps ==
    ASSUME Configured, IInv, NEW k \in DOMAIN applies, NEW e \in Application,
           Advances(k, e),
           files' \in [Repos -> [PathSet -> Contents]],
           e.at # "over", Applying(k), UNCHANGED chat, Hold
    PROVE  IInv'
<1> USE DEF IInv
<1>1. TypeOK /\ EditInv /\ applies' = [applies EXCEPT ![k] = e]
  BY DEF ChatInv, ChatIsTrue, Advances
<1>2. /\ applies' \in Seq(Application) /\ Len(applies') = Len(applies)
      /\ DOMAIN applies' = DOMAIN applies /\ applies'[k] = e
      /\ \A j \in DOMAIN applies \ {k} : applies'[j] = applies[j]
  BY <1>1, ReplaceTypes
<1>3. TypeOK'
  BY <1>1, <1>2 DEF TypeOK, Hold
<1>4. \A j \in DOMAIN applies : Applying(j)' <=> Applying(j)
  BY <1>2 DEF Applying
<1>5. ChatInv'
  BY <1>2, <1>3, <1>4, ChatUnaffected DEF Hold
<1>6. EditInv'
  BY <1>1, AdvanceKeeps
<1> QED
  BY <1>5, <1>6

\* A batch comes to the head of the queue.
LEMMA ApplyRunsKeeps ==
    ASSUME Configured, IInv, NEW k \in DOMAIN applies, ApplyRuns(k)
    PROVE  IInv'
<1> USE DEF IInv
<1> DEFINE e == [applies[k] EXCEPT !.at = "compare"]
<1>1. TypeOK /\ EditInv
  BY DEF ChatInv, ChatIsTrue
<1>2. /\ e \in Application /\ e.at = "compare"
      /\ e.of = applies[k].of /\ e.into = applies[k].into /\ e.edit = applies[k].edit
      /\ e.on = applies[k].on /\ e.clobbered = applies[k].clobbered
  BY <1>1, ApplyTypes DEF Application
<1>3. /\ applies' = [applies EXCEPT ![k] = e] /\ applies[k].at = "queued"
      /\ QueueFree(applies[k].into) /\ UNCHANGED <<chat, files>> /\ Hold
  BY DEF ApplyRuns
<1> HIDE DEF e
<1>4. e.edit >= applies[k].edit
  BY <1>1, <1>2, ApplyTypes DEF Configured
<1>5. e.on = {}
  BY <1>2, <1>3 DEF EditInv, OnCurrentBranch
<1>6. \E b \in Branches : e.on \subseteq {b}
  BY <1>5 DEF Branches
<1>7. ~e.clobbered
  BY <1>2 DEF EditInv, EditsLandWhole, NothingClobbered
<1>8. Advances(k, e)
  BY <1>1, <1>2, <1>3, <1>4, <1>5, <1>6, <1>7 DEF Advances, QueueFree, Hold
<1>9. Applying(k) /\ files' \in [Repos -> [PathSet -> Contents]]
  BY <1>1, <1>3 DEF Applying, TypeOK
<1> QED
  BY <1>2, <1>3, <1>8, <1>9, BatchKeeps

\* A file is compared with what the proposal was made from.
LEMMA CompareKeeps ==
    ASSUME Configured, IInv, NEW k \in DOMAIN applies, Compare(k)
    PROVE  IInv'
<1> USE DEF IInv
<1> DEFINE step == IF StillAsSeen(k) THEN "write" ELSE "failed"
           e == [applies[k] EXCEPT !.at = step, !.raced = FALSE]
<1>1. TypeOK /\ EditInv
  BY DEF ChatInv, ChatIsTrue
<1>2. /\ e \in Application /\ e.at = step
      /\ e.of = applies[k].of /\ e.into = applies[k].into /\ e.edit = applies[k].edit
      /\ e.on = applies[k].on /\ e.clobbered = applies[k].clobbered
  BY <1>1, ApplyTypes DEF Application
<1>3. /\ applies' = [applies EXCEPT ![k] = e] /\ Holds(k) /\ applies[k].edit <= Len(Paths)
      /\ UNCHANGED <<chat, files>> /\ Hold
  BY DEF Compare, Holds
<1>4. step = "write" => StillAsSeen(k)
  OBVIOUS
<1>5. step \in {"write", "failed"}
  OBVIOUS
<1> HIDE DEF e, step
<1>6. e.edit >= applies[k].edit
  BY <1>1, <1>2, ApplyTypes DEF Configured
<1>7. e.on \subseteq {branch[e.into]} /\ \E b \in Branches : e.on \subseteq {b}
  BY <1>2, <1>3 DEF EditInv, OnCurrentBranch
<1>8. ~e.clobbered
  BY <1>2 DEF EditInv, EditsLandWhole, NothingClobbered
<1>9. \A j \in DOMAIN applies \ {k} : Holds(j) => applies[j].into # e.into
  BY <1>2, <1>3 DEF EditInv, OneHolds
<1>10. Advances(k, e)
  BY <1>1, <1>2, <1>3, <1>4, <1>5, <1>6, <1>7, <1>8, <1>9 DEF Advances, Hold
<1>11. Applying(k) /\ files' \in [Repos -> [PathSet -> Contents]]
  BY <1>1, <1>3 DEF Applying, TypeOK, Compare
<1> QED
  BY <1>2, <1>3, <1>5, <1>10, <1>11, BatchKeeps

\* It is written.
LEMMA WriteKeeps ==
    ASSUME Configured, IInv, NEW k \in DOMAIN applies, Write(k)
    PROVE  IInv'
<1> USE DEF IInv
<1> DEFINE a == applies[k]
<1>1. TypeOK /\ EditInv
  BY DEF ChatInv, ChatIsTrue
<1>2. /\ a \in Application /\ a.of \in Sends /\ a.into \in Repos /\ a.on \subseteq Branches
      /\ a.edit \in 1..(Len(Paths) + 1) /\ a.clobbered = FALSE /\ a.at = "write"
      /\ a.edit <= Len(Paths)
      /\ a.raced \/ StillAsSeen(k)
      /\ Holds(k) /\ Applying(k) /\ UNCHANGED chat /\ Hold
  BY <1>1, ApplyTypes DEF Write, EditInv, SeenAtWrite, EditsLandWhole, NothingClobbered,
     Holds, Applying
<1>3. branch[a.into] \in Branches /\ a.on \subseteq {branch[a.into]}
  BY <1>1, <1>2 DEF TypeOK, EditInv, OnCurrentBranch
<1>4. \A j \in DOMAIN applies \ {k} : Holds(j) => applies[j].into # a.into
  BY <1>2 DEF EditInv, OneHolds
<1>5. CASE files' = files /\ applies' = [applies EXCEPT ![k].at = "failed"]
  <2> DEFINE e == [a EXCEPT !.at = "failed"]
  <2>1. /\ e \in Application /\ e.at = "failed" /\ e.of = a.of /\ e.into = a.into
        /\ e.edit = a.edit /\ e.on = a.on /\ e.clobbered = FALSE
    BY <1>2 DEF Application
  <2>2. applies' = [applies EXCEPT ![k] = e]
    BY <1>5
  <2> HIDE DEF e
  <2>3. e.edit >= a.edit
    BY <1>2, <2>1 DEF Configured
  <2>6. \E b \in Branches : e.on \subseteq {b}
    BY <1>3, <2>1
  <2>4. Advances(k, e)
    BY <1>1, <1>2, <1>5, <2>1, <2>2, <2>3, <2>6 DEF Advances, Hold
  <2>5. files' \in [Repos -> [PathSet -> Contents]]
    BY <1>1, <1>5 DEF TypeOK
  <2> QED
    BY <1>2, <2>1, <2>2, <2>4, <2>5, BatchKeeps
<1>6. CASE /\ files' = [files EXCEPT ![a.into][Path(k)] = By(a.of)]
           /\ applies' = [applies EXCEPT ![k] =
                 [a EXCEPT !.at = "compare", !.edit = @ + 1,
                           !.on = @ \union {branch[a.into]},
                           !.clobbered = @ \/ (/\ sends[a.of].checked /\ ~a.raced
                                               /\ files[a.into][Path(k)]
                                                     # sends[a.of].before[Path(k)])]]
  <2> DEFINE lost == a.clobbered \/ (/\ sends[a.of].checked /\ ~a.raced
                                     /\ files[a.into][Path(k)] # sends[a.of].before[Path(k)])
             on == a.on \union {branch[a.into]}
             e == [a EXCEPT !.at = "compare", !.edit = a.edit + 1, !.on = on,
                            !.clobbered = lost]
  <2>1. lost = FALSE
    BY <1>2 DEF StillAsSeen
  <2>2. on \subseteq Branches /\ on \subseteq {branch[a.into]}
    BY <1>2, <1>3
  <2>8. a.edit + 1 \in 1..(Len(Paths) + 1) /\ a.edit + 1 >= a.edit
    BY <1>2 DEF Configured
  <2>3. applies' = [applies EXCEPT ![k] = e]
    BY <1>6
  <2>4. /\ e \in Application /\ e.at = "compare" /\ e.of = a.of /\ e.into = a.into
        /\ e.edit = a.edit + 1 /\ e.on = on /\ e.clobbered = FALSE
    <3> HIDE DEF lost, on
    <3> QED
      BY <1>2, <2>1, <2>2, <2>8 DEF Application
  <2>5. /\ files' \in [Repos -> [PathSet -> Contents]]
        /\ \A r \in Repos \ {a.into} : files'[r] = files[r]
    <3>1. files \in [Repos -> [PathSet -> Contents]] /\ By(a.of) \in Contents
      BY <1>1, <1>2 DEF TypeOK, By, Contents, Configured, Sends
    <3> QED
      BY <1>2, <1>6, <3>1
  <2> HIDE DEF e, on, lost
  <2>6. \E b \in Branches : e.on \subseteq {b}
    BY <1>3, <2>2, <2>4
  <2>7. Advances(k, e)
    BY <1>1, <1>2, <1>3, <1>4, <2>2, <2>3, <2>4, <2>5, <2>6, <2>8 DEF Advances, Hold
  <2> QED
    BY <1>2, <2>3, <2>4, <2>5, <2>7, BatchKeeps
<1> QED
  BY <1>5, <1>6 DEF Write

\* A card that is marked applied is otherwise the same.
LEMMA AppliedTypes ==
    ASSUME NEW b \in ChatMessage
    PROVE  LET c == [b EXCEPT !.applied = TRUE] IN
           /\ c \in ChatMessage /\ c.applied = TRUE
           /\ c.from = b.from /\ c.stamp = b.stamp /\ c.status = b.status
BY DEF ChatMessage

(* The answer, which ends the only operation under way unless they overlap. *)
LEMMA ApplyAnswersKeeps ==
    ASSUME Configured, IInv, NEW k \in DOMAIN applies, ApplyAnswers(k)
    PROVE  IInv'
<1> USE DEF IInv
<1> DEFINE e == [applies[k] EXCEPT !.at = "over"]
           n == applies[k].of
           marked == [bubbles[n] EXCEPT !.applied = TRUE]
           whole == applies[k].at = "compare" /\ applies[k].edit > Len(Paths)
<1>1. TypeOK /\ EditInv /\ ChatInv
  BY DEF ChatInv, ChatIsTrue
<1>2. /\ e \in Application /\ e.at = "over"
      /\ e.of = applies[k].of /\ e.into = applies[k].into /\ e.edit = applies[k].edit
      /\ e.on = applies[k].on /\ e.clobbered = applies[k].clobbered
      /\ n \in Sends /\ applies[k].edit \in 1..(Len(Paths) + 1)
  BY <1>1, ApplyTypes DEF Application
<1>3. /\ applies' = [applies EXCEPT ![k] = e] /\ Applying(k)
      /\ chat' = [chat EXCEPT !.pending = FALSE]
      /\ UNCHANGED <<active, sends, stops, files, branch, overlap, moves>>
  BY DEF ApplyAnswers, Applying
<1>4. bubbles' = bubbles \/ (whole /\ bubbles' = [bubbles EXCEPT ![n] = marked])
  BY DEF ApplyAnswers, Bubble
<1>5. bubbles \in [Sends -> ChatMessage] /\ bubbles[n] \in ChatMessage
  BY <1>1, <1>2 DEF TypeOK
<1>6. /\ marked \in ChatMessage /\ marked.from = bubbles[n].from
      /\ marked.stamp = bubbles[n].stamp /\ marked.status = bubbles[n].status
  BY <1>5, AppliedTypes
<1>7. whole => e.edit > Len(Paths)
  BY <1>2
<1> HIDE DEF e, marked, whole
<1>8. /\ bubbles' \in [Sends -> ChatMessage]
      /\ \A m \in Sends : /\ bubbles'[m].from = bubbles[m].from
                          /\ bubbles'[m].stamp = bubbles[m].stamp
                          /\ bubbles'[m].status = bubbles[m].status
      /\ \A m \in Sends : bubbles'[m].applied =>
            bubbles[m].applied \/ (m = e.of /\ e.edit > Len(Paths))
  BY <1>2, <1>4, <1>5, <1>6, <1>7
<1>9. Advances(k, e)
  <2>1. e.edit >= applies[k].edit
    BY <1>2 DEF Configured
  <2>2. \E b \in Branches : e.on \subseteq {b}
    BY <1>1, <1>2 DEF EditInv, OnCurrentBranch
  <2>3. ~e.clobbered
    BY <1>1, <1>2 DEF EditInv, EditsLandWhole, NothingClobbered
  <2> QED
    BY <1>2, <1>3, <1>8, <2>1, <2>2, <2>3 DEF Advances
<1>10. EditInv'
  BY <1>1, <1>2, <1>9, AdvanceKeeps
<1>11. /\ applies' \in Seq(Application) /\ Len(applies') = Len(applies)
       /\ DOMAIN applies' = DOMAIN applies /\ applies'[k] = e
       /\ \A j \in DOMAIN applies \ {k} : applies'[j] = applies[j]
  BY <1>1, <1>2, <1>3, ReplaceTypes
<1>12. chat' \in Chat /\ chat'.pending = FALSE
  BY <1>1, <1>3 DEF TypeOK, Chat
<1>13. TypeOK'
  BY <1>1, <1>3, <1>8, <1>11, <1>12 DEF TypeOK
<1>14. OwnReply' /\ CardOfOrigin' /\ Shape'
  BY <1>1, <1>3, <1>8 DEF OwnReply, CardOfOrigin, Shape, ChatInv, ChatIsTrue
<1>15. /\ ~Applying(k)' /\ \A j \in DOMAIN applies \ {k} : Applying(j)' <=> Applying(j)
       /\ \A m \in Sends : Live(m)' <=> Live(m)
  BY <1>2, <1>3, <1>11 DEF Applying, Live
<1>16. OneOperation'
  BY <1>1, <1>3, <1>11, <1>15 DEF OneOperation, ChatInv
<1>17. BusyIsTrue'
  BY <1>1, <1>3, <1>11, <1>12, <1>15 DEF BusyIsTrue, OneOperation, ChatInv, UnderWay
<1> QED
  BY <1>10, <1>13, <1>14, <1>16, <1>17 DEF ChatInv, ChatIsTrue

(* A click on Apply.                                                       *)
LEMMA ApplyKeeps ==
    ASSUME Configured, IInv, NEW n \in Sends, Apply(n)
    PROVE  IInv'
<1> USE DEF IInv
<1> DEFINE e == [of |-> n, into |-> bubbles[n].stamp, edit |-> 1,
                 at |-> "queued", raced |-> FALSE, clobbered |-> FALSE, on |-> {}]
<1>1. TypeOK /\ EditInv /\ ChatInv
  BY DEF ChatInv, ChatIsTrue
<1>2. /\ applies' = Append(applies, e) /\ Len(applies) < MaxApplies
      /\ chat' = [chat EXCEPT !.pending = TRUE]
      /\ overlap' = (overlap \/ UnderWay \/ stops # {})
      /\ UNCHANGED <<active, bubbles, sends, stops, files, branch, moves>>
  BY DEF Apply
<1>3. /\ sends[n].kind = "propose" /\ sends[n].at = "over"
      /\ bubbles[n].stamp = sends[n].origin /\ bubbles[n].stamp \in Repos
  <2>1. sends[n].kind = "propose" /\ bubbles[n].status = "shown" /\ bubbles[n].stamp = active
        /\ active \in Repos
    BY <1>1 DEF Apply, ApplyShown, TypeOK
  <2>2. bubbles[n].stamp \in {None, sends[n].origin}
    BY <1>1 DEF ChatInv, ChatIsTrue, CardOfOrigin
  <2> QED
    BY <1>1, <2>1, <2>2 DEF Configured, ChatInv, Shape
<1>4. /\ e \in Application /\ e.of = n /\ e.into = bubbles[n].stamp
      /\ e.at = "queued" /\ e.clobbered = FALSE /\ e.on = {}
  BY <1>3 DEF Configured, Application
<1> HIDE DEF e
<1>5. applies \in Seq(Application) /\ Len(applies) \in Nat /\ DOMAIN applies = 1..Len(applies)
  BY <1>1 DEF TypeOK
<1>0. PICK k \in Nat : k = Len(applies) + 1
  BY <1>5
<1>6. /\ applies' \in Seq(Application) /\ Len(applies') = k /\ applies'[k] = e
      /\ \A j \in DOMAIN applies : applies'[j] = applies[j] /\ j # k
      /\ DOMAIN applies' = DOMAIN applies \union {k}
  BY <1>0, <1>2, <1>4, <1>5, AppendProperties
<1>7. Len(applies') <= MaxApplies
  BY <1>0, <1>2, <1>5, <1>6 DEF Configured
<1>8. TypeOK'
  <2>1. chat' \in Chat /\ overlap' \in BOOLEAN
    BY <1>1, <1>2 DEF TypeOK, Chat, UnderWay
  <2> QED
    BY <1>1, <1>2, <1>6, <1>7, <2>1 DEF TypeOK
<1>9. OwnReply' /\ CardOfOrigin' /\ Shape'
  BY <1>1, <1>2 DEF OwnReply, CardOfOrigin, Shape, ChatInv, ChatIsTrue
<1>10. /\ Applying(k)' /\ \A j \in DOMAIN applies : Applying(j)' <=> Applying(j)
       /\ \A m \in Sends : Live(m)' <=> Live(m)
  <2>1. applies'[k].at # "over"
    BY <1>4, <1>6
  <2>2. \A j \in DOMAIN applies : applies'[j] = applies[j]
    BY <1>6
  <2>3. Applying(k)' /\ \A j \in DOMAIN applies : Applying(j)' <=> Applying(j)
    BY <2>1, <2>2 DEF Applying
  <2>4. \A m \in Sends : Live(m)' <=> Live(m)
    BY <1>2 DEF Live
  <2> QED
    BY <2>3, <2>4
<1>11. OneOperation'
  BY <1>1, <1>2, <1>6, <1>10 DEF OneOperation, ChatInv, UnderWay
<1>12. BusyIsTrue'
  <2>1. chat'.pending = TRUE
    BY <1>1, <1>2 DEF TypeOK, Chat
  <2>2. \E j \in DOMAIN applies' : Applying(j)'
    BY <1>6, <1>10
  <2>3. UnderWay'
    BY <2>2 DEF UnderWay
  <2> QED
    BY <2>1, <2>3 DEF BusyIsTrue
<1>13. OfProposal' /\ EditsAtOrigin' /\ NothingClobbered' /\ OneHolds'
  BY <1>1, <1>2, <1>3, <1>4, <1>6
     DEF EditInv, EditsLandWhole, OfProposal, EditsAtOrigin, NothingClobbered, OneHolds, Holds
<1>14. OnCurrentBranch'
  <2>1. \E b \in Branches : e.on \subseteq {b}
    BY <1>4 DEF Branches
  <2> QED
    BY <1>1, <1>2, <1>4, <1>6, <2>1 DEF EditInv, OnCurrentBranch, Holds
<1>15. OneBranch'
  BY <1>14, BranchCount DEF OnCurrentBranch, OneBranch
<1>16. SeenAtWrite'
  BY <1>1, <1>2, <1>4, <1>6 DEF EditInv, SeenAtWrite, StillAsSeen, Path
<1>17. AppliedIsWhole'
  BY <1>1, <1>2, <1>6 DEF EditInv, EditsLandWhole, AppliedIsWhole
<1> QED
  BY <1>8, <1>9, <1>11, <1>12, <1>13, <1>14, <1>15, <1>16, <1>17
     DEF ChatInv, ChatIsTrue, EditInv, EditsLandWhole

-----------------------------------------------------------------------------
(* The worktree changes under the proposals.                               *)

\* What a checkout or an editor leaves in a file is a content.
LEMMA ContentTypes ==
    ASSUME Configured
    PROVE  /\ ByHand \in Contents
           /\ \A p \in PathSet, b \in Branches : Committed(p, b) \in Contents
BY DEF Configured, ByHand, Contents, Branches, Committed, Shared

\* A branch is checked out, when no batch holds the queue.
LEMMA CheckoutKeeps ==
    ASSUME Configured, IInv, NEW r \in Repos, Checkout(r)
    PROVE  IInv'
<1> USE DEF IInv
<1> DEFINE b == 3 - branch[r]
           tree == [p \in PathSet |-> IF p \in Differs THEN Committed(p, b) ELSE files[r][p]]
<1>1. TypeOK /\ EditInv /\ ChatInv
  BY DEF ChatInv, ChatIsTrue
<1>2. /\ Move /\ QueueFree(r)
      /\ branch' = [branch EXCEPT ![r] = b] /\ files' = [files EXCEPT ![r] = tree]
      /\ UNCHANGED <<active, chat, bubbles, sends, stops, applies, overlap>>
  BY DEF Checkout
<1>3. b \in Branches
  BY <1>1 DEF TypeOK, Branches
<1>4. tree \in [PathSet -> Contents]
  BY <1>1, <1>3, ContentTypes DEF TypeOK
<1> HIDE DEF b, tree
<1>5. /\ branch' \in [Repos -> Branches] /\ files' \in [Repos -> [PathSet -> Contents]]
      /\ \A s \in Repos \ {r} : branch'[s] = branch[s] /\ files'[s] = files[s]
  BY <1>1, <1>2, <1>3, <1>4 DEF TypeOK
<1>6. moves' \in 0..MaxMoves
  BY <1>1, <1>2 DEF TypeOK, Move, Configured
<1>7. TypeOK'
  BY <1>1, <1>2, <1>5, <1>6 DEF TypeOK
<1>8. ChatInv'
  BY <1>1, <1>2, <1>7, ChatUnaffected DEF Applying
<1>9. \A k \in DOMAIN applies : Holds(k) => applies[k].into \in Repos \ {r}
  BY <1>1, <1>2, ApplyTypes DEF QueueFree
<1>10. OfProposal' /\ EditsAtOrigin' /\ NothingClobbered' /\ OneHolds' /\ OneBranch'
       /\ AppliedIsWhole'
  BY <1>1, <1>2 DEF EditInv, EditsLandWhole, OfProposal, EditsAtOrigin, NothingClobbered,
     OneHolds, Holds, OneBranch, AppliedIsWhole
<1>11. OnCurrentBranch'
  BY <1>1, <1>2, <1>5, <1>9 DEF EditInv, OnCurrentBranch, Holds
<1>12. SeenAtWrite'
  <2> SUFFICES ASSUME NEW k \in DOMAIN applies, applies[k].at = "write"
               PROVE  /\ applies[k].edit <= Len(Paths)
                      /\ applies[k].raced \/ StillAsSeen(k)'
    BY <1>2 DEF SeenAtWrite
  <2>1. files'[applies[k].into] = files[applies[k].into]
    BY <1>5, <1>9 DEF Holds
  <2> QED
    BY <1>1, <1>2, <2>1 DEF EditInv, SeenAtWrite, StillAsSeen, Path
<1> QED
  BY <1>8, <1>10, <1>11, <1>12 DEF EditInv, EditsLandWhole

\* A batch whose file an editor has saved is otherwise the same.
LEMMA RacedTypes ==
    ASSUME NEW a \in Application
    PROVE  LET c == [a EXCEPT !.raced = TRUE] IN
           /\ c \in Application /\ c.raced = TRUE
           /\ c.of = a.of /\ c.into = a.into /\ c.edit = a.edit /\ c.at = a.at
           /\ c.on = a.on /\ c.clobbered = a.clobbered
BY DEF Application

\* An editor saves a file, at any moment.
LEMMA EditByHandKeeps ==
    ASSUME Configured, IInv, NEW r \in Repos, NEW p \in PathSet, EditByHand(r, p)
    PROVE  IInv'
<1> USE DEF IInv
<1> DEFINE Hit(k) == applies[k].at = "write" /\ applies[k].into = r /\ Path(k) = p
           raced(k) == [applies[k] EXCEPT !.raced = TRUE]
<1>1. TypeOK /\ EditInv /\ ChatInv
  BY DEF ChatInv, ChatIsTrue
<1>2. /\ Move /\ files' = [files EXCEPT ![r][p] = ByHand]
      /\ applies' = [k \in DOMAIN applies |-> IF Hit(k) THEN raced(k) ELSE applies[k]]
      /\ UNCHANGED <<active, chat, bubbles, sends, stops, branch, overlap>>
  BY DEF EditByHand
<1>3. \A k \in DOMAIN applies :
         /\ raced(k) \in Application /\ raced(k).raced = TRUE
         /\ raced(k).of = applies[k].of /\ raced(k).into = applies[k].into
         /\ raced(k).edit = applies[k].edit /\ raced(k).at = applies[k].at
         /\ raced(k).on = applies[k].on /\ raced(k).clobbered = applies[k].clobbered
  BY <1>1, ApplyTypes, RacedTypes
<1>4. applies \in Seq(Application) /\ DOMAIN applies = 1..Len(applies) /\ Len(applies) \in Nat
      /\ \A k \in DOMAIN applies : applies[k] \in Application
  BY <1>1 DEF TypeOK
<1> HIDE DEF raced, Hit
<1>5. /\ DOMAIN applies' = DOMAIN applies
      /\ \A k \in DOMAIN applies : applies'[k] = IF Hit(k) THEN raced(k) ELSE applies[k]
  BY <1>2
<1>6. applies' \in Seq(Application) /\ Len(applies') = Len(applies)
  <2>1. \A k \in 1..Len(applies) : applies'[k] \in Application
    BY <1>3, <1>4, <1>5
  <2>2. applies' \in [1..Len(applies) -> Application]
    BY <1>2, <1>4, <2>1
  <2> QED
    BY <1>4, <2>2, SeqDef
<1>7. \A k \in DOMAIN applies :
         /\ applies'[k].of = applies[k].of /\ applies'[k].into = applies[k].into
         /\ applies'[k].edit = applies[k].edit /\ applies'[k].at = applies[k].at
         /\ applies'[k].on = applies[k].on /\ applies'[k].clobbered = applies[k].clobbered
  BY <1>3, <1>5
<1>8. files' \in [Repos -> [PathSet -> Contents]]
  BY <1>1, <1>2, ContentTypes DEF TypeOK
<1>9. moves' \in 0..MaxMoves
  BY <1>1, <1>2 DEF TypeOK, Move, Configured
<1>10. TypeOK'
  BY <1>1, <1>2, <1>6, <1>8, <1>9 DEF TypeOK
<1>11. \A k \in DOMAIN applies : Applying(k)' <=> Applying(k)
  BY <1>7 DEF Applying
<1>12. ChatInv'
  BY <1>1, <1>2, <1>5, <1>10, <1>11, ChatUnaffected
<1>13. OfProposal' /\ EditsAtOrigin' /\ NothingClobbered' /\ OneHolds' /\ OneBranch'
  BY <1>1, <1>2, <1>5, <1>7 DEF EditInv, EditsLandWhole, OfProposal, EditsAtOrigin,
     NothingClobbered, OneHolds, Holds, OneBranch
<1>14. AppliedIsWhole'
  BY <1>1, <1>2, <1>5, <1>7 DEF EditInv, EditsLandWhole, AppliedIsWhole
<1>15. OnCurrentBranch'
  BY <1>1, <1>2, <1>5, <1>7 DEF EditInv, OnCurrentBranch, Holds
<1>16. SeenAtWrite'
  <2> SUFFICES ASSUME NEW k \in DOMAIN applies, applies[k].at = "write"
               PROVE  /\ applies[k].edit <= Len(Paths)
                      /\ applies'[k].raced \/ StillAsSeen(k)'
    BY <1>5, <1>7 DEF SeenAtWrite
  <2>1. applies[k].edit <= Len(Paths) /\ (applies[k].raced \/ StillAsSeen(k))
    BY <1>1 DEF EditInv, SeenAtWrite
  <2>2. CASE Hit(k)
    BY <1>3, <1>5, <2>1, <2>2
  <2>3. CASE ~Hit(k)
    <3>1. applies'[k] = applies[k]
      BY <1>5, <2>3
    <3>2. applies[k].into # r \/ Path(k) # p
      BY <2>3 DEF Hit
    <3>3. files'[applies[k].into][Path(k)] = files[applies[k].into][Path(k)]
      <4>1. applies[k].into \in Repos /\ Path(k) \in PathSet
        BY <1>1, <2>1, ApplyTypes DEF Path, PathSet, Configured
      <4> QED
        BY <1>1, <1>2, <3>2, <4>1 DEF TypeOK
    <3> QED
      BY <1>2, <2>1, <3>1, <3>3 DEF StillAsSeen, Path
  <2> QED
    BY <2>2, <2>3
<1> QED
  BY <1>12, <1>13, <1>14, <1>15, <1>16 DEF EditInv, EditsLandWhole

-----------------------------------------------------------------------------
\* The invariant holds at first.
LEMMA InitIInv ==
    ASSUME Configured, Init
    PROVE  IInv
<1>1. TypeOK
  <2>1. \A n \in Sends : bubbles[n] \in ChatMessage
    BY DEF Init, ChatMessage, Maybe
  <2>2. \A n \in Sends : sends[n] \in SendState
    <3>1. [p \in PathSet |-> Shared] \in [PathSet -> Contents]
      BY DEF Shared, Contents, Configured
    <3> QED
      BY <3>1 DEF Init, SendState, Maybe
  <2>3. files \in [Repos -> [PathSet -> Contents]]
    BY ContentTypes DEF Init, Branches
  <2>4. applies \in Seq(Application) /\ Len(applies) <= MaxApplies
    BY DEF Init, Configured
  <2>5. bubbles \in [Sends -> ChatMessage] /\ sends \in [Sends -> SendState]
    BY <2>1, <2>2 DEF Init
  <2>6. chat \in Chat
    BY DEF Init, Chat, Configured
  <2>7. branch \in [Repos -> Branches] /\ moves \in 0..MaxMoves
    BY DEF Init, Branches, Configured
  <2>8. active \in Repos /\ stops \subseteq Sends /\ overlap \in BOOLEAN
    BY DEF Init, Configured
  <2> QED
    BY <2>3, <2>4, <2>5, <2>6, <2>7, <2>8 DEF TypeOK
<1>2. DOMAIN applies = {}
  BY DEF Init
<1>3. ChatInv
  BY <1>1, <1>2 DEF Init, ChatInv, ChatIsTrue, OwnReply, BusyIsTrue, CardOfOrigin, Shape,
     OneOperation, UnderWay, Live
<1>4. EditInv
  BY <1>2 DEF Init, EditInv, EditsLandWhole, EditsAtOrigin, NothingClobbered, OneBranch,
     AppliedIsWhole, OfProposal, OneHolds, OnCurrentBranch, SeenAtWrite
<1> QED
  BY <1>3, <1>4 DEF IInv

\* It holds when nothing happens.
LEMMA StutterKeeps ==
    ASSUME Configured, IInv, UNCHANGED vars
    PROVE  IInv'
<1> USE DEF IInv
<1>1. TypeOK'
  BY DEF vars, TypeOK, ChatInv, ChatIsTrue
<1>2. ChatInv'
  BY <1>1, ChatUnaffected DEF vars, Applying
<1>3. EditInv'
  BY EditsUnaffected DEF vars, ChatInv, ChatIsTrue
<1> QED
  BY <1>2, <1>3

\* It holds through every step.
LEMMA NextIInv ==
    ASSUME Configured, IInv, [Next]_vars
    PROVE  IInv'
<1>1. ASSUME NEW n \in Sends, Handled(n) PROVE IInv'
  BY <1>1, HandlerEffect, EffectKeeps DEF IInv, ChatInv, ChatIsTrue
<1>2. ASSUME NEW n \in Sends, StopArrives(n) PROVE IInv'
  BY <1>2, StopArrivesKeeps
<1>3. ASSUME NEW k \in DOMAIN applies,
             ApplyRuns(k) \/ Compare(k) \/ Write(k) \/ ApplyAnswers(k)
      PROVE  IInv'
  BY <1>3, ApplyRunsKeeps, CompareKeeps, WriteKeeps, ApplyAnswersKeeps
<1>4. ASSUME NEW n \in Sends, NEW kind \in {"chat", "commit", "propose"}, Send(n, kind)
      PROVE  IInv'
  BY <1>4, SendKeeps
<1>5. ASSUME NEW n \in Sends, Apply(n) PROVE IInv'
  BY <1>5, ApplyKeeps
<1>6. CASE Stop \/ Clear \/ \E r \in Repos : SwitchRepo(r)
  BY <1>6, PanelKeeps
<1>7. ASSUME NEW r \in Repos, Checkout(r) PROVE IInv'
  BY <1>7, CheckoutKeeps
<1>8. ASSUME NEW r \in Repos, NEW p \in PathSet, EditByHand(r, p) PROVE IInv'
  BY <1>8, EditByHandKeeps
<1>9. CASE UNCHANGED vars
  BY <1>9, StutterKeeps
<1>10. CASE Answers
  BY <1>1, <1>2, <1>3, <1>10 DEF Answers, Handled
<1> QED
  BY <1>1, <1>4, <1>5, <1>6, <1>7, <1>8, <1>9, <1>10 DEF Next, Handled

(* What the chat shows is true (aiChatStore): a bubble has the text of its *)
(* own request only, the chat is busy just while something is under way    *)
(* unless operations were made to overlap, and a card names the repository *)
(* its request was made for.                                               *)
THEOREM ChatCorrect ==
    ASSUME Configured
    PROVE  Spec => []ChatIsTrue
<1>1. Init => IInv
  BY InitIInv
<1>2. IInv /\ [Next]_vars => IInv'
  BY NextIInv
<1>3. IInv => ChatIsTrue
  BY DEF IInv, ChatInv
<1> QED
  BY <1>1, <1>2, <1>3, PTL DEF Spec

(* The edits of a proposal land in its own repository, on one branch, over *)
(* nothing but what they name unless an editor comes between, and a card   *)
(* says "applied" only of a whole proposal (AgenticActionExecutor.ts).     *)
THEOREM EditsCorrect ==
    ASSUME Configured
    PROVE  Spec => []EditsLandWhole
<1>1. Init => IInv
  BY InitIInv
<1>2. IInv /\ [Next]_vars => IInv'
  BY NextIInv
<1>3. IInv => EditsLandWhole
  BY DEF IInv, EditInv
<1> QED
  BY <1>1, <1>2, <1>3, PTL DEF Spec
===============================================================================
