------------------------------- MODULE AppProofs -------------------------------
(***************************************************************************)
(* Theorems about ActiveRepo and Records, for any repositories, branches,  *)
(* profiles and held branches, any number of requests pending and of acts. *)
(* The dashboard: the branches shown are those of the repository chosen,   *)
(* one switch runs at a time, a forced deletion follows a refusal in that  *)
(* very repository, and no refresh wipes the outcome of an operation.      *)
(* The records, while no two calls have met at a file: once every call is  *)
(* answered profiles hold their own data, no repository is assigned to a   *)
(* profile that is gone, the lists are the files and the profile active is *)
(* the one that ought to be; and the active repository is replaced without *)
(* an act only where it is gone or another has just been added.            *)
(***************************************************************************)
EXTENDS AppInvariants, FiniteSetTheorems, WellFoundedInduction, TLAPS

-----------------------------------------------------------------------------
(* Requests.                                                               *)

\* A set of naturals has a least element.
LEMMA Least ==
    ASSUME NEW T, T \subseteq Nat, T # {}
    PROVE  \E x \in T : \A y \in T : x <= y
<1> DEFINE Below == {ss \in Nat \X Nat : ss[1] < ss[2]}
<1>1. IsWellFoundedOn(Below, Nat)
  <2>1. Below = OpToRel(<, Nat)
    BY DEF OpToRel
  <2> QED BY <2>1, NatLessThanWellFounded, Zenon
<1>2. PICK x \in T : \A y \in T : ~ (<<y, x>> \in Below)
  <2> HIDE DEF Below
  <2> QED BY <1>1, WFMin
<1>3. ASSUME NEW y \in T, ~ (x <= y)  PROVE FALSE
  <2>1. x \in Nat /\ y \in Nat /\ y < x
    BY <1>3
  <2>2. <<y, x>> \in Nat \X Nat /\ <<y, x>>[1] = y /\ <<y, x>>[2] = x
    BY <2>1
  <2>3. <<y, x>> \in Below
    BY <2>1, <2>2
  <2> QED BY <1>2, <2>3
<1> QED BY <1>3

\* Where there is room a slot is free, and a new request takes one.
LEMMA FreeSlotIsFree ==
    ASSUME Room  PROVE FreeSlot \in Slots /\ calls[FreeSlot] = Idle
<1> DEFINE T == {q \in Slots : calls[q] = Idle}
<1>1. T \subseteq Nat /\ T # {}
  BY BoundsAssumption DEF Room, Waiting, Slots
<1>2. PICK x \in T : \A y \in T : x <= y
  BY <1>1, Least
<1>3. ASSUME NEW p \in Slots, p < x  PROVE calls[p] # Idle
  <2>1. p \in Nat /\ x \in Nat /\ ~(x <= p)
    BY <1>1, <1>3, BoundsAssumption DEF Slots
  <2> QED BY <1>2, <2>1
<1>4. \E q \in Slots : calls[q] = Idle /\ \A p \in Slots : p < q => calls[p] # Idle
  BY <1>2, <1>3
<1> QED BY <1>4 DEF FreeSlot

LEMMA IdleIsNoRequest == Idle \notin Pending /\ NoList \in Lists
BY DEF Idle, Pending, NoList, Lists, Maybe

LEMMA SupersededOne ==
    ASSUME NEW c \in Pending
    PROVE  /\ [c EXCEPT !.current = FALSE] \in Pending
           /\ [c EXCEPT !.current = FALSE] # Idle
           /\ [c EXCEPT !.current = FALSE].op = c.op
           /\ [c EXCEPT !.current = FALSE].arg = c.arg
           /\ [c EXCEPT !.current = FALSE].repo = c.repo
           /\ [c EXCEPT !.current = FALSE].answer = c.answer
           /\ [c EXCEPT !.current = FALSE].current = FALSE
<1>1. [c EXCEPT !.current = FALSE] \in Pending
  BY DEF Pending
<1> QED BY <1>1, IdleIsNoRequest DEF Pending

\* tracker.begin() and the requests there were: none is current afterwards.
LEMMA SupersededAll ==
    ASSUME NEW a, NEW b, NEW u, GoodCalls(calls, a, u)
    PROVE  /\ GoodCalls(Superseded, b, u)
           /\ \A q \in Slots : Superseded[q] = Idle <=> calls[q] = Idle
           /\ Switching(Superseded) = Switching(calls)
<1>1. ASSUME NEW q \in Slots
      PROVE  /\ GoodCall(Superseded[q], b, u)
             /\ Superseded[q] = Idle <=> calls[q] = Idle
             /\ Superseded[q] # Idle => Superseded[q].op = calls[q].op
  <2>1. GoodCall(calls[q], a, u)
    BY DEF GoodCalls
  <2>2. CASE calls[q] = Idle
    <3>1. Superseded[q] = Idle
      BY <2>2 DEF Superseded
    <3> QED BY <2>2, <3>1 DEF GoodCall
  <2>3. CASE calls[q] # Idle
    <3>1. Superseded[q] = [calls[q] EXCEPT !.current = FALSE]
      BY <2>3 DEF Superseded
    <3>2. calls[q] \in Pending
      BY <2>1, <2>3 DEF GoodCall
    <3>3. PICK d : d = [calls[q] EXCEPT !.current = FALSE]
      OBVIOUS
    <3>4. /\ d \in Pending /\ d # Idle /\ d.op = calls[q].op /\ d.arg = calls[q].arg
          /\ d.repo = calls[q].repo /\ d.answer = calls[q].answer /\ d.current = FALSE
      BY <3>2, <3>3, SupersededOne
    <3>5. GoodCall(d, b, u)
      BY <2>1, <2>3, <3>4 DEF GoodCall
    <3> QED BY <2>3, <3>1, <3>3, <3>4, <3>5
  <2> QED BY <2>2, <2>3
<1>2. Superseded \in [Slots -> Pending \union {Idle}]
  <2>1. \A q \in Slots : Superseded[q] \in Pending \union {Idle}
    BY <1>1 DEF GoodCall
  <2>2. Superseded = [q \in Slots |-> Superseded[q]]
    BY DEF Superseded
  <2> QED BY <2>1, <2>2
<1>3. Switching(Superseded) = Switching(calls)
  BY <1>1 DEF Switching
<1> QED BY <1>1, <1>2, <1>3 DEF GoodCalls

\* One request becomes d, of the same operation.
LEMMA Becomes ==
    ASSUME NEW a, NEW u, NEW v, GoodCalls(calls, a, u), u \subseteq v,
           NEW q \in Slots, calls[q] # Idle,
           NEW d \in Pending, GoodCall(d, a, v), d.op = calls[q].op,
           calls' = [calls EXCEPT ![q] = d]
    PROVE  GoodCalls(calls', a, v) /\ Switching(calls') = Switching(calls)
<1>1. calls' \in [Slots -> Pending \union {Idle}]
  BY DEF GoodCalls
<1>2. calls'[q] = d /\ \A p \in Slots : p # q => calls'[p] = calls[p]
  BY DEF GoodCalls
<1>3. \A p \in Slots : GoodCall(calls'[p], a, v)
  <2> SUFFICES ASSUME NEW p \in Slots PROVE GoodCall(calls'[p], a, v)
    OBVIOUS
  <2>1. CASE p = q  BY <1>2, <2>1
  <2>2. CASE p # q
    <3>1. GoodCall(calls[p], a, u)  BY DEF GoodCalls
    <3>2. GoodCall(calls[p], a, v)  BY <3>1 DEF GoodCall
    <3> QED BY <1>2, <2>2, <3>2
  <2> QED BY <2>1, <2>2
<1>4. d # Idle  BY IdleIsNoRequest
<1>5. ASSUME NEW p \in Slots
      PROVE  p \in Switching(calls') <=> p \in Switching(calls)
  <2>1. CASE p = q  BY <1>2, <1>4, <2>1 DEF Switching
  <2>2. CASE p # q  BY <1>2, <2>2 DEF Switching
  <2> QED BY <2>1, <2>2
<1>6. Switching(calls') = Switching(calls)
  BY <1>5 DEF Switching
<1> QED BY <1>1, <1>3, <1>6 DEF GoodCalls

LEMMA Ends ==
    ASSUME NEW a, NEW u, GoodCalls(calls, a, u), NEW q \in Slots, Done(q)
    PROVE  GoodCalls(calls', a, u) /\ Switching(calls') = Switching(calls) \ {q}
<1>1. calls' \in [Slots -> Pending \union {Idle}]
  BY DEF GoodCalls, Done
<1>2. calls'[q] = Idle /\ \A p \in Slots : p # q => calls'[p] = calls[p]
  BY DEF GoodCalls, Done
<1>3. \A p \in Slots : GoodCall(calls'[p], a, u)
  BY <1>2 DEF GoodCalls, GoodCall
<1>4. Switching(calls') = Switching(calls) \ {q}
  BY <1>2 DEF Switching
<1> QED BY <1>1, <1>3, <1>4 DEF GoodCalls

\* A new request is the one that is current; it is for the repository active.
LEMMA Begins ==
    ASSUME NEW a, NEW u, GoodCalls(calls, a, u), Room,
           NEW at \in {"work", "worked", "list", "listed"}, NEW op \in Ops,
           NEW r \in Repos, NEW b \in Maybe(Branches), NEW expect \in Maybe(Branches),
           op \notin {"load", "prune"} => b # None,
           op = "force" => <<r, b>> \in u,
           Begin(at, op, r, b, expect)
    PROVE  /\ GoodCalls(calls', r, u)
           /\ op \notin Switches => Switching(calls') = Switching(calls)
           /\ op \in Switches => \E s \in Slots : Switching(calls') = Switching(calls) \union {s}
<1> DEFINE new == [at |-> at, op |-> op, repo |-> r, arg |-> b, expect |-> expect,
                   answer |-> "", list |-> NoList, current |-> TRUE]
<1>1. PICK s \in Slots : s = FreeSlot /\ calls[s] = Idle
  BY FreeSlotIsFree
<1>2. PICK old : old = Superseded
  OBVIOUS
<1>3. /\ GoodCalls(old, r, u) /\ old[s] = Idle
      /\ Switching(old) = Switching(calls)
  BY <1>1, <1>2, SupersededAll
<1>4. new \in Pending
  BY IdleIsNoRequest DEF Pending
<1>5. PICK d \in Pending : d = new
  BY <1>4
<1>6. d.op = op /\ d.arg = b /\ d.repo = r /\ d.answer = ""
  BY <1>5
<1>7. GoodCall(d, r, u)
  BY <1>6 DEF GoodCall
<1>8. calls' = [old EXCEPT ![s] = d]
  BY <1>1, <1>2, <1>5 DEF Begin
<1>9. calls' \in [Slots -> Pending \union {Idle}]
  BY <1>3, <1>8 DEF GoodCalls
<1>10. calls'[s] = d /\ \A p \in Slots : p # s => calls'[p] = old[p]
  BY <1>3, <1>8 DEF GoodCalls
<1>11. \A p \in Slots : GoodCall(calls'[p], r, u)
  BY <1>3, <1>7, <1>10 DEF GoodCalls
<1>12. d # Idle  BY IdleIsNoRequest
<1>13. s \notin Switching(old)
  BY <1>3 DEF Switching
<1>14. CASE op \in Switches
  <2>1. Switching(calls') = Switching(old) \union {s}
    BY <1>6, <1>10, <1>12, <1>14 DEF Switching
  <2> QED BY <1>3, <1>9, <1>11, <1>14, <2>1 DEF GoodCalls
<1>15. CASE op \notin Switches
  <2>1. Switching(calls') = Switching(old)
    BY <1>6, <1>10, <1>12, <1>13, <1>15 DEF Switching
  <2> QED BY <1>3, <1>9, <1>11, <1>15, <2>1 DEF GoodCalls
<1> QED BY <1>14, <1>15

-----------------------------------------------------------------------------
(* The active repository.                                                  *)

(* A load of repository r leaves the store about r, the outcomes there     *)
(* were for it included.                                                   *)
LEMMA Loads ==
    ASSUME BranchInv, NEW r \in Repos, Load(r)
    PROVE  /\ GoodCalls(calls', r, unmerged) /\ GoodShown(shown', r, unmerged)
           /\ OneSwitch(calls', shown'.switching)
           /\ shown.repo \in {r, None} => Survive(shown, shown')
<1>1. /\ GoodCalls(calls, active, unmerged) /\ GoodShown(shown, active, unmerged)
      /\ OneSwitch(calls, shown.switching)
  BY DEF BranchInv
<1>2. GoodCalls(calls', r, unmerged) /\ Switching(calls') = Switching(calls)
  <2>1. Room /\ Begin("list", "load", r, None, None)
    BY DEF Load
  <2>2. "load" \in Ops /\ "load" \notin Switches /\ None \in Maybe(Branches)
    BY DEF Ops, Switches, Maybe
  <2> QED BY <1>1, <2>1, <2>2, Begins
<1>3. shown \in ShownState /\ shown.out \in [Outcomes -> Maybe(Branches)]
  BY <1>1 DEF GoodShown, ShownState
<1>4. NoOutcome \in [Outcomes -> Maybe(Branches)] /\ Unarmed \in [Confirms -> Maybe(Branches)]
  BY DEF NoOutcome, Unarmed, Maybe
<1>5. PICK out \in [Outcomes -> Maybe(Branches)] :
          out = IF r = shown.repo THEN shown.out ELSE NoOutcome
  BY <1>3, <1>4
<1>6. PICK armed \in [Confirms -> Maybe(Branches)] : armed = Unarmed
  BY <1>4
<1>7. shown' = [shown EXCEPT !.loading = TRUE, !.failed = FALSE, !.repo = r,
                  !.list = NoList, !.of = r, !.armed = armed, !.out = out]
  BY <1>5, <1>6 DEF Load
<1>8. /\ shown' \in ShownState /\ shown'.repo = r /\ shown'.of = r
      /\ shown'.switching = shown.switching
      /\ shown'.armed = armed /\ shown'.out = out
  BY <1>3, <1>7, IdleIsNoRequest DEF ShownState, Maybe
<1>9. armed["force"] = None
  BY <1>6 DEF Unarmed, Confirms
<1>10. GoodShown(shown', r, unmerged)
  BY <1>8, <1>9, NoneAssumption DEF GoodShown
<1>11. OneSwitch(calls', shown'.switching)
  BY <1>1, <1>2, <1>8 DEF OneSwitch
<1>12. ASSUME shown.repo \in {r, None}  PROVE Survive(shown, shown')
  <2>1. CASE shown.repo = r
    BY <1>5, <1>8, <2>1 DEF Survive
  <2>2. CASE shown.repo = None
    <3>1. shown.out = NoOutcome
      BY <1>1, <2>2 DEF GoodShown
    <3> QED BY <3>1 DEF Survive, NoOutcome
  <2> QED BY <1>12, <2>1, <2>2
<1> QED BY <1>2, <1>10, <1>11, <1>12

LEMMA Clears ==
    ASSUME BranchInv, Clear
    PROVE  /\ GoodCalls(calls', None, unmerged) /\ GoodShown(shown', None, unmerged)
           /\ OneSwitch(calls', shown'.switching)
<1>1. /\ GoodCalls(calls, active, unmerged) /\ GoodShown(shown, active, unmerged)
      /\ OneSwitch(calls, shown.switching)
  BY DEF BranchInv
<1>2. GoodCalls(calls', None, unmerged) /\ Switching(calls') = Switching(calls)
  BY <1>1, SupersededAll DEF Clear
<1>3. shown \in ShownState
  BY <1>1 DEF GoodShown
<1>4. NoOutcome \in [Outcomes -> Maybe(Branches)] /\ Unarmed \in [Confirms -> Maybe(Branches)]
  BY DEF NoOutcome, Unarmed, Maybe
<1>5. PICK out \in [Outcomes -> Maybe(Branches)] : out = NoOutcome
  BY <1>4
<1>6. PICK armed \in [Confirms -> Maybe(Branches)] : armed = Unarmed
  BY <1>4
<1>7. shown' = [shown EXCEPT !.repo = None, !.list = NoList, !.of = None,
                  !.failed = FALSE, !.armed = armed, !.out = out]
  BY <1>5, <1>6 DEF Clear
<1>8. /\ shown' \in ShownState /\ shown'.repo = None /\ shown'.of = None
      /\ shown'.switching = shown.switching
      /\ shown'.armed = armed /\ shown'.out = out
  BY <1>3, <1>7, IdleIsNoRequest DEF ShownState, Maybe
<1>9. armed["force"] = None
  BY <1>6 DEF Unarmed, Confirms
<1>10. GoodShown(shown', None, unmerged)
  BY <1>5, <1>8, <1>9 DEF GoodShown
<1> QED BY <1>1, <1>2, <1>8, <1>10 DEF OneSwitch

LEMMA SetActiveRepoSound ==
    ASSUME BranchInv, NEW r \in Maybe(Repos), SetActiveRepo(r),
           acts' \in 0..MaxActs, UNCHANGED moves
    PROVE  BranchInv' /\ (active = None => Survive(shown, shown'))
<1>1. Typed'
  <2>1. currentBranch' \in Maybe(Branches)
    BY DEF SetActiveRepo, Maybe
  <2>2. asked' \in [repo : Maybe(Repos), pending : BOOLEAN]
    BY DEF SetActiveRepo, AskWatch
  <2> QED BY <2>1, <2>2 DEF BranchInv, Typed, SetActiveRepo, disk
<1>2. active' = r /\ unmerged' = unmerged
  BY DEF SetActiveRepo
<1>3. CASE r # None
  <2>1. r \in Repos /\ Load(r)
    BY <1>3 DEF SetActiveRepo, Maybe
  <2>2. shown.repo = active
    BY DEF BranchInv, GoodShown
  <2> QED BY <1>1, <1>2, <2>1, <2>2, Loads DEF BranchInv
<1>4. CASE r = None
  <2>1. Clear /\ active # None
    BY <1>4 DEF SetActiveRepo
  <2> QED BY <1>1, <1>2, <1>4, <2>1, Clears DEF BranchInv
<1> QED BY <1>3, <1>4

LEMMA AutoSelectSound ==
    ASSUME BranchInv, AutoSelect
    PROVE  BranchInv' /\ Survive(shown, shown')
<1>1. First \in Maybe(Repos)
  BY FirstAssumption DEF Maybe
<1>2. SetActiveRepo(First) /\ active = None /\ acts' \in 0..MaxActs /\ UNCHANGED moves
  BY DEF AutoSelect, BranchInv, Typed
<1> QED BY <1>1, <1>2, SetActiveRepoSound

\* One act more, within the bound.
LEMMA ActCounts ==
    ASSUME BranchInv, Act
    PROVE  acts' \in 0..MaxActs /\ acts' # acts /\ UNCHANGED moves
BY BoundsAssumption DEF Act, BranchInv, Typed

LEMMA PickRepoSound ==
    ASSUME BranchInv, NEW r \in Maybe(Repos), PickRepo(r)  PROVE BranchInv'
BY ActCounts, SetActiveRepoSound DEF PickRepo

(* A refresh is a load of the repository there is: what else a step        *)
(* changes is of its type.                                                 *)
LEMMA RefreshSound ==
    ASSUME BranchInv, RefreshActiveRepo, Typed', UNCHANGED <<active, unmerged>>
    PROVE  BranchInv' /\ Survive(shown, shown')
<1>1. CASE active # None /\ Load(active)
  <2>1. active \in Repos /\ shown.repo = active
    BY <1>1 DEF BranchInv, Typed, GoodShown, Maybe
  <2> QED BY <1>1, <2>1, Loads DEF BranchInv
<1>2. CASE UNCHANGED <<shown, calls>>
  BY <1>2 DEF BranchInv, Survive
<1> QED BY <1>1, <1>2 DEF RefreshActiveRepo

LEMMA RevalidateSound == ASSUME BranchInv, Revalidate PROVE BranchInv'
<1>1. Typed'
  BY ActCounts DEF BranchInv, Typed, Revalidate, disk, app, watcher
<1> QED BY <1>1, RefreshSound DEF Revalidate, app

LEMMA NavigateSound ==
    ASSUME BranchInv, NEW s \in {"branches", "other"}, Navigate(s)  PROVE BranchInv'
<1>1. Typed'
  BY ActCounts DEF BranchInv, Typed, Navigate, disk, watcher
<1>2. CASE RefreshActiveRepo
  BY <1>1, <1>2, RefreshSound DEF Navigate
<1>3. CASE UNCHANGED <<shown, calls>>
  BY <1>1, <1>3 DEF Navigate, BranchInv
<1> QED BY <1>2, <1>3 DEF Navigate

LEMMA OnChangedSound ==
    ASSUME BranchInv, OnChanged  PROVE BranchInv' /\ Survive(shown, shown')
<1>1. Typed'
  BY DEF BranchInv, Typed, OnChanged, disk, app
<1> QED BY <1>1, RefreshSound DEF OnChanged, app

-----------------------------------------------------------------------------
(* The operations that the user starts.                                    *)

(* An operation is of the repository shown, which is the active one; the   *)
(* action says what becomes of the rest of the store.                      *)
LEMMA StartedSound ==
    ASSUME BranchInv, NEW op \in Ops \ {"load"}, NEW b \in Maybe(Branches),
           NEW expect \in Maybe(Branches), Started(op, b, expect),
           op # "prune" => b # None,
           op = "force" => <<active, b>> \in unmerged,
           GoodShown(shown', active, unmerged),
           IF op \in Switches THEN ~shown.switching /\ shown'.switching
                              ELSE shown'.switching = shown.switching
    PROVE  BranchInv'
<1>1. Typed'
  BY ActCounts DEF BranchInv, Typed, Started, disk, app, watcher
<1>2. /\ GoodCalls(calls, active, unmerged)
      /\ OneSwitch(calls, shown.switching)
      /\ shown.repo = active /\ active \in Repos
  BY DEF BranchInv, GoodShown, Typed, Started, Maybe
<1>3. /\ GoodCalls(calls', active, unmerged)
      /\ op \notin Switches => Switching(calls') = Switching(calls)
      /\ op \in Switches => \E s \in Slots : Switching(calls') = Switching(calls) \union {s}
  <2>1. Room /\ Begin("work", op, active, b, expect)
    BY <1>2 DEF Started
  <2> QED BY <1>2, <2>1, Begins
<1>4. active' = active /\ unmerged' = unmerged
  BY DEF Started, app
<1>5. OneSwitch(calls', shown'.switching)
  <2>1. CASE op \in Switches
    <3>1. Switching(calls) = {} /\ shown'.switching
      BY <1>2, <2>1 DEF OneSwitch
    <3>2. PICK s \in Slots : Switching(calls') = {s}
      BY <1>3, <2>1, <3>1
    <3>3. shown'.switching \in BOOLEAN
      BY DEF GoodShown, ShownState
    <3> QED BY <3>1, <3>2, <3>3 DEF OneSwitch
  <2>2. CASE op \notin Switches
    BY <1>2, <1>3, <2>2 DEF OneSwitch
  <2> QED BY <2>1, <2>2
<1> QED BY <1>1, <1>3, <1>4, <1>5 DEF BranchInv

(* The store of a repository that is there, some of its confirmations and  *)
(* outcomes set: the stronger confirmation only where git has refused.     *)
LEMMA ShownSets ==
    ASSUME BranchInv, shown.repo # None,
           NEW out \in [Outcomes -> Maybe(Branches)],
           NEW armed \in [Confirms -> Maybe(Branches)], NEW disabled \in BOOLEAN,
           NEW u, u = unmerged,
           armed["force"] \in {None, shown.armed["force"]},
           shown' = [shown EXCEPT !.switching = disabled, !.out = out, !.armed = armed]
    PROVE  GoodShown(shown', active, u) /\ shown'.switching = disabled
<1>1. GoodShown(shown, active, unmerged)
  BY DEF BranchInv
<1>2. /\ shown' \in ShownState /\ shown'.repo = active /\ shown'.of = active
      /\ shown'.switching = disabled /\ shown'.armed = armed
  BY <1>1 DEF GoodShown, ShownState
<1> QED BY <1>1, <1>2 DEF GoodShown

LEMMA ShownFields ==
    ASSUME BranchInv
    PROVE  /\ shown \in ShownState /\ shown.switching \in BOOLEAN
           /\ shown.out \in [Outcomes -> Maybe(Branches)]
           /\ shown.armed \in [Confirms -> Maybe(Branches)]
           /\ shown.repo = active /\ shown.of = active
BY DEF BranchInv, GoodShown, ShownState

LEMMA Names ==
    /\ {"switchError", "stashPopConflict", "mergeConflict"} \subseteq Outcomes
    /\ {"delete", "force", "merge"} \subseteq Confirms
    /\ {"switch", "bring", "create", "delete", "force", "merge", "prune"} \subseteq Ops \ {"load"}
    /\ Switches = {"switch", "bring"}
    /\ None \in Maybe(Branches) /\ Branches \subseteq Maybe(Branches)
    /\ \A b \in Branches : b # None
BY NoneAssumption DEF Outcomes, Confirms, Ops, Switches, Maybe

LEMMA DoSwitchSound ==
    ASSUME BranchInv, NEW b \in Branches, DoSwitch(b)  PROVE BranchInv'
<1>1. PICK out \in [Outcomes -> Maybe(Branches)] :
          out = [shown.out EXCEPT !["switchError"] = None]
  BY ShownFields, Names
<1>2. shown' = [shown EXCEPT !.switching = TRUE, !.out = out, !.armed = shown.armed]
  BY <1>1, ShownFields DEF DoSwitch, ShownState
<1>3. shown.repo # None
  BY DEF DoSwitch, Started
<1>4. GoodShown(shown', active, unmerged) /\ shown'.switching = TRUE
  BY <1>2, <1>3, ShownFields, ShownSets
<1>5. Started("switch", b, None) /\ ~shown.switching
  BY DEF DoSwitch
<1> QED BY <1>4, <1>5, Names, StartedSound

LEMMA DoSwitchBringChangesSound ==
    ASSUME BranchInv, DoSwitchBringChanges  PROVE BranchInv'
<1>1. PICK b \in Maybe(Branches) : b = shown.out["switchError"]
  BY ShownFields, Names
<1>2. PICK out \in [Outcomes -> Maybe(Branches)] :
          out = [shown.out EXCEPT !["switchError"] = None, !["stashPopConflict"] = None]
  BY ShownFields, Names
<1>3. shown' = [shown EXCEPT !.switching = TRUE, !.out = out, !.armed = shown.armed]
  BY <1>2, ShownFields DEF DoSwitchBringChanges, ShownState
<1>4. shown.repo # None /\ b # None /\ Started("bring", b, None) /\ ~shown.switching
  BY <1>1 DEF DoSwitchBringChanges, Started
<1>5. GoodShown(shown', active, unmerged) /\ shown'.switching = TRUE
  BY <1>3, <1>4, ShownFields, ShownSets
<1> QED BY <1>4, <1>5, Names, StartedSound

LEMMA DoCreateSound ==
    ASSUME BranchInv, NEW b \in Branches, DoCreate(b)  PROVE BranchInv'
<1>1. GoodShown(shown', active, unmerged) /\ shown'.switching = shown.switching
  BY DEF DoCreate, BranchInv
<1>2. Started("create", b, None)
  BY DEF DoCreate
<1> QED BY <1>1, <1>2, Names, StartedSound

LEMMA DoPruneWorktreesSound ==
    ASSUME BranchInv, DoPruneWorktrees  PROVE BranchInv'
<1>1. GoodShown(shown', active, unmerged) /\ shown'.switching = shown.switching
  BY DEF DoPruneWorktrees, BranchInv
<1>2. Started("prune", None, None)
  BY DEF DoPruneWorktrees
<1> QED BY <1>1, <1>2, Names, StartedSound

LEMMA DoDeleteSound ==
    ASSUME BranchInv, NEW b \in Branches, DoDelete(b)  PROVE BranchInv'
<1>1. PICK armed \in [Confirms -> Maybe(Branches)] :
          armed = [shown.armed EXCEPT !["delete"] = None]
  BY ShownFields, Names
<1>2. shown' = [shown EXCEPT !.switching = shown.switching, !.out = shown.out, !.armed = armed]
  BY <1>1, ShownFields DEF DoDelete, ShownState
<1>3. armed["force"] = shown.armed["force"]
  BY <1>1, ShownFields, Names
<1>4. shown.repo # None /\ Started("delete", b, None)
  BY DEF DoDelete, Started
<1>5. GoodShown(shown', active, unmerged) /\ shown'.switching = shown.switching
  BY <1>2, <1>3, <1>4, ShownFields, ShownSets
<1> QED BY <1>4, <1>5, Names, StartedSound

(* The stronger deletion is of the branch armed, in the repository active. *)
LEMMA DoForceDeleteSound ==
    ASSUME BranchInv, NEW b \in Branches, DoForceDelete(b)  PROVE BranchInv'
<1>1. PICK armed \in [Confirms -> Maybe(Branches)] :
          armed = [shown.armed EXCEPT !["force"] = None]
  BY ShownFields, Names
<1>2. shown' = [shown EXCEPT !.switching = shown.switching, !.out = shown.out, !.armed = armed]
  BY <1>1, ShownFields DEF DoForceDelete, ShownState
<1>3. armed["force"] = None
  BY <1>1, ShownFields, Names
<1>4. shown.repo # None /\ Started("force", b, None) /\ shown.armed["force"] = b
  BY DEF DoForceDelete, Started
<1>5. GoodShown(shown', active, unmerged) /\ shown'.switching = shown.switching
  BY <1>2, <1>3, <1>4, ShownFields, ShownSets
<1>6. <<active, b>> \in unmerged
  BY <1>4, Names DEF BranchInv, GoodShown
<1> QED BY <1>4, <1>5, <1>6, Names, StartedSound

LEMMA DoMergeSound ==
    ASSUME BranchInv, NEW b \in Branches, DoMerge(b)  PROVE BranchInv'
<1>1. PICK armed \in [Confirms -> Maybe(Branches)] :
          armed = [shown.armed EXCEPT !["merge"] = None]
  BY ShownFields, Names
<1>2. PICK out \in [Outcomes -> Maybe(Branches)] :
          out = [shown.out EXCEPT !["mergeConflict"] = None]
  BY ShownFields, Names
<1>3. shown' = [shown EXCEPT !.switching = shown.switching, !.out = out, !.armed = armed]
  BY <1>1, <1>2, ShownFields DEF DoMerge, ShownState
<1>4. armed["force"] = shown.armed["force"]
  BY <1>1, ShownFields, Names
<1>5. PICK expect \in Maybe(Branches) : expect = shown.list.current
  BY ShownFields DEF ShownState, Lists
<1>6. shown.repo # None /\ Started("merge", b, expect)
  BY <1>5 DEF DoMerge, Started
<1>7. GoodShown(shown', active, unmerged) /\ shown'.switching = shown.switching
  BY <1>3, <1>4, <1>6, ShownFields, ShownSets
<1> QED BY <1>6, <1>7, Names, StartedSound

-----------------------------------------------------------------------------
(* What the user arms, disarms and dismisses: no request is touched.       *)

LEMMA OnlyStore ==
    ASSUME BranchInv, Act, Typed', UNCHANGED <<active, calls, unmerged>>,
           GoodShown(shown', active, unmerged), shown'.switching = shown.switching
    PROVE  BranchInv'
BY DEF BranchInv

LEMMA ArmDeleteSound ==
    ASSUME BranchInv, NEW b \in Branches, ArmDelete(b)  PROVE BranchInv'
<1>1. PICK armed \in [Confirms -> Maybe(Branches)] :
          armed = [shown.armed EXCEPT !["delete"] = b, !["merge"] = None]
  BY ShownFields, Names
<1>2. shown' = [shown EXCEPT !.switching = shown.switching, !.out = shown.out, !.armed = armed]
  BY <1>1, ShownFields DEF ArmDelete, ShownState
<1>3. armed["force"] = shown.armed["force"]
  BY <1>1, ShownFields, Names
<1>4. shown.repo # None
  BY ShownFields DEF ArmDelete, RowOffers, Row
<1>5. GoodShown(shown', active, unmerged) /\ shown'.switching = shown.switching
  BY <1>2, <1>3, <1>4, ShownFields, ShownSets
<1>6. Typed'
  BY ActCounts DEF BranchInv, Typed, ArmDelete, disk, app, watcher
<1> QED BY <1>5, <1>6, OnlyStore DEF ArmDelete, app

LEMMA ArmMergeSound ==
    ASSUME BranchInv, NEW b \in Branches, ArmMerge(b)  PROVE BranchInv'
<1>1. PICK armed \in [Confirms -> Maybe(Branches)] :
          armed = [shown.armed EXCEPT !["merge"] = b, !["delete"] = None]
  BY ShownFields, Names
<1>2. shown' = [shown EXCEPT !.switching = shown.switching, !.out = shown.out, !.armed = armed]
  BY <1>1, ShownFields DEF ArmMerge, ShownState
<1>3. armed["force"] = shown.armed["force"]
  BY <1>1, ShownFields, Names
<1>4. shown.repo # None
  BY ShownFields DEF ArmMerge, RowOffersMerge, Row
<1>5. GoodShown(shown', active, unmerged) /\ shown'.switching = shown.switching
  BY <1>2, <1>3, <1>4, ShownFields, ShownSets
<1>6. Typed'
  BY ActCounts DEF BranchInv, Typed, ArmMerge, disk, app, watcher
<1> QED BY <1>5, <1>6, OnlyStore DEF ArmMerge, app

LEMMA CancelConfirmSound ==
    ASSUME BranchInv, NEW c \in Confirms, CancelConfirm(c)  PROVE BranchInv'
<1>1. PICK armed \in [Confirms -> Maybe(Branches)] :
          armed = [shown.armed EXCEPT ![c] = None]
  BY ShownFields, Names
<1>2. shown' = [shown EXCEPT !.switching = shown.switching, !.out = shown.out, !.armed = armed]
  BY <1>1, ShownFields DEF CancelConfirm, ShownState
<1>3. armed["force"] \in {None, shown.armed["force"]}
  BY <1>1, ShownFields, Names
<1>4. GoodShown(shown', active, unmerged) /\ shown'.switching = shown.switching
  <2>1. CASE shown.repo # None
    BY <1>2, <1>3, <2>1, ShownFields, ShownSets
  <2>2. CASE shown.repo = None
    <3>1. GoodShown(shown, active, unmerged)
      BY DEF BranchInv
    <3>2. /\ shown' \in ShownState /\ shown'.repo = active /\ shown'.of = active
          /\ shown'.switching = shown.switching /\ shown'.armed = armed
          /\ shown'.out = shown.out
      BY <1>2, ShownFields DEF ShownState
    <3> QED BY <1>3, <3>1, <3>2 DEF GoodShown
  <2> QED BY <2>1, <2>2
<1>5. Typed'
  BY ActCounts DEF BranchInv, Typed, CancelConfirm, disk, app, watcher
<1> QED BY <1>4, <1>5, OnlyStore DEF CancelConfirm, app

LEMMA DismissOutcomeSound ==
    ASSUME BranchInv, NEW o \in Outcomes, DismissOutcome(o)  PROVE BranchInv'
<1>1. PICK out \in [Outcomes -> Maybe(Branches)] : out = [shown.out EXCEPT ![o] = None]
  BY ShownFields, Names
<1>2. shown' = [shown EXCEPT !.switching = shown.switching, !.out = out, !.armed = shown.armed]
  BY <1>1, ShownFields DEF DismissOutcome, ShownState
<1>3. shown.repo # None
  BY ShownFields DEF DismissOutcome, BranchInv, GoodShown, NoOutcome
<1>4. GoodShown(shown', active, unmerged) /\ shown'.switching = shown.switching
  BY <1>2, <1>3, ShownFields, ShownSets
<1>5. Typed'
  BY ActCounts DEF BranchInv, Typed, DismissOutcome, disk, watcher
<1> QED BY <1>4, <1>5, OnlyStore DEF DismissOutcome

-----------------------------------------------------------------------------
(* Main.  An answer changes neither the operation nor the repository of a  *)
(* request, and "not merged" is remembered with it.                        *)

(* What a step of main does to one request, the rest of the window being   *)
(* as it was.                                                              *)
LEMMA AnswerSound ==
    ASSUME BranchInv, Typed', NEW q \in Slots, calls[q] # Idle,
           NEW answer \in {"", "ok", "error", "unmerged", "conflict"},
           NEW at \in {"work", "worked", "list", "listed"}, NEW list \in Lists,
           calls' = [calls EXCEPT ![q] =
                       [calls[q] EXCEPT !.at = at, !.answer = answer, !.list = list]],
           UNCHANGED <<active, shown>>, unmerged \subseteq unmerged',
           answer \in {"unmerged"} \ {calls[q].answer} =>
               <<calls[q].repo, calls[q].arg>> \in unmerged'
    PROVE  BranchInv' /\ Survive(shown, shown')
<1>1. GoodCalls(calls, active, unmerged) /\ calls[q] \in Pending /\ GoodCall(calls[q], active, unmerged)
  BY DEF BranchInv, GoodCalls, GoodCall
<1>2. PICK d : d = [calls[q] EXCEPT !.at = at, !.answer = answer, !.list = list]
  OBVIOUS
<1>3. /\ d \in Pending /\ d.op = calls[q].op /\ d.repo = calls[q].repo /\ d.arg = calls[q].arg
      /\ d.current = calls[q].current /\ d.answer = answer
  <2>1. PICK c \in Pending : c = calls[q]
    BY <1>1
  <2>2. d = [c EXCEPT !.at = at, !.answer = answer, !.list = list]
    BY <1>2, <2>1
  <2>3. /\ d \in Pending /\ d.op = c.op /\ d.repo = c.repo /\ d.arg = c.arg
        /\ d.current = c.current /\ d.answer = answer
    BY <2>2 DEF Pending
  <2> QED BY <2>1, <2>3
<1>4. GoodCall(d, active, unmerged')
  BY <1>1, <1>3 DEF GoodCall
<1>5. calls' = [calls EXCEPT ![q] = d]
  BY <1>2
<1>6. PICK u : u = unmerged'
  OBVIOUS
<1>7. GoodCalls(calls', active, u) /\ Switching(calls') = Switching(calls)
  BY <1>1, <1>3, <1>4, <1>5, <1>6, Becomes
<1>8. GoodShown(shown', active', unmerged')
  BY DEF BranchInv, GoodShown
<1>9. OneSwitch(calls', shown'.switching)
  BY <1>7 DEF BranchInv, OneSwitch
<1>10. active' = active  OBVIOUS
<1> QED BY <1>6, <1>7, <1>8, <1>9, <1>10 DEF BranchInv, Survive

LEMMA RequestParts ==
    ASSUME BranchInv, NEW q \in Slots, calls[q] # Idle
    PROVE  /\ calls[q] \in Pending /\ GoodCall(calls[q], active, unmerged)
           /\ calls[q].op \in Ops /\ calls[q].repo \in Repos
           /\ calls[q].at \in {"work", "worked", "list", "listed"}
           /\ calls[q].answer \in {"", "ok", "error", "unmerged", "conflict"}
           /\ calls[q].list \in Lists /\ calls[q].arg \in Maybe(Branches)
           /\ calls[q].current \in BOOLEAN
<1>1. calls[q] \in Pending /\ GoodCall(calls[q], active, unmerged)
  BY DEF BranchInv, GoodCalls, GoodCall
<1> QED BY <1>1 DEF Pending

(* What git does leaves branches where there were, and HEAD on one.        *)
LEMMA EffectTyped ==
    ASSUME BranchInv, NEW q \in Slots, calls[q] # Idle, Effect(q), Possible(q)
    PROVE  /\ head' \in [Repos -> Maybe(Branches)]
           /\ refs' \in [Repos -> SUBSET Branches]
           /\ held' \subseteq Held
<1>1. /\ calls[q].op \in Ops /\ calls[q].repo \in Repos /\ calls[q].arg \in Maybe(Branches)
      /\ calls[q].op \notin {"load", "prune"} => calls[q].arg # None
  BY RequestParts DEF GoodCall
<1>2. /\ head \in [Repos -> Maybe(Branches)]
      /\ refs \in [Repos -> SUBSET Branches] /\ held \subseteq Held
  BY DEF BranchInv, Typed
<1>3. head' \in [Repos -> Maybe(Branches)]
  <2>1. head' \in {head, [head EXCEPT ![calls[q].repo] = calls[q].arg]}
    BY DEF Effect
  <2> QED BY <1>1, <1>2, <2>1
<1>4. refs' \in [Repos -> SUBSET Branches]
  <2>1. CASE calls[q].op = "create"
    <3>1. calls[q].arg \in Branches
      BY <1>1, <2>1 DEF Maybe
    <3>2. refs' = [refs EXCEPT ![calls[q].repo] = refs[calls[q].repo] \union {calls[q].arg}]
      BY <2>1 DEF Effect
    <3> QED BY <1>1, <1>2, <3>1, <3>2
  <2>2. CASE calls[q].op \in {"delete", "force"}
    <3>1. refs' = [refs EXCEPT ![calls[q].repo] = refs[calls[q].repo] \ {calls[q].arg}]
      BY <2>2 DEF Effect
    <3> QED BY <1>1, <1>2, <3>1
  <2>3. CASE calls[q].op \notin {"create", "delete", "force"}
    <3>1. refs' = refs
      BY <2>3 DEF Effect
    <3> QED BY <1>2, <3>1
  <2> QED BY <2>1, <2>2, <2>3
<1>5. held' \subseteq Held
  <2>1. held' \subseteq held
    BY DEF Effect
  <2> QED BY <1>2, <2>1
<1> QED BY <1>3, <1>4, <1>5

LEMMA TouchedTyped ==
    ASSUME BranchInv, NEW r, Touched(r)
    PROVE  watch' \in [repo : Maybe(Repos), unseen : BOOLEAN]
<1>1. watch \in [repo : Maybe(Repos), unseen : BOOLEAN]
  BY DEF BranchInv, Typed
<1>2. PICK unseen \in BOOLEAN : unseen <=> (watch.unseen \/ r = watch.repo)
  <2>1. (watch.unseen \/ r = watch.repo) \in BOOLEAN
    OBVIOUS
  <2> QED BY <2>1
<1>3. watch' = [watch EXCEPT !.unseen = (watch.unseen \/ r = watch.repo)]
  BY DEF Touched
<1>4. (watch.unseen \/ r = watch.repo) = unseen
  BY <1>2
<1> QED BY <1>1, <1>3, <1>4

\* The answer of git, as AnswerSound has it.
LEMMA AnsweredIs ==
    ASSUME BranchInv, NEW q \in Slots, calls[q] # Idle, NEW answer, Answered(q, answer)
    PROVE  calls' = [calls EXCEPT ![q] =
                       [calls[q] EXCEPT !.at = "worked", !.answer = answer, !.list = calls[q].list]]
<1>1. calls' = [calls EXCEPT ![q] = [[calls[q] EXCEPT !.at = "worked"] EXCEPT !.answer = answer]]
  BY DEF Answered, BranchInv, GoodCalls
<1>2. [[calls[q] EXCEPT !.at = "worked"] EXCEPT !.answer = answer]
         = [calls[q] EXCEPT !.at = "worked", !.answer = answer, !.list = calls[q].list]
  BY RequestParts DEF Pending
<1> QED BY <1>1, <1>2

LEMMA GitActsSound ==
    ASSUME BranchInv, NEW q \in Slots, calls[q] # Idle, Possible(q), Effect(q), Moved(q),
           NEW answer \in {"ok", "conflict"}, Answered(q, answer),
           UNCHANGED <<app, shown, asked, event, acts, moves, unmerged>>
    PROVE  BranchInv' /\ Survive(shown, shown')
<1>1. watch' \in [repo : Maybe(Repos), unseen : BOOLEAN]
  BY TouchedTyped DEF Moved, BranchInv, Typed
<1>2. Typed'
  BY <1>1, EffectTyped DEF BranchInv, Typed, app
<1>3. active' = active /\ shown' = shown /\ unmerged \subseteq unmerged'
  BY DEF app
<1>4. PICK list \in Lists : list = calls[q].list
  BY RequestParts
<1>5. calls' = [calls EXCEPT ![q] =
                  [calls[q] EXCEPT !.at = "worked", !.answer = answer, !.list = list]]
  BY <1>4, AnsweredIs
<1> QED BY <1>2, <1>3, <1>5, AnswerSound

LEMMA GitAcceptsSound ==
    ASSUME BranchInv, NEW q \in Slots, GitAccepts(q)
    PROVE  BranchInv' /\ Survive(shown, shown')
BY GitActsSound DEF GitAccepts, Working

LEMMA GitConflictsSound ==
    ASSUME BranchInv, NEW q \in Slots, GitConflicts(q)
    PROVE  BranchInv' /\ Survive(shown, shown')
BY GitActsSound DEF GitConflicts, Working

LEMMA GitRefusesSound ==
    ASSUME BranchInv, NEW q \in Slots, GitRefuses(q)
    PROVE  BranchInv' /\ Survive(shown, shown')
<1>1. Typed'
  BY DEF GitRefuses, BranchInv, Typed, disk, app, watcher
<1>2. /\ calls[q] # Idle /\ Answered(q, "error") /\ active' = active /\ shown' = shown
      /\ unmerged \subseteq unmerged'
  BY DEF GitRefuses, Working, app
<1>3. PICK list \in Lists : list = calls[q].list
  BY <1>2, RequestParts
<1>4. calls' = [calls EXCEPT ![q] =
                  [calls[q] EXCEPT !.at = "worked", !.answer = "error", !.list = list]]
  BY <1>2, <1>3, AnsweredIs
<1> QED BY <1>1, <1>2, <1>4, AnswerSound

LEMMA GitFindsUnmergedSound ==
    ASSUME BranchInv, NEW q \in Slots, GitFindsUnmerged(q)
    PROVE  BranchInv' /\ Survive(shown, shown')
<1>1. /\ calls[q] # Idle /\ Answered(q, "unmerged") /\ active' = active /\ shown' = shown
      /\ calls[q].op = "delete" /\ unmerged' = unmerged \union {<<calls[q].repo, calls[q].arg>>}
  BY DEF GitFindsUnmerged, Working, app
<1>2. /\ calls[q].list \in Lists /\ calls[q].repo \in Repos /\ calls[q].arg \in Branches
  BY <1>1, RequestParts DEF GoodCall, Maybe
<1>3. unmerged' \subseteq Repos \X Branches
  BY <1>1, <1>2 DEF BranchInv, Typed
<1>4. Typed'
  BY <1>3 DEF GitFindsUnmerged, BranchInv, Typed, disk, app, watcher
<1>5. unmerged \subseteq unmerged' /\ <<calls[q].repo, calls[q].arg>> \in unmerged'
  BY <1>1
<1>6. PICK list \in Lists : list = calls[q].list
  BY <1>2
<1>7. calls' = [calls EXCEPT ![q] =
                  [calls[q] EXCEPT !.at = "worked", !.answer = "unmerged", !.list = list]]
  BY <1>1, <1>6, AnsweredIs
<1> QED BY <1>1, <1>4, <1>5, <1>7, AnswerSound

LEMMA ReadBranchesSound ==
    ASSUME BranchInv, NEW q \in Slots, ReadBranches(q)
    PROVE  BranchInv' /\ Survive(shown, shown')
<1>1. Typed'
  BY DEF ReadBranches, BranchInv, Typed, disk, app, watcher
<1>2. calls[q] # Idle /\ active' = active /\ shown' = shown /\ unmerged \subseteq unmerged'
  BY DEF ReadBranches, app
<1>3. calls[q] \in Pending /\ calls[q].list \in Lists /\ calls[q].repo \in Repos
  BY <1>2, RequestParts
<1>4. CASE calls' = [calls EXCEPT ![q].at = "listed", ![q].answer = "ok",
                                  ![q].list = ListOf(calls[q].repo)]
  <2>1. ListOf(calls[q].repo) \in Lists
    BY <1>3 DEF ListOf, Lists, BranchInv, Typed
  <2>2. calls' = [calls EXCEPT ![q] =
                    [calls[q] EXCEPT !.at = "listed", !.answer = "ok",
                                     !.list = ListOf(calls[q].repo)]]
    BY <1>4 DEF BranchInv, GoodCalls
  <2> QED BY <1>1, <1>2, <2>1, <2>2, AnswerSound
<1>5. CASE calls' = [calls EXCEPT ![q].at = "listed", ![q].answer = "error"]
  <2>1. calls' = [calls EXCEPT ![q] =
                    [calls[q] EXCEPT !.at = "listed", !.answer = "error"]]
    BY <1>5 DEF BranchInv, GoodCalls
  <2>2. [calls[q] EXCEPT !.at = "listed", !.answer = "error"]
           = [calls[q] EXCEPT !.at = "listed", !.answer = "error", !.list = calls[q].list]
    BY <1>3 DEF Pending
  <2>3. calls' = [calls EXCEPT ![q] =
                    [calls[q] EXCEPT !.at = "listed", !.answer = "error",
                                     !.list = calls[q].list]]
    BY <2>1, <2>2
  <2> QED BY <1>1, <1>2, <1>3, <2>3, AnswerSound
<1> QED BY <1>4, <1>5 DEF ReadBranches

-----------------------------------------------------------------------------
(* The renderer receives an answer.                                        *)

LEMMA SettledTyped ==
    ASSUME BranchInv, Settled, active' = active,
           currentBranch' \in Maybe(Branches), screen' \in {"branches", "other"}
    PROVE  Typed'
BY DEF Settled, BranchInv, Typed, disk, watcher

(* The store painted by an answer: fields other than those named stay, and *)
(* only the answer of a current request arms, names a branch or paints.    *)
LEMMA Painted ==
    ASSUME BranchInv, NEW q \in Slots, calls[q] # Idle,
           shown' \in ShownState, shown'.repo = shown.repo,
           shown'.of = shown.of \/ (calls[q].current /\ shown'.of = calls[q].repo),
           calls[q].current \/ shown'.out = shown.out,
           shown'.armed["force"] # None => <<active, shown'.armed["force"]>> \in unmerged
    PROVE  GoodShown(shown', active, unmerged)
<1>1. GoodShown(shown, active, unmerged) /\ GoodCall(calls[q], active, unmerged)
  BY RequestParts DEF BranchInv
<1>2. shown'.of = active
  BY <1>1 DEF GoodShown, GoodCall
<1>3. calls[q].current => active # None
  BY <1>1, RequestParts, NoneAssumption DEF GoodCall
<1> QED BY <1>1, <1>2, <1>3 DEF GoodShown

\* A request that is over, and the lock that a switch held with it.
LEMMA DoneSound ==
    ASSUME BranchInv, NEW q \in Slots, calls[q] # Idle, Done(q), Typed',
           UNCHANGED <<active, unmerged>>,
           GoodShown(shown', active, unmerged),
           shown'.switching = IF calls[q].op \in Switches THEN FALSE ELSE shown.switching
    PROVE  BranchInv'
<1>1. GoodCalls(calls', active, unmerged) /\ Switching(calls') = Switching(calls) \ {q}
  BY Ends DEF BranchInv
<1>2. OneSwitch(calls, shown.switching)
  BY DEF BranchInv
<1>3. q \in Switching(calls) <=> calls[q].op \in Switches
  BY DEF Switching
<1>4. OneSwitch(calls', shown'.switching)
  <2>1. CASE calls[q].op \in Switches
    BY <1>1, <1>2, <1>3, <2>1 DEF OneSwitch
  <2>2. CASE calls[q].op \notin Switches
    BY <1>1, <1>2, <1>3, <2>2 DEF OneSwitch
  <2> QED BY <2>1, <2>2
<1> QED BY <1>1, <1>4 DEF BranchInv

\* An operation that goes on to re-read the list.
LEMMA ThenListSound ==
    ASSUME BranchInv, NEW q \in Slots, calls[q] # Idle, ThenList(q), Typed',
           UNCHANGED <<active, unmerged>>,
           GoodShown(shown', active, unmerged), shown'.switching = shown.switching
    PROVE  BranchInv'
<1>1. PICK c \in Pending : c = calls[q]
  BY RequestParts
<1>2. PICK d : d = [c EXCEPT !.at = "list"]
  OBVIOUS
<1>3. /\ d \in Pending /\ d.op = c.op /\ d.repo = c.repo /\ d.arg = c.arg
      /\ d.current = c.current /\ d.answer = c.answer
  BY <1>2 DEF Pending
<1>4. GoodCalls(calls, active, unmerged) /\ GoodCall(calls[q], active, unmerged)
  BY RequestParts DEF BranchInv
<1>5. GoodCall(d, active, unmerged)
  BY <1>1, <1>3, <1>4 DEF GoodCall
<1>6. calls' = [calls EXCEPT ![q] = d]
  BY <1>1, <1>2, <1>4 DEF ThenList, GoodCalls
<1>7. GoodCalls(calls', active, unmerged) /\ Switching(calls') = Switching(calls)
  BY <1>1, <1>3, <1>4, <1>5, <1>6, Becomes
<1> QED BY <1>7 DEF BranchInv, OneSwitch

LEMMA SwitchedSound ==
    ASSUME BranchInv, NEW q \in Slots, Switched(q)
    PROVE  BranchInv' /\ Survive(shown, shown')
<1>1. calls[q] # Idle
  BY DEF Switched, Receives
<1>2. GoodCall(calls[q], active, unmerged) /\ calls[q].arg \in Maybe(Branches)
  BY <1>1, RequestParts
<1>3. GoodShown(shown', active, unmerged) /\ shown'.switching = shown.switching /\ shown'.out = shown.out
  <2>1. CASE calls[q].current
    <3>1. shown' = [shown EXCEPT !.of = active]
      BY <1>1, <1>2, <2>1 DEF Switched, GoodCall
    <3>2. shown' = shown
      BY <3>1, ShownFields DEF ShownState
    <3> QED BY <3>2 DEF BranchInv
  <2>2. CASE ~calls[q].current
    BY <2>2 DEF Switched, BranchInv
  <2> QED BY <2>1, <2>2
<1>4. currentBranch' \in Maybe(Branches)
  BY <1>2 DEF Switched, BranchInv, Typed
<1>5. Typed'
  BY <1>4, SettledTyped DEF Switched, BranchInv, Typed
<1> QED BY <1>1, <1>3, <1>5, ThenListSound DEF Switched, Settled, Survive

(* The outcome named by an answer that has come in time.                   *)
LEMMA Named ==
    ASSUME BranchInv, NEW q \in Slots, calls[q] # Idle, calls[q].op \notin {"load", "prune"},
           NEW o \in Outcomes, NEW disabled \in BOOLEAN,
           shown' = [shown EXCEPT !.switching = disabled,
                       !.out[o] = IF calls[q].current THEN calls[q].arg ELSE @]
    PROVE  /\ GoodShown(shown', active, unmerged) /\ shown'.switching = disabled
           /\ Survive(shown, shown')
<1>1. /\ calls[q].arg \in Maybe(Branches) /\ calls[q].arg # None
      /\ calls[q].current \in BOOLEAN
  BY RequestParts DEF GoodCall
<1>2. PICK out \in [Outcomes -> Maybe(Branches)] :
          out = [shown.out EXCEPT ![o] = IF calls[q].current THEN calls[q].arg ELSE shown.out[o]]
  BY <1>1, ShownFields
<1>3. calls[q].current \/ out = shown.out
  BY <1>2, ShownFields
<1>4. shown' = [shown EXCEPT !.switching = disabled, !.out = out]
  BY <1>2, ShownFields DEF ShownState
<1>5. /\ shown' \in ShownState /\ shown'.repo = shown.repo /\ shown'.of = shown.of
      /\ shown'.armed = shown.armed /\ shown'.switching = disabled /\ shown'.out = out
  BY <1>4, ShownFields DEF ShownState
<1>6. GoodShown(shown', active, unmerged)
  BY <1>3, <1>5, Painted DEF BranchInv, GoodShown
<1>7. Survive(shown, shown')
  BY <1>1, <1>2, <1>5, ShownFields DEF Survive
<1> QED BY <1>5, <1>6, <1>7

LEMMA SwitchFailedSound ==
    ASSUME BranchInv, NEW q \in Slots, SwitchFailed(q)
    PROVE  BranchInv' /\ Survive(shown, shown')
<1>1. calls[q] # Idle /\ calls[q].op \in Switches /\ Done(q)
  BY DEF SwitchFailed, Receives
<1>2. calls[q].op \notin {"load", "prune"}
  BY <1>1, Names
<1>3. GoodShown(shown', active, unmerged) /\ shown'.switching = FALSE /\ Survive(shown, shown')
  BY <1>1, <1>2, Names, Named DEF SwitchFailed
<1>4. Typed'
  BY SettledTyped DEF SwitchFailed, BranchInv, Typed, app
<1> QED BY <1>1, <1>3, <1>4, DoneSound DEF SwitchFailed, Settled, app

LEMMA StashKeptSound ==
    ASSUME BranchInv, NEW q \in Slots, StashKept(q)
    PROVE  BranchInv' /\ Survive(shown, shown')
<1>1. calls[q] # Idle /\ calls[q].op = "bring" /\ Done(q)
  BY DEF StashKept, Receives
<1>2. calls[q].op \notin {"load", "prune"} /\ calls[q].op \in Switches
  BY <1>1, Names
<1>3. GoodShown(shown', active, unmerged) /\ shown'.switching = FALSE /\ Survive(shown, shown')
  BY <1>1, <1>2, Names, Named DEF StashKept
<1>4. Typed'
  <2>1. currentBranch' \in Maybe(Branches) /\ screen' \in {"branches", "other"}
    BY <1>1, RequestParts DEF StashKept, BranchInv, Typed
  <2> QED BY <2>1, SettledTyped DEF StashKept
<1> QED BY <1>1, <1>2, <1>3, <1>4, DoneSound DEF StashKept, Settled

LEMMA DeletedSound ==
    ASSUME BranchInv, NEW q \in Slots, Deleted(q)
    PROVE  BranchInv' /\ Survive(shown, shown')
<1>1. calls[q] # Idle /\ GoodShown(shown', active, unmerged) /\ shown' = shown
  BY DEF Deleted, Receives, BranchInv
<1>2. Typed'
  BY SettledTyped DEF Deleted, BranchInv, Typed, app
<1> QED BY <1>1, <1>2, ThenListSound DEF Deleted, Settled, app, Survive

LEMMA MergedSound ==
    ASSUME BranchInv, NEW q \in Slots, Merged(q)
    PROVE  BranchInv' /\ Survive(shown, shown')
<1>1. calls[q] # Idle /\ GoodShown(shown', active, unmerged) /\ shown' = shown
  BY DEF Merged, Receives, BranchInv
<1>2. Typed'
  BY SettledTyped DEF Merged, BranchInv, Typed, app
<1> QED BY <1>1, <1>2, ThenListSound DEF Merged, Settled, app, Survive

(* The stronger confirmation is armed by the refusal of the deletion.      *)
LEMMA DeleteRefusedSound ==
    ASSUME BranchInv, NEW q \in Slots, DeleteRefused(q)
    PROVE  BranchInv' /\ Survive(shown, shown')
<1>1. calls[q] # Idle /\ calls[q].op = "delete" /\ calls[q].answer = "unmerged" /\ Done(q)
  BY DEF DeleteRefused, Receives
<1>2. /\ calls[q].arg \in Maybe(Branches) /\ calls[q].current \in BOOLEAN
      /\ <<calls[q].repo, calls[q].arg>> \in unmerged
      /\ calls[q].current => calls[q].repo = active
  BY <1>1, RequestParts DEF GoodCall
<1>3. PICK armed \in [Confirms -> Maybe(Branches)] :
          armed = [shown.armed EXCEPT !["force"] =
                     IF calls[q].current THEN calls[q].arg ELSE shown.armed["force"]]
  BY <1>2, ShownFields, Names
<1>4. shown' = [shown EXCEPT !.armed = armed]
  BY <1>3, ShownFields DEF DeleteRefused, ShownState
<1>5. armed["force"] # None => <<active, armed["force"]>> \in unmerged
  BY <1>2, <1>3, ShownFields, Names DEF BranchInv, GoodShown
<1>6. /\ shown' \in ShownState /\ shown'.repo = shown.repo /\ shown'.of = shown.of
      /\ shown'.armed = armed /\ shown'.switching = shown.switching /\ shown'.out = shown.out
  BY <1>4, ShownFields DEF ShownState
<1>7. GoodShown(shown', active, unmerged)
  BY <1>1, <1>5, <1>6, Painted
<1>8. Typed'
  BY SettledTyped DEF DeleteRefused, BranchInv, Typed, app
<1>9. calls[q].op \notin Switches
  BY <1>1, Names
<1> QED BY <1>1, <1>6, <1>7, <1>8, <1>9, DoneSound DEF DeleteRefused, Settled, app, Survive

LEMMA MergeConflictedSound ==
    ASSUME BranchInv, NEW q \in Slots, MergeConflicted(q)
    PROVE  BranchInv' /\ Survive(shown, shown')
<1>1. calls[q] # Idle /\ calls[q].op = "merge" /\ Done(q)
  BY DEF MergeConflicted, Receives
<1>2. calls[q].op \notin {"load", "prune"} /\ calls[q].op \notin Switches
  BY <1>1, Names
<1>3. shown' = [shown EXCEPT !.switching = shown.switching,
                  !.out["mergeConflict"] = IF calls[q].current THEN calls[q].arg ELSE @]
  BY ShownFields DEF MergeConflicted, ShownState
<1>4. /\ GoodShown(shown', active, unmerged) /\ shown'.switching = shown.switching
      /\ Survive(shown, shown')
  BY <1>1, <1>2, <1>3, Names, ShownFields, Named
<1>5. Typed'
  BY SettledTyped DEF MergeConflicted, BranchInv, Typed, app
<1> QED BY <1>1, <1>2, <1>4, <1>5, DoneSound DEF MergeConflicted, Settled, app

LEMMA OnlyMessageSound ==
    ASSUME BranchInv, NEW q \in Slots, OnlyMessage(q)
    PROVE  BranchInv' /\ Survive(shown, shown')
<1>1. calls[q] # Idle /\ calls[q].op \in {"create", "merge", "prune"} /\ Done(q)
  BY DEF OnlyMessage, Receives
<1>2. calls[q].op \notin Switches
  BY <1>1, Names
<1>3. GoodShown(shown', active, unmerged) /\ shown' = shown
  BY DEF OnlyMessage, BranchInv
<1>4. Typed'
  BY SettledTyped DEF OnlyMessage, BranchInv, Typed, app
<1> QED BY <1>1, <1>2, <1>3, <1>4, DoneSound DEF OnlyMessage, Settled, app, Survive

LEMMA LoadedSound ==
    ASSUME BranchInv, NEW q \in Slots, Loaded(q)
    PROVE  BranchInv' /\ Survive(shown, shown')
<1>1. calls[q] # Idle /\ calls[q].op = "load" /\ Done(q)
  BY DEF Loaded, Listed
<1>2. calls[q].op \notin Switches
  BY <1>1, Names DEF Switches
<1>3. calls[q].list \in Lists /\ calls[q].current \in BOOLEAN
  BY <1>1, RequestParts
<1>4. /\ GoodShown(shown', active, unmerged) /\ shown'.switching = shown.switching
      /\ shown'.out = shown.out
  <2>1. CASE calls[q].current
    <3>1. PICK list \in Lists :
              list = IF calls[q].answer = "ok" THEN calls[q].list ELSE shown.list
      BY <1>3, ShownFields DEF ShownState
    <3>2. PICK failed \in BOOLEAN : failed = (calls[q].answer = "error")
      <4>1. (calls[q].answer = "error") \in BOOLEAN
        OBVIOUS
      <4> QED BY <4>1
    <3>3. shown' = [shown EXCEPT !.loading = FALSE, !.failed = (calls[q].answer = "error"),
                      !.list = IF calls[q].answer = "ok" THEN calls[q].list ELSE shown.list,
                      !.of = calls[q].repo]
      BY <2>1 DEF Loaded
    <3>4. shown' = [shown EXCEPT !.loading = FALSE, !.failed = failed,
                      !.list = list, !.of = calls[q].repo]
      BY <3>1, <3>2, <3>3
    <3>5. calls[q].repo \in Maybe(Repos)
      BY <1>1, RequestParts DEF Maybe
    <3>6. /\ shown' \in ShownState /\ shown'.repo = shown.repo /\ shown'.of = calls[q].repo
          /\ shown'.armed = shown.armed /\ shown'.switching = shown.switching
          /\ shown'.out = shown.out
      BY <3>4, <3>5, ShownFields DEF ShownState
    <3>7. shown.armed["force"] # None => <<active, shown.armed["force"]>> \in unmerged
      BY DEF BranchInv, GoodShown
    <3> QED BY <1>1, <2>1, <3>6, <3>7, Painted
  <2>2. CASE ~calls[q].current
    BY <2>2 DEF Loaded, BranchInv
  <2> QED BY <2>1, <2>2
<1>5. currentBranch' \in Maybe(Branches)
  BY <1>3 DEF Loaded, BranchInv, Typed, Lists
<1>6. Typed'
  BY <1>5, SettledTyped DEF Loaded, BranchInv, Typed
<1> QED BY <1>1, <1>2, <1>4, <1>6, DoneSound DEF Loaded, Settled, Survive

LEMMA RefreshedSound ==
    ASSUME BranchInv, NEW q \in Slots, Refreshed(q)
    PROVE  BranchInv' /\ Survive(shown, shown')
<1>1. calls[q] # Idle /\ Done(q)
  BY DEF Refreshed, Listed
<1>2. calls[q].list \in Lists /\ calls[q].current \in BOOLEAN
  BY <1>1, RequestParts
<1>3. PICK list \in Lists :
          list = IF calls[q].current /\ calls[q].answer = "ok" THEN calls[q].list ELSE shown.list
  BY <1>2, ShownFields DEF ShownState
<1>4. PICK of : of = IF calls[q].current /\ calls[q].answer = "ok"
                     THEN calls[q].repo ELSE shown.of
  OBVIOUS
<1>5. PICK disabled \in BOOLEAN :
          disabled = IF calls[q].op \in Switches THEN FALSE ELSE shown.switching
  BY ShownFields
<1>6. shown' = [shown EXCEPT !.switching = disabled, !.list = list, !.of = of]
  BY <1>3, <1>4, <1>5 DEF Refreshed
<1>7. of = shown.of \/ (calls[q].current /\ of = calls[q].repo)
  BY <1>2, <1>4
<1>8. /\ shown' \in ShownState /\ shown'.repo = shown.repo /\ shown'.of = of
      /\ shown'.armed = shown.armed /\ shown'.switching = disabled /\ shown'.out = shown.out
  <2>1. of \in Maybe(Repos)
    BY <1>1, <1>7, RequestParts, ShownFields DEF ShownState, Maybe
  <2> QED BY <1>6, <2>1, ShownFields DEF ShownState
<1>9. GoodShown(shown', active, unmerged)
  <2>1. shown.armed["force"] # None => <<active, shown.armed["force"]>> \in unmerged
    BY DEF BranchInv, GoodShown
  <2> QED BY <1>1, <1>7, <1>8, <2>1, Painted
<1>10. Typed'
  BY SettledTyped DEF Refreshed, BranchInv, Typed, app
<1> QED BY <1>1, <1>5, <1>8, <1>9, <1>10, DoneSound DEF Refreshed, Settled, app, Survive

-----------------------------------------------------------------------------
(* The watcher and the terminal.                                           *)

LEMMA ServeWatchSound ==
    ASSUME BranchInv, ServeWatch  PROVE BranchInv' /\ Survive(shown, shown')
<1>1. Typed'
  BY DEF ServeWatch, BranchInv, Typed, disk, app
<1> QED BY <1>1 DEF ServeWatch, app, BranchInv, Survive

LEMMA CheckSound ==
    ASSUME BranchInv, Check  PROVE BranchInv' /\ Survive(shown, shown')
<1>1. Typed'
  BY DEF Check, BranchInv, Typed, disk, app
<1> QED BY <1>1 DEF Check, app, BranchInv, Survive

LEMMA TerminalSound ==
    ASSUME BranchInv, NEW r \in Repos, Terminal(r)
    PROVE  BranchInv' /\ Survive(shown, shown')
<1>1. watch' \in [repo : Maybe(Repos), unseen : BOOLEAN]
  BY TouchedTyped DEF Terminal
<1>2. moves' \in 0..MaxMoves
  BY BoundsAssumption DEF Terminal, BranchInv, Typed
<1>3. /\ head' \in [Repos -> Maybe(Branches)] /\ refs' \in [Repos -> SUBSET Branches]
      /\ held' = held
  <2>1. /\ head \in [Repos -> Maybe(Branches)] /\ refs \in [Repos -> SUBSET Branches]
    BY DEF BranchInv, Typed
  <2>2. CASE \E b \in Maybe(refs[r]) :
               /\ b # head[r] /\ <<r, b>> \notin held
               /\ head' = [head EXCEPT ![r] = b] /\ UNCHANGED <<refs, held>>
    BY <2>1, <2>2 DEF Maybe
  <2>3. CASE \E b \in Branches :
               /\ b # head[r] /\ <<r, b>> \notin held
               /\ refs' = [refs EXCEPT ![r] = IF b \in @ THEN @ \ {b} ELSE @ \union {b}]
               /\ UNCHANGED <<head, held>>
    <3>1. PICK b \in Branches :
              /\ refs' = [refs EXCEPT ![r] = IF b \in @ THEN @ \ {b} ELSE @ \union {b}]
              /\ UNCHANGED <<head, held>>
      BY <2>3
    <3> QED BY <2>1, <3>1
  <2> QED BY <2>2, <2>3 DEF Terminal
<1>4. Typed'
  BY <1>1, <1>2, <1>3 DEF Terminal, BranchInv, Typed, app
<1> QED BY <1>4 DEF Terminal, app, BranchInv, Survive

-----------------------------------------------------------------------------
(* The specification.                                                      *)

LEMMA InitSound == ASSUME Init PROVE BranchInv
<1>1. Typed
  <2>1. /\ head \in [Repos -> Maybe(Branches)] /\ refs \in [Repos -> SUBSET Branches]
    BY FirstAssumption DEF Init, Maybe
  <2>2. /\ asked \in [repo : Maybe(Repos), pending : BOOLEAN]
        /\ watch \in [repo : Maybe(Repos), unseen : BOOLEAN]
    BY DEF Init, Maybe
  <2>3. acts \in 0..MaxActs /\ moves \in 0..MaxMoves
    BY BoundsAssumption DEF Init
  <2> QED BY <2>1, <2>2, <2>3 DEF Init, Typed, Maybe
<1>2. /\ calls \in [Slots -> Pending \union {Idle}]
      /\ \A q \in Slots : calls[q] = Idle
  BY DEF Init
<1>3. GoodCalls(calls, active, unmerged) /\ Switching(calls) = {}
  BY <1>2 DEF GoodCalls, GoodCall, Switching
<1>4. NoOutcome \in [Outcomes -> Maybe(Branches)] /\ Unarmed \in [Confirms -> Maybe(Branches)]
  BY DEF NoOutcome, Unarmed, Maybe
<1>5. /\ shown \in ShownState /\ shown.repo = None /\ shown.of = None
      /\ shown.switching = FALSE /\ shown.armed = Unarmed /\ shown.out = NoOutcome
  BY <1>4, IdleIsNoRequest DEF Init, ShownState, Maybe
<1>6. Unarmed["force"] = None
  BY DEF Unarmed, Confirms
<1>7. GoodShown(shown, active, unmerged)
  BY <1>5, <1>6 DEF GoodShown, Init
<1> QED BY <1>1, <1>3, <1>5, <1>7 DEF BranchInv, OneSwitch

LEMMA BackgroundSound ==
    ASSUME BranchInv, Background  PROVE BranchInv' /\ Survive(shown, shown')
<1>1. CASE AutoSelect   BY <1>1, AutoSelectSound
<1>2. CASE ServeWatch   BY <1>2, ServeWatchSound
<1>3. CASE Check        BY <1>3, CheckSound
<1>4. CASE OnChanged    BY <1>4, OnChangedSound
<1>5. ASSUME NEW q \in Slots,
             \/ GitAccepts(q) \/ GitRefuses(q) \/ GitFindsUnmerged(q) \/ GitConflicts(q)
             \/ ReadBranches(q)
      PROVE  BranchInv' /\ Survive(shown, shown')
  BY <1>5, GitAcceptsSound, GitRefusesSound, GitFindsUnmergedSound, GitConflictsSound,
     ReadBranchesSound
<1>6. ASSUME NEW q \in Slots,
             \/ Switched(q) \/ SwitchFailed(q) \/ StashKept(q) \/ Deleted(q) \/ DeleteRefused(q)
      PROVE  BranchInv' /\ Survive(shown, shown')
  BY <1>6, SwitchedSound, SwitchFailedSound, StashKeptSound, DeletedSound, DeleteRefusedSound
<1>7. ASSUME NEW q \in Slots,
             \/ Merged(q) \/ MergeConflicted(q) \/ OnlyMessage(q) \/ Loaded(q) \/ Refreshed(q)
      PROVE  BranchInv' /\ Survive(shown, shown')
  BY <1>7, MergedSound, MergeConflictedSound, OnlyMessageSound, LoadedSound, RefreshedSound
<1> QED BY <1>1, <1>2, <1>3, <1>4, <1>5, <1>6, <1>7 DEF Background

LEMMA UserSound == ASSUME BranchInv, User PROVE BranchInv'
<1>1. CASE \E r \in Maybe(Repos) : PickRepo(r)   BY <1>1, PickRepoSound
<1>2. CASE Revalidate \/ DoSwitchBringChanges \/ DoPruneWorktrees
  BY <1>2, RevalidateSound, DoSwitchBringChangesSound, DoPruneWorktreesSound
<1>3. CASE \E s \in {"branches", "other"} : Navigate(s)   BY <1>3, NavigateSound
<1>4. ASSUME NEW b \in Branches,
             \/ DoSwitch(b) \/ DoCreate(b)
             \/ ArmDelete(b) \/ DoDelete(b) \/ DoForceDelete(b)
             \/ ArmMerge(b) \/ DoMerge(b)
      PROVE  BranchInv'
  BY <1>4, DoSwitchSound, DoCreateSound, ArmDeleteSound, DoDeleteSound, DoForceDeleteSound,
     ArmMergeSound, DoMergeSound
<1>5. CASE \E c \in Confirms : CancelConfirm(c)    BY <1>5, CancelConfirmSound
<1>6. CASE \E o \in Outcomes : DismissOutcome(o)   BY <1>6, DismissOutcomeSound
<1> QED BY <1>1, <1>2, <1>3, <1>4, <1>5, <1>6 DEF User

LEMMA UserCounts == ASSUME BranchInv, User PROVE acts' # acts
<1>1. User => Act
  BY DEF User, PickRepo, Revalidate, Navigate, DoSwitch, DoSwitchBringChanges, DoCreate,
         DoPruneWorktrees, ArmDelete, DoDelete, DoForceDelete, ArmMerge, DoMerge,
         CancelConfirm, DismissOutcome, Started
<1> QED BY <1>1, ActCounts

LEMMA StepSound ==
    ASSUME BranchInv, [AppNext]_appVars
    PROVE  BranchInv' /\ (acts' = acts => Survive(shown, shown'))
<1>1. CASE UNCHANGED vars
  BY <1>1 DEF vars, BranchInv, Typed, Survive
<1>2. CASE Next
  BY <1>2, BackgroundSound, UserSound, UserCounts, TerminalSound DEF Next
<1> QED BY <1>1, <1>2 DEF AppNext, appVars, Branching, Recording

THEOREM BranchesSound == AppSpec => []BranchInv
<1>1. AppInit => BranchInv
  BY InitSound DEF AppInit
<1>2. BranchInv /\ [AppNext]_appVars => BranchInv'
  BY StepSound
<1> QED BY <1>1, <1>2, PTL DEF AppSpec

(* The branches shown are those of the repository the user has chosen,     *)
(* whichever answer of main comes last (branchStore's request guard).      *)
THEOREM ChosenRepoShown == AppSpec => []ShowsChosenRepo
<1>1. BranchInv => ShowsChosenRepo
  BY DEF BranchInv, Typed, GoodCalls, GoodShown, ShownState, ShowsChosenRepo, TypeOK,
         PaintsActiveRepo
<1> QED BY <1>1, BranchesSound, PTL

(* One switch runs at a time, and `branch -D` is for a branch whose        *)
(* deletion git has refused in that very repository.                       *)
THEOREM SwitchesSafe == AppSpec => []SwitchesAreSafe
<1>1. BranchInv => SwitchesOneAtATime
  <2> SUFFICES ASSUME BranchInv PROVE SwitchesOneAtATime
    OBVIOUS
  <2>1. Switching(calls) = {q \in Waiting : calls[q].op \in Switches}
    BY DEF Switching, Waiting
  <2>2. Cardinality(Switching(calls)) <= 1
    <3>1. CASE Switching(calls) = {}
      BY <3>1, FS_EmptySet
    <3>2. CASE Switching(calls) # {}
      <4>1. PICK q \in Switching(calls) : TRUE
        BY <3>2
      <4>2. Switching(calls) = {q}
        BY <4>1 DEF BranchInv, OneSwitch
      <4>3. Cardinality({q}) = 1
        BY FS_Singleton
      <4> QED BY <4>2, <4>3
    <3> QED BY <3>1, <3>2
  <2> QED BY <2>1, <2>2 DEF BranchInv, OneSwitch, SwitchesOneAtATime
<1>2. BranchInv => ForceOnlyAfterRefusal
  BY DEF BranchInv, GoodShown, GoodCalls, GoodCall, ForceOnlyAfterRefusal, Waiting
<1>3. BranchInv => SwitchesAreSafe
  BY <1>1, <1>2 DEF SwitchesAreSafe
<1> QED BY <1>3, BranchesSound, PTL

(* No refresh, by an event or by a late answer, wipes the outcome of an    *)
(* operation: only the user does (branchStore.load).                       *)
THEOREM OutcomesKept == AppSpec => OutcomesSurvive
<1>1. BranchInv /\ [AppNext]_appVars =>
        [acts' = acts => \A o \in Outcomes : shown.out[o] # None => shown'.out[o] # None]_vars
  BY StepSound DEF Survive
<1> QED BY <1>1, BranchesSound, PTL DEF AppSpec, OutcomesSurvive

-----------------------------------------------------------------------------
(* Records: what a call has got by now.                                    *)

LEMMA NoneIsNoRecord ==
    /\ None \notin Profiles /\ None \notin Repos /\ None \notin R!Data
    /\ None \notin R!Record /\ None \notin R!Call
BY RecordsAssumption

LEMMA SlotsAreNumbers == R!Slots \subseteq Nat /\ 1 \in R!Slots /\ 2 \in R!Slots
BY RecordsAssumption, BoundsAssumption DEF R!Slots

LEMMA FirstFreeIsFree ==
    ASSUME R!Free # {}  PROVE R!FirstFree \in R!Slots /\ rCalls[R!FirstFree] = None
<1>1. R!Free \subseteq Nat
  BY SlotsAreNumbers DEF R!Free
<1>2. \E q \in R!Free : \A x \in R!Free : q <= x
  BY <1>1, Least
<1>3. R!FirstFree \in R!Free
  BY <1>2 DEF R!FirstFree
<1> QED BY <1>3 DEF R!Free

\* The call of one slot is replaced.
LEMMA SlotSet ==
    ASSUME NEW cs, GoodRecordCalls(cs), NEW q \in R!Slots, NEW d, GoodSlot(d),
           NEW ds, ds = [cs EXCEPT ![q] = d]
    PROVE  /\ GoodRecordCalls(ds) /\ ds[q] = d
           /\ \A x \in R!Slots \ {q} : ds[x] = cs[x]
           /\ OthersLike(cs, ds, q)
<1>1. /\ ds \in [R!Slots -> R!Call \union {None}] /\ ds[q] = d
      /\ \A x \in R!Slots \ {q} : ds[x] = cs[x]
  BY DEF GoodRecordCalls, GoodSlot
<1>2. GoodRecordCalls(ds)
  BY <1>1 DEF GoodRecordCalls
<1>3. OthersLike(cs, ds, q)
  BY <1>1 DEF OthersLike, Like
<1> QED BY <1>1, <1>2, <1>3

LEMMA LikeShaped ==
    ASSUME NEW c, NEW d \in R!Call, GoodSlot(c), c # None, Like(c, d)  PROVE GoodSlot(d)
BY DEF GoodSlot, Shaped, Like

\* What is no longer waited for, or not by the newest choice, keeps its shape.
LEMMA FlagSet ==
    ASSUME NEW c, GoodSlot(c), c # None, NEW b \in BOOLEAN, NEW d,
           \/ d = [c EXCEPT !.here = b]
           \/ d = [c EXCEPT !.moved = b]
           \/ d = [c EXCEPT !.old = b]
    PROVE  /\ d # None /\ GoodSlot(d) /\ Like(c, d)
           /\ d.old = c.old \/ (d.old = b /\ d = [c EXCEPT !.old = b])
<1>1. c \in R!Call
  BY DEF GoodSlot
<1>2. d \in R!Call
  BY <1>1 DEF R!Call
<1>3. Like(c, d)
  BY <1>1, <1>2, NoneIsNoRecord DEF R!Call, Like
<1>4. GoodSlot(d)
  BY <1>2, <1>3, LikeShaped
<1>5. d.old = c.old \/ (d.old = b /\ d = [c EXCEPT !.old = b])
  BY <1>1 DEF R!Call
<1> QED BY <1>2, <1>3, <1>4, <1>5, NoneIsNoRecord

LEMMA OldSet ==
    ASSUME NEW c, GoodSlot(c), c # None, NEW d, d = [c EXCEPT !.old = TRUE]
    PROVE  /\ d # None /\ GoodSlot(d) /\ Like(c, d) /\ d.old = TRUE
<1>1. c \in R!Call
  BY DEF GoodSlot
<1>2. d.old = TRUE
  BY <1>1 DEF R!Call
<1>3. d # None /\ GoodSlot(d) /\ Like(c, d)
  BY FlagSet
<1> QED BY <1>2, <1>3

LEMMA ScreenFlagSet ==
    ASSUME NEW c, GoodSlot(c), c # None, NEW d,
           d = [c EXCEPT !.here = FALSE] \/ d = [c EXCEPT !.moved = TRUE]
    PROVE  /\ d # None /\ GoodSlot(d) /\ Like(c, d) /\ d.old = c.old
<1>1. c \in R!Call
  BY DEF GoodSlot
<1>2. d.old = c.old
  BY <1>1 DEF R!Call
<1>3. d # None /\ GoodSlot(d) /\ Like(c, d)
  BY FlagSet
<1> QED BY <1>2, <1>3

LEMMA MakeIs ==
    ASSUME NEW in, NEW q, NEW call
    PROVE  R!Make(in, q, call) <=>
             /\ rCalls' = Made(in, q, call)
             /\ overlap' = (overlap \/ MeetsOther(in, q, call.op))
BY DEF R!Make, Made, MeetsOther, R!Pending

LEMMA MadeSound ==
    ASSUME NEW in, GoodRecordCalls(in), NEW q \in R!Slots, NEW call, GoodSlot(call)
    PROVE  /\ GoodRecordCalls(Made(in, q, call)) /\ Made(in, q, call)[q] = call
           /\ OthersLike(in, Made(in, q, call), q)
           /\ \A x \in R!Slots \ {q} : in[x] # None =>
                 Made(in, q, call)[x].old = (in[x].old \/ (in[x].op = "setActive" /\ call.op = "setActive"))
<1>1. PICK ds : ds = Made(in, q, call)
  OBVIOUS
<1>2. ds[q] = call
  BY <1>1 DEF Made
<1>3. ASSUME NEW x \in R!Slots \ {q}
      PROVE  /\ GoodSlot(ds[x]) /\ Like(in[x], ds[x])
             /\ in[x] # None => ds[x].old = (in[x].old \/ (in[x].op = "setActive" /\ call.op = "setActive"))
  <2>1. GoodSlot(in[x])
    BY DEF GoodRecordCalls
  <2>2. CASE in[x] # None /\ in[x].op = "setActive" /\ call.op = "setActive"
    <3>1. ds[x] = [in[x] EXCEPT !.old = TRUE]
      BY <1>1, <2>2 DEF Made
    <3>2. GoodSlot(ds[x]) /\ Like(in[x], ds[x]) /\ ds[x].old = TRUE
      BY <2>1, <2>2, <3>1, OldSet
    <3> QED BY <2>2, <3>2
  <2>3. CASE ~(in[x] # None /\ in[x].op = "setActive" /\ call.op = "setActive")
    <3>1. ds[x] = in[x]
      BY <1>1, <2>3 DEF Made
    <3>2. in[x] # None => in[x].old \in BOOLEAN
      BY <2>1 DEF GoodSlot, R!Call
    <3> QED BY <2>1, <2>3, <3>1, <3>2 DEF Like
  <2> QED BY <2>2, <2>3
<1>4. ds \in [R!Slots -> R!Call \union {None}]
  <2>1. \A x \in R!Slots : ds[x] \in R!Call \union {None}
    BY <1>2, <1>3 DEF GoodSlot
  <2>2. ds = [x \in R!Slots |-> ds[x]]
    BY <1>1 DEF Made
  <2> QED BY <2>1, <2>2
<1>5. GoodRecordCalls(ds)
  BY <1>2, <1>3, <1>4 DEF GoodRecordCalls
<1> QED BY <1>1, <1>2, <1>3, <1>5 DEF OthersLike

\* The screen goes, or turns to another profile.
LEMMA FlagsSound ==
    ASSUME NEW ds \in {R!Unmounted, R!Moved(rCalls)}, GoodRecordCalls(rCalls)
    PROVE  /\ GoodRecordCalls(ds) /\ AllLike(rCalls, ds)
           /\ \A x \in R!Slots : rCalls[x] # None => ds[x].old = rCalls[x].old
<1>1. ASSUME NEW x \in R!Slots
      PROVE  /\ GoodSlot(ds[x]) /\ Like(rCalls[x], ds[x])
             /\ rCalls[x] # None => ds[x].old = rCalls[x].old
  <2>1. GoodSlot(rCalls[x])
    BY DEF GoodRecordCalls
  <2>2. CASE rCalls[x] = None
    <3>1. ds[x] = None
      BY <2>2 DEF R!Unmounted, R!Moved
    <3> QED BY <2>2, <3>1 DEF GoodSlot, Like
  <2>3. CASE rCalls[x] # None
    <3>1. \/ ds[x] = [rCalls[x] EXCEPT !.here = FALSE]
          \/ ds[x] = [rCalls[x] EXCEPT !.moved = TRUE]
          \/ ds[x] = rCalls[x]
      BY <2>3 DEF R!Unmounted, R!Moved
    <3>2. CASE ds[x] = rCalls[x]
      BY <2>1, <3>2 DEF Like
    <3>3. CASE ds[x] # rCalls[x]
      BY <2>1, <2>3, <3>1, <3>3, ScreenFlagSet
    <3> QED BY <3>2, <3>3
  <2> QED BY <2>2, <2>3
<1>2. ds \in [R!Slots -> R!Call \union {None}]
  <2>1. \A x \in R!Slots : ds[x] \in R!Call \union {None}
    BY <1>1 DEF GoodSlot
  <2>2. ds = [x \in R!Slots |-> ds[x]]
    BY DEF R!Unmounted, R!Moved
  <2> QED BY <2>1, <2>2
<1> QED BY <1>1, <1>2 DEF GoodRecordCalls, AllLike

\* A call that takes a step, and what it got, stays a call.
LEMMA CallSteps ==
  ASSUME NEW c \in R!Call, NEW at \in {"asked", "read", "cascade", "pruning", "written", "listing"},
         NEW fp \in R!Maybe(R!ProfilesFile)
  PROVE  /\ \A fr \in R!Maybe(R!ReposFile), fa \in R!Maybe(Profiles) :
              [c EXCEPT !.at = at, !.p = fp, !.r = fr, !.active = fa] \in R!Call
         /\ \A i \in R!Maybe(Profiles \union Repos) :
              [c EXCEPT !.at = at, !.id = i, !.p = fp] \in R!Call
<1>1. ASSUME NEW fr \in R!Maybe(R!ReposFile), NEW fa \in R!Maybe(Profiles)
      PROVE  [c EXCEPT !.at = at, !.p = fp, !.r = fr, !.active = fa] \in R!Call
  BY DEF R!Call
<1>2. ASSUME NEW i \in R!Maybe(Profiles \union Repos)
      PROVE  [c EXCEPT !.at = at, !.id = i, !.p = fp] \in R!Call
  BY DEF R!Call
<1> QED BY <1>1, <1>2

-----------------------------------------------------------------------------
(* Records: the steps of a call up to its answer.                          *)

LEMMA ReadIs ==
    ASSUME GoodRecordCalls(rCalls), file \in FileState, NEW q \in R!Slots, R!Read(q)
    PROVE  \E d : /\ Goes(q, d, "asked", "read") /\ Kept(rCalls[q], d)
                  /\ d.p \in {None, file.p} /\ d.r \in {None, file.r}
                  /\ d.active \in {None, file.active}
                  /\ d.op \in OnP => d.p = file.p
                  /\ d.op \in OnR => d.r = file.r
                  /\ d.op = "loadProfiles" => d.active = file.active
                  /\ d.op \in R!OnProfiles /\ d.id # None => file.p[d.id] # None
                  /\ d.op \in {"updateRepo", "removeRepo"} => file.r[d.id] # None
                  /\ d.op # "setActive"
<1>1. PICK c : c = rCalls[q] /\ c # None
  BY DEF R!Read, R!At
<1>2. c \in R!Call /\ Shaped(c)
  BY <1>1 DEF GoodRecordCalls, GoodSlot
<1>3. /\ c.at = "asked"
      /\ c.op \in R!OnProfiles /\ c.id # None => file.p[c.id] # None
      /\ c.op \in {"updateRepo", "removeRepo"} => file.r[c.id] # None
      /\ c.op \in OnP \union OnR
  BY <1>1 DEF R!Read, R!At, R!Exists, OnP, OnR, R!OnProfiles, R!OnRepos, R!Creates
<1>4. PICK d : d = [c EXCEPT !.at = "read",
                   !.p = IF "profiles" \in R!Touches(c.op) THEN file.p ELSE None,
                   !.r = IF c.op \in R!OnRepos \union {"loadRepos"} THEN file.r ELSE None,
                   !.active = IF c.op = "loadProfiles" THEN file.active ELSE None]
  OBVIOUS
<1>5. rCalls' = [rCalls EXCEPT ![q] = d]
  BY <1>1, <1>4 DEF R!Read, R!Step
<1>6. d \in R!Call
  <2>1. PICK fp \in R!Maybe(R!ProfilesFile) :
           fp = IF "profiles" \in R!Touches(c.op) THEN file.p ELSE None
    BY DEF FileState, R!Maybe
  <2>2. PICK fr \in R!Maybe(R!ReposFile) :
           fr = IF c.op \in R!OnRepos \union {"loadRepos"} THEN file.r ELSE None
    BY DEF FileState, R!Maybe
  <2>3. PICK fa \in R!Maybe(Profiles) :
           fa = IF c.op = "loadProfiles" THEN file.active ELSE None
    BY DEF FileState, R!Maybe
  <2>4. d = [c EXCEPT !.at = "read", !.p = fp, !.r = fr, !.active = fa]
    BY <1>4, <2>1, <2>2, <2>3
  <2>5. [c EXCEPT !.at = "read", !.p = fp, !.r = fr, !.active = fa] \in R!Call
    BY <1>2, CallSteps
  <2> QED BY <2>4, <2>5
<1>7. /\ d.at = "read" /\ Kept(c, d)
      /\ d.p = IF "profiles" \in R!Touches(c.op) THEN file.p ELSE None
      /\ d.r = IF c.op \in R!OnRepos \union {"loadRepos"} THEN file.r ELSE None
      /\ d.active = IF c.op = "loadProfiles" THEN file.active ELSE None
  BY <1>2, <1>4 DEF R!Call, Kept
<1>8. d.op \in OnP <=> "profiles" \in R!Touches(d.op)
  BY DEF R!Touches, OnP
<1>9. /\ d.op \in OnP => d.p = file.p
      /\ d.op \in OnR => d.r = file.r
      /\ d.op = "loadProfiles" => d.active = file.active
      /\ d.p \in {None, file.p} /\ d.r \in {None, file.r} /\ d.active \in {None, file.active}
  BY <1>7, <1>8 DEF Kept, OnR
<1>10. Shaped(d)
  <2>1. d.op = c.op /\ d.id = c.id /\ d.data = c.data /\ d.to = c.to /\ d.op \in OnP \union OnR
    BY <1>3, <1>7 DEF Kept
  <2>2. d.at \in Stages(d.op)
    BY <1>2, <1>3, <1>7, <2>1 DEF Shaped, Stages, OnP, OnR, R!OnProfiles, R!OnRepos, R!Creates, Listings
  <2>3. /\ d.op \in OnP => d.p \in R!ProfilesFile
        /\ d.op \in OnR => d.r \in R!ReposFile
    BY <1>9 DEF FileState
  <2>4. d.op \in R!Creates => d.id = None
    BY <1>2, <1>3, <2>1 DEF Shaped
  <2>5. d.op \in R!OnProfiles \ R!Creates => d.id \in Profiles
    BY <1>2, <2>1 DEF Shaped
  <2>6. d.op \in R!OnProfiles \ R!Creates => d.p[d.id] # None
    BY <1>3, <1>9, <2>1, <2>5, NoneIsNoRecord DEF OnP
  <2> QED BY <1>2, <1>7, <2>1, <2>2, <2>3, <2>4, <2>5, <2>6 DEF Shaped
<1>11. GoodSlot(d) /\ d # None
  BY <1>6, <1>10, NoneIsNoRecord DEF GoodSlot
<1>12. Goes(q, d, "asked", "read")
  BY <1>1, <1>3, <1>5, <1>7, <1>11 DEF Goes
<1>13. d.op = c.op /\ d.id = c.id
  BY <1>7 DEF Kept
<1>14. d.op # "setActive"
  BY <1>3, <1>13 DEF OnP, OnR, R!OnProfiles, R!OnRepos, R!Creates
<1>15. Kept(rCalls[q], d)
  BY <1>1, <1>7
<1> QED BY <1>3, <1>9, <1>12, <1>13, <1>14, <1>15

LEMMA WriteProfileIs ==
    ASSUME GoodRecordCalls(rCalls), file \in FileState, fresh \subseteq Profiles,
           NEW q \in R!Slots, R!WriteProfile(q)
    PROVE  \E d : LET c == rCalls[q] IN
              /\ c.op \in R!OnProfiles
              /\ Goes(q, d, "read", IF c.op = "deleteProfile" THEN "cascade" ELSE "written")
              /\ d.op = c.op /\ d.data = c.data /\ d.to = c.to /\ d.old = c.old
              /\ d.r = c.r /\ d.active = c.active
              /\ d.id \in Profiles /\ fresh' = fresh \ {d.id}
              /\ IF c.op \in R!Creates THEN d.id \in fresh ELSE d.id = c.id
              /\ d.p \in R!ProfilesFile /\ c.p \in R!ProfilesFile
              /\ \A x \in Profiles \ {d.id} : d.p[x] = c.p[x]
              /\ Written(c, d.id, d.p[d.id])
              /\ file' \in FileState
              /\ file'.p = d.p /\ file'.r = file.r /\ file'.active = file.active
<1>1. PICK c : c = rCalls[q] /\ c # None
  BY DEF R!WriteProfile, R!At
<1>2. c \in R!Call /\ Shaped(c)
  BY <1>1 DEF GoodRecordCalls, GoodSlot
<1>3. c.at = "read" /\ c.op \in R!OnProfiles
  BY <1>1 DEF R!WriteProfile, R!At
<1>4. PICK i \in IF c.op \in R!Creates THEN fresh ELSE {c.id} :
          /\ file' = [file EXCEPT !.p = R!ProfileWritten(c, i)]
          /\ fresh' = fresh \ {i}
          /\ rCalls' = [rCalls EXCEPT ![q] =
                [c EXCEPT !.at = IF c.op = "deleteProfile" THEN "cascade" ELSE "written",
                          !.id = i, !.p = file'.p]]
  BY <1>1 DEF R!WriteProfile, R!Step
<1>5. /\ i \in Profiles
      /\ IF c.op \in R!Creates THEN i \in fresh ELSE i = c.id
      /\ c.p \in R!ProfilesFile
      /\ c.op \notin R!Creates \union {"deleteProfile"} => c.p[c.id] # None
      /\ c.op = "updateProfile" => c.data \in R!Data
  BY <1>2, <1>3, <1>4 DEF Shaped, OnP
<1>6. PICK f : f = R!ProfileWritten(c, i)
  OBVIOUS
<1>7. PICK v : /\ v \in R!Maybe(R!Data) /\ f = [c.p EXCEPT ![i] = v] /\ Written(c, i, v)
  <2>1. CASE c.op \in R!Creates
    <3>1. f = [c.p EXCEPT ![i] = [of |-> i, linked |-> FALSE]]
      BY <1>6, <2>1 DEF R!ProfileWritten
    <3>2. [of |-> i, linked |-> FALSE] \in R!Maybe(R!Data)
      BY <1>5 DEF R!Data, R!Maybe
    <3>3. Written(c, i, [of |-> i, linked |-> FALSE])
      BY <2>1 DEF Written, R!Creates
    <3> QED BY <3>1, <3>2, <3>3
  <2>2. CASE c.op = "deleteProfile"
    <3>1. f = [c.p EXCEPT ![i] = None]
      BY <1>6, <2>2 DEF R!ProfileWritten, R!Creates
    <3> QED BY <2>2, <3>1 DEF Written, R!Maybe, R!Creates
  <2>3. CASE c.op = "authorized"
    <3>1. f = [c.p EXCEPT ![i] = c.p[i]]
      BY <1>5, <1>6, <2>3 DEF R!ProfileWritten, R!Creates, R!ProfilesFile
    <3>2. c.p[i] \in R!Maybe(R!Data) /\ c.p[i] # None
      BY <1>5, <2>3 DEF R!ProfilesFile, R!Creates
    <3> QED BY <2>3, <3>1, <3>2 DEF Written, R!Creates
  <2>4. CASE c.op \in {"disconnect", "updateProfile"}
    <3>1. c.p[i] \in R!Data
      BY <1>5, <2>4 DEF R!ProfilesFile, R!Creates, R!Maybe
    <3>2. CASE c.op = "disconnect"
      <4>1. PICK w : w = [c.p[i] EXCEPT !.linked = FALSE]
        OBVIOUS
      <4>2. w \in R!Data /\ w.of = c.p[i].of
        BY <3>1, <4>1 DEF R!Data
      <4>3. f = [c.p EXCEPT ![i] = w]
        BY <1>5, <1>6, <3>2, <4>1 DEF R!ProfileWritten, R!Creates, R!ProfilesFile
      <4>4. Written(c, i, w)
        BY <3>2, <4>2, NoneIsNoRecord DEF Written, R!Creates
      <4> QED BY <4>2, <4>3, <4>4 DEF R!Maybe
    <3>3. CASE c.op = "updateProfile"
      <4>1. PICK w : w = [c.p[i] EXCEPT !.of = c.data.of]
        OBVIOUS
      <4>2. w \in R!Data /\ w.of = c.data.of
        BY <1>5, <3>1, <3>3, <4>1 DEF R!Data
      <4>3. f = [c.p EXCEPT ![i] = w]
        BY <1>5, <1>6, <3>3, <4>1 DEF R!ProfileWritten, R!Creates, R!ProfilesFile
      <4>4. Written(c, i, w)
        BY <3>3, <4>2, NoneIsNoRecord DEF Written, R!Creates
      <4> QED BY <4>2, <4>3, <4>4 DEF R!Maybe
    <3> QED BY <2>4, <3>2, <3>3
  <2> QED BY <1>3, <2>1, <2>2, <2>3, <2>4 DEF R!OnProfiles
<1>8. /\ f \in R!ProfilesFile /\ f[i] = v
      /\ \A x \in Profiles \ {i} : f[x] = c.p[x]
  BY <1>5, <1>7 DEF R!ProfilesFile
<1>9. /\ file' \in FileState
      /\ file'.p = f /\ file'.r = file.r /\ file'.active = file.active
  BY <1>4, <1>6, <1>8 DEF FileState
<1>10. PICK d : d = [c EXCEPT !.at = IF c.op = "deleteProfile" THEN "cascade" ELSE "written",
                          !.id = i, !.p = f]
  OBVIOUS
<1>11. d \in R!Call
  <2>1. PICK at \in {"cascade", "written"} :
           at = IF c.op = "deleteProfile" THEN "cascade" ELSE "written"
    OBVIOUS
  <2>2. i \in R!Maybe(Profiles \union Repos) /\ f \in R!Maybe(R!ProfilesFile)
    BY <1>5, <1>8 DEF R!Maybe
  <2>3. d = [c EXCEPT !.at = at, !.id = i, !.p = f]
    BY <1>10, <2>1
  <2>4. [c EXCEPT !.at = at, !.id = i, !.p = f] \in R!Call
    BY <1>2, <2>2, CallSteps
  <2> QED BY <2>3, <2>4
<1>12. /\ d.at = (IF c.op = "deleteProfile" THEN "cascade" ELSE "written")
       /\ d.id = i /\ d.p = f
       /\ d.op = c.op /\ d.data = c.data /\ d.to = c.to /\ d.old = c.old
       /\ d.r = c.r /\ d.active = c.active
  BY <1>2, <1>10 DEF R!Call
<1>13. Shaped(d)
  <2>1. d.at \in Stages(d.op)
    BY <1>3, <1>12 DEF Stages, R!OnProfiles, R!Creates, Listings
  <2>2. d.op \in R!OnProfiles /\ d.op \notin OnR /\ d.op \notin R!OnRepos /\ d.op # "setActive"
    BY <1>3, <1>12 DEF R!OnProfiles, R!Creates, OnR, R!OnRepos
  <2>3. d.at \notin {"read", "pruning", "listing"} /\ d.at # "asked"
    BY <1>12
  <2>4. d.op = "deleteProfile" => d.at = "cascade"
    BY <1>12
  <2> QED BY <1>5, <1>8, <1>12, <2>1, <2>2, <2>3, <2>4 DEF Shaped, R!Creates
<1>14. GoodSlot(d) /\ d # None
  BY <1>11, <1>13, NoneIsNoRecord DEF GoodSlot
<1>15. rCalls' = [rCalls EXCEPT ![q] = d]
  BY <1>4, <1>9, <1>10
<1>16. Goes(q, d, "read", IF c.op = "deleteProfile" THEN "cascade" ELSE "written")
  BY <1>1, <1>3, <1>12, <1>14, <1>15 DEF Goes
<1>17. Written(c, d.id, d.p[d.id]) /\ \A x \in Profiles \ {d.id} : d.p[x] = c.p[x]
  BY <1>7, <1>8, <1>12
<1>18. fresh' = fresh \ {d.id}
  BY <1>4, <1>12
<1> QED BY <1>1, <1>3, <1>5, <1>8, <1>9, <1>12, <1>16, <1>17, <1>18

LEMMA CascadeIs ==
    ASSUME GoodRecordCalls(rCalls), file \in FileState, NEW q \in R!Slots, R!Cascade(q)
    PROVE  \E d : /\ Goes(q, d, "cascade", "pruning") /\ Kept(rCalls[q], d)
                  /\ d.op = "deleteProfile" /\ d.p = file.p /\ d.r = file.r
                  /\ d.active = rCalls[q].active
<1>1. PICK c : c = rCalls[q] /\ c # None
  BY DEF R!Cascade, R!At
<1>2. c \in R!Call /\ Shaped(c)
  BY <1>1 DEF GoodRecordCalls, GoodSlot
<1>3. c.at = "cascade" /\ c.op = "deleteProfile"
  BY <1>1 DEF R!Cascade, R!At
<1>4. PICK d : d = [c EXCEPT !.at = "pruning", !.p = file.p, !.r = file.r]
  OBVIOUS
<1>5. d \in R!Call
  BY <1>2, <1>4 DEF R!Call, R!Maybe, FileState
<1>6. /\ d.at = "pruning" /\ d.p = file.p /\ d.r = file.r /\ d.active = c.active
      /\ Kept(c, d)
  BY <1>2, <1>4 DEF R!Call, Kept
<1>7. d.op = c.op /\ d.id = c.id
  BY <1>6 DEF Kept
<1>8. Shaped(d)
  BY <1>2, <1>3, <1>6, <1>7
     DEF Shaped, Stages, FileState, Listings, R!Creates, OnR, R!OnRepos, R!OnProfiles
<1>9. GoodSlot(d) /\ d # None
  BY <1>5, <1>8, NoneIsNoRecord DEF GoodSlot
<1>10. rCalls' = [rCalls EXCEPT ![q] = d]
  BY <1>1, <1>4 DEF R!Cascade, R!Step
<1>11. Goes(q, d, "cascade", "pruning")
  BY <1>1, <1>3, <1>6, <1>9, <1>10 DEF Goes
<1> QED BY <1>1, <1>3, <1>6, <1>7, <1>11

LEMMA PrunedTyped ==
    ASSUME NEW r \in R!ReposFile, NEW p
    PROVE  /\ R!Pruned(r, p) \in R!ReposFile
           /\ \A x \in Repos : /\ R!Pruned(r, p)[x] = None <=> r[x] = None
                               /\ r[x] # None => R!Pruned(r, p)[x].to \in {None, r[x].to}
                               /\ r[x] # None /\ R!Pruned(r, p)[x].to # None =>
                                     p[R!Pruned(r, p)[x].to] # None
<1>1. PICK s : s = R!Pruned(r, p)
  OBVIOUS
<1>2. ASSUME NEW x \in Repos
      PROVE  /\ s[x] \in R!Maybe(R!Record)
             /\ s[x] = None <=> r[x] = None
             /\ s[x] # None => s[x].id = x
             /\ r[x] # None => s[x].to \in {None, r[x].to}
             /\ r[x] # None /\ s[x].to # None => p[s[x].to] # None
  <2>1. CASE r[x] = None \/ r[x].to = None \/ p[r[x].to] # None
    <3>1. s[x] = r[x]
      BY <1>1, <2>1 DEF R!Pruned
    <3> QED BY <2>1, <3>1 DEF R!ReposFile
  <2>2. CASE ~(r[x] = None \/ r[x].to = None \/ p[r[x].to] # None)
    <3>1. r[x] \in R!Record
      BY <2>2 DEF R!ReposFile, R!Maybe
    <3>2. s[x] = [r[x] EXCEPT !.to = None]
      BY <1>1, <2>2 DEF R!Pruned
    <3>3. s[x] \in R!Record /\ s[x].to = None /\ s[x].id = r[x].id
      BY <3>1, <3>2 DEF R!Record, R!Maybe
    <3>4. r[x].id = x
      BY <2>2 DEF R!ReposFile
    <3> QED BY <2>2, <3>3, <3>4, NoneIsNoRecord DEF R!Maybe
  <2> QED BY <2>1, <2>2
<1>3. s \in R!ReposFile
  <2>1. s = [x \in Repos |-> s[x]]
    BY <1>1 DEF R!Pruned
  <2> QED BY <1>2, <2>1 DEF R!ReposFile
<1> QED BY <1>1, <1>2, <1>3

LEMMA PruneIs ==
    ASSUME GoodRecordCalls(rCalls), file \in FileState, NEW q \in R!Slots, R!Prune(q)
    PROVE  \E d : /\ Goes(q, d, "pruning", "written") /\ Kept(rCalls[q], d)
                  /\ d.op = "deleteProfile" /\ d.p = rCalls[q].p /\ d.r = rCalls[q].r
                  /\ d.active = rCalls[q].active /\ rCalls[q].r \in R!ReposFile
                  /\ file' \in FileState /\ file'.p = file.p /\ file'.active = file.active
                  /\ \/ file' = file /\ R!Pruned(d.r, d.p) = d.r
                     \/ file'.r = R!Pruned(d.r, d.p)
<1>1. PICK c : c = rCalls[q] /\ c # None
  BY DEF R!Prune, R!At
<1>2. c \in R!Call /\ Shaped(c)
  BY <1>1 DEF GoodRecordCalls, GoodSlot
<1>3. c.at = "pruning" /\ c.op = "deleteProfile" /\ c.r \in R!ReposFile
  BY <1>1, <1>2 DEF R!Prune, R!At, Shaped
<1>4. PICK d : d = [c EXCEPT !.at = "written"]
  OBVIOUS
<1>5. d \in R!Call
  BY <1>2, <1>4 DEF R!Call
<1>6. d.at = "written" /\ d.p = c.p /\ d.r = c.r /\ d.active = c.active /\ Kept(c, d)
  BY <1>2, <1>4 DEF R!Call, Kept
<1>7. d.op = c.op /\ d.id = c.id
  BY <1>6 DEF Kept
<1>8. Shaped(d)
  BY <1>2, <1>3, <1>6, <1>7
     DEF Shaped, Stages, Listings, R!Creates, OnR, R!OnRepos, R!OnProfiles, OnP
<1>9. GoodSlot(d) /\ d # None
  BY <1>5, <1>8, NoneIsNoRecord DEF GoodSlot
<1>10. rCalls' = [rCalls EXCEPT ![q] = d]
  BY <1>1, <1>4 DEF R!Prune, R!Step
<1>11. Goes(q, d, "pruning", "written")
  BY <1>1, <1>3, <1>6, <1>9, <1>10 DEF Goes
<1>12. /\ file' \in FileState /\ file'.p = file.p /\ file'.active = file.active
       /\ \/ file' = file /\ R!Pruned(c.r, c.p) = c.r
          \/ file'.r = R!Pruned(c.r, c.p)
  <2>1. file' = IF R!Pruned(c.r, c.p) = c.r THEN file ELSE [file EXCEPT !.r = R!Pruned(c.r, c.p)]
    BY <1>1 DEF R!Prune
  <2>2. R!Pruned(c.r, c.p) \in R!ReposFile
    BY <1>3, PrunedTyped
  <2> QED BY <2>1, <2>2 DEF FileState
<1> QED BY <1>1, <1>3, <1>6, <1>7, <1>11, <1>12

LEMMA WriteRepoIs ==
    ASSUME GoodRecordCalls(rCalls), file \in FileState, NEW q \in R!Slots, R!WriteRepo(q)
    PROVE  \E d : /\ Goes(q, d, "read", "written") /\ Kept(rCalls[q], d)
                  /\ d.op \in R!OnRepos /\ d.id \in Repos
                  /\ d.p = rCalls[q].p /\ d.r = rCalls[q].r /\ d.active = rCalls[q].active
                  /\ file' \in FileState /\ file'.p = file.p /\ file'.active = file.active
                  /\ \A x \in Repos \ {d.id} : file'.r[x] = d.r[x]
                  /\ file'.r[d.id] = IF d.op = "removeRepo" THEN None ELSE [id |-> d.id, to |-> d.to]
<1>1. PICK c : c = rCalls[q] /\ c # None
  BY DEF R!WriteRepo, R!At
<1>2. c \in R!Call /\ Shaped(c)
  BY <1>1 DEF GoodRecordCalls, GoodSlot
<1>3. c.at = "read" /\ c.op \in R!OnRepos /\ c.r \in R!ReposFile /\ c.id \in Repos
  BY <1>1, <1>2 DEF R!WriteRepo, R!At, Shaped, OnR
<1>4. PICK d : d = [c EXCEPT !.at = "written"]
  OBVIOUS
<1>5. d \in R!Call
  BY <1>2, <1>4 DEF R!Call
<1>6. d.at = "written" /\ d.p = c.p /\ d.r = c.r /\ d.active = c.active /\ Kept(c, d)
  BY <1>2, <1>4 DEF R!Call, Kept
<1>7. d.op = c.op /\ d.id = c.id /\ d.to = c.to
  BY <1>6 DEF Kept
<1>8. Shaped(d)
  BY <1>2, <1>3, <1>6, <1>7
     DEF Shaped, Stages, Listings, R!Creates, OnR, R!OnRepos, R!OnProfiles, OnP
<1>9. GoodSlot(d) /\ d # None
  BY <1>5, <1>8, NoneIsNoRecord DEF GoodSlot
<1>10. rCalls' = [rCalls EXCEPT ![q] = d]
  BY <1>1, <1>4 DEF R!WriteRepo, R!Step
<1>11. Goes(q, d, "read", "written")
  BY <1>1, <1>3, <1>6, <1>9, <1>10 DEF Goes
<1>12. PICK v \in R!Maybe(R!Record) :
           v = IF c.op = "removeRepo" THEN None ELSE [id |-> c.id, to |-> c.to]
  <2>1. [id |-> c.id, to |-> c.to] \in R!Record
    BY <1>2, <1>3 DEF R!Call, R!Record
  <2> QED BY <2>1 DEF R!Maybe
<1>13. file' = [file EXCEPT !.r = [c.r EXCEPT ![c.id] = v]]
  BY <1>1, <1>12 DEF R!WriteRepo
<1>14. PICK s : s = [c.r EXCEPT ![c.id] = v]
  OBVIOUS
<1>15. s \in R!ReposFile /\ s[c.id] = v /\ \A x \in Repos \ {c.id} : s[x] = c.r[x]
  BY <1>3, <1>12, <1>14 DEF R!ReposFile
<1>16. file' \in FileState /\ file'.p = file.p /\ file'.active = file.active /\ file'.r = s
  BY <1>13, <1>14, <1>15 DEF FileState
<1> QED BY <1>1, <1>3, <1>6, <1>7, <1>11, <1>12, <1>15, <1>16

LEMMA DisconnectedIs ==
    ASSUME GoodRecordCalls(rCalls), file \in FileState, NEW q \in R!Slots, R!Disconnected(q)
    PROVE  \E d : /\ Goes(q, d, "written", "listing") /\ Kept(rCalls[q], d)
                  /\ d.op = "disconnect" /\ d.p = file.p /\ d.r = rCalls[q].r
                  /\ d.active = file.active
<1>1. PICK c : c = rCalls[q] /\ c # None
  BY DEF R!Disconnected, R!At
<1>2. c \in R!Call /\ Shaped(c)
  BY <1>1 DEF GoodRecordCalls, GoodSlot
<1>3. c.at = "written" /\ c.op = "disconnect"
  BY <1>1 DEF R!Disconnected, R!At
<1>4. PICK d : d = [c EXCEPT !.at = "listing", !.p = file.p, !.active = file.active]
  BY <1>1
<1>5. d \in R!Call
  BY <1>2, <1>4 DEF R!Call, R!Maybe, FileState
<1>6. /\ d.at = "listing" /\ d.p = file.p /\ d.r = c.r /\ d.active = file.active
      /\ Kept(c, d)
  BY <1>2, <1>4 DEF R!Call, Kept
<1>7. d.op = c.op /\ d.id = c.id
  BY <1>6 DEF Kept
<1>8. Shaped(d)
  BY <1>2, <1>3, <1>6, <1>7
     DEF Shaped, Stages, FileState, Listings, R!Creates, OnR, R!OnRepos, R!OnProfiles
<1>9. GoodSlot(d) /\ d # None
  BY <1>5, <1>8, NoneIsNoRecord DEF GoodSlot
<1>10. rCalls' = [rCalls EXCEPT ![q] = d]
  BY <1>1, <1>4 DEF R!Disconnected, R!Step
<1>11. Goes(q, d, "written", "listing")
  BY <1>1, <1>3, <1>6, <1>9, <1>10 DEF Goes
<1> QED BY <1>1, <1>3, <1>6, <1>7, <1>11

LEMMA DeletedIs ==
    ASSUME GoodRecordCalls(rCalls), file \in FileState, NEW q \in R!Slots, R!Deleted(q)
    PROVE  \E d : /\ Goes(q, d, "written", "listing") /\ Kept(rCalls[q], d)
                  /\ d.op = "deleteProfile" /\ d.id \in Profiles
                  /\ d.p = rCalls[q].p /\ d.r = file.r
                  /\ d.active = rCalls[q].active
<1>1. PICK c : c = rCalls[q] /\ c # None
  BY DEF R!Deleted, R!At
<1>2. c \in R!Call /\ Shaped(c)
  BY <1>1 DEF GoodRecordCalls, GoodSlot
<1>3. c.at = "written" /\ c.op = "deleteProfile" /\ c.id \in Profiles
  BY <1>1, <1>2 DEF R!Deleted, R!At, Shaped, R!OnProfiles, R!Creates
<1>4. PICK d : d = [c EXCEPT !.at = "listing", !.r = file.r]
  BY <1>1
<1>5. d \in R!Call
  BY <1>2, <1>4 DEF R!Call, R!Maybe, FileState
<1>6. /\ d.at = "listing" /\ d.p = c.p /\ d.r = file.r /\ d.active = c.active
      /\ Kept(c, d)
  BY <1>2, <1>4 DEF R!Call, Kept
<1>7. d.op = c.op /\ d.id = c.id
  BY <1>6 DEF Kept
<1>8. Shaped(d)
  BY <1>2, <1>3, <1>6, <1>7
     DEF Shaped, Stages, FileState, Listings, R!Creates, OnR, OnP, R!OnRepos, R!OnProfiles
<1>9. GoodSlot(d) /\ d # None
  BY <1>5, <1>8, NoneIsNoRecord DEF GoodSlot
<1>10. rCalls' = [rCalls EXCEPT ![q] = d]
  BY <1>1, <1>4 DEF R!Deleted, R!Step
<1>11. Goes(q, d, "written", "listing")
  BY <1>1, <1>3, <1>6, <1>9, <1>10 DEF Goes
<1> QED BY <1>1, <1>3, <1>6, <1>7, <1>11

-----------------------------------------------------------------------------
(* Records: new calls, and the active repository.                          *)

LEMMA CallForIs ==
    ASSUME NEW op \in R!Ops, NEW id \in R!Maybe(Profiles \union Repos),
           NEW data \in R!Maybe(R!Data), NEW to \in R!Maybe(Profiles)
    PROVE  CallFor(op, id, data, to) \in R!Call
BY DEF CallFor, R!Call, R!Maybe

LEMMA AskedIsGood ==
    ASSUME NEW c \in R!Call, Asked(c),
           c.op \in R!Creates => c.id = None,
           c.op \in R!OnProfiles \ R!Creates => c.id \in Profiles,
           c.op = "updateProfile" => c.data \in R!Data,
           c.op \in R!OnRepos => c.id \in Repos,
           c.op = "setActive" => c.to \in Profiles /\ c.id = None
    PROVE  GoodSlot(c) /\ c # None
<1>1. c.at \in Stages(c.op)
  BY DEF Stages, Asked
<1> QED BY <1>1, NoneIsNoRecord DEF Shaped, GoodSlot, Asked

LEMMA SetActiveCallIs ==
    ASSUME NEW p \in Profiles, NEW c, c = R!SetActiveCall(p)
    PROVE  GoodSlot(c) /\ c # None /\ Asked(c) /\ c.op = "setActive" /\ c.id = None /\ c.to = p
<1>1. c = CallFor("setActive", None, None, p)
  BY DEF R!SetActiveCall, R!NewCall, CallFor
<1>2. c.op = "setActive" /\ c.id = None /\ c.to = p /\ Asked(c)
  BY <1>1 DEF CallFor, Asked
<1>3. "setActive" \in R!Ops /\ "setActive" \notin R!OnProfiles /\ "setActive" \notin R!OnRepos
      /\ "setActive" \notin R!Creates
  BY DEF R!Ops, R!OnProfiles, R!OnRepos, R!Creates
<1>4. /\ None \in R!Maybe(Profiles \union Repos) /\ None \in R!Maybe(R!Data)
      /\ p \in R!Maybe(Profiles)
  BY DEF R!Maybe
<1>5. c \in R!Call
  BY <1>1, <1>3, <1>4, CallForIs
<1> QED BY <1>2, <1>3, <1>5, AskedIsGood

LEMMA AskIs ==
    ASSUME NEW call, R!Ask(call)
    PROVE  \E q \in R!Slots : /\ rCalls[q] = None /\ rCalls' = Made(rCalls, q, call)
                              /\ overlap' = (overlap \/ MeetsOther(rCalls, q, call.op))
<1>1. R!Free # {} /\ R!Make(rCalls, R!FirstFree, call)
  BY DEF R!Ask
<1>2. PICK q \in R!Slots : q = R!FirstFree /\ rCalls[q] = None
  BY <1>1, FirstFreeIsFree
<1> QED BY <1>1, <1>2, MakeIs

LEMMA AskSound ==
    ASSUME GoodRecordCalls(rCalls), NEW call, GoodSlot(call), R!Ask(call)
    PROVE  GoodRecordCalls(rCalls') /\ \E q \in R!Slots : AsksFor(q, call)
<1>1. PICK q \in R!Slots : /\ rCalls[q] = None /\ rCalls' = Made(rCalls, q, call)
                           /\ overlap' = (overlap \/ MeetsOther(rCalls, q, call.op))
  BY AskIs
<1>2. /\ GoodRecordCalls(rCalls') /\ rCalls'[q] = call
      /\ OthersLike(rCalls, rCalls', q)
      /\ \A x \in R!Slots \ {q} : rCalls[x] # None =>
            rCalls'[x].old = (rCalls[x].old \/ (rCalls[x].op = "setActive" /\ call.op = "setActive"))
  BY <1>1, MadeSound
<1> QED BY <1>1, <1>2 DEF AsksFor

LEMMA SetActiveRepoIs ==
    ASSUME RecordsTyped, NEW rec \in R!Maybe(R!Record), NEW in, NEW q \in R!Slots,
           R!SetActiveRepo(rec, in, q, known.p, known.active)
    PROVE  Activates(rec, in, q)
<1> DEFINE changed == rec # None /\ (repo = None \/ repo.id # rec.id \/ repo.to # rec.to)
           sync == changed /\ rec.to \notin {None, known.active} /\ known.p[rec.to] # None
           late == changed /\ rec.to = known.active /\ known.active # None
                   /\ \E x \in R!Pending(in) : in[x].op = "setActive" /\ in[x].to # known.active
<1>1. /\ repo' = rec /\ crossed' = (crossed \/ late)
      /\ follow' = IF changed THEN (IF rec.to # None /\ R!Exists(rec.to) THEN rec.to ELSE None)
                   ELSE follow
      /\ IF sync THEN R!Make(in, q, R!SetActiveCall(rec.to))
                 ELSE rCalls' = in /\ UNCHANGED overlap
  BY DEF R!SetActiveRepo
<1>2. rec # None => rec.to \in R!Maybe(Profiles)
  BY DEF R!Maybe, R!Record
<1>3. follow' \in R!Maybe(Profiles)
  BY <1>1, <1>2 DEF RecordsTyped, R!Maybe
<1>4. PICK l : l = late
  OBVIOUS
<1>5. l \in BOOLEAN
  BY <1>4
<1>6. crossed' \in BOOLEAN /\ (crossed => crossed')
  <2>1. crossed' = (crossed \/ l)
    BY <1>1, <1>4, Zenon
  <2> QED BY <1>5, <2>1, Zenon DEF RecordsTyped
<1>7. CASE sync
  <2>1. rec # None /\ rec.to \in Profiles /\ known.p[rec.to] # None
    BY <1>2, <1>7 DEF R!Maybe
  <2>2. R!Make(in, q, R!SetActiveCall(rec.to))
    BY <1>1, <1>7
  <2>3. PICK p \in Profiles : p = rec.to
    BY <2>1
  <2>4. R!SetActiveCall(p).op = "setActive"
    BY SetActiveCallIs
  <2>5. /\ rCalls' = Made(in, q, R!SetActiveCall(rec.to))
        /\ overlap' = (overlap \/ MeetsOther(in, q, "setActive"))
    BY <2>2, <2>3, <2>4, MakeIs
  <2> QED BY <1>1, <1>3, <1>6, <2>1, <2>5 DEF Activates
<1>8. CASE ~sync
  BY <1>1, <1>3, <1>6, <1>8 DEF Activates
<1> QED BY <1>7, <1>8

LEMMA MeetsOtherIsTruth == \A in, q, op : MeetsOther(in, q, op) \in BOOLEAN
BY DEF MeetsOther

LEMMA ActivatesTyped ==
    ASSUME RecordsTyped, NEW rec \in R!Maybe(R!Record), NEW in, GoodRecordCalls(in),
           NEW q \in R!Slots, Activates(rec, in, q)
    PROVE  /\ repo' \in R!Maybe(R!Record) /\ crossed' \in BOOLEAN /\ follow' \in R!Maybe(Profiles)
           /\ overlap' \in BOOLEAN /\ GoodRecordCalls(rCalls')
<1>1. CASE rCalls' = in /\ overlap' = overlap
  BY <1>1 DEF Activates, RecordsTyped
<1>2. CASE ~(rCalls' = in /\ overlap' = overlap)
  <2>1. /\ rec # None /\ rec.to \in Profiles
        /\ rCalls' = Made(in, q, R!SetActiveCall(rec.to))
        /\ overlap' = (overlap \/ MeetsOther(in, q, "setActive"))
    BY <1>2 DEF Activates
  <2>2. GoodSlot(R!SetActiveCall(rec.to))
    BY <2>1, SetActiveCallIs
  <2>3. GoodRecordCalls(rCalls')
    BY <2>1, <2>2, MadeSound
  <2>4. overlap' \in BOOLEAN
    BY <2>1, MeetsOtherIsTruth, Zenon DEF RecordsTyped
  <2> QED BY <2>3, <2>4 DEF Activates
<1> QED BY <1>1, <1>2

LEMMA DoneSlot ==
    ASSUME GoodRecordCalls(rCalls), NEW q \in R!Slots
    PROVE  /\ GoodRecordCalls(R!Done(q)) /\ R!Done(q)[q] = None
           /\ \A x \in R!Slots \ {q} : R!Done(q)[x] = rCalls[x]
           /\ OthersLike(rCalls, R!Done(q), q)
<1>1. GoodSlot(None)
  BY DEF GoodSlot
<1> QED BY <1>1, SlotSet DEF R!Done

-----------------------------------------------------------------------------
(* Records: every step keeps to the types.                                 *)

LEMMA ReadTyped ==
    ASSUME RecordsTyped, NEW q \in R!Slots, R!Read(q)  PROVE RecordsTyped'
<1>1. PICK d : Goes(q, d, "asked", "read")
  BY ReadIs DEF RecordsTyped
<1>2. GoodRecordCalls(rCalls')
  BY <1>1, SlotSet DEF Goes, RecordsTyped
<1> QED BY <1>2 DEF RecordsTyped, R!Read, R!OnlyCalls

LEMMA WriteProfileTyped ==
    ASSUME RecordsTyped, NEW q \in R!Slots, R!WriteProfile(q)  PROVE RecordsTyped'
<1>1. PICK d, b : Goes(q, d, "read", b) /\ file' \in FileState /\ fresh' = fresh \ {d.id}
  BY WriteProfileIs DEF RecordsTyped
<1>2. GoodRecordCalls(rCalls')
  BY <1>1, SlotSet DEF Goes, RecordsTyped
<1> QED BY <1>1, <1>2 DEF RecordsTyped, R!WriteProfile

LEMMA CascadeTyped ==
    ASSUME RecordsTyped, NEW q \in R!Slots, R!Cascade(q)  PROVE RecordsTyped'
<1>1. PICK d : Goes(q, d, "cascade", "pruning")
  BY CascadeIs DEF RecordsTyped
<1>2. GoodRecordCalls(rCalls')
  BY <1>1, SlotSet DEF Goes, RecordsTyped
<1> QED BY <1>2 DEF RecordsTyped, R!Cascade, R!OnlyCalls

LEMMA PruneTyped ==
    ASSUME RecordsTyped, NEW q \in R!Slots, R!Prune(q)  PROVE RecordsTyped'
<1>1. PICK d : Goes(q, d, "pruning", "written") /\ file' \in FileState
  BY PruneIs DEF RecordsTyped
<1>2. GoodRecordCalls(rCalls')
  BY <1>1, SlotSet DEF Goes, RecordsTyped
<1> QED BY <1>1, <1>2 DEF RecordsTyped, R!Prune, R!OnlyCalls

LEMMA WriteRepoTyped ==
    ASSUME RecordsTyped, NEW q \in R!Slots, R!WriteRepo(q)  PROVE RecordsTyped'
<1>1. PICK d : Goes(q, d, "read", "written") /\ file' \in FileState
  BY WriteRepoIs DEF RecordsTyped
<1>2. GoodRecordCalls(rCalls')
  BY <1>1, SlotSet DEF Goes, RecordsTyped
<1> QED BY <1>1, <1>2 DEF RecordsTyped, R!WriteRepo, R!OnlyCalls

\* What an answer does to the stores, with the pieces it comes with.
LEMMA KnownSet ==
    ASSUME known \in KnownState
    PROVE  /\ \A b \in BOOLEAN : [known EXCEPT !.loading = b] \in KnownState
           /\ \A b \in BOOLEAN : [known EXCEPT !.error = b] \in KnownState
           /\ \A x \in R!Maybe(Profiles) : [known EXCEPT !.active = x] \in KnownState
           /\ \A i \in Profiles, v \in R!Maybe(R!Data) : [known EXCEPT !.p[i] = v] \in KnownState
           /\ \A i \in Repos, v \in R!Maybe(R!Record) :
                 (v # None => v.id = i) => [known EXCEPT !.r[i] = v] \in KnownState
<1>1. /\ \A b \in BOOLEAN : [known EXCEPT !.loading = b] \in KnownState
      /\ \A b \in BOOLEAN : [known EXCEPT !.error = b] \in KnownState
      /\ \A x \in R!Maybe(Profiles) : [known EXCEPT !.active = x] \in KnownState
  BY DEF KnownState
<1>2. ASSUME NEW i \in Profiles, NEW v \in R!Maybe(R!Data)
      PROVE  [known EXCEPT !.p[i] = v] \in KnownState
  BY DEF KnownState, R!ProfilesFile
<1>3. ASSUME NEW i \in Repos, NEW v \in R!Maybe(R!Record), v # None => v.id = i
      PROVE  [known EXCEPT !.r[i] = v] \in KnownState
  <2>1. [known.r EXCEPT ![i] = v] \in R!ReposFile
    BY <1>3 DEF KnownState, R!ReposFile
  <2> QED BY <2>1 DEF KnownState
<1> QED BY <1>1, <1>2, <1>3

LEMMA FormSet ==
    ASSUME RecordsTyped, NEW c \in R!Call
    PROVE  /\ R!Saved(pForm, c) \in R!ProfileForm /\ R!Saved(rForm, c) \in R!RepoForm
           /\ R!NoForm \in R!ProfileForm /\ R!NoRepoForm \in R!RepoForm
           /\ R!Deselected \in R!RepoForm
           /\ \A rec \in R!Record : R!FormOf(rec) \in R!RepoForm
<1>1. R!Saved(pForm, c) \in R!ProfileForm
  BY DEF RecordsTyped, R!Saved, R!ProfileForm
<1>2. R!Saved(rForm, c) \in R!RepoForm
  BY DEF RecordsTyped, R!Saved, R!RepoForm
<1>3. R!NoForm \in R!ProfileForm /\ R!NoRepoForm \in R!RepoForm
  BY DEF R!NoForm, R!NoRepoForm, R!ProfileForm, R!RepoForm, R!Maybe
<1>4. R!Deselected \in R!RepoForm
  BY DEF RecordsTyped, R!Deselected, R!RepoForm, R!Maybe
<1>5. ASSUME NEW rec \in R!Record  PROVE R!FormOf(rec) \in R!RepoForm
  <2>1. rec.id \in R!Maybe(Repos) /\ rec.to \in R!Maybe(Profiles)
    BY DEF R!Record, R!Maybe
  <2> QED BY <2>1 DEF RecordsTyped, R!FormOf, R!RepoForm
<1> QED BY <1>1, <1>2, <1>3, <1>4, <1>5

LEMMA CreatedTyped ==
    ASSUME RecordsTyped, NEW q \in R!Slots, R!Created(q)  PROVE RecordsTyped'
<1>1. PICK c : c = rCalls[q] /\ c # None
  BY DEF R!Created, R!At
<1>2. c \in R!Call /\ Shaped(c) /\ c.op \in R!Creates /\ c.at = "written"
  BY <1>1 DEF RecordsTyped, GoodRecordCalls, GoodSlot, R!Created, R!At
<1>3. c.id \in Profiles /\ c.p \in R!ProfilesFile
  BY <1>2 DEF Shaped, OnP, R!OnProfiles
<1>4. known' \in KnownState
  <2>1. PICK v \in R!Maybe(R!Data) : v = c.p[c.id]
    BY <1>3 DEF R!ProfilesFile
  <2>2. known' = [known EXCEPT !.p[c.id] = v]
    BY <1>1, <2>1 DEF R!Created
  <2> QED BY <1>3, <2>2, KnownSet DEF RecordsTyped
<1>5. selected' \in R!Maybe(Profiles)
  BY <1>1, <1>3 DEF R!Created, R!Maybe
<1>6. pForm' \in R!ProfileForm
  <2>1. pForm.of \in R!Maybe(Profiles) /\ pForm.connecting \in BOOLEAN
    BY DEF RecordsTyped, R!ProfileForm
  <2>2. PICK b \in BOOLEAN : b = (c.op = "connectNew" \/ pForm.connecting)
    <3>1. (c.op = "connectNew" \/ pForm.connecting) \in BOOLEAN
      BY Zenon
    <3> QED BY <3>1
  <2>3. pForm' = IF ~c.here THEN pForm
                ELSE [mode |-> "edit", of |-> IF c.moved THEN pForm.of ELSE c.id,
                      saving |-> FALSE, connecting |-> b]
    BY <1>1, <2>2 DEF R!Created
  <2>4. PICK o \in R!Maybe(Profiles) : o = IF c.moved THEN pForm.of ELSE c.id
    BY <1>3, <2>1 DEF R!Maybe
  <2>5. pForm' = IF ~c.here THEN pForm
                 ELSE [mode |-> "edit", of |-> o, saving |-> FALSE, connecting |-> b]
    BY <2>3, <2>4
  <2>6. [mode |-> "edit", of |-> o, saving |-> FALSE, connecting |-> b] \in R!ProfileForm
    BY DEF R!ProfileForm
  <2> QED BY <2>5, <2>6 DEF RecordsTyped
<1>7. crossed' \in BOOLEAN
  <2>1. crossed' = (crossed \/ c.moved \/ ~c.here)
    BY <1>1 DEF R!Created
  <2> QED BY <2>1, Zenon
<1>8. GoodRecordCalls(rCalls')
  BY DoneSlot DEF R!Created, RecordsTyped
<1> QED BY <1>4, <1>5, <1>6, <1>7, <1>8 DEF R!Created, RecordsTyped

LEMMA UpdatedTyped ==
    ASSUME RecordsTyped, NEW q \in R!Slots, R!Updated(q)  PROVE RecordsTyped'
<1>1. PICK c : c = rCalls[q] /\ c # None
  BY DEF R!Updated, R!At
<1>2. c \in R!Call /\ Shaped(c) /\ c.op \in {"updateProfile", "authorized"} /\ c.at = "written"
  BY <1>1 DEF RecordsTyped, GoodRecordCalls, GoodSlot, R!Updated, R!At
<1>3. c.id \in Profiles /\ c.p \in R!ProfilesFile
  BY <1>2 DEF Shaped, OnP, R!OnProfiles, R!Creates
<1>4. known' \in KnownState
  <2>1. PICK v \in R!Maybe(R!Data) : v = IF known.p[c.id] = None THEN known.p[c.id] ELSE c.p[c.id]
    BY <1>3 DEF R!ProfilesFile, RecordsTyped, KnownState
  <2>2. known' = [known EXCEPT !.p[c.id] = v]
    BY <1>1, <1>3, <2>1 DEF R!Updated, RecordsTyped, KnownState, R!ProfilesFile
  <2> QED BY <1>3, <2>2, KnownSet DEF RecordsTyped
<1>5. pForm' \in R!ProfileForm
  BY <1>1, <1>2, FormSet DEF R!Updated, RecordsTyped
<1>6. GoodRecordCalls(rCalls')
  BY DoneSlot DEF R!Updated, RecordsTyped
<1> QED BY <1>4, <1>5, <1>6 DEF R!Updated, RecordsTyped

LEMMA DisconnectedTyped ==
    ASSUME RecordsTyped, NEW q \in R!Slots, R!Disconnected(q)  PROVE RecordsTyped'
<1>1. PICK d : Goes(q, d, "written", "listing")
  BY DisconnectedIs DEF RecordsTyped
<1>2. GoodRecordCalls(rCalls')
  BY <1>1, SlotSet DEF Goes, RecordsTyped
<1>3. known' \in KnownState
  BY KnownSet DEF RecordsTyped, R!Disconnected
<1> QED BY <1>2, <1>3 DEF RecordsTyped, R!Disconnected

LEMMA DeletedTyped ==
    ASSUME RecordsTyped, NEW q \in R!Slots, R!Deleted(q)  PROVE RecordsTyped'
<1>1. PICK d : Goes(q, d, "written", "listing") /\ Kept(rCalls[q], d) /\ d.id \in Profiles
  BY DeletedIs DEF RecordsTyped
<1>2. GoodRecordCalls(rCalls')
  BY <1>1, SlotSet DEF Goes, RecordsTyped
<1>3. rCalls[q].id \in Profiles
  BY <1>1 DEF Kept
<1>4. known' \in KnownState
  BY <1>3 DEF RecordsTyped, R!Deleted, KnownState, R!ProfilesFile, R!Maybe
<1>5. follow' \in R!Maybe(Profiles)
  BY DEF RecordsTyped, R!Deleted, R!Maybe
<1> QED BY <1>2, <1>4, <1>5 DEF RecordsTyped, R!Deleted

LEMMA FailsCounts == ASSUME RecordsTyped, R!Fails PROVE rMoves' \in 0..RecordMoves /\ rMoves' > 0
BY RecordsAssumption DEF RecordsTyped, R!Fails

LEMMA DeleteEndsTyped ==
    ASSUME RecordsTyped, NEW q \in R!Slots, NEW ok \in BOOLEAN, R!DeleteEnds(q, ok)
    PROVE  RecordsTyped'
<1>1. PICK c : c = rCalls[q] /\ c # None
  BY DEF R!DeleteEnds, R!At
<1>2. c \in R!Call /\ Shaped(c) /\ c.op = "deleteProfile" /\ c.at = "listing"
  BY <1>1 DEF RecordsTyped, GoodRecordCalls, GoodSlot, R!DeleteEnds, R!At
<1>3. c.r \in R!ReposFile
  BY <1>2 DEF Shaped
<1>4. known' \in KnownState
  BY <1>1, <1>3 DEF R!DeleteEnds, RecordsTyped, KnownState
<1>5. pForm' \in R!ProfileForm
  BY <1>1, <1>2 DEF R!DeleteEnds, RecordsTyped, R!ProfileForm, R!NoForm, R!Maybe
<1>6. GoodRecordCalls(rCalls')
  BY DoneSlot DEF R!DeleteEnds, RecordsTyped
<1>7. rMoves' \in 0..RecordMoves
  BY FailsCounts DEF R!DeleteEnds, RecordsTyped
<1>8. selected' \in R!Maybe(Profiles)
  BY DEF R!DeleteEnds, R!Maybe
<1> QED BY <1>4, <1>5, <1>6, <1>7, <1>8 DEF R!DeleteEnds, RecordsTyped

LEMMA ProfilesListedTyped ==
    ASSUME RecordsTyped, NEW q \in R!Slots, R!ProfilesListed(q)  PROVE RecordsTyped'
<1>1. PICK c : c = rCalls[q] /\ c # None
  BY DEF R!ProfilesListed, R!At
<1>2. /\ c \in R!Call /\ Shaped(c) /\ c.op \in {"loadProfiles", "disconnect"}
      /\ c.at # "asked"
  BY <1>1 DEF RecordsTyped, GoodRecordCalls, GoodSlot, R!ProfilesListed, R!At
<1>3. c.p \in R!ProfilesFile /\ c.active \in R!Maybe(Profiles)
  BY <1>2 DEF Shaped, OnP, R!OnProfiles, R!Call
<1>4. known' \in KnownState
  BY <1>1, <1>3 DEF R!ProfilesListed, RecordsTyped, KnownState
<1>5. pForm' \in R!ProfileForm
  BY <1>1, <1>2, FormSet DEF R!ProfilesListed, RecordsTyped
<1>6. GoodRecordCalls(rCalls')
  BY DoneSlot DEF R!ProfilesListed, RecordsTyped
<1>7. follow' \in R!Maybe(Profiles)
  BY DEF R!ProfilesListed, RecordsTyped, R!Maybe
<1>8. ready' \in BOOLEAN /\ rScreen' \in {"profiles", "repositories", "other"}
  <2>1. ready' = (ready \/ \A x \in R!Slots : R!Done(q)[x] = None)
    BY DEF R!ProfilesListed
  <2>2. ready' \in BOOLEAN
    BY <2>1, Zenon DEF RecordsTyped
  <2> QED BY <2>2 DEF R!ProfilesListed, RecordsTyped
<1> QED BY <1>4, <1>5, <1>6, <1>7, <1>8 DEF R!ProfilesListed, RecordsTyped

LEMMA ReposListedTyped ==
    ASSUME RecordsTyped, NEW q \in R!Slots, NEW ok \in BOOLEAN, R!ReposListed(q, ok)
    PROVE  RecordsTyped'
<1>1. PICK c : c = rCalls[q] /\ c # None
  BY DEF R!ReposListed, R!At
<1>2. c \in R!Call /\ Shaped(c) /\ c.op = "loadRepos" /\ c.at # "asked"
  BY <1>1 DEF RecordsTyped, GoodRecordCalls, GoodSlot, R!ReposListed, R!At
<1>3. c.r \in R!ReposFile
  BY <1>2 DEF Shaped, OnR
<1>4. known' \in KnownState
  BY <1>1, <1>3 DEF R!ReposListed, RecordsTyped, KnownState
<1>5. GoodRecordCalls(rCalls')
  BY DoneSlot DEF R!ReposListed, RecordsTyped
<1>6. rMoves' \in 0..RecordMoves
  BY FailsCounts DEF R!ReposListed, RecordsTyped
<1>7. ready' \in BOOLEAN /\ rScreen' \in {"profiles", "repositories", "other"}
  <2>1. ready' = (ready \/ \A x \in R!Slots : R!Done(q)[x] = None)
    BY DEF R!ReposListed
  <2>2. ready' \in BOOLEAN
    BY <2>1, Zenon DEF RecordsTyped
  <2> QED BY <2>2 DEF R!ReposListed, RecordsTyped
<1> QED BY <1>4, <1>5, <1>6, <1>7 DEF R!ReposListed, RecordsTyped

LEMMA RecordOfCall ==
    ASSUME RecordsTyped, NEW q \in R!Slots, rCalls[q] # None, rCalls[q].op \in R!OnRepos
    PROVE  /\ rCalls[q] \in R!Call /\ Shaped(rCalls[q]) /\ rCalls[q].id \in Repos
           /\ [id |-> rCalls[q].id, to |-> rCalls[q].to] \in R!Record
<1>1. PICK c : c = rCalls[q]
  OBVIOUS
<1>2. c \in R!Call /\ Shaped(c) /\ c.op \in R!OnRepos
  BY <1>1 DEF RecordsTyped, GoodRecordCalls, GoodSlot
<1>3. c.id \in Repos /\ c.to \in R!Maybe(Profiles)
  BY <1>2 DEF Shaped, R!Call
<1>4. [id |-> c.id, to |-> c.to] \in R!Record
  BY <1>3 DEF R!Record
<1> QED BY <1>1, <1>2, <1>3, <1>4

\* Both screens are left.
LEMMA UnmountedAt ==
    ASSUME RecordsTyped, NEW q \in R!Slots
    PROVE  /\ GoodRecordCalls([R!Unmounted EXCEPT ![q] = None])
           /\ [R!Unmounted EXCEPT ![q] = None][q] = None
           /\ OthersLike(rCalls, [R!Unmounted EXCEPT ![q] = None], q)
           /\ \A x \in R!Slots \ {q} : rCalls[x] # None =>
                 [R!Unmounted EXCEPT ![q] = None][x].old = rCalls[x].old
<1>1. PICK u \in {R!Unmounted, R!Moved(rCalls)} : u = R!Unmounted
  OBVIOUS
<1>2. /\ GoodRecordCalls(u) /\ AllLike(rCalls, u)
      /\ \A x \in R!Slots : rCalls[x] # None => u[x].old = rCalls[x].old
  BY FlagsSound DEF RecordsTyped
<1>3. PICK ds : ds = [u EXCEPT ![q] = None]
  OBVIOUS
<1>4. GoodSlot(None)
  BY DEF GoodSlot
<1>5. /\ GoodRecordCalls(ds) /\ ds[q] = None
      /\ \A x \in R!Slots \ {q} : ds[x] = u[x]
  BY <1>2, <1>3, <1>4 DEF GoodRecordCalls
<1>6. OthersLike(rCalls, ds, q)
  BY <1>2, <1>5 DEF OthersLike, AllLike
<1> QED BY <1>1, <1>2, <1>3, <1>5, <1>6

LEMMA AddedTyped ==
    ASSUME RecordsTyped, NEW q \in R!Slots, R!Added(q)  PROVE RecordsTyped'
<1>1. /\ rCalls[q] # None /\ rCalls[q].op \in R!OnRepos
  BY DEF R!Added, R!At, R!OnRepos
<1>2. PICK rec \in R!Record : rec = [id |-> rCalls[q].id, to |-> rCalls[q].to]
  BY <1>1, RecordOfCall
<1>3. rCalls[q] \in R!Call /\ rCalls[q].id \in Repos
  BY <1>1, RecordOfCall
<1>4. /\ known' = [known EXCEPT !.r[rCalls[q].id] = rec]
      /\ rForm' = IF rCalls[q].here THEN [R!FormOf(rec) EXCEPT !.saving = FALSE] ELSE rForm
      /\ R!SetActiveRepo(rec, R!Done(q), q, known.p, known.active)
      /\ UNCHANGED <<file, fresh, selected, rScreen, ready, pForm, rActs, rMoves>>
  BY <1>2 DEF R!Added
<1>5. known' \in KnownState
  <2>1. rec.id = rCalls[q].id /\ rec \in R!Maybe(R!Record)
    BY <1>2 DEF R!Maybe
  <2> QED BY <1>3, <1>4, <2>1, KnownSet DEF RecordsTyped
<1>6. rForm' \in R!RepoForm
  <2>1. R!FormOf(rec) \in R!RepoForm
    BY <1>3, FormSet
  <2> QED BY <1>4, <2>1 DEF RecordsTyped, R!RepoForm
<1>7. rec \in R!Maybe(R!Record)
  BY DEF R!Maybe
<1>8. Activates(rec, R!Done(q), q)
  BY <1>4, <1>7, SetActiveRepoIs
<1>9. /\ repo' \in R!Maybe(R!Record) /\ crossed' \in BOOLEAN /\ follow' \in R!Maybe(Profiles)
      /\ overlap' \in BOOLEAN /\ GoodRecordCalls(rCalls')
  BY <1>7, <1>8, DoneSlot, ActivatesTyped DEF RecordsTyped
<1> QED BY <1>4, <1>5, <1>6, <1>9 DEF RecordsTyped

LEMMA InitializedTyped ==
    ASSUME RecordsTyped, NEW q \in R!Slots, NEW remote \in BOOLEAN, R!Initialized(q, remote)
    PROVE  RecordsTyped'
<1>1. /\ rCalls[q] # None /\ rCalls[q].op \in R!OnRepos
  BY DEF R!Initialized, R!At, R!OnRepos
<1>2. PICK rec \in R!Record : rec = [id |-> rCalls[q].id, to |-> rCalls[q].to]
  BY <1>1, RecordOfCall
<1>3. rCalls[q] \in R!Call /\ rCalls[q].id \in Repos
  BY <1>1, RecordOfCall
<1>4. /\ known' = [known EXCEPT !.r[rCalls[q].id] = rec]
      /\ UNCHANGED <<file, fresh, selected, ready, rActs, rMoves>>
  BY <1>2 DEF R!Initialized
<1>5. known' \in KnownState
  <2>1. rec.id = rCalls[q].id /\ rec \in R!Maybe(R!Record)
    BY <1>2 DEF R!Maybe
  <2> QED BY <1>3, <1>4, <2>1, KnownSet DEF RecordsTyped
<1>6. rec \in R!Maybe(R!Record)
  BY DEF R!Maybe
<1>7. CASE remote
  <2>1. R!FinishInit(rec, [R!Unmounted EXCEPT ![q] = None], q)
    BY <1>2, <1>7 DEF R!Initialized
  <2>2. Activates(rec, [R!Unmounted EXCEPT ![q] = None], q)
    BY <1>6, <2>1, SetActiveRepoIs DEF R!FinishInit
  <2>3. /\ repo' \in R!Maybe(R!Record) /\ crossed' \in BOOLEAN /\ follow' \in R!Maybe(Profiles)
        /\ overlap' \in BOOLEAN /\ GoodRecordCalls(rCalls')
    BY <1>6, <2>2, UnmountedAt, ActivatesTyped
  <2>4. rForm' \in R!RepoForm /\ pForm' \in R!ProfileForm /\ rScreen' = "other"
    BY <1>3, <2>1, FormSet DEF R!FinishInit
  <2> QED BY <1>4, <1>5, <2>3, <2>4 DEF RecordsTyped
<1>8. CASE ~remote
  <2>1. /\ rForm' = IF rCalls[q].here THEN [rForm EXCEPT !.pending = rec, !.init = FALSE] ELSE rForm
        /\ rCalls' = R!Done(q)
        /\ UNCHANGED <<repo, follow, overlap, crossed, rScreen, pForm>>
    BY <1>2, <1>8 DEF R!Initialized
  <2>2. rForm' \in R!RepoForm
    BY <1>6, <2>1 DEF RecordsTyped, R!RepoForm
  <2>3. GoodRecordCalls(rCalls')
    BY <2>1, DoneSlot DEF RecordsTyped
  <2> QED BY <1>4, <1>5, <2>1, <2>2, <2>3 DEF RecordsTyped
<1> QED BY <1>7, <1>8

LEMMA RepoSavedTyped ==
    ASSUME RecordsTyped, NEW q \in R!Slots, R!RepoSaved(q)  PROVE RecordsTyped'
<1>1. /\ rCalls[q] # None /\ rCalls[q].op \in R!OnRepos
  BY DEF R!RepoSaved, R!At, R!OnRepos
<1>2. PICK rec \in R!Record : rec = [id |-> rCalls[q].id, to |-> rCalls[q].to]
  BY <1>1, RecordOfCall
<1>3. PICK i \in Repos : i = rCalls[q].id /\ rCalls[q] \in R!Call
  BY <1>1, RecordOfCall
<1>4. /\ known' = [known EXCEPT !.r[i] = IF known.r[i] = None THEN known.r[i] ELSE rec]
      /\ rForm' = R!Saved(rForm, rCalls[q])
      /\ IF repo # None /\ repo.id = i /\ known.r[i] # None
         THEN R!SetActiveRepo(rec, R!Done(q), q, known.p, known.active)
         ELSE rCalls' = R!Done(q) /\ UNCHANGED <<repo, follow, overlap, crossed>>
      /\ UNCHANGED <<file, fresh, selected, rScreen, ready, pForm, rActs, rMoves>>
  BY <1>2, <1>3 DEF R!RepoSaved, RecordsTyped, KnownState, R!ReposFile
<1>5. known' \in KnownState
  <2>1. PICK v \in R!Maybe(R!Record) : v = IF known.r[i] = None THEN known.r[i] ELSE rec
    BY DEF R!Maybe
  <2>2. v # None => v.id = i
    BY <1>2, <1>3, <2>1
  <2>3. known' = [known EXCEPT !.r[i] = v]
    BY <1>4, <2>1
  <2> QED BY <2>2, <2>3, KnownSet DEF RecordsTyped
<1>6. rForm' \in R!RepoForm
  BY <1>3, <1>4, FormSet
<1>7. rec \in R!Maybe(R!Record)
  BY DEF R!Maybe
<1>8. CASE R!SetActiveRepo(rec, R!Done(q), q, known.p, known.active)
  <2>1. Activates(rec, R!Done(q), q)
    BY <1>7, <1>8, SetActiveRepoIs
  <2>2. /\ repo' \in R!Maybe(R!Record) /\ crossed' \in BOOLEAN /\ follow' \in R!Maybe(Profiles)
        /\ overlap' \in BOOLEAN /\ GoodRecordCalls(rCalls')
    BY <1>7, <2>1, DoneSlot, ActivatesTyped DEF RecordsTyped
  <2> QED BY <1>4, <1>5, <1>6, <2>2 DEF RecordsTyped
<1>9. CASE rCalls' = R!Done(q) /\ UNCHANGED <<repo, follow, overlap, crossed>>
  BY <1>4, <1>5, <1>6, <1>9, DoneSlot DEF RecordsTyped
<1> QED BY <1>4, <1>8, <1>9

LEMMA RemovedTyped ==
    ASSUME RecordsTyped, NEW q \in R!Slots, R!Removed(q)  PROVE RecordsTyped'
<1>1. /\ rCalls[q] # None /\ rCalls[q].op \in R!OnRepos
  BY DEF R!Removed, R!At, R!OnRepos
<1>2. rCalls[q].id \in Repos /\ rCalls[q] \in R!Call
  BY <1>1, RecordOfCall
<1>3. known' \in KnownState
  BY <1>2, KnownSet DEF RecordsTyped, R!Removed, R!Maybe
<1>4. rForm' \in R!RepoForm
  BY <1>2, FormSet DEF R!Removed, RecordsTyped
<1>5. GoodRecordCalls(rCalls')
  BY DoneSlot DEF R!Removed, RecordsTyped
<1> QED BY <1>3, <1>4, <1>5 DEF RecordsTyped, R!Removed

LEMMA ActiveSetTyped ==
    ASSUME RecordsTyped, NEW q \in R!Slots, R!ActiveSet(q)  PROVE RecordsTyped'
<1>1. PICK c : c = rCalls[q] /\ c # None
  BY DEF R!ActiveSet, R!At
<1>2. c \in R!Call /\ c.to \in R!Maybe(Profiles)
  BY <1>1 DEF RecordsTyped, GoodRecordCalls, GoodSlot, R!Call
<1>3. known' \in KnownState /\ file' \in FileState
  BY <1>1, <1>2 DEF R!ActiveSet, RecordsTyped, KnownState, FileState
<1>4. GoodRecordCalls(rCalls')
  BY DoneSlot DEF R!ActiveSet, RecordsTyped
<1> QED BY <1>3, <1>4 DEF RecordsTyped, R!ActiveSet

LEMMA FailTyped ==
    ASSUME RecordsTyped, NEW q \in R!Slots, R!Fail(q)  PROVE RecordsTyped'
<1>1. PICK c : c = rCalls[q] /\ c # None
  BY DEF R!Fail
<1>2. c \in R!Call
  BY <1>1 DEF RecordsTyped, GoodRecordCalls, GoodSlot
<1>3. rMoves' \in 0..RecordMoves
  BY FailsCounts DEF R!Fail, RecordsTyped
<1>4. pForm' \in R!ProfileForm
  BY <1>1, <1>2, FormSet DEF R!Fail, RecordsTyped
<1>5. rForm' \in R!RepoForm
  <2>1. PICK b : b = (rForm.eligible \/ c.op = "createRepo")
    OBVIOUS
  <2>2. b \in BOOLEAN
    BY <2>1, Zenon
  <2>3. rForm' = IF c.op \notin R!OnRepos \/ ~c.here THEN rForm
                 ELSE IF c.op = "initRepo" THEN [rForm EXCEPT !.init = FALSE]
                 ELSE [rForm EXCEPT !.saving = FALSE, !.eligible = b]
    BY <1>1, <2>1 DEF R!Fail, RecordsTyped, R!RepoForm
  <2> QED BY <2>2, <2>3 DEF RecordsTyped, R!RepoForm
<1>6. GoodRecordCalls(rCalls')
  BY <1>1, DoneSlot DEF R!Fail, RecordsTyped
<1>7. follow' \in R!Maybe(Profiles)
  BY DEF R!Fail, R!Maybe
<1> QED BY <1>3, <1>4, <1>5, <1>6, <1>7 DEF RecordsTyped, R!Fail

LEMMA FollowSelectionTyped ==
    ASSUME RecordsTyped, R!FollowSelection  PROVE RecordsTyped'
<1>1. selected' \in R!Maybe(Profiles)
  BY DEF R!FollowSelection, RecordsTyped, R!Maybe
<1>2. pForm' \in R!ProfileForm
  <2>1. pForm \in R!ProfileForm /\ selected \in R!Maybe(Profiles)
    BY DEF RecordsTyped
  <2>2. [pForm EXCEPT !.mode = "edit", !.of = selected] \in R!ProfileForm
    BY <2>1 DEF R!ProfileForm
  <2>3. [R!NoForm EXCEPT !.saving = pForm.saving] \in R!ProfileForm
    BY <2>1 DEF R!ProfileForm, R!NoForm, R!Maybe
  <2> QED BY <2>2, <2>3 DEF R!FollowSelection
<1> QED BY <1>1, <1>2 DEF RecordsTyped, R!FollowSelection

LEMMA AutoSelectTyped ==
    ASSUME RecordsTyped, R!AutoSelect  PROVE RecordsTyped'
<1>1. PICK q \in R!Slots : q = R!FirstFree
  BY FirstFreeIsFree DEF R!AutoSelect
<1>2. PICK rec \in R!Maybe(R!Record) : R!SetActiveRepo(rec, rCalls, q, known.p, known.active)
  <2>1. CASE R!SetActiveRepo(None, rCalls, q, known.p, known.active)
    BY <2>1 DEF R!Maybe
  <2>2. CASE \E r \in R!InList : R!SetActiveRepo(known.r[r], rCalls, q, known.p, known.active)
    <3>1. \A r \in R!InList : known.r[r] \in R!Maybe(R!Record)
      BY DEF R!InList, RecordsTyped, KnownState, R!ReposFile
    <3> QED BY <2>2, <3>1
  <2> QED BY <1>1, <2>1, <2>2 DEF R!AutoSelect
<1>3. /\ repo' \in R!Maybe(R!Record) /\ crossed' \in BOOLEAN /\ follow' \in R!Maybe(Profiles)
      /\ overlap' \in BOOLEAN /\ GoodRecordCalls(rCalls')
  <2>1. Activates(rec, rCalls, q)
    BY <1>2, SetActiveRepoIs
  <2> QED BY <2>1, ActivatesTyped DEF RecordsTyped
<1> QED BY <1>3 DEF RecordsTyped, R!AutoSelect

-----------------------------------------------------------------------------
(* Records: the acts that make a call.                                     *)

LEMMA AskRequests ==
    ASSUME RecordsTyped, NEW c \in R!Call, Asked(c), R!Ask(c),
           c.op \in R!Creates => c.id = None,
           c.op \in R!OnProfiles \ R!Creates => c.id \in Profiles,
           c.op = "updateProfile" => c.data \in R!Data,
           c.op \in R!OnRepos => c.id \in Repos,
           c.op = "setActive" => c.to \in Profiles /\ c.id = None
    PROVE  Requests(c)
<1>1. GoodSlot(c) /\ c # None
  BY AskedIsGood
<1>2. GoodRecordCalls(rCalls') /\ \E q \in R!Slots : AsksFor(q, c)
  BY <1>1, AskSound DEF RecordsTyped
<1>3. overlap' \in BOOLEAN
  BY <1>2, MeetsOtherIsTruth, Zenon DEF AsksFor, RecordsTyped
<1> QED BY <1>1, <1>2, <1>3 DEF Requests

LEMMA OpsApart ==
    /\ R!OnProfiles \subseteq R!Ops /\ R!OnRepos \subseteq R!Ops
    /\ {"setActive", "loadProfiles", "loadRepos"} \subseteq R!Ops
    /\ R!Creates \subseteq R!OnProfiles
    /\ R!OnProfiles \intersect R!OnRepos = {}
    /\ {"setActive", "loadProfiles", "loadRepos"} \intersect (R!OnProfiles \union R!OnRepos) = {}
    /\ {"createRepo", "initRepo", "updateRepo", "removeRepo"} = R!OnRepos
    /\ {"updateProfile", "authorized", "disconnect", "deleteProfile"} = R!OnProfiles \ R!Creates
BY DEF R!Ops, R!OnProfiles, R!OnRepos, R!Creates

LEMMA SubmitAsks ==
    ASSUME RecordsTyped, NEW op \in R!OnProfiles, R!Submit(op)
    PROVE  \E c : /\ Requests(c) /\ c.op = op /\ c.to = None
                  /\ op \in R!Creates => c.id = None
                  /\ op \notin R!Creates => c.id = selected /\ selected \in Profiles
                                            /\ c.data.of = pForm.of
<1>1. CASE op \in R!Creates
  <2>1. PICK c : c = CallFor(op, None, None, None)
    OBVIOUS
  <2>2. R!Ask(c)
    BY <1>1, <2>1 DEF R!Submit, R!NewCall, CallFor
  <2>3. c.op = op /\ c.id = None /\ c.to = None /\ Asked(c)
    BY <2>1 DEF CallFor, Asked
  <2>4. c \in R!Call
    <3>1. /\ None \in R!Maybe(Profiles \union Repos) /\ None \in R!Maybe(R!Data)
          /\ None \in R!Maybe(Profiles) /\ op \in R!Ops
      BY OpsApart DEF R!Maybe
    <3> QED BY <2>1, <3>1, CallForIs
  <2>5. c.op # "updateProfile" /\ c.op \notin R!OnRepos /\ c.op # "setActive"
    BY <1>1, <2>3, OpsApart DEF R!Creates
  <2> QED BY <1>1, <2>2, <2>3, <2>4, <2>5, AskRequests
<1>2. CASE op \notin R!Creates
  <2>1. PICK v : v = [of |-> pForm.of, linked |-> FALSE]
    OBVIOUS
  <2>2. v \in R!Data /\ v.of = pForm.of
    BY <2>1 DEF R!Data, RecordsTyped, R!ProfileForm
  <2>3. PICK c : c = [R!NewCall(op) EXCEPT !.id = selected, !.data = v]
    OBVIOUS
  <2>4. R!Ask(c) /\ selected # None
    BY <1>2, <2>1, <2>3 DEF R!Submit
  <2>5. selected \in Profiles
    BY <2>4 DEF RecordsTyped, R!Maybe
  <2>9. c = CallFor(op, selected, v, None)
    BY <2>3 DEF R!NewCall, CallFor
  <2>6. c.op = op /\ c.id = selected /\ c.to = None /\ c.data = v /\ Asked(c)
    BY <2>9 DEF CallFor, Asked
  <2>7. c \in R!Call
    <3>1. /\ selected \in R!Maybe(Profiles \union Repos) /\ v \in R!Maybe(R!Data)
          /\ None \in R!Maybe(Profiles) /\ op \in R!Ops
      BY <2>2, <2>5, OpsApart DEF R!Maybe
    <3> QED BY <2>9, <3>1, CallForIs
  <2>8. c.op \notin R!OnRepos /\ c.op # "setActive"
    BY <1>2, <2>6, OpsApart
  <2> QED BY <1>2, <2>2, <2>4, <2>5, <2>6, <2>7, <2>8, AskRequests
<1> QED BY <1>1, <1>2

LEMMA SetActiveAsks ==
    ASSUME RecordsTyped, NEW p \in Profiles, R!SetActive(p)
    PROVE  \E c : Requests(c) /\ c.op = "setActive" /\ c.id = None /\ c.to = p
<1>1. PICK c : c = R!SetActiveCall(p)
  OBVIOUS
<1>2. GoodSlot(c) /\ c # None /\ Asked(c) /\ c.op = "setActive" /\ c.id = None /\ c.to = p
  BY <1>1, SetActiveCallIs
<1>3. R!Ask(c)
  BY <1>1 DEF R!SetActive
<1>4. c \in R!Call /\ c.op \notin R!OnProfiles /\ c.op \notin R!OnRepos /\ c.op \notin R!Creates
  BY <1>2, OpsApart DEF GoodSlot
<1> QED BY <1>2, <1>3, <1>4, AskRequests

LEMMA AuthorizedAsks ==
    ASSUME RecordsTyped, R!Authorized
    PROVE  \E c : Requests(c) /\ c.op = "authorized" /\ c.id = selected /\ c.to = None
<1>0. PICK c : c = [R!NewCall("authorized") EXCEPT !.id = selected]
  OBVIOUS
<1>1. c = CallFor("authorized", selected, None, None)
  BY <1>0 DEF R!NewCall, CallFor
<1>2. R!Ask(c) /\ selected \in Profiles
  BY <1>0 DEF R!Authorized, RecordsTyped, R!Maybe
<1>3. c.op = "authorized" /\ c.id = selected /\ c.to = None /\ Asked(c)
  BY <1>1 DEF CallFor, Asked
<1>4. c \in R!Call
  <2>1. /\ selected \in R!Maybe(Profiles \union Repos) /\ None \in R!Maybe(R!Data)
        /\ None \in R!Maybe(Profiles) /\ "authorized" \in R!Ops
    BY <1>2, OpsApart DEF R!Maybe
  <2> QED BY <1>1, <2>1, CallForIs
<1>5. c.op \notin R!Creates /\ c.op \notin R!OnRepos /\ c.op # "updateProfile" /\ c.op # "setActive"
  BY <1>3, OpsApart
<1> QED BY <1>2, <1>3, <1>4, <1>5, AskRequests

LEMMA CloseModalAsks ==
    ASSUME RecordsTyped, R!CloseModal
    PROVE  \E c : Requests(c) /\ c.op = "loadProfiles" /\ c.id = None /\ c.to = None
<1>1. PICK c : c = CallFor("loadProfiles", None, None, None)
  OBVIOUS
<1>2. R!Ask(c)
  BY <1>1 DEF R!CloseModal, R!NewCall, CallFor
<1>3. c.op = "loadProfiles" /\ c.id = None /\ c.to = None /\ Asked(c)
  BY <1>1 DEF CallFor, Asked
<1>4. c \in R!Call
  <2>1. /\ None \in R!Maybe(Profiles \union Repos) /\ None \in R!Maybe(R!Data)
        /\ None \in R!Maybe(Profiles) /\ "loadProfiles" \in R!Ops
    BY OpsApart DEF R!Maybe
  <2> QED BY <1>1, <2>1, CallForIs
<1>5. c.op \notin R!Creates /\ c.op \notin R!OnRepos /\ c.op \notin R!OnProfiles
      /\ c.op # "updateProfile" /\ c.op # "setActive"
  BY <1>3, OpsApart
<1> QED BY <1>2, <1>3, <1>4, <1>5, AskRequests

LEMMA RepoCallTyped ==
    ASSUME NEW op \in R!OnRepos, NEW r \in Repos, NEW p \in R!Maybe(Profiles), NEW c,
           c = CallFor(op, r, None, p)
    PROVE  /\ c \in R!Call /\ c.op = op /\ c.id = r /\ c.to = p /\ Asked(c)
           /\ c.op \notin R!Creates /\ c.op \notin R!OnProfiles
           /\ c.op # "updateProfile" /\ c.op # "setActive" /\ GoodSlot(c) /\ c # None
<1>1. c.op = op /\ c.id = r /\ c.to = p /\ Asked(c)
  BY DEF CallFor, Asked
<1>2. c \in R!Call
  <2>1. /\ r \in R!Maybe(Profiles \union Repos) /\ None \in R!Maybe(R!Data) /\ op \in R!Ops
    BY OpsApart DEF R!Maybe
  <2> QED BY <2>1, CallForIs
<1>3. c.op \notin R!Creates /\ c.op \notin R!OnProfiles
      /\ c.op # "updateProfile" /\ c.op # "setActive"
  BY <1>1, OpsApart
<1> QED BY <1>1, <1>2, <1>3, AskedIsGood

LEMMA AddRepoAsks ==
    ASSUME RecordsTyped, NEW r \in Repos, R!AddRepo(r)
    PROVE  \E c : Requests(c) /\ c.op = "createRepo" /\ c.id = r /\ c.to = None
<1>0. PICK c : c = [R!NewCall("createRepo") EXCEPT !.id = r]
  OBVIOUS
<1>1. c = CallFor("createRepo", r, None, None)
  BY <1>0 DEF R!NewCall, CallFor
<1>2. R!Ask(c)
  BY <1>0 DEF R!AddRepo
<1>3. "createRepo" \in R!OnRepos /\ None \in R!Maybe(Profiles)
  BY DEF R!OnRepos, R!Maybe
<1>4. /\ c \in R!Call /\ c.op = "createRepo" /\ c.id = r /\ c.to = None /\ Asked(c)
      /\ c.op \notin R!Creates /\ c.op \notin R!OnProfiles
      /\ c.op # "updateProfile" /\ c.op # "setActive"
  BY <1>1, <1>3, RepoCallTyped
<1> QED BY <1>2, <1>4, AskRequests

LEMMA InitRepoAsks ==
    ASSUME RecordsTyped, NEW r \in Repos, R!InitRepo(r)
    PROVE  \E c : Requests(c) /\ c.op = "initRepo" /\ c.id = r /\ c.to = known.active
<1>0. PICK c : c = [R!NewCall("initRepo") EXCEPT !.id = r, !.to = known.active]
  OBVIOUS
<1>1. c = CallFor("initRepo", r, None, known.active)
  BY <1>0 DEF R!NewCall, CallFor
<1>2. R!Ask(c)
  BY <1>0 DEF R!InitRepo
<1>3. "initRepo" \in R!OnRepos /\ known.active \in R!Maybe(Profiles)
  BY DEF R!OnRepos, RecordsTyped, KnownState
<1>4. /\ c \in R!Call /\ c.op = "initRepo" /\ c.id = r /\ c.to = known.active /\ Asked(c)
      /\ c.op \notin R!Creates /\ c.op \notin R!OnProfiles
      /\ c.op # "updateProfile" /\ c.op # "setActive"
  BY <1>1, <1>3, RepoCallTyped
<1> QED BY <1>2, <1>4, AskRequests

LEMMA RemoveRepoAsks ==
    ASSUME RecordsTyped, R!RemoveRepo
    PROVE  \E c : Requests(c) /\ c.op = "removeRepo" /\ c.id = rForm.selected /\ c.to = None
<1>0. PICK c : c = [R!NewCall("removeRepo") EXCEPT !.id = rForm.selected]
  OBVIOUS
<1>1. c = CallFor("removeRepo", rForm.selected, None, None)
  BY <1>0 DEF R!NewCall, CallFor
<1>2. R!Ask(c) /\ rForm.selected \in Repos
  BY <1>0 DEF R!RemoveRepo, R!SaveOffered, R!InList
<1>3. "removeRepo" \in R!OnRepos /\ None \in R!Maybe(Profiles)
  BY DEF R!OnRepos, R!Maybe
<1>4. /\ c \in R!Call /\ c.op = "removeRepo" /\ c.id = rForm.selected /\ c.to = None /\ Asked(c)
      /\ c.op \notin R!Creates /\ c.op \notin R!OnProfiles
      /\ c.op # "updateProfile" /\ c.op # "setActive"
  BY <1>1, <1>2, <1>3, RepoCallTyped
<1> QED BY <1>2, <1>4, AskRequests

\* A save counts as overlapping where the form is older than the profile's end.
LEMMA SaveRepoAsks ==
    ASSUME RecordsTyped, NEW p \in R!Maybe(Profiles), R!SaveRepo(p)
    PROVE  /\ rForm.selected \in Repos /\ p \in R!Choices
           /\ \E c : /\ GoodSlot(c) /\ c # None /\ Asked(c) /\ GoodRecordCalls(rCalls')
                     /\ overlap' \in BOOLEAN
                     /\ c.op = "updateRepo" /\ c.id = rForm.selected /\ c.to = p
                     /\ \E q \in R!Slots :
                          /\ rCalls[q] = None /\ rCalls' = [rCalls EXCEPT ![q] = c]
                          /\ overlap' = (overlap \/ (p # None /\ ~R!InStore(p))
                                          \/ MeetsOther(rCalls, q, "updateRepo"))
<1>0. PICK c : c = [R!NewCall("updateRepo") EXCEPT !.id = rForm.selected, !.to = p]
  OBVIOUS
<1>1. c = CallFor("updateRepo", rForm.selected, None, p)
  BY <1>0 DEF R!NewCall, CallFor
<1>2. PICK q \in R!Slots : q = R!FirstFree /\ rCalls[q] = None
  BY FirstFreeIsFree DEF R!SaveRepo
<1>3. rForm.selected \in Repos /\ p \in R!Choices /\ rCalls' = [rCalls EXCEPT ![q] = c]
  BY <1>0, <1>2 DEF R!SaveRepo, R!SaveOffered, R!InList
<1>4. "updateRepo" \in R!OnRepos
  BY DEF R!OnRepos
<1>5. /\ c.op = "updateRepo" /\ c.id = rForm.selected /\ c.to = p /\ Asked(c)
      /\ GoodSlot(c) /\ c # None
  BY <1>1, <1>3, <1>4, RepoCallTyped
<1>6. GoodRecordCalls(rCalls')
  BY <1>3, <1>5, SlotSet DEF RecordsTyped
<1>7. overlap' = (overlap \/ (p # None /\ ~R!InStore(p)) \/ MeetsOther(rCalls, q, "updateRepo"))
  <2>1. MeetsOther(rCalls, q, "updateRepo")
          <=> \E x \in R!Pending(rCalls) : R!Meet(rCalls[x].op, "updateRepo")
    BY <1>2 DEF MeetsOther, R!Pending
  <2> QED BY <2>1, Zenon DEF R!SaveRepo
<1>8. overlap' \in BOOLEAN
  BY <1>7, MeetsOtherIsTruth, Zenon DEF RecordsTyped
<1> QED BY <1>2, <1>3, <1>5, <1>6, <1>7, <1>8

LEMMA RecordActCounts ==
    ASSUME RecordsTyped, R!Act  PROVE rActs' \in 0..RecordActs /\ rActs' # rActs /\ ready
BY RecordsAssumption DEF RecordsTyped, R!Act

LEMMA NavigateTyped ==
    ASSUME RecordsTyped, NEW s \in {"profiles", "repositories", "other"}, R!Navigate(s)
    PROVE  RecordsTyped'
<1>1. PICK u \in {R!Unmounted, R!Moved(rCalls)} : u = rCalls'
  BY DEF R!Navigate
<1>2. GoodRecordCalls(rCalls')
  BY <1>1, FlagsSound DEF RecordsTyped
<1>3. R!NoForm \in R!ProfileForm /\ R!NoRepoForm \in R!RepoForm
  BY DEF R!NoForm, R!NoRepoForm, R!ProfileForm, R!RepoForm, R!Maybe
<1> QED BY <1>2, <1>3, RecordActCounts DEF R!Navigate, RecordsTyped

LEMMA PickRepoTyped ==
    ASSUME RecordsTyped, NEW r \in Repos, R!PickRepo(r)  PROVE RecordsTyped'
<1>1. PICK q \in R!Slots : q = R!FirstFree
  BY FirstFreeIsFree DEF R!PickRepo
<1>2. known.r[r] \in R!Maybe(R!Record)
  BY DEF RecordsTyped, KnownState, R!ReposFile
<1>3. Activates(known.r[r], rCalls, q)
  BY <1>1, <1>2, SetActiveRepoIs DEF R!PickRepo
<1>4. /\ repo' \in R!Maybe(R!Record) /\ crossed' \in BOOLEAN /\ follow' \in R!Maybe(Profiles)
      /\ overlap' \in BOOLEAN /\ GoodRecordCalls(rCalls')
  BY <1>2, <1>3, ActivatesTyped DEF RecordsTyped
<1> QED BY <1>4, RecordActCounts DEF R!PickRepo, RecordsTyped

LEMMA SelectRepoTyped ==
    ASSUME RecordsTyped, NEW r \in Repos, R!SelectRepo(r)  PROVE RecordsTyped'
<1>1. PICK q \in R!Slots : q = R!FirstFree
  BY FirstFreeIsFree DEF R!SelectRepo
<1>2. known.r[r] \in R!Maybe(R!Record) /\ known.r[r] # None
  BY DEF RecordsTyped, KnownState, R!ReposFile, R!SelectRepo, R!InList
<1>3. Activates(known.r[r], rCalls, q)
  BY <1>1, <1>2, SetActiveRepoIs DEF R!SelectRepo
<1>4. /\ repo' \in R!Maybe(R!Record) /\ crossed' \in BOOLEAN /\ follow' \in R!Maybe(Profiles)
      /\ overlap' \in BOOLEAN /\ GoodRecordCalls(rCalls')
  BY <1>2, <1>3, ActivatesTyped DEF RecordsTyped
<1>5. rForm' \in R!RepoForm
  <2>1. known.r[r].id \in R!Maybe(Repos) /\ known.r[r].to \in R!Maybe(Profiles)
    BY <1>2 DEF R!Record, R!Maybe
  <2> QED BY <2>1 DEF RecordsTyped, R!SelectRepo, R!FormOf, R!RepoForm
<1> QED BY <1>4, <1>5, RecordActCounts DEF R!SelectRepo, R!OnScreen, RecordsTyped

LEMMA SelectProfileTyped ==
    ASSUME RecordsTyped, NEW p \in Profiles, R!SelectProfile(p)  PROVE RecordsTyped'
<1>1. PICK u \in {R!Unmounted, R!Moved(rCalls)} : u = rCalls'
  BY DEF R!SelectProfile
<1>2. GoodRecordCalls(rCalls')
  BY <1>1, FlagsSound DEF RecordsTyped
<1>3. pForm' \in R!ProfileForm /\ selected' \in R!Maybe(Profiles)
  BY DEF RecordsTyped, R!SelectProfile, R!ProfileForm, R!Maybe
<1> QED BY <1>2, <1>3, RecordActCounts DEF R!SelectProfile, R!OnScreen, RecordsTyped

LEMMA StartCreateTyped ==
    ASSUME RecordsTyped, R!StartCreate  PROVE RecordsTyped'
<1>1. PICK u \in {R!Unmounted, R!Moved(rCalls)} : u = rCalls'
  BY DEF R!StartCreate
<1>2. GoodRecordCalls(rCalls')
  BY <1>1, FlagsSound DEF RecordsTyped
<1>3. pForm' \in R!ProfileForm /\ selected' \in R!Maybe(Profiles)
  BY DEF RecordsTyped, R!StartCreate, R!ProfileForm, R!Maybe
<1> QED BY <1>2, <1>3, RecordActCounts DEF R!StartCreate, R!OnScreen, RecordsTyped

LEMMA SubmitTyped ==
    ASSUME RecordsTyped, NEW op \in R!OnProfiles, R!Submit(op)  PROVE RecordsTyped'
<1>1. GoodRecordCalls(rCalls') /\ overlap' \in BOOLEAN
  BY SubmitAsks DEF Requests
<1>2. pForm' \in R!ProfileForm
  BY DEF RecordsTyped, R!Submit, R!ProfileForm
<1> QED BY <1>1, <1>2, RecordActCounts DEF R!Submit, R!OnScreen, R!Store, RecordsTyped

LEMMA SetActiveTyped ==
    ASSUME RecordsTyped, NEW p \in Profiles, R!SetActive(p)  PROVE RecordsTyped'
<1>1. GoodRecordCalls(rCalls') /\ overlap' \in BOOLEAN
  BY SetActiveAsks DEF Requests
<1>2. follow' \in R!Maybe(Profiles)
  BY DEF R!SetActive, R!Maybe
<1> QED BY <1>1, <1>2, RecordActCounts DEF R!SetActive, R!OnScreen, RecordsTyped

LEMMA ConnectTyped ==
    ASSUME RecordsTyped, R!Connect  PROVE RecordsTyped'
<1>1. pForm' \in R!ProfileForm
  BY DEF RecordsTyped, R!Connect, R!ProfileForm
<1> QED BY <1>1, RecordActCounts DEF R!Connect, R!OnScreen, R!Store, RecordsTyped

LEMMA AuthorizedTyped ==
    ASSUME RecordsTyped, R!Authorized  PROVE RecordsTyped'
<1>1. GoodRecordCalls(rCalls') /\ overlap' \in BOOLEAN
  BY AuthorizedAsks DEF Requests
<1>2. file' \in FileState
  <2>1. selected \in Profiles /\ file.p[selected] \in R!Data
    BY DEF RecordsTyped, R!Authorized, R!Exists, R!Maybe, FileState, R!ProfilesFile
  <2>2. PICK v : v = [file.p[selected] EXCEPT !.linked = TRUE]
    OBVIOUS
  <2>3. v \in R!Maybe(R!Data)
    BY <2>1, <2>2 DEF R!Data, R!Maybe
  <2>4. file' = [file EXCEPT !.p[selected] = v]
    BY <2>1, <2>2 DEF R!Authorized, RecordsTyped, FileState, R!ProfilesFile
  <2> QED BY <2>1, <2>3, <2>4 DEF RecordsTyped, FileState, R!ProfilesFile
<1> QED BY <1>1, <1>2 DEF R!Authorized, RecordsTyped

LEMMA CloseModalTyped ==
    ASSUME RecordsTyped, R!CloseModal  PROVE RecordsTyped'
<1>1. GoodRecordCalls(rCalls') /\ overlap' \in BOOLEAN
  BY CloseModalAsks DEF Requests
<1>2. known' \in KnownState
  BY KnownSet DEF RecordsTyped, R!CloseModal
<1>3. pForm' \in R!ProfileForm
  BY DEF RecordsTyped, R!CloseModal, R!ProfileForm
<1> QED BY <1>1, <1>2, <1>3 DEF R!CloseModal, RecordsTyped

LEMMA StartAddTyped ==
    ASSUME RecordsTyped, R!StartAdd  PROVE RecordsTyped'
<1>1. rForm' \in R!RepoForm
  <2>1. rForm' = [rForm EXCEPT !.mode = "add", !.selected = None, !.eligible = FALSE, !.pending = None]
    BY DEF R!StartAdd
  <2> QED BY <2>1 DEF RecordsTyped, R!RepoForm, R!Maybe
<1> QED BY <1>1, RecordActCounts DEF R!StartAdd, R!OnScreen, R!Store, RecordsTyped

LEMMA CancelAddTyped ==
    ASSUME RecordsTyped, R!CancelAdd  PROVE RecordsTyped'
<1>1. rForm' \in R!RepoForm
  BY DEF RecordsTyped, R!CancelAdd, R!RepoForm
<1> QED BY <1>1, RecordActCounts DEF R!CancelAdd, R!OnScreen, R!Store, RecordsTyped

LEMMA AddRepoTyped ==
    ASSUME RecordsTyped, NEW r \in Repos, R!AddRepo(r)  PROVE RecordsTyped'
<1>1. GoodRecordCalls(rCalls') /\ overlap' \in BOOLEAN
  BY AddRepoAsks DEF Requests
<1>2. rForm' \in R!RepoForm
  <2>1. rForm' = [rForm EXCEPT !.saving = TRUE, !.eligible = FALSE, !.pending = None]
    BY DEF R!AddRepo
  <2> QED BY <2>1 DEF RecordsTyped, R!RepoForm, R!Maybe
<1> QED BY <1>1, <1>2, RecordActCounts DEF R!AddRepo, R!OnScreen, R!Store, RecordsTyped

LEMMA InitRepoTyped ==
    ASSUME RecordsTyped, NEW r \in Repos, R!InitRepo(r)  PROVE RecordsTyped'
<1>1. GoodRecordCalls(rCalls') /\ overlap' \in BOOLEAN
  BY InitRepoAsks DEF Requests
<1>2. rForm' \in R!RepoForm
  BY DEF RecordsTyped, R!InitRepo, R!RepoForm
<1> QED BY <1>1, <1>2, RecordActCounts DEF R!InitRepo, R!OnScreen, R!Store, RecordsTyped

LEMMA ContinueInitTyped ==
    ASSUME RecordsTyped, R!ContinueInit  PROVE RecordsTyped'
<1>1. PICK q \in R!Slots : q = R!FirstFree
  BY FirstFreeIsFree DEF R!ContinueInit
<1>2. PICK u \in {R!Unmounted, R!Moved(rCalls)} : u = R!Unmounted
  OBVIOUS
<1>3. GoodRecordCalls(u)
  BY <1>2, FlagsSound DEF RecordsTyped
<1>4. rForm.pending \in R!Maybe(R!Record)
  BY DEF RecordsTyped, R!RepoForm
<1>5. /\ R!SetActiveRepo(rForm.pending, u, q, known.p, known.active)
      /\ rScreen' = "other" /\ rForm' = R!NoRepoForm /\ pForm' = R!NoForm
      /\ UNCHANGED <<file, fresh, known, selected, ready, rMoves>>
  BY <1>1, <1>2 DEF R!ContinueInit, R!FinishInit
<1>6. Activates(rForm.pending, u, q)
  BY <1>4, <1>5, SetActiveRepoIs
<1>7. /\ repo' \in R!Maybe(R!Record) /\ crossed' \in BOOLEAN /\ follow' \in R!Maybe(Profiles)
      /\ overlap' \in BOOLEAN /\ GoodRecordCalls(rCalls')
  BY <1>3, <1>4, <1>6, ActivatesTyped
<1>8. R!NoForm \in R!ProfileForm /\ R!NoRepoForm \in R!RepoForm
  BY DEF R!NoForm, R!NoRepoForm, R!ProfileForm, R!RepoForm, R!Maybe
<1>9. rActs' \in 0..RecordActs
  BY RecordActCounts DEF R!ContinueInit, R!OnScreen
<1> QED BY <1>5, <1>7, <1>8, <1>9 DEF RecordsTyped

LEMMA SaveRepoTyped ==
    ASSUME RecordsTyped, NEW p \in R!Maybe(Profiles), R!SaveRepo(p)  PROVE RecordsTyped'
<1>1. GoodRecordCalls(rCalls') /\ overlap' \in BOOLEAN
  BY SaveRepoAsks
<1>2. rForm' \in R!RepoForm
  BY DEF RecordsTyped, R!SaveRepo, R!RepoForm
<1> QED BY <1>1, <1>2, RecordActCounts DEF R!SaveRepo, R!OnScreen, R!Store, RecordsTyped

LEMMA RemoveRepoTyped ==
    ASSUME RecordsTyped, R!RemoveRepo  PROVE RecordsTyped'
<1>1. GoodRecordCalls(rCalls') /\ overlap' \in BOOLEAN
  BY RemoveRepoAsks DEF Requests
<1>2. rForm' \in R!RepoForm
  BY DEF RecordsTyped, R!RemoveRepo, R!RepoForm
<1> QED BY <1>1, <1>2, RecordActCounts DEF R!RemoveRepo, R!OnScreen, R!Store, RecordsTyped

\* The two lists are loaded at the start.
LEMMA LoadsAre ==
    /\ GoodRecordCalls(R!Loads)
    /\ R!Loads[1] = CallFor("loadProfiles", None, None, None)
    /\ R!Loads[2] = CallFor("loadRepos", None, None, None)
    /\ \A q \in R!Slots \ {1, 2} : R!Loads[q] = None
<1>1. /\ None \in R!Maybe(Profiles \union Repos) /\ None \in R!Maybe(R!Data)
      /\ None \in R!Maybe(Profiles) /\ "loadProfiles" \in R!Ops /\ "loadRepos" \in R!Ops
  BY OpsApart DEF R!Maybe
<1>2. PICK a, b : /\ a = CallFor("loadProfiles", None, None, None)
                  /\ b = CallFor("loadRepos", None, None, None)
  OBVIOUS
<1>3. a \in R!Call /\ b \in R!Call
  BY <1>1, <1>2, CallForIs
<1>4. a.op = "loadProfiles" /\ Asked(a)
  BY <1>2 DEF CallFor, Asked
<1>5. b.op = "loadRepos" /\ Asked(b)
  BY <1>2 DEF CallFor, Asked
<1>6. GoodSlot(a) /\ GoodSlot(b)
  BY <1>3, <1>4, <1>5, AskedIsGood, OpsApart
<1>7. R!Loads = [q \in R!Slots |-> IF q = 1 THEN a ELSE IF q = 2 THEN b ELSE None]
  BY <1>2 DEF R!Loads, R!NewCall, CallFor
<1>8. R!Loads[1] = a /\ R!Loads[2] = b /\ \A q \in R!Slots \ {1, 2} : R!Loads[q] = None
  BY <1>7, SlotsAreNumbers
<1>9. R!Loads \in [R!Slots -> R!Call \union {None}]
  BY <1>3, <1>7
<1>10. \A q \in R!Slots : GoodSlot(R!Loads[q])
  BY <1>6, <1>7 DEF GoodSlot
<1> QED BY <1>2, <1>8, <1>9, <1>10 DEF GoodRecordCalls

LEMMA NoneKnownTyped ==
    /\ R!NoneKnown \in KnownState
    /\ R!NoForm \in R!ProfileForm /\ R!NoRepoForm \in R!RepoForm
BY DEF R!NoneKnown, KnownState, R!ProfilesFile, R!ReposFile, R!Maybe,
       R!NoForm, R!NoRepoForm, R!ProfileForm, R!RepoForm

LEMMA RestartTyped ==
    ASSUME RecordsTyped, R!Restart  PROVE RecordsTyped'
<1>1. file' \in FileState
  <2>1. R!Pruned(file.r, file.p) \in R!ReposFile
    BY PrunedTyped DEF RecordsTyped, FileState
  <2> QED BY <2>1 DEF R!Restart, R!Healed, RecordsTyped, FileState
<1>2. rMoves' \in 0..RecordMoves
  BY FailsCounts DEF R!Restart
<1> QED BY <1>1, <1>2, LoadsAre, NoneKnownTyped DEF R!Restart, RecordsTyped, R!Maybe

LEMMA RecordsInitTyped == ASSUME R!Init PROVE RecordsTyped
<1>1. file \in FileState
  <2>1. PICK fp, fr :
          /\ fp = [p \in Profiles |-> IF p \in FirstProfiles THEN [of |-> p, linked |-> FALSE] ELSE None]
          /\ fr = [r \in Repos |-> IF r \in DOMAIN Assigned THEN [id |-> r, to |-> Assigned[r]] ELSE None]
    OBVIOUS
  <2>2. file = [p |-> fp, r |-> fr, active |-> None]
    BY <2>1 DEF R!Init
  <2>3. fp \in R!ProfilesFile
    BY <2>1 DEF R!ProfilesFile, R!Maybe, R!Data
  <2>4. fr \in R!ReposFile
    <3>1. \A r \in Repos : r \in DOMAIN Assigned =>
             [id |-> r, to |-> Assigned[r]] \in R!Record
      BY RecordsAssumption DEF R!Record, R!Maybe
    <3> QED BY <2>1, <3>1 DEF R!ReposFile, R!Maybe
  <2> QED BY <2>2, <2>3, <2>4 DEF FileState, R!Maybe
<1>2. 0 \in 0..RecordActs /\ 0 \in 0..RecordMoves
  BY RecordsAssumption
<1> QED BY <1>1, <1>2, LoadsAre, NoneKnownTyped DEF R!Init, RecordsTyped, R!Maybe

-----------------------------------------------------------------------------
(* Records: what holds of every state, whatever calls have met.            *)

-----------------------------------------------------------------------------
LEMMA LikeKeeps ==
    ASSUME NEW c, NEW d, Like(c, d)
    PROVE  /\ OwnCall(c) => OwnCall(d)
           /\ \A p : UnnamedCall(c, p) => UnnamedCall(d, p)
           /\ \A p : UnbornCall(c, p) => UnbornCall(d, p)
BY DEF Like, OwnCall, UnnamedCall, UnbornCall, HasP, HasR

LEMMA TurnsKeep ==
    ASSUME NEW cs, NEW ds, NEW q \in R!Slots, NEW new, Turns(cs, ds, q, new)
    PROVE  /\ OwnCalls(cs) /\ OwnCall(ds[q]) => OwnCalls(ds)
           /\ \A p : UnnamedCalls(cs, p) /\ UnnamedCall(ds[q], p) => UnnamedCalls(ds, p)
           /\ \A p : UnbornCalls(cs, p) /\ UnbornCall(ds[q], p) => UnbornCalls(ds, p)
<1>1. \A x \in R!Slots \ {q} : Like(cs[x], ds[x])
  BY DEF Turns
<1>2. OwnCalls(cs) /\ OwnCall(ds[q]) => OwnCalls(ds)
  BY <1>1, LikeKeeps DEF OwnCalls
<1>3. \A p : UnnamedCalls(cs, p) /\ UnnamedCall(ds[q], p) => UnnamedCalls(ds, p)
  BY <1>1, LikeKeeps DEF UnnamedCalls
<1>4. \A p : UnbornCalls(cs, p) /\ UnbornCall(ds[q], p) => UnbornCalls(ds, p)
  BY <1>1, LikeKeeps DEF UnbornCalls
<1> QED BY <1>2, <1>3, <1>4

LEMMA StartCallsKept ==
    ASSUME NEW cs, NEW ds, NEW q \in R!Slots, NEW new, Turns(cs, ds, q, new),
           NEW loaded, StartCalls(cs, loaded),
           ds[q] # None => IF loaded THEN ds[q].op # "loadRepos" ELSE ds[q].op \in Listings
    PROVE  StartCalls(ds, loaded)
<1> SUFFICES ASSUME NEW x \in R!Slots, ds[x] # None
             PROVE  IF loaded THEN ds[x].op # "loadRepos" ELSE ds[x].op \in Listings
  BY DEF StartCalls
<1>1. CASE x = q
  BY <1>1
<1>2. CASE x # q
  <2>1. cs[x] # None /\ ds[x].op = cs[x].op
    BY <1>2 DEF Turns, Like
  <2> QED BY <2>1 DEF StartCalls
<1> QED BY <1>1, <1>2

LEMMA OneNewestKept ==
    ASSUME NEW cs, NEW ds, NEW q \in R!Slots, NEW new, Turns(cs, ds, q, new),
           OneNewest(cs), Newest(ds[q]) => new
    PROVE  OneNewest(ds)
<1>1. ASSUME NEW x \in R!Slots \ {q}, Newest(ds[x])  PROVE Newest(cs[x]) /\ ~new
  BY <1>1 DEF Turns, Like, Newest, Chooses
<1> QED BY <1>1 DEF OneNewest

-----------------------------------------------------------------------------
(* Records: the calls after a step.                                        *)

LEMMA NoneIsNewer ==
    /\ ~Newest(None) /\ OwnCall(None) /\ \A p : UnnamedCall(None, p) /\ UnbornCall(None, p)
BY DEF Newest, Chooses, OwnCall, UnnamedCall, UnbornCall

LEMMA SetTurns ==
    ASSUME GoodRecordCalls(rCalls), NEW q \in R!Slots, NEW d,
           rCalls' = [rCalls EXCEPT ![q] = d]
    PROVE  rCalls'[q] = d /\ Turns(rCalls, rCalls', q, FALSE)
<1>1. rCalls'[q] = d /\ \A x \in R!Slots \ {q} : rCalls'[x] = rCalls[x]
  BY DEF GoodRecordCalls
<1>2. \A x \in R!Slots : rCalls[x] # None => rCalls[x].old \in BOOLEAN
  BY DEF GoodRecordCalls, GoodSlot, R!Call
<1> QED BY <1>1, <1>2 DEF Turns, Like

LEMMA DoneTurns ==
    ASSUME GoodRecordCalls(rCalls), NEW q \in R!Slots, rCalls' = R!Done(q)
    PROVE  rCalls'[q] = None /\ Turns(rCalls, rCalls', q, FALSE)
BY SetTurns DEF R!Done

LEMMA GoesTurns ==
    ASSUME GoodRecordCalls(rCalls), NEW q \in R!Slots, NEW d, NEW a, NEW b, Goes(q, d, a, b)
    PROVE  rCalls'[q] = d /\ Turns(rCalls, rCalls', q, FALSE)
BY SetTurns DEF Goes

LEMMA RequestTurns ==
    ASSUME GoodRecordCalls(rCalls), NEW c, NEW q \in R!Slots, AsksFor(q, c)
    PROVE  /\ rCalls[q] = None /\ rCalls'[q] = c
           /\ Turns(rCalls, rCalls', q, c.op = "setActive")
<1>1. \A x \in R!Slots : rCalls[x] # None => rCalls[x].old \in BOOLEAN
  BY DEF GoodRecordCalls, GoodSlot, R!Call
<1> QED BY <1>1 DEF AsksFor, Turns, OthersLike

LEMMA FlagsTurn ==
    ASSUME GoodRecordCalls(rCalls), rCalls' \in {R!Unmounted, R!Moved(rCalls)},
           NEW q \in R!Slots
    PROVE  /\ Turns(rCalls, rCalls', q, FALSE) /\ Like(rCalls[q], rCalls'[q])
           /\ Newest(rCalls'[q]) => Newest(rCalls[q])
<1>1. PICK u \in {R!Unmounted, R!Moved(rCalls)} : u = rCalls'
  OBVIOUS
<1>2. /\ AllLike(rCalls, u)
      /\ \A x \in R!Slots : rCalls[x] # None => u[x].old = rCalls[x].old
  BY FlagsSound
<1>3. \A x \in R!Slots : rCalls[x] # None => rCalls[x].old \in BOOLEAN
  BY DEF GoodRecordCalls, GoodSlot, R!Call
<1> QED BY <1>1, <1>2, <1>3 DEF Turns, AllLike, Like, Newest, Chooses

LEMMA ActivatesTurns ==
    ASSUME GoodRecordCalls(rCalls), NEW rec, NEW in, GoodRecordCalls(in), NEW q \in R!Slots,
           in[q] = None, OthersLike(rCalls, in, q),
           \A x \in R!Slots \ {q} : rCalls[x] # None => in[x].old = rCalls[x].old,
           Activates(rec, in, q)
    PROVE  Chosen(rec, q)
<1>1. \A x \in R!Slots : rCalls[x] # None => rCalls[x].old \in BOOLEAN
  BY DEF GoodRecordCalls, GoodSlot, R!Call
<1>2. CASE rCalls' = in /\ overlap' = overlap
  BY <1>1, <1>2 DEF Chosen, Turns, OthersLike
<1>3. CASE ~(rCalls' = in /\ overlap' = overlap)
  <2>1. /\ rec # None /\ rec.to \in Profiles /\ known.p[rec.to] # None
        /\ rCalls' = Made(in, q, R!SetActiveCall(rec.to))
    BY <1>3 DEF Activates
  <2>2. PICK c : c = R!SetActiveCall(rec.to)
    OBVIOUS
  <2>3. /\ GoodSlot(c) /\ c # None /\ Asked(c) /\ c.op = "setActive" /\ c.id = None
        /\ c.to = rec.to
    BY <2>1, <2>2, SetActiveCallIs
  <2>4. /\ rCalls'[q] = c /\ OthersLike(in, rCalls', q)
        /\ \A x \in R!Slots \ {q} : in[x] # None =>
              rCalls'[x].old = (in[x].old \/ (in[x].op = "setActive" /\ c.op = "setActive"))
    BY <2>1, <2>2, <2>3, MadeSound
  <2>5. Turns(rCalls, rCalls', q, TRUE)
    <3> SUFFICES ASSUME NEW x \in R!Slots \ {q}
                 PROVE  /\ Like(rCalls[x], rCalls'[x])
                        /\ rCalls[x] # None =>
                              rCalls'[x].old = (rCalls[x].old \/ (rCalls[x].op = "setActive" /\ TRUE))
      BY DEF Turns
    <3>1. Like(rCalls[x], in[x]) /\ Like(in[x], rCalls'[x])
      BY <2>4 DEF OthersLike
    <3>2. Like(rCalls[x], rCalls'[x])
      BY <3>1 DEF Like
    <3>3. ASSUME rCalls[x] # None
          PROVE  rCalls'[x].old = (rCalls[x].old \/ (rCalls[x].op = "setActive" /\ TRUE))
      <4>1. in[x] # None /\ in[x].op = rCalls[x].op /\ in[x].old = rCalls[x].old
        BY <3>1, <3>3 DEF Like
      <4> QED BY <2>3, <2>4, <4>1
    <3> QED BY <3>2, <3>3
  <2> QED BY <2>1, <2>3, <2>4, <2>5 DEF Chosen
<1> QED BY <1>2, <1>3

-----------------------------------------------------------------------------
(* Records: the steps of a call keep to Base.                              *)

LEMMA ReadBase ==
    ASSUME Base, NEW q \in R!Slots, R!Read(q)
    PROVE  Base' /\ \A p \in Profiles : Unnamed(p) => Unnamed(p)'
<1>1. RecordsTyped'
  BY ReadTyped DEF Base
<1>2. PICK d : /\ Goes(q, d, "asked", "read") /\ Kept(rCalls[q], d)
               /\ d.p \in {None, file.p} /\ d.r \in {None, file.r}
               /\ d.active \in {None, file.active}
               /\ d.op \in OnP => d.p = file.p
               /\ d.op \in OnR => d.r = file.r
               /\ d.op # "setActive"
  BY ReadIs DEF Base, RecordsTyped
<1>3. rCalls'[q] = d /\ Turns(rCalls, rCalls', q, FALSE)
  BY <1>2, GoesTurns DEF Base, RecordsTyped
<1>4. UNCHANGED <<file, fresh, known, repo, selected, rScreen, ready, pForm, rForm, follow,
                  crossed>>
  BY DEF R!Read, R!OnlyCalls
<1>5. d.op = rCalls[q].op /\ d.id = rCalls[q].id /\ d.data = rCalls[q].data /\ d.to = rCalls[q].to
      /\ rCalls[q] # None
  BY <1>2 DEF Kept, Goes
<1>6. OwnInv'
  <2>1. ~crossed => OwnCall(d)
    BY <1>2, <1>5 DEF Base, OwnInv, OwnCalls, OwnCall, HasP
  <2>2. ~crossed => OwnCalls(rCalls')
    BY <1>3, <2>1, TurnsKeep DEF Base, OwnInv
  <2> QED BY <1>4, <2>2 DEF Base, OwnInv, OwnForm
<1>7. StartCalls(rCalls', ready') /\ StartScreens'
  <2>1. IF ready THEN d.op # "loadRepos" ELSE d.op \in Listings
    BY <1>5 DEF Base, StartCalls
  <2>2. StartCalls(rCalls', ready)
    BY <1>3, <2>1, StartCallsKept DEF Base
  <2> QED BY <1>4, <2>2 DEF Base, StartScreens
<1>8. OneNewest(rCalls')
  BY <1>2, <1>3, OneNewestKept DEF Base, Newest, Chooses
<1>9. ASSUME NEW p \in Profiles, Unnamed(p)  PROVE Unnamed(p)'
  <2>1. UnnamedCall(d, p)
    BY <1>2, <1>5, <1>9, NoneIsNoRecord
       DEF Unnamed, UnnamedCalls, UnnamedCall, UnnamedStores, HasR, Goes
  <2>2. UnnamedCalls(rCalls', p)
    BY <1>3, <1>9, <2>1, TurnsKeep DEF Unnamed
  <2> QED BY <1>4, <1>9, <2>2 DEF Unnamed
<1>10. ASSUME NEW p \in fresh  PROVE Unborn(p)'
  <2>1. p \in Profiles /\ Unborn(p)
    BY DEF Base, RecordsTyped
  <2>2. UnbornCall(d, p)
    BY <1>2, <2>1 DEF Unborn, UnbornCall, HasP, Goes
  <2>3. UnbornCalls(rCalls', p)
    BY <1>3, <2>1, <2>2, TurnsKeep DEF Unborn
  <2> QED BY <1>4, <1>9, <2>1, <2>3 DEF Unborn
<1> QED BY <1>1, <1>4, <1>6, <1>7, <1>8, <1>9, <1>10 DEF Base

LEMMA WriteProfileBase ==
    ASSUME Base, NEW q \in R!Slots, R!WriteProfile(q)
    PROVE  Base' /\ \A p \in Profiles : Unnamed(p) => Unnamed(p)'
<1>1. RecordsTyped'
  BY WriteProfileTyped DEF Base
<1>2. PICK c : c = rCalls[q]
  OBVIOUS
<1>3. PICK d, b :
        /\ c.op \in R!OnProfiles /\ Goes(q, d, "read", b) /\ b \in {"cascade", "written"}
        /\ d.op = c.op /\ d.data = c.data /\ d.to = c.to /\ d.old = c.old
        /\ d.r = c.r /\ d.active = c.active
        /\ d.id \in Profiles /\ fresh' = fresh \ {d.id}
        /\ IF c.op \in R!Creates THEN d.id \in fresh ELSE d.id = c.id
        /\ \A x \in Profiles \ {d.id} : d.p[x] = c.p[x]
        /\ Written(c, d.id, d.p[d.id])
        /\ b = "written" => c.op # "deleteProfile"
        /\ file'.p = d.p /\ file'.r = file.r /\ file'.active = file.active
  BY <1>2, WriteProfileIs DEF Base, RecordsTyped
<1>4. rCalls'[q] = d /\ Turns(rCalls, rCalls', q, FALSE)
  BY <1>3, GoesTurns DEF Base, RecordsTyped
<1>5. UNCHANGED <<known, repo, selected, rScreen, ready, pForm, rForm, follow, crossed>>
  BY DEF R!WriteProfile
<1>6. /\ c # None /\ d # None /\ c.at = "read" /\ HasP(c) /\ ~HasR(d)
      /\ c.op \notin Listings /\ c.op # "setActive"
  BY <1>2, <1>3 DEF Goes, HasP, HasR, OnP, OnR, R!OnRepos, R!OnProfiles, R!Creates, Listings
<1>7. OwnInv'
  <2> SUFFICES ASSUME ~crossed PROVE Own(file'.p) /\ OwnCalls(rCalls') /\ OwnForm'
    BY <1>5 DEF OwnInv
  <2>1. OwnCall(c) /\ Own(c.p) /\ OwnForm
    BY <1>2, <1>6 DEF Base, OwnInv, OwnCalls, OwnCall
  <2>2. d.p[d.id] # None => d.p[d.id].of = d.id
    <3>1. CASE c.op \in R!Creates
      BY <1>3, <3>1 DEF Written
    <3>2. CASE c.op = "updateProfile"
      BY <1>3, <1>6, <2>1, <3>2 DEF Written, OwnCall, R!Creates
    <3>3. CASE c.op \in {"authorized", "disconnect"}
      <4>1. c.p[c.id] # None
        BY <1>2, <1>6, <3>3
           DEF Base, RecordsTyped, GoodRecordCalls, GoodSlot, Shaped, R!OnProfiles, R!Creates
      <4>2. d.id = c.id
        BY <1>3, <3>3 DEF R!Creates
      <4> QED BY <1>3, <2>1, <3>3, <4>1, <4>2 DEF Written, Own
    <3>4. CASE c.op = "deleteProfile"
      BY <1>3, <3>4 DEF Written
    <3> QED BY <1>3, <3>1, <3>2, <3>3, <3>4 DEF R!OnProfiles
  <2>3. Own(d.p)
    BY <1>3, <2>1, <2>2 DEF Own
  <2>4. c.op = "updateProfile" => d.id = c.id
    BY <1>3 DEF R!Creates
  <2>5. OwnCall(d)
    BY <1>3, <1>6, <2>1, <2>3, <2>4 DEF OwnCall
  <2>6. OwnCalls(rCalls')
    BY <1>4, <2>5, TurnsKeep DEF Base, OwnInv
  <2> QED BY <1>3, <1>5, <2>1, <2>3, <2>6 DEF OwnForm
<1>8. StartCalls(rCalls', ready') /\ StartScreens'
  <2>1. ready
    BY <1>2, <1>6 DEF Base, StartCalls
  <2>2. IF ready THEN d.op # "loadRepos" ELSE d.op \in Listings
    BY <1>3, <1>6, <2>1 DEF Listings
  <2>3. StartCalls(rCalls', ready)
    BY <1>4, <2>2, StartCallsKept DEF Base
  <2> QED BY <1>5, <2>1, <2>3 DEF StartScreens
<1>9. OneNewest(rCalls')
  BY <1>3, <1>4, <1>6, OneNewestKept DEF Base, Newest, Chooses
<1>10. ASSUME NEW p \in Profiles, Unnamed(p)  PROVE Unnamed(p)'
  <2>1. UnnamedCall(d, p)
    BY <1>2, <1>3, <1>6, <1>10 DEF Unnamed, UnnamedCalls, UnnamedCall
  <2>2. UnnamedCalls(rCalls', p)
    BY <1>4, <1>10, <2>1, TurnsKeep DEF Unnamed
  <2> QED BY <1>3, <1>5, <1>10, <2>2 DEF Unnamed, UnnamedStores
<1>11. ASSUME NEW p \in fresh'  PROVE Unborn(p)'
  <2>1. p \in Profiles /\ p # d.id /\ Unborn(p)
    BY <1>3 DEF Base, RecordsTyped
  <2>2. d.p[p] = None
    BY <1>2, <1>3, <1>6, <2>1 DEF Unborn, UnbornCalls, UnbornCall
  <2>3. UnbornCall(d, p)
    BY <2>1, <2>2 DEF UnbornCall
  <2>4. UnbornCalls(rCalls', p)
    BY <1>4, <2>1, <2>3, TurnsKeep DEF Unborn
  <2> QED BY <1>3, <1>10, <2>1, <2>2, <2>4 DEF Unborn
<1> QED BY <1>1, <1>7, <1>8, <1>9, <1>10, <1>11 DEF Base

\* A step of a call that changes neither its record nor the profiles.
LEMMA StageBase ==
    ASSUME Base, RecordsTyped', NEW q \in R!Slots, NEW d, NEW a, NEW b,
           Goes(q, d, a, b), Kept(rCalls[q], d), d.op # "setActive",
           UNCHANGED <<fresh, repo, selected, rScreen, ready, pForm, rForm, crossed>>,
           follow' \in {None, follow},
           \A p \in Profiles : known.p[p] = None => known'.p[p] = None,
           known'.r = known.r, known'.active \in {None, known.active},
           file'.p = file.p, file'.active = file.active,
           \A p \in Profiles : ~AssignsTo(file.r, p) /\ UnnamedCall(rCalls[q], p) =>
               ~AssignsTo(file'.r, p),
           HasP(d) => d.p = file.p \/ (d.p = rCalls[q].p /\ HasP(rCalls[q])),
           HasR(d) => d.r = file'.r \/ (d.r = rCalls[q].r /\ HasR(rCalls[q])),
           d.active \in {rCalls[q].active, file.active},
           d.at = "written" => d.op \notin R!Creates
    PROVE  Base' /\ \A p \in Profiles : Unnamed(p) => Unnamed(p)'
<1>1. rCalls'[q] = d /\ Turns(rCalls, rCalls', q, FALSE)
  BY GoesTurns DEF Base, RecordsTyped
<1>2. PICK c : c = rCalls[q] /\ c # None /\ d # None
  BY DEF Goes
<1>3. d.op = c.op /\ d.id = c.id /\ d.data = c.data /\ d.to = c.to
  BY <1>2 DEF Kept
<1>4. OwnInv'
  <2>1. ~crossed => OwnCall(d)
    BY <1>2, <1>3 DEF Base, OwnInv, OwnCalls, OwnCall
  <2>2. ~crossed => OwnCalls(rCalls')
    BY <1>1, <2>1, TurnsKeep DEF Base, OwnInv
  <2> QED BY <2>2 DEF Base, OwnInv, OwnForm
<1>5. StartCalls(rCalls', ready') /\ StartScreens'
  <2>1. IF ready THEN d.op # "loadRepos" ELSE d.op \in Listings
    BY <1>2, <1>3 DEF Base, StartCalls
  <2>2. StartCalls(rCalls', ready)
    BY <1>1, <2>1, StartCallsKept DEF Base
  <2> QED BY <2>2 DEF Base, StartScreens
<1>6. OneNewest(rCalls')
  BY <1>1, OneNewestKept DEF Base, Newest, Chooses
<1>7. ASSUME NEW p \in Profiles, Unnamed(p)  PROVE Unnamed(p)'
  <2>1. UnnamedCall(c, p) /\ p # file.active /\ ~AssignsTo(file.r, p)
    BY <1>2, <1>7 DEF Unnamed, UnnamedCalls, UnnamedStores
  <2>2. ~AssignsTo(file'.r, p)
    BY <1>2, <2>1
  <2>3. UnnamedCall(d, p)
    BY <1>2, <1>3, <2>1, <2>2 DEF UnnamedCall
  <2>4. UnnamedCalls(rCalls', p)
    BY <1>1, <1>7, <2>3, TurnsKeep DEF Unnamed
  <2> QED BY <1>7, <2>2, <2>4, NoneIsNoRecord DEF Unnamed, UnnamedStores
<1>8. ASSUME NEW p \in fresh  PROVE Unborn(p)'
  <2>1. p \in Profiles /\ Unborn(p)
    BY DEF Base, RecordsTyped
  <2>2. UnbornCall(d, p)
    BY <1>2, <1>3, <2>1 DEF Unborn, UnbornCalls, UnbornCall
  <2>3. UnbornCalls(rCalls', p)
    BY <1>1, <2>1, <2>2, TurnsKeep DEF Unborn
  <2> QED BY <1>7, <2>1, <2>3 DEF Unborn
<1> QED BY <1>4, <1>5, <1>6, <1>7, <1>8 DEF Base

LEMMA CascadeBase ==
    ASSUME Base, NEW q \in R!Slots, R!Cascade(q)
    PROVE  Base' /\ \A p \in Profiles : Unnamed(p) => Unnamed(p)'
<1>1. RecordsTyped'
  BY CascadeTyped DEF Base
<1>2. PICK d : /\ Goes(q, d, "cascade", "pruning") /\ Kept(rCalls[q], d)
               /\ d.op = "deleteProfile" /\ d.p = file.p /\ d.r = file.r
               /\ d.active = rCalls[q].active
  BY CascadeIs DEF Base, RecordsTyped
<1>3. UNCHANGED <<file, fresh, known, repo, selected, rScreen, ready, pForm, rForm, follow,
                  crossed>>
  BY DEF R!Cascade, R!OnlyCalls
<1>4. d.at = "pruning"
  BY <1>2 DEF Goes
<1> QED BY <1>1, <1>2, <1>3, <1>4, StageBase

LEMMA PruneBase ==
    ASSUME Base, NEW q \in R!Slots, R!Prune(q)
    PROVE  Base' /\ \A p \in Profiles : Unnamed(p) => Unnamed(p)'
<1>1. RecordsTyped'
  BY PruneTyped DEF Base
<1>2. PICK d : /\ Goes(q, d, "pruning", "written") /\ Kept(rCalls[q], d)
               /\ d.op = "deleteProfile" /\ d.p = rCalls[q].p /\ d.r = rCalls[q].r
               /\ d.active = rCalls[q].active /\ rCalls[q].r \in R!ReposFile
               /\ file'.p = file.p /\ file'.active = file.active
               /\ \/ file' = file /\ R!Pruned(d.r, d.p) = d.r
                  \/ file'.r = R!Pruned(d.r, d.p)
  BY PruneIs DEF Base, RecordsTyped
<1>3. UNCHANGED <<fresh, known, repo, selected, rScreen, ready, pForm, rForm, follow, crossed>>
  BY DEF R!Prune, R!OnlyCalls
<1>4. /\ rCalls[q] # None /\ rCalls[q].op = "deleteProfile" /\ rCalls[q].at = "pruning"
      /\ d.at = "written"
  BY <1>2 DEF Goes, Kept
<1>5. HasP(rCalls[q]) /\ HasR(rCalls[q]) /\ d.op \notin R!Creates
  BY <1>2, <1>4 DEF HasP, HasR, OnP, R!OnProfiles, R!Creates
<1>6. ASSUME NEW p \in Profiles, ~AssignsTo(file.r, p), UnnamedCall(rCalls[q], p)
      PROVE  ~AssignsTo(file'.r, p)
  <2>1. CASE file' = file
    BY <1>6, <2>1
  <2>2. CASE file'.r = R!Pruned(d.r, d.p)
    <3>1. PICK s : s = R!Pruned(d.r, d.p)
      OBVIOUS
    <3>2. \A x \in Repos : /\ s[x] = None <=> d.r[x] = None
                           /\ d.r[x] # None => s[x].to \in {None, d.r[x].to}
      BY <1>2, <3>1, PrunedTyped
    <3>3. ~AssignsTo(d.r, p)
      BY <1>2, <1>4, <1>5, <1>6 DEF UnnamedCall
    <3> QED BY <2>2, <3>1, <3>2, <3>3, NoneIsNoRecord DEF AssignsTo
  <2> QED BY <1>2, <2>1, <2>2
<1> QED BY <1>1, <1>2, <1>3, <1>5, <1>6, StageBase

LEMMA WriteRepoBase ==
    ASSUME Base, NEW q \in R!Slots, R!WriteRepo(q)
    PROVE  Base' /\ \A p \in Profiles : Unnamed(p) => Unnamed(p)'
<1>1. RecordsTyped'
  BY WriteRepoTyped DEF Base
<1>2. PICK d : /\ Goes(q, d, "read", "written") /\ Kept(rCalls[q], d)
               /\ d.op \in R!OnRepos /\ d.id \in Repos
               /\ d.p = rCalls[q].p /\ d.r = rCalls[q].r /\ d.active = rCalls[q].active
               /\ file'.p = file.p /\ file'.active = file.active
               /\ \A x \in Repos \ {d.id} : file'.r[x] = d.r[x]
               /\ file'.r[d.id] = IF d.op = "removeRepo" THEN None ELSE [id |-> d.id, to |-> d.to]
  BY WriteRepoIs DEF Base, RecordsTyped
<1>3. UNCHANGED <<fresh, known, repo, selected, rScreen, ready, pForm, rForm, follow, crossed>>
  BY DEF R!WriteRepo, R!OnlyCalls
<1>4. /\ rCalls[q] # None /\ rCalls[q].op = d.op /\ rCalls[q].at = "read" /\ rCalls[q].to = d.to
  BY <1>2 DEF Goes, Kept
<1>5. HasR(rCalls[q]) /\ d.op \notin R!Creates /\ d.op # "setActive" /\ ~HasP(d)
  BY <1>2, <1>4 DEF HasP, HasR, OnP, OnR, R!OnProfiles, R!Creates, R!OnRepos
<1>6. ASSUME NEW p \in Profiles, ~AssignsTo(file.r, p), UnnamedCall(rCalls[q], p)
      PROVE  ~AssignsTo(file'.r, p)
  <2>1. ~AssignsTo(d.r, p) /\ d.to # p
    BY <1>2, <1>4, <1>5, <1>6 DEF UnnamedCall
  <2> QED BY <1>2, <2>1 DEF AssignsTo
<1> QED BY <1>1, <1>2, <1>3, <1>5, <1>6, StageBase

LEMMA DisconnectedBase ==
    ASSUME Base, NEW q \in R!Slots, R!Disconnected(q)
    PROVE  Base' /\ \A p \in Profiles : Unnamed(p) => Unnamed(p)'
<1>1. RecordsTyped'
  BY DisconnectedTyped DEF Base
<1>2. PICK d : /\ Goes(q, d, "written", "listing") /\ Kept(rCalls[q], d)
               /\ d.op = "disconnect" /\ d.p = file.p /\ d.r = rCalls[q].r
               /\ d.active = file.active
  BY DisconnectedIs DEF Base, RecordsTyped
<1>3. UNCHANGED <<file, fresh, repo, selected, rScreen, ready, pForm, rForm, follow, crossed>>
  BY DEF R!Disconnected
<1>4. known'.p = known.p /\ known'.r = known.r /\ known'.active = known.active
  BY DEF R!Disconnected, Base, RecordsTyped, KnownState
<1>5. d.at = "listing" /\ ~HasR(d)
  BY <1>2 DEF Goes, HasR, OnR, R!OnRepos
<1> QED BY <1>1, <1>2, <1>3, <1>4, <1>5, StageBase

LEMMA DeletedBase ==
    ASSUME Base, NEW q \in R!Slots, R!Deleted(q)
    PROVE  Base' /\ \A p \in Profiles : Unnamed(p) => Unnamed(p)'
<1>1. RecordsTyped'
  BY DeletedTyped DEF Base
<1>2. PICK d : /\ Goes(q, d, "written", "listing") /\ Kept(rCalls[q], d)
               /\ d.op = "deleteProfile" /\ d.id \in Profiles
               /\ d.p = rCalls[q].p /\ d.r = file.r
               /\ d.active = rCalls[q].active
  BY DeletedIs DEF Base, RecordsTyped
<1>3. UNCHANGED <<file, fresh, repo, selected, rScreen, ready, pForm, rForm, crossed>>
  BY DEF R!Deleted
<1>4. d.at = "listing" /\ rCalls[q].op = d.op /\ rCalls[q].at = "written" /\ rCalls[q].id = d.id
  BY <1>2 DEF Goes, Kept
<1>5. /\ \A p \in Profiles : known.p[p] = None => known'.p[p] = None
      /\ known'.r = known.r /\ known'.active \in {None, known.active}
  BY <1>2, <1>4 DEF R!Deleted, Base, RecordsTyped, KnownState, R!ProfilesFile
<1>6. follow' \in {None, follow}
  BY DEF R!Deleted
<1>7. HasP(rCalls[q])
  BY <1>2, <1>4 DEF HasP, OnP, R!OnProfiles, R!Creates
<1> QED BY <1>1, <1>2, <1>3, <1>4, <1>5, <1>6, <1>7, StageBase

-----------------------------------------------------------------------------
(* Records: the other steps keep to Base.                                  *)

\* A step that changes the call of one slot, for the profiles of T.
LEMMA TurnBase ==
    ASSUME Base, RecordsTyped', NEW q \in R!Slots, NEW new, Turns(rCalls, rCalls', q, new),
           OneNewest(rCalls'), NEW T,
           ~crossed' => ~crossed /\ Own(file'.p) /\ OwnForm' /\ OwnCall(rCalls'[q]),
           StartCalls(rCalls', ready'), StartScreens', fresh' \subseteq fresh,
           \A p \in T : Unnamed(p) =>
               /\ UnnamedStores(file', known', p) /\ UnnamedForm(rForm', p)
               /\ UnnamedCall(rCalls'[q], p),
           \A p \in fresh' : Unborn(p) =>
               p \in T /\ file'.p[p] = None /\ UnbornCall(rCalls'[q], p)
    PROVE  Base' /\ \A p \in T : Unnamed(p) => Unnamed(p)'
<1>1. OwnInv'
  <2>1. ~crossed' => OwnCalls(rCalls')
    BY TurnsKeep DEF Base, OwnInv
  <2> QED BY <2>1 DEF OwnInv
<1>2. ASSUME NEW p \in T, Unnamed(p)  PROVE Unnamed(p)'
  <2>1. UnnamedCalls(rCalls', p)
    BY <1>2, TurnsKeep DEF Unnamed
  <2> QED BY <1>2, <2>1 DEF Unnamed
<1>3. ASSUME NEW p \in fresh'  PROVE Unborn(p)'
  <2>1. Unborn(p)
    BY DEF Base
  <2>2. UnbornCalls(rCalls', p)
    BY <2>1, TurnsKeep DEF Unborn
  <2> QED BY <1>2, <2>1, <2>2 DEF Unborn
<1> QED BY <1>1, <1>2, <1>3 DEF Base

\* A call is answered: it and its record go.
LEMMA DoneBase ==
    ASSUME Base, RecordsTyped', NEW q \in R!Slots, rCalls' = R!Done(q), NEW T,
           ~crossed' => ~crossed /\ Own(file'.p) /\ OwnForm',
           StartCalls(rCalls', ready'), StartScreens', fresh' = fresh, file'.p = file.p,
           \A p \in T : Unnamed(p) => UnnamedStores(file', known', p) /\ UnnamedForm(rForm', p),
           fresh \subseteq T
    PROVE  Base' /\ \A p \in T : Unnamed(p) => Unnamed(p)'
<1>1. rCalls'[q] = None /\ Turns(rCalls, rCalls', q, FALSE)
  BY DoneTurns DEF Base, RecordsTyped
<1>2. OneNewest(rCalls')
  BY <1>1, OneNewestKept, NoneIsNewer DEF Base
<1>3. OwnCall(rCalls'[q]) /\ \A p : UnnamedCall(rCalls'[q], p) /\ UnbornCall(rCalls'[q], p)
  BY <1>1, NoneIsNewer
<1>4. \A p \in fresh' : Unborn(p) => p \in T /\ file'.p[p] = None
  BY DEF Unborn
<1> QED BY <1>1, <1>2, <1>3, <1>4, TurnBase

LEMMA DoneStarts ==
    ASSUME Base, NEW q \in R!Slots, rCalls' = R!Done(q)
    PROVE  StartCalls(rCalls', ready)
<1>1. rCalls'[q] = None /\ Turns(rCalls, rCalls', q, FALSE)
  BY DoneTurns DEF Base, RecordsTyped
<1> QED BY <1>1, StartCallsKept DEF Base

\* A call that is neither a listing nor made before the lists are loaded.
LEMMA ReadyNow ==
    ASSUME Base, NEW q \in R!Slots, rCalls[q] # None, rCalls[q].op \notin Listings
    PROVE  ready
BY DEF Base, StartCalls

\* A profile that is still to be created, or whose creation is answered now, was its own.
LEMMA FreshApart ==
    ASSUME Base, NEW q \in R!Slots, rCalls[q] # None, rCalls[q].op \in R!Creates,
           rCalls[q].at = "written"
    PROVE  rCalls[q].id \notin fresh
BY DEF Base, Unborn, UnbornCalls, UnbornCall

LEMMA CreatedBase ==
    ASSUME Base, NEW q \in R!Slots, R!Created(q)
    PROVE  Base' /\ \A p \in Profiles \ {rCalls[q].id} : Unnamed(p) => Unnamed(p)'
<1>1. RecordsTyped'
  BY CreatedTyped DEF Base
<1>2. PICK c : c = rCalls[q] /\ c # None /\ c.op \in R!Creates /\ c.at = "written"
               /\ crossed' = (crossed \/ c.moved \/ ~c.here)
  BY DEF R!Created, R!At
<1>3. c \in R!Call /\ Shaped(c) /\ c.id \in Profiles
  BY <1>2 DEF Base, RecordsTyped, GoodRecordCalls, GoodSlot, Shaped
<1>4. /\ UNCHANGED <<file, fresh, repo, rScreen, ready, rForm, follow, overlap>>
      /\ rCalls' = R!Done(q)
      /\ known' = [known EXCEPT !.p[c.id] = c.p[c.id]] /\ selected' = c.id
      /\ pForm' = IF ~c.here THEN pForm
                  ELSE [mode |-> "edit", of |-> IF c.moved THEN pForm.of ELSE c.id,
                        saving |-> FALSE, connecting |-> c.op = "connectNew" \/ pForm.connecting]
  BY <1>2 DEF R!Created
<1>5. ready
  BY <1>2, ReadyNow DEF Listings, R!Creates
<1>6. ~crossed' => ~crossed /\ c.here /\ ~c.moved
  BY <1>2, <1>3 DEF Base, RecordsTyped, R!Call
<1>7. ~crossed' => ~crossed /\ Own(file'.p) /\ OwnForm'
  <2> SUFFICES ASSUME ~crossed' PROVE ~crossed /\ Own(file'.p) /\ OwnForm'
    OBVIOUS
  <2>1. pForm'.of = c.id
    BY <1>4, <1>6
  <2> QED BY <1>4, <1>6, <2>1 DEF Base, OwnInv, OwnForm
<1>8. StartCalls(rCalls', ready') /\ StartScreens'
  BY <1>4, <1>5, DoneStarts DEF StartScreens
<1>9. /\ known'.r = known.r /\ known'.active = known.active
      /\ \A p \in Profiles \ {c.id} : known'.p[p] = known.p[p]
  BY <1>3, <1>4 DEF Base, RecordsTyped, KnownState, R!ProfilesFile
<1>10. \A p \in Profiles \ {c.id} : Unnamed(p) => UnnamedStores(file', known', p) /\ UnnamedForm(rForm', p)
  BY <1>4, <1>9 DEF Unnamed, UnnamedStores
<1>11. fresh \subseteq Profiles \ {c.id}
  BY <1>2, FreshApart DEF Base, RecordsTyped
<1> QED BY <1>1, <1>2, <1>4, <1>7, <1>8, <1>10, <1>11, DoneBase

\* An answer that leaves the profiles, the repositories and their files alone, or names less.
LEMMA AnswerBase ==
    ASSUME Base, RecordsTyped', NEW q \in R!Slots, rCalls' = R!Done(q),
           crossed' = crossed, OwnForm => OwnForm',
           ready, ready' = ready, fresh' = fresh, file'.p = file.p,
           \A p \in Profiles : Unnamed(p) => UnnamedStores(file', known', p) /\ UnnamedForm(rForm', p)
    PROVE  Base' /\ \A p \in Profiles : Unnamed(p) => Unnamed(p)'
<1>1. StartCalls(rCalls', ready') /\ StartScreens'
  BY DoneStarts DEF StartScreens
<1>2. ~crossed' => ~crossed /\ Own(file'.p) /\ OwnForm'
  BY DEF Base, OwnInv
<1>3. fresh \subseteq Profiles
  BY DEF Base, RecordsTyped
<1> QED BY <1>1, <1>2, <1>3, DoneBase

LEMMA UpdatedBase ==
    ASSUME Base, NEW q \in R!Slots, R!Updated(q)
    PROVE  Base' /\ \A p \in Profiles : Unnamed(p) => Unnamed(p)'
<1>1. RecordsTyped'
  BY UpdatedTyped DEF Base
<1>2. PICK c : c = rCalls[q] /\ c # None /\ c.op \in {"updateProfile", "authorized"}
  BY DEF R!Updated, R!At
<1>3. /\ UNCHANGED <<file, fresh, repo, selected, rScreen, ready, rForm, follow, overlap, crossed>>
      /\ rCalls' = R!Done(q)
      /\ known' = [known EXCEPT !.p[c.id] = IF @ = None THEN @ ELSE c.p[c.id]]
      /\ pForm' = IF c.op = "updateProfile" THEN R!Saved(pForm, c) ELSE pForm
  BY <1>2 DEF R!Updated
<1>4. ready
  BY <1>2, ReadyNow DEF Listings
<1>5. c.id \in Profiles
  BY <1>2 DEF Base, RecordsTyped, GoodRecordCalls, GoodSlot, Shaped, R!OnProfiles, R!Creates
<1>6. /\ known'.r = known.r /\ known'.active = known.active
      /\ \A p \in Profiles : known.p[p] = None => known'.p[p] = None
  BY <1>3, <1>5 DEF Base, RecordsTyped, KnownState, R!ProfilesFile
<1>7. pForm'.mode = pForm.mode /\ pForm'.of = pForm.of
  BY <1>3 DEF R!Saved, Base, RecordsTyped, R!ProfileForm
<1>8. OwnForm => OwnForm'
  BY <1>3, <1>7 DEF OwnForm
<1>9. \A p \in Profiles : Unnamed(p) => UnnamedStores(file', known', p) /\ UnnamedForm(rForm', p)
  BY <1>3, <1>6 DEF Unnamed, UnnamedStores
<1> QED BY <1>1, <1>3, <1>4, <1>8, <1>9, AnswerBase

LEMMA DeleteEndsBase ==
    ASSUME Base, NEW q \in R!Slots, NEW ok \in BOOLEAN, R!DeleteEnds(q, ok)
    PROVE  Base' /\ \A p \in Profiles : Unnamed(p) => Unnamed(p)'
<1>1. RecordsTyped'
  BY DeleteEndsTyped DEF Base
<1>2. PICK c : c = rCalls[q] /\ c # None /\ c.op = "deleteProfile" /\ c.at = "listing"
  BY DEF R!DeleteEnds, R!At
<1>3. /\ UNCHANGED <<file, fresh, repo, rScreen, ready, rForm, follow, overlap, crossed>>
      /\ rCalls' = R!Done(q) /\ selected' = None
      /\ known' = [known EXCEPT !.r = IF ok THEN c.r ELSE @, !.error = ~ok]
  BY <1>2 DEF R!DeleteEnds
<1>4. ready
  BY <1>2, ReadyNow DEF Listings
<1>5. /\ known'.p = known.p /\ known'.active = known.active
      /\ known'.r \in {known.r, c.r}
  BY <1>3 DEF Base, RecordsTyped, KnownState
<1>6. OwnForm'
  BY <1>3 DEF OwnForm
<1>7. HasR(c)
  BY <1>2 DEF HasR
<1>8. \A p \in Profiles : Unnamed(p) => UnnamedStores(file', known', p) /\ UnnamedForm(rForm', p)
  BY <1>2, <1>3, <1>5, <1>7 DEF Unnamed, UnnamedStores, UnnamedCalls, UnnamedCall
<1> QED BY <1>1, <1>3, <1>4, <1>6, <1>8, AnswerBase

\* The lists are loaded once both calls of the start are answered.
LEMMA StartEnds ==
    ASSUME Base, NEW q \in R!Slots, rCalls' = R!Done(q),
           ready' = (ready \/ \A x \in R!Slots : R!Done(q)[x] = None)
    PROVE  StartCalls(rCalls', ready')
<1>1. StartCalls(rCalls', ready)
  BY DoneStarts
<1>2. CASE \A x \in R!Slots : R!Done(q)[x] = None
  BY <1>2 DEF StartCalls
<1>3. CASE ~\A x \in R!Slots : R!Done(q)[x] = None
  <2>1. ready' = ready
    BY <1>3, Zenon DEF Base, RecordsTyped
  <2> QED BY <1>1, <2>1
<1> QED BY <1>2, <1>3

LEMMA ProfilesListedBase ==
    ASSUME Base, NEW q \in R!Slots, R!ProfilesListed(q)
    PROVE  /\ Base'
           /\ \A p \in Profiles : rCalls[q].p[p] = None /\ Unnamed(p) => Unnamed(p)'
<1>1. RecordsTyped'
  BY ProfilesListedTyped DEF Base
<1>2. PICK c : c = rCalls[q] /\ c # None /\ HasP(c) /\ c.op \in {"loadProfiles", "disconnect"}
  BY DEF R!ProfilesListed, R!At, HasP, OnP, R!OnProfiles
<1>3. /\ UNCHANGED <<file, fresh, repo, selected, rForm, overlap, crossed>>
      /\ rCalls' = R!Done(q)
      /\ known' = [known EXCEPT !.p = c.p, !.active = c.active, !.loading = FALSE]
      /\ follow' \in {None, follow}
      /\ pForm' = IF c.op = "disconnect" THEN R!Saved(pForm, c) ELSE pForm
      /\ ready' = (ready \/ \A x \in R!Slots : R!Done(q)[x] = None)
      /\ rScreen' = IF ready' /\ ~ready /\ \A p \in Profiles : c.p[p] = None
                    THEN "profiles" ELSE rScreen
  BY <1>2 DEF R!ProfilesListed
<1>4. StartCalls(rCalls', ready')
  BY <1>3, StartEnds
<1>5. ready => ready'
  BY <1>3, Zenon
<1>6. ASSUME ~ready'
      PROVE  ~ready /\ pForm' = pForm /\ rScreen' = rScreen /\ follow' = follow
  <2>1. ~ready
    BY <1>5, <1>6
  <2>2. c.op \in Listings
    BY <1>2, <2>1 DEF Base, StartCalls
  <2> QED BY <1>3, <1>6, <2>1, <2>2 DEF Listings, Base, StartScreens
<1>7. StartScreens'
  BY <1>3, <1>6 DEF Base, StartScreens
<1>8. pForm'.mode = pForm.mode /\ pForm'.of = pForm.of
  BY <1>3 DEF R!Saved, Base, RecordsTyped, R!ProfileForm
<1>9. ~crossed' => ~crossed /\ Own(file'.p) /\ OwnForm'
  BY <1>3, <1>8 DEF Base, OwnInv, OwnForm
<1>10. known'.p = c.p /\ known'.r = known.r /\ known'.active = c.active
  BY <1>3 DEF Base, RecordsTyped, KnownState
<1>11. PICK T : T = {p \in Profiles : c.p[p] = None}
  OBVIOUS
<1>12. \A p \in T : Unnamed(p) => UnnamedStores(file', known', p) /\ UnnamedForm(rForm', p)
  BY <1>2, <1>3, <1>10, <1>11 DEF Unnamed, UnnamedStores, UnnamedCalls, UnnamedCall
<1>13. fresh \subseteq T
  BY <1>2, <1>11 DEF Base, RecordsTyped, Unborn, UnbornCalls, UnbornCall
<1>14. Base' /\ \A p \in T : Unnamed(p) => Unnamed(p)'
  BY <1>1, <1>3, <1>4, <1>7, <1>9, <1>12, <1>13, DoneBase
<1> QED BY <1>2, <1>11, <1>14

LEMMA ReposListedBase ==
    ASSUME Base, NEW q \in R!Slots, NEW ok \in BOOLEAN, R!ReposListed(q, ok)
    PROVE  Base' /\ \A p \in Profiles : Unnamed(p) => Unnamed(p)'
<1>1. RecordsTyped'
  BY ReposListedTyped DEF Base
<1>2. PICK c : c = rCalls[q] /\ c # None /\ HasR(c)
  BY DEF R!ReposListed, R!At, HasR, OnR
<1>3. /\ UNCHANGED <<file, fresh, repo, selected, pForm, rForm, follow, overlap, crossed>>
      /\ rCalls' = R!Done(q)
      /\ known' = [known EXCEPT !.r = IF ok THEN c.r ELSE @, !.error = ~ok]
      /\ ready' = (ready \/ \A x \in R!Slots : R!Done(q)[x] = None)
      /\ rScreen' = IF ready' /\ ~ready /\ \A p \in Profiles : known.p[p] = None
                    THEN "profiles" ELSE rScreen
  BY <1>2 DEF R!ReposListed
<1>4. StartCalls(rCalls', ready')
  BY <1>3, StartEnds
<1>5. ready => ready'
  BY <1>3, Zenon
<1>6. StartScreens'
  BY <1>3, <1>5 DEF Base, StartScreens
<1>7. ~crossed' => ~crossed /\ Own(file'.p) /\ OwnForm'
  BY <1>3 DEF Base, OwnInv, OwnForm
<1>8. known'.p = known.p /\ known'.active = known.active /\ known'.r \in {known.r, c.r}
  BY <1>3 DEF Base, RecordsTyped, KnownState
<1>9. \A p \in Profiles : Unnamed(p) => UnnamedStores(file', known', p) /\ UnnamedForm(rForm', p)
  BY <1>2, <1>3, <1>8 DEF Unnamed, UnnamedStores, UnnamedCalls, UnnamedCall
<1>10. fresh \subseteq Profiles
  BY DEF Base, RecordsTyped
<1> QED BY <1>1, <1>3, <1>4, <1>6, <1>7, <1>9, <1>10, DoneBase

LEMMA RemovedBase ==
    ASSUME Base, NEW q \in R!Slots, R!Removed(q)
    PROVE  Base' /\ \A p \in Profiles : Unnamed(p) => Unnamed(p)'
<1>1. RecordsTyped'
  BY RemovedTyped DEF Base
<1>2. PICK c : c = rCalls[q] /\ c # None /\ c.op = "removeRepo"
  BY DEF R!Removed, R!At
<1>3. /\ UNCHANGED <<file, fresh, selected, ready, pForm, crossed>>
      /\ rCalls' = R!Done(q)
      /\ known' = [known EXCEPT !.r[c.id] = None]
      /\ rForm' = IF c.here THEN R!Deselected ELSE rForm
  BY <1>2 DEF R!Removed
<1>4. ready
  BY <1>2, ReadyNow DEF Listings
<1>5. c.id \in Repos
  BY <1>2, RecordOfCall DEF Base, R!OnRepos
<1>6. /\ known'.p = known.p /\ known'.active = known.active
      /\ \A x \in Repos : known'.r[x] \in {None, known.r[x]}
  BY <1>3, <1>5 DEF Base, RecordsTyped, KnownState, R!ReposFile
<1>7. rForm'.to = rForm.to /\ rForm'.pending = rForm.pending
  BY <1>3 DEF R!Deselected, Base, RecordsTyped, R!RepoForm
<1>8. OwnForm => OwnForm'
  BY <1>3 DEF OwnForm
<1>9. \A p \in Profiles : Unnamed(p) => UnnamedStores(file', known', p) /\ UnnamedForm(rForm', p)
  BY <1>3, <1>6, <1>7 DEF Unnamed, UnnamedStores, AssignsTo, UnnamedForm
<1> QED BY <1>1, <1>3, <1>4, <1>8, <1>9, AnswerBase

LEMMA ActiveSetBase ==
    ASSUME Base, NEW q \in R!Slots, R!ActiveSet(q)
    PROVE  Base' /\ \A p \in Profiles : Unnamed(p) => Unnamed(p)'
<1>1. RecordsTyped'
  BY ActiveSetTyped DEF Base
<1>2. PICK c : c = rCalls[q] /\ c # None /\ c.op = "setActive"
  BY DEF R!ActiveSet, R!At
<1>3. /\ UNCHANGED <<fresh, selected, ready, pForm, rForm, crossed>>
      /\ rCalls' = R!Done(q)
      /\ file' = [file EXCEPT !.active = c.to]
      /\ known' = [known EXCEPT !.active = IF c.old THEN @ ELSE c.to]
  BY <1>2 DEF R!ActiveSet
<1>4. ready
  BY <1>2, ReadyNow DEF Listings
<1>5. /\ known'.p = known.p /\ known'.r = known.r /\ known'.active \in {known.active, c.to}
      /\ file'.p = file.p /\ file'.r = file.r /\ file'.active = c.to
  BY <1>3 DEF Base, RecordsTyped, KnownState, FileState
<1>6. OwnForm => OwnForm'
  BY <1>3 DEF OwnForm
<1>7. \A p \in Profiles : Unnamed(p) => UnnamedStores(file', known', p) /\ UnnamedForm(rForm', p)
  BY <1>2, <1>3, <1>5 DEF Unnamed, UnnamedStores, UnnamedCalls, UnnamedCall
<1> QED BY <1>1, <1>3, <1>4, <1>5, <1>6, <1>7, AnswerBase

LEMMA FailBase ==
    ASSUME Base, NEW q \in R!Slots, R!Fail(q)
    PROVE  Base' /\ \A p \in Profiles : Unnamed(p) => Unnamed(p)'
<1>1. RecordsTyped'
  BY FailTyped DEF Base
<1>2. PICK c : c = rCalls[q] /\ c # None /\ c.op \notin {"loadProfiles", "loadRepos"}
  BY DEF R!Fail
<1>3. /\ UNCHANGED <<file, fresh, known, selected, ready, crossed>>
      /\ rCalls' = R!Done(q)
      /\ pForm' = IF c.op \in R!OnProfiles \ {"authorized"} THEN R!Saved(pForm, c) ELSE pForm
      /\ rForm' = IF c.op \notin R!OnRepos \/ ~c.here THEN rForm
                  ELSE IF c.op = "initRepo" THEN [rForm EXCEPT !.init = FALSE]
                  ELSE [rForm EXCEPT !.saving = FALSE, !.eligible = @ \/ c.op = "createRepo"]
  BY <1>2 DEF R!Fail
<1>4. ready
  BY <1>2, ReadyNow DEF Listings
<1>5. rForm'.to = rForm.to /\ rForm'.pending = rForm.pending
  BY <1>3 DEF Base, RecordsTyped, R!RepoForm
<1>6. pForm'.mode = pForm.mode /\ pForm'.of = pForm.of
  BY <1>3 DEF R!Saved, Base, RecordsTyped, R!ProfileForm
<1>7. OwnForm => OwnForm'
  BY <1>3, <1>6 DEF OwnForm
<1>8. \A p \in Profiles : Unnamed(p) => UnnamedStores(file', known', p) /\ UnnamedForm(rForm', p)
  BY <1>3, <1>5 DEF Unnamed, UnnamedStores, UnnamedForm
<1> QED BY <1>1, <1>3, <1>4, <1>7, <1>8, AnswerBase

\* What only the screens see: the calls are the same but for their flags.
LEMMA ScreenBase ==
    ASSUME Base, RecordsTyped',
           rCalls' = rCalls \/ rCalls' \in {R!Unmounted, R!Moved(rCalls)},
           UNCHANGED <<file, fresh, known, repo, crossed>>, OwnForm => OwnForm',
           ready, ready' = ready,
           \A p \in Profiles : UnnamedForm(rForm, p) => UnnamedForm(rForm', p)
    PROVE  Base' /\ \A p \in Profiles : Unnamed(p) => Unnamed(p)'
<1>1. PICK q \in R!Slots : q = 1
  BY SlotsAreNumbers
<1>2. /\ Turns(rCalls, rCalls', q, FALSE) /\ Like(rCalls[q], rCalls'[q])
      /\ Newest(rCalls'[q]) => Newest(rCalls[q])
      /\ \A x \in R!Slots : Newest(rCalls'[x]) => Newest(rCalls[x])
  <2>1. CASE rCalls' = rCalls
    <3>1. \A x \in R!Slots : rCalls[x] # None => rCalls[x].old \in BOOLEAN
      BY DEF Base, RecordsTyped, GoodRecordCalls, GoodSlot, R!Call
    <3> QED BY <2>1, <3>1 DEF Turns, Like
  <2>2. CASE rCalls' \in {R!Unmounted, R!Moved(rCalls)}
    BY <2>2, FlagsTurn DEF Base, RecordsTyped
  <2> QED BY <2>1, <2>2
<1>3. OneNewest(rCalls')
  BY <1>2 DEF Base, OneNewest
<1>4. /\ OwnCall(rCalls[q]) => OwnCall(rCalls'[q])
      /\ \A p : UnnamedCall(rCalls[q], p) => UnnamedCall(rCalls'[q], p)
      /\ \A p : UnbornCall(rCalls[q], p) => UnbornCall(rCalls'[q], p)
  BY <1>2, LikeKeeps
<1>5. ~crossed' => ~crossed /\ Own(file'.p) /\ OwnForm' /\ OwnCall(rCalls'[q])
  BY <1>4 DEF Base, OwnInv, OwnCalls
<1>6. StartCalls(rCalls', ready') /\ StartScreens'
  <2>1. IF ready THEN (rCalls'[q] # None => rCalls'[q].op # "loadRepos") ELSE TRUE
    BY <1>2 DEF Base, StartCalls, Like
  <2>2. StartCalls(rCalls', ready)
    BY <1>2, <2>1, StartCallsKept DEF Base
  <2> QED BY <2>2 DEF StartScreens
<1>7. \A p \in Profiles : Unnamed(p) =>
          /\ UnnamedStores(file', known', p) /\ UnnamedForm(rForm', p)
          /\ UnnamedCall(rCalls'[q], p)
  BY <1>4 DEF Unnamed, UnnamedCalls
<1>8. \A p \in fresh' : Unborn(p) =>
          p \in Profiles /\ file'.p[p] = None /\ UnbornCall(rCalls'[q], p)
  BY <1>4 DEF Unborn, UnbornCalls, Base, RecordsTyped
<1> QED BY <1>2, <1>3, <1>5, <1>6, <1>7, <1>8, TurnBase

LEMMA NavigateBase ==
    ASSUME Base, NEW s \in {"profiles", "repositories", "other"}, R!Navigate(s)
    PROVE  Base' /\ \A p \in Profiles : Unnamed(p) => Unnamed(p)'
<1>1. RecordsTyped' /\ ready
  BY NavigateTyped, RecordActCounts DEF Base, R!Navigate
<1>2. /\ UNCHANGED <<file, fresh, known, repo, crossed, selected, ready>>
      /\ rCalls' = R!Unmounted /\ pForm' = R!NoForm /\ rForm' = R!NoRepoForm
  BY DEF R!Navigate
<1>3. OwnForm'
  BY <1>2 DEF OwnForm, R!NoForm
<1>4. \A p \in Profiles : UnnamedForm(rForm, p) => UnnamedForm(rForm', p)
  BY <1>2, NoneIsNoRecord DEF UnnamedForm, R!NoRepoForm
<1> QED BY <1>1, <1>2, <1>3, <1>4, ScreenBase

LEMMA SelectProfileBase ==
    ASSUME Base, NEW x \in Profiles, R!SelectProfile(x)
    PROVE  Base' /\ \A p \in Profiles : Unnamed(p) => Unnamed(p)'
<1>1. RecordsTyped' /\ ready
  BY SelectProfileTyped, RecordActCounts DEF Base, R!SelectProfile, R!OnScreen
<1>2. /\ UNCHANGED <<file, fresh, known, repo, crossed, rForm, ready>>
      /\ rCalls' = R!Moved(rCalls) /\ selected' = x
      /\ pForm' = [pForm EXCEPT !.mode = "edit", !.of = x]
  BY DEF R!SelectProfile
<1>3. OwnForm'
  BY <1>2 DEF OwnForm, Base, RecordsTyped, R!ProfileForm
<1> QED BY <1>1, <1>2, <1>3, ScreenBase

LEMMA StartCreateBase ==
    ASSUME Base, R!StartCreate
    PROVE  Base' /\ \A p \in Profiles : Unnamed(p) => Unnamed(p)'
<1>1. RecordsTyped' /\ ready
  BY StartCreateTyped, RecordActCounts DEF Base, R!StartCreate, R!OnScreen
<1>2. /\ UNCHANGED <<file, fresh, known, repo, crossed, rForm, ready>>
      /\ rCalls' = R!Moved(rCalls) /\ selected' = None
  BY DEF R!StartCreate
<1> QED BY <1>1, <1>2, ScreenBase DEF OwnForm

LEMMA ConnectBase ==
    ASSUME Base, R!Connect
    PROVE  Base' /\ \A p \in Profiles : Unnamed(p) => Unnamed(p)'
<1>1. RecordsTyped' /\ ready
  BY ConnectTyped, RecordActCounts DEF Base, R!Connect, R!OnScreen
<1>2. /\ UNCHANGED <<file, fresh, known, repo, crossed, rForm, ready, selected, rCalls>>
      /\ pForm' = [pForm EXCEPT !.connecting = TRUE]
  BY DEF R!Connect, R!Store
<1>3. OwnForm => OwnForm'
  BY <1>2 DEF OwnForm, Base, RecordsTyped, R!ProfileForm
<1> QED BY <1>1, <1>2, <1>3, ScreenBase

LEMMA StartAddBase ==
    ASSUME Base, R!StartAdd
    PROVE  Base' /\ \A p \in Profiles : Unnamed(p) => Unnamed(p)'
<1>1. RecordsTyped' /\ ready
  BY StartAddTyped, RecordActCounts DEF Base, R!StartAdd, R!OnScreen
<1>2. /\ UNCHANGED <<file, fresh, known, repo, crossed, pForm, ready, selected, rCalls>>
      /\ rForm' = [rForm EXCEPT !.mode = "add", !.selected = None, !.eligible = FALSE,
                                !.pending = None]
  BY DEF R!StartAdd, R!Store
<1>3. \A p \in Profiles : UnnamedForm(rForm, p) => UnnamedForm(rForm', p)
  BY <1>2 DEF UnnamedForm, Base, RecordsTyped, R!RepoForm
<1> QED BY <1>1, <1>2, <1>3, ScreenBase DEF OwnForm

LEMMA CancelAddBase ==
    ASSUME Base, R!CancelAdd
    PROVE  Base' /\ \A p \in Profiles : Unnamed(p) => Unnamed(p)'
<1>1. RecordsTyped' /\ ready
  BY CancelAddTyped, RecordActCounts DEF Base, R!CancelAdd, R!OnScreen
<1>2. /\ UNCHANGED <<file, fresh, known, repo, crossed, pForm, ready, selected, rCalls>>
      /\ rForm' = [rForm EXCEPT !.mode = "idle"]
  BY DEF R!CancelAdd, R!Store
<1>3. \A p \in Profiles : UnnamedForm(rForm, p) => UnnamedForm(rForm', p)
  BY <1>2 DEF UnnamedForm, Base, RecordsTyped, R!RepoForm
<1> QED BY <1>1, <1>2, <1>3, ScreenBase DEF OwnForm

LEMMA FollowSelectionBase ==
    ASSUME Base, R!FollowSelection
    PROVE  Base' /\ \A p \in Profiles : Unnamed(p) => Unnamed(p)'
<1>1. RecordsTyped'
  BY FollowSelectionTyped DEF Base
<1>2. ready
  BY DEF R!FollowSelection, R!FormDue, Base, StartScreens
<1>3. /\ UNCHANGED <<file, fresh, known, repo, crossed, rForm, ready, rCalls>>
      /\ selected' = IF R!InStore(selected) THEN selected ELSE None
      /\ pForm' = IF R!InStore(selected) THEN [pForm EXCEPT !.mode = "edit", !.of = selected]
                  ELSE [R!NoForm EXCEPT !.saving = pForm.saving]
  BY DEF R!FollowSelection
<1>4. OwnForm'
  BY <1>3 DEF OwnForm, Base, RecordsTyped, R!ProfileForm
<1> QED BY <1>1, <1>2, <1>3, <1>4, ScreenBase

-----------------------------------------------------------------------------
(* Records: a new call, or a new active repository, keeps to Base.         *)

LEMMA AskBase ==
    ASSUME Base, RecordsTyped', NEW c, Requests(c), ready, ready' = ready,
           UNCHANGED <<fresh, crossed>>, OwnForm => OwnForm',
           \A p \in Profiles : file.p[p] = None <=> file'.p[p] = None,
           \A p \in Profiles : file.p[p] # None => file'.p[p].of = file.p[p].of,
           ~crossed => OwnCall(c), c.op # "loadRepos",
           \A p \in Profiles : Unnamed(p) =>
               UnnamedStores(file', known', p) /\ UnnamedForm(rForm', p) /\ c.to # p
    PROVE  Base' /\ \A p \in Profiles : Unnamed(p) => Unnamed(p)'
<1>1. PICK q \in R!Slots : AsksFor(q, c)
  BY DEF Requests
<1>2. PICK new : new = (c.op = "setActive")
  OBVIOUS
<1>3. rCalls'[q] = c /\ Turns(rCalls, rCalls', q, new)
  BY <1>1, <1>2, RequestTurns DEF Base, RecordsTyped
<1>4. OneNewest(rCalls')
  BY <1>2, <1>3, OneNewestKept DEF Base, Newest, Chooses
<1>5. ~crossed' => ~crossed /\ Own(file'.p) /\ OwnForm' /\ OwnCall(rCalls'[q])
  BY <1>3 DEF Base, OwnInv, Own
<1>6. StartCalls(rCalls', ready') /\ StartScreens'
  BY <1>3, StartCallsKept DEF Base, StartScreens
<1>7. c # None /\ ~HasP(c) /\ ~HasR(c) /\ c.active = None /\ c.at = "asked"
  BY DEF Requests, Asked, HasP, HasR
<1>8. \A p \in Profiles : Unnamed(p) =>
          /\ UnnamedStores(file', known', p) /\ UnnamedForm(rForm', p)
          /\ UnnamedCall(rCalls'[q], p)
  BY <1>3, <1>7, NoneIsNoRecord DEF UnnamedCall
<1>9. \A p \in fresh' : Unborn(p) =>
          p \in Profiles /\ file'.p[p] = None /\ UnbornCall(rCalls'[q], p)
  BY <1>3, <1>7 DEF Base, RecordsTyped, Unborn, UnbornCall
<1>10. fresh' \subseteq fresh
  OBVIOUS
<1> QED BY <1>3, <1>4, <1>5, <1>6, <1>8, <1>9, <1>10, TurnBase

LEMMA ChosenBase ==
    ASSUME Base, RecordsTyped', NEW q \in R!Slots, NEW rec, Chosen(rec, q),
           ready, ready' = ready, UNCHANGED <<file, fresh>>, crossed => crossed',
           OwnForm => OwnForm',
           \A p \in Profiles : Unnamed(p) =>
               UnnamedStores(file', known', p) /\ UnnamedForm(rForm', p)
    PROVE  Base' /\ \A p \in Profiles : Unnamed(p) => Unnamed(p)'
<1>1. PICK new : /\ Turns(rCalls, rCalls', q, new)
                 /\ \/ rCalls'[q] = None
                    \/ /\ new /\ rCalls'[q] # None /\ Asked(rCalls'[q])
                       /\ rCalls'[q].op = "setActive"
                       /\ rCalls'[q].to = rec.to /\ known.p[rec.to] # None
  BY DEF Chosen
<1>2. OneNewest(rCalls')
  BY <1>1, OneNewestKept, NoneIsNewer DEF Base
<1>3. OwnCall(rCalls'[q])
  BY <1>1, NoneIsNewer DEF OwnCall, HasP, Asked
<1>4. ~crossed' => ~crossed /\ Own(file'.p) /\ OwnForm' /\ OwnCall(rCalls'[q])
  BY <1>3 DEF Base, OwnInv
<1>5. StartCalls(rCalls', ready') /\ StartScreens'
  <2>1. StartCalls(rCalls', ready)
    BY <1>1, StartCallsKept DEF Base
  <2> QED BY <2>1 DEF StartScreens
<1>6. \A p \in Profiles : Unnamed(p) =>
          /\ UnnamedStores(file', known', p) /\ UnnamedForm(rForm', p)
          /\ UnnamedCall(rCalls'[q], p)
  <2>1. CASE rCalls'[q] = None
    BY <2>1, NoneIsNewer
  <2>2. CASE rCalls'[q] # None
    BY <1>1, <2>2, NoneIsNoRecord DEF Unnamed, UnnamedStores, UnnamedCall, HasR, Asked
  <2> QED BY <2>1, <2>2
<1>7. \A p : UnbornCall(rCalls'[q], p)
  BY <1>1 DEF UnbornCall, HasP, Asked
<1>8. \A p \in fresh' : Unborn(p) =>
          p \in Profiles /\ file'.p[p] = None /\ UnbornCall(rCalls'[q], p)
  BY <1>7 DEF Base, RecordsTyped, Unborn
<1>9. fresh' \subseteq fresh
  OBVIOUS
<1> QED BY <1>1, <1>2, <1>4, <1>5, <1>6, <1>8, <1>9, TurnBase

LEMMA SubmitBase ==
    ASSUME Base, NEW op \in R!OnProfiles, R!Submit(op)
    PROVE  Base' /\ \A p \in Profiles : Unnamed(p) => Unnamed(p)'
<1>1. RecordsTyped' /\ ready
  BY SubmitTyped, RecordActCounts DEF Base, R!Submit, R!OnScreen
<1>2. PICK c : /\ Requests(c) /\ c.op = op /\ c.to = None
               /\ op \in R!Creates => c.id = None
               /\ op \notin R!Creates => c.id = selected /\ selected \in Profiles
                                         /\ c.data.of = pForm.of
  BY SubmitAsks DEF Base
<1>3. /\ UNCHANGED <<file, fresh, known, repo, crossed, rForm, ready, selected>>
      /\ pForm' = [pForm EXCEPT !.saving = TRUE]
  BY DEF R!Submit, R!Store
<1>4. OwnForm => OwnForm'
  BY <1>3 DEF OwnForm, Base, RecordsTyped, R!ProfileForm
<1>5. ~crossed => OwnCall(c)
  <2> SUFFICES ASSUME ~crossed PROVE OwnCall(c)
    OBVIOUS
  <2>1. ~HasP(c)
    BY <1>2 DEF HasP, Requests, Asked
  <2>2. ASSUME c.op = "updateProfile"  PROVE c.data.of = c.id
    <3>1. c.id = selected /\ c.data.of = pForm.of /\ selected \in Profiles
      BY <1>2, <2>2 DEF R!Creates
    <3>2. pForm.mode = "edit"
      BY <1>2, <2>2 DEF R!Submit, R!FormActions, R!GitHubActions
    <3> QED BY <3>1, <3>2, NoneIsNoRecord DEF Base, OwnInv, OwnForm
  <2> QED BY <2>1, <2>2 DEF OwnCall
<1>6. c.op # "loadRepos"
  BY <1>2 DEF R!OnProfiles, R!Creates
<1>7. \A p \in Profiles : Unnamed(p) =>
          UnnamedStores(file', known', p) /\ UnnamedForm(rForm', p) /\ c.to # p
  BY <1>2, <1>3, NoneIsNoRecord DEF Unnamed
<1> QED BY <1>1, <1>2, <1>3, <1>4, <1>5, <1>6, <1>7, AskBase

LEMMA SetActiveBase ==
    ASSUME Base, NEW x \in Profiles, R!SetActive(x)
    PROVE  Base' /\ \A p \in Profiles : Unnamed(p) => Unnamed(p)'
<1>1. RecordsTyped' /\ ready
  BY SetActiveTyped, RecordActCounts DEF Base, R!SetActive, R!OnScreen
<1>2. PICK c : Requests(c) /\ c.op = "setActive" /\ c.to = x
  BY SetActiveAsks DEF Base
<1>3. /\ UNCHANGED <<file, fresh, known, repo, crossed, pForm, rForm, ready, selected>>
      /\ known.p[x] # None
  BY DEF R!SetActive, R!SetActiveOffered, R!InStore
<1>4. ~crossed => OwnCall(c)
  BY <1>2 DEF OwnCall, HasP, Requests, Asked
<1>5. \A p \in Profiles : Unnamed(p) =>
          UnnamedStores(file', known', p) /\ UnnamedForm(rForm', p) /\ c.to # p
  BY <1>2, <1>3 DEF Unnamed, UnnamedStores
<1> QED BY <1>1, <1>2, <1>3, <1>4, <1>5, AskBase DEF OwnForm

LEMMA AuthorizedBase ==
    ASSUME Base, R!Authorized
    PROVE  Base' /\ \A p \in Profiles : Unnamed(p) => Unnamed(p)'
<1>1. RecordsTyped'
  BY AuthorizedTyped DEF Base
<1>2. PICK c : Requests(c) /\ c.op = "authorized" /\ c.to = None
  BY AuthorizedAsks DEF Base
<1>3. /\ UNCHANGED <<fresh, known, repo, crossed, pForm, rForm, ready, selected>>
      /\ selected \in Profiles /\ file.p[selected] # None /\ pForm.connecting
      /\ file' = [file EXCEPT !.p[selected].linked = TRUE]
  BY DEF R!Authorized, R!Exists, R!Modal, Base, RecordsTyped, R!Maybe
<1>4. ready
  BY <1>3 DEF Base, StartScreens, R!NoForm
<1>5. ~crossed => OwnCall(c)
  BY <1>2 DEF OwnCall, HasP, Requests, Asked
<1>6. /\ file'.r = file.r /\ file'.active = file.active
      /\ \A p \in Profiles \ {selected} : file'.p[p] = file.p[p]
      /\ file'.p[selected] = [file.p[selected] EXCEPT !.linked = TRUE]
  BY <1>3 DEF Base, RecordsTyped, FileState, R!ProfilesFile
<1>7. file'.p[selected] # None /\ file'.p[selected].of = file.p[selected].of
  <2>1. file.p[selected] \in R!Data
    BY <1>3 DEF Base, RecordsTyped, FileState, R!ProfilesFile, R!Maybe
  <2> QED BY <1>6, <2>1, NoneIsNoRecord DEF R!Data
<1>8. /\ \A p \in Profiles : file.p[p] = None <=> file'.p[p] = None
      /\ \A p \in Profiles : file.p[p] # None => file'.p[p].of = file.p[p].of
  BY <1>3, <1>6, <1>7
<1>9. \A p \in Profiles : Unnamed(p) =>
          UnnamedStores(file', known', p) /\ UnnamedForm(rForm', p) /\ c.to # p
  BY <1>2, <1>3, <1>6, NoneIsNoRecord DEF Unnamed, UnnamedStores
<1>10. OwnForm => OwnForm'
  BY <1>3 DEF OwnForm
<1> QED BY <1>1, <1>2, <1>3, <1>4, <1>5, <1>8, <1>9, <1>10, AskBase

LEMMA CloseModalBase ==
    ASSUME Base, R!CloseModal
    PROVE  Base' /\ \A p \in Profiles : Unnamed(p) => Unnamed(p)'
<1>1. RecordsTyped'
  BY CloseModalTyped DEF Base
<1>2. PICK c : Requests(c) /\ c.op = "loadProfiles" /\ c.to = None
  BY CloseModalAsks DEF Base
<1>3. /\ UNCHANGED <<file, fresh, repo, crossed, rForm, ready, selected>>
      /\ pForm.connecting /\ pForm' = [pForm EXCEPT !.connecting = FALSE]
      /\ known' = [known EXCEPT !.loading = TRUE]
  BY DEF R!CloseModal, R!Modal
<1>4. ready
  BY <1>3 DEF Base, StartScreens, R!NoForm
<1>5. ~crossed => OwnCall(c)
  BY <1>2 DEF OwnCall, HasP, Requests, Asked
<1>6. known'.p = known.p /\ known'.r = known.r /\ known'.active = known.active
  BY <1>3 DEF Base, RecordsTyped, KnownState
<1>7. OwnForm => OwnForm'
  BY <1>3 DEF OwnForm, Base, RecordsTyped, R!ProfileForm
<1>8. \A p \in Profiles : Unnamed(p) =>
          UnnamedStores(file', known', p) /\ UnnamedForm(rForm', p) /\ c.to # p
  BY <1>2, <1>3, <1>6, NoneIsNoRecord DEF Unnamed, UnnamedStores
<1> QED BY <1>1, <1>2, <1>3, <1>4, <1>5, <1>7, <1>8, AskBase

LEMMA AddRepoBase ==
    ASSUME Base, NEW r \in Repos, R!AddRepo(r)
    PROVE  Base' /\ \A p \in Profiles : Unnamed(p) => Unnamed(p)'
<1>1. RecordsTyped' /\ ready
  BY AddRepoTyped, RecordActCounts DEF Base, R!AddRepo, R!OnScreen
<1>2. PICK c : Requests(c) /\ c.op = "createRepo" /\ c.to = None
  BY AddRepoAsks DEF Base
<1>3. /\ UNCHANGED <<file, fresh, known, repo, crossed, pForm, ready, selected>>
      /\ rForm' = [rForm EXCEPT !.saving = TRUE, !.eligible = FALSE, !.pending = None]
  BY DEF R!AddRepo, R!Store
<1>4. ~crossed => OwnCall(c)
  BY <1>2 DEF OwnCall, HasP, Requests, Asked
<1>5. rForm'.to = rForm.to /\ rForm'.pending = None
  BY <1>3 DEF Base, RecordsTyped, R!RepoForm
<1>6. \A p \in Profiles : Unnamed(p) =>
          UnnamedStores(file', known', p) /\ UnnamedForm(rForm', p) /\ c.to # p
  BY <1>2, <1>3, <1>5, NoneIsNoRecord DEF Unnamed, UnnamedForm
<1> QED BY <1>1, <1>2, <1>3, <1>4, <1>6, AskBase DEF OwnForm

LEMMA InitRepoBase ==
    ASSUME Base, NEW r \in Repos, R!InitRepo(r)
    PROVE  Base' /\ \A p \in Profiles : Unnamed(p) => Unnamed(p)'
<1>1. RecordsTyped' /\ ready
  BY InitRepoTyped, RecordActCounts DEF Base, R!InitRepo, R!OnScreen
<1>2. PICK c : Requests(c) /\ c.op = "initRepo" /\ c.to = known.active
  BY InitRepoAsks DEF Base
<1>3. /\ UNCHANGED <<file, fresh, known, repo, crossed, pForm, ready, selected>>
      /\ rForm' = [rForm EXCEPT !.init = TRUE]
  BY DEF R!InitRepo, R!Store
<1>4. ~crossed => OwnCall(c)
  BY <1>2 DEF OwnCall, HasP, Requests, Asked
<1>5. rForm'.to = rForm.to /\ rForm'.pending = rForm.pending
  BY <1>3 DEF Base, RecordsTyped, R!RepoForm
<1>6. \A p \in Profiles : Unnamed(p) =>
          UnnamedStores(file', known', p) /\ UnnamedForm(rForm', p) /\ c.to # p
  BY <1>2, <1>3, <1>5 DEF Unnamed, UnnamedForm, UnnamedStores
<1> QED BY <1>1, <1>2, <1>3, <1>4, <1>6, AskBase DEF OwnForm

LEMMA RemoveRepoBase ==
    ASSUME Base, R!RemoveRepo
    PROVE  Base' /\ \A p \in Profiles : Unnamed(p) => Unnamed(p)'
<1>1. RecordsTyped' /\ ready
  BY RemoveRepoTyped, RecordActCounts DEF Base, R!RemoveRepo, R!OnScreen
<1>2. PICK c : Requests(c) /\ c.op = "removeRepo" /\ c.to = None
  BY RemoveRepoAsks DEF Base
<1>3. /\ UNCHANGED <<file, fresh, known, repo, crossed, pForm, ready, selected>>
      /\ rForm' = [rForm EXCEPT !.saving = TRUE]
  BY DEF R!RemoveRepo, R!Store
<1>4. ~crossed => OwnCall(c)
  BY <1>2 DEF OwnCall, HasP, Requests, Asked
<1>5. rForm'.to = rForm.to /\ rForm'.pending = rForm.pending
  BY <1>3 DEF Base, RecordsTyped, R!RepoForm
<1>6. \A p \in Profiles : Unnamed(p) =>
          UnnamedStores(file', known', p) /\ UnnamedForm(rForm', p) /\ c.to # p
  BY <1>2, <1>3, <1>5, NoneIsNoRecord DEF Unnamed, UnnamedForm
<1> QED BY <1>1, <1>2, <1>3, <1>4, <1>6, AskBase DEF OwnForm

\* A profile that the form offers is in the store, or the form names it already.
LEMMA ChoicesNamed ==
    ASSUME NEW x \in R!Choices, NEW p \in Profiles, Unnamed(p)  PROVE x # p
BY NoneIsNoRecord DEF R!Choices, R!InStore, Unnamed, UnnamedStores, UnnamedForm

LEMMA SaveRepoBase ==
    ASSUME Base, NEW x \in R!Maybe(Profiles), R!SaveRepo(x)
    PROVE  Base' /\ \A p \in Profiles : Unnamed(p) => Unnamed(p)'
<1>1. RecordsTyped' /\ ready
  BY SaveRepoTyped, RecordActCounts DEF Base, R!SaveRepo, R!OnScreen
<1>2. PICK c : /\ c # None /\ Asked(c) /\ c.op = "updateRepo" /\ c.to = x
               /\ \E q \in R!Slots : rCalls' = [rCalls EXCEPT ![q] = c]
  BY SaveRepoAsks DEF Base
<1> PICK q \in R!Slots : rCalls' = [rCalls EXCEPT ![q] = c]
  BY <1>2
<1>3. /\ UNCHANGED <<file, fresh, known, repo, crossed, pForm, ready, selected>>
      /\ rForm' = [rForm EXCEPT !.saving = TRUE, !.to = x] /\ x \in R!Choices
  BY DEF R!SaveRepo, R!Store
<1>4. rCalls'[q] = c /\ Turns(rCalls, rCalls', q, FALSE)
  BY SetTurns DEF Base, RecordsTyped
<1>5. ~HasP(c) /\ ~HasR(c) /\ c.active = None /\ c.at = "asked"
  BY <1>2 DEF HasP, HasR, Asked
<1>6. OneNewest(rCalls')
  BY <1>2, <1>4, OneNewestKept DEF Base, Newest, Chooses
<1>7. ~crossed' => ~crossed /\ Own(file'.p) /\ OwnForm' /\ OwnCall(rCalls'[q])
  BY <1>2, <1>3, <1>4, <1>5 DEF Base, OwnInv, OwnForm, OwnCall
<1>8. StartCalls(rCalls', ready') /\ StartScreens'
  <2>1. StartCalls(rCalls', ready)
    BY <1>1, <1>2, <1>4, StartCallsKept DEF Base
  <2> QED BY <1>1, <1>3, <2>1 DEF StartScreens
<1>9. rForm'.to = x /\ rForm'.pending = rForm.pending
  BY <1>3 DEF Base, RecordsTyped, R!RepoForm
<1>10. \A p \in Profiles : Unnamed(p) =>
          /\ UnnamedStores(file', known', p) /\ UnnamedForm(rForm', p)
          /\ UnnamedCall(rCalls'[q], p)
  BY <1>2, <1>3, <1>4, <1>5, <1>9, ChoicesNamed, NoneIsNoRecord
     DEF Unnamed, UnnamedForm, UnnamedCall
<1>11. \A p \in fresh' : Unborn(p) =>
          p \in Profiles /\ file'.p[p] = None /\ UnbornCall(rCalls'[q], p)
  BY <1>3, <1>4, <1>5 DEF Base, RecordsTyped, Unborn, UnbornCall
<1> QED BY <1>1, <1>3, <1>4, <1>6, <1>7, <1>8, <1>10, <1>11, TurnBase

\* The calls once rec is active, from the calls that the action starts from.
LEMMA ChosenFromDone ==
    ASSUME RecordsTyped, NEW rec \in R!Maybe(R!Record), NEW q \in R!Slots,
           R!SetActiveRepo(rec, R!Done(q), q, known.p, known.active)
    PROVE  Chosen(rec, q)
<1>1. Activates(rec, R!Done(q), q)
  BY SetActiveRepoIs
<1>2. /\ GoodRecordCalls(R!Done(q)) /\ R!Done(q)[q] = None
      /\ \A x \in R!Slots \ {q} : R!Done(q)[x] = rCalls[x]
      /\ OthersLike(rCalls, R!Done(q), q)
  BY DoneSlot DEF RecordsTyped
<1> QED BY <1>1, <1>2, ActivatesTurns DEF RecordsTyped

LEMMA ChosenFromUnmounted ==
    ASSUME RecordsTyped, NEW rec \in R!Maybe(R!Record), NEW q \in R!Slots,
           R!SetActiveRepo(rec, [R!Unmounted EXCEPT ![q] = None], q, known.p, known.active)
    PROVE  Chosen(rec, q)
<1>1. PICK in : in = [R!Unmounted EXCEPT ![q] = None]
  OBVIOUS
<1>2. Activates(rec, in, q)
  BY <1>1, SetActiveRepoIs
<1>3. /\ GoodRecordCalls(in) /\ in[q] = None /\ OthersLike(rCalls, in, q)
      /\ \A x \in R!Slots \ {q} : rCalls[x] # None => in[x].old = rCalls[x].old
  BY <1>1, UnmountedAt
<1> QED BY <1>2, <1>3, ActivatesTurns DEF RecordsTyped

LEMMA ChosenFromFree ==
    ASSUME RecordsTyped, NEW rec \in R!Maybe(R!Record), R!Free # {},
           R!SetActiveRepo(rec, rCalls, R!FirstFree, known.p, known.active)
    PROVE  \E q \in R!Slots : Chosen(rec, q)
<1>1. PICK q \in R!Slots : q = R!FirstFree /\ rCalls[q] = None
  BY FirstFreeIsFree
<1>2. Activates(rec, rCalls, q)
  BY <1>1, SetActiveRepoIs
<1>3. OthersLike(rCalls, rCalls, q)
  BY DEF OthersLike, Like
<1> QED BY <1>1, <1>2, <1>3, ActivatesTurns DEF RecordsTyped

LEMMA ChosenFromUnmountedFree ==
    ASSUME RecordsTyped, NEW rec \in R!Maybe(R!Record), R!Free # {},
           R!SetActiveRepo(rec, R!Unmounted, R!FirstFree, known.p, known.active)
    PROVE  \E q \in R!Slots : Chosen(rec, q)
<1>1. PICK q \in R!Slots : q = R!FirstFree /\ rCalls[q] = None
  BY FirstFreeIsFree
<1>2. PICK in \in {R!Unmounted, R!Moved(rCalls)} : in = R!Unmounted
  OBVIOUS
<1>3. Activates(rec, in, q)
  BY <1>1, <1>2, SetActiveRepoIs
<1>4. /\ GoodRecordCalls(in) /\ AllLike(rCalls, in)
      /\ \A x \in R!Slots : rCalls[x] # None => in[x].old = rCalls[x].old
  BY FlagsSound DEF RecordsTyped
<1>5. in[q] = None /\ OthersLike(rCalls, in, q)
  BY <1>1, <1>4 DEF AllLike, OthersLike, Like
<1> QED BY <1>3, <1>4, <1>5, ActivatesTurns DEF RecordsTyped

LEMMA PickRepoBase ==
    ASSUME Base, NEW r \in Repos, R!PickRepo(r)
    PROVE  Base' /\ \A p \in Profiles : Unnamed(p) => Unnamed(p)'
<1>1. RecordsTyped' /\ ready
  BY PickRepoTyped, RecordActCounts DEF Base, R!PickRepo
<1>2. /\ UNCHANGED <<file, fresh, known, selected, rScreen, ready, pForm, rForm, rMoves>>
      /\ known.r[r] \in R!Maybe(R!Record)
      /\ R!Free # {} /\ R!SetActiveRepo(known.r[r], rCalls, R!FirstFree, known.p, known.active)
  BY DEF R!PickRepo, Base, RecordsTyped, KnownState, R!ReposFile
<1>3. PICK q \in R!Slots : Chosen(known.r[r], q)
  BY <1>2, ChosenFromFree DEF Base
<1>4. crossed => crossed'
  BY <1>2 DEF R!SetActiveRepo
<1>5. \A p \in Profiles : Unnamed(p) => UnnamedStores(file', known', p) /\ UnnamedForm(rForm', p)
  BY <1>2 DEF Unnamed
<1> QED BY <1>1, <1>2, <1>3, <1>4, <1>5, ChosenBase DEF OwnForm

LEMMA SelectRepoBase ==
    ASSUME Base, NEW r \in Repos, R!SelectRepo(r)
    PROVE  Base' /\ \A p \in Profiles : Unnamed(p) => Unnamed(p)'
<1>1. RecordsTyped' /\ ready
  BY SelectRepoTyped, RecordActCounts DEF Base, R!SelectRepo, R!OnScreen
<1>2. /\ UNCHANGED <<file, fresh, known, selected, rScreen, ready, pForm, rMoves>>
      /\ known.r[r] \in R!Maybe(R!Record) /\ known.r[r] # None
      /\ rForm' = R!FormOf(known.r[r])
      /\ R!Free # {} /\ R!SetActiveRepo(known.r[r], rCalls, R!FirstFree, known.p, known.active)
  BY DEF R!SelectRepo, Base, RecordsTyped, KnownState, R!ReposFile, R!InList
<1>3. PICK q \in R!Slots : Chosen(known.r[r], q)
  BY <1>2, ChosenFromFree DEF Base
<1>4. crossed => crossed'
  BY <1>2 DEF R!SetActiveRepo
<1>5. rForm'.to = known.r[r].to /\ rForm'.pending = rForm.pending
  BY <1>2 DEF R!FormOf, Base, RecordsTyped, R!RepoForm
<1>6. \A p \in Profiles : Unnamed(p) => UnnamedStores(file', known', p) /\ UnnamedForm(rForm', p)
  BY <1>2, <1>5 DEF Unnamed, UnnamedForm, UnnamedStores, AssignsTo
<1> QED BY <1>1, <1>2, <1>3, <1>4, <1>6, ChosenBase DEF OwnForm

LEMMA ContinueInitBase ==
    ASSUME Base, R!ContinueInit
    PROVE  Base' /\ \A p \in Profiles : Unnamed(p) => Unnamed(p)'
<1>1. RecordsTyped' /\ ready
  BY ContinueInitTyped, RecordActCounts DEF Base, R!ContinueInit, R!OnScreen
<1>2. /\ UNCHANGED <<file, fresh, known, selected, ready, rMoves>>
      /\ rForm.pending \in R!Maybe(R!Record) /\ R!Free # {}
      /\ rForm' = R!NoRepoForm /\ pForm' = R!NoForm
      /\ R!SetActiveRepo(rForm.pending, R!Unmounted, R!FirstFree, known.p, known.active)
  BY DEF R!ContinueInit, R!FinishInit, Base, RecordsTyped, R!RepoForm
<1>3. PICK q \in R!Slots : Chosen(rForm.pending, q)
  BY <1>2, ChosenFromUnmountedFree DEF Base
<1>4. crossed => crossed'
  BY <1>2 DEF R!SetActiveRepo
<1>5. \A p \in Profiles : Unnamed(p) => UnnamedStores(file', known', p) /\ UnnamedForm(rForm', p)
  BY <1>2, NoneIsNoRecord DEF Unnamed, UnnamedForm, R!NoRepoForm
<1>6. OwnForm'
  BY <1>2 DEF OwnForm, R!NoForm
<1> QED BY <1>1, <1>2, <1>3, <1>4, <1>5, <1>6, ChosenBase

LEMMA AutoSelectBase ==
    ASSUME Base, R!AutoSelect
    PROVE  Base' /\ \A p \in Profiles : Unnamed(p) => Unnamed(p)'
<1>1. RecordsTyped' /\ ready
  BY AutoSelectTyped DEF Base, R!AutoSelect, R!AutoSelectDue
<1>2. PICK rec \in R!Maybe(R!Record) :
        /\ UNCHANGED <<file, fresh, known, selected, rScreen, ready, pForm, rForm, rActs, rMoves>>
        /\ R!Free # {} /\ R!SetActiveRepo(rec, rCalls, R!FirstFree, known.p, known.active)
  BY DEF R!AutoSelect, Base, RecordsTyped, KnownState, R!ReposFile, R!InList, R!Maybe
<1>3. PICK q \in R!Slots : Chosen(rec, q)
  BY <1>2, ChosenFromFree DEF Base
<1>4. crossed => crossed'
  BY <1>2 DEF R!SetActiveRepo
<1>5. \A p \in Profiles : Unnamed(p) => UnnamedStores(file', known', p) /\ UnnamedForm(rForm', p)
  BY <1>2 DEF Unnamed
<1> QED BY <1>1, <1>2, <1>3, <1>4, <1>5, ChosenBase DEF OwnForm

\* The stores and the form with the record of an answered call.
LEMMA RecordPut ==
    ASSUME Base, NEW q \in R!Slots, rCalls[q] # None, rCalls[q].op \in R!OnRepos,
           NEW rec, rec.to = rCalls[q].to, UNCHANGED <<file, fresh>>,
           known'.p = known.p, known'.active = known.active,
           \A x \in Repos : known'.r[x] \in {None, known.r[x], rec},
           rForm'.to \in {None, rForm.to, rec.to}, rForm'.pending \in {None, rForm.pending, rec}
    PROVE  \A p \in Profiles :
              Unnamed(p) => UnnamedStores(file', known', p) /\ UnnamedForm(rForm', p)
<1> SUFFICES ASSUME NEW p \in Profiles, Unnamed(p)
             PROVE  UnnamedStores(file', known', p) /\ UnnamedForm(rForm', p)
  OBVIOUS
<1>1. rec.to # p
  BY DEF Unnamed, UnnamedCalls, UnnamedCall
<1>2. UnnamedStores(file', known', p)
  BY <1>1 DEF Unnamed, UnnamedStores, AssignsTo
<1>3. UnnamedForm(rForm', p)
  BY <1>1, NoneIsNoRecord DEF Unnamed, UnnamedForm
<1> QED BY <1>2, <1>3

LEMMA AddedBase ==
    ASSUME Base, NEW q \in R!Slots, R!Added(q)
    PROVE  Base' /\ \A p \in Profiles : Unnamed(p) => Unnamed(p)'
<1>1. RecordsTyped'
  BY AddedTyped DEF Base
<1>2. PICK c : c = rCalls[q] /\ c # None /\ c.op = "createRepo"
  BY DEF R!Added, R!At
<1>3. c \in R!Call /\ c.id \in Repos /\ [id |-> c.id, to |-> c.to] \in R!Record
  BY <1>2, RecordOfCall DEF Base, R!OnRepos
<1>4. PICK rec \in R!Record : rec = [id |-> c.id, to |-> c.to]
  BY <1>3
<1>5. /\ UNCHANGED <<file, fresh, selected, rScreen, ready, pForm, rActs, rMoves>>
      /\ known' = [known EXCEPT !.r[c.id] = rec]
      /\ rForm' = IF c.here THEN [R!FormOf(rec) EXCEPT !.saving = FALSE] ELSE rForm
      /\ R!SetActiveRepo(rec, R!Done(q), q, known.p, known.active)
  BY <1>2, <1>4 DEF R!Added
<1>6. Chosen(rec, q)
  BY <1>5, ChosenFromDone DEF Base, R!Maybe
<1>7. ready
  BY <1>2, ReadyNow DEF Listings
<1>8. crossed => crossed'
  BY <1>5 DEF R!SetActiveRepo
<1>9. /\ known'.p = known.p /\ known'.active = known.active
      /\ \A x \in Repos : known'.r[x] \in {None, known.r[x], rec}
  BY <1>3, <1>5 DEF Base, RecordsTyped, KnownState, R!ReposFile
<1>10. rForm'.to \in {None, rForm.to, rec.to} /\ rForm'.pending \in {None, rForm.pending, rec}
  BY <1>5 DEF R!FormOf, Base, RecordsTyped, R!RepoForm
<1>11. rec.to = c.to
  BY <1>4
<1>12. \A p \in Profiles :
          Unnamed(p) => UnnamedStores(file', known', p) /\ UnnamedForm(rForm', p)
  BY <1>2, <1>5, <1>9, <1>10, <1>11, RecordPut DEF R!OnRepos
<1> QED BY <1>1, <1>5, <1>6, <1>7, <1>8, <1>12, ChosenBase DEF OwnForm

LEMMA InitializedBase ==
    ASSUME Base, NEW q \in R!Slots, NEW remote \in BOOLEAN, R!Initialized(q, remote)
    PROVE  Base' /\ \A p \in Profiles : Unnamed(p) => Unnamed(p)'
<1>1. RecordsTyped'
  BY InitializedTyped DEF Base
<1>2. PICK c : c = rCalls[q] /\ c # None /\ c.op = "initRepo"
  BY DEF R!Initialized, R!At
<1>3. c \in R!Call /\ c.id \in Repos /\ [id |-> c.id, to |-> c.to] \in R!Record
  BY <1>2, RecordOfCall DEF Base, R!OnRepos
<1>4. PICK rec \in R!Record : rec = [id |-> c.id, to |-> c.to]
  BY <1>3
<1>5. /\ UNCHANGED <<file, fresh, selected, ready, rActs, rMoves>>
      /\ known' = [known EXCEPT !.r[c.id] = rec]
  BY <1>2, <1>4 DEF R!Initialized
<1>6. ready
  BY <1>2, ReadyNow DEF Listings
<1>7. /\ known'.p = known.p /\ known'.active = known.active
      /\ \A x \in Repos : known'.r[x] \in {None, known.r[x], rec}
  BY <1>3, <1>5 DEF Base, RecordsTyped, KnownState, R!ReposFile
<1>8. rec.to = c.to /\ c.op \in R!OnRepos
  BY <1>2, <1>4 DEF R!OnRepos
<1>9. CASE remote
  <2>1. /\ rForm' = R!NoRepoForm /\ pForm' = R!NoForm
        /\ R!SetActiveRepo(rec, [R!Unmounted EXCEPT ![q] = None], q, known.p, known.active)
    BY <1>2, <1>4, <1>9 DEF R!Initialized, R!FinishInit
  <2>2. Chosen(rec, q)
    BY <2>1, ChosenFromUnmounted DEF Base, R!Maybe
  <2>3. crossed => crossed'
    BY <2>1 DEF R!SetActiveRepo
  <2>4. rForm'.to \in {None, rForm.to, rec.to} /\ rForm'.pending \in {None, rForm.pending, rec}
    BY <2>1 DEF R!NoRepoForm
  <2>5. \A p \in Profiles :
            Unnamed(p) => UnnamedStores(file', known', p) /\ UnnamedForm(rForm', p)
    BY <1>2, <1>5, <1>7, <1>8, <2>4, RecordPut
  <2>6. OwnForm'
    BY <2>1 DEF OwnForm, R!NoForm
  <2> QED BY <1>1, <1>5, <1>6, <2>2, <2>3, <2>5, <2>6, ChosenBase
<1>10. CASE ~remote
  <2>1. /\ rForm' = IF c.here THEN [rForm EXCEPT !.pending = rec, !.init = FALSE] ELSE rForm
        /\ rCalls' = R!Done(q)
        /\ UNCHANGED <<repo, follow, overlap, crossed, rScreen, pForm>>
    BY <1>2, <1>4, <1>10 DEF R!Initialized
  <2>2. rForm'.to \in {None, rForm.to, rec.to} /\ rForm'.pending \in {None, rForm.pending, rec}
    BY <2>1 DEF Base, RecordsTyped, R!RepoForm
  <2>3. \A p \in Profiles :
            Unnamed(p) => UnnamedStores(file', known', p) /\ UnnamedForm(rForm', p)
    BY <1>2, <1>5, <1>7, <1>8, <2>2, RecordPut
  <2>4. OwnForm => OwnForm'
    BY <1>5, <2>1 DEF OwnForm
  <2> QED BY <1>1, <1>5, <1>6, <2>1, <2>3, <2>4, AnswerBase
<1> QED BY <1>9, <1>10

LEMMA RepoSavedBase ==
    ASSUME Base, NEW q \in R!Slots, R!RepoSaved(q)
    PROVE  Base' /\ \A p \in Profiles : Unnamed(p) => Unnamed(p)'
<1>1. RecordsTyped'
  BY RepoSavedTyped DEF Base
<1>2. PICK c : c = rCalls[q] /\ c # None /\ c.op = "updateRepo"
  BY DEF R!RepoSaved, R!At
<1>3. c \in R!Call /\ c.id \in Repos /\ [id |-> c.id, to |-> c.to] \in R!Record
  BY <1>2, RecordOfCall DEF Base, R!OnRepos
<1>4. PICK rec \in R!Record : rec = [id |-> c.id, to |-> c.to]
  BY <1>3
<1>5. /\ UNCHANGED <<file, fresh, selected, rScreen, ready, pForm, rActs, rMoves>>
      /\ known' = [known EXCEPT !.r[c.id] = IF @ = None THEN @ ELSE rec]
      /\ rForm' = R!Saved(rForm, c)
      /\ \/ R!SetActiveRepo(rec, R!Done(q), q, known.p, known.active)
         \/ rCalls' = R!Done(q) /\ UNCHANGED <<repo, follow, overlap, crossed>>
  BY <1>2, <1>4 DEF R!RepoSaved
<1>6. ready
  BY <1>2, ReadyNow DEF Listings
<1>7. /\ known'.p = known.p /\ known'.active = known.active
      /\ \A x \in Repos : known'.r[x] \in {None, known.r[x], rec}
  BY <1>3, <1>5 DEF Base, RecordsTyped, KnownState, R!ReposFile
<1>8. rec.to = c.to /\ c.op \in R!OnRepos
  BY <1>2, <1>4 DEF R!OnRepos
<1>9. rForm'.to \in {None, rForm.to, rec.to} /\ rForm'.pending \in {None, rForm.pending, rec}
  BY <1>5 DEF R!Saved, Base, RecordsTyped, R!RepoForm
<1>10. \A p \in Profiles :
          Unnamed(p) => UnnamedStores(file', known', p) /\ UnnamedForm(rForm', p)
  BY <1>2, <1>5, <1>7, <1>8, <1>9, RecordPut
<1>11. OwnForm => OwnForm'
  BY <1>5 DEF OwnForm
<1>12. CASE R!SetActiveRepo(rec, R!Done(q), q, known.p, known.active)
  <2>1. Chosen(rec, q)
    BY <1>12, ChosenFromDone DEF Base, R!Maybe
  <2>2. crossed => crossed'
    BY <1>12 DEF R!SetActiveRepo
  <2> QED BY <1>1, <1>5, <1>6, <1>10, <1>11, <2>1, <2>2, ChosenBase
<1>13. CASE rCalls' = R!Done(q) /\ UNCHANGED <<repo, follow, overlap, crossed>>
  BY <1>1, <1>5, <1>6, <1>10, <1>11, <1>13, AnswerBase
<1> QED BY <1>5, <1>12, <1>13

-----------------------------------------------------------------------------
(* Records: a start, and every step.                                       *)

\* The calls of a start are two listings.
LEMMA LoadsTrue ==
    /\ \A q \in R!Slots : /\ OwnCall(R!Loads[q]) /\ ~Newest(R!Loads[q])
                          /\ R!Loads[q] # None => R!Loads[q].op \in Listings
    /\ \A q \in R!Slots, p \in Profiles : UnnamedCall(R!Loads[q], p) /\ UnbornCall(R!Loads[q], p)
<1> SUFFICES ASSUME NEW q \in R!Slots
             PROVE  /\ OwnCall(R!Loads[q]) /\ ~Newest(R!Loads[q])
                    /\ R!Loads[q] # None => R!Loads[q].op \in Listings
                    /\ \A p \in Profiles : UnnamedCall(R!Loads[q], p) /\ UnbornCall(R!Loads[q], p)
  OBVIOUS
<1>1. PICK c : c = R!Loads[q]
  OBVIOUS
<1>2. \/ c = None
      \/ /\ c.op \in Listings /\ c.at = "asked" /\ c.to = None /\ c.active = None
  BY <1>1, LoadsAre DEF CallFor, Listings
<1>3. CASE c = None
  BY <1>1, <1>3, NoneIsNewer
<1>4. CASE c # None
  <2>1. ~HasP(c) /\ ~HasR(c) /\ c.op # "setActive" /\ c.op # "updateProfile"
    BY <1>2, <1>4 DEF HasP, HasR, Listings
  <2> QED BY <1>1, <1>2, <1>4, <2>1, NoneIsNoRecord
          DEF OwnCall, Newest, Chooses, UnnamedCall, UnbornCall
<1> QED BY <1>3, <1>4

\* What a start shows and asks for, whatever is on disk.
LEMMA StartBase ==
    ASSUME RecordsTyped', known' = R!NoneKnown, rCalls' = R!Loads, ready' = FALSE,
           repo' = None, selected' = None, rScreen' = "repositories",
           pForm' = R!NoForm, rForm' = R!NoRepoForm, follow' = None,
           ~crossed' => Own(file'.p),
           \A p \in fresh' : file'.p[p] = None /\ p # file'.active /\ ~AssignsTo(file'.r, p)
    PROVE  Base'
<1>1. OwnInv'
  BY LoadsTrue DEF OwnInv, OwnCalls, OwnForm, R!NoForm
<1>2. StartCalls(rCalls', ready') /\ StartScreens' /\ OneNewest(rCalls')
  BY LoadsTrue DEF StartCalls, StartScreens, OneNewest
<1>3. ASSUME NEW p \in fresh'  PROVE Unborn(p)'
  <2>1. p \in Profiles
    BY DEF RecordsTyped
  <2>2. UnnamedStores(file', known', p)
    BY <2>1, NoneIsNoRecord DEF UnnamedStores, R!NoneKnown, AssignsTo
  <2>3. UnnamedForm(rForm', p)
    BY <2>1, NoneIsNoRecord DEF UnnamedForm, R!NoRepoForm
  <2>4. UnnamedCalls(rCalls', p) /\ UnbornCalls(rCalls', p)
    BY <2>1, LoadsTrue DEF UnnamedCalls, UnbornCalls
  <2> QED BY <2>2, <2>3, <2>4 DEF Unborn, Unnamed
<1> QED BY <1>1, <1>2, <1>3 DEF Base

LEMMA RestartBase == ASSUME Base, R!Restart PROVE Base'
<1>1. RecordsTyped'
  BY RestartTyped DEF Base
<1>2. /\ file' = R!Healed(file) /\ UNCHANGED <<fresh, crossed>>
      /\ known' = R!NoneKnown /\ rCalls' = R!Loads /\ ready' = FALSE
      /\ repo' = None /\ selected' = None /\ rScreen' = "repositories"
      /\ pForm' = R!NoForm /\ rForm' = R!NoRepoForm /\ follow' = None
  BY DEF R!Restart
<1>3. PICK s : s = R!Pruned(file.r, file.p)
  OBVIOUS
<1>4. file'.p = file.p /\ file'.active = file.active /\ file'.r = s
  BY <1>2, <1>3 DEF R!Healed, Base, RecordsTyped, FileState
<1>5. \A x \in Repos : /\ s[x] = None <=> file.r[x] = None
                       /\ file.r[x] # None => s[x].to \in {None, file.r[x].to}
  BY <1>3, PrunedTyped DEF Base, RecordsTyped, FileState
<1>6. ASSUME NEW p \in fresh'
      PROVE  file'.p[p] = None /\ p # file'.active /\ ~AssignsTo(file'.r, p)
  <2>1. p \in Profiles /\ Unborn(p)
    BY <1>2 DEF Base, RecordsTyped
  <2> QED BY <1>4, <1>5, <2>1, NoneIsNoRecord DEF Unborn, Unnamed, UnnamedStores, AssignsTo
<1>7. ~crossed' => Own(file'.p)
  BY <1>2, <1>4 DEF Base, OwnInv
<1> QED BY <1>1, <1>2, <1>6, <1>7, StartBase

LEMMA RecordsInitBase == ASSUME R!Init PROVE Base
<1>1. RecordsTyped
  BY RecordsInitTyped
<1>2. PICK fp, fr :
        /\ fp = [p \in Profiles |-> IF p \in FirstProfiles THEN [of |-> p, linked |-> FALSE]
                                   ELSE None]
        /\ fr = [r \in Repos |-> IF r \in DOMAIN Assigned THEN [id |-> r, to |-> Assigned[r]]
                                ELSE None]
  OBVIOUS
<1>3. /\ file.p = fp /\ file.r = fr /\ file.active = None
      /\ fresh = Profiles \ FirstProfiles
      /\ known = R!NoneKnown /\ rCalls = R!Loads /\ ready = FALSE
      /\ repo = None /\ selected = None /\ rScreen = "repositories"
      /\ pForm = R!NoForm /\ rForm = R!NoRepoForm /\ follow = None
  BY <1>2 DEF R!Init
<1>4. Own(file.p)
  BY <1>2, <1>3 DEF Own
<1>5. \A p \in fresh : file.p[p] = None /\ p # file.active /\ ~AssignsTo(file.r, p)
  <2> SUFFICES ASSUME NEW p \in fresh
               PROVE  file.p[p] = None /\ p # file.active /\ ~AssignsTo(file.r, p)
    OBVIOUS
  <2>1. file.p[p] = None /\ p # file.active
    BY <1>2, <1>3, NoneIsNoRecord
  <2>2. ASSUME NEW x \in Repos, fr[x] # None  PROVE fr[x].to # p
    <3>1. x \in DOMAIN Assigned /\ fr[x].to = Assigned[x]
      BY <1>2, <2>2
    <3> QED BY <1>3, <3>1, NoneIsNoRecord, RecordsAssumption
  <2> QED BY <1>3, <2>1, <2>2 DEF AssignsTo
<1>6. OwnInv
  BY <1>3, <1>4, LoadsTrue DEF OwnInv, OwnCalls, OwnForm, R!NoForm
<1>7. StartCalls(rCalls, ready) /\ StartScreens /\ OneNewest(rCalls)
  BY <1>3, LoadsTrue DEF StartCalls, StartScreens, OneNewest
<1>8. ASSUME NEW p \in fresh  PROVE Unborn(p)
  <2>1. p \in Profiles
    BY <1>3
  <2>2. UnnamedStores(file, known, p)
    BY <1>3, <1>5, <2>1, NoneIsNoRecord DEF UnnamedStores, R!NoneKnown, AssignsTo
  <2>3. UnnamedForm(rForm, p)
    BY <1>3, <2>1, NoneIsNoRecord DEF UnnamedForm, R!NoRepoForm
  <2>4. UnnamedCalls(rCalls, p) /\ UnbornCalls(rCalls, p)
    BY <1>3, <2>1, LoadsTrue DEF UnnamedCalls, UnbornCalls
  <2> QED BY <1>5, <2>2, <2>3, <2>4 DEF Unborn, Unnamed
<1> QED BY <1>1, <1>6, <1>7, <1>8 DEF Base

LEMMA RecordSteps ==
    ASSUME R!Next
    PROVE  Shows \/ Picks \/ Asks \/ R!Restart \/ \E q \in R!Slots : Works(q) \/ Answers(q)
<1>1. R!User => Shows \/ Picks \/ Asks
  BY DEF R!User, Shows, Picks, Asks
<1>2. R!Background => Shows \/ Picks \/ Asks \/ \E q \in R!Slots : Works(q) \/ Answers(q)
  BY DEF R!Background, Shows, Picks, Asks, Works, Answers
<1>3. R!Authorized => Asks
  BY DEF Asks
<1> QED BY <1>1, <1>2, <1>3 DEF R!Next

LEMMA ShowsIs ==
    ASSUME Shows
    PROVE  /\ UNCHANGED <<file, known, repo, ready, follow, crossed, rMoves>>
           /\ rCalls' = rCalls \/ rCalls' \in {R!Unmounted, R!Moved(rCalls)}
<1>1. UNCHANGED <<file, known, repo, ready, follow, crossed, rMoves>>
  BY DEF Shows, R!Navigate, R!SelectProfile, R!StartCreate, R!Connect, R!StartAdd, R!CancelAdd,
         R!FollowSelection, R!Store
<1>2. rCalls' = rCalls \/ rCalls' \in {R!Unmounted, R!Moved(rCalls)}
  BY DEF Shows, R!Navigate, R!SelectProfile, R!StartCreate, R!Connect, R!StartAdd, R!CancelAdd,
         R!FollowSelection
<1> QED BY <1>1, <1>2

LEMMA NextBase == ASSUME Base, R!Next PROVE Base'
<1>1. CASE Shows
  BY <1>1, NavigateBase, SelectProfileBase, StartCreateBase, ConnectBase, StartAddBase,
     CancelAddBase, FollowSelectionBase DEF Shows
<1>2. CASE Picks
  BY <1>2, PickRepoBase, SelectRepoBase, ContinueInitBase, AutoSelectBase DEF Picks
<1>3. CASE Asks
  BY <1>3, AddRepoBase, InitRepoBase, RemoveRepoBase, SaveRepoBase, SetActiveBase,
     SubmitBase, AuthorizedBase, CloseModalBase DEF Asks
<1>4. CASE R!Restart
  BY <1>4, RestartBase
<1>5. ASSUME NEW q \in R!Slots, Works(q)  PROVE Base'
  BY <1>5, ReadBase, WriteProfileBase, CascadeBase, PruneBase, WriteRepoBase DEF Works
<1>6. ASSUME NEW q \in R!Slots, Answers(q)  PROVE Base'
  BY <1>6, CreatedBase, UpdatedBase, DisconnectedBase, DeletedBase, ProfilesListedBase,
     AddedBase, RepoSavedBase, RemovedBase, ActiveSetBase, FailBase, ReposListedBase,
     DeleteEndsBase, InitializedBase DEF Answers
<1> QED BY <1>1, <1>2, <1>3, <1>4, <1>5, <1>6, RecordSteps

-----------------------------------------------------------------------------
(* Records: what holds while no two calls have met.                        *)

-----------------------------------------------------------------------------
LEMMA Meetings ==
    /\ \A a, b \in R!Ops : R!Meet(a, b) => R!Meet(b, a)
    /\ \A a \in R!OnProfiles, b \in OnP : R!Meet(a, b)
    /\ \A a \in R!OnRepos, b \in OnR \union {"deleteProfile"} : R!Meet(a, b)
    /\ \A b \in R!Ops : R!Meet("deleteProfile", b)
    /\ \A b \in {"loadProfiles", "disconnect"} : R!Meet("setActive", b)
<1>1. \A a, b \in R!Ops : R!Meet(a, b) => R!Meet(b, a)
  BY DEF R!Meet
<1>2. \A b \in OnP : "profiles" \in R!Touches(b)
  BY DEF OnP, R!Touches
<1>3. \A b \in OnR \union {"deleteProfile"} : "repos" \in R!Touches(b)
  BY DEF OnR, R!Touches
<1>4. \A b \in {"setActive", "loadProfiles", "disconnect", "deleteProfile"} :
         "settings" \in R!Touches(b)
  BY DEF R!Touches
<1>5. \A a \in R!OnProfiles \union R!OnRepos \union {"setActive"} : R!Writes(a)
  BY DEF R!Writes
<1>6. "setActive" \notin R!OnProfiles /\ "setActive" \notin R!OnRepos
      /\ R!OnProfiles \subseteq OnP /\ R!OnRepos \subseteq OnR /\ "deleteProfile" \in R!OnProfiles
  BY DEF R!OnProfiles, R!OnRepos, R!Creates, OnP, OnR
<1>7. \A a \in R!OnProfiles, b \in OnP : R!Meet(a, b)
  BY <1>2, <1>5, <1>6 DEF R!Meet
<1>8. \A a \in R!OnRepos, b \in OnR \union {"deleteProfile"} : R!Meet(a, b)
  BY <1>3, <1>5, <1>6 DEF R!Meet
<1>9. \A b \in {"loadProfiles", "disconnect"} : R!Meet("setActive", b)
  BY <1>4, <1>5 DEF R!Meet
<1>10. \A b \in R!Ops : R!Meet("deleteProfile", b)
  <2>1. R!Ops = OnP \union OnR \union {"setActive"}
    BY DEF R!Ops, OnP, OnR
  <2> QED BY <1>2, <1>3, <1>4, <1>5, <1>6, <2>1 DEF R!Meet
<1> QED BY <1>1, <1>7, <1>8, <1>9, <1>10

LEMMA ApartBeside ==
    ASSUME NEW cs, GoodRecordCalls(cs), Apart(cs), NEW q \in R!Slots, cs[q] # None
    PROVE  \A x \in R!Slots \ {q} : cs[x] # None => Beside(cs[q].op, cs[x].op)
<1> SUFFICES ASSUME NEW x \in R!Slots \ {q}, cs[x] # None  PROVE Beside(cs[q].op, cs[x].op)
  OBVIOUS
<1>1. PICK a, b : a = cs[q].op /\ b = cs[x].op
  OBVIOUS
<1>2. a \in R!Ops /\ b \in R!Ops
  BY <1>1 DEF GoodRecordCalls, GoodSlot, R!Call
<1>3. ~R!Meet(a, b) /\ ~R!Meet(b, a)
  BY <1>1 DEF Apart
<1>4. R!OnProfiles \subseteq R!Ops /\ R!OnRepos \subseteq R!Ops
  BY OpsApart
<1> QED BY <1>1, <1>2, <1>3, <1>4, Meetings DEF Beside

-----------------------------------------------------------------------------
(* Records: what a step of one call leaves as it was.                      *)

LEMMA ApartKept ==
    ASSUME NEW cs, NEW ds, GoodRecordCalls(cs), NEW q \in R!Slots, NEW new,
           Turns(cs, ds, q, new), Apart(cs),
           ds[q] # None =>
              \/ cs[q] # None /\ ds[q].op = cs[q].op
              \/ ds[q].op \in R!Ops /\ ~MeetsOther(cs, q, ds[q].op)
    PROVE  Apart(ds)
<1> SUFFICES ASSUME NEW x \in R!Slots, NEW y \in R!Slots, x # y, ds[x] # None, ds[y] # None
             PROVE  ~R!Meet(ds[x].op, ds[y].op)
  BY DEF Apart
<1>1. \A z \in R!Slots \ {q} : ds[z] # None => cs[z] # None /\ ds[z].op = cs[z].op
  BY DEF Turns, Like
<1>2. CASE ds[q] # None => cs[q] # None /\ ds[q].op = cs[q].op
  <2>1. cs[x] # None /\ cs[y] # None /\ ds[x].op = cs[x].op /\ ds[y].op = cs[y].op
    BY <1>1, <1>2
  <2> QED BY <2>1 DEF Apart
<1>3. CASE ~(ds[q] # None => cs[q] # None /\ ds[q].op = cs[q].op)
  <2>1. /\ ds[q].op \in R!Ops
        /\ \A z \in R!Slots \ {q} : cs[z] # None => ~R!Meet(cs[z].op, ds[q].op)
    BY <1>3 DEF MeetsOther
  <2>2. \A z \in R!Slots \ {q} : cs[z] # None => ~R!Meet(ds[q].op, cs[z].op)
    BY <2>1, Meetings DEF GoodRecordCalls, GoodSlot, R!Call
  <2>3. CASE x = q
    BY <1>1, <2>2, <2>3
  <2>4. CASE y = q
    BY <1>1, <2>1, <2>4
  <2>5. CASE x # q /\ y # q
    BY <1>1, <2>5 DEF Apart
  <2> QED BY <2>3, <2>4, <2>5
<1> QED BY <1>2, <1>3

LEMMA LikeAhead ==
    ASSUME NEW c, NEW d, Like(c, d)
    PROVE  /\ \A f : FreshCall(c, f) => FreshCall(d, f)
           /\ \A p : Prunes(c, p) => Prunes(d, p)
           /\ \A p, l : ExistsAhead(c, p, l) => ExistsAhead(d, p, l)
           /\ \A p : ProfileAhead(c, p) => ProfileAhead(d, p)
           /\ \A x : RepoAhead(c, x) => RepoAhead(d, x)
           /\ \A k : UpdateListed(c, k) => UpdateListed(d, k)
           /\ Creating(c) <=> Creating(d)
           /\ c # None => d.id = c.id
<1>1. \A f : FreshCall(c, f) => FreshCall(d, f)
  BY DEF Like, FreshCall
<1> QED BY <1>1 DEF Like, Prunes, ExistsAhead, ProfileAhead, RepoAhead, UpdateListed, Creating

LEMMA FreshKept ==
    ASSUME NEW cs, NEW ds, NEW q \in R!Slots, NEW new, Turns(cs, ds, q, new),
           NEW f, \A x \in R!Slots \ {q} : FreshCall(cs[x], f), FreshCall(ds[q], f)
    PROVE  FreshCalls(ds, f)
BY LikeAhead DEF Turns, FreshCalls

LEMMA GhostKept ==
    ASSUME NEW cs, NEW ds, NEW q \in R!Slots, NEW new, Turns(cs, ds, q, new),
           NEW f, NEW f2, NoGhost(cs, f), NEW c, NEW d, c = cs[q], d = ds[q],
           GhostStep(f, f2, c, d)
    PROVE  NoGhost(ds, f2)
<1> SUFFICES ASSUME NEW x \in Repos, Ghost(f2, x)
             PROVE  \E y \in R!Slots : Prunes(ds[y], f2.r[x].to)
  BY DEF NoGhost
<1>0. \/ Prunes(ds[q], f2.r[x].to)
      \/ Ghost(f, x) /\ f2.r[x].to = f.r[x].to /\ ~Prunes(cs[q], f.r[x].to)
  BY DEF GhostStep
<1>1. CASE Prunes(ds[q], f2.r[x].to)
  BY <1>1
<1>2. CASE Ghost(f, x) /\ f2.r[x].to = f.r[x].to /\ ~Prunes(cs[q], f.r[x].to)
  <2>1. PICK y \in R!Slots : Prunes(cs[y], f.r[x].to)
    BY <1>2 DEF NoGhost
  <2>2. y # q
    BY <1>2, <2>1
  <2>3. Prunes(ds[y], f.r[x].to)
    BY <2>1, <2>2, LikeAhead DEF Turns
  <2> QED BY <1>2, <2>3
<1> QED BY <1>0, <1>1, <1>2

LEMMA ExistKept ==
    ASSUME NEW cs, NEW ds, NEW q \in R!Slots, NEW new, Turns(cs, ds, q, new),
           NEW k, NEW k2, NEW f, NEW f2, NEW l, NEW l2, KnownExist(cs, k, f, l),
           NEW c, NEW d, c = cs[q], d = ds[q],
           l2 => l \/ \A p \in Profiles : SameExist(k2, f2, p),
           ExistStep(k, k2, f, f2, l, l2, c, d)
    PROVE  KnownExist(ds, k2, f2, l2)
<1> SUFFICES ASSUME NEW p \in Profiles
             PROVE  SameExist(k2, f2, p) \/ \E y \in R!Slots : ExistsAhead(ds[y], p, l2)
  BY DEF KnownExist
<1>0. \/ SameExist(k2, f2, p) \/ ExistsAhead(ds[q], p, l2)
      \/ (SameExist(k, f, p) => SameExist(k2, f2, p)) /\ ~ExistsAhead(cs[q], p, l)
  BY DEF ExistStep
<1>1. CASE SameExist(k2, f2, p) \/ ExistsAhead(ds[q], p, l2)
  BY <1>1
<1>2. CASE (SameExist(k, f, p) => SameExist(k2, f2, p)) /\ ~ExistsAhead(cs[q], p, l)
  <2>1. CASE SameExist(k2, f2, p)
    BY <2>1
  <2>2. CASE ~SameExist(k2, f2, p)
    <3>1. PICK y \in R!Slots : ExistsAhead(cs[y], p, l)
      BY <1>2, <2>2 DEF KnownExist
    <3>2. y # q
      BY <1>2, <3>1
    <3>3. ExistsAhead(ds[y], p, l)
      BY <3>1, <3>2, LikeAhead DEF Turns
    <3> QED BY <2>2, <3>3 DEF ExistsAhead
  <2> QED BY <2>1, <2>2
<1> QED BY <1>0, <1>1, <1>2

LEMMA EqualKept ==
    ASSUME NEW cs, NEW ds, NEW q \in R!Slots, NEW new, Turns(cs, ds, q, new),
           NEW k, NEW k2, NEW f, NEW f2, KnownEqual(cs, k, f),
           NEW c, NEW d, c = cs[q], d = ds[q], EqualStep(k, k2, f, f2, c, d)
    PROVE  KnownEqual(ds, k2, f2)
<1> SUFFICES ASSUME NEW p \in Profiles
             PROVE  k2.p[p] = f2.p[p] \/ \E y \in R!Slots : ProfileAhead(ds[y], p)
  BY DEF KnownEqual
<1>0. \/ k2.p[p] = f2.p[p] \/ ProfileAhead(ds[q], p)
      \/ (k.p[p] = f.p[p] => k2.p[p] = f2.p[p]) /\ ~ProfileAhead(cs[q], p)
  BY DEF EqualStep
<1>1. CASE k2.p[p] = f2.p[p] \/ ProfileAhead(ds[q], p)
  BY <1>1
<1>2. CASE (k.p[p] = f.p[p] => k2.p[p] = f2.p[p]) /\ ~ProfileAhead(cs[q], p)
  <2>1. CASE k.p[p] = f.p[p]
    BY <1>2, <2>1
  <2>2. CASE k.p[p] # f.p[p]
    <3>1. PICK y \in R!Slots : ProfileAhead(cs[y], p)
      BY <2>2 DEF KnownEqual
    <3>2. y # q
      BY <1>2, <3>1
    <3> QED BY <3>1, <3>2, LikeAhead DEF Turns
  <2> QED BY <2>1, <2>2
<1> QED BY <1>0, <1>1, <1>2

LEMMA ListKept ==
    ASSUME NEW cs, NEW ds, NEW q \in R!Slots, NEW new, Turns(cs, ds, q, new),
           NEW k, NEW k2, NEW f, NEW f2, ListEqual(cs, k, f),
           NEW c, NEW d, c = cs[q], d = ds[q], ListStep(k, k2, f, f2, c, d)
    PROVE  ListEqual(ds, k2, f2)
<1> SUFFICES ASSUME NEW x \in Repos
             PROVE  k2.r[x] = f2.r[x] \/ \E y \in R!Slots : RepoAhead(ds[y], x)
  BY DEF ListEqual
<1>0. \/ k2.r[x] = f2.r[x] \/ RepoAhead(ds[q], x)
      \/ (k.r[x] = f.r[x] => k2.r[x] = f2.r[x]) /\ ~RepoAhead(cs[q], x)
  BY DEF ListStep
<1>1. CASE k2.r[x] = f2.r[x] \/ RepoAhead(ds[q], x)
  BY <1>1
<1>2. CASE (k.r[x] = f.r[x] => k2.r[x] = f2.r[x]) /\ ~RepoAhead(cs[q], x)
  <2>1. CASE k.r[x] = f.r[x]
    BY <1>2, <2>1
  <2>2. CASE k.r[x] # f.r[x]
    <3>1. PICK y \in R!Slots : RepoAhead(cs[y], x)
      BY <2>2 DEF ListEqual
    <3>2. y # q
      BY <1>2, <3>1
    <3> QED BY <3>1, <3>2, LikeAhead DEF Turns
  <2> QED BY <2>1, <2>2
<1> QED BY <1>0, <1>1, <1>2

-----------------------------------------------------------------------------
(* Records: every step keeps to Steady while no calls have met.            *)

\* A step that changes the call of slot q from c to d, for the profiles of T.
LEMMA TurnSteady ==
    ASSUME Base, Steady, NEW q \in R!Slots, NEW new, Turns(rCalls, rCalls', q, new),
           NEW c, NEW d, c = rCalls[q], d = rCalls'[q], NEW T,
           d # None => \/ c # None /\ d.op = c.op
                       \/ d.op \in R!Ops /\ ~MeetsOther(rCalls, q, d.op),
           FreshCall(d, file'),
           \A x \in R!Slots \ {q} : FreshCall(rCalls[x], file) => FreshCall(rCalls[x], file'),
           GhostStep(file, file', c, d),
           \A x \in R!Slots \ {q} : Creating(rCalls[x]) => rCalls[x].id \in T,
           \A p \in T : Unnamed(p) => Unnamed(p)',
           \A p \in Profiles : Creating(d) /\ d.id = p => Unnamed(p)',
           ready' => ready \/ \A p \in Profiles : SameExist(known', file', p),
           ExistStep(known, known', file, file', ready, ready', c, d),
           UpdateListed(d, known'),
           \A x \in R!Slots \ {q} : UpdateListed(rCalls[x], known) => UpdateListed(rCalls[x], known'),
           rMoves' = 0 => /\ rMoves = 0 /\ EqualStep(known, known', file, file', c, d)
                          /\ ListStep(known, known', file, file', c, d)
    PROVE  Steady'
<1>1. Apart(rCalls')
  BY ApartKept DEF Base, RecordsTyped, Steady
<1>2. FreshCalls(rCalls', file')
  <2>1. \A x \in R!Slots \ {q} : FreshCall(rCalls[x], file')
    BY DEF Steady, FreshCalls
  <2> QED BY <2>1, FreshKept
<1>3. NoGhost(rCalls', file')
  BY GhostKept DEF Steady
<1>4. ASSUME NEW p \in Profiles, CreatesNow(rCalls', p)  PROVE Unnamed(p)'
  <2>1. PICK x \in R!Slots : Creating(rCalls'[x]) /\ rCalls'[x].id = p
    BY <1>4 DEF CreatesNow
  <2>2. CASE x = q
    BY <2>1, <2>2
  <2>3. CASE x # q
    <3>1. Creating(rCalls[x]) /\ rCalls[x].id = p
      BY <2>1, <2>3, LikeAhead DEF Turns, Creating
    <3>2. Unnamed(p)
      BY <3>1 DEF Steady, CreatesNow
    <3> QED BY <2>3, <3>1, <3>2
  <2> QED BY <2>2, <2>3
<1>5. KnownExist(rCalls', known', file', ready')
  BY ExistKept DEF Steady
<1>6. \A x \in R!Slots : UpdateListed(rCalls'[x], known')
  BY LikeAhead DEF Turns, Steady
<1>7. rMoves' = 0 => KnownEqual(rCalls', known', file')
  BY EqualKept DEF Steady
<1>8. rMoves' = 0 => ListEqual(rCalls', known', file')
  BY ListKept DEF Steady
<1> QED BY <1>1, <1>2, <1>3, <1>4, <1>5, <1>6, <1>7, <1>8 DEF Steady

\* A call is asked, dropped or goes on, and the stores and files are as they were.
LEMMA SlotSteady ==
    ASSUME Base, Steady, NEW q \in R!Slots, NEW new, Turns(rCalls, rCalls', q, new),
           NEW c, NEW d, c = rCalls[q], d = rCalls'[q], NEW T,
           file' = file, known'.p = known.p, known'.r = known.r, ready' = ready,
           rMoves' = 0 => rMoves = 0,
           d # None => \/ c # None /\ d.op = c.op
                       \/ d.op \in R!Ops /\ ~MeetsOther(rCalls, q, d.op),
           FreshCall(d, file),
           \A p \in Profiles : Prunes(c, p) => Prunes(d, p),
           \A x \in R!Slots \ {q} : Creating(rCalls[x]) => rCalls[x].id \in T,
           \A p \in T : Unnamed(p) => Unnamed(p)',
           \A p \in Profiles : Creating(d) /\ d.id = p => Unnamed(p)',
           \A p \in Profiles : ExistsAhead(c, p, ready) => ExistsAhead(d, p, ready) \/ SameExist(known, file, p),
           UpdateListed(d, known),
           rMoves' = 0 =>
              /\ \A p \in Profiles : ProfileAhead(c, p) => ProfileAhead(d, p) \/ known.p[p] = file.p[p]
              /\ \A x \in Repos : RepoAhead(c, x) => RepoAhead(d, x) \/ known.r[x] = file.r[x]
    PROVE  Steady'
<1>1. \A x \in Repos : Ghost(file, x) => file.r[x].to \in Profiles
  <2>1. \A x \in Repos : file.r[x] # None => file.r[x].to \in R!Maybe(Profiles)
    BY DEF Base, RecordsTyped, FileState, R!ReposFile, R!Maybe, R!Record
  <2> QED BY <2>1 DEF Ghost, R!Maybe
<1>2. GhostStep(file, file', c, d)
  BY <1>1 DEF GhostStep
<1>3. \A x \in R!Slots \ {q} : UpdateListed(rCalls[x], known) => UpdateListed(rCalls[x], known')
  BY DEF UpdateListed
<1>4. UpdateListed(d, known')
  BY DEF UpdateListed
<1>5. ExistStep(known, known', file, file', ready, ready', c, d)
  BY DEF SameExist, ExistStep
<1>6. rMoves' = 0 => /\ EqualStep(known, known', file, file', c, d)
                     /\ ListStep(known, known', file, file', c, d)
  BY DEF EqualStep, ListStep
<1> QED BY <1>2, <1>3, <1>4, <1>5, <1>6, TurnSteady

\* What only the screens see.
LEMMA ScreenSteady ==
    ASSUME Base, Steady, rCalls' = rCalls \/ rCalls' \in {R!Unmounted, R!Moved(rCalls)},
           UNCHANGED <<file, known, ready, rMoves>>,
           \A p \in Profiles : Unnamed(p) => Unnamed(p)'
    PROVE  Steady'
<1>1. PICK q \in R!Slots : q = 1
  BY SlotsAreNumbers
<1>2. Turns(rCalls, rCalls', q, FALSE) /\ Like(rCalls[q], rCalls'[q])
  <2>1. CASE rCalls' = rCalls
    <3>1. \A x \in R!Slots : rCalls[x] # None => rCalls[x].old \in BOOLEAN
      BY DEF Base, RecordsTyped, GoodRecordCalls, GoodSlot, R!Call
    <3> QED BY <2>1, <3>1 DEF Turns, Like
  <2>2. CASE rCalls' \in {R!Unmounted, R!Moved(rCalls)}
    BY <2>2, FlagsTurn DEF Base, RecordsTyped
  <2> QED BY <2>1, <2>2
<1>3. PICK c, d : c = rCalls[q] /\ d = rCalls'[q]
  OBVIOUS
<1>4. Like(c, d) /\ Turns(rCalls, rCalls', q, FALSE)
  BY <1>2, <1>3
<1>5. FreshCall(c, file) /\ UpdateListed(c, known)
  BY <1>3 DEF Steady, FreshCalls
<1>6. \A x \in R!Slots : Creating(rCalls[x]) => rCalls[x].id \in Profiles
  BY DEF Base, RecordsTyped, GoodRecordCalls, GoodSlot, Shaped, Creating
<1>7. ASSUME NEW p \in Profiles, Creating(d), d.id = p  PROVE Unnamed(p)'
  <2>1. Creating(c) /\ c.id = p
    BY <1>4, <1>7, LikeAhead DEF Creating
  <2> QED BY <1>3, <2>1 DEF Steady, CreatesNow
<1>8. d # None => c # None /\ d.op = c.op
  BY <1>4 DEF Like
<1>9. /\ FreshCall(d, file) /\ UpdateListed(d, known)
      /\ \A p \in Profiles : Prunes(c, p) => Prunes(d, p)
      /\ \A p \in Profiles : ExistsAhead(c, p, ready) => ExistsAhead(d, p, ready)
      /\ \A p \in Profiles : ProfileAhead(c, p) => ProfileAhead(d, p)
      /\ \A x \in Repos : RepoAhead(c, x) => RepoAhead(d, x)
  BY <1>4, <1>5, LikeAhead
<1>10. /\ file' = file /\ known'.p = known.p /\ known'.r = known.r /\ ready' = ready
       /\ rMoves' = 0 => rMoves = 0
  OBVIOUS
<1> QED BY <1>3, <1>4, <1>6, <1>7, <1>8, <1>9, <1>10, SlotSteady

LEMMA CreatingKnown ==
    ASSUME Base  PROVE \A x \in R!Slots : Creating(rCalls[x]) => rCalls[x].id \in Profiles
BY DEF Base, RecordsTyped, GoodRecordCalls, GoodSlot, Shaped, Creating

\* A new call, which meets no other.
LEMMA AskSteady ==
    ASSUME Base, Steady, NEW c, Requests(c), ~overlap', ready, ready' = ready, file' = file,
           known'.p = known.p, known'.r = known.r, rMoves' = rMoves,
           \A p \in Profiles : Unnamed(p) => Unnamed(p)',
           c.op \in R!OnRepos /\ c.to # None => file.p[c.to] # None,
           UpdateListed(c, known)
    PROVE  Steady'
<1>1. PICK q \in R!Slots : AsksFor(q, c)
  BY DEF Requests
<1>2. PICK new : new = (c.op = "setActive")
  OBVIOUS
<1>3. rCalls[q] = None /\ rCalls'[q] = c /\ Turns(rCalls, rCalls', q, new)
  BY <1>1, <1>2, RequestTurns DEF Base, RecordsTyped
<1>4. ~MeetsOther(rCalls, q, c.op)
  BY <1>1 DEF AsksFor
<1>5. c.at = "asked" /\ c # None /\ c.op \in R!Ops
  BY DEF Requests, Asked, GoodSlot, R!Call
<1>6. FreshCall(c, file) /\ ~Creating(c)
  BY <1>5 DEF FreshCall, Creating
<1>7. PICK b : b = rCalls[q] /\ b = None
  BY <1>3
<1>8. /\ \A p : ~Prunes(b, p) /\ ~ExistsAhead(b, p, ready) /\ ~ProfileAhead(b, p)
      /\ \A x : ~RepoAhead(b, x)
  BY <1>7 DEF Prunes, ExistsAhead, ProfileAhead, RepoAhead
<1> QED BY <1>3, <1>4, <1>5, <1>6, <1>7, <1>8, CreatingKnown, SlotSteady

-----------------------------------------------------------------------------
(* Records: the steps of a call keep to Steady.                            *)

\* What may be pending along with the call of slot q.
LEMMA OthersBeside ==
    ASSUME Base, Steady, NEW q \in R!Slots, NEW c, c = rCalls[q], c # None
    PROVE  /\ c \in R!Call /\ Shaped(c) /\ FreshCall(c, file) /\ UpdateListed(c, known)
           /\ \A x \in R!Slots \ {q} : rCalls[x] # None => Beside(c.op, rCalls[x].op)
BY ApartBeside DEF Base, RecordsTyped, GoodRecordCalls, GoodSlot, Steady, FreshCalls

LEMMA ReadSteady ==
    ASSUME Base, Steady, NEW q \in R!Slots, R!Read(q)  PROVE Steady'
<1>1. PICK d : /\ Goes(q, d, "asked", "read") /\ Kept(rCalls[q], d)
               /\ d.op \in OnP => d.p = file.p
               /\ d.op \in OnR => d.r = file.r
               /\ d.op = "loadProfiles" => d.active = file.active
  BY ReadIs DEF Base, RecordsTyped
<1>2. PICK c : c = rCalls[q] /\ c # None /\ c.at = "asked" /\ d # None /\ d.at = "read"
  BY <1>1 DEF Goes
<1>3. rCalls'[q] = d /\ Turns(rCalls, rCalls', q, FALSE)
  BY <1>1, GoesTurns DEF Base, RecordsTyped
<1>4. d.op = c.op /\ d.id = c.id /\ d.to = c.to
  BY <1>1, <1>2 DEF Kept
<1>5. FreshCall(c, file) /\ UpdateListed(c, known)
  BY <1>2, OthersBeside
<1>6. FreshCall(d, file)
  <2>1. "deleteProfile" \in OnP /\ "loadProfiles" \in OnP
    BY DEF OnP, R!OnProfiles
  <2>2. d.op \in R!OnRepos /\ d.to # None => file.p[d.to] # None
    BY <1>2, <1>4, <1>5 DEF FreshCall
  <2> QED BY <1>1, <1>2, <2>1, <2>2 DEF FreshCall
<1>7. UpdateListed(d, known) /\ ~Creating(d)
  BY <1>2, <1>4, <1>5 DEF UpdateListed, Creating
<1>8. /\ \A p : ~Prunes(c, p)
      /\ \A p : ExistsAhead(c, p, ready) => ExistsAhead(d, p, ready)
      /\ \A p : ProfileAhead(c, p) => ProfileAhead(d, p)
      /\ \A x : RepoAhead(c, x) => RepoAhead(d, x)
  BY <1>2, <1>4 DEF Prunes, ExistsAhead, ProfileAhead, RepoAhead
<1>9. UNCHANGED <<file, known, ready, rMoves>>
  BY DEF R!Read, R!OnlyCalls
<1>10. \A p \in Profiles : Unnamed(p) => Unnamed(p)'
  BY ReadBase
<1> QED BY <1>2, <1>3, <1>4, <1>6, <1>7, <1>8, <1>9, <1>10, CreatingKnown, SlotSteady

LEMMA CascadeSteady ==
    ASSUME Base, Steady, NEW q \in R!Slots, R!Cascade(q)  PROVE Steady'
<1>1. PICK d : /\ Goes(q, d, "cascade", "pruning") /\ Kept(rCalls[q], d)
               /\ d.op = "deleteProfile" /\ d.p = file.p /\ d.r = file.r
  BY CascadeIs DEF Base, RecordsTyped
<1>2. PICK c : c = rCalls[q] /\ c # None /\ c.at = "cascade" /\ d # None /\ d.at = "pruning"
  BY <1>1 DEF Goes
<1>3. rCalls'[q] = d /\ Turns(rCalls, rCalls', q, FALSE)
  BY <1>1, GoesTurns DEF Base, RecordsTyped
<1>4. d.op = c.op /\ d.id = c.id /\ d.to = c.to /\ c.op = "deleteProfile"
  BY <1>1, <1>2 DEF Kept
<1>5. FreshCall(c, file)
  BY <1>2, OthersBeside
<1>6. "deleteProfile" \notin R!OnRepos /\ "deleteProfile" \notin R!Creates /\ "deleteProfile" \notin OnR
  BY DEF R!OnRepos, R!Creates, OnR
<1>7. FreshCall(d, file) /\ UpdateListed(d, known) /\ ~Creating(d)
  BY <1>1, <1>2, <1>4, <1>5, <1>6 DEF FreshCall, UpdateListed, Creating
<1>8. /\ \A p : Prunes(c, p) => Prunes(d, p)
      /\ \A p : ExistsAhead(c, p, ready) => ExistsAhead(d, p, ready)
      /\ \A p : ProfileAhead(c, p) => ProfileAhead(d, p)
      /\ \A x : RepoAhead(c, x) => RepoAhead(d, x)
  BY <1>2, <1>4, <1>6 DEF Prunes, ExistsAhead, ProfileAhead, RepoAhead
<1>9. UNCHANGED <<file, known, ready, rMoves>>
  BY DEF R!Cascade, R!OnlyCalls
<1>10. \A p \in Profiles : Unnamed(p) => Unnamed(p)'
  BY CascadeBase
<1> QED BY <1>2, <1>3, <1>4, <1>7, <1>8, <1>9, <1>10, CreatingKnown, SlotSteady

LEMMA DisconnectedSteady ==
    ASSUME Base, Steady, NEW q \in R!Slots, R!Disconnected(q)  PROVE Steady'
<1>1. PICK d : /\ Goes(q, d, "written", "listing") /\ Kept(rCalls[q], d)
               /\ d.op = "disconnect" /\ d.p = file.p /\ d.active = file.active
  BY DisconnectedIs DEF Base, RecordsTyped
<1>2. PICK c : c = rCalls[q] /\ c # None /\ c.at = "written" /\ d # None /\ d.at = "listing"
  BY <1>1 DEF Goes
<1>3. rCalls'[q] = d /\ Turns(rCalls, rCalls', q, FALSE)
  BY <1>1, GoesTurns DEF Base, RecordsTyped
<1>4. d.op = c.op /\ d.id = c.id /\ d.to = c.to /\ c.op = "disconnect"
  BY <1>1, <1>2 DEF Kept
<1>6. /\ "disconnect" \notin R!OnRepos /\ "disconnect" \notin R!Creates /\ "disconnect" \notin OnR
      /\ "disconnect" \in R!OnProfiles
  BY DEF R!OnRepos, R!Creates, OnR, R!OnProfiles
<1>7. FreshCall(d, file) /\ UpdateListed(d, known) /\ ~Creating(d)
  BY <1>1, <1>2, <1>4, <1>6 DEF FreshCall, UpdateListed, Creating
<1>8. /\ \A p : ~Prunes(c, p)
      /\ \A p : ~ExistsAhead(c, p, ready)
      /\ \A p : ProfileAhead(c, p) => ProfileAhead(d, p)
      /\ \A x : ~RepoAhead(c, x)
  BY <1>2, <1>4, <1>6 DEF Prunes, ExistsAhead, ProfileAhead, RepoAhead
<1>9. UNCHANGED <<file, ready, rMoves>> /\ known' = [known EXCEPT !.loading = TRUE]
  BY DEF R!Disconnected
<1>10. known'.p = known.p /\ known'.r = known.r
  BY <1>9 DEF Base, RecordsTyped, KnownState
<1>11. \A p \in Profiles : Unnamed(p) => Unnamed(p)'
  BY DisconnectedBase
<1> QED BY <1>2, <1>3, <1>4, <1>7, <1>8, <1>9, <1>10, <1>11, CreatingKnown, SlotSteady

LEMMA DeletedSteady ==
    ASSUME Base, Steady, NEW q \in R!Slots, R!Deleted(q)  PROVE Steady'
<1>1. PICK d : /\ Goes(q, d, "written", "listing") /\ Kept(rCalls[q], d)
               /\ d.op = "deleteProfile" /\ d.id \in Profiles /\ d.r = file.r
  BY DeletedIs DEF Base, RecordsTyped
<1>2. PICK c : c = rCalls[q] /\ c # None /\ c.at = "written" /\ d # None /\ d.at = "listing"
  BY <1>1 DEF Goes
<1>3. rCalls'[q] = d /\ Turns(rCalls, rCalls', q, FALSE)
  BY <1>1, GoesTurns DEF Base, RecordsTyped
<1>4. d.op = c.op /\ d.id = c.id /\ d.to = c.to /\ c.op = "deleteProfile"
  BY <1>1, <1>2 DEF Kept
<1>5. FreshCall(c, file)
  BY <1>2, OthersBeside
<1>6. "deleteProfile" \notin R!OnRepos /\ "deleteProfile" \notin R!Creates /\ "deleteProfile" \notin OnR
  BY DEF R!OnRepos, R!Creates, OnR
<1>7. FreshCall(d, file) /\ ~Creating(d) /\ file.p[d.id] = None
  BY <1>1, <1>2, <1>4, <1>5, <1>6 DEF FreshCall, Creating
<1>8. /\ UNCHANGED <<file, ready, rMoves>>
      /\ known' = [known EXCEPT !.p[c.id] = None, !.error = FALSE,
                                !.active = IF @ = c.id THEN None ELSE @]
  BY <1>2 DEF R!Deleted
<1>9. known'.r = known.r /\ known'.p[d.id] = None /\ \A p \in Profiles \ {d.id} : known'.p[p] = known.p[p]
  BY <1>1, <1>4, <1>8 DEF Base, RecordsTyped, KnownState, R!ProfilesFile
<1>10. /\ UpdateListed(d, known')
       /\ \A x \in R!Slots \ {q} : UpdateListed(rCalls[x], known) => UpdateListed(rCalls[x], known')
  BY <1>1, <1>9 DEF UpdateListed
<1>11. GhostStep(file, file', c, d)
  BY <1>2, <1>8 DEF GhostStep, Prunes, Ghost
<1>12. ExistStep(known, known', file, file', ready, ready', c, d)
  <2>1. SameExist(known', file', d.id)
    BY <1>7, <1>8, <1>9 DEF SameExist
  <2>2. ASSUME NEW p \in Profiles \ {d.id}
        PROVE  (SameExist(known, file, p) => SameExist(known', file', p)) /\ ~ExistsAhead(c, p, ready)
    BY <1>4, <1>8, <1>9, <2>2 DEF SameExist, ExistsAhead
  <2> QED BY <2>1, <2>2 DEF ExistStep
<1>13. EqualStep(known, known', file, file', c, d)
  <2>1. known'.p[d.id] = file'.p[d.id]
    BY <1>7, <1>8, <1>9
  <2>2. ASSUME NEW p \in Profiles \ {d.id}
        PROVE  (known.p[p] = file.p[p] => known'.p[p] = file'.p[p]) /\ ~ProfileAhead(c, p)
    BY <1>4, <1>8, <1>9, <2>2 DEF ProfileAhead
  <2> QED BY <2>1, <2>2 DEF EqualStep
<1>14. ListStep(known, known', file, file', c, d)
  BY <1>1, <1>2 DEF ListStep, RepoAhead
<1>15. \A p \in Profiles : Unnamed(p) => Unnamed(p)'
  BY DeletedBase
<1>16. \A x \in R!Slots : FreshCall(rCalls[x], file) => FreshCall(rCalls[x], file')
  BY <1>8
<1> QED BY <1>2, <1>3, <1>4, <1>7, <1>8, <1>10, <1>11, <1>12, <1>13, <1>14, <1>15, <1>16,
           CreatingKnown, TurnSteady

LEMMA PruneSteady ==
    ASSUME Base, Steady, NEW q \in R!Slots, R!Prune(q)  PROVE Steady'
<1>1. PICK d : /\ Goes(q, d, "pruning", "written") /\ Kept(rCalls[q], d)
               /\ d.op = "deleteProfile" /\ d.p = rCalls[q].p /\ d.r = rCalls[q].r
               /\ rCalls[q].r \in R!ReposFile
               /\ file' \in FileState /\ file'.p = file.p
               /\ \/ file' = file /\ R!Pruned(d.r, d.p) = d.r
                  \/ file'.r = R!Pruned(d.r, d.p)
  BY PruneIs DEF Base, RecordsTyped
<1>2. PICK c : c = rCalls[q] /\ c # None /\ c.at = "pruning" /\ d # None /\ d.at = "written"
  BY <1>1 DEF Goes
<1>3. rCalls'[q] = d /\ Turns(rCalls, rCalls', q, FALSE)
  BY <1>1, GoesTurns DEF Base, RecordsTyped
<1>4. d.op = c.op /\ d.id = c.id /\ d.to = c.to /\ c.op = "deleteProfile"
  BY <1>1, <1>2 DEF Kept
<1>5. FreshCall(c, file) /\ \A x \in R!Slots \ {q} : rCalls[x] = None
  BY <1>2, <1>4, OthersBeside DEF Beside
<1>6. /\ "deleteProfile" \notin R!OnRepos /\ "deleteProfile" \notin R!Creates
      /\ "deleteProfile" \notin OnR
  BY DEF R!OnRepos, R!Creates, OnR
<1>7. c.p = file.p /\ c.r = file.r /\ file.p[c.id] = None
  BY <1>2, <1>4, <1>5 DEF FreshCall
<1>8. file'.r = R!Pruned(file.r, file.p)
  BY <1>1, <1>2, <1>7
<1>9. FreshCall(d, file') /\ ~Creating(d) /\ UpdateListed(d, known)
  BY <1>1, <1>2, <1>4, <1>6, <1>7 DEF FreshCall, Creating, UpdateListed
<1>10. UNCHANGED <<known, ready, rMoves>>
  BY DEF R!Prune, R!OnlyCalls
<1>11. /\ \A x \in R!Slots \ {q} : FreshCall(rCalls[x], file')
       /\ \A x \in R!Slots \ {q} : UpdateListed(rCalls[x], known')
  BY <1>5 DEF FreshCall, UpdateListed
<1>12. GhostStep(file, file', c, d)
  <2>1. file.r \in R!ReposFile
    BY DEF Base, RecordsTyped, FileState
  <2>2. \A x \in Repos : ~Ghost(file', x)
    BY <1>1, <1>8, <2>1, PrunedTyped DEF Ghost
  <2> QED BY <2>2 DEF GhostStep
<1>13. ExistStep(known, known', file, file', ready, ready', c, d)
  <2>1. \A p : ExistsAhead(c, p, ready) => ExistsAhead(d, p, ready')
    BY <1>2, <1>4, <1>6, <1>10 DEF ExistsAhead
  <2>2. \A p : SameExist(known, file, p) => SameExist(known', file', p)
    BY <1>1, <1>10 DEF SameExist
  <2> QED BY <2>1, <2>2 DEF ExistStep
<1>14. EqualStep(known, known', file, file', c, d)
  <2>1. \A p : ProfileAhead(c, p) => ProfileAhead(d, p)
    BY <1>2, <1>4 DEF ProfileAhead
  <2> QED BY <1>1, <1>10, <2>1 DEF EqualStep
<1>15. ListStep(known, known', file, file', c, d)
  BY <1>1, <1>2 DEF ListStep, RepoAhead
<1>16. \A p \in Profiles : Unnamed(p) => Unnamed(p)'
  BY PruneBase
<1>17. UpdateListed(d, known') /\ rMoves' = rMoves /\ ready' = ready
  BY <1>9, <1>10
<1> QED BY <1>2, <1>3, <1>4, <1>9, <1>11, <1>12, <1>13, <1>14, <1>15, <1>16, <1>17,
           CreatingKnown, TurnSteady

LEMMA WriteRepoSteady ==
    ASSUME Base, Steady, NEW q \in R!Slots, R!WriteRepo(q)  PROVE Steady'
<1>1. PICK d : /\ Goes(q, d, "read", "written") /\ Kept(rCalls[q], d)
               /\ d.op \in R!OnRepos /\ d.id \in Repos
               /\ d.p = rCalls[q].p /\ d.r = rCalls[q].r
               /\ file' \in FileState /\ file'.p = file.p /\ file'.active = file.active
               /\ \A x \in Repos \ {d.id} : file'.r[x] = d.r[x]
               /\ file'.r[d.id] = IF d.op = "removeRepo" THEN None ELSE [id |-> d.id, to |-> d.to]
  BY WriteRepoIs DEF Base, RecordsTyped
<1>2. PICK c : c = rCalls[q] /\ c # None /\ c.at = "read" /\ d # None /\ d.at = "written"
  BY <1>1 DEF Goes
<1>3. rCalls'[q] = d /\ Turns(rCalls, rCalls', q, FALSE)
  BY <1>1, GoesTurns DEF Base, RecordsTyped
<1>4. d.op = c.op /\ d.id = c.id /\ d.to = c.to /\ c.op \in R!OnRepos
  BY <1>1, <1>2 DEF Kept
<1>5. /\ FreshCall(c, file) /\ UpdateListed(c, known)
      /\ \A x \in R!Slots \ {q} : rCalls[x] # None =>
            rCalls[x].op \notin OnR /\ rCalls[x].op # "deleteProfile"
  BY <1>2, <1>4, OthersBeside DEF Beside
<1>6. c.op \notin OnP /\ c.op \notin R!OnProfiles /\ c.op \notin R!Creates /\ c.op \in OnR
      /\ c.op # "loadRepos" /\ R!OnRepos \subseteq OnR
  BY <1>4, OpsApart DEF OnP, OnR
<1>7. c.r = file.r /\ (c.to # None => file.p[c.to] # None)
  BY <1>2, <1>4, <1>5, <1>6 DEF FreshCall
<1>8. FreshCall(d, file') /\ ~Creating(d)
  <2>1. d.op \notin OnP /\ d.op \notin R!Creates /\ d.op # "deleteProfile" /\ d.op # "loadProfiles"
        /\ d.op # "disconnect"
    BY <1>4, <1>6 DEF OnP, R!OnProfiles
  <2> QED BY <1>1, <1>2, <1>4, <1>7, <2>1 DEF FreshCall, Creating
<1>9. UNCHANGED <<known, ready, rMoves>> /\ UpdateListed(d, known)
  BY <1>1, <1>2, <1>4, <1>5 DEF R!WriteRepo, R!OnlyCalls, UpdateListed
<1>10. \A x \in R!Slots \ {q} : FreshCall(rCalls[x], file) => FreshCall(rCalls[x], file')
  BY <1>1, <1>5, <1>6 DEF FreshCall
<1>11. \A x \in Repos \ {d.id} : file'.r[x] = file.r[x]
  BY <1>1, <1>2, <1>7
<1>12. GhostStep(file, file', c, d)
  <2>1. ~Ghost(file', d.id)
    <3>1. CASE d.op = "removeRepo"
      BY <1>1, <3>1 DEF Ghost
    <3>2. CASE d.op # "removeRepo"
      <4>1. file'.r[d.id].to = d.to
        BY <1>1, <3>2
      <4> QED BY <1>1, <1>4, <1>7, <4>1 DEF Ghost
    <3> QED BY <3>1, <3>2
  <2>2. ASSUME NEW x \in Repos \ {d.id}, Ghost(file', x)
        PROVE  Ghost(file, x) /\ file'.r[x].to = file.r[x].to /\ ~Prunes(c, file.r[x].to)
    BY <1>1, <1>2, <1>11, <2>2 DEF Ghost, Prunes
  <2> QED BY <2>1, <2>2 DEF GhostStep
<1>13. ExistStep(known, known', file, file', ready, ready', c, d)
  <2>1. \A p : ~ExistsAhead(c, p, ready)
    BY <1>2, <1>6 DEF ExistsAhead, OnP
  <2>2. \A p : SameExist(known, file, p) => SameExist(known', file', p)
    BY <1>1, <1>9 DEF SameExist
  <2> QED BY <2>1, <2>2 DEF ExistStep
<1>14. EqualStep(known, known', file, file', c, d)
  <2>1. \A p : ~ProfileAhead(c, p)
    BY <1>6 DEF ProfileAhead, OnP, R!OnProfiles
  <2> QED BY <1>1, <1>9, <2>1 DEF EqualStep
<1>15. ListStep(known, known', file, file', c, d)
  <2>1. RepoAhead(d, d.id)
    BY <1>1, <1>2 DEF RepoAhead
  <2>2. \A x : ~RepoAhead(c, x)
    BY <1>2, <1>4, <1>6 DEF RepoAhead, OnR
  <2> QED BY <1>9, <1>11, <2>1, <2>2 DEF ListStep
<1>16. \A p \in Profiles : Unnamed(p) => Unnamed(p)'
  BY WriteRepoBase
<1> QED BY <1>2, <1>3, <1>4, <1>8, <1>9, <1>10, <1>12, <1>13, <1>14, <1>15, <1>16,
           CreatingKnown, TurnSteady

LEMMA WriteProfileSteady ==
    ASSUME Base, Steady, NEW q \in R!Slots, R!WriteProfile(q)  PROVE Steady'
<1>1. PICK c : c = rCalls[q]
  OBVIOUS
<1>2. PICK d : /\ c.op \in R!OnProfiles
               /\ Goes(q, d, "read", IF c.op = "deleteProfile" THEN "cascade" ELSE "written")
               /\ d.op = c.op /\ d.to = c.to
               /\ d.id \in Profiles
               /\ IF c.op \in R!Creates THEN d.id \in fresh ELSE d.id = c.id
               /\ \A x \in Profiles \ {d.id} : d.p[x] = c.p[x]
               /\ Written(c, d.id, d.p[d.id])
               /\ file'.p = d.p /\ file'.r = file.r /\ file'.active = file.active
  BY <1>1, WriteProfileIs DEF Base, RecordsTyped
<1>3. /\ c # None /\ c.at = "read" /\ d # None
      /\ d.at = IF c.op = "deleteProfile" THEN "cascade" ELSE "written"
  BY <1>1, <1>2 DEF Goes
<1>4. rCalls'[q] = d /\ Turns(rCalls, rCalls', q, FALSE)
  BY <1>2, GoesTurns DEF Base, RecordsTyped
<1>5. /\ c \in R!Call /\ Shaped(c) /\ FreshCall(c, file)
      /\ \A x \in R!Slots \ {q} : rCalls[x] # None => Beside(c.op, rCalls[x].op)
  BY <1>1, <1>3, OthersBeside
<1>6. c.op \in OnP /\ R!OnProfiles \subseteq OnP /\ c.op \notin R!OnRepos /\ c.op \notin OnR
      /\ c.op \notin {"loadProfiles", "setActive", "loadRepos"} /\ "loadProfiles" \in OnP
  BY <1>2, OpsApart DEF OnP, OnR
<1>7. c.p = file.p
  BY <1>3, <1>5, <1>6 DEF FreshCall
<1>8. /\ \A x \in Profiles \ {d.id} : file'.p[x] = file.p[x]
      /\ c.op = "deleteProfile" => file'.p[d.id] = None
      /\ c.op # "deleteProfile" => file'.p[d.id] # None
  <2>1. \A x \in Profiles \ {d.id} : file'.p[x] = file.p[x]
    BY <1>2, <1>7
  <2>2. c.op = "deleteProfile" => file'.p[d.id] = None
    BY <1>2 DEF Written
  <2>3. ASSUME c.op # "deleteProfile"  PROVE file'.p[d.id] # None
    <3>1. CASE c.op \in R!Creates
      <4>1. file'.p[d.id] = [of |-> d.id, linked |-> FALSE]
        BY <1>2, <3>1 DEF Written
      <4>2. [of |-> d.id, linked |-> FALSE] \in R!Data
        BY <1>2 DEF R!Data, R!Maybe
      <4> QED BY <4>1, <4>2, NoneIsNoRecord
    <3>2. CASE c.op \notin R!Creates
      <4>1. c.op \in {"updateProfile", "authorized", "disconnect"}
        BY <1>2, <2>3, <3>2, OpsApart
      <4> QED BY <1>2, <4>1 DEF Written
    <3> QED BY <3>1, <3>2
  <2> QED BY <2>1, <2>2, <2>3
<1>9. c.op \notin R!Creates \union {"deleteProfile"} => file.p[d.id] # None
  BY <1>2, <1>3, <1>5, <1>7 DEF Shaped
<1>10. \A p \in Profiles : c.op # "deleteProfile" /\ file.p[p] # None => file'.p[p] # None
  BY <1>8
<1>11. \A x \in R!Slots \ {q} : FreshCall(rCalls[x], file) => FreshCall(rCalls[x], file')
  <2> SUFFICES ASSUME NEW x \in R!Slots \ {q}, FreshCall(rCalls[x], file)
               PROVE  FreshCall(rCalls[x], file')
    OBVIOUS
  <2>1. PICK b : b = rCalls[x]
    OBVIOUS
  <2>2. CASE b = None
    BY <2>1, <2>2 DEF FreshCall
  <2>3. CASE b # None
    <3>1. b.op \notin OnP /\ c.op # "deleteProfile" /\ b.op # "deleteProfile"
      BY <1>2, <1>5, <2>1, <2>3 DEF Beside
    <3>2. b.op # "loadProfiles" /\ b.op # "disconnect" /\ b.op \notin R!Creates
      BY <3>1, OpsApart DEF OnP
    <3>3. b \in R!Call
      BY <2>1, <2>3 DEF Base, RecordsTyped, GoodRecordCalls, GoodSlot
    <3>4. FreshCall(b, file) /\ b.to \in R!Maybe(Profiles)
      BY <2>1, <3>3 DEF R!Call
    <3>5. FreshCall(b, file')
      BY <1>2, <1>10, <3>1, <3>2, <3>4 DEF FreshCall, R!Maybe
    <3> QED BY <2>1, <3>5
  <2> QED BY <2>2, <2>3
<1>12. FreshCall(d, file') /\ UpdateListed(d, known)
  BY <1>2, <1>3, <1>6, <1>8 DEF FreshCall, UpdateListed, R!OnRepos
<1>13. GhostStep(file, file', c, d)
  <2> SUFFICES ASSUME NEW x \in Repos, Ghost(file', x)
               PROVE  \/ Prunes(d, file'.r[x].to)
                      \/ Ghost(file, x) /\ file'.r[x].to = file.r[x].to /\ ~Prunes(c, file.r[x].to)
    BY DEF GhostStep
  <2>1. ~Prunes(c, file.r[x].to)
    BY <1>3 DEF Prunes
  <2>2. PICK t : t = file.r[x].to /\ t = file'.r[x].to
    BY <1>2
  <2>3. file.r[x] # None /\ t # None /\ file'.p[t] = None
    BY <1>2, <2>2 DEF Ghost
  <2>4. t \in Profiles
    <3>1. file.r[x] \in R!Maybe(R!Record)
      BY DEF Base, RecordsTyped, FileState, R!ReposFile
    <3> QED BY <2>2, <2>3, <3>1 DEF R!Maybe, R!Record
  <2>5. CASE file.p[t] = None
    BY <2>1, <2>2, <2>3, <2>5 DEF Ghost
  <2>6. CASE file.p[t] # None
    <3>1. c.op = "deleteProfile" /\ t = d.id
      BY <1>8, <1>10, <2>3, <2>4, <2>6
    <3> QED BY <1>2, <1>3, <2>2, <3>1 DEF Prunes
  <2> QED BY <2>5, <2>6
<1>14. UNCHANGED <<known, ready, rMoves>>
  BY DEF R!WriteProfile
<1>15. ExistStep(known, known', file, file', ready, ready', c, d)
  <2> SUFFICES ASSUME NEW p \in Profiles
               PROVE  \/ ExistsAhead(d, p, ready')
                      \/ (SameExist(known, file, p) => SameExist(known', file', p)) /\ ~ExistsAhead(c, p, ready)
    BY DEF ExistStep
  <2>1. ~ExistsAhead(c, p, ready)
    BY <1>3, <1>6 DEF ExistsAhead
  <2>2. CASE p # d.id
    BY <1>8, <1>14, <2>1, <2>2 DEF SameExist
  <2>3. CASE p = d.id /\ c.op \in R!Creates \union {"deleteProfile"}
    BY <1>2, <1>3, <2>3 DEF ExistsAhead, R!Creates
  <2>4. CASE p = d.id /\ c.op \notin R!Creates \union {"deleteProfile"}
    BY <1>9, <1>10, <1>14, <2>1, <2>4 DEF SameExist
  <2> QED BY <2>2, <2>3, <2>4
<1>16. EqualStep(known, known', file, file', c, d)
  <2> SUFFICES ASSUME NEW p \in Profiles
               PROVE  \/ ProfileAhead(d, p)
                      \/ (known.p[p] = file.p[p] => known'.p[p] = file'.p[p]) /\ ~ProfileAhead(c, p)
    BY DEF EqualStep
  <2>1. CASE p # d.id
    <3>1. ~ProfileAhead(c, p)
      BY <1>2, <1>3, <1>6, <2>1, OpsApart DEF ProfileAhead
    <3> QED BY <1>8, <1>14, <2>1, <3>1
  <2>2. CASE p = d.id
    BY <1>2, <1>3, <2>2 DEF ProfileAhead
  <2> QED BY <2>1, <2>2
<1>17. ListStep(known, known', file, file', c, d)
  <2>1. \A x : ~RepoAhead(c, x)
    BY <1>3, <1>6 DEF RepoAhead
  <2> QED BY <1>2, <1>14, <2>1 DEF ListStep
<1>18. \A p \in Profiles : Unnamed(p) => Unnamed(p)'
  BY WriteProfileBase
<1>19. \A p \in Profiles : Creating(d) /\ d.id = p => Unnamed(p)'
  <2> SUFFICES ASSUME NEW p \in Profiles, Creating(d), d.id = p  PROVE Unnamed(p)'
    OBVIOUS
  <2>1. p \in fresh
    BY <1>2 DEF Creating
  <2>2. Unnamed(p)
    BY <2>1 DEF Base, Unborn
  <2> QED BY <1>18, <2>2
<1>20. /\ UpdateListed(d, known') /\ rMoves' = rMoves /\ ready' = ready
       /\ \A x \in R!Slots \ {q} : UpdateListed(rCalls[x], known) => UpdateListed(rCalls[x], known')
  BY <1>12, <1>14
<1> QED BY <1>1, <1>2, <1>3, <1>4, <1>11, <1>12, <1>13, <1>15, <1>16, <1>17, <1>18, <1>19, <1>20,
           CreatingKnown, TurnSteady

-----------------------------------------------------------------------------
(* Records: the answers keep to Steady.                                    *)

LEMMA DoneSteady ==
    ASSUME Base, Steady, NEW q \in R!Slots, rCalls' = R!Done(q), NEW c, c = rCalls[q], NEW T,
           \A x \in R!Slots \ {q} : FreshCall(rCalls[x], file) => FreshCall(rCalls[x], file'),
           GhostStep(file, file', c, None),
           \A x \in R!Slots \ {q} : Creating(rCalls[x]) => rCalls[x].id \in T,
           \A p \in T : Unnamed(p) => Unnamed(p)',
           ready' => ready \/ \A p \in Profiles : SameExist(known', file', p),
           ExistStep(known, known', file, file', ready, ready', c, None),
           \A x \in R!Slots \ {q} : UpdateListed(rCalls[x], known) => UpdateListed(rCalls[x], known'),
           rMoves' = 0 => /\ rMoves = 0 /\ EqualStep(known, known', file, file', c, None)
                          /\ ListStep(known, known', file, file', c, None)
    PROVE  Steady'
<1>1. PICK d : d = rCalls'[q] /\ d = None
  BY DoneTurns DEF Base, RecordsTyped
<1>2. Turns(rCalls, rCalls', q, FALSE)
  BY DoneTurns DEF Base, RecordsTyped
<1>3. FreshCall(d, file') /\ UpdateListed(d, known') /\ ~Creating(d)
  BY <1>1 DEF FreshCall, UpdateListed, Creating
<1>4. /\ GhostStep(file, file', c, d) /\ ExistStep(known, known', file, file', ready, ready', c, d)
      /\ rMoves' = 0 => /\ EqualStep(known, known', file, file', c, d)
                        /\ ListStep(known, known', file, file', c, d)
  BY <1>1
<1> QED BY <1>1, <1>2, <1>3, <1>4, TurnSteady

\* An answer that changes no file.
LEMMA ToldSteady ==
    ASSUME Base, Steady, NEW q \in R!Slots, rCalls' = R!Done(q), NEW c, c = rCalls[q], NEW T,
           file' = file, \A p : ~Prunes(c, p),
           \A x \in R!Slots \ {q} : Creating(rCalls[x]) => rCalls[x].id \in T,
           \A p \in T : Unnamed(p) => Unnamed(p)',
           ready' => ready \/ \A p \in Profiles : SameExist(known', file, p),
           \A p \in Profiles : \/ SameExist(known', file, p)
                               \/ known'.p[p] = known.p[p] /\ ~ExistsAhead(c, p, ready),
           \A x \in R!Slots \ {q} : UpdateListed(rCalls[x], known) => UpdateListed(rCalls[x], known'),
           rMoves' = 0 =>
              /\ rMoves = 0
              /\ \A p \in Profiles : \/ known'.p[p] = file.p[p]
                                     \/ known'.p[p] = known.p[p] /\ ~ProfileAhead(c, p)
              /\ \A x \in Repos : \/ known'.r[x] = file.r[x]
                                  \/ known'.r[x] = known.r[x] /\ ~RepoAhead(c, x)
    PROVE  Steady'
<1>1. GhostStep(file, file', c, None)
  BY DEF GhostStep, Ghost
<1>2. ExistStep(known, known', file, file', ready, ready', c, None)
  BY DEF ExistStep, SameExist
<1>3. rMoves' = 0 => /\ EqualStep(known, known', file, file', c, None)
                     /\ ListStep(known, known', file, file', c, None)
  BY DEF EqualStep, ListStep
<1>4. ready' => ready \/ \A p \in Profiles : SameExist(known', file', p)
  OBVIOUS
<1>5. \A x \in R!Slots \ {q} : FreshCall(rCalls[x], file) => FreshCall(rCalls[x], file')
  OBVIOUS
<1> QED BY <1>1, <1>2, <1>3, <1>4, <1>5, DoneSteady

LEMMA CreatedSteady ==
    ASSUME Base, Steady, NEW q \in R!Slots, R!Created(q)  PROVE Steady'
<1>1. PICK c : /\ c = rCalls[q] /\ c # None /\ c.op \in R!Creates /\ c.at = "written"
               /\ known' = [known EXCEPT !.p[c.id] = c.p[c.id]]
               /\ rCalls' = R!Done(q) /\ UNCHANGED <<file, ready, rMoves>>
  BY DEF R!Created, R!At
<1>2. /\ FreshCall(c, file) /\ Shaped(c)
      /\ \A x \in R!Slots \ {q} : rCalls[x] # None => Beside(c.op, rCalls[x].op)
  BY <1>1, OthersBeside
<1>3. c.op \in R!OnProfiles /\ c.op \in OnP /\ c.op # "deleteProfile" /\ c.op \notin R!OnRepos
      /\ c.op \notin {"loadProfiles", "authorized", "loadRepos"}
  BY <1>1, OpsApart DEF OnP, R!Creates
<1>4. c.p = file.p /\ c.id \in Profiles
  BY <1>1, <1>2, <1>3 DEF FreshCall, Shaped
<1>5. /\ known'.p[c.id] = file.p[c.id] /\ known'.r = known.r
      /\ \A p \in Profiles \ {c.id} : known'.p[p] = known.p[p]
  BY <1>1, <1>4 DEF Base, RecordsTyped, KnownState, R!ProfilesFile
<1>6. \A x \in R!Slots \ {q} : ~Creating(rCalls[x])
  BY <1>2, <1>3, OpsApart DEF Beside, OnP, Creating
<1>7. /\ \A p : ~Prunes(c, p)
      /\ \A p \in Profiles : SameExist(known', file, p)
                             \/ (known'.p[p] = known.p[p] /\ ~ExistsAhead(c, p, ready))
  <2>1. \A p : ~Prunes(c, p)
    BY <1>3 DEF Prunes
  <2>2. SameExist(known', file, c.id)
    BY <1>5 DEF SameExist
  <2>3. \A p : p # c.id => ~ExistsAhead(c, p, ready)
    BY <1>3 DEF ExistsAhead
  <2>4. ASSUME NEW p \in Profiles
        PROVE  SameExist(known', file, p)
               \/ (known'.p[p] = known.p[p] /\ ~ExistsAhead(c, p, ready))
    <3>1. CASE p = c.id
      BY <2>2, <3>1
    <3>2. CASE p # c.id
      BY <1>5, <2>3, <3>2
    <3> QED BY <3>1, <3>2
  <2> QED BY <2>1, <2>4
<1>8. /\ \A p \in Profiles : known'.p[p] = file.p[p]
                             \/ (known'.p[p] = known.p[p] /\ ~ProfileAhead(c, p))
      /\ \A x \in Repos : known'.r[x] = known.r[x] /\ ~RepoAhead(c, x)
  <2>1. \A p : p # c.id => ~ProfileAhead(c, p)
    BY <1>3 DEF ProfileAhead
  <2>2. \A x : ~RepoAhead(c, x)
    BY <1>3 DEF RepoAhead
  <2>3. ASSUME NEW p \in Profiles
        PROVE  known'.p[p] = file.p[p] \/ (known'.p[p] = known.p[p] /\ ~ProfileAhead(c, p))
    <3>1. CASE p = c.id
      BY <1>5, <3>1
    <3>2. CASE p # c.id
      BY <1>5, <2>1, <3>2
    <3> QED BY <3>1, <3>2
  <2>4. known'.r = known.r
    BY <1>5
  <2> QED BY <2>2, <2>3, <2>4
<1>9. PICK T : T = {}
  OBVIOUS
<1>10. /\ \A x \in R!Slots \ {q} : UpdateListed(rCalls[x], known) => UpdateListed(rCalls[x], known')
       /\ \A p \in T : Unnamed(p) => Unnamed(p)'
       /\ \A x \in R!Slots \ {q} : Creating(rCalls[x]) => rCalls[x].id \in T
  BY <1>5, <1>6, <1>9 DEF UpdateListed
<1>11. file' = file /\ ready' = ready /\ rMoves' = rMoves /\ rCalls' = R!Done(q)
  BY <1>1
<1> QED BY <1>1, <1>7, <1>8, <1>10, <1>11, ToldSteady

\* The store knows which profiles there are where no call is about to tell.
LEMMA KnownHere ==
    ASSUME Base, Steady, ready, NEW p \in Profiles,
           \A x \in R!Slots : rCalls[x] # None =>
              /\ rCalls[x].op # "deleteProfile"
              /\ ~Creating(rCalls[x])
    PROVE  SameExist(known, file, p)
BY DEF Steady, KnownExist, ExistsAhead, Creating

LEMMA UpdatedSteady ==
    ASSUME Base, Steady, NEW q \in R!Slots, R!Updated(q)  PROVE Steady'
<1>1. PICK c : /\ c = rCalls[q] /\ c # None /\ c.op \in {"updateProfile", "authorized"}
               /\ c.at = "written"
               /\ known' = [known EXCEPT !.p[c.id] = IF @ = None THEN @ ELSE c.p[c.id]]
               /\ rCalls' = R!Done(q) /\ UNCHANGED <<file, ready, rMoves>>
  BY DEF R!Updated, R!At
<1>2. /\ FreshCall(c, file) /\ Shaped(c)
      /\ \A x \in R!Slots \ {q} : rCalls[x] # None => Beside(c.op, rCalls[x].op)
  BY <1>1, OthersBeside
<1>3. c.op \in R!OnProfiles /\ c.op \in OnP /\ c.op # "deleteProfile" /\ c.op \notin R!OnRepos
      /\ c.op \notin {"loadProfiles", "loadRepos"} /\ c.op \notin R!Creates /\ c.op \notin Listings
  BY <1>1, OpsApart DEF OnP, Listings
<1>4. c.p = file.p /\ c.id \in Profiles
  BY <1>1, <1>2, <1>3 DEF FreshCall, Shaped
<1>5. /\ known'.p[c.id] = (IF known.p[c.id] = None THEN known.p[c.id] ELSE file.p[c.id])
      /\ known'.r = known.r /\ \A p \in Profiles \ {c.id} : known'.p[p] = known.p[p]
  BY <1>1, <1>4 DEF Base, RecordsTyped, KnownState, R!ProfilesFile
<1>6. /\ \A x \in R!Slots \ {q} : ~Creating(rCalls[x])
      /\ \A x \in R!Slots : rCalls[x] # None => rCalls[x].op # "deleteProfile" /\ ~Creating(rCalls[x])
  BY <1>1, <1>2, <1>3, OpsApart DEF Beside, OnP, Creating
<1>7. ready
  BY <1>1, <1>3, ReadyNow
<1>8. known'.p[c.id] = file.p[c.id]
  BY <1>4, <1>5, <1>6, <1>7, KnownHere DEF SameExist
<1>9. /\ \A p : ~Prunes(c, p)
      /\ \A p \in Profiles : SameExist(known', file, p)
                             \/ (known'.p[p] = known.p[p] /\ ~ExistsAhead(c, p, ready))
  <2>1. (\A p : ~Prunes(c, p)) /\ (\A p : ~ExistsAhead(c, p, ready))
    BY <1>3 DEF Prunes, ExistsAhead
  <2>2. SameExist(known', file, c.id)
    BY <1>8 DEF SameExist
  <2>3. ASSUME NEW p \in Profiles
        PROVE  SameExist(known', file, p)
               \/ (known'.p[p] = known.p[p] /\ ~ExistsAhead(c, p, ready))
    <3>1. CASE p = c.id
      BY <2>2, <3>1
    <3>2. CASE p # c.id
      BY <1>5, <2>1, <3>2
    <3> QED BY <3>1, <3>2
  <2> QED BY <2>1, <2>3
<1>10. /\ \A p \in Profiles : known'.p[p] = file.p[p]
                             \/ (known'.p[p] = known.p[p] /\ ~ProfileAhead(c, p))
       /\ \A x \in Repos : known'.r[x] = known.r[x] /\ ~RepoAhead(c, x)
  <2>1. \A p : p # c.id => ~ProfileAhead(c, p)
    BY <1>3 DEF ProfileAhead
  <2>2. \A x : ~RepoAhead(c, x)
    BY <1>3 DEF RepoAhead
  <2>3. ASSUME NEW p \in Profiles
        PROVE  known'.p[p] = file.p[p] \/ (known'.p[p] = known.p[p] /\ ~ProfileAhead(c, p))
    <3>1. CASE p = c.id
      BY <1>8, <3>1
    <3>2. CASE p # c.id
      BY <1>5, <2>1, <3>2
    <3> QED BY <3>1, <3>2
  <2>4. known'.r = known.r
    BY <1>5
  <2> QED BY <2>2, <2>3, <2>4
<1>11. PICK T : T = {}
  OBVIOUS
<1>12. /\ \A x \in R!Slots \ {q} : UpdateListed(rCalls[x], known) => UpdateListed(rCalls[x], known')
       /\ \A p \in T : Unnamed(p) => Unnamed(p)'
       /\ \A x \in R!Slots \ {q} : Creating(rCalls[x]) => rCalls[x].id \in T
  BY <1>5, <1>6, <1>11 DEF UpdateListed
<1>13. file' = file /\ ready' = ready /\ rMoves' = rMoves /\ rCalls' = R!Done(q)
  BY <1>1
<1> QED BY <1>1, <1>9, <1>10, <1>12, <1>13, ToldSteady

LEMMA ProfilesListedSteady ==
    ASSUME Base, Steady, NEW q \in R!Slots, R!ProfilesListed(q)  PROVE Steady'
<1>1. PICK c : /\ c = rCalls[q] /\ c # None
               /\ \/ c.op = "loadProfiles" /\ c.at = "read"
                  \/ c.op = "disconnect" /\ c.at = "listing"
               /\ known' = [known EXCEPT !.p = c.p, !.active = c.active, !.loading = FALSE]
               /\ rCalls' = R!Done(q) /\ UNCHANGED <<file, rMoves>>
  BY DEF R!ProfilesListed, R!At
<1>2. /\ FreshCall(c, file)
      /\ \A x \in R!Slots \ {q} : rCalls[x] # None => Beside(c.op, rCalls[x].op)
  BY <1>1, OthersBeside
<1>3. /\ c.op \in OnP /\ c.op # "deleteProfile" /\ c.op \notin R!OnRepos /\ c.op # "loadRepos"
  BY <1>1, OpsApart DEF OnP
<1>4. c.p = file.p
  BY <1>1, <1>2, <1>3 DEF FreshCall
<1>5. known'.p = file.p /\ known'.r = known.r
  BY <1>1, <1>4 DEF Base, RecordsTyped, KnownState
<1>6. \A x \in R!Slots \ {q} : ~Creating(rCalls[x])
  BY <1>2, <1>3, OpsApart DEF Beside, Creating
<1>7. (\A p : ~Prunes(c, p)) /\ (\A p \in Profiles : SameExist(known', file, p))
  BY <1>3, <1>5 DEF Prunes, SameExist
<1>8. \A x \in Repos : known'.r[x] = known.r[x] /\ ~RepoAhead(c, x)
  BY <1>3, <1>5 DEF RepoAhead
<1>9. PICK T : T = {}
  OBVIOUS
<1>10. /\ \A x \in R!Slots \ {q} : UpdateListed(rCalls[x], known) => UpdateListed(rCalls[x], known')
       /\ \A p \in T : Unnamed(p) => Unnamed(p)'
       /\ \A x \in R!Slots \ {q} : Creating(rCalls[x]) => rCalls[x].id \in T
  BY <1>5, <1>6, <1>9 DEF UpdateListed
<1>11. file' = file /\ rMoves' = rMoves /\ rCalls' = R!Done(q)
  BY <1>1
<1> QED BY <1>1, <1>5, <1>7, <1>8, <1>10, <1>11, ToldSteady

LEMMA ReposListedSteady ==
    ASSUME Base, Steady, NEW q \in R!Slots, NEW ok \in BOOLEAN, R!ReposListed(q, ok)
    PROVE  Steady'
<1>1. PICK c : /\ c = rCalls[q] /\ c # None /\ c.op = "loadRepos" /\ c.at = "read"
               /\ known' = [known EXCEPT !.r = IF ok THEN c.r ELSE @, !.error = ~ok]
               /\ IF ok THEN UNCHANGED rMoves ELSE R!Fails
               /\ rCalls' = R!Done(q) /\ file' = file
               /\ ready' = (ready \/ \A x \in R!Slots : R!Done(q)[x] = None)
  BY DEF R!ReposListed, R!At
<1>2. /\ FreshCall(c, file)
      /\ \A x \in R!Slots \ {q} : rCalls[x] # None => Beside(c.op, rCalls[x].op)
  BY <1>1, OthersBeside
<1>3. /\ c.op \in OnR /\ c.op # "deleteProfile" /\ c.op \notin R!OnRepos
      /\ c.op # "loadProfiles" /\ c.op \notin R!OnProfiles /\ c.op \notin R!Creates
  BY <1>1, OpsApart DEF OnR
<1>4. c.r = file.r
  BY <1>1, <1>2, <1>3 DEF FreshCall
<1>5. known'.p = known.p /\ (ok => known'.r = file.r)
  BY <1>1, <1>4 DEF Base, RecordsTyped, KnownState
<1>6. \A x \in R!Slots \ {q} : UpdateListed(rCalls[x], known')
  BY <1>2, <1>3, OpsApart DEF Beside, UpdateListed
<1>7. (\A p : ~Prunes(c, p)) /\ (\A p : ~ExistsAhead(c, p, ready)) /\ (\A p : ~ProfileAhead(c, p))
  BY <1>3 DEF Prunes, ExistsAhead, ProfileAhead, R!OnProfiles
<1>8. ready' => ready \/ \A p \in Profiles : SameExist(known', file, p)
  <2> SUFFICES ASSUME ready', ~ready, NEW p \in Profiles  PROVE SameExist(known', file, p)
    OBVIOUS
  <2>1. \A x \in R!Slots \ {q} : rCalls[x] = None
    BY <1>1, DoneSlot DEF Base, RecordsTyped
  <2>2. \A x \in R!Slots : ~ExistsAhead(rCalls[x], p, ready)
    BY <1>1, <1>7, <2>1 DEF ExistsAhead
  <2> QED BY <1>5, <2>2 DEF Steady, KnownExist, SameExist
<1>9. rMoves' = 0 =>
         /\ rMoves = 0
         /\ \A p \in Profiles : known'.p[p] = known.p[p] /\ ~ProfileAhead(c, p)
         /\ \A x \in Repos : known'.r[x] = file.r[x]
  BY <1>1, <1>5, <1>7, FailsCounts DEF Base
<1>10. \A p \in Profiles : Unnamed(p) => Unnamed(p)'
  BY ReposListedBase
<1>11. \A p \in Profiles : known'.p[p] = known.p[p] /\ ~ExistsAhead(c, p, ready)
  BY <1>5, <1>7
<1> QED BY <1>1, <1>6, <1>7, <1>8, <1>9, <1>10, <1>11, CreatingKnown, ToldSteady

LEMMA DeleteEndsSteady ==
    ASSUME Base, Steady, NEW q \in R!Slots, NEW ok \in BOOLEAN, R!DeleteEnds(q, ok)
    PROVE  Steady'
<1>1. PICK c : /\ c = rCalls[q] /\ c # None /\ c.op = "deleteProfile" /\ c.at = "listing"
               /\ known' = [known EXCEPT !.r = IF ok THEN c.r ELSE @, !.error = ~ok]
               /\ IF ok THEN UNCHANGED rMoves ELSE R!Fails
               /\ rCalls' = R!Done(q) /\ file' = file /\ ready' = ready
  BY DEF R!DeleteEnds, R!At
<1>2. FreshCall(c, file) /\ \A x \in R!Slots \ {q} : rCalls[x] = None
  BY <1>1, OthersBeside DEF Beside
<1>3. c.op \notin R!OnRepos /\ c.op \notin R!Creates
  BY <1>1 DEF R!OnRepos, R!Creates
<1>4. c.r = file.r
  BY <1>1, <1>2, <1>3 DEF FreshCall
<1>5. known'.p = known.p /\ (ok => known'.r = file.r)
  BY <1>1, <1>4 DEF Base, RecordsTyped, KnownState
<1>6. \A x \in R!Slots \ {q} : UpdateListed(rCalls[x], known')
  BY <1>2 DEF UpdateListed
<1>7. (\A p : ~Prunes(c, p)) /\ (\A p : ~ExistsAhead(c, p, ready)) /\ (\A p : ~ProfileAhead(c, p))
  BY <1>1, <1>3 DEF Prunes, ExistsAhead, ProfileAhead
<1>8. rMoves' = 0 =>
         /\ rMoves = 0
         /\ \A p \in Profiles : known'.p[p] = known.p[p] /\ ~ProfileAhead(c, p)
         /\ \A x \in Repos : known'.r[x] = file.r[x]
  BY <1>1, <1>5, <1>7, FailsCounts DEF Base
<1>9. \A p \in Profiles : Unnamed(p) => Unnamed(p)'
  BY DeleteEndsBase
<1>10. \A p \in Profiles : known'.p[p] = known.p[p] /\ ~ExistsAhead(c, p, ready)
  BY <1>5, <1>7
<1> QED BY <1>1, <1>6, <1>7, <1>8, <1>9, <1>10, CreatingKnown, ToldSteady

LEMMA RemovedSteady ==
    ASSUME Base, Steady, NEW q \in R!Slots, R!Removed(q)  PROVE Steady'
<1>1. PICK c : /\ c = rCalls[q] /\ c # None /\ c.op = "removeRepo" /\ c.at = "written"
               /\ known' = [known EXCEPT !.r[c.id] = None]
               /\ rCalls' = R!Done(q) /\ UNCHANGED <<file, ready, rMoves>>
  BY DEF R!Removed, R!At
<1>2. /\ FreshCall(c, file) /\ Shaped(c)
      /\ \A x \in R!Slots \ {q} : rCalls[x] # None => Beside(c.op, rCalls[x].op)
  BY <1>1, OthersBeside
<1>3. /\ c.op \in R!OnRepos /\ c.op # "deleteProfile" /\ c.op # "loadRepos"
      /\ c.op # "loadProfiles" /\ c.op \notin R!OnProfiles /\ c.op \notin R!Creates
  BY <1>1, OpsApart
<1>4. file.r[c.id] = None /\ c.id \in Repos
  BY <1>1, <1>2, <1>3 DEF FreshCall, Shaped
<1>5. /\ known'.p = known.p /\ known'.r[c.id] = None
      /\ \A x \in Repos \ {c.id} : known'.r[x] = known.r[x]
  BY <1>1, <1>4 DEF Base, RecordsTyped, KnownState, R!ReposFile
<1>6. \A x \in R!Slots \ {q} : UpdateListed(rCalls[x], known')
  BY <1>2, <1>3, OpsApart DEF Beside, UpdateListed, OnR
<1>7. (\A p : ~Prunes(c, p)) /\ (\A p : ~ExistsAhead(c, p, ready)) /\ (\A p : ~ProfileAhead(c, p))
  BY <1>3 DEF Prunes, ExistsAhead, ProfileAhead, R!OnProfiles
<1>8. \A x \in Repos : known'.r[x] = file.r[x] \/ (known'.r[x] = known.r[x] /\ ~RepoAhead(c, x))
  <2>1. \A x : x # c.id => ~RepoAhead(c, x)
    BY <1>3 DEF RepoAhead
  <2> QED BY <1>4, <1>5, <2>1
<1>9. \A p \in Profiles : /\ known'.p[p] = known.p[p] /\ ~ExistsAhead(c, p, ready)
                          /\ ~ProfileAhead(c, p)
  BY <1>5, <1>7
<1>10. \A p \in Profiles : Unnamed(p) => Unnamed(p)'
  BY RemovedBase
<1>11. file' = file /\ ready' = ready /\ rMoves' = rMoves /\ rCalls' = R!Done(q)
  BY <1>1
<1> QED BY <1>1, <1>6, <1>7, <1>8, <1>9, <1>10, <1>11, CreatingKnown, ToldSteady

LEMMA ActiveSetSteady ==
    ASSUME Base, Steady, NEW q \in R!Slots, R!ActiveSet(q)  PROVE Steady'
<1>1. PICK c : /\ c = rCalls[q] /\ c # None /\ c.op = "setActive"
               /\ file' = [file EXCEPT !.active = c.to]
               /\ known' = [known EXCEPT !.active = IF c.old THEN @ ELSE c.to]
               /\ rCalls' = R!Done(q) /\ UNCHANGED <<ready, rMoves>>
  BY DEF R!ActiveSet, R!At
<1>2. \A x \in R!Slots \ {q} : rCalls[x] # None => Beside(c.op, rCalls[x].op)
  BY <1>1, OthersBeside
<1>3. c.op \notin R!OnRepos /\ c.op \notin R!OnProfiles /\ c.op \notin R!Creates
  BY <1>1, OpsApart
<1>4. known'.p = known.p /\ known'.r = known.r /\ file'.p = file.p /\ file'.r = file.r
  BY <1>1 DEF Base, RecordsTyped, KnownState, FileState
<1>5. \A x \in R!Slots \ {q} : FreshCall(rCalls[x], file) => FreshCall(rCalls[x], file')
  <2> SUFFICES ASSUME NEW x \in R!Slots \ {q}, FreshCall(rCalls[x], file)
               PROVE  FreshCall(rCalls[x], file')
    OBVIOUS
  <2>1. PICK b : b = rCalls[x]
    OBVIOUS
  <2>2. b # None => b.op \notin {"loadProfiles", "disconnect"}
    BY <1>1, <1>2, <2>1 DEF Beside
  <2>3. FreshCall(b, file')
    BY <1>4, <2>1, <2>2 DEF FreshCall
  <2> QED BY <2>1, <2>3
<1>6. GhostStep(file, file', c, None)
  BY <1>1, <1>4 DEF GhostStep, Ghost, Prunes
<1>7. ExistStep(known, known', file, file', ready, ready', c, None)
  <2>1. \A p : ~ExistsAhead(c, p, ready)
    BY <1>1, <1>3 DEF ExistsAhead
  <2> QED BY <1>4, <2>1 DEF ExistStep, SameExist
<1>8. EqualStep(known, known', file, file', c, None)
  <2>1. \A p : ~ProfileAhead(c, p)
    BY <1>1, <1>3 DEF ProfileAhead
  <2> QED BY <1>4, <2>1 DEF EqualStep
<1>9. ListStep(known, known', file, file', c, None)
  <2>1. \A x : ~RepoAhead(c, x)
    BY <1>1, <1>3 DEF RepoAhead
  <2> QED BY <1>4, <2>1 DEF ListStep
<1>10. \A p \in Profiles : Unnamed(p) => Unnamed(p)'
  BY ActiveSetBase
<1>11. \A x \in R!Slots \ {q} : UpdateListed(rCalls[x], known) => UpdateListed(rCalls[x], known')
  BY <1>4 DEF UpdateListed
<1> QED BY <1>1, <1>5, <1>6, <1>7, <1>8, <1>9, <1>10, <1>11, CreatingKnown, DoneSteady

LEMMA FailSteady ==
    ASSUME Base, Steady, NEW q \in R!Slots, R!Fail(q)  PROVE Steady'
<1>1. PICK c : /\ c = rCalls[q] /\ c # None /\ c.at = "asked"
               /\ c.op \notin {"loadProfiles", "loadRepos"}
               /\ IF R!Gone(c) \/ c.op = "createRepo" THEN UNCHANGED rMoves ELSE R!Fails
               /\ rCalls' = R!Done(q) /\ UNCHANGED <<file, known, ready>>
  BY DEF R!Fail
<1>2. c \in R!Call /\ Shaped(c) /\ \A x \in R!Slots \ {q} : rCalls[x] # None => Beside(c.op, rCalls[x].op)
  BY <1>1, OthersBeside
<1>3. /\ \A p : ~Prunes(c, p) /\ ~ExistsAhead(c, p, ready)
      /\ \A p : ProfileAhead(c, p) => c.op = "authorized" /\ c.id = p
      /\ \A x : ~RepoAhead(c, x)
  BY <1>1 DEF Prunes, ExistsAhead, ProfileAhead, RepoAhead
<1>4. rMoves' = 0 => rMoves = 0 /\ (R!Gone(c) \/ c.op = "createRepo")
  BY <1>1, FailsCounts DEF Base
<1>5. ASSUME R!Gone(c), NEW p \in Profiles, ProfileAhead(c, p)  PROVE known.p[p] = file.p[p]
  <2>1. c.op = "authorized" /\ c.id = p
    BY <1>3, <1>5
  <2>2. c.op \in R!OnProfiles /\ c.op \notin R!Creates /\ c.op \notin Listings
    BY <2>1 DEF R!OnProfiles, R!Creates, Listings
  <2>3. file.p[p] = None
    BY <1>5, <2>1 DEF R!Gone, R!Exists
  <2>4. \A x \in R!Slots : rCalls[x] # None => rCalls[x].op # "deleteProfile" /\ ~Creating(rCalls[x])
    BY <1>1, <1>2, <2>1, <2>2, OpsApart DEF Beside, OnP, Creating
  <2>5. ready
    BY <1>1, <2>2, ReadyNow
  <2> QED BY <2>3, <2>4, <2>5, KnownHere DEF SameExist
<1>6. rMoves' = 0 => /\ rMoves = 0
                     /\ \A p \in Profiles : known.p[p] = file.p[p] \/ ~ProfileAhead(c, p)
  BY <1>3, <1>4, <1>5
<1>7. \A p \in Profiles : Unnamed(p) => Unnamed(p)'
  BY FailBase
<1>8. \A x \in R!Slots \ {q} : UpdateListed(rCalls[x], known) => UpdateListed(rCalls[x], known')
  BY <1>1
<1>9. /\ \A p \in Profiles : known'.p[p] = known.p[p] /\ ~ExistsAhead(c, p, ready)
      /\ \A x \in Repos : known'.r[x] = known.r[x] /\ ~RepoAhead(c, x)
      /\ rMoves' = 0 =>
            /\ rMoves = 0
            /\ \A p \in Profiles : \/ known'.p[p] = file.p[p]
                                   \/ known'.p[p] = known.p[p] /\ ~ProfileAhead(c, p)
  BY <1>1, <1>3, <1>6
<1>10. file' = file /\ ready' = ready /\ rCalls' = R!Done(q) /\ \A p : ~Prunes(c, p)
  BY <1>1, <1>3
<1> QED BY <1>1, <1>7, <1>8, <1>9, <1>10, CreatingKnown, ToldSteady

-----------------------------------------------------------------------------
(* Records: what making a repository the active one does.                  *)

LEMMA SettlesFrom ==
    ASSUME RecordsTyped, NEW rec \in R!Maybe(R!Record), NEW in, GoodRecordCalls(in),
           NEW q \in R!Slots, in[q] = None, OthersLike(rCalls, in, q),
           \A x \in R!Slots \ {q} : rCalls[x] # None => in[x].old = rCalls[x].old,
           R!SetActiveRepo(rec, in, q, known.p, known.active)
    PROVE  Settles(rec, q)
<1> DEFINE changed == rec # None /\ (repo = None \/ repo.id # rec.id \/ repo.to # rec.to)
           sync == changed /\ rec.to \notin {None, known.active} /\ known.p[rec.to] # None
           late == changed /\ rec.to = known.active /\ known.active # None
                   /\ \E x \in R!Pending(in) : in[x].op = "setActive" /\ in[x].to # known.active
<1>1. /\ repo' = rec /\ crossed' = (crossed \/ late)
      /\ follow' = IF changed THEN (IF rec.to # None /\ R!Exists(rec.to) THEN rec.to ELSE None)
                   ELSE follow
      /\ IF sync THEN R!Make(in, q, R!SetActiveCall(rec.to))
                 ELSE rCalls' = in /\ UNCHANGED overlap
  BY DEF R!SetActiveRepo
<1>2. changed <=> Changes(rec)
  BY DEF Changes
<1>3. sync <=> Syncs(rec)
  BY <1>2 DEF Syncs
<1>4. Late(rec, q) => late
  BY <1>2 DEF Late, Chooses, R!Pending, OthersLike, Like
<1>5. ~crossed' => ~crossed /\ ~Late(rec, q)
  <2>1. PICK l : l = late
    OBVIOUS
  <2>2. crossed' = (crossed \/ l)
    BY <1>1, <2>1, Zenon
  <2>3. ~crossed' => ~crossed /\ ~l
    BY <2>2, Zenon
  <2> QED BY <1>4, <2>1, <2>3
<1>6. follow' = IF Changes(rec)
                THEN (IF rec.to # None /\ file.p[rec.to] # None THEN rec.to ELSE None)
                ELSE follow
  BY <1>1, <1>2 DEF R!Exists
<1>7. \A x \in R!Slots : rCalls[x] # None => rCalls[x].old \in BOOLEAN
  BY DEF RecordsTyped, GoodRecordCalls, GoodSlot, R!Call
<1>8. ASSUME ~Syncs(rec)
      PROVE  /\ rCalls'[q] = None /\ Turns(rCalls, rCalls', q, FALSE)
             /\ ~overlap' => ~overlap
  BY <1>1, <1>3, <1>7, <1>8 DEF Turns, OthersLike
<1>9. ASSUME Syncs(rec)
      PROVE  /\ rCalls'[q] # None /\ Asked(rCalls'[q]) /\ rCalls'[q].op = "setActive"
             /\ rCalls'[q].id = None /\ rCalls'[q].to = rec.to
             /\ Turns(rCalls, rCalls', q, TRUE)
             /\ ~overlap' => ~overlap /\ ~MeetsOther(rCalls, q, "setActive")
  <2>1. rec.to \in Profiles
    BY <1>9 DEF Syncs, Changes, R!Maybe, R!Record
  <2>2. PICK c : c = R!SetActiveCall(rec.to)
    OBVIOUS
  <2>3. /\ GoodSlot(c) /\ c # None /\ Asked(c) /\ c.op = "setActive" /\ c.id = None
        /\ c.to = rec.to
    BY <2>1, <2>2, SetActiveCallIs
  <2>4. rCalls' = Made(in, q, c) /\ overlap' = (overlap \/ MeetsOther(in, q, "setActive"))
    BY <1>1, <1>3, <1>9, <2>2, <2>3, MakeIs
  <2>5. /\ rCalls'[q] = c /\ OthersLike(in, rCalls', q)
        /\ \A x \in R!Slots \ {q} : in[x] # None =>
              rCalls'[x].old = (in[x].old \/ (in[x].op = "setActive" /\ c.op = "setActive"))
    BY <2>3, <2>4, MadeSound
  <2>6. Turns(rCalls, rCalls', q, TRUE)
    <3> SUFFICES ASSUME NEW x \in R!Slots \ {q}
                 PROVE  /\ Like(rCalls[x], rCalls'[x])
                        /\ rCalls[x] # None =>
                              rCalls'[x].old = (rCalls[x].old \/ (rCalls[x].op = "setActive" /\ TRUE))
      BY DEF Turns
    <3>1. Like(rCalls[x], in[x]) /\ Like(in[x], rCalls'[x])
      BY <2>5 DEF OthersLike
    <3>2. Like(rCalls[x], rCalls'[x])
      BY <3>1 DEF Like
    <3>3. ASSUME rCalls[x] # None
          PROVE  rCalls'[x].old = (rCalls[x].old \/ (rCalls[x].op = "setActive" /\ TRUE))
      <4>1. in[x] # None /\ in[x].op = rCalls[x].op /\ in[x].old = rCalls[x].old
        BY <3>1, <3>3 DEF Like
      <4> QED BY <2>3, <2>5, <4>1
    <3> QED BY <3>2, <3>3
  <2>7. ~overlap' => ~overlap /\ ~MeetsOther(rCalls, q, "setActive")
    <3>1. MeetsOther(rCalls, q, "setActive") => MeetsOther(in, q, "setActive")
      BY DEF MeetsOther, OthersLike, Like
    <3>2. ~overlap' => ~overlap /\ ~MeetsOther(in, q, "setActive")
      BY <2>4, Zenon
    <3> QED BY <3>1, <3>2
  <2> QED BY <2>3, <2>5, <2>6, <2>7
<1> QED BY <1>1, <1>5, <1>6, <1>8, <1>9 DEF Settles

LEMMA SettlesFromDone ==
    ASSUME RecordsTyped, NEW rec \in R!Maybe(R!Record), NEW q \in R!Slots,
           R!SetActiveRepo(rec, R!Done(q), q, known.p, known.active)
    PROVE  Settles(rec, q)
<1>1. PICK in : in = R!Done(q)
  OBVIOUS
<1>2. /\ GoodRecordCalls(in) /\ in[q] = None
      /\ \A x \in R!Slots \ {q} : in[x] = rCalls[x]
      /\ OthersLike(rCalls, in, q)
  BY <1>1, DoneSlot DEF RecordsTyped
<1>3. R!SetActiveRepo(rec, in, q, known.p, known.active)
  BY <1>1
<1> QED BY <1>2, <1>3, SettlesFrom

LEMMA SettlesFromUnmounted ==
    ASSUME RecordsTyped, NEW rec \in R!Maybe(R!Record), NEW q \in R!Slots,
           R!SetActiveRepo(rec, [R!Unmounted EXCEPT ![q] = None], q, known.p, known.active)
    PROVE  Settles(rec, q)
<1>1. PICK in : in = [R!Unmounted EXCEPT ![q] = None]
  OBVIOUS
<1>2. R!SetActiveRepo(rec, in, q, known.p, known.active)
  BY <1>1
<1>3. /\ GoodRecordCalls(in) /\ in[q] = None /\ OthersLike(rCalls, in, q)
      /\ \A x \in R!Slots \ {q} : rCalls[x] # None => in[x].old = rCalls[x].old
  BY <1>1, UnmountedAt
<1> QED BY <1>2, <1>3, SettlesFrom

LEMMA SettlesFromFree ==
    ASSUME RecordsTyped, NEW rec \in R!Maybe(R!Record), R!Free # {},
           R!SetActiveRepo(rec, rCalls, R!FirstFree, known.p, known.active)
    PROVE  \E q \in R!Slots : rCalls[q] = None /\ Settles(rec, q)
<1>1. PICK q \in R!Slots : q = R!FirstFree /\ rCalls[q] = None
  BY FirstFreeIsFree
<1>2. R!SetActiveRepo(rec, rCalls, q, known.p, known.active)
  BY <1>1
<1>3. OthersLike(rCalls, rCalls, q)
  BY DEF OthersLike, Like
<1> QED BY <1>1, <1>2, <1>3, SettlesFrom DEF RecordsTyped

LEMMA SettlesFromUnmountedFree ==
    ASSUME RecordsTyped, NEW rec \in R!Maybe(R!Record), R!Free # {},
           R!SetActiveRepo(rec, R!Unmounted, R!FirstFree, known.p, known.active)
    PROVE  \E q \in R!Slots : rCalls[q] = None /\ Settles(rec, q)
<1>1. PICK q \in R!Slots : q = R!FirstFree /\ rCalls[q] = None
  BY FirstFreeIsFree
<1>2. PICK in \in {R!Unmounted, R!Moved(rCalls)} : in = R!Unmounted
  OBVIOUS
<1>3. R!SetActiveRepo(rec, in, q, known.p, known.active)
  BY <1>1, <1>2
<1>4. /\ GoodRecordCalls(in) /\ AllLike(rCalls, in)
      /\ \A x \in R!Slots : rCalls[x] # None => in[x].old = rCalls[x].old
  BY FlagsSound DEF RecordsTyped
<1>5. in[q] = None /\ OthersLike(rCalls, in, q)
  BY <1>1, <1>4 DEF AllLike, OthersLike, Like
<1> QED BY <1>1, <1>3, <1>4, <1>5, SettlesFrom

-----------------------------------------------------------------------------
\* The call of slot q, if there is one, is about the record of a repository that is
\* answered; perhaps a new choice takes its place.
LEMMA RecordSteady ==
    ASSUME Base, Steady, NEW q \in R!Slots, NEW new, Turns(rCalls, rCalls', q, new),
           NEW c, NEW d, c = rCalls[q], d = rCalls'[q],
           d # None => /\ Asked(d) /\ d.op = "setActive"
                       /\ ~MeetsOther(rCalls, q, "setActive"),
           c # None => c.op \in R!OnRepos,
           UNCHANGED <<file, ready, rMoves>>, known'.p = known.p,
           \A x \in Repos : \/ known'.r[x] = file.r[x]
                            \/ known'.r[x] = known.r[x] /\ ~RepoAhead(c, x),
           \A x \in R!Slots \ {q} : UpdateListed(rCalls[x], known) => UpdateListed(rCalls[x], known'),
           \A p \in Profiles : Unnamed(p) => Unnamed(p)'
    PROVE  Steady'
<1>1. /\ \A p : ~Prunes(c, p) /\ ~ExistsAhead(c, p, ready) /\ ~ProfileAhead(c, p)
  BY OpsApart DEF Prunes, ExistsAhead, ProfileAhead
<1>2. "setActive" \in R!Ops /\ "setActive" \notin OnP /\ "setActive" \notin OnR
      /\ "setActive" \notin R!OnRepos /\ "setActive" \notin R!Creates
  BY OpsApart DEF OnP, OnR
<1>3. FreshCall(d, file') /\ ~Creating(d) /\ UpdateListed(d, known')
  BY <1>2 DEF Asked, FreshCall, Creating, UpdateListed
<1>4. GhostStep(file, file', c, d)
  BY <1>1 DEF GhostStep, Ghost
<1>5. ExistStep(known, known', file, file', ready, ready', c, d)
  BY <1>1 DEF ExistStep, SameExist
<1>6. EqualStep(known, known', file, file', c, d)
  BY <1>1 DEF EqualStep
<1>7. ListStep(known, known', file, file', c, d)
  BY DEF ListStep
<1>8. \A x \in R!Slots \ {q} : FreshCall(rCalls[x], file) => FreshCall(rCalls[x], file')
  OBVIOUS
<1>9. d # None => d.op \in R!Ops /\ ~MeetsOther(rCalls, q, d.op)
  BY <1>2
<1>10. (ready' => ready) /\ (rMoves' = 0 => rMoves = 0)
  OBVIOUS
<1> QED BY <1>3, <1>4, <1>5, <1>6, <1>7, <1>8, <1>9, <1>10, CreatingKnown, TurnSteady

\* A choice of repository.
LEMMA SettledSteady ==
    ASSUME Base, Steady, NEW q \in R!Slots, rCalls[q] = None, NEW rec, Settles(rec, q), ~overlap',
           UNCHANGED <<file, known, ready, rMoves>>,
           \A p \in Profiles : Unnamed(p) => Unnamed(p)'
    PROVE  Steady'
<1>1. PICK c, d : c = None /\ c = rCalls[q] /\ d = rCalls'[q]
  OBVIOUS
<1>2. PICK new : /\ Turns(rCalls, rCalls', q, new)
                 /\ d # None => /\ Asked(d) /\ d.op = "setActive"
                                /\ ~MeetsOther(rCalls, q, "setActive")
  BY <1>1 DEF Settles
<1>3. \A x \in Repos : known'.r[x] = known.r[x] /\ ~RepoAhead(c, x)
  BY <1>1 DEF RepoAhead
<1> QED BY <1>1, <1>2, <1>3, RecordSteady

-----------------------------------------------------------------------------
(* Records: the choices of a repository, and the records that are answered. *)

\* Where a repository is chosen, and how its choice settles.
LEMMA PickRepoSettles ==
    ASSUME RecordsTyped, NEW r \in Repos, R!PickRepo(r)
    PROVE  /\ known.r[r] \in R!Maybe(R!Record) /\ UNCHANGED <<file, known, ready, rMoves>>
           /\ \E q \in R!Slots : rCalls[q] = None /\ Settles(known.r[r], q)
<1>1. /\ UNCHANGED <<file, known, ready, rMoves>>
      /\ R!Free # {} /\ R!SetActiveRepo(known.r[r], rCalls, R!FirstFree, known.p, known.active)
  BY DEF R!PickRepo
<1>2. known.r[r] \in R!Maybe(R!Record)
  BY DEF RecordsTyped, KnownState, R!ReposFile
<1> QED BY <1>1, <1>2, SettlesFromFree

LEMMA SelectRepoSettles ==
    ASSUME RecordsTyped, NEW r \in Repos, R!SelectRepo(r)
    PROVE  /\ known.r[r] \in R!Maybe(R!Record) /\ UNCHANGED <<file, known, ready, rMoves>>
           /\ \E q \in R!Slots : rCalls[q] = None /\ Settles(known.r[r], q)
<1>1. /\ UNCHANGED <<file, known, ready, rMoves>>
      /\ R!Free # {} /\ R!SetActiveRepo(known.r[r], rCalls, R!FirstFree, known.p, known.active)
  BY DEF R!SelectRepo
<1>2. known.r[r] \in R!Maybe(R!Record)
  BY DEF RecordsTyped, KnownState, R!ReposFile
<1> QED BY <1>1, <1>2, SettlesFromFree

LEMMA ContinueInitSettles ==
    ASSUME RecordsTyped, R!ContinueInit
    PROVE  /\ rForm.pending \in R!Maybe(R!Record) /\ UNCHANGED <<file, known, ready, rMoves>>
           /\ \E q \in R!Slots : rCalls[q] = None /\ Settles(rForm.pending, q)
<1>1. /\ UNCHANGED <<file, known, ready, rMoves>> /\ R!Free # {}
      /\ R!SetActiveRepo(rForm.pending, R!Unmounted, R!FirstFree, known.p, known.active)
  BY DEF R!ContinueInit, R!FinishInit
<1>2. rForm.pending \in R!Maybe(R!Record)
  BY DEF RecordsTyped, R!RepoForm
<1> QED BY <1>1, <1>2, SettlesFromUnmountedFree

LEMMA AutoSelectSettles ==
    ASSUME RecordsTyped, R!AutoSelect
    PROVE  /\ UNCHANGED <<file, known, ready, rMoves>>
           /\ \E rec \in R!Maybe(R!Record) :
                 /\ rec = None \/ \E r \in Repos : rec = known.r[r]
                 /\ \E q \in R!Slots : rCalls[q] = None /\ Settles(rec, q)
<1>1. UNCHANGED <<file, known, ready, rMoves>> /\ R!Free # {}
  BY DEF R!AutoSelect
<1>2. PICK rec : /\ rec = None \/ \E r \in Repos : rec = known.r[r]
                 /\ R!SetActiveRepo(rec, rCalls, R!FirstFree, known.p, known.active)
  BY DEF R!AutoSelect, R!InList
<1>3. rec \in R!Maybe(R!Record)
  BY <1>2 DEF RecordsTyped, KnownState, R!ReposFile, R!Maybe
<1> QED BY <1>1, <1>2, <1>3, SettlesFromFree

LEMMA ChoiceSteady == ASSUME Base, Steady, ~overlap', Picks  PROVE Steady'
<1>1. PICK rec, q : /\ q \in R!Slots /\ rCalls[q] = None /\ Settles(rec, q)
                    /\ UNCHANGED <<file, known, ready, rMoves>>
  BY PickRepoSettles, SelectRepoSettles, ContinueInitSettles, AutoSelectSettles DEF Base, Picks
<1>2. \A p \in Profiles : Unnamed(p) => Unnamed(p)'
  BY PickRepoBase, SelectRepoBase, ContinueInitBase, AutoSelectBase DEF Picks
<1> QED BY <1>1, <1>2, SettledSteady

\* What an answered record has to do with the files.
LEMMA RecordAnswered ==
    ASSUME Base, Steady, NEW q \in R!Slots, NEW c, c = rCalls[q], c # None,
           c.op \in {"createRepo", "initRepo", "updateRepo"}, c.at = "written",
           NEW rec, rec = [id |-> c.id, to |-> c.to]
    PROVE  /\ c.op \in R!OnRepos /\ c.id \in Repos /\ rec \in R!Record /\ rec \in R!Maybe(R!Record)
           /\ file.r[c.id] = rec /\ rec # None
           /\ (c.to # None => file.p[c.to] # None)
           /\ c.op = "updateRepo" => known.r[c.id] # None
           /\ \A x : x # c.id => ~RepoAhead(c, x)
           /\ \A x \in R!Slots \ {q} : rCalls[x] # None => rCalls[x].op # "updateRepo"
<1>1. /\ c \in R!Call /\ Shaped(c) /\ FreshCall(c, file) /\ UpdateListed(c, known)
      /\ \A x \in R!Slots \ {q} : rCalls[x] # None => Beside(c.op, rCalls[x].op)
  BY OthersBeside
<1>2. c.op \in R!OnRepos /\ c.op # "removeRepo"
  BY OpsApart
<1>3. rec \in R!Record /\ c.id \in Repos
  BY <1>2, RecordOfCall DEF Base
<1>4. file.r[c.id] = rec /\ (c.to # None => file.p[c.to] # None)
  BY <1>1, <1>2 DEF FreshCall
<1>5. \A x : x # c.id => ~RepoAhead(c, x)
  BY <1>2, OpsApart DEF RepoAhead
<1>6. \A x \in R!Slots \ {q} : rCalls[x] # None => rCalls[x].op # "updateRepo"
  BY <1>1, <1>2, OpsApart DEF Beside, OnR
<1>7. c.op = "updateRepo" => known.r[c.id] # None
  BY <1>1 DEF UpdateListed
<1> QED BY <1>2, <1>3, <1>4, <1>5, <1>6, <1>7, NoneIsNoRecord DEF R!Maybe

\* A record is put in the list, and the repository becomes the active one or not.
LEMMA AnsweredSteady ==
    ASSUME Base, Steady, NEW q \in R!Slots, NEW c, c = rCalls[q], c # None,
           c.op \in {"createRepo", "initRepo", "updateRepo"}, c.at = "written",
           NEW rec, rec = [id |-> c.id, to |-> c.to], ~overlap',
           rCalls' = R!Done(q) \/ Settles(rec, q),
           known' = [known EXCEPT !.r[c.id] = rec], UNCHANGED <<file, ready, rMoves>>,
           \A p \in Profiles : Unnamed(p) => Unnamed(p)'
    PROVE  Steady'
<1>1. PICK d : d = rCalls'[q]
  OBVIOUS
<1>2. PICK new : /\ Turns(rCalls, rCalls', q, new)
                 /\ d # None => /\ Asked(d) /\ d.op = "setActive"
                                /\ ~MeetsOther(rCalls, q, "setActive")
  <2>1. CASE rCalls' = R!Done(q)
    BY <1>1, <2>1, DoneTurns DEF Base, RecordsTyped
  <2>2. CASE Settles(rec, q)
    BY <1>1, <2>2 DEF Settles
  <2> QED BY <2>1, <2>2
<1>3. /\ c.op \in R!OnRepos /\ c.id \in Repos /\ rec \in R!Record /\ file.r[c.id] = rec /\ rec # None
      /\ \A x : x # c.id => ~RepoAhead(c, x)
  BY RecordAnswered
<1>4. /\ known'.p = known.p /\ known'.r[c.id] = rec
      /\ \A x \in Repos \ {c.id} : known'.r[x] = known.r[x]
  BY <1>3 DEF Base, RecordsTyped, KnownState, R!ReposFile
<1>5. \A x \in Repos : \/ known'.r[x] = file.r[x]
                       \/ known'.r[x] = known.r[x] /\ ~RepoAhead(c, x)
  BY <1>3, <1>4
<1>6. \A x \in R!Slots \ {q} : UpdateListed(rCalls[x], known')
  BY RecordAnswered DEF UpdateListed
<1> QED BY <1>1, <1>2, <1>3, <1>4, <1>5, <1>6, RecordSteady

LEMMA AddedSteady ==
    ASSUME Base, Steady, ~overlap', NEW q \in R!Slots, R!Added(q)  PROVE Steady'
<1>1. PICK c, rec : /\ c = rCalls[q] /\ c # None /\ c.op = "createRepo" /\ c.at = "written"
                    /\ rec = [id |-> c.id, to |-> c.to]
                    /\ known' = [known EXCEPT !.r[c.id] = rec] /\ UNCHANGED <<file, ready>>
                    /\ R!SetActiveRepo(rec, R!Done(q), q, known.p, known.active)
                    /\ UNCHANGED rMoves
  BY DEF R!Added, R!At
<1>2. rec \in R!Maybe(R!Record)
  BY <1>1, RecordAnswered
<1>3. Settles(rec, q)
  BY <1>1, <1>2, SettlesFromDone DEF Base
<1>4. \A p \in Profiles : Unnamed(p) => Unnamed(p)'
  BY AddedBase
<1> QED BY <1>1, <1>3, <1>4, AnsweredSteady

LEMMA InitializedSteady ==
    ASSUME Base, Steady, ~overlap', NEW q \in R!Slots, NEW remote \in BOOLEAN, R!Initialized(q, remote)
    PROVE  Steady'
<1>1. PICK c, rec : /\ c = rCalls[q] /\ c # None /\ c.op = "initRepo" /\ c.at = "written"
                    /\ rec = [id |-> c.id, to |-> c.to]
                    /\ known' = [known EXCEPT !.r[c.id] = rec] /\ UNCHANGED <<file, ready, rMoves>>
                    /\ \/ R!SetActiveRepo(rec, [R!Unmounted EXCEPT ![q] = None], q, known.p, known.active)
                       \/ rCalls' = R!Done(q)
  BY DEF R!Initialized, R!At, R!FinishInit
<1>2. rec \in R!Maybe(R!Record)
  BY <1>1, RecordAnswered
<1>3. rCalls' = R!Done(q) \/ Settles(rec, q)
  BY <1>1, <1>2, SettlesFromUnmounted DEF Base
<1>4. \A p \in Profiles : Unnamed(p) => Unnamed(p)'
  BY InitializedBase
<1> QED BY <1>1, <1>3, <1>4, AnsweredSteady

LEMMA RepoSavedSteady ==
    ASSUME Base, Steady, ~overlap', NEW q \in R!Slots, R!RepoSaved(q)  PROVE Steady'
<1>1. PICK c, rec : /\ c = rCalls[q] /\ c # None /\ c.op = "updateRepo" /\ c.at = "written"
                    /\ rec = [id |-> c.id, to |-> c.to]
                    /\ known' = [known EXCEPT !.r[c.id] = IF @ = None THEN @ ELSE rec]
                    /\ UNCHANGED <<file, ready, rMoves>>
                    /\ \/ R!SetActiveRepo(rec, R!Done(q), q, known.p, known.active)
                       \/ rCalls' = R!Done(q)
  BY DEF R!RepoSaved, R!At
<1>2. rec \in R!Maybe(R!Record) /\ known.r[c.id] # None
  BY <1>1, RecordAnswered
<1>3. rCalls' = R!Done(q) \/ Settles(rec, q)
  BY <1>1, <1>2, SettlesFromDone DEF Base
<1>4. known' = [known EXCEPT !.r[c.id] = rec]
  BY <1>1, <1>2
<1>5. \A p \in Profiles : Unnamed(p) => Unnamed(p)'
  BY RepoSavedBase
<1> QED BY <1>1, <1>3, <1>4, <1>5, AnsweredSteady

-----------------------------------------------------------------------------
(* Records: the acts and effects of the screens keep to Steady.            *)

LEMMA ShownSteady == ASSUME Base, Steady, Shows  PROVE Steady'
<1>1. \A p \in Profiles : Unnamed(p) => Unnamed(p)'
  BY NavigateBase, SelectProfileBase, StartCreateBase, ConnectBase, StartAddBase, CancelAddBase,
     FollowSelectionBase DEF Shows
<1> QED BY <1>1, ShowsIs, ScreenSteady

LEMMA SubmitSteady ==
    ASSUME Base, Steady, ~overlap', NEW op \in R!OnProfiles, R!Submit(op)  PROVE Steady'
<1>1. PICK c : Requests(c) /\ c.op = op
  BY SubmitAsks DEF Base
<1>2. ready
  BY RecordActCounts DEF Base, R!Submit, R!OnScreen
<1>3. UNCHANGED <<file, known, ready, rMoves>>
  BY DEF R!Submit, R!Store
<1>4. c.op \notin R!OnRepos /\ UpdateListed(c, known)
  BY <1>1, OpsApart DEF UpdateListed
<1>5. \A p \in Profiles : Unnamed(p) => Unnamed(p)'
  BY SubmitBase
<1> QED BY <1>1, <1>2, <1>3, <1>4, <1>5, AskSteady

LEMMA SetActiveSteady ==
    ASSUME Base, Steady, ~overlap', NEW x \in Profiles, R!SetActive(x)  PROVE Steady'
<1>1. PICK c : Requests(c) /\ c.op = "setActive"
  BY SetActiveAsks DEF Base
<1>2. ready
  BY RecordActCounts DEF Base, R!SetActive, R!OnScreen
<1>3. UNCHANGED <<file, known, ready, rMoves>>
  BY DEF R!SetActive
<1>4. c.op \notin R!OnRepos /\ UpdateListed(c, known)
  BY <1>1, OpsApart DEF UpdateListed
<1>5. \A p \in Profiles : Unnamed(p) => Unnamed(p)'
  BY SetActiveBase
<1> QED BY <1>1, <1>2, <1>3, <1>4, <1>5, AskSteady

LEMMA CloseModalSteady ==
    ASSUME Base, Steady, ~overlap', R!CloseModal  PROVE Steady'
<1>1. PICK c : Requests(c) /\ c.op = "loadProfiles"
  BY CloseModalAsks DEF Base
<1>2. ready
  BY DEF R!CloseModal, R!Modal, Base, StartScreens, R!NoForm
<1>3. UNCHANGED <<file, ready, rMoves>> /\ known' = [known EXCEPT !.loading = TRUE]
  BY DEF R!CloseModal
<1>4. known'.p = known.p /\ known'.r = known.r
  BY <1>3 DEF Base, RecordsTyped, KnownState
<1>5. c.op \notin R!OnRepos /\ UpdateListed(c, known)
  BY <1>1, OpsApart DEF UpdateListed
<1>6. \A p \in Profiles : Unnamed(p) => Unnamed(p)'
  BY CloseModalBase
<1> QED BY <1>1, <1>2, <1>3, <1>4, <1>5, <1>6, AskSteady

LEMMA AddRepoSteady ==
    ASSUME Base, Steady, ~overlap', NEW r \in Repos, R!AddRepo(r)  PROVE Steady'
<1>1. PICK c : Requests(c) /\ c.op = "createRepo" /\ c.to = None
  BY AddRepoAsks DEF Base
<1>2. ready
  BY RecordActCounts DEF Base, R!AddRepo, R!OnScreen
<1>3. UNCHANGED <<file, known, ready, rMoves>>
  BY DEF R!AddRepo, R!Store
<1>4. UpdateListed(c, known)
  BY <1>1 DEF UpdateListed
<1>5. \A p \in Profiles : Unnamed(p) => Unnamed(p)'
  BY AddRepoBase
<1> QED BY <1>1, <1>2, <1>3, <1>4, <1>5, AskSteady

LEMMA RemoveRepoSteady ==
    ASSUME Base, Steady, ~overlap', R!RemoveRepo  PROVE Steady'
<1>1. PICK c : Requests(c) /\ c.op = "removeRepo" /\ c.to = None
  BY RemoveRepoAsks DEF Base
<1>2. ready
  BY RecordActCounts DEF Base, R!RemoveRepo, R!OnScreen
<1>3. UNCHANGED <<file, known, ready, rMoves>>
  BY DEF R!RemoveRepo, R!Store
<1>4. UpdateListed(c, known)
  BY <1>1 DEF UpdateListed
<1>5. \A p \in Profiles : Unnamed(p) => Unnamed(p)'
  BY RemoveRepoBase
<1> QED BY <1>1, <1>2, <1>3, <1>4, <1>5, AskSteady

\* A profile in the store is on disk unless it is being deleted.
LEMMA StoredExists ==
    ASSUME Base, Steady, ready, NEW p \in Profiles, known.p[p] # None,
           \A x \in R!Slots : rCalls[x] # None => rCalls[x].op # "deleteProfile"
    PROVE  file.p[p] # None
<1>1. CASE SameExist(known, file, p)
  BY <1>1 DEF SameExist
<1>2. CASE ~SameExist(known, file, p)
  <2>1. PICK x \in R!Slots : ExistsAhead(rCalls[x], p, ready)
    BY <1>2 DEF Steady, KnownExist
  <2>2. PICK c : c = rCalls[x]
    OBVIOUS
  <2>3. c # None /\ c.id = p /\ c.op \in R!Creates /\ c.at = "written"
    BY <2>1, <2>2 DEF ExistsAhead
  <2>4. FreshCall(c, file)
    BY <2>2 DEF Steady, FreshCalls
  <2> QED BY <2>3, <2>4 DEF FreshCall
<1> QED BY <1>1, <1>2

\* Nothing that deletes a profile is pending along with a call that meets no other.
LEMMA NoDeleteBeside ==
    ASSUME Base, NEW q \in R!Slots, NEW op \in R!Ops, rCalls[q] = None, ~MeetsOther(rCalls, q, op)
    PROVE  \A x \in R!Slots : rCalls[x] # None => rCalls[x].op # "deleteProfile"
BY Meetings DEF MeetsOther

LEMMA InitRepoSteady ==
    ASSUME Base, Steady, ~overlap', NEW r \in Repos, R!InitRepo(r)  PROVE Steady'
<1>1. PICK c : Requests(c) /\ c.op = "initRepo" /\ c.to = known.active
  BY InitRepoAsks DEF Base
<1>2. ready
  BY RecordActCounts DEF Base, R!InitRepo, R!OnScreen
<1>3. /\ UNCHANGED <<file, known, ready, rMoves>>
      /\ known.active # None /\ known.p[known.active] # None
  BY DEF R!InitRepo, R!Store, R!InitOffered, R!InStore
<1>4. UpdateListed(c, known)
  BY <1>1 DEF UpdateListed
<1>5. \A p \in Profiles : Unnamed(p) => Unnamed(p)'
  BY InitRepoBase
<1>6. PICK q \in R!Slots : rCalls[q] = None /\ ~MeetsOther(rCalls, q, "initRepo")
  BY <1>1 DEF Requests, AsksFor
<1>7. \A x \in R!Slots : rCalls[x] # None => rCalls[x].op # "deleteProfile"
  BY <1>6, OpsApart, NoDeleteBeside
<1>8. known.active \in Profiles
  BY <1>3 DEF Base, RecordsTyped, KnownState, R!Maybe
<1>9. file.p[c.to] # None
  BY <1>1, <1>2, <1>3, <1>7, <1>8, StoredExists
<1> QED BY <1>1, <1>2, <1>3, <1>4, <1>5, <1>9, AskSteady

LEMMA SaveRepoSteady ==
    ASSUME Base, Steady, ~overlap', NEW x \in R!Maybe(Profiles), R!SaveRepo(x)  PROVE Steady'
<1>1. PICK c : /\ c # None /\ Asked(c) /\ c.op = "updateRepo" /\ c.id = rForm.selected /\ c.to = x
               /\ \E q \in R!Slots :
                    /\ rCalls[q] = None /\ rCalls' = [rCalls EXCEPT ![q] = c]
                    /\ overlap' = (overlap \/ (x # None /\ ~R!InStore(x))
                                    \/ MeetsOther(rCalls, q, "updateRepo"))
  BY SaveRepoAsks DEF Base
<1>2. PICK q \in R!Slots :
         /\ rCalls[q] = None /\ rCalls' = [rCalls EXCEPT ![q] = c]
         /\ overlap' = (overlap \/ (x # None /\ ~R!InStore(x))
                         \/ MeetsOther(rCalls, q, "updateRepo"))
  BY <1>1
<1>3. ~MeetsOther(rCalls, q, "updateRepo") /\ (x # None => R!InStore(x))
  BY <1>2
<1>4. /\ UNCHANGED <<file, known, ready, rMoves>> /\ known.r[rForm.selected] # None
  BY DEF R!SaveRepo, R!Store, R!SaveOffered, R!InList
<1>5. ready
  BY RecordActCounts DEF Base, R!SaveRepo, R!OnScreen
<1>6. rCalls'[q] = c /\ Turns(rCalls, rCalls', q, FALSE)
  BY <1>2, SetTurns DEF Base, RecordsTyped
<1>7. \A p \in Profiles : Unnamed(p) => Unnamed(p)'
  BY SaveRepoBase
<1>8. \A y \in R!Slots : rCalls[y] # None => rCalls[y].op # "deleteProfile"
  BY <1>2, <1>3, OpsApart, NoDeleteBeside
<1>9. c.to # None => file.p[c.to] # None
  BY <1>1, <1>3, <1>5, <1>8, StoredExists DEF R!InStore, R!Maybe
<1>10. FreshCall(c, file) /\ ~Creating(c) /\ UpdateListed(c, known)
  BY <1>1, <1>4, <1>9 DEF FreshCall, Creating, UpdateListed, Asked
<1>11. PICK b : b = rCalls[q] /\ b = None
  BY <1>2
<1>12. /\ \A p : ~Prunes(b, p) /\ ~ExistsAhead(b, p, ready) /\ ~ProfileAhead(b, p)
       /\ \A y : ~RepoAhead(b, y)
  BY <1>11 DEF Prunes, ExistsAhead, ProfileAhead, RepoAhead
<1>13. c.op \in R!Ops
  BY <1>1, OpsApart
<1>14. /\ file' = file /\ known'.p = known.p /\ known'.r = known.r /\ ready' = ready
       /\ rMoves' = 0 => rMoves = 0
  BY <1>4
<1>15. ~MeetsOther(rCalls, q, c.op)
  BY <1>1, <1>3
<1> QED BY <1>6, <1>7, <1>10, <1>11, <1>12, <1>13, <1>14, <1>15, CreatingKnown, SlotSteady

\* GitHub has authorised the profile that is selected: the link is on disk at once.
LEMMA AuthorizedSteady ==
    ASSUME Base, Steady, ~overlap', R!Authorized  PROVE Steady'
<1>1. PICK d : Requests(d) /\ d.op = "authorized" /\ d.id = selected
  BY AuthorizedAsks DEF Base
<1>2. PICK q \in R!Slots : AsksFor(q, d)
  BY <1>1 DEF Requests
<1>3. rCalls[q] = None /\ rCalls'[q] = d /\ Turns(rCalls, rCalls', q, FALSE)
  BY <1>1, <1>2, RequestTurns DEF Base, RecordsTyped
<1>4. ~MeetsOther(rCalls, q, d.op)
  BY <1>2 DEF AsksFor
<1>5. d.at = "asked" /\ d # None /\ d.op \in R!Ops /\ d.op \in R!OnProfiles \ R!Creates
  BY <1>1, OpsApart DEF Requests, Asked
<1>6. /\ UNCHANGED <<known, ready, rMoves>> /\ selected \in Profiles /\ file.p[selected] # None
      /\ file' = [file EXCEPT !.p[selected].linked = TRUE]
  BY DEF R!Authorized, R!Exists, R!Modal, Base, RecordsTyped, R!Maybe
<1>7. /\ file'.r = file.r /\ file'.active = file.active
      /\ \A p \in Profiles \ {selected} : file'.p[p] = file.p[p]
      /\ file'.p[selected] # None
  <2>1. file.p[selected] \in R!Data
    BY <1>6 DEF Base, RecordsTyped, FileState, R!ProfilesFile, R!Maybe
  <2>2. [file.p[selected] EXCEPT !.linked = TRUE] \in R!Data
    BY <2>1 DEF R!Data
  <2>3. /\ file'.r = file.r /\ file'.active = file.active
        /\ \A p \in Profiles \ {selected} : file'.p[p] = file.p[p]
        /\ file'.p[selected] = [file.p[selected] EXCEPT !.linked = TRUE]
    BY <1>6 DEF Base, RecordsTyped, FileState, R!ProfilesFile
  <2> QED BY <2>2, <2>3, NoneIsNoRecord
<1>8. \A p \in Profiles : file'.p[p] = None <=> file.p[p] = None
  BY <1>6, <1>7
<1>9. \A x \in R!Slots \ {q} : rCalls[x] # None => rCalls[x].op \notin OnP /\ rCalls[x].op # "deleteProfile"
  <2> SUFFICES ASSUME NEW x \in R!Slots \ {q}, rCalls[x] # None
               PROVE  rCalls[x].op \notin OnP /\ rCalls[x].op # "deleteProfile"
    OBVIOUS
  <2>1. ~R!Meet(rCalls[x].op, "authorized")
    BY <1>1, <1>4 DEF MeetsOther
  <2>2. rCalls[x].op \in R!Ops
    BY DEF Base, RecordsTyped, GoodRecordCalls, GoodSlot, R!Call
  <2>3. "authorized" \in R!OnProfiles /\ "authorized" \in R!Ops
    BY OpsApart
  <2>4. ~R!Meet("authorized", rCalls[x].op)
    BY <2>1, <2>2, <2>3, Meetings
  <2> QED BY <2>2, <2>3, <2>4, <2>1, Meetings
<1>10. \A x \in R!Slots \ {q} : FreshCall(rCalls[x], file) => FreshCall(rCalls[x], file')
  <2> SUFFICES ASSUME NEW x \in R!Slots \ {q}, FreshCall(rCalls[x], file)
               PROVE  FreshCall(rCalls[x], file')
    OBVIOUS
  <2>1. PICK b : b = rCalls[x]
    OBVIOUS
  <2>2. CASE b = None
    BY <2>1, <2>2 DEF FreshCall
  <2>3. CASE b # None
    <3>1. b.op \notin OnP /\ b.op # "deleteProfile" /\ b.op \notin R!OnProfiles /\ b.op \notin R!Creates
      BY <1>9, <2>1, <2>3, OpsApart DEF OnP
    <3>2. b.op # "loadProfiles" /\ b.op # "disconnect"
      BY <3>1, OpsApart DEF OnP
    <3>3. b.op \in R!OnRepos => b.to \in R!Maybe(Profiles)
      BY <2>1, <2>3 DEF Base, RecordsTyped, GoodRecordCalls, GoodSlot, R!Call
    <3>4. b.op \in R!OnRepos /\ b.to # None => file'.p[b.to] # None
      BY <1>8, <2>1, <2>3, <3>3 DEF FreshCall, R!Maybe
    <3> QED BY <1>7, <2>1, <2>3, <3>1, <3>2, <3>4 DEF FreshCall
  <2> QED BY <2>2, <2>3
<1>11. FreshCall(d, file') /\ ~Creating(d) /\ UpdateListed(d, known)
  BY <1>1, <1>5, OpsApart DEF FreshCall, Creating, UpdateListed
<1>12. PICK b : b = rCalls[q] /\ b = None
  BY <1>3
<1>13. GhostStep(file, file', b, d)
  <2> SUFFICES ASSUME NEW x \in Repos, Ghost(file', x)
               PROVE  Ghost(file, x) /\ file'.r[x].to = file.r[x].to /\ ~Prunes(b, file.r[x].to)
    BY DEF GhostStep
  <2>1. file.r[x] # None => file.r[x].to \in R!Maybe(Profiles)
    BY DEF Base, RecordsTyped, FileState, R!ReposFile, R!Maybe, R!Record
  <2> QED BY <1>7, <1>8, <1>12, <2>1 DEF Ghost, Prunes, R!Maybe
<1>14. ExistStep(known, known', file, file', ready, ready', b, d)
  BY <1>6, <1>8, <1>12 DEF ExistStep, SameExist, ExistsAhead
<1>15. EqualStep(known, known', file, file', b, d)
  BY <1>1, <1>5, <1>6, <1>7, <1>12 DEF EqualStep, ProfileAhead
<1>16. ListStep(known, known', file, file', b, d)
  BY <1>6, <1>7, <1>12 DEF ListStep, RepoAhead
<1>17. \A p \in Profiles : Unnamed(p) => Unnamed(p)'
  BY AuthorizedBase
<1>18. \A x \in R!Slots \ {q} : UpdateListed(rCalls[x], known) => UpdateListed(rCalls[x], known')
  BY <1>6
<1>19. ready' => ready \/ \A p \in Profiles : SameExist(known', file', p)
  BY <1>6
<1>20. UpdateListed(d, known')
  BY <1>6, <1>11
<1> QED BY <1>3, <1>4, <1>5, <1>6, <1>10, <1>11, <1>12, <1>13, <1>14, <1>15, <1>16, <1>17, <1>18,
          <1>19, <1>20, CreatingKnown, TurnSteady

-----------------------------------------------------------------------------
(* Records: a start, and every step, keep to Steady.                       *)

\* The two listings of a start explain all that the store does not know yet.
LEMMA LoadsSteady ==
    ASSUME NEW f, \A x \in Repos : ~Ghost(f, x), NEW k
    PROVE  /\ Apart(R!Loads) /\ FreshCalls(R!Loads, f) /\ NoGhost(R!Loads, f)
           /\ \A p : ~CreatesNow(R!Loads, p)
           /\ KnownExist(R!Loads, k, f, FALSE)
           /\ \A q \in R!Slots : UpdateListed(R!Loads[q], k)
           /\ KnownEqual(R!Loads, k, f) /\ ListEqual(R!Loads, k, f)
<1>1. PICK c1, c2 : c1 = CallFor("loadProfiles", None, None, None)
                    /\ c2 = CallFor("loadRepos", None, None, None)
  OBVIOUS
<1>2. /\ c1.op = "loadProfiles" /\ c1.at = "asked" /\ c1.to = None
      /\ c2.op = "loadRepos" /\ c2.at = "asked" /\ c2.to = None
  BY <1>1 DEF CallFor
<1>3. 1 \in R!Slots /\ 2 \in R!Slots
  BY RecordsAssumption, BoundsAssumption DEF R!Slots
<1>4. /\ R!Loads[1] = c1 /\ R!Loads[2] = c2 /\ c1 # None /\ c2 # None
      /\ \A q \in R!Slots \ {1, 2} : R!Loads[q] = None
  <2>1. R!Loads[1] = c1 /\ R!Loads[2] = c2 /\ \A q \in R!Slots \ {1, 2} : R!Loads[q] = None
    BY <1>1, LoadsAre
  <2>2. c1 \in R!Call /\ c2 \in R!Call
    BY <1>1, CallForIs, OpsApart DEF R!Maybe
  <2> QED BY <2>1, <2>2, NoneIsNoRecord
<1>5. ~R!Meet("loadProfiles", "loadRepos") /\ ~R!Meet("loadRepos", "loadProfiles")
  BY DEF R!Meet, R!Touches, R!Writes, R!OnProfiles, R!OnRepos, R!Creates
<1>6. Apart(R!Loads)
  BY <1>2, <1>4, <1>5 DEF Apart
<1>7. \A q \in R!Slots : \/ R!Loads[q] = None
                         \/ R!Loads[q].op \in {"loadProfiles", "loadRepos"} /\ R!Loads[q].at = "asked"
  BY <1>2, <1>4
<1>8. /\ FreshCalls(R!Loads, f) /\ \A q \in R!Slots : UpdateListed(R!Loads[q], k)
      /\ \A p : ~CreatesNow(R!Loads, p)
  <2> SUFFICES ASSUME NEW q \in R!Slots
               PROVE  /\ FreshCall(R!Loads[q], f) /\ UpdateListed(R!Loads[q], k)
                      /\ ~Creating(R!Loads[q])
    BY DEF FreshCalls, CreatesNow
  <2>1. PICK c : c = R!Loads[q]
    OBVIOUS
  <2>2. c = None \/ (c.op \in {"loadProfiles", "loadRepos"} /\ c.at = "asked")
    BY <1>7, <2>1
  <2> QED BY <2>1, <2>2, OpsApart DEF FreshCall, UpdateListed, Creating
<1>9. NoGhost(R!Loads, f)
  BY DEF NoGhost
<1>10. KnownExist(R!Loads, k, f, FALSE) /\ KnownEqual(R!Loads, k, f)
  BY <1>2, <1>3, <1>4 DEF KnownExist, KnownEqual, ExistsAhead, ProfileAhead
<1>11. ListEqual(R!Loads, k, f)
  BY <1>2, <1>3, <1>4 DEF ListEqual, RepoAhead
<1> QED BY <1>6, <1>8, <1>9, <1>10, <1>11

LEMMA RestartSteady == ASSUME Base, R!Restart PROVE Steady'
<1>1. /\ file' = R!Healed(file) /\ rCalls' = R!Loads /\ ready' = FALSE
  BY DEF R!Restart
<1>2. PICK s : s = R!Pruned(file.r, file.p)
  OBVIOUS
<1>3. file'.p = file.p /\ file'.r = s /\ file.r \in R!ReposFile
  BY <1>1, <1>2 DEF R!Healed, Base, RecordsTyped, FileState
<1>4. \A x \in Repos : /\ s[x] = None <=> file.r[x] = None
                       /\ file.r[x] # None /\ s[x].to # None => file.p[s[x].to] # None
  BY <1>2, <1>3, PrunedTyped
<1>5. \A x \in Repos : ~Ghost(file', x)
  BY <1>3, <1>4 DEF Ghost
<1>6. PICK f, k : f = file' /\ k = known'
  OBVIOUS
<1>7. \A x \in Repos : ~Ghost(f, x)
  BY <1>5, <1>6
<1> QED BY <1>1, <1>6, <1>7, LoadsSteady DEF Steady

LEMMA RecordsInitSteady == ASSUME R!Init PROVE Steady
<1>1. PICK fp, fr :
        /\ fp = [p \in Profiles |-> IF p \in FirstProfiles THEN [of |-> p, linked |-> FALSE]
                                   ELSE None]
        /\ fr = [r \in Repos |-> IF r \in DOMAIN Assigned THEN [id |-> r, to |-> Assigned[r]]
                                ELSE None]
  OBVIOUS
<1>2. /\ file.p = fp /\ file.r = fr /\ rCalls = R!Loads /\ ready = FALSE
  BY <1>1 DEF R!Init
<1>3. ASSUME NEW x \in Repos, Ghost(file, x)  PROVE FALSE
  <2>1. fr[x] # None /\ fr[x].to # None /\ fp[fr[x].to] = None
    BY <1>2, <1>3 DEF Ghost
  <2>2. x \in DOMAIN Assigned /\ fr[x].to = Assigned[x]
    BY <1>1, <2>1
  <2>3. fr[x].to \in FirstProfiles /\ fr[x].to \in Profiles
    BY <2>1, <2>2, RecordsAssumption
  <2>4. fp[fr[x].to] = [of |-> fr[x].to, linked |-> FALSE]
    BY <1>1, <2>3
  <2>5. [of |-> fr[x].to, linked |-> FALSE] \in R!Data
    BY <2>3 DEF R!Data, R!Maybe
  <2> QED BY <2>1, <2>4, <2>5, NoneIsNoRecord
<1> QED BY <1>2, <1>3, LoadsSteady DEF Steady

LEMMA NextSteady == ASSUME Base, Steady, ~overlap', R!Next PROVE Steady'
<1>1. CASE Shows
  BY <1>1, ShownSteady
<1>2. CASE Picks
  BY <1>2, ChoiceSteady
<1>3. CASE Asks
  BY <1>3, AddRepoSteady, InitRepoSteady, RemoveRepoSteady, SaveRepoSteady, SetActiveSteady,
     SubmitSteady, AuthorizedSteady, CloseModalSteady DEF Asks
<1>4. CASE R!Restart
  BY <1>4, RestartSteady
<1>5. ASSUME NEW q \in R!Slots, Works(q)  PROVE Steady'
  BY <1>5, ReadSteady, WriteProfileSteady, CascadeSteady, PruneSteady, WriteRepoSteady DEF Works
<1>6. ASSUME NEW q \in R!Slots, Answers(q)  PROVE Steady'
  BY <1>6, CreatedSteady, UpdatedSteady, DisconnectedSteady, DeletedSteady,
     ProfilesListedSteady, AddedSteady, RepoSavedSteady, RemovedSteady, ActiveSetSteady,
     FailSteady, ReposListedSteady, DeleteEndsSteady, InitializedSteady DEF Answers
<1> QED BY <1>1, <1>2, <1>3, <1>4, <1>5, <1>6, RecordSteps

-----------------------------------------------------------------------------
(* Records: which profile is the active one.                               *)

LEMMA TurnChoices ==
    ASSUME NEW cs, NEW ds, NEW q \in R!Slots, Turns(cs, ds, q, FALSE),
           ~Chooses(cs[q]), ~Chooses(ds[q])
    PROVE  SameChoices(cs, ds)
<1> SUFFICES ASSUME NEW x \in R!Slots
             PROVE  /\ Chooses(cs[x]) <=> Chooses(ds[x])
                    /\ Newest(cs[x]) <=> Newest(ds[x])
                    /\ Chooses(ds[x]) => ds[x].to = cs[x].to
  BY DEF SameChoices
<1>1. CASE x = q
  BY <1>1 DEF Newest
<1>2. CASE x # q
  <2>1. Like(cs[x], ds[x]) /\ (cs[x] # None => (ds[x].old <=> cs[x].old))
    BY <1>2 DEF Turns
  <2> QED BY <2>1 DEF Like, Chooses, Newest
<1> QED BY <1>1, <1>2

LEMMA FlagsChoices ==
    ASSUME GoodRecordCalls(rCalls), rCalls' \in {R!Unmounted, R!Moved(rCalls)}
    PROVE  SameChoices(rCalls, rCalls')
<1> SUFFICES ASSUME NEW x \in R!Slots
             PROVE  /\ Chooses(rCalls[x]) <=> Chooses(rCalls'[x])
                    /\ Newest(rCalls[x]) <=> Newest(rCalls'[x])
                    /\ Chooses(rCalls'[x]) => rCalls'[x].to = rCalls[x].to
  BY DEF SameChoices
<1>1. PICK y \in R!Slots : y # x
  <2>1. 1 \in R!Slots /\ 2 \in R!Slots /\ 1 # 2
    BY RecordsAssumption, BoundsAssumption DEF R!Slots
  <2> QED BY <2>1
<1>2. Turns(rCalls, rCalls', y, FALSE)
  BY FlagsTurn
<1>3. PICK c, d : c = rCalls[x] /\ d = rCalls'[x]
  OBVIOUS
<1>4. Like(c, d) /\ (c # None => (d.old <=> c.old))
  BY <1>1, <1>2, <1>3 DEF Turns
<1> QED BY <1>3, <1>4 DEF Like, Chooses, Newest

LEMMA SameAny ==
    ASSUME NEW cs, NEW ds, SameChoices(cs, ds)
    PROVE  (AnyChoice(cs) <=> AnyChoice(ds)) /\ (AnyNewest(cs) <=> AnyNewest(ds))
BY DEF SameChoices, AnyChoice, AnyNewest

\* A step that leaves those calls alone.
LEMMA KeptAim ==
    ASSUME Aim, SameChoices(rCalls, rCalls'),
           rMoves' = 0 => rMoves = 0, ~crossed' => ~crossed,
           rMoves' = 0 /\ ~AnyChoice(rCalls) =>
              /\ Loading(rCalls, ready) => Loading(rCalls', ready') \/ Matches(known', file')
              /\ Matches(known, file) => Matches(known', file'),
           ~crossed' /\ follow' # None =>
              /\ follow' = follow
              /\ known.active = follow => known'.active = follow
              /\ file.active = follow => file'.active = follow
    PROVE  Aim'
<1>1. (AnyChoice(rCalls) <=> AnyChoice(rCalls')) /\ (AnyNewest(rCalls) <=> AnyNewest(rCalls'))
  BY SameAny
<1>2. ASSUME rMoves' = 0  PROVE ActiveEqual(rCalls', known', file', ready')
  BY <1>1, <1>2 DEF Aim, ActiveEqual
<1>3. ASSUME ~crossed', follow' # None
      PROVE  /\ \A q \in R!Slots : Newest(rCalls'[q]) => rCalls'[q].to = follow'
             /\ ~AnyNewest(rCalls') => known'.active = follow'
             /\ ~AnyChoice(rCalls') /\ rMoves' = 0 => file'.active = follow'
  <2>1. Follows(rCalls, known, file, follow, rMoves = 0) /\ follow' = follow
    BY <1>3 DEF Aim
  <2>2. \A q \in R!Slots : Newest(rCalls'[q]) => rCalls'[q].to = follow'
    BY <1>3, <2>1 DEF Follows, SameChoices, Newest
  <2>3. ~AnyNewest(rCalls') => known'.active = follow'
    BY <1>1, <1>3, <2>1 DEF Follows
  <2>4. ~AnyChoice(rCalls') /\ rMoves' = 0 => file'.active = follow'
    BY <1>1, <1>3, <2>1 DEF Follows
  <2> QED BY <2>2, <2>3, <2>4
<1> QED BY <1>2, <1>3 DEF Aim, Follows

\* The same where no list is answered, and the stores and the settings choose as before.
LEMMA OtherAim ==
    ASSUME Aim, NEW q \in R!Slots, Turns(rCalls, rCalls', q, FALSE),
           ~Chooses(rCalls[q]), ~Chooses(rCalls'[q]),
           rCalls[q] # None /\ rCalls[q].op = "loadProfiles" =>
              rCalls'[q] # None /\ rCalls'[q].op = "loadProfiles",
           ready' = ready, rMoves' = 0 => rMoves = 0, ~crossed' => ~crossed,
           known'.active = known.active, file'.active = file.active, follow' \in {None, follow},
           Matches(known, file) => Matches(known', file')
    PROVE  Aim'
<1>1. SameChoices(rCalls, rCalls')
  BY TurnChoices
<1>2. Loading(rCalls, ready) => Loading(rCalls', ready')
  BY DEF Loading, Turns, Like
<1> QED BY <1>1, <1>2, KeptAim

-----------------------------------------------------------------------------
(* Records: the steps of a call keep to Aim.                               *)

\* A call that chooses nothing goes a step further.
LEMMA GoneAim ==
    ASSUME Base, Aim, NEW q \in R!Slots, NEW d, NEW from, NEW to, Goes(q, d, from, to),
           Kept(rCalls[q], d), d.op # "setActive", UNCHANGED <<ready, rMoves, follow, crossed>>,
           file'.p = file.p, file'.active = file.active, known'.active = known.active
    PROVE  Aim'
<1>1. rCalls'[q] = d /\ Turns(rCalls, rCalls', q, FALSE) /\ d # None
  BY GoesTurns DEF Base, RecordsTyped, Goes
<1>2. ~Chooses(rCalls[q]) /\ ~Chooses(rCalls'[q])
  BY <1>1 DEF Kept, Chooses
<1>3. Matches(known, file) => Matches(known', file')
  BY DEF Matches, Alive
<1> QED BY <1>1, <1>2, <1>3, OtherAim DEF Kept

LEMMA WorkAim ==
    ASSUME Base, Aim, NEW q \in R!Slots,
           R!Read(q) \/ R!Cascade(q) \/ R!Prune(q) \/ R!WriteRepo(q)
    PROVE  Aim'
<1>1. PICK d, from, to : /\ Goes(q, d, from, to) /\ Kept(rCalls[q], d) /\ d.op # "setActive"
                         /\ file' = file \/ (file'.p = file.p /\ file'.active = file.active)
  <2>1. CASE R!Read(q)
    BY <2>1, ReadIs DEF R!Read, R!OnlyCalls, Base, RecordsTyped
  <2>2. CASE R!Cascade(q)
    BY <2>2, CascadeIs DEF R!Cascade, R!OnlyCalls, Base, RecordsTyped
  <2>3. CASE R!Prune(q)
    BY <2>3, PruneIs DEF Base, RecordsTyped
  <2>4. CASE R!WriteRepo(q)
    BY <2>4, WriteRepoIs, OpsApart DEF Base, RecordsTyped
  <2> QED BY <2>1, <2>2, <2>3, <2>4
<1>2. UNCHANGED <<known, ready, rMoves, follow, crossed>>
  BY DEF R!Read, R!Cascade, R!Prune, R!WriteRepo, R!OnlyCalls
<1> QED BY <1>1, <1>2, GoneAim

LEMMA DisconnectedAim ==
    ASSUME Base, Aim, NEW q \in R!Slots, R!Disconnected(q)  PROVE Aim'
<1>1. PICK d : Goes(q, d, "written", "listing") /\ Kept(rCalls[q], d) /\ d.op = "disconnect"
  BY DisconnectedIs DEF Base, RecordsTyped
<1>2. UNCHANGED <<file, ready, rMoves, follow, crossed>> /\ known' = [known EXCEPT !.loading = TRUE]
  BY DEF R!Disconnected
<1>3. known'.active = known.active
  BY <1>2 DEF Base, RecordsTyped, KnownState
<1> QED BY <1>1, <1>2, <1>3, GoneAim

LEMMA WriteProfileAim ==
    ASSUME Base, Steady, Aim, NEW q \in R!Slots, R!WriteProfile(q)  PROVE Aim'
<1>1. PICK c : c = rCalls[q]
  OBVIOUS
<1>2. PICK d : /\ c.op \in R!OnProfiles
               /\ Goes(q, d, "read", IF c.op = "deleteProfile" THEN "cascade" ELSE "written")
               /\ d.op = c.op /\ d.id \in Profiles
               /\ IF c.op \in R!Creates THEN d.id \in fresh ELSE d.id = c.id
               /\ \A x \in Profiles \ {d.id} : d.p[x] = c.p[x]
               /\ Written(c, d.id, d.p[d.id])
               /\ file'.p = d.p /\ file'.active = file.active
  BY <1>1, WriteProfileIs DEF Base, RecordsTyped
<1>3. /\ rCalls'[q] = d /\ Turns(rCalls, rCalls', q, FALSE) /\ c # None /\ c.at = "read" /\ d # None
  BY <1>1, <1>2, GoesTurns DEF Base, RecordsTyped, Goes
<1>4. UNCHANGED <<known, ready, rMoves, follow, crossed>>
  BY DEF R!WriteProfile
<1>5. ~Chooses(rCalls[q]) /\ ~Chooses(rCalls'[q])
  BY <1>1, <1>2, <1>3, OpsApart DEF Chooses
<1>6. Shaped(c) /\ FreshCall(c, file) /\ c.op \in OnP
  BY <1>1, <1>2, <1>3, OthersBeside DEF OnP
<1>7. c.p = file.p
  BY <1>3, <1>6, <1>2 DEF FreshCall
<1>8. \A x \in Profiles \ {d.id} : file'.p[x] = file.p[x]
  BY <1>2, <1>7
<1>9. known.active \in R!Maybe(Profiles) /\ file.active \in R!Maybe(Profiles)
  BY DEF Base, RecordsTyped, KnownState, FileState
<1>10. Matches(known, file) => Matches(known', file')
  <2>1. CASE c.op \in R!Creates
    <3>1. d.id # known.active /\ d.id # file.active
      BY <1>2, <2>1 DEF Base, Unborn, Unnamed, UnnamedStores
    <3> QED BY <1>2, <1>4, <1>8, <1>9, <3>1 DEF Matches, Alive, R!Maybe
  <2>2. CASE c.op = "deleteProfile"
    <3>1. file'.p[d.id] = None
      BY <1>2, <2>2 DEF Written
    <3> QED BY <1>2, <1>4, <1>8, <1>9, <3>1 DEF Matches, Alive, R!Maybe
  <2>3. CASE c.op \notin R!Creates /\ c.op # "deleteProfile"
    <3>1. c.op \in {"updateProfile", "authorized", "disconnect"}
      BY <1>2, <2>3, OpsApart
    <3>2. file'.p[d.id] # None
      BY <1>2, <3>1 DEF Written
    <3>3. file.p[d.id] # None
      BY <1>2, <1>3, <1>6, <1>7, <2>3 DEF Shaped
    <3> QED BY <1>2, <1>4, <1>8, <1>9, <3>2, <3>3 DEF Matches, Alive, R!Maybe
  <2> QED BY <2>1, <2>2, <2>3
<1> QED BY <1>1, <1>2, <1>3, <1>4, <1>5, <1>10, OpsApart, OtherAim

LEMMA DeletedAim ==
    ASSUME Base, Steady, Aim, NEW q \in R!Slots, R!Deleted(q)  PROVE Aim'
<1>1. PICK d : Goes(q, d, "written", "listing") /\ Kept(rCalls[q], d) /\ d.op = "deleteProfile"
  BY DeletedIs DEF Base, RecordsTyped
<1>2. PICK c : c = rCalls[q] /\ c # None /\ c.at = "written" /\ c.op = "deleteProfile"
  BY <1>1 DEF Goes, Kept
<1>3. rCalls'[q] = d /\ Turns(rCalls, rCalls', q, FALSE) /\ d # None
  BY <1>1, GoesTurns DEF Base, RecordsTyped, Goes
<1>4. /\ known' = [known EXCEPT !.p[c.id] = None, !.error = FALSE,
                                !.active = IF @ = c.id THEN None ELSE @]
      /\ follow' = IF follow = c.id THEN None ELSE follow
      /\ UNCHANGED <<file, ready, rMoves, crossed>>
  BY <1>2 DEF R!Deleted
<1>5. known'.active = IF known.active = c.id THEN None ELSE known.active
  BY <1>4 DEF Base, RecordsTyped, KnownState
<1>6. ~Chooses(rCalls[q]) /\ ~Chooses(rCalls'[q])
  BY <1>1, <1>2, <1>3 DEF Chooses
<1>7. SameChoices(rCalls, rCalls')
  BY <1>3, <1>6, TurnChoices
<1>8. Loading(rCalls, ready) => Loading(rCalls', ready')
  BY <1>2, <1>3, <1>4 DEF Loading, Turns, Like
<1>9. file.p[c.id] = None
  BY <1>2, OthersBeside DEF FreshCall
<1>10. Matches(known, file) => Matches(known', file')
  BY <1>4, <1>5, <1>9 DEF Matches, Alive
<1>11. ~crossed' /\ follow' # None => /\ follow' = follow
                                      /\ known.active = follow => known'.active = follow
                                      /\ file.active = follow => file'.active = follow
  BY <1>4, <1>5
<1> QED BY <1>4, <1>7, <1>8, <1>10, <1>11, KeptAim

-----------------------------------------------------------------------------
(* Records: the answers keep to Aim.                                       *)

\* An answer other than that of a choice or of a list of profiles.
LEMMA DoneAim ==
    ASSUME Base, Aim, NEW q \in R!Slots, NEW c, c = rCalls[q], c # None, rCalls' = R!Done(q),
           c.op \notin {"setActive", "loadProfiles"},
           ready' = (ready \/ \A x \in R!Slots : R!Done(q)[x] = None) \/ ready' = ready,
           rMoves' = 0 => rMoves = 0, ~crossed' => ~crossed,
           known'.active = known.active, file' = file, follow' \in {None, follow}
    PROVE  Aim'
<1>1. rCalls'[q] = None /\ Turns(rCalls, rCalls', q, FALSE)
  BY DoneTurns DEF Base, RecordsTyped
<1>2. ~Chooses(rCalls[q]) /\ ~Chooses(rCalls'[q])
  BY <1>1 DEF Chooses
<1>3. SameChoices(rCalls, rCalls')
  BY <1>1, <1>2, TurnChoices
<1>4. Loading(rCalls, ready) => Loading(rCalls', ready')
  <2> SUFFICES ASSUME ~ready, NEW x \in R!Slots, rCalls[x] # None, rCalls[x].op = "loadProfiles"
               PROVE  Loading(rCalls', ready')
    BY DEF Loading
  <2>1. x # q
    OBVIOUS
  <2>2. rCalls'[x] # None /\ rCalls'[x].op = "loadProfiles"
    BY <1>1, <2>1 DEF Turns, Like
  <2>3. ~ready'
    BY <2>2
  <2> QED BY <2>2, <2>3 DEF Loading
<1>5. Matches(known, file) => Matches(known', file')
  BY DEF Matches
<1> QED BY <1>3, <1>4, <1>5, KeptAim

LEMMA ToldAim ==
    ASSUME Base, Aim, NEW q \in R!Slots, R!Created(q) \/ R!Updated(q) \/ R!Removed(q)
    PROVE  Aim'
<1>1. PICK c : c = rCalls[q]
  OBVIOUS
<1>2. /\ c # None /\ c.op \notin {"setActive", "loadProfiles"}
      /\ rCalls' = R!Done(q) /\ UNCHANGED <<file, ready, rMoves, follow>> /\ (~crossed' => ~crossed)
  <2>1. CASE R!Created(q)
    BY <1>1, <2>1, OpsApart DEF R!Created, R!At
  <2>2. CASE R!Updated(q) \/ R!Removed(q)
    BY <1>1, <2>2 DEF R!Updated, R!Removed, R!At
  <2> QED BY <2>1, <2>2
<1>3. known'.active = known.active
  BY DEF R!Created, R!Updated, R!Removed, Base, RecordsTyped, KnownState
<1> QED BY <1>1, <1>2, <1>3, DoneAim

LEMMA DeleteEndsAim ==
    ASSUME Base, Aim, NEW q \in R!Slots, NEW ok \in BOOLEAN, R!DeleteEnds(q, ok)  PROVE Aim'
<1>1. PICK c : /\ c = rCalls[q] /\ c # None /\ c.op = "deleteProfile"
               /\ known' = [known EXCEPT !.r = IF ok THEN c.r ELSE @, !.error = ~ok]
               /\ IF ok THEN UNCHANGED rMoves ELSE R!Fails
               /\ rCalls' = R!Done(q) /\ UNCHANGED <<file, ready, follow, crossed>>
  BY DEF R!DeleteEnds, R!At
<1>2. known'.active = known.active
  BY <1>1 DEF Base, RecordsTyped, KnownState
<1>3. rMoves' = 0 => rMoves = 0
  BY <1>1, FailsCounts DEF Base
<1> QED BY <1>1, <1>2, <1>3, DoneAim

LEMMA ReposListedAim ==
    ASSUME Base, Aim, NEW q \in R!Slots, NEW ok \in BOOLEAN, R!ReposListed(q, ok)  PROVE Aim'
<1>1. PICK c : /\ c = rCalls[q] /\ c # None /\ c.op = "loadRepos"
               /\ known' = [known EXCEPT !.r = IF ok THEN c.r ELSE @, !.error = ~ok]
               /\ IF ok THEN UNCHANGED rMoves ELSE R!Fails
               /\ rCalls' = R!Done(q) /\ UNCHANGED <<file, follow, crossed>>
               /\ ready' = (ready \/ \A x \in R!Slots : R!Done(q)[x] = None)
  BY DEF R!ReposListed, R!At
<1>2. known'.active = known.active
  BY <1>1 DEF Base, RecordsTyped, KnownState
<1>3. rMoves' = 0 => rMoves = 0
  BY <1>1, FailsCounts DEF Base
<1> QED BY <1>1, <1>2, <1>3, DoneAim

\* A failure that counts for none is not that of a choice.
LEMMA FailAim ==
    ASSUME Base, Aim, NEW q \in R!Slots, R!Fail(q)  PROVE Aim'
<1>1. PICK c : /\ c = rCalls[q] /\ c # None /\ c.op \notin {"loadProfiles", "loadRepos"}
               /\ IF R!Gone(c) \/ c.op = "createRepo" THEN UNCHANGED rMoves ELSE R!Fails
               /\ rCalls' = R!Done(q) /\ UNCHANGED <<file, known, ready, crossed>>
               /\ follow' = None
  BY DEF R!Fail
<1>2. CASE c.op # "setActive"
  <2>1. rMoves' = 0 => rMoves = 0
    BY <1>1, FailsCounts DEF Base
  <2> QED BY <1>1, <1>2, <2>1, DoneAim
<1>3. CASE c.op = "setActive"
  <2>1. Shaped(c)
    BY <1>1 DEF Base, RecordsTyped, GoodRecordCalls, GoodSlot
  <2>2. ~R!Gone(c)
    BY <1>3, <2>1, NoneIsNoRecord DEF R!Gone, Shaped
  <2>3. rMoves' > 0 /\ rMoves' \in Nat
    BY <1>1, <1>3, <2>2, FailsCounts DEF Base
  <2> QED BY <1>1, <2>3 DEF Aim, Follows
<1> QED BY <1>2, <1>3

\* A list of the profiles comes with the active one of the settings.
LEMMA ProfilesListedAim ==
    ASSUME Base, Steady, Aim, NEW q \in R!Slots, R!ProfilesListed(q)  PROVE Aim'
<1>1. PICK c : /\ c = rCalls[q] /\ c # None
               /\ \/ c.op = "loadProfiles" /\ c.at = "read"
                  \/ c.op = "disconnect" /\ c.at = "listing"
               /\ known' = [known EXCEPT !.p = c.p, !.active = c.active, !.loading = FALSE]
               /\ follow' = (IF rMoves > 0 /\ c.active # known.active THEN None ELSE follow)
               /\ rCalls' = R!Done(q) /\ UNCHANGED <<file, rMoves, crossed>>
  BY DEF R!ProfilesListed, R!At
<1>2. /\ FreshCall(c, file)
      /\ \A x \in R!Slots \ {q} : rCalls[x] # None => Beside(c.op, rCalls[x].op)
  BY <1>1, OthersBeside
<1>3. c.active = file.active /\ known'.active = file.active
  <2>1. c.active = file.active
    BY <1>1, <1>2 DEF FreshCall
  <2> QED BY <1>1, <2>1 DEF Base, RecordsTyped, KnownState
<1>4. ~AnyChoice(rCalls)
  BY <1>1, <1>2 DEF AnyChoice, Chooses, Beside
<1>5. rCalls'[q] = None /\ Turns(rCalls, rCalls', q, FALSE)
  BY <1>1, DoneTurns DEF Base, RecordsTyped
<1>6. ~Chooses(rCalls[q]) /\ ~Chooses(rCalls'[q])
  BY <1>4, <1>5 DEF AnyChoice, Chooses
<1>7. SameChoices(rCalls, rCalls')
  BY <1>5, <1>6, TurnChoices
<1>8. Matches(known', file')
  BY <1>1, <1>3 DEF Matches
<1>9. ASSUME ~crossed', follow' # None
      PROVE  /\ follow' = follow
             /\ known.active = follow => known'.active = follow
             /\ file.active = follow => file'.active = follow
  <2>1. follow' = follow /\ (rMoves > 0 => file.active = known.active)
    BY <1>1, <1>3, <1>9
  <2>2. CASE rMoves > 0
    BY <1>1, <1>3, <2>1, <2>2
  <2>3. CASE ~(rMoves > 0)
    <3>1. rMoves = 0
      BY <2>3 DEF Base, RecordsTyped
    <3>2. file.active = follow
      BY <1>1, <1>4, <1>9, <2>1, <3>1 DEF Aim, Follows
    <3> QED BY <1>1, <1>3, <2>1, <3>2
  <2> QED BY <2>2, <2>3
<1> QED BY <1>1, <1>7, <1>8, <1>9, KeptAim

\* The settings take the choices in turn, and only the newest is shown.
LEMMA ActiveSetAim ==
    ASSUME Base, Steady, Aim, NEW q \in R!Slots, R!ActiveSet(q)  PROVE Aim'
<1>1. PICK c : /\ c = rCalls[q] /\ c # None /\ c.op = "setActive"
               /\ c.old \/ ~\E x \in R!Slots : Chooses(rCalls[x]) /\ rCalls[x].old
               /\ file' = [file EXCEPT !.active = c.to]
               /\ known' = [known EXCEPT !.active = IF c.old THEN @ ELSE c.to]
               /\ rCalls' = R!Done(q) /\ UNCHANGED <<ready, rMoves, follow, crossed>>
  BY DEF R!ActiveSet, R!At, Chooses
<1>2. rCalls'[q] = None /\ Turns(rCalls, rCalls', q, FALSE)
  BY <1>1, DoneTurns DEF Base, RecordsTyped
<1>3. file'.active = c.to /\ known'.active = IF c.old THEN known.active ELSE c.to
  BY <1>1 DEF Base, RecordsTyped, KnownState, FileState
<1>4. ~Chooses(rCalls'[q]) /\ ~Newest(rCalls'[q]) /\ Chooses(rCalls[q]) /\ AnyChoice(rCalls)
  BY <1>1, <1>2 DEF Chooses, Newest, AnyChoice
<1>5. \A x \in R!Slots \ {q} : /\ Chooses(rCalls[x]) <=> Chooses(rCalls'[x])
                               /\ Newest(rCalls[x]) <=> Newest(rCalls'[x])
                               /\ Chooses(rCalls'[x]) => rCalls'[x].to = rCalls[x].to
  <2> SUFFICES ASSUME NEW x \in R!Slots \ {q}
               PROVE  /\ Chooses(rCalls[x]) <=> Chooses(rCalls'[x])
                      /\ Newest(rCalls[x]) <=> Newest(rCalls'[x])
                      /\ Chooses(rCalls'[x]) => rCalls'[x].to = rCalls[x].to
    OBVIOUS
  <2>1. Like(rCalls[x], rCalls'[x]) /\ (rCalls[x] # None => (rCalls'[x].old <=> rCalls[x].old))
    BY <1>2 DEF Turns
  <2> QED BY <2>1 DEF Like, Chooses, Newest
<1>6. CASE c.old
  <2>1. ~Newest(rCalls[q])
    BY <1>1, <1>6 DEF Newest
  <2>2. AnyNewest(rCalls) <=> AnyNewest(rCalls')
    BY <1>4, <1>5, <2>1 DEF AnyNewest
  <2>3. AnyNewest(rCalls') => AnyChoice(rCalls')
    BY DEF AnyNewest, AnyChoice, Newest
  <2>4. ASSUME rMoves' = 0
        PROVE  AnyNewest(rCalls') /\ AnyChoice(rCalls')
    BY <1>1, <1>4, <2>2, <2>3, <2>4 DEF Aim, ActiveEqual
  <2>5. \A x \in R!Slots : Newest(rCalls'[x]) => Newest(rCalls[x]) /\ rCalls'[x].to = rCalls[x].to
    BY <1>4, <1>5 DEF Newest
  <2>6. ASSUME ~crossed'  PROVE Follows(rCalls', known', file', follow', rMoves' = 0)
    <3>1. Follows(rCalls, known, file, follow, rMoves = 0)
      BY <1>1, <2>6 DEF Aim
    <3> QED BY <1>1, <1>3, <1>6, <2>2, <2>4, <2>5, <3>1 DEF Follows
  <2> QED BY <2>4, <2>6 DEF Aim, ActiveEqual
<1>7. CASE ~c.old
  <2>1. Newest(rCalls[q])
    BY <1>1, <1>7 DEF Newest, Chooses
  <2>2. \A x \in R!Slots \ {q} : ~Chooses(rCalls[x])
    <3> SUFFICES ASSUME NEW x \in R!Slots \ {q}, Chooses(rCalls[x])  PROVE FALSE
      OBVIOUS
    <3>1. Newest(rCalls[x])
      BY <1>1, <1>7 DEF Newest
    <3> QED BY <2>1, <3>1 DEF Base, OneNewest
  <2>3. ~AnyChoice(rCalls') /\ ~AnyNewest(rCalls') /\ \A x \in R!Slots : ~Newest(rCalls'[x])
    BY <1>4, <1>5, <2>2 DEF AnyChoice, AnyNewest, Newest
  <2>4. file'.active = c.to /\ known'.active = c.to
    BY <1>3, <1>7
  <2>5. Matches(known', file')
    BY <2>4 DEF Matches
  <2>6. ASSUME ~crossed', follow' # None  PROVE c.to = follow'
    BY <1>1, <2>1, <2>6 DEF Aim, Follows
  <2> QED BY <2>3, <2>4, <2>5, <2>6 DEF Aim, ActiveEqual, Follows
<1> QED BY <1>6, <1>7

-----------------------------------------------------------------------------
(* Records: the choices of a repository, and the acts, keep to Aim.        *)

\* A profile that is on disk and that something names is in the store.
LEMMA NamedIsStored ==
    ASSUME Base, Steady, ready, NEW p \in Profiles, ~Unnamed(p), file.p[p] # None
    PROVE  known.p[p] # None
<1> SUFFICES ASSUME known.p[p] = None  PROVE FALSE
  OBVIOUS
<1>1. PICK x \in R!Slots : ExistsAhead(rCalls[x], p, ready)
  BY DEF Steady, KnownExist, SameExist
<1>2. PICK c : c = rCalls[x]
  OBVIOUS
<1>3. CASE c # None /\ c.id = p /\ c.op \in R!Creates /\ c.at = "written"
  <2>1. CreatesNow(rCalls, p)
    BY <1>2, <1>3 DEF CreatesNow, Creating
  <2> QED BY <2>1 DEF Steady
<1>4. CASE c # None /\ c.id = p /\ c.op = "deleteProfile" /\ c.at \in {"cascade", "pruning", "written"}
  <2>1. FreshCall(c, file)
    BY <1>2 DEF Steady, FreshCalls
  <2> QED BY <1>4, <2>1 DEF FreshCall
<1> QED BY <1>1, <1>2, <1>3, <1>4 DEF ExistsAhead

\* A repository becomes the active one: the profile of its record, if it is on disk, ought to.
LEMMA SettledAim ==
    ASSUME Base, Steady, Aim, ready, NEW q \in R!Slots, NEW rec, Settles(rec, q), ~overlap',
           ~Chooses(rCalls[q]),
           rec # None /\ rec.to # None => rec.to \in Profiles /\ ~Unnamed(rec.to),
           UNCHANGED <<file, ready, rMoves>>, known'.active = known.active
    PROVE  Aim'
<1>1. CASE Syncs(rec)
  <2>1. /\ rCalls'[q] # None /\ rCalls'[q].op = "setActive" /\ rCalls'[q].old = FALSE
        /\ rCalls'[q].to = rec.to /\ Turns(rCalls, rCalls', q, TRUE)
    BY <1>1 DEF Settles, Asked
  <2>2. Newest(rCalls'[q]) /\ AnyNewest(rCalls') /\ AnyChoice(rCalls')
    BY <2>1 DEF Newest, Chooses, AnyNewest, AnyChoice
  <2>3. \A x \in R!Slots \ {q} : ~Newest(rCalls'[x])
    <3> SUFFICES ASSUME NEW x \in R!Slots \ {q}, Newest(rCalls'[x])  PROVE FALSE
      OBVIOUS
    <3>1. Like(rCalls[x], rCalls'[x])
      BY <2>1 DEF Turns
    <3>2. rCalls[x] # None /\ rCalls[x].op = "setActive"
      BY <3>1 DEF Like, Newest, Chooses
    <3>3. rCalls'[x].old = (rCalls[x].old \/ rCalls[x].op = "setActive")
      BY <2>1, <3>2 DEF Turns
    <3> QED BY <3>2, <3>3 DEF Newest
  <2>4. follow' # None => follow' = rec.to
    BY <1>1 DEF Settles, Syncs
  <2> QED BY <2>1, <2>2, <2>3, <2>4 DEF Aim, ActiveEqual, Follows
<1>2. CASE ~Syncs(rec)
  <2>1. rCalls'[q] = None /\ Turns(rCalls, rCalls', q, FALSE)
    BY <1>2 DEF Settles
  <2>2. ~Chooses(rCalls'[q])
    BY <2>1 DEF Chooses
  <2>3. SameChoices(rCalls, rCalls')
    BY <2>1, <2>2, TurnChoices
  <2>4. (AnyChoice(rCalls) <=> AnyChoice(rCalls')) /\ (AnyNewest(rCalls) <=> AnyNewest(rCalls'))
    BY <2>3, SameAny
  <2>5. ~Loading(rCalls, ready)
    BY DEF Loading
  <2>6. Matches(known', file') <=> Matches(known, file)
    BY DEF Matches
  <2>7. rMoves' = 0 => ActiveEqual(rCalls', known', file', ready')
    BY <2>4, <2>5, <2>6 DEF Aim, ActiveEqual
  <2>8. ASSUME ~crossed'  PROVE Follows(rCalls', known', file', follow', rMoves' = 0)
    <3>1. ~crossed /\ ~Late(rec, q)
      BY <2>8 DEF Settles
    <3>2. CASE ~Changes(rec)
      <4>1. follow' = follow
        BY <3>2 DEF Settles
      <4>2. \A x \in R!Slots : Newest(rCalls'[x]) => Newest(rCalls[x]) /\ rCalls'[x].to = rCalls[x].to
        BY <2>3 DEF SameChoices, Newest
      <4>3. Follows(rCalls, known, file, follow, rMoves = 0)
        BY <3>1 DEF Aim
      <4> QED BY <2>4, <4>1, <4>2, <4>3 DEF Follows
    <3>3. CASE Changes(rec)
      <4> SUFFICES ASSUME follow' # None
                   PROVE  Follows(rCalls', known', file', follow', rMoves' = 0)
        BY DEF Follows
      <4>1. rec # None /\ rec.to # None /\ file.p[rec.to] # None /\ follow' = rec.to
        BY <3>3 DEF Settles, Changes
      <4>2. rec.to \in Profiles /\ known.p[rec.to] # None
        BY <4>1, NamedIsStored
      <4>3. rec.to = known.active
        BY <1>2, <3>3, <4>1, <4>2 DEF Syncs
      <4>4. \A x \in R!Slots : Chooses(rCalls[x]) => rCalls[x].to = known.active
        BY <3>1, <3>3, <4>1, <4>3 DEF Late
      <4>5. \A x \in R!Slots : Newest(rCalls'[x]) => rCalls'[x].to = follow'
        BY <2>3, <4>1, <4>3, <4>4 DEF SameChoices, Newest
      <4>6. known'.active = follow'
        BY <4>1, <4>3
      <4>7. ASSUME ~AnyChoice(rCalls'), rMoves' = 0  PROVE file'.active = follow'
        <5>1. Matches(known, file)
          BY <2>4, <2>5, <4>7 DEF Aim, ActiveEqual
        <5> QED BY <4>1, <4>3, <5>1 DEF Matches, Alive
      <4> QED BY <4>5, <4>6, <4>7 DEF Follows
    <3> QED BY <3>2, <3>3
  <2> QED BY <2>7, <2>8 DEF Aim
<1> QED BY <1>1, <1>2

\* What a record in the list, in the form or in a call names.
LEMMA ListedNames ==
    ASSUME Base, NEW r \in Repos, NEW rec, rec = known.r[r], rec # None, rec.to # None
    PROVE  rec.to \in Profiles /\ ~Unnamed(rec.to)
<1>1. rec \in R!Record
  BY DEF Base, RecordsTyped, KnownState, R!ReposFile, R!Maybe
<1>2. rec.to \in Profiles
  BY <1>1 DEF R!Record, R!Maybe
<1> QED BY <1>2 DEF Unnamed, UnnamedStores, AssignsTo

LEMMA PendingNames ==
    ASSUME Base, NEW rec, rec = rForm.pending, rec # None, rec.to # None
    PROVE  rec.to \in Profiles /\ ~Unnamed(rec.to)
<1>1. rec \in R!Record
  BY DEF Base, RecordsTyped, R!RepoForm, R!Maybe
<1>2. rec.to \in Profiles
  BY <1>1 DEF R!Record, R!Maybe
<1> QED BY <1>2 DEF Unnamed, UnnamedForm

LEMMA CallNames ==
    ASSUME Base, NEW q \in R!Slots, NEW c, c = rCalls[q], c # None, c.to # None
    PROVE  c.to \in Profiles /\ ~Unnamed(c.to)
<1>1. c \in R!Call
  BY DEF Base, RecordsTyped, GoodRecordCalls, GoodSlot
<1>2. c.to \in Profiles
  BY <1>1 DEF R!Call, R!Maybe
<1> QED BY <1>2 DEF Unnamed, UnnamedCalls, UnnamedCall

LEMMA ChoiceAim == ASSUME Base, Steady, Aim, ~overlap', Picks  PROVE Aim'
<1>1. PICK rec, q : /\ q \in R!Slots /\ rCalls[q] = None /\ Settles(rec, q)
                    /\ UNCHANGED <<file, known, ready, rMoves>>
                    /\ rec = None \/ rec = rForm.pending \/ \E r \in Repos : rec = known.r[r]
  BY PickRepoSettles, SelectRepoSettles, ContinueInitSettles, AutoSelectSettles DEF Base, Picks
<1>2. ready
  BY RecordActCounts DEF Base, Picks, R!PickRepo, R!SelectRepo, R!ContinueInit, R!OnScreen,
                         R!AutoSelect, R!AutoSelectDue
<1>3. rec # None /\ rec.to # None => rec.to \in Profiles /\ ~Unnamed(rec.to)
  BY <1>1, ListedNames, PendingNames
<1>4. ~Chooses(rCalls[q])
  BY <1>1 DEF Chooses
<1> QED BY <1>1, <1>2, <1>3, <1>4, SettledAim

\* A record is answered, and the repository becomes the active one or not.
LEMMA AnsweredAim ==
    ASSUME Base, Steady, Aim, NEW q \in R!Slots, NEW c, c = rCalls[q], c # None,
           c.op \in {"createRepo", "initRepo", "updateRepo"},
           NEW rec, rec = [id |-> c.id, to |-> c.to], ~overlap',
           (rCalls' = R!Done(q) /\ UNCHANGED <<follow, crossed>>) \/ Settles(rec, q),
           known'.active = known.active, UNCHANGED <<file, ready, rMoves>>
    PROVE  Aim'
<1>1. CASE rCalls' = R!Done(q) /\ UNCHANGED <<follow, crossed>>
  BY <1>1, DoneAim
<1>2. CASE Settles(rec, q)
  <2>1. ready
    BY ReadyNow DEF Listings
  <2>2. ~Chooses(rCalls[q])
    BY DEF Chooses
  <2>3. rec.to = c.to
    OBVIOUS
  <2> QED BY <1>2, <2>1, <2>2, <2>3, CallNames, SettledAim
<1> QED BY <1>1, <1>2

LEMMA RecordedAim ==
    ASSUME Base, Steady, Aim, ~overlap', NEW q \in R!Slots,
           R!Added(q) \/ R!RepoSaved(q) \/ \E remote \in BOOLEAN : R!Initialized(q, remote)
    PROVE  Aim'
<1>1. PICK c, rec : c = rCalls[q] /\ rec = [id |-> c.id, to |-> c.to]
  OBVIOUS
<1>2. /\ c # None /\ c.op \in {"createRepo", "initRepo", "updateRepo"} /\ c.at = "written"
      /\ \/ known' = [known EXCEPT !.r[c.id] = rec]
         \/ known' = [known EXCEPT !.r[c.id] = IF @ = None THEN @ ELSE rec]
      /\ UNCHANGED <<file, ready, rMoves>>
      /\ \/ R!SetActiveRepo(rec, R!Done(q), q, known.p, known.active)
         \/ R!SetActiveRepo(rec, [R!Unmounted EXCEPT ![q] = None], q, known.p, known.active)
         \/ rCalls' = R!Done(q) /\ UNCHANGED <<follow, crossed>>
  BY <1>1 DEF R!Added, R!Initialized, R!RepoSaved, R!At, R!FinishInit
<1>3. rec \in R!Maybe(R!Record)
  BY <1>1, <1>2, RecordAnswered
<1>4. (rCalls' = R!Done(q) /\ UNCHANGED <<follow, crossed>>) \/ Settles(rec, q)
  BY <1>1, <1>2, <1>3, SettlesFromDone, SettlesFromUnmounted DEF Base
<1>5. known'.active = known.active
  BY <1>2 DEF Base, RecordsTyped, KnownState
<1> QED BY <1>1, <1>2, <1>4, <1>5, AnsweredAim

LEMMA ShownAim == ASSUME Base, Aim, Shows  PROVE Aim'
<1>1. UNCHANGED <<file, known, ready, follow, crossed, rMoves>>
  BY ShowsIs
<1>2. rCalls' = rCalls \/ rCalls' \in {R!Unmounted, R!Moved(rCalls)}
  BY ShowsIs
<1>3. CASE rCalls' = rCalls
  BY <1>1, <1>3 DEF Aim
<1>4. CASE rCalls' \in {R!Unmounted, R!Moved(rCalls)}
  <2>1. SameChoices(rCalls, rCalls')
    BY <1>4, FlagsChoices DEF Base, RecordsTyped
  <2>2. ready
    BY RecordActCounts, <1>4
       DEF Base, Shows, StartScreens, R!Navigate, R!SelectProfile, R!StartCreate, R!Connect, R!StartAdd,
           R!CancelAdd, R!FollowSelection, R!FormDue, R!OnScreen
  <2>3. ~Loading(rCalls, ready)
    BY <2>2 DEF Loading
  <2> QED BY <1>1, <2>1, <2>3, KeptAim
<1> QED BY <1>2, <1>3, <1>4

\* A call that chooses no profile.
LEMMA AskAim ==
    ASSUME Base, Aim, NEW c, Requests(c), c.op # "setActive",
           UNCHANGED <<ready, follow, crossed, rMoves>>,
           known'.active = known.active, file'.active = file.active,
           Matches(known, file) => Matches(known', file')
    PROVE  Aim'
<1>1. PICK q \in R!Slots : AsksFor(q, c)
  BY DEF Requests
<1>2. rCalls[q] = None /\ rCalls'[q] = c /\ Turns(rCalls, rCalls', q, FALSE)
  BY <1>1, RequestTurns DEF Base, RecordsTyped
<1>3. ~Chooses(rCalls[q]) /\ ~Chooses(rCalls'[q])
  BY <1>2 DEF Chooses
<1> QED BY <1>2, <1>3, OtherAim

LEMMA AskedAim ==
    ASSUME Base, Aim,
           \/ \E op \in R!OnProfiles : R!Submit(op)
           \/ \E r \in Repos : R!AddRepo(r) \/ R!InitRepo(r)
           \/ R!RemoveRepo
    PROVE  Aim'
<1>1. PICK c : Requests(c) /\ c.op \in R!OnProfiles \union R!OnRepos
  BY SubmitAsks, AddRepoAsks, InitRepoAsks, RemoveRepoAsks, OpsApart DEF Base
<1>2. UNCHANGED <<file, known, ready, follow, crossed, rMoves>>
  BY DEF R!Submit, R!AddRepo, R!InitRepo, R!RemoveRepo, R!Store
<1> QED BY <1>1, <1>2, OpsApart, AskAim

LEMMA SaveRepoAim ==
    ASSUME Base, Aim, NEW x \in R!Maybe(Profiles), R!SaveRepo(x)  PROVE Aim'
<1>1. PICK c : /\ c.op = "updateRepo"
               /\ \E q \in R!Slots : rCalls[q] = None /\ rCalls' = [rCalls EXCEPT ![q] = c]
  BY SaveRepoAsks DEF Base
<1>2. PICK q \in R!Slots : rCalls[q] = None /\ rCalls' = [rCalls EXCEPT ![q] = c]
  BY <1>1
<1>3. rCalls'[q] = c /\ Turns(rCalls, rCalls', q, FALSE)
  BY <1>2, SetTurns DEF Base, RecordsTyped
<1>4. ~Chooses(rCalls[q]) /\ ~Chooses(rCalls'[q])
  BY <1>1, <1>2, <1>3 DEF Chooses
<1>5. UNCHANGED <<file, known, ready, follow, crossed, rMoves>>
  BY DEF R!SaveRepo, R!Store
<1> QED BY <1>2, <1>3, <1>4, <1>5, OtherAim

LEMMA CloseModalAim ==
    ASSUME Base, Aim, R!CloseModal  PROVE Aim'
<1>1. PICK c : Requests(c) /\ c.op = "loadProfiles"
  BY CloseModalAsks DEF Base
<1>2. /\ UNCHANGED <<file, ready, follow, crossed, rMoves>>
      /\ known' = [known EXCEPT !.loading = TRUE]
  BY DEF R!CloseModal
<1>3. known'.active = known.active
  BY <1>2 DEF Base, RecordsTyped, KnownState
<1>4. Matches(known, file) => Matches(known', file')
  BY <1>2, <1>3 DEF Matches
<1> QED BY <1>1, <1>2, <1>3, <1>4, AskAim

LEMMA AuthorizedAim ==
    ASSUME Base, Aim, R!Authorized  PROVE Aim'
<1>1. PICK c : Requests(c) /\ c.op = "authorized"
  BY AuthorizedAsks DEF Base
<1>2. /\ UNCHANGED <<known, ready, follow, crossed, rMoves>>
      /\ selected \in Profiles /\ file.p[selected] # None
      /\ file' = [file EXCEPT !.p[selected].linked = TRUE]
  BY DEF R!Authorized, R!Exists, R!Modal, Base, RecordsTyped, R!Maybe
<1>3. /\ file'.active = file.active
      /\ \A p \in Profiles \ {selected} : file'.p[p] = file.p[p]
      /\ file'.p[selected] = [file.p[selected] EXCEPT !.linked = TRUE]
  BY <1>2 DEF Base, RecordsTyped, FileState, R!ProfilesFile
<1>4. file'.p[selected] # None
  <2>1. file.p[selected] \in R!Data
    BY <1>2 DEF Base, RecordsTyped, FileState, R!ProfilesFile, R!Maybe
  <2>2. [file.p[selected] EXCEPT !.linked = TRUE] \in R!Data
    BY <2>1 DEF R!Data
  <2> QED BY <1>3, <2>2, NoneIsNoRecord
<1>5. known.active \in R!Maybe(Profiles) /\ file.active \in R!Maybe(Profiles)
  BY DEF Base, RecordsTyped, KnownState, FileState
<1>6. Matches(known, file) => Matches(known', file')
  BY <1>2, <1>3, <1>4, <1>5 DEF Matches, Alive, R!Maybe
<1> QED BY <1>1, <1>2, <1>3, <1>6, AskAim

\* The user makes a profile the active one: that is the newest choice now.
LEMMA SetActiveAim ==
    ASSUME Base, Aim, NEW p \in Profiles, R!SetActive(p)  PROVE Aim'
<1>1. PICK c : Requests(c) /\ c.op = "setActive" /\ c.to = p
  BY SetActiveAsks DEF Base
<1>2. PICK q \in R!Slots : AsksFor(q, c)
  BY <1>1 DEF Requests
<1>3. rCalls'[q] = c /\ Turns(rCalls, rCalls', q, TRUE) /\ c # None /\ c.old = FALSE
  BY <1>1, <1>2, RequestTurns DEF Base, RecordsTyped, Requests, Asked
<1>4. Newest(rCalls'[q]) /\ AnyNewest(rCalls') /\ AnyChoice(rCalls')
  BY <1>1, <1>3 DEF Newest, Chooses, AnyNewest, AnyChoice
<1>5. \A x \in R!Slots \ {q} : ~Newest(rCalls'[x])
  <2> SUFFICES ASSUME NEW x \in R!Slots \ {q}, Newest(rCalls'[x])  PROVE FALSE
    OBVIOUS
  <2>1. Like(rCalls[x], rCalls'[x])
    BY <1>3 DEF Turns
  <2>2. rCalls[x] # None /\ rCalls[x].op = "setActive"
    BY <2>1 DEF Like, Newest, Chooses
  <2>3. rCalls'[x].old = (rCalls[x].old \/ rCalls[x].op = "setActive")
    BY <1>3, <2>2 DEF Turns
  <2> QED BY <2>2, <2>3 DEF Newest
<1>6. follow' = p
  BY DEF R!SetActive
<1> QED BY <1>1, <1>3, <1>4, <1>5, <1>6 DEF Aim, ActiveEqual, Follows

LEMMA RestartAim == ASSUME Base, R!Restart PROVE Aim'
<1>1. follow' = None /\ rMoves' # 0
  BY FailsCounts DEF R!Restart, Base
<1> QED BY <1>1 DEF Aim, Follows

LEMMA RecordsInitAim == ASSUME R!Init PROVE Aim
<1>1. rCalls = R!Loads /\ ready = FALSE /\ follow = None
  BY DEF R!Init
<1>2. ~AnyChoice(rCalls)
  BY <1>1, LoadsTrue DEF AnyChoice, Chooses, Listings
<1>3. PICK c : c = CallFor("loadProfiles", None, None, None)
  OBVIOUS
<1>4. c.op = "loadProfiles" /\ c # None /\ R!Loads[1] = c /\ 1 \in R!Slots
  <2>1. c \in R!Call
    BY <1>3, CallForIs, OpsApart DEF R!Maybe
  <2>2. 1 \in R!Slots
    BY RecordsAssumption, BoundsAssumption DEF R!Slots
  <2> QED BY <1>3, <2>1, <2>2, LoadsAre, NoneIsNoRecord DEF CallFor
<1>5. Loading(rCalls, ready)
  BY <1>1, <1>4 DEF Loading
<1> QED BY <1>1, <1>2, <1>5 DEF Aim, ActiveEqual, Follows

LEMMA NextAim == ASSUME Base, Steady, Aim, ~overlap', R!Next PROVE Aim'
<1>1. CASE Shows
  BY <1>1, ShownAim
<1>2. CASE Picks
  BY <1>2, ChoiceAim
<1>3. CASE Asks
  BY <1>3, AskedAim, SaveRepoAim, SetActiveAim, AuthorizedAim, CloseModalAim DEF Asks
<1>4. CASE R!Restart
  BY <1>4, RestartAim
<1>5. ASSUME NEW q \in R!Slots, Works(q)  PROVE Aim'
  BY <1>5, WorkAim, WriteProfileAim DEF Works
<1>6. ASSUME NEW q \in R!Slots, Answers(q)  PROVE Aim'
  BY <1>6, ToldAim, DisconnectedAim, DeletedAim, ProfilesListedAim, RecordedAim, ActiveSetAim,
     ReposListedAim, DeleteEndsAim, FailAim DEF Answers
<1> QED BY <1>1, <1>2, <1>3, <1>4, <1>5, <1>6, RecordSteps

-----------------------------------------------------------------------------
(* Records: calls that have met.                                           *)

\* Calls that have met have met for good, but for a restart.
LEMMA OverlapStays == ASSUME Base, R!Next, overlap, ~overlap' PROVE R!Restart
<1> SUFFICES ASSUME ~R!Restart PROVE FALSE
  OBVIOUS
<1>1. ASSUME NEW call, R!Ask(call)  PROVE overlap'
  <2>1. PICK q \in R!Slots : overlap' = (overlap \/ MeetsOther(rCalls, q, call.op))
    BY <1>1, AskIs
  <2> QED BY <2>1
<1>2. ASSUME NEW rec, NEW in, NEW q, R!SetActiveRepo(rec, in, q, known.p, known.active)
      PROVE  overlap'
  BY <1>2 DEF R!SetActiveRepo, R!Make
<1>3. ~Shows
  BY DEF Shows, R!Navigate, R!SelectProfile, R!StartCreate, R!Connect, R!StartAdd, R!CancelAdd,
         R!FollowSelection
<1>4. ~Picks
  BY <1>2 DEF Picks, R!PickRepo, R!SelectRepo, R!ContinueInit, R!FinishInit, R!AutoSelect
<1>5. ~Asks
  BY <1>1 DEF Asks, R!AddRepo, R!InitRepo, R!SetActive, R!SaveRepo, R!Submit, R!RemoveRepo,
              R!Authorized, R!CloseModal
<1>6. \A q \in R!Slots : ~Works(q)
  BY DEF Works, R!Read, R!WriteProfile, R!Cascade, R!Prune, R!WriteRepo, R!OnlyCalls
<1>7. ASSUME NEW q \in R!Slots
      PROVE  /\ ~R!Created(q) /\ ~R!Updated(q) /\ ~R!Disconnected(q) /\ ~R!Deleted(q)
             /\ ~R!ProfilesListed(q) /\ ~R!Removed(q) /\ ~R!ActiveSet(q) /\ ~R!Fail(q)
             /\ \A ok \in BOOLEAN : ~R!ReposListed(q, ok) /\ ~R!DeleteEnds(q, ok)
  BY DEF R!Created, R!Updated, R!Disconnected, R!Deleted, R!ProfilesListed, R!Removed, R!ActiveSet,
         R!Fail, R!ReposListed, R!DeleteEnds
<1>8. ASSUME NEW q \in R!Slots
      PROVE  ~R!Added(q) /\ ~R!RepoSaved(q) /\ \A ok \in BOOLEAN : ~R!Initialized(q, ok)
  BY <1>2 DEF R!Added, R!RepoSaved, R!Initialized, R!FinishInit
<1>9. \A q \in R!Slots : ~Answers(q)
  BY <1>7, <1>8 DEF Answers
<1> QED BY <1>3, <1>4, <1>5, <1>6, <1>9, RecordSteps

-----------------------------------------------------------------------------
(* Records: the repositories in the list.  While no two calls have met, the *)
(* active repository leaves the list only once it has left the file.       *)

LEMMA TurnListed ==
    ASSUME NEW cs, NEW ds, NEW q \in R!Slots, NEW new, Turns(cs, ds, q, new), GoesOn(cs[q], ds[q])
    PROVE  /\ \A z \in R!Slots : \A x :
                 /\ Adding(ds[z], x) => Adding(cs[z], x) /\ (ds[z].at # "written" => cs[z].at # "written")
                 /\ Adding(cs[z], x) /\ cs[z].at = "written" => Adding(ds[z], x)
                 /\ Removing(ds[z], x) => Removing(cs[z], x)
                 /\ Removing(cs[z], x) /\ cs[z].at = "written" =>
                       Removing(ds[z], x) /\ ds[z].at = "written"
<1> SUFFICES ASSUME NEW z \in R!Slots, NEW x
             PROVE  /\ Adding(ds[z], x) => Adding(cs[z], x) /\ (ds[z].at # "written" => cs[z].at # "written")
                    /\ Adding(cs[z], x) /\ cs[z].at = "written" => Adding(ds[z], x)
                    /\ Removing(ds[z], x) => Removing(cs[z], x)
                    /\ Removing(cs[z], x) /\ cs[z].at = "written" =>
                          Removing(ds[z], x) /\ ds[z].at = "written"
  OBVIOUS
<1>1. CASE z = q
  BY <1>1 DEF GoesOn, Adding, Removing
<1>2. CASE z # q
  <2>1. Like(cs[z], ds[z])
    BY <1>2 DEF Turns
  <2> QED BY <2>1 DEF Like, Adding, Removing
<1> QED BY <1>1, <1>2

\* A step that neither lists nor unlists, and adds no call of the kind.
LEMMA ListedKept ==
    ASSUME Base, ListSound, Base', NEW q \in R!Slots, NEW new, Turns(rCalls, rCalls', q, new),
           GoesOn(rCalls[q], rCalls'[q]), SameListed(known, file, known', file'),
           known.error => known'.error \/ ~AnyAdding(rCalls'),
           repo' # None => \/ repo # None /\ repo'.id = repo.id
                           \/ known.r[repo'.id] # None,
           KeepsForm(rForm, rForm')
    PROVE  ListSound'
<1>1. \A z \in R!Slots : \A x :
         /\ Adding(rCalls'[z], x) =>
               Adding(rCalls[z], x) /\ (rCalls'[z].at # "written" => rCalls[z].at # "written")
         /\ Adding(rCalls[z], x) /\ rCalls[z].at = "written" => Adding(rCalls'[z], x)
         /\ Removing(rCalls'[z], x) => Removing(rCalls[z], x)
         /\ Removing(rCalls[z], x) /\ rCalls[z].at = "written" =>
               Removing(rCalls'[z], x) /\ rCalls'[z].at = "written"
  BY TurnListed
<1>2. /\ repo' # None => repo'.id \in Repos
      /\ rForm'.pending # None => rForm'.pending.id \in Repos
  BY DEF Base, RecordsTyped, R!Maybe, R!Record, R!RepoForm
<1>3. BehindList(rCalls', known', file')
  BY <1>1 DEF ListSound, BehindList, SameListed
<1>4. AddsUnlisted(rCalls', known', file', repo')
  <2> SUFFICES ASSUME NEW z \in R!Slots, NEW x \in Repos, Adding(rCalls'[z], x)
               PROVE  /\ known'.r[x] = None
                      /\ rCalls'[z].at # "written" => file'.r[x] = None
                      /\ repo' # None /\ repo'.id = x => known'.error
    BY DEF AddsUnlisted
  <2>1. Adding(rCalls[z], x) /\ (rCalls'[z].at # "written" => rCalls[z].at # "written")
    BY <1>1
  <2>2. /\ known.r[x] = None /\ (rCalls[z].at # "written" => file.r[x] = None)
        /\ repo # None /\ repo.id = x => known.error
    BY <2>1 DEF ListSound, AddsUnlisted
  <2>3. AnyAdding(rCalls')
    BY DEF AnyAdding, Adding
  <2>4. known'.r[x] = None /\ (rCalls'[z].at # "written" => file'.r[x] = None)
    BY <2>1, <2>2 DEF SameListed
  <2>5. repo' # None /\ repo'.id = x => known'.error
    BY <2>2, <2>3
  <2> QED BY <2>4, <2>5
<1>5. ActiveListed(rCalls', known', file', repo')
  <2> SUFFICES ASSUME repo' # None, known'.r[repo'.id] = None, file'.r[repo'.id] # None
               PROVE  known'.error /\ \E z \in R!Slots : Adding(rCalls'[z], repo'.id)
    BY DEF ActiveListed
  <2>1. known.r[repo'.id] = None /\ file.r[repo'.id] # None /\ repo # None /\ repo'.id = repo.id
    BY <1>2 DEF SameListed
  <2>2. known.error /\ \E z \in R!Slots : Adding(rCalls[z], repo.id)
    BY <2>1 DEF ListSound, ActiveListed
  <2>3. PICK z \in R!Slots : Adding(rCalls[z], repo.id)
    BY <2>2
  <2>4. rCalls[z].at = "written"
    BY <1>2, <2>1, <2>3 DEF ListSound, AddsUnlisted
  <2>5. Adding(rCalls'[z], repo'.id)
    BY <1>1, <2>1, <2>3, <2>4
  <2>6. AnyAdding(rCalls')
    BY <2>5 DEF AnyAdding, Adding
  <2> QED BY <2>2, <2>5, <2>6
<1>6. PendingListed(rCalls', known', rForm')
  <2> SUFFICES ASSUME rForm'.mode = "add", rForm'.pending # None
               PROVE  /\ known'.r[rForm'.pending.id] # None
                      /\ \A z \in R!Slots : ~Removing(rCalls'[z], rForm'.pending.id)
    BY DEF PendingListed
  <2>1. rForm.mode = "add" /\ rForm'.pending = rForm.pending
    BY DEF KeepsForm
  <2>2. /\ known.r[rForm.pending.id] # None
        /\ \A z \in R!Slots : ~Removing(rCalls[z], rForm.pending.id)
    BY <2>1 DEF ListSound, PendingListed
  <2> QED BY <1>1, <1>2, <2>1, <2>2 DEF SameListed
<1> QED BY <1>3, <1>4, <1>5, <1>6 DEF ListSound

-----------------------------------------------------------------------------
(* Records: the steps of a call keep the list sound.                       *)

LEMMA OtherGoesOn ==
    ASSUME NEW c, NEW d, NotListing(c), NotListing(d)  PROVE GoesOn(c, d)
BY DEF NotListing, GoesOn

LEMMA RepoOps ==
    /\ Adds \subseteq R!OnRepos /\ Adds \union {"removeRepo", "updateRepo"} = R!OnRepos
    /\ R!OnRepos \subseteq OnR
    /\ \A c : c # None /\ c.op \in R!OnProfiles \union {"setActive", "loadProfiles", "loadRepos"} =>
                 NotListing(c)
    /\ NotListing(None)
<1>1. Adds \union {"removeRepo", "updateRepo"} = R!OnRepos /\ R!OnRepos \subseteq OnR
  BY DEF Adds, R!OnRepos, OnR
<1>2. \A c : c # None /\ c.op \in R!OnProfiles \union {"setActive", "loadProfiles", "loadRepos"} =>
                 NotListing(c)
  BY <1>1, OpsApart DEF NotListing
<1> QED BY <1>1, <1>2 DEF NotListing

\* A step that leaves the list, the file of it and the active repository alone.
LEMMA AlikeListed ==
    ASSUME Base, ListSound, Base', NEW q \in R!Slots, NEW new, Turns(rCalls, rCalls', q, new),
           GoesOn(rCalls[q], rCalls'[q]),
           known'.r = known.r, file'.r = file.r, repo' = repo,
           known'.error = known.error \/ ~AnyAdding(rCalls'),
           KeepsForm(rForm, rForm')
    PROVE  ListSound'
<1>1. SameListed(known, file, known', file')
  BY DEF SameListed
<1>2. known.error => known'.error \/ ~AnyAdding(rCalls')
  OBVIOUS
<1>3. repo' # None => repo # None /\ repo'.id = repo.id
  OBVIOUS
<1> QED BY <1>1, <1>2, <1>3, ListedKept

LEMMA ReadListed ==
    ASSUME Base, ListSound, Base', NEW q \in R!Slots, R!Read(q)  PROVE ListSound'
<1>1. PICK d : Goes(q, d, "asked", "read") /\ Kept(rCalls[q], d)
  BY ReadIs DEF Base, RecordsTyped
<1>2. rCalls'[q] = d /\ Turns(rCalls, rCalls', q, FALSE)
  BY <1>1, GoesTurns DEF Base, RecordsTyped
<1>3. GoesOn(rCalls[q], d)
  BY <1>1 DEF Goes, Kept, GoesOn
<1>4. UNCHANGED <<file, known, repo, rForm>>
  BY DEF R!Read, R!OnlyCalls
<1>5. KeepsForm(rForm, rForm')
  BY <1>4 DEF KeepsForm
<1> QED BY <1>2, <1>3, <1>4, <1>5, AlikeListed

LEMMA WriteProfileListed ==
    ASSUME Base, ListSound, Base', NEW q \in R!Slots, R!WriteProfile(q)  PROVE ListSound'
<1>1. PICK d : /\ rCalls[q].op \in R!OnProfiles /\ d.op = rCalls[q].op /\ file'.r = file.r
               /\ Goes(q, d, "read", IF rCalls[q].op = "deleteProfile" THEN "cascade" ELSE "written")
  BY WriteProfileIs DEF Base, RecordsTyped
<1>2. rCalls'[q] = d /\ Turns(rCalls, rCalls', q, FALSE)
  BY <1>1, GoesTurns DEF Base, RecordsTyped
<1>3. GoesOn(rCalls[q], d)
  BY <1>1, RepoOps, OtherGoesOn DEF NotListing
<1>4. UNCHANGED <<known, repo, rForm>>
  BY DEF R!WriteProfile
<1>5. KeepsForm(rForm, rForm')
  BY <1>4 DEF KeepsForm
<1> QED BY <1>1, <1>2, <1>3, <1>4, <1>5, AlikeListed

LEMMA CascadeListed ==
    ASSUME Base, ListSound, Base', NEW q \in R!Slots, R!Cascade(q)  PROVE ListSound'
<1>1. PICK d : Goes(q, d, "cascade", "pruning") /\ Kept(rCalls[q], d) /\ d.op = "deleteProfile"
  BY CascadeIs DEF Base, RecordsTyped
<1>2. rCalls'[q] = d /\ Turns(rCalls, rCalls', q, FALSE)
  BY <1>1, GoesTurns DEF Base, RecordsTyped
<1>3. GoesOn(rCalls[q], d)
  BY <1>1, OtherGoesOn DEF NotListing, Kept, Adds
<1>4. UNCHANGED <<file, known, repo, rForm>>
  BY DEF R!Cascade, R!OnlyCalls
<1>5. KeepsForm(rForm, rForm')
  BY <1>4 DEF KeepsForm
<1> QED BY <1>2, <1>3, <1>4, <1>5, AlikeListed

LEMMA PruneListed ==
    ASSUME Base, Steady, ListSound, Base', NEW q \in R!Slots, R!Prune(q)  PROVE ListSound'
<1>1. PICK d : /\ Goes(q, d, "pruning", "written") /\ Kept(rCalls[q], d)
               /\ d.op = "deleteProfile" /\ d.r = rCalls[q].r
               /\ \/ file' = file
                  \/ file'.r = R!Pruned(d.r, d.p)
  BY PruneIs DEF Base, RecordsTyped
<1>2. rCalls'[q] = d /\ Turns(rCalls, rCalls', q, FALSE) /\ rCalls[q] # None /\ rCalls[q].at = "pruning"
  BY <1>1, GoesTurns DEF Base, RecordsTyped, Goes
<1>3. GoesOn(rCalls[q], d)
  BY <1>1, OtherGoesOn DEF NotListing, Kept, Adds
<1>4. UNCHANGED <<known, repo, rForm>>
  BY DEF R!Prune, R!OnlyCalls
<1>5. d.r = file.r /\ file.r \in R!ReposFile
  <2>1. FreshCall(rCalls[q], file) /\ rCalls[q].op = "deleteProfile"
    BY <1>1, <1>2, OthersBeside DEF Kept
  <2>2. d.r = file.r
    BY <1>1, <1>2, <2>1 DEF FreshCall
  <2> QED BY <2>2 DEF Base, RecordsTyped, FileState
<1>6. SameListed(known, file, known', file')
  BY <1>1, <1>4, <1>5, PrunedTyped DEF SameListed
<1>7. KeepsForm(rForm, rForm') /\ known'.error = known.error
  BY <1>4 DEF KeepsForm
<1>8. repo' # None => repo # None /\ repo'.id = repo.id
  BY <1>4
<1> QED BY <1>2, <1>3, <1>6, <1>7, <1>8, ListedKept

LEMMA DisconnectedListed ==
    ASSUME Base, ListSound, Base', NEW q \in R!Slots, R!Disconnected(q)  PROVE ListSound'
<1>1. PICK d : Goes(q, d, "written", "listing") /\ Kept(rCalls[q], d) /\ d.op = "disconnect"
  BY DisconnectedIs DEF Base, RecordsTyped
<1>2. rCalls'[q] = d /\ Turns(rCalls, rCalls', q, FALSE)
  BY <1>1, GoesTurns DEF Base, RecordsTyped
<1>3. GoesOn(rCalls[q], d)
  BY <1>1, OtherGoesOn DEF NotListing, Kept, Adds
<1>4. UNCHANGED <<file, repo, rForm>> /\ known' = [known EXCEPT !.loading = TRUE]
  BY DEF R!Disconnected
<1>5. known'.r = known.r /\ known'.error = known.error
  BY <1>4 DEF Base, RecordsTyped, KnownState
<1>6. KeepsForm(rForm, rForm')
  BY <1>4 DEF KeepsForm
<1> QED BY <1>2, <1>3, <1>4, <1>5, <1>6, AlikeListed

\* A deleted profile forgets that a list had failed; nothing is being added then.
LEMMA DeletedListed ==
    ASSUME Base, Steady, ListSound, Base', NEW q \in R!Slots, R!Deleted(q)  PROVE ListSound'
<1>1. PICK d : Goes(q, d, "written", "listing") /\ Kept(rCalls[q], d) /\ d.op = "deleteProfile"
  BY DeletedIs DEF Base, RecordsTyped
<1>2. rCalls'[q] = d /\ Turns(rCalls, rCalls', q, FALSE) /\ rCalls[q] # None
  BY <1>1, GoesTurns DEF Base, RecordsTyped, Goes
<1>3. GoesOn(rCalls[q], d)
  BY <1>1, OtherGoesOn DEF NotListing, Kept, Adds
<1>4. /\ UNCHANGED <<file, repo, rForm>>
      /\ \E i : known' = [known EXCEPT !.p[i] = None, !.error = FALSE,
                                       !.active = IF @ = i THEN None ELSE @]
  BY DEF R!Deleted
<1>5. known'.r = known.r
  BY <1>4 DEF Base, RecordsTyped, KnownState
<1>6. \A x \in R!Slots \ {q} : rCalls[x] = None
  BY <1>1, <1>2, OthersBeside DEF Kept, Beside
<1>7. ~AnyAdding(rCalls')
  BY <1>1, <1>2, <1>6 DEF AnyAdding, Turns, Like, Adds
<1>8. KeepsForm(rForm, rForm')
  BY <1>4 DEF KeepsForm
<1> QED BY <1>2, <1>3, <1>4, <1>5, <1>7, <1>8, AlikeListed

LEMMA WriteRepoListed ==
    ASSUME Base, Steady, ListSound, Base', NEW q \in R!Slots, R!WriteRepo(q)  PROVE ListSound'
<1>1. PICK d : /\ Goes(q, d, "read", "written") /\ Kept(rCalls[q], d)
               /\ d.op \in R!OnRepos /\ d.id \in Repos /\ d.r = rCalls[q].r
               /\ \A x \in Repos \ {d.id} : file'.r[x] = d.r[x]
               /\ file'.r[d.id] = IF d.op = "removeRepo" THEN None ELSE [id |-> d.id, to |-> d.to]
  BY WriteRepoIs DEF Base, RecordsTyped
<1>2. PICK c : /\ c = rCalls[q] /\ c # None /\ c.at = "read" /\ d # None /\ d.at = "written"
               /\ c.op = d.op /\ c.id = d.id
  BY <1>1 DEF Goes, Kept
<1>3. rCalls'[q] = d /\ Turns(rCalls, rCalls', q, FALSE)
  BY <1>1, GoesTurns DEF Base, RecordsTyped
<1>4. /\ FreshCall(c, file) /\ UpdateListed(c, known)
      /\ \A x \in R!Slots \ {q} : rCalls[x] # None => Beside(c.op, rCalls[x].op)
  BY <1>2, OthersBeside
<1>5. \A x \in Repos \ {d.id} : file'.r[x] = file.r[x]
  BY <1>1, <1>2, <1>4, RepoOps DEF FreshCall
<1>6. \A z \in R!Slots \ {q} : rCalls'[z] # None => rCalls'[z].op \notin R!OnRepos
  BY <1>1, <1>2, <1>3, <1>4, RepoOps DEF Beside, Turns, Like
<1>7. \A z \in R!Slots \ {q} : rCalls[z] # None => rCalls[z].op \notin R!OnRepos
  BY <1>1, <1>2, <1>4, RepoOps DEF Beside
<1>8. UNCHANGED <<known, repo, rForm>>
  BY DEF R!WriteRepo, R!OnlyCalls
<1>9. repo # None => repo.id \in Repos
  BY DEF Base, RecordsTyped, R!Maybe, R!Record
<1>10. file'.r[d.id] = None <=> d.op = "removeRepo"
  <2>1. rCalls[q].id \in Repos /\ d.to = c.to /\ [id |-> rCalls[q].id, to |-> rCalls[q].to] \in R!Record
    BY <1>1, <1>2, RecordOfCall DEF Base, Kept
  <2> QED BY <1>1, <1>2, <2>1, NoneIsNoRecord
<1>11. BehindList(rCalls', known', file')
  <2> SUFFICES ASSUME NEW x \in Repos, known.r[x] # None, file'.r[x] = None
               PROVE  \E z \in R!Slots : Removing(rCalls'[z], x) /\ rCalls'[z].at = "written"
    BY <1>8 DEF BehindList
  <2>1. CASE x = d.id
    BY <1>2, <1>3, <1>10, <2>1 DEF Removing
  <2>2. CASE x # d.id
    <3>1. PICK z \in R!Slots : Removing(rCalls[z], x) /\ rCalls[z].at = "written"
      BY <1>5, <2>2 DEF ListSound, BehindList
    <3>2. z # q
      BY <1>2, <3>1
    <3> QED BY <1>7, <3>1, <3>2, RepoOps DEF Removing
  <2> QED BY <2>1, <2>2
<1>12. AddsUnlisted(rCalls', known', file', repo')
  <2> SUFFICES ASSUME NEW z \in R!Slots, NEW x \in Repos, Adding(rCalls'[z], x)
               PROVE  /\ known.r[x] = None
                      /\ rCalls'[z].at # "written" => file'.r[x] = None
                      /\ repo # None /\ repo.id = x => known.error
    BY <1>8 DEF AddsUnlisted
  <2>1. z = q
    BY <1>6, RepoOps DEF Adding
  <2>2. Adding(rCalls[q], x) /\ rCalls'[q].at = "written"
    BY <1>2, <1>3, <2>1 DEF Adding
  <2> QED BY <2>1, <2>2 DEF ListSound, AddsUnlisted
<1>13. ActiveListed(rCalls', known', file', repo')
  <2> SUFFICES ASSUME repo # None, known.r[repo.id] = None, file'.r[repo.id] # None
               PROVE  known.error /\ \E z \in R!Slots : Adding(rCalls'[z], repo.id)
    BY <1>8 DEF ActiveListed
  <2>1. CASE repo.id = d.id
    <3>1. d.op \in Adds
      BY <1>1, <1>2, <1>4, <1>10, <2>1, RepoOps DEF UpdateListed
    <3>2. Adding(rCalls[q], repo.id) /\ Adding(rCalls'[q], repo.id)
      BY <1>2, <1>3, <2>1, <3>1 DEF Adding
    <3> QED BY <1>9, <3>2 DEF ListSound, AddsUnlisted
  <2>2. CASE repo.id # d.id
    <3>1. file.r[repo.id] # None
      BY <1>5, <1>9, <2>2
    <3>2. PICK z \in R!Slots : Adding(rCalls[z], repo.id)
      BY <3>1 DEF ListSound, ActiveListed
    <3>3. z = q
      BY <1>7, <3>2, RepoOps DEF Adding
    <3> QED BY <1>2, <2>2, <3>2, <3>3 DEF Adding
  <2> QED BY <2>1, <2>2
<1>14. PendingListed(rCalls', known', rForm')
  <2> SUFFICES ASSUME rForm.mode = "add", rForm.pending # None
               PROVE  /\ known.r[rForm.pending.id] # None
                      /\ \A z \in R!Slots : ~Removing(rCalls'[z], rForm.pending.id)
    BY <1>8 DEF PendingListed
  <2>1. /\ known.r[rForm.pending.id] # None
        /\ ~Removing(rCalls[q], rForm.pending.id)
    BY DEF ListSound, PendingListed
  <2>2. ~Removing(rCalls'[q], rForm.pending.id)
    BY <1>2, <1>3, <2>1 DEF Removing
  <2> QED BY <1>6, <2>1, <2>2, RepoOps DEF Removing
<1> QED BY <1>11, <1>12, <1>13, <1>14 DEF ListSound

-----------------------------------------------------------------------------
(* Records: the answers keep the list sound.                               *)

\* An answer after which the list and the active repository are as they were.
LEMMA DoneListed ==
    ASSUME Base, ListSound, Base', NEW q \in R!Slots, NEW c, c = rCalls[q], c # None,
           rCalls' = R!Done(q), c.op \in Adds \union {"removeRepo"} => c.at # "written",
           file'.r = file.r, known'.r = known.r, repo' = repo,
           known'.error = known.error, KeepsForm(rForm, rForm')
    PROVE  ListSound'
<1>1. rCalls'[q] = None /\ Turns(rCalls, rCalls', q, FALSE)
  BY DoneTurns DEF Base, RecordsTyped
<1>2. GoesOn(rCalls[q], rCalls'[q])
  BY <1>1 DEF GoesOn
<1> QED BY <1>1, <1>2, AlikeListed

LEMMA ToldListed ==
    ASSUME Base, ListSound, Base', NEW q \in R!Slots,
           R!Created(q) \/ R!Updated(q) \/ R!ProfilesListed(q) \/ R!ActiveSet(q)
    PROVE  ListSound'
<1>1. PICK c : c = rCalls[q]
  OBVIOUS
<1>2. /\ c # None /\ c.op \notin R!OnRepos
      /\ \/ known' = [known EXCEPT !.p[c.id] = c.p[c.id]]
         \/ known' = [known EXCEPT !.p[c.id] = IF @ = None THEN @ ELSE c.p[c.id]]
         \/ known' = [known EXCEPT !.p = c.p, !.active = c.active, !.loading = FALSE]
         \/ known' = [known EXCEPT !.active = IF c.old THEN @ ELSE c.to]
      /\ file' = file \/ file' = [file EXCEPT !.active = c.to]
      /\ rCalls' = R!Done(q) /\ UNCHANGED <<repo, rForm>>
  BY <1>1, OpsApart DEF R!Created, R!Updated, R!ProfilesListed, R!ActiveSet, R!At
<1>3. known'.r = known.r /\ known'.error = known.error /\ file'.r = file.r
  BY <1>2 DEF Base, RecordsTyped, KnownState, FileState
<1>4. c.op \notin Adds \union {"removeRepo"}
  BY <1>2, OpsApart, RepoOps
<1>5. KeepsForm(rForm, rForm')
  BY <1>2 DEF KeepsForm
<1> QED BY <1>1, <1>2, <1>3, <1>4, <1>5, DoneListed

\* A call fails before it has written.
LEMMA FailListed ==
    ASSUME Base, ListSound, Base', NEW q \in R!Slots, R!Fail(q)  PROVE ListSound'
<1>1. PICK c : /\ c = rCalls[q] /\ c # None /\ c.at = "asked"
               /\ rCalls' = R!Done(q) /\ UNCHANGED <<file, known, repo>>
               /\ \/ rForm' = rForm
                  \/ rForm' = [rForm EXCEPT !.init = FALSE]
                  \/ rForm' = [rForm EXCEPT !.saving = FALSE, !.eligible = @ \/ c.op = "createRepo"]
  BY DEF R!Fail
<1>2. rForm'.mode = rForm.mode /\ rForm'.pending = rForm.pending
  BY <1>1 DEF Base, RecordsTyped, R!RepoForm
<1>3. KeepsForm(rForm, rForm')
  BY <1>2 DEF KeepsForm
<1> QED BY <1>1, <1>3, DoneListed

\* A new list comes: nothing is being added or removed then.
LEMMA RelistedListed ==
    ASSUME Base, ListSound, Base', NEW q \in R!Slots, NEW c, c = rCalls[q], c # None,
           rCalls' = R!Done(q), c.op \notin R!OnRepos,
           \A x \in R!Slots \ {q} : rCalls[x] # None => rCalls[x].op \notin R!OnRepos,
           NEW ok \in BOOLEAN, known'.r = IF ok THEN file.r ELSE known.r,
           ~ok => known'.error, UNCHANGED <<file, repo, rForm>>
    PROVE  ListSound'
<1>1. rCalls'[q] = None /\ Turns(rCalls, rCalls', q, FALSE)
  BY DoneTurns DEF Base, RecordsTyped
<1>2. GoesOn(rCalls[q], rCalls'[q])
  BY <1>1, RepoOps DEF GoesOn
<1>3. KeepsForm(rForm, rForm')
  BY DEF KeepsForm
<1>4. CASE ~ok
  <2>1. SameListed(known, file, known', file') /\ known'.error
    BY <1>4 DEF SameListed
  <2>2. repo' # None => repo # None /\ repo'.id = repo.id
    OBVIOUS
  <2> QED BY <1>1, <1>2, <1>3, <2>1, <2>2, ListedKept
<1>5. CASE ok
  <2>1. known'.r = file.r
    BY <1>5
  <2>2. /\ \A z \in R!Slots : \A x : ~Removing(rCalls[z], x)
        /\ \A z \in R!Slots : \A x : ~Adding(rCalls'[z], x) /\ ~Removing(rCalls'[z], x)
    <3>1. \A z \in R!Slots : rCalls[z] # None => rCalls[z].op \notin R!OnRepos
      OBVIOUS
    <3>2. \A z \in R!Slots : rCalls'[z] # None => rCalls'[z].op \notin R!OnRepos
      BY <1>1 DEF Turns, Like
    <3> QED BY <3>1, <3>2, RepoOps DEF Adding, Removing
  <2>3. BehindList(rCalls', known', file') /\ AddsUnlisted(rCalls', known', file', repo')
        /\ ActiveListed(rCalls', known', file', repo')
    BY <2>1, <2>2 DEF BehindList, AddsUnlisted, ActiveListed
  <2>4. PendingListed(rCalls', known', rForm')
    <3> SUFFICES ASSUME rForm.mode = "add", rForm.pending # None
                 PROVE  known'.r[rForm.pending.id] # None
      BY <2>2 DEF PendingListed
    <3>1. rForm.pending.id \in Repos
      BY DEF Base, RecordsTyped, R!Maybe, R!Record, R!RepoForm
    <3>2. known.r[rForm.pending.id] # None
      BY DEF ListSound, PendingListed
    <3> QED BY <2>1, <2>2, <3>1, <3>2 DEF ListSound, BehindList
  <2> QED BY <2>3, <2>4 DEF ListSound
<1> QED BY <1>4, <1>5

LEMMA ReposListedListed ==
    ASSUME Base, Steady, ListSound, Base', NEW q \in R!Slots, NEW ok \in BOOLEAN,
           R!ReposListed(q, ok)
    PROVE  ListSound'
<1>1. PICK c : /\ c = rCalls[q] /\ c # None /\ c.op = "loadRepos" /\ c.at = "read"
               /\ known' = [known EXCEPT !.r = IF ok THEN c.r ELSE @, !.error = ~ok]
               /\ rCalls' = R!Done(q) /\ UNCHANGED <<file, repo, rForm>>
  BY DEF R!ReposListed, R!At
<1>2. /\ FreshCall(c, file)
      /\ \A x \in R!Slots \ {q} : rCalls[x] # None => Beside(c.op, rCalls[x].op)
  BY <1>1, OthersBeside
<1>3. c.op \in OnR /\ c.op \notin R!OnRepos
  BY <1>1, OpsApart DEF OnR
<1>4. c.r = file.r /\ \A x \in R!Slots \ {q} : rCalls[x] # None => rCalls[x].op \notin R!OnRepos
  BY <1>1, <1>2, <1>3 DEF FreshCall, Beside
<1>5. known'.r = (IF ok THEN file.r ELSE known.r) /\ (~ok => known'.error)
  BY <1>1, <1>4 DEF Base, RecordsTyped, KnownState
<1> QED BY <1>1, <1>3, <1>4, <1>5, RelistedListed

LEMMA DeleteEndsListed ==
    ASSUME Base, Steady, ListSound, Base', NEW q \in R!Slots, NEW ok \in BOOLEAN,
           R!DeleteEnds(q, ok)
    PROVE  ListSound'
<1>1. PICK c : /\ c = rCalls[q] /\ c # None /\ c.op = "deleteProfile" /\ c.at = "listing"
               /\ known' = [known EXCEPT !.r = IF ok THEN c.r ELSE @, !.error = ~ok]
               /\ rCalls' = R!Done(q) /\ UNCHANGED <<file, repo, rForm>>
  BY DEF R!DeleteEnds, R!At
<1>2. /\ FreshCall(c, file)
      /\ \A x \in R!Slots \ {q} : rCalls[x] # None => Beside(c.op, rCalls[x].op)
  BY <1>1, OthersBeside
<1>3. c.op \notin R!OnRepos
  BY <1>1, OpsApart
<1>4. c.r = file.r /\ \A x \in R!Slots \ {q} : rCalls[x] # None => rCalls[x].op \notin R!OnRepos
  BY <1>1, <1>2 DEF FreshCall, Beside
<1>5. known'.r = (IF ok THEN file.r ELSE known.r) /\ (~ok => known'.error)
  BY <1>1, <1>4 DEF Base, RecordsTyped, KnownState
<1> QED BY <1>1, <1>3, <1>4, <1>5, RelistedListed

LEMMA RemovedListed ==
    ASSUME Base, Steady, ListSound, Base', NEW q \in R!Slots, R!Removed(q)  PROVE ListSound'
<1>1. PICK c : /\ c = rCalls[q] /\ c # None /\ c.op = "removeRepo" /\ c.at = "written"
               /\ known' = [known EXCEPT !.r[c.id] = None]
               /\ rForm' = (IF c.here THEN R!Deselected ELSE rForm)
               /\ rCalls' = R!Done(q) /\ UNCHANGED <<file, repo>>
  BY DEF R!Removed, R!At
<1>2. /\ c \in R!Call /\ Shaped(c) /\ FreshCall(c, file)
      /\ \A x \in R!Slots \ {q} : rCalls[x] # None => Beside(c.op, rCalls[x].op)
  BY <1>1, OthersBeside
<1>3. c.op \in R!OnRepos /\ c.id \in Repos /\ file.r[c.id] = None
  BY <1>1, <1>2, OpsApart DEF Shaped, FreshCall
<1>4. rCalls'[q] = None /\ Turns(rCalls, rCalls', q, FALSE)
  BY <1>1, DoneTurns DEF Base, RecordsTyped
<1>5. \A x \in R!Slots \ {q} : rCalls[x] # None => rCalls[x].op \notin R!OnRepos
  BY <1>2, <1>3, RepoOps DEF Beside
<1>6. /\ \A z \in R!Slots \ {q} : \A x : ~Removing(rCalls[z], x)
      /\ \A z \in R!Slots : \A x : ~Adding(rCalls[z], x)
      /\ \A z \in R!Slots : \A x : ~Adding(rCalls'[z], x) /\ ~Removing(rCalls'[z], x)
  <2>1. \A z \in R!Slots : rCalls'[z] # None => rCalls'[z].op \notin R!OnRepos
    BY <1>4, <1>5 DEF Turns, Like
  <2>2. c.op \notin Adds
    BY <1>1 DEF Adds
  <2> QED BY <1>1, <1>5, <2>1, <2>2, RepoOps DEF Adding, Removing
<1>7. known'.r[c.id] = None /\ \A x \in Repos \ {c.id} : known'.r[x] = known.r[x]
  BY <1>1, <1>3 DEF Base, RecordsTyped, KnownState, R!ReposFile
<1>8. BehindList(rCalls', known', file')
  <2> SUFFICES ASSUME NEW x \in Repos, known'.r[x] # None, file.r[x] = None  PROVE FALSE
    BY <1>1 DEF BehindList
  <2>1. x # c.id /\ known.r[x] # None
    BY <1>7
  <2>2. PICK z \in R!Slots : Removing(rCalls[z], x)
    BY <2>1 DEF ListSound, BehindList
  <2> QED BY <1>1, <1>6, <2>1, <2>2 DEF Removing
<1>9. AddsUnlisted(rCalls', known', file', repo')
  BY <1>6 DEF AddsUnlisted
<1>10. ActiveListed(rCalls', known', file', repo')
  <2> SUFFICES ASSUME repo # None  PROVE known'.r[repo.id] # None \/ file.r[repo.id] = None
    BY <1>1 DEF ActiveListed
  <2>1. repo.id \in Repos
    BY DEF Base, RecordsTyped, R!Maybe, R!Record
  <2>2. known.r[repo.id] # None \/ file.r[repo.id] = None
    BY <1>6 DEF ListSound, ActiveListed
  <2> QED BY <1>3, <1>7, <2>1, <2>2
<1>11. PendingListed(rCalls', known', rForm')
  <2> SUFFICES ASSUME rForm'.mode = "add", rForm'.pending # None
               PROVE  known'.r[rForm'.pending.id] # None
    BY <1>6 DEF PendingListed
  <2>1. rForm' = rForm
    BY <1>1 DEF R!Deselected, Base, RecordsTyped, R!RepoForm
  <2>2. rForm.pending.id \in Repos
    BY <2>1 DEF Base, RecordsTyped, R!Maybe, R!Record, R!RepoForm
  <2>3. known.r[rForm.pending.id] # None /\ ~Removing(rCalls[q], rForm.pending.id)
    BY <2>1 DEF ListSound, PendingListed
  <2>4. rForm.pending.id # c.id
    BY <1>1, <2>3 DEF Removing
  <2> QED BY <1>7, <2>1, <2>2, <2>3, <2>4
<1> QED BY <1>8, <1>9, <1>10, <1>11 DEF ListSound

-----------------------------------------------------------------------------
(* Records: what is recorded, chosen or asked for keeps the list sound.    *)

\* A record is answered and listed, and the repository may become the active one.
LEMMA AnsweredListed ==
    ASSUME Base, Steady, ListSound, Base', NEW q \in R!Slots, NEW c, c = rCalls[q], c # None,
           c.op \in {"createRepo", "initRepo", "updateRepo"}, c.at = "written",
           NEW rec, rec = [id |-> c.id, to |-> c.to],
           (rCalls' = R!Done(q) /\ repo' = repo) \/ Settles(rec, q), file' = file,
           known'.r[c.id] # None, \A x \in Repos \ {c.id} : known'.r[x] = known.r[x],
           rForm'.mode = "add" /\ rForm'.pending # None =>
               (rForm.mode = "add" /\ rForm'.pending = rForm.pending) \/ rForm'.pending = rec
    PROVE  ListSound'
<1>1. c.op \in R!OnRepos /\ c.id \in Repos /\ file.r[c.id] # None /\ rec.id = c.id
  BY RecordAnswered
<1>2. /\ rCalls'[q] # None => rCalls'[q].op = "setActive"
      /\ \A x \in R!Slots \ {q} : Like(rCalls[x], rCalls'[x])
      /\ repo' = repo \/ repo' = rec
  BY DoneTurns DEF Settles, Turns, Base, RecordsTyped
<1>3. \A x \in R!Slots \ {q} : rCalls[x] # None => rCalls[x].op \notin R!OnRepos
  BY <1>1, OthersBeside, RepoOps DEF Beside
<1>4. /\ \A z \in R!Slots : \A x : ~Removing(rCalls[z], x)
      /\ \A z \in R!Slots : \A x : Adding(rCalls[z], x) => x = c.id
      /\ \A z \in R!Slots : \A x : ~Adding(rCalls'[z], x) /\ ~Removing(rCalls'[z], x)
  <2>1. "removeRepo" \in R!OnRepos /\ "setActive" \notin R!OnRepos
    BY OpsApart
  <2>2. \A z \in R!Slots : rCalls'[z] # None => rCalls'[z].op \notin R!OnRepos
    BY <1>2, <1>3, <2>1 DEF Like
  <2> QED BY <1>3, <2>1, <2>2, RepoOps DEF Adding, Removing
<1>5. \A x \in Repos : known.r[x] # None => known'.r[x] # None
  OBVIOUS
<1>6. BehindList(rCalls', known', file')
  BY <1>1, <1>4 DEF ListSound, BehindList
<1>7. AddsUnlisted(rCalls', known', file', repo')
  BY <1>4 DEF AddsUnlisted
<1>8. ActiveListed(rCalls', known', file', repo')
  <2> SUFFICES ASSUME repo' # None  PROVE known'.r[repo'.id] # None \/ file.r[repo'.id] = None
    BY DEF ActiveListed
  <2>1. CASE repo' = rec
    BY <1>1, <2>1
  <2>2. CASE repo' = repo
    <3>1. repo.id \in Repos
      BY <2>2 DEF Base, RecordsTyped, R!Maybe, R!Record
    <3>2. \/ known.r[repo.id] # None \/ file.r[repo.id] = None
          \/ \E z \in R!Slots : Adding(rCalls[z], repo.id)
      BY <2>2 DEF ListSound, ActiveListed
    <3> QED BY <1>4, <1>5, <2>2, <3>1, <3>2
  <2> QED BY <1>2, <2>1, <2>2
<1>9. PendingListed(rCalls', known', rForm')
  <2> SUFFICES ASSUME rForm'.mode = "add", rForm'.pending # None
               PROVE  known'.r[rForm'.pending.id] # None
    BY <1>4 DEF PendingListed
  <2>1. CASE rForm'.pending = rec
    BY <1>1, <2>1
  <2>2. CASE rForm.mode = "add" /\ rForm'.pending = rForm.pending
    <3>1. rForm.pending.id \in Repos
      BY <2>2 DEF Base, RecordsTyped, R!Maybe, R!Record, R!RepoForm
    <3>2. known.r[rForm.pending.id] # None
      BY <2>2 DEF ListSound, PendingListed
    <3> QED BY <1>5, <2>2, <3>1, <3>2
  <2> QED BY <2>1, <2>2
<1> QED BY <1>6, <1>7, <1>8, <1>9 DEF ListSound

LEMMA AddedListed ==
    ASSUME Base, Steady, ListSound, Base', NEW q \in R!Slots, R!Added(q)  PROVE ListSound'
<1>1. PICK c, rec : /\ c = rCalls[q] /\ c # None /\ c.op = "createRepo" /\ c.at = "written"
                    /\ rec = [id |-> c.id, to |-> c.to]
                    /\ known' = [known EXCEPT !.r[c.id] = rec] /\ UNCHANGED file
                    /\ R!SetActiveRepo(rec, R!Done(q), q, known.p, known.active)
                    /\ rForm' = rForm \/ rForm' = [R!FormOf(rec) EXCEPT !.saving = FALSE]
  BY DEF R!Added, R!At
<1>2. rec \in R!Maybe(R!Record) /\ rec # None /\ c.id \in Repos
  BY <1>1, RecordAnswered
<1>3. Settles(rec, q)
  BY <1>1, <1>2, SettlesFromDone DEF Base
<1>4. known'.r[c.id] # None /\ \A x \in Repos \ {c.id} : known'.r[x] = known.r[x]
  BY <1>1, <1>2 DEF Base, RecordsTyped, KnownState, R!ReposFile
<1>5. rForm'.mode = "add" => rForm.mode = "add" /\ rForm'.pending = rForm.pending
  BY <1>1 DEF R!FormOf, Base, RecordsTyped, R!RepoForm
<1> QED BY <1>1, <1>3, <1>4, <1>5, AnsweredListed

LEMMA InitializedListed ==
    ASSUME Base, Steady, ListSound, Base', NEW q \in R!Slots, NEW remote \in BOOLEAN,
           R!Initialized(q, remote)
    PROVE  ListSound'
<1>0. PICK c, rec : /\ c = rCalls[q] /\ rec = [id |-> c.id, to |-> c.to]
  OBVIOUS
<1>1. /\ c = rCalls[q] /\ c # None /\ c.op = "initRepo" /\ c.at = "written"
      /\ rec = [id |-> c.id, to |-> c.to]
      /\ known' = [known EXCEPT !.r[c.id] = rec] /\ UNCHANGED file
      /\ \/ /\ R!SetActiveRepo(rec, [R!Unmounted EXCEPT ![q] = None], q, known.p, known.active)
            /\ rForm' = R!NoRepoForm
         \/ /\ rCalls' = R!Done(q) /\ UNCHANGED repo
            /\ rForm' = rForm \/ rForm' = [rForm EXCEPT !.pending = rec, !.init = FALSE]
  <2>1. CASE remote
    BY <1>0, <2>1 DEF R!Initialized, R!At, R!FinishInit
  <2>2. CASE ~remote
    BY <1>0, <2>2 DEF R!Initialized, R!At
  <2> QED BY <2>1, <2>2
<1>2. rec \in R!Maybe(R!Record) /\ rec # None /\ c.id \in Repos
  BY <1>1, RecordAnswered
<1>3. (rCalls' = R!Done(q) /\ repo' = repo) \/ Settles(rec, q)
  BY <1>1, <1>2, SettlesFromUnmounted DEF Base
<1>4. known'.r[c.id] # None /\ \A x \in Repos \ {c.id} : known'.r[x] = known.r[x]
  BY <1>1, <1>2 DEF Base, RecordsTyped, KnownState, R!ReposFile
<1>5. ASSUME rForm'.mode = "add", rForm'.pending # None
      PROVE  (rForm.mode = "add" /\ rForm'.pending = rForm.pending) \/ rForm'.pending = rec
  <2>1. rForm' # R!NoRepoForm
    BY <1>5 DEF R!NoRepoForm
  <2>2. CASE rForm' = rForm
    BY <1>5, <2>2
  <2>3. CASE rForm' = [rForm EXCEPT !.pending = rec, !.init = FALSE]
    BY <2>3 DEF Base, RecordsTyped, R!RepoForm
  <2> QED BY <1>1, <2>1, <2>2, <2>3
<1> QED BY <1>1, <1>3, <1>4, <1>5, AnsweredListed

LEMMA RepoSavedListed ==
    ASSUME Base, Steady, ListSound, Base', NEW q \in R!Slots, R!RepoSaved(q)  PROVE ListSound'
<1>1. PICK c, rec : /\ c = rCalls[q] /\ c # None /\ c.op = "updateRepo" /\ c.at = "written"
                    /\ rec = [id |-> c.id, to |-> c.to]
                    /\ known' = [known EXCEPT !.r[c.id] = IF @ = None THEN @ ELSE rec]
                    /\ UNCHANGED file /\ rForm' = R!Saved(rForm, c)
                    /\ \/ R!SetActiveRepo(rec, R!Done(q), q, known.p, known.active)
                       \/ rCalls' = R!Done(q) /\ UNCHANGED repo
  BY DEF R!RepoSaved, R!At
<1>2. rec \in R!Maybe(R!Record) /\ rec # None /\ c.id \in Repos /\ known.r[c.id] # None
  BY <1>1, RecordAnswered
<1>3. (rCalls' = R!Done(q) /\ repo' = repo) \/ Settles(rec, q)
  BY <1>1, <1>2, SettlesFromDone DEF Base
<1>4. known'.r[c.id] # None /\ \A x \in Repos \ {c.id} : known'.r[x] = known.r[x]
  BY <1>1, <1>2 DEF Base, RecordsTyped, KnownState, R!ReposFile
<1>5. rForm'.mode = "add" => rForm.mode = "add" /\ rForm'.pending = rForm.pending
  BY <1>1 DEF R!Saved, Base, RecordsTyped, R!RepoForm
<1> QED BY <1>1, <1>3, <1>4, <1>5, AnsweredListed

LEMMA ShownListed == ASSUME Base, ListSound, Base', Shows  PROVE ListSound'
<1>1. UNCHANGED <<file, known, repo>>
  BY ShowsIs
<1>2. rCalls' = rCalls \/ rCalls' \in {R!Unmounted, R!Moved(rCalls)}
  BY ShowsIs
<1>3. \/ rForm' = rForm \/ rForm' = R!NoRepoForm
      \/ rForm' = [rForm EXCEPT !.mode = "add", !.selected = None, !.eligible = FALSE, !.pending = None]
      \/ rForm' = [rForm EXCEPT !.mode = "idle"]
  BY DEF Shows, R!Navigate, R!SelectProfile, R!StartCreate, R!Connect, R!StartAdd, R!CancelAdd,
         R!FollowSelection
<1>4. KeepsForm(rForm, rForm')
  <2>1. rForm' = R!NoRepoForm => rForm'.mode = "idle"
    BY DEF R!NoRepoForm
  <2>2. rForm' = rForm \/ rForm'.mode = "idle" \/ rForm'.pending = None
    BY <1>3, <2>1 DEF Base, RecordsTyped, R!RepoForm
  <2> QED BY <2>2 DEF KeepsForm
<1>5. PICK q \in R!Slots : q = 1
  BY RecordsAssumption, BoundsAssumption DEF R!Slots
<1>6. Turns(rCalls, rCalls', q, FALSE) /\ Like(rCalls[q], rCalls'[q])
  <2>1. CASE rCalls' = rCalls
    BY <2>1 DEF Turns, Like, Base, RecordsTyped, GoodRecordCalls, GoodSlot, R!Call
  <2>2. CASE rCalls' \in {R!Unmounted, R!Moved(rCalls)}
    BY <2>2, FlagsTurn DEF Base, RecordsTyped
  <2> QED BY <1>2, <2>1, <2>2
<1>7. GoesOn(rCalls[q], rCalls'[q])
  BY <1>6 DEF Like, GoesOn
<1> QED BY <1>1, <1>4, <1>6, <1>7, AlikeListed

\* A repository of the list, or the one just initialised, becomes the active one.
LEMMA ChosenListed ==
    ASSUME Base, ListSound, Base', NEW q \in R!Slots, NEW rec, rCalls[q] = None, Settles(rec, q),
           UNCHANGED <<file, known>>, rec # None => known.r[rec.id] # None,
           KeepsForm(rForm, rForm')
    PROVE  ListSound'
<1>1. /\ rCalls'[q] # None => rCalls'[q].op = "setActive"
      /\ \E new : Turns(rCalls, rCalls', q, new)
      /\ repo' = rec
  BY DEF Settles
<1>2. GoesOn(rCalls[q], rCalls'[q])
  BY <1>1, RepoOps, OtherGoesOn
<1>3. SameListed(known, file, known', file')
  BY DEF SameListed
<1> QED BY <1>1, <1>2, <1>3, ListedKept

LEMMA FiledUnderItsId ==
    ASSUME Base, NEW r \in Repos, known.r[r] # None  PROVE known.r[r].id = r
BY DEF Base, RecordsTyped, KnownState, R!ReposFile

LEMMA ChoiceListed == ASSUME Base, ListSound, Base', Picks  PROVE ListSound'
<1>1. CASE \E r \in Repos : R!PickRepo(r)
  <2>1. PICK r \in Repos : R!PickRepo(r)
    BY <1>1
  <2>2. known.r[r] # None => known.r[r].id = r
    BY FiledUnderItsId
  <2>3. KeepsForm(rForm, rForm')
    BY <2>1 DEF R!PickRepo, KeepsForm
  <2> QED BY <2>1, <2>2, <2>3, PickRepoSettles, ChosenListed DEF Base
<1>2. CASE \E r \in Repos : R!SelectRepo(r)
  <2>1. PICK r \in Repos : R!SelectRepo(r)
    BY <1>2
  <2>2. known.r[r] # None => known.r[r].id = r
    BY FiledUnderItsId
  <2>3. rForm' = R!FormOf(known.r[r])
    BY <2>1 DEF R!SelectRepo
  <2>4. KeepsForm(rForm, rForm')
    BY <2>3 DEF R!FormOf, KeepsForm, Base, RecordsTyped, R!RepoForm
  <2> QED BY <2>1, <2>2, <2>4, SelectRepoSettles, ChosenListed DEF Base
<1>3. CASE R!ContinueInit
  <2>1. rForm.mode = "add" /\ rForm.pending # None /\ rForm' = R!NoRepoForm
    BY <1>3 DEF R!ContinueInit, R!FinishInit
  <2>2. known.r[rForm.pending.id] # None
    BY <2>1 DEF ListSound, PendingListed
  <2>3. KeepsForm(rForm, rForm')
    BY <2>1 DEF R!NoRepoForm, KeepsForm
  <2> QED BY <1>3, <2>2, <2>3, ContinueInitSettles, ChosenListed DEF Base
<1>4. CASE R!AutoSelect
  <2>1. PICK rec, q : /\ q \in R!Slots /\ rCalls[q] = None /\ Settles(rec, q)
                      /\ UNCHANGED <<file, known>>
                      /\ rec = None \/ \E r \in Repos : rec = known.r[r]
    BY <1>4, AutoSelectSettles DEF Base
  <2>2. rec # None => known.r[rec.id] # None
    BY <2>1, FiledUnderItsId
  <2>3. KeepsForm(rForm, rForm')
    BY <1>4 DEF R!AutoSelect, KeepsForm
  <2> QED BY <2>1, <2>2, <2>3, ChosenListed
<1> QED BY <1>1, <1>2, <1>3, <1>4 DEF Picks

-----------------------------------------------------------------------------
(* Records: the calls asked for, and the start, keep the list sound.       *)

\* A call is asked for; what is to be added is neither listed nor recorded.
LEMMA AskedListed ==
    ASSUME Base, ListSound, Base', NEW c, Requests(c),
           known'.r = known.r, known'.error = known.error, file'.r = file.r, repo' = repo,
           c.op \in Adds \union {"removeRepo"} =>
               ~(rForm'.mode = "add" /\ rForm'.pending # None),
           c.op \in Adds => /\ known.r[c.id] = None /\ file.r[c.id] = None
                            /\ repo # None /\ repo.id = c.id => known.error,
           KeepsForm(rForm, rForm')
    PROVE  ListSound'
<1>1. PICK q \in R!Slots : AsksFor(q, c)
  BY DEF Requests
<1>2. rCalls[q] = None /\ rCalls'[q] = c /\ Turns(rCalls, rCalls', q, c.op = "setActive")
  BY <1>1, RequestTurns DEF Base, RecordsTyped
<1>3. CASE c.op \notin Adds \union {"removeRepo"}
  <2>1. GoesOn(rCalls[q], rCalls'[q])
    BY <1>2, <1>3, RepoOps, OtherGoesOn DEF NotListing
  <2> QED BY <1>2, <2>1, AlikeListed
<1>4. CASE c.op \in Adds \union {"removeRepo"}
  <2>1. \A z \in R!Slots \ {q} : Like(rCalls[z], rCalls'[z])
    BY <1>2 DEF Turns
  <2>2. /\ \A z \in R!Slots : \A x : Adding(rCalls[z], x) => Adding(rCalls'[z], x)
        /\ \A z \in R!Slots : \A x : Removing(rCalls[z], x) /\ rCalls[z].at = "written" =>
                                     Removing(rCalls'[z], x) /\ rCalls'[z].at = "written"
        /\ \A z \in R!Slots \ {q} : \A x : Adding(rCalls'[z], x) =>
               Adding(rCalls[z], x) /\ rCalls[z].at = rCalls'[z].at
    BY <1>2, <2>1 DEF Like, Adding, Removing
  <2>3. BehindList(rCalls', known', file')
    BY <2>2 DEF ListSound, BehindList
  <2>4. AddsUnlisted(rCalls', known', file', repo')
    <3> SUFFICES ASSUME NEW z \in R!Slots, NEW x \in Repos, Adding(rCalls'[z], x)
                 PROVE  /\ known.r[x] = None
                        /\ rCalls'[z].at # "written" => file.r[x] = None
                        /\ repo # None /\ repo.id = x => known.error
      BY DEF AddsUnlisted
    <3>1. CASE z = q
      BY <1>2, <3>1 DEF Adding
    <3>2. CASE z # q
      BY <2>2, <3>2 DEF ListSound, AddsUnlisted
    <3> QED BY <3>1, <3>2
  <2>5. ActiveListed(rCalls', known', file', repo')
    BY <2>2 DEF ListSound, ActiveListed
  <2>6. PendingListed(rCalls', known', rForm')
    BY <1>4 DEF PendingListed
  <2> QED BY <2>3, <2>4, <2>5, <2>6 DEF ListSound
<1> QED BY <1>3, <1>4

LEMMA SubmitListed ==
    ASSUME Base, ListSound, Base', \/ \E op \in R!OnProfiles : R!Submit(op)
                                   \/ \E p \in Profiles : R!SetActive(p)
    PROVE  ListSound'
<1>1. PICK c : Requests(c) /\ c.op \in R!OnProfiles \union {"setActive"}
  BY SubmitAsks, SetActiveAsks DEF Base
<1>2. c.op \notin Adds \union {"removeRepo"}
  BY <1>1, OpsApart, RepoOps
<1>3. UNCHANGED <<file, known, repo, rForm>>
  BY DEF R!Submit, R!SetActive, R!Store
<1>4. KeepsForm(rForm, rForm')
  BY <1>3 DEF KeepsForm
<1> QED BY <1>1, <1>2, <1>3, <1>4, AskedListed

LEMMA AuthorizedListed ==
    ASSUME Base, ListSound, Base', R!Authorized  PROVE ListSound'
<1>1. PICK c : Requests(c) /\ c.op = "authorized"
  BY AuthorizedAsks DEF Base
<1>2. c.op \notin Adds \union {"removeRepo"}
  BY <1>1 DEF Adds
<1>3. UNCHANGED <<known, repo, rForm>> /\ file' = [file EXCEPT !.p[selected].linked = TRUE]
  BY DEF R!Authorized
<1>4. file'.r = file.r
  BY <1>3 DEF Base, RecordsTyped, FileState
<1>5. KeepsForm(rForm, rForm')
  BY <1>3 DEF KeepsForm
<1> QED BY <1>1, <1>2, <1>3, <1>4, <1>5, AskedListed

LEMMA CloseModalListed ==
    ASSUME Base, ListSound, Base', R!CloseModal  PROVE ListSound'
<1>1. PICK c : Requests(c) /\ c.op = "loadProfiles"
  BY CloseModalAsks DEF Base
<1>2. c.op \notin Adds \union {"removeRepo"}
  BY <1>1 DEF Adds
<1>3. UNCHANGED <<file, repo, rForm>> /\ known' = [known EXCEPT !.loading = TRUE]
  BY DEF R!CloseModal
<1>4. known'.r = known.r /\ known'.error = known.error
  BY <1>3 DEF Base, RecordsTyped, KnownState
<1>5. KeepsForm(rForm, rForm')
  BY <1>3 DEF KeepsForm
<1> QED BY <1>1, <1>2, <1>3, <1>4, <1>5, AskedListed

\* What no call is about and no record holds is not listed either.
LEMMA AbsentUnlisted ==
    ASSUME Base, ListSound, NEW r \in Repos, R!Absent(r), R!Act
    PROVE  /\ known.r[r] = None /\ file.r[r] = None
           /\ repo # None /\ repo.id = r => known.error
<1>1. file.r[r] = None /\ \A q \in R!Slots : rCalls[q] # None => rCalls[q].id # r
  BY DEF R!Absent, R!Pending
<1>2. known.r[r] = None
  BY <1>1 DEF ListSound, BehindList, Removing
<1>3. repo # None /\ repo.id = r => known.error
  BY <1>2 DEF R!Act, R!AutoSelectDue, R!InList
<1> QED BY <1>1, <1>2, <1>3

LEMMA AddRepoListed ==
    ASSUME Base, ListSound, Base', NEW r \in Repos, R!AddRepo(r)  PROVE ListSound'
<1>1. PICK c : Requests(c) /\ c.op = "createRepo" /\ c.id = r
  BY AddRepoAsks DEF Base
<1>2. /\ UNCHANGED <<file, known, repo>> /\ R!Absent(r) /\ R!Act
      /\ rForm' = [rForm EXCEPT !.saving = TRUE, !.eligible = FALSE, !.pending = None]
  BY DEF R!AddRepo, R!Store, R!OnScreen
<1>3. rForm'.pending = None
  BY <1>2 DEF Base, RecordsTyped, R!RepoForm
<1>4. KeepsForm(rForm, rForm')
  BY <1>3 DEF KeepsForm
<1> QED BY <1>1, <1>2, <1>3, <1>4, AbsentUnlisted, AskedListed

LEMMA InitRepoListed ==
    ASSUME Base, ListSound, Base', NEW r \in Repos, R!InitRepo(r)  PROVE ListSound'
<1>1. PICK c : Requests(c) /\ c.op = "initRepo" /\ c.id = r
  BY InitRepoAsks DEF Base
<1>2. /\ UNCHANGED <<file, known, repo>> /\ R!Absent(r) /\ R!Act
      /\ rForm' = [rForm EXCEPT !.init = TRUE] /\ rForm.pending = None
  BY DEF R!InitRepo, R!InitOffered, R!Store, R!OnScreen
<1>3. rForm'.pending = None
  BY <1>2 DEF Base, RecordsTyped, R!RepoForm
<1>4. KeepsForm(rForm, rForm')
  BY <1>3 DEF KeepsForm
<1> QED BY <1>1, <1>2, <1>3, <1>4, AbsentUnlisted, AskedListed

LEMMA RemoveRepoListed ==
    ASSUME Base, ListSound, Base', R!RemoveRepo  PROVE ListSound'
<1>1. PICK c : Requests(c) /\ c.op = "removeRepo"
  BY RemoveRepoAsks DEF Base
<1>2. /\ UNCHANGED <<file, known, repo>> /\ rForm.mode = "edit"
      /\ rForm' = [rForm EXCEPT !.saving = TRUE]
  BY DEF R!RemoveRepo, R!SaveOffered, R!Store
<1>3. rForm'.mode = "edit"
  BY <1>2 DEF Base, RecordsTyped, R!RepoForm
<1>4. KeepsForm(rForm, rForm') /\ c.op \notin Adds
  BY <1>1, <1>3 DEF KeepsForm, Adds
<1> QED BY <1>1, <1>2, <1>3, <1>4, AskedListed

LEMMA SaveRepoListed ==
    ASSUME Base, ListSound, Base', NEW p \in R!Maybe(Profiles), R!SaveRepo(p)  PROVE ListSound'
<1>1. PICK c : /\ c # None /\ c.op = "updateRepo"
               /\ \E q \in R!Slots : rCalls[q] = None /\ rCalls' = [rCalls EXCEPT ![q] = c]
  BY SaveRepoAsks DEF Base
<1>2. PICK q \in R!Slots : rCalls[q] = None /\ rCalls' = [rCalls EXCEPT ![q] = c]
  BY <1>1
<1>3. rCalls'[q] = c /\ Turns(rCalls, rCalls', q, FALSE)
  BY <1>2, SetTurns DEF Base, RecordsTyped
<1>4. NotListing(c) /\ NotListing(None)
  BY <1>1 DEF NotListing, Adds
<1>5. GoesOn(rCalls[q], rCalls'[q])
  BY <1>2, <1>3, <1>4, OtherGoesOn
<1>6. /\ UNCHANGED <<file, known, repo>> /\ rForm.mode = "edit"
      /\ rForm' = [rForm EXCEPT !.saving = TRUE, !.to = p]
  BY DEF R!SaveRepo, R!SaveOffered, R!Store
<1>7. rForm'.mode = "edit"
  BY <1>6 DEF Base, RecordsTyped, R!RepoForm
<1>8. KeepsForm(rForm, rForm')
  BY <1>7 DEF KeepsForm
<1> QED BY <1>3, <1>5, <1>6, <1>8, AlikeListed

\* At the start the lists are empty and asked for, and nothing is active.
LEMMA StartListed ==
    ASSUME NEW cs, cs = R!Loads, NEW k, k = R!NoneKnown, NEW f, NEW form, form = R!NoRepoForm
    PROVE  /\ BehindList(cs, k, f) /\ AddsUnlisted(cs, k, f, None)
           /\ ActiveListed(cs, k, f, None) /\ PendingListed(cs, k, form)
<1>1. \A q \in R!Slots : \A x : ~Adding(cs[q], x) /\ ~Removing(cs[q], x)
  BY LoadsTrue DEF Adding, Removing, Adds, Listings
<1>2. \A x \in Repos : k.r[x] = None
  BY DEF R!NoneKnown
<1>3. form.mode # "add"
  BY DEF R!NoRepoForm
<1> QED BY <1>1, <1>2, <1>3 DEF BehindList, AddsUnlisted, ActiveListed, PendingListed

LEMMA RestartListed == ASSUME R!Restart PROVE ListSound'
<1>1. rCalls' = R!Loads /\ known' = R!NoneKnown /\ repo' = None /\ rForm' = R!NoRepoForm
  BY DEF R!Restart
<1>2. PICK f : f = file'
  OBVIOUS
<1> QED BY <1>1, <1>2, StartListed DEF ListSound

LEMMA RecordsInitListed == ASSUME R!Init PROVE ListSound
<1>1. rCalls = R!Loads /\ known = R!NoneKnown /\ repo = None /\ rForm = R!NoRepoForm
  BY DEF R!Init
<1>2. PICK f : f = file
  OBVIOUS
<1> QED BY <1>1, <1>2, StartListed DEF ListSound

-----------------------------------------------------------------------------
(* Records: the theorems.                                                  *)

LEMMA NextListed == ASSUME Base, Steady, ListSound, Base', R!Next PROVE ListSound'
<1>1. CASE Shows
  BY <1>1, ShownListed
<1>2. CASE Picks
  BY <1>2, ChoiceListed
<1>3. CASE Asks
  BY <1>3, AddRepoListed, InitRepoListed, RemoveRepoListed, SaveRepoListed, SubmitListed,
     AuthorizedListed, CloseModalListed DEF Asks
<1>4. CASE R!Restart
  BY <1>4, RestartListed
<1>5. ASSUME NEW q \in R!Slots, Works(q)  PROVE ListSound'
  BY <1>5, ReadListed, WriteProfileListed, CascadeListed, PruneListed, WriteRepoListed DEF Works
<1>6. ASSUME NEW q \in R!Slots, Answers(q)  PROVE ListSound'
  BY <1>6, ToldListed, DisconnectedListed, DeletedListed, AddedListed, RepoSavedListed,
     RemovedListed, FailListed, ReposListedListed, DeleteEndsListed, InitializedListed DEF Answers
<1> QED BY <1>1, <1>2, <1>3, <1>4, <1>5, <1>6, RecordSteps

LEMMA RecordNextSound == ASSUME RecordInv, R!Next PROVE RecordInv'
<1>1. Base'
  BY NextBase DEF RecordInv
<1>2. ASSUME ~overlap'  PROVE Steady' /\ Aim' /\ ListSound'
  <2>1. CASE overlap
    <3>1. R!Restart
      BY <1>2, <2>1, OverlapStays DEF RecordInv
    <3> QED BY <3>1, RestartSteady, RestartAim, RestartListed DEF RecordInv
  <2>2. CASE ~overlap
    <3>1. Steady /\ Aim /\ ListSound
      BY <2>2 DEF RecordInv
    <3> QED BY <1>1, <1>2, <3>1, NextSteady, NextAim, NextListed DEF RecordInv
  <2> QED BY <2>1, <2>2
<1> QED BY <1>1, <1>2 DEF RecordInv

LEMMA RecordStepSound == ASSUME RecordInv, [AppNext]_appVars PROVE RecordInv'
<1>1. CASE R!Next
  BY <1>1, RecordNextSound
<1>2. CASE UNCHANGED recordVars
  <2>1. Base'
    BY <1>2 DEF recordVars, RecordInv, Base, RecordsTyped, OwnInv, OwnForm, StartScreens, Unborn,
                Unnamed
  <2>2. overlap' = overlap /\ (Steady => Steady')
    BY <1>2 DEF recordVars, Steady, Unnamed
  <2>3. Aim /\ ListSound => Aim' /\ ListSound'
    BY <1>2 DEF recordVars, Aim, ListSound
  <2> QED BY <2>1, <2>2, <2>3 DEF RecordInv
<1> QED BY <1>1, <1>2 DEF AppNext, appVars, Branching, Recording

\* What the invariant says once all calls are answered.
LEMMA QuietIsTrue ==
    ASSUME RecordInv, R!Quiet, ~overlap
    PROVE  /\ ready /\ \A x \in Repos : ~Ghost(file, x)
           /\ rMoves = 0 => /\ known.p = file.p /\ known.r = file.r
                            /\ Matches(known, file)
           /\ ~crossed /\ follow # None => /\ known.active = follow
                                           /\ rMoves = 0 => file.active = follow
<1>1. ready /\ \A q \in R!Slots : rCalls[q] = None
  BY DEF R!Quiet
<1>2. Steady /\ Aim /\ Base
  BY DEF RecordInv
<1>3. \A x \in Repos : ~Ghost(file, x)
  BY <1>1, <1>2 DEF Steady, NoGhost, Prunes
<1>4. ASSUME rMoves = 0  PROVE known.p = file.p /\ known.r = file.r
  <2>1. \A p \in Profiles : known.p[p] = file.p[p]
    BY <1>1, <1>2, <1>4 DEF Steady, KnownEqual, ProfileAhead
  <2>2. \A x \in Repos : known.r[x] = file.r[x]
    BY <1>1, <1>2, <1>4 DEF Steady, ListEqual, RepoAhead
  <2>3. /\ known.p \in R!ProfilesFile /\ file.p \in R!ProfilesFile
        /\ known.r \in R!ReposFile /\ file.r \in R!ReposFile
    BY <1>2 DEF Base, RecordsTyped, KnownState, FileState
  <2> QED BY <2>1, <2>2, <2>3 DEF R!ProfilesFile, R!ReposFile
<1>5. ~AnyChoice(rCalls) /\ ~AnyNewest(rCalls) /\ ~Loading(rCalls, ready)
  BY <1>1 DEF AnyChoice, AnyNewest, Newest, Chooses, Loading
<1>6. rMoves = 0 => Matches(known, file)
  BY <1>2, <1>5 DEF Aim, ActiveEqual
<1>7. ~crossed /\ follow # None => known.active = follow /\ (rMoves = 0 => file.active = follow)
  BY <1>2, <1>5 DEF Aim, Follows
<1> QED BY <1>1, <1>3, <1>4, <1>6, <1>7

(* Once all calls are answered, files, stores and screens agree.           *)
THEOREM RecordsTrue == AppSpec => []RecordsAreTrue
<1>1. AppInit => RecordInv
  BY RecordsInitBase, RecordsInitSteady, RecordsInitAim, RecordsInitListed DEF AppInit, RecordInv
<1>2. RecordInv /\ [AppNext]_appVars => RecordInv'
  BY RecordStepSound
<1>3. RecordInv => R!TypeOK
  BY DEF RecordInv, Base, RecordsTyped, GoodRecordCalls, GoodSlot, FileState, KnownState,
         R!ProfilesState, R!RepositoriesState, R!TypeOK
<1>4. RecordInv => R!OwnData
  BY DEF RecordInv, Base, OwnInv, Own, R!OwnData, R!Exists
<1>5. RecordInv => R!NoGhosts
  BY QuietIsTrue DEF R!NoGhosts, R!Exists, Ghost
<1>6. RecordInv => R!StoresMatchFiles
  BY QuietIsTrue DEF R!StoresMatchFiles, R!Living, R!Exists, Matches, Alive
<1>7. RecordInv => R!FollowsAssignment
  BY QuietIsTrue DEF R!FollowsAssignment
<1>8. RecordInv => RecordsAreTrue
  BY <1>3, <1>4, <1>5, <1>6, <1>7 DEF RecordsAreTrue
<1> QED BY <1>1, <1>2, <1>8, PTL DEF AppSpec

\* The first repository is chosen only for one that has left its file too.
LEMMA AutoSelectMoves ==
    ASSUME Base, ~overlap => ListSound, R!AutoSelect  PROVE MayMove(repo')
<1> SUFFICES ASSUME repo # None, ~overlap  PROVE file.r[repo.id] = None
  BY DEF MayMove
<1>1. repo.id \in Repos
  BY DEF Base, RecordsTyped, R!Maybe, R!Record
<1>2. ~known.error /\ known.r[repo.id] = None
  BY <1>1 DEF R!AutoSelect, R!AutoSelectDue, R!InList
<1> QED BY <1>2 DEF ListSound, ActiveListed

LEMMA AnswerMoves ==
    ASSUME RecordInv, NEW q \in R!Slots,
           R!Added(q) \/ R!RepoSaved(q) \/ \E ok \in BOOLEAN : R!Initialized(q, ok)
    PROVE  MayMove(repo')
<1> SUFFICES ASSUME ~overlap, repo' # repo  PROVE MayMove(repo')
  BY DEF MayMove
<1>1. Base /\ Steady
  BY DEF RecordInv
<1>2. PICK c, rec : c = rCalls[q] /\ rec = [id |-> c.id, to |-> c.to]
  OBVIOUS
<1>3. CASE R!Added(q) \/ \E ok \in BOOLEAN : R!Initialized(q, ok)
  <2>1. /\ repo' = rec /\ R!At(q, {"createRepo", "initRepo"}, "written")
        /\ c # None /\ c.op \in {"createRepo", "initRepo", "updateRepo"} /\ c.at = "written"
    BY <1>2, <1>3 DEF R!Added, R!Initialized, R!FinishInit, R!SetActiveRepo, R!At
  <2>2. rec # None /\ rec.id = c.id
    BY <1>1, <1>2, <2>1, RecordAnswered
  <2>3. JustAdded(q, repo')
    BY <1>2, <2>1, <2>2 DEF JustAdded
  <2> QED BY <2>1, <2>2, <2>3 DEF MayMove
<1>4. CASE R!RepoSaved(q)
  <2>1. /\ repo' = rec /\ repo.id = c.id
        /\ c # None /\ c.op \in {"createRepo", "initRepo", "updateRepo"} /\ c.at = "written"
    BY <1>2, <1>4 DEF R!RepoSaved, R!SetActiveRepo, R!At
  <2>2. rec # None /\ rec.id = c.id
    BY <1>1, <1>2, <2>1, RecordAnswered
  <2> QED BY <2>1, <2>2 DEF MayMove
<1> QED BY <1>3, <1>4

LEMMA NextMoves == ASSUME RecordInv, R!Next PROVE MayMove(repo')
<1> SUFFICES ASSUME repo' # repo, rActs' = rActs  PROVE MayMove(repo')
  BY DEF MayMove
<1>1. ~R!Act
  BY RecordActCounts DEF RecordInv, Base
<1>2. ~Shows
  BY ShowsIs
<1>3. ~Asks
  <2>1. ~R!Authorized /\ ~R!CloseModal
    BY DEF R!Authorized, R!CloseModal
  <2> QED BY <1>1, <2>1 DEF Asks, R!AddRepo, R!InitRepo, R!SetActive, R!SaveRepo, R!Submit,
                            R!RemoveRepo, R!OnScreen
<1>4. CASE R!Restart
  BY <1>4 DEF R!Restart, MayMove
<1>5. CASE Picks
  BY <1>1, <1>5, AutoSelectMoves
     DEF Picks, R!PickRepo, R!SelectRepo, R!ContinueInit, R!OnScreen, RecordInv
<1>6. ASSUME NEW q \in R!Slots, Works(q)  PROVE FALSE
  BY <1>6 DEF Works, R!Read, R!WriteProfile, R!Cascade, R!Prune, R!WriteRepo, R!OnlyCalls
<1>7. ASSUME NEW q \in R!Slots, Answers(q)  PROVE MayMove(repo')
  <2>1. R!Added(q) \/ R!RepoSaved(q) \/ \E ok \in BOOLEAN : R!Initialized(q, ok)
    BY <1>7 DEF Answers, R!Created, R!Updated, R!Disconnected, R!Deleted, R!ProfilesListed,
                R!Removed, R!ActiveSet, R!Fail, R!ReposListed, R!DeleteEnds
  <2> QED BY <2>1, AnswerMoves
<1> QED BY <1>2, <1>3, <1>4, <1>5, <1>6, <1>7, RecordSteps

(* Nothing moves unasked: the outcomes of the dashboard stay until the     *)
(* user acts, and the active repository is replaced without an act only    *)
(* where it is gone or another has just been added (branchStore.load,      *)
(* pickAutoSelectedRepo).                                                  *)
THEOREM UnaskedStays == AppSpec => NothingMovesUnasked
<1>1. AppInit => RecordInv
  BY RecordsInitBase, RecordsInitSteady, RecordsInitAim, RecordsInitListed DEF AppInit, RecordInv
<1>2. RecordInv /\ [AppNext]_appVars => RecordInv'
  BY RecordStepSound
<1>3. RecordInv /\ [AppNext]_appVars =>
         [\/ repo' = repo \/ rActs' # rActs \/ repo = None \/ ~ready' \/ overlap
          \/ file.r[repo.id] = None
          \/ repo' # None /\ repo'.id = repo.id
          \/ repo' # None /\ \E q \in R!Slots :
                R!At(q, {"createRepo", "initRepo"}, "written") /\ rCalls[q].id = repo'.id]_(R!vars)
  <2> SUFFICES ASSUME RecordInv, R!Next  PROVE MayMove(repo')
    BY DEF AppNext, appVars, Branching, Recording, recordVars, R!vars, MayMove, JustAdded
  <2> QED BY NextMoves
<1>4. AppSpec => R!RepoStays
  BY <1>1, <1>2, <1>3, PTL DEF AppSpec, R!RepoStays
<1>5. AppSpec => OutcomesSurvive
  BY OutcomesKept
<1> QED BY <1>4, <1>5, PTL DEF NothingMovesUnasked
=============================================================================
