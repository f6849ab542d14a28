------------------------------ MODULE GuardProofs ------------------------------
(***************************************************************************)
(* Theorems about CommitDraft, Guard and Remedy, for any repositories,     *)
(* branches, profiles, policies and identities, and any number of acts:    *)
(* the commit message stays with the repository it was written for, the    *)
(* header's badge and the Safety Center never disagree and are true, a     *)
(* remedy that says it has succeeded has cured, and what the gates of      *)
(* SafetyGate let through keeps the policy and the profile's identity.     *)
(***************************************************************************)
EXTENDS MCGuard, FiniteSetTheorems, TLAPS

-----------------------------------------------------------------------------
(* CommitDraft.  What is committed is what the box holds, and what the box *)
(* holds comes from what was saved: both are by the repository they are    *)
(* kept for, unless the chat's card inserted them.                         *)

Own(text, r) == text # None /\ text.how # "inserted" => text.of = r

SavedOwn == \A r \in Repos : Own(saved[r], r)
BoxOwn == Own(store.message, store.repo)

IInv == DraftsStayHome /\ SavedOwn /\ BoxOwn

(* What commitStore.load leaves: a box of the repository loaded, and       *)
(* "Drafting..." just if that draft is being written.                      *)
LEMMA LoadBrings ==
    ASSUME IInv, NEW messages \in [Repos -> Maybe(Text)],
           \A r \in Repos : Own(messages[r], r),
           NEW r \in Repos, NEW b \in Branches, LoadWith(messages, r, b)
    PROVE  /\ store' \in CommitState /\ store'.repo = r
           /\ Own(store'.message, r)
           /\ store'.drafting <=> <<r, b>> \in asked
           /\ drafts' \in [Keys -> DraftEntry]
           /\ \A k \in Keys : drafts'[k] = "loading" <=> k \in asked
<1> DEFINE entry == drafts[<<r, b>>]
<1>1. <<r, b>> \in Keys /\ entry \in DraftEntry /\ (entry = "loading" <=> <<r, b>> \in asked)
  BY DEF IInv, DraftsStayHome, TypeOK, Keys, DraftTracked
<1>2. store'.repo = r /\ store'.drafting = (entry = "loading") /\ store'.failed = (entry = "error")
  BY DEF LoadWith
<1>3. store'.message \in Maybe(Text) /\ Own(store'.message, r)
  BY DEF LoadWith, Written, Maybe, Text, Own
<1>4. store' \in CommitState
  BY <1>2, <1>3 DEF LoadWith, CommitState, Maybe
<1>5. drafts' \in [Keys -> DraftEntry]
      /\ \A k \in Keys : drafts'[k] = "loading" <=> drafts[k] = "loading"
  BY <1>1 DEF LoadWith, IInv, DraftsStayHome, TypeOK, DraftEntry
<1> QED
  BY <1>1, <1>2, <1>3, <1>4, <1>5 DEF IInv, DraftsStayHome, DraftTracked

-----------------------------------------------------------------------------
(* The invariant is inductive.                                             *)

\* The invariant holds at first.
LEMMA InitIInv == Init => IInv
<1> SUFFICES ASSUME Init PROVE IInv
  OBVIOUS
<1>1. active \in Repos /\ current \in Branches /\ acts \in 0..MaxActs
  BY StartAssumption, ActsAssumption DEF Init
<1>2. store \in CommitState /\ event \in [into : Maybe(Repos), text : Maybe(Text)]
  BY DEF Init, CommitState, Maybe
<1>3. saved \in [Repos -> Maybe(Text)] /\ drafts \in [Keys -> DraftEntry]
  BY DEF Init, Maybe, DraftEntry
<1>4. TypeOK
  BY <1>1, <1>2, <1>3 DEF Init, TypeOK
<1> QED
  BY <1>4 DEF Init, IInv, DraftsStayHome, TextOfRepository, DraftingIsTrue, DraftTracked,
              SavedOwn, BoxOwn, Own

(* Another repository or branch is shown, with the screen or without it.   *)
LEMMA ShowKeeps ==
    ASSUME IInv, NEW r \in Repos, NEW b \in Branches, Act, Show(r, b),
           UNCHANGED <<mounted, saved, asked, committing, event>>
    PROVE  IInv'
<1> USE DEF IInv, DraftsStayHome
<1>1. acts' \in 0..MaxActs
  BY ActsAssumption DEF Act, TypeOK
<1>2. CASE mounted
  <2>1. Load(r, b) /\ active' = r /\ current' = b
    BY <1>2 DEF Show
  <2>2. /\ store' \in CommitState /\ store'.repo = r
        /\ Own(store'.message, r)
        /\ store'.drafting <=> <<r, b>> \in asked
        /\ drafts' \in [Keys -> DraftEntry]
        /\ \A k \in Keys : drafts'[k] = "loading" <=> k \in asked
    BY <2>1, LoadBrings DEF Load, SavedOwn, TypeOK
  <2> QED
    BY <1>1, <2>1, <2>2 DEF TypeOK, TextOfRepository, DraftingIsTrue, DraftTracked,
                            SavedOwn, BoxOwn, Shown, Own
<1>3. CASE ~mounted
  BY <1>1, <1>3 DEF Show, TypeOK, TextOfRepository, DraftingIsTrue, DraftTracked, SavedOwn,
                    BoxOwn, Own
<1> QED
  BY <1>2, <1>3 DEF TypeOK

\* It holds through every step.
LEMMA NextIInv == IInv /\ [Next]_vars => IInv'
<1> SUFFICES ASSUME IInv, [Next]_vars PROVE IInv'
  OBVIOUS
<1> USE DEF IInv, DraftsStayHome
<1>a. Act => acts' \in 0..MaxActs
  BY ActsAssumption DEF Act, TypeOK
<1>1. ASSUME NEW r \in Repos, SwitchRepo(r) PROVE IInv'
  <2>1. Start[2] \in Branches
    BY StartAssumption
  <2> QED
    BY <1>1, <2>1, ShowKeeps DEF SwitchRepo
<1>2. ASSUME NEW b \in Branches, SwitchBranch(b) PROVE IInv'
  <2>1. active \in Repos
    BY DEF TypeOK
  <2> QED
    BY <1>2, <2>1, ShowKeeps DEF SwitchBranch
<1>3. CASE Refresh
  <2>1. /\ store' \in CommitState /\ store'.repo = active
        /\ Own(store'.message, active)
        /\ store'.drafting <=> <<active, current>> \in asked
        /\ drafts' \in [Keys -> DraftEntry]
        /\ \A k \in Keys : drafts'[k] = "loading" <=> k \in asked
    BY <1>3, LoadBrings DEF Refresh, Load, SavedOwn, TypeOK
  <2> QED
    BY <1>a, <1>3, <2>1 DEF Refresh, TypeOK, TextOfRepository, DraftingIsTrue, DraftTracked,
                            SavedOwn, BoxOwn, Shown, Own
<1>4. CASE Leave
  BY <1>a, <1>4 DEF Leave, TypeOK, TextOfRepository, DraftingIsTrue, DraftTracked, SavedOwn,
                    BoxOwn, Own
<1>5. ASSUME NEW text \in Text, Act, SetMessage(text), text.how = "inserted" \/ text.of = store.repo,
             UNCHANGED <<active, current, mounted, drafts, asked, committing, event>>
      PROVE  IInv'
  <2>1. PICK r \in Repos : /\ r = IF store.repo # None THEN store.repo ELSE active
                           /\ saved' = [saved EXCEPT ![r] = text]
                           /\ store' = [store EXCEPT !.message = text, !.failed = FALSE]
    BY <1>5 DEF SetMessage, TypeOK, CommitState, Maybe
  <2>2. store' \in CommitState /\ store'.repo = store.repo /\ store'.drafting = store.drafting
        /\ store'.message = text
    BY <2>1 DEF TypeOK, CommitState, Maybe
  <2>3. text.how = "inserted" \/ text.of = r
    BY <1>5, <2>1, NoneAssumption DEF Text
  <2>4. saved' \in [Repos -> Maybe(Text)] /\ SavedOwn'
    BY <2>1, <2>3 DEF TypeOK, Maybe, SavedOwn, Own
  <2> QED
    BY <1>a, <1>5, <2>2, <2>4 DEF TypeOK, TextOfRepository, DraftingIsTrue, DraftTracked,
                                  BoxOwn, Shown, Own
<1>6. CASE Type
  <2>1. Written(store.repo, "typed") \in Text
    BY <1>6 DEF Type, Written, Text, TypeOK, CommitState, Maybe
  <2> QED
    BY <1>5, <1>6, <2>1 DEF Type, Written
<1>7. ASSUME NEW r \in Repos, Insert(r) PROVE IInv'
  <2>1. Written(r, "inserted") \in Text
    BY DEF Written, Text
  <2> QED
    BY <1>5, <1>7, <2>1 DEF Insert, Written
<1>8. ASSUME NEW origin \in Repos, InsertAndOpen(origin) PROVE IInv'
  <2>1. PICK kept, r : /\ r \in Repos
                       /\ kept = [saved EXCEPT ![r] = Written(origin, "inserted")]
                       /\ saved' = kept /\ LoadWith(kept, active, current)
    BY <1>8 DEF InsertAndOpen, TypeOK, CommitState, Maybe
  <2>2. kept \in [Repos -> Maybe(Text)] /\ \A x \in Repos : Own(kept[x], x)
    BY <2>1 DEF TypeOK, SavedOwn, Own, Written, Text, Maybe
  <2>3. /\ store' \in CommitState /\ store'.repo = active
        /\ Own(store'.message, active)
        /\ store'.drafting <=> <<active, current>> \in asked
        /\ drafts' \in [Keys -> DraftEntry]
        /\ \A k \in Keys : drafts'[k] = "loading" <=> k \in asked
    BY <2>1, <2>2, LoadBrings DEF TypeOK
  <2>4. saved' \in [Repos -> Maybe(Text)] /\ SavedOwn'
    BY <2>1, <2>2 DEF SavedOwn
  <2>5. Act /\ mounted' = TRUE /\ UNCHANGED <<active, current, asked, committing, event>>
    BY <1>8 DEF InsertAndOpen
  <2> QED
    BY <1>a, <2>3, <2>4, <2>5 DEF TypeOK, TextOfRepository, DraftingIsTrue, DraftTracked,
                                  BoxOwn, Shown
<1>9. CASE Draft
  <2> DEFINE key == <<store.repo, current>>
  <2>1. key \in Keys
    BY <1>9 DEF Draft, TypeOK, Keys, CommitState, Maybe
  <2>2. store' \in CommitState /\ store'.repo = store.repo /\ store'.drafting = TRUE
        /\ store'.message = store.message
    BY <1>9 DEF Draft, TypeOK, CommitState, Maybe
  <2>3. drafts' \in [Keys -> DraftEntry] /\ asked' = asked \union {key} /\ asked' \subseteq Keys
        /\ \A k \in Keys : drafts'[k] = "loading" <=> k \in asked'
    BY <1>9, <2>1 DEF Draft, TypeOK, DraftEntry, DraftTracked
  <2> QED
    BY <1>a, <1>9, <2>2, <2>3 DEF Draft, TypeOK, TextOfRepository, DraftingIsTrue, DraftTracked,
                                  SavedOwn, BoxOwn, Shown, Own
<1>10. ASSUME NEW key \in Keys, NEW ok \in BOOLEAN, DraftEnds(key, ok) PROVE IInv'
  <2> DEFINE text == Written(key[1], "drafted")
  <2>1. key = <<key[1], key[2]>> /\ key[1] \in Repos /\ text \in Text /\ text.of = key[1]
    BY DEF Keys, Written, Text
  <2>2. CASE Active(key)
    <3>1. store' \in CommitState /\ store'.repo = store.repo /\ store'.drafting = FALSE
          /\ store'.message = IF ok THEN text ELSE store.message
      BY <1>10, <2>1, <2>2 DEF DraftEnds, TypeOK, CommitState, Maybe
    <3>2. drafts' \in [Keys -> DraftEntry] /\ asked' = asked \ {key}
          /\ \A k \in Keys : drafts'[k] = "loading" <=> k \in asked'
      BY <1>10, <2>2 DEF DraftEnds, TypeOK, DraftEntry, DraftTracked
    <3>3. saved' \in [Repos -> Maybe(Text)] /\ SavedOwn'
      BY <1>10, <2>1, <2>2 DEF DraftEnds, TypeOK, Maybe, SavedOwn, Own
    <3>4. BoxOwn'
      BY <2>1, <2>2, <3>1 DEF BoxOwn, Own, Active
    <3>5. DraftingIsTrue'
      BY <1>10, <2>1, <2>2, <3>1, <3>2 DEF DraftEnds, Active, DraftingIsTrue, Shown
    <3> QED
      BY <1>10, <3>1, <3>2, <3>3, <3>4, <3>5 DEF DraftEnds, TypeOK, TextOfRepository, DraftTracked
  <2>3. CASE ~Active(key)
    <3>1. drafts' \in [Keys -> DraftEntry] /\ asked' = asked \ {key}
          /\ \A k \in Keys : drafts'[k] = "loading" <=> k \in asked'
      BY <1>10, <2>3 DEF DraftEnds, TypeOK, DraftEntry, DraftTracked
    <3>2. DraftingIsTrue'
      BY <1>10, <2>1, <2>3, <3>1 DEF DraftEnds, Active, DraftingIsTrue, Shown
    <3> QED
      BY <1>10, <2>3, <3>1, <3>2 DEF DraftEnds, TypeOK, TextOfRepository, DraftTracked,
                                     SavedOwn, BoxOwn, Own
  <2> QED
    BY <2>2, <2>3
<1>11. CASE Commit
  BY <1>a, <1>11 DEF Commit, TypeOK, CommitState, Maybe, TextOfRepository, DraftingIsTrue,
                     DraftTracked, SavedOwn, BoxOwn, Shown, Own
<1>12. ASSUME NEW r \in Repos, NEW ok \in BOOLEAN, CommitEnds(r, ok) PROVE IInv'
  <2>1. store' \in CommitState /\ store'.repo = store.repo /\ store'.drafting = store.drafting
        /\ store'.message \in {None, store.message}
    BY <1>12 DEF CommitEnds, TypeOK, CommitState, Maybe
  <2>2. saved' \in [Repos -> Maybe(Text)] /\ SavedOwn'
    BY <1>12 DEF CommitEnds, TypeOK, Maybe, SavedOwn, Own
  <2> QED
    BY <1>12, <2>1, <2>2 DEF CommitEnds, TypeOK, TextOfRepository, DraftingIsTrue, DraftTracked,
                             BoxOwn, Shown, Own
<1>13. CASE UNCHANGED vars
  BY <1>13 DEF vars, TypeOK, TextOfRepository, DraftingIsTrue, DraftTracked, SavedOwn, BoxOwn,
               Shown, Own
<1> QED
  BY <1>1, <1>2, <1>3, <1>4, <1>6, <1>7, <1>8, <1>9, <1>10, <1>11, <1>12, <1>13
     DEF Next, User, Background

-----------------------------------------------------------------------------
(* A text typed or drafted on the commit screen is committed only in the   *)
(* repository it was written for, "Drafting..." is shown just while that   *)
(* draft is being written, and a draft asked for is not lost, for any      *)
(* number of repositories, branches and acts (commitStore, drafts.ts).     *)
THEOREM DraftsCorrect == Spec => []DraftsStayHome
<1>1. IInv => DraftsStayHome
  BY DEF IInv
<1> QED
  BY InitIInv, NextIInv, <1>1, PTL DEF Spec

-----------------------------------------------------------------------------
(* Guard.  The inductive invariant: what the header checks is what is      *)
(* active unless the Safety Center asked, and once that has asked, both    *)
(* are about the same.                                                     *)

\* The types of all but the two stores.
AppType ==
    /\ record \in [Repos -> [assigned : G!Maybe(Profiles), policy : Policies]]
    /\ exists \subseteq Profiles /\ profile \in G!Maybe(Profiles)
    /\ gActive \in G!Maybe(Repos) /\ screen \in {"safety-center", "other"}
    /\ identity \in [Repos -> GivenIdentities] /\ branch \in [Repos -> G!Maybe(Branches)]
    /\ assign \in G!Maybe([repo : Repos, to : Profiles, known : SUBSET Profiles])
    /\ gActs \in 0..GuardActs /\ moves \in 0..MaxMoves

\* A check is about a repository, and its badge is the verdict on what it has read.
HeaderInv ==
    /\ header \in G!HeaderState
    /\ header.state = "checking" <=> header.at # "idle"
    /\ header.at # "idle" => header.about # None
    /\ header.about = None => header.seen = None
    /\ header.at = "idle" /\ header.about # None =>
          header.state = G!StateOf(header.about, header.seen)

CentreInv == centre \in G!CentreState /\ (centre.at # "idle" => centre.about # None)

\* The header checks what is active, or what the Safety Center asked it to ...
HeaderFollows == header.by = "app" => G!Key(header.about) = G!Key(G!Now)

\* ... and the Safety Center, when it is there, what is active, or was when the
\* assignment was clicked: once it has asked, the header checks the same.
CentreFollows ==
    screen = "safety-center" /\ gActive # None =>
        /\ centre.about # None
        /\ centre.by = "screen" => centre.about = G!Now
        /\ centre.at \in {"guarding", "idle"} => G!Key(header.about) = G!Key(centre.about)

GuardInv == AppType /\ HeaderInv /\ CentreInv /\ HeaderFollows /\ CentreFollows

\* A check is about a record of the repository with an assignment that exists, or none.
LEMMA AboutType ==
    ASSUME NEW r \in Repos, NEW rec \in [assigned : G!Maybe(Profiles), policy : Policies],
           NEW p \in G!Maybe(Profiles), NEW known
    PROVE  G!About(r, rec, p, known) \in G!Abouts
BY DEF G!About, G!Effective, G!Maybe, G!Abouts

\* What a check would be about now, if a repository is active.
LEMMA NowType == AppType => G!Now \in G!Maybe(G!Abouts) /\ (G!Now = None <=> gActive = None)
<1> SUFFICES ASSUME AppType PROVE G!Now \in G!Maybe(G!Abouts) /\ (G!Now = None <=> gActive = None)
  OBVIOUS
<1>1. ASSUME gActive # None PROVE G!Now \in G!Abouts
  BY <1>1, AboutType DEF AppType, G!Now, G!Maybe
<1>2. gActive = None => G!Now = None
  BY DEF G!Now
<1> QED BY <1>1, <1>2, GuardAssumption DEF G!Maybe

\* The same of the next state.
LEMMA NextNow == AppType' => G!Now' \in G!Maybe(G!Abouts) /\ (G!Now' = None <=> gActive' = None)
<1>1. (AppType => G!Now \in G!Maybe(G!Abouts) /\ (G!Now = None <=> gActive = None))'
  BY NowType, PTL
<1> QED BY <1>1

\* A check of the header that begins, for the application or for the Safety Center.
LEMMA CheckType ==
    ASSUME NEW a \in G!Maybe(G!Abouts), NEW h, h = G!Check(a) \/ (a # None /\ h = G!Checking(a, "centre"))
    PROVE  /\ h \in G!HeaderState /\ h.about = a /\ h.seen = None
           /\ h.state = "checking" <=> h.at # "idle"
           /\ h.at # "idle" <=> a # None
           /\ h.at \in {"asked", "idle"}
BY DEF G!Check, G!Checking, G!NotChecked, G!HeaderState, G!Maybe

\* A load of the Safety Center that begins.
LEMMA LoadType ==
    ASSUME NEW a \in G!Maybe(G!Abouts)
    PROVE  /\ G!Load(a) \in G!CentreState /\ [G!Load(a) EXCEPT !.by = "click"] \in G!CentreState
           /\ G!Load(a).about = a /\ G!Load(a).at = "asked"
BY DEF G!Load, G!CentreState, G!Maybe

\* What the badge shows when a check is over.
LEMMA StateType ==
    ASSUME NEW a, NEW id
    PROVE  G!StateOf(a, id) \in {"ready", "review", "blocked", "not-checked"}
BY DEF G!StateOf, G!HeaderGuard

\* A header that checks anew, or as its effect has it.
LEMMA HeaderChecks ==
    ASSUME HeaderInv, HeaderFollows, AppType',
           header' \in {G!Check(G!Now'), G!GuardEffect(G!Now, G!Now')}
    PROVE  HeaderInv' /\ HeaderFollows'
<1>1. G!Now' \in G!Maybe(G!Abouts)
  BY NextNow
<1>2. CASE header' = G!Check(G!Now')
  BY <1>1, <1>2, CheckType DEF HeaderInv, HeaderFollows
<1>3. CASE header' = header /\ G!Key(G!Now) = G!Key(G!Now')
  BY <1>3 DEF HeaderInv, HeaderFollows
<1> QED BY <1>2, <1>3 DEF G!GuardEffect

\* The Safety Center's effect.
LEMMA CentreChecks ==
    ASSUME CentreInv, AppType', centre' = G!CentreEffect
    PROVE  CentreInv' /\ CentreFollows'
<1>1. G!Now' \in G!Maybe(G!Abouts) /\ (gActive' # None => G!Now' # None)
  BY NextNow
<1>2. CASE screen' = "safety-center" /\ gActive' # None
  <2>1. centre' = G!Load(G!Now') /\ G!Now' # None
    BY <1>1, <1>2 DEF G!CentreEffect
  <2> QED BY <1>1, <2>1, LoadType DEF CentreInv, CentreFollows
<1>3. CASE ~(screen' = "safety-center" /\ gActive' # None)
  BY <1>3 DEF G!CentreEffect, CentreInv, CentreFollows
<1> QED BY <1>2, <1>3

\* The bounds hold.
LEMMA Counts == /\ G!Act /\ AppType => gActs' \in 0..GuardActs
                /\ G!Fails /\ AppType => moves' \in 0..MaxMoves
BY GuardAssumption DEF G!Act, G!Fails, AppType

\* Every step of Guard keeps the invariant.
LEMMA NextGuard == GuardInv /\ [G!Next]_guardVars => GuardInv'
<1> SUFFICES ASSUME GuardInv, [G!Next]_guardVars PROVE GuardInv'
  OBVIOUS
<1> USE DEF GuardInv
<1>0. ASSUME AppType', header' \in {G!Check(G!Now'), G!GuardEffect(G!Now, G!Now')},
             centre' = G!CentreEffect
      PROVE  GuardInv'
  BY <1>0, HeaderChecks, CentreChecks
<1>1. ASSUME NEW r \in Repos, G!PickRepo(r) PROVE GuardInv'
  BY <1>1, <1>0, Counts DEF G!PickRepo, AppType, G!Effects, G!Maybe, G!git
<1>2. CASE G!CloseRepo
  BY <1>2, <1>0, Counts DEF G!CloseRepo, AppType, G!Effects, G!Maybe, G!git
<1>3. ASSUME NEW p \in Profiles, G!SetProfile(p) PROVE GuardInv'
  BY <1>3, <1>0, Counts DEF G!SetProfile, AppType, G!Effects, G!Maybe, G!git
<1>4. ASSUME NEW gone, G!ListProfiles(gone) PROVE GuardInv'
  BY <1>4, <1>0, Counts DEF G!ListProfiles, AppType, G!Maybe, G!git
<1>5. ASSUME NEW to \in G!Maybe(Profiles), NEW policy \in Policies, G!SaveRecord(to, policy)
      PROVE  GuardInv'
  <2>1. record' \in [Repos -> [assigned : G!Maybe(Profiles), policy : Policies]]
    BY <1>5 DEF G!SaveRecord, AppType
  <2> QED
    BY <1>5, <1>0, <2>1, Counts DEF G!SaveRecord, AppType, G!Effects, G!git
<1>6. ASSUME NEW b \in G!Maybe(Branches), G!SwitchBranch(b) PROVE GuardInv'
  <2>1. AppType'
    BY <1>6, Counts DEF G!SwitchBranch, AppType, G!app
  <2>2. G!Now' = G!Now
    BY <1>6 DEF G!SwitchBranch, G!app, G!Now
  <2>3. HeaderInv' /\ HeaderFollows'
    BY <1>6, <2>2 DEF G!SwitchBranch, HeaderInv, HeaderFollows
  <2> QED BY <1>6, <2>1, <2>3, CentreChecks DEF G!SwitchBranch
<1>7. CASE G!OpenSafety
  <2>1. AppType'
    BY <1>7 DEF G!OpenSafety, AppType, G!git
  <2>2. G!Now' = G!Now
    BY <1>7 DEF G!OpenSafety, G!Now
  <2>3. HeaderInv' /\ HeaderFollows'
    BY <1>7, <2>2 DEF G!OpenSafety, HeaderInv, HeaderFollows
  <2> QED BY <1>7, <2>1, <2>3, CentreChecks DEF G!OpenSafety
<1>8. CASE G!LeaveSafety
  <2>1. AppType'
    BY <1>8, Counts DEF G!LeaveSafety, AppType, G!git
  <2>2. G!Now' = G!Now
    BY <1>8 DEF G!LeaveSafety, G!Now
  <2> QED BY <1>8, <2>1, <2>2 DEF G!LeaveSafety, HeaderInv, HeaderFollows, CentreInv, CentreFollows
<1>9. CASE G!RefreshActiveRepo
  <2>1. AppType' /\ G!Now' = G!Now
    BY <1>9, Counts DEF G!RefreshActiveRepo, AppType, G!git, G!app, G!Now
  <2>2. centre' = G!CentreEffect
    BY <1>9, <2>1 DEF G!RefreshActiveRepo, G!CentreEffect, G!app
  <2> QED BY <1>9, <1>0, <2>1, <2>2 DEF G!RefreshActiveRepo
<1>10. ASSUME NEW r \in Repos, NEW id \in GivenIdentities, G!SetIdentity(r, id) PROVE GuardInv'
  <2>1. AppType' /\ G!Now' = G!Now
    BY <1>10, Counts DEF G!SetIdentity, AppType, G!app, G!Now
  <2> QED BY <1>10, <2>1 DEF G!SetIdentity, G!app, HeaderInv, HeaderFollows, CentreInv, CentreFollows
<1>11. ASSUME G!Now' = G!Now, screen' = screen, gActive' = gActive, AppType',
              CentreInv', HeaderInv', header'.by = header.by \/ header'.by = "centre",
              \/ header'.about = header.about /\ header'.by = header.by
              \/ centre.at = "read" /\ header'.by = "centre" /\ header'.about = centre.about,
              centre'.about = centre.about, centre'.by = centre.by,
              centre'.at \in {"guarding", "idle"} =>
                 centre.at \in {"guarding", "idle"} \/ header'.about = centre.about
       PROVE  GuardInv'
  BY <1>11 DEF HeaderFollows, CentreFollows
<1>12. ASSUME NEW ok \in BOOLEAN, G!CentreReads(ok) PROVE GuardInv'
  <2>1. AppType' /\ G!Now' = G!Now
    BY <1>12, Counts DEF G!CentreReads, AppType, G!git, G!app, G!Now
  <2>2. centre.about \in G!Abouts /\ centre.about.repo \in Repos
    BY <1>12 DEF G!CentreReads, CentreInv, G!CentreState, G!Maybe, G!Abouts
  <2>3. CentreInv'
    BY <1>12, <2>2 DEF G!CentreReads, CentreInv, G!CentreState, G!Maybe, G!ReadIdentity, AppType
  <2> QED BY <1>12, <1>11, <2>1, <2>3 DEF G!CentreReads, G!app, HeaderInv, CentreInv, G!CentreState
<1>13. CASE G!CentreAnswers
  <2>1. AppType' /\ G!Now' = G!Now
    BY <1>13 DEF G!CentreAnswers, AppType, G!git, G!app, G!Now
  <2>2. centre.about # None /\ centre.about \in G!Maybe(G!Abouts)
    BY <1>13 DEF G!CentreAnswers, CentreInv, G!CentreState
  <2>3. HeaderInv' /\ header'.about = centre.about
    BY <1>13, <2>2, CheckType DEF G!CentreAnswers, HeaderInv
  <2>4. header'.by = "centre"
    BY <1>13 DEF G!CentreAnswers, G!Checking
  <2>5. CentreInv' /\ centre'.about = centre.about /\ centre'.by = centre.by
    BY <1>13, <2>2 DEF G!CentreAnswers, CentreInv, G!CentreState
  <2> QED BY <1>13, <1>11, <2>1, <2>3, <2>4, <2>5 DEF G!CentreAnswers, G!app
<1>14. CASE G!CentreEnds
  <2>1. AppType' /\ G!Now' = G!Now
    BY <1>14 DEF G!CentreEnds, AppType, G!git, G!app, G!Now
  <2>2. CentreInv' /\ centre'.about = centre.about /\ centre'.by = centre.by
    BY <1>14 DEF G!CentreEnds, CentreInv, G!CentreState
  <2> QED BY <1>14, <1>11, <2>1, <2>2 DEF G!CentreEnds, G!app, HeaderInv
<1>15. ASSUME NEW ok \in BOOLEAN, G!HeaderReads(ok) PROVE GuardInv'
  <2>1. AppType' /\ G!Now' = G!Now
    BY <1>15, Counts DEF G!HeaderReads, AppType, G!git, G!app, G!Now
  <2>2. header.about \in G!Abouts /\ header.about.repo \in Repos
    BY <1>15 DEF G!HeaderReads, HeaderInv, G!HeaderState, G!Maybe, G!Abouts
  <2>3. HeaderInv' /\ header'.about = header.about /\ header'.by = header.by
    BY <1>15, <2>2 DEF G!HeaderReads, HeaderInv, G!HeaderState, G!Maybe, G!ReadIdentity, AppType
  <2> QED BY <1>15, <1>11, <2>1, <2>3 DEF G!HeaderReads, G!app, CentreInv
<1>16. CASE G!HeaderAnswers
  <2>1. AppType' /\ G!Now' = G!Now
    BY <1>16 DEF G!HeaderAnswers, AppType, G!git, G!app, G!Now
  <2>3. HeaderInv' /\ header'.about = header.about /\ header'.by = header.by
    BY <1>16, StateType DEF G!HeaderAnswers, HeaderInv, G!HeaderState
  <2> QED BY <1>16, <1>11, <2>1, <2>3 DEF G!HeaderAnswers, G!app, CentreInv
<1>17. CASE G!AssignToActive
  <2>1. G!Now' = G!Now
    BY <1>17 DEF G!AssignToActive, G!app, G!Now
  <2>2. centre.about.repo \in Repos
    BY <1>17 DEF G!AssignToActive, G!Shown, CentreInv, G!CentreState, G!Maybe, G!Abouts
  <2>3. AppType'
    BY <1>17, <2>2, Counts DEF G!AssignToActive, AppType, G!git, G!app, G!Maybe
  <2> QED BY <1>17, <2>1, <2>3 DEF G!AssignToActive, G!app, HeaderInv, HeaderFollows, CentreInv, CentreFollows
<1>18. CASE G!AssignAnswers
  <2>1. assign.repo \in Repos /\ assign.to \in Profiles
    BY <1>18 DEF G!AssignAnswers, AppType, G!Maybe
  <2>2. record' \in [Repos -> [assigned : G!Maybe(Profiles), policy : Policies]]
    BY <1>18, <2>1 DEF G!AssignAnswers, AppType, G!Maybe
  <2>3. AppType'
    BY <1>18, <2>1, <2>2 DEF G!AssignAnswers, AppType, G!Maybe, G!git
  <2>4. HeaderInv' /\ HeaderFollows'
    BY <1>18, <2>3, HeaderChecks DEF G!AssignAnswers
  <2>5. gActive' # None /\ G!Now' \in G!Maybe(G!Abouts) /\ G!Now' # None
    BY <1>18, <2>1, <2>3, NextNow, NoneAssumption DEF G!AssignAnswers
  <2>6. CASE centre' = G!Load(G!Now')
    BY <2>3, <2>4, <2>5, <2>6, LoadType DEF CentreInv, CentreFollows
  <2>7. CASE centre' = [G!Load(G!About(assign.repo, record'[assign.repo], assign.to, assign.known))
                          EXCEPT !.by = "click"]
    <3> DEFINE a == G!About(assign.repo, record'[assign.repo], assign.to, assign.known)
    <3>1. a \in G!Abouts /\ a # None
      BY <2>1, <2>2, AboutType, GuardAssumption DEF G!Maybe
    <3>2. centre' \in G!CentreState /\ centre'.about = a /\ centre'.at = "asked" /\ centre'.by = "click"
      BY <2>7, <3>1 DEF G!Load, G!CentreState, G!Maybe
    <3> QED BY <2>3, <2>4, <3>1, <3>2 DEF CentreInv, CentreFollows
  <2> QED BY <1>18, <2>6, <2>7 DEF G!AssignAnswers
<1>19. CASE G!AssignFails
  <2>1. AppType' /\ G!Now' = G!Now
    BY <1>19, Counts DEF G!AssignFails, AppType, G!git, G!app, G!Maybe, G!Now
  <2> QED BY <1>19, <2>1 DEF G!AssignFails, G!app, HeaderInv, HeaderFollows, CentreInv, CentreFollows
<1>20. CASE UNCHANGED guardVars
  <2>1. AppType' /\ G!Now' = G!Now
    BY <1>20 DEF guardVars, AppType, G!Now
  <2> QED BY <1>20, <2>1 DEF guardVars, HeaderInv, HeaderFollows, CentreInv, CentreFollows
<1> QED
  BY <1>1, <1>2, <1>3, <1>4, <1>5, <1>6, <1>7, <1>8, <1>9, <1>10, <1>12, <1>13, <1>14, <1>15,
     <1>16, <1>17, <1>18, <1>19, <1>20 DEF G!Next, G!User, G!Answers

\* It holds when the application has begun its first check.
LEMMA InitGuard == G!Init => GuardInv
<1> SUFFICES ASSUME G!Init PROVE GuardInv
  OBVIOUS
<1>1. \A r \in Repos : [assigned |-> FirstAssigned[r], policy |-> None]
                         \in [assigned : G!Maybe(Profiles), policy : Policies]
  BY GuardAssumption
<1>2. (CHOOSE b \in Branches : TRUE) \in Branches
  BY GuardAssumption
<1>3. AppType
  BY <1>1, <1>2, GuardAssumption DEF G!Init, AppType, G!Maybe
<1>4. G!Now \in G!Maybe(G!Abouts)
  BY <1>3, NowType
<1>5. HeaderInv /\ HeaderFollows
  BY <1>4, CheckType DEF G!Init, HeaderInv, HeaderFollows
<1>6. CentreInv /\ CentreFollows
  BY DEF G!Init, CentreInv, CentreFollows, G!NoLoad, G!Load, G!CentreState, G!Maybe
<1> QED BY <1>3, <1>5, <1>6 DEF GuardInv

\* The identity's issues depend on what the header's effect is keyed on.
LEMMA SameIssues ==
    ASSUME NEW a \in G!Abouts, NEW b \in G!Abouts, G!Key(a) = G!Key(b), NEW id
    PROVE  /\ a.profile = b.profile
           /\ \A p : G!IdentityIssues(a.record, p, id) = G!IdentityIssues(b.record, p, id)
<1>1. a # None /\ b # None
  BY GuardAssumption
<1>2. a.profile = b.profile /\ a.record.assigned = b.record.assigned
  BY <1>1 DEF G!Key
<1> QED BY <1>2 DEF G!IdentityIssues

\* Settled on the same identity, badge and Safety Center have the same verdict.
LEMMA Agrees == GuardInv => G!NeverDisagree
<1> SUFFICES ASSUME GuardInv, G!Settled, screen = "safety-center", gActive # None,
                    centre.seen # None, centre.seen = header.seen
             PROVE  LET issues == G!IdentityIssues(centre.about.record,
                                        G!ProfileOf(centre.about.profile), centre.seen)
                    IN  /\ G!Key(header.about) = G!Key(centre.about)
                        /\ (header.state = "blocked") = G!HasBlocker(issues)
                        /\ (header.state = "ready") = (issues = {})
  BY DEF G!NeverDisagree
<1> DEFINE issues == G!IdentityIssues(centre.about.record, G!ProfileOf(centre.about.profile),
                                      centre.seen)
<1>1. G!Key(header.about) = G!Key(centre.about) /\ centre.about # None
  BY DEF GuardInv, CentreFollows, G!Settled
<1>2. header.about # None /\ header.state = G!StateOf(header.about, header.seen)
  BY DEF GuardInv, HeaderInv, G!Settled
<1>3. header.about \in G!Abouts /\ centre.about \in G!Abouts
  BY <1>1, <1>2 DEF GuardInv, HeaderInv, CentreInv, G!HeaderState, G!CentreState, G!Maybe
<1>4. issues = G!IdentityIssues(header.about.record, G!ProfileOf(header.about.profile),
                                header.seen)
  BY <1>1, <1>3, SameIssues
<1>5. header.state = IF G!HasBlocker(issues) THEN "blocked"
                     ELSE IF issues # {} THEN "review" ELSE "ready"
  BY <1>2, <1>4 DEF G!StateOf, G!HeaderGuard
<1>6. issues = {} => ~G!HasBlocker(issues)
  BY DEF G!HasBlocker, G!Blockers
<1>7. G!HasBlocker(issues) \in BOOLEAN
  BY DEF G!HasBlocker
<1> HIDE DEF issues
<1>8. (header.state = "blocked") = G!HasBlocker(issues)
  BY <1>5, <1>7
<1>9. (header.state = "ready") = (issues = {})
  BY <1>5, <1>6
<1> QED BY <1>1, <1>8, <1>9 DEF issues

\* The verdicts on the screen are about what is active.
LEMMA IsOfActive == GuardInv => G!BadgeOfActive
BY DEF GuardInv, HeaderFollows, CentreFollows, G!BadgeOfActive, G!Settled

\* An issue is there just if its condition holds.
LEMMA InIssue ==
    ASSUME NEW code, NEW holds \in BOOLEAN, NEW c
    PROVE  c \in G!Issue(code, holds) <=> c = code /\ holds
BY DEF G!Issue

\* The branch's badge and the push verdict agree.
LEMMA MatchesVerdict == GuardInv => G!BadgeMatchesVerdict
<1> SUFFICES ASSUME GuardInv, G!Shown, centre.seen # None
             PROVE  LET me == G!ProfileOf(centre.about.profile)
                        held == {"PROTECTED_BRANCH_PUSH", "BRANCH_NOT_ALLOWED", "PUSH_POLICY_INCOMPLETE"}
                                \intersect G!PushIssues(centre.about.record, me, centre.seen, G!To)
                        shown == G!Badge(centre.about.record.policy, centre.branch)
                    IN  /\ shown = "blocked" => ~G!CenterPush(centre.about.record, me, centre.seen, G!To)
                        /\ shown = "allowed" => held = {}
  BY DEF G!BadgeMatchesVerdict
<1> DEFINE me == G!ProfileOf(centre.about.profile)
           policy == centre.about.record.policy
           b == centre.branch
           shown == G!Badge(policy, b)
           all == G!PushIssues(centre.about.record, me, centre.seen, G!To)
<1>1. policy \in Policies
  BY DEF GuardInv, CentreInv, G!CentreState, G!Shown, G!Maybe, G!Abouts
<1>2. ASSUME shown = "blocked" PROVE ~G!CenterPush(centre.about.record, me, centre.seen, G!To)
  <2> DEFINE to == [G!To EXCEPT !.github = None, !.outgoing = None]
  <2>1. policy # None /\ G!Matches(b, policy.blocked)
    BY <1>2 DEF G!Badge
  <2>2. to.branch = b
    BY DEF G!To
  <2> HIDE DEF to
  <2>3. "PROTECTED_BRANCH_PUSH" \in G!PolicyIssues(policy, to.branch, to.remotes, to.upstream)
    BY <2>1, <2>2, InIssue DEF G!PolicyIssues, G!Matches
  <2>4. "PROTECTED_BRANCH_PUSH" \in G!PushIssues(centre.about.record, me, centre.seen, to)
    BY <2>3 DEF G!PushIssues
  <2>5. ~G!CanPush(centre.about.record, me, centre.seen, to)
    BY <2>4 DEF G!CanPush, G!HasBlocker, G!Blockers, G!Warnings
  <2> QED BY <2>5 DEF G!CenterPush, to
<1>3. ASSUME shown = "allowed",
             NEW c \in {"PROTECTED_BRANCH_PUSH", "BRANCH_NOT_ALLOWED", "PUSH_POLICY_INCOMPLETE"}
      PROVE  c \notin all
  <2>1. policy # None /\ ~G!Matches(b, policy.blocked) /\ policy.scoped
        /\ G!Matches(b, policy.allowed)
    BY <1>3 DEF G!Badge
  <2>2. policy.allowed # {}
    BY <2>1 DEF G!Matches
  <2>3. c \notin G!IdentityIssues(centre.about.record, me, centre.seen)
    BY <1>3 DEF G!IdentityIssues, G!Issue
  <2>4. c \notin G!HostIssues(G!To.remotes, me)
    BY <1>3 DEF G!HostIssues, G!Issue
  <2>5. c \notin G!GitHubIssues(G!To.github) /\ c \notin G!AuthorIssues(G!To.outgoing, me)
    BY <1>3 DEF G!GitHubIssues, G!AuthorIssues, G!Issue
  <2>6. c \notin G!PolicyIssues(policy, b, G!To.remotes, G!To.upstream)
    BY <1>3, <2>1, <2>2 DEF G!PolicyIssues, G!Issue
  <2>7. G!To.branch = b
    BY DEF G!To
  <2> QED BY <2>3, <2>4, <2>5, <2>6, <2>7 DEF G!PushIssues
<1> QED BY <1>2, <1>3

-----------------------------------------------------------------------------
(* Remedy.  The inductive invariant: a remedy on its way changes what it   *)
(* was asked for and no other one is, as long as nothing else changes; and *)
(* what has been fixed stays so.                                           *)

\* The buttons, their fields, and the codes by the remedy they are offered.
At == {"idle", "asked", "target", "answered", "reloading"}
Buttons == [at : At, to : R!Maybe(Profiles), error : BOOLEAN, code : BOOLEAN,
            authorized : BOOLEAN, timer : BOOLEAN]
Fields == {"at", "to", "error", "code", "authorized", "timer"}
SetLocal == button["set-local-identity"]
Switch == button["switch-active-profile"]
Reconnect == button["reconnect-github"]

OfIdentity == {"IDENTITY_UNSET", "NAME_MISMATCH", "EMAIL_MISMATCH", "EMAIL_FROM_GLOBAL_ONLY"}
OfProfile == {"NO_ACTIVE_PROFILE", "PROFILE_MISMATCH"}
OfGitHub == {"GITHUB_TOKEN_MISSING", "GITHUB_NOT_CONNECTED", "GITHUB_TOKEN_INVALID",
             "GITHUB_TOKEN_SCOPE_MISSING", "GITHUB_ACCOUNT_MISMATCH"}

IsLocal == rIdentity = [name |-> rStore.profile, email |-> rStore.profile, scope |-> "local"]
InSync == rStore = [exists |-> rExists, profile |-> rProfile]
Done(b) == b.at \in {"answered", "reloading"} /\ ~b.error

\* The types of Remedy.
RemedyType ==
    /\ rAssigned \in R!Maybe(Profiles) /\ rExists \subseteq Profiles /\ rProfile \in R!Maybe(Profiles)
    /\ rIdentity \in R!Identities /\ link \in [Profiles -> R!Links] /\ flow \in [Profiles -> BOOLEAN]
    /\ rStore \in [exists : SUBSET Profiles, profile : R!Maybe(Profiles)]
    /\ view \in R!Maybe([identity : R!Identities, link : R!Maybe(R!Links)])
    /\ button \in [R!Remedies -> Buttons]
    /\ met \in BOOLEAN /\ missed \in BOOLEAN
    /\ rActs \in 0..RemedyActs /\ rMoves \in 0..MaxMoves

\* What always holds: the store shows what is in the files but while a switch is
\* on its way, and "Authorized" is shown of an account that is linked.
BaseInv ==
    /\ RemedyType
    /\ rAssigned \in R!Maybe(rExists)
    /\ Switch.at # "answered" => InSync
    /\ Reconnect.timer => rAssigned # None /\ link[rAssigned] # "none"
    /\ fixed \subseteq OfIdentity \union OfProfile \union OfGitHub

OneAtATime ==
    \A a, b \in R!Remedies : a # b /\ button[a].at # "idle" => button[b].at = "idle"
SetsIdentity ==
    SetLocal.at # "idle" =>
        /\ SetLocal.to = rStore.profile /\ rStore.profile \in rExists
        /\ Done(SetLocal) => IsLocal
Switches ==
    Switch.at # "idle" =>
        /\ Switch.to = rAssigned /\ rAssigned # None
        /\ Done(Switch) => rProfile = rAssigned
Reconnects == Reconnect.timer => link[rAssigned] = "linked"
IdentityCured ==
    fixed \intersect OfIdentity # {} =>
        /\ SetLocal.at = "idle" /\ Switch.at = "idle"
        /\ rStore.profile \in rExists /\ IsLocal
        /\ view # None => view.identity = rIdentity
ProfileCured ==
    fixed \intersect OfProfile # {} =>
        Switch.at = "idle" /\ rAssigned # None /\ rProfile = rAssigned
GitHubCured ==
    fixed \intersect OfGitHub # {} =>
        /\ rAssigned # None /\ link[rAssigned] = "linked"
        /\ view # None => view.link = "linked"

\* What holds when nothing else has changed since the last click.
CalmInv ==
    /\ OneAtATime /\ SetsIdentity /\ Switches /\ Reconnects
    /\ IdentityCured /\ ProfileCured /\ GitHubCured

RemedyInv == BaseInv /\ (~met => CalmInv)

-----------------------------------------------------------------------------
\* RemedyType writes out what TypeOK says of the buttons.
LEMMA RemedyTypes == R!TypeOK <=> RemedyType
BY DEF R!TypeOK, RemedyType, Buttons, At

\* A button is a function on its fields ...
LEMMA AsFunction ==
    ASSUME NEW b \in Buttons
    PROVE  /\ DOMAIN b = Fields
           /\ b.at = b["at"] /\ b.to = b["to"] /\ b.error = b["error"] /\ b.code = b["code"]
           /\ b.authorized = b["authorized"] /\ b.timer = b["timer"]
BY DEF Buttons, Fields

\* ... and such a function is a button.
LEMMA FromFunction ==
    ASSUME NEW s, s = [x \in Fields |-> s[x]], s["at"] \in At, s["to"] \in R!Maybe(Profiles),
           \A x \in Fields \ {"at", "to"} : s[x] \in BOOLEAN
    PROVE  s \in Buttons
BY DEF Buttons, Fields

\* A button some of whose fields are set.
LEMMA SetIs ==
    ASSUME NEW old \in Buttons, NEW fields,
           NEW s, s = [x \in DOMAIN old |-> IF x \in DOMAIN fields THEN fields[x] ELSE old[x]],
           "at" \in DOMAIN fields => fields["at"] \in At,
           "to" \in DOMAIN fields => fields["to"] \in R!Maybe(Profiles),
           \A x \in DOMAIN fields \ {"at", "to"} : fields[x] \in BOOLEAN
    PROVE  /\ s \in Buttons
           /\ s.at = IF "at" \in DOMAIN fields THEN fields["at"] ELSE old.at
           /\ s.to = IF "to" \in DOMAIN fields THEN fields["to"] ELSE old.to
           /\ s.error = IF "error" \in DOMAIN fields THEN fields["error"] ELSE old.error
           /\ s.code = IF "code" \in DOMAIN fields THEN fields["code"] ELSE old.code
           /\ s.authorized = IF "authorized" \in DOMAIN fields THEN fields["authorized"] ELSE old.authorized
           /\ s.timer = IF "timer" \in DOMAIN fields THEN fields["timer"] ELSE old.timer
<1>1. /\ s = [x \in Fields |-> s[x]]
      /\ \A x \in Fields : s[x] = IF x \in DOMAIN fields THEN fields[x] ELSE old[x]
  BY AsFunction
<1>2. old["at"] \in At /\ old["to"] \in R!Maybe(Profiles)
      /\ \A x \in Fields \ {"at", "to"} : old[x] \in BOOLEAN
  BY DEF Buttons, Fields
<1>3. s \in Buttons
  BY <1>1, <1>2, FromFunction DEF Fields
<1> QED BY <1>1, <1>3, AsFunction DEF Fields

\* Update sets fields of one button.
LEMMA UpdateIs ==
    ASSUME RemedyType, NEW a \in R!Remedies, NEW fields, R!Update(a, fields),
           "at" \in DOMAIN fields => fields["at"] \in At,
           "to" \in DOMAIN fields => fields["to"] \in R!Maybe(Profiles),
           \A x \in DOMAIN fields \ {"at", "to"} : fields[x] \in BOOLEAN
    PROVE  /\ button' \in [R!Remedies -> Buttons]
           /\ \A b \in R!Remedies \ {a} : button'[b] = button[b]
           /\ button'[a].at = IF "at" \in DOMAIN fields THEN fields["at"] ELSE button[a].at
           /\ button'[a].to = IF "to" \in DOMAIN fields THEN fields["to"] ELSE button[a].to
           /\ button'[a].error = IF "error" \in DOMAIN fields THEN fields["error"] ELSE button[a].error
           /\ button'[a].code = IF "code" \in DOMAIN fields THEN fields["code"] ELSE button[a].code
           /\ button'[a].timer = IF "timer" \in DOMAIN fields THEN fields["timer"] ELSE button[a].timer
<1>1. button \in [R!Remedies -> Buttons] /\ button[a] \in Buttons
  BY DEF RemedyType
<1>2. button' = [button EXCEPT ![a] = R!Set(a, fields)]
  BY DEF R!Update
<1>3. button'[a] = R!Set(a, fields) /\ \A b \in R!Remedies \ {a} : button'[b] = button[b]
  BY <1>1, <1>2
<1>4. button'[a] = [x \in DOMAIN button[a] |-> IF x \in DOMAIN fields THEN fields[x] ELSE button[a][x]]
  BY <1>3 DEF R!Set
<1>5. button'[a] \in Buttons
  BY <1>1, <1>4, SetIs
<1>6. button' \in [R!Remedies -> Buttons]
  BY <1>1, <1>2, <1>3, <1>5
<1> QED BY <1>1, <1>3, <1>4, <1>6, SetIs

\* The codes of what is shown, by the remedy that they are offered.
LEMMA Codes ==
    /\ \A c \in R!Issues : c \in OfIdentity \union OfProfile \union OfGitHub \union {"REPO_UNASSIGNED"}
    /\ \A c \in R!Issues : R!ActionOf(c) = "set-local-identity" => c \in OfIdentity
    /\ \A c \in R!Issues : R!ActionOf(c) = "switch-active-profile" => c \in OfProfile
    /\ \A c \in R!Issues : R!ActionOf(c) = "reconnect-github" => c \in OfGitHub
<1>1. ASSUME NEW c \in R!Issues
      PROVE  c \in OfIdentity \union OfProfile \union OfGitHub \union {"REPO_UNASSIGNED"}
  BY <1>1 DEF R!Issues, R!IdentityIssues, R!GitHubIssues, R!Issue, OfIdentity, OfProfile, OfGitHub
<1>2. \A c \in OfIdentity : R!ActionOf(c) = "set-local-identity"
  BY DEF OfIdentity, R!ActionOf
<1>3. \A c \in OfProfile : R!ActionOf(c) = "switch-active-profile"
  BY DEF OfProfile, R!ActionOf
<1>4. \A c \in OfGitHub : R!ActionOf(c) = "reconnect-github"
  BY DEF OfGitHub, R!ActionOf
<1>5. R!ActionOf("REPO_UNASSIGNED") = "assign-repo-profile"
  BY DEF R!ActionOf
<1> QED BY <1>1, <1>2, <1>3, <1>4, <1>5

\* The invariant holds initially.
LEMMA InitRemedy == R!Init => RemedyInv
<1> SUFFICES ASSUME R!Init PROVE RemedyInv
  OBVIOUS
<1>1. R!Idle \in Buttons /\ R!Idle.at = "idle" /\ R!Idle.timer = FALSE
  BY DEF R!Idle, Buttons, At, R!Maybe
<1>2. button \in [R!Remedies -> Buttons] /\ \A a \in R!Remedies : button[a] = R!Idle
  BY <1>1 DEF R!Init
<1>3. rIdentity \in R!Identities /\ link \in [Profiles -> R!Links]
  BY DEF R!Init, R!Identities
<1>a. RemedyActs \in Nat /\ MaxMoves \in Nat
  BY GuardAssumption
<1>b. rActs \in 0..RemedyActs /\ rMoves \in 0..MaxMoves
  BY <1>a DEF R!Init
<1>c. flow \in [Profiles -> BOOLEAN] /\ met \in BOOLEAN /\ missed \in BOOLEAN
  BY DEF R!Init
<1>d. /\ rAssigned \in R!Maybe(Profiles) /\ rExists \subseteq Profiles /\ rProfile \in R!Maybe(Profiles)
      /\ rStore \in [exists : SUBSET Profiles, profile : R!Maybe(Profiles)]
      /\ view \in R!Maybe([identity : R!Identities, link : R!Maybe(R!Links)])
  BY DEF R!Init, R!Maybe
<1>4. RemedyType
  BY <1>2, <1>3, <1>b, <1>c, <1>d DEF RemedyType
<1>5. SetLocal = R!Idle /\ Switch = R!Idle /\ Reconnect = R!Idle
  BY <1>2 DEF SetLocal, Switch, Reconnect, R!Remedies
<1>6. BaseInv
  BY <1>1, <1>4, <1>5 DEF R!Init, BaseInv, R!Maybe, InSync
<1>7. CalmInv
  BY <1>1, <1>2, <1>5 DEF R!Init, CalmInv, OneAtATime, SetsIdentity, Switches, Reconnects,
     IdentityCured, ProfileCured, GitHubCured
<1> QED BY <1>6, <1>7 DEF RemedyInv

\* It implies that a remedy that has succeeded has cured.
LEMMA Cures == RemedyInv => R!FixCures
<1> SUFFICES ASSUME RemedyInv, view # None, ~met, NEW c \in fixed PROVE c \notin R!Issues
  BY DEF R!FixCures
<1>1. BaseInv /\ CalmInv
  BY DEF RemedyInv
<1>2. R!Issues = R!IdentityIssues([assigned |-> rAssigned], R!ProfileOf(R!ActiveProfile), view.identity)
                 \union R!GitHubIssues(R!LinkOf(view.link))
  BY DEF R!Issues
<1>3. CASE c \in OfIdentity
  <2>1. /\ Switch.at = "idle" /\ rStore.profile \in rExists /\ IsLocal /\ view.identity = rIdentity
    BY <1>1, <1>3 DEF CalmInv, IdentityCured
  <2>2. R!ActiveProfile = rStore.profile /\ rStore.profile \in Profiles
    BY <1>1, <2>1 DEF BaseInv, RemedyType, InSync, R!ActiveProfile
  <2>3. rStore.profile # None
    BY <2>2, GuardAssumption
  <2>4. c \notin R!IdentityIssues([assigned |-> rAssigned], R!ProfileOf(R!ActiveProfile), view.identity)
    BY <1>3, <2>1, <2>2, <2>3 DEF R!IdentityIssues, R!ProfileOf, R!IdentityUnset, R!Issue, IsLocal, OfIdentity
  <2>5. c \notin R!GitHubIssues(R!LinkOf(view.link))
    BY <1>3 DEF R!GitHubIssues, R!Issue, OfIdentity
  <2> QED BY <1>2, <2>4, <2>5
<1>4. CASE c \in OfProfile
  <2>1. Switch.at = "idle" /\ rAssigned # None /\ rProfile = rAssigned
    BY <1>1, <1>4 DEF CalmInv, ProfileCured
  <2>2. R!ActiveProfile = rAssigned /\ rAssigned \in Profiles
    BY <1>1, <2>1 DEF BaseInv, RemedyType, InSync, R!ActiveProfile, R!Maybe
  <2>3. R!ProfileOf(rAssigned) # None /\ R!ProfileOf(rAssigned).id = rAssigned
    BY <2>1, <2>2, GuardAssumption DEF R!ProfileOf, G!ProfileOf
  <2>4. c \notin R!IdentityIssues([assigned |-> rAssigned], R!ProfileOf(R!ActiveProfile), view.identity)
    BY <1>4, <2>1, <2>2, <2>3 DEF R!IdentityIssues, R!Issue, OfProfile
  <2>5. c \notin R!GitHubIssues(R!LinkOf(view.link))
    BY <1>4 DEF R!GitHubIssues, R!Issue, OfProfile
  <2> QED BY <1>2, <2>4, <2>5
<1>5. CASE c \in OfGitHub
  <2>1. view.link = "linked"
    BY <1>1, <1>5 DEF CalmInv, GitHubCured
  <2>2. R!LinkOf("linked") = None \/ R!LinkOf("linked") = [login |-> "account", token |-> TRUE,
            invalid |-> FALSE, scope |-> TRUE, actual |-> "account"]
    BY DEF R!LinkOf
  <2>3. R!GitHubIssues(R!LinkOf(view.link)) = {}
    BY <2>1, <2>2 DEF R!GitHubIssues, R!Issue
  <2>4. c \notin R!IdentityIssues([assigned |-> rAssigned], R!ProfileOf(R!ActiveProfile), view.identity)
    BY <1>5 DEF R!IdentityIssues, R!Issue, OfGitHub
  <2> QED BY <1>2, <2>3, <2>4
<1> QED BY <1>1, <1>3, <1>4, <1>5 DEF BaseInv

\* The bounds hold.
LEMMA RemedyCounts == /\ R!Act /\ RemedyType => rActs' \in 0..RemedyActs
                      /\ R!Fails /\ RemedyType => rMoves' \in 0..MaxMoves
BY GuardAssumption DEF R!Act, R!Fails, RemedyType

\* The button of another remedy.
LEMMA Others ==
    ASSUME NEW a \in R!Remedies, \A b \in R!Remedies \ {a} : button'[b] = button[b]
    PROVE  /\ a # "set-local-identity" => SetLocal' = SetLocal
           /\ a # "switch-active-profile" => Switch' = Switch
           /\ a # "reconnect-github" => Reconnect' = Reconnect
BY DEF SetLocal, Switch, Reconnect, R!Remedies

\* run, up to the call.
LEMMA ClickStep ==
    ASSUME RemedyInv, NEW a \in R!Remedies, R!Click(a)
    PROVE  RemedyInv'
<1>0. BaseInv /\ RemedyType
  BY DEF RemedyInv, BaseInv
<1> DEFINE new == [R!Idle EXCEPT !.at = "asked", !.to = R!Target(a)]
<1>1. R!Target(a) \in R!Maybe(Profiles)
  BY <1>0 DEF RemedyType, R!Target
<1>2. new \in Buttons /\ new.at = "asked" /\ new.to = R!Target(a) /\ ~new.timer /\ ~new.error
  BY <1>1 DEF R!Idle, Buttons, At
<1>3. button' \in [R!Remedies -> Buttons] /\ button'[a] = new
      /\ \A b \in R!Remedies \ {a} : button'[b] = button[b]
  BY <1>0, <1>2 DEF R!Click, RemedyType
<1> HIDE DEF new
<1>4. RemedyType'
  BY <1>0, <1>3, RemedyCounts DEF R!Click, R!files, RemedyType
<1>5. /\ UNCHANGED <<rAssigned, rExists, rProfile, rIdentity, link, rStore>>
      /\ fixed' = {} /\ button[a].at = "idle"
  BY DEF R!Click, R!files
<1>6. (Switch'.at # "answered" => Switch.at # "answered") /\ (Reconnect'.timer => Reconnect.timer)
  BY <1>0, <1>2, <1>3, <1>5, Others DEF Switch, Reconnect
<1>7. BaseInv'
  BY <1>0, <1>4, <1>5, <1>6 DEF BaseInv, InSync
<1>8. ASSUME ~met' PROVE CalmInv'
  <2>1. \A b \in R!Remedies \ {a} : button[b].at = "idle" /\ ~button[b].timer
    BY <1>8 DEF R!Click, R!Busy
  <2>2. OneAtATime'
    BY <1>3, <2>1 DEF OneAtATime
  <2>3. Switch.at = "idle"
    BY <1>5, <2>1 DEF Switch, R!Remedies
  <2>4. SetsIdentity'
    <3>1. CASE a = "set-local-identity"
      <4>1. new.to = rStore.profile /\ rStore.profile \in rStore.exists
        BY <1>2, <3>1, GuardAssumption DEF R!Click, R!Target, R!MissingTarget, R!ActiveProfile
      <4>2. SetLocal' = new
        BY <1>3, <3>1 DEF SetLocal
      <4> QED BY <1>0, <1>2, <1>5, <2>3, <4>1, <4>2 DEF SetsIdentity, Done, BaseInv, InSync
    <3>2. CASE a # "set-local-identity"
      BY <1>3, <2>1, <3>2, Others DEF SetsIdentity, SetLocal, R!Remedies
    <3> QED BY <3>1, <3>2
  <2>5. Switches'
    <3>1. CASE a = "switch-active-profile"
      BY <1>2, <1>3, <1>5, <3>1 DEF Switches, Switch, Done, R!Click, R!Target, R!MissingTarget
    <3>2. CASE a # "switch-active-profile"
      BY <1>3, <2>3, <3>2, Others DEF Switches
    <3> QED BY <3>1, <3>2
  <2>6. Reconnects'
    BY <1>2, <1>3, <2>1 DEF Reconnects, Reconnect, R!Remedies
  <2> QED BY <1>5, <2>2, <2>4, <2>5, <2>6 DEF CalmInv, IdentityCured, ProfileCured, GitHubCured
<1> QED BY <1>7, <1>8 DEF RemedyInv

\* A remedy on its way, which changes nothing that the others depend on.
LEMMA OnItsWay ==
    ASSUME RemedyInv, NEW a \in R!Remedies, RemedyType', button[a].at # "idle",
           \A b \in R!Remedies \ {a} : button'[b] = button[b],
           ~met /\ a # "reconnect-github" => button'[a].to = button[a].to,
           button'[a].timer = button[a].timer,
           a = "set-local-identity" /\ ~met /\ Done(SetLocal') => IsLocal',
           a = "switch-active-profile" /\ ~met /\ Done(Switch') => rProfile' = rAssigned,
           Switch'.at # "answered" => InSync',
           a # "set-local-identity" => rIdentity' = rIdentity,
           a # "switch-active-profile" => rProfile' = rProfile,
           ~met => rStore'.profile = rStore.profile \/ a = "switch-active-profile",
           UNCHANGED <<rAssigned, rExists, link, view, fixed, met>>
    PROVE  RemedyInv'
<1>0. BaseInv /\ RemedyType
  BY DEF RemedyInv, BaseInv
<1>1. Reconnect'.timer = Reconnect.timer
  BY Others DEF Reconnect
<1>2. BaseInv'
  BY <1>0, <1>1, Others DEF BaseInv
<1>3. ASSUME ~met PROVE CalmInv'
  <2>0. CalmInv
    BY <1>3 DEF RemedyInv
  <2>1. \A b \in R!Remedies \ {a} : button[b].at = "idle"
    BY <2>0 DEF CalmInv, OneAtATime
  <2>2. OneAtATime'
    BY <2>1 DEF OneAtATime
  <2>3. a # "set-local-identity" => SetLocal.at = "idle" /\ SetLocal'.at = "idle"
    BY <2>1, Others DEF SetLocal, R!Remedies
  <2>4. a # "switch-active-profile" => Switch.at = "idle" /\ Switch'.at = "idle"
    BY <2>1, Others DEF Switch, R!Remedies
  <2>5. SetsIdentity'
    BY <1>3, <2>0, <2>3 DEF CalmInv, SetsIdentity, SetLocal
  <2>6. Switches'
    BY <1>3, <2>0, <2>4 DEF CalmInv, Switches, Switch
  <2>7. Reconnects'
    BY <1>1, <2>0 DEF CalmInv, Reconnects
  <2>8. IdentityCured'
    BY <1>3, <2>0, <2>3, <2>4 DEF CalmInv, IdentityCured, IsLocal, SetLocal, Switch
  <2>9. ProfileCured'
    BY <1>3, <2>0, <2>4 DEF CalmInv, ProfileCured, Switch
  <2>10. GitHubCured'
    BY <2>0 DEF CalmInv, GitHubCured
  <2> QED BY <2>2, <2>5, <2>6, <2>7, <2>8, <2>9, <2>10 DEF CalmInv
<1> QED BY <1>2, <1>3 DEF RemedyInv

\* executeRemediation has its target: the one asked for.
LEMMA FindTargetStep ==
    ASSUME RemedyInv, NEW a \in R!Remedies, R!FindTarget(a)
    PROVE  RemedyInv'
<1>0. BaseInv /\ RemedyType
  BY DEF RemedyInv, BaseInv
<1> DEFINE to == IF button[a].to # None THEN button[a].to ELSE rAssigned
<1>1. to \in R!Maybe(Profiles)
  BY <1>0 DEF RemedyType, Buttons
<1>2. /\ button' \in [R!Remedies -> Buttons] /\ \A b \in R!Remedies \ {a} : button'[b] = button[b]
      /\ button'[a].at = "target" /\ button'[a].to = to /\ button'[a].timer = button[a].timer
  BY <1>0, <1>1, UpdateIs DEF R!FindTarget, At
<1>3. /\ UNCHANGED <<rAssigned, rExists, rProfile, rIdentity, link, flow, rStore, view, fixed, met,
                     missed, rActs, rMoves>>
      /\ button[a].at = "asked"
  BY DEF R!FindTarget, R!files, R!ghosts
<1>4. RemedyType'
  BY <1>0, <1>2, <1>3 DEF RemedyType
<1>5. ASSUME ~met, a # "reconnect-github" PROVE button'[a].to = button[a].to
  <2>1. CASE a = "set-local-identity"
    <3>1. button[a].to \in Profiles
      BY <1>0, <1>3, <1>5, <2>1 DEF RemedyInv, CalmInv, SetsIdentity, SetLocal, RemedyType
    <3> QED BY <1>2, <3>1, GuardAssumption
  <2>2. CASE a = "switch-active-profile"
    BY <1>2, <1>3, <1>5, <2>2 DEF RemedyInv, CalmInv, Switches, Switch
  <2> QED BY <1>5, <2>1, <2>2 DEF R!Remedies
<1>6. ~Done(SetLocal') \/ a # "set-local-identity"
  BY <1>2 DEF Done, SetLocal
<1>7. ~Done(Switch') \/ a # "switch-active-profile"
  BY <1>2 DEF Done, Switch
<1>8. Switch'.at # "answered" => InSync'
  BY <1>0, <1>2, <1>3, Others DEF BaseInv, InSync, Switch
<1> QED BY <1>2, <1>3, <1>4, <1>5, <1>6, <1>7, <1>8, OnItsWay

\* The call has been answered.
LEMMA AnsweredIs ==
    ASSUME RemedyType, NEW a \in R!Remedies, NEW error \in BOOLEAN, R!Answered(a, error, FALSE)
    PROVE  /\ button' \in [R!Remedies -> Buttons] /\ \A b \in R!Remedies \ {a} : button'[b] = button[b]
           /\ button'[a].at = "answered" /\ button'[a].to = button[a].to
           /\ button'[a].timer = button[a].timer /\ button'[a].error = error
<1> DEFINE fields == [at |-> "answered", error |-> error, code |-> FALSE]
<1>1. DOMAIN fields = {"at", "error", "code"} /\ fields["at"] = "answered"
      /\ fields["error"] = error /\ fields["code"] = FALSE
  OBVIOUS
<1>2. R!Update(a, fields)
  BY DEF R!Answered
<1> HIDE DEF fields
<1>3. \A x \in DOMAIN fields \ {"at", "to"} : fields[x] \in BOOLEAN
  BY <1>1
<1> QED BY <1>1, <1>2, <1>3, UpdateIs DEF At

\* The identity of the profile asked for is set, unless that is gone.
LEMMA SetLocalStep ==
    ASSUME RemedyInv, R!SetLocalIdentity
    PROVE  RemedyInv'
<1>0. BaseInv /\ RemedyType
  BY DEF RemedyInv, BaseInv
<1> DEFINE a == "set-local-identity"
<1>1. a \in R!Remedies
  BY DEF R!Remedies
<1>2. /\ button' \in [R!Remedies -> Buttons] /\ \A b \in R!Remedies \ {a} : button'[b] = button[b]
      /\ button'[a].at = "answered" /\ button'[a].to = button[a].to
      /\ button'[a].timer = button[a].timer /\ button'[a].error = (button[a].to \notin rExists)
  BY <1>0, <1>1, AnsweredIs DEF R!SetLocalIdentity
<1>3. /\ UNCHANGED <<rAssigned, rExists, rProfile, link, flow, rStore, view, fixed, met,
                     missed, rActs, rMoves>>
      /\ button[a].at = "target"
      /\ rIdentity' = IF button[a].to \in rExists
                      THEN [name |-> button[a].to, email |-> button[a].to, scope |-> "local"]
                      ELSE rIdentity
  BY DEF R!SetLocalIdentity, R!ghosts
<1>4. rIdentity' \in R!Identities
  BY <1>0, <1>3 DEF RemedyType, R!Identities, R!Maybe
<1>5. RemedyType'
  BY <1>0, <1>2, <1>3, <1>4 DEF RemedyType
<1>6. ~met /\ Done(SetLocal') => IsLocal'
  BY <1>2, <1>3 DEF RemedyInv, CalmInv, SetsIdentity, SetLocal, Done, IsLocal
<1>7. Switch' = Switch /\ InSync' = InSync
  BY <1>2, <1>3 DEF Switch, R!Remedies, InSync
<1> QED BY <1>0, <1>1, <1>2, <1>3, <1>5, <1>6, <1>7, OnItsWay DEF BaseInv

\* The profile active is the one asked for, in the files.
LEMMA SwitchStep ==
    ASSUME RemedyInv, R!SwitchActiveProfile
    PROVE  RemedyInv'
<1>0. BaseInv /\ RemedyType
  BY DEF RemedyInv, BaseInv
<1> DEFINE a == "switch-active-profile"
<1>1. a \in R!Remedies
  BY DEF R!Remedies
<1>2. /\ button' \in [R!Remedies -> Buttons] /\ \A b \in R!Remedies \ {a} : button'[b] = button[b]
      /\ button'[a].at = "answered" /\ button'[a].to = button[a].to
      /\ button'[a].timer = button[a].timer
  BY <1>0, <1>1, AnsweredIs DEF R!SwitchActiveProfile
<1>3. /\ UNCHANGED <<rAssigned, rExists, rIdentity, link, flow, rStore, view, fixed, met,
                     missed, rActs, rMoves>>
      /\ button[a].at = "target" /\ rProfile' = button[a].to
  BY DEF R!SwitchActiveProfile, R!ghosts
<1>4. rProfile' \in R!Maybe(Profiles)
  BY <1>0, <1>1, <1>3 DEF RemedyType, Buttons
<1>5. RemedyType'
  BY <1>0, <1>2, <1>3, <1>4 DEF RemedyType
<1>6. ~met /\ Done(Switch') => rProfile' = rAssigned
  BY <1>3 DEF RemedyInv, CalmInv, Switches, Switch
<1>7. Switch'.at = "answered"
  BY <1>2 DEF Switch
<1> QED BY <1>1, <1>2, <1>3, <1>5, <1>6, <1>7, OnItsWay

\* A code is issued.
LEMMA ReconnectStep ==
    ASSUME RemedyInv, R!ReconnectGitHub
    PROVE  RemedyInv'
<1>0. BaseInv /\ RemedyType
  BY DEF RemedyInv, BaseInv
<1> DEFINE a == "reconnect-github"
<1>1. a \in R!Remedies
  BY DEF R!Remedies
<1>2. /\ button' \in [R!Remedies -> Buttons] /\ \A b \in R!Remedies \ {a} : button'[b] = button[b]
      /\ button'[a].timer = button[a].timer
  BY <1>0, <1>1, UpdateIs DEF R!ReconnectGitHub, At
<1>3. /\ UNCHANGED <<rAssigned, rExists, rProfile, rIdentity, link, rStore, view, fixed, met,
                     missed, rActs, rMoves>>
      /\ button[a].at = "target"
  BY DEF R!ReconnectGitHub, R!files, R!ghosts
<1>4. flow' \in [Profiles -> BOOLEAN]
  BY <1>0 DEF R!ReconnectGitHub, RemedyType
<1>5. RemedyType'
  BY <1>0, <1>2, <1>3, <1>4 DEF RemedyType
<1>7. Switch' = Switch /\ InSync' = InSync
  BY <1>2, <1>3 DEF Switch, R!Remedies, InSync
<1> QED BY <1>0, <1>1, <1>2, <1>3, <1>5, <1>7, OnItsWay DEF BaseInv

\* A call that fails.
LEMMA ExecuteFailsStep ==
    ASSUME RemedyInv, NEW a \in R!Remedies, R!ExecuteFails(a)
    PROVE  RemedyInv'
<1>0. BaseInv /\ RemedyType
  BY DEF RemedyInv, BaseInv
<1>2. /\ button' \in [R!Remedies -> Buttons] /\ \A b \in R!Remedies \ {a} : button'[b] = button[b]
      /\ button'[a].at = "answered" /\ button'[a].to = button[a].to
      /\ button'[a].timer = button[a].timer /\ button'[a].error
  BY <1>0, AnsweredIs DEF R!ExecuteFails
<1>3. /\ UNCHANGED <<rAssigned, rExists, rProfile, rIdentity, link, flow, rStore, view, fixed, met,
                     missed, rActs>>
      /\ button[a].at = "target"
  BY DEF R!ExecuteFails, R!files, R!ghosts
<1>5. RemedyType'
  BY <1>0, <1>2, <1>3, RemedyCounts DEF RemedyType, R!ExecuteFails
<1>6. a = "set-local-identity" => ~Done(SetLocal')
  BY <1>2 DEF Done, SetLocal
<1>7. a = "switch-active-profile" => ~Done(Switch')
  BY <1>2 DEF Done, Switch
<1>8. Switch'.at # "answered" => InSync'
  BY <1>0, <1>2, <1>3, Others DEF BaseInv, InSync, Switch
<1> QED BY <1>2, <1>3, <1>5, <1>6, <1>7, <1>8, OnItsWay

\* The store is listed again.
LEMMA ReloadStep ==
    ASSUME RemedyInv, NEW a \in R!Remedies, R!Reload(a)
    PROVE  RemedyInv'
<1>0. BaseInv /\ RemedyType
  BY DEF RemedyInv, BaseInv
<1>2. /\ button' \in [R!Remedies -> Buttons] /\ \A b \in R!Remedies \ {a} : button'[b] = button[b]
      /\ button'[a].at = "reloading" /\ button'[a].to = button[a].to
      /\ button'[a].timer = button[a].timer /\ button'[a].error = button[a].error
  BY <1>0, UpdateIs DEF R!Reload, At
<1>3. /\ UNCHANGED <<rAssigned, rExists, rProfile, rIdentity, link, flow, view, fixed, met,
                     missed, rActs, rMoves>>
      /\ button[a].at = "answered" /\ InSync'
      /\ rStore' = [exists |-> rExists, profile |-> rProfile]
  BY DEF R!Reload, R!files, R!ghosts, InSync
<1>4. rStore' \in [exists : SUBSET Profiles, profile : R!Maybe(Profiles)]
  BY <1>0, <1>3 DEF RemedyType
<1>5. RemedyType'
  BY <1>0, <1>2, <1>3, <1>4 DEF RemedyType
<1>6. ASSUME ~met, a # "switch-active-profile" PROVE rStore' = rStore
  <2>1. Switch.at = "idle"
    BY <1>3, <1>6 DEF RemedyInv, CalmInv, OneAtATime, Switch, R!Remedies
  <2> QED BY <1>0, <1>3, <2>1 DEF BaseInv, InSync
<1>7. a = "set-local-identity" /\ ~met /\ Done(SetLocal') => IsLocal'
  BY <1>2, <1>3, <1>6 DEF RemedyInv, CalmInv, SetsIdentity, SetLocal, Done, IsLocal
<1>8. a = "switch-active-profile" /\ ~met /\ Done(Switch') => rProfile' = rAssigned
  BY <1>2, <1>3 DEF RemedyInv, CalmInv, Switches, Switch, Done
<1> QED BY <1>2, <1>3, <1>5, <1>6, <1>7, <1>8, OnItsWay

\* A remedy has succeeded: it has its codes, and the gates read again.
LEMMA SucceedsIs ==
    ASSUME RemedyInv, NEW a \in R!Remedies, R!Succeeds(a)
    PROVE  /\ view' = None
           /\ fixed' \subseteq OfIdentity \union OfProfile \union OfGitHub
           /\ a = "set-local-identity" => fixed' \subseteq OfIdentity
           /\ a = "switch-active-profile" => fixed' \subseteq OfProfile
           /\ a = "reconnect-github" => fixed' \subseteq OfGitHub
<1>1. view' = None /\ fixed' = {c \in R!Issues : R!ActionOf(c) = a}
  BY DEF R!Succeeds
<1> QED BY <1>1, Codes DEF R!Remedies

\* The codes of the three remedies are different ones.
LEMMA Apart ==
    /\ OfIdentity \intersect OfProfile = {} /\ OfIdentity \intersect OfGitHub = {}
    /\ OfProfile \intersect OfGitHub = {}
BY DEF OfIdentity, OfProfile, OfGitHub

\* A remedy comes to its end: it cures, shows an error, or waits for the sign-in.
LEMMA SettleStep ==
    ASSUME RemedyInv, NEW a \in R!Remedies, R!Settle(a)
    PROVE  RemedyInv'
<1>0. BaseInv /\ RemedyType
  BY DEF RemedyInv, BaseInv
<1> DEFINE waits == a = "reconnect-github" /\ ~button[a].error
<1>1. button[a] \in Buttons
  BY <1>0 DEF RemedyType
<1>2. /\ button' \in [R!Remedies -> Buttons] /\ \A b \in R!Remedies \ {a} : button'[b] = button[b]
      /\ button'[a].at = "idle" /\ button'[a].to = button[a].to
      /\ button'[a].timer = button[a].timer
  <2> DEFINE fields == [at |-> "idle", code |-> waits]
  <2>1. DOMAIN fields = {"at", "code"} /\ fields["at"] = "idle" /\ fields["code"] \in BOOLEAN
    OBVIOUS
  <2>2. R!Update(a, fields)
    BY DEF R!Settle
  <2> HIDE DEF fields
  <2>3. \A x \in DOMAIN fields \ {"at", "to"} : fields[x] \in BOOLEAN
    BY <2>1
  <2> QED BY <1>0, <2>1, <2>2, <2>3, UpdateIs DEF At
<1>3. /\ UNCHANGED <<rAssigned, rExists, rProfile, rIdentity, link, flow, rStore, met, rActs, rMoves>>
      /\ button[a].at = "reloading"
  BY DEF R!Settle, R!files
<1>4. missed' \in BOOLEAN
  BY <1>0, <1>1 DEF R!Settle, RemedyType
<1>5. InSync' = InSync /\ (Switch'.at # "answered" => Switch.at # "answered")
  BY <1>2, <1>3, Others DEF InSync, Switch
<1>6. CASE UNCHANGED <<view, fixed>>
  <2>1. RemedyType'
    BY <1>0, <1>2, <1>3, <1>4, <1>6 DEF RemedyType
  <2>2. a = "set-local-identity" => ~Done(SetLocal')
    BY <1>2 DEF Done, SetLocal
  <2>3. a = "switch-active-profile" => ~Done(Switch')
    BY <1>2 DEF Done, Switch
  <2> QED BY <1>0, <1>2, <1>3, <1>5, <1>6, <2>1, <2>2, <2>3, OnItsWay DEF BaseInv
<1>7. CASE R!Succeeds(a) /\ a # "reconnect-github" /\ ~button[a].error
  <2>1. RemedyType'
    BY <1>0, <1>2, <1>3, <1>4, <1>7, SucceedsIs DEF RemedyType, R!Maybe
  <2>2. Reconnect' = Reconnect
    BY <1>2, <1>7, Others
  <2>3. BaseInv'
    BY <1>0, <1>3, <1>5, <1>7, <2>1, <2>2, SucceedsIs DEF BaseInv
  <2>4. ASSUME ~met PROVE CalmInv'
    <3>0. CalmInv
      BY <2>4 DEF RemedyInv
    <3>1. \A b \in R!Remedies : button'[b].at = "idle"
      BY <1>2, <1>3, <3>0 DEF CalmInv, OneAtATime
    <3>2. SetLocal'.at = "idle" /\ Switch'.at = "idle"
      BY <3>1 DEF SetLocal, Switch, R!Remedies
    <3>3. Reconnects' /\ GitHubCured'
      BY <1>3, <1>7, <2>2, <3>0, SucceedsIs, Apart DEF CalmInv, Reconnects, GitHubCured, R!Remedies
    <3>4. IdentityCured'
      <4>1. CASE a = "set-local-identity"
        <5>1. Done(SetLocal) /\ SetLocal.at # "idle"
          BY <1>3, <1>7, <4>1 DEF Done, SetLocal
        <5>2. IsLocal /\ rStore.profile \in rExists
          BY <3>0, <5>1 DEF CalmInv, SetsIdentity
        <5> QED BY <1>3, <1>7, <3>2, <5>2, SucceedsIs DEF IdentityCured, IsLocal
      <4>2. CASE a = "switch-active-profile"
        BY <1>7, <4>2, SucceedsIs, Apart DEF IdentityCured
      <4> QED BY <1>7, <4>1, <4>2 DEF R!Remedies
    <3>5. ProfileCured'
      <4>1. CASE a = "switch-active-profile"
        <5>1. Done(Switch) /\ Switch.at # "idle"
          BY <1>3, <1>7, <4>1 DEF Done, Switch
        <5>2. rAssigned # None /\ rProfile = rAssigned
          BY <3>0, <5>1 DEF CalmInv, Switches
        <5> QED BY <1>3, <3>2, <5>2 DEF ProfileCured
      <4>2. CASE a = "set-local-identity"
        BY <1>7, <4>2, SucceedsIs, Apart DEF ProfileCured
      <4> QED BY <1>7, <4>1, <4>2 DEF R!Remedies
    <3> QED BY <3>1, <3>2, <3>3, <3>4, <3>5 DEF CalmInv, OneAtATime, SetsIdentity, Switches
  <2> QED BY <1>3, <2>3, <2>4 DEF RemedyInv
<1> QED BY <1>6, <1>7 DEF R!Settle

\* What a sign-in does to the button that may hear of it.
LEMMA HeardIs ==
    ASSUME RemedyType, NEW p \in Profiles, NEW fields, R!Heard(p, fields),
           fields = [authorized |-> TRUE, timer |-> TRUE] \/ fields = [code |-> FALSE]
    PROVE  /\ button' \in [R!Remedies -> Buttons] /\ SetLocal' = SetLocal /\ Switch' = Switch
           /\ \A b \in R!Remedies : button'[b].at = button[b].at
           /\ Reconnect'.timer => Reconnect.timer \/ (p = rAssigned /\ "timer" \in DOMAIN fields)
<1>1. CASE UNCHANGED button
  BY <1>1 DEF RemedyType, SetLocal, Switch, Reconnect
<1>2. CASE R!Hears(p) /\ R!Update("reconnect-github", fields)
  <2>1. "reconnect-github" \in R!Remedies
    BY DEF R!Remedies
  <2>2. DOMAIN fields \in {{"authorized", "timer"}, {"code"}}
        /\ \A x \in DOMAIN fields : fields[x] \in BOOLEAN
    <3>1. CASE fields = [authorized |-> TRUE, timer |-> TRUE]
      <4>1. DOMAIN fields = {"authorized", "timer"} /\ fields["authorized"] = TRUE /\ fields["timer"] = TRUE
        BY <3>1
      <4> QED BY <4>1
    <3>2. CASE fields = [code |-> FALSE]
      <4>1. DOMAIN fields = {"code"} /\ fields["code"] = FALSE
        BY <3>2
      <4> QED BY <4>1
    <3> QED BY <3>1, <3>2
  <2>3. /\ button' \in [R!Remedies -> Buttons]
        /\ \A b \in R!Remedies \ {"reconnect-github"} : button'[b] = button[b]
        /\ button'["reconnect-github"].at = button["reconnect-github"].at
        /\ button'["reconnect-github"].timer =
             IF "timer" \in DOMAIN fields THEN fields["timer"] ELSE button["reconnect-github"].timer
    BY <1>2, <2>1, <2>2, UpdateIs
  <2>4. p = rAssigned
    BY <1>2 DEF R!Hears
  <2>5. SetLocal' = SetLocal /\ Switch' = Switch
    BY <2>3 DEF SetLocal, Switch, R!Remedies
  <2>6. \A b \in R!Remedies : button'[b].at = button[b].at
    BY <2>3
  <2>7. Reconnect'.timer => Reconnect.timer \/ "timer" \in DOMAIN fields
    BY <2>3 DEF Reconnect
  <2> QED BY <2>3, <2>4, <2>5, <2>6, <2>7
<1> QED BY <1>1, <1>2 DEF R!Heard

\* A step that leaves the remedies where they are.
LEMMA StaysCalm ==
    ASSUME RemedyInv, RemedyType', SetLocal' = SetLocal, Switch' = Switch,
           \A b \in R!Remedies : button'[b].at = button[b].at,
           \A p \in Profiles : link'[p] \in {link[p], "linked"},
           Reconnect'.timer => rAssigned # None /\ link'[rAssigned] # "none"
                               /\ (~met => link'[rAssigned] = "linked"),
           \/ view' = view
           \/ view'.identity = rIdentity /\ (rAssigned # None => view'.link = link[rAssigned]),
           UNCHANGED <<rAssigned, rExists, rProfile, rIdentity, rStore, fixed, met>>
    PROVE  RemedyInv'
<1>0. BaseInv /\ RemedyType
  BY DEF RemedyInv, BaseInv
<1>1. BaseInv'
  BY <1>0 DEF BaseInv, InSync
<1>2. ASSUME ~met PROVE CalmInv'
  <2>0. CalmInv
    BY <1>2 DEF RemedyInv
  <2>1. rAssigned # None => rAssigned \in Profiles
    BY <1>0 DEF RemedyType, R!Maybe
  <2>2. GitHubCured'
    BY <2>0, <2>1 DEF CalmInv, GitHubCured
  <2>3. IdentityCured'
    BY <2>0 DEF CalmInv, IdentityCured, IsLocal
  <2>4. SetsIdentity' /\ Switches' /\ ProfileCured'
    BY <2>0 DEF CalmInv, SetsIdentity, Switches, ProfileCured, IsLocal
  <2>5. OneAtATime' /\ Reconnects'
    BY <1>2, <2>0 DEF CalmInv, OneAtATime, Reconnects
  <2> QED BY <2>2, <2>3, <2>4, <2>5 DEF CalmInv
<1> QED BY <1>1, <1>2 DEF RemedyInv

\* A sign-in ends.
LEMMA SignInSteps ==
    ASSUME RemedyInv, NEW p \in Profiles, R!Authorize(p, "linked") \/ R!SignInFails(p)
    PROVE  RemedyInv'
<1>0. BaseInv /\ RemedyType
  BY DEF RemedyInv, BaseInv
<1>t. Reconnect.timer => rAssigned # None /\ rAssigned \in Profiles /\ link[rAssigned] # "none"
                         /\ (~met => link[rAssigned] = "linked")
  BY <1>0 DEF RemedyInv, BaseInv, RemedyType, R!Maybe, CalmInv, Reconnects
<1>1. CASE R!Authorize(p, "linked")
  <2>1. /\ UNCHANGED <<rAssigned, rExists, rProfile, rIdentity, rStore, view, fixed, met, missed, rActs, rMoves>>
        /\ flow' = [flow EXCEPT ![p] = FALSE] /\ link' = [link EXCEPT ![p] = "linked"]
    BY <1>1 DEF R!Authorize, R!ghosts
  <2>2. /\ button' \in [R!Remedies -> Buttons] /\ SetLocal' = SetLocal /\ Switch' = Switch
        /\ \A b \in R!Remedies : button'[b].at = button[b].at
        /\ Reconnect'.timer => Reconnect.timer \/ p = rAssigned
    BY <1>0, <1>1, HeardIs DEF R!Authorize
  <2>3. link' \in [Profiles -> R!Links] /\ flow' \in [Profiles -> BOOLEAN]
    BY <1>0, <2>1 DEF RemedyType, R!Links
  <2>4. RemedyType'
    BY <1>0, <2>1, <2>2, <2>3 DEF RemedyType
  <2>5. \A q \in Profiles : link'[q] = IF q = p THEN "linked" ELSE link[q]
    BY <1>0, <2>1 DEF RemedyType
  <2>6. p # None
    BY GuardAssumption
  <2> QED BY <1>t, <2>1, <2>2, <2>4, <2>5, <2>6, StaysCalm
<1>2. CASE R!SignInFails(p)
  <2>1. /\ UNCHANGED <<rAssigned, rExists, rProfile, rIdentity, link, rStore, view, fixed, met, missed, rActs>>
        /\ flow' = [flow EXCEPT ![p] = FALSE]
    BY <1>2 DEF R!SignInFails, R!ghosts, R!files
  <2>2. /\ button' \in [R!Remedies -> Buttons] /\ SetLocal' = SetLocal /\ Switch' = Switch
        /\ \A b \in R!Remedies : button'[b].at = button[b].at
        /\ Reconnect'.timer => Reconnect.timer
    BY <1>0, <1>2, HeardIs DEF R!SignInFails
  <2>3. flow' \in [Profiles -> BOOLEAN]
    BY <1>0, <2>1 DEF RemedyType
  <2>4. RemedyType'
    BY <1>0, <1>2, <2>1, <2>2, <2>3, RemedyCounts DEF RemedyType, R!SignInFails
  <2> QED BY <1>t, <2>1, <2>2, <2>4, StaysCalm
<1> QED BY <1>1, <1>2

\* The gates have read again: what they show is what there is.
LEMMA GatesReadStep ==
    ASSUME RemedyInv, R!GatesRead
    PROVE  RemedyInv'
<1>0. BaseInv /\ RemedyType
  BY DEF RemedyInv, BaseInv
<1>t. Reconnect.timer => rAssigned # None /\ rAssigned \in Profiles /\ link[rAssigned] # "none"
                         /\ (~met => link[rAssigned] = "linked")
  BY <1>0 DEF RemedyInv, BaseInv, RemedyType, R!Maybe, CalmInv, Reconnects
<1>1. /\ UNCHANGED <<rAssigned, rExists, rProfile, rIdentity, link, flow, rStore, button, fixed, met,
                     missed, rActs, rMoves>>
      /\ view' = [identity |-> rIdentity, link |-> IF rAssigned = None THEN None ELSE link[rAssigned]]
  BY DEF R!GatesRead, R!ghosts, R!files
<1>2. view' \in [identity : R!Identities, link : R!Maybe(R!Links)]
  BY <1>0, <1>1 DEF RemedyType, R!Maybe
<1>3. RemedyType'
  BY <1>0, <1>1, <1>2 DEF RemedyType, R!Maybe
<1>4. SetLocal' = SetLocal /\ Switch' = Switch /\ Reconnect' = Reconnect
  BY <1>1 DEF SetLocal, Switch, Reconnect
<1> QED BY <1>t, <1>1, <1>3, <1>4, StaysCalm

\* "Authorized" has been up for its time: the account is linked.
LEMMA TimerStep ==
    ASSUME RemedyInv, R!AuthorizedTimer
    PROVE  RemedyInv'
<1>0. BaseInv /\ RemedyType
  BY DEF RemedyInv, BaseInv
<1> DEFINE a == "reconnect-github"
<1>1. a \in R!Remedies
  BY DEF R!Remedies
<1>2. /\ button' \in [R!Remedies -> Buttons] /\ \A b \in R!Remedies \ {a} : button'[b] = button[b]
      /\ button'[a].at = button[a].at /\ ~button'[a].timer
  <2> DEFINE fields == [timer |-> FALSE]
  <2>1. DOMAIN fields = {"timer"} /\ fields["timer"] = FALSE
    OBVIOUS
  <2>2. R!Update(a, fields)
    BY DEF R!AuthorizedTimer
  <2> HIDE DEF fields
  <2> QED BY <1>0, <1>1, <2>1, <2>2, UpdateIs
<1>3. /\ UNCHANGED <<rAssigned, rExists, rProfile, rIdentity, link, flow, met, missed, rActs, rMoves>>
      /\ Reconnect.timer /\ InSync' /\ R!Succeeds(a)
      /\ rStore' = [exists |-> rExists, profile |-> rProfile]
  BY DEF R!AuthorizedTimer, R!files, InSync, Reconnect
<1>4. RemedyType'
  BY <1>0, <1>1, <1>2, <1>3, SucceedsIs DEF RemedyType, R!Maybe
<1>5. SetLocal' = SetLocal /\ Switch' = Switch /\ ~Reconnect'.timer
  BY <1>1, <1>2, Others DEF Reconnect
<1>6. BaseInv'
  BY <1>0, <1>1, <1>3, <1>4, <1>5, SucceedsIs DEF BaseInv
<1>7. ASSUME ~met PROVE CalmInv'
  <2>0. CalmInv
    BY <1>7 DEF RemedyInv
  <2>1. Switch.at = "idle" => rStore' = rStore
    BY <1>0, <1>3 DEF BaseInv, InSync
  <2>2. SetLocal.at # "idle" => Switch.at = "idle"
    BY <2>0 DEF CalmInv, OneAtATime, SetLocal, Switch, R!Remedies
  <2>3. OneAtATime'
    BY <1>2, <2>0 DEF CalmInv, OneAtATime
  <2>4. SetsIdentity' /\ Switches'
    BY <1>3, <1>5, <2>0, <2>1, <2>2 DEF CalmInv, SetsIdentity, Switches, IsLocal
  <2>5. IdentityCured' /\ ProfileCured'
    BY <1>1, <1>3, SucceedsIs, Apart DEF IdentityCured, ProfileCured
  <2>6. GitHubCured' /\ Reconnects'
    BY <1>0, <1>1, <1>3, <1>5, <2>0, SucceedsIs DEF CalmInv, Reconnects, GitHubCured, BaseInv
  <2> QED BY <2>3, <2>4, <2>5, <2>6 DEF CalmInv
<1> QED BY <1>3, <1>6, <1>7 DEF RemedyInv

\* Elsewhere something changes: a remedy on its way need not cure any more.
LEMMA ElsewhereSteps ==
    ASSUME RemedyInv,
           \/ \E p \in R!Maybe(Profiles) : R!Reassign(p)
           \/ \E p \in Profiles : R!DeleteProfile(p) \/ R!SetActiveProfile(p) \/ R!Revoke(p)
    PROVE  RemedyInv'
<1>0. BaseInv /\ RemedyType
  BY DEF RemedyInv, BaseInv
<1> DEFINE a == "reconnect-github"
<1>r. a \in R!Remedies /\ button[a] \in Buttons /\ button[a].timer \in BOOLEAN
      /\ button[a].code \in BOOLEAN
  BY <1>0 DEF R!Remedies, RemedyType, Buttons
<1>u. ASSUME NEW t \in BOOLEAN, R!Update(a, [timer |-> t])
      PROVE  /\ button' \in [R!Remedies -> Buttons] /\ Switch' = Switch /\ Reconnect'.timer = t
  <2> DEFINE fields == [timer |-> t]
  <2>1. DOMAIN fields = {"timer"} /\ fields["timer"] = t
    OBVIOUS
  <2>2. R!Update(a, fields)
    BY <1>u
  <2> HIDE DEF fields
  <2>3. /\ button' \in [R!Remedies -> Buttons] /\ \A b \in R!Remedies \ {a} : button'[b] = button[b]
        /\ button'[a].timer = t
    BY <1>0, <1>r, <1>u, <2>1, <2>2, UpdateIs
  <2> QED BY <1>r, <2>3, Others DEF Reconnect
<1>1. ASSUME NEW p \in R!Maybe(Profiles), R!Reassign(p) PROVE RemedyInv'
  <2>1. /\ UNCHANGED <<rExists, rProfile, rIdentity, link, rStore, flow, fixed, rMoves>>
        /\ met' = TRUE /\ p \in R!Maybe(rExists) /\ rAssigned' = p /\ view' = None
    BY <1>1 DEF R!Reassign, R!Elsewhere
  <2>2. button' \in [R!Remedies -> Buttons] /\ Switch' = Switch /\ ~Reconnect'.timer
    BY <1>1, <1>u DEF R!Reassign
  <2>3. missed' \in BOOLEAN
    BY <1>0, <1>1, <1>r DEF R!Reassign, RemedyType
  <2>4. RemedyType'
    BY <1>0, <1>1, <2>1, <2>2, <2>3, RemedyCounts DEF RemedyType, R!Reassign, R!Elsewhere, R!Maybe
  <2>5. BaseInv'
    BY <1>0, <2>1, <2>2, <2>4 DEF BaseInv, InSync
  <2> QED BY <2>1, <2>5 DEF RemedyInv
<1>2. ASSUME NEW p \in Profiles, R!DeleteProfile(p) PROVE RemedyInv'
  <2>1. /\ UNCHANGED <<rIdentity, link, flow, fixed, rMoves>>
        /\ met' = TRUE /\ view' = None /\ rExists' = rExists \ {p}
        /\ rProfile' = IF rProfile = p THEN None ELSE rProfile
        /\ rStore' = [exists |-> rExists', profile |-> rProfile']
        /\ rAssigned' = IF rAssigned = p THEN None ELSE rAssigned
    BY <1>2 DEF R!DeleteProfile, R!Elsewhere
  <2>2. button' \in [R!Remedies -> Buttons] /\ Switch' = Switch
        /\ Reconnect'.timer = (button[a].timer /\ rAssigned # p)
    BY <1>2, <1>r, <1>u DEF R!DeleteProfile
  <2>3. missed' \in BOOLEAN
    BY <1>0, <1>2, <1>r DEF R!DeleteProfile, RemedyType
  <2>4. /\ rExists' \subseteq Profiles /\ rProfile' \in R!Maybe(Profiles)
        /\ rAssigned' \in R!Maybe(Profiles) /\ rAssigned' \in R!Maybe(rExists')
    BY <1>0, <2>1 DEF BaseInv, RemedyType, R!Maybe
  <2>5. rStore' \in [exists : SUBSET Profiles, profile : R!Maybe(Profiles)]
    BY <2>1, <2>4
  <2>6. RemedyType'
    BY <1>0, <1>2, <2>1, <2>2, <2>3, <2>4, <2>5, RemedyCounts
       DEF RemedyType, R!DeleteProfile, R!Elsewhere, R!Maybe
  <2>7. Reconnect'.timer => rAssigned' # None /\ link'[rAssigned'] # "none"
    BY <1>0, <2>1, <2>2 DEF BaseInv, Reconnect
  <2>8. BaseInv'
    BY <1>0, <2>1, <2>4, <2>6, <2>7 DEF BaseInv, InSync
  <2> QED BY <2>1, <2>8 DEF RemedyInv
<1>3. ASSUME NEW p \in Profiles, R!SetActiveProfile(p) PROVE RemedyInv'
  <2>1. /\ UNCHANGED <<rAssigned, rExists, rIdentity, link, button, missed, flow, fixed, rMoves>>
        /\ met' = TRUE /\ view' = None /\ rProfile' = p
        /\ rStore' = [exists |-> rExists, profile |-> p]
    BY <1>3 DEF R!SetActiveProfile, R!Elsewhere
  <2>2. RemedyType'
    BY <1>0, <1>3, <2>1, RemedyCounts DEF RemedyType, R!SetActiveProfile, R!Elsewhere, R!Maybe
  <2>3. BaseInv'
    BY <1>0, <2>1, <2>2 DEF BaseInv, InSync, Reconnect
  <2> QED BY <2>1, <2>3 DEF RemedyInv
<1>4. ASSUME NEW p \in Profiles, R!Revoke(p) PROVE RemedyInv'
  <2>1. /\ UNCHANGED <<rAssigned, rExists, rProfile, rIdentity, rStore, view, button, missed, flow,
                       fixed, rMoves>>
        /\ met' = TRUE /\ link' = [link EXCEPT ![p] = "invalid"]
    BY <1>4 DEF R!Revoke, R!Elsewhere
  <2>2. link' \in [Profiles -> R!Links] /\ \A q \in Profiles : link'[q] \in {link[q], "invalid"}
    BY <1>0, <2>1 DEF RemedyType, R!Links
  <2>3. RemedyType'
    BY <1>0, <1>4, <2>1, <2>2, RemedyCounts DEF RemedyType, R!Revoke, R!Elsewhere
  <2>4. rAssigned # None => rAssigned \in Profiles
    BY <1>0 DEF RemedyType, R!Maybe
  <2>5. BaseInv'
    BY <1>0, <2>1, <2>2, <2>3, <2>4 DEF BaseInv, InSync, Reconnect, Switch
  <2> QED BY <2>1, <2>5 DEF RemedyInv
<1> QED BY <1>1, <1>2, <1>3, <1>4

\* Every step of Remedy keeps the invariant.
LEMMA NextRemedy == RemedyInv /\ [R!Next]_remedyVars => RemedyInv'
<1> SUFFICES ASSUME RemedyInv, [R!Next]_remedyVars PROVE RemedyInv'
  OBVIOUS
<1>1. ASSUME NEW a \in R!Remedies,
             R!Click(a) \/ R!FindTarget(a) \/ R!ExecuteFails(a) \/ R!Reload(a) \/ R!Settle(a)
      PROVE  RemedyInv'
  BY <1>1, ClickStep, FindTargetStep, ExecuteFailsStep, ReloadStep, SettleStep
<1>2. ASSUME NEW p \in Profiles, R!Authorize(p, "linked") \/ R!SignInFails(p) PROVE RemedyInv'
  BY <1>2, SignInSteps
<1>3. CASE R!GatesRead
  BY <1>3, GatesReadStep
<1>4. CASE R!SetLocalIdentity \/ R!SwitchActiveProfile \/ R!ReconnectGitHub \/ R!AuthorizedTimer
  BY <1>4, SetLocalStep, SwitchStep, ReconnectStep, TimerStep
<1>5. CASE UNCHANGED remedyVars
  <2>1. RemedyType' /\ InSync' = InSync
    BY <1>5 DEF remedyVars, RemedyInv, BaseInv, RemedyType, InSync
  <2> QED BY <1>5, <2>1 DEF remedyVars, RemedyInv, BaseInv, CalmInv, OneAtATime, SetsIdentity, Switches,
             Reconnects, IdentityCured, ProfileCured, GitHubCured, IsLocal, SetLocal, Switch, Reconnect
<1> QED BY <1>1, <1>2, <1>3, <1>4, <1>5, ElsewhereSteps DEF R!Next, R!Answers

\* fixed names a link that was missing only when a sign-in has made it.
LEMMA ReconnectedStep ==
    ASSUME RemedyInv, [R!Next]_remedyVars, "GITHUB_NOT_CONNECTED" \in fixed', fixed' # fixed
    PROVE  link[rAssigned] # "none"
<1>1. "GITHUB_NOT_CONNECTED" \notin OfIdentity \union OfProfile
  BY DEF OfIdentity, OfProfile
<1>2. ASSUME NEW a \in R!Remedies, R!Settle(a) PROVE FALSE
  <2>1. R!Succeeds(a) /\ a # "reconnect-github"
    BY <1>2 DEF R!Settle
  <2> QED BY <1>1, <2>1, SucceedsIs DEF R!Remedies
<1>3. CASE R!AuthorizedTimer
  BY <1>3 DEF R!AuthorizedTimer, RemedyInv, BaseInv, Reconnect
<1>4. \/ \E a \in R!Remedies : R!Click(a) \/ R!FindTarget(a) \/ R!ExecuteFails(a) \/ R!Reload(a)
      \/ \E p \in Profiles : R!Authorize(p, "linked") \/ R!SignInFails(p) \/ R!DeleteProfile(p)
                             \/ R!SetActiveProfile(p) \/ R!Revoke(p)
      \/ \E p \in R!Maybe(Profiles) : R!Reassign(p)
      \/ R!SetLocalIdentity \/ R!SwitchActiveProfile \/ R!ReconnectGitHub \/ R!GatesRead
      \/ UNCHANGED remedyVars
      => fixed' \in {{}, fixed}
  BY DEF R!Click, R!FindTarget, R!ExecuteFails, R!Reload, R!Authorize, R!SignInFails,
         R!DeleteProfile, R!SetActiveProfile, R!Revoke, R!Reassign, R!SetLocalIdentity,
         R!SwitchActiveProfile, R!ReconnectGitHub, R!GatesRead, R!Elsewhere, R!ghosts, remedyVars
<1> QED BY <1>2, <1>3, <1>4 DEF R!Next, R!Answers

-----------------------------------------------------------------------------
(* The three parts together: a step of one leaves the others.              *)

AllInv == GuardInv /\ RemedyInv

\* Both invariants hold at first.
LEMMA InitAll == MCInit => AllInv
BY InitGuard, InitRemedy DEF MCInit, AllInv

\* A step is one of Guard, of Remedy, or neither.
LEMMA Parts == [MCNext]_allVars => [G!Next]_guardVars /\ [R!Next]_remedyVars
BY DEF MCNext, Guarding, Fixing, Drafting, allVars

\* Every step keeps both.
LEMMA NextAll == AllInv /\ [MCNext]_allVars => AllInv'
BY Parts, NextGuard, NextRemedy DEF AllInv

\* They are invariants.
LEMMA AllInvariance == MCSpec => []AllInv
BY InitAll, NextAll, PTL DEF MCSpec

(* The badge of the header and the Safety Center never disagree on screen: *)
(* when both have settled and have read the same identity they are about   *)
(* the same repository, assignment and profile and have the same verdict,  *)
(* whatever was switched, assigned, left or superseded meanwhile           *)
(* (headerGuardStore.ts, safetyCenterStore.ts).                            *)
THEOREM VerdictsAgree == MCSpec => []NeverDisagree
<1>1. GuardInv => G!TypeOK
  BY DEF GuardInv, AppType, HeaderInv, CentreInv, G!TypeOK
<1>2. RemedyInv => R!TypeOK
  BY RemedyTypes DEF RemedyInv, BaseInv
<1>3. AllInv => NeverDisagree
  BY <1>1, <1>2, Agrees DEF AllInv, NeverDisagree
<1> QED BY <1>3, AllInvariance, PTL

(* What is said of the active repository is said of it as it is now, and   *)
(* the branch's badge agrees with the verdict on a push, which is reached  *)
(* another way, for any policy and remotes (SafetyCenterScreen.tsx).       *)
THEOREM BadgesCorrect == MCSpec => []BadgesAreTrue
<1>1. AllInv => BadgesAreTrue
  BY IsOfActive, MatchesVerdict DEF AllInv, BadgesAreTrue
<1> QED BY <1>1, AllInvariance, PTL

(* A remedy that says it has succeeded removes the issues it was offered   *)
(* for, unless something else was changed since it was asked for, and      *)
(* reconnecting succeeds only with the account linked                      *)
(* (RemediationButton.tsx, remediationExecutor.ts).                        *)
THEOREM RemediesCorrect == MCSpec => RemediesCure
<1> DEFINE Linked == "GITHUB_NOT_CONNECTED" \in fixed' /\ fixed' # fixed => link[rAssigned] # "none"
<1>1. AllInv => R!FixCures
  BY Cures DEF AllInv
<1>2. AllInv /\ [MCNext]_allVars => [Linked]_R!vars
  BY Parts, ReconnectedStep DEF AllInv
<1>3. MCSpec => [][Linked]_R!vars
  BY <1>2, AllInvariance, PTL DEF MCSpec
<1>4. MCSpec => []R!FixCures
  BY <1>1, AllInvariance, PTL
<1> QED BY <1>3, <1>4 DEF RemediesCure, R!ReconnectedWhenLinked

-----------------------------------------------------------------------------
(* The verdicts of SafetyGate, for every profile, policy, identity and set *)
(* of remotes: the two rules that pick the remote to push to agree, and    *)
(* what the gates let through keeps the policy and the profile's identity. *)

\* What is picked from a set is in it.
LEMMA OnlyIsIn == ASSUME NEW S, S # {} PROVE G!Only(S) \in S
BY DEF G!Only

(* An issue that is no warning, and the one warning that the push gate     *)
(* names, hold a push back.                                                *)
LEMMA Held ==
    ASSUME NEW repository, NEW who, NEW id, NEW to,
           G!CanPush(repository, who, id, to),
           NEW c \in G!PushIssues(repository, who, id, to)
    PROVE  c \in G!Warnings /\ c # "PUSH_POLICY_INCOMPLETE"
BY DEF G!CanPush, G!HasBlocker, G!Blockers

-----------------------------------------------------------------------------
(* pushTarget.ts and resolvePushTarget of the push gate are the same rule  *)
(* written twice: the remote that Commit & Push names is the one that the  *)
(* gate checks the policy against, and it asks the user to choose just     *)
(* where the gate has no target.                                           *)
THEOREM TargetsAgree ==
    ASSUME NEW remotes, NEW upstream, None \notin remotes
    PROVE  LET pick == G!PickPushTarget(remotes, upstream)
               target == G!ResolvePushTarget(remotes, upstream)
           IN  /\ pick.kind = "remote" <=> target # None
               /\ pick.kind = "remote" => target \in remotes /\ pick.remote = target.name
<1> DEFINE kept == G!Named(remotes, upstream)
           origin == G!Named(remotes, Origin)
           target == G!ResolvePushTarget(remotes, upstream)
           pick == G!PickPushTarget(remotes, upstream)
<1>1. kept \subseteq remotes /\ origin \subseteq remotes
  BY DEF G!Named
<1>2. G!Cardinality(remotes) = Cardinality(remotes)
  BY DEF G!Cardinality, Cardinality
<1>3. CASE remotes = {}
  <2>1. kept = {} /\ origin = {} /\ Cardinality(remotes) # 1
    BY <1>1, <1>3, FS_EmptySet
  <2>2. target = None
    BY <1>2, <2>1 DEF G!ResolvePushTarget
  <2>3. pick = [kind |-> "none"]
    BY <1>3 DEF G!PickPushTarget
  <2> QED
    BY <2>2, <2>3
<1>4. CASE kept # {}
  <2>1. G!Only(kept) \in remotes
    BY <1>1, <1>4, OnlyIsIn
  <2>2. target = G!Only(kept)
    BY <1>4 DEF G!ResolvePushTarget
  <2>3. pick = [kind |-> "remote", remote |-> G!Only(kept).name, reason |-> "upstream"]
    BY <1>1, <1>4 DEF G!PickPushTarget
  <2> QED
    BY <2>1, <2>2, <2>3
<1>5. CASE kept = {} /\ origin # {}
  <2>1. G!Only(origin) \in remotes
    BY <1>1, <1>5, OnlyIsIn
  <2>2. target = G!Only(origin)
    BY <1>5 DEF G!ResolvePushTarget
  <2>3. pick = [kind |-> "remote", remote |-> G!Only(origin).name, reason |-> "origin"]
    BY <1>1, <1>5 DEF G!PickPushTarget
  <2> QED
    BY <2>1, <2>2, <2>3
<1>6. CASE kept = {} /\ origin = {} /\ remotes # {}
  <2>1. G!Only(remotes) \in remotes
    BY <1>6, OnlyIsIn
  <2>2. CASE Cardinality(remotes) = 1
    <3>1. target = G!Only(remotes)
      BY <1>2, <1>6, <2>2 DEF G!ResolvePushTarget
    <3>2. pick = [kind |-> "remote", remote |-> G!Only(remotes).name, reason |-> "only-remote"]
      BY <1>2, <1>6, <2>2 DEF G!PickPushTarget
    <3> QED
      BY <2>1, <3>1, <3>2
  <2>3. CASE Cardinality(remotes) # 1
    <3>1. target = None
      BY <1>2, <1>6, <2>3 DEF G!ResolvePushTarget
    <3>2. pick.kind = "choice-required"
      BY <1>2, <1>6, <2>3 DEF G!PickPushTarget
    <3> QED
      BY <3>1, <3>2
  <2> QED
    BY <2>2, <2>3
<1> QED
  BY <1>3, <1>4, <1>5, <1>6

(* What the push gate lets through keeps the policy of the repository: a   *)
(* blocked branch never goes out, and under a scoped policy only a branch  *)
(* that it allows (policy issues of core/safety, whichever the remotes,    *)
(* the profile and the account are).                                       *)
THEOREM PushKeepsPolicy ==
    ASSUME NEW repository, NEW who, NEW id, NEW to,
           repository.policy # None, repository.policy.scoped \in BOOLEAN,
           G!CanPush(repository, who, id, to)
    PROVE  /\ ~G!Matches(to.branch, repository.policy.blocked)
           /\ repository.policy.scoped => G!Matches(to.branch, repository.policy.allowed)
<1> DEFINE policy == repository.policy
           issues == G!PolicyIssues(policy, to.branch, to.remotes, to.upstream)
<1>1. issues \subseteq G!PushIssues(repository, who, id, to)
  BY DEF G!PushIssues
<1>2. {"PROTECTED_BRANCH_PUSH", "PUSH_POLICY_INCOMPLETE", "BRANCH_NOT_ALLOWED"}
         \intersect issues = {}
  BY <1>1, Held DEF G!Warnings
<1>3. ~G!Matches(to.branch, policy.blocked)
  <2>1. G!Matches(to.branch, policy.blocked) => "PROTECTED_BRANCH_PUSH" \in issues
    BY DEF G!PolicyIssues, G!Issue
  <2> QED
    BY <1>2, <2>1
<1>4. ASSUME policy.scoped PROVE G!Matches(to.branch, policy.allowed)
  <2>1. policy.allowed = {} => "PUSH_POLICY_INCOMPLETE" \in issues
    BY <1>3, <1>4 DEF G!PolicyIssues, G!Issue
  <2>2. policy.allowed # {} /\ ~G!Matches(to.branch, policy.allowed)
           => "BRANCH_NOT_ALLOWED" \in issues
    BY <1>3, <1>4 DEF G!PolicyIssues, G!Issue
  <2> QED
    BY <1>2, <2>1, <2>2
<1> QED
  BY <1>3, <1>4

(* Where the header's badge is "blocked" neither gate lets anything        *)
(* through: no commit and no push of a repository that is not assigned, is *)
(* assigned to another profile or has another identity (headerGuard.ts     *)
(* and the gates ask the same identity issues).                            *)
THEOREM BlockedBadgeBlocks ==
    ASSUME NEW repository, NEW who, NEW id, NEW work, NEW to,
           G!HeaderGuard(repository, who, id) = "blocked"
    PROVE  /\ ~G!CanCommit(repository, who, id, work)
           /\ ~G!CanPush(repository, who, id, to)
<1>1. PICK c \in G!IdentityIssues(repository, who, id) : c \notin G!Warnings
  BY DEF G!HeaderGuard, G!HasBlocker, G!Blockers
<1> QED
  BY <1>1 DEF G!CanCommit, G!CanPush, G!HasBlocker, G!Blockers, G!CommitIssues, G!PushIssues

(* A gate that lets a commit or a push through has a profile, and the      *)
(* identity git will use is that profile's.                                *)
LEMMA IdentityHeld ==
    ASSUME NEW repository, NEW who, NEW id,
           G!IdentityIssues(repository, who, id) \subseteq G!Warnings
    PROVE  /\ who # None /\ repository.assigned = who.id
           /\ id.name = who.author[1] /\ id.email = who.author[2]
<1> DEFINE issues == G!IdentityIssues(repository, who, id)
<1>1. who # None
  BY DEF G!IdentityIssues, G!Warnings
<1>2. "IDENTITY_UNSET" \notin issues /\ "NAME_MISMATCH" \notin issues
      /\ "EMAIL_MISMATCH" \notin issues /\ "PROFILE_MISMATCH" \notin issues
      /\ "REPO_UNASSIGNED" \notin issues
  BY DEF G!Warnings
<1>3. ~G!IdentityUnset(id)
  BY <1>1, <1>2 DEF G!IdentityIssues
<1>4. id.name = who.author[1] /\ id.email = who.author[2]
  BY <1>1, <1>2, <1>3 DEF G!IdentityIssues, G!Issue
<1>5. repository.assigned = who.id
  BY <1>1, <1>2 DEF G!IdentityIssues, G!Issue
<1> QED
  BY <1>1, <1>4, <1>5

(* What Commit & Push lets through is the profile's own: the commit it is  *)
(* about to make and every commit that goes out with it has the profile's  *)
(* name and email as its author (canCommitAndPush: the authors going out   *)
(* must have been read, and the new commit's is added to them).            *)
THEOREM OwnAuthorsGoOut ==
    ASSUME NEW Authors, None \notin SUBSET Authors,
           NEW Rs, NEW Bs, NEW Us, NEW Gs,
           NEW repository, NEW who, NEW id, NEW work,
           <<id.name, id.email>> \in Authors,
           NEW to \in [remotes : Rs, branch : Bs, upstream : Us, github : Gs,
                       outgoing : (SUBSET Authors) \union {None}],
           G!CanCommitAndPush(repository, who, id, work, to)
    PROVE  /\ id.name = who.author[1] /\ id.email = who.author[2]
           /\ \A a \in to.outgoing \union {<<id.name, id.email>>} : a = who.author
<1> DEFINE all == to.outgoing \union {<<id.name, id.email>>}
           out == [to EXCEPT !.outgoing = @ \union {<<id.name, id.email>>}]
<1>1. to.outgoing # None /\ G!CanPush(repository, who, id, out)
  BY Zenon DEF G!CanCommitAndPush
<1>2. out.outgoing = all /\ all \in SUBSET Authors /\ all # None
  BY <1>1
<1>3. G!PushIssues(repository, who, id, out) \subseteq G!Warnings
  BY <1>1, Held
<1>4. G!IdentityIssues(repository, who, id) \subseteq G!Warnings
  BY <1>3 DEF G!PushIssues
<1>5. who # None /\ id.name = who.author[1] /\ id.email = who.author[2]
  BY <1>4, IdentityHeld
<1>6. G!AuthorIssues(all, who) \subseteq G!Warnings
  BY <1>2, <1>3 DEF G!PushIssues
<1>7. "OUTGOING_WRONG_AUTHOR" \notin G!AuthorIssues(all, who)
  BY <1>6 DEF G!Warnings
<1>8. ~ \E a \in all : a # who.author
  BY <1>2, <1>5, <1>7 DEF G!AuthorIssues, G!Issue
<1> QED
  BY <1>5, <1>8
================================================================================
