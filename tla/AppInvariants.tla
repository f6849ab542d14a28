---------------------------- MODULE AppInvariants ----------------------------
(***************************************************************************)
(* The invariants with which AppProofs proves the properties of ActiveRepo *)
(* and Records, in named parts.  BranchInv is inductive for the branches.  *)
(* RecordInv is for the records: Base holds of every state; while no two   *)
(* calls have met at a file, so do Steady (what is pending explains every  *)
(* difference between the files and the stores), Aim (who is the active    *)
(* profile, or will be) and ListSound (what has left the list has left the *)
(* file).                                                                  *)
(***************************************************************************)
EXTENDS MCApp

-----------------------------------------------------------------------------
(* The branches: the inductive invariant.                                  *)

ShownState == [repo : Maybe(Repos), list : Lists, of : Maybe(Repos),
               loading : BOOLEAN, failed : BOOLEAN, switching : BOOLEAN,
               out : [Outcomes -> Maybe(Branches)],
               armed : [Confirms -> Maybe(Branches)]]

\* A pending request, when repository a is active and u are the refusals: what
\* is about a branch names one, only a request for a is current, and the
\* stronger deletion, like the answer "not merged", follows a refusal.
GoodCall(c, a, u) ==
    /\ c \in Pending \union {Idle}
    /\ c # Idle =>
        /\ c.op \notin {"load", "prune"} => c.arg # None
        /\ c.current => c.repo = a
        /\ c.op = "force" => <<c.repo, c.arg>> \in u
        /\ c.answer = "unmerged" => <<c.repo, c.arg>> \in u

GoodCalls(cs, a, u) ==
    /\ cs \in [Slots -> Pending \union {Idle}]
    /\ \A q \in Slots : GoodCall(cs[q], a, u)

Switching(cs) == {q \in Slots : cs[q] # Idle /\ cs[q].op \in Switches}

\* The picker is disabled just while one request switches.
OneSwitch(cs, disabled) ==
    /\ \A p, q \in Switching(cs) : p = q
    /\ disabled <=> Switching(cs) # {}

\* The store is of repository a, and has no outcome where there is none.
GoodShown(s, a, u) ==
    /\ s \in ShownState
    /\ s.repo = a /\ s.of = a
    /\ s.armed["force"] # None => <<a, s.armed["force"]>> \in u
    /\ a = None => s.out = NoOutcome

Typed ==
    /\ head \in [Repos -> Maybe(Branches)]
    /\ refs \in [Repos -> SUBSET Branches]
    /\ held \subseteq Held
    /\ active \in Maybe(Repos)
    /\ currentBranch \in Maybe(Branches)
    /\ screen \in {"branches", "other"}
    /\ asked \in [repo : Maybe(Repos), pending : BOOLEAN]
    /\ watch \in [repo : Maybe(Repos), unseen : BOOLEAN]
    /\ event \in BOOLEAN
    /\ acts \in 0..MaxActs /\ moves \in 0..MaxMoves
    /\ unmerged \subseteq Repos \X Branches

BranchInv ==
    /\ Typed
    /\ GoodCalls(calls, active, unmerged)
    /\ GoodShown(shown, active, unmerged)
    /\ OneSwitch(calls, shown.switching)

\* A step keeps every outcome shown.
Survive(s, t) == \A o \in Outcomes : s.out[o] # None => t.out[o] # None

-----------------------------------------------------------------------------
(* Records: the shapes of the calls, and the types.                        *)

Listings == {"loadProfiles", "loadRepos"}
OnP == R!OnProfiles \union {"loadProfiles"}
OnR == R!OnRepos \union {"loadRepos"}
Adds == {"createRepo", "initRepo"}

\* How far a call of each kind goes.
Stages(op) ==
    IF op = "setActive" THEN {"asked"}
    ELSE IF op \in Listings THEN {"asked", "read"}
    ELSE IF op = "disconnect" THEN {"asked", "read", "written", "listing"}
    ELSE IF op = "deleteProfile"
         THEN {"asked", "read", "cascade", "pruning", "written", "listing"}
    ELSE {"asked", "read", "written"}

\* The files a call has read, and the record it is about.
Shaped(c) ==
    /\ c.at \in Stages(c.op)
    /\ c.op \in OnP /\ c.at # "asked" => c.p \in R!ProfilesFile
    /\ c.op \in OnR /\ c.at # "asked" => c.r \in R!ReposFile
    /\ c.op = "deleteProfile" /\ c.at \in {"pruning", "written", "listing"} => c.r \in R!ReposFile
    /\ c.op \in R!Creates => c.id = None \/ c.at = "written"
    /\ c.op \in R!Creates /\ c.at = "written" => c.id \in Profiles
    /\ c.op \in R!OnProfiles \ R!Creates => c.id \in Profiles
    /\ c.op \in R!OnProfiles \ (R!Creates \union {"deleteProfile"}) /\ c.at = "read" =>
          c.p[c.id] # None
    /\ c.op = "updateProfile" => c.data \in R!Data
    /\ c.op \in R!OnRepos => c.id \in Repos
    /\ c.op = "setActive" => c.to \in Profiles /\ c.id = None

GoodSlot(c) == c # None => c \in R!Call /\ Shaped(c)

GoodRecordCalls(cs) ==
    /\ cs \in [R!Slots -> R!Call \union {None}]
    /\ \A q \in R!Slots : GoodSlot(cs[q])

FileState == [p : R!ProfilesFile, r : R!ReposFile, active : R!Maybe(Profiles)]

KnownState == [p : R!ProfilesFile, active : R!Maybe(Profiles), loading : BOOLEAN,
               r : R!ReposFile, error : BOOLEAN]

RecordsTyped ==
    /\ file \in FileState /\ fresh \subseteq Profiles /\ known \in KnownState
    /\ repo \in R!Maybe(R!Record) /\ selected \in R!Maybe(Profiles)
    /\ rScreen \in {"profiles", "repositories", "other"} /\ ready \in BOOLEAN
    /\ pForm \in R!ProfileForm /\ rForm \in R!RepoForm
    /\ GoodRecordCalls(rCalls)
    /\ follow \in R!Maybe(Profiles) /\ overlap \in BOOLEAN /\ crossed \in BOOLEAN
    /\ rActs \in 0..RecordActs /\ rMoves \in 0..RecordMoves

\* Two calls that differ only in whether they are still waited for.
Like(c, d) ==
    /\ c = None <=> d = None
    /\ c # None => /\ d.op = c.op /\ d.id = c.id /\ d.data = c.data /\ d.to = c.to
                   /\ d.at = c.at /\ d.p = c.p /\ d.r = c.r /\ d.active = c.active

OthersLike(cs, ds, q) == \A x \in R!Slots \ {q} : Like(cs[x], ds[x])
AllLike(cs, ds) == \A x \in R!Slots : Like(cs[x], ds[x])

\* The calls once a new one is made from slot q.
Made(in, q, call) ==
    [x \in R!Slots |->
        IF x = q THEN call
        ELSE IF in[x] # None /\ in[x].op = "setActive" /\ call.op = "setActive"
        THEN [in[x] EXCEPT !.old = TRUE]
        ELSE in[x]]

MeetsOther(in, q, op) == \E x \in R!Slots \ {q} : in[x] # None /\ R!Meet(in[x].op, op)

-----------------------------------------------------------------------------
(* Records: a step of one call.                                            *)

\* What a call keeps on its way.
Kept(c, d) == d.op = c.op /\ d.id = c.id /\ d.data = c.data /\ d.to = c.to /\ d.old = c.old

\* The call of slot q goes on, from stage a to stage b.
Goes(q, d, a, b) ==
    /\ rCalls[q] # None /\ rCalls[q].at = a /\ d # None /\ d.at = b
    /\ rCalls' = [rCalls EXCEPT ![q] = d] /\ GoodSlot(d)

\* What a change makes of its own profile.
Written(c, i, v) ==
    /\ c.op \in R!Creates => v = [of |-> i, linked |-> FALSE]
    /\ c.op = "deleteProfile" => v = None
    /\ c.op \in {"updateProfile", "authorized", "disconnect"} => v # None
    /\ c.op = "updateProfile" => v.of = c.data.of
    /\ c.op \in {"authorized", "disconnect"} => v.of = c.p[i].of

-----------------------------------------------------------------------------
(* Records: a new call, and a new active repository.                       *)

CallFor(op, id, data, to) ==
    [op |-> op, id |-> id, data |-> data, to |-> to, at |-> "asked",
     p |-> None, r |-> None, active |-> None, here |-> TRUE, moved |-> FALSE, old |-> FALSE]

\* A call just made has read nothing yet.
Asked(c) == c.at = "asked" /\ c.p = None /\ c.r = None /\ c.active = None /\ c.old = FALSE

\* A call is made: what every lemma below needs to know of it.
AsksFor(q, c) ==
    /\ rCalls[q] = None /\ rCalls'[q] = c
    /\ overlap' = (overlap \/ MeetsOther(rCalls, q, c.op))
    /\ OthersLike(rCalls, rCalls', q)
    /\ \A x \in R!Slots \ {q} : rCalls[x] # None =>
          rCalls'[x].old = (rCalls[x].old \/ (rCalls[x].op = "setActive" /\ c.op = "setActive"))

\* The active repository becomes rec, the calls those of `in` and perhaps one more.
Activates(rec, in, q) ==
    /\ repo' = rec /\ crossed' \in BOOLEAN /\ (crossed => crossed')
    /\ follow' \in R!Maybe(Profiles)
    /\ \/ /\ rCalls' = in /\ overlap' = overlap
       \/ /\ rec # None /\ rec.to \in Profiles /\ known.p[rec.to] # None
          /\ rCalls' = Made(in, q, R!SetActiveCall(rec.to))
          /\ overlap' = (overlap \/ MeetsOther(in, q, "setActive"))

\* The call made is c.
Requests(c) ==
    /\ GoodSlot(c) /\ c # None /\ Asked(c) /\ GoodRecordCalls(rCalls')
    /\ overlap' \in BOOLEAN
    /\ \E q \in R!Slots : AsksFor(q, c)

-----------------------------------------------------------------------------
(* Records: what holds whatever calls have met (Base).                     *)

\* The calls but that of slot q are as they were; those that choose the active
\* profile are older than a new choice.
Turns(cs, ds, q, new) ==
    \A x \in R!Slots \ {q} :
        /\ Like(cs[x], ds[x])
        /\ cs[x] # None => ds[x].old = (cs[x].old \/ (cs[x].op = "setActive" /\ new))

HasP(c) == c.op \in OnP /\ c.at # "asked"

HasR(c) == \/ c.op \in OnR /\ c.at # "asked"
           \/ c.op = "deleteProfile" /\ c.at \in {"pruning", "written", "listing"}

\* Each profile is stored, read and about to be saved with its own data.
Own(f) == \A p \in Profiles : f[p] # None => f[p].of = p

OwnCall(c) ==
    c # None => /\ HasP(c) => Own(c.p)
                /\ c.op = "updateProfile" => c.data.of = c.id

OwnCalls(cs) == \A q \in R!Slots : OwnCall(cs[q])
OwnForm == pForm.mode = "edit" /\ selected # None => pForm.of = selected
OwnInv == ~crossed => Own(file.p) /\ OwnCalls(rCalls) /\ OwnForm

\* Before the lists are loaded nothing else happens.
StartCalls(cs, loaded) ==
    \A q \in R!Slots : cs[q] # None =>
        IF loaded THEN cs[q].op # "loadRepos" ELSE cs[q].op \in Listings

StartScreens ==
    ~ready => /\ repo = None /\ selected = None /\ follow = None
              /\ pForm = R!NoForm /\ rForm = R!NoRepoForm /\ rScreen = "repositories"

\* At most one choice of the active profile is the newest.
Chooses(c) == c # None /\ c.op = "setActive"

Newest(c) == Chooses(c) /\ ~c.old
OneNewest(cs) == \A q, x \in R!Slots : Newest(cs[q]) /\ Newest(cs[x]) => q = x

\* Nothing names profile p: no repository, no choice, no form and no call.
AssignsTo(r, p) == \E x \in Repos : r[x] # None /\ r[x].to = p

UnnamedStores(f, k, p) ==
    /\ k.p[p] = None /\ p # f.active /\ p # k.active
    /\ ~AssignsTo(f.r, p) /\ ~AssignsTo(k.r, p)

UnnamedForm(form, p) ==
    form.to # p /\ (form.pending # None => form.pending.to # p)

UnnamedCall(c, p) ==
    c # None => c.to # p /\ c.active # p /\ (HasR(c) => ~AssignsTo(c.r, p))

UnnamedCalls(cs, p) == \A q \in R!Slots : UnnamedCall(cs[q], p)

Unnamed(p) ==
    UnnamedStores(file, known, p) /\ UnnamedForm(rForm, p) /\ UnnamedCalls(rCalls, p)

\* A profile not created yet is in no file, written or read.
UnbornCall(c, p) ==
    c # None => /\ HasP(c) => c.p[p] = None
                /\ c.op \in R!Creates /\ c.at = "written" => c.id # p

UnbornCalls(cs, p) == \A q \in R!Slots : UnbornCall(cs[q], p)
Unborn(p) == Unnamed(p) /\ file.p[p] = None /\ UnbornCalls(rCalls, p)

Base ==
    /\ RecordsTyped /\ OwnInv /\ StartCalls(rCalls, ready) /\ StartScreens
    /\ OneNewest(rCalls)
    /\ \A p \in fresh : Unborn(p)

\* The calls once rec is the active repository: perhaps with a new choice in slot q.
Chosen(rec, q) ==
    \/ rCalls'[q] = None /\ Turns(rCalls, rCalls', q, FALSE)
    \/ /\ rec # None /\ rec.to \in Profiles /\ known.p[rec.to] # None
       /\ rCalls'[q] # None /\ Asked(rCalls'[q]) /\ rCalls'[q].op = "setActive"
       /\ rCalls'[q].id = None /\ rCalls'[q].to = rec.to
       /\ Turns(rCalls, rCalls', q, TRUE)

-----------------------------------------------------------------------------
(* Records: the steps, by what they do to the calls.                       *)

Shows ==
    \/ \E s \in {"profiles", "repositories", "other"} : R!Navigate(s)
    \/ \E p \in Profiles : R!SelectProfile(p)
    \/ R!StartCreate \/ R!Connect \/ R!StartAdd \/ R!CancelAdd \/ R!FollowSelection

Picks == (\E r \in Repos : R!PickRepo(r) \/ R!SelectRepo(r)) \/ R!ContinueInit \/ R!AutoSelect

Asks ==
    \/ \E r \in Repos : R!AddRepo(r) \/ R!InitRepo(r)
    \/ \E p \in Profiles : R!SetActive(p)
    \/ \E p \in R!Maybe(Profiles) : R!SaveRepo(p)
    \/ \E op \in R!OnProfiles : R!Submit(op)
    \/ R!RemoveRepo \/ R!Authorized \/ R!CloseModal

Works(q) == R!Read(q) \/ R!WriteProfile(q) \/ R!Cascade(q) \/ R!Prune(q) \/ R!WriteRepo(q)

Answers(q) ==
    \/ R!Created(q) \/ R!Updated(q) \/ R!Disconnected(q) \/ R!Deleted(q)
    \/ R!ProfilesListed(q) \/ R!Added(q) \/ R!RepoSaved(q) \/ R!Removed(q)
    \/ R!ActiveSet(q) \/ R!Fail(q)
    \/ \E ok \in BOOLEAN : R!ReposListed(q, ok) \/ R!DeleteEnds(q, ok) \/ R!Initialized(q, ok)

-----------------------------------------------------------------------------
(* Records: what holds while no two calls have met (Steady).               *)

\* No two calls that are pending meet.
Apart(cs) ==
    \A q, x \in R!Slots : q # x /\ cs[q] # None /\ cs[x] # None => ~R!Meet(cs[q].op, cs[x].op)

\* What a call has read, and what it has written, is what the files hold.
FreshCall(c, f) ==
    c # None =>
       /\ c.op \in OnP \ {"deleteProfile"} /\ c.at # "asked" => c.p = f.p
       /\ c.op = "deleteProfile" /\ c.at \in {"read", "pruning"} => c.p = f.p
       /\ c.op \in OnR /\ c.at = "read" => c.r = f.r
       /\ c.op = "loadProfiles" /\ c.at = "read" => c.active = f.active
       /\ c.op = "disconnect" /\ c.at = "listing" => c.active = f.active
       /\ c.op = "deleteProfile" /\ c.at \in {"cascade", "pruning", "written", "listing"} =>
             f.p[c.id] = None
       /\ c.op = "deleteProfile" /\ c.at \in {"pruning", "listing"} => c.r = f.r
       /\ c.op \in R!OnRepos /\ c.at = "written" =>
             f.r[c.id] = IF c.op = "removeRepo" THEN None ELSE [id |-> c.id, to |-> c.to]
       /\ c.op \in R!OnRepos /\ c.to # None => f.p[c.to] # None
       /\ c.op \in R!Creates /\ c.at = "written" => f.p[c.id] # None

FreshCalls(cs, f) == \A q \in R!Slots : FreshCall(cs[q], f)

\* A repository is assigned to a profile that is gone only until the cascade has run.
Prunes(c, p) ==
    c # None /\ c.op = "deleteProfile" /\ c.at \in {"cascade", "pruning"} /\ c.id = p

Ghost(f, x) == f.r[x] # None /\ f.r[x].to # None /\ f.p[f.r[x].to] = None
NoGhost(cs, f) == \A x \in Repos : Ghost(f, x) => \E q \in R!Slots : Prunes(cs[q], f.r[x].to)

\* Where the store knows other profiles, or other data, than the file, a call will say so.
SameExist(k, f, p) == k.p[p] = None <=> f.p[p] = None

ExistsAhead(c, p, loaded) ==
    /\ c # None
    /\ \/ ~loaded /\ c.op = "loadProfiles"
       \/ c.id = p /\ c.op \in R!Creates /\ c.at = "written"
       \/ c.id = p /\ c.op = "deleteProfile" /\ c.at \in {"cascade", "pruning", "written"}

KnownExist(cs, k, f, loaded) ==
    \A p \in Profiles :
        SameExist(k, f, p) \/ \E q \in R!Slots : ExistsAhead(cs[q], p, loaded)

ProfileAhead(c, p) ==
    /\ c # None
    /\ \/ c.op = "loadProfiles"
       \/ c.id = p /\ c.op = "authorized"
       \/ c.id = p /\ c.op \in R!OnProfiles \ {"deleteProfile"} /\ c.at \in {"written", "listing"}
       \/ c.id = p /\ c.op = "deleteProfile" /\ c.at \in {"cascade", "pruning", "written"}

KnownEqual(cs, k, f) ==
    \A p \in Profiles : k.p[p] = f.p[p] \/ \E q \in R!Slots : ProfileAhead(cs[q], p)

\* The same of the list of repositories.
RepoAhead(c, x) ==
    /\ c # None
    /\ \/ c.op = "loadRepos"
       \/ c.op = "deleteProfile" /\ c.at \in {"written", "listing"}
       \/ c.op \in R!OnRepos /\ c.at = "written" /\ c.id = x

ListEqual(cs, k, f) ==
    \A x \in Repos : k.r[x] = f.r[x] \/ \E q \in R!Slots : RepoAhead(cs[q], x)

UpdateListed(c, k) == c # None /\ c.op = "updateRepo" => k.r[c.id] # None

\* Nothing names a profile whose creation is not answered yet.
Creating(c) == c # None /\ c.op \in R!Creates /\ c.at = "written"

CreatesNow(cs, p) == \E q \in R!Slots : Creating(cs[q]) /\ cs[q].id = p

Steady ==
    /\ Apart(rCalls) /\ FreshCalls(rCalls, file) /\ NoGhost(rCalls, file)
    /\ \A p \in Profiles : CreatesNow(rCalls, p) => Unnamed(p)
    /\ KnownExist(rCalls, known, file, ready)
    /\ \A q \in R!Slots : UpdateListed(rCalls[q], known)
    /\ rMoves = 0 => KnownEqual(rCalls, known, file) /\ ListEqual(rCalls, known, file)

\* What may be pending along with a call of kind a.
Beside(a, b) ==
    /\ a \in R!OnProfiles => b \notin OnP
    /\ a \in OnP => b \notin R!OnProfiles
    /\ a \in R!OnRepos => b \notin OnR
    /\ a \in OnR => b \notin R!OnRepos
    /\ a # "deleteProfile" /\ b # "deleteProfile"
    /\ a = "setActive" => b \notin {"loadProfiles", "disconnect"}
    /\ b = "setActive" => a \notin {"loadProfiles", "disconnect"}

\* The files go from f to f2 and the stores from k to k2 while one call goes from c to d.
GhostStep(f, f2, c, d) ==
    \A x \in Repos : Ghost(f2, x) =>
       \/ Prunes(d, f2.r[x].to)
       \/ Ghost(f, x) /\ f2.r[x].to = f.r[x].to /\ ~Prunes(c, f.r[x].to)

ExistStep(k, k2, f, f2, l, l2, c, d) ==
    \A p \in Profiles :
       \/ SameExist(k2, f2, p) \/ ExistsAhead(d, p, l2)
       \/ (SameExist(k, f, p) => SameExist(k2, f2, p)) /\ ~ExistsAhead(c, p, l)

EqualStep(k, k2, f, f2, c, d) ==
    \A p \in Profiles :
       \/ k2.p[p] = f2.p[p] \/ ProfileAhead(d, p)
       \/ (k.p[p] = f.p[p] => k2.p[p] = f2.p[p]) /\ ~ProfileAhead(c, p)

ListStep(k, k2, f, f2, c, d) ==
    \A x \in Repos :
       \/ k2.r[x] = f2.r[x] \/ RepoAhead(d, x)
       \/ (k.r[x] = f.r[x] => k2.r[x] = f2.r[x]) /\ ~RepoAhead(c, x)

-----------------------------------------------------------------------------
(* Records: what making a repository the active one does.                  *)

Changes(rec) == rec # None /\ (repo = None \/ repo.id # rec.id \/ repo.to # rec.to)
Syncs(rec) == Changes(rec) /\ rec.to \notin {None, known.active} /\ known.p[rec.to] # None

Late(rec, q) ==
    /\ Changes(rec) /\ rec.to = known.active /\ known.active # None
    /\ \E x \in R!Slots \ {q} : Chooses(rCalls[x]) /\ rCalls[x].to # known.active

\* rec is the active repository, and the calls are those there were, but for that
\* of slot q: a choice where rec's profile has to be made the active one.
Settles(rec, q) ==
    /\ repo' = rec /\ (~crossed' => ~crossed /\ ~Late(rec, q))
    /\ follow' = IF Changes(rec)
                 THEN (IF rec.to # None /\ file.p[rec.to] # None THEN rec.to ELSE None)
                 ELSE follow
    /\ Syncs(rec) =>
          /\ rCalls'[q] # None /\ Asked(rCalls'[q]) /\ rCalls'[q].op = "setActive"
          /\ rCalls'[q].id = None /\ rCalls'[q].to = rec.to
          /\ Turns(rCalls, rCalls', q, TRUE)
          /\ ~overlap' => ~overlap /\ ~MeetsOther(rCalls, q, "setActive")
    /\ ~Syncs(rec) =>
          /\ rCalls'[q] = None /\ Turns(rCalls, rCalls', q, FALSE)
          /\ ~overlap' => ~overlap

-----------------------------------------------------------------------------
(* Records: which profile is the active one (Aim).                         *)

AnyChoice(cs) == \E q \in R!Slots : Chooses(cs[q])
AnyNewest(cs) == \E q \in R!Slots : Newest(cs[q])
Alive(f, p) == IF p # None /\ f.p[p] # None THEN p ELSE None
Matches(k, f) == Alive(f, k.active) = Alive(f, f.active)

Loading(cs, loaded) ==
    ~loaded /\ \E q \in R!Slots : cs[q] # None /\ cs[q].op = "loadProfiles"

\* Without a choice pending the store and the settings agree on the active profile.
ActiveEqual(cs, k, f, loaded) ==
    /\ AnyChoice(cs) => AnyNewest(cs)
    /\ ~AnyChoice(cs) => Loading(cs, loaded) \/ Matches(k, f)

\* The profile that ought to be active is the one chosen last, or it is active.
Follows(cs, k, f, due, calm) ==
    due # None =>
       /\ \A q \in R!Slots : Newest(cs[q]) => cs[q].to = due
       /\ ~AnyNewest(cs) => k.active = due
       /\ ~AnyChoice(cs) /\ calm => f.active = due

Aim ==
    /\ rMoves = 0 => ActiveEqual(rCalls, known, file, ready)
    /\ ~crossed => Follows(rCalls, known, file, follow, rMoves = 0)

\* The calls that choose the active profile are the same.
SameChoices(cs, ds) ==
    \A x \in R!Slots : /\ Chooses(cs[x]) <=> Chooses(ds[x])
                       /\ Newest(cs[x]) <=> Newest(ds[x])
                       /\ Chooses(ds[x]) => ds[x].to = cs[x].to

-----------------------------------------------------------------------------
(* Records: the repositories in the list (ListSound).                      *)

Adding(c, x) == c # None /\ c.op \in Adds /\ c.id = x
Removing(c, x) == c # None /\ c.op = "removeRepo" /\ c.id = x

\* What is listed and not on disk is being removed.
BehindList(cs, k, f) ==
    \A x \in Repos : k.r[x] # None /\ f.r[x] = None =>
        \E q \in R!Slots : Removing(cs[q], x) /\ cs[q].at = "written"

\* What is being added is not listed; it is the active one only after a failed list.
AddsUnlisted(cs, k, f, rec) ==
    \A q \in R!Slots, x \in Repos : Adding(cs[q], x) =>
        /\ k.r[x] = None
        /\ cs[q].at # "written" => f.r[x] = None
        /\ rec # None /\ rec.id = x => k.error

ActiveListed(cs, k, f, rec) ==
    rec # None =>
        \/ k.r[rec.id] # None \/ f.r[rec.id] = None
        \/ k.error /\ \E q \in R!Slots : Adding(cs[q], rec.id)

\* The repository whose remote could not be set is still there to go on with.
PendingListed(cs, k, form) ==
    form.mode = "add" /\ form.pending # None =>
        /\ k.r[form.pending.id] # None
        /\ \A q \in R!Slots : ~Removing(cs[q], form.pending.id)

ListSound ==
    /\ BehindList(rCalls, known, file) /\ AddsUnlisted(rCalls, known, file, repo)
    /\ ActiveListed(rCalls, known, file, repo) /\ PendingListed(rCalls, known, rForm)

\* A call that adds or removes goes on, or it ends before it has written.
GoesOn(c, d) ==
    /\ c # None /\ c.op \in Adds \union {"removeRepo"} /\ c.at = "written" =>
          d # None /\ d.op = c.op /\ d.id = c.id /\ d.at = "written"
    /\ d # None /\ d.op \in Adds \union {"removeRepo"} =>
          /\ c # None /\ c.op = d.op /\ c.id = d.id
          /\ d.at # "written" => c.at # "written"

AnyAdding(cs) == \E q \in R!Slots : cs[q] # None /\ cs[q].op \in Adds

SameListed(k, f, k2, f2) ==
    \A x \in Repos : (k2.r[x] = None <=> k.r[x] = None) /\ (f2.r[x] = None <=> f.r[x] = None)

KeepsForm(form, form2) ==
    form2.mode = "add" /\ form2.pending # None => form.mode = "add" /\ form2.pending = form.pending

NotListing(c) == c # None => c.op \notin Adds \union {"removeRepo"}

-----------------------------------------------------------------------------
(* Records: the inductive invariant, and what it allows of a step.         *)

RecordInv == Base /\ (~overlap => Steady /\ Aim /\ ListSound)

\* What RepoStays of Records allows of a step.
JustAdded(q, rec) ==
    R!At(q, {"createRepo", "initRepo"}, "written") /\ rCalls[q].id = rec.id

MayMove(rec) ==
    \/ rec = repo \/ rActs' # rActs \/ repo = None \/ ~ready' \/ overlap
    \/ file.r[repo.id] = None
    \/ rec # None /\ rec.id = repo.id
    \/ rec # None /\ \E q \in R!Slots : JustAdded(q, rec)
=============================================================================
