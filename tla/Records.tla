------------------------------- MODULE Records -------------------------------
(***************************************************************************)
(* Profiles, repositories and the profile active: the three files of main  *)
(* (ProfileService, RepositoryService, SettingsService), the stores that   *)
(* copy them in the renderer, and the two screens that edit them.          *)
(*                                                                         *)
(* A change of the profiles or of the repositories reads its whole file    *)
(* and writes it back, with no queue.  A profile is known by whose data it *)
(* holds and by whether GitHub is linked to it, a repository by the        *)
(* profile assigned to it.  A call of a screen goes on after its answer    *)
(* only where the screen that made it is still shown; what it does to the  *)
(* stores it does in any case.                                             *)
(***************************************************************************)
EXTENDS Naturals, FiniteSets

CONSTANTS Profiles, Repos, None,
          FirstProfiles,   \* the profiles there are at first
          Assigned,        \* the repositories there are at first: their profiles
          NSlots,          \* bound: calls pending at once
          MaxActs,         \* bound: acts of the user
          MaxMoves         \* bound: calls that fail, and restarts

Maybe(S) == S \union {None}
Slots == 1..NSlots
Data == [of : Maybe(Profiles), linked : BOOLEAN]
Record == [id : Repos, to : Maybe(Profiles)]
ProfilesFile == [Profiles -> Maybe(Data)]
\* A record is filed under its own id.
ReposFile == {r \in [Repos -> Maybe(Record)] : \A x \in Repos : r[x] # None => r[x].id = x}

VARIABLES file,      \* profiles, repositories and the profile active, on disk
          fresh,     \* the ids not yet given to a profile
          known,     \* profilesStore and repositoriesStore
          repo,      \* appStore: a copy of the active repository's record
          selected,  \* appStore: the profile shown in Profiles
          screen, ready,
          pForm,     \* ProfilesScreen
          rForm,     \* RepositoriesScreen
          calls,
          follow,    \* the profile that ought to be active by now
          overlap,   \* two calls, or a call and an older form, have met at a file
          crossed,   \* an answer has met a screen or a choice that had moved on
          acts, moves

vars == <<file, fresh, known, repo, selected, screen, ready, pForm, rForm, calls,
          follow, overlap, crossed, acts, moves>>

Creates == {"createProfile", "connectNew"}
OnProfiles == Creates \union {"updateProfile", "authorized", "disconnect", "deleteProfile"}
OnRepos == {"createRepo", "initRepo", "updateRepo", "removeRepo"}
Ops == OnProfiles \union OnRepos \union {"setActive", "loadProfiles", "loadRepos"}
Writes(op) == op \in OnProfiles \union OnRepos \union {"setActive"}
Touches(op) ==
    (IF op \in OnProfiles \union {"loadProfiles"} THEN {"profiles"} ELSE {})
    \union (IF op \in OnRepos \union {"loadRepos", "deleteProfile"} THEN {"repos"} ELSE {})
    \union (IF op \in {"setActive", "loadProfiles", "disconnect", "deleteProfile"} THEN {"settings"} ELSE {})
\* Two calls meet at a file that one of them writes and that has no queue.
Meet(a, b) == /\ Touches(a) \intersect Touches(b) # {}
              /\ Writes(a) \/ Writes(b)
              /\ {a, b} # {"setActive"}

\* here: the screen that made the call is still shown; moved: another profile
\* has been selected there since; old: a newer call of its kind was made.
Call == [op : Ops, id : Maybe(Profiles \union Repos), data : Maybe(Data),
         to : Maybe(Profiles), at : {"asked", "read", "cascade", "pruning", "written", "listing"},
         p : Maybe(ProfilesFile), r : Maybe(ReposFile), active : Maybe(Profiles),
         here : BOOLEAN, moved : BOOLEAN, old : BOOLEAN]
NewCall(op) == [op |-> op, id |-> None, data |-> None, to |-> None, at |-> "asked",
                p |-> None, r |-> None, active |-> None,
                here |-> TRUE, moved |-> FALSE, old |-> FALSE]

Exists(p) == file.p[p] # None
InStore(p) == p # None /\ known.p[p] # None
NoForm == [mode |-> "idle", of |-> None, saving |-> FALSE, connecting |-> FALSE]
NoRepoForm == [mode |-> "idle", selected |-> None, to |-> None, saving |-> FALSE,
               eligible |-> FALSE, init |-> FALSE, pending |-> None]

\* The two stores, and the forms of the two screens.
ProfilesState == [p : ProfilesFile, active : Maybe(Profiles), loading : BOOLEAN]
RepositoriesState == [r : ReposFile, error : BOOLEAN]
ProfileForm == [mode : {"idle", "create", "edit"}, of : Maybe(Profiles),
                saving : BOOLEAN, connecting : BOOLEAN]
RepoForm == [mode : {"idle", "add", "edit"}, selected : Maybe(Repos), to : Maybe(Profiles),
             saving : BOOLEAN, eligible : BOOLEAN, init : BOOLEAN, pending : Maybe(Record)]

TypeOK ==
    /\ file \in [p : ProfilesFile, r : ReposFile, active : Maybe(Profiles)]
    /\ fresh \subseteq Profiles
    /\ [p |-> known.p, active |-> known.active, loading |-> known.loading] \in ProfilesState
    /\ [r |-> known.r, error |-> known.error] \in RepositoriesState
    /\ repo \in Maybe(Record) /\ selected \in Maybe(Profiles)
    /\ screen \in {"profiles", "repositories", "other"} /\ ready \in BOOLEAN
    /\ pForm \in ProfileForm /\ rForm \in RepoForm
    /\ \A q \in Slots : calls[q] # None => calls[q] \in Call
    /\ follow \in Maybe(Profiles) /\ overlap \in BOOLEAN /\ crossed \in BOOLEAN
    /\ acts \in 0..MaxActs /\ moves \in 0..MaxMoves

Quiet == ready /\ \A q \in Slots : calls[q] = None

-----------------------------------------------------------------------------
(* Calls.                                                                  *)

Free == {q \in Slots : calls[q] = None}
Pending(in) == {q \in Slots : in[q] # None}

\* A call is made from slot q, which is free in `in`.
Make(in, q, call) ==
    /\ calls' = [x \in Slots |->
                   IF x = q THEN call
                   ELSE IF in[x] # None /\ in[x].op = "setActive" /\ call.op = "setActive"
                   THEN [in[x] EXCEPT !.old = TRUE]
                   ELSE in[x]]
    /\ overlap' = (overlap \/ \E x \in Pending(in) \ {q} : Meet(in[x].op, call.op))

FirstFree == CHOOSE q \in Free : \A x \in Free : q <= x
Ask(call) == Free # {} /\ Make(calls, FirstFree, call)

\* The calls as they are when the screen's form is about another profile.
Moved(in) == [q \in Slots |-> IF in[q] # None /\ in[q].here
                              THEN [in[q] EXCEPT !.moved = TRUE] ELSE in[q]]
Unmounted == [q \in Slots |-> IF calls[q] = None THEN None ELSE [calls[q] EXCEPT !.here = FALSE]]

SetActiveCall(p) == [NewCall("setActive") EXCEPT !.to = p]

\* setActiveRepo: nothing for an equal record; another repository or another
\* assignment makes its profile the active one, if that profile is known.
\* `q` is the slot the call for that may use.
SetActiveRepo(rec, in, q, profiles, active) ==
    LET changed == rec # None /\ (repo = None \/ repo.id # rec.id \/ repo.to # rec.to)
        sync == changed /\ rec.to \notin {None, active} /\ profiles[rec.to] # None
        \* The profile is still active, and another is about to be.
        late == changed /\ rec.to = active /\ active # None
                /\ \E x \in Pending(in) : in[x].op = "setActive" /\ in[x].to # active
    IN  /\ repo' = rec
        /\ crossed' = (crossed \/ late)
        /\ follow' = IF changed THEN (IF rec.to # None /\ Exists(rec.to) THEN rec.to ELSE None)
                     ELSE follow
        /\ IF sync THEN Make(in, q, SetActiveCall(rec.to))
                   ELSE calls' = in /\ UNCHANGED overlap

-----------------------------------------------------------------------------
(* Main: the steps of a call up to its answer.                             *)

Fails == moves < MaxMoves /\ moves' = moves + 1
At(q, op, at) == calls[q] # None /\ calls[q].op \in op /\ calls[q].at = at
Step(q, call) == calls' = [calls EXCEPT ![q] = call]
OnlyCalls == UNCHANGED <<fresh, known, repo, selected, screen, ready, pForm, rForm, follow,
                         overlap, crossed, acts, moves>>

Read(q) ==
    /\ \/ At(q, OnProfiles, "asked") /\ (calls[q].id # None => Exists(calls[q].id))
       \/ At(q, {"createRepo", "initRepo", "loadProfiles", "loadRepos"}, "asked")
       \/ At(q, {"updateRepo", "removeRepo"}, "asked") /\ file.r[calls[q].id] # None
    /\ Step(q, [calls[q] EXCEPT !.at = "read",
                   !.p = IF "profiles" \in Touches(calls[q].op) THEN file.p ELSE None,
                   !.r = IF calls[q].op \in OnRepos \union {"loadRepos"} THEN file.r ELSE None,
                   !.active = IF calls[q].op = "loadProfiles" THEN file.active ELSE None])
    /\ OnlyCalls /\ UNCHANGED file

ProfileWritten(c, id) ==
    [c.p EXCEPT ![id] =
        IF c.op \in Creates THEN [of |-> id, linked |-> FALSE]
        ELSE IF c.op = "disconnect" THEN [@ EXCEPT !.linked = FALSE]
        ELSE IF c.op = "deleteProfile" THEN None
        ELSE IF c.op = "authorized" THEN @
        ELSE [@ EXCEPT !.of = c.data.of]]

WriteProfile(q) ==
    LET c == calls[q] IN
    /\ At(q, OnProfiles, "read")
    /\ \E id \in IF c.op \in Creates THEN fresh ELSE {c.id} :
          /\ file' = [file EXCEPT !.p = ProfileWritten(c, id)]
          /\ fresh' = fresh \ {id}
          /\ Step(q, [c EXCEPT !.at = IF c.op = "deleteProfile" THEN "cascade" ELSE "written",
                               !.id = id, !.p = file'.p])
    /\ UNCHANGED <<known, repo, selected, screen, ready, pForm, rForm, follow, overlap, crossed,
                   acts, moves>>

\* profiles:delete goes on to clear the profile from the repositories.
Cascade(q) ==
    /\ At(q, {"deleteProfile"}, "cascade")
    /\ Step(q, [calls[q] EXCEPT !.at = "pruning", !.p = file.p, !.r = file.r])
    /\ OnlyCalls /\ UNCHANGED file

Pruned(r, p) ==
    [x \in Repos |-> IF r[x] = None \/ r[x].to = None \/ p[r[x].to] # None THEN r[x]
                     ELSE [r[x] EXCEPT !.to = None]]

\* Mutant: the assignments are left as they are.
NothingPruned(q) ==
    /\ At(q, {"deleteProfile"}, "pruning")
    /\ Step(q, [calls[q] EXCEPT !.at = "written"])
    /\ OnlyCalls /\ UNCHANGED file

Prune(q) ==
    LET c == calls[q] IN
    /\ At(q, {"deleteProfile"}, "pruning")
    /\ file' = IF Pruned(c.r, c.p) = c.r THEN file ELSE [file EXCEPT !.r = Pruned(c.r, c.p)]
    /\ Step(q, [c EXCEPT !.at = "written"])
    /\ OnlyCalls

WriteRepo(q) ==
    LET c == calls[q] IN
    /\ At(q, OnRepos, "read")
    /\ file' = [file EXCEPT !.r = [c.r EXCEPT ![c.id] =
                    IF c.op = "removeRepo" THEN None ELSE [id |-> c.id, to |-> c.to]]]
    /\ Step(q, [c EXCEPT !.at = "written"])
    /\ OnlyCalls

-----------------------------------------------------------------------------
(* Answers.                                                                *)

Done(q) == [calls EXCEPT ![q] = None]
Saved(form, c) == IF c.here THEN [form EXCEPT !.saving = FALSE] ELSE form

\* A created profile is selected, and the form becomes its form as it stands.
Created(q) ==
    LET c == calls[q] IN
    /\ At(q, Creates, "written")
    /\ known' = [known EXCEPT !.p[c.id] = c.p[c.id]]
    /\ selected' = c.id
    /\ pForm' = IF ~c.here THEN pForm
                ELSE [mode |-> "edit", of |-> IF c.moved THEN pForm.of ELSE c.id,
                      saving |-> FALSE, connecting |-> c.op = "connectNew" \/ pForm.connecting]
    /\ crossed' = (crossed \/ c.moved \/ ~c.here)
    /\ calls' = Done(q)
    /\ UNCHANGED <<file, fresh, repo, screen, ready, rForm, follow, overlap, acts, moves>>

Updated(q) ==
    LET c == calls[q] IN
    /\ At(q, {"updateProfile", "authorized"}, "written")
    /\ known' = [known EXCEPT !.p[c.id] = IF @ = None THEN @ ELSE c.p[c.id]]
    /\ pForm' = IF c.op = "updateProfile" THEN Saved(pForm, c) ELSE pForm
    /\ calls' = Done(q)
    /\ UNCHANGED <<file, fresh, repo, selected, screen, ready, rForm, follow, overlap, crossed,
                   acts, moves>>

\* Disconnected: everything is loaded again before the screen goes on.
Disconnected(q) ==
    /\ At(q, {"disconnect"}, "written")
    /\ known' = [known EXCEPT !.loading = TRUE]
    /\ Step(q, [calls[q] EXCEPT !.at = "listing", !.p = file.p, !.active = file.active])
    /\ UNCHANGED <<file, fresh, repo, selected, screen, ready, pForm, rForm, follow, overlap,
                   crossed, acts, moves>>

\* The store drops the profile, then lists the repositories main has cleared.
Deleted(q) ==
    LET c == calls[q] IN
    /\ At(q, {"deleteProfile"}, "written")
    /\ known' = [known EXCEPT !.p[c.id] = None, !.error = FALSE,
                              !.active = IF @ = c.id THEN None ELSE @]
    /\ follow' = IF follow = c.id THEN None ELSE follow
    /\ Step(q, [c EXCEPT !.at = "listing", !.r = file.r])
    /\ UNCHANGED <<file, fresh, repo, selected, screen, ready, pForm, rForm, overlap, crossed,
                   acts, moves>>

\* The screen deselects whatever is selected by now.
DeleteEnds(q, ok) ==
    LET c == calls[q] IN
    /\ At(q, {"deleteProfile"}, "listing")
    /\ known' = [known EXCEPT !.r = IF ok THEN c.r ELSE @, !.error = ~ok]
    /\ IF ok THEN UNCHANGED moves ELSE Fails
    /\ selected' = None
    /\ pForm' = IF c.here THEN [NoForm EXCEPT !.connecting = pForm.connecting] ELSE pForm
    /\ calls' = Done(q)
    /\ UNCHANGED <<file, fresh, repo, screen, ready, rForm, follow, overlap, crossed, acts>>

ProfilesListed(q) ==
    LET c == calls[q] IN
    /\ At(q, {"loadProfiles"}, "read") \/ At(q, {"disconnect"}, "listing")
    /\ known' = [known EXCEPT !.p = c.p, !.active = c.active, !.loading = FALSE]
    \* After a failure the settings may differ from what was shown.
    /\ follow' = IF moves > 0 /\ c.active # known.active THEN None ELSE follow
    /\ pForm' = IF c.op = "disconnect" THEN Saved(pForm, c) ELSE pForm
    /\ calls' = Done(q)
    /\ ready' = (ready \/ \A x \in Slots : Done(q)[x] = None)
    /\ screen' = IF ready' /\ ~ready /\ \A p \in Profiles : c.p[p] = None
                 THEN "profiles" ELSE screen
    /\ UNCHANGED <<file, fresh, repo, selected, rForm, overlap, crossed, acts, moves>>

\* The last list stands when a new one cannot be had.
ReposListed(q, ok) ==
    /\ At(q, {"loadRepos"}, "read")
    /\ known' = [known EXCEPT !.r = IF ok THEN calls[q].r ELSE @, !.error = ~ok]
    /\ IF ok THEN UNCHANGED moves ELSE Fails
    /\ calls' = Done(q)
    /\ ready' = (ready \/ \A x \in Slots : Done(q)[x] = None)
    /\ screen' = IF ready' /\ ~ready /\ \A p \in Profiles : known.p[p] = None
                 THEN "profiles" ELSE screen
    /\ UNCHANGED <<file, fresh, repo, selected, pForm, rForm, follow, overlap, crossed, acts>>

\* The form as it opens on a repository.
FormOf(rec) == [rForm EXCEPT !.mode = "edit", !.selected = rec.id, !.to = rec.to]

\* Added by its path: it is selected, from wherever the user is by now.
Added(q) ==
    LET c == calls[q] rec == [id |-> c.id, to |-> c.to] IN
    /\ At(q, {"createRepo"}, "written")
    /\ known' = [known EXCEPT !.r[c.id] = rec]
    /\ rForm' = IF c.here THEN [FormOf(rec) EXCEPT !.saving = FALSE] ELSE rForm
    /\ SetActiveRepo(rec, Done(q), q, known.p, known.active)
    /\ UNCHANGED <<file, fresh, selected, screen, ready, pForm, acts, moves>>

\* finishInitialize: it becomes the active one, and the user goes to commit.
FinishInit(rec, in, q) ==
    /\ screen' = "other" /\ rForm' = NoRepoForm /\ pForm' = NoForm
    /\ SetActiveRepo(rec, in, q, known.p, known.active)

\* Initialised; where its remote could not be set the user is told first.
Initialized(q, remote) ==
    LET c == calls[q] rec == [id |-> c.id, to |-> c.to] IN
    /\ At(q, {"initRepo"}, "written")
    /\ known' = [known EXCEPT !.r[c.id] = rec]
    /\ IF remote THEN FinishInit(rec, [Unmounted EXCEPT ![q] = None], q)
       ELSE /\ rForm' = IF c.here THEN [rForm EXCEPT !.pending = rec, !.init = FALSE] ELSE rForm
            /\ calls' = Done(q)
            /\ UNCHANGED <<repo, follow, overlap, crossed, screen, pForm>>
    /\ UNCHANGED <<file, fresh, selected, ready, acts, moves>>

\* Saved: the copy of the active repository is refreshed.
RepoSaved(q) ==
    LET c == calls[q] rec == [id |-> c.id, to |-> c.to] IN
    /\ At(q, {"updateRepo"}, "written")
    /\ known' = [known EXCEPT !.r[c.id] = IF @ = None THEN @ ELSE rec]
    /\ rForm' = Saved(rForm, c)
    /\ IF repo # None /\ repo.id = c.id /\ known.r[c.id] # None
       THEN SetActiveRepo(rec, Done(q), q, known.p, known.active)
       ELSE calls' = Done(q) /\ UNCHANGED <<repo, follow, overlap, crossed>>
    /\ UNCHANGED <<file, fresh, selected, screen, ready, pForm, acts, moves>>

Deselected == [rForm EXCEPT !.mode = "idle", !.selected = None, !.saving = FALSE]

Removed(q) ==
    LET c == calls[q] IN
    /\ At(q, {"removeRepo"}, "written")
    /\ known' = [known EXCEPT !.r[c.id] = None]
    /\ rForm' = IF c.here THEN Deselected ELSE rForm
    /\ calls' = Done(q)
    /\ UNCHANGED <<file, fresh, repo, selected, screen, ready, pForm, follow, overlap, crossed,
                   acts, moves>>

\* The settings have a queue: an older choice is stored and answered first.
ActiveSet(q) ==
    LET c == calls[q] IN
    /\ At(q, {"setActive"}, "asked")
    /\ c.old \/ ~\E x \in Slots : calls[x] # None /\ calls[x].op = "setActive" /\ calls[x].old
    /\ file' = [file EXCEPT !.active = c.to]
    /\ known' = [known EXCEPT !.active = IF c.old THEN @ ELSE c.to]
    /\ calls' = Done(q)
    /\ UNCHANGED <<fresh, repo, selected, screen, ready, pForm, rForm, follow, overlap, crossed,
                   acts, moves>>

\* The record the call is about is not in its file.
Gone(c) == \/ c.id \in Profiles /\ ~Exists(c.id)
           \/ c.op \in {"updateRepo", "removeRepo"} /\ file.r[c.id] = None

\* A call fails: its file cannot be read or written, its record is gone, or
\* the path to add holds no repository, which may then be initialised there.
\* A form says so and can be saved again.
Fail(q) ==
    LET c == calls[q] IN
    /\ c # None /\ c.at = "asked" /\ c.op \notin {"loadProfiles", "loadRepos"}
    /\ IF Gone(c) \/ c.op = "createRepo" THEN UNCHANGED moves ELSE Fails
    /\ calls' = Done(q)
    /\ pForm' = IF c.op \in OnProfiles \ {"authorized"} THEN Saved(pForm, c) ELSE pForm
    /\ rForm' = IF c.op \notin OnRepos \/ ~c.here THEN rForm
                ELSE IF c.op = "initRepo" THEN [rForm EXCEPT !.init = FALSE]
                ELSE [rForm EXCEPT !.saving = FALSE, !.eligible = @ \/ c.op = "createRepo"]
    /\ follow' = None
    /\ UNCHANGED <<file, fresh, known, repo, selected, screen, ready, overlap, crossed, acts>>

-----------------------------------------------------------------------------
(* Effects of the screens.                                                 *)

\* The form of Profiles follows the selection where it is not being edited.
FormDue ==
    /\ screen = "profiles" /\ ~known.loading
    /\ \/ selected = None /\ pForm.mode = "edit"
       \/ selected # None /\ ~InStore(selected)
       \/ selected # None /\ InStore(selected) /\ pForm.mode = "idle"

FollowSelection ==
    /\ FormDue
    /\ selected' = IF InStore(selected) THEN selected ELSE None
    /\ pForm' = IF InStore(selected) THEN [pForm EXCEPT !.mode = "edit", !.of = selected]
                ELSE [NoForm EXCEPT !.saving = pForm.saving]
    /\ UNCHANGED <<file, fresh, known, repo, screen, ready, rForm, calls, follow, overlap,
                   crossed, acts, moves>>

InList == {r \in Repos : known.r[r] # None}

\* A first repository is made active where none is, or the active one is gone.
AutoSelectDue ==
    /\ ready /\ ~known.error
    /\ IF repo = None THEN InList # {} ELSE repo.id \notin InList

AutoSelect ==
    /\ AutoSelectDue /\ Free # {}
    /\ \/ InList = {} /\ SetActiveRepo(None, calls, FirstFree, known.p, known.active)
       \/ \E r \in InList : SetActiveRepo(known.r[r], calls, FirstFree, known.p, known.active)
    /\ UNCHANGED <<file, fresh, known, selected, screen, ready, pForm, rForm, acts, moves>>

-----------------------------------------------------------------------------
(* The user.                                                               *)

Act == /\ acts < MaxActs /\ acts' = acts + 1
       /\ ready /\ ~FormDue /\ ~AutoSelectDue
Modal == pForm.connecting /\ selected # None

Navigate(s) ==
    /\ Act /\ ~Modal /\ s # screen
    /\ (s = "repositories" => \E p \in Profiles : InStore(p))
    /\ screen' = s
    /\ pForm' = NoForm /\ rForm' = NoRepoForm
    /\ calls' = Unmounted
    /\ UNCHANGED <<file, fresh, known, repo, selected, ready, follow, overlap, crossed, moves>>

\* The header picks a repository on any screen.
PickRepo(r) ==
    /\ Act /\ ~Modal /\ r \in InList /\ (repo # None => repo.id # r)
    /\ Free # {}
    /\ SetActiveRepo(known.r[r], calls, FirstFree, known.p, known.active)
    /\ UNCHANGED <<file, fresh, known, selected, screen, ready, pForm, rForm, moves>>

OnScreen(s) == Act /\ ~Modal /\ screen = s

SelectProfile(p) ==
    /\ OnScreen("profiles") /\ InStore(p)
    /\ selected' = p
    /\ pForm' = [pForm EXCEPT !.mode = "edit", !.of = p]
    /\ calls' = Moved(calls)
    /\ UNCHANGED <<file, fresh, known, repo, screen, ready, rForm, follow, overlap, crossed, moves>>

StartCreate ==
    /\ OnScreen("profiles") /\ pForm.mode # "create"
    /\ selected' = None
    /\ pForm' = [pForm EXCEPT !.mode = "create", !.of = None]
    /\ calls' = Moved(calls)
    /\ UNCHANGED <<file, fresh, known, repo, screen, ready, rForm, follow, overlap, crossed, moves>>

Store == UNCHANGED <<file, fresh, known, repo, selected, screen, ready, follow, crossed, moves>>

\* The buttons of the form, and those of its GitHub section.
FormActions == IF pForm.mode = "create" THEN {"createProfile"}
               ELSE IF pForm.mode = "edit" THEN {"updateProfile", "deleteProfile"} ELSE {}
Linked == InStore(selected) /\ known.p[selected].linked
GitHubActions == IF pForm.mode = "create" THEN {"connectNew"}
                 ELSE IF pForm.mode = "edit" /\ Linked THEN {"disconnect"} ELSE {}

Submit(op) ==
    /\ OnScreen("profiles") /\ ~pForm.saving /\ op \in FormActions \union GitHubActions
    /\ pForm' = [pForm EXCEPT !.saving = TRUE]
    /\ IF op \in Creates THEN fresh # {} /\ Ask(NewCall(op))
       ELSE /\ selected # None
            /\ Ask([NewCall(op) EXCEPT !.id = selected,
                                        !.data = [of |-> pForm.of, linked |-> FALSE]])
    /\ Store /\ UNCHANGED rForm

\* A row has the button where there are other profiles, the form always.
SetActiveOffered(p) ==
    /\ InStore(p) /\ p # known.active
    /\ \/ \E x \in Profiles \ {p} : InStore(x)
       \/ pForm.mode = "edit" /\ selected = p /\ ~pForm.saving

SetActive(p) ==
    /\ OnScreen("profiles") /\ SetActiveOffered(p)
    /\ Ask(SetActiveCall(p))
    /\ follow' = p
    /\ UNCHANGED <<file, fresh, known, repo, selected, screen, ready, pForm, rForm, crossed, moves>>

Connect ==
    /\ OnScreen("profiles") /\ pForm.mode = "edit" /\ selected # None
    /\ pForm' = [pForm EXCEPT !.connecting = TRUE]
    /\ Store /\ UNCHANGED <<rForm, calls, overlap>>

\* GitHub has authorised the profile: main has stored the link, and the screen
\* stores the name and the address of the account.
Authorized ==
    /\ Modal /\ selected # None /\ Exists(selected) /\ ~file.p[selected].linked
    /\ file' = [file EXCEPT !.p[selected].linked = TRUE]
    /\ Ask([NewCall("authorized") EXCEPT !.id = selected])
    /\ UNCHANGED <<fresh, known, repo, selected, screen, ready, pForm, rForm, follow, crossed,
                   acts, moves>>

\* The modal closes: whatever main has stored is loaded.
CloseModal ==
    /\ Modal
    /\ pForm' = [pForm EXCEPT !.connecting = FALSE]
    /\ known' = [known EXCEPT !.loading = TRUE]
    /\ Ask(NewCall("loadProfiles"))
    /\ UNCHANGED <<file, fresh, repo, selected, screen, ready, rForm, follow, crossed, acts, moves>>

SelectRepo(r) ==
    /\ OnScreen("repositories") /\ r \in InList
    /\ rForm' = FormOf(known.r[r])
    /\ Free # {}
    /\ SetActiveRepo(known.r[r], calls, FirstFree, known.p, known.active)
    /\ UNCHANGED <<file, fresh, known, selected, screen, ready, pForm, moves>>

StartAdd ==
    /\ OnScreen("repositories")
    /\ rForm' = [rForm EXCEPT !.mode = "add", !.selected = None, !.eligible = FALSE, !.pending = None]
    /\ rForm' # rForm
    /\ Store /\ UNCHANGED <<pForm, calls, overlap>>

CancelAdd ==
    /\ OnScreen("repositories") /\ rForm.mode = "add"
    /\ rForm' = [rForm EXCEPT !.mode = "idle"]
    /\ Store /\ UNCHANGED <<pForm, calls, overlap>>

AddOffered == rForm.mode = "add" /\ ~rForm.saving
InitOffered == /\ rForm.mode = "add" /\ rForm.eligible /\ InStore(known.active)
               /\ rForm.pending = None /\ ~rForm.init
Absent(r) == file.r[r] = None /\ \A q \in Pending(calls) : calls[q].id # r

\* A path is validated, then recorded.
AddRepo(r) ==
    /\ OnScreen("repositories") /\ AddOffered /\ Absent(r)
    /\ rForm' = [rForm EXCEPT !.saving = TRUE, !.eligible = FALSE, !.pending = None]
    /\ Ask([NewCall("createRepo") EXCEPT !.id = r])
    /\ Store /\ UNCHANGED pForm

\* A repository is made there, for the active profile.
InitRepo(r) ==
    /\ OnScreen("repositories") /\ InitOffered /\ Absent(r)
    /\ rForm' = [rForm EXCEPT !.init = TRUE]
    /\ Ask([NewCall("initRepo") EXCEPT !.id = r, !.to = known.active])
    /\ Store /\ UNCHANGED pForm

ContinueInit ==
    /\ OnScreen("repositories") /\ rForm.mode = "add" /\ rForm.eligible /\ InStore(known.active)
    /\ rForm.pending # None /\ Free # {}
    /\ FinishInit(rForm.pending, Unmounted, FirstFree)
    /\ UNCHANGED <<file, fresh, known, selected, ready, moves>>

\* The form may still name a profile deleted since it was opened.
SaveOffered == rForm.mode = "edit" /\ rForm.selected \in InList /\ ~rForm.saving
Choices == {None, rForm.to} \union {p \in Profiles : InStore(p)}

SaveRepo(p) ==
    /\ OnScreen("repositories") /\ SaveOffered /\ p \in Choices
    /\ rForm' = [rForm EXCEPT !.saving = TRUE, !.to = p]
    /\ Free # {}
    /\ calls' = [calls EXCEPT ![FirstFree] = [NewCall("updateRepo") EXCEPT !.id = rForm.selected, !.to = p]]
    /\ overlap' = (overlap \/ (p # None /\ ~InStore(p))
                      \/ \E x \in Pending(calls) : Meet(calls[x].op, "updateRepo"))
    /\ Store /\ UNCHANGED pForm

RemoveRepo ==
    /\ OnScreen("repositories") /\ SaveOffered
    /\ rForm' = [rForm EXCEPT !.saving = TRUE]
    /\ Ask([NewCall("removeRepo") EXCEPT !.id = rForm.selected])
    /\ Store /\ UNCHANGED pForm

-----------------------------------------------------------------------------
(* The start.                                                              *)

NoneKnown == [p |-> [p \in Profiles |-> None], active |-> None, loading |-> TRUE,
              r |-> [r \in Repos |-> None], error |-> FALSE]
Loads == [q \in Slots |-> IF q = 1 THEN NewCall("loadProfiles")
                          ELSE IF q = 2 THEN NewCall("loadRepos") ELSE None]

\* The program is closed or dies at any point, and starts again: assignments
\* to profiles that are gone are cleared before any window opens.
Healed(f) == [f EXCEPT !.r = Pruned(f.r, f.p)]

Restart ==
    /\ Fails /\ ready
    /\ file' = Healed(file)
    /\ known' = NoneKnown /\ calls' = Loads /\ ready' = FALSE
    /\ repo' = None /\ selected' = None /\ screen' = "repositories"
    /\ pForm' = NoForm /\ rForm' = NoRepoForm
    /\ follow' = None /\ overlap' = FALSE
    /\ UNCHANGED <<fresh, crossed, acts>>

Init ==
    /\ file = [p |-> [p \in Profiles |-> IF p \in FirstProfiles THEN [of |-> p, linked |-> FALSE]
                                         ELSE None],
               r |-> [r \in Repos |-> IF r \in DOMAIN Assigned
                                      THEN [id |-> r, to |-> Assigned[r]] ELSE None],
               active |-> None]
    /\ fresh = Profiles \ FirstProfiles
    /\ known = NoneKnown /\ calls = Loads /\ ready = FALSE
    /\ repo = None /\ selected = None /\ screen = "repositories"
    /\ pForm = NoForm /\ rForm = NoRepoForm
    /\ follow = None /\ overlap = FALSE /\ crossed = FALSE
    /\ acts = 0 /\ moves = 0

User ==
    \/ \E s \in {"profiles", "repositories", "other"} : Navigate(s)
    \/ \E r \in Repos : PickRepo(r) \/ SelectRepo(r) \/ AddRepo(r) \/ InitRepo(r)
    \/ \E p \in Profiles : SelectProfile(p) \/ SetActive(p)
    \/ \E p \in Maybe(Profiles) : SaveRepo(p)
    \/ \E op \in OnProfiles : Submit(op)
    \/ StartCreate \/ Connect \/ StartAdd \/ CancelAdd \/ ContinueInit \/ RemoveRepo

Background ==
    \/ FollowSelection \/ AutoSelect \/ CloseModal
    \/ \E q \in Slots :
          \/ Read(q) \/ WriteProfile(q) \/ Cascade(q) \/ Prune(q) \/ WriteRepo(q)
          \/ Created(q) \/ Updated(q) \/ Disconnected(q) \/ Deleted(q)
          \/ ProfilesListed(q) \/ Added(q) \/ RepoSaved(q) \/ Removed(q) \/ ActiveSet(q) \/ Fail(q)
          \/ \E ok \in BOOLEAN : ReposListed(q, ok) \/ DeleteEnds(q, ok) \/ Initialized(q, ok)

Next == User \/ Authorized \/ Restart \/ Background
FairSpec == Init /\ [][Next]_vars /\ WF_vars(Background)

-----------------------------------------------------------------------------
(* Properties.                                                             *)

\* A profile is stored with what its own form held: no save puts the name,
\* address and keys of one profile under another, as long as every answer
\* found the form that asked for it (ProfilesScreen's handleSubmit saves the
\* form as it is now under the profile selected now).
OwnData == ~crossed => \A p \in Profiles : Exists(p) => file.p[p].of = p

\* Once all calls are answered no repository on disk is assigned to a profile
\* that is gone (the cascade of profiles:delete, and the pass at the start).
NoGhosts ==
    Quiet /\ ~overlap =>
        \A r \in Repos : file.r[r] # None => file.r[r].to = None \/ Exists(file.r[r].to)

Living(p) == IF p # None /\ Exists(p) THEN p ELSE None

\* Once all calls are answered the renderer's lists are the files, and so is
\* the profile active (the settings keep a profile that was deleted).
StoresMatchFiles ==
    Quiet /\ ~overlap /\ moves = 0 =>
        /\ known.p = file.p /\ known.r = file.r
        /\ Living(known.active) = Living(file.active)

\* A change of repository or of its assignment, and a choice of the user, make
\* their profile the active one, in the renderer and on disk (syncProfileToRepo,
\* setActiveProfile), unless it was still active while another was on its way;
\* on disk, unless a call failed after an older one had been stored, and then
\* in the renderer until the list is read again.
FollowsAssignment ==
    Quiet /\ ~overlap /\ ~crossed /\ follow # None =>
        known.active = follow /\ (moves = 0 => file.active = follow)

\* NOT upheld where the change comes while an earlier one is on its way: "the
\* identity surfaced in the header matches the repo you're working in"
\* (appStore.ts).
RightProfile ==
    Quiet /\ ~overlap /\ follow # None => known.active = follow

\* The active repository changes by itself only where there is none, where it
\* has been removed, or where one has just been added (pickAutoSelectedRepo and
\* the repositoriesStore's load, which keeps its list when a new one fails).
RepoStays ==
    [][\/ repo' = repo \/ acts' # acts \/ repo = None \/ ~ready' \/ overlap
       \/ file.r[repo.id] = None
       \/ repo' # None /\ repo'.id = repo.id
       \/ repo' # None /\ \E q \in Slots :
              At(q, {"createRepo", "initRepo"}, "written") /\ calls[q].id = repo'.id]_vars

\* A form that says it is saving stops saying so.
Saving == pForm.saving \/ rForm.saving \/ rForm.init
SavingEnds == Saving ~> ~Saving

\* NOT upheld: the copy of the active repository names no profile that is gone
\* ("so the repo isn't left pointing at a ghost id (which would block it with a
\* phantom mismatch)", ipc-handlers.ts).
NoPhantomMismatch ==
    Quiet /\ ~overlap /\ repo # None =>
        repo.to = None \/ Exists(repo.to)
=============================================================================
