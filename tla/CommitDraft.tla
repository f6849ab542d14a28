----------------------------- MODULE CommitDraft -----------------------------
(***************************************************************************)
(* The commit message: what commitStore keeps per repository, the drafts   *)
(* an AI connection writes for a repository and a branch, and the card of  *)
(* the chat that inserts its draft.  A text is known by the repository it  *)
(* was written for and whether it was typed, drafted or inserted.          *)
(***************************************************************************)
EXTENDS Naturals, FiniteSets

CONSTANTS Repos, Branches, None,
          Start,      \* the repository and the branch shown at first
          MaxActs     \* bound: acts of the user

ASSUME NoneAssumption == None \notin Repos
ASSUME StartAssumption == Start \in Repos \X Branches
ASSUME ActsAssumption == MaxActs \in Nat

Maybe(S) == S \union {None}
Keys == Repos \X Branches
Text == [of : Repos, how : {"typed", "drafted", "inserted"}]
Written(r, how) == [of |-> r, how |-> how]

VARIABLES active, current,  \* appStore: the repository and the branch shown
          mounted,          \* CommitPushScreen is shown
          store,            \* commitStore: repository, message, draftLoading, draftError
          saved,            \* messagesByRepo
          drafts,           \* draftsByRepo: none, loading, ready or error
          asked,            \* drafts being written
          committing,       \* the repositories whose commit runs
          event,            \* what was committed last: by which text, where
          acts

vars == <<active, current, mounted, store, saved, drafts, asked, committing, event, acts>>

\* commitStore, and how far the draft of a repository and a branch has come.
CommitState == [repo : Maybe(Repos), message : Maybe(Text), drafting : BOOLEAN, failed : BOOLEAN]
DraftEntry == {"none", "loading", "ready", "error"}

TypeOK ==
    /\ active \in Repos /\ current \in Branches /\ mounted \in BOOLEAN
    /\ store \in CommitState
    /\ saved \in [Repos -> Maybe(Text)]
    /\ drafts \in [Keys -> DraftEntry]
    /\ asked \subseteq Keys /\ committing \subseteq Repos
    /\ event \in [into : Maybe(Repos), text : Maybe(Text)]
    /\ acts \in 0..MaxActs

Act == acts < MaxActs /\ acts' = acts + 1
Shown == <<active, current>>

\* Mutant: the box keeps what it holds when nothing was saved.
LoadKeepsBox(messages, r, b) ==
    LET entry == drafts[<<r, b>>] IN
    /\ store' = [repo |-> r,
                 message |-> IF entry = "ready" THEN Written(r, "drafted")
                             ELSE IF messages[r] = None THEN store.message ELSE messages[r],
                 drafting |-> entry = "loading", failed |-> entry = "error"]
    /\ drafts' = IF entry \in {"ready", "error"} THEN [drafts EXCEPT ![<<r, b>>] = "none"]
                                                ELSE drafts

\* load(): a draft that has ended is brought into the box and forgotten; a
\* draft that runs is shown to run; otherwise the box has what was saved.
LoadWith(messages, r, b) ==
    LET entry == drafts[<<r, b>>] IN
    /\ store' = [repo |-> r,
                 message |-> IF entry = "ready" THEN Written(r, "drafted") ELSE messages[r],
                 drafting |-> entry = "loading", failed |-> entry = "error"]
    /\ drafts' = IF entry \in {"ready", "error"} THEN [drafts EXCEPT ![<<r, b>>] = "none"]
                                                ELSE drafts

Load(r, b) == LoadWith(saved, r, b)

Show(r, b) ==
    /\ active' = r /\ current' = b
    /\ IF mounted THEN Load(r, b) ELSE UNCHANGED <<store, drafts>>

SwitchRepo(r) ==
    /\ Act /\ r # active
    /\ Show(r, Start[2])
    /\ UNCHANGED <<mounted, saved, asked, committing, event>>

SwitchBranch(b) ==
    /\ Act /\ b # current
    /\ Show(active, b)
    /\ UNCHANGED <<mounted, saved, asked, committing, event>>

\* A watcher event, a remedy or coming back to the screen loads the store again.
Refresh ==
    /\ Act
    /\ mounted' = TRUE
    /\ Load(active, current)
    /\ UNCHANGED <<active, current, saved, asked, committing, event>>

Leave ==
    /\ Act /\ mounted
    /\ mounted' = FALSE
    /\ UNCHANGED <<active, current, store, saved, drafts, asked, committing, event>>

\* setMessage: kept for the repository of the store, or the active one before
\* the store has had any.
SetMessage(text) ==
    LET r == IF store.repo # None THEN store.repo ELSE active IN
    /\ saved' = [saved EXCEPT ![r] = text]
    /\ store' = [store EXCEPT !.message = text, !.failed = FALSE]

Type ==
    /\ Act /\ mounted /\ store.repo # None
    /\ SetMessage(Written(store.repo, "typed"))
    /\ UNCHANGED <<active, current, mounted, drafts, asked, committing, event>>

\* The card of a draft written for `origin`; it refuses another active
\* repository, and leads to the screen, which loads when it appears.
Insert(origin) ==
    /\ Act /\ origin = active
    /\ mounted
    /\ SetMessage(Written(origin, "inserted"))
    /\ UNCHANGED <<active, current, mounted, drafts, asked, committing, event>>

InsertAndOpen(origin) ==
    LET r == IF store.repo # None THEN store.repo ELSE active
        kept == [saved EXCEPT ![r] = Written(origin, "inserted")]
    IN  /\ Act /\ origin = active
        /\ ~mounted /\ mounted' = TRUE
        /\ saved' = kept
        /\ LoadWith(kept, active, current)
        /\ UNCHANGED <<active, current, asked, committing, event>>

Active(key) == store.repo = key[1] /\ current = key[2]

Draft ==
    LET key == <<store.repo, current>> IN
    /\ Act /\ mounted /\ store.repo # None
    /\ drafts[key] # "loading"
    /\ drafts' = [drafts EXCEPT ![key] = "loading"]
    /\ store' = [store EXCEPT !.drafting = TRUE, !.failed = FALSE]
    /\ asked' = asked \union {key}
    /\ UNCHANGED <<active, current, mounted, saved, committing, event>>

\* record(): into the box while its repository and branch are shown, kept for
\* the next load otherwise.
DraftEnds(key, ok) ==
    /\ key \in asked
    /\ asked' = asked \ {key}
    /\ IF Active(key)
       THEN /\ drafts' = [drafts EXCEPT ![key] = "none"]
            /\ store' = [store EXCEPT !.drafting = FALSE, !.failed = ~ok,
                                     !.message = IF ok THEN Written(key[1], "drafted") ELSE @]
            /\ saved' = IF ok THEN [saved EXCEPT ![key[1]] = Written(key[1], "drafted")] ELSE saved
       ELSE /\ drafts' = [drafts EXCEPT ![key] = IF ok THEN "ready" ELSE "error"]
            /\ UNCHANGED <<store, saved>>
    /\ UNCHANGED <<active, current, mounted, committing, event, acts>>

\* doCommit: the message of the box, for the repository of the store.
Commit ==
    /\ Act /\ mounted /\ store.repo # None /\ store.message # None
    /\ committing = {}
    /\ committing' = {store.repo}
    /\ event' = [into |-> store.repo, text |-> store.message]
    /\ UNCHANGED <<active, current, mounted, store, saved, drafts, asked>>

\* The box is emptied whatever repository it is of by now.
CommitEnds(r, ok) ==
    /\ committing = {r}
    /\ committing' = {}
    /\ IF ok THEN /\ saved' = [saved EXCEPT ![r] = None]
                  /\ store' = [store EXCEPT !.message = None]
             ELSE UNCHANGED <<store, saved>>
    /\ UNCHANGED <<active, current, mounted, drafts, asked, event, acts>>

Init ==
    /\ active = Start[1] /\ current = Start[2] /\ mounted = FALSE
    /\ store = [repo |-> None, message |-> None, drafting |-> FALSE, failed |-> FALSE]
    /\ saved = [r \in Repos |-> None]
    /\ drafts = [k \in Keys |-> "none"] /\ asked = {}
    /\ committing = {}
    /\ event = [into |-> None, text |-> None]
    /\ acts = 0

User ==
    \/ \E r \in Repos : SwitchRepo(r) \/ Insert(r) \/ InsertAndOpen(r)
    \/ \E b \in Branches : SwitchBranch(b)
    \/ Refresh \/ Leave \/ Type \/ Draft \/ Commit

Background ==
    \/ \E k \in Keys, ok \in BOOLEAN : DraftEnds(k, ok)
    \/ \E r \in Repos, ok \in BOOLEAN : CommitEnds(r, ok)

Next == User \/ Background
Spec == Init /\ [][Next]_vars
FairSpec == Spec /\ WF_vars(Background)

-----------------------------------------------------------------------------
(* Properties.                                                             *)

\* A text that was typed or drafted on this screen is committed only in the
\* repository it was written for: switching repositories never carries one
\* repository's message into another's commit (load, record, doCommit).  What
\* the chat's card inserts is excepted, see OwnTextOnly.
TextOfRepository ==
    event.text # None /\ event.text.how # "inserted" => event.text.of = event.into

\* "Drafting..." is shown exactly while a draft for the repository and branch
\* of the screen is being written: it never sticks, and never hides a second
\* request for the same draft (load, record).
DraftingIsTrue ==
    mounted /\ store.repo = active => (store.drafting <=> Shown \in asked)

\* A draft asked for is not lost: one that is tracked as running is being
\* written, and its end reaches the box or stays for the next load.
DraftTracked == \A k \in Keys : drafts[k] = "loading" <=> k \in asked

(* A text typed or drafted on the screen is committed only in the          *)
(* repository it is for, "Drafting..." is shown just while such a draft is *)
(* being written, and a draft asked for is not lost (commitStore, drafts). *)
DraftsStayHome == TypeOK /\ TextOfRepository /\ DraftingIsTrue /\ DraftTracked

\* Every text committed was written for the repository it is committed in.
OwnTextOnly == event.text # None => event.text.of = event.into

\* A draft that is in the box does not vanish from it: loading the same
\* repository and branch once more keeps it until it is committed or edited.
DraftKept ==
    [][ /\ store.message # None /\ store.message.how = "drafted"
        /\ store'.repo = store.repo /\ current' = current
        /\ committing' = committing
        => store'.message # None ]_vars
=============================================================================
