------------------------------- MODULE AiSetup ------------------------------
(***************************************************************************)
(* The connection the AI features use: what main keeps (AiConnectionService,*)
(* AiCredentialStore, the consent in the settings), what aiStore shows of  *)
(* it, and the two places that change it, the settings screen and the form *)
(* of the chat panel.  A key, a provider and a list of models are known by *)
(* the connection they belong to.  Each call of the store is a flow whose  *)
(* steps are main's handlers; a handler's read and write of its file are   *)
(* one step.                                                               *)
(***************************************************************************)
EXTENDS Naturals, Sequences, FiniteSets, SequencesExt

CONSTANTS None,
          MaxConns,  \* bound: connections ever created
          MaxActs    \* bound: acts of the user

Ids == 1..MaxConns
Maybe(S) == S \union {None}
NoneOr(x, S) == x = None \/ x \in S

VARIABLES conns, activeId,         \* AiConnectionService
          keys,                    \* AiCredentialStore
          consent,                 \* settings.aiEnabled
          made,                    \* connections created so far
          ui,                      \* aiStore
          flows,                   \* the calls under way
          tangled,  \* two calls of the user overlapped, or the program was cut off in a delete
          crossed,  \* a list of models came for a connection that is no longer shown
          acts

main == <<conns, activeId, keys, consent, made>>
vars == <<conns, activeId, keys, consent, made, ui, flows, tangled, crossed, acts>>

\* Calls of the user, and those the panels make by themselves.
Forms == {"setup", "inline"}
Calls == Forms \union {"key", "delete", "model", "mount"}
Effects == {"fetch", "enable"}
Chains == Calls \union Effects
Steps == {"idle", "create", "update", "list", "meta", "key", "enable", "ask", "models",
          "model", "delete", "dropKey"}

Snapshot(c, a, on) == [conns |-> c, active |-> a, on |-> on]
Idle == [at |-> "idle", id |-> None, then |-> "idle", seen |-> Snapshot(<<>>, None, FALSE)]

TypeOK ==
    /\ conns \in Seq(Ids) /\ NoneOr(activeId, Ids) /\ keys \subseteq Ids
    /\ consent \in BOOLEAN /\ made \in 0..MaxConns
    /\ ui.conns \in Seq(Ids) /\ NoneOr(ui.active, Ids) /\ NoneOr(ui.meta, Ids)
    /\ NoneOr(ui.models, Ids) /\ ui.on \in BOOLEAN /\ ui.fetched \in BOOLEAN
    /\ \A f \in Chains : /\ flows[f].at \in Steps /\ flows[f].then \in Steps
                        /\ NoneOr(flows[f].id, Ids)
    /\ tangled \in BOOLEAN /\ crossed \in BOOLEAN /\ acts \in 0..MaxActs

Blank == [conns |-> <<>>, active |-> None, meta |-> None, models |-> None, on |-> FALSE,
          fetched |-> FALSE]
Loading == [Idle EXCEPT !.at = "list"]

Init ==
    /\ conns = <<>> /\ activeId = None
    /\ keys = {} /\ consent = FALSE /\ made = 0
    /\ ui = Blank
    /\ flows = [f \in Chains |-> IF f = "mount" THEN Loading ELSE Idle]
    /\ tangled = FALSE /\ crossed = FALSE /\ acts = 0

\* activeOf: the active connection, or the first.
ActiveOf(v) == IF v.active # None /\ Contains(v.conns, v.active) THEN v.active
               ELSE IF v.conns # <<>> THEN Head(v.conns) ELSE None

ShownId == ActiveOf(ui)
Ready == ShownId # None /\ ui.meta # None
IdleFlow(f) == flows[f].at = "idle"
Quiet == \A f \in Chains : IdleFlow(f)

-----------------------------------------------------------------------------
\* The user's acts; bound: none follows once two calls overlapped.
Act(f, flow) ==
    /\ ~tangled /\ acts < MaxActs /\ acts' = acts + 1
    /\ IdleFlow(f)
    /\ flows' = [flows EXCEPT ![f] = flow]
    /\ tangled' = (tangled \/ \E g \in Calls : ~IdleFlow(g))
    /\ UNCHANGED <<main, ui, crossed>>

At(step, id) == [Idle EXCEPT !.at = step, !.id = id]

\* The settings screen: its form is there while no connection is shown.
SaveSetup == ShownId = None /\ Act("setup", At("create", None))

\* Mutant: the chat's form makes a connection of its own each time.
InlineCreates == At("create", None)

\* The form of the chat panel repairs the connection that lacks a key.
InlineStart == IF ShownId # None THEN At("update", ShownId) ELSE At("create", None)

SaveInline == ~Ready /\ Act("inline", InlineStart)

\* The card of the settings screen: another key, a model, delete; the chat's
\* composer offers the models too.
SaveKey == ShownId # None /\ Act("key", At("key", ShownId))
PickModel == ShownId # None /\ ui.models # None
             /\ Act("model", [At("model", ShownId) EXCEPT !.then = "idle"])
Delete == ShownId # None /\ Act("delete", At("delete", ShownId))

\* Opening the settings screen, or the chat panel, loads.
Mount == Act("mount", Loading)

-----------------------------------------------------------------------------
Goes(f, flow) == flows' = [flows EXCEPT ![f] = flow]
To(f, step) == [flows[f] EXCEPT !.at = step]

\* Where a call goes after its key is stored and AI is on.
AfterKey(f) == IF f \in Forms THEN To(f, "ask") ELSE Idle

\* load(), and what follows it.
Load(f, id, then) == [At("list", id) EXCEPT !.then = then]

FirstActive(id) == IF activeId = None THEN id ELSE activeId

\* create: refused for its address, or added, active if none is.
Create(f) ==
    /\ flows[f].at = "create"
    /\ \/ Goes(f, Idle) /\ UNCHANGED main
       \/ /\ made < MaxConns
          /\ made' = made + 1
          /\ conns' = Append(conns, made + 1)
          /\ activeId' = FirstActive(made + 1)
          /\ Goes(f, Load(f, made + 1, "key"))
          /\ UNCHANGED <<keys, consent>>
    /\ UNCHANGED <<ui, tangled, crossed, acts>>

\* update of the provider, by the chat's form.
Update(f) ==
    /\ flows[f].at = "update"
    /\ Goes(f, IF Contains(conns, flows[f].id) THEN Load(f, flows[f].id, "key") ELSE Idle)
    /\ UNCHANGED <<main, ui, tangled, crossed, acts>>

\* list: an active id that names no connection is none.
List(f) ==
    /\ flows[f].at = "list"
    /\ Goes(f, [To(f, "meta") EXCEPT !.seen = Snapshot(conns, activeId, consent)])
    /\ UNCHANGED <<main, ui, tangled, crossed, acts>>

\* What load() sets: the list as it was read, the key of the connection shown.
Loaded(seen) ==
    LET c == ActiveOf(seen) IN
    [conns |-> seen.conns, active |-> seen.active,
     meta |-> IF c # None THEN IF c \in keys THEN c ELSE None ELSE None,
     models |-> None, on |-> seen.on, fetched |-> FALSE]

Meta(f) ==
    /\ flows[f].at = "meta"
    /\ ui' = Loaded(flows[f].seen)
    /\ Goes(f, IF flows[f].then = "idle" THEN Idle ELSE At(flows[f].then, flows[f].id))
    /\ UNCHANGED <<main, tangled, crossed, acts>>

\* A key that cannot be encrypted or stored ends the call.
KeyRefused(f) == [flows EXCEPT ![f] = Idle]

\* saveCredential: main does not ask whether the connection is still there.
\* A key is the consent: AI is turned on if it is not.
SaveCredential(f) ==
    /\ flows[f].at = "key"
    /\ \/ flows' = KeyRefused(f) /\ UNCHANGED <<keys, ui>>
       \/ /\ keys' = keys \union {flows[f].id}
          /\ ui' = [ui EXCEPT !.meta = flows[f].id, !.models = None, !.fetched = FALSE]
          /\ Goes(f, IF ui.on THEN AfterKey(f) ELSE To(f, "enable"))
    /\ UNCHANGED <<conns, activeId, consent, made, tangled, crossed, acts>>

SetAiEnabled(f) ==
    /\ flows[f].at = "enable"
    /\ consent' = TRUE
    /\ ui' = [ui EXCEPT !.on = TRUE]
    /\ Goes(f, IF f \in Forms THEN To(f, "ask") ELSE Idle)
    /\ UNCHANGED <<conns, activeId, keys, made, tangled, crossed, acts>>

\* listModels asks the provider, if the connection and its key are there.
AskModels(f) ==
    LET c == flows[f].id IN
    /\ flows[f].at = "ask"
    /\ \/ /\ Contains(conns, c) /\ c \in keys
          /\ Goes(f, To(f, "models")) /\ UNCHANGED ui
       \/ /\ Goes(f, Idle)
          /\ ui' = [ui EXCEPT !.models = None]
    /\ UNCHANGED <<main, tangled, crossed, acts>>

\* The provider's answer is shown whatever is shown by then; a form takes the
\* first model.
ModelsAnswer(f) ==
    /\ flows[f].at = "models"
    /\ \/ /\ ui' = [ui EXCEPT !.models = flows[f].id]
          /\ crossed' = (crossed \/ flows[f].id # ShownId)
          /\ Goes(f, IF f \in Forms THEN To(f, "model") ELSE Idle)
       \/ ui' = [ui EXCEPT !.models = None] /\ UNCHANGED crossed /\ Goes(f, Idle)
    /\ UNCHANGED <<main, tangled, acts>>

\* update of the default model; which model it is is left out.
SaveModel(f) ==
    LET c == flows[f].id IN
    /\ flows[f].at = "model"
    /\ Goes(f, IF Contains(conns, c) THEN Load(f, c, "idle") ELSE Idle)
    /\ UNCHANGED <<main, ui, tangled, crossed, acts>>

\* remaining: the list without one.
Without(c) == RemoveAt(conns, CHOOSE i \in 1..Len(conns) : conns[i] = c)

\* delete: the connection goes, no other is made active; then its key goes.
DeleteConnection(f) ==
    LET c == flows[f].id IN
    /\ flows[f].at = "delete"
    /\ IF Contains(conns, c)
       THEN /\ conns' = Without(c)
            /\ activeId' = IF activeId = c THEN None ELSE activeId
            /\ Goes(f, To(f, "dropKey"))
       ELSE Goes(f, Idle) /\ UNCHANGED <<conns, activeId>>
    /\ UNCHANGED <<keys, consent, made, ui, tangled, crossed, acts>>

DropKey(f) ==
    /\ flows[f].at = "dropKey"
    /\ keys' = keys \ {flows[f].id}
    /\ Goes(f, Load(f, flows[f].id, "idle"))
    /\ UNCHANGED <<conns, activeId, consent, made, ui, tangled, crossed, acts>>

-----------------------------------------------------------------------------
\* The settings card, and the chat's composer, ask for the models of the
\* connection shown, once per load or new key.
WantsModels == Ready /\ ui.models = None /\ ~ui.fetched

FetchModels ==
    /\ WantsModels /\ IdleFlow("fetch")
    /\ ui' = [ui EXCEPT !.fetched = TRUE]
    /\ Goes("fetch", At("ask", ShownId))
    /\ UNCHANGED <<main, tangled, crossed, acts>>

\* The panel turns AI on when a connection is ready.
PanelEnables == Ready /\ ~ui.on /\ IdleFlow("enable")

EnableEffect ==
    /\ PanelEnables
    /\ Goes("enable", At("enable", None))
    /\ UNCHANGED <<main, ui, tangled, crossed, acts>>

\* The program is closed and started again: main's files stay.
Restart ==
    /\ ~tangled /\ acts < MaxActs /\ acts' = acts + 1
    /\ tangled' = (tangled \/ flows["delete"].at = "dropKey")
    /\ ui' = Blank
    /\ flows' = [f \in Chains |-> IF f = "mount" THEN Loading ELSE Idle]
    /\ UNCHANGED <<main, crossed>>

Answers ==
    \/ \E f \in Chains : \/ Create(f) \/ Update(f) \/ List(f) \/ Meta(f) \/ SaveCredential(f)
                        \/ SetAiEnabled(f) \/ AskModels(f) \/ ModelsAnswer(f) \/ SaveModel(f)
                        \/ DeleteConnection(f) \/ DropKey(f)
    \/ FetchModels \/ EnableEffect

Next == Answers \/ SaveSetup \/ SaveInline \/ SaveKey \/ PickModel \/ Delete \/ Mount \/ Restart

Spec == Init /\ [][Next]_vars

\* Handlers answer, provider requests time out, effects run after a render.
FairSpec == Spec /\ WF_vars(Answers)

-----------------------------------------------------------------------------
\* buildPreview and isAiSendAllowed: a send is let through for an active
\* connection, with the consent; the adapter then wants a key.
Sendable == /\ activeId # None /\ Contains(conns, activeId)
            /\ consent /\ activeId \in keys

\* When nothing is under way and the chat's composer is shown, main would let
\* a send through (AiChatPanel.tsx:618-621), unless two calls overlapped.
ReadyIsSendable == ~tangled /\ Quiet /\ Ready /\ ui.on => Sendable

\* The key shown is that of the connection shown (aiStore.ts:137-140).
MetaOfShown == ~tangled /\ ui.meta # None => ui.meta = ShownId

\* The models offered are those of the connection shown, unless a list that
\* was asked for came after the connection was changed for another.
ModelsOfShown == ~tangled /\ ~crossed /\ ui.models # None => ui.models = ShownId

\* No key is kept for a connection that is gone.
NoOrphanKey == ~tangled /\ IdleFlow("delete") => \A c \in keys : Contains(conns, c)

\* The chat's form finishes the connection of an interrupted save instead of
\* making a second one (AiChatPanel.tsx:99-101).
NoDuplicate == ~tangled => Len(conns) <= 1

\* A connection that is ready has the consent in the end, after an
\* interrupted save too.
ConsentFollows == Ready ~> (consent \/ ~Ready)

\* A form does not save for ever.
SavingEnds == \A f \in Forms : ~IdleFlow(f) ~> IdleFlow(f)

\* Refuted: a composer that is shown does not send in vain, whatever
\* overlapped: a connection that is shown for want of an active one is not
\* sent to, and nothing makes it active.
ReadyAlways == Quiet /\ Ready /\ ui.on => Sendable
=============================================================================
