------------------------------- MODULE AiChat -------------------------------
(***************************************************************************)
(* The chat with an AI connection: aiChatStore's sends, the main process   *)
(* that answers them (AiChatAssistant over an adapter that streams, then   *)
(* asks again in a stricter form), the Stop button, and the proposals of   *)
(* edits that AgenticActionExecutor writes to the repository they were     *)
(* made for.  Events and answers of the main process reach the renderer in *)
(* the order they were sent, so each is one step with its arrival.  What a *)
(* request says, and what it costs, is left out: a refusal is a failure.   *)
(***************************************************************************)
EXTENDS Naturals, Sequences, FiniteSets

CONSTANTS Repos, None,
          First,      \* the repository shown at first
          Paths,      \* the paths a proposal edits, in its order
          Differs,    \* those whose content is not the same on both branches
          MaxSends,   \* bound: sends
          MaxApplies, \* bound: clicks on Apply
          MaxMoves    \* bound: switches, checkouts, edits by hand, Stop and New chat

Maybe(S) == S \union {None}
Sends == 1..MaxSends
Branches == {1, 2}

\* Contents of a file: committed the same on both branches, committed on
\* branch b, edited by hand, and written by the proposal of send n.
Shared == 0
ByHand == 3
By(n) == 3 + n
Contents == 0..(3 + MaxSends)
Committed(p, b) == IF p \in Differs THEN b ELSE Shared
PathSet == {Paths[i] : i \in 1..Len(Paths)}

VARIABLES active,   \* appStore.activeRepo
          chat,     \* aiChatStore: pending and activeRequestId
          bubbles,  \* the assistant's message of each send
          sends,    \* what became of each send: main's work and who waits for it
          stops,    \* requests whose Stop was clicked and has not reached main
          files, branch,  \* the worktrees
          applies,  \* applyProposal calls
          overlap,  \* two operations of the chat were under way at once
          moves

vars == <<active, chat, bubbles, sends, stops, files, branch, applies, overlap, moves>>

\* aiChatStore, and an assistant's message; from: the sends whose tokens are in it.
Chat == [pending : BOOLEAN, request : 0..MaxSends]
ChatMessage == [status : {"none", "shown", "gone"}, streaming : BOOLEAN,
                from : SUBSET Sends, grown : 0..2, error : BOOLEAN,
                stamp : Maybe(Repos), applied : BOOLEAN]

\* What main and the renderer know of a send, and of a click on Apply.
SendState == [kind : {"none", "chat", "commit", "propose"}, origin : Maybe(Repos),
              at : {"unsent", "preview", "stream", "ask", "suggest", "over"},
              aborted : BOOLEAN, stopped : BOOLEAN,
              before : [PathSet -> Contents], checked : BOOLEAN]
Application == [of : Sends, into : Repos, edit : 1..(Len(Paths) + 1),
                at : {"queued", "compare", "write", "failed", "over"},
                raced : BOOLEAN, clobbered : BOOLEAN, on : SUBSET Branches]

TypeOK ==
    /\ active \in Repos
    /\ chat \in Chat /\ bubbles \in [Sends -> ChatMessage]
    /\ sends \in [Sends -> SendState]
    /\ stops \subseteq Sends
    /\ files \in [Repos -> [PathSet -> Contents]] /\ branch \in [Repos -> Branches]
    /\ applies \in Seq(Application)
    /\ Len(applies) <= MaxApplies
    /\ overlap \in BOOLEAN /\ moves \in 0..MaxMoves

Init ==
    /\ active = First
    /\ chat = [pending |-> FALSE, request |-> 0]
    /\ bubbles = [n \in Sends |-> [status |-> "none", streaming |-> FALSE, from |-> {},
                                   grown |-> 0, error |-> FALSE, stamp |-> None,
                                   applied |-> FALSE]]
    /\ sends = [n \in Sends |-> [kind |-> "none", origin |-> None,
                                 at |-> "unsent", aborted |-> FALSE, stopped |-> FALSE,
                                 before |-> [p \in PathSet |-> Shared], checked |-> FALSE]]
    /\ stops = {}
    /\ files = [r \in Repos |-> [p \in PathSet |-> Committed(p, 1)]]
    /\ branch = [r \in Repos |-> 1]
    /\ applies = <<>> /\ overlap = FALSE /\ moves = 0

Move == moves < MaxMoves /\ moves' = moves + 1
Work == <<files, branch, applies>>

Live(n) == sends[n].at \notin {"unsent", "over"}
Applying(k) == applies[k].at # "over"
UnderWay == (\E n \in Sends : Live(n)) \/ (\E k \in DOMAIN applies : Applying(k))

-----------------------------------------------------------------------------
(* The controls of the panel.                                              *)

CanSend == ~chat.pending
ClearShown == ~chat.pending
StopShown == chat.pending
ApplyShown(n) ==
    bubbles[n].status = "shown" /\ sends[n].kind = "propose" /\ ~bubbles[n].applied

\* send(): nothing while the chat is busy.  A question gets its bubble at
\* once; a command gets one with its answer.  Of the commands, /commit and
\* /propose: the others answer with words only.
Send(n, kind) ==
    /\ CanSend /\ sends[n].at = "unsent"
    /\ \A m \in 1..(n - 1) : sends[m].at # "unsent"
    /\ sends' = [sends EXCEPT ![n] = [@ EXCEPT !.kind = kind, !.origin = active,
                                              !.at = "preview"]]
    /\ bubbles' = IF kind = "chat"
                  THEN [bubbles EXCEPT ![n] = [@ EXCEPT !.status = "shown", !.streaming = TRUE]]
                  ELSE bubbles
    /\ chat' = [pending |-> TRUE, request |-> IF kind = "chat" THEN n ELSE chat.request]
    /\ overlap' = (overlap \/ UnderWay \/ stops # {})
    /\ UNCHANGED <<active, stops, Work, moves>>

\* The finally of send().
End(n, ok) == chat' = [pending |-> FALSE, request |-> 0]

\* A change of n's bubble, if the user has not cleared it away.
Bubble(n, b) == IF bubbles[n].status = "shown" THEN [bubbles EXCEPT ![n] = b] ELSE bubbles

\* Mutant: every bubble that still listens takes the text of any request.
HeardByAll(n) == {m \in Sends : sends[m].kind = "chat"
                                   /\ sends[m].at \in {"preview", "stream", "ask"}}

\* The bubbles that listen to the events of request n.
Heard(n) == {n}

\* Text of request n is appended to b, the bubble of m.
Appended(b, n) == [b EXCEPT !.from = @ \union {n}, !.grown = IF @ < 2 THEN @ + 1 ELSE @]
Grow(n) == [m \in Sends |-> IF m \in Heard(n) /\ bubbles[m].status = "shown"
                            THEN Appended(bubbles[m], n) ELSE bubbles[m]]

At(n, step) == [sends EXCEPT ![n].at = step, ![n].aborted = FALSE]

\* Mutant: the bubble of a reply that failed still streams.
FailKeepsStreaming(n) ==
    /\ bubbles' = IF sends[n].kind = "chat"
                  THEN Bubble(n, [bubbles[n] EXCEPT !.error = TRUE])
                  ELSE bubbles
    /\ sends' = At(n, "over")
    /\ End(n, FALSE)

\* The request failed: its bubble says so, or a bubble of its own does.
Fail(n) ==
    /\ bubbles' = IF sends[n].kind = "chat"
                  THEN Bubble(n, [bubbles[n] EXCEPT !.error = TRUE, !.streaming = FALSE])
                  ELSE bubbles
    /\ sends' = At(n, "over")
    /\ End(n, FALSE)

Quiet == UNCHANGED <<active, stops, Work, overlap, moves>>

\* The reply is whole; one more request may find a card for it.
Replied(n, shown) ==
    LET done == [shown[n] EXCEPT !.streaming = FALSE]
        useful == done.status = "shown" /\ ~done.error /\ done.grown > 0
    IN /\ bubbles' = [shown EXCEPT ![n] = done]
       /\ sends' = At(n, IF useful THEN "suggest" ELSE "over")
       /\ IF useful THEN UNCHANGED chat ELSE End(n, TRUE)

\* A command is asked for at once in a form that can be parsed.
FirstForm(n) == IF sends[n].kind = "chat" THEN "stream" ELSE "ask"

\* buildPreview: refused by the gate, by the guard or by git, or sent.
Preview(n) ==
    /\ sends[n].at = "preview"
    /\ \/ Fail(n)
       \/ /\ sends' = At(n, FirstForm(n))
          /\ UNCHANGED <<chat, bubbles>>
    /\ Quiet

Delta(n) ==
    /\ sends[n].at = "stream" /\ ~sends[n].aborted
    /\ bubbles' = Grow(n)
    /\ bubbles' # bubbles
    /\ UNCHANGED <<chat, sends>> /\ Quiet

StreamEnds(n) ==
    /\ sends[n].at = "stream" /\ ~sends[n].aborted
    /\ Replied(n, bubbles) /\ Quiet

\* The stream failed, was refused or was aborted: the same request is sent
\* again as a structured one, under a controller of its own, in up to four
\* shapes that are one step here.
StreamBreaks(n) ==
    /\ sends[n].at = "stream"
    /\ sends' = At(n, "ask")
    /\ UNCHANGED <<chat, bubbles>> /\ Quiet

\* A card is for the repository its request was made for.
Stamp(n) == sends[n].origin

AskFails(n) ==
    /\ sends[n].at = "ask"
    /\ Fail(n) /\ Quiet

\* The structured answer is the whole reply.
ReplyAnswers(n) ==
    /\ sends[n].kind = "chat" /\ sends[n].at = "ask" /\ ~sends[n].aborted
    /\ Replied(n, Grow(n)) /\ Quiet

\* A command answers with a draft's card, or with a proposal of edits, which
\* may name what each file had (checked) when it was made.
CommandAnswers(n, checked) ==
    /\ sends[n].kind # "chat" /\ sends[n].at = "ask"
    /\ sends[n].kind = "commit" => ~checked
    /\ bubbles' = [bubbles EXCEPT ![n] = [@ EXCEPT !.status = "shown", !.from = {n},
                                                   !.stamp = Stamp(n)]]
    /\ sends' = [sends EXCEPT ![n] = [@ EXCEPT !.at = "over", !.checked = checked,
                                               !.before = files[sends[n].origin]]]
    /\ End(n, TRUE) /\ Quiet

\* chatSuggestBlock: a draft's card under the reply, or nothing.
Suggest(n, card) ==
    /\ sends[n].at = "suggest"
    /\ bubbles' = IF card THEN Bubble(n, [bubbles[n] EXCEPT !.stamp = Stamp(n)]) ELSE bubbles
    /\ sends' = At(n, "over")
    /\ End(n, TRUE) /\ Quiet

-----------------------------------------------------------------------------
\* The Stop button: nothing when no request has a name.
Stop ==
    /\ Move
    /\ StopShown /\ chat.request # 0 /\ chat.request \notin stops
    /\ stops' = stops \union {chat.request}
    /\ UNCHANGED <<active, chat, bubbles, sends, Work, overlap>>

\* Main aborts the request if it has a controller now, and answers; the chat
\* is idle whatever is under way.
StopArrives(n) ==
    /\ n \in stops
    /\ stops' = stops \ {n}
    /\ sends' = IF sends[n].at \in {"stream", "ask"}
                THEN [sends EXCEPT ![n].aborted = TRUE, ![n].stopped = TRUE] ELSE sends
    /\ chat' = [pending |-> FALSE, request |-> 0]
    /\ bubbles' = [m \in Sends |-> [bubbles[m] EXCEPT !.streaming = FALSE]]
    /\ overlap' = (overlap \/ UnderWay)
    /\ UNCHANGED <<active, Work, moves>>

\* New chat.
Clear ==
    /\ Move /\ ClearShown
    /\ \E n \in Sends : bubbles[n].status = "shown"
    /\ bubbles' = [n \in Sends |-> IF bubbles[n].status = "shown"
                                   THEN [bubbles[n] EXCEPT !.status = "gone", !.streaming = FALSE]
                                   ELSE bubbles[n]]
    /\ chat' = [chat EXCEPT !.request = 0]
    /\ UNCHANGED <<active, sends, stops, Work, overlap>>

SwitchRepo(r) ==
    /\ Move /\ r # active
    /\ active' = r
    /\ UNCHANGED <<chat, bubbles, sends, stops, Work, overlap>>

-----------------------------------------------------------------------------
\* applyProposal: only in the repository the proposal was made for; the
\* button takes a second click until the first is answered, and takes one
\* while the chat is busy.
Apply(n) ==
    /\ ApplyShown(n)
    /\ Len(applies) < MaxApplies
    /\ active = bubbles[n].stamp
    /\ applies' = Append(applies, [of |-> n, into |-> bubbles[n].stamp, edit |-> 1,
                                   at |-> "queued", raced |-> FALSE, clobbered |-> FALSE,
                                   on |-> {}])
    /\ chat' = [chat EXCEPT !.pending = TRUE]
    /\ overlap' = (overlap \/ UnderWay \/ stops # {})
    /\ UNCHANGED <<active, bubbles, sends, stops, files, branch, moves>>

\* The repository's queue is held by a batch from its first edit to its last.
Holds(k) == applies[k].at \in {"compare", "write"}

QueueFree(r) == \A k \in DOMAIN applies : applies[k].into = r => ~Holds(k)

Path(k) == Paths[applies[k].edit]
Hold == UNCHANGED <<active, bubbles, sends, stops, branch, overlap, moves>>

ApplyRuns(k) ==
    /\ applies[k].at = "queued" /\ QueueFree(applies[k].into)
    /\ applies' = [applies EXCEPT ![k].at = "compare"]
    /\ UNCHANGED <<chat, files>> /\ Hold

\* Mutant: what the file has now is not compared.
UnchangedUnread(k) == TRUE

\* The file still has what the proposal says it had, if it says so.
StillAsSeen(k) ==
    sends[applies[k].of].checked
        => files[applies[k].into][Path(k)] = sends[applies[k].of].before[Path(k)]

Compare(k) ==
    /\ applies[k].at = "compare" /\ applies[k].edit <= Len(Paths)
    /\ applies' = [applies EXCEPT ![k].at = IF StillAsSeen(k) THEN "write" ELSE "failed",
                                  ![k].raced = FALSE]
    /\ UNCHANGED <<chat, files>> /\ Hold

\* writeFile: it may fail too, and leaves what was written before it.
Write(k) ==
    LET a == applies[k]
        s == sends[a.of]
    IN /\ a.at = "write"
       /\ \/ /\ files' = [files EXCEPT ![a.into][Path(k)] = By(a.of)]
             /\ applies' = [applies EXCEPT ![k] =
                    [a EXCEPT !.at = "compare", !.edit = @ + 1,
                              !.on = @ \union {branch[a.into]},
                              !.clobbered = @ \/ (/\ s.checked /\ ~a.raced
                                                  /\ files[a.into][Path(k)] # s.before[Path(k)])]]
          \/ applies' = [applies EXCEPT ![k].at = "failed"] /\ UNCHANGED files
       /\ UNCHANGED chat /\ Hold

\* The answer: the proposal is marked applied, or a bubble says why not.
ApplyAnswers(k) ==
    LET whole == applies[k].at = "compare" /\ applies[k].edit > Len(Paths)
        n == applies[k].of
    IN /\ applies[k].at = "failed" \/ whole
       /\ bubbles' = IF whole THEN Bubble(n, [bubbles[n] EXCEPT !.applied = TRUE]) ELSE bubbles
       /\ applies' = [applies EXCEPT ![k].at = "over"]
       /\ chat' = [chat EXCEPT !.pending = FALSE]
       /\ UNCHANGED <<active, sends, stops, files, branch, overlap, moves>>

\* Files matter once a proposal has looked at them.
Proposed(r) == \E n \in Sends : bubbles[n].stamp = r /\ sends[n].kind = "propose"

\* git checkout of the other branch, a job of the same queue; git refuses it
\* when it would overwrite a change that is not committed.
Checkout(r) ==
    LET b == 3 - branch[r] IN
    /\ Move /\ Proposed(r) /\ QueueFree(r)
    /\ \A p \in Differs : files[r][p] = Committed(p, branch[r])
    /\ branch' = [branch EXCEPT ![r] = b]
    /\ files' = [files EXCEPT ![r] = [p \in PathSet |-> IF p \in Differs THEN Committed(p, b)
                                                                         ELSE @[p]]]
    /\ UNCHANGED <<active, chat, bubbles, sends, stops, applies, overlap>>

\* An editor writes a file, at any moment.
EditByHand(r, p) ==
    /\ Move /\ Proposed(r) /\ files[r][p] # ByHand
    /\ files' = [files EXCEPT ![r][p] = ByHand]
    /\ applies' = [k \in DOMAIN applies |->
                      IF applies[k].at = "write" /\ applies[k].into = r /\ Path(k) = p
                      THEN [applies[k] EXCEPT !.raced = TRUE] ELSE applies[k]]
    /\ UNCHANGED <<active, chat, bubbles, sends, stops, branch, overlap>>

-----------------------------------------------------------------------------
Answers ==
    \/ \E n \in Sends : \/ Preview(n) \/ StreamEnds(n) \/ StreamBreaks(n) \/ AskFails(n)
                        \/ StopArrives(n)
                        \/ ReplyAnswers(n)
                        \/ \E b \in BOOLEAN : CommandAnswers(n, b) \/ Suggest(n, b)
    \/ \E k \in DOMAIN applies : ApplyRuns(k) \/ Compare(k) \/ Write(k) \/ ApplyAnswers(k)

Next ==
    \/ Answers
    \/ \E n \in Sends : \/ \E kind \in {"chat", "commit", "propose"} : Send(n, kind)
                        \/ Delta(n) \/ Apply(n)
    \/ Stop \/ Clear
    \/ \E r \in Repos : \/ SwitchRepo(r) \/ Checkout(r)
                        \/ \E p \in PathSet : EditByHand(r, p)

Spec == Init /\ [][Next]_vars

\* Requests are answered or fail (the HTTP client has a timeout), and jobs end.
FairSpec == Spec /\ WF_vars(Answers)

-----------------------------------------------------------------------------
\* A bubble has the text of its own request and of no other, with several
\* replies arriving at once (runStreamingChat's requestId).
OwnReply == \A n \in Sends : bubbles[n].from \subseteq {n}

\* As long as the user has not stopped a request and begun another operation
\* before it ended, the chat is busy exactly while something is under way
\* (the button is Stop then, and New chat is off).
BusyIsTrue == ~overlap => (chat.pending <=> UnderWay)

\* A card, a draft or a proposal, names the repository its request was made
\* for, wherever the user is when it comes (audit W2, W11).
CardOfOrigin == \A n \in Sends : bubbles[n].stamp \in {None, sends[n].origin}

\* Edits are written in the repository they were proposed for.
EditsAtOrigin == \A k \in DOMAIN applies : applies[k].into = sends[applies[k].of].origin

\* An edit that names what it replaces replaces nothing else, but for a file
\* an editor writes between the comparison and the write (the gap the comment
\* in executeFileEdits leaves open).
NothingClobbered == \A k \in DOMAIN applies : ~applies[k].clobbered

\* The edits of one proposal land on one branch: no checkout comes between.
OneBranch == \A k \in DOMAIN applies : Cardinality(applies[k].on) <= 1

\* A proposal that is marked applied was written to its last edit.
AppliedIsWhole ==
    \A n \in Sends : bubbles[n].applied =>
        \E k \in DOMAIN applies : applies[k].of = n /\ applies[k].edit > Len(Paths)

(* A bubble has the text of its own request only, the chat is busy just    *)
(* while something is under way unless a stopped request was overtaken,    *)
(* and a card names the repository its request was made for (aiChatStore). *)
ChatIsTrue == TypeOK /\ OwnReply /\ BusyIsTrue /\ CardOfOrigin

(* The edits of a proposal are written in its own repository, on one       *)
(* branch, over nothing but what they name, unless an editor comes between *)
(* the comparison and the write, and a card says "applied" only when the   *)
(* last of them was (AgenticActionExecutor.ts).                            *)
EditsLandWhole == EditsAtOrigin /\ NothingClobbered /\ OneBranch /\ AppliedIsWhole

\* Every reply stops streaming, and the chat does not stay busy.
Streaming(n) == bubbles[n].streaming
RepliesEnd == \A n \in Sends : Streaming(n) ~> ~Streaming(n)
BusyEnds == chat.pending ~> ~chat.pending

\* Refuted: "Stop an in-flight streaming chat send" (aiChatStore.ts:60): once
\* its request was aborted, a reply gets nothing more.
StopStops ==
    [][\A n \in Sends : sends[n].stopped /\ bubbles[n].status = "shown"
           => bubbles'[n].from = bubbles[n].from /\ bubbles'[n].grown = bubbles[n].grown]_vars
=============================================================================
