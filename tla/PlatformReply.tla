---------------------------- MODULE PlatformReply ----------------------------
(***************************************************************************)
(* A chat message from the platform's request to the reply: the adapter    *)
(* answers the platform, each message of the request starts a pipeline,    *)
(* and the pipeline wakes the agent, delivers, and sends the reply in      *)
(* chunks, each on the callback schedule.  The whole run has a deadline    *)
(* that is the sum of its legs' worst cases.  An asynchronous webhook runs *)
(* under the same deadline with two schedules of its own.                  *)
(***************************************************************************)
EXTENDS Naturals, Sequences, SequencesExt, FiniteSets, FiniteSetsExt

CONSTANTS TextBound, Limit,   \* longest text, and the platform's chunk limit
          Backoff, ReadTime,      \* the callback schedule: waits, and time per try
          WakeWorst, Margin   \* wake and delivery at their longest; the margin

ASSUME ReplyBounds == {TextBound, Limit, ReadTime, WakeWorst, Margin} \subseteq Nat \ {0} /\ Backoff \in Seq(Nat)

\* A text is its line breaks and its other characters.
Texts == UNION {[1..n -> {"c", "\n"}] : n \in 0..TextBound}

(***************************************************************************)
(* Cutting the reply.                                                      *)
(***************************************************************************)
\* Where the first piece of a text over the limit ends: after the last line
\* break of the second half of the window, or at the limit.
CutAt(t) ==
    LET breaks == {i \in ((Limit \div 2) + 1)..Limit : t[i] = "\n"}
    IN  IF breaks = {} THEN Limit ELSE Max(breaks)
\* The piece after n cuts, as the text that is still to be cut.
Remaining(t) == [n \in 0..TextBound |-> LET after[k \in 0..n] == IF k = 0 THEN t
                                         ELSE LET u == after[k - 1]
                                              IN  IF Len(u) > Limit THEN SubSeq(u, CutAt(u) + 1, Len(u)) ELSE <<>>
                                   IN  after[n]]
splitChunks(t) ==
    IF Len(t) <= Limit THEN <<t>>
    ELSE LET rest == Remaining(t)
             n == Cardinality({k \in 0..TextBound : rest[k] # <<>>})
         IN  [k \in 1..n |-> IF Len(rest[k - 1]) > Limit THEN SubSeq(rest[k - 1], 1, CutAt(rest[k - 1]))
                             ELSE rest[k - 1]]
\* An empty reply is sent as a fixed text of one chunk.
chunksOf(t) == IF t = <<>> THEN <<"empty">> ELSE splitChunks(t)

VARIABLES given,  \* the kind of channel, and what the request holds
          http,  \* the answer to the platform: none, or its outcome
          pipe   \* the pipeline of one of the messages

yvars == <<given, http, pipe>>

(***************************************************************************)
(* The deadline.                                                           *)
(***************************************************************************)
retryScheduleWorstCase == (Len(Backoff) + 1) * ReadTime + FoldSeq(LAMBDA a, b : a + b, 0, Backoff)
\* The schedules the reply may run: for Discord the first chunk's edit too,
\* which a 404 replaces; an asynchronous webhook has the callback and a patch.
ReplyRequests(k, t) == CASE k = "discord" -> Len(chunksOf(t)) + 1
                         [] k = "whatsapp" -> Len(chunksOf(t))
                         [] k = "webhook" -> 2
backgroundPipelineBound(agent, requests) ==
    Margin + requests * retryScheduleWorstCase + (IF agent THEN WakeWorst ELSE 0)

(***************************************************************************)
(* The request.                                                            *)
(***************************************************************************)
\* What a Discord interaction can be, and the items of a WhatsApp event.
Interactions == {"ping", "command", "outOfScope", "component", "autocomplete", "modal", "unknown"}
Items == {"status", "otherNumber", "malformed", "message"}
Inbounds == [kind : {"discord"}, signed : BOOLEAN, items : {<<i>> : i \in Interactions}]
            \cup [kind : {"whatsapp"}, signed : BOOLEAN, items : {<<i, j>> : i \in Items, j \in Items}]
            \cup [kind : {"webhook"}, signed : {TRUE}, items : {<<"message">>}]

NoPipe == [pc |-> "none", spent |-> 0, text |-> <<>>, next |-> 0, try |-> 0, bot |-> FALSE, chat |-> <<>>,
         outcome |-> "none", cut |-> FALSE]
Situations == [request : Inbounds, agent : BOOLEAN, bot : BOOLEAN, expired : BOOLEAN]
YInit == /\ given \in Situations
         /\ given.request.kind # "discord" => ~given.bot /\ ~given.expired
         /\ given.request.kind = "webhook" => given.agent
         /\ http = [status |-> "none", messages |-> 0, rejected |-> 0, failed |-> FALSE] /\ pipe = NoPipe

isMessage(i) == i \in {"command", "message"}
\* Handle: a signature that does not verify is refused and counts against the
\* channel's health, but for Discord's own probe; the rest is answered at once.
Handle(r) ==
    IF ~r.signed THEN [status |-> "401", messages |-> 0, rejected |-> 0, failed |-> r.items # <<"ping">>]
    ELSE [status |-> IF r.items = <<"unknown">> THEN "400" ELSE "200",
          messages |-> Cardinality({i \in DOMAIN r.items : isMessage(r.items[i])}),
          rejected |-> Cardinality({i \in DOMAIN r.items : r.items[i] \in (Items \cup {"outOfScope"}) \ {"message"}}),
          failed |-> FALSE]

\* handlePlatform: a pipeline for each message, after the answer.
handlePlatform ==
    /\ http.status = "none" /\ http' = Handle(given.request)
    /\ pipe' = [NoPipe EXCEPT !.pc = IF http'.messages > 0 THEN "wake" ELSE "done"]
    /\ UNCHANGED given

(***************************************************************************)
(* The pipeline.                                                           *)
(***************************************************************************)
platform == given.request.kind
Spend(p, d) == [p EXCEPT !.spent = @ + d]
\* Time d passes, and the context's deadline with it or not.
Within(p, d, bound) == [Spend(p, d) EXCEPT !.cut = @ \/ p.spent + d > bound]

\* Wake and delivery, for a platform under the bound without a reply: any text may come back,
\* an error's too; without the Agent the error is the reply.
wakeAndDeliver ==
    /\ pipe.pc = "wake"
    /\ \E d \in {0, WakeWorst}, t \in Texts :
        /\ ~given.agent => d = 0 /\ t = <<"c">>
        /\ pipe' = [Within(pipe, d, backgroundPipelineBound(given.agent, IF platform = "webhook" THEN 2 ELSE 0)) EXCEPT !.pc = "reply", !.text = t,
                       !.next = 1, !.bot = platform = "discord" /\ given.expired]
    /\ UNCHANGED <<given, http>>

replyBound == backgroundPipelineBound(given.agent, ReplyRequests(platform, pipe.text))
Refuse(p, outcome) == [p EXCEPT !.pc = "done", !.outcome = outcome]
Chunks == IF platform = "webhook" THEN <<"callback", "patch">> ELSE chunksOf(pipe.text)
\* A delivered callback leaves nothing to store.
Delivered(p) == IF p.next = Len(Chunks) \/ platform = "webhook" THEN [p EXCEPT !.pc = "done", !.outcome = "delivered", !.try = 0]
                ELSE [p EXCEPT !.next = @ + 1, !.try = 0]

\* A request that is refused or whose schedule is used up ends the reply; the async pipeline patches its
\* record even when the callback was not taken.
NotTaken(p, outcome) == IF platform = "webhook" /\ p.next = 1 THEN [p EXCEPT !.next = 2, !.try = 0]
                        ELSE Refuse(p, outcome)

\* sendPlatformRequest, one try of the current request.  The platform may take
\* a chunk and its answer be lost; the try is then repeated.
sendPlatformRequest(d, answer) ==
    LET first == [Within(pipe, d, replyBound) EXCEPT
                    !.chat = IF answer \in {"taken", "lost"} THEN Append(@, pipe.next) ELSE @]
        last == pipe.try = Len(Backoff)
    IN  CASE answer = "taken" -> Delivered(first)
          [] answer \in {"lost", "retry"} /\ last -> NotTaken(first, "exhausted")
          [] answer \in {"lost", "retry"} /\ ~last ->
                 [Within(first, Backoff[pipe.try + 1], replyBound) EXCEPT !.try = @ + 1]
          [] answer = "404" /\ platform = "discord" /\ pipe.next = 1 /\ ~pipe.bot ->
                 [first EXCEPT !.bot = TRUE, !.try = 0]
          [] OTHER -> NotTaken(first, "rejected")

\* SendReply and sendViaBot: the chunks in order, each until it is taken; the
\* bot needs its token.
SendReply ==
    /\ pipe.pc = "reply"
    /\ \/ pipe.bot /\ ~given.bot /\ pipe' = Refuse(pipe, "rejected")
       \/ /\ pipe.bot => given.bot
          /\ \E d \in {0, ReadTime}, a \in {"taken", "lost", "retry", "404", "terminal"} :
                 pipe' = sendPlatformRequest(d, a)
    /\ UNCHANGED <<given, http>>

YNext == handlePlatform \/ wakeAndDeliver \/ SendReply

(***************************************************************************)
(* Properties.                                                             *)
(***************************************************************************)

\* The deadline of a run never ends it while every leg keeps to its own worst
\* case, whichever requests the reply needs (backgroundPipelineBound: the bound
\* "sums" the legs).
DeadlineHolds == ~pipe.cut

\* What the chat shows is the reply's chunks in order, with nothing missing
\* before a chunk that is shown; all of them once the reply is delivered.
ChatInOrder ==
    platform # "webhook" =>
        /\ \A i \in 1..Len(pipe.chat) : \A k \in 1..(pipe.chat[i] - 1) : \E j \in 1..(i - 1) : pipe.chat[j] = k
        /\ pipe.outcome = "delivered" => ToSet(pipe.chat) = 1..Len(Chunks)

\* The chunks put together are the text, and none is over the limit or empty.
ChunksWhole ==
    pipe.text # <<>> =>
        /\ FlattenSeq(splitChunks(pipe.text)) = pipe.text
        /\ \A i \in DOMAIN splitChunks(pipe.text) : Len(splitChunks(pipe.text)[i]) \in 1..Limit
==============================================================================
