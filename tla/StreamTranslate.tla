--------------------------- MODULE StreamTranslate ---------------------------
(***************************************************************************)
(* Translation of a provider's event stream into the caller's format, one  *)
(* direction per behaviour.  The provider sends text and tool-call pieces, *)
(* a finish and its usage in the ways the two formats allow, and may end   *)
(* the stream with or without its terminator; a tool call's pieces come    *)
(* together.  Tools are numbered in the order they start.                  *)
(***************************************************************************)
EXTENDS Naturals, Sequences, SequencesExt, FiniteSets, TLC

CONSTANTS PieceBound   \* content pieces of the longest stream

ASSUME StreamBounds == PieceBound \in Nat

VARIABLES into,     \* the caller's format
          src,      \* the provider: its stage, tools started, open block, pieces left
          given0,   \* the content it sent: 0 for text, k for the k-th tool
          tr,       \* the translator
          out       \* events written, as <<event, index, content>>

stvars == <<into, src, given0, tr, out>>

STInit == /\ into \in {"anthropic", "openai"}
          /\ src = [stage |-> "begin", tools |-> 0, blocks |-> 0, open |-> "none", left |-> PieceBound]
          /\ given0 = <<>> /\ out = <<>>
          /\ tr = [started |-> FALSE, open |-> FALSE, index |-> 0, isTool |-> FALSE, toolIndexes |-> <<>>,
                   finish |-> "", deltaSent |-> FALSE, stopped |-> FALSE, tools |-> 0, blocks |-> <<>>]

(***************************************************************************)
(* OpenAI chunks into Anthropic events.  An operator takes a pair of the   *)
(* translator and the events of this call, and returns one.                *)
(***************************************************************************)
Put0(p, e) == [p EXCEPT !.o = Append(@, e)]
\* Fault: a block is closed under the next one's index.
closeBlockNext(p) == IF p.t.open THEN Put0(p, <<"block_stop", p.t.index + 1, 0>>) ELSE p
closeBlock(p) == IF p.t.open THEN Put0(p, <<"block_stop", p.t.index, 0>>) ELSE p
openBlock(p, tool) ==
    LET q == closeBlock(p)
        i == IF p.t.open THEN p.t.index + 1 ELSE p.t.index
    IN  Put0([q EXCEPT !.t.open = TRUE, !.t.isTool = tool > 0, !.t.index = i], <<"block_start", i, tool>>)
messageDelta(p) ==
    LET q == closeBlock(p)
        stop == IF p.t.finish = "tool_calls" \/ (p.t.toolIndexes # <<>> /\ p.t.finish = "stop") THEN "tool_use"
                ELSE IF p.t.finish = "length" THEN "max_tokens" ELSE "end_turn"
    IN  Put0([q EXCEPT !.t.open = FALSE, !.t.deltaSent = TRUE], <<"message_delta", stop, 0>>)
toAnthropicText(p) ==
    LET q == IF ~p.t.open \/ p.t.isTool THEN openBlock(p, 0) ELSE p
    IN  Put0(q, <<"delta", q.t.index, 0>>)
\* The first chunk of a tool call opens its block; a later one finds it.
toAnthropicTool(p, k, args) ==
    LET q == IF k \in DOMAIN p.t.toolIndexes THEN p
             ELSE LET r == openBlock(p, k) IN [r EXCEPT !.t.toolIndexes = Append(@, r.t.index)]
    IN  IF args THEN Put0(q, <<"delta", q.t.toolIndexes[k], k>>) ELSE q
\* The delta is due once the finish and a usage are known, and once only.
DeltaDue(t, c) == t.finish # "" /\ c.usage /\ ~t.deltaSent
feedOpenAI(t, c) ==
    LET begun == IF t.started THEN [t |-> t, o |-> <<>>]
                 ELSE [t |-> [t EXCEPT !.started = TRUE], o |-> <<<<"message_start", 0, 0>>>>]
        text == IF c.text THEN toAnthropicText(begun) ELSE begun
        tool == IF c.tool > 0 THEN toAnthropicTool(text, c.tool, c.args) ELSE text
        done == [tool EXCEPT !.t.finish = IF c.finish # "" THEN c.finish ELSE @]
    IN  IF DeltaDue(done.t, c) THEN messageDelta(done) ELSE done
finishAnthropic(t) ==
    IF t.stopped \/ ~t.started THEN [t |-> [t EXCEPT !.stopped = TRUE], o |-> <<>>]
    ELSE LET p == [t |-> [t EXCEPT !.stopped = TRUE], o |-> <<>>]
         IN  Put0(IF t.deltaSent THEN p ELSE messageDelta(p), <<"message_stop", 0, 0>>)

(***************************************************************************)
(* Anthropic events into OpenAI chunks.                                    *)
(***************************************************************************)
finishOpenAI(t) ==
    IF t.stopped THEN [t |-> t, o |-> <<>>]
    ELSE LET p == [t |-> [t EXCEPT !.stopped = TRUE], o |-> <<>>]
         IN  Put0(Put0(IF t.deltaSent THEN p ELSE Put0(p, <<"finish", 0, 0>>), <<"usage", 0, 0>>), <<"done", 0, 0>>)
toolStart(p, e) == Put0([p EXCEPT !.t.blocks = @ @@ (e.block :> p.t.tools), !.t.tools = @ + 1],
                        <<"tool_start", p.t.tools, e.tool>>)
feedAnthropic(t, e) ==
    LET p == [t |-> t, o |-> <<>>]
    IN  CASE e.type = "message_start" -> Put0(p, <<"role", 0, 0>>)
          [] e.type = "block_start" /\ e.tool > 0 -> toolStart(p, e)
          [] e.type = "delta" /\ e.tool = 0 -> Put0(p, <<"text", 0, 0>>)
          [] e.type = "delta" /\ e.tool > 0 -> Put0(p, <<"args", t.blocks[e.block], e.tool>>)
          [] e.type = "message_delta" -> Put0([p EXCEPT !.t.deltaSent = TRUE], <<"finish", 0, 0>>)
          [] e.type = "message_stop" -> finishOpenAI(t)
          [] e.type = "error" -> [t |-> [t EXCEPT !.stopped = TRUE], o |-> <<<<"error", 0, 0>>, <<"done", 0, 0>>>>]
          [] OTHER -> p

(***************************************************************************)
(* The provider's stream, and the relay that feeds it.                     *)
(***************************************************************************)
Wrote(p) == tr' = p.t /\ out' = out \o p.o
NoChunk == [text |-> FALSE, tool |-> 0, args |-> FALSE, finish |-> "", usage |-> FALSE]
\* Content: text, or a piece of the last tool or of a new one, or both.
OpenAIContent(text, tool, args, usage) ==
    /\ into = "anthropic" /\ src.stage \in {"begin", "content"} /\ src.left > 0
    /\ text \/ tool # 0
    /\ args => tool # 0
    /\ tool \in {0, src.tools + 1} \/ (tool = src.tools /\ src.open = "tool" /\ ~text)
    /\ Wrote(feedOpenAI(tr, [NoChunk EXCEPT !.text = text, !.tool = tool, !.args = args, !.usage = usage]))
    /\ given0' = given0 \o (IF text THEN <<0>> ELSE <<>>) \o (IF args THEN <<tool>> ELSE <<>>)
    /\ src' = [src EXCEPT !.stage = "content", !.left = @ - 1, !.open = IF tool > 0 THEN "tool" ELSE "text",
                          !.tools = IF tool > @ THEN tool ELSE @]
    /\ UNCHANGED into
\* The finish, with its usage or with a usage chunk after it.
OpenAIFinish(usage) ==
    /\ into = "anthropic" /\ src.stage = "content"
    /\ \E f \in {"stop", "tool_calls", "length"} : Wrote(feedOpenAI(tr, [NoChunk EXCEPT !.finish = f, !.usage = usage]))
    /\ src' = [src EXCEPT !.stage = "finished"] /\ UNCHANGED <<into, given0>>
OpenAIUsage == /\ into = "anthropic" /\ src.stage = "finished"
               /\ Wrote(feedOpenAI(tr, [NoChunk EXCEPT !.usage = TRUE]))
               /\ src' = [src EXCEPT !.stage = "usage"] /\ UNCHANGED <<into, given0>>
\* [DONE], after which the stream ends; or it ends without.
OpenAIDone == /\ into = "anthropic" /\ src.stage \in {"content", "finished", "usage"}
              /\ Wrote(finishAnthropic(tr)) /\ src' = [src EXCEPT !.stage = "terminated"] /\ UNCHANGED <<into, given0>>

Event(type, block, tool) == [type |-> type, block |-> block, tool |-> tool]
AnthropicStart == /\ into = "openai" /\ src.stage = "begin"
                  /\ Wrote(feedAnthropic(tr, Event("message_start", 0, 0)))
                  /\ src' = [src EXCEPT !.stage = "content"] /\ UNCHANGED <<into, given0>>
AnthropicBlock(tool) ==
    /\ into = "openai" /\ src.stage = "content" /\ src.open = "none" /\ src.left > 0
    /\ Wrote(feedAnthropic(tr, Event("block_start", src.blocks, IF tool THEN src.tools + 1 ELSE 0)))
    /\ src' = [src EXCEPT !.open = IF tool THEN "tool" ELSE "text", !.tools = IF tool THEN @ + 1 ELSE @,
                          !.left = @ - 1]
    /\ UNCHANGED <<into, given0>>
AnthropicDelta ==
    /\ into = "openai" /\ src.stage = "content" /\ src.open # "none" /\ src.left > 0
    /\ LET k == IF src.open = "tool" THEN src.tools ELSE 0
       IN  Wrote(feedAnthropic(tr, Event("delta", src.blocks, k))) /\ given0' = Append(given0, k)
    /\ src' = [src EXCEPT !.left = @ - 1] /\ UNCHANGED into
AnthropicBlockStop ==
    /\ into = "openai" /\ src.stage = "content" /\ src.open # "none"
    /\ Wrote(feedAnthropic(tr, Event("block_stop", src.blocks, 0)))
    /\ src' = [src EXCEPT !.open = "none", !.blocks = @ + 1] /\ UNCHANGED <<into, given0>>
AnthropicEnd(type) ==
    /\ into = "openai"
    /\ \/ type = "message_delta" /\ src.stage = "content" /\ src.open = "none" /\ src' = [src EXCEPT !.stage = "finished"]
       \/ type = "message_stop" /\ src.stage = "finished" /\ src' = [src EXCEPT !.stage = "terminated"]
       \/ type = "error" /\ src.stage \in {"content", "finished"} /\ src' = [src EXCEPT !.stage = "broken"]
    /\ Wrote(feedAnthropic(tr, Event(type, 0, 0))) /\ UNCHANGED <<into, given0>>
\* The body ends cleanly, at any point, and the relay finishes the stream.
Ended == /\ src.stage # "ended" /\ src' = [src EXCEPT !.stage = "ended"]
         /\ Wrote(IF into = "anthropic" THEN finishAnthropic(tr) ELSE finishOpenAI(tr))
         /\ UNCHANGED <<into, given0>>

STNext == \/ \E text, args, usage \in BOOLEAN, tool \in 0..(src.tools + 1) : OpenAIContent(text, tool, args, usage)
          \/ \E usage \in BOOLEAN : OpenAIFinish(usage)
          \/ OpenAIUsage \/ OpenAIDone \/ AnthropicStart \/ AnthropicDelta \/ AnthropicBlockStop \/ Ended
          \/ \E tool \in BOOLEAN : AnthropicBlock(tool)
          \/ \E type \in {"message_delta", "message_stop", "error"} : AnthropicEnd(type)

(***************************************************************************)
(* What the caller can rely on.                                            *)
(***************************************************************************)
Where(name) == {i \in 1..Len(out) : out[i][1] = name}
\* The caller's client can read the stream: blocks open and close one at a
\* time under indexes that count up, a delta is of the block that is open, one
\* finish comes after all content and before the terminator, and nothing
\* follows that.  (A finished stream is terminated exactly once.)
StreamReads ==
    /\ src.stage = "ended" => Cardinality(Where("message_stop") \cup Where("done")) = (IF out = <<>> THEN 0 ELSE 1)
    /\ \A i \in Where("message_stop") \cup Where("done") : i = Len(out)
    /\ Cardinality(Where("message_delta") \cup Where("finish")) <= 1
    /\ \A i \in Where("block_start") : out[i][2] = Cardinality({j \in Where("block_start") : j < i})
    /\ \A i \in Where("delta") \cup Where("block_stop") :
          LET before == {j \in Where("block_start") : j < i}
              closed == {j \in Where("block_stop") : j < i}
          IN  Cardinality(before) = Cardinality(closed) + 1 /\ out[i][2] = Cardinality(closed)
    /\ \A i \in Where("message_delta") \cup Where("finish") :
          /\ Cardinality(Where("block_start")) = Cardinality(Where("block_stop"))
          /\ \A j \in Where("delta") \cup Where("text") \cup Where("args") : j < i

\* The content arrives as it was sent: every piece once, in order, and each
\* piece of a tool call under the index the caller's side gave that tool.
ContentKept ==
    LET pieces == SelectSeq(out, LAMBDA e : e[1] \in {"delta", "text", "args"})
        starts == SelectSeq(out, LAMBDA e : e[1] \in {"block_start", "tool_start"})
        toolAt(index) == {e[3] : e \in {f \in Range(starts) : f[2] = index}}
    IN  /\ [i \in 1..Len(pieces) |-> pieces[i][3]] = given0
        /\ \A i \in 1..Len(pieces) : pieces[i][1] # "text" => toolAt(pieces[i][2]) = {pieces[i][3]}
=============================================================================
