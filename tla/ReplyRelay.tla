----------------------------- MODULE ReplyRelay -----------------------------
(***************************************************************************)
(* The relay of a provider's 2xx answer.  The attempt runs under a         *)
(* watchdog: the caller's leaving cancels it until the attempt is detached,*)
(* and a gap between two reads cancels it always.  A stream and a JSON     *)
(* answer leave as they arrive; an answer of another format is held whole. *)
(* Spend settles from the usage read, on every exit.                       *)
(***************************************************************************)
EXTENDS Naturals, Sequences, FiniteSets

CONSTANTS Segments,   \* pieces of the longest answer
          HoldLimit   \* pieces the translation hold keeps

ASSUME RelayBounds == {Segments, HoldLimit} \subseteq Nat \ {0}

\* The body of an answer: pieces that carry usage and pieces that do not.
Bodies == UNION {[1..n -> {"text", "usage"}] : n \in 1..Segments}

VARIABLES resp,      \* the answer: its kind, body, declared length, and a held slot
          relay,     \* the handler: where it is, pieces read and sent, usage read
          dog,       \* the attempt: what cancelled it, and whether it is detached
          reader,    \* the caller: "here" or "left"
          signal,    \* how the response to the caller ended
          ledger     \* costs settled, responses reported without usage, slot held

ryvars == <<resp, relay, dog, reader, signal, ledger>>

\* A declared length below the body's is an answer that overruns it.
RYInit ==
    /\ resp \in {[kind |-> k, body |-> b, declared |-> d, slot |-> s] :
                   k \in {"stream", "json", "crossing"}, b \in Bodies, d \in {1, Segments}, s \in BOOLEAN}
    /\ relay = [at |-> "waiting", read |-> 0, sent |-> 0, usage |-> 0, writing |-> TRUE, overrun |-> FALSE,
                end |-> "none"]
    /\ dog = [cancel |-> "no", detached |-> FALSE]
    /\ reader = "here" /\ signal = "open"
    /\ ledger = [costs |-> <<>>, missing |-> 0, held |-> resp.slot]

(***************************************************************************)
(* The attempt watchdog and the caller.                                    *)
(***************************************************************************)
CallerGoes == /\ reader = "here" /\ signal = "open" /\ reader' = "left"
              /\ UNCHANGED <<resp, relay, dog, signal, ledger>>
\* The function registered on the caller's context: it passes the cancel on
\* unless the attempt was detached first.
follow == /\ reader = "left" /\ ~dog.detached /\ dog.cancel = "no" /\ relay.at # "ended"
          /\ dog' = [dog EXCEPT !.cancel = "caller"]
          /\ UNCHANGED <<resp, relay, reader, signal, ledger>>
\* The timer: the provider sent nothing for the bound.
idle == /\ dog.cancel = "no" /\ relay.at # "ended"
        /\ dog' = [dog EXCEPT !.cancel = "idle"]
        /\ UNCHANGED <<resp, relay, reader, signal, ledger>>

\* The headers arrive.  Only an answer that is not a stream is detached; a
\* stream whose caller left meanwhile is not relayed, and settles as missing.
forwardOnce ==
    /\ relay.at = "waiting" /\ dog.cancel = "no"
    /\ dog' = [dog EXCEPT !.detached = resp.kind # "stream"]
    /\ relay' = [relay EXCEPT !.at = "headers"]
    /\ UNCHANGED <<resp, reader, signal, ledger>>

(***************************************************************************)
(* Settling.                                                               *)
(***************************************************************************)
\* The cost lands through the slot's settle, or in the ledger without one.
settleUsage(u) == [ledger EXCEPT !.costs = Append(@, u), !.held = FALSE]
usageMissing == [ledger EXCEPT !.missing = @ + 1]
\* The usage that was read, or zero and a report; a held slot is freed.
settleRelay(u) == IF u > 0 THEN settleUsage(u) ELSE [usageMissing EXCEPT !.held = FALSE]
Leave(how, end) == /\ signal' = how /\ relay' = [relay EXCEPT !.at = "ended", !.end = end]
                   /\ ledger' = settleRelay(relay.usage)

\* A 2xx that is no stream is relayed although its caller left.
readsOnAfterCallerLeft == resp.kind # "stream"
\* After the walk: a stream whose caller left is dropped, any other relayed.
settleCallerLeft == /\ relay.at = "headers"
                    /\ IF reader = "left" /\ ~readsOnAfterCallerLeft
                       THEN Leave("nobody", "none") ELSE relay' = [relay EXCEPT !.at = "body"] /\ UNCHANGED <<signal, ledger>>
                    /\ UNCHANGED <<resp, dog, reader>>
\* An attempt that ended before its headers is no 2xx: it settles zero.
NoHeaders == /\ relay.at = "waiting" /\ dog.cancel # "no"
             /\ relay' = [relay EXCEPT !.at = "ended"] /\ signal' = IF reader = "left" THEN "nobody" ELSE "errorStatus"
             /\ ledger' = [ledger EXCEPT !.held = FALSE]
             /\ UNCHANGED <<resp, dog, reader>>

(***************************************************************************)
(* Reading the body.                                                       *)
(***************************************************************************)
More == relay.read < Len(resp.body)
\* What ends a body: its own end, a broken connection, or, once the attempt
\* is cancelled, an error or a clean end that answers the cancel.
BodyEnds == (IF More THEN {} ELSE {"eof"}) \cup (IF dog.cancel # "no" THEN {"eof", "error"} ELSE {"error"})
\* Fault: a clean end is taken as it comes.
ReadPlain(end) == IF end = "eof" THEN "eof" ELSE IF dog.cancel = "idle" THEN "idle" ELSE "error"
\* watchedBody.Read: any end after the bound passed is the stall.
Read(end) == IF dog.cancel = "idle" THEN "idle" ELSE end

\* A write to a caller that left may still succeed; one past the declared
\* length of a JSON answer never does.
WriteFails(failed) == \/ failed /\ reader = "left"
                      \/ resp.kind = "json" /\ relay.sent >= resp.declared
\* A failed write ends a stream; the rest of a JSON answer is read for its usage.
ReadsOn == resp.kind # "stream"
\* One piece: usage is read first, then the piece goes to the sink.
Piece(failed) ==
    /\ relay.at = "body" /\ More
    /\ LET usage == relay.usage + IF resp.body[relay.read + 1] = "usage" THEN 1 ELSE 0
           got == [relay EXCEPT !.read = @ + 1, !.usage = usage]
           fails == relay.writing /\ WriteFails(failed)
       IN  IF resp.kind = "crossing"
           THEN ~failed /\ relay' = got /\ UNCHANGED <<signal, ledger>>
           ELSE IF ~fails
           THEN /\ relay' = [got EXCEPT !.sent = IF relay.writing THEN @ + 1 ELSE @]
                /\ UNCHANGED <<signal, ledger>>
           ELSE IF ~ReadsOn
           THEN signal' = "nobody" /\ relay' = [got EXCEPT !.at = "ended"] /\ ledger' = settleRelay(usage)
           ELSE /\ relay' = [got EXCEPT !.writing = FALSE, !.overrun = ~(failed /\ reader = "left")]
                /\ UNCHANGED <<signal, ledger>>
    /\ UNCHANGED <<resp, dog, reader>>

\* The end of a stream: nobody is told after the caller left; an upstream
\* error is one error event, and no closing events of the translator.
relayStream(e) == IF reader = "left" THEN "nobody" ELSE IF e = "eof" THEN "complete" ELSE "errorEvent"
\* The end of a JSON answer: a broken or overlong one is cut off.
relayJSON(e) == IF reader = "left" THEN "nobody"
                ELSE IF e # "eof" \/ relay.overrun THEN "cut" ELSE "complete"
\* Past the limit the hold drops what it has and takes the rest.
holdOver == relay.read > HoldLimit
\* The end of a held answer: nothing was sent, so a failure has its status.
relayCrossing(e, translates) ==
    IF reader = "left" THEN "nobody"
    ELSE IF e # "eof" \/ holdOver \/ ~translates THEN "errorStatus" ELSE "complete"
End(end, translates) ==
    /\ relay.at = "body" /\ end \in BodyEnds
    /\ LET e == Read(end)
       IN  Leave(CASE resp.kind = "stream" -> relayStream(e)
                   [] resp.kind = "json" -> relayJSON(e)
                   [] resp.kind = "crossing" -> relayCrossing(e, translates), e)
    /\ UNCHANGED <<resp, dog, reader>>

\* The handler goes on whenever its read returns.
Proceed == \/ settleCallerLeft \/ NoHeaders
           \/ dog.cancel # "no" /\ (\E end \in {"eof", "error"}, t \in BOOLEAN : End(end, t))
RYNext == \/ CallerGoes \/ follow \/ idle \/ forwardOnce \/ settleCallerLeft \/ NoHeaders
          \/ \E failed \in BOOLEAN : Piece(failed)
          \/ \E end \in {"eof", "error"}, t \in BOOLEAN : End(end, t)

(***************************************************************************)
(* What the relay guarantees.                                              *)
(***************************************************************************)
\* A response that looks complete to its caller is complete: the provider
\* ended it itself, all of it was sent or held, and no watchdog cut it short.
\* A stall the provider answers with a clean end never passes for one.
NoSilentTruncation ==
    signal = "complete" => /\ ~More /\ dog.cancel # "idle"
                           /\ resp.kind # "crossing" => relay.sent = Len(resp.body)

\* Every exit settles once: the usage that was read, to the last piece, or a
\* report that there was none; and it frees the slot the call held.
SettledOnce ==
    relay.at = "ended" =>
       /\ ~ledger.held
       /\ Len(ledger.costs) + ledger.missing <= 1
       /\ relay.usage > 0 => ledger.costs = <<relay.usage>>

\* A provider that sent its whole non-streamed answer is paid in full,
\* although the caller left: only a break, a stall, or a cancel that came
\* before the headers did excuses a relay from reading to the last piece.
UsageKept ==
    (relay.at = "ended" /\ resp.kind # "stream" /\ dog.cancel = "no" /\ relay.end # "error") =>
       LET billed == Cardinality({i \in 1..Len(resp.body) : resp.body[i] = "usage"})
       IN  ledger.costs = IF billed > 0 THEN <<billed>> ELSE <<>>

\* The three together, for every kind of response and every way it can end
\* (relayStream, relayJSON, relayCrossing).
RelaySound == NoSilentTruncation /\ SettledOnce /\ UsageKept
=============================================================================
