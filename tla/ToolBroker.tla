----------------------------- MODULE ToolBroker -----------------------------
(***************************************************************************)
(* The MCP broker (internal/gateway/mcpbroker.go, mcpsession.go): a call   *)
(* is checked against the grant chain, forwarded with the tool server's    *)
(* credential, and the answer relayed by its shape.  The caller may leave, *)
(* the upstream deadline may pass and the server may cut its answer at any *)
(* point; session ids the server mints are bound to the caller they were   *)
(* minted for.  A message is the copies of method, params and params.name  *)
(* its body holds, since a server need not read the copy the broker reads. *)
(***************************************************************************)
EXTENDS Naturals, Sequences, SequencesExt, FiniteSets

CONSTANTS Grants0,     \* what the resources grant: [allowed, catalog, grant, class]
          Messages,    \* what a caller may post
          Results0,    \* tools/list results, as copies of the tools member
          MaxLines,    \* lines of the longest answer
          MaxTurns     \* calls in one behaviour

ASSUME BrokerBounds == MaxLines \in Nat \ {0} /\ MaxTurns \in Nat

VARIABLES granted,   \* the resources
          turn,      \* the call being served
          minted,    \* ghost: the caller each upstream session was minted for
          wrapped,   \* the wrapped ids handed out
          audit,     \* the records of this call
          got,       \* what the caller has of the answer
          turns      \* calls begun

tbvars == <<granted, turn, minted, wrapped, audit, got, turns>>

Workloads == {"w1", "w2"}    \* and "ns", a bearer caller of the same namespace
NoTurn == [pc |-> "idle", who |-> "ns", msg |-> <<>>, modern |-> FALSE, filter |-> <<>>, session |-> 0,
           left |-> FALSE, late |-> FALSE, forwarded |-> FALSE, resp |-> <<>>, at |-> 0, tail |-> "none"]
Nothing == [status |-> "none", lines |-> 0, torn |-> FALSE, list |-> <<>>, scope |-> "none"]
TBInit == /\ granted \in Grants0 /\ turn = NoTurn /\ minted = <<>> /\ wrapped = {}
          /\ audit = <<>> /\ got = Nothing /\ turns = 0

(***************************************************************************)
(* The message.  encoding/json keeps the last copy of a member.            *)
(***************************************************************************)
methodOf(msg) == Last(msg.methods)
governedToolName(msg) == IF methodOf(msg) = "tools/call" /\ msg.params # <<>> /\ Last(msg.params) # <<>>
                         THEN Last(Last(msg.params)) ELSE ""
repeatedMCPMemberNames(msg) == Len(msg.methods) > 1
                               \/ (msg.params # <<>> /\ Len(msg.params[1]) > 1)
repeatedMCPMember(msg) == Len(msg.methods) > 1 \/ Len(msg.params) > 1
                          \/ (msg.params # <<>> /\ Len(msg.params[1]) > 1)
decodeMCPMessage(msg) == msg.read = "whole" /\ ~repeatedMCPMember(msg)
mcpAllowedMethod(m) == m \in {"server/discover", "tools/list", "tools/call", "initialize", "ping", "notifications/x"}
\* On the modern revision the mirrored headers must agree with the body.
modernHeaderRejection(modern, msg) ==
    modern /\ (msg.hMethod # methodOf(msg) \/ (methodOf(msg) = "tools/call" /\ msg.hName # governedToolName(msg)))

(***************************************************************************)
(* The grant chain.  A filter is the tools it allows, or all of them.      *)
(***************************************************************************)
newToolFilter(tools, catalog) ==
    [all |-> tools = {} /\ catalog = {},
     allow |-> IF tools = {} THEN catalog ELSE IF catalog = {} THEN tools ELSE tools \cap catalog]
permits(filter, tool) == filter.all \/ tool \in filter.allow

authorizeToolRoute(who) ==
    /\ granted.allowed
    /\ who \in Workloads => "none" \notin granted.grant[who] /\ granted.class = "ok"
filterFor(who) == newToolFilter(IF who \in Workloads THEN granted.grant[who] ELSE {}, granted.catalog)

(***************************************************************************)
(* Sessions: the wrapped id is the upstream's under a tag of the caller.   *)
(***************************************************************************)
wrapSessionID(sid, who) == <<sid, who>>
unwrapSessionID(id, who) == id[2] = who

(***************************************************************************)
(* Every outcome passes mcpResult once.  A caller that left gets nothing.  *)
(***************************************************************************)
mcpResult(type) == audit' = Append(audit, [type |-> type, left |-> turn.left])
Answered(status) == got' = IF turn.left THEN got ELSE [got EXCEPT !.status = status]
deny(type) == mcpResult(type) /\ Answered(type) /\ turn' = [turn EXCEPT !.pc = "idle"]
closed == mcpResult("client_closed") /\ turn' = [turn EXCEPT !.pc = "idle"] /\ UNCHANGED got

CallerLeft == /\ turn.pc # "idle" /\ ~turn.left /\ turn' = [turn EXCEPT !.left = TRUE]
              /\ UNCHANGED <<granted, minted, wrapped, audit, got, turns>>
DeadlinePasses == /\ turn.pc \in {"forwarded", "relay"} /\ ~turn.late /\ turn' = [turn EXCEPT !.late = TRUE]
                  /\ UNCHANGED <<granted, minted, wrapped, audit, got, turns>>

(***************************************************************************)
(* handleMCPBroker, up to the credential.                                  *)
(***************************************************************************)
Call(who, msg, modern, id) ==
    /\ turn = NoTurn /\ turns < MaxTurns /\ turns' = turns + 1
    /\ turn' = [NoTurn EXCEPT !.pc = "checks", !.who = who, !.msg = msg, !.modern = modern,
                              !.session = id]
    /\ UNCHANGED <<granted, minted, wrapped, audit, got>>
Returned == /\ turn.pc = "idle" /\ turn # NoTurn /\ turn' = NoTurn /\ got' = Nothing /\ audit' = <<>>
            /\ UNCHANGED <<granted, minted, wrapped, turns>>

\* The checks in their order, to the first that refuses.
refusal(who, msg, rated) ==
    CASE msg.read \in {"verb", "path"} -> "invalid_request"
      [] ~authorizeToolRoute(who) -> "access_denied"
      [] rated -> "rate_limited"
      [] msg.read = "large" -> "request_too_large"
      [] msg.read = "cut" -> IF turn.left THEN "client_closed" ELSE "invalid_request"
      [] ~decodeMCPMessage(msg) -> "invalid_request"
      [] ~mcpAllowedMethod(methodOf(msg)) -> "tool_denied"
      [] modernHeaderRejection(turn.modern, msg) -> "header_mismatch"
      [] methodOf(msg) = "tools/call" /\ ~permits(filterFor(who), governedToolName(msg)) -> "tool_denied"
      [] turn.session # <<>> /\ ~turn.modern /\ ~unwrapSessionID(turn.session, who) -> "access_denied"
      [] OTHER -> "none"

\* The session goes upstream only on the legacy revision.
handleMCPBroker ==
    /\ turn.pc = "checks"
    /\ \E rated \in BOOLEAN : LET why == refusal(turn.who, turn.msg, rated) IN
         \/ why \notin {"none", "client_closed"} /\ deny(why)
         \/ why = "client_closed" /\ closed
         \/ /\ why = "none" /\ UNCHANGED <<audit, got>>
            /\ turn' = [turn EXCEPT !.pc = "credential", !.filter = filterFor(turn.who),
                                    !.session = IF turn.modern \/ @ = <<>> THEN 0 ELSE @[1]]
    /\ UNCHANGED <<granted, minted, wrapped, turns>>

\* The Secret read may fail, as it does for a caller that left.
ToolCredential ==
    /\ turn.pc = "credential"
    /\ \/ turn' = [turn EXCEPT !.pc = "forwarded", !.forwarded = TRUE] /\ UNCHANGED <<audit, got>>
       \/ turn.left /\ closed
       \/ ~turn.left /\ deny("tool_unavailable")
    /\ UNCHANGED <<granted, minted, wrapped, turns>>

\* No answer: the caller's own leaving is checked first, then the deadline.
NoAnswer0 ==
    /\ turn.pc = "forwarded"
    /\ IF turn.left THEN closed ELSE deny(IF turn.late THEN "tool_timeout" ELSE "tool_unavailable")
    /\ UNCHANGED <<granted, minted, wrapped, turns>>

\* An answer: a refused credential and a 5xx end the call; any other carries
\* on, its session wrapped before the headers go.
Responds(resp) ==
    /\ turn.pc = "forwarded"
    /\ IF resp.status \in {"refused", "5xx"}
       THEN deny("tool_unavailable") /\ UNCHANGED <<minted, wrapped>>
       ELSE /\ turn' = [turn EXCEPT !.pc = "relay", !.resp = resp]
            /\ IF resp.mints
               THEN LET sid == Len(minted) + 1 IN
                      minted' = Append(minted, turn.who) /\ wrapped' = wrapped \cup {wrapSessionID(sid, turn.who)}
               ELSE UNCHANGED <<minted, wrapped>>
            /\ UNCHANGED <<audit, got>>
    /\ UNCHANGED <<granted, turns>>

(***************************************************************************)
(* relayMCP.  The body ends whole, by a failed read, or, once the call is  *)
(* canceled, by a clean end anywhere.                                      *)
(***************************************************************************)
Endings == {"whole", "failed"} \cup IF turn.left \/ turn.late THEN {"clean"} ELSE {}
shape == IF methodOf(turn.msg) = "tools/list" /\ turn.resp.status = "2xx" THEN "list"
         ELSE IF turn.resp.stream THEN "stream" ELSE "buffered"
upstreamTimedOut == turn.late

\* relayMCPBuffered: nothing is written before the whole body is there.
bufferedType(end) ==
    CASE turn.left -> "client_closed"
      [] upstreamTimedOut -> "tool_timeout"
      [] end = "failed" -> "tool_unavailable"
      [] turn.resp.over -> "response_too_large"
      [] OTHER -> "ok"
relayMCPBuffered(end) ==
    /\ turn.pc = "relay" /\ shape = "buffered"
    /\ LET type == bufferedType(end) IN
         IF type = "client_closed" THEN closed
         ELSE /\ mcpResult(type) /\ turn' = [turn EXCEPT !.pc = "idle"]
              /\ got' = [got EXCEPT !.status = type, !.torn = type = "ok" /\ end # "whole"]
    /\ UNCHANGED <<granted, minted, wrapped, turns>>

\* narrowToolsResult: one list under the exact name, from the member of that
\* name or else the last that folds to it; an entry that repeats its name, or
\* is no object, goes.
narrowToolsResult(result, filter) ==
    LET exact == SelectSeq(result, LAMBDA mem : mem.name = "tools")
        from == IF exact # <<>> THEN Last(exact) ELSE Last(result)
    IN  IF result = <<>> THEN <<[name |-> "tools", entries |-> <<>>]>>
        ELSE <<[name |-> "tools",
                entries |-> SelectSeq(from.entries, LAMBDA e : Len(e) = 1 /\ permits(filter, e[1]))]>>
\* relayFilteredToolsList: the list is parsed whole; one past the cap, or one
\* that does not parse, is an error.
listType(end) ==
    CASE turn.left -> "client_closed"
      [] turn.resp.over -> "response_too_large"
      [] end # "whole" -> IF upstreamTimedOut THEN "tool_timeout" ELSE "tool_unavailable"
      [] OTHER -> "ok"
mayCarryCacheScope == turn.resp.scope # "none"
relayFilteredToolsList(end) ==
    /\ turn.pc = "relay" /\ shape = "list"
    /\ LET type == listType(end)
           narrows == ~turn.filter.all \/ mayCarryCacheScope
       IN  IF type = "client_closed" THEN closed
           ELSE /\ mcpResult(type) /\ turn' = [turn EXCEPT !.pc = "idle"]
                /\ got' = IF type # "ok" THEN [got EXCEPT !.status = type]
                          ELSE IF narrows
                          THEN [got EXCEPT !.status = "ok", !.scope = IF mayCarryCacheScope THEN "private" ELSE "none",
                                           !.list = narrowToolsResult(turn.resp.result, turn.filter)]
                          ELSE [got EXCEPT !.status = "ok", !.scope = turn.resp.scope, !.list = turn.resp.result]
    /\ UNCHANGED <<granted, minted, wrapped, turns>>

\* relayMCPStream: a terminated line goes on; an unterminated one, which is
\* always the last, is held until the end is known.
relayMCPStream ==
    /\ turn.pc = "relay" /\ shape = "stream" /\ turn.at < turn.resp.lines
    /\ IF turn.left THEN closed
       ELSE IF turn.resp.over /\ turn.at + 1 = turn.resp.lines
       THEN mcpResult("response_too_large") /\ turn' = [turn EXCEPT !.pc = "idle"]
            /\ got' = [got EXCEPT !.status = "response_too_large"]
       ELSE /\ turn' = [turn EXCEPT !.at = @ + 1,
                                    !.tail = IF turn.at + 1 = turn.resp.lines /\ turn.resp.bare THEN "line" ELSE "none"]
            /\ got' = [got EXCEPT !.lines = IF turn'.tail = "line" THEN @ ELSE @ + 1]
            /\ UNCHANGED audit
    /\ UNCHANGED <<granted, minted, wrapped, turns>>
\* The end: a cut may leave part of a line as the tail.
streamType(end) ==
    CASE ~turn.left /\ upstreamTimedOut -> "tool_timeout"
      [] turn.left -> "client_closed"
      [] end = "failed" -> "tool_unavailable"
      [] OTHER -> "ok"
StreamEnd(end, part0) ==
    /\ turn.pc = "relay" /\ shape = "stream"
    /\ end = "whole" => turn.at = turn.resp.lines /\ ~part0
    /\ part0 => turn.at < turn.resp.lines
    /\ LET type == streamType(end) IN
         IF type = "client_closed" THEN closed
         ELSE /\ mcpResult(type) /\ turn' = [turn EXCEPT !.pc = "idle"]
              /\ got' = [got EXCEPT !.status = type,
                                    !.lines = IF type = "ok" /\ turn.tail = "line" THEN @ + 1 ELSE @,
                                    !.torn = type = "ok" /\ part0]
    /\ UNCHANGED <<granted, minted, wrapped, turns>>

\* The result and its cacheScope matter for a list, the lines for a stream.
Heads == [status : {"2xx", "4xx", "refused", "5xx"}, mints : BOOLEAN, stream : BOOLEAN, lines : 0..MaxLines,
          bare : BOOLEAN, over : BOOLEAN, result : Results0, scope : {"none", "public"}]
ListResponses == {r \in Heads : r.status = "2xx" /\ ~r.stream /\ r.lines = 0 /\ ~r.bare}
OtherResponses == {r \in Heads : /\ r.scope = "none" /\ r.result = <<>>
                                 /\ r.status \in {"refused", "5xx"} => ~r.mints /\ ~r.stream /\ ~r.over
                                 /\ ~r.stream => r.lines = 0
                                 /\ r.lines = 0 => ~r.bare /\ ~(r.over /\ r.stream)}
ListAsked == methodOf(turn.msg) = "tools/list"

TBNext ==
    \/ \E who \in Workloads \cup {"ns"}, msg \in Messages, modern \in BOOLEAN :
         \E id \in wrapped \cup {<<>>} : Call(who, msg, modern, id)
    \/ Returned \/ handleMCPBroker \/ ToolCredential \/ NoAnswer0 \/ CallerLeft \/ DeadlinePasses
    \/ turn.pc = "forwarded" /\ ListAsked /\ \E r \in ListResponses : Responds(r)
    \/ turn.pc = "forwarded" /\ \E r \in OtherResponses : (ListAsked => r.status # "2xx") /\ Responds(r)
    \/ turn.pc = "relay" /\ \E end \in Endings : relayMCPBuffered(end) \/ relayFilteredToolsList(end)
                                               \/ \E p \in BOOLEAN : StreamEnd(end, p)
    \/ relayMCPStream

(***************************************************************************)
(* What the broker promises.                                               *)
(***************************************************************************)
\* No call reaches the tool server with a session minted for another caller,
\* whichever wrapped ids callers pass on to each other (unwrapSessionID).
SessionOwned == turn.forwarded /\ turn.session # 0 => minted[turn.session] = turn.who

Granted(who, tool) ==
    /\ granted.catalog = {} \/ tool \in granted.catalog
    /\ who \in Workloads => granted.grant[who] = {} \/ tool \in granted.grant[who]

\* Whichever copy of a member the tool server reads, it acts on a method and a
\* tool the caller may use: the body is forwarded as sent (repeatedMCPMember).
ActsWithinGrant ==
    turn.forwarded =>
      \A m \in ToSet(turn.msg.methods) :
        /\ mcpAllowedMethod(m)
        /\ m = "tools/call" => \A p \in ToSet(turn.msg.params) : \A t \in ToSet(p) : Granted(turn.who, t)

\* Whichever copies a client reads, a relayed list shows it no tool it may not
\* call, and is never marked for a shared cache (narrowToolsResult).
ListWithinGrant ==
    /\ got.scope # "public"
    /\ \A mem \in ToSet(got.list) : \A e \in ToSet(mem.entries) : \A t \in ToSet(e) : Granted(turn.who, t)

\* A caller that is told a call went well has the whole answer: an end that
\* the deadline or a failed read made is never passed on as the server's.
NoSilentCut ==
    turn.pc = "idle" /\ got.status = "ok" =>
      ~got.torn /\ (shape = "stream" => got.lines = turn.resp.lines)

\* Every call that ended has exactly one record.  It names what the caller was
\* told, and says client_closed only of a caller that left (mcpResult).
AuditTrue ==
    /\ turn.pc # "idle" => audit = <<>>
    /\ turn.pc = "idle" /\ turn # NoTurn =>
         /\ Len(audit) = 1
         /\ audit[1].type = "client_closed" => turn.left
         /\ got.status # "none" => audit[1].type = got.status
         /\ ~turn.left => got.status # "none"

\* A tool call stays within its session and its grant, and what is reported
\* of it is what happened (handleMCPBroker).
ToolsGoverned == SessionOwned /\ ActsWithinGrant /\ ListWithinGrant /\ NoSilentCut /\ AuditTrue
=============================================================================
