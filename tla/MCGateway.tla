----------------------------- MODULE MCGateway -----------------------------
(***************************************************************************)
(* Parts of the gateway that share no state, each from all of its initial  *)
(* states with the others left at one: what a request meets on its way,    *)
(* and what the gateway keeps between requests.                            *)
(***************************************************************************)
EXTENDS HealthStore, PlatformReply, CallbackTarget, FallbackWalk, RateLimit, CallerIdentity,
        UsageScan, RequestBody, StreamTranslate, ToolBroker

VARIABLE part   \* the part this behaviour is about

MCBackoff == <<1>>

\* A diamond with a way back to the root, and a chain with a missing provider.
NoMap == [x \in {} |-> x]
MtoN == [x \in {"m"} |-> "n"]
NtoM == [x \in {"n"} |-> "m"]
Both == {"m", "n"}
Diamond == [root |-> "a", next |-> [a |-> <<"b", "c">>, b |-> <<"d">>, c |-> <<"d", "a">>, d |-> <<"b">>],
            map |-> [a |-> <<MtoN, NoMap>>, b |-> <<NtoM>>, c |-> <<MtoN, MtoN>>, d |-> <<NoMap>>],
            offers |-> [a |-> Both, b |-> Both, c |-> {"m"}, d |-> Both]]
Chain == [root |-> "a", next |-> [a |-> <<"x", "b">>, b |-> <<"c", "d">>, c |-> <<>>, d |-> <<>>],
          map |-> [a |-> <<NoMap, MtoN>>, b |-> <<NtoM, NoMap>>, c |-> <<>>, d |-> <<>>],
          offers |-> [a |-> Both, b |-> {"n"}, c |-> {"m"}, d |-> Both]]
MCTrees == {Diamond, Chain}

\* Every graph of three providers, one of which has at most one fallback and
\* "x" does not exist, with at most one bad edge.
Upto(n) == {l \in UNION {[1..k -> {"a", "b", "c", "x"}] : k \in 0..n} : Len(l) = 2 => l[1] # l[2]}
MCGraphs == {[next |-> [a |-> l, b |-> k, c |-> j], bad |-> e] : l \in Upto(2), k \in Upto(2), j \in Upto(1),
             e \in {{}} \cup {{<<p, q>>} : p \in {"a", "b"}, q \in {"b", "c"}}}

\* Answers of two members: usage at either path, usage inside strings and
\* under names that only begin like it, arrays, long values and deep nesting.
MCPaths == <<<<"u">>, <<"c", "*", "u">>>>
Leaf(b) == [kind |-> "leaf", bytes |-> b, names |-> <<>>, vals |-> <<>>]
Arr(v) == [kind |-> "arr", bytes |-> <<>>, names |-> <<>>, vals |-> v]
Obj(n, v) == [kind |-> "obj", bytes |-> <<>>, names |-> n, vals |-> v]
Number == Leaf(<<"1", "2">>)
Text == Leaf(Str(<<"b", "q", "u">>))
Long == Leaf(Str(<<"x", "x", "x", "x", "x">>))
Nested == Leaf(<<"[", "[", "{", "q", "u", "q", ":", "1", "}", "]", "]">>)
Leaves == {Number, Text, Long, Nested}
Inner == Leaves \cup {Obj(<<<<"u">>>>, <<l>>) : l \in {Number, Text}}
               \cup {Arr(<<Obj(<<<<"x">>, <<"u">>>>, <<k, l>>), Number>>) : k \in {Text, Nested}, l \in Leaves}
MCAnswers == {Obj(<<j, k>>, <<a, b>>) : j \in {<<"c">>, <<"u">>}, k \in {<<"u">>, <<"b", "q">>, <<"u", "u", "u">>},
                                        a \in Inner, b \in Leaves}

\* Grants: open, narrowed by the catalog, withheld; messages that are whole,
\* repeat a member, or stop short; lists under both spellings of "tools".
Open0 == [allowed |-> TRUE, catalog |-> {}, grant |-> [w1 |-> {"t"}, w2 |-> {}], class |-> "ok"]
MCGrants == {Open0, [Open0 EXCEPT !.catalog = {"t"}], [Open0 EXCEPT !.catalog = {"u"}],
             [Open0 EXCEPT !.allowed = FALSE], [Open0 EXCEPT !.grant.w1 = {"none"}], [Open0 EXCEPT !.class = "refuses"]}
Posted == [read |-> "whole", methods |-> <<"tools/call">>, params |-> <<<<"t">>>>,
           hMethod |-> "tools/call", hName |-> "t"]
MCMessages ==
    {Posted, [Posted EXCEPT !.methods = <<"tools/list">>, !.params = <<>>, !.hMethod = "tools/list"],
     [Posted EXCEPT !.methods = <<"initialize">>, !.params = <<>>], [Posted EXCEPT !.params = <<<<"u">>>>],
     [Posted EXCEPT !.methods = <<"resources/read">>], [Posted EXCEPT !.methods = <<"ping", "tools/call">>],
     [Posted EXCEPT !.params = <<<<"u", "t">>>>], [Posted EXCEPT !.params = <<<<"u">>, <<"t">>>>]}
    \cup {[Posted EXCEPT !.read = r] : r \in {"verb", "path", "large", "cut", "batch"}}
Listed(n, es) == [name |-> n, entries |-> es]
MCResults == {<<>>, <<Listed("tools", <<<<"t">>, <<"u">>>>)>>,
              <<Listed("tools", <<<<"t">>>>), Listed("Tools", <<<<"u">>>>)>>,
              <<Listed("Tools", <<<<"u", "t">>, <<"t">>, <<>>>>)>>}

\* The state a part is left at while the behaviour is about another.
Left ==
    /\ IF part # "reply" THEN given = [request |-> CHOOSE r \in Inbounds : r.kind = "webhook", agent |-> TRUE,
                                       bot |-> FALSE, expired |-> FALSE] ELSE TRUE
    /\ IF part # "target" THEN dns = (CHOOSE d \in Answers : TRUE) /\ token = FALSE ELSE TRUE
    /\ IF part # "walk" THEN tree = Diamond /\ barred = {} ELSE TRUE
    /\ IF part # "check" THEN graph = [next |-> [a |-> <<>>, b |-> <<>>, c |-> <<>>], bad |-> {}] ELSE TRUE
    /\ IF part # "rate" THEN steady = TRUE ELSE TRUE
    /\ IF part # "identity" THEN route = NoRoute ELSE TRUE
    /\ IF part # "usage" THEN doc = LET t == Obj(<<<<"u">>, <<"b", "q">>>>, <<Number, Text>>)
                                    IN [tree |-> t, bytes |-> Bytes3(t)] ELSE TRUE
    /\ IF part # "body" THEN body = <<>> /\ needs = FALSE ELSE TRUE
    /\ IF part # "stream" THEN into = "openai" ELSE TRUE
    /\ IF part # "broker" THEN granted = Open0 ELSE TRUE

Init ==
    /\ part \in {"health", "reply", "target", "walk", "check", "rate", "identity", "usage", "body", "stream", "broker"}
    /\ Left
    /\ HInit /\ YInit /\ TInit /\ FWInit /\ FSInit /\ RLInit /\ IDInit /\ USInit /\ RBInit /\ STInit /\ TBInit

Next ==
    /\ UNCHANGED part
    /\ \/ part = "health" /\ HNext
       \/ part # "health" /\ UNCHANGED hvars
    /\ \/ part = "reply" /\ YNext
       \/ part # "reply" /\ UNCHANGED yvars
    /\ \/ part = "target" /\ TNext
       \/ part # "target" /\ UNCHANGED tvars
    /\ \/ part = "walk" /\ FWNext
       \/ part # "walk" /\ UNCHANGED wkvars
    /\ \/ part = "check" /\ validateFallback
       \/ part # "check" /\ UNCHANGED fsvars
    /\ \/ part = "rate" /\ RLNext
       \/ part # "rate" /\ UNCHANGED rlvars
    /\ \/ part = "identity" /\ IDNext
       \/ part # "identity" /\ UNCHANGED idvars
    /\ \/ part = "usage" /\ USNext
       \/ part # "usage" /\ UNCHANGED usvars
    /\ \/ part = "body" /\ RBNext
       \/ part # "body" /\ UNCHANGED rbvars
    /\ \/ part = "stream" /\ STNext
       \/ part # "stream" /\ UNCHANGED stvars
    /\ \/ part = "broker" /\ TBNext
       \/ part # "broker" /\ UNCHANGED tbvars

\* Tells states apart as all the variables do: the other parts never move.
PartView == CASE part = "health" -> <<part, hvars>>
              [] part = "reply" -> <<part, yvars>> [] part = "target" -> <<part, tvars>>
              [] part = "walk" -> <<part, wkvars>> [] part = "check" -> <<part, fsvars>>
              [] part = "rate" -> <<part, rlvars>>
              [] part = "identity" -> <<part, idvars>> [] part = "usage" -> <<part, usvars>>
              [] part = "body" -> <<part, rbvars>> [] part = "stream" -> <<part, stvars>>
              [] part = "broker" -> <<part, tbvars>>

Spec == Init /\ [][Next]_<<part, hvars, yvars, tvars, wkvars, fsvars, rlvars, idvars, usvars, rbvars, stvars, tbvars>>

\* What the proxy reads of a body that passes through it is what is written
\* there: the usage, the model, and the blocks of a translated stream
\* (usageScanner, rewriteRequestBody, openAIToAnthropicStream).
ProxyReads == ReportsExact /\ SameReading /\ StreamReads /\ ContentKept

\* The channels' side of the gateway: observed health, replies to the chat
\* platforms, and where a callback may go (record, SendReply,
\* dialCallbackTLS).
ChannelsSound == /\ HTypeOK /\ StoreExact /\ TargetAllowed
                 /\ DeadlineHolds /\ ChatInOrder /\ ChunksWhole
=============================================================================
