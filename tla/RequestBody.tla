----------------------------- MODULE RequestBody -----------------------------
(***************************************************************************)
(* The rewrite of a request body by spans.  The gateway reads the members  *)
(* it routes and meters by as encoding/json would, ignoring case, and      *)
(* edits only those; a provider may match names exactly or ignoring case   *)
(* and keep the first or the last of a repeated one.  A body is the        *)
(* sequence of its members, a name its routing name and its spelling.      *)
(***************************************************************************)
EXTENDS Naturals, Sequences, SequencesExt, FiniteSets

CONSTANTS MemberBound   \* members of the largest body

ASSUME BodyBounds == MemberBound \in Nat

Member(n, exact, v) == [name |-> n, exact |-> exact, value |-> v]
\* stream_options: its own members, or a value that is not an object.
Options == {<<"other">>, <<"on">>, <<"off">>, <<"OFF">>, <<"other", "OFF", "on">>, <<>>}
IsUsage(o) == o \in {"on", "off", "OFF"}
Members == {Member("model", e, v) : e \in BOOLEAN, v \in {"asked", "number"}}
           \cup {Member("stream", e, v) : e \in BOOLEAN, v \in {"true", "false", "null", "text"}}
           \cup {Member("stream_options", e, v) : e \in BOOLEAN, v \in Options \cup {<<"scalar">>}}
           \cup {Member("temperature", TRUE, "1")}
Bodies0 == UNION {[1..n -> Members] : n \in 0..MemberBound}
RoutingNames == {"model", "stream", "stream_options"}

VARIABLES body, needs,    \* the caller's body; whether the format needs the option for usage
          sent0,          \* the body that goes out, per attempt
          step            \* received, refused, or attempts made

rbvars == <<body, needs, sent0, step>>

RBInit == body \in Bodies0 /\ needs \in BOOLEAN /\ sent0 = <<>> /\ step = "received"

Places(b, n) == {i \in 1..Len(b) : b[i].name = n}
ValueOf(b, n) == IF Places(b, n) = {} THEN "absent" ELSE b[CHOOSE i \in Places(b, n) : TRUE].value
\* A body is refused for a repeated routing member, in any spelling, or a
\* stream that is no boolean; and one whose model is no string routes nowhere.
scanRequestFields(b) ==
    /\ \A n \in RoutingNames : Cardinality(Places(b, n)) <= 1
    /\ ValueOf(b, "stream") \in {"true", "false", "null", "absent"}
modelOf(b) == ValueOf(b, "model")
streamTrue(b) == ValueOf(b, "stream") = "true"
needsStreamOptions(b) == needs /\ streamTrue(b)

\* Every include_usage is dropped, whatever its case, and true put last.
streamOptionsWithUsage(v) ==
    IF v = <<"scalar">> THEN <<"on">> ELSE SelectSeq(v, LAMBDA o : ~IsUsage(o)) \o <<"on">>
\* The names of the routing members are written exactly.
exactName(m) == m.exact \/ m.name \in RoutingNames
rewriteRequestBody(b, model, forceUsage) ==
    LET edited == [i \in 1..Len(b) |->
          Member(b[i].name, exactName(b[i]),
                 CASE b[i].name = "model" -> model
                   [] b[i].name = "stream_options" /\ forceUsage -> streamOptionsWithUsage(b[i].value)
                   [] OTHER -> b[i].value)]
    IN  IF forceUsage /\ Places(b, "stream_options") = {}
        THEN Append(edited, Member("stream_options", TRUE, <<"on">>)) ELSE edited

\* The handler: refuse, or send the body with the model of the primary.
Prepare ==
    /\ step = "received"
    /\ IF scanRequestFields(body) /\ modelOf(body) = "asked"
       THEN step' = "sent" /\ sent0' = <<rewriteRequestBody(body, "primary", needsStreamOptions(body))>>
       ELSE step' = "refused" /\ UNCHANGED sent0
    /\ UNCHANGED <<body, needs>>
\* A fallback of the same format with another model: only the model changes,
\* in the body prepared for the primary.
candidateRequest ==
    /\ step = "sent" /\ step' = "again"
    /\ sent0' = Append(sent0, rewriteRequestBody(sent0[1], "mapped", FALSE))
    /\ UNCHANGED <<body, needs>>
RBNext == Prepare \/ candidateRequest

\* A provider's own reading of a member: names exact or not, first or last kept.
ReadBy(b, n, folds, last) ==
    LET hits == {i \in Places(b, n) : folds \/ b[i].exact}
    IN  IF hits = {} THEN "absent"
        ELSE b[CHOOSE i \in hits : \A j \in hits : IF last THEN j <= i ELSE i <= j].value
UsageBy(o, folds, last) ==
    LET hits == {i \in 1..Len(o) : o[i] \in {"on", "off"} \/ (folds /\ o[i] = "OFF")}
    IN  hits # {} /\ o[CHOOSE i \in hits : \A j \in hits : IF last THEN j <= i ELSE i <= j] = "on"

\* However a provider reads the body it gets, it serves the model the gateway
\* admitted, streams exactly when the gateway said so, and, where the format
\* needs the option, reports usage although the agent asked it not to.
SameReading ==
    \A i \in 1..Len(sent0), folds \in BOOLEAN, last \in BOOLEAN :
       /\ ReadBy(sent0[i], "model", folds, last) = IF i = 1 THEN "primary" ELSE "mapped"
       /\ (ReadBy(sent0[i], "stream", folds, last) = "true") = streamTrue(body)
       /\ needsStreamOptions(body) => UsageBy(ReadBy(sent0[i], "stream_options", folds, last), folds, last)
=============================================================================
