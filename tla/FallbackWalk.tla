---------------------------- MODULE FallbackWalk ----------------------------
(***************************************************************************)
(* One LLM call: admission of the primary, the depth-first walk of the     *)
(* fallback tree, and the answer the caller gets.  Every candidate may     *)
(* hold an admission slot of a hard budget, the caller may leave at any    *)
(* moment, and the edges map the model on the way down.                    *)
(*                                                                         *)
(* Next to it the controller's view of a fallback tree: the advisory scan  *)
(* that predicts which candidates a request would skip, and the structural *)
(* check that a provider must pass to be Ready.  Both are depth-first      *)
(* recursions that carry what they have visited from branch to branch.     *)
(***************************************************************************)
EXTENDS Naturals, Sequences, FiniteSets, Functions

CONSTANTS Trees,      \* fallback trees: [root, next, map, offers]
          MaxDepth,   \* attempts one call may take
          Graphs      \* fallback graphs for the structural check: [next, bad]

ASSUME WalkBounds == MaxDepth \in Nat \ {0}

VARIABLES tree, barred,    \* the tree, and the candidates barred by format or namespace
          at,              \* where the handler is
          path,            \* the candidates being walked, the primary first
          modelID, visited, attempts, modelFor, observed, blocked,  \* walkState
          slots,           \* candidates whose admission slot is held
          upstream,        \* the candidate an upstream call is open to, and its model
          caller,          \* "here" or "left"
          answer,          \* what the caller was given
          history          \* outcome of every attempt, in order

wkvars == <<tree, barred, at, path, modelID, visited, attempts, modelFor, observed, blocked, slots, upstream, caller,
            answer, history>>

Idle0 == [to |-> "none", model |-> "none"]
NoAnswer == [status |-> 0, retryable |-> FALSE]
Top == path[Len(path)]
root == tree.root
candidateModel(p) == IF p \in DOMAIN modelFor THEN modelFor[p] ELSE modelID

\* What admission answers: refused in three ways, or admitted with or without a slot.
Decisions == {"unavailable", "throttled", "block", "free", "slot"}
Denied(d) == d \in {"unavailable", "throttled", "block"}
\* How one attempt can end.
Ends0 == {"connect", "timeout", "upstream", "rejected", "ok"}

FWInit ==
    /\ tree \in Trees
    /\ barred \in SUBSET (DOMAIN tree.next \ {tree.root})
    /\ at = "admit" /\ path = <<>> /\ modelID = "none" /\ visited = {} /\ attempts = 0
    /\ modelFor = <<>> /\ observed = {} /\ blocked = FALSE /\ slots = {}
    /\ upstream = Idle0 /\ caller = "here" /\ answer = NoAnswer /\ history = <<>>

(***************************************************************************)
(* Before the walk.                                                        *)
(***************************************************************************)
\* The answer to a call the primary's budget refuses.
applyBudgetDecision(d) == CASE d = "unavailable" -> [status |-> 503, retryable |-> TRUE]
                            [] d = "throttled" -> [status |-> 429, retryable |-> TRUE]
                            [] d = "block" -> [status |-> 429, retryable |-> FALSE]
\* handleLLMProxy up to the walk.  A degrade replaces the model; a rate limit
\* refuses after admission, and the deferred settle frees the primary's slot.
AdmitPrimary(d, model, limited) ==
    /\ at = "admit"
    /\ modelID' = model /\ modelFor' = [q \in {root} |-> model]
    /\ IF Denied(d) \/ limited
       THEN /\ at' = "done" /\ UNCHANGED <<path, slots>>
            /\ answer' = IF Denied(d) THEN applyBudgetDecision(d) ELSE [status |-> 429, retryable |-> TRUE]
       ELSE /\ at' = "enter" /\ path' = <<[p |-> root, child |-> 0, model |-> model]>>
            /\ slots' = IF d = "slot" THEN {root} ELSE {}
            /\ UNCHANGED answer
    /\ UNCHANGED <<tree, barred, visited, attempts, observed, blocked, upstream, caller, history>>

(***************************************************************************)
(* The walk.                                                               *)
(***************************************************************************)
staticallyIneligible(p) == p \in barred \/ candidateModel(p) \notin tree.offers[p]
\* Back to the parent without a result.
Return0 == /\ path' = SubSeq(path, 1, Len(path) - 1)
           /\ at' = IF Len(path) = 1 THEN "exhausted" ELSE "children"
\* walkChildren reads the parent's model once, before its first child.
BeginChildren == /\ at' = "children"
                 /\ path' = [path EXCEPT ![Len(path)].model = candidateModel(Top.p)]

\* A candidate that is visited, ineligible or past the depth cap: no attempt,
\* and its children are not walked.
Skip == /\ at = "enter"
        /\ Top.p \in visited \/ staticallyIneligible(Top.p) \/ attempts >= MaxDepth
        /\ visited' = visited \cup {Top.p}
        /\ Return0
        /\ UNCHANGED <<tree, modelID, barred, attempts, modelFor, observed, blocked, slots, upstream, caller, answer, history>>

\* A refused candidate costs the attempt and hands over to its children.
Refused(d) == /\ observed' = observed \cup {IF d = "unavailable" THEN "budgetUnavailable" ELSE "budget"}
              /\ blocked' = (blocked \/ d = "block") /\ BeginChildren
\* tryWithFallbacks up to its attempt; the primary was admitted before.
tryWithFallbacks(d) ==
    /\ at = "enter"
    /\ Top.p \notin visited /\ ~staticallyIneligible(Top.p) /\ attempts < MaxDepth
    /\ Top.p = root => d = "free"
    /\ visited' = visited \cup {Top.p} /\ attempts' = attempts + 1
    /\ IF Denied(d) THEN Refused(d) /\ history' = Append(history, <<Top.p, d>>) /\ UNCHANGED <<slots, upstream>>
       ELSE /\ at' = "call" /\ slots' = IF d = "slot" THEN slots \cup {Top.p} ELSE slots
            /\ upstream' = [to |-> Top.p, model |-> candidateModel(Top.p)]
            /\ UNCHANGED <<path, observed, blocked, history>>
    /\ UNCHANGED <<tree, modelID, barred, modelFor, caller, answer>>

\* Fault: the slot of a failed candidate stays until the call ends.
FailedHolds(e) == BeginChildren /\ UNCHANGED slots
\* A fallbackable failure frees the slot before the children are walked.
Failed(e) == BeginChildren /\ slots' = slots \ {Top.p}
isFallbackable(e) == e \in {"connect", "timeout", "upstream"}
\* The attempt ends.  After the caller left its outcome is not the candidate's.
Attempted(e) ==
    /\ at = "call"
    /\ upstream' = Idle0 /\ history' = Append(history, <<Top.p, e>>)
    /\ observed' = IF caller = "left" \/ e = "ok" THEN observed ELSE observed \cup {e}
    /\ IF caller = "here" /\ isFallbackable(e) THEN Failed(e) ELSE at' = "result" /\ UNCHANGED <<path, slots>>
    /\ UNCHANGED <<tree, modelID, barred, visited, attempts, modelFor, blocked, caller, answer>>

\* The edge's model map, applied to the model of the parent.
Mapped(edge) == IF Top.model \in DOMAIN edge THEN edge[Top.model] ELSE Top.model
\* walkChildren: the next child that exists, or back to the parent.
walkChildren ==
    /\ at = "children"
    /\ LET children == tree.next[Top.p]
           left == {i \in (Top.child + 1)..Len(children) : children[i] \in DOMAIN tree.next}
       IN  IF left = {} THEN Return0 /\ UNCHANGED modelFor
           ELSE LET i == CHOOSE j \in left : \A k \in left : j <= k
                    next == children[i]
                    model == Mapped(tree.map[Top.p][i])
                IN  /\ modelFor' = [q \in DOMAIN modelFor \cup {next} |-> IF q = next THEN model ELSE modelFor[q]]
                    /\ path' = Append([path EXCEPT ![Len(path)].child = i],
                                      [p |-> next, child |-> 0, model |-> model])
                    /\ at' = "enter"
    /\ UNCHANGED <<tree, modelID, barred, visited, attempts, observed, blocked, slots, upstream, caller, answer, history>>

(***************************************************************************)
(* After the walk.                                                         *)
(***************************************************************************)
budgetClasses == {"budget", "budgetUnavailable"}
exhaustionError ==
    CASE observed # {} /\ observed \subseteq budgetClasses /\ "budgetUnavailable" \in observed ->
           [status |-> 503, retryable |-> TRUE]
      [] observed = {"budget"} -> [status |-> 429, retryable |-> ~blocked]
      [] observed = {"connect"} -> [status |-> 503, retryable |-> FALSE]
      [] observed = {"timeout"} -> [status |-> 504, retryable |-> FALSE]
      [] OTHER -> [status |-> 502, retryable |-> FALSE]
Exhausted == /\ at = "exhausted" /\ at' = "done"
             /\ answer' = IF caller = "left" THEN answer ELSE exhaustionError
             /\ slots' = slots \ {root}
             /\ UNCHANGED <<tree, modelID, barred, path, visited, attempts, modelFor, observed, blocked, upstream, caller, history>>
\* settleCallerLeft and writeWalkResult settle the serving candidate, and the
\* deferred settle the primary.
writeWalkResult ==
    /\ at = "result" /\ at' = "done"
    /\ LET end == history[Len(history)][2]
       IN  answer' = IF caller = "left" THEN answer
                     ELSE [status |-> IF end = "ok" THEN 200 ELSE 400, retryable |-> FALSE]
    /\ slots' = slots \ {Top.p, root}
    /\ UNCHANGED <<tree, modelID, barred, path, visited, attempts, modelFor, observed, blocked, upstream, caller, history>>

CallerLeaves == /\ caller = "here" /\ at # "done" /\ at # "admit" /\ caller' = "left"
                /\ UNCHANGED <<tree, modelID, barred, at, path, visited, attempts, modelFor, observed, blocked, slots,
                               upstream, answer, history>>

FWStep == \/ \E d \in Decisions, limited \in BOOLEAN, model \in UNION {tree.offers[p] : p \in {root}} :
                AdmitPrimary(d, model, limited)
          \/ Skip
          \/ \E d \in Decisions : tryWithFallbacks(d)
          \/ \E e \in Ends0 : Attempted(e)
          \/ walkChildren \/ Exhausted \/ writeWalkResult
FWNext == FWStep \/ CallerLeaves

(***************************************************************************)
(* What the walk guarantees.                                               *)
(***************************************************************************)
\* No slot is held across another provider's upstream call, and none is left
\* when the handler returns: settle(0) before the children are walked, the
\* settles of the result, and the deferred settle of the primary.
SlotDiscipline == /\ upstream.to # "none" => slots \subseteq {upstream.to}
                  /\ at = "done" => slots = {}

\* The model sent to a candidate is the walk's model taken through the maps of
\* the edges of the very path that led to it, whatever other edges to the same
\* candidate the walk met before (modelFor is one map for the whole walk).
AlongPath ==
    LET model[i \in 1..Len(path)] ==
          IF i = 1 THEN modelID
          ELSE LET edge == tree.map[path[i - 1].p][path[i - 1].child]
               IN  IF model[i - 1] \in DOMAIN edge THEN edge[model[i - 1]] ELSE model[i - 1]
    IN  model
ModelAlongPath == upstream.to # "none" => upstream.model = AlongPath[Len(path)]

\* A walk that gave up although the caller waited tried everything it may:
\* unless the cap stopped it, every existing child of an attempted candidate
\* was looked at, whether the candidate failed or its budget refused it.
Tried == {history[i][1] : i \in 1..Len(history)}
WalkExhaustive ==
    (at = "exhausted" /\ caller = "here") =>
       \/ attempts = MaxDepth
       \/ \A p \in Tried : \A c \in Range(tree.next[p]) : c \in DOMAIN tree.next => c \in visited

\* The error of an exhausted walk is that of its attempts: "all providers were
\* unreachable", or "timed out", is said exactly when each attempt of the walk
\* ended that way, so a candidate its budget refused turns it into a 502.
Outcomes == {history[i][2] : i \in 1..Len(history)}
ErrorHonest ==
    (at = "done" /\ path = <<>> /\ attempts > 0 /\ caller = "here") =>
       /\ answer.status = 503 <=> Outcomes = {"connect"}
       /\ answer.status = 504 <=> Outcomes = {"timeout"}

(***************************************************************************)
(* fallbackIneligibility, for one namespace and one primary model: barred  *)
(* are the candidates that do not admit the namespace.                     *)
(***************************************************************************)
\* Only an eligible candidate's own fallbacks are walked.
Below(found1, found0) == found1 = found0
\* Children i.. of parent p, which carries model; s is [seen, found].
RECURSIVE scanFrom(_, _, _, _)
scanFrom(p, model, i, s) ==
    IF i > Len(tree.next[p]) THEN s
    ELSE LET c == tree.next[p][i]
             edge == tree.map[p][i]
             m == IF model \in DOMAIN edge THEN edge[model] ELSE model
             found1 == s.found \cup (IF c \in barred THEN {<<"ns", c>>} ELSE {})
                               \cup (IF m \notin tree.offers[c] THEN {<<"model", c>>} ELSE {})
             here == [seen |-> s.seen \cup {c}, found |-> found1]
         IN  IF c \notin DOMAIN tree.next \/ c \in s.seen THEN scanFrom(p, model, i + 1, s)
             ELSE scanFrom(p, model, i + 1, IF Below(found1, s.found) THEN scanFrom(c, m, 1, here) ELSE here)
fallbackIneligibility == scanFrom(root, modelID, 1, [seen |-> {root}, found |-> {}]).found

\* The scan finds the candidates a request skips: a walk that gave up, and was
\* not cut by the depth cap, passed over exactly those, although its model map
\* is shared by all branches and refused or failed candidates hand over to
\* their children ("walks the fallback tree the way the gateway does").
ScanAgrees ==
    (at = "exhausted" /\ caller = "here" /\ attempts < MaxDepth) =>
       visited \ Tried = {f[2] : f \in fallbackIneligibility}

(***************************************************************************)
(* validateFallback.                                                       *)
(***************************************************************************)
VARIABLES graph,      \* providers and their fallbacks; bad holds the invalid edges
          problems    \* what the check reports, or Unchecked before it ran

fsvars == <<graph, problems>>

Unchecked == {<<"unchecked", "a">>}
FSInit == graph \in Graphs /\ problems = Unchecked

\* A provider among its own ancestors.
Circular(c, onPath, walked) == c \in onPath
\* The edges of parent p from the i-th on; s is [walked, found].
RECURSIVE checkFrom(_, _, _, _)
checkFrom(p, i, onPath, s) ==
    IF i > Len(graph.next[p]) THEN s
    ELSE LET c == graph.next[p][i]
             report(kind) == [s EXCEPT !.found = @ \cup {<<kind, c>>}]
             edge == IF <<p, c>> \in graph.bad THEN report("edge") ELSE s
             deeper == checkFrom(c, 1, onPath \cup {c}, [edge EXCEPT !.walked = @ \cup {c}])
         IN  checkFrom(p, i + 1, onPath,
                       IF Circular(c, onPath, s.walked) THEN report("circular")
                       ELSE IF c \notin DOMAIN graph.next THEN report("missing")
                       ELSE IF c \in s.walked THEN edge ELSE deeper)
validateFallback == /\ problems = Unchecked
                    /\ problems' = checkFrom("a", 1, {"a"}, [walked |-> {"a"}, found |-> {}]).found
                    /\ UNCHANGED graph

\* What the fallbacks of p reach in up to n edges.
Reach[n \in Nat] ==
    IF n = 0 THEN {"a"}
    ELSE Reach[n - 1] \cup UNION {Range(graph.next[q]) : q \in Reach[n - 1] \cap DOMAIN graph.next}
Reached == Reach[Cardinality(DOMAIN graph.next)]
Edges == UNION {{<<p, c>> : c \in Range(graph.next[p])} : p \in Reached \cap DOMAIN graph.next}
\* The reachable part can be put in an order in which every edge goes up.
Acyclic == \E rank \in [DOMAIN graph.next -> 1..Cardinality(DOMAIN graph.next)] :
              \A e \in Edges : e[2] \in DOMAIN graph.next => rank[e[1]] < rank[e[2]]
\* The structural check reports a cycle exactly when the fallbacks reach one,
\* and, where they do not, every missing provider and every bad edge of the
\* tree, on whichever branch a shared backup is met first ("its edges are
\* checked on every branch but its own fallbacks are walked once").
ProblemsExact ==
    problems # Unchecked =>
       /\ Acyclic <=> ~\E c \in Reached : <<"circular", c>> \in problems
       /\ Acyclic => problems = {<<"missing", e[2]>> : e \in {x \in Edges : x[2] \notin DOMAIN graph.next}}
                                \cup {<<"edge", e[2]>> : e \in Edges \cap graph.bad}

\* The walk holds no slot too long, asks each candidate for its own model,
\* leaves no candidate out and reports honestly, and what the reconciler says
\* of the fallbacks is what the walk meets (tryWithFallbacks,
\* fallbackIneligibility, validateFallback).
FallbacksSound == /\ SlotDiscipline /\ ModelAlongPath /\ WalkExhaustive /\ ErrorHonest
                  /\ ScanAgrees /\ ProblemsExact
=============================================================================
