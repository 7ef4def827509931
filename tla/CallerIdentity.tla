--------------------------- MODULE CallerIdentity ---------------------------
(***************************************************************************)
(* Who is calling the gateway: the certificate's workload or the token's   *)
(* ServiceAccount, cross-checked against the Pod the informer shows at the *)
(* source IP, and the chain that then authorizes the provider.  The Pod    *)
(* informer lags, an IP passes from a finished Pod to a new one, tokens    *)
(* are revoked while a review or its cached result is under way.           *)
(***************************************************************************)
EXTENDS Naturals, FiniteSets

CONSTANTS Spaces,      \* namespaces, "op" the operator's
          MaxTTL, Safety,   \* longest life of a cached review, margin before its expiry
          Lifetime,    \* when the token expires
          PodLimit, Until   \* Pods that use the IP in turn, ticks explored

ASSUME IdentityBounds == {MaxTTL, Safety, Lifetime, PodLimit, Until} \subseteq Nat

VARIABLES pods, shown,    \* the Pods that had the IP, in the API and in the informer
          time0, revoked, \* revoked: the tick the token was revoked, or Until + 1
          reviews,         \* when the cached review expires
          call,           \* one request under way
          route, verdict  \* a route to authorize, and the answer to it

idvars == <<pods, shown, time0, revoked, reviews, call, route, verdict>>

NoPod == [ns |-> "none", managed |-> FALSE, live |-> FALSE, nr |-> 0]
Paths0 == {"model", "heartbeat", "complete", "controller", "console"}
Certs == [ns : Spaces, kind : {"Agent", "AgentTask", "controller", "console", "other"}]
NoCert == [ns |-> "none", kind |-> "none"]
NoCall == [at |-> "none", path |-> "model", cert |-> NoCert, pod |-> NoPod, ns |-> "none"]

\* Where the workload's own chain fails, if it has one, and the provider's part.
Routes0 == [chain : {"none", "ok", "workload", "ref", "class", "namespace", "classAllows"},
            provider : BOOLEAN, allowed : BOOLEAN, model : BOOLEAN]
NoRoute == [chain |-> "idle", provider |-> FALSE, allowed |-> FALSE, model |-> FALSE]

IDInit == /\ pods = {} /\ shown = {} /\ time0 = 0 /\ revoked = Until + 1 /\ reviews = 0
          /\ call = NoCall /\ route \in Routes0 \cup {NoRoute} /\ verdict = "none"

(***************************************************************************)
(* The world.                                                              *)
(***************************************************************************)
\* The IP's Pod finishes, or a new one takes over an IP that is free.
PodStarts(ns, managed) ==
    /\ Cardinality(pods) < PodLimit /\ \A p \in pods : ~p.live
    /\ pods' = pods \cup {[ns |-> ns, managed |-> managed, live |-> TRUE, nr |-> Cardinality(pods) + 1]}
    /\ UNCHANGED <<shown, time0, revoked, reviews, call>>
PodEnds(p) == /\ p.live /\ pods' = (pods \ {p}) \cup {[p EXCEPT !.live = FALSE]}
              /\ UNCHANGED <<shown, time0, revoked, reviews, call>>
Informed == /\ shown # pods /\ shown' = pods /\ UNCHANGED <<pods, time0, revoked, reviews, call>>
Tock == /\ time0 < Until /\ time0' = time0 + 1 /\ UNCHANGED <<pods, shown, revoked, reviews, call>>
Revoke == /\ revoked > Until /\ revoked' = time0 /\ UNCHANGED <<pods, shown, time0, reviews, call>>

(***************************************************************************)
(* Lookups.                                                                *)
(***************************************************************************)
\* Any Pod of the list that is not finished.
firstLivePod(list) == IF \E p \in list : p.live THEN {p \in list : p.live} ELSE {NoPod}
PodByIP == firstLivePod(shown)
PodByIPLive(ns) == firstLivePod({p \in pods : p.ns = ns})
\* The Pod a task's report is checked against: an informer miss is asked live.
crossCheckLive(ns) == IF PodByIP = {NoPod} THEN PodByIPLive(ns) ELSE PodByIP

Accept(ns, pod) == call' = [call EXCEPT !.at = "accepted", !.ns = ns, !.pod = pod]
RefuseCall(how) == call' = [NoCall EXCEPT !.at = how]

(***************************************************************************)
(* The paths.                                                              *)
(***************************************************************************)
Arrives(path, cert) == /\ call.at = "none" /\ call' = [NoCall EXCEPT !.at = "auth", !.path = path, !.cert = cert]
                       /\ UNCHANGED <<pods, shown, time0, revoked, reviews>>
\* Which certificate a path takes.
Takes(path, kind) == CASE path = "model" -> kind \in {"Agent", "AgentTask"}
                       [] path = "heartbeat" -> kind = "Agent"
                       [] path = "complete" -> kind = "AgentTask"
                       [] path = "controller" -> kind = "controller"
                       [] path = "console" -> kind = "console"
WithCert ==
    /\ call.at = "auth" /\ call.cert # NoCert
    /\ LET ns == IF call.path \in {"controller", "console"} THEN "op" ELSE call.cert.ns
       IN  \E p \in IF call.path = "complete" THEN crossCheckLive(ns) ELSE PodByIP :
              IF ~Takes(call.path, call.cert.kind) THEN RefuseCall("forbidden")
              ELSE IF p.ns # ns THEN RefuseCall("unauthorized")
              ELSE Accept(ns, p)
    /\ UNCHANGED <<pods, shown, time0, revoked, reviews>>
\* Without a certificate only the model paths go on, after the precheck.
Precheck ==
    /\ call.at = "auth" /\ call.cert = NoCert
    /\ \E p \in PodByIP :
          IF call.path # "model" \/ p.managed THEN RefuseCall("unauthorized")
          ELSE call' = [call EXCEPT !.at = "token", !.pod = p]
    /\ UNCHANGED <<pods, shown, time0, revoked, reviews>>

(***************************************************************************)
(* Tokens: the ServiceAccount is of the first namespace.                   *)
(***************************************************************************)
TokenNs == CHOOSE n \in Spaces : n # "op"
\* The token's own life less a margin, at most the maximum.
cacheTTL == LET ttl == IF Lifetime > time0 + Safety THEN Lifetime - time0 - Safety ELSE 0
            IN  IF ttl > MaxTTL THEN MaxTTL ELSE ttl
CacheHit == /\ call.at = "token" /\ time0 < reviews
            /\ call' = [call EXCEPT !.at = "known"]
            /\ UNCHANGED <<pods, shown, time0, revoked, reviews>>
\* The API's answer to a review, or no answer.
Review == /\ call.at = "token" /\ ~(time0 < reviews)
          /\ \/ RefuseCall("unavailable")
             \/ IF time0 < Lifetime /\ revoked > time0 THEN call' = [call EXCEPT !.at = "reviewed"]
                ELSE RefuseCall("unauthorized")
          /\ UNCHANGED <<pods, shown, time0, revoked, reviews>>
\* The result is cached when the answer is in.
Store == /\ call.at = "reviewed" /\ reviews' = time0 + cacheTTL
         /\ call' = [call EXCEPT !.at = "known"]
         /\ UNCHANGED <<pods, shown, time0, revoked>>
\* Fault: the Pod found only now is not asked whether it is managed.
SecondLookPlain == IF call.pod = NoPod THEN {[p EXCEPT !.managed = FALSE] : p \in PodByIP} ELSE {call.pod}
\* The Pod of the precheck, or one that appeared during the review.
SecondLook == IF call.pod = NoPod THEN PodByIP ELSE {call.pod}
WithToken ==
    /\ call.at = "known"
    /\ \E p \in SecondLook : IF p.managed \/ p.ns # TokenNs THEN RefuseCall("unauthorized") ELSE Accept(TokenNs, p)
    /\ UNCHANGED <<pods, shown, time0, revoked, reviews>>
Over == /\ call.at \in {"accepted", "forbidden", "unauthorized", "unavailable"} /\ call' = NoCall
        /\ UNCHANGED <<pods, shown, time0, revoked, reviews>>

(***************************************************************************)
(* The provider chain.                                                     *)
(***************************************************************************)
\* A workload's chain, which a gateway-only caller has not, its class and the provider's allowlist before the model.
authorizeRoute(w) ==
    CASE w.chain \notin {"none", "ok"} -> "403"
      [] ~w.provider -> "400 unknown provider"
      [] ~w.allowed -> "403"
      [] ~w.model -> "400 no model"
      [] OTHER -> "served"
Route == /\ verdict = "none" /\ verdict' = authorizeRoute(route)
         /\ UNCHANGED <<pods, shown, time0, revoked, reviews, call, route>>

IDStep == \/ \E ns \in Spaces, m \in BOOLEAN : PodStarts(ns, m)
          \/ \E p \in pods : PodEnds(p)
          \/ Informed \/ Tock \/ Revoke
          \/ \E path \in Paths0, cert \in Certs \cup {NoCert} : Arrives(path, cert)
          \/ WithCert \/ Precheck \/ CacheHit \/ Review \/ Store \/ WithToken \/ Over
IDNext == IF route = NoRoute THEN IDStep /\ UNCHANGED <<route, verdict>> ELSE Route

(***************************************************************************)
(* What identity guarantees.                                               *)
(***************************************************************************)
\* A token is no second credential of a managed Pod: the Pod the call was
\* accepted for is one the API had at that IP, of the caller's namespace and,
\* for a token, not managed, whether it was seen before the review or after.
PodVouches == call.at = "accepted" =>
    \E p \in pods : /\ p.nr = call.pod.nr /\ p.ns = call.ns
                    /\ call.cert = NoCert => ~p.managed

\* A token is taken for at most MaxTTL, and never after its own expiry, once a
\* review found it good: a revocation is felt within that time.
TokenFresh == /\ time0 < reviews => time0 < Lifetime
              /\ reviews <= time0 + MaxTTL

\* A task that reports from a Pod the informer has not seen is not turned
\* away: with no Pod at the IP in the informer, the API's own decides.
ReportNotLost ==
    [][(WithCert /\ call.path = "complete" /\ call.cert.kind = "AgentTask"
        /\ (\A p \in shown : ~p.live) /\ (\E p \in pods : p.live /\ p.ns = call.cert.ns))
       => call'.at = "accepted"]_idvars

\* A namespace the provider does not allow learns nothing of its models: the
\* answer is the same whether or not the model is offered.
ModelsHidden == (verdict # "none" /\ ~route.allowed) => verdict = authorizeRoute([route EXCEPT !.model = ~@])

\* Who calls, and what a caller learns (authenticate, authorizeRoute).
CallersKnown == [](PodVouches /\ TokenFresh /\ ModelsHidden) /\ ReportNotLost
=============================================================================
