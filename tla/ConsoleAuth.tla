----------------------------- MODULE ConsoleAuth -----------------------------
(***************************************************************************)
(* Who is looking at the console, and what they may see: bearer tokens     *)
(* through a cache of token reviews, login sessions that review their      *)
(* stored token again, and cached access reviews per question.  Concurrent *)
(* misses share one review, which goes on when its first caller leaves.    *)
(* Time is counted in ticks; a shared review takes at most one.  A request *)
(* asks for its identity and then for its access; the two share no state,  *)
(* and a behaviour explores the requests' questions of one sort.           *)
(***************************************************************************)
EXTENDS Naturals, FiniteSets

CONSTANTS Viewers, Arrivals,   \* requests under way at once, and in all
          ReviewTTL, FailedTTL, AccessTTL, SessionAge,   \* in ticks
          Horizon,             \* ticks explored
          ReviewErrors         \* reviews that cannot be run

ASSUME ConsoleBounds ==
    {Arrivals, ReviewTTL, FailedTTL, AccessTTL, SessionAge, Horizon, ReviewErrors} \subseteq Nat

VARIABLES clock,
          sort,         \* what requests ask here: {"bearer", "session"} or Questions
          until,        \* what a review says: yes from until[k].from to before until[k].to
          cache,        \* the cached reviews: [ok, expires]
          flight,       \* the shared reviews under way: [at, ok, since]
          sess,         \* the session: [known, made, created, reviewed]
          viewer,       \* the requests; since: when they got where they are
          faults, coming

cavars == <<clock, sort, until, cache, flight, sess, viewer, faults, coming>>

Questions == {"view", "chat"}
Keys == Questions \cup {"bearer"}
Says(k, t) == until[k].from <= t /\ t < until[k].to
Grounded == [at |-> "none", ok |-> "no", since |-> 0]
NoEntry == [ok |-> FALSE, expires |-> 0]
NoSession == [known |-> FALSE, made |-> FALSE, created |-> 0, reviewed |-> 0]
Away == [at |-> "away", asks |-> "none", late |-> FALSE, failed |-> FALSE, since |-> 0]
Never == [from |-> 0, to |-> 0]
CAInit == /\ clock = 0 /\ sort \in {{"bearer", "session"}, Questions}
          /\ until \in [Keys -> {Never, [from |-> 0, to |-> 1], [from |-> 1, to |-> 2], [from |-> 1, to |-> Horizon + 1]}]
          /\ \A k \in Keys \ sort : until[k] = Never
          /\ cache = [k \in Keys |-> NoEntry] /\ flight = [k \in Keys |-> Grounded]
          /\ sess = NoSession /\ viewer = [v \in Viewers |-> Away]
          /\ faults = ReviewErrors /\ coming = Arrivals

Flying(k) == flight[k].at # "none"
\* accessReviewTimeout: a shared review ends within a tick of its start.  An
\* answered request is over within its tick.
Tick0 == /\ clock < Horizon /\ \A v \in Viewers : viewer[v].at \notin {"yes", "no"}
         /\ \A k \in Keys : Flying(k) => flight[k].since = clock
         /\ clock' = clock + 1
         /\ UNCHANGED <<sort, until, cache, flight, sess, viewer, faults, coming>>
To(v, at) == viewer' = [viewer EXCEPT ![v].at = at, ![v].since = clock]
Fault0(error) == IF error THEN faults > 0 /\ faults' = faults - 1 ELSE UNCHANGED faults

(***************************************************************************)
(* Requests.                                                               *)
(***************************************************************************)
Arrives(v, q) ==
    /\ viewer[v].at = "away" /\ coming > 0 /\ coming' = coming - 1 /\ q \in sort
    /\ viewer' = [viewer EXCEPT ![v] = [Away EXCEPT !.at = "asks", !.asks = q, !.late = sess.made /\ ~sess.known]]
    /\ UNCHANGED <<clock, sort, until, cache, flight, sess, faults>>
\* The request is over, or its caller goes before it is.
Leaves(v) == /\ viewer[v].at # "away" /\ viewer' = [viewer EXCEPT ![v] = Away]
             /\ UNCHANGED <<clock, sort, until, cache, flight, sess, faults, coming>>
cached(k) == clock < cache[k].expires
\* The key of a cached answer names the question.
Key(q) == q
\* CachingReviewer.Review and AccessChecker.allowed: the cached answer, or the
\* review under way, or a new one.
Review(v) ==
    LET q == viewer[v].asks
    IN  /\ viewer[v].at = "asks" /\ q \in Keys
        /\ IF cached(Key(q)) THEN To(v, IF cache[Key(q)].ok THEN "yes" ELSE "no") /\ UNCHANGED flight
           ELSE /\ To(v, "waits")
                /\ flight' = IF Flying(q) THEN flight
                             ELSE [flight EXCEPT ![q] = [at |-> "asked", ok |-> "no", since |-> clock]]
        /\ UNCHANGED <<clock, sort, until, cache, sess, faults, coming>>
\* The cluster answers, or the review cannot be run.
Answered(k, error) ==
    /\ flight[k].at = "asked" /\ Fault0(error)
    /\ flight' = [flight EXCEPT ![k].at = "answered",
                                ![k].ok = IF error THEN "error" ELSE IF Says(k, clock) THEN "yes" ELSE "no"]
    /\ UNCHANGED <<clock, sort, until, cache, sess, viewer, coming>>
\* How long an answer is kept.
KeptFor(k, ok) == IF k # "bearer" THEN AccessTTL ELSE IF ok THEN ReviewTTL ELSE FailedTTL
\* Every waiter gets the answer; an error is not cached.
Reviewed(k) ==
    LET ok == flight[k].ok = "yes"
        failed == flight[k].ok = "error"
    IN  /\ flight[k].at = "answered" /\ flight' = [flight EXCEPT ![k] = Grounded]
        /\ cache' = IF failed THEN cache
                    ELSE [cache EXCEPT ![Key(k)] = [ok |-> ok, expires |-> clock + KeptFor(k, ok)]]
        /\ viewer' = [v \in Viewers |->
                        IF viewer[v].at # "waits" \/ viewer[v].asks # k THEN viewer[v]
                        ELSE [viewer[v] EXCEPT !.at = IF ok THEN "yes" ELSE "no", !.failed = failed, !.since = clock]]
        /\ UNCHANGED <<clock, sort, until, sess, faults, coming>>

(***************************************************************************)
(* Sessions, which ask the cluster about their token themselves.           *)
(***************************************************************************)
Login == /\ ~sess.made /\ Says("bearer", clock)
         /\ sess' = [known |-> TRUE, made |-> TRUE, created |-> clock, reviewed |-> clock]
         /\ UNCHANGED <<clock, sort, until, cache, flight, viewer, faults, coming>>
Forget == sess' = [sess EXCEPT !.known = FALSE]
Logout == /\ sess.known /\ Forget
          /\ UNCHANGED <<clock, sort, until, cache, flight, viewer, faults, coming>>
TooOld == clock - sess.created > SessionAge
\* The stored review is recent enough.
Resolves(v) == UNCHANGED sess /\ To(v, "yes")
\* Resolve, up to the review.
Resolve(v) == /\ viewer[v].at = "asks" /\ viewer[v].asks = "session"
              /\ \/ ~sess.known /\ To(v, "no") /\ UNCHANGED sess
                 \/ sess.known /\ TooOld /\ To(v, "no") /\ Forget
                 \/ sess.known /\ ~TooOld /\ clock - sess.reviewed <= ReviewTTL /\ Resolves(v)
                 \/ sess.known /\ ~TooOld /\ clock - sess.reviewed > ReviewTTL /\ To(v, "resolve") /\ UNCHANGED sess
              /\ UNCHANGED <<clock, sort, until, cache, flight, faults, coming>>
\* Fault: the reviewed session is put back into the map.
RenewsStored(now) == sess' = [sess EXCEPT !.known = TRUE, !.reviewed = now]
\* The time of a review is the one read before it; a session deleted meanwhile
\* stays deleted.
Renews(now) == sess' = [sess EXCEPT !.reviewed = now]
ResolveAnswered(v, error) ==
    /\ viewer[v].at = "resolve" /\ Fault0(error)
    /\ IF ~error /\ Says("bearer", clock) THEN Renews(viewer[v].since) /\ To(v, "yes") ELSE Forget /\ To(v, "no")
    /\ UNCHANGED <<clock, sort, until, cache, flight, coming>>
\* Sweep drops what has expired.
Sweep == /\ \/ \E k \in Keys : cache[k] # NoEntry /\ ~cached(k)
            \/ sess.known /\ TooOld
         /\ cache' = [k \in Keys |-> IF cached(k) THEN cache[k] ELSE NoEntry]
         /\ sess' = [sess EXCEPT !.known = @ /\ ~TooOld]
         /\ UNCHANGED <<clock, sort, until, flight, viewer, faults, coming>>

CANext == \/ Tick0 \/ Login \/ Logout \/ Sweep
          \/ \E k \in Keys : Reviewed(k) \/ \E error \in BOOLEAN : Answered(k, error)
          \/ \E v \in Viewers : \/ \E q \in sort : Arrives(v, q)
                                \/ Leaves(v) \/ Review(v) \/ Resolve(v)
                                \/ \E error \in BOOLEAN : ResolveAnswered(v, error)

(***************************************************************************)
(* What the console promises.                                              *)
(***************************************************************************)
\* "A session dies with its token": nobody passes on a token that was not
\* valid within the time a review is kept, by a cached review or by a session,
\* however often the session is used and however long a review takes.
TokenDies == \A v \in Viewers : viewer[v].at = "yes" /\ viewer[v].asks \in {"bearer", "session"} =>
                until["bearer"].from <= viewer[v].since /\ viewer[v].since < until["bearer"].to + ReviewTTL

\* A grant that was taken back, or never given, opens nothing once its cached
\* answer has expired, and the answer to one question never serves another.
AccessFresh == \A v \in Viewers : viewer[v].at = "yes" /\ viewer[v].asks \in Questions =>
                  LET g == until[viewer[v].asks]
                  IN  g.from < g.to /\ g.from <= viewer[v].since /\ viewer[v].since < g.to + AccessTTL

\* A bearer token is refused for its own fault: it was not valid within the
\* short time a refusal is kept, or its review could not be run.  That the
\* caller whose miss started the review left is no reason.
RefusedForCause == \A v \in Viewers : viewer[v].at = "no" /\ viewer[v].asks = "bearer" /\ ~viewer[v].failed =>
                      \E t \in 0..viewer[v].since : t + FailedTTL >= viewer[v].since /\ ~Says("bearer", t)

\* A request that came after the logout is not served by the session, although
\* a review of the session's token was under way then and ended later.
LoggedOutStays == \A v \in Viewers : viewer[v].asks = "session" /\ viewer[v].late => viewer[v].at \in {"asks", "no"}

\* Nobody passes, or is refused, on an answer older than the time it is kept,
\* and a logout is final (Review, allowed, Resolve, Delete).
ConsoleSound == TokenDies /\ AccessFresh /\ RefusedForCause /\ LoggedOutStays
=============================================================================
