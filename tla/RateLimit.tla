------------------------------ MODULE RateLimit ------------------------------
(***************************************************************************)
(* The token buckets of the gateway replicas for one key.  Every replica   *)
(* takes its share of the cluster's ceilings by the replica count it reads *)
(* at each call; the request bucket is consumed at admission, the token    *)
(* bucket is debited when the call ends.  Levels are in parts of a token,  *)
(* One of them to the token, so that a share below one is exact.           *)
(***************************************************************************)
EXTENDS Integers, FiniteSets, FiniteSetsExt

CONSTANTS Replicas0,      \* the gateway replicas
          Minute, One,    \* seconds to the minute, parts to a token
          RequestLimit, TokenLimit,   \* per minute, in whole requests and tokens
          Costs,          \* tokens a call may use
          Horizon0        \* seconds explored

ASSUME RateBounds ==
    /\ {Minute, One, RequestLimit, TokenLimit} \subseteq Nat \ {0} /\ Costs \subseteq Nat /\ Horizon0 \in Nat
    /\ \A n \in 1..Cardinality(Replicas0), l \in {RequestLimit, TokenLimit} : (l * One) % (n * Minute) = 0

VARIABLES clock,
          counts,     \* the replica count each replica reads
          steady,     \* whether the counts are the true one throughout
          buckets,    \* per replica: levels and last refills of both buckets
          open,       \* admitted calls in flight, per replica
          admitted0,  \* ghost: requests admitted, per replica, while counts are steady
          promise     \* last refusal, until the bucket is used again: when to come back, and what for

rlvars == <<clock, counts, steady, buckets, open, admitted0, promise>>

NoPromise == [at |-> -1, why |-> "none"]
perReplica(limit, n) == (limit * One) \div n
requestBurst(share) == Max({share, One})

RLInit ==
    /\ clock = 0 /\ steady \in BOOLEAN
    /\ counts = [r \in Replicas0 |-> Cardinality(Replicas0)]
    /\ buckets = [r \in Replicas0 |-> [tokens |-> perReplica(TokenLimit, counts[r]), tokensAt |-> 0,
                                       requests |-> requestBurst(perReplica(RequestLimit, counts[r])), requestsAt |-> 0]]
    /\ open = [r \in Replicas0 |-> 0] /\ admitted0 = [r \in Replicas0 |-> 0]
    /\ promise = [r \in Replicas0 |-> NoPromise]

\* Fault: a debt taken at a larger share is kept.
refilledKept(level, at, share, burst) ==
    Min({burst, level + (clock - at) * (share \div Minute)})
\* A debt deeper than one burst is raised first, then the time since the last
\* refill is credited at the current share, up to the burst.
refilled(level, at, share, burst) ==
    Min({burst, Max({level, -burst}) + (clock - at) * (share \div Minute)})
\* Whole seconds, rounded up, until the deficit is earned; at least one.
retryAfterSeconds(deficit, share) ==
    Max({1, (deficit + (share \div Minute) - 1) \div (share \div Minute)})

\* A whole request must be there.
takes(level) == level >= One

\* The levels a call of replica r sees.
TokensNow(r) == LET share == perReplica(TokenLimit, counts[r])
                IN  refilled(buckets[r].tokens, buckets[r].tokensAt, share, share)
RequestsNow(r) == LET share == perReplica(RequestLimit, counts[r])
                  IN  refilled(buckets[r].requests, buckets[r].requestsAt, share, requestBurst(share))
\* The token bucket is asked first and keeps what it has; only an admitted
\* call takes its request.
Allow(r) ==
    LET tokens == TokensNow(r)
        requests == RequestsNow(r)
        asked == [buckets[r] EXCEPT !.tokens = tokens, !.tokensAt = clock]
        both == [asked EXCEPT !.requests = requests, !.requestsAt = clock]
    IN  IF tokens <= 0
        THEN /\ buckets' = [buckets EXCEPT ![r] = asked]
             /\ promise' = [promise EXCEPT ![r] = [at |-> clock + retryAfterSeconds(-tokens, perReplica(TokenLimit, counts[r])),
                                                   why |-> "tokens"]]
             /\ UNCHANGED <<clock, counts, steady, open, admitted0>>
        ELSE IF ~takes(requests)
        THEN /\ buckets' = [buckets EXCEPT ![r] = both]
             /\ promise' = [promise EXCEPT ![r] = [at |-> clock + retryAfterSeconds(One - requests, perReplica(RequestLimit, counts[r])),
                                                   why |-> "requests"]]
             /\ UNCHANGED <<clock, counts, steady, open, admitted0>>
        ELSE /\ buckets' = [buckets EXCEPT ![r] = [both EXCEPT !.requests = requests - One]]
             /\ promise' = [promise EXCEPT ![r] = NoPromise]
             /\ open' = [open EXCEPT ![r] = @ + 1] /\ admitted0' = [admitted0 EXCEPT ![r] = IF steady THEN @ + 1 ELSE @]
             /\ UNCHANGED <<clock, counts, steady>>
\* The end of a call: its tokens, down to minus one share.
DebitTokens(r, cost) ==
    /\ open[r] > 0 /\ open' = [open EXCEPT ![r] = @ - 1]
    /\ IF cost = 0 THEN UNCHANGED <<buckets, promise>>
       ELSE /\ buckets' = [buckets EXCEPT ![r].tokens = Max({TokensNow(r) - cost * One, -perReplica(TokenLimit, counts[r])}),
                                          ![r].tokensAt = clock]
            /\ promise' = [promise EXCEPT ![r] = NoPromise]
    /\ UNCHANGED <<clock, counts, steady, admitted0>>

Second == /\ clock < Horizon0 /\ clock' = clock + 1
          /\ UNCHANGED <<counts, steady, buckets, open, admitted0, promise>>
\* The Pod informer reports another count to one replica.
CountChanges(r, n) == /\ ~steady /\ n # counts[r] /\ counts' = [counts EXCEPT ![r] = n]
                      /\ promise' = [promise EXCEPT ![r] = NoPromise]
                      /\ UNCHANGED <<clock, steady, buckets, open, admitted0>>

RLNext == \/ Second
          \/ \E r \in Replicas0 : \/ Allow(r)
                                  \/ \E cost \in Costs : DebitTokens(r, cost)
                                  \/ \E n \in 1..Cardinality(Replicas0) : CountChanges(r, n)

\* Over any time the cluster admits no more than its ceiling and one burst of
\* every replica, although a ceiling below the replica count leaves each of
\* them room for one request.
CeilingHolds ==
    steady =>
      LET n == Cardinality(Replicas0)
          all == MapThenSumSet(LAMBDA r : admitted0[r], Replicas0)
      IN  all * One <= n * requestBurst(perReplica(RequestLimit, n)) + clock * ((RequestLimit * One) \div Minute)

\* A caller that comes back when it was told to is admitted, if the bucket was
\* left alone: a request at that second, a refusal for tokens once it passed.
RetryHonest ==
    \A r \in Replicas0 :
       /\ promise[r].why = "requests" /\ clock >= promise[r].at => takes(RequestsNow(r))
       /\ promise[r].why = "tokens" /\ clock > promise[r].at => TokensNow(r) > 0

\* However large a call was, and however the shares changed since, its debt
\* blocks the key for at most one minute.
DebtOneWindow ==
    \A r \in Replicas0 : promise[r].why = "tokens" => promise[r].at <= clock + Minute

\* Ceilings, the advice of a refusal and the length of a debt, for every
\* replica count and share (Admit, Settle).
LimitsHold == CeilingHolds /\ RetryHonest /\ DebtOneWindow
=============================================================================
