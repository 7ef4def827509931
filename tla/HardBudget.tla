------------------------------ MODULE HardBudget ------------------------------
(***************************************************************************)
(* Hard budget enforcement of one ModelProvider (budget_hard.go).          *)
(*                                                                         *)
(* A replica admits a request against its view of the spend: its own       *)
(* counter plus what it last folded of its peers'.  Below the boundary     *)
(* region of every ceiling, requests run freely.  Inside it the replica    *)
(* admits one request at a time per governed ceiling, which holds the      *)
(* ceiling's slot until it settles, and admits none when it cannot publish *)
(* its own spend or refresh its view of the peers'.  Rollover of the       *)
(* period, the effective margin that widens with observed traffic, and the *)
(* publisher's staleness signals are modelled; incarnations of the         *)
(* provider and the reducer are BudgetExchange's.                          *)
(*                                                                         *)
(* Time is counted in publish intervals, which is also the width of a rate *)
(* bucket.  Percentages are compared after multiplying by the ceiling, so  *)
(* the arithmetic is exact.                                                *)
(***************************************************************************)
EXTENDS Integers, FiniteSets, FiniteSetsExt

CONSTANTS
    Replicas,    \* gateway replicas; all of them exist throughout
    Namespaces,  \* namespaces that call the provider
    Costs,       \* what one call can cost
    NsCeiling,   \* perNamespaceUSD, 0 when unset
    ClCeiling,   \* clusterUSD, 0 when unset
    Policies,    \* budget policies: records with fields at and action
    Margin,      \* hard.boundaryMarginPercent
    Window,      \* staleness window, in publish intervals
    MaxNow,      \* bound: the clock
    MaxPeriod,   \* bound: budget periods
    MaxCalls     \* bound: requests admitted

ASSUME CostsAssumption == Costs \subseteq Nat /\ Costs # {} /\ IsFiniteSet(Costs)
ASSUME CeilingsAssumption == NsCeiling \in Nat /\ ClCeiling \in Nat
ASSUME PoliciesAssumption ==
    /\ Policies \subseteq [at : 1..100, action : {"warn", "degrade", "block"}]
    /\ \E p \in Policies : p.action = "block"
    /\ \A p, q \in Policies : p.at = q.at => p = q
ASSUME BoundsAssumption ==
    /\ Margin \in 0..100 /\ Window \in Nat /\ MaxNow \in Nat
    /\ MaxPeriod \in Nat \ {0} /\ MaxCalls \in Nat
ASSUME ReplicasAssumption == IsFiniteSet(Replicas) /\ IsFiniteSet(Namespaces)

VARIABLES
    now,       \* the clock
    period,    \* the period the clock is in
    led,       \* each replica's providerLedger
    free,      \* requests in flight that hold no slot, by replica and namespace
    slotted,   \* requests in flight that were given slots, by replica
    pub,       \* the publish each replica has in flight
    cm,        \* the partial stored under each replica's key
    nCalls,    \* requests admitted so far
    total,     \* history: spend settled this period, by namespace
    exposure   \* history: unseen and in-flight spend at the last admission

history == <<total, exposure>>
vars == <<now, period, led, free, slotted, pub, cm, nCalls, history>>

Never == -1                    \* the zero time
ClusterSlot == "cluster"
Keys == Namespaces \cup {ClusterSlot}
NoSpend == [n \in Namespaces |-> 0]
NoSlots == [k \in Keys |-> 0]
NoPublish == [period |-> 0, spend |-> NoSpend, dirtyThen |-> FALSE]
Larger(m, n) == IF m >= n THEN m ELSE n
SumOver(f, S) == MapThenSumSet(LAMBDA x : f[x], S)

-----------------------------------------------------------------------------
(* The ledger *)

NewLedger ==
    [period |-> 1, own |-> NoSpend, peers |-> NoSpend, adm |-> NoSlots, nextToken |-> 0,
     maxCost |-> 0, bucketStart |-> Never, bucketSum |-> 0, peakRate |-> 0,
     dirtySince |-> Never, lastFoldOK |-> Never, marginRaised |-> FALSE]

(* ledgerFor rolls the period over.  Tokens, dirtySince and lastFoldOK stay. *)
LedgerFor(l) ==
    IF l.period = period THEN l
    ELSE [l EXCEPT !.period = period, !.own = NoSpend, !.peers = NoSpend, !.adm = NoSlots,
                   !.maxCost = 0, !.bucketStart = Never, !.bucketSum = 0, !.peakRate = 0,
                   !.marginRaised = FALSE]

ClusterSpent(l) == SumOver(l.own, Namespaces) + SumOver(l.peers, Namespaces)
Spent(l, k) == IF k = ClusterSlot THEN ClusterSpent(l) ELSE l.own[k] + l.peers[k]
Ceiling(k) == IF k = ClusterSlot THEN ClCeiling ELSE NsCeiling

(* trackLocked: the largest cost of a call and the peak rate of a bucket. *)
Track(l, c) ==
    LET turns == l.bucketStart = Never \/ now - l.bucketStart >= 1
    IN  [l EXCEPT !.maxCost = Larger(@, c),
                  !.peakRate = IF turns /\ l.bucketStart # Never THEN Larger(@, l.bucketSum) ELSE @,
                  !.bucketStart = IF turns THEN now ELSE @,
                  !.bucketSum = IF turns THEN c ELSE @ + c]

(* The accounting of Add and of settle: a call that cost nothing counts    *)
(* nothing.                                                                *)
Account(l, n, c) ==
    IF c = 0 THEN l
    ELSE [Track(l, c) EXCEPT !.own[n] = @ + c,
            !.dirtySince = IF @ = Never THEN now ELSE @]

-----------------------------------------------------------------------------
(* The decision *)

(* Fault: a ceiling that is exactly used up still admits. *)
ReachedAbove(l, k, at) == Ceiling(k) > 0 /\ 100 * Spent(l, k) > at * Ceiling(k)

(* Utilization of ceiling k has reached at percent. *)
Reached(l, k, at) == Ceiling(k) > 0 /\ 100 * Spent(l, k) >= at * Ceiling(k)

(* Fault: only the namespace's ceiling decides. *)
ActionNamespaceOnly(l, n) ==
    LET hit == {p \in Policies : Reached(l, n, p.at)}
    IN  IF hit = {} THEN "none"
        ELSE (CHOOSE p \in hit : \A q \in hit : q.at <= p.at).action

(* decide: the policy of the highest threshold reached by the worse ratio. *)
Action(l, n) ==
    LET hit == {p \in Policies : Reached(l, n, p.at) \/ Reached(l, ClusterSlot, p.at)}
    IN  IF hit = {} THEN "none"
        ELSE (CHOOSE p \in hit : \A q \in hit : q.at <= p.at).action

MinBlockAt ==
    LET blocks == {p \in Policies : p.action = "block"}
    IN  (CHOOSE p \in blocks : \A q \in blocks : p.at <= q.at).at

(* effectiveMarginPctLocked, times the ceiling. *)
ObservedMargin(l) ==
    LET reps == Cardinality(Replicas)
    IN  100 * (reps * l.maxCost + (reps - 1) * l.peakRate * Window)
EffectiveMargin(l, k) == Larger(Margin * Ceiling(k), ObservedMargin(l))
InBoundary(l, k) ==
    Ceiling(k) > 0 /\ 100 * Spent(l, k) >= MinBlockAt * Ceiling(k) - EffectiveMargin(l, k)

(* The keys of the slots a request of namespace n must take. *)
Governed(l, n) == {k \in {n, ClusterSlot} : InBoundary(l, k)}

(* Unpublishable settles, or a view that was not refreshed. *)
WriteStale(l) == l.dirtySince # Never /\ now - l.dirtySince > Window
ReadStale(l) == l.lastFoldOK = Never \/ now - l.lastFoldOK > Window

SlotHeld(l, n) == l.adm[n] # 0 \/ (l.adm[ClusterSlot] # 0 /\ ClCeiling > 0)

Outcome(l, n) ==
    IF Action(l, n) = "block" THEN "block"
    ELSE IF SlotHeld(l, n) THEN "throttled"
    ELSE IF Governed(l, n) = {} THEN "free"
    ELSE IF WriteStale(l) \/ ReadStale(l) THEN "unavailable"
    ELSE "slot"

-----------------------------------------------------------------------------
Init ==
    /\ now = 0
    /\ period = 1
    /\ led = [r \in Replicas |-> NewLedger]
    /\ free = [r \in Replicas |-> NoSpend]
    /\ slotted = [r \in Replicas |-> {}]
    /\ pub = [r \in Replicas |-> NoPublish]
    /\ cm = [r \in Replicas |-> [period |-> 0, spend |-> NoSpend]]
    /\ nCalls = 0
    /\ total = NoSpend
    /\ exposure = [k \in Keys |-> 0]

(* Spend of ceiling k that replica r's ledger l does not show. *)
Unseen(l, k) ==
    (IF k = ClusterSlot THEN SumOver(total, Namespaces) ELSE total[k]) - Spent(l, k)

(* Requests in flight that count against ceiling k. *)
InFlight(k) ==
    LET ns == IF k = ClusterSlot THEN Namespaces ELSE {k}
    IN  SumOver([r \in Replicas |-> SumOver(free[r], ns)
                    + Cardinality({h \in slotted[r] : h.ns \in ns})], Replicas)

(* History of an admission for namespace n: what may still be spent. *)
Expose(l, n) ==
    exposure' = [k \in Keys |-> IF k \in {n, ClusterSlot}
                    THEN Larger(0, Unseen(l, k)) + Max(Costs) * (InFlight(k) + 1)
                    ELSE exposure[k]]

(* Admit refuses: the period's policy blocks, the slot is held, or the     *)
(* replica fails closed.                                                   *)
Reject(r, n) ==
    LET l == LedgerFor(led[r])
    IN  /\ Outcome(l, n) \in {"block", "throttled", "unavailable"}
        /\ led' = [led EXCEPT ![r] = l]
        /\ UNCHANGED <<now, period, free, slotted, pub, cm, nCalls, history>>

(* Admit outside every boundary region: the request runs with no slot. *)
AdmitFree(r, n) ==
    LET l == LedgerFor(led[r])
    IN  /\ nCalls < MaxCalls /\ nCalls' = nCalls + 1
        /\ Outcome(l, n) = "free"
        /\ led' = [led EXCEPT ![r] = l]
        /\ free' = [free EXCEPT ![r][n] = @ + 1]
        /\ Expose(l, n)
        /\ UNCHANGED <<now, period, slotted, pub, cm, total>>

(* Admit inside a boundary region: the request takes a token and the slots *)
(* of every ceiling that governs it.                                       *)
AdmitSlot(r, n) ==
    LET l == LedgerFor(led[r])
        keys == Governed(l, n)
        token == l.nextToken + 1
        raised == \E k \in keys : EffectiveMargin(l, k) > Margin * Ceiling(k)
    IN  /\ nCalls < MaxCalls /\ nCalls' = nCalls + 1
        /\ Outcome(l, n) = "slot"
        /\ led' = [led EXCEPT ![r] = [l EXCEPT
                !.nextToken = token,
                !.adm = [k \in Keys |-> IF k \in keys THEN token ELSE @[k]],
                !.marginRaised = @ \/ raised]]
        /\ slotted' = [slotted EXCEPT ![r] = @ \cup
                {[ns |-> n, keys |-> keys, token |-> token, period |-> l.period]}]
        /\ Expose(l, n)
        /\ UNCHANGED <<now, period, free, pub, cm, total>>

(* A request that held no slot ends: Add counts it in the period it ends in. *)
EndFree(r, n, c) ==
    /\ free[r][n] > 0
    /\ free' = [free EXCEPT ![r][n] = @ - 1]
    /\ led' = IF c = 0 THEN led ELSE [led EXCEPT ![r] = Account(LedgerFor(@), n, c)]
    /\ total' = [total EXCEPT ![n] = @ + c]
    /\ UNCHANGED <<now, period, slotted, pub, cm, nCalls, exposure>>

(* Fault: a settle frees the slots it took whoever holds them now. *)
FreedAnyToken(l, h) == [k \in Keys |-> IF k \in h.keys THEN 0 ELSE l.adm[k]]

(* The slots a settle frees: those that still carry its token. *)
Freed(l, h) ==
    IF l.period # h.period THEN l.adm
    ELSE [k \in Keys |-> IF k \in h.keys /\ l.adm[k] = h.token THEN 0 ELSE l.adm[k]]

(* settle: the cost lands and the slots are freed in one critical section. *)
Settle(r, h, c) ==
    LET l == LedgerFor(led[r])
    IN  /\ h \in slotted[r]
        /\ slotted' = [slotted EXCEPT ![r] = @ \ {h}]
        /\ led' = [led EXCEPT ![r] = Account([l EXCEPT !.adm = Freed(l, h)], h.ns, c)]
        /\ total' = [total EXCEPT ![h.ns] = @ + c]
        /\ UNCHANGED <<now, period, free, pub, cm, nCalls, exposure>>

-----------------------------------------------------------------------------
(* The exchange *)

(* publish takes its snapshot.  The clock moves between a settle and a     *)
(* snapshot, so dirtySince is not after the snapshot exactly when it was   *)
(* set by then.  An empty counter publishes nothing.                       *)
PublishStart(r) ==
    /\ pub[r] = NoPublish /\ led[r].own # NoSpend
    /\ pub' = [pub EXCEPT ![r] = [period |-> led[r].period, spend |-> led[r].own,
                                  dirtyThen |-> led[r].dirtySince # Never]]
    /\ UNCHANGED <<now, period, led, free, slotted, cm, nCalls, history>>

(* Fault: the write-path signal outlives the publish. *)
PublishEndStaysDirty(r) ==
    /\ pub[r] # NoPublish
    /\ cm' = [cm EXCEPT ![r] = [period |-> pub[r].period, spend |-> pub[r].spend]]
    /\ pub' = [pub EXCEPT ![r] = NoPublish]
    /\ UNCHANGED <<now, period, led, free, slotted, nCalls, history>>

(* The apply lands and MarkPublished clears the write-path signal. *)
PublishEnd(r) ==
    /\ pub[r] # NoPublish
    /\ cm' = [cm EXCEPT ![r] = [period |-> pub[r].period, spend |-> pub[r].spend]]
    /\ led' = [led EXCEPT ![r].dirtySince = IF pub[r].dirtyThen THEN Never ELSE @]
    /\ pub' = [pub EXCEPT ![r] = NoPublish]
    /\ UNCHANGED <<now, period, free, slotted, nCalls, history>>

(* The apply fails, and the next tick tries again. *)
PublishFail(r) ==
    /\ pub[r] # NoPublish
    /\ pub' = [pub EXCEPT ![r] = NoPublish]
    /\ UNCHANGED <<now, period, led, free, slotted, cm, nCalls, history>>

(* A live list, or a watch event, replaces the peer view and stamps it. *)
Fold(r) ==
    LET peers == [n \in Namespaces |-> SumOver(
                    [q \in Replicas |-> IF q # r /\ cm[q].period = period THEN cm[q].spend[n] ELSE 0],
                    Replicas)]
    IN  /\ led' = [led EXCEPT ![r] = [LedgerFor(@) EXCEPT !.peers = peers, !.lastFoldOK = now]]
        /\ UNCHANGED <<now, period, free, slotted, pub, cm, nCalls, history>>

Tick ==
    /\ now < MaxNow
    /\ now' = now + 1
    /\ UNCHANGED <<period, led, free, slotted, pub, cm, nCalls, history>>

Rollover ==
    /\ period < MaxPeriod
    /\ period' = period + 1
    /\ total' = NoSpend
    /\ UNCHANGED <<now, led, free, slotted, pub, cm, nCalls, exposure>>

Next ==
    \/ \E r \in Replicas :
        \/ \E n \in Namespaces :
            \/ Reject(r, n) \/ AdmitFree(r, n) \/ AdmitSlot(r, n)
            \/ \E c \in Costs : EndFree(r, n, c)
        \/ \E h \in slotted[r], c \in Costs : Settle(r, h, c)
        \/ PublishStart(r) \/ PublishEnd(r) \/ PublishFail(r) \/ Fold(r)
    \/ Tick \/ Rollover

Spec == Init /\ [][Next]_vars

(* Requests end, and the publisher's ticks publish and fold.  An API       *)
(* server that keeps answering lets an apply through in the end.           *)
Fairness ==
    \A r \in Replicas :
        /\ \A n \in Namespaces : WF_vars(\E c \in Costs : EndFree(r, n, c))
        /\ WF_vars(\E h \in slotted[r], c \in Costs : Settle(r, h, c))
        /\ WF_vars(PublishStart(r)) /\ SF_vars(PublishEnd(r))
        /\ WF_vars(Fold(r))

FairSpec == Spec /\ Fairness

-----------------------------------------------------------------------------
(* Properties *)

(* A held slot has exactly the one request in flight that will free it: no *)
(* settle frees another request's slot, none is left behind by a rollover, *)
(* and inside the boundary region a replica runs one request at a time per *)
(* governed ceiling (Admit and settle).                                    *)
SlotHasOwner ==
    \A r \in Replicas :
        /\ \A h \in slotted[r] : h.token <= led[r].nextToken /\ h.period <= led[r].period
        /\ \A h, g \in slotted[r] : h.token = g.token => h = g
        /\ \A k \in Keys :
            /\ led[r].adm[k] # 0 => \E h \in slotted[r] :
                h.token = led[r].adm[k] /\ k \in h.keys /\ h.period = led[r].period
            /\ \A h \in slotted[r] :
                k \in h.keys /\ h.period = led[r].period => led[r].adm[k] = h.token

(* Spend passes a block threshold by no more than what was unseen or in    *)
(* flight when the last request was admitted against that ceiling.         *)
HardCap ==
    \A k \in Keys : Ceiling(k) > 0 =>
        100 * (IF k = ClusterSlot THEN SumOver(total, Namespaces) ELSE total[k])
            < MinBlockAt * Ceiling(k) + 100 * exposure[k]

(* A replica that refuses a request because it cannot verify budget state  *)
(* recovers once publishes and folds succeed.                              *)
Recovers ==
    \A r \in Replicas, n \in Namespaces :
        Outcome(LedgerFor(led[r]), n) = "unavailable"
            ~> Outcome(LedgerFor(led[r]), n) # "unavailable"

=============================================================================
