----------------------------- MODULE DriftSlots -----------------------------
(***************************************************************************)
(* The slots that bound how many Agents of a class replace their Pod for a *)
(* spec drift at once.  Workers reconcile different Agents concurrently;   *)
(* each lists the class's Agents from a cache that lags, then decides      *)
(* under the lock from that list and the in-memory reservations, and       *)
(* stores Replacing before it deletes the Pod.                             *)
(***************************************************************************)
EXTENDS Naturals, FiniteSets, FiniteSetsExt

CONSTANTS ClassAgents,   \* the Agents of the class, all drifted at the start
          Percent,       \* lifecycle.maxUnavailableOnDrift
          ReserveTTL,    \* driftReservationTTL, in ticks
          SlotTroubles   \* failed writes and restarts in one behaviour

ASSUME SlotBounds == Percent \in 0..100 /\ ReserveTTL \in Nat \ {0} /\ SlotTroubles \in Nat

VARIABLES upToDate,   \* the PodUpToDate reason stored for each Agent
          idling,     \* the Agents in phase Idle
          inCache,    \* the reason the cache shows
          reserved,   \* age of each reservation; ReserveTTL + 1 is none
          worker,     \* the pass of each Agent
          raced,      \* a grant used a list older than a released reservation
          left1

dsvars == <<upToDate, idling, inCache, reserved, worker, raced, left1>>

NoReserve == ReserveTTL + 1
RestingWorker == [pc |-> "rest", list |-> [a \in ClassAgents |-> "drifted"], released |-> {}, fresh |-> TRUE]
DSInit == /\ upToDate = [a \in ClassAgents |-> "drifted"] /\ inCache = upToDate
          /\ idling \in {{}, {CHOOSE a \in ClassAgents : TRUE}}
          /\ reserved = [a \in ClassAgents |-> NoReserve]
          /\ worker = [a \in ClassAgents |-> RestingWorker] /\ raced = FALSE /\ left1 = SlotTroubles

\* A percentage rounds up and is never below one.
maxUnavailableOnDrift(total) == Max({1, (Percent * total + 99) \div 100})

pruned0 == [a \in ClassAgents |-> IF reserved[a] >= ReserveTTL THEN NoReserve ELSE reserved[a]]
\* Fault: an Agent the cache does not show as Replacing holds no slot.
inUseCached(list, held, self) == {b \in ClassAgents \ {self} : list[b] = "replacing"}
inUse(list, held, self) == {b \in ClassAgents \ {self} : list[b] = "replacing" \/ held[b] < NoReserve}
idleWaiting(list, self) == \E b \in ClassAgents \ {self} : list[b] = "pending" /\ b \in idling

\* A pass for a drifted Agent.  One that already holds a slot keeps it; any
\* other lists the class, before it takes the lock.
Starts0(a) ==
    /\ worker[a].pc = "rest" /\ inCache[a] # "ok" /\ <<inCache[a], upToDate[a]>> # <<"replacing", "replacing">>
    /\ worker' = [worker EXCEPT ![a] =
                     IF inCache[a] = "replacing" THEN [RestingWorker EXCEPT !.pc = "write", !.fresh = FALSE]
                     ELSE [RestingWorker EXCEPT !.pc = "decide", !.list = inCache, !.fresh = inCache[a] = upToDate[a]]]
    /\ UNCHANGED <<upToDate, idling, inCache, reserved, raced, left1>>
\* acquire, under the lock.
acquire(a) ==
    LET w == worker[a]
        shown == {b \in ClassAgents \ {a} : w.list[b] = "replacing"}
        held == [b \in ClassAgents |-> IF b \in shown THEN NoReserve ELSE pruned0[b]]
        granted == /\ Cardinality(inUse(w.list, held, a)) < maxUnavailableOnDrift(Cardinality(ClassAgents))
                   /\ idleWaiting(w.list, a) => a \in idling
        freed == {b \in shown : reserved[b] < NoReserve}
    IN  /\ w.pc = "decide"
        /\ reserved' = [held EXCEPT ![a] = IF granted THEN 0 ELSE @]
        /\ worker' = [b \in ClassAgents |->
                         IF b = a THEN [RestingWorker EXCEPT !.pc = IF granted THEN "write" ELSE "refused", !.fresh = w.fresh]
                         ELSE [worker[b] EXCEPT !.released = @ \cup IF worker[b].pc = "decide" THEN freed ELSE {}]]
        /\ raced' = (raced \/ (granted /\ w.released # {}))
        /\ UNCHANGED <<upToDate, idling, inCache, left1>>
\* Replacing is stored before the Pod is deleted; a refusal stores its reason.
Stores(a) ==
    /\ worker[a].pc \in {"write", "refused"}
    /\ \/ /\ worker[a].fresh /\ UNCHANGED left1
          /\ upToDate' = [upToDate EXCEPT ![a] = IF worker[a].pc = "write" THEN "replacing" ELSE "pending"]
          /\ worker' = [worker EXCEPT ![a] = RestingWorker]
       \/ /\ ~worker[a].fresh /\ worker' = [worker EXCEPT ![a] = RestingWorker] /\ UNCHANGED <<upToDate, left1>>
       \/ /\ left1 > 0 /\ left1' = left1 - 1 /\ worker' = [worker EXCEPT ![a] = RestingWorker] /\ UNCHANGED upToDate
    /\ UNCHANGED <<idling, inCache, reserved, raced>>
\* The replacement is Ready, and a pass stores that the Pod is up to date.
Replaced(a) == /\ upToDate[a] = "replacing" /\ worker[a].pc = "rest" /\ inCache[a] = "replacing"
               /\ upToDate' = [upToDate EXCEPT ![a] = "ok"]
               /\ UNCHANGED <<idling, inCache, reserved, worker, raced, left1>>
CacheShows(a) == /\ inCache[a] # upToDate[a] /\ inCache' = [inCache EXCEPT ![a] = upToDate[a]]
                 /\ UNCHANGED <<upToDate, idling, reserved, worker, raced, left1>>
\* Time passes.  A granted pass stores its reason, and the cache shows it,
\* and the lists in use, within ReserveTTL: the reservation covers cache lag,
\* not a longer stall.
SlotTick ==
    /\ \E a \in ClassAgents : reserved[a] < ReserveTTL
    /\ \A a \in ClassAgents : reserved[a] = ReserveTTL - 1 => 
           /\ worker[a].pc # "write" /\ inCache[a] = upToDate[a]
           /\ \A b \in ClassAgents : worker[b].pc = "decide" => worker[b].list[a] = inCache[a]
    /\ reserved' = [a \in ClassAgents |-> IF reserved[a] < ReserveTTL THEN reserved[a] + 1 ELSE reserved[a]]
    /\ UNCHANGED <<upToDate, idling, inCache, worker, raced, left1>>
SlotRestart == /\ left1 > 0 /\ left1' = left1 - 1
               /\ worker' = [a \in ClassAgents |-> RestingWorker] /\ inCache' = upToDate
               /\ reserved' = [a \in ClassAgents |-> NoReserve] /\ UNCHANGED <<upToDate, idling, raced>>
SlotPass(a) == Starts0(a) \/ acquire(a) \/ Stores(a)
DSNext == \/ \E a \in ClassAgents : SlotPass(a) \/ Replaced(a) \/ CacheShows(a)
          \/ SlotTick \/ SlotRestart

(***************************************************************************)
(* What the slots promise.                                                 *)
(***************************************************************************)
\* No more Agents are in a replacement than the class allows, although the
\* workers read caches that do not show each other's grants.  Left out: a
\* grant decided on a list from before another worker saw a replacement in the
\* cache and gave its reservation back.
DriftCapHolds == ~raced =>
    Cardinality({a \in ClassAgents : upToDate[a] = "replacing"}) <= maxUnavailableOnDrift(Cardinality(ClassAgents))

\* A rollout never stops with Agents left: once the reservations have run out,
\* no replacement is under way and the cache is current, the next pass of some
\* drifted Agent is granted (failed writes, restarts and idle Agents first
\* included).
RolloutGoesOn ==
    LET left == {a \in ClassAgents : upToDate[a] \in {"drifted", "pending"}} IN
    left # {} /\ inCache = upToDate /\ (\A a \in ClassAgents : reserved[a] >= ReserveTTL /\ upToDate[a] # "replacing") =>
        \E a \in left : /\ Cardinality(inUse(inCache, pruned0, a)) < maxUnavailableOnDrift(Cardinality(ClassAgents))
                        /\ idleWaiting(inCache, a) => a \in idling

\* The limit holds, and does not stop the rollout (acquire).
DriftSound == DriftCapHolds /\ RolloutGoesOn
=============================================================================
