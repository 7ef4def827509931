--------------------------- MODULE BudgetExchange ---------------------------
(***************************************************************************)
(* The budget counter exchange of one ModelProvider and one namespace.     *)
(*                                                                         *)
(* Every gateway replica (a Pod) counts the cost of the calls it serves in *)
(* an in-memory ledger, publishes that counter under its own key of the    *)
(* ConfigMap kaalm-budget-{provider}, and folds the keys of its peers into *)
(* the view it enforces the budget against.  The ModelProvider reconciler  *)
(* reduces the same ConfigMap: it moves the key of a Pod that no longer    *)
(* exists into _retired, the keys of an old period into _previous, and     *)
(* deletes what was written for an earlier provider of the same name.      *)
(*                                                                         *)
(* Ledger amounts are in mills (tenths of a cent); what is written to the  *)
(* ConfigMap is rounded to the cent, as the code's two-decimal text is.    *)
(* Every sum the code keeps over several replicas (the peer view,          *)
(* _retired, _canonical, the archived _retired) is kept here split by the  *)
(* replica each part came from: the code only ever adds to such a sum, and *)
(* the split says whose spend it holds.                                    *)
(* Reads and writes that cross the network are two steps, so everything    *)
(* else may happen between them.                                           *)
(***************************************************************************)
EXTENDS Integers, FiniteSets

CONSTANTS
    Pods,           \* the names gateway Pods can have
    Costs,          \* what one call can cost, in mills
    MaxPeriod,      \* budget periods run from 1 to MaxPeriod
    MaxUid,         \* incarnations of the provider's name, 1 to MaxUid
    MaxTurns,       \* bound: rollovers and recreations together
    MaxCalls,       \* bound: calls served over a behaviour
    MaxCrashes,     \* bound: replica processes that die without draining
    MaxEnds,        \* bound: Pods that have ended or are ending
    MaxFolds,       \* bound: folds one replica has in flight (tick and watch)
    Policies,       \* does the provider have budget policies?
    InPlaceRestart  \* does a crashed container come back under its Pod name?

ASSUME CostsAssumption == Costs \subseteq Nat \ {0}
ASSUME BoundsAssumption ==
    /\ MaxPeriod \in Nat \ {0}
    /\ MaxUid \in Nat \ {0}
    /\ MaxTurns \in Nat
    /\ MaxCalls \in Nat
    /\ MaxCrashes \in Nat
    /\ MaxEnds \in Nat
    /\ MaxFolds \in Nat \ {0}
ASSUME SwitchesAssumption == Policies \in BOOLEAN /\ InPlaceRestart \in BOOLEAN

VARIABLES
    period,      \* the period the clock is in
    uid,         \* the incarnation that holds the provider's name
    pod,         \* where each Pod is in its life
    seen,        \* the incarnation in each replica's provider cache
    calls,       \* the incarnations each replica has a call in flight for
    led,         \* each replica's stored providerLedger
    superseded,  \* each replica's set of superseded incarnations
    pub,         \* the partial each replica is applying
    fold,        \* the ConfigMap reads each replica has not yet applied
    cm,          \* the budget ConfigMap
    red,         \* the reducer's pass
    status,      \* ModelProvider status: the current period's spend
    nCalls,      \* calls served so far
    nCrashes,    \* crashes so far
    wrote,       \* history: the last figure stored, by incarnation, period, Pod
    paid         \* history: what calls of each incarnation cost, by Pod

replica == <<pod, seen, calls, led, superseded, pub, fold>>
history == <<wrote, paid>>
vars == <<period, uid, replica, cm, red, status, nCalls, nCrashes, history>>

Periods == 1..MaxPeriod
Uids == 1..MaxUid
Zero == [q \in Pods |-> 0]
None == [uid |-> 0, period |-> 0, amt |-> 0]    \* no value under a replica's key
NoRetired == [uid |-> 0, period |-> 0, amt |-> Zero]
NoCanonical == [has |-> FALSE, amt |-> Zero]
NoArchive == [uid |-> 0, period |-> 0, archivedIn |-> 0, src |-> Zero, ret |-> Zero]
NoConfigMap == [key |-> [r \in Pods |-> None], retired |-> NoRetired,
                canonical |-> NoCanonical, previous |-> NoArchive]
NoLedger == [uid |-> 0, period |-> 0, own |-> 0, peers |-> Zero, seeded |-> FALSE]
IdlePass == [pc |-> "idle", live |-> {}, period |-> 0, cm |-> NoConfigMap]

(* The two-decimal text a counter is published as. *)
Cents(mills) == (mills + 5) \div 10

Alive(r) == pod[r] \in {"running", "stopping"}

-----------------------------------------------------------------------------
(* The ledger of one replica *)

Fresh(u, p) == [uid |-> u, period |-> p, own |-> 0, peers |-> Zero, seeded |-> FALSE]

(* Fault: a recreated provider's ledger is found by name and period only. *)
LedgerForIgnoresUid(l, u, p) ==
    IF l.period = p THEN [l EXCEPT !.uid = u] ELSE Fresh(u, p)

(* ledgerFor: a new incarnation and a new period both start from zero. *)
LedgerFor(l, u, p) == IF l.uid = u /\ l.period = p THEN l ELSE Fresh(u, p)

(* A call that carries a superseded incarnation works on a detached ledger *)
(* that is never stored; any other one stores what it made of the ledger,  *)
(* and an incarnation it replaces becomes superseded.                      *)
Store(r, u, l) ==
    IF u \in superseded[r]
    THEN UNCHANGED <<led, superseded>>
    ELSE /\ led' = [led EXCEPT ![r] = l]
         /\ superseded' = [superseded EXCEPT ![r] = @ \cup ({led[r].uid} \ {0, u})]

(* Add, and settle's accounting half. *)
Add(r, u, c) ==
    LET l == LedgerFor(led[r], u, period)
    IN  Store(r, u, [l EXCEPT !.own = @ + c])

(* Fault: the period of the keys is not compared when they are folded. *)
FoldPeersAnyPeriod(r, u, p, view) ==
    LET l == LedgerFor(led[r], u, period)
    IN  Store(r, u, [l EXCEPT !.peers = view, !.seeded = FALSE])

(* FoldPeers replaces the peer view.  FoldPartials skips every key that is *)
(* not of the current period, so a read from before a rollover folds none. *)
FoldPeers(r, u, p, view) ==
    LET l == LedgerFor(led[r], u, period)
    IN  Store(r, u, [l EXCEPT !.peers = IF p = period THEN view ELSE Zero, !.seeded = FALSE])

IsCurrent(e, u, p) == e.uid = u /\ e.period = p

(* What a ConfigMap holds of replica q's spend for incarnation u and       *)
(* period p: under its key, and in _retired.                               *)
KeyAmt(c, q, u, p) == IF IsCurrent(c.key[q], u, p) THEN c.key[q].amt ELSE 0
RetiredAmt(c, q, u, p) == IF IsCurrent(c.retired, u, p) THEN c.retired.amt[q] ELSE 0

(* FoldPartials: every current key but the replica's own, and _retired. *)
FoldPartials(c, r, u, p) ==
    [q \in Pods |-> (IF q = r THEN 0 ELSE KeyAmt(c, q, u, p)) + RetiredAmt(c, q, u, p)]

(* OwnPartial of the bound ledger, in the form it is written. *)
HasPartial(r) == led[r].uid = seen[r] /\ led[r].own > 0
OwnPartial(r) == [uid |-> led[r].uid, period |-> led[r].period, amt |-> Cents(led[r].own)]

-----------------------------------------------------------------------------
(* Init: no Pod has started and nothing was spent. *)

Init ==
    /\ period = 1
    /\ uid = 1
    /\ pod = [r \in Pods |-> "unborn"]
    /\ seen = [r \in Pods |-> 0]
    /\ calls = [r \in Pods |-> {}]
    /\ led = [r \in Pods |-> NoLedger]
    /\ superseded = [r \in Pods |-> {}]
    /\ pub = [r \in Pods |-> None]
    /\ fold = [r \in Pods |-> {}]
    /\ cm = NoConfigMap
    /\ red = IdlePass
    /\ status = Zero
    /\ nCalls = 0
    /\ nCrashes = 0
    /\ wrote = [u \in Uids |-> [p \in Periods |-> [r \in Pods |-> 0]]]
    /\ paid = [r \in Pods |-> [u \in Uids |-> 0]]

-----------------------------------------------------------------------------
(* The life of a replica *)

(* A process starts: it seeds its peer view from _canonical, which has no  *)
(* period tag, before the publisher and the watch run.  The key is missing *)
(* until the reducer has written it.                                       *)
Start(r) ==
    /\ \/ pod[r] = "unborn"
       \/ pod[r] = "crashed" /\ InPlaceRestart /\ pub[r] = None
    /\ pod' = [pod EXCEPT ![r] = "running"]
    /\ seen' = [seen EXCEPT ![r] = uid]
    /\ led' = [led EXCEPT ![r] = IF ~cm.canonical.has THEN NoLedger
                ELSE [uid |-> uid, period |-> period, own |-> 0, peers |-> cm.canonical.amt,
                      seeded |-> TRUE]]
    /\ UNCHANGED <<period, uid, calls, superseded, pub, fold, cm, red, status,
                   nCalls, nCrashes, history>>

(* The provider cache of a replica catches up with the API server. *)
SeeProvider(r) ==
    /\ Alive(r) /\ seen[r] # uid
    /\ seen' = [seen EXCEPT ![r] = uid]
    /\ UNCHANGED <<period, uid, pod, calls, led, superseded, pub, fold, cm, red,
                   status, nCalls, nCrashes, history>>

(* A request is admitted.  Enforce reads the ledger, and so binds it, only *)
(* when the provider has policies.                                         *)
CallStart(r) ==
    /\ pod[r] = "running" /\ nCalls < MaxCalls /\ seen[r] \notin calls[r]
    /\ nCalls' = nCalls + 1
    /\ calls' = [calls EXCEPT ![r] = @ \cup {seen[r]}]
    /\ IF Policies THEN Store(r, seen[r], LedgerFor(led[r], seen[r], period))
                   ELSE UNCHANGED <<led, superseded>>
    /\ UNCHANGED <<period, uid, pod, seen, pub, fold, cm, red, status, nCrashes, history>>

(* Its upstream call completes and its cost lands on the counter. *)
CallEnd(r, u, c) ==
    /\ Alive(r) /\ u \in calls[r]
    /\ calls' = [calls EXCEPT ![r] = @ \ {u}]
    /\ Add(r, u, c)
    /\ paid' = [paid EXCEPT ![r][u] = @ + c]
    /\ UNCHANGED <<period, uid, pod, seen, pub, fold, cm, red, status, nCalls,
                   nCrashes, wrote>>

(* Fault: a key of the period counts as stored whatever its amount. *)
AlreadyStoredTag(r) == cm.key[r].uid = led[r].uid /\ cm.key[r].period = led[r].period

AlreadyStored(r) == cm.key[r] = OwnPartial(r)

(* The publisher snapshots the counter (a tick, or a settle's kick).  A    *)
(* partial that is already stored needs no write.                          *)
PublishStart(r) ==
    /\ Alive(r) /\ pub[r] = None /\ HasPartial(r) /\ ~AlreadyStored(r)
    /\ pub' = [pub EXCEPT ![r] = OwnPartial(r)]
    /\ UNCHANGED <<period, uid, pod, seen, calls, led, superseded, fold, cm, red,
                   status, nCalls, nCrashes, history>>

(* A Pod is in the Pod list of the pass that reads its key. *)
PodListed(r) == red.pc = "listed" => r \in red.live

(* The server-side apply lands.  Only this replica writes this key, so the *)
(* apply never conflicts.                                                  *)
PublishEnd(r) ==
    /\ pub[r] # None /\ PodListed(r)
    /\ cm' = [cm EXCEPT !.key[r] = pub[r]]
    /\ wrote' = [wrote EXCEPT ![pub[r].uid][pub[r].period][r] = pub[r].amt]
    /\ pub' = [pub EXCEPT ![r] = None]
    /\ UNCHANGED <<period, uid, pod, seen, calls, led, superseded, fold, red, status,
                   nCalls, nCrashes, paid>>

(* The apply fails; the counter keeps the spend for the next tick. *)
PublishFail(r) ==
    /\ pub[r] # None
    /\ pub' = [pub EXCEPT ![r] = None]
    /\ UNCHANGED <<period, uid, pod, seen, calls, led, superseded, fold, cm, red,
                   status, nCalls, nCrashes, history>>

(* The tick's list, a live GET, or a watch event gives the replica the     *)
(* ConfigMap as it is now.                                                 *)
FoldStart(r) ==
    LET f == [uid |-> seen[r], period |-> period,
              view |-> FoldPartials(cm, r, seen[r], period)]
    IN  /\ Alive(r) /\ f \notin fold[r] /\ Cardinality(fold[r]) < MaxFolds
        /\ fold' = [fold EXCEPT ![r] = @ \cup {f}]
        /\ UNCHANGED <<period, uid, pod, seen, calls, led, superseded, pub, cm, red,
                       status, nCalls, nCrashes, history>>

(* ... and it replaces the peer view with it. *)
FoldEnd(r, f) ==
    /\ Alive(r) /\ f \in fold[r]
    /\ fold' = [fold EXCEPT ![r] = @ \ {f}]
    /\ FoldPeers(r, f.uid, f.period, f.view)
    /\ UNCHANGED <<period, uid, pod, seen, calls, pub, cm, red, status, nCalls,
                   nCrashes, history>>

MoreEnds(r) ==
    Cardinality({q \in Pods \ {r} : pod[q] \notin {"unborn", "running"}}) < MaxEnds

(* The Pod is deleted: the replica drains and takes no new request. *)
Stop(r) ==
    /\ pod[r] = "running" /\ MoreEnds(r)
    /\ pod' = [pod EXCEPT ![r] = "stopping"]
    /\ UNCHANGED <<period, uid, seen, calls, led, superseded, pub, fold, cm, red,
                   status, nCalls, nCrashes, history>>

(* Drained, the publisher publishes once more, whatever is stored. *)
FinalPublish(r) ==
    /\ pod[r] = "stopping" /\ calls[r] = {} /\ pub[r] = None
    /\ pod' = [pod EXCEPT ![r] = "exiting"]
    /\ pub' = [pub EXCEPT ![r] = IF HasPartial(r) THEN OwnPartial(r) ELSE None]
    /\ UNCHANGED <<period, uid, seen, calls, led, superseded, fold, cm, red, status,
                   nCalls, nCrashes, history>>

(* What a process leaves behind when it ends: a publish still in flight. *)
Forget(r) ==
    /\ led' = [led EXCEPT ![r] = NoLedger]
    /\ superseded' = [superseded EXCEPT ![r] = {}]
    /\ calls' = [calls EXCEPT ![r] = {}]
    /\ fold' = [fold EXCEPT ![r] = {}]
    /\ seen' = [seen EXCEPT ![r] = 0]

(* The process exits after its last publish landed or failed. *)
Exit(r) ==
    /\ pod[r] = "exiting" /\ pub[r] = None
    /\ pod' = [pod EXCEPT ![r] = "exited"]
    /\ Forget(r)
    /\ UNCHANGED <<period, uid, pub, cm, red, status, nCalls, nCrashes, history>>

(* The process is killed: no drain, no final publish. *)
Crash(r) ==
    /\ pod[r] \in {"running", "stopping", "exiting"} /\ MoreEnds(r)
    /\ nCrashes < MaxCrashes
    /\ nCrashes' = nCrashes + 1
    /\ pod' = [pod EXCEPT ![r] = IF pod[r] = "running" THEN "crashed" ELSE "exited"]
    /\ Forget(r)
    /\ UNCHANGED <<period, uid, pub, cm, red, status, nCalls, history>>

(* The Pod object goes once its process has ended. *)
PodGone(r) ==
    /\ pod[r] \in {"exited", "crashed"} /\ pub[r] = None
    /\ pod' = [pod EXCEPT ![r] = "gone"]
    /\ UNCHANGED <<period, uid, seen, calls, led, superseded, pub, fold, cm, red,
                   status, nCalls, nCrashes, history>>

-----------------------------------------------------------------------------
(* The reducer: reconcileBudget on a Pod list taken before the ConfigMap   *)
(* is read.  The Update carries the resourceVersion of the read, so it is  *)
(* refused when anything was written in between.                           *)

LivePods == {r \in Pods : pod[r] \notin {"unborn", "gone"}}

(* Fault: a dead Pod's key is retired whatever period it is of. *)
DeadKeysAnyPeriod(c, live, u, p) == {q \in Pods : c.key[q].uid = u /\ q \notin live}

(* The keys of a pass, by what foldBudgetKeys does with them. *)
DeadKeys(c, live, u, p) == {q \in Pods : IsCurrent(c.key[q], u, p) /\ q \notin live}
StaleKeys(c, u, p) == {q \in Pods : c.key[q].uid = u /\ c.key[q].period # p}
StaleRetired(c, u, p) == c.retired.uid = u /\ c.retired.period # p
StalePeriods(c, u, p) ==
    {c.key[q].period : q \in StaleKeys(c, u, p)}
        \cup (IF StaleRetired(c, u, p) THEN {c.retired.period} ELSE {})

Larger(m, n) == IF m >= n THEN m ELSE n

(* mergeBudgetArchive over the stale keys: the newest old period is kept,  *)
(* and of a source that appears again the larger figure.                   *)
Archived(c, u, p) ==
    LET stored == c.previous
        kept == IF stored.archivedIn = p /\ stored.uid = u THEN stored ELSE NoArchive
        newest == CHOOSE n \in StalePeriods(c, u, p) \cup {kept.period} :
                    \A m \in StalePeriods(c, u, p) \cup {kept.period} : m <= n
        base == IF newest > kept.period
                THEN [uid |-> u, period |-> newest, archivedIn |-> p, src |-> Zero, ret |-> Zero]
                ELSE kept
    IN  [base EXCEPT
            !.src = [q \in Pods |-> Larger(base.src[q],
                IF q \in StaleKeys(c, u, p) THEN KeyAmt(c, q, u, base.period) ELSE 0)],
            !.ret = [q \in Pods |-> Larger(base.ret[q],
                IF StaleRetired(c, u, p) THEN RetiredAmt(c, q, u, base.period) ELSE 0)]]

(* foldBudgetKeys and the writes of reconcileBudget: stale and dead keys   *)
(* and those of another incarnation go, a dead one's spend into _retired.  *)
(* A ConfigMap that does not exist is not created.                         *)
Reduced(c, live, u, p) ==
    LET dead == DeadKeys(c, live, u, p)
    IN  IF c = NoConfigMap THEN c ELSE
        [key |-> [q \in Pods |-> IF IsCurrent(c.key[q], u, p) /\ q \in live
                                 THEN c.key[q] ELSE None],
         retired |-> IF dead # {} \/ IsCurrent(c.retired, u, p)
                     THEN [uid |-> u, period |-> p, amt |-> [q \in Pods |->
                            RetiredAmt(c, q, u, p) + IF q \in dead THEN c.key[q].amt ELSE 0]]
                     ELSE NoRetired,
         canonical |-> [has |-> TRUE, amt |-> [q \in Pods |->
                            KeyAmt(c, q, u, p) + RetiredAmt(c, q, u, p)]],
         previous |-> Archived(c, u, p)]

(* gatewayPods: the Pods that exist, draining ones included. *)
ReduceList ==
    /\ red.pc = "idle"
    /\ red' = [pc |-> "listed", live |-> LivePods, period |-> 0, cm |-> NoConfigMap]
    /\ UNCHANGED <<period, uid, replica, cm, status, nCalls, nCrashes, history>>

ReduceRead ==
    /\ red.pc = "listed"
    /\ red' = [pc |-> "read", live |-> red.live, period |-> period, cm |-> cm]
    /\ UNCHANGED <<period, uid, replica, cm, status, nCalls, nCrashes, history>>

(* Nothing to change, or the Update is accepted. *)
ReduceWrite ==
    LET new == Reduced(red.cm, red.live, uid, red.period)
    IN  /\ red.pc = "read"
        /\ new = red.cm \/ cm = red.cm
        /\ cm' = IF new = red.cm THEN cm ELSE new
        /\ status' = new.canonical.amt
        /\ red' = IdlePass
        /\ UNCHANGED <<period, uid, replica, nCalls, nCrashes, history>>

(* The Update is refused with a conflict and the pass is retried. *)
ReduceConflict ==
    /\ red.pc = "read" /\ cm # red.cm
    /\ Reduced(red.cm, red.live, uid, red.period) # red.cm
    /\ red' = IdlePass
    /\ UNCHANGED <<period, uid, replica, cm, status, nCalls, nCrashes, history>>

-----------------------------------------------------------------------------
(* The world *)

MoreTurns == (period - 1) + (uid - 1) < MaxTurns

Rollover ==
    /\ period < MaxPeriod /\ MoreTurns
    /\ period' = period + 1
    /\ UNCHANGED <<uid, replica, cm, red, status, nCalls, nCrashes, history>>

(* The provider is deleted, its ConfigMap with it, and created again under *)
(* its name.  Passes of one object never overlap, so none is running.      *)
Recreate ==
    /\ uid < MaxUid /\ MoreTurns /\ red.pc = "idle"
    /\ uid' = uid + 1
    /\ cm' = NoConfigMap
    /\ status' = Zero
    /\ UNCHANGED <<period, replica, red, nCalls, nCrashes, history>>

Next ==
    \/ \E r \in Pods :
        \/ Start(r) \/ SeeProvider(r) \/ CallStart(r)
        \/ \E u \in calls[r], c \in Costs : CallEnd(r, u, c)
        \/ PublishStart(r) \/ PublishEnd(r) \/ PublishFail(r)
        \/ FoldStart(r)
        \/ \E f \in fold[r] : FoldEnd(r, f)
        \/ Stop(r) \/ FinalPublish(r) \/ Exit(r) \/ Crash(r) \/ PodGone(r)
    \/ ReduceList \/ ReduceRead \/ ReduceWrite \/ ReduceConflict
    \/ Rollover \/ Recreate

Spec == Init /\ [][Next]_vars

(* What the program keeps doing: the publisher ticks, folds and passes are *)
(* retried.  Calls need not end, nor Pods go.  An API server that keeps    *)
(* answering lets an apply through in the end.                             *)
Fairness ==
    /\ \A r \in Pods :
        /\ WF_vars(SeeProvider(r))
        /\ WF_vars(PublishStart(r)) /\ SF_vars(PublishEnd(r))
        /\ WF_vars(FoldStart(r))
        /\ WF_vars(\E f \in fold[r] : FoldEnd(r, f))
    /\ WF_vars(ReduceList) /\ WF_vars(ReduceRead) /\ WF_vars(ReduceWrite \/ ReduceConflict)

FairSpec == Spec /\ Fairness

-----------------------------------------------------------------------------
(* Properties *)

Vector == [Pods -> Nat]
LedgerType == [uid : 0..MaxUid, period : 0..MaxPeriod, own : Nat, peers : Vector,
               seeded : BOOLEAN]
FoldType == [uid : Uids, period : Periods, view : Vector]
KeyType == [uid : 0..MaxUid, period : 0..MaxPeriod, amt : Nat]
ArchiveType == [uid : 0..MaxUid, period : 0..MaxPeriod, archivedIn : 0..MaxPeriod,
                src : Vector, ret : Vector]
ConfigMapType ==
    [key : [Pods -> KeyType],
     retired : [uid : 0..MaxUid, period : 0..MaxPeriod, amt : Vector],
     canonical : [has : BOOLEAN, amt : Vector],
     previous : ArchiveType]

PassType == [pc : {"idle", "listed", "read"}, live : SUBSET Pods,
             period : 0..MaxPeriod, cm : ConfigMapType]

(* Every variable keeps its type: ledgers, keys and reads in flight are    *)
(* tagged with incarnations and periods that have existed, and amounts are *)
(* never negative.                                                         *)
TypeOK ==
    /\ period \in Periods /\ uid \in Uids
    /\ pod \in [Pods -> {"unborn", "running", "stopping", "exiting", "exited", "crashed", "gone"}]
    /\ seen \in [Pods -> 0..MaxUid]
    /\ calls \in [Pods -> SUBSET Uids]
    /\ led \in [Pods -> LedgerType]
    /\ superseded \in [Pods -> SUBSET Uids]
    /\ pub \in [Pods -> KeyType]
    /\ fold \in [Pods -> SUBSET FoldType]
    /\ cm \in ConfigMapType
    /\ red \in PassType
    /\ status \in Vector /\ nCalls \in Nat /\ nCrashes \in Nat
    /\ wrote \in [Uids -> [Periods -> [Pods -> Nat]]]
    /\ paid \in [Pods -> [Uids -> Nat]]

(* What a Pod published for the current incarnation and period is counted  *)
(* exactly once and in full, under its own key or in _retired: through     *)
(* crashes, drains, rollovers, recreations and refused Updates, the        *)
(* reducer neither drops nor doubles an amount (foldBudgetKeys).           *)
CountedOnce ==
    \A r \in Pods :
        KeyAmt(cm, r, uid, period) + RetiredAmt(cm, r, uid, period) = wrote[uid][period][r]

(* The strengthening that makes CountedOnce inductive, in four parts.      *)
(* Tags only move forward: what a replica has in its ledger, in flight or  *)
(* under its key is of an incarnation and a period that have begun, and    *)
(* what it publishes next is never older than what it published before.    *)
Running(r) == pod[r] \in {"running", "stopping", "exiting"}
TagsForward ==
    \A r \in Pods :
        /\ seen[r] <= uid /\ calls[r] \subseteq 1..uid
        /\ led[r].uid <= uid /\ led[r].period <= period
        /\ led[r].uid # 0 => led[r].period # 0
        /\ \A f \in fold[r] : f.uid <= uid
        /\ cm.key[r].uid <= uid /\ cm.key[r].period <= period
        /\ cm.key[r].uid = 0 => cm.key[r].period = 0
        /\ pub[r].uid <= uid /\ pub[r].period <= period
        /\ pub[r] # None => pub[r].uid # 0 /\ pub[r].period # 0
        /\ Running(r) => seen[r] # 0 /\ cm.key[r].uid <= seen[r] /\ pub[r].uid <= seen[r]
        /\ led[r].uid = cm.key[r].uid => cm.key[r].period <= led[r].period
        /\ led[r].uid = pub[r].uid => pub[r].period <= led[r].period
        /\ pub[r] # None => \/ cm.key[r].uid < pub[r].uid
                            \/ cm.key[r].uid = pub[r].uid /\ cm.key[r].period <= pub[r].period

(* A Pod that has not started has no key, one that is gone writes no more. *)
PodLife ==
    \A r \in Pods :
        /\ pod[r] = "unborn" => cm.key[r].uid = 0 /\ pub[r] = None
        /\ pod[r] = "gone" => pub[r] = None
        /\ ~Running(r) => led[r] = NoLedger

(* Every figure stands where it was written, or in _retired once its Pod   *)
(* is gone.                                                                *)
FiguresStand ==
    /\ cm.retired.uid <= uid /\ cm.retired.period <= period
    /\ cm.retired.uid # 0 => cm.retired.period # 0
    /\ \A r \in Pods :
        /\ cm.key[r].uid # 0 =>
            /\ cm.key[r].period # 0
            /\ cm.key[r].amt = wrote[cm.key[r].uid][cm.key[r].period][r]
        /\ cm.retired.uid # 0 /\ cm.retired.amt[r] # 0 =>
            /\ pod[r] = "gone"
            /\ cm.retired.amt[r] = wrote[cm.retired.uid][cm.retired.period][r]
            /\ ~IsCurrent(cm.key[r], cm.retired.uid, cm.retired.period)
        /\ \A u \in Uids, p \in Periods : wrote[u][p][r] # 0 => u <= uid /\ p <= period
        /\ wrote[uid][period][r] # 0 =>
            \/ IsCurrent(cm.key[r], uid, period)
            \/ IsCurrent(cm.retired, uid, period) /\ cm.retired.amt[r] # 0

(* A pass prunes only keys of Pods that are gone, and knows no later period. *)
PassSafe ==
    /\ red.pc = "listed" =>
        \A r \in Pods \ red.live : cm.key[r].uid # 0 => pod[r] = "gone"
    /\ red.pc = "read" =>
        /\ red.period # 0 /\ red.period <= period
        /\ red.cm.retired.period <= red.period
        /\ \A r \in Pods :
            /\ red.cm.key[r].period <= red.period
            /\ r \notin red.live /\ red.cm.key[r].uid # 0 => pod[r] = "gone"

CountingInvariant == TypeOK /\ TagsForward /\ PodLife /\ FiguresStand /\ PassSafe

(* _previous never counts spend twice: a late old-period publish of an     *)
(* archived source replaces its figure (mergeBudgetArchive).               *)
ArchiveNotDoubled ==
    LET a == cm.previous
    IN  a.uid = uid /\ a.period # 0 =>
            /\ a.period < period
            /\ \A r \in Pods : a.src[r] + a.ret[r] <= wrote[uid][a.period][r]

(* The peer view a replica enforces against never exceeds what its peers   *)
(* published, however folds from the tick and the watch overtake each      *)
(* other, and never holds its own spend.  Only the startup seed may.       *)
PeersNotOvercounted ==
    \A r, q \in Pods :
        led[r].uid # 0 /\ ~led[r].seeded =>
            led[r].peers[q] <= IF q = r THEN 0 ELSE wrote[led[r].uid][led[r].period][q]

(* A replica's enforcement view covers what stands under its own key: its  *)
(* live counter is at least the figure it published for the period.        *)
OwnKeyCovered ==
    \A r \in Pods :
        Alive(r) /\ led[r].uid # 0 /\ IsCurrent(cm.key[r], led[r].uid, led[r].period)
            => led[r].own + 10 * led[r].peers[r] + 5 >= 10 * cm.key[r].amt

(* The figures that enforcement and status rest on: the archive counts     *)
(* nothing twice, a peer view holds no more than was published, and with   *)
(* the own counter it covers the own key (mergeBudgetArchive, FoldPeers).  *)
FiguresRight == ArchiveNotDoubled /\ PeersNotOvercounted /\ OwnKeyCovered

(* A provider recreated under its name never inherits spend: a counter, a  *)
(* publish and a key tagged with an incarnation hold at most what calls    *)
(* admitted for that incarnation cost.                                     *)
RecreatedStartsClean ==
    \A r \in Pods, u \in Uids :
        /\ led[r].uid = u => led[r].own <= paid[r][u]
        /\ pub[r].uid = u => 10 * pub[r].amt <= paid[r][u] + 5
        /\ cm.key[r].uid = u => 10 * cm.key[r].amt <= paid[r][u] + 5

(* When spending stops, the status ends up showing all that was published, *)
(* and, if no container restarted in place, every running replica enforces *)
(* the same total: its own spend is published, to the cent, and its peer   *)
(* view is what its peers published.                                       *)
Converges ==
    <>[](/\ \A r \in Pods : pod[r] = "running" /\ nCrashes = 0 =>
                /\ led[r].period = period /\ led[r].uid = uid
                /\ wrote[uid][period][r] = Cents(led[r].own)
                /\ led[r].peers = [wrote[uid][period] EXCEPT ![r] = 0]
         /\ status = wrote[uid][period])

=============================================================================
