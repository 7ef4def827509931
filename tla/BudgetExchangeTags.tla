-------------------------- MODULE BudgetExchangeTags --------------------------
(***************************************************************************)
(* Two parts of BudgetExchange's inductive invariant: tags only move       *)
(* forward, and a Pod that is gone stays gone.                             *)
(***************************************************************************)
EXTENDS BudgetExchangeTypes

-----------------------------------------------------------------------------
(* Tags only move forward *)

(* What Store makes of a ledger: its tag does not change, or becomes that  *)
(* of the incarnation served and the current period.                       *)
LEMMA StoreTag ==
    ASSUME TypeOK, NEW r \in Pods, NEW u \in Uids, NEW l \in LedgerType,
           l.uid = u, l.period = period, Store(r, u, l)
    PROVE  /\ \A q \in Pods \ {r} : led'[q] = led[q]
           /\ led'[r] = led[r] \/ led'[r] = l
  BY DEF TypeOK, Store

LEMMA TagsInit == Init => TagsForward /\ PodLife /\ FiguresStand /\ PassSafe
<1> SUFFICES ASSUME Init PROVE TagsForward /\ PodLife /\ FiguresStand /\ PassSafe
  OBVIOUS
<1> USE DEF Init, NoConfigMap, NoLedger, None
<1>1. TagsForward
  BY DEF TagsForward, Running
<1>2. PodLife
  BY DEF PodLife, Running
<1>3. FiguresStand
  BY BoundsAssumption DEF FiguresStand, NoRetired, Zero, Uids, Periods
<1>4. PassSafe
  BY DEF PassSafe, IdlePass
<1> QED
  BY <1>1, <1>2, <1>3, <1>4

(* The tags of the replica that acts, and of every other one, after a step *)
(* that only stores a ledger for incarnation u.                            *)
LEMMA TagsNext == TypeOK /\ TagsForward /\ PodLife /\ [Next]_vars => TagsForward'
<1> SUFFICES ASSUME TypeOK, TagsForward, PodLife, [Next]_vars PROVE TagsForward'
  OBVIOUS
<1> USE DEF replica, history
<1>0. /\ uid \in Nat /\ uid # 0 /\ period \in Nat /\ period # 0
      /\ \A r \in Pods : /\ seen[r] \in Nat /\ led[r].uid \in Nat /\ led[r].period \in Nat
                         /\ pub[r].uid \in Nat /\ pub[r].period \in Nat
                         /\ cm.key[r].uid \in Nat /\ cm.key[r].period \in Nat
  <2>1. uid \in Nat /\ uid # 0 /\ period \in Nat /\ period # 0
    BY BoundsAssumption DEF TypeOK, Uids, Periods
  <2>2. ASSUME NEW r \in Pods
        PROVE  /\ seen[r] \in 0..MaxUid /\ led[r] \in LedgerType
               /\ pub[r] \in KeyType /\ cm.key[r] \in KeyType
    BY DEF TypeOK, ConfigMapType
  <2>3. 0..MaxUid \subseteq Nat /\ 0..MaxPeriod \subseteq Nat
    BY BoundsAssumption, SMTT(60)
  <2> QED
    BY <2>1, <2>2, <2>3 DEF LedgerType, KeyType
<1>1. ASSUME NEW r \in Pods, NEW u \in Uids, NEW l \in LedgerType, u <= uid,
             l.uid = u, l.period = period, Store(r, u, l),
             UNCHANGED <<period, uid, pod, seen, pub, cm>>,
             \A q \in Pods : calls'[q] \subseteq 1..uid,
             \A q \in Pods : \A f \in fold'[q] : f.uid <= uid
      PROVE  TagsForward'
  <2>1. /\ \A q \in Pods \ {r} : led'[q] = led[q]
        /\ led'[r] = led[r] \/ led'[r] = l
    BY <1>1, StoreTag
  <2> QED
    BY <1>0, <1>1, <2>1 DEF TagsForward, Running
<1>2. ASSUME NEW r \in Pods, Start(r) PROVE TagsForward'
  BY <1>0, <1>2, SMTT(60) DEF Start, TagsForward, PodLife, Running, NoLedger, None, TypeOK
<1>3. ASSUME NEW r \in Pods, SeeProvider(r) PROVE TagsForward'
  BY <1>0, <1>3, SMTT(60) DEF SeeProvider, TagsForward, Running, TypeOK
<1>4. ASSUME NEW r \in Pods, CallStart(r) PROVE TagsForward'
  <2>1. seen[r] \in Uids /\ seen[r] <= uid
    BY <1>0, <1>4, BoundsAssumption, SMTT(60) DEF CallStart, TagsForward, Running, TypeOK, Uids
  <2>2. \A q \in Pods : calls'[q] \subseteq 1..uid
    BY <1>0, <1>4, <2>1 DEF CallStart, TagsForward, TypeOK, Uids
  <2>3. CASE Policies
    <3> DEFINE l == LedgerFor(led[r], seen[r], period)
    <3>1. l \in LedgerType /\ l.uid = seen[r] /\ l.period = period
      BY <2>1, LedgerForType DEF TypeOK
    <3>2. Store(r, seen[r], l) /\ UNCHANGED <<period, uid, pod, seen, pub, cm, fold>>
      BY <1>4, <2>3, ZenonT(60) DEF CallStart
    <3> HIDE DEF l
    <3> QED
      BY <1>1, <2>1, <2>2, <3>1, <3>2, ZenonT(60) DEF TagsForward
  <2>4. CASE ~Policies
    BY <1>4, <2>2, <2>4 DEF CallStart, TagsForward, Running
  <2> QED
    BY <2>3, <2>4
<1>5. ASSUME NEW r \in Pods, NEW u \in calls[r], NEW c \in Costs, CallEnd(r, u, c)
      PROVE TagsForward'
  <2> DEFINE l == LedgerFor(led[r], u, period)
  <2>1. u \in Uids /\ u <= uid /\ c \in Nat
    BY CostsAssumption DEF TypeOK, TagsForward
  <2>2. l \in LedgerType /\ l.uid = u /\ l.period = period
    BY <2>1, LedgerForType DEF TypeOK
  <2>3. [l EXCEPT !.own = @ + c] \in LedgerType /\ [l EXCEPT !.own = @ + c].uid = u
          /\ [l EXCEPT !.own = @ + c].period = period
    <3> HIDE DEF l
    <3> QED
      BY <2>1, <2>2 DEF LedgerType
  <2>4. Store(r, u, [l EXCEPT !.own = @ + c])
    BY <1>5 DEF CallEnd, Add
  <2>5. \A q \in Pods : calls'[q] \subseteq 1..uid
    BY <1>5 DEF CallEnd, TagsForward, TypeOK
  <2> HIDE DEF l
  <2> QED
    BY <1>1, <1>5, <2>1, <2>3, <2>4, <2>5, ZenonT(60) DEF CallEnd, TagsForward
<1>6. ASSUME NEW r \in Pods, PublishStart(r) PROVE TagsForward'
  <2>1. Running(r) /\ led[r].uid = seen[r]
    BY <1>6, ZenonT(60) DEF PublishStart, HasPartial, Alive, Running
  <2>2. \A q \in Pods \ {r} : pub'[q] = pub[q]
    BY <1>6 DEF PublishStart, TypeOK
  <2>3. pub'[r].uid = led[r].uid /\ pub'[r].period = led[r].period
    BY <1>6 DEF PublishStart, OwnPartial, TypeOK
  <2> QED
    BY <1>0, <1>6, <2>1, <2>2, <2>3, SMTT(60) DEF PublishStart, TagsForward, Running
<1>7. ASSUME NEW r \in Pods, PublishEnd(r) PROVE TagsForward'
  <2>1. cm'.key = [cm.key EXCEPT ![r] = pub[r]]
    BY <1>7 DEF PublishEnd, TypeOK, ConfigMapType
  <2>2. \A q \in Pods : q # r => cm'.key[q] = cm.key[q] /\ pub'[q] = pub[q]
    BY <1>7, <2>1 DEF PublishEnd, TypeOK, ConfigMapType
  <2>3. cm'.key[r] = pub[r] /\ pub'[r] = None
    BY <1>7, <2>1 DEF PublishEnd, TypeOK, ConfigMapType
  <2> QED
    BY <1>0, <1>7, <2>2, <2>3 DEF PublishEnd, TagsForward, Running, None
<1>8. ASSUME NEW r \in Pods, PublishFail(r) PROVE TagsForward'
  BY <1>0, <1>8, SMTT(60) DEF PublishFail, TagsForward, Running, None, TypeOK
<1>9. ASSUME NEW r \in Pods, FoldStart(r) PROVE TagsForward'
  BY <1>0, <1>9, SMTT(60) DEF FoldStart, TagsForward, Running, TypeOK
<1>10. ASSUME NEW r \in Pods, NEW f \in fold[r], FoldEnd(r, f) PROVE TagsForward'
  <2> DEFINE l == LedgerFor(led[r], f.uid, period)
             v == IF f.period = period THEN f.view ELSE Zero
  <2>1. f.uid \in Uids /\ f.uid <= uid /\ v \in Vector
    BY ConstantsType, SMTT(60) DEF TypeOK, FoldType, TagsForward
  <2>2. l \in LedgerType /\ l.uid = f.uid /\ l.period = period
    BY <2>1, LedgerForType, SMTT(60) DEF TypeOK
  <2>3. Store(r, f.uid, [l EXCEPT !.peers = v, !.seeded = FALSE])
    BY <1>10 DEF FoldEnd, FoldPeers
  <2> HIDE DEF l, v
  <2>4. [l EXCEPT !.peers = v, !.seeded = FALSE] \in LedgerType
          /\ [l EXCEPT !.peers = v, !.seeded = FALSE].uid = f.uid
          /\ [l EXCEPT !.peers = v, !.seeded = FALSE].period = period
    BY <2>1, <2>2, ZenonT(60) DEF LedgerType
  <2>5. \A q \in Pods : \A g \in fold'[q] : g.uid <= uid
    BY <1>10 DEF FoldEnd, TagsForward, TypeOK
  <2> QED
    BY <1>1, <1>10, <2>1, <2>3, <2>4, <2>5 DEF FoldEnd, TagsForward
<1>11. ASSUME NEW r \in Pods, Stop(r) \/ PodGone(r) PROVE TagsForward'
  <2>1. \A q \in Pods : Running(q)' => Running(q)
    BY <1>11 DEF Stop, PodGone, Running, TypeOK
  <2> QED
    BY <1>11, <2>1, ZenonT(60) DEF Stop, PodGone, TagsForward
<1>12. ASSUME NEW r \in Pods, FinalPublish(r) PROVE TagsForward'
  <2>1. Running(r) /\ \A q \in Pods : Running(q)' => Running(q)
    BY <1>12 DEF FinalPublish, Running, TypeOK
  <2>2. \A q \in Pods \ {r} : pub'[q] = pub[q]
    BY <1>12 DEF FinalPublish, TypeOK
  <2>3. \/ pub'[r] = None
        \/ led[r].uid = seen[r] /\ pub'[r].uid = led[r].uid /\ pub'[r].period = led[r].period
    BY <1>12 DEF FinalPublish, HasPartial, OwnPartial, TypeOK
  <2>4. CASE pub'[r] = None
    BY <1>0, <1>12, <2>1, <2>2, <2>4, SMTT(60) DEF FinalPublish, TagsForward, None
  <2>5. CASE led[r].uid = seen[r] /\ pub'[r].uid = led[r].uid /\ pub'[r].period = led[r].period
    BY <1>0, <1>12, <2>1, <2>2, <2>5 DEF FinalPublish, TagsForward
  <2> QED
    BY <2>3, <2>4, <2>5
<1>13. ASSUME NEW r \in Pods, Exit(r) \/ Crash(r) PROVE TagsForward'
  <2>1. ~Running(r)' /\ \A q \in Pods : Running(q)' => Running(q)
    BY <1>13 DEF Exit, Crash, Running, TypeOK
  <2>2. Forget(r) /\ UNCHANGED <<period, uid, pub, cm>>
    BY <1>13 DEF Exit, Crash
  <2>3. /\ seen'[r] = 0 /\ calls'[r] = {} /\ led'[r] = NoLedger /\ fold'[r] = {}
        /\ \A q \in Pods \ {r} : /\ seen'[q] = seen[q] /\ calls'[q] = calls[q]
                                 /\ led'[q] = led[q] /\ fold'[q] = fold[q]
    BY <2>2 DEF Forget, TypeOK
  <2>4. /\ cm.key[r].uid = 0 => cm.key[r].period = 0
        /\ pub[r].uid = 0 => pub[r].period = 0
    BY SMTT(60) DEF TagsForward, None
  <2> QED
    BY <1>0, <2>1, <2>2, <2>3, <2>4, SMTT(60) DEF TagsForward, NoLedger
<1>14. CASE ReduceList \/ ReduceRead \/ ReduceConflict
  <2>1. UNCHANGED <<period, uid, pod, seen, calls, led, pub, fold, cm>>
    BY <1>14, Zenon DEF ReduceList, ReduceRead, ReduceConflict, replica
  <2> QED
    BY <2>1, Zenon DEF TagsForward, Running
<1>15. CASE ReduceWrite
  <2>1. \A q \in Pods : cm'.key[q] = cm.key[q] \/ cm'.key[q] = None
    BY <1>15, ZenonT(60) DEF ReduceWrite, Reduced
  <2> QED
    <3>1. UNCHANGED <<period, uid, pod, seen, calls, led, pub, fold>>
      BY <1>15, Zenon DEF ReduceWrite, replica
    <3>2. None.uid = 0 /\ None.period = 0
      BY DEF None
    <3>3. \A q \in Pods : \/ cm'.key[q] = cm.key[q]
                          \/ cm'.key[q].uid = 0 /\ cm'.key[q].period = 0
      BY <2>1, <3>2
    <3> QED
      BY <1>0, <3>1, <3>3, SMTT(60) DEF TagsForward, Running, None
<1>16. CASE Rollover
  <2>1. period' = period + 1 /\ UNCHANGED <<uid, pod, seen, calls, led, pub, fold, cm>>
    BY <1>16 DEF Rollover, replica
  <2> QED
    BY <1>0, <2>1, SMTT(60) DEF TagsForward, Running
<1>17. CASE Recreate
  <2>1. \A r \in Pods : cm'.key[r].uid = 0 /\ cm'.key[r].period = 0
    BY <1>17 DEF Recreate, NoConfigMap, None
  <2>2. uid' = uid + 1 /\ UNCHANGED <<period, pod, seen, calls, led, pub, fold>>
    BY <1>17 DEF Recreate
  <2>3. \A r \in Pods : calls[r] \subseteq 1..uid'
    BY <1>0, <2>2, SMTT(60) DEF TagsForward
  <2>4. \A r \in Pods : \A f \in fold[r] : f.uid <= uid'
    BY <1>0, <2>2 DEF TagsForward, TypeOK, FoldType, Uids
  <2> QED
    BY <1>0, <2>1, <2>2, <2>3, <2>4 DEF TagsForward, Running, None
<1>18. CASE UNCHANGED vars
  <2>1. UNCHANGED <<period, uid, pod, seen, calls, led, pub, fold, cm>>
    BY <1>18, Zenon DEF vars, replica
  <2> QED
    BY <2>1, Zenon DEF TagsForward, Running
<1> QED
  BY <1>2, <1>3, <1>4, <1>5, <1>6, <1>7, <1>8, <1>9, <1>10, <1>11, <1>12, <1>13, <1>14,
     <1>15, <1>16, <1>17, <1>18 DEF Next

-----------------------------------------------------------------------------
(* The life of a Pod *)

(* The ledger of another replica never changes, and that of the one that   *)
(* acts only while it runs.                                                *)
LEMMA StoreRunning ==
    ASSUME TypeOK, NEW r \in Pods, NEW u, NEW l, Store(r, u, l)
    PROVE  \A q \in Pods \ {r} : led'[q] = led[q]
  BY DEF TypeOK, Store

LEMMA GoneStaysGone == TypeOK /\ [Next]_vars => \A q \in Pods : pod[q] = "gone" => pod'[q] = "gone"
<1> SUFFICES ASSUME TypeOK, [Next]_vars, NEW q \in Pods, pod[q] = "gone" PROVE pod'[q] = "gone"
  BY ZenonT(60)
<1>1. CASE UNCHANGED pod
  BY <1>1
<1>2. ASSUME NEW r \in Pods, Start(r) \/ Stop(r) \/ FinalPublish(r) \/ Exit(r) \/ Crash(r) \/ PodGone(r)
      PROVE  pod'[q] = "gone"
  BY <1>2 DEF Start, Stop, FinalPublish, Exit, Crash, PodGone, TypeOK
<1>3. UNCHANGED pod \/ \E r \in Pods :
        Start(r) \/ Stop(r) \/ FinalPublish(r) \/ Exit(r) \/ Crash(r) \/ PodGone(r)
  BY ZenonT(60) DEF Next, vars, replica, SeeProvider, CallStart, CallEnd, PublishStart, PublishEnd,
         PublishFail, FoldStart, FoldEnd, ReduceList, ReduceRead, ReduceWrite, ReduceConflict,
         Rollover, Recreate
<1> QED
  BY <1>1, <1>2, <1>3

LEMMA PodLifeNext == TypeOK /\ PodLife /\ [Next]_vars => PodLife'
<1> SUFFICES ASSUME TypeOK, PodLife, [Next]_vars PROVE PodLife'
  OBVIOUS
<1> USE DEF replica, history
<1>1. ASSUME NEW r \in Pods, NEW u, NEW l, Store(r, u, l), Running(r), UNCHANGED <<pod, pub, cm>>
      PROVE  PodLife'
  BY <1>1, StoreRunning, SMTT(60) DEF PodLife, Running
<1>2. ASSUME NEW r \in Pods, Start(r) PROVE PodLife'
  BY <1>2, SMTT(60) DEF Start, PodLife, Running, TypeOK
<1>3. ASSUME NEW r \in Pods, SeeProvider(r) \/ FoldStart(r) PROVE PodLife'
  BY <1>3 DEF SeeProvider, FoldStart, PodLife, Running
<1>4. ASSUME NEW r \in Pods, CallStart(r) PROVE PodLife'
  <2>1. CASE Policies
    BY <1>1, <1>4, <2>1 DEF CallStart, Running
  <2>2. CASE ~Policies
    BY <1>4, <2>2 DEF CallStart, PodLife, Running
  <2> QED
    BY <2>1, <2>2, SMTT(60)
<1>5. ASSUME NEW r \in Pods, NEW u \in calls[r], NEW c \in Costs, CallEnd(r, u, c) PROVE PodLife'
  BY <1>1, <1>5, SMTT(60) DEF CallEnd, Add, Alive, Running
<1>6. ASSUME NEW r \in Pods, PublishStart(r) PROVE PodLife'
  BY <1>6 DEF PublishStart, Alive, PodLife, Running, TypeOK
<1>7. ASSUME NEW r \in Pods, PublishEnd(r) PROVE PodLife'
  <2>1. pod[r] # "unborn" /\ pub'[r] = None
    BY <1>7 DEF PublishEnd, PodLife, TypeOK
  <2>2. \A q \in Pods : q # r => cm'.key[q] = cm.key[q] /\ pub'[q] = pub[q]
    BY <1>7, SMTT(60) DEF PublishEnd, TypeOK, ConfigMapType
  <2> QED
    BY <1>7, <2>1, <2>2 DEF PublishEnd, PodLife, Running
<1>8. ASSUME NEW r \in Pods, PublishFail(r) PROVE PodLife'
  BY <1>8 DEF PublishFail, PodLife, Running, TypeOK
<1>9. ASSUME NEW r \in Pods, NEW f \in fold[r], FoldEnd(r, f) PROVE PodLife'
  BY <1>1, <1>9 DEF FoldEnd, FoldPeers, Alive, Running
<1>10. ASSUME NEW r \in Pods, Stop(r) PROVE PodLife'
  BY <1>10 DEF Stop, PodLife, Running, TypeOK
<1>11. ASSUME NEW r \in Pods, PodGone(r) PROVE PodLife'
  BY <1>11, SMTT(60) DEF PodGone, PodLife, Running, TypeOK
<1>12. ASSUME NEW r \in Pods, FinalPublish(r) PROVE PodLife'
  BY <1>12, SMTT(60) DEF FinalPublish, PodLife, Running, TypeOK
<1>13. ASSUME NEW r \in Pods, Exit(r) \/ Crash(r) PROVE PodLife'
  <2>1. /\ pod'[r] \notin {"unborn", "gone"}
        /\ \A q \in Pods \ {r} : pod'[q] = pod[q]
    <3>1. CASE Exit(r)
      BY <3>1 DEF Exit, TypeOK
    <3>2. CASE Crash(r)
      BY <3>2 DEF Crash, TypeOK
    <3> QED
      BY <1>13, <3>1, <3>2
  <2>2. led'[r] = NoLedger /\ \A q \in Pods \ {r} : led'[q] = led[q]
    <3>1. Forget(r)
      BY <1>13 DEF Exit, Crash
    <3> QED
      BY <3>1 DEF Forget, TypeOK
  <2>3. UNCHANGED <<pub, cm>>
    <3>1. CASE Exit(r)
      BY <3>1 DEF Exit
    <3>2. CASE Crash(r)
      BY <3>2 DEF Crash
    <3> QED
      BY <1>13, <3>1, <3>2
  <2> QED
    BY <2>1, <2>2, <2>3 DEF PodLife, Running
<1>14. CASE ReduceList \/ ReduceRead \/ ReduceConflict \/ Rollover
  BY <1>14 DEF ReduceList, ReduceRead, ReduceConflict, Rollover, PodLife, Running
<1>15. CASE ReduceWrite
  <2>1. \A q \in Pods : cm'.key[q] = cm.key[q] \/ cm'.key[q] = None
    BY <1>15, ZenonT(60) DEF ReduceWrite, Reduced
  <2> QED
    BY <1>15, <2>1 DEF ReduceWrite, PodLife, Running, None
<1>16. CASE Recreate
  BY <1>16, ZenonT(60) DEF Recreate, PodLife, Running, NoConfigMap, None
<1>17. CASE UNCHANGED vars
  BY <1>17, ZenonT(60) DEF vars, PodLife, Running
<1> QED
  BY <1>2, <1>3, <1>4, <1>5, <1>6, <1>7, <1>8, <1>9, <1>10, <1>11, <1>12, <1>13, <1>14,
     <1>15, <1>16, <1>17, ZenonT(60) DEF Next
=============================================================================
