------------------------ MODULE BudgetExchangeProofs ------------------------
(***************************************************************************)
(* Proofs about BudgetExchange, for any number of Pods, calls, crashes,    *)
(* periods and incarnations: its type invariant, and that what a replica   *)
(* published is counted exactly once.                                      *)
(***************************************************************************)
EXTENDS BudgetExchangeTags

-----------------------------------------------------------------------------
(* Figures stand where they were written *)

(* The steps that do not touch the ConfigMap or the clock. *)
LEMMA ConfigMapSteps ==
    [Next]_vars => \/ UNCHANGED <<cm, wrote, uid, period>>
                   \/ \E r \in Pods : PublishEnd(r)
                   \/ ReduceWrite \/ Rollover \/ Recreate
  BY ZenonT(60) DEF Next, vars, replica, history, Start, SeeProvider, CallStart, CallEnd, PublishStart,
         PublishFail, FoldStart, FoldEnd, Stop, FinalPublish, Exit, Crash, PodGone, ReduceList,
         ReduceRead, ReduceConflict

LEMMA FiguresNext ==
    CountingInvariant /\ [Next]_vars => FiguresStand'
<1> SUFFICES ASSUME CountingInvariant, [Next]_vars PROVE FiguresStand'
  OBVIOUS
<1> USE DEF CountingInvariant
<1>0. /\ uid \in Uids /\ uid \in Nat /\ uid # 0
      /\ period \in Periods /\ period \in Nat /\ period # 0
      /\ cm.retired.uid \in Nat /\ cm.retired.period \in Nat
      /\ \A r \in Pods : /\ cm.key[r] \in KeyType /\ pub[r] \in KeyType
                         /\ cm.retired.amt[r] \in Nat
  BY BoundsAssumption DEF TypeOK, Uids, Periods, ConfigMapType, Vector
<1>1. \A e \in KeyType : e.uid \in Nat /\ e.period \in Nat /\ e.amt \in Nat
  BY BoundsAssumption DEF KeyType
<1>2. CASE UNCHANGED <<cm, wrote, uid, period>>
  BY <1>2, GoneStaysGone, ZenonT(60) DEF FiguresStand
<1>3. ASSUME NEW r \in Pods, PublishEnd(r) PROVE FiguresStand'
  <2> DEFINE k == pub[r]
  <2>1. /\ k.uid \in Uids /\ k.period \in Periods
        /\ k.uid <= uid /\ k.period <= period /\ k.amt \in Nat
    BY <1>0, <1>1, <1>3, BoundsAssumption DEF PublishEnd, TagsForward, KeyType, Uids, Periods
  <2>2. /\ cm'.retired = cm.retired /\ cm'.key[r] = k
        /\ \A q \in Pods \ {r} : cm'.key[q] = cm.key[q]
    BY <1>3 DEF PublishEnd, TypeOK, ConfigMapType
  <2>3. UNCHANGED <<uid, period, pod>>
    BY <1>3 DEF PublishEnd
  <2>4. \A u \in Uids, p \in Periods, q \in Pods :
            wrote'[u][p][q] = IF u = k.uid /\ p = k.period /\ q = r THEN k.amt ELSE wrote[u][p][q]
    <3>1. wrote' = [wrote EXCEPT ![k.uid][k.period][r] = k.amt]
      BY <1>3 DEF PublishEnd
    <3> HIDE DEF k
    <3>2. SUFFICES ASSUME NEW u \in Uids, NEW p \in Periods, NEW q \in Pods
          PROVE  wrote'[u][p][q] = IF u = k.uid /\ p = k.period /\ q = r THEN k.amt
                                                                         ELSE wrote[u][p][q]
      OBVIOUS
    <3>3. CASE u # k.uid
      BY <2>1, <3>1, <3>3 DEF TypeOK
    <3>4. CASE u = k.uid
      <4>1. wrote'[u] = [wrote[u] EXCEPT ![k.period][r] = k.amt]
        BY <2>1, <3>1, <3>4 DEF TypeOK
      <4>2. wrote[u] \in [Periods -> [Pods -> Nat]]
        BY DEF TypeOK
      <4>3. CASE p # k.period
        BY <2>1, <3>4, <4>1, <4>2, <4>3
      <4>4. CASE p = k.period
        <5>1. wrote'[u][p] = [wrote[u][p] EXCEPT ![r] = k.amt]
          BY <2>1, <4>1, <4>2, <4>4
        <5> QED
          BY <3>4, <4>2, <4>4, <5>1, SMTT(60)
      <4> QED
        BY <4>3, <4>4
    <3> QED
      BY <3>3, <3>4
  <2>5. cm.retired.uid # 0 => cm.retired.amt[r] = 0
    BY <1>3 DEF PublishEnd, FiguresStand, PodLife
  <2>6. \/ cm.key[r].uid < k.uid
        \/ cm.key[r].uid = k.uid /\ cm.key[r].period <= k.period
    BY <1>3 DEF PublishEnd, TagsForward
  <2> HIDE DEF k
  <2>7. /\ cm'.retired.uid <= uid' /\ cm'.retired.period <= period'
        /\ cm'.retired.uid # 0 => cm'.retired.period # 0
    BY <2>2, <2>3, SMTT(60) DEF FiguresStand
  <2>8. ASSUME NEW q \in Pods, cm'.key[q].uid # 0
        PROVE  cm'.key[q].period # 0 /\ cm'.key[q].amt = wrote'[cm'.key[q].uid][cm'.key[q].period][q]
    <3>1. CASE q = r
      BY <2>1, <2>2, <2>4, <3>1, SMTT(60) DEF Periods
    <3>2. CASE q # r
      <4>1. cm.key[q].uid \in Uids /\ cm.key[q].period \in Periods
        BY <1>0, <2>2, <2>8, <3>2, BoundsAssumption DEF KeyType, Uids, Periods, FiguresStand
      <4>2. cm.key[q].period # 0 /\ cm.key[q].amt = wrote[cm.key[q].uid][cm.key[q].period][q]
        BY <2>2, <2>8, <3>2, ZenonT(60) DEF FiguresStand
      <4>3. cm'.key[q] = cm.key[q]
        BY <2>2, <3>2
      <4>4. wrote'[cm.key[q].uid][cm.key[q].period][q] = wrote[cm.key[q].uid][cm.key[q].period][q]
        BY <2>4, <3>2, <4>1
      <4> QED
        BY <4>2, <4>3, <4>4, SMTT(60)
    <3> QED
      BY <3>1, <3>2
  <2>9. ASSUME NEW q \in Pods, cm'.retired.uid # 0, cm'.retired.amt[q] # 0
        PROVE  /\ pod'[q] = "gone"
               /\ cm'.retired.amt[q] = wrote'[cm'.retired.uid][cm'.retired.period][q]
               /\ ~IsCurrent(cm'.key[q], cm'.retired.uid, cm'.retired.period)
    <3>1. q # r
      BY <2>2, <2>5, <2>9
    <3>2. cm.retired.uid \in Uids /\ cm.retired.period \in Periods
      <4>1. cm.retired.uid # 0 /\ cm.retired.period # 0
        BY <2>2, <2>9 DEF FiguresStand
      <4>2. cm.retired.uid \in 0..MaxUid /\ cm.retired.period \in 0..MaxPeriod
        BY SMTT(60) DEF TypeOK, ConfigMapType
      <4> QED
        BY <4>1, <4>2, BoundsAssumption DEF Uids, Periods
    <3>3. /\ pod[q] = "gone"
          /\ cm.retired.amt[q] = wrote[cm.retired.uid][cm.retired.period][q]
          /\ ~IsCurrent(cm.key[q], cm.retired.uid, cm.retired.period)
      BY <2>2, <2>9, SMTT(60) DEF FiguresStand
    <3> QED
      BY <2>2, <2>3, <2>4, <3>1, <3>2, <3>3
  <2>10. \A q \in Pods, u \in Uids, p \in Periods : wrote'[u][p][q] # 0 => u <= uid' /\ p <= period'
    BY <2>1, <2>3, <2>4 DEF FiguresStand
  <2>11. ASSUME NEW q \in Pods, wrote'[uid'][period'][q] # 0
         PROVE  \/ IsCurrent(cm'.key[q], uid', period')
                \/ IsCurrent(cm'.retired, uid', period') /\ cm'.retired.amt[q] # 0
    <3>1. CASE q # r
      BY <1>0, <2>2, <2>3, <2>4, <2>11, <3>1 DEF FiguresStand, IsCurrent
    <3>2. CASE q = r /\ k.uid = uid /\ k.period = period
      BY <2>2, <2>3, <3>2 DEF IsCurrent
    <3>3. CASE q = r /\ ~(k.uid = uid /\ k.period = period)
      <4>1. wrote[uid][period][r] # 0
        BY <1>0, <2>3, <2>4, <2>11, <3>3, SMTT(60)
      <4>2. IsCurrent(cm.key[r], uid, period)
        BY <1>0, <2>5, <4>1 DEF FiguresStand, IsCurrent
      <4> QED
        BY <1>0, <1>1, <2>1, <2>6, <3>3, <4>2 DEF IsCurrent, Uids, Periods
    <3> QED
      BY <3>1, <3>2, <3>3, SMTT(60)
  <2> QED
    BY <2>7, <2>8, <2>9, <2>10, <2>11, ZenonT(60) DEF FiguresStand, IsCurrent
<1>4. CASE ReduceWrite
  <2> DEFINE p == red.period
             dead == DeadKeys(cm, red.live, uid, p)
  <2>1. UNCHANGED <<uid, period, pod, wrote>>
    BY <1>4, SMTT(60) DEF ReduceWrite, replica, history
  <2>2. CASE cm' = cm
    BY <2>1, <2>2 DEF FiguresStand
  <2>3. CASE cm' # cm
    <3>1. red.cm = cm /\ cm' = Reduced(cm, red.live, uid, p) /\ cm # NoConfigMap
      BY <1>4, <2>3, ZenonT(60) DEF ReduceWrite, Reduced
    <3>2. /\ p \in Periods /\ p <= period /\ cm.retired.period <= p
          /\ \A q \in Pods : /\ cm.key[q].period <= p
                             /\ q \notin red.live /\ cm.key[q].uid # 0 => pod[q] = "gone"
      BY <1>4, <3>1, BoundsAssumption DEF ReduceWrite, PassSafe, TypeOK, PassType, Periods
    <3>3. \A q \in Pods : cm'.key[q] = IF IsCurrent(cm.key[q], uid, p) /\ q \in red.live
                                       THEN cm.key[q] ELSE None
      BY <3>1 DEF Reduced
    <3>4. cm'.retired = IF dead # {} \/ IsCurrent(cm.retired, uid, p)
                        THEN [uid |-> uid, period |-> p, amt |-> [q \in Pods |->
                              RetiredAmt(cm, q, uid, p) + IF q \in dead THEN cm.key[q].amt ELSE 0]]
                        ELSE NoRetired
      BY <3>1 DEF Reduced
    <3>5. \A q \in Pods : q \in dead <=> IsCurrent(cm.key[q], uid, p) /\ q \notin red.live
      BY SMTT(60) DEF DeadKeys
    <3>6. \A q \in Pods : IsCurrent(cm.key[q], uid, p) =>
             cm.key[q].amt = wrote[uid][p][q] /\ RetiredAmt(cm, q, uid, p) = 0
      BY <1>0 DEF FiguresStand, IsCurrent, RetiredAmt
    <3>7. \A q \in Pods : RetiredAmt(cm, q, uid, p) # 0 =>
            /\ IsCurrent(cm.retired, uid, p) /\ pod[q] = "gone"
            /\ RetiredAmt(cm, q, uid, p) = wrote[uid][p][q]
            /\ ~IsCurrent(cm.key[q], uid, p)
      BY <1>0 DEF FiguresStand, IsCurrent, RetiredAmt
    <3> HIDE DEF p, dead
    <3>8. \A q \in Pods : cm.key[q].amt \in Nat /\ RetiredAmt(cm, q, uid, p) \in Nat
      BY <1>0, <1>1, SMTT(60) DEF RetiredAmt
    <3>9. CASE dead # {} \/ IsCurrent(cm.retired, uid, p)
      <4>1. /\ cm'.retired.uid = uid /\ cm'.retired.period = p
            /\ \A q \in Pods : cm'.retired.amt[q] =
                    RetiredAmt(cm, q, uid, p) + IF q \in dead THEN cm.key[q].amt ELSE 0
        BY <3>4, <3>9, SMTT(60)
      <4>2. /\ cm'.retired.uid <= uid' /\ cm'.retired.period <= period'
            /\ cm'.retired.uid # 0 => cm'.retired.period # 0
        BY <1>0, <2>1, <3>2, <4>1 DEF Periods
      <4>3. ASSUME NEW q \in Pods, cm'.key[q].uid # 0
            PROVE  /\ cm'.key[q].period # 0
                   /\ cm'.key[q].amt = wrote'[cm'.key[q].uid][cm'.key[q].period][q]
        BY <2>1, <3>3, <4>3, SMTT(60) DEF FiguresStand, None
      <4>4. ASSUME NEW q \in Pods, cm'.retired.amt[q] # 0
            PROVE  /\ pod'[q] = "gone"
                   /\ cm'.retired.amt[q] = wrote'[cm'.retired.uid][cm'.retired.period][q]
                   /\ ~IsCurrent(cm'.key[q], cm'.retired.uid, cm'.retired.period)
        <5>1. CASE q \in dead
          <6>1. IsCurrent(cm.key[q], uid, p) /\ q \notin red.live /\ pod[q] = "gone"
            BY <1>0, <3>2, <3>5, <5>1, SMTT(60) DEF IsCurrent
          <6>2. cm'.retired.amt[q] = wrote[uid][p][q]
            BY <3>6, <3>8, <4>1, <5>1, <6>1
          <6>3. ~IsCurrent(cm'.key[q], uid, p)
            BY <1>0, <3>3, <6>1 DEF IsCurrent, None
          <6> QED
            BY <2>1, <4>1, <6>1, <6>2, <6>3
        <5>2. CASE q \notin dead
          <6>1. RetiredAmt(cm, q, uid, p) # 0 /\ cm'.retired.amt[q] = RetiredAmt(cm, q, uid, p)
            BY <3>8, <4>1, <4>4, <5>2, SMTT(60)
          <6>2. ~IsCurrent(cm'.key[q], uid, p)
            BY <1>0, <3>3, <3>7, <6>1, SMTT(60) DEF IsCurrent, None
          <6> QED
            BY <2>1, <3>7, <4>1, <6>1, <6>2
        <5> QED
          BY <5>1, <5>2, SMTT(60)
      <4>5. ASSUME NEW q \in Pods, wrote[uid][period][q] # 0
            PROVE  \/ IsCurrent(cm'.key[q], uid, period)
                   \/ IsCurrent(cm'.retired, uid, period) /\ cm'.retired.amt[q] # 0
        <5>1. CASE IsCurrent(cm.key[q], uid, period)
          <6>1. p = period
            <7>1. p <= period /\ p \in Nat
              BY <3>2, BoundsAssumption DEF Periods
            <7>2. cm.key[q].period <= p
              BY <3>2
            <7> QED
              BY <1>0, <5>1, <7>1, <7>2 DEF IsCurrent
          <6>2. CASE q \in red.live
            <7>1. cm'.key[q] = cm.key[q]
              BY <3>3, <5>1, <6>1, <6>2
            <7> QED
              BY <5>1, <7>1
          <6>3. CASE q \notin red.live
            <7>1. q \in dead /\ RetiredAmt(cm, q, uid, p) = 0 /\ cm.key[q].amt = wrote[uid][p][q]
              BY <3>5, <3>6, <5>1, <6>1, <6>3
            <7>2. cm'.retired.amt[q] = wrote[uid][period][q]
              BY <3>8, <4>1, <6>1, <7>1
            <7> QED
              BY <4>1, <4>5, <6>1, <7>2 DEF IsCurrent
          <6> QED
            BY <6>2, <6>3, ZenonT(60)
        <5>2. CASE IsCurrent(cm.retired, uid, period) /\ cm.retired.amt[q] # 0
          <6>1. p = period
            BY <1>0, <3>2, <5>2, BoundsAssumption DEF IsCurrent, Periods
          <6>2. RetiredAmt(cm, q, uid, p) # 0
            BY <5>2, <6>1 DEF RetiredAmt
          <6> QED
            BY <3>8, <4>1, <6>1, <6>2 DEF IsCurrent
        <5> QED
          BY <4>5, <5>1, <5>2 DEF FiguresStand
      <4> QED
        BY <2>1, <4>2, <4>3, <4>4, <4>5 DEF FiguresStand
    <3>10. CASE ~(dead # {} \/ IsCurrent(cm.retired, uid, p))
      <4>1. cm'.retired.uid = 0 /\ cm'.retired.period = 0
        BY <3>4, <3>10 DEF NoRetired
      <4>2. \A q \in Pods : cm'.key[q] = cm.key[q] \/ cm'.key[q].uid = 0
        BY <3>3 DEF None
      <4>3. ASSUME NEW q \in Pods, wrote[uid][period][q] # 0
            PROVE  IsCurrent(cm'.key[q], uid, period)
        <5>1. CASE IsCurrent(cm.key[q], uid, period)
          <6>1. p = period
            <7>1. p <= period /\ p \in Nat
              BY <3>2, BoundsAssumption DEF Periods
            <7>2. cm.key[q].period <= p
              BY <3>2
            <7> QED
              BY <1>0, <5>1, <7>1, <7>2 DEF IsCurrent
          <6> QED
            BY <3>3, <3>5, <3>10, <5>1, <6>1, ZenonT(60)
        <5>2. CASE IsCurrent(cm.retired, uid, period)
          BY <1>0, <3>2, <3>10, <5>2 DEF IsCurrent, Periods
        <5> QED
          BY <4>3, <5>1, <5>2, ZenonT(60) DEF FiguresStand
      <4> QED
        BY <1>0, <2>1, <4>1, <4>2, <4>3, SMTT(60) DEF FiguresStand
    <3> QED
      BY <3>9, <3>10
  <2> QED
    BY <2>2, <2>3
<1>5. CASE Rollover
  <2>1. /\ period' = period + 1 /\ period' \in Periods
        /\ UNCHANGED <<uid, cm, wrote, pod>>
    BY <1>0, <1>5, BoundsAssumption, SMTT(60) DEF Rollover, Periods, replica, history
  <2>2. \A q \in Pods : wrote[uid][period'][q] = 0
    BY <1>0, <2>1, SMTT(60) DEF FiguresStand
  <2> QED
    BY <1>0, <2>1, <2>2, SMTT(60) DEF FiguresStand, Periods
<1>6. CASE Recreate
  <2>1. /\ uid' = uid + 1 /\ uid' \in Uids /\ UNCHANGED <<period, wrote, pod>>
        /\ cm' = NoConfigMap
    BY <1>0, <1>6, BoundsAssumption, SMTT(60) DEF Recreate, Uids, replica, history
  <2>2. \A q \in Pods : wrote[uid'][period][q] = 0
    BY <1>0, <2>1, SMTT(60) DEF FiguresStand
  <2>3. cm'.retired.uid = 0 /\ cm'.retired.period = 0 /\ \A q \in Pods : cm'.key[q].uid = 0
    BY <2>1 DEF NoConfigMap, NoRetired, None
  <2> QED
    BY <1>0, <2>1, <2>2, <2>3, SMTT(60) DEF FiguresStand, Uids
<1> QED
  BY <1>2, <1>3, <1>4, <1>5, <1>6, ConfigMapSteps

-----------------------------------------------------------------------------
(* A pass is safe *)

LEMMA PassNext == CountingInvariant /\ [Next]_vars => PassSafe'
<1> SUFFICES ASSUME CountingInvariant, [Next]_vars PROVE PassSafe'
  OBVIOUS
<1> USE DEF CountingInvariant
<1>0. period \in Nat /\ period # 0
  BY BoundsAssumption DEF TypeOK, Periods
<1>1. \A q \in Pods : pod[q] = "gone" => pod'[q] = "gone"
  BY GoneStaysGone
<1>2. CASE ReduceList
  <2>1. \A q \in Pods \ red'.live : pod[q] \in {"unborn", "gone"}
    BY <1>2 DEF ReduceList, LivePods
  <2> QED
    BY <1>2, <2>1, ZenonT(60) DEF ReduceList, replica, PodLife, PassSafe
<1>3. CASE ReduceRead
  <2>1. /\ red.pc = "listed" /\ red'.pc = "read" /\ red'.live = red.live
        /\ red'.period = period /\ red'.cm = cm /\ UNCHANGED <<period, pod, cm>>
    BY <1>3 DEF ReduceRead, replica
  <2>2. /\ cm.retired.period <= period
        /\ \A r \in Pods : cm.key[r].period <= period
    BY Zenon DEF FiguresStand, TagsForward
  <2>3. period <= period
    BY <1>0
  <2> QED
    BY <1>0, <2>1, <2>2, <2>3 DEF PassSafe
<1>4. CASE ReduceWrite \/ ReduceConflict
  <2>1. red' = IdlePass
    BY <1>4, Zenon DEF ReduceWrite, ReduceConflict
  <2> QED
    BY <2>1 DEF IdlePass, PassSafe
<1>5. ASSUME NEW r \in Pods, PublishEnd(r) PROVE PassSafe'
  <2>1. \A q \in Pods \ {r} : cm'.key[q] = cm.key[q]
    BY <1>5 DEF PublishEnd, TypeOK, ConfigMapType
  <2> QED
    BY <1>5, <2>1 DEF PublishEnd, PodListed, PassSafe
<1>6. CASE Rollover
  <2>1. period' = period + 1 /\ UNCHANGED <<pod, cm, red>>
    BY <1>6 DEF Rollover, replica
  <2>2. red.period \in Nat
    BY BoundsAssumption DEF TypeOK, PassType, Periods
  <2> QED
    BY <1>0, <2>1, <2>2 DEF PassSafe
<1>7. CASE Recreate
  BY <1>7 DEF Recreate, PassSafe
<1>8. CASE UNCHANGED <<cm, red, period>>
  BY <1>1, <1>8 DEF PassSafe
<1>9. ASSUME NEW r \in Pods,
             \/ Start(r) \/ SeeProvider(r) \/ CallStart(r) \/ PublishStart(r) \/ PublishFail(r)
             \/ \E u \in calls[r], c \in Costs : CallEnd(r, u, c)
             \/ FoldStart(r) \/ \E f \in fold[r] : FoldEnd(r, f)
             \/ Stop(r) \/ FinalPublish(r) \/ Exit(r) \/ Crash(r) \/ PodGone(r)
      PROVE  UNCHANGED <<cm, red, period>>
  BY <1>9, ZenonT(60) DEF Start, SeeProvider, CallStart, CallEnd, PublishStart, PublishFail, FoldStart,
              FoldEnd, Stop, FinalPublish, Exit, Crash, PodGone
<1>10. CASE UNCHANGED vars
  BY <1>8, <1>10 DEF vars
<1> QED
  BY <1>2, <1>3, <1>4, <1>5, <1>6, <1>7, <1>8, <1>9, <1>10, ZenonT(60) DEF Next

-----------------------------------------------------------------------------
(* The theorems *)

(* Every part of the strengthening holds at every step, for any set of     *)
(* Pods, any costs and any number of periods, incarnations, calls, crashes *)
(* and folds in flight of the ledger, the publisher and the reducer.       *)
THEOREM CountingIsInductive == Spec => []CountingInvariant
<1>1. Init => CountingInvariant
  BY TypeInit, TagsInit DEF CountingInvariant
<1>2. CountingInvariant /\ [Next]_vars => CountingInvariant'
  BY TypeNext, TagsNext, PodLifeNext, FiguresNext, PassNext DEF CountingInvariant
<1> QED
  BY <1>1, <1>2, PTL DEF Spec

(* The state of every replica, of the ConfigMap and of the reducer's pass  *)
(* keeps its type.                                                         *)
THEOREM TypeCorrect == Spec => []TypeOK
<1>1. CountingInvariant => TypeOK
  BY DEF CountingInvariant
<1> QED
  BY <1>1, CountingIsInductive, PTL

(* What a Pod published for the current provider and period is counted     *)
(* exactly once, under its key or in _retired: foldBudgetKeys neither      *)
(* drops nor doubles it, whatever interleaves with its pass.               *)
THEOREM PublishedSpendCountedOnce == Spec => []CountedOnce
<1>1. CountingInvariant => CountedOnce
  <2> SUFFICES ASSUME CountingInvariant, NEW r \in Pods
      PROVE  KeyAmt(cm, r, uid, period) + RetiredAmt(cm, r, uid, period) = wrote[uid][period][r]
    BY DEF CountedOnce
  <2> USE DEF CountingInvariant
  <2>1. /\ uid # 0 /\ wrote[uid][period][r] \in Nat
        /\ cm.key[r].amt \in Nat /\ cm.retired.amt[r] \in Nat
    <3>1. uid \in Uids /\ period \in Periods /\ uid # 0
      BY BoundsAssumption DEF TypeOK, Uids
    <3>2. wrote[uid][period][r] \in Nat
      BY <3>1 DEF TypeOK
    <3>3. cm.key[r].amt \in Nat /\ cm.retired.amt[r] \in Nat
      BY DEF TypeOK, ConfigMapType, KeyType, Vector
    <3> QED
      BY <3>1, <3>2, <3>3
  <2>2. CASE IsCurrent(cm.key[r], uid, period)
    BY <2>1, <2>2, SMTT(60) DEF FiguresStand, IsCurrent, KeyAmt, RetiredAmt
  <2>3. CASE ~IsCurrent(cm.key[r], uid, period)
    BY <2>1, <2>3 DEF FiguresStand, IsCurrent, KeyAmt, RetiredAmt
  <2> QED
    BY <2>2, <2>3, ZenonT(60)
<1> QED
  BY <1>1, CountingIsInductive, PTL
=============================================================================
