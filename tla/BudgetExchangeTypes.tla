------------------------- MODULE BudgetExchangeTypes -------------------------
(***************************************************************************)
(* The types of BudgetExchange's operators, and that every step keeps its  *)
(* type invariant.                                                         *)
(***************************************************************************)
EXTENDS BudgetExchange, WellFoundedInduction, TLAPS

-----------------------------------------------------------------------------
(* Arithmetic *)

(* A non-empty set of natural numbers has a least element. *)
LEMMA NatHasLeast ==
    ASSUME NEW T, T \subseteq Nat, T # {}
    PROVE  \E x \in T : \A y \in T : x <= y
<1>1. PICK x \in T : \A y \in T : ~(<<y, x>> \in OpToRel(<, Nat))
  BY NatLessThanWellFounded, WFMin
<1>2. \A y \in T : ~(y < x)
  BY <1>1 DEF OpToRel
<1> QED
  BY <1>2

(* A non-empty set of periods has a newest one, so the archive's choice of *)
(* the newest stale period is well defined.                                *)
LEMMA NewestExists ==
    ASSUME NEW N \in Nat, NEW S, S \subseteq 0..N, S # {}
    PROVE  \E x \in S : \A y \in S : y <= x
<1> DEFINE T == {n \in Nat : \E x \in S : n = N - x}
<1>1. \E n \in Nat : n \in T
  <2>1. PICK x \in S : TRUE
    OBVIOUS
  <2>2. N - x \in Nat
    OBVIOUS
  <2> QED
    BY <2>2
<1>2. PICK z \in T : \A y \in T : z <= y
  <2> HIDE DEF T
  <2>1. T \subseteq Nat
    BY DEF T
  <2> QED
    BY <1>1, <2>1, NatHasLeast
<1>3. PICK x \in S : z = N - x
  OBVIOUS
<1>4. ASSUME NEW y \in S PROVE y <= x
  <2>1. N - y \in T
    OBVIOUS
  <2>2. z <= N - y
    BY <1>2, <2>1
  <2> QED
    BY <1>3, <2>2
<1> QED
  BY <1>4

(* Rounding to the cent gives a natural number. *)
LEMMA CentsType == \A m \in Nat : Cents(m) \in Nat
  BY DEF Cents

-----------------------------------------------------------------------------
(* Types of the operators *)

LEMMA ConstantsType ==
    /\ Zero \in Vector /\ None \in KeyType /\ NoLedger \in LedgerType
    /\ NoConfigMap \in ConfigMapType /\ IdlePass \in PassType
<1>1. Zero \in Vector
  BY DEF Zero, Vector
<1>2. None \in KeyType
  BY BoundsAssumption DEF None, KeyType
<1>3. NoLedger \in LedgerType
  BY <1>1, BoundsAssumption DEF NoLedger, LedgerType
<1>4. NoConfigMap \in ConfigMapType
  <2>1. NoArchive \in ArchiveType
    BY <1>1, BoundsAssumption DEF NoArchive, ArchiveType
  <2> QED
    BY <1>1, <1>2, <2>1, BoundsAssumption
    DEF NoConfigMap, ConfigMapType, NoRetired, NoCanonical
<1>5. IdlePass \in PassType
  BY <1>4, BoundsAssumption DEF IdlePass, PassType
<1> QED
  BY <1>1, <1>2, <1>3, <1>4, <1>5

LEMMA LedgerForType ==
    ASSUME NEW l \in LedgerType, NEW u \in Uids, NEW p \in Periods
    PROVE  /\ LedgerFor(l, u, p) \in LedgerType
           /\ LedgerFor(l, u, p).uid = u
           /\ LedgerFor(l, u, p).period = p
<1>1. Fresh(u, p) \in LedgerType /\ Fresh(u, p).uid = u /\ Fresh(u, p).period = p
  BY ConstantsType DEF Fresh, LedgerType, Uids, Periods
<1> QED
  BY <1>1 DEF LedgerFor

LEMMA AmountsType ==
    ASSUME NEW c \in ConfigMapType, NEW q \in Pods, NEW u, NEW p
    PROVE  KeyAmt(c, q, u, p) \in Nat /\ RetiredAmt(c, q, u, p) \in Nat
  BY DEF KeyAmt, RetiredAmt, ConfigMapType, KeyType, Vector

LEMMA FoldPartialsType ==
    ASSUME NEW c \in ConfigMapType, NEW r \in Pods, NEW u, NEW p
    PROVE  FoldPartials(c, r, u, p) \in Vector
<1>1. \A q \in Pods : (IF q = r THEN 0 ELSE KeyAmt(c, q, u, p)) + RetiredAmt(c, q, u, p) \in Nat
  BY AmountsType
<1> QED
  BY <1>1 DEF FoldPartials, Vector

LEMMA ArchivedType ==
    ASSUME NEW c \in ConfigMapType, NEW u \in Uids, NEW p \in 0..MaxPeriod
    PROVE  Archived(c, u, p) \in ArchiveType
<1> DEFINE stored == c.previous
           kept == IF stored.archivedIn = p /\ stored.uid = u THEN stored ELSE NoArchive
           S == StalePeriods(c, u, p) \cup {kept.period}
           newest == CHOOSE n \in S : \A m \in S : m <= n
           base == IF newest > kept.period
                   THEN [uid |-> u, period |-> newest, archivedIn |-> p, src |-> Zero, ret |-> Zero]
                   ELSE kept
<1>1. stored \in ArchiveType /\ NoArchive \in ArchiveType
  BY ConstantsType DEF ConfigMapType, NoConfigMap
<1>2. kept \in ArchiveType
  BY <1>1
<1>3. S \subseteq 0..MaxPeriod /\ S # {}
  BY <1>2 DEF StalePeriods, StaleKeys, StaleRetired, ConfigMapType, KeyType, ArchiveType
<1>4. newest \in 0..MaxPeriod
  <2> HIDE DEF S
  <2>1. \E n \in S : \A m \in S : m <= n
    BY <1>3, NewestExists, BoundsAssumption
  <2>2. newest \in S
    BY <2>1
  <2> QED
    BY <1>3, <2>2
<1>5. base \in ArchiveType
  <2> HIDE DEF newest, kept, S, stored
  <2>1. [uid |-> u, period |-> newest, archivedIn |-> p, src |-> Zero, ret |-> Zero]
          \in ArchiveType
    BY <1>4, ConstantsType, BoundsAssumption DEF ArchiveType, Uids
  <2> QED
    BY <1>2, <2>1
<1> DEFINE src == [q \in Pods |-> Larger(base.src[q],
                    IF q \in StaleKeys(c, u, p) THEN KeyAmt(c, q, u, base.period) ELSE 0)]
           ret == [q \in Pods |-> Larger(base.ret[q],
                    IF StaleRetired(c, u, p) THEN RetiredAmt(c, q, u, base.period) ELSE 0)]
<1>6. src \in Vector /\ ret \in Vector
  <2> HIDE DEF base
  <2>1. \A q \in Pods : base.src[q] \in Nat /\ base.ret[q] \in Nat
    BY <1>5 DEF ArchiveType, Vector
  <2> QED
    BY <2>1, AmountsType DEF Larger, Vector
<1>7. Archived(c, u, p) = [base EXCEPT !.src = src, !.ret = ret]
  BY DEF Archived
<1> QED
  <2> HIDE DEF base, src, ret
  <2> QED
    BY <1>5, <1>6, <1>7 DEF ArchiveType

LEMMA ReducedType ==
    ASSUME NEW c \in ConfigMapType, NEW live \in SUBSET Pods,
           NEW u \in Uids, NEW p \in 0..MaxPeriod
    PROVE  Reduced(c, live, u, p) \in ConfigMapType
<1> DEFINE dead == DeadKeys(c, live, u, p)
           keys == [q \in Pods |-> IF IsCurrent(c.key[q], u, p) /\ q \in live
                                   THEN c.key[q] ELSE None]
           ret == [q \in Pods |-> RetiredAmt(c, q, u, p)
                                     + IF q \in dead THEN c.key[q].amt ELSE 0]
           can == [q \in Pods |-> KeyAmt(c, q, u, p) + RetiredAmt(c, q, u, p)]
<1>1. keys \in [Pods -> KeyType]
  BY ConstantsType DEF ConfigMapType
<1>2. \A q \in Pods : c.key[q].amt \in Nat
  BY DEF ConfigMapType, KeyType
<1>3. ret \in Vector /\ can \in Vector
  BY <1>2, AmountsType DEF Vector
<1>4. NoRetired \in [uid : 0..MaxUid, period : 0..MaxPeriod, amt : Vector]
  BY ConstantsType DEF ConfigMapType, NoConfigMap
<1>5. Archived(c, u, p) \in ArchiveType
  BY ArchivedType
<1> QED
  <2> HIDE DEF keys, ret, can, dead
  <2>1. [key |-> keys,
         retired |-> IF dead # {} \/ IsCurrent(c.retired, u, p)
                     THEN [uid |-> u, period |-> p, amt |-> ret] ELSE NoRetired,
         canonical |-> [has |-> TRUE, amt |-> can],
         previous |-> Archived(c, u, p)] \in ConfigMapType
    BY <1>1, <1>3, <1>4, <1>5 DEF ConfigMapType, Uids
  <2> QED
    BY <2>1 DEF Reduced, keys, ret, can, dead

LEMMA StoreType ==
    ASSUME TypeOK, NEW r \in Pods, NEW u \in Uids, NEW l \in LedgerType, Store(r, u, l)
    PROVE  led' \in [Pods -> LedgerType] /\ superseded' \in [Pods -> SUBSET Uids]
<1>1. {led[r].uid} \ {0, u} \subseteq Uids
  BY DEF TypeOK, LedgerType, Uids
<1>2. CASE u \in superseded[r]
  BY <1>2 DEF TypeOK, Store
<1>3. CASE u \notin superseded[r]
  <2>1. led' = [led EXCEPT ![r] = l]
    BY <1>3 DEF Store
  <2>2. superseded' = [superseded EXCEPT ![r] = @ \cup ({led[r].uid} \ {0, u})]
    BY <1>3 DEF Store
  <2>3. superseded[r] \cup ({led[r].uid} \ {0, u}) \in SUBSET Uids
    BY <1>1 DEF TypeOK
  <2> QED
    BY <2>1, <2>2, <2>3 DEF TypeOK
<1> QED
  BY <1>2, <1>3

-----------------------------------------------------------------------------
(* The type invariant *)

LEMMA TypeInit == Init => TypeOK
<1>1. \A r \in Pods : {} \in SUBSET Uids
  OBVIOUS
<1> QED
  BY <1>1, ConstantsType, BoundsAssumption DEF Init, TypeOK, Periods, Uids

(* Each action keeps every variable in its type. *)
LEMMA TypeNext == TypeOK /\ TagsForward /\ [Next]_vars => TypeOK'
<1> SUFFICES ASSUME TypeOK, TagsForward, [Next]_vars PROVE TypeOK'
  OBVIOUS
<1> USE DEF replica, history
<1>1. ASSUME NEW r \in Pods, Start(r) PROVE TypeOK'
  <2>1. cm.canonical.amt \in Vector
    BY DEF TypeOK, ConfigMapType
  <2>2. [uid |-> uid, period |-> period, own |-> 0, peers |-> cm.canonical.amt,
         seeded |-> TRUE] \in LedgerType
    BY <2>1, BoundsAssumption DEF LedgerType, TypeOK, Uids, Periods
  <2> QED
    BY <1>1, <2>2, ConstantsType DEF Start, TypeOK, Uids
<1>2. ASSUME NEW r \in Pods, SeeProvider(r) PROVE TypeOK'
  BY <1>2 DEF SeeProvider, TypeOK, Uids
<1>3. ASSUME NEW r \in Pods, CallStart(r), seen[r] \in Uids PROVE TypeOK'
  <2>1. LedgerFor(led[r], seen[r], period) \in LedgerType
    BY <1>3, LedgerForType DEF TypeOK
  <2>2. led' \in [Pods -> LedgerType] /\ superseded' \in [Pods -> SUBSET Uids]
    BY <1>3, <2>1, StoreType DEF CallStart, TypeOK
  <2>3. calls[r] \cup {seen[r]} \in SUBSET Uids
    BY <1>3 DEF TypeOK
  <2>4. calls' \in [Pods -> SUBSET Uids]
    BY <1>3, <2>3 DEF CallStart, TypeOK
  <2> QED
    BY <1>3, <2>2, <2>4 DEF CallStart, TypeOK
<1>4. ASSUME NEW r \in Pods, NEW u \in calls[r], NEW c \in Costs, CallEnd(r, u, c)
      PROVE TypeOK'
  <2>1. u \in Uids /\ c \in Nat
    BY CostsAssumption DEF TypeOK
  <2>2. LedgerFor(led[r], u, period) \in LedgerType
    BY <2>1, LedgerForType DEF TypeOK
  <2>3. [LedgerFor(led[r], u, period) EXCEPT !.own = @ + c] \in LedgerType
    BY <2>1, <2>2 DEF LedgerType
  <2>4. led' \in [Pods -> LedgerType] /\ superseded' \in [Pods -> SUBSET Uids]
    BY <1>4, <2>1, <2>3, StoreType DEF CallEnd, Add
  <2>5. paid' \in [Pods -> [Uids -> Nat]]
    BY <1>4, <2>1 DEF CallEnd, TypeOK
  <2> QED
    BY <1>4, <2>4, <2>5 DEF CallEnd, TypeOK
<1>5. ASSUME NEW r \in Pods PROVE OwnPartial(r) \in KeyType
  BY CentsType DEF OwnPartial, TypeOK, LedgerType, KeyType
<1>6. ASSUME NEW r \in Pods, PublishStart(r) PROVE TypeOK'
  BY <1>5, <1>6 DEF PublishStart, TypeOK
<1>7. ASSUME NEW r \in Pods, PublishEnd(r) PROVE TypeOK'
  <2>1. cm' \in ConfigMapType
    BY <1>7 DEF PublishEnd, TypeOK, ConfigMapType
  <2>2. wrote' \in [Uids -> [Periods -> [Pods -> Nat]]]
    <3> DEFINE u == pub[r].uid
               p == pub[r].period
    <3>1. pub[r].amt \in Nat
      BY DEF TypeOK, KeyType
    <3>2. wrote' = [wrote EXCEPT ![u] = [wrote[u] EXCEPT ![p] = [wrote[u][p] EXCEPT ![r] = pub[r].amt]]]
      BY <1>7 DEF PublishEnd
    <3> HIDE DEF u, p
    <3>3. CASE u \in Uids /\ p \in Periods
      <4>1. [wrote[u][p] EXCEPT ![r] = pub[r].amt] \in [Pods -> Nat]
        BY <3>1, <3>3 DEF TypeOK
      <4>2. [wrote[u] EXCEPT ![p] = [wrote[u][p] EXCEPT ![r] = pub[r].amt]] \in [Periods -> [Pods -> Nat]]
        BY <3>3, <4>1 DEF TypeOK
      <4> QED
        BY <3>2, <3>3, <4>2 DEF TypeOK
    <3>4. CASE u \in Uids /\ p \notin Periods
      <4>1. [wrote[u] EXCEPT ![p] = [wrote[u][p] EXCEPT ![r] = pub[r].amt]] = wrote[u]
        BY <3>4 DEF TypeOK
      <4> QED
        BY <3>2, <3>4, <4>1 DEF TypeOK
    <3>5. CASE u \notin Uids
      BY <3>2, <3>5 DEF TypeOK
    <3> QED
      BY <3>3, <3>4, <3>5
  <2> QED
    BY <1>7, <2>1, <2>2, ConstantsType DEF PublishEnd, TypeOK
<1>8. ASSUME NEW r \in Pods, PublishFail(r) PROVE TypeOK'
  BY <1>8, ConstantsType DEF PublishFail, TypeOK
<1>9. ASSUME NEW r \in Pods, FoldStart(r), seen[r] \in Uids PROVE TypeOK'
  <2>1. [uid |-> seen[r], period |-> period,
         view |-> FoldPartials(cm, r, seen[r], period)] \in FoldType
    BY <1>9, FoldPartialsType DEF TypeOK, FoldType
  <2> QED
    BY <1>9, <2>1 DEF FoldStart, TypeOK
<1>10. ASSUME NEW r \in Pods, NEW f \in fold[r], FoldEnd(r, f) PROVE TypeOK'
  <2>1. f.uid \in Uids /\ f.view \in Vector
    BY DEF TypeOK, FoldType
  <2>2. LedgerFor(led[r], f.uid, period) \in LedgerType
    BY <2>1, LedgerForType DEF TypeOK
  <2>3. [LedgerFor(led[r], f.uid, period) EXCEPT
            !.peers = IF f.period = period THEN f.view ELSE Zero, !.seeded = FALSE] \in LedgerType
    BY <2>1, <2>2, ConstantsType DEF LedgerType
  <2>4. led' \in [Pods -> LedgerType] /\ superseded' \in [Pods -> SUBSET Uids]
    BY <1>10, <2>1, <2>3, StoreType DEF FoldEnd, FoldPeers
  <2> QED
    BY <1>10, <2>4 DEF FoldEnd, TypeOK
<1>11. ASSUME NEW r \in Pods, Stop(r) \/ PodGone(r) PROVE TypeOK'
  BY <1>11 DEF Stop, PodGone, TypeOK
<1>12. ASSUME NEW r \in Pods, FinalPublish(r) PROVE TypeOK'
  BY <1>5, <1>12, ConstantsType DEF FinalPublish, TypeOK
<1>13. ASSUME NEW r \in Pods, Exit(r) \/ Crash(r) PROVE TypeOK'
  <2>1. Forget(r)
    BY <1>13 DEF Exit, Crash
  <2>2. /\ led' \in [Pods -> LedgerType] /\ superseded' \in [Pods -> SUBSET Uids]
        /\ calls' \in [Pods -> SUBSET Uids] /\ fold' \in [Pods -> SUBSET FoldType]
        /\ seen' \in [Pods -> 0..MaxUid]
    BY <2>1, ConstantsType, BoundsAssumption DEF Forget, TypeOK
  <2>3. CASE Exit(r)
    BY <2>2, <2>3 DEF Exit, TypeOK
  <2>4. CASE Crash(r)
    <3>1. pod' \in [Pods -> {"unborn", "running", "stopping", "exiting", "exited", "crashed", "gone"}]
      BY <2>4 DEF Crash, TypeOK
    <3>2. nCrashes' \in Nat
      BY <2>4 DEF Crash, TypeOK
    <3> QED
      BY <2>2, <2>4, <3>1, <3>2 DEF Crash, TypeOK
  <2> QED
    BY <1>13, <2>3, <2>4
<1>14. CASE ReduceList
  <2>1. [pc |-> "listed", live |-> LivePods, period |-> 0, cm |-> NoConfigMap] \in PassType
    BY ConstantsType, BoundsAssumption DEF PassType, LivePods
  <2> QED
    BY <1>14, <2>1 DEF ReduceList, TypeOK
<1>15. CASE ReduceRead
  <2>1. [pc |-> "read", live |-> red.live, period |-> period, cm |-> cm] \in PassType
    BY BoundsAssumption DEF TypeOK, PassType, Periods
  <2> QED
    BY <1>15, <2>1 DEF ReduceRead, TypeOK
<1>16. CASE ReduceWrite
  <2>1. Reduced(red.cm, red.live, uid, red.period) \in ConfigMapType
    BY ReducedType DEF TypeOK, PassType
  <2>2. Reduced(red.cm, red.live, uid, red.period).canonical.amt \in Vector
    BY <2>1 DEF ConfigMapType
  <2> QED
    BY <1>16, <2>1, <2>2, ConstantsType DEF ReduceWrite, TypeOK
<1>17. CASE ReduceConflict
  BY <1>17, ConstantsType DEF ReduceConflict, TypeOK
<1>18. CASE Rollover
  BY <1>18, BoundsAssumption DEF Rollover, TypeOK, Periods
<1>19. CASE Recreate
  BY <1>19, ConstantsType, BoundsAssumption, SMTT(60) DEF Recreate, TypeOK, Uids
<1>20. CASE UNCHANGED vars
  BY <1>20 DEF vars, TypeOK
<1>21. ASSUME NEW r \in Pods, CallStart(r) \/ FoldStart(r) PROVE seen[r] \in Uids
  BY <1>21, BoundsAssumption DEF CallStart, FoldStart, Alive, Running, TagsForward, TypeOK, Uids
<1> QED
  BY <1>1, <1>2, <1>3, <1>4, <1>6, <1>7, <1>8, <1>9, <1>10, <1>11, <1>12, <1>13, <1>14,
     <1>15, <1>16, <1>17, <1>18, <1>19, <1>20, <1>21 DEF Next
=============================================================================
