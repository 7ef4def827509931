-------------------------- MODULE HardBudgetProofs --------------------------
(***************************************************************************)
(* Proofs about HardBudget, for any number of replicas, namespaces,        *)
(* requests and periods and any ceilings: every held slot has the one      *)
(* request that will free it, and spend passes a block threshold by no     *)
(* more than what was unseen or in flight when the last request was        *)
(* admitted.                                                               *)
(***************************************************************************)
EXTENDS HardBudget, SumTheorems

(* The fields of a ledger. *)
LedgerFields ==
    {"period", "own", "peers", "adm", "nextToken", "maxCost", "bucketStart", "bucketSum",
     "peakRate", "dirtySince", "lastFoldOK", "marginRaised"}

(* The part of a ledger that admission and settling rest on is typed; the  *)
(* amounts may be anything.                                                *)
LedgerShape(l) ==
    /\ l = [f \in LedgerFields |-> l[f]]
    /\ l.period \in Nat /\ l.nextToken \in Nat /\ l.adm \in [Keys -> Nat]
(* What a request in flight keeps of its admission. *)
RequestShape == [ns : Namespaces, keys : SUBSET Keys, token : Nat \ {0}, period : Nat]

(* SlotHasOwner, for one replica's ledger and requests. *)
Owned(l, hs) ==
    /\ \A h \in hs : h.token <= l.nextToken /\ h.period <= l.period
    /\ \A h, g \in hs : h.token = g.token => h = g
    /\ \A k \in Keys :
        /\ l.adm[k] # 0 => \E h \in hs :
            h.token = l.adm[k] /\ k \in h.keys /\ h.period = l.period
        /\ \A h \in hs : k \in h.keys /\ h.period = l.period => l.adm[k] = h.token

(* SlotHasOwner with the types it needs, and no ledger ahead of the clock:  *)
(* a rollover empties the slots, and only a request of an older period may  *)
(* then be in flight.                                                       *)
SlotInvariant ==
    /\ period \in Nat
    /\ led = [r \in Replicas |-> led[r]] /\ slotted \in [Replicas -> SUBSET RequestShape]
    /\ \A r \in Replicas :
        LedgerShape(led[r]) /\ led[r].period <= period /\ Owned(led[r], slotted[r])

-----------------------------------------------------------------------------
(* The operators on ledgers *)

(* ledgerFor rolls over to empty slots and keeps the token counter. *)
LEMMA LedgerForShape ==
    ASSUME NEW l, LedgerShape(l), period \in Nat
    PROVE  /\ LedgerShape(LedgerFor(l)) /\ LedgerFor(l).period = period
           /\ LedgerFor(l).nextToken = l.nextToken
           /\ LedgerFor(l).adm = IF l.period = period THEN l.adm ELSE NoSlots
<1>1. CASE l.period = period
  BY <1>1 DEF LedgerFor
<1>2. CASE l.period # period
  <2> DEFINE m == LedgerFor(l)
  <2>1. m = [l EXCEPT !.period = period, !.own = NoSpend, !.peers = NoSpend, !.adm = NoSlots,
                   !.maxCost = 0, !.bucketStart = Never, !.bucketSum = 0, !.peakRate = 0,
                   !.marginRaised = FALSE]
    BY <1>2 DEF LedgerFor
  <2>2. m = [f \in LedgerFields |-> m[f]]
    BY <2>1 DEF LedgerShape
  <2>3. m.period = period /\ m.nextToken = l.nextToken /\ m.adm = NoSlots
    BY <2>1 DEF LedgerShape, LedgerFields
  <2> QED
    BY <1>2, <2>2, <2>3 DEF LedgerShape, NoSlots
<1> QED
  BY <1>1, <1>2

(* Accounting for a cost leaves slots, tokens and the period alone. *)
LEMMA AccountShape ==
    ASSUME NEW l, LedgerShape(l), NEW n, NEW c
    PROVE  /\ LedgerShape(Account(l, n, c))
           /\ Account(l, n, c).period = l.period /\ Account(l, n, c).nextToken = l.nextToken
           /\ Account(l, n, c).adm = l.adm
<1>1. /\ LedgerShape(Track(l, c))
      /\ Track(l, c).period = l.period /\ Track(l, c).nextToken = l.nextToken
      /\ Track(l, c).adm = l.adm
  BY DEF Track, LedgerShape, LedgerFields
<1> QED
  BY <1>1 DEF Account, LedgerShape, LedgerFields
-----------------------------------------------------------------------------
(* What an admission and a settle do to the slots of one replica *)

(* Rolling the period over leaves no slot held, and none is owed to a       *)
(* request of an older period.                                              *)
LEMMA LedgerForOwned ==
    ASSUME NEW l, LedgerShape(l), period \in Nat, l.period <= period,
           NEW hs \in SUBSET RequestShape, Owned(l, hs)
    PROVE  Owned(LedgerFor(l), hs)
<1> DEFINE m == LedgerFor(l)
<1> SUFFICES Owned(m, hs)
  OBVIOUS
<1>1. /\ m.period = period /\ m.nextToken = l.nextToken
      /\ m.adm = IF l.period = period THEN l.adm ELSE NoSlots
  BY LedgerForShape
<1>2. \A h \in hs : h.period \in Nat /\ h.token \in Nat
  BY DEF RequestShape
<1>3. l.period \in Nat /\ l.nextToken \in Nat
  BY DEF LedgerShape
<1> HIDE DEF m
<1>4. CASE l.period = period
  BY <1>1, <1>4 DEF Owned
<1>5. CASE l.period # period
  <2>1. \A k \in Keys : m.adm[k] = 0
    BY <1>1, <1>5 DEF NoSlots
  <2>2. \A h \in hs : h.token <= m.nextToken /\ h.period < m.period
    BY <1>1, <1>2, <1>3, <1>5 DEF Owned
  <2> QED
    BY <1>1, <1>2, <2>1, <2>2 DEF Owned
<1> QED
  BY <1>4, <1>5

(* A request is given slots only when nobody holds them: Admit looks at    *)
(* every slot that a governing ceiling makes it take.                      *)
LEMMA SlotsAreFree ==
    ASSUME NEW l, NEW n \in Namespaces, Outcome(l, n) = "slot", NEW k \in Governed(l, n)
    PROVE  l.adm[k] = 0 /\ k \in Keys
<1>1. ~SlotHeld(l, n)
  BY DEF Outcome
<1>2. k \in {n, ClusterSlot} /\ Ceiling(k) > 0
  BY DEF Governed, InBoundary
<1> QED
  BY <1>1, <1>2 DEF SlotHeld, Ceiling, Keys

(* The new token is nobody else's, and the slots it is put in were free.   *)
LEMMA AdmitOwned ==
    ASSUME NEW l, LedgerShape(l), NEW hs \in SUBSET RequestShape, Owned(l, hs),
           NEW n \in Namespaces, NEW keys \in SUBSET Keys, \A k \in keys : l.adm[k] = 0,
           NEW m, m.period = l.period, m.nextToken = l.nextToken + 1,
           m.adm = [k \in Keys |-> IF k \in keys THEN l.nextToken + 1 ELSE l.adm[k]]
    PROVE  Owned(m, hs \cup {[ns |-> n, keys |-> keys, token |-> l.nextToken + 1, period |-> l.period]})
<1> DEFINE t == l.nextToken + 1
           new == [ns |-> n, keys |-> keys, token |-> t, period |-> l.period]
<1>1. /\ l.nextToken \in Nat /\ l.period \in Nat /\ t # 0 /\ \A k \in Keys : l.adm[k] \in Nat
  BY DEF LedgerShape
<1>2. \A h \in hs : h.token \in Nat /\ h.token # 0 /\ h.token < t /\ h.period <= l.period
  BY <1>1 DEF Owned, RequestShape
<1>3. new.token = t /\ new.period = l.period /\ new.keys = keys
  OBVIOUS
<1> HIDE DEF new, t
<1>4. \A h \in hs \cup {new} : h.token <= m.nextToken /\ h.period <= m.period
  BY <1>1, <1>2, <1>3 DEF t
<1>5. \A h, g \in hs \cup {new} : h.token = g.token => h = g
  BY <1>1, <1>2, <1>3 DEF Owned, t
<1>6. ASSUME NEW k \in Keys, m.adm[k] # 0
      PROVE  \E h \in hs \cup {new} : h.token = m.adm[k] /\ k \in h.keys /\ h.period = m.period
  BY <1>3, <1>6 DEF Owned, t
<1>7. ASSUME NEW k \in Keys, NEW h \in hs \cup {new}, k \in h.keys, h.period = m.period
      PROVE  m.adm[k] = h.token
  <2>1. CASE h = new
    BY <1>3, <1>7, <2>1 DEF t
  <2>2. CASE h \in hs
    <3>1. l.adm[k] = h.token
      BY <1>7, <2>2 DEF Owned
    <3>2. CASE k \in keys
      \* The slot was free, so it is not an older request's of this period.
      BY <1>2, <2>2, <3>1, <3>2
    <3>3. CASE k \notin keys
      BY <3>1, <3>3
    <3> QED
      BY <3>2, <3>3
  <2> QED
    BY <2>1, <2>2
<1> QED
  BY <1>4, <1>5, <1>6, <1>7 DEF Owned, new, t

(* A settle frees the slots that carry its token, which are exactly those   *)
(* that no other request owns.                                              *)
LEMMA SettleOwned ==
    ASSUME NEW l, LedgerShape(l), NEW hs \in SUBSET RequestShape, Owned(l, hs), NEW h \in hs,
           NEW m, m.period = l.period, m.nextToken = l.nextToken, m.adm = Freed(l, h)
    PROVE  Owned(m, hs \ {h})
<1>1. \A k \in Keys : m.adm[k] = IF l.period = h.period /\ k \in h.keys /\ l.adm[k] = h.token
                                 THEN 0 ELSE l.adm[k]
  BY DEF Freed
<1>2. \A g \in hs : g.token # 0
  BY DEF RequestShape
<1>3. ASSUME NEW k \in Keys, m.adm[k] # 0
      PROVE  \E g \in hs \ {h} : g.token = m.adm[k] /\ k \in g.keys /\ g.period = m.period
  <2>1. m.adm[k] = l.adm[k]
    BY <1>1, <1>3
  <2>2. PICK g \in hs : g.token = l.adm[k] /\ k \in g.keys /\ g.period = l.period
    BY <1>3, <2>1 DEF Owned
  <2>3. g # h
    BY <1>1, <1>3, <2>1, <2>2
  <2> QED
    BY <2>1, <2>2, <2>3
<1>4. ASSUME NEW k \in Keys, NEW g \in hs \ {h}, k \in g.keys, g.period = m.period
      PROVE  m.adm[k] = g.token
  <2>1. l.adm[k] = g.token
    BY <1>4 DEF Owned
  <2>2. g.token # h.token
    BY <1>4 DEF Owned
  <2> QED
    BY <1>1, <2>1, <2>2
<1> QED
  BY <1>3, <1>4 DEF Owned

-----------------------------------------------------------------------------
(* The invariant *)

(* Steps that change only amounts and signals of ledgers, if any, keep it. *)
LEMMA SlotsUntouched ==
    ASSUME SlotInvariant, UNCHANGED slotted, period' \in Nat, period' >= period,
           led' = [r \in Replicas |-> led'[r]],
           \A r \in Replicas : /\ LedgerShape(led'[r]) /\ led'[r].period = led[r].period
                               /\ led'[r].nextToken = led[r].nextToken /\ led'[r].adm = led[r].adm
    PROVE  SlotInvariant'
<1>1. \A r \in Replicas : led[r].period \in Nat /\ period \in Nat
  BY DEF SlotInvariant, LedgerShape
<1>2. \A r \in Replicas : led'[r].period <= period'
  BY <1>1 DEF SlotInvariant
<1>3. \A r \in Replicas : Owned(led'[r], slotted'[r])
  BY DEF SlotInvariant, Owned
<1> QED
  BY <1>2, <1>3 DEF SlotInvariant

(* A step of replica r that leaves the others' ledgers and requests alone. *)
LEMMA SlotsOfOne ==
    ASSUME SlotInvariant, UNCHANGED period, NEW r \in Replicas, NEW l, NEW hs \in SUBSET RequestShape,
           led' = [led EXCEPT ![r] = l], slotted' = [slotted EXCEPT ![r] = hs],
           LedgerShape(l), l.period <= period, Owned(l, hs)
    PROVE  SlotInvariant'
<1>1. \A q \in Replicas : /\ led'[q] = IF q = r THEN l ELSE led[q]
                          /\ slotted'[q] = IF q = r THEN hs ELSE slotted[q]
  BY DEF SlotInvariant
<1>2. led' = [q \in Replicas |-> led'[q]] /\ slotted' \in [Replicas -> SUBSET RequestShape]
  BY DEF SlotInvariant
<1>3. \A q \in Replicas :
        LedgerShape(led'[q]) /\ led'[q].period <= period' /\ Owned(led'[q], slotted'[q])
  BY <1>1 DEF SlotInvariant
<1> QED
  BY <1>2, <1>3 DEF SlotInvariant

(* A replica starts with no slot held and no request in flight. *)
LEMMA SlotInit == Init => SlotInvariant
<1> SUFFICES ASSUME Init PROVE SlotInvariant
  OBVIOUS
<1>1. LedgerShape(NewLedger) /\ NewLedger.period = 1 /\ NewLedger.adm = NoSlots
  BY DEF LedgerShape, LedgerFields, NewLedger, NoSlots
<1>2. Owned(NewLedger, {})
  BY <1>1 DEF Owned, NoSlots
<1> QED
  BY <1>1, <1>2 DEF Init, SlotInvariant

(* Every step keeps each held slot with the one request that frees it. *)
LEMMA SlotStep == SlotInvariant /\ [Next]_vars => SlotInvariant'
<1> SUFFICES ASSUME SlotInvariant, [Next]_vars PROVE SlotInvariant'
  OBVIOUS
<1>1. ASSUME NEW r \in Replicas
      PROVE  /\ LedgerShape(led[r]) /\ led[r].period <= period /\ period \in Nat
             /\ slotted[r] \in SUBSET RequestShape /\ Owned(led[r], slotted[r])
             /\ slotted = [slotted EXCEPT ![r] = slotted[r]]
  BY DEF SlotInvariant
\* The ledger of a replica after ledgerFor, which every operation starts with.
<1>2. ASSUME NEW r \in Replicas
      PROVE  /\ LedgerShape(LedgerFor(led[r])) /\ Owned(LedgerFor(led[r]), slotted[r])
             /\ LedgerFor(led[r]).period = period /\ LedgerFor(led[r]).period <= period
  <2>1. LedgerShape(LedgerFor(led[r])) /\ LedgerFor(led[r]).period = period
    BY <1>1, LedgerForShape
  <2>2. Owned(LedgerFor(led[r]), slotted[r])
    BY <1>1, LedgerForOwned
  <2> QED
    BY <1>1, <2>1, <2>2
\* An operation that leaves slots, tokens and the requests of a ledger alone.
<1>3. ASSUME NEW r \in Replicas, NEW l, LedgerShape(l), l.period = period,
             l.nextToken = LedgerFor(led[r]).nextToken, l.adm = LedgerFor(led[r]).adm,
             led' = [led EXCEPT ![r] = l], UNCHANGED <<period, slotted>>
      PROVE  SlotInvariant'
  <2>1. Owned(l, slotted[r])
    BY <1>2, <1>3 DEF Owned
  <2>2. l.period <= period /\ slotted' = [slotted EXCEPT ![r] = slotted[r]]
    BY <1>1, <1>2, <1>3
  <2> QED
    BY <1>1, <1>3, <2>1, <2>2, SlotsOfOne
<1>4. ASSUME NEW r \in Replicas, NEW n \in Namespaces, Reject(r, n) \/ AdmitFree(r, n)
      PROVE  SlotInvariant'
  BY <1>2, <1>3, <1>4 DEF Reject, AdmitFree
<1>5. ASSUME NEW r \in Replicas, NEW n \in Namespaces, AdmitSlot(r, n)
      PROVE  SlotInvariant'
  <2> DEFINE l == LedgerFor(led[r])
             keys == Governed(l, n)
             token == l.nextToken + 1
             new == [ns |-> n, keys |-> keys, token |-> token, period |-> l.period]
             m == led'[r]
  <2>1. LedgerShape(l) /\ Owned(l, slotted[r]) /\ l.period = period
    BY <1>2
  <2>2. keys \in SUBSET Keys /\ \A k \in keys : l.adm[k] = 0
    BY <1>5, SlotsAreFree DEF AdmitSlot
  <2>3. PICK b : m = [l EXCEPT !.nextToken = token,
                        !.adm = [k \in Keys |-> IF k \in keys THEN token ELSE l.adm[k]],
                        !.marginRaised = b]
    BY <1>5 DEF AdmitSlot, SlotInvariant, LedgerShape
  <2>4. led' = [led EXCEPT ![r] = m] /\ slotted' = [slotted EXCEPT ![r] = slotted[r] \cup {new}]
    BY <1>5 DEF AdmitSlot, SlotInvariant
  <2>5. l.nextToken \in Nat /\ l.period \in Nat /\ l.adm \in [Keys -> Nat]
    BY <2>1 DEF LedgerShape
  <2>6. slotted[r] \cup {new} \in SUBSET RequestShape
    BY <1>1, <2>2, <2>5 DEF RequestShape
  <2> HIDE DEF l, keys, m
  <2>7. /\ m.period = l.period /\ m.nextToken = token
        /\ m.adm = [k \in Keys |-> IF k \in keys THEN token ELSE l.adm[k]]
        /\ m = [f \in LedgerFields |-> m[f]]
    BY <2>1, <2>3 DEF LedgerShape, LedgerFields
  <2>8. LedgerShape(m) /\ m.period <= period
    BY <1>1, <2>1, <2>5, <2>7 DEF LedgerShape
  <2>9. Owned(m, slotted[r] \cup {new})
    BY <1>1, <2>1, <2>2, <2>7, AdmitOwned
  <2>10. UNCHANGED period
    BY <1>5 DEF AdmitSlot
  <2> QED
    BY <2>4, <2>6, <2>8, <2>9, <2>10, SlotsOfOne
<1>6. ASSUME NEW r \in Replicas, NEW n \in Namespaces, NEW c \in Costs, EndFree(r, n, c)
      PROVE  SlotInvariant'
  <2>1. CASE c = 0
    BY <1>1, <1>6, <2>1, SlotsUntouched DEF EndFree, SlotInvariant
  <2>2. CASE c # 0
    <3>1. led' = [led EXCEPT ![r] = Account(LedgerFor(led[r]), n, c)] /\ UNCHANGED <<period, slotted>>
      BY <1>6, <2>2 DEF EndFree, SlotInvariant
    <3> QED
      BY <1>2, <1>3, <3>1, AccountShape
  <2> QED
    BY <2>1, <2>2
<1>7. ASSUME NEW r \in Replicas, NEW h \in slotted[r], NEW c \in Costs, Settle(r, h, c)
      PROVE  SlotInvariant'
  <2> DEFINE l == LedgerFor(led[r])
             f == [l EXCEPT !.adm = Freed(l, h)]
             m == Account(f, h.ns, c)
  <2>1. LedgerShape(l) /\ Owned(l, slotted[r]) /\ l.period = period
    BY <1>2
  <2>2. led' = [led EXCEPT ![r] = m] /\ slotted' = [slotted EXCEPT ![r] = slotted[r] \ {h}]
    BY <1>7 DEF Settle, SlotInvariant
  <2>3. Freed(l, h) \in [Keys -> Nat]
    BY <2>1 DEF Freed, LedgerShape
  <2> HIDE DEF l
  <2>4. /\ LedgerShape(f) /\ f.period = l.period /\ f.nextToken = l.nextToken
        /\ f.adm = Freed(l, h)
    BY <2>1, <2>3 DEF LedgerShape, LedgerFields
  <2> HIDE DEF f
  <2>5. LedgerShape(m) /\ m.period = f.period /\ m.nextToken = f.nextToken /\ m.adm = f.adm
    BY <2>4, AccountShape
  <2> HIDE DEF m
  <2>6. Owned(m, slotted[r] \ {h})
    BY <1>1, <2>1, <2>4, <2>5, SettleOwned
  <2>7. m.period <= period /\ UNCHANGED period /\ slotted[r] \ {h} \in SUBSET RequestShape
    BY <1>1, <1>7, <2>1, <2>4, <2>5 DEF Settle
  <2> QED
    BY <2>2, <2>5, <2>6, <2>7, SlotsOfOne
<1>8. ASSUME NEW r \in Replicas, PublishEnd(r)
      PROVE  SlotInvariant'
  <2>1. PICK d : led' = [led EXCEPT ![r].dirtySince = d]
    BY <1>8 DEF PublishEnd
  <2>2. led' = [q \in Replicas |-> led'[q]]
    BY <2>1 DEF SlotInvariant
  <2>3. ASSUME NEW q \in Replicas
        PROVE  /\ LedgerShape(led'[q]) /\ led'[q].period = led[q].period
               /\ led'[q].nextToken = led[q].nextToken /\ led'[q].adm = led[q].adm
    <3>1. LedgerShape(led[q]) /\ led'[q] = IF q = r THEN [led[q] EXCEPT !.dirtySince = d] ELSE led[q]
      BY <2>1 DEF SlotInvariant
    <3> QED
      BY <3>1 DEF LedgerShape, LedgerFields
  <2>4. UNCHANGED <<period, slotted>> /\ period \in Nat
    BY <1>8 DEF PublishEnd, SlotInvariant
  <2> QED
    BY <2>2, <2>3, <2>4, SlotsUntouched
<1>9. ASSUME NEW r \in Replicas, Fold(r)
      PROVE  SlotInvariant'
  <2>1. PICK p : led' = [led EXCEPT ![r] = [LedgerFor(led[r]) EXCEPT !.peers = p, !.lastFoldOK = now]]
    BY <1>9 DEF Fold, SlotInvariant
  <2> DEFINE l == LedgerFor(led[r])
             m == [l EXCEPT !.peers = p, !.lastFoldOK = now]
  <2>2. LedgerShape(l) /\ l.period = period
    BY <1>2
  <2> HIDE DEF l
  <2>3. LedgerShape(m) /\ m.period = l.period /\ m.nextToken = l.nextToken /\ m.adm = l.adm
    BY <2>2 DEF LedgerShape, LedgerFields
  <2>4. led' = [led EXCEPT ![r] = m] /\ UNCHANGED <<period, slotted>>
    BY <1>9, <2>1 DEF Fold, l
  <2> HIDE DEF m
  <2> QED
    BY <1>3, <2>2, <2>3, <2>4 DEF l
<1>10. ASSUME UNCHANGED led, UNCHANGED slotted, period' \in Nat, period' >= period
       PROVE  SlotInvariant'
  BY <1>10, SlotsUntouched DEF SlotInvariant
<1>11. CASE (\E r \in Replicas : PublishStart(r) \/ PublishFail(r)) \/ Tick \/ Rollover
  <2>1. period \in Nat
    BY DEF SlotInvariant
  <2> QED
    BY <1>10, <1>11, <2>1 DEF PublishStart, PublishFail, Tick, Rollover
<1>12. CASE UNCHANGED vars
  <2>1. period \in Nat
    BY DEF SlotInvariant
  <2> QED
    BY <1>10, <1>12, <2>1 DEF vars
<1> QED
  BY <1>4, <1>5, <1>6, <1>7, <1>8, <1>9, <1>11, <1>12 DEF Next

(* In the hard budgets every held slot has exactly the one request in       *)
(* flight that will free it, for any number of replicas, namespaces,        *)
(* requests and periods (Admit and settle).                                 *)
THEOREM HeldSlotsAreOwned == Spec => []SlotHasOwner
<1>1. SlotInvariant => SlotHasOwner
  BY DEF SlotInvariant, SlotHasOwner, Owned
<1> QED
  BY SlotInit, SlotStep, <1>1, PTL DEF Spec

-----------------------------------------------------------------------------
(* The cap *)

(* What the cap rests on besides the code: no milder policy lies above a   *)
(* block.  decide lets the highest threshold reached win, so a warn above  *)
(* a block would admit what the block refuses.                             *)
BlockOnTop == \A p \in Policies : p.at >= MinBlockAt => p.action = "block"

(* Spend per namespace. *)
Amounts == [Namespaces -> Nat]
(* The largest cost of a request. *)
MaxCost == Max(Costs)
(* The namespaces whose spend counts against ceiling k. *)
Within(k) == IF k = ClusterSlot THEN Namespaces ELSE {k}
(* The spend t that counts against ceiling k. *)
TotalOf(t, k) == IF k = ClusterSlot THEN SumOver(t, Namespaces) ELSE t[k]

(* Requests of one replica that count against ceiling k. *)
Running(f, hs, k) == SumOver(f, Within(k)) + Cardinality({h \in hs : h.ns \in Within(k)})

(* The amounts that the cap adds up are naturals, and finitely many        *)
(* requests hold a slot.                                                   *)
AmountTypes ==
    /\ free \in [Replicas -> Amounts] /\ total \in Amounts /\ exposure \in [Keys -> Int]
    /\ \A r \in Replicas : IsFiniteSet(slotted[r])
    /\ \A r \in Replicas : led[r].own \in Amounts /\ led[r].peers \in Amounts
    /\ \A r \in Replicas : pub[r].spend \in Amounts /\ cm[r].spend \in Amounts
    /\ pub = [r \in Replicas |-> pub[r]] /\ cm = [r \in Replicas |-> cm[r]]

(* Were every request in flight to end with the largest cost, spend would  *)
(* still be within the bound of HardCap.                                   *)
LoadBounded ==
    \A k \in Keys : Ceiling(k) > 0 =>
        100 * (TotalOf(total, k) + MaxCost * InFlight(k)) < MinBlockAt * Ceiling(k) + 100 * exposure[k]

(* The inductive invariant of the cap. *)
CapInvariant == SlotInvariant /\ AmountTypes /\ LoadBounded

-----------------------------------------------------------------------------
(* Sums and constants *)

(* The sums of HardBudget are those of SumTheorems. *)
LEMMA SumOverFn ==
    ASSUME NEW f, NEW S
    PROVE  SumOver(f, S) = FnSum(f, S)
  BY DEF SumOver, FnSum

(* Finitely many namespaces count against a ceiling. *)
LEMMA WithinFinite ==
    ASSUME NEW k \in Keys
    PROVE  IsFiniteSet(Within(k)) /\ Within(k) \subseteq Namespaces
  BY ReplicasAssumption, FS_Singleton DEF Within, Keys

(* Spend adds up to a natural. *)
LEMMA SumInNat ==
    ASSUME NEW f \in Amounts, NEW k \in Keys
    PROVE  SumOver(f, Within(k)) \in Nat
<1>1. \A n \in Within(k) : f[n] \in Nat
  BY WithinFinite DEF Amounts
<1> QED
  BY <1>1, WithinFinite, SumOverFn, FnSumNonNegative

(* Changing one namespace's amount by d changes the sums it is part of. *)
LEMMA SumUpdate ==
    ASSUME NEW f \in Amounts, NEW n \in Namespaces, NEW d \in Int,
           NEW g \in Amounts, g[n] = f[n] + d, \A m \in Namespaces \ {n} : g[m] = f[m], NEW k \in Keys
    PROVE  SumOver(g, Within(k)) = SumOver(f, Within(k)) + (IF n \in Within(k) THEN d ELSE 0)
<1>1. \A m \in Within(k) : f[m] \in Int /\ g[m] \in Int /\ f[m] \in Nat
  BY WithinFinite DEF Amounts
<1>2. CASE n \in Within(k)
  <2>1. g[n] - f[n] = d /\ \A m \in Within(k) \ {n} : f[m] = g[m]
    BY <1>1, <1>2, WithinFinite DEF Amounts
  <2>2. FnSum(g, Within(k)) = FnSum(f, Within(k)) + (g[n] - f[n])
    <3>1. IsFiniteSet(Within(k)) /\ \A m \in Within(k) : f[m] \in Int /\ g[m] \in Int
      BY <1>1, WithinFinite
    <3>2. \A m \in Within(k) \ {n} : f[m] = g[m]
      BY <2>1
    <3> QED
      BY <1>2, <3>1, <3>2, FnSumChange
  <2> QED
    BY <1>2, <2>1, <2>2, SumOverFn
<1>3. CASE n \notin Within(k)
  <2>1. \A m \in Within(k) : f[m] = g[m]
    BY <1>3, WithinFinite DEF Amounts
  <2>2. FnSum(f, Within(k)) = FnSum(g, Within(k))
    BY <2>1, WithinFinite, FnSumSame
  <2>3. SumOver(f, Within(k)) \in Nat
    BY SumInNat
  <2> QED
    BY <1>3, <2>2, <2>3, SumOverFn
<1> QED
  BY <1>2, <1>3

(* The spend that counts against a ceiling is a natural. *)
LEMMA TotalTypes ==
    ASSUME NEW t \in Amounts, NEW k \in Keys
    PROVE  TotalOf(t, k) \in Nat
<1>1. CASE k = ClusterSlot
  BY <1>1, SumInNat DEF TotalOf, Within
<1>2. CASE k # ClusterSlot
  BY <1>2 DEF TotalOf, Keys, Amounts
<1> QED
  BY <1>1, <1>2

(* Spend of one namespace counts once against its own ceiling and once     *)
(* against the cluster's.                                                  *)
LEMMA TotalUpdate ==
    ASSUME NEW t \in Amounts, NEW n \in Namespaces, NEW c \in Nat, NEW k \in Keys
    PROVE  /\ [t EXCEPT ![n] = t[n] + c] \in Amounts
           /\ TotalOf([t EXCEPT ![n] = t[n] + c], k)
                = TotalOf(t, k) + (IF n \in Within(k) THEN c ELSE 0)
<1> DEFINE u == [t EXCEPT ![n] = t[n] + c]
<1>1. u \in Amounts
  BY DEF Amounts
<1>2. CASE k = ClusterSlot
  <2>1. SumOver(u, Within(k)) = SumOver(t, Within(k)) + (IF n \in Within(k) THEN c ELSE 0)
    <3>1. u[n] = t[n] + c /\ \A m \in Namespaces \ {n} : u[m] = t[m]
      BY DEF Amounts
    <3> HIDE DEF u
    <3> QED
      BY <1>1, <3>1, SumUpdate
  <2> QED
    BY <1>1, <1>2, <2>1 DEF TotalOf, Within
<1>3. CASE k # ClusterSlot
  BY <1>1, <1>3 DEF TotalOf, Within, Amounts, Keys
<1> QED
  BY <1>2, <1>3

(* No request costs more than MaxCost. *)
LEMMA CostsBounded == MaxCost \in Nat /\ \A c \in Costs : c \in Nat /\ c <= MaxCost
<1>1. \E m \in Costs : \A n \in Costs : n <= m
  BY CostsAssumption, GreatestInteger
<1>2. \E m \in Costs : \A n \in Costs : m >= n
  BY <1>1, CostsAssumption
<1> QED
  BY <1>2, CostsAssumption DEF MaxCost, Max

(* The lowest block threshold is a policy's. *)
LEMMA MinBlockIn == MinBlockAt \in 1..100 /\ \E p \in Policies : p.at = MinBlockAt /\ p.action = "block"
<1> DEFINE blocks == {p \in Policies : p.action = "block"}
           ats == {p.at : p \in blocks}
<1>1. ats \in SUBSET Nat /\ ats # {}
  BY PoliciesAssumption
<1>2. PICK m \in ats : \A n \in ats : m <= n
  <2> HIDE DEF ats
  <2> QED
    BY <1>1, LeastNatural
<1>3. \E p \in blocks : \A q \in blocks : p.at <= q.at
  BY <1>2
<1>4. MinBlockAt = (CHOOSE p \in blocks : \A q \in blocks : p.at <= q.at).at
  BY DEF MinBlockAt
<1>5. \A p \in blocks : p.at \in 1..100
  BY PoliciesAssumption
<1> HIDE DEF blocks
<1>6. \E p \in blocks : p.at = MinBlockAt
  BY <1>3, <1>4
<1> QED
  BY <1>5, <1>6 DEF blocks

(* A request that is not refused was below every block threshold. *)
LEMMA AdmittedBelow ==
    ASSUME BlockOnTop, NEW l, NEW n \in Namespaces, Action(l, n) # "block", NEW k \in {n, ClusterSlot}
    PROVE  ~Reached(l, k, MinBlockAt)
<1> SUFFICES ASSUME Reached(l, k, MinBlockAt)
             PROVE  FALSE
  OBVIOUS
<1> DEFINE hit == {p \in Policies : Reached(l, n, p.at) \/ Reached(l, ClusterSlot, p.at)}
           ats == {p.at : p \in hit}
<1>1. PICK b \in Policies : b.at = MinBlockAt /\ b.action = "block"
  BY MinBlockIn
<1>2. b \in hit
  BY <1>1
<1>3. ats \in SUBSET Nat /\ ats # {} /\ ats \in SUBSET (1..100)
  BY <1>2, PoliciesAssumption
<1>4. IsFiniteSet(1..100)
  <2>1. \A S \in SUBSET Nat, x \in Nat : (\A s \in S : s <= x) => IsFiniteSet(S)
    BY FS_BoundedSetOfNaturals
  <2>2. 1..100 \in SUBSET Nat /\ 100 \in Nat /\ \A s \in 1..100 : s <= 100
    OBVIOUS
  <2> QED
    BY <2>1, <2>2
<1>5. PICK m \in ats : \A a \in ats : a <= m
  <2> HIDE DEF ats
  <2>1. IsFiniteSet(ats)
    BY <1>3, <1>4, FS_Subset
  <2> QED
    BY <1>3, <2>1, GreatestInteger
<1>6. \E p \in hit : \A q \in hit : q.at <= p.at
  BY <1>5
<1> DEFINE top == CHOOSE p \in hit : \A q \in hit : q.at <= p.at
<1>7. Action(l, n) = top.action
  BY <1>2 DEF Action
<1>8. top \in hit /\ \A q \in hit : q.at <= top.at
  <2> HIDE DEF hit
  <2> QED
    BY <1>6
<1>9. hit \subseteq Policies
  OBVIOUS
<1> HIDE DEF hit, top
<1>10. top \in Policies /\ top.at >= MinBlockAt
  BY <1>1, <1>2, <1>8, <1>9, PoliciesAssumption
<1> QED
  BY <1>7, <1>10 DEF BlockOnTop
-----------------------------------------------------------------------------
(* Requests in flight *)

(* The requests that count against a ceiling can be counted. *)
LEMMA RunningTypes ==
    ASSUME NEW f \in Amounts, NEW hs, IsFiniteSet(hs), NEW k \in Keys
    PROVE  Running(f, hs, k) \in Nat /\ IsFiniteSet({h \in hs : h.ns \in Within(k)})
<1>1. IsFiniteSet({h \in hs : h.ns \in Within(k)})
  BY FS_Subset
<1>2. Cardinality({h \in hs : h.ns \in Within(k)}) \in Nat
  BY <1>1, FS_CardinalityType
<1> QED
  BY <1>1, <1>2, SumInNat DEF Running

(* A request of namespace n without a slot starts: f becomes g. *)
LEMMA RunningFree ==
    ASSUME NEW f \in Amounts, NEW hs, IsFiniteSet(hs), NEW k \in Keys, NEW n \in Namespaces,
           NEW g \in Amounts, g[n] = f[n] + 1, \A m \in Namespaces \ {n} : g[m] = f[m]
    PROVE  Running(g, hs, k) = Running(f, hs, k) + (IF n \in Within(k) THEN 1 ELSE 0)
<1>1. SumOver(g, Within(k)) = SumOver(f, Within(k)) + (IF n \in Within(k) THEN 1 ELSE 0)
  BY SumUpdate
<1>2. SumOver(f, Within(k)) \in Nat
  BY SumInNat
<1>3. Cardinality({h \in hs : h.ns \in Within(k)}) \in Nat
  BY RunningTypes, FS_CardinalityType
<1> QED
  BY <1>1, <1>2, <1>3 DEF Running

(* A request with a slot starts. *)
LEMMA RunningMore ==
    ASSUME NEW f \in Amounts, NEW hs, IsFiniteSet(hs), NEW k \in Keys, NEW h, h \notin hs
    PROVE  /\ IsFiniteSet(hs \cup {h})
           /\ Running(f, hs \cup {h}, k) = Running(f, hs, k) + (IF h.ns \in Within(k) THEN 1 ELSE 0)
<1> DEFINE S == {g \in hs : g.ns \in Within(k)}
           T == {g \in hs \cup {h} : g.ns \in Within(k)}
<1>1. IsFiniteSet(S) /\ Cardinality(S) \in Nat /\ IsFiniteSet(hs \cup {h})
  BY RunningTypes, FS_CardinalityType, FS_AddElement
<1>2. T = IF h.ns \in Within(k) THEN S \cup {h} ELSE S
  OBVIOUS
<1>3. h \notin S
  OBVIOUS
<1>4. Running(f, hs \cup {h}, k) = SumOver(f, Within(k)) + Cardinality(T)
  BY DEF Running
<1>5. Running(f, hs, k) = SumOver(f, Within(k)) + Cardinality(S)
  BY DEF Running
<1> HIDE DEF S, T
<1>6. Cardinality(T) = Cardinality(S) + (IF h.ns \in Within(k) THEN 1 ELSE 0)
  <2>1. Cardinality(S \cup {h}) = Cardinality(S) + 1
    BY <1>1, <1>3, FS_AddElement
  <2> QED
    BY <1>1, <1>2, <2>1
<1>7. SumOver(f, Within(k)) \in Nat
  BY SumInNat
<1> QED
  BY <1>1, <1>4, <1>5, <1>6, <1>7

(* A request with a slot ends. *)
LEMMA RunningLess ==
    ASSUME NEW f \in Amounts, NEW hs, IsFiniteSet(hs), NEW k \in Keys, NEW h \in hs
    PROVE  /\ IsFiniteSet(hs \ {h})
           /\ Running(f, hs, k) = Running(f, hs \ {h}, k) + (IF h.ns \in Within(k) THEN 1 ELSE 0)
<1>1. IsFiniteSet(hs \ {h}) /\ h \notin hs \ {h} /\ (hs \ {h}) \cup {h} = hs
  BY FS_Subset
<1> QED
  BY <1>1, RunningMore

(* A step of one replica changes what is in flight by what it changes there. *)
LEMMA InFlightChange ==
    ASSUME free \in [Replicas -> Amounts], free' \in [Replicas -> Amounts],
           \A q \in Replicas : IsFiniteSet(slotted[q]) /\ IsFiniteSet(slotted'[q]),
           NEW r \in Replicas, NEW k \in Keys,
           \A q \in Replicas \ {r} : free'[q] = free[q] /\ slotted'[q] = slotted[q]
    PROVE  /\ InFlight(k) \in Nat /\ InFlight(k)' \in Nat
           /\ InFlight(k)' = InFlight(k)
                + (Running(free'[r], slotted'[r], k) - Running(free[r], slotted[r], k))
<1> DEFINE a == [q \in Replicas |-> Running(free[q], slotted[q], k)]
           b == [q \in Replicas |-> Running(free'[q], slotted'[q], k)]
<1>1. \A q \in Replicas : Running(free[q], slotted[q], k) \in Nat /\ Running(free'[q], slotted'[q], k) \in Nat
  BY RunningTypes
<1>2. InFlight(k) = FnSum(a, Replicas)
  BY SumOverFn DEF InFlight, Running, Within
<1>3. InFlight(k)' = FnSum(b, Replicas)
  BY SumOverFn DEF InFlight, Running, Within
<1>4. /\ \A q \in Replicas : a[q] \in Int /\ b[q] \in Int /\ a[q] \in Nat /\ b[q] \in Nat
      /\ \A q \in Replicas \ {r} : a[q] = b[q]
      /\ a[r] = Running(free[r], slotted[r], k) /\ b[r] = Running(free'[r], slotted'[r], k)
  BY <1>1
<1> HIDE DEF a, b
<1>5. FnSum(b, Replicas) = FnSum(a, Replicas) + (b[r] - a[r])
  BY <1>4, ReplicasAssumption, FnSumChange
<1>6. FnSum(a, Replicas) \in Nat /\ FnSum(b, Replicas) \in Nat
  BY <1>4, ReplicasAssumption, FnSumNonNegative
<1> QED
  BY <1>2, <1>3, <1>4, <1>5, <1>6

-----------------------------------------------------------------------------
(* The invariant *)

(* What a ledger shows as spent is an amount. *)
LEMMA SpentTypes ==
    ASSUME NEW l, l.own \in Amounts, l.peers \in Amounts, NEW k \in Keys
    PROVE  Spent(l, k) \in Nat
<1>1. CASE k = ClusterSlot
  <2>1. Within(k) = Namespaces
    BY <1>1 DEF Within
  <2>2. SumOver(l.own, Namespaces) \in Nat /\ SumOver(l.peers, Namespaces) \in Nat
    BY <2>1, SumInNat
  <2> QED
    BY <1>1, <2>2 DEF Spent, ClusterSpent
<1>2. CASE k # ClusterSlot
  BY <1>2 DEF Spent, Keys, Amounts
<1> QED
  BY <1>1, <1>2

(* The load at an admission is within what the admission's history allows. *)
LEMMA AdmissionBounded ==
    ASSUME BlockOnTop, NEW l, l.own \in Amounts, l.peers \in Amounts, NEW n \in Namespaces,
           Action(l, n) # "block", NEW k \in {n, ClusterSlot}, Ceiling(k) > 0,
           total \in Amounts, InFlight(k) \in Nat
    PROVE  100 * (TotalOf(total, k) + MaxCost * (InFlight(k) + 1))
             < MinBlockAt * Ceiling(k) + 100 * (Larger(0, Unseen(l, k)) + MaxCost * (InFlight(k) + 1))
<1>1. k \in Keys
  BY DEF Keys
<1>2. ~Reached(l, k, MinBlockAt)
  BY AdmittedBelow
<1> DEFINE s == Spent(l, k)
           t == TotalOf(total, k)
           c == MinBlockAt * Ceiling(k)
           x == MaxCost * (InFlight(k) + 1)
<1>3. s \in Nat /\ t \in Nat
  BY <1>1, SpentTypes, TotalTypes
<1>4. c \in Int /\ x \in Int
  <2>1. MinBlockAt \in Int /\ Ceiling(k) \in Int
    BY MinBlockIn, CeilingsAssumption DEF Ceiling
  <2> QED
    BY <2>1, CostsBounded
<1>5. 100 * s < c
  <2>1. ~(100 * s >= c)
    BY <1>2 DEF Reached
  <2> QED
    BY <1>3, <1>4, <2>1
<1>6. Larger(0, Unseen(l, k)) = IF 0 >= t - s THEN 0 ELSE t - s
  BY DEF Larger, Unseen, TotalOf
<1> HIDE DEF s, t, c, x
<1>7. 100 * (t + x) < c + 100 * ((IF 0 >= t - s THEN 0 ELSE t - s) + x)
  BY <1>3, <1>4, <1>5
<1> QED
  BY <1>6, <1>7 DEF s, t, c, x

(* So can those of all the replicas. *)
LEMMA InFlightTypes ==
    ASSUME AmountTypes, NEW k \in Keys
    PROVE  InFlight(k) \in Nat
<1> DEFINE a == [q \in Replicas |-> Running(free[q], slotted[q], k)]
<1>1. InFlight(k) = FnSum(a, Replicas)
  BY SumOverFn DEF InFlight, Running, Within
<1>2. \A q \in Replicas : a[q] \in Nat
  BY RunningTypes DEF AmountTypes
<1> HIDE DEF a
<1> QED
  BY <1>1, <1>2, ReplicasAssumption, FnSumNonNegative

(* At the start there is no spend and no request, which is below every     *)
(* threshold.                                                              *)
LEMMA CapInit == Init => CapInvariant
<1> SUFFICES ASSUME Init PROVE CapInvariant
  OBVIOUS
<1>1. NoSpend \in Amounts
  BY DEF NoSpend, Amounts
<1>2. AmountTypes
  BY <1>1, FS_EmptySet DEF Init, AmountTypes, NewLedger, NoPublish
<1>3. ASSUME NEW k \in Keys, Ceiling(k) > 0
      PROVE  100 * (TotalOf(total, k) + MaxCost * InFlight(k)) < MinBlockAt * Ceiling(k) + 100 * exposure[k]
  <2>1. SumOver(NoSpend, Within(k)) = 0
    <3>1. \A n \in Within(k) : NoSpend[n] = 0
      BY WithinFinite DEF NoSpend
    <3> QED
      BY <3>1, WithinFinite, SumOverFn, FnSumZero
  <2>2. TotalOf(total, k) = 0
    BY <2>1 DEF Init, TotalOf, Within, NoSpend, Keys
  <2>3. \A q \in Replicas : Running(free[q], slotted[q], k) = 0
    BY <2>1, FS_EmptySet DEF Init, Running
  <2> DEFINE a == [q \in Replicas |-> Running(free[q], slotted[q], k)]
  <2>4. InFlight(k) = FnSum(a, Replicas)
    BY SumOverFn DEF InFlight, Running, Within
  <2>5. \A q \in Replicas : a[q] = 0
    BY <2>3
  <2> HIDE DEF a
  <2>6. InFlight(k) = 0
    BY <2>4, <2>5, ReplicasAssumption, FnSumZero
  <2>7. MinBlockAt * Ceiling(k) > 0 /\ MinBlockAt * Ceiling(k) \in Int
    BY <1>3, MinBlockIn, CeilingsAssumption DEF Ceiling
  <2>8. exposure[k] = 0
    BY DEF Init
  <2>9. MaxCost * 0 = 0
    BY CostsBounded
  <2> HIDE DEF MaxCost
  <2> QED
    BY <2>2, <2>6, <2>7, <2>8, <2>9
<1> QED
  BY <1>2, <1>3, SlotInit DEF CapInvariant, LoadBounded

(* A request of namespace n ends with cost c: what it costs was allowed for. *)
LEMMA EndBounded ==
    ASSUME AmountTypes, free' \in [Replicas -> Amounts], \A q \in Replicas : IsFiniteSet(slotted'[q]),
           LoadBounded, UNCHANGED exposure, NEW r \in Replicas, NEW n \in Namespaces, NEW c \in Costs,
           \A q \in Replicas \ {r} : free'[q] = free[q] /\ slotted'[q] = slotted[q],
           \A k \in Keys : Running(free[r], slotted[r], k)
                             = Running(free'[r], slotted'[r], k) + (IF n \in Within(k) THEN 1 ELSE 0),
           total' = [total EXCEPT ![n] = total[n] + c]
    PROVE  LoadBounded'
<1> SUFFICES ASSUME NEW k \in Keys, Ceiling(k) > 0
             PROVE  100 * (TotalOf(total', k) + MaxCost * InFlight(k)') < MinBlockAt * Ceiling(k) + 100 * exposure[k]
  BY DEF LoadBounded, TotalOf, Ceiling, MaxCost, MinBlockAt
<1> DEFINE one == IF n \in Within(k) THEN 1 ELSE 0
           f == InFlight(k)
           g == InFlight(k)'
           t == TotalOf(total, k)
           u == TotalOf(total', k)
<1>1. f \in Nat /\ g \in Nat
      /\ g = f + (Running(free'[r], slotted'[r], k) - Running(free[r], slotted[r], k))
  BY InFlightChange DEF AmountTypes
<1>2. Running(free'[r], slotted'[r], k) \in Nat
  BY RunningTypes DEF AmountTypes
<1>3. f = g + one
  BY <1>1, <1>2
<1>4. t \in Nat /\ u = t + (IF n \in Within(k) THEN c ELSE 0)
  <2>1. total \in Amounts /\ c \in Nat
    BY CostsBounded DEF AmountTypes
  <2>2. TotalOf([total EXCEPT ![n] = total[n] + c], k)
          = TotalOf(total, k) + (IF n \in Within(k) THEN c ELSE 0)
    BY <2>1, TotalUpdate
  <2> QED
    BY <2>1, <2>2, TotalTypes
<1>5. MaxCost * f = MaxCost * g + (IF n \in Within(k) THEN MaxCost ELSE 0)
  BY <1>1, <1>3, CostsBounded
<1>6. c \in Nat /\ c <= MaxCost /\ MaxCost \in Nat /\ MaxCost * f \in Int /\ MaxCost * g \in Int
  BY <1>1, CostsBounded
<1>7. u + MaxCost * g <= t + MaxCost * f /\ u \in Int
  BY <1>4, <1>5, <1>6
<1>8. 100 * (t + MaxCost * f) < MinBlockAt * Ceiling(k) + 100 * exposure[k]
  BY DEF LoadBounded
<1>9. MinBlockAt * Ceiling(k) \in Int /\ exposure[k] \in Int
  BY MinBlockIn, CeilingsAssumption DEF Ceiling, AmountTypes
<1> DEFINE x == MaxCost * f
           y == MaxCost * g
           z == MinBlockAt * Ceiling(k)
<1>10. x \in Int /\ y \in Int /\ z \in Int /\ u + y <= t + x /\ 100 * (t + x) < z + 100 * exposure[k]
  BY <1>6, <1>7, <1>8, <1>9
<1> HIDE DEF t, u, x, y, z
<1>11. 100 * (u + y) < z + 100 * exposure[k]
  BY <1>4, <1>7, <1>9, <1>10
<1> QED
  BY <1>11 DEF u, y, z

(* What an admission records as exposure is a number. *)
LEMMA ExposureTyped ==
    ASSUME NEW l, l.own \in Amounts, l.peers \in Amounts, NEW k \in Keys, total \in Amounts, InFlight(k) \in Nat
    PROVE  Larger(0, Unseen(l, k)) + MaxCost * (InFlight(k) + 1) \in Int
<1>1. MaxCost * (InFlight(k) + 1) \in Int
  BY CostsBounded
<1>2. Spent(l, k) \in Nat /\ TotalOf(total, k) \in Nat
  BY SpentTypes, TotalTypes
<1>3. Larger(0, Unseen(l, k)) \in Int
  BY <1>2 DEF Larger, Unseen, TotalOf
<1> QED
  BY <1>1, <1>3

(* A request of namespace n is admitted to replica r with ledger l. *)
LEMMA AdmitBounded ==
    ASSUME BlockOnTop, AmountTypes, free' \in [Replicas -> Amounts],
           \A q \in Replicas : IsFiniteSet(slotted'[q]), LoadBounded, UNCHANGED total,
           NEW r \in Replicas, NEW n \in Namespaces,
           \A q \in Replicas \ {r} : free'[q] = free[q] /\ slotted'[q] = slotted[q],
           \A k \in Keys : Running(free'[r], slotted'[r], k)
                             = Running(free[r], slotted[r], k) + (IF n \in Within(k) THEN 1 ELSE 0),
           NEW l, l.own \in Amounts, l.peers \in Amounts, Action(l, n) # "block", Expose(l, n)
    PROVE  LoadBounded' /\ exposure' \in [Keys -> Int]
<1>1. ASSUME NEW k \in Keys
      PROVE  /\ InFlight(k) \in Nat /\ InFlight(k)' = InFlight(k) + (IF n \in Within(k) THEN 1 ELSE 0)
             /\ Larger(0, Unseen(l, k)) + MaxCost * (InFlight(k) + 1) \in Int
  <2>1. /\ InFlight(k) \in Nat
        /\ InFlight(k)' = InFlight(k) + (Running(free'[r], slotted'[r], k) - Running(free[r], slotted[r], k))
    BY InFlightChange DEF AmountTypes
  <2>2. Running(free[r], slotted[r], k) \in Nat
    BY RunningTypes DEF AmountTypes
  <2>3. total \in Amounts
    BY DEF AmountTypes
  <2>4. Larger(0, Unseen(l, k)) + MaxCost * (InFlight(k) + 1) \in Int
    BY <2>1, <2>3, ExposureTyped
  <2>5. InFlight(k)' = InFlight(k) + (IF n \in Within(k) THEN 1 ELSE 0)
    BY <2>1, <2>2
  <2> QED
    BY <2>1, <2>4, <2>5
<1>2. exposure' = [k \in Keys |-> IF k \in {n, ClusterSlot}
                     THEN Larger(0, Unseen(l, k)) + MaxCost * (InFlight(k) + 1) ELSE exposure[k]]
  BY DEF Expose, MaxCost
<1>3. exposure' \in [Keys -> Int]
  BY <1>1, <1>2 DEF AmountTypes
<1>4. ASSUME NEW k \in Keys, Ceiling(k) > 0
      PROVE  100 * (TotalOf(total, k) + MaxCost * InFlight(k)') < MinBlockAt * Ceiling(k) + 100 * exposure'[k]
  <2>1. CASE k \in {n, ClusterSlot}
    <3>1. InFlight(k)' = InFlight(k) + 1
      BY <1>1, <2>1 DEF Within
    <3>2. exposure'[k] = Larger(0, Unseen(l, k)) + MaxCost * (InFlight(k) + 1)
      BY <1>2, <2>1
    <3>3. 100 * (TotalOf(total, k) + MaxCost * (InFlight(k) + 1))
            < MinBlockAt * Ceiling(k) + 100 * (Larger(0, Unseen(l, k)) + MaxCost * (InFlight(k) + 1))
      <4>1. total \in Amounts /\ InFlight(k) \in Nat
        BY <1>1 DEF AmountTypes
      <4> QED
        BY <1>4, <2>1, <4>1, AdmissionBounded
    <3> QED
      BY <3>1, <3>2, <3>3
  <2>2. CASE k \notin {n, ClusterSlot}
    <3>1. InFlight(k)' = InFlight(k) /\ exposure'[k] = exposure[k]
      <4>1. n \notin Within(k)
        BY <2>2 DEF Within
      <4>2. exposure'[k] = exposure[k]
        BY <1>2, <2>2
      <4> QED
        BY <1>1, <4>1, <4>2
    <3> QED
      BY <1>4, <3>1 DEF LoadBounded
  <2> QED
    BY <2>1, <2>2
<1> QED
  BY <1>3, <1>4 DEF LoadBounded, TotalOf, Ceiling, MaxCost, MinBlockAt

(* ledgerFor and the accounting of a cost keep the amounts amounts. *)
LEMMA LedgerForAmounts ==
    ASSUME NEW l, LedgerShape(l), l.own \in Amounts, l.peers \in Amounts
    PROVE  LedgerFor(l).own \in Amounts /\ LedgerFor(l).peers \in Amounts
<1>1. NoSpend \in Amounts
  BY DEF NoSpend, Amounts
<1> QED
  BY <1>1 DEF LedgerFor, LedgerShape, LedgerFields

(* accountLocked adds a cost to what the replica has spent, and keeps the  *)
(* peers' figures.                                                         *)
LEMMA AccountAmounts ==
    ASSUME NEW l, LedgerShape(l), l.own \in Amounts, l.peers \in Amounts, NEW n \in Namespaces, NEW c \in Costs
    PROVE  Account(l, n, c).own \in Amounts /\ Account(l, n, c).peers \in Amounts
<1>1. /\ LedgerShape(Track(l, c)) /\ Track(l, c).own = l.own /\ Track(l, c).peers = l.peers
  BY DEF Track, LedgerShape, LedgerFields
<1>2. [l.own EXCEPT ![n] = l.own[n] + c] \in Amounts
  BY CostsBounded DEF Amounts
<1> DEFINE m == Track(l, c)
           d == IF m.dirtySince = Never THEN now ELSE m.dirtySince
<1>3. CASE c = 0
  BY <1>3 DEF Account
<1>4. CASE c # 0
  <2>1. Account(l, n, c) = [m EXCEPT !.own[n] = m.own[n] + c, !.dirtySince = d]
    BY <1>4 DEF Account
  <2> HIDE DEF m
  <2>2. Account(l, n, c).own = [m.own EXCEPT ![n] = m.own[n] + c] /\ Account(l, n, c).peers = m.peers
    BY <1>1, <2>1 DEF LedgerShape, LedgerFields, m
  <2> QED
    BY <1>1, <1>2, <2>2 DEF m
<1> QED
  BY <1>3, <1>4

(* The amounts of a step of replica r. *)
LEMMA AmountsOfOne ==
    ASSUME SlotInvariant, AmountTypes, NEW r \in Replicas, NEW l, l.own \in Amounts, l.peers \in Amounts,
           led' = [led EXCEPT ![r] = l], UNCHANGED <<pub, cm>>,
           free' \in [Replicas -> Amounts], total' \in Amounts, exposure' \in [Keys -> Int],
           \A q \in Replicas : IsFiniteSet(slotted'[q])
    PROVE  AmountTypes'
<1>1. \A q \in Replicas : led'[q] = IF q = r THEN l ELSE led[q]
  BY DEF SlotInvariant
<1> QED
  BY <1>1 DEF AmountTypes

(* A step that changes neither spend nor requests. *)
LEMMA LoadSame ==
    ASSUME LoadBounded, UNCHANGED <<free, slotted, total, exposure>>
    PROVE  LoadBounded'
<1>1. \A k \in Keys : InFlight(k)' = InFlight(k)
  BY DEF InFlight
<1>2. \A k \in Keys : TotalOf(total', k) = TotalOf(total, k)
  OBVIOUS
<1> QED
  BY <1>1, <1>2 DEF LoadBounded, TotalOf, Ceiling, MaxCost, MinBlockAt

(* Every step keeps the load within the cap: an admission sets the         *)
(* exposure to what it could not see, and an end turns load into spend.    *)
LEMMA CapStep ==
    ASSUME BlockOnTop, CapInvariant, [Next]_vars
    PROVE  CapInvariant'
<1>1. SlotInvariant'
  BY SlotStep DEF CapInvariant
<1>2. SlotInvariant /\ AmountTypes /\ LoadBounded
  BY DEF CapInvariant
<1>3. ASSUME NEW r \in Replicas
      PROVE  /\ LedgerShape(led[r]) /\ LedgerShape(LedgerFor(led[r])) /\ LedgerFor(led[r]).period = period
             /\ led[r].own \in Amounts /\ led[r].peers \in Amounts
             /\ LedgerFor(led[r]).own \in Amounts /\ LedgerFor(led[r]).peers \in Amounts
             /\ free[r] \in Amounts /\ IsFiniteSet(slotted[r])
  <2>1. LedgerShape(led[r]) /\ period \in Nat /\ led[r].own \in Amounts /\ led[r].peers \in Amounts
    BY <1>2 DEF SlotInvariant, AmountTypes
  <2> QED
    BY <1>2, <2>1, LedgerForShape, LedgerForAmounts DEF AmountTypes
<1> DEFINE Good == AmountTypes' /\ LoadBounded'
<1>4. ASSUME NEW r \in Replicas, NEW n \in Namespaces, Reject(r, n)
      PROVE  Good
  <2>1. AmountTypes'
    BY <1>2, <1>3, <1>4, AmountsOfOne DEF Reject, AmountTypes, history
  <2> QED
    BY <1>2, <1>4, <2>1, LoadSame DEF Reject, history
<1>5. ASSUME NEW r \in Replicas, NEW n \in Namespaces, AdmitFree(r, n)
      PROVE  Good
  <2> DEFINE l == LedgerFor(led[r])
  <2>1. Action(l, n) # "block"
    BY <1>5 DEF AdmitFree, Outcome
  <2>2. /\ led' = [led EXCEPT ![r] = l] /\ UNCHANGED <<slotted, pub, cm, total>> /\ Expose(l, n)
        /\ free' = [free EXCEPT ![r][n] = free[r][n] + 1]
    BY <1>5 DEF AdmitFree
  <2>3. /\ free' \in [Replicas -> Amounts] /\ free'[r][n] = free[r][n] + 1
        /\ \A m \in Namespaces \ {n} : free'[r][m] = free[r][m]
        /\ \A q \in Replicas \ {r} : free'[q] = free[q] /\ slotted'[q] = slotted[q]
        /\ free'[r] \in Amounts
    BY <1>2, <2>2 DEF AmountTypes, Amounts
  <2>4. \A q \in Replicas : IsFiniteSet(slotted'[q])
    BY <1>3, <2>2
  <2>5. \A k \in Keys : Running(free'[r], slotted'[r], k)
                          = Running(free[r], slotted[r], k) + (IF n \in Within(k) THEN 1 ELSE 0)
    <3>1. slotted'[r] = slotted[r] /\ free[r] \in Amounts /\ IsFiniteSet(slotted[r])
      BY <1>3, <2>2
    <3> DEFINE f == free[r]
               g == free'[r]
    <3>2. f \in Amounts /\ g \in Amounts /\ g[n] = f[n] + 1 /\ \A m \in Namespaces \ {n} : g[m] = f[m]
      BY <2>3, <3>1
    <3> HIDE DEF f, g
    <3>3. ASSUME NEW k \in Keys
          PROVE  Running(g, slotted[r], k) = Running(f, slotted[r], k) + (IF n \in Within(k) THEN 1 ELSE 0)
      BY <3>1, <3>2, RunningFree
    <3> QED
      BY <3>1, <3>3 DEF f, g
  <2>6. l.own \in Amounts /\ l.peers \in Amounts
    BY <1>3
  <2> HIDE DEF l
  <2>7. LoadBounded' /\ exposure' \in [Keys -> Int]
    BY <1>2, <2>1, <2>2, <2>3, <2>4, <2>5, <2>6, AdmitBounded
  <2>8. total' \in Amounts
    BY <1>2, <2>2 DEF AmountTypes
  <2> QED
    BY <1>2, <2>2, <2>3, <2>4, <2>6, <2>7, <2>8, AmountsOfOne
<1>6. ASSUME NEW r \in Replicas, NEW n \in Namespaces, AdmitSlot(r, n)
      PROVE  Good
  <2> DEFINE l == LedgerFor(led[r])
             keys == Governed(l, n)
             token == l.nextToken + 1
             new == [ns |-> n, keys |-> keys, token |-> token, period |-> l.period]
  <2>1. Action(l, n) # "block"
    BY <1>6 DEF AdmitSlot, Outcome
  <2>2. PICK m : /\ led' = [led EXCEPT ![r] = m]
                 /\ \E b : m = [l EXCEPT !.nextToken = token,
                        !.adm = [k \in Keys |-> IF k \in keys THEN token ELSE l.adm[k]],
                        !.marginRaised = b]
    <3>1. LedgerShape(l)
      BY <1>3
    <3> QED
      BY <1>6, <3>1 DEF AdmitSlot, LedgerShape
  <2>3. /\ slotted' = [slotted EXCEPT ![r] = slotted[r] \cup {new}]
        /\ UNCHANGED <<free, pub, cm, total>> /\ Expose(l, n)
    BY <1>6 DEF AdmitSlot
  <2>4. new \notin slotted[r]
    <3>1. Owned(l, slotted[r]) /\ l.nextToken \in Nat
      BY <1>2, <1>3, LedgerForOwned DEF SlotInvariant, LedgerShape
    <3> HIDE DEF l
    <3>2. \A h \in slotted[r] : h.token <= l.nextToken
      BY <3>1 DEF Owned
    <3>3. new.token = l.nextToken + 1
      OBVIOUS
    <3> QED
      BY <3>1, <3>2, <3>3
  <2>5. l.own \in Amounts /\ l.peers \in Amounts /\ LedgerShape(l)
    BY <1>3
  <2>6. new.ns = n
    OBVIOUS
  <2> HIDE DEF l, new
  <2>7. m.own \in Amounts /\ m.peers \in Amounts
    BY <2>2, <2>5 DEF LedgerShape, LedgerFields
  <2>8. slotted'[r] = slotted[r] \cup {new} /\ \A q \in Replicas \ {r} : slotted'[q] = slotted[q]
    BY <1>2, <2>3 DEF SlotInvariant
  <2>9. /\ IsFiniteSet(slotted'[r])
        /\ \A k \in Keys : Running(free'[r], slotted'[r], k)
                          = Running(free[r], slotted[r], k) + (IF n \in Within(k) THEN 1 ELSE 0)
    <3>1. IsFiniteSet(slotted[r] \cup {new})
      BY <1>3, FS_AddElement
    <3>2. ASSUME NEW k \in Keys
          PROVE  Running(free[r], slotted[r] \cup {new}, k)
                    = Running(free[r], slotted[r], k) + (IF new.ns \in Within(k) THEN 1 ELSE 0)
      <4>1. free[r] \in Amounts /\ IsFiniteSet(slotted[r])
        BY <1>3
      <4> QED
        BY <2>4, <4>1, RunningMore
    <3> QED
      BY <2>3, <2>6, <2>8, <3>1, <3>2
  <2>10. \A q \in Replicas : IsFiniteSet(slotted'[q])
    BY <1>3, <2>8, <2>9
  <2>11. free' \in [Replicas -> Amounts] /\ total' \in Amounts
         /\ \A q \in Replicas \ {r} : free'[q] = free[q] /\ slotted'[q] = slotted[q]
    BY <1>2, <2>3, <2>8 DEF AmountTypes
  <2>12. LoadBounded' /\ exposure' \in [Keys -> Int]
    BY <1>2, <2>1, <2>3, <2>5, <2>9, <2>10, <2>11, AdmitBounded
  <2> QED
    BY <1>2, <2>2, <2>3, <2>7, <2>10, <2>11, <2>12, AmountsOfOne
<1>7. ASSUME NEW r \in Replicas, NEW n \in Namespaces, NEW c \in Costs, EndFree(r, n, c)
      PROVE  Good
  <2>1. /\ free[r][n] > 0 /\ free' = [free EXCEPT ![r][n] = free[r][n] - 1]
        /\ total' = [total EXCEPT ![n] = total[n] + c] /\ UNCHANGED <<slotted, pub, cm, exposure>>
    BY <1>7 DEF EndFree
  <2>2. /\ free' \in [Replicas -> Amounts] /\ free[r][n] = free'[r][n] + 1
        /\ \A m \in Namespaces \ {n} : free[r][m] = free'[r][m]
        /\ \A q \in Replicas \ {r} : free'[q] = free[q] /\ slotted'[q] = slotted[q]
        /\ free'[r] \in Amounts /\ free[r] \in Amounts
    BY <1>2, <2>1 DEF AmountTypes, Amounts
  <2>3. \A q \in Replicas : IsFiniteSet(slotted'[q])
    BY <1>3, <2>1
  <2>4. \A k \in Keys : Running(free[r], slotted[r], k)
                          = Running(free'[r], slotted'[r], k) + (IF n \in Within(k) THEN 1 ELSE 0)
    <3>1. slotted'[r] = slotted[r] /\ IsFiniteSet(slotted[r])
      BY <1>3, <2>1
    <3> DEFINE f == free[r]
               g == free'[r]
    <3>2. f \in Amounts /\ g \in Amounts /\ f[n] = g[n] + 1 /\ \A m \in Namespaces \ {n} : f[m] = g[m]
      BY <2>2
    <3> HIDE DEF f, g
    <3>3. ASSUME NEW k \in Keys
          PROVE  Running(f, slotted[r], k) = Running(g, slotted[r], k) + (IF n \in Within(k) THEN 1 ELSE 0)
      BY <3>1, <3>2, RunningFree
    <3> QED
      BY <3>1, <3>3 DEF f, g
  <2>5. LoadBounded'
    BY <1>2, <2>1, <2>2, <2>3, <2>4, EndBounded
  <2>6. total' \in Amounts /\ exposure' \in [Keys -> Int]
    <3>1. total \in Amounts /\ c \in Nat
      BY <1>2, CostsBounded DEF AmountTypes
    <3> QED
      BY <1>2, <2>1, <3>1 DEF AmountTypes, Amounts
  <2>7. CASE c = 0
    <3>1. led' = led
      BY <1>7, <2>7 DEF EndFree
    <3> QED
      BY <1>2, <2>1, <2>2, <2>3, <2>5, <2>6, <3>1 DEF AmountTypes
  <2>8. CASE c # 0
    <3> DEFINE l == Account(LedgerFor(led[r]), n, c)
    <3>1. led' = [led EXCEPT ![r] = l]
      BY <1>7, <2>8 DEF EndFree
    <3>2. l.own \in Amounts /\ l.peers \in Amounts
      BY <1>3, AccountAmounts
    <3> HIDE DEF l
    <3> QED
      BY <1>2, <2>1, <2>2, <2>3, <2>5, <2>6, <3>1, <3>2, AmountsOfOne
  <2> QED
    BY <2>7, <2>8
<1>8. ASSUME NEW r \in Replicas, NEW h \in slotted[r], NEW c \in Costs, Settle(r, h, c)
      PROVE  Good
  <2> DEFINE l == LedgerFor(led[r])
             f == [l EXCEPT !.adm = Freed(l, h)]
             m == Account(f, h.ns, c)
  <2>1. /\ slotted' = [slotted EXCEPT ![r] = slotted[r] \ {h}] /\ led' = [led EXCEPT ![r] = m]
        /\ total' = [total EXCEPT ![h.ns] = total[h.ns] + c] /\ UNCHANGED <<free, pub, cm, exposure>>
    BY <1>8 DEF Settle
  <2>2. h.ns \in Namespaces
    BY <1>2, <1>8 DEF SlotInvariant, RequestShape
  <2>3. LedgerShape(l) /\ l.own \in Amounts /\ l.peers \in Amounts
    BY <1>3
  <2>4. Freed(l, h) \in [Keys -> Nat]
    BY <2>3 DEF Freed, LedgerShape
  <2> HIDE DEF l
  <2>5. LedgerShape(f) /\ f.own = l.own /\ f.peers = l.peers
    BY <2>3, <2>4 DEF LedgerShape, LedgerFields
  <2> HIDE DEF f
  <2>6. m.own \in Amounts /\ m.peers \in Amounts
    BY <2>2, <2>3, <2>5, AccountAmounts
  <2> HIDE DEF m
  <2>7. slotted'[r] = slotted[r] \ {h} /\ \A q \in Replicas \ {r} : slotted'[q] = slotted[q]
    BY <1>2, <2>1 DEF SlotInvariant
  <2>8. /\ IsFiniteSet(slotted'[r])
        /\ \A k \in Keys : Running(free[r], slotted[r], k)
                          = Running(free'[r], slotted'[r], k) + (IF h.ns \in Within(k) THEN 1 ELSE 0)
    <3>1. IsFiniteSet(slotted[r] \ {h})
      BY <1>3, FS_RemoveElement
    <3>2. ASSUME NEW k \in Keys
          PROVE  Running(free[r], slotted[r], k)
                    = Running(free[r], slotted[r] \ {h}, k) + (IF h.ns \in Within(k) THEN 1 ELSE 0)
      <4>1. free[r] \in Amounts /\ IsFiniteSet(slotted[r]) /\ h \in slotted[r]
        BY <1>3
      <4> QED
        BY <4>1, RunningLess
    <3> QED
      BY <2>1, <2>7, <3>1, <3>2
  <2>9. \A q \in Replicas : IsFiniteSet(slotted'[q])
    BY <1>3, <2>7, <2>8
  <2>10. /\ free' \in [Replicas -> Amounts] /\ exposure' \in [Keys -> Int]
         /\ \A q \in Replicas \ {r} : free'[q] = free[q] /\ slotted'[q] = slotted[q]
    BY <1>2, <2>1, <2>7 DEF AmountTypes
  <2>11. LoadBounded'
    BY <1>2, <2>1, <2>2, <2>8, <2>9, <2>10, EndBounded
  <2>12. total' \in Amounts
    <3>1. total \in Amounts /\ c \in Nat
      BY <1>2, CostsBounded DEF AmountTypes
    <3> QED
      BY <2>1, <2>2, <3>1 DEF Amounts
  <2> QED
    BY <1>2, <2>1, <2>6, <2>9, <2>10, <2>11, <2>12, AmountsOfOne
<1>9. ASSUME NEW r \in Replicas, PublishStart(r) \/ PublishFail(r)
      PROVE  Good
  <2>1. UNCHANGED <<led, free, slotted, cm, total, exposure>>
    BY <1>9 DEF PublishStart, PublishFail, history
  <2>2. PICK p : pub' = [pub EXCEPT ![r] = p] /\ p.spend \in Amounts
    <3>1. NoPublish.spend \in Amounts
      BY DEF NoPublish, NoSpend, Amounts
    <3>2. led[r].own \in Amounts
      BY <1>3
    <3> QED
      BY <1>9, <3>1, <3>2 DEF PublishStart, PublishFail
  <2>3. AmountTypes'
    <3>1. pub' = [q \in Replicas |-> pub'[q]] /\ \A q \in Replicas : pub'[q].spend \in Amounts
      BY <1>2, <2>2 DEF AmountTypes
    <3> QED
      BY <1>2, <2>1, <3>1 DEF AmountTypes
  <2> QED
    BY <1>2, <2>1, <2>3, LoadSame
<1>10. ASSUME NEW r \in Replicas, PublishEnd(r)
       PROVE  Good
  <2>1. UNCHANGED <<free, slotted, total, exposure>>
    BY <1>10 DEF PublishEnd, history
  <2>2. /\ cm' = [cm EXCEPT ![r] = [period |-> pub[r].period, spend |-> pub[r].spend]]
        /\ pub' = [pub EXCEPT ![r] = NoPublish] /\ \E d : led' = [led EXCEPT ![r].dirtySince = d]
    BY <1>10 DEF PublishEnd
  <2>3. cm' = [q \in Replicas |-> cm'[q]] /\ \A q \in Replicas : cm'[q].spend \in Amounts
    BY <1>2, <2>2 DEF AmountTypes
  <2>4. pub' = [q \in Replicas |-> pub'[q]] /\ \A q \in Replicas : pub'[q].spend \in Amounts
    <3>1. NoPublish.spend \in Amounts
      BY DEF NoPublish, NoSpend, Amounts
    <3> QED
      BY <1>2, <2>2, <3>1 DEF AmountTypes
  <2>5. ASSUME NEW q \in Replicas
        PROVE  led'[q].own \in Amounts /\ led'[q].peers \in Amounts
    <3>1. PICK d : led'[q] = IF q = r THEN [led[q] EXCEPT !.dirtySince = d] ELSE led[q]
      BY <1>2, <2>2 DEF SlotInvariant
    <3>2. LedgerShape(led[q]) /\ led[q].own \in Amounts /\ led[q].peers \in Amounts
      BY <1>3
    <3> QED
      BY <3>1, <3>2 DEF LedgerShape, LedgerFields
  <2>6. AmountTypes'
    BY <1>2, <2>1, <2>3, <2>4, <2>5 DEF AmountTypes
  <2> QED
    BY <1>2, <2>1, <2>6, LoadSame
<1>11. ASSUME NEW r \in Replicas, Fold(r)
       PROVE  Good
  <2> DEFINE seen(n) == [q \in Replicas |-> IF q # r /\ cm[q].period = period THEN cm[q].spend[n] ELSE 0]
             p == [n \in Namespaces |-> SumOver(seen(n), Replicas)]
             l == LedgerFor(led[r])
             m == [l EXCEPT !.peers = p, !.lastFoldOK = now]
  <2>1. led' = [led EXCEPT ![r] = m] /\ UNCHANGED <<free, slotted, pub, cm, total, exposure>>
    BY <1>11 DEF Fold, history
  <2>2. ASSUME NEW n \in Namespaces
        PROVE  SumOver(seen(n), Replicas) \in Nat
    <3>1. \A q \in Replicas : seen(n)[q] \in Nat
      BY <1>2 DEF AmountTypes, Amounts
    <3> HIDE DEF seen
    <3> QED
      BY <3>1, ReplicasAssumption, SumOverFn, FnSumNonNegative
  <2>3. p \in Amounts
    BY <2>2 DEF Amounts
  <2>4. LedgerShape(l) /\ l.own \in Amounts
    BY <1>3
  <2> HIDE DEF p, l
  <2>5. m.own \in Amounts /\ m.peers \in Amounts
    BY <2>3, <2>4 DEF LedgerShape, LedgerFields
  <2> HIDE DEF m
  <2>6. AmountTypes'
    <3>1. /\ free' \in [Replicas -> Amounts] /\ total' \in Amounts /\ exposure' \in [Keys -> Int]
          /\ \A q \in Replicas : IsFiniteSet(slotted'[q])
      BY <1>2, <2>1 DEF AmountTypes
    <3> QED
      BY <1>2, <2>1, <2>5, <3>1, AmountsOfOne
  <2> QED
    BY <1>2, <2>1, <2>6, LoadSame
<1>12. ASSUME Tick \/ UNCHANGED vars
       PROVE  Good
  <2>1. UNCHANGED <<led, free, slotted, pub, cm, total, exposure>>
    BY <1>12 DEF Tick, vars, history
  <2>2. AmountTypes'
    BY <1>2, <2>1 DEF AmountTypes
  <2> QED
    BY <1>2, <2>1, <2>2, LoadSame
<1>13. ASSUME Rollover
       PROVE  Good
  <2>1. UNCHANGED <<led, free, slotted, pub, cm, exposure>> /\ total' = NoSpend
    BY <1>13 DEF Rollover
  <2>2. NoSpend \in Amounts
    BY DEF NoSpend, Amounts
  <2>3. AmountTypes'
    BY <1>2, <2>1, <2>2 DEF AmountTypes
  <2>4. ASSUME NEW k \in Keys, Ceiling(k) > 0
        PROVE  100 * (TotalOf(total', k) + MaxCost * InFlight(k)') < MinBlockAt * Ceiling(k) + 100 * exposure'[k]
    <3>1. InFlight(k)' = InFlight(k) /\ exposure' = exposure
      BY <2>1 DEF InFlight
    <3>2. TotalOf(total', k) = 0
      <4>1. \A n \in Within(k) : NoSpend[n] = 0
        BY WithinFinite DEF NoSpend
      <4>2. SumOver(NoSpend, Within(k)) = 0
        BY <4>1, WithinFinite, SumOverFn, FnSumZero
      <4> QED
        BY <2>1, <4>2 DEF TotalOf, Within, NoSpend, Keys
    <3>3. TotalOf(total, k) \in Nat /\ exposure[k] \in Int
      BY <1>2, TotalTypes DEF AmountTypes
    <3> DEFINE x == MaxCost * InFlight(k)
               z == MinBlockAt * Ceiling(k)
    <3>4. x \in Int /\ z \in Int
      <4>1. MinBlockAt \in Int /\ Ceiling(k) \in Int
        BY MinBlockIn, CeilingsAssumption DEF Ceiling
      <4> QED
        BY <1>2, <4>1, CostsBounded, InFlightTypes
    <3>5. 100 * (TotalOf(total, k) + x) < z + 100 * exposure[k]
      BY <1>2, <2>4 DEF LoadBounded
    <3> HIDE DEF x, z
    <3>6. 100 * (0 + x) < z + 100 * exposure[k]
      BY <3>3, <3>4, <3>5
    <3> QED
      BY <3>1, <3>2, <3>6 DEF x, z
  <2> QED
    BY <2>3, <2>4 DEF LoadBounded, TotalOf, Ceiling, MaxCost, MinBlockAt
<1>14. Good
  <2> HIDE DEF Good
  <2> QED
    BY <1>4, <1>5, <1>6, <1>7, <1>8, <1>9, <1>10, <1>11, <1>12, <1>13 DEF Next
<1> QED
  BY <1>1, <1>14 DEF CapInvariant

(* Under the hard budgets spend never passes a block threshold by more than *)
(* what was unseen or in flight when a request was last admitted against    *)
(* that ceiling, for any replicas, namespaces, costs, ceilings and windows  *)
(* (Admit, Add and settle).                                                 *)
THEOREM SpendIsCapped == ASSUME BlockOnTop PROVE Spec => []HardCap
<1>1. CapInvariant => HardCap
  <2> SUFFICES ASSUME CapInvariant, NEW k \in Keys, Ceiling(k) > 0
               PROVE  100 * TotalOf(total, k) < MinBlockAt * Ceiling(k) + 100 * exposure[k]
    BY DEF HardCap, TotalOf
  <2> DEFINE t == TotalOf(total, k)
             x == MaxCost * InFlight(k)
             z == MinBlockAt * Ceiling(k)
  <2>1. t \in Nat /\ x \in Nat /\ exposure[k] \in Int
    BY TotalTypes, InFlightTypes, CostsBounded DEF CapInvariant, AmountTypes
  <2>2. z \in Int
    BY MinBlockIn, CeilingsAssumption DEF Ceiling
  <2>3. 100 * (t + x) < z + 100 * exposure[k]
    BY DEF CapInvariant, LoadBounded
  <2> HIDE DEF t, x, z
  <2>4. 100 * t < z + 100 * exposure[k]
    BY <2>1, <2>2, <2>3
  <2> QED
    BY <2>4 DEF t, z
<1>2. CapInvariant /\ [Next]_vars => CapInvariant'
  BY CapStep
<1> QED
  BY CapInit, <1>1, <1>2, PTL DEF Spec
=============================================================================
