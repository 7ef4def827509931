--------------------------- MODULE DeliveryProofs ---------------------------
(***************************************************************************)
(* Proofs about Delivery, for any number of messages, slots, attempts and  *)
(* Pods: the slots held are those of the messages that wait, and the       *)
(* gateway implements the safety part of MessageService.                   *)
(***************************************************************************)
EXTENDS Delivery, AgentLifecycleProofs

Places == {"out", "waking", "waiting", "sending", "handling", "delivered", "refused", "failed"}

MessageFields == {"pc", "wait", "asked", "again", "ready", "tries", "pod", "handled", "misled"}

(* A message: its fields, of which the numbers are typed. *)
MessageShape(r) ==
    /\ r = [f \in MessageFields |-> r[f]]
    /\ r.pc \in Places /\ r.tries \in Nat /\ r.handled \in Nat /\ r.pod \in PodIds \cup {NoPod}

(* A message that may still be sent has an attempt left; it was handed to  *)
(* a Pod once an attempt at most, and at least once if one handles it.     *)
MessageSound(r) ==
    /\ MessageShape(r)
    /\ r.handled <= r.tries /\ r.tries <= Attempts
    /\ r.pc \in {"out", "waking", "waiting", "sending"} => r.tries < Attempts
    /\ r.pc = "handling" => r.handled > 0
    /\ r.pc = "out" => r.handled = 0

Waiting(ms) == {m \in Messages : ms[m].pc \in {"waking", "waiting"}}

DeliveryInvariant ==
    /\ LifeTypes
    /\ view \in Phases /\ track \in [PodIds -> {"none", "seen", "serving"}]
    /\ msg = [m \in Messages |-> msg[m]] /\ \A m \in Messages : MessageSound(msg[m])
    /\ others \in Nat /\ slots = Cardinality(Waiting(msg)) + others /\ slots <= MaxPodWaits

(* The slot that a message holds, and what its sender knows of it. *)
Held(r) == IF r.pc \in {"waking", "waiting"} THEN 1 ELSE 0
OutcomeOf(r) ==
    CASE r.pc \in {"out", "delivered"} -> r.pc
      [] r.pc \in {"refused", "failed"} -> "failed"
      [] OTHER -> "taken"

(* What may become of message a in a step, as MessageService has it. *)
Advances(a, b) ==
    \/ OutcomeOf(b) = OutcomeOf(a) /\ b.handled = a.handled
    \/ OutcomeOf(a) = "out" /\ OutcomeOf(b) \in {"taken", "failed"} /\ b.handled = a.handled
    \/ OutcomeOf(a) = "taken" /\ OutcomeOf(b) = "taken" /\ a.handled < Attempts /\ b.handled = a.handled + 1
    \/ OutcomeOf(a) = "taken" /\ OutcomeOf(b) = "failed" /\ b.handled = a.handled
    \/ OutcomeOf(a) = "taken" /\ OutcomeOf(b) = "delivered" /\ a.handled > 0 /\ b.handled = a.handled

-----------------------------------------------------------------------------
(* The Agent beside the gateway *)

(* The Agent with its first Pod is well typed. *)
LEMMA DeliveryTypesInit == DInit => LifeTypes
<1> SUFFICES ASSUME DInit PROVE LifeTypes
  OBVIOUS
<1>1. Sane(NewAgent) /\ NewAgent \in Agents
  BY NewAgentSane DEF Sane
<1>2. Sane(agent) /\ agent \in Agents /\ cagent = agent
  <2>1. agent = [NewAgent EXCEPT !.phase = "Running", !.upToDate = "Current", !.finalizer = TRUE] /\ cagent = agent
    BY DEF DInit
  <2>2. agent \in Agents /\ agent.phase = "Running" /\ agent.pre = NewAgent.pre
    BY <1>1, <2>1 DEF Agents, Phases
  <2> QED
    BY <1>1, <2>1, <2>2 DEF Sane
<1>3. pods \in PodTables /\ cpods \in PodTables
  BY DEF DInit, PodTables
<1>4. NoPass \in PassRecords /\ NoPass.agent = NewAgent
  BY <1>1 DEF NoPass, PassRecords
<1>5. TypeOK
  BY <1>2, <1>3, <1>4, AgentAssumption DEF DInit, TypeOK, Sane, Created, PassRecords
<1>6. EnvShape(env)
  BY DEF DInit, EnvShape
<1>7. store \in Stores /\ fetched \in Answers
  BY DEF DInit, NoAnswer, Answers, Never, Stores
<1> QED
  BY <1>1, <1>2, <1>4, <1>5, <1>6, <1>7 DEF LifeTypes, DInit

(* handleActivate, and the answer of a Pod, keep the types. *)
LEMMA GatewayTypes ==
    ASSUME LifeTypes, UNCHANGED <<cagent, pods, cpods, pass, env, fetched, now, pvc>>,
           Patch \/ UNCHANGED <<agent, fresh>>,
           store' = store \/ store' = [store EXCEPT !.rec[Gateway] = now],
           nEvents' \in 0..MaxEvents
    PROVE  LifeTypes'
<1>0. agent \in Agents /\ Sane(agent) /\ fresh \subseteq {"cache", "pass"} /\ store \in Stores /\ now \in Nat
  BY AgentAssumption DEF LifeTypes, TypeOK
<1>1. agent' \in Agents /\ Sane(agent') /\ agent'.pre # "Degraded" /\ fresh' \subseteq {"cache", "pass"}
  BY <1>0 DEF Patch, Agents, Sane
<1>2. store' \in Stores
  BY <1>0, DeliveryAssumption DEF Stores
<1>3. TypeOK'
  BY <1>1 DEF LifeTypes, TypeOK, PodTables
<1> QED
  BY <1>1, <1>2, <1>3 DEF LifeTypes, EnvShape, Answers, Sane, Stores

-----------------------------------------------------------------------------
(* Messages *)

(* A message goes from a to b in a step of its own. *)
Moves(m, b) ==
    /\ Put(m, b) /\ MessageSound(b) /\ Advances(msg[m], b)
    /\ slots' = slots + Held(b) - Held(msg[m]) /\ slots' <= MaxPodWaits

(* awaitPod takes a slot or refuses. *)
LEMMA AwaitMoves ==
    ASSUME NEW m \in Messages, NEW r, NEW wake, awaitPod(m, r, wake), MessageSound(msg[m]), MessageSound(r),
           slots \in Nat, slots <= MaxPodWaits, msg[m].pc \in {"out", "sending"},
           r.pc = msg[m].pc, r.handled = msg[m].handled, r.tries < Attempts
    PROVE  \E b : Moves(m, b)
<1>0. MaxPodWaits \in Nat /\ Attempts \in Nat
  BY DeliveryAssumption
<1>1. CASE slots >= MaxPodWaits
  <2> DEFINE b == [r EXCEPT !.pc = "refused"]
  <2>1. Put(m, b) /\ slots' = slots
    BY <1>1 DEF awaitPod
  <2>2. /\ MessageShape(b) /\ b.pc = "refused" /\ b.tries = r.tries /\ b.handled = r.handled
    <3>1. b = [f \in MessageFields |-> b[f]]
      BY DEF MessageSound, MessageShape
    <3>2. /\ b.pc \in Places /\ b.tries \in Nat /\ b.handled \in Nat /\ b.pod \in PodIds \cup {NoPod}
          /\ b.pc = "refused" /\ b.tries = r.tries /\ b.handled = r.handled
      BY DEF MessageSound, MessageShape, MessageFields, Places
    <3> QED
      BY <3>1, <3>2 DEF MessageShape
  <2> HIDE DEF b
  <2>3. MessageSound(b)
    BY <1>0, <2>2 DEF MessageSound
  <2>4. Advances(msg[m], b)
    BY <2>2 DEF Advances, OutcomeOf
  <2> QED
    BY <2>1, <2>2, <2>3, <2>4 DEF Moves, Held
<1>2. CASE ~(slots >= MaxPodWaits)
  <2> DEFINE x == IF wake THEN "waking" ELSE "waiting"
             y == FALSE
             z == wake
             b == [r EXCEPT !.pc = x, !.wait = y, !.asked = z]
  <2>0. x \in {"waking", "waiting"}
    OBVIOUS
  <2>1. Put(m, b) /\ slots' = slots + 1
    BY <1>2 DEF awaitPod
  <2> HIDE DEF x, y, z
  <2>2. /\ MessageShape(b) /\ b.pc \in {"waking", "waiting"} /\ b.tries = r.tries /\ b.handled = r.handled
    <3>1. b = [f \in MessageFields |-> b[f]]
      BY DEF MessageSound, MessageShape
    <3>2. /\ b.pc \in Places /\ b.tries \in Nat /\ b.handled \in Nat /\ b.pod \in PodIds \cup {NoPod}
          /\ b.pc \in {"waking", "waiting"} /\ b.tries = r.tries /\ b.handled = r.handled
      BY <2>0 DEF MessageSound, MessageShape, MessageFields, Places
    <3> QED
      BY <3>1, <3>2 DEF MessageShape
  <2> HIDE DEF b
  <2>3. MessageSound(b)
    BY <1>0, <2>2 DEF MessageSound
  <2>4. Advances(msg[m], b)
    BY <2>2 DEF Advances, OutcomeOf
  <2> QED
    BY <1>0, <1>2, <2>1, <2>2, <2>3, <2>4 DEF Moves, Held
<1> QED
  BY <1>1, <1>2

(* A wait that ends releases its slot. *)
LEMMA EndMoves ==
    ASSUME NEW m \in Messages, NEW pc \in {"sending", "failed"}, EndWait(m, pc), MessageSound(msg[m]),
           slots \in Nat, slots <= MaxPodWaits, Waits(m)
    PROVE  \E b : Moves(m, b)
<1>0. MaxPodWaits \in Nat /\ Attempts \in Nat /\ msg[m].pc \in {"waking", "waiting"}
  BY DeliveryAssumption DEF Waits
<1> DEFINE y == FALSE
           z == agent.phase \in {"Idle", "Hibernating"}
           b == [msg[m] EXCEPT !.pc = pc, !.ready = y, !.misled = z]
<1>1. Put(m, b) /\ slots' = slots - 1
  BY DEF EndWait
<1> HIDE DEF y, z
<1>2. MessageShape(b) /\ b.pc = pc /\ b.tries = msg[m].tries /\ b.handled = msg[m].handled
  <2>1. b = [f \in MessageFields |-> b[f]]
    BY DEF MessageSound, MessageShape
  <2>2. /\ b.pc \in Places /\ b.tries \in Nat /\ b.handled \in Nat /\ b.pod \in PodIds \cup {NoPod}
        /\ b.pc = pc /\ b.tries = msg[m].tries /\ b.handled = msg[m].handled
    BY DEF MessageSound, MessageShape, MessageFields, Places
  <2> QED
    BY <2>1, <2>2 DEF MessageShape
<1> HIDE DEF b
<1>3. MessageSound(b)
  BY <1>0, <1>2 DEF MessageSound
<1>4. Advances(msg[m], b)
  BY <1>0, <1>2 DEF Advances, OutcomeOf
<1> QED
  BY <1>0, <1>1, <1>2, <1>3, <1>4 DEF Moves, Held

(* After a failed attempt a message is sent again or fails. *)
LEMMA RetryMoves ==
    ASSUME NEW m \in Messages, NEW r, Retry(m, r), MessageSound(msg[m]), MessageShape(r),
           slots \in Nat, slots <= MaxPodWaits, msg[m].pc \in {"sending", "handling"}, slots' = slots,
           r.handled = msg[m].handled, r.tries <= Attempts, msg[m].tries <= r.tries
    PROVE  \E b : Moves(m, b)
<1>0. Attempts \in Nat
  BY DeliveryAssumption
<1> DEFINE x == IF r.tries = Attempts THEN "failed" ELSE "sending"
           b == [r EXCEPT !.pod = NoPod, !.pc = x]
<1>1. Put(m, b) /\ x \in {"sending", "failed"} /\ (x = "sending" => r.tries # Attempts)
  BY DEF Retry
<1> HIDE DEF x
<1>2. /\ MessageShape(b) /\ b.pc \in {"sending", "failed"} /\ b.tries = r.tries /\ b.handled = r.handled
      /\ (b.pc = "sending" => r.tries # Attempts)
  <2>1. b = [f \in MessageFields |-> b[f]]
    BY DEF MessageShape
  <2>2. /\ b.pc \in Places /\ b.tries \in Nat /\ b.handled \in Nat /\ b.pod \in PodIds \cup {NoPod}
        /\ b.pc \in {"sending", "failed"} /\ b.tries = r.tries /\ b.handled = r.handled /\ (b.pc = "sending" => r.tries # Attempts)
    BY <1>1 DEF MessageShape, MessageFields, Places
  <2> QED
    BY <2>1, <2>2 DEF MessageShape
<1> HIDE DEF b
<1>3. MessageSound(b)
  BY <1>0, <1>2 DEF MessageSound, MessageShape
<1>4. Advances(msg[m], b)
  BY <1>2 DEF Advances, OutcomeOf
<1> QED
  BY <1>1, <1>2, <1>3, <1>4 DEF Moves, Held

(* A message goes on without taking or releasing a slot. *)
LEMMA StayMoves ==
    ASSUME NEW m \in Messages, NEW b, Put(m, b), MessageSound(msg[m]), MessageShape(b),
           slots \in Nat, slots <= MaxPodWaits, slots' = slots,
           b.tries = msg[m].tries, b.handled = msg[m].handled,
           \/ msg[m].pc = "out" /\ b.pc = "sending"
           \/ msg[m].pc \in {"waking", "waiting"} /\ b.pc \in {"waking", "waiting"}
           \/ msg[m].pc = "handling" /\ b.pc = "delivered"
    PROVE  Moves(m, b)
<1>1. MessageSound(b)
  BY DeliveryAssumption DEF MessageSound
<1>2. Advances(msg[m], b)
  BY DEF Advances, OutcomeOf, MessageSound
<1> QED
  BY <1>1, <1>2 DEF Moves, Held

(* Every step of a message is one of the above. *)
LEMMA MessageMoves ==
    ASSUME NEW m \in Messages, MessageStep(m), MessageSound(msg[m]), slots \in Nat, slots <= MaxPodWaits
    PROVE  /\ \E b : Moves(m, b)
           /\ UNCHANGED <<view, track, others>>
<1>0. Attempts \in Nat /\ MessageShape(msg[m])
  BY DeliveryAssumption DEF MessageSound
<1>1. CASE Receive(m)
  <2>1. CASE needsWake(view)
    <3>1. awaitPod(m, msg[m], TRUE) /\ msg[m].pc = "out"
      <4>1. view \notin {"Provisioning", "Resuming"}
        BY <2>1 DEF needsWake
      <4> QED
        BY <1>1, <2>1, <4>1 DEF Receive
    <3>2. \E b : Moves(m, b)
      BY <3>1, AwaitMoves DEF MessageSound
    <3> QED
      BY <1>1, <3>2 DEF Receive
  <2>2. CASE ~needsWake(view) /\ view \in {"Provisioning", "Resuming"}
    <3>1. awaitPod(m, msg[m], FALSE) /\ msg[m].pc = "out"
      BY <1>1, <2>2 DEF Receive
    <3>2. \E b : Moves(m, b)
      BY <3>1, AwaitMoves DEF MessageSound
    <3> QED
      BY <1>1, <3>2 DEF Receive
  <2>3. CASE ~needsWake(view) /\ view \notin {"Provisioning", "Resuming"}
    <3> DEFINE b == [msg[m] EXCEPT !.pc = "sending"]
    <3>1. Put(m, b) /\ slots' = slots /\ msg[m].pc = "out"
      BY <1>1, <2>3 DEF Receive
    <3>2. MessageShape(b) /\ b.pc = "sending" /\ b.tries = msg[m].tries /\ b.handled = msg[m].handled
      <4>1. b = [f \in MessageFields |-> b[f]]
        BY <1>0 DEF MessageShape
      <4>2. /\ b.pc = "sending" /\ b.tries = msg[m].tries /\ b.handled = msg[m].handled /\ b.pod = msg[m].pod
        BY <1>0 DEF MessageShape, MessageFields
      <4> QED
        BY <1>0, <4>1, <4>2 DEF MessageShape, Places
    <3> HIDE DEF b
    <3>3. Moves(m, b)
      BY <3>1, <3>2, StayMoves
    <3> QED
      BY <1>1, <3>3 DEF Receive
  <2> QED
    BY <2>1, <2>2, <2>3
<1>2. CASE RequestsWake(m)
  <2> DEFINE b == [msg[m] EXCEPT !.pc = "waiting"]
  <2>1. Put(m, b) /\ slots' = slots /\ msg[m].pc = "waking"
    BY <1>2 DEF RequestsWake
  <2>2. MessageShape(b) /\ b.pc = "waiting" /\ b.tries = msg[m].tries /\ b.handled = msg[m].handled
    <3>1. b = [f \in MessageFields |-> b[f]]
      BY <1>0 DEF MessageShape
    <3>2. /\ b.pc = "waiting" /\ b.tries = msg[m].tries /\ b.handled = msg[m].handled /\ b.pod = msg[m].pod
      BY <1>0 DEF MessageShape, MessageFields
    <3> QED
      BY <1>0, <3>1, <3>2 DEF MessageShape, Places
  <2> HIDE DEF b
  <2>3. Moves(m, b)
    BY <2>1, <2>2, StayMoves
  <2> QED
    BY <1>2, <2>3 DEF RequestsWake
<1>3. CASE ActivatorFails(m)
  <2>1. CASE EndWait(m, "failed")
    <3>1. Waits(m)
      BY <1>3 DEF ActivatorFails, Waits
    <3>2. \E b : Moves(m, b)
      BY <2>1, <3>1, EndMoves
    <3> QED
      BY <1>3, <3>2 DEF ActivatorFails
  <2>2. CASE ~EndWait(m, "failed")
    <3> DEFINE y == TRUE
               b == [msg[m] EXCEPT !.again = y]
    <3>1. Put(m, b) /\ slots' = slots /\ msg[m].pc = "waking"
      BY <1>3, <2>2 DEF ActivatorFails
    <3> HIDE DEF y
    <3>2. MessageShape(b) /\ b.pc = msg[m].pc /\ b.tries = msg[m].tries /\ b.handled = msg[m].handled
      <4>1. b = [f \in MessageFields |-> b[f]]
        BY <1>0 DEF MessageShape
      <4>2. /\ b.pc = msg[m].pc /\ b.tries = msg[m].tries /\ b.handled = msg[m].handled /\ b.pod = msg[m].pod
        BY <1>0 DEF MessageShape, MessageFields
      <4> QED
        BY <1>0, <4>1, <4>2 DEF MessageShape
    <3> HIDE DEF b
    <3>3. Moves(m, b)
      BY <3>1, <3>2, StayMoves
    <3> QED
      BY <1>3, <3>3 DEF ActivatorFails
  <2> QED
    BY <2>1, <2>2
<1>4. CASE Poll(m)
  <2>1. CASE EndWait(m, "sending")
    <3>1. Waits(m)
      BY <1>4 DEF Poll, Waits
    <3>2. \E b : Moves(m, b)
      BY <2>1, <3>1, EndMoves
    <3> QED
      BY <1>4, <3>2 DEF Poll
  <2>2. CASE ~EndWait(m, "sending")
    <3>1. PICK x, y, z : /\ Put(m, [msg[m] EXCEPT !.ready = y, !.asked = z, !.pc = x])
                         /\ x \in {"waking", "waiting"}
      BY <1>4, <2>2 DEF Poll
    <3> DEFINE b == [msg[m] EXCEPT !.ready = y, !.asked = z, !.pc = x]
    <3>2. slots' = slots /\ msg[m].pc = "waiting"
      BY <1>4, <2>2 DEF Poll
    <3>3. MessageShape(b) /\ b.pc = x /\ b.tries = msg[m].tries /\ b.handled = msg[m].handled
      <4>1. b = [f \in MessageFields |-> b[f]]
        BY <1>0 DEF MessageShape
      <4>2. /\ b.pc = x /\ b.tries = msg[m].tries /\ b.handled = msg[m].handled /\ b.pod = msg[m].pod
        BY <1>0 DEF MessageShape, MessageFields
      <4> QED
        BY <1>0, <3>1, <4>1, <4>2 DEF MessageShape, Places
    <3>4. Put(m, b)
      BY <3>1
    <3> HIDE DEF b
    <3>5. Moves(m, b)
      BY <3>1, <3>2, <3>3, <3>4, StayMoves
    <3> QED
      BY <1>4, <3>5 DEF Poll
  <2> QED
    BY <2>1, <2>2
<1>5. CASE WaitTimesOut(m)
  <2>1. \E b : Moves(m, b)
    BY <1>5, EndMoves DEF WaitTimesOut
  <2> QED
    BY <1>5, <2>1 DEF WaitTimesOut
<1>6. CASE Send(m)
  <2> DEFINE r == [msg[m] EXCEPT !.tries = msg[m].tries + 1]
  <2>1. msg[m].pc = "sending" /\ msg[m].tries < Attempts /\ UNCHANGED <<view, track, others>>
    BY <1>6 DEF Send, MessageSound
  <2>2. MessageShape(r) /\ r.pc = "sending" /\ r.tries = msg[m].tries + 1 /\ r.handled = msg[m].handled
    <3>1. r = [f \in MessageFields |-> r[f]]
      BY <1>0 DEF MessageShape
    <3>2. /\ r.pc = msg[m].pc /\ r.tries = msg[m].tries + 1 /\ r.handled = msg[m].handled /\ r.pod = msg[m].pod
      BY <1>0 DEF MessageShape, MessageFields
    <3> QED
      BY <1>0, <2>1, <3>1, <3>2 DEF MessageShape
  <2>3. \/ /\ \E p \in PodIds : Put(m, [r EXCEPT !.pc = "handling", !.pod = p, !.handled = r.handled + 1])
           /\ slots' = slots
        \/ r.tries < Attempts /\ awaitPod(m, r, FALSE)
        \/ Retry(m, r) /\ slots' = slots
    BY <1>6 DEF Send
  <2> HIDE DEF r
  <2>4. /\ r.handled <= msg[m].tries /\ msg[m].tries \in Nat /\ msg[m].handled \in Nat
    BY <2>2 DEF MessageSound, MessageShape
  <2>5. ASSUME NEW p \in PodIds, Put(m, [r EXCEPT !.pc = "handling", !.pod = p, !.handled = r.handled + 1]),
               slots' = slots
        PROVE  \E b : Moves(m, b)
    <3> DEFINE b == [r EXCEPT !.pc = "handling", !.pod = p, !.handled = r.handled + 1]
    <3>1. b = [f \in MessageFields |-> b[f]]
      BY <2>2 DEF MessageShape
    <3>2. b.pc = "handling" /\ b.tries = r.tries /\ b.handled = r.handled + 1 /\ b.pod = p
      BY <2>2 DEF MessageShape, MessageFields
    <3>3. Put(m, b)
      BY <2>5
    <3> HIDE DEF b
    <3>4. MessageShape(b)
      BY <2>2, <2>4, <3>1, <3>2 DEF MessageShape, Places
    <3>5. MessageSound(b)
      BY <1>0, <2>1, <2>2, <2>4, <3>2, <3>4 DEF MessageSound
    <3>6. Advances(msg[m], b)
      BY <1>0, <2>1, <2>2, <2>4, <3>2 DEF Advances, OutcomeOf
    <3> QED
      BY <2>1, <2>5, <3>2, <3>3, <3>5, <3>6 DEF Moves, Held
  <2>6. ASSUME r.tries < Attempts, awaitPod(m, r, FALSE)
        PROVE  \E b : Moves(m, b)
    <3>1. MessageSound(r)
      BY <1>0, <2>2, <2>4, <2>6 DEF MessageSound
    <3> QED
      BY <2>1, <2>2, <2>6, <3>1, AwaitMoves
  <2>7. ASSUME Retry(m, r), slots' = slots
        PROVE  \E b : Moves(m, b)
    BY <1>0, <2>1, <2>2, <2>4, <2>7, RetryMoves
  <2> QED
    BY <2>1, <2>3, <2>5, <2>6, <2>7
<1>7. CASE Reply(m)
  <2> DEFINE b == [msg[m] EXCEPT !.pc = "delivered", !.pod = NoPod]
  <2>1. Put(m, b) /\ slots' = slots /\ msg[m].pc = "handling"
    BY <1>7 DEF Reply
  <2>2. MessageShape(b) /\ b.pc = "delivered" /\ b.tries = msg[m].tries /\ b.handled = msg[m].handled
    <3>1. b = [f \in MessageFields |-> b[f]]
      BY <1>0 DEF MessageShape
    <3>2. b.pc = "delivered" /\ b.tries = msg[m].tries /\ b.handled = msg[m].handled /\ b.pod = NoPod
      BY <1>0 DEF MessageShape, MessageFields
    <3> QED
      BY <1>0, <3>1, <3>2 DEF MessageShape, Places
  <2> HIDE DEF b
  <2>3. Moves(m, b)
    BY <2>1, <2>2, StayMoves
  <2> QED
    BY <1>7, <2>3 DEF Reply
<1>8. CASE ReplyLost(m)
  <2>1. \E b : Moves(m, b)
    BY <1>0, <1>8, RetryMoves DEF ReplyLost, MessageSound, MessageShape
  <2> QED
    BY <1>8, <2>1 DEF ReplyLost
<1> QED
  BY <1>1, <1>2, <1>3, <1>4, <1>5, <1>6, <1>7, <1>8 DEF MessageStep

-----------------------------------------------------------------------------
(* Slots *)

(* Finitely many messages wait. *)
LEMMA WaitingFinite == IsFiniteSet(Waiting(msg)) /\ Cardinality(Waiting(msg)) \in Nat
<1>1. Waiting(msg) \in SUBSET Messages
  BY DEF Waiting
<1>2. IsFiniteSet(Waiting(msg))
  BY <1>1, DeliveryAssumption, FS_Subset
<1> QED
  BY <1>2, FS_CardinalityType

(* The messages that wait, after one of them has moved. *)
LEMMA WaitingMoves ==
    ASSUME NEW m \in Messages, NEW b, Put(m, b), msg = [q \in Messages |-> msg[q]]
    PROVE  Cardinality(Waiting(msg')) = Cardinality(Waiting(msg)) + Held(b) - Held(msg[m])
<1>1. IsFiniteSet(Waiting(msg)) /\ Cardinality(Waiting(msg)) \in Nat
  BY WaitingFinite
<1>2. msg'[m] = b /\ \A q \in Messages \ {m} : msg'[q] = msg[q]
  BY DEF Put
<1>3. CASE b.pc \in {"waking", "waiting"}
  <2>1. Waiting(msg') = Waiting(msg) \cup {m}
    BY <1>2, <1>3 DEF Waiting
  <2>2. m \in Waiting(msg) <=> msg[m].pc \in {"waking", "waiting"}
    BY DEF Waiting
  <2>3. Cardinality(Waiting(msg')) = IF m \in Waiting(msg) THEN Cardinality(Waiting(msg)) ELSE Cardinality(Waiting(msg)) + 1
    BY <1>1, <2>1, FS_AddElement
  <2> QED
    BY <1>1, <1>3, <2>2, <2>3 DEF Held
<1>4. CASE b.pc \notin {"waking", "waiting"}
  <2>1. Waiting(msg') = Waiting(msg) \ {m}
    BY <1>2, <1>4 DEF Waiting
  <2>2. m \in Waiting(msg) <=> msg[m].pc \in {"waking", "waiting"}
    BY DEF Waiting
  <2>3. Cardinality(Waiting(msg')) = IF m \in Waiting(msg) THEN Cardinality(Waiting(msg)) - 1 ELSE Cardinality(Waiting(msg))
    BY <1>1, <2>1, FS_RemoveElement
  <2> QED
    BY <1>1, <1>4, <2>2, <2>3 DEF Held
<1> QED
  BY <1>1, <1>3, <1>4

(* PodReadyTracker's broadcast changes no more than the flag of the        *)
(* messages that wait.                                                     *)
LEMMA ObserveMoves ==
    ASSUME NEW p \in PodIds, Observe(p), msg = [m \in Messages |-> msg[m]], \A m \in Messages : MessageSound(msg[m])
    PROVE  /\ msg' = [m \in Messages |-> msg'[m]]
           /\ \A m \in Messages : /\ MessageSound(msg'[m]) /\ msg'[m].pc = msg[m].pc
                                   /\ msg'[m].handled = msg[m].handled
<1> DEFINE y == TRUE
           b(m) == [msg[m] EXCEPT !.ready = y]
<1>1. \/ msg' = msg
      \/ msg' = [m \in Messages |-> IF msg[m].pc = "waiting" THEN b(m) ELSE msg[m]]
  BY DEF Observe
<1> HIDE DEF y
<1>2. ASSUME NEW m \in Messages
      PROVE  MessageSound(b(m)) /\ b(m).pc = msg[m].pc /\ b(m).handled = msg[m].handled
  <2>1. MessageShape(msg[m])
    BY DEF MessageSound
  <2>2. b(m) = [f \in MessageFields |-> b(m)[f]]
    BY <2>1 DEF MessageShape
  <2>3. b(m).pc = msg[m].pc /\ b(m).tries = msg[m].tries /\ b(m).handled = msg[m].handled /\ b(m).pod = msg[m].pod
    BY <2>1 DEF MessageShape, MessageFields
  <2> HIDE DEF b
  <2> QED
    BY <2>1, <2>2, <2>3 DEF MessageSound, MessageShape
<1> HIDE DEF b
<1>3. CASE msg' = msg
  BY <1>3
<1>4. CASE msg' = [m \in Messages |-> IF msg[m].pc = "waiting" THEN b(m) ELSE msg[m]]
  BY <1>2, <1>4
<1> QED
  BY <1>1, <1>3, <1>4

(* The messages that wait are the same while nobody moves. *)
LEMMA WaitingSame ==
    ASSUME \A m \in Messages : msg'[m].pc = msg[m].pc
    PROVE  Waiting(msg') = Waiting(msg)
  BY DEF Waiting

(* The initial state satisfies the invariant. *)
LEMMA DeliveryInit == DInit => DeliveryInvariant
<1> SUFFICES ASSUME DInit PROVE DeliveryInvariant
  OBVIOUS
<1>1. LifeTypes
  BY DeliveryTypesInit
<1>2. view \in Phases /\ track \in [PodIds -> {"none", "seen", "serving"}]
  BY <1>1 DEF DInit, LifeTypes, TypeOK, Agents
<1>3. msg = [m \in Messages |-> msg[m]] /\ \A m \in Messages : msg[m] = NewMessage
  BY DEF DInit
<1>4. MessageSound(NewMessage) /\ NewMessage.pc = "out"
  <2>1. NewMessage = [f \in MessageFields |-> NewMessage[f]]
    BY DEF NewMessage, MessageFields
  <2>2. NewMessage.pc = "out" /\ NewMessage.tries = 0 /\ NewMessage.handled = 0 /\ NewMessage.pod = NoPod
    BY DEF NewMessage
  <2> QED
    BY <2>1, <2>2, DeliveryAssumption DEF MessageSound, MessageShape, Places
<1>5. Waiting(msg) = {}
  BY <1>3, <1>4 DEF Waiting
<1>6. Cardinality(Waiting(msg)) = 0
  BY <1>5, FS_EmptySet
<1>7. others \in Nat /\ slots = Cardinality(Waiting(msg)) + others /\ slots <= MaxPodWaits
  BY <1>6, DeliveryAssumption DEF DInit
<1> QED
  BY <1>1, <1>2, <1>3, <1>4, <1>7 DEF DeliveryInvariant

(* The steps of the gateway keep the types of the rest. *)
LEMMA DeliveryTypesStep == LifeTypes /\ [DNext]_dvars => LifeTypes'
<1> SUFFICES ASSUME LifeTypes, [DNext]_dvars PROVE LifeTypes'
  OBVIOUS
<1>0. nEvents \in 0..MaxEvents /\ MaxEvents \in Nat
  BY AgentAssumption DEF LifeTypes, TypeOK
<1>1. CASE (Reconcile \/ Surroundings \/ DTick) /\ UNCHANGED gateway
  BY <1>1, LifeTypesStep DEF Next, DTick
<1>2. CASE UNCHANGED vars
  BY <1>2, LifeTypesStep
<1>3. ASSUME NEW m \in Messages, RequestsWake(m) \/ ActivatorFails(m) \/ WaitTimesOut(m) \/ Reply(m) \/ ReplyLost(m)
      PROVE  LifeTypes'
  <2>1. /\ UNCHANGED <<cagent, pods, cpods, pass, env, fetched, now, pvc>>
        /\ Patch \/ UNCHANGED <<agent, fresh>>
        /\ store' = store \/ store' = [store EXCEPT !.rec[Gateway] = now]
    BY <1>3 DEF RequestsWake, ActivatorFails, WaitTimesOut, Reply, ReplyLost, world
  <2>2. nEvents' \in 0..MaxEvents
    <3>1. nEvents' = nEvents \/ (nEvents < MaxEvents /\ nEvents' = nEvents + 1)
      BY <1>3 DEF RequestsWake, ActivatorFails, WaitTimesOut, Reply, ReplyLost, world, Disturb, May
    <3> QED
      BY <1>0, <3>1
  <2> QED
    BY <2>1, <2>2, GatewayTypes
<1>4. \A m \in Messages : Receive(m) \/ Poll(m) \/ Send(m) => UNCHANGED vars
  BY DEF Receive, Poll, Send
<1>5. CacheView \/ OtherWaitEnds \/ (\E p \in PodIds : Observe(p)) => UNCHANGED vars
  BY DEF CacheView, OtherWaitEnds, Observe
<1> QED
  BY <1>1, <1>2, <1>3, <1>4, <1>5 DEF DNext, MessageStep, dvars

(* Every step keeps the invariant. *)
LEMMA DeliveryStep == DeliveryInvariant /\ [DNext]_dvars => DeliveryInvariant'
<1> SUFFICES ASSUME DeliveryInvariant, [DNext]_dvars PROVE DeliveryInvariant'
  OBVIOUS
<1>0. /\ MaxPodWaits \in Nat /\ Cardinality(Waiting(msg)) \in Nat /\ slots \in Nat
      /\ msg = [m \in Messages |-> msg[m]] /\ \A m \in Messages : MessageSound(msg[m])
      /\ others \in Nat /\ slots = Cardinality(Waiting(msg)) + others /\ slots <= MaxPodWaits
      /\ view \in Phases /\ track \in [PodIds -> {"none", "seen", "serving"}] /\ agent.phase \in Phases
  BY WaitingFinite, DeliveryAssumption DEF DeliveryInvariant, LifeTypes, TypeOK, Agents
<1>1. LifeTypes'
  BY DeliveryTypesStep DEF DeliveryInvariant
<1>2. CASE UNCHANGED gateway
  <2>1. UNCHANGED <<view, track, msg, others, slots>>
    BY <1>2 DEF gateway
  <2> QED
    BY <1>0, <1>1, <2>1 DEF DeliveryInvariant
<1>3. CASE CacheView
  <2>1. view' \in Phases /\ UNCHANGED <<track, msg, others, slots>>
    BY <1>0, <1>3 DEF CacheView
  <2> QED
    BY <1>0, <1>1, <2>1 DEF DeliveryInvariant
<1>4. ASSUME NEW p \in PodIds, Observe(p)
      PROVE  DeliveryInvariant'
  <2>1. track' \in [PodIds -> {"none", "seen", "serving"}] /\ UNCHANGED <<view, others, slots>>
    BY <1>0, <1>4 DEF Observe
  <2>2. /\ msg' = [m \in Messages |-> msg'[m]]
        /\ \A m \in Messages : MessageSound(msg'[m]) /\ msg'[m].pc = msg[m].pc
    BY <1>0, <1>4, ObserveMoves
  <2>3. Waiting(msg') = Waiting(msg)
    BY <2>2, WaitingSame
  <2> QED
    BY <1>0, <1>1, <2>1, <2>2, <2>3 DEF DeliveryInvariant
<1>5. CASE OtherWaitEnds
  <2>1. others' = others - 1 /\ others' \in Nat /\ slots' = slots - 1 /\ UNCHANGED <<view, track, msg>>
    BY <1>0, <1>5 DEF OtherWaitEnds
  <2>2. slots' = Cardinality(Waiting(msg)) + others' /\ slots' <= MaxPodWaits
    BY <1>0, <2>1
  <2> QED
    BY <1>0, <1>1, <2>1, <2>2 DEF DeliveryInvariant
<1>6. ASSUME NEW m \in Messages, MessageStep(m)
      PROVE  DeliveryInvariant'
  <2>1. UNCHANGED <<view, track, others>> /\ \E b : Moves(m, b)
    BY <1>0, <1>6, MessageMoves
  <2>2. PICK b : Moves(m, b)
    BY <2>1
  <2>3. /\ msg' = [q \in Messages |-> msg'[q]] /\ \A q \in Messages : MessageSound(msg'[q])
    BY <1>0, <2>2 DEF Moves, Put
  <2>4. Cardinality(Waiting(msg')) = Cardinality(Waiting(msg)) + Held(b) - Held(msg[m])
    BY <1>0, <2>2, WaitingMoves DEF Moves
  <2>5. Held(b) \in Int /\ Held(msg[m]) \in Int
    BY DEF Held
  <2>6. slots' = Cardinality(Waiting(msg')) + others' /\ slots' <= MaxPodWaits
    BY <1>0, <2>1, <2>2, <2>4, <2>5 DEF Moves
  <2> QED
    BY <1>0, <1>1, <2>1, <2>3, <2>6 DEF DeliveryInvariant
<1> QED
  BY <1>2, <1>3, <1>4, <1>5, <1>6 DEF DNext, dvars

(* acquirePodWait and its release, for any number of messages and slots:   *)
(* the slots held are those of the messages that wait, never more than the *)
(* cap, on every path out of a wait.                                       *)
THEOREM HeldSlotsAreCounted == DSpec => []SlotsCounted
<1>1. DeliveryInvariant => SlotsCounted
  <2> SUFFICES ASSUME DeliveryInvariant PROVE SlotsCounted
    OBVIOUS
  <2>1. Waiting(msg) = {m \in Messages : Waits(m)}
    BY DEF Waiting, Waits
  <2>2. \A m \in Messages : msg[m].tries \in 0..Attempts /\ msg[m].pod \in PodIds \cup {NoPod}
    BY DeliveryAssumption DEF DeliveryInvariant, MessageSound, MessageShape
  <2> QED
    BY <2>1, <2>2 DEF DeliveryInvariant, SlotsCounted, DTypeOK
<1> QED
  BY DeliveryInit, DeliveryStep, <1>1, PTL DEF DSpec

-----------------------------------------------------------------------------
(* The promise *)

(* A message that moves takes a step of MessageService, or none. *)
LEMMA PromiseMoves ==
    ASSUME NEW m \in Messages, NEW b, Put(m, b), Advances(msg[m], b), msg = [q \in Messages |-> msg[q]]
    PROVE  [Promise!Next]_(Promise!svars)
<1>1. Outcomes = [q \in Messages |-> OutcomeOf(msg[q])] /\ Outcomes' = [q \in Messages |-> OutcomeOf(msg'[q])]
  BY DEF Outcomes, OutcomeOf, Failed
<1>2. HandedOver = [q \in Messages |-> msg[q].handled] /\ HandedOver' = [q \in Messages |-> msg'[q].handled]
  BY DEF HandedOver
<1>3. msg' = [msg EXCEPT ![m] = b]
  BY DEF Put
<1>4. /\ Outcomes' = [Outcomes EXCEPT ![m] = OutcomeOf(b)] /\ Outcomes[m] = OutcomeOf(msg[m])
      /\ Outcomes = [q \in Messages |-> Outcomes[q]]
  BY <1>1, <1>3
<1>5. /\ HandedOver' = [HandedOver EXCEPT ![m] = b.handled] /\ HandedOver[m] = msg[m].handled
      /\ HandedOver = [q \in Messages |-> HandedOver[q]]
  BY <1>2, <1>3
<1>6. b.handled = msg[m].handled => HandedOver' = HandedOver
  BY <1>5
<1>7. CASE OutcomeOf(b) = OutcomeOf(msg[m]) /\ b.handled = msg[m].handled
  BY <1>4, <1>6, <1>7 DEF Promise!svars
<1>8. CASE OutcomeOf(msg[m]) = "out" /\ OutcomeOf(b) \in {"taken", "failed"} /\ b.handled = msg[m].handled
  BY <1>4, <1>6, <1>8 DEF Promise!Next, Promise!Take, Promise!Refuse
<1>9. CASE /\ OutcomeOf(msg[m]) = "taken" /\ OutcomeOf(b) = "taken"
           /\ msg[m].handled < Attempts /\ b.handled = msg[m].handled + 1
  BY <1>4, <1>5, <1>9 DEF Promise!Next, Promise!Handle
<1>10. CASE OutcomeOf(msg[m]) = "taken" /\ OutcomeOf(b) = "failed" /\ b.handled = msg[m].handled
  BY <1>4, <1>6, <1>10 DEF Promise!Next, Promise!Settle, Promise!Fail
<1>11. CASE /\ OutcomeOf(msg[m]) = "taken" /\ OutcomeOf(b) = "delivered"
            /\ msg[m].handled > 0 /\ b.handled = msg[m].handled
  BY <1>4, <1>5, <1>6, <1>11 DEF Promise!Next, Promise!Settle, Promise!Deliver
<1> QED
  BY <1>7, <1>8, <1>9, <1>10, <1>11 DEF Advances

(* Nothing the sender knows changes while no message moves. *)
LEMMA PromiseSame ==
    ASSUME \A m \in Messages : msg'[m].pc = msg[m].pc /\ msg'[m].handled = msg[m].handled
    PROVE  UNCHANGED Promise!svars
<1>1. Outcomes' = Outcomes
  BY DEF Outcomes, Failed
<1>2. HandedOver' = HandedOver
  BY DEF HandedOver
<1> QED
  BY <1>1, <1>2 DEF Promise!svars

(* The gateway implements MessageService, but for its fairness, for any    *)
(* number of messages and attempts: wakeAndDeliver and deliverToAgent hand *)
(* a message to the agent at most Attempts times, give its outcome once,   *)
(* and say delivered only if the agent has handled it.                     *)
THEOREM PromiseIsKept == DSpec => Promise!Init /\ [][Promise!Next]_(Promise!svars)
<1>1. DInit => Promise!Init
  <2> SUFFICES ASSUME DInit PROVE Promise!Init
    OBVIOUS
  <2>1. \A m \in Messages : msg[m].pc = "out" /\ msg[m].handled = 0
    BY DEF DInit, NewMessage
  <2>2. Outcomes = [m \in Messages |-> "out"]
    BY <2>1 DEF Outcomes, Failed
  <2>3. HandedOver = [m \in Messages |-> 0]
    BY <2>1 DEF HandedOver
  <2> QED
    BY <2>2, <2>3 DEF Promise!Init
<1>2. DeliveryInvariant /\ [DNext]_dvars => [Promise!Next]_(Promise!svars)
  <2> SUFFICES ASSUME DeliveryInvariant, [DNext]_dvars PROVE [Promise!Next]_(Promise!svars)
    OBVIOUS
  <2>0. /\ msg = [m \in Messages |-> msg[m]] /\ \A m \in Messages : MessageSound(msg[m])
        /\ slots \in Nat /\ slots <= MaxPodWaits
    BY WaitingFinite DEF DeliveryInvariant
  <2>1. CASE UNCHANGED msg
    BY <2>1, PromiseSame
  <2>2. ASSUME NEW p \in PodIds, Observe(p)
        PROVE  [Promise!Next]_(Promise!svars)
    BY <2>0, <2>2, ObserveMoves, PromiseSame
  <2>3. ASSUME NEW m \in Messages, MessageStep(m)
        PROVE  [Promise!Next]_(Promise!svars)
    <3>1. PICK b : Moves(m, b)
      BY <2>0, <2>3, MessageMoves
    <3> QED
      BY <2>0, <3>1, PromiseMoves DEF Moves
  <2> QED
    BY <2>1, <2>2, <2>3 DEF DNext, dvars, gateway, CacheView, OtherWaitEnds
<1> QED
  BY DeliveryInit, DeliveryStep, <1>1, <1>2, PTL DEF DSpec
=============================================================================
