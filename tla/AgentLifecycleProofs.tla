------------------------ MODULE AgentLifecycleProofs ------------------------
(***************************************************************************)
(* Proofs about AgentLifecycle, for any number of gateway replicas, Pods,  *)
(* disturbances and any timeouts.                                          *)
(***************************************************************************)
EXTENDS AgentLifecycle, SumTheorems

(* What a pass may rely on in any copy of the Agent. *)
Sane(a) == a \in Agents /\ a.pre # "Degraded" /\ (a.phase = "Degraded" => a.pre # "none")

(* Copies that differ in the status only. *)
Keeps(a, b) ==
    /\ b \in Agents /\ b.pre = a.pre /\ b.wake = a.wake
    /\ b.finalizer = a.finalizer /\ b.deleting = a.deleting /\ b.gone = a.gone

(* Activity answers and records, and passes. *)
Answers == [at : Int, up : SUBSET Replicas, rec : [Replicas -> Int], started : [Replicas -> Nat]]
Stores == [up : SUBSET Replicas, rec : [Replicas -> Int], started : [Replicas -> Nat]]
PassRecords == [pc : {"idle", "woken", "marked", "ending", "replacing", "terminating", "released"},
                agent : Agents, pod : PodIds \cup {NoPod}]

(* What a pass reads besides, of which only the spec is a number. *)
EnvShape(e) ==
    /\ e = [spec |-> e.spec, mismatch |-> e.mismatch, blocked |-> e.blocked, cert |-> e.cert, retain |-> e.retain]
    /\ e.spec \in Nat

(* Types, of what TypeOK leaves out too. *)
LifeTypes ==
    /\ TypeOK /\ Sane(agent) /\ Sane(cagent) /\ Sane(pass.agent)
    /\ EnvShape(env) /\ store \in Stores /\ fetched \in Answers

(* A copy that the API server would take is the stored Agent, or, for the  *)
(* write at the end of a pass, differs from it in the status only.         *)
CopiesInStep ==
    /\ "cache" \in fresh => cagent = agent
    /\ "pass" \in fresh =>
        /\ pass.pc # "idle"
        /\ pass.pc \in {"woken", "marked", "replacing", "terminating"} => pass.agent = agent
        /\ pass.pc = "ending" => Keeps(agent, pass.agent) /\ agent.phase # "Degraded"
    /\ pass.pc = "woken" => pass.agent.phase = "Resuming"
    /\ pass.pc \in {"marked", "replacing", "ending"} => pass.agent.phase \notin {"Hibernated", "Degraded"}

(* Deletion is not taken back, the volume comes after the finalizer, and   *)
(* what is to be retained is released before the finalizer goes.           *)
DeletesInOrder ==
    /\ cagent.deleting => agent.deleting
    /\ cagent.finalizer \/ pvc # "none" \/ pass.pc = "marked" => agent.finalizer \/ agent.gone
    /\ pass.pc \in {"terminating", "released"} => cagent.deleting
    /\ pass.pc = "released" /\ env.retain => pvc # "owned"
    /\ pvc = "collected" => agent.gone /\ cagent.deleting /\ ~env.retain /\ pass.pc # "marked"

(* Hibernated, or Degraded and to go back to Hibernated. *)
Asleep(a) == a.phase = "Hibernated" \/ (a.phase = "Degraded" /\ a.pre = "Hibernated")
NoPods == \A p \in PodIds : ~Exists(pods, p)
SeesPods == "stalePods" \notin events

(* No pass creates a Pod while the Agent is asleep, because no copy it     *)
(* could start from lags so far; with a current view of the Pods there is  *)
(* one at most, and none where a pass has found none.                      *)
PodsApart ==
    /\ Asleep(agent) => cagent.phase \in {"Hibernating", "Hibernated", "Degraded"} /\ pass.pc # "marked"
    /\ SeesPods =>
        /\ \A p, q \in PodIds : Exists(pods, p) /\ Exists(pods, q) => p = q
        /\ pass.pc \in {"marked", "released"} \/ Asleep(agent) \/ pvc = "collected" => NoPods

LifeInvariant == LifeTypes /\ CopiesInStep /\ DeletesInOrder /\ PodsApart

-----------------------------------------------------------------------------
(* What a pass does to its copy *)

(* setPhase sets the phase, and its time, only. *)
LEMMA SetPhaseKeeps ==
    ASSUME NEW a \in Agents, NEW ph \in Phases, now \in Nat
    PROVE  Keeps(a, SetPhase(a, ph)) /\ SetPhase(a, ph).phase = ph
                /\ SetPhase(a, ph).upToDate = a.upToDate
  BY DEF SetPhase, Keeps, Agents

(* podPendingPhase is Resuming or Provisioning. *)
LEMMA PendingKeeps ==
    ASSUME NEW a \in Agents, now \in Nat
    PROVE  Keeps(a, Pending(a)) /\ Pending(a).phase \in {"Resuming", "Provisioning"}
<1>1. PodPendingPhase(a) \in {"Resuming", "Provisioning"} /\ {"Resuming", "Provisioning"} \subseteq Phases
  BY DEF PodPendingPhase, Phases
<1> QED
  BY <1>1, SetPhaseKeeps DEF Pending

(* markDisrupted sets the reason only. *)
LEMMA MarkDisruptedKeeps ==
    ASSUME NEW a \in Agents
    PROVE  Keeps(a, MarkDisrupted(a)) /\ MarkDisrupted(a).phase = a.phase
  BY DEF MarkDisrupted, Keeps, Agents

(* The newest activity the replicas know of is a time. *)
LEMMA MergedActivityType ==
    ASSUME NEW ans \in Answers
    PROVE  MergedActivity(ans) \in Int
<1> DEFINE R == {ans.rec[g] : g \in ans.up}
<1>1. CASE ans.up = {}
  BY <1>1 DEF MergedActivity, Never, Created
<1>2. CASE ans.up # {}
  <2>1. R \in SUBSET Int /\ R # {}
    BY <1>2 DEF Answers
  <2>2. IsFiniteSet(R)
    <3>1. IsFiniteSet(ans.up)
      BY AgentAssumption, FS_Subset DEF Answers
    <3> DEFINE f == [g \in ans.up |-> ans.rec[g]]
    <3>2. f \in Surjection(ans.up, R)
      BY DEF Surjection
    <3> HIDE DEF f, R
    <3> QED
      BY <3>1, <3>2, FS_Surjection
  <2>3. \E m \in R : \A n \in R : n <= m
    <3> HIDE DEF R
    <3> QED
      BY <2>1, <2>2, GreatestInteger
  <2>4. Max(R) \in Int
    BY <2>1, <2>3 DEF Max
  <2> QED
    BY <1>2, <2>4 DEF MergedActivity, Never, Created
<1> QED
  BY <1>1, <1>2

(* evaluateActivity moves between Running and Idle, and on to Hibernating. *)
LEMMA EvaluatedKeeps ==
    ASSUME NEW a \in Agents, a.phase \in {"Running", "Idle"}, NEW ans \in Answers, NEW held, now \in Nat
    PROVE  /\ Keeps(a, Evaluated(a, ans, held)) /\ Evaluated(a, ans, held).upToDate = a.upToDate
           /\ Evaluated(a, ans, held).phase \in {"Running", "Idle", "Hibernating"}
           /\ Evaluated(a, ans, held).phase = "Hibernating" => a.phase = "Idle"
<1> DEFINE synthetic == MergedActivity(ans) = Never
           last == IF synthetic THEN a.since ELSE MergedActivity(ans)
           marker == IF a.active > last THEN a.active ELSE last
           silence == IF a.active # Never /\ (synthetic \/ a.active > last) THEN a.active ELSE last
           e == Evaluated(a, ans, held)
<1>1. last \in Int /\ marker \in Int
  BY MergedActivityType DEF Agents
<1>2. \A ph \in {"Running", "Idle", "Hibernating"} :
        /\ Keeps(a, SetPhase(a, ph)) /\ SetPhase(a, ph).phase = ph /\ SetPhase(a, ph).upToDate = a.upToDate
  BY SetPhaseKeeps DEF Phases
<1>3. \/ e = a \/ (e = SetPhase(a, "Hibernating") /\ a.phase = "Idle")
      \/ e = [SetPhase(a, "Idle") EXCEPT !.active = marker] \/ e = [SetPhase(a, "Running") EXCEPT !.active = last]
  <2> HIDE DEF marker, last, silence
  <2>1. CASE a.phase = "Running"
    BY <2>1 DEF Evaluated, marker, last, silence
  <2>2. CASE a.phase = "Idle"
    BY <2>2 DEF Evaluated, marker, last, silence
  <2> QED
    BY <2>1, <2>2
<1> HIDE DEF marker, last, silence, e
<1>4. Keeps(a, a)
  BY DEF Keeps
<1> QED
  BY <1>1, <1>2, <1>3, <1>4 DEF Keeps, Agents, e

(* What convergePod on Pod p, which stays, and the activity step make of x. *)
Observed(x, ps, p) ==
    LET s == ps.state[p]
        drifted == Drifted(ps, p)
        a == IF drifted THEN HeldBack(x, s, ~CertificateReady) ELSE x
        b == OnPod(a, FloorsActivity(x.upToDate), s, drifted)
    IN  IF ActivityStepRuns(b) THEN Evaluated(b, fetched, ~CertificateReady) ELSE b

(* convergePod on a Pod that stays, and the activity step. *)
LEMMA ObservedKeeps ==
    ASSUME NEW x \in Agents, NEW ps, NEW p, ps.state[p] \in {"looping", "ready", "pending"},
           fetched \in Answers, now \in Nat
    PROVE  /\ Keeps(x, Observed(x, ps, p))
           /\ Observed(x, ps, p).phase \in {"Running", "Idle", "Failed", "Resuming", "Provisioning", "Hibernating"}
<1> DEFINE s == ps.state[p]
           drifted == Drifted(ps, p)
           a == IF drifted THEN HeldBack(x, s, ~CertificateReady) ELSE x
           b == OnPod(a, FloorsActivity(x.upToDate), s, drifted)
           c == IF ActivityStepRuns(b) THEN Evaluated(b, fetched, ~CertificateReady) ELSE b
<1>1. Keeps(x, a) /\ a.phase = x.phase
  BY DEF HeldBack, Keeps, Agents
<1>2. Keeps(a, b) /\ b.phase \in {"Running", "Idle", "Failed", "Resuming", "Provisioning"}
  <2>1. CASE s = "looping"
    BY <1>1, <2>1, SetPhaseKeeps DEF OnPod, Phases, Keeps
  <2>2. CASE s = "pending"
    BY <1>1, <2>2, PendingKeeps DEF OnPod, Keeps
  <2>3. CASE s = "ready"
    <3> DEFINE floored == a.phase \notin {"Idle", "Running"} /\ (a.phase = "Resuming" \/ FloorsActivity(x.upToDate))
               d == IF floored THEN [a EXCEPT !.active = now] ELSE a
               e == IF a.phase = "Idle" THEN d ELSE SetPhase(d, "Running")
    <3>1. Keeps(a, d) /\ d.phase = a.phase
      BY <1>1 DEF Keeps, Agents
    <3>2. Keeps(a, e) /\ e.phase \in {"Running", "Idle"}
      <4> HIDE DEF d
      <4> QED
        BY <3>1, SetPhaseKeeps DEF Keeps, Phases
    <3>3. b = IF drifted THEN e ELSE [e EXCEPT !.upToDate = "Current"]
      BY <2>3 DEF OnPod, OnReady
    <3> HIDE DEF e
    <3>4. b = e \/ b = [e EXCEPT !.upToDate = "Current"]
      BY <3>3
    <3> HIDE DEF a, b
    <3>5. CASE b = e
      BY <3>2, <3>5 DEF Keeps
    <3>6. CASE b = [e EXCEPT !.upToDate = "Current"]
      BY <3>2, <3>6 DEF Keeps, Agents
    <3> QED
      BY <3>4, <3>5, <3>6
  <2> QED
    BY <2>1, <2>2, <2>3
<1>3. c = Observed(x, ps, p)
  BY DEF Observed
<1> HIDE DEF a, b
<1>4. Keeps(b, c) /\ c.phase \in {"Running", "Idle", "Failed", "Resuming", "Provisioning", "Hibernating"}
  <2>1. b \in Agents
    BY <1>2 DEF Keeps
  <2>2. CASE ActivityStepRuns(b)
    <3>1. b.phase \in {"Running", "Idle"}
      BY <2>2 DEF ActivityStepRuns
    <3> QED
      BY <2>1, <2>2, <3>1, EvaluatedKeeps
  <2>3. CASE ~ActivityStepRuns(b)
    BY <1>2, <2>1, <2>3 DEF Keeps
  <2> QED
    BY <2>2, <2>3
<1> HIDE DEF c
<1>5. Keeps(x, c)
  BY <1>1, <1>2, <1>4 DEF Keeps
<1> QED
  BY <1>3, <1>4, <1>5

(* ownedPod finds a Pod that is there, or that there is none. *)
LEMMA OwnedPodFinds ==
    ASSUME NEW ps, MaxPods \in Nat
    PROVE  /\ NoPod \in OwnedPod(ps) <=> \A p \in PodIds : ~Exists(ps, p)
           /\ \A p \in OwnedPod(ps) \ {NoPod} : p \in PodIds /\ Exists(ps, p)
  BY DEF OwnedPod, NoPod, PodIds

-----------------------------------------------------------------------------
(* Types *)

(* A new Agent is well typed. *)
LEMMA NewAgentSane == Sane(NewAgent) /\ NewAgent.phase = "Pending"
  BY DEF NewAgent, Sane, Agents, Phases, Never, Created

(* The initial state is well typed. *)
LEMMA LifeTypesInit == Init => LifeTypes
<1> SUFFICES ASSUME Init PROVE LifeTypes
  OBVIOUS
<1>1. Sane(NewAgent)
  BY NewAgentSane
<1>2. pods \in PodTables /\ cpods \in PodTables
  BY DEF Init, PodTables
<1>3. NoPass \in PassRecords /\ NoPass.agent = NewAgent
  BY <1>1 DEF NoPass, Sane, PassRecords
<1>4. TypeOK
  BY <1>1, <1>2, <1>3, AgentAssumption DEF Init, TypeOK, Sane, Created, PassRecords
<1>5. EnvShape(env)
  BY DEF Init, EnvShape
<1>6. store \in Stores /\ fetched \in Answers
  BY DEF Init, NoAnswer, Answers, Never, Stores
<1> QED
  BY <1>1, <1>3, <1>4, <1>5, <1>6 DEF LifeTypes, Init

(* A write that ends the pass, or goes on with it, keeps the types. *)
LEMMA WritesTyped ==
    ASSUME LifeTypes
    PROVE  /\ \A copy, a : WriteStatus(copy, a) /\ Sane(a) =>
                Sane(agent') /\ pass' \in PassRecords /\ Sane(pass'.agent) /\ fresh' \subseteq {"cache", "pass"}
           /\ \A copy, a, p : \A pc \in {"woken", "marked", "replacing", "terminating"} :
                WriteOn(copy, a, pc, p) /\ Sane(a) /\ p \in PodIds \cup {NoPod} =>
                Sane(agent') /\ pass' \in PassRecords /\ Sane(pass'.agent) /\ fresh' \subseteq {"cache", "pass"}
           /\ \A a, p : \A pc \in {"ending", "released"} :
                Continue(pc, a, p) /\ Sane(a) /\ p \in PodIds \cup {NoPod} =>
                pass' \in PassRecords /\ Sane(pass'.agent) /\ fresh' \subseteq {"cache", "pass"}
           /\ EndsPass => pass' \in PassRecords /\ Sane(pass'.agent) /\ fresh' \subseteq {"cache", "pass"}
<1>1. NoPass \in PassRecords /\ Sane(NoPass.agent)
  BY NewAgentSane DEF NoPass, Sane, PassRecords
<1>2. fresh \subseteq {"cache", "pass"}
  BY DEF LifeTypes, TypeOK
<1>3. ASSUME NEW copy, NEW a, WriteStatus(copy, a), Sane(a)
      PROVE  Sane(agent') /\ pass' \in PassRecords /\ Sane(pass'.agent) /\ fresh' \subseteq {"cache", "pass"}
  BY <1>1, <1>2, <1>3 DEF WriteStatus
<1>4. ASSUME NEW copy, NEW a, NEW p \in PodIds \cup {NoPod}, NEW pc \in {"woken", "marked", "replacing", "terminating"},
             WriteOn(copy, a, pc, p), Sane(a)
      PROVE  Sane(agent') /\ pass' \in PassRecords /\ Sane(pass'.agent) /\ fresh' \subseteq {"cache", "pass"}
  <2>1. a \in Agents
    BY <1>4 DEF Sane
  <2>2. pass' \in PassRecords /\ pass'.agent = a /\ agent' = a
    BY <1>4, <2>1 DEF WriteOn, PassRecords
  <2> QED
    BY <1>2, <1>4, <2>2 DEF WriteOn
<1>5. ASSUME NEW a, NEW p \in PodIds \cup {NoPod}, NEW pc \in {"ending", "released"}, Continue(pc, a, p), Sane(a)
      PROVE  pass' \in PassRecords /\ Sane(pass'.agent) /\ fresh' \subseteq {"cache", "pass"}
  <2>1. a \in Agents
    BY <1>5 DEF Sane
  <2>2. pass' \in PassRecords /\ pass'.agent = a
    BY <1>5, <2>1 DEF Continue, PassRecords
  <2> QED
    BY <1>2, <1>5, <2>2 DEF Continue
<1>6. EndsPass => pass' \in PassRecords /\ Sane(pass'.agent) /\ fresh' \subseteq {"cache", "pass"}
  BY <1>1, <1>2 DEF EndsPass
<1> QED
  BY <1>3, <1>4, <1>5, <1>6

(* What ObservePod writes. *)
LEMMA ObserveWrites ==
    ASSUME LifeTypes, ObservePod
    PROVE  \E c : /\ WriteStatus("cache", c) /\ Keeps(cagent, c)
                  /\ c.phase \notin {"Hibernated", "Degraded"}
<1>0. /\ cagent \in Agents /\ now \in Nat /\ fetched \in Answers /\ MaxPods \in Nat
      /\ pods \in PodTables /\ cpods \in PodTables
  BY AgentAssumption DEF LifeTypes, TypeOK
<1>1. PICK p \in OwnedPod(PodsRead) \ {NoPod} :
        PodsRead.state[p] # "ended" /\ WriteStatus("cache", Observed(cagent, PodsRead, p))
  BY DEF ObservePod, Observed
<1>2. PodsRead.state[p] \in {"looping", "ready", "pending"}
  <2>1. p \in PodIds /\ Exists(PodsRead, p)
    BY <1>0, OwnedPodFinds
  <2>2. PodsRead \in PodTables
    BY <1>0 DEF PodsRead
  <2> QED
    BY <1>1, <2>1, <2>2 DEF PodTables, Exists
<1> DEFINE c == Observed(cagent, PodsRead, p)
<1>3. Keeps(cagent, c) /\ c.phase \in {"Running", "Idle", "Failed", "Resuming", "Provisioning", "Hibernating"}
  BY <1>0, <1>2, ObservedKeeps
<1> HIDE DEF c
<1> QED
  BY <1>1, <1>3 DEF c

(* Every step keeps the types. *)
LEMMA LifeTypesStep == LifeTypes /\ [Next]_vars => LifeTypes'
<1> SUFFICES ASSUME LifeTypes, [Next]_vars PROVE LifeTypes'
  OBVIOUS
<1>0. /\ agent \in Agents /\ cagent \in Agents /\ fresh \subseteq {"cache", "pass"}
      /\ pods \in PodTables /\ cpods \in PodTables /\ pass \in PassRecords
      /\ now \in 1..MaxNow /\ nEvents \in 0..MaxEvents /\ pvc \in {"none", "owned", "kept", "collected"}
      /\ now \in Nat /\ nEvents \in Nat /\ MaxNow \in Nat /\ MaxEvents \in Nat /\ MaxPods \in Nat
      /\ Sane(agent) /\ Sane(cagent) /\ Sane(pass.agent) /\ pass.agent \in Agents
      /\ EnvShape(env) /\ store \in Stores /\ fetched \in Answers
  BY AgentAssumption DEF LifeTypes, TypeOK, PassRecords, Sane
<1> DEFINE Rest == /\ Sane(agent') /\ Sane(cagent') /\ fresh' \subseteq {"cache", "pass"}
                   /\ pods' \in PodTables /\ cpods' \in PodTables /\ pass' \in PassRecords /\ Sane(pass'.agent)
                   /\ now' \in 1..MaxNow /\ nEvents' \in 0..MaxEvents /\ pvc' \in {"none", "owned", "kept", "collected"}
                   /\ EnvShape(env') /\ store' \in Stores /\ fetched' \in Answers
<1>1. SUFFICES Rest
  BY DEF LifeTypes, TypeOK, PassRecords, Sane
<1>2. ASSUME UNCHANGED <<cagent, pods, cpods, world>>, Sane(agent'), pass' \in PassRecords, Sane(pass'.agent),
             fresh' \subseteq {"cache", "pass"}
      PROVE  Rest
  BY <1>0, <1>2 DEF world
<1>3. \A p \in PodIds \cup {NoPod} : Deleting(p) => pods' \in PodTables
  <2>1. \A p \in PodIds \cup {NoPod} : {p} \ {NoPod} \subseteq PodIds
    OBVIOUS
  <2> QED
    BY <1>0, <2>1 DEF Deleting, PodTables
<1>4. \A p \in OwnedPod(PodsRead) : p \in PodIds \cup {NoPod}
  BY <1>0, OwnedPodFinds
<1>5. /\ \A a : Sane(a) => Sane(Pending(a)) /\ Sane(MarkDisrupted(a))
      /\ \A a, ph : Sane(a) /\ ph \in Phases \ {"Degraded"} => Sane(SetPhase(a, ph))
  <2>1. ASSUME NEW a, Sane(a)
        PROVE  Sane(Pending(a)) /\ Sane(MarkDisrupted(a))
    BY <1>0, <2>1, PendingKeeps, MarkDisruptedKeeps DEF Sane, Keeps
  <2>2. ASSUME NEW a, NEW ph, Sane(a), ph \in Phases \ {"Degraded"}
        PROVE  Sane(SetPhase(a, ph))
    BY <1>0, <2>2, SetPhaseKeeps DEF Sane, Keeps
  <2> QED
    BY <2>1, <2>2
<1>6. CASE AddFinalizer
  <2>1. Sane([cagent EXCEPT !.finalizer = TRUE])
    BY <1>0 DEF Sane, Agents
  <2> QED
    BY <1>2, <1>6, <2>1, WritesTyped DEF AddFinalizer
<1>7. CASE HandleWake
  <2>1. CASE cagent.phase = "Hibernated"
    <3>1. Sane(SetPhase(cagent, "Resuming"))
      BY <1>0, <1>5 DEF Phases
    <3>2. Sane([SetPhase(cagent, "Resuming") EXCEPT !.active = now])
      BY <1>0, <3>1 DEF Sane, Agents
    <3> QED
      BY <1>2, <1>7, <2>1, <3>2, WritesTyped DEF HandleWake
  <2>2. CASE cagent.phase # "Hibernated"
    <3>1. Sane([cagent EXCEPT !.wake = "none"])
      BY <1>0 DEF Sane, Agents
    <3> QED
      BY <1>2, <1>7, <2>2, <3>1, WritesTyped DEF HandleWake
  <2> QED
    BY <2>1, <2>2
<1>8. CASE ClearWake
  <2>1. Sane([pass.agent EXCEPT !.wake = "none"])
    BY <1>0 DEF Sane, Agents
  <2> QED
    BY <1>2, <1>8, <2>1, WritesTyped DEF ClearWake
<1>9. CASE DropStrayTrigger
  <2>1. Sane([cagent EXCEPT !.wake = "none"])
    BY <1>0 DEF Sane, Agents
  <2> QED
    BY <1>2, <1>9, <2>1, WritesTyped DEF DropStrayTrigger
<1>10. CASE EnterDegraded
  <2>1. cagent.phase # "Degraded" /\ cagent.phase \in Phases /\ "Degraded" \in Phases /\ cagent.phase # "none"
    BY <1>0, <1>10 DEF EnterDegraded, Agents, Phases
  <2>2. Keeps(cagent, SetPhase(cagent, "Degraded")) /\ SetPhase(cagent, "Degraded").phase = "Degraded"
    BY <1>0, <2>1, SetPhaseKeeps
  <2>3. Sane([SetPhase(cagent, "Degraded") EXCEPT !.pre = cagent.phase])
    BY <2>1, <2>2 DEF Sane, Agents, Keeps
  <2> QED
    BY <1>2, <1>10, <2>3, WritesTyped DEF EnterDegraded
<1>11. CASE LeaveDegraded
  <2> DEFINE ph == IF cagent.pre = "none" THEN "Pending" ELSE cagent.pre
  <2>1. ph \in Phases \ {"Degraded"}
    BY <1>0 DEF Sane, Agents, Phases
  <2>2. Sane(SetPhase(cagent, ph)) /\ SetPhase(cagent, ph).phase = ph
    BY <1>0, <1>5, <2>1, SetPhaseKeeps
  <2> HIDE DEF ph
  <2>3. Sane([SetPhase(cagent, ph) EXCEPT !.pre = "none"])
    BY <2>1, <2>2 DEF Sane, Agents
  <2> QED
    BY <1>2, <1>11, <2>3, WritesTyped DEF LeaveDegraded, ph
<1>12. CASE HibernatePod
  <2>1. PICK p \in PodIds \cup {NoPod} : Deleting(p) /\ Continue("ending", cagent, p)
    BY <1>4, <1>12 DEF HibernatePod
  <2> QED
    BY <1>0, <1>3, <1>12, <2>1, WritesTyped DEF HibernatePod, world
<1>13. CASE SettleHibernated
  <2>1. Sane(SetPhase(cagent, "Hibernated"))
    BY <1>0, <1>5 DEF Phases
  <2>2. Sane([SetPhase(cagent, "Hibernated") EXCEPT !.upToDate = "none"])
    BY <2>1 DEF Sane, Agents
  <2> QED
    BY <1>2, <1>13, <2>2, WritesTyped DEF SettleHibernated
<1>14. CASE AwaitCertificate
  BY <1>0, <1>2, <1>5, <1>14, WritesTyped DEF AwaitCertificate
<1>15. CASE MarkReplacement
  <2>1. WriteOn("cache", MarkDisrupted(cagent), "marked", NoPod) /\ Sane(MarkDisrupted(cagent))
    BY <1>0, <1>5, <1>15 DEF MarkReplacement
  <2> QED
    BY <1>2, <1>15, <2>1, WritesTyped DEF MarkReplacement
<1>16. CASE CreatePod \/ CreateRejected
  <2>1. \E a, q : Continue("ending", Pending(a), q) /\ Sane(a) /\ q \in PodIds \cup {NoPod}
    BY <1>0, <1>16 DEF CreatePod, CreateRejected, CreateWith
  <2>2. pass' \in PassRecords /\ Sane(pass'.agent) /\ fresh' \subseteq {"cache", "pass"}
    BY <1>5, <2>1, WritesTyped
  <2>3. pods' \in PodTables
    <3>1. CASE CreatePod
      <4>1. PICK q \in PodIds : pods' = [pods EXCEPT !.state[q] = "pending", !.spec[q] = env.spec]
        BY <3>1 DEF CreatePod, CreateWith
      <4> QED
        BY <1>0, <4>1 DEF PodTables, EnvShape
    <3>2. CASE CreateRejected
      BY <1>0, <3>2 DEF CreateRejected
    <3> QED
      BY <1>16, <3>1, <3>2
  <2>4. nEvents' \in 0..MaxEvents
    BY <1>0, <1>16 DEF CreatePod, CreateRejected, Disturb, May
  <2> QED
    BY <1>0, <1>16, <2>2, <2>3, <2>4 DEF CreatePod, CreateRejected, EnsureVolume
<1>17. CASE ReplaceLost
  <2> DEFINE lost == Pending(MarkDisrupted(cagent))
  <2>1. Sane(lost)
    BY <1>0, <1>5
  <2> HIDE DEF lost
  <2>2. PICK p \in PodIds \cup {NoPod} :
          \/ WriteStatus("cache", lost) /\ UNCHANGED pods
          \/ Deleting(p) /\ Continue("ending", lost, p) /\ UNCHANGED agent
    BY <1>4, <1>17 DEF ReplaceLost, lost
  <2>3. CASE WriteStatus("cache", lost) /\ UNCHANGED pods
    BY <1>2, <1>17, <2>1, <2>3, WritesTyped DEF ReplaceLost
  <2>4. CASE Deleting(p) /\ Continue("ending", lost, p) /\ UNCHANGED agent
    BY <1>0, <1>3, <1>17, <2>1, <2>4, WritesTyped DEF ReplaceLost, world
  <2> QED
    BY <2>2, <2>3, <2>4
<1>18. CASE AdmitReplacement
  <2>1. PICK p \in PodIds \cup {NoPod} :
          WriteOn("cache", [Pending(cagent) EXCEPT !.upToDate = "Replacing"], "replacing", p)
    BY <1>4, <1>18 DEF AdmitReplacement
  <2>2. Sane([Pending(cagent) EXCEPT !.upToDate = "Replacing"])
    BY <1>0, <1>5 DEF Sane, Agents
  <2> QED
    BY <1>2, <1>18, <2>1, <2>2, WritesTyped DEF AdmitReplacement
<1>19. CASE ReplaceDrifted
  <2>1. pass.pod \in PodIds \cup {NoPod}
    BY <1>0 DEF PassRecords
  <2>2. CASE pass.pod \in pods.gone
    BY <1>0, <1>19, <2>2, WritesTyped DEF ReplaceDrifted, world
  <2>3. CASE pass.pod \notin pods.gone
    BY <1>0, <1>3, <1>19, <2>1, <2>3, WritesTyped DEF ReplaceDrifted, world
  <2> QED
    BY <2>2, <2>3
<1>20. CASE ObservePod
  <2>1. PICK c : WriteStatus("cache", c) /\ Keeps(cagent, c) /\ c.phase # "Degraded"
    BY <1>20, ObserveWrites
  <2>2. Sane(c)
    BY <1>0, <2>1 DEF Sane, Keeps
  <2>3. Sane(agent') /\ pass' \in PassRecords /\ Sane(pass'.agent) /\ fresh' \subseteq {"cache", "pass"}
    BY <2>1, <2>2, WritesTyped
  <2> QED
    BY <1>0, <1>20, <2>3 DEF ObservePod
<1>21. CASE EndPass
  BY <1>0, <1>2, <1>21, WritesTyped DEF EndPass
<1>22. CASE Conflict
  BY <1>0, <1>2, <1>22, WritesTyped DEF Conflict
<1>23. CASE MarkTerminating
  <2>1. Sane(SetPhase(cagent, "Terminating")) /\ SetPhase(cagent, "Terminating").phase = "Terminating"
    BY <1>0, <1>5, SetPhaseKeeps DEF Phases
  <2>2. Sane([SetPhase(cagent, "Terminating") EXCEPT !.pre = "none"])
    BY <2>1 DEF Sane, Agents
  <2>3. WriteOn("cache", [SetPhase(cagent, "Terminating") EXCEPT !.pre = "none"], "terminating", NoPod)
    BY <1>23 DEF MarkTerminating
  <2> QED
    BY <1>2, <1>23, <2>2, <2>3, WritesTyped DEF MarkTerminating
<1>24. CASE TerminatePod
  <2>1. PICK p \in PodIds \cup {NoPod} : Deleting(p)
    BY <1>4, <1>24 DEF TerminatePod
  <2> QED
    BY <1>0, <1>3, <1>24, <2>1, WritesTyped DEF TerminatePod, world
<1>25. CASE ReleaseVolume
  <2>1. Sane(TerminatingAgent)
    BY <1>0 DEF TerminatingAgent
  <2>2. Continue("released", TerminatingAgent, NoPod)
    BY <1>25 DEF ReleaseVolume
  <2>3. pass' \in PassRecords /\ Sane(pass'.agent) /\ fresh' \subseteq {"cache", "pass"}
    BY <2>1, <2>2, WritesTyped
  <2> QED
    BY <1>0, <1>25, <2>3 DEF ReleaseVolume
<1>26. ASSUME Collected
       PROVE  /\ Sane(agent') /\ fresh' \subseteq {"cache", "pass"} /\ pods' \in PodTables
              /\ pvc' \in {"none", "owned", "kept", "collected"}
  <2>1. Sane(agent')
    BY <1>0, <1>26 DEF Collected, Sane, Agents
  <2>2. pods' \in PodTables
    BY <1>0, <1>26 DEF Collected, PodTables
  <2> QED
    BY <1>0, <1>26, <2>1, <2>2 DEF Collected
<1>27. NoPass \in PassRecords /\ Sane(NoPass.agent) /\ NoAnswer \in Answers
  BY NewAgentSane DEF NoPass, Sane, PassRecords, NoAnswer, Answers, Never
<1>28. CASE RemoveFinalizer
  BY <1>0, <1>26, <1>27, <1>28 DEF RemoveFinalizer
<1>29. CASE CacheAgent \/ CachePods
  BY <1>0, <1>29 DEF CacheAgent, CachePods, world
<1>30. \A e : Disturb(e) => nEvents' \in 0..MaxEvents
  BY <1>0 DEF Disturb, May
<1>31. CASE Crash
  BY <1>0, <1>27, <1>30, <1>31 DEF Crash
<1>32. CASE RequestWake
  <2>1. Sane(agent') /\ fresh' = {}
    BY <1>0, <1>32 DEF RequestWake, Sane, Agents
  <2> QED
    BY <1>0, <1>30, <1>32, <2>1 DEF RequestWake
<1>33. CASE DeleteAgent
  <2>1. CASE agent.finalizer
    <3>1. Sane(agent') /\ fresh' = {}
      <4>1. agent' = [agent EXCEPT !.deleting = TRUE] /\ fresh' = {}
        BY <1>33, <2>1 DEF DeleteAgent
      <4>2. agent' \in Agents /\ agent'.phase = agent.phase /\ agent'.pre = agent.pre
        BY <1>0, <4>1 DEF Agents
      <4> QED
        BY <1>0, <4>1, <4>2 DEF Sane
    <3> QED
      BY <1>0, <1>30, <1>33, <2>1, <3>1 DEF DeleteAgent
  <2>2. CASE ~agent.finalizer
    BY <1>0, <1>26, <1>30, <1>33, <2>2 DEF DeleteAgent
  <2> QED
    BY <2>1, <2>2
<1>34. CASE Change
  <2>1. EnvShape(env')
    <3>1. \/ env' = [env EXCEPT !.spec = @ + 1] \/ env' = [env EXCEPT !.mismatch = TRUE]
          \/ env' = [env EXCEPT !.blocked = TRUE] \/ env' = [env EXCEPT !.cert = FALSE]
      BY <1>34 DEF Change
    <3> QED
      BY <1>0, <3>1 DEF EnvShape
  <2>2. nEvents' \in 0..MaxEvents
    BY <1>30, <1>34 DEF Change
  <2> QED
    BY <1>0, <1>34, <2>1, <2>2 DEF Change
<1>35. CASE Clears
  <2>1. EnvShape(env')
    BY <1>0, <1>35 DEF Clears, EnvShape
  <2> QED
    BY <1>0, <1>35, <2>1 DEF Clears
<1>36. ASSUME NEW p \in PodIds, PodReady(p) \/ PodFails(p) \/ PodGoes(p)
       PROVE  Rest
  <2>1. pods' \in PodTables
    <3>1. \A from : \A to \in {"ready", "looping", "pending", "ended"} : PodMoves(p, from, to) => pods' \in PodTables
      BY <1>0 DEF PodMoves, PodTables
    <3>2. CASE PodReady(p) \/ PodFails(p)
      BY <1>3, <3>1, <3>2 DEF PodReady, PodFails
    <3>3. CASE PodGoes(p)
      BY <1>0, <3>3 DEF PodGoes, PodTables
    <3> QED
      BY <1>36, <3>2, <3>3
  <2>2. nEvents' \in 0..MaxEvents
    BY <1>0, <1>30, <1>36 DEF PodReady, PodFails, PodGoes, world
  <2> QED
    BY <1>0, <1>36, <2>1, <2>2 DEF PodReady, PodFails, PodGoes, world
<1>37. ASSUME NEW g \in Replicas, RestartReplica(g) \/ LoseReplica(g) \/ RegainReplica(g) \/ Traffic(g)
       PROVE  Rest
  <2>1. store' \in Stores
    <3>1. CASE RestartReplica(g)
      <4>1. -1 \in Int /\ store.rec \in [Replicas -> Int] /\ store.started \in [Replicas -> Nat]
        BY <1>0 DEF Stores
      <4>2. [store.rec EXCEPT ![g] = -1] \in [Replicas -> Int] /\ [store.started EXCEPT ![g] = now] \in [Replicas -> Nat]
        BY <1>0, <4>1
      <4>3. store' = [up |-> store.up, rec |-> [store.rec EXCEPT ![g] = -1], started |-> [store.started EXCEPT ![g] = now]]
        BY <1>0, <3>1 DEF RestartReplica, Stores, Never
      <4> QED
        BY <1>0, <4>2, <4>3 DEF Stores
    <3>2. CASE LoseReplica(g) \/ RegainReplica(g)
      BY <1>0, <3>2 DEF LoseReplica, RegainReplica, Stores
    <3>3. CASE Traffic(g)
      BY <1>0, <3>3 DEF Traffic, Stores
    <3> QED
      BY <1>37, <3>1, <3>2, <3>3
  <2>2. nEvents' \in 0..MaxEvents
    BY <1>0, <1>30, <1>37 DEF RestartReplica, LoseReplica, RegainReplica, Traffic
  <2> QED
    BY <1>0, <1>37, <2>1, <2>2 DEF RestartReplica, LoseReplica, RegainReplica, Traffic
<1>38. CASE FetchActivity
  <2>1. fetched' \in Answers
    BY <1>0, <1>38 DEF FetchActivity, Stores, Answers
  <2> QED
    BY <1>0, <1>38, <2>1 DEF FetchActivity
<1>39. CASE Tick
  BY <1>0, <1>39 DEF Tick
<1>40. CASE UNCHANGED vars
  BY <1>0, <1>40 DEF vars, world
<1> HIDE DEF Rest
<1> QED
  BY <1>6, <1>7, <1>8, <1>9, <1>10, <1>11, <1>12, <1>13, <1>14, <1>15, <1>16, <1>17, <1>18, <1>19, <1>20,
     <1>21, <1>22, <1>23, <1>24, <1>25, <1>28, <1>29, <1>31, <1>32, <1>33, <1>34, <1>35, <1>36, <1>37, <1>38,
     <1>39, <1>40 DEF Next, Reconcile, Surroundings

-----------------------------------------------------------------------------
(* Copies *)

(* What the writes, and the steps of a pass without one, do to the copies. *)
LEMMA CopiesMove ==
    ASSUME LifeTypes, CopiesInStep, UNCHANGED cagent
    PROVE  /\ \A copy, a : WriteStatus(copy, a) => CopiesInStep'
           /\ \A a, p : \A pc \in {"woken", "marked", "replacing", "terminating"} :
                /\ WriteOn("cache", a, pc, p) /\ (pc = "woken" => a.phase = "Resuming")
                /\ (pc \in {"marked", "replacing"} => a.phase \notin {"Hibernated", "Degraded"})
                => CopiesInStep'
           /\ \A x, a, p :
                /\ Continue("ending", a, p) /\ UNCHANGED agent
                /\ \/ pass.pc = "idle" /\ x = cagent
                   \/ pass.pc \in {"marked", "replacing"} /\ x = pass.agent
                /\ Keeps(x, a) /\ x.phase # "Degraded" /\ a.phase \notin {"Hibernated", "Degraded"}
                => CopiesInStep'
           /\ \A a, p : Continue("released", a, p) /\ UNCHANGED agent => CopiesInStep'
           /\ EndsPass /\ UNCHANGED agent => CopiesInStep'
           /\ UNCHANGED pass /\ fresh' = {} => CopiesInStep'
           /\ pass' = NoPass /\ fresh' = {} => CopiesInStep'
           /\ UNCHANGED <<agent, fresh, pass>> => CopiesInStep'
<1>0. pass.pc = "idle" => "pass" \notin fresh
  BY DEF CopiesInStep
<1>1. NoPass.pc = "idle"
  BY DEF NoPass
<1>2. ASSUME NEW copy, NEW a, WriteStatus(copy, a)
      PROVE  CopiesInStep'
  BY <1>1, <1>2 DEF WriteStatus, CopiesInStep
<1>3. ASSUME NEW a, NEW p, NEW pc \in {"woken", "marked", "replacing", "terminating"},
             WriteOn("cache", a, pc, p), pc = "woken" => a.phase = "Resuming",
             pc \in {"marked", "replacing"} => a.phase \notin {"Hibernated", "Degraded"}
      PROVE  CopiesInStep'
  <2>1. pass'.pc = pc /\ pass'.agent = a /\ agent' = a
    BY <1>3 DEF WriteOn
  <2>2. "cache" \in fresh' => cagent' = agent'
    BY <1>3 DEF WriteOn, CopiesInStep
  <2> QED
    BY <1>3, <2>1, <2>2 DEF CopiesInStep
<1>4. ASSUME NEW x, NEW a, NEW p, Continue("ending", a, p), UNCHANGED agent,
             \/ pass.pc = "idle" /\ x = cagent
             \/ pass.pc \in {"marked", "replacing"} /\ x = pass.agent,
             Keeps(x, a), x.phase # "Degraded", a.phase \notin {"Hibernated", "Degraded"}
      PROVE  CopiesInStep'
  <2>1. pass'.pc = "ending" /\ pass'.agent = a
    BY <1>4 DEF Continue
  <2>2. "pass" \in fresh' => x = agent
    BY <1>0, <1>4 DEF Continue, CopiesInStep
  <2>3. "cache" \in fresh' => cagent' = agent'
    BY <1>4 DEF Continue, CopiesInStep
  <2> QED
    BY <1>4, <2>1, <2>2, <2>3 DEF CopiesInStep, Keeps
<1>5. ASSUME NEW a, NEW p, Continue("released", a, p), UNCHANGED agent
      PROVE  CopiesInStep'
  BY <1>5 DEF Continue, CopiesInStep
<1>6. EndsPass /\ UNCHANGED agent => CopiesInStep'
  BY <1>1 DEF EndsPass, CopiesInStep
<1>7. UNCHANGED pass /\ fresh' = {} => CopiesInStep'
  BY DEF CopiesInStep
<1>8. pass' = NoPass /\ fresh' = {} => CopiesInStep'
  BY <1>1 DEF CopiesInStep
<1>9. UNCHANGED <<agent, fresh, pass>> => CopiesInStep'
  BY DEF CopiesInStep, Keeps
<1> QED
  BY <1>2, <1>3, <1>4, <1>5, <1>6, <1>7, <1>8, <1>9

(* A new Agent has no Pod and no volume, and the cache shows it. *)
LEMMA LifeInit == Init => CopiesInStep /\ DeletesInOrder /\ PodsApart
<1> SUFFICES ASSUME Init PROVE CopiesInStep /\ DeletesInOrder /\ PodsApart
  OBVIOUS
<1>1. /\ agent = NewAgent /\ cagent = NewAgent /\ fresh = {"cache"} /\ pass = NoPass /\ pvc = "none"
      /\ \A p \in PodIds : pods.state[p] = "none"
  BY DEF Init
<1>2. /\ NoPass.pc = "idle" /\ NewAgent.phase = "Pending" /\ ~NewAgent.deleting /\ ~NewAgent.finalizer
  BY DEF NoPass, NewAgent
<1> QED
  BY <1>1, <1>2 DEF CopiesInStep, DeletesInOrder, PodsApart, Asleep, NoPods, Exists

(* Where the guards of a pass put it. *)
LEMMA GuardsSay ==
    /\ Converges => /\ pass.pc = "idle" /\ ~cagent.gone /\ ~cagent.deleting /\ cagent.finalizer
                    /\ cagent.phase \notin {"Hibernating", "Hibernated", "Degraded"}
    /\ Admitted => /\ pass.pc = "idle" /\ ~cagent.deleting /\ cagent.finalizer /\ cagent.phase # "Degraded"
    /\ Checks \/ Active \/ Starts => pass.pc = "idle" /\ ~cagent.deleting
    /\ Finalizes => pass.pc = "idle" /\ cagent.deleting /\ cagent.finalizer
  BY DEF Converges, Admitted, Checks, Active, Starts, Finalizes

(* Every step keeps the copies in step with the stored Agent. *)
LEMMA CopiesStep == LifeTypes /\ CopiesInStep /\ [Next]_vars => CopiesInStep'
<1> SUFFICES ASSUME LifeTypes, CopiesInStep, [Next]_vars PROVE CopiesInStep'
  OBVIOUS
<1>0. cagent \in Agents /\ pass.agent \in Agents /\ now \in Nat
  BY AgentAssumption DEF LifeTypes, TypeOK, Sane
<1>1. \A a \in Agents : /\ Keeps(a, Pending(a)) /\ Pending(a).phase \notin {"Hibernated", "Degraded"}
                        /\ Keeps(a, MarkDisrupted(a)) /\ MarkDisrupted(a).phase = a.phase /\ Keeps(a, a)
  BY <1>0, PendingKeeps, MarkDisruptedKeeps DEF Keeps
<1>2. CASE AddFinalizer \/ ClearWake \/ DropStrayTrigger \/ EnterDegraded \/ LeaveDegraded \/ SettleHibernated
           \/ AwaitCertificate \/ EndPass
  BY <1>2, CopiesMove DEF AddFinalizer, ClearWake, DropStrayTrigger, EnterDegraded, LeaveDegraded,
     SettleHibernated, AwaitCertificate, EndPass
<1>3. CASE HandleWake
  <2>1. CASE cagent.phase = "Hibernated"
    <3> DEFINE a == [SetPhase(cagent, "Resuming") EXCEPT !.active = now]
    <3>1. a.phase = "Resuming"
      BY <1>0, SetPhaseKeeps DEF Phases, Keeps, Agents
    <3>2. WriteOn("cache", a, "woken", NoPod)
      BY <1>3, <2>1 DEF HandleWake
    <3> HIDE DEF a
    <3> QED
      BY <1>3, <3>1, <3>2, CopiesMove DEF HandleWake
  <2>2. CASE cagent.phase # "Hibernated"
    BY <1>3, <2>2, CopiesMove DEF HandleWake
  <2> QED
    BY <2>1, <2>2
<1>4. CASE HibernatePod
  <2>1. PICK p : Continue("ending", cagent, p)
    BY <1>4 DEF HibernatePod
  <2>2. pass.pc = "idle" /\ cagent.phase = "Hibernating" /\ Keeps(cagent, cagent)
    BY <1>0, <1>1, <1>4, GuardsSay DEF HibernatePod
  <2> QED
    BY <1>4, <2>1, <2>2, CopiesMove DEF HibernatePod
<1>5. CASE MarkReplacement
  <2>1. WriteOn("cache", MarkDisrupted(cagent), "marked", NoPod)
    BY <1>5 DEF MarkReplacement
  <2>2. MarkDisrupted(cagent).phase \notin {"Hibernated", "Degraded"}
    BY <1>0, <1>1, <1>5, GuardsSay DEF MarkReplacement
  <2> QED
    BY <1>5, <2>1, <2>2, CopiesMove DEF MarkReplacement
<1>6. CASE CreatePod \/ CreateRejected
  <2>1. PICK x, p : /\ Continue("ending", Pending(x), p)
                    /\ \/ Converges /\ x = cagent
                       \/ pass.pc = "marked" /\ x = pass.agent
    BY <1>6 DEF CreatePod, CreateRejected, CreateWith
  <2>2. x \in Agents /\ x.phase # "Degraded"
    BY <1>0, <2>1, GuardsSay DEF CopiesInStep
  <2>3. \/ pass.pc = "idle" /\ x = cagent
        \/ pass.pc \in {"marked", "replacing"} /\ x = pass.agent
    BY <2>1, GuardsSay
  <2>4. UNCHANGED <<agent, cagent>>
    BY <1>6 DEF CreatePod, CreateRejected
  <2> QED
    BY <1>1, <2>1, <2>2, <2>3, <2>4, CopiesMove
<1>7. CASE ReplaceLost
  <2> DEFINE lost == Pending(MarkDisrupted(cagent))
  <2>1. Keeps(cagent, lost) /\ lost.phase \notin {"Hibernated", "Degraded"}
    <3> DEFINE d == MarkDisrupted(cagent)
    <3>1. Keeps(cagent, d) /\ d \in Agents
      BY <1>0, <1>1 DEF Keeps
    <3> HIDE DEF d
    <3>2. Keeps(d, Pending(d)) /\ Pending(d).phase \notin {"Hibernated", "Degraded"}
      BY <1>1, <3>1
    <3>3. Keeps(cagent, Pending(d))
      BY <3>1, <3>2 DEF Keeps
    <3> QED
      BY <3>2, <3>3 DEF d
  <2>2. pass.pc = "idle" /\ cagent.phase # "Degraded"
    BY <1>7, GuardsSay DEF ReplaceLost
  <2>3. WriteStatus("cache", lost) \/ \E p : Continue("ending", lost, p) /\ UNCHANGED agent
    BY <1>7 DEF ReplaceLost
  <2> HIDE DEF lost
  <2> QED
    BY <1>7, <2>1, <2>2, <2>3, CopiesMove DEF ReplaceLost
<1>8. CASE AdmitReplacement
  <2> DEFINE a == [Pending(cagent) EXCEPT !.upToDate = "Replacing"]
  <2>1. a.phase \notin {"Hibernated", "Degraded"}
    BY <1>0, <1>1 DEF Keeps, Agents
  <2>2. PICK p : WriteOn("cache", a, "replacing", p)
    BY <1>8 DEF AdmitReplacement
  <2> HIDE DEF a
  <2> QED
    BY <1>8, <2>1, <2>2, CopiesMove DEF AdmitReplacement
<1>9. CASE ReplaceDrifted
  <2>1. UNCHANGED <<agent, cagent>> /\ pass.pc = "replacing"
    BY <1>9 DEF ReplaceDrifted
  <2>2. EndsPass \/ Continue("ending", pass.agent, pass.pod)
    BY <1>9 DEF ReplaceDrifted
  <2>3. Keeps(pass.agent, pass.agent) /\ pass.agent.phase \notin {"Hibernated", "Degraded"}
    BY <1>0, <1>1, <2>1 DEF CopiesInStep
  <2> QED
    BY <2>1, <2>2, <2>3, CopiesMove
<1>10. CASE ObservePod
  <2>1. UNCHANGED cagent /\ \E c : WriteStatus("cache", c)
    BY <1>10 DEF ObservePod
  <2> QED
    BY <2>1, CopiesMove
<1>11. CASE Conflict \/ TerminatePod
  BY <1>11, CopiesMove DEF Conflict, TerminatePod
<1>12. CASE MarkTerminating
  <2>1. PICK a : WriteOn("cache", a, "terminating", NoPod)
    BY <1>12 DEF MarkTerminating
  <2> QED
    BY <1>12, <2>1, CopiesMove DEF MarkTerminating
<1>13. CASE ReleaseVolume
  BY <1>13, CopiesMove DEF ReleaseVolume
<1>14. CASE RemoveFinalizer
  BY <1>14, CopiesMove DEF RemoveFinalizer, Collected
<1>15. CASE CacheAgent
  BY <1>15 DEF CacheAgent, CopiesInStep, Keeps
<1>16. CASE Crash
  BY <1>16 DEF Crash, CopiesInStep, NoPass
<1>17. CASE RequestWake \/ DeleteAgent
  <2>1. UNCHANGED <<cagent, pass>> /\ fresh' = {}
    BY <1>17 DEF RequestWake, DeleteAgent, Collected
  <2> QED
    BY <2>1, CopiesMove
<1>18. CASE \/ CachePods \/ Change \/ Clears \/ FetchActivity \/ Tick \/ UNCHANGED vars
            \/ (\E p \in PodIds : PodReady(p) \/ PodFails(p) \/ PodGoes(p))
            \/ (\E g \in Replicas : RestartReplica(g) \/ LoseReplica(g) \/ RegainReplica(g) \/ Traffic(g))
  <2>1. UNCHANGED <<agent, cagent, fresh, pass>>
    BY <1>18 DEF CachePods, Change, Clears, FetchActivity, Tick, vars, PodReady, PodFails, PodGoes,
       RestartReplica, LoseReplica, RegainReplica, Traffic
  <2> QED
    BY <2>1, CopiesMove
<1> QED
  BY <1>2, <1>3, <1>4, <1>5, <1>6, <1>7, <1>8, <1>9, <1>10, <1>11, <1>12, <1>13, <1>14, <1>15, <1>16, <1>17, <1>18
     DEF Next, Reconcile, Surroundings

-----------------------------------------------------------------------------
(* What a step does to the stored Agent *)

(* The ways a step changes the stored Agent: not at all; its deletion, or  *)
(* its end; a wake patched in; or a write of a pass whose copy was the     *)
(* stored Agent, and which changes what the handler says.                  *)
Writes(a, b) ==
    \/ AddFinalizer /\ b = [a EXCEPT !.finalizer = TRUE]
    \/ HandleWake /\ a.phase = "Hibernated" /\ Keeps(a, b) /\ b.phase = "Resuming"
    \/ HandleWake /\ a.phase \notin {"Hibernating", "Hibernated"} /\ b = [a EXCEPT !.wake = "none"]
    \/ ClearWake /\ a.phase = "Resuming" /\ b = [a EXCEPT !.wake = "none"]
    \/ DropStrayTrigger /\ a.wake = "stray" /\ b = [a EXCEPT !.wake = "none"]
    \/ /\ EnterDegraded /\ a.phase # "Degraded" /\ b.phase = "Degraded" /\ b.pre = a.phase
       /\ b.wake = a.wake /\ b.finalizer = a.finalizer /\ b.deleting = a.deleting /\ b.gone = a.gone
    \/ /\ LeaveDegraded /\ a.phase = "Degraded" /\ b.phase = a.pre /\ b.pre = "none"
       /\ b.wake = a.wake /\ b.finalizer = a.finalizer /\ b.deleting = a.deleting /\ b.gone = a.gone
    \/ SettleHibernated /\ a.phase = "Hibernating" /\ b.phase = "Hibernated" /\ Keeps(a, b)
    \/ /\ MarkTerminating /\ b.phase = "Terminating" /\ b.pre = "none"
       /\ b.wake = a.wake /\ b.finalizer = a.finalizer /\ b.deleting = a.deleting /\ b.gone = a.gone
    \/ /\ AwaitCertificate \/ MarkReplacement \/ ReplaceLost \/ AdmitReplacement \/ ObservePod \/ EndPass
       /\ Keeps(a, b) /\ a.phase # "Degraded" /\ b.phase \notin {"Hibernated", "Degraded"}

Patches(a, b) ==
    \/ RequestWake /\ b \in {[a EXCEPT !.wake = "set"], [a EXCEPT !.wake = "stray"]} /\ a.wake = "none"
    \/ DeleteAgent /\ a.finalizer /\ b = [a EXCEPT !.deleting = TRUE]
    \/ /\ (DeleteAgent /\ ~a.finalizer) \/ RemoveFinalizer
       /\ b = [a EXCEPT !.finalizer = FALSE, !.deleting = TRUE, !.gone = TRUE]

(* Every step changes the stored Agent in one of these ways. *)
LEMMA AgentMoves ==
    ASSUME LifeTypes, CopiesInStep, [Next]_vars
    PROVE  \/ agent' = agent
           \/ ~agent.gone /\ cagent' = cagent /\ (Writes(agent, agent') \/ Patches(agent, agent'))
<1> DEFINE Good == \/ agent' = agent
                   \/ ~agent.gone /\ cagent' = cagent /\ (Writes(agent, agent') \/ Patches(agent, agent'))
<1>0. Sane(agent) /\ agent \in Agents /\ cagent \in Agents /\ now \in Nat /\ Sane(cagent) /\ MaxPods \in Nat
  BY AgentAssumption DEF LifeTypes, TypeOK, Sane
<1>1. \A copy, a, pc, p : (WriteStatus(copy, a) \/ WriteOn(copy, a, pc, p)) =>
         /\ agent' = a /\ ~agent.gone /\ (copy = "cache" => agent = cagent) /\ copy \in fresh
  BY DEF WriteStatus, WriteOn, Accepted, CopiesInStep
<1>2. \A a \in Agents : /\ Keeps(a, Pending(a)) /\ Pending(a).phase \notin {"Hibernated", "Degraded"}
                        /\ Keeps(a, MarkDisrupted(a)) /\ MarkDisrupted(a).phase = a.phase
                        /\ \A ph \in Phases : Keeps(a, SetPhase(a, ph)) /\ SetPhase(a, ph).phase = ph
  <2>1. \A a \in Agents : Keeps(a, Pending(a)) /\ Pending(a).phase \notin {"Hibernated", "Degraded"}
    BY <1>0, PendingKeeps
  <2>2. \A a \in Agents : Keeps(a, MarkDisrupted(a)) /\ MarkDisrupted(a).phase = a.phase
    BY MarkDisruptedKeeps
  <2>3. \A a \in Agents : \A ph \in Phases : Keeps(a, SetPhase(a, ph)) /\ SetPhase(a, ph).phase = ph
    BY <1>0, SetPhaseKeeps
  <2> QED
    BY <2>1, <2>2, <2>3
<1>3. {"Resuming", "Degraded", "Hibernated", "Terminating", "Pending"} \subseteq Phases /\ "none" \notin Phases
  BY DEF Phases
<1>4. CASE AddFinalizer
  BY <1>1, <1>4 DEF AddFinalizer, Writes
<1>5. CASE HandleWake
  <2>1. CASE cagent.phase = "Hibernated"
    <3> DEFINE b == SetPhase(cagent, "Resuming")
               c == [b EXCEPT !.active = now]
    <3>1. Keeps(cagent, b) /\ b.phase = "Resuming"
      BY <1>0, <1>2, <1>3
    <3>2. WriteOn("cache", c, "woken", NoPod) /\ cagent' = cagent
      BY <1>5, <2>1 DEF HandleWake
    <3> HIDE DEF b
    <3>3. Keeps(cagent, c) /\ c.phase = "Resuming"
      BY <1>0, <3>1 DEF Keeps, Agents
    <3> HIDE DEF c
    <3>4. agent' = c /\ agent = cagent /\ ~agent.gone
      BY <1>1, <3>2
    <3>5. Writes(agent, agent')
      BY <1>5, <2>1, <3>3, <3>4 DEF Writes
    <3> QED
      BY <3>2, <3>4, <3>5
  <2>2. CASE cagent.phase # "Hibernated"
    BY <1>1, <1>5, <2>2 DEF HandleWake, Writes
  <2> QED
    BY <2>1, <2>2
<1>6. CASE ClearWake
  <2>1. agent' = [pass.agent EXCEPT !.wake = "none"] /\ ~agent.gone /\ "pass" \in fresh /\ cagent' = cagent
    BY <1>1, <1>6 DEF ClearWake
  <2>2. agent = pass.agent /\ agent.phase = "Resuming"
    BY <1>6, <2>1 DEF ClearWake, CopiesInStep
  <2> QED
    BY <1>6, <2>1, <2>2 DEF Writes
<1>7. CASE DropStrayTrigger
  BY <1>1, <1>7 DEF DropStrayTrigger, Writes
<1>8. CASE EnterDegraded
  <2> DEFINE b == SetPhase(cagent, "Degraded")
  <2>1. Keeps(cagent, b) /\ b.phase = "Degraded"
    BY <1>0, <1>2, <1>3
  <2>2. WriteStatus("cache", [b EXCEPT !.pre = cagent.phase]) /\ cagent' = cagent /\ cagent.phase # "Degraded"
    BY <1>8 DEF EnterDegraded
  <2> HIDE DEF b
  <2>3. agent' = [b EXCEPT !.pre = agent.phase] /\ agent = cagent /\ ~agent.gone
    BY <1>1, <2>2
  <2> QED
    BY <1>0, <1>8, <2>1, <2>2, <2>3 DEF Writes, Keeps, Agents
<1>9. CASE LeaveDegraded
  <2>1. cagent.phase = "Degraded" /\ cagent.pre # "none" /\ cagent.pre \in Phases
    BY <1>0, <1>9 DEF LeaveDegraded, Sane, Agents
  <2> DEFINE b == SetPhase(cagent, cagent.pre)
  <2>2. Keeps(cagent, b) /\ b.phase = cagent.pre
    BY <1>0, <1>2, <2>1
  <2>3. WriteStatus("cache", [b EXCEPT !.pre = "none"]) /\ cagent' = cagent
    BY <1>9, <2>1 DEF LeaveDegraded
  <2> HIDE DEF b
  <2>4. agent' = [b EXCEPT !.pre = "none"] /\ agent = cagent /\ ~agent.gone
    BY <1>1, <2>3
  <2> QED
    BY <1>0, <1>9, <2>1, <2>2, <2>3, <2>4 DEF Writes, Keeps, Agents
<1>10. CASE SettleHibernated
  <2> DEFINE b == SetPhase(cagent, "Hibernated")
  <2>1. Keeps(cagent, b) /\ b.phase = "Hibernated"
    BY <1>0, <1>2, <1>3
  <2>2. WriteStatus("cache", [b EXCEPT !.upToDate = "none"]) /\ cagent' = cagent /\ cagent.phase = "Hibernating"
    BY <1>10 DEF SettleHibernated
  <2> HIDE DEF b
  <2>3. agent' = [b EXCEPT !.upToDate = "none"] /\ agent = cagent /\ ~agent.gone
    BY <1>1, <2>2
  <2> QED
    BY <1>0, <1>10, <2>1, <2>2, <2>3 DEF Writes, Keeps, Agents
<1>11. CASE MarkTerminating
  <2> DEFINE b == SetPhase(cagent, "Terminating")
  <2>1. Keeps(cagent, b) /\ b.phase = "Terminating"
    BY <1>0, <1>2, <1>3
  <2>2. WriteOn("cache", [b EXCEPT !.pre = "none"], "terminating", NoPod) /\ cagent' = cagent
    BY <1>11 DEF MarkTerminating
  <2> HIDE DEF b
  <2>3. agent' = [b EXCEPT !.pre = "none"] /\ agent = cagent /\ ~agent.gone
    BY <1>1, <2>2
  <2> QED
    BY <1>0, <1>11, <2>1, <2>2, <2>3 DEF Writes, Keeps, Agents
<1>12. ASSUME NEW b, Keeps(cagent, b), b.phase \notin {"Hibernated", "Degraded"}, Converges,
              agent' = b, agent = cagent, ~agent.gone, cagent' = cagent,
              AwaitCertificate \/ MarkReplacement \/ ReplaceLost \/ AdmitReplacement \/ ObservePod
       PROVE  Good
  <2>1. agent.phase # "Degraded"
    BY <1>12, GuardsSay
  <2> QED
    BY <1>12, <2>1 DEF Writes
<1>13. CASE AwaitCertificate
  <2>1. agent' = Pending(cagent) /\ agent = cagent /\ ~agent.gone /\ cagent' = cagent /\ Converges
    BY <1>1, <1>13 DEF AwaitCertificate
  <2> QED
    BY <1>0, <1>2, <1>12, <1>13, <2>1
<1>14. CASE MarkReplacement
  <2>1. agent' = MarkDisrupted(cagent) /\ agent = cagent /\ ~agent.gone /\ cagent' = cagent /\ Converges
    BY <1>1, <1>14 DEF MarkReplacement
  <2>2. MarkDisrupted(cagent).phase \notin {"Hibernated", "Degraded"}
    BY <1>0, <1>2, <2>1, GuardsSay
  <2> QED
    BY <1>0, <1>2, <1>12, <1>14, <2>1, <2>2
<1>15. CASE ReplaceLost
  <2> DEFINE lost == Pending(MarkDisrupted(cagent))
  <2>1. Keeps(cagent, lost) /\ lost.phase \notin {"Hibernated", "Degraded"}
    BY <1>0, <1>2 DEF Keeps
  <2>2. (WriteStatus("cache", lost) \/ UNCHANGED agent) /\ cagent' = cagent /\ Converges
    BY <1>15 DEF ReplaceLost
  <2> HIDE DEF lost
  <2>3. ASSUME WriteStatus("cache", lost)
        PROVE  agent' = lost /\ agent = cagent /\ ~agent.gone
    BY <1>1, <2>3
  <2>4. ASSUME WriteStatus("cache", lost)
        PROVE  Good
    BY <1>12, <1>15, <2>1, <2>2, <2>3, <2>4
  <2> QED
    BY <2>2, <2>4
<1>16. CASE AdmitReplacement
  <2> DEFINE b == Pending(cagent)
             c == [b EXCEPT !.upToDate = "Replacing"]
  <2>1. Keeps(cagent, b) /\ b.phase \notin {"Hibernated", "Degraded"}
    BY <1>0, <1>2
  <2>2. (\E p : WriteOn("cache", c, "replacing", p)) /\ cagent' = cagent /\ Converges
    BY <1>16 DEF AdmitReplacement
  <2> HIDE DEF b
  <2>3. Keeps(cagent, c) /\ c.phase \notin {"Hibernated", "Degraded"}
    BY <2>1 DEF Keeps, Agents
  <2> HIDE DEF c
  <2>4. agent' = c /\ agent = cagent /\ ~agent.gone
    BY <1>1, <2>2
  <2> QED
    BY <1>12, <1>16, <2>2, <2>3, <2>4
<1>17. CASE ObservePod
  <2>1. PICK c : WriteStatus("cache", c) /\ Keeps(cagent, c) /\ c.phase \notin {"Hibernated", "Degraded"}
    BY <1>17, ObserveWrites
  <2>2. cagent' = cagent /\ Converges
    BY <1>17 DEF ObservePod
  <2>3. agent' = c /\ agent = cagent /\ ~agent.gone
    BY <1>1, <2>1
  <2> QED
    BY <1>12, <1>17, <2>1, <2>2, <2>3
<1>18. CASE EndPass
  <2>1. agent' = pass.agent /\ ~agent.gone /\ "pass" \in fresh /\ cagent' = cagent /\ pass.pc = "ending"
    BY <1>1, <1>18 DEF EndPass
  <2>2. Keeps(agent, agent') /\ agent.phase # "Degraded" /\ agent'.phase \notin {"Hibernated", "Degraded"}
    BY <2>1 DEF CopiesInStep
  <2> QED
    BY <1>18, <2>1, <2>2 DEF Writes
<1>19. CASE RequestWake
  BY <1>19 DEF RequestWake, Patches
<1>20. CASE DeleteAgent
  BY <1>20 DEF DeleteAgent, Collected, Patches
<1>21. CASE RemoveFinalizer
  BY <1>21 DEF RemoveFinalizer, Collected, Patches, Accepted
<1>22. CASE \/ HibernatePod \/ CreatePod \/ CreateRejected \/ ReplaceDrifted \/ Conflict \/ TerminatePod \/ ReleaseVolume
            \/ CacheAgent \/ CachePods \/ Crash \/ Change \/ Clears \/ FetchActivity \/ Tick \/ UNCHANGED vars
            \/ (\E p \in PodIds : PodReady(p) \/ PodFails(p) \/ PodGoes(p))
            \/ (\E g \in Replicas : RestartReplica(g) \/ LoseReplica(g) \/ RegainReplica(g) \/ Traffic(g))
  BY <1>22 DEF HibernatePod, CreatePod, CreateRejected, ReplaceDrifted, Conflict, TerminatePod, ReleaseVolume,
     CacheAgent, CachePods, Crash, Change, Clears, FetchActivity, Tick, vars, PodReady, PodFails, PodGoes,
     RestartReplica, LoseReplica, RegainReplica, Traffic
<1> QED
  BY <1>4, <1>5, <1>6, <1>7, <1>8, <1>9, <1>10, <1>11, <1>13, <1>14, <1>15, <1>16, <1>17, <1>18, <1>19, <1>20, <1>21, <1>22
     DEF Next, Reconcile, Surroundings

(* A step keeps the promise of PhaseKept. *)
LEMMA PhaseKeptStep ==
    ASSUME LifeTypes, CopiesInStep, [Next]_vars
    PROVE  /\ agent.wake = "set" /\ agent'.wake # "set" => agent.phase \notin {"Hibernating", "Hibernated"}
           /\ agent.phase = "Degraded" /\ agent'.phase # "Degraded" =>
                agent'.phase \in {agent.pre, "Terminating"} \ {"Degraded", "none"}
<1>0. agent \in Agents /\ Sane(agent)
  BY DEF LifeTypes, Sane
<1>1. CASE agent' = agent
  BY <1>1
<1>2. CASE Writes(agent, agent')
  BY <1>0, <1>2 DEF Writes, Keeps, Agents, Sane
<1>3. CASE Patches(agent, agent')
  BY <1>0, <1>3 DEF Patches, Agents
<1> QED
  BY <1>1, <1>2, <1>3, AgentMoves

(* What a pass may not forget: handleWake commits Resuming before the      *)
(* annotation goes, one that lands while Hibernating is kept, and a        *)
(* Degraded Agent goes back to the phase it came from.                     *)
THEOREM PhasesAreKept == Spec => PhaseKept
<1> DEFINE Inv == LifeTypes /\ CopiesInStep
<1>1. Init => Inv
  BY LifeTypesInit, LifeInit
<1>2. Inv /\ [Next]_vars => Inv'
  BY LifeTypesStep, CopiesStep
<1>3. Inv /\ [Next]_vars =>
        [/\ agent.wake = "set" /\ agent'.wake # "set" => agent.phase \notin {"Hibernating", "Hibernated"}
         /\ agent.phase = "Degraded" /\ agent'.phase # "Degraded" =>
              agent'.phase \in {agent.pre, "Terminating"} \ {"Degraded", "none"}]_vars
  BY PhaseKeptStep
<1> QED
  BY <1>1, <1>2, <1>3, PTL DEF Spec, PhaseKept

-----------------------------------------------------------------------------
(* Deletion *)

(* Deletion and the finalizer only go one way, and the cached Agent is one *)
(* that was stored.                                                        *)
LEMMA DeletionStands ==
    ASSUME LifeTypes, CopiesInStep, [Next]_vars
    PROVE  /\ agent.deleting => agent'.deleting
           /\ agent.gone => agent'.gone
           /\ agent.finalizer => agent'.finalizer \/ agent'.gone
           /\ cagent' = cagent \/ (cagent' = agent /\ agent' = agent)
<1>0. agent \in Agents
  BY DEF LifeTypes, TypeOK
<1>1. cagent' = cagent \/ (cagent' = agent /\ agent' = agent)
  <2>1. CASE Reconcile
    BY <2>1 DEF Reconcile, AddFinalizer, HandleWake, ClearWake, DropStrayTrigger, EnterDegraded, LeaveDegraded,
       HibernatePod, SettleHibernated, AwaitCertificate, MarkReplacement, CreatePod, CreateRejected, ReplaceLost,
       AdmitReplacement, ReplaceDrifted, ObservePod, EndPass, Conflict, MarkTerminating, TerminatePod,
       ReleaseVolume, RemoveFinalizer
  <2>2. CASE Surroundings
    BY <2>2 DEF Surroundings, CacheAgent, CachePods, Crash, DeleteAgent, Change, Clears, FetchActivity,
       PodReady, PodFails, PodGoes, RestartReplica, LoseReplica, RegainReplica
  <2>3. CASE RequestWake \/ (\E g \in Replicas : Traffic(g)) \/ Tick \/ UNCHANGED vars
    BY <2>3 DEF RequestWake, Traffic, Tick, vars
  <2> QED
    BY <2>1, <2>2, <2>3 DEF Next
<1>2. CASE agent' = agent
  BY <1>1, <1>2
<1>3. CASE ~agent.gone /\ Writes(agent, agent')
  BY <1>0, <1>1, <1>3 DEF Writes, Keeps, Agents
<1>4. CASE ~agent.gone /\ Patches(agent, agent')
  BY <1>0, <1>1, <1>4 DEF Patches, Agents
<1> QED
  BY <1>2, <1>3, <1>4, AgentMoves

(* Every step keeps the order of deletion. *)
LEMMA DeletesStep == LifeTypes /\ CopiesInStep /\ DeletesInOrder /\ [Next]_vars => DeletesInOrder'
<1> SUFFICES ASSUME LifeTypes, CopiesInStep, DeletesInOrder, [Next]_vars PROVE DeletesInOrder'
  OBVIOUS
<1>0. agent \in Agents /\ cagent \in Agents /\ EnvShape(env) /\ NoPass.pc = "idle"
  BY DEF LifeTypes, TypeOK, NoPass
<1>1. /\ agent.deleting => agent'.deleting
      /\ agent.gone => agent'.gone
      /\ agent.finalizer => agent'.finalizer \/ agent'.gone
      /\ cagent' = cagent \/ (cagent' = agent /\ agent' = agent)
      /\ cagent.deleting => cagent'.deleting
  BY DeletionStands DEF DeletesInOrder
<1>2. ASSUME pvc' = pvc, env'.retain = env.retain, pass'.pc = pass.pc \/ pass'.pc \notin {"marked", "terminating", "released"}
      PROVE  DeletesInOrder'
  BY <1>1, <1>2 DEF DeletesInOrder
<1>3. CASE AddFinalizer \/ ClearWake \/ DropStrayTrigger \/ EnterDegraded \/ LeaveDegraded \/ SettleHibernated
           \/ AwaitCertificate \/ EndPass \/ ObservePod \/ Conflict \/ TerminatePod
  <2>1. pvc' = pvc /\ env' = env /\ pass' = NoPass
    BY <1>3 DEF AddFinalizer, ClearWake, DropStrayTrigger, EnterDegraded, LeaveDegraded, SettleHibernated,
       AwaitCertificate, EndPass, ObservePod, Conflict, TerminatePod, WriteStatus, EndsPass, world
  <2> QED
    BY <1>0, <1>2, <2>1
<1>4. CASE HandleWake \/ HibernatePod \/ ReplaceLost \/ AdmitReplacement \/ ReplaceDrifted
  <2>1. pvc' = pvc /\ env' = env /\ pass'.pc \in {"idle", "woken", "ending", "replacing"}
    BY <1>0, <1>4 DEF HandleWake, HibernatePod, ReplaceLost, AdmitReplacement, ReplaceDrifted, WriteStatus, WriteOn,
       Continue, EndsPass, world
  <2> QED
    BY <1>2, <2>1
<1>5. CASE MarkReplacement
  <2>1. pvc' = pvc /\ env' = env /\ pass'.pc = "marked" /\ Converges
    BY <1>5 DEF MarkReplacement, WriteOn, world
  <2>2. ~cagent.deleting /\ cagent.finalizer
    BY <2>1, GuardsSay
  <2> QED
    BY <1>1, <2>1, <2>2 DEF DeletesInOrder
<1>6. CASE CreatePod \/ CreateRejected
  <2>1. /\ env' = env /\ pass'.pc = "ending" /\ (Converges \/ pass.pc = "marked")
        /\ pvc' = IF pvc = "none" THEN "owned" ELSE pvc
    <3>1. \E a, q : Continue("ending", a, q)
      BY <1>6 DEF CreatePod, CreateRejected, CreateWith
    <3>2. pass'.pc = "ending"
      BY <3>1 DEF Continue
    <3> QED
      BY <1>6, <3>2 DEF CreatePod, CreateRejected, EnsureVolume
  <2>2. cagent.finalizer \/ pass.pc = "marked"
    BY <2>1, GuardsSay
  <2> QED
    BY <1>1, <2>1, <2>2 DEF DeletesInOrder
<1>7. CASE MarkTerminating
  <2>1. pvc' = pvc /\ env' = env /\ pass'.pc = "terminating" /\ Finalizes
    BY <1>7 DEF MarkTerminating, WriteOn, world
  <2>2. cagent.deleting /\ cagent.finalizer
    BY <2>1, GuardsSay
  <2> QED
    BY <1>1, <2>1, <2>2 DEF DeletesInOrder
<1>8. CASE ReleaseVolume
  <2>1. /\ env' = env /\ pass'.pc = "released" /\ Terminating
        /\ pvc' = IF env.retain /\ pvc = "owned" THEN "kept" ELSE pvc
    BY <1>8 DEF ReleaseVolume, Continue
  <2>2. cagent.deleting
    BY <2>1, GuardsSay DEF Terminating, DeletesInOrder
  <2> QED
    BY <1>1, <2>1, <2>2 DEF DeletesInOrder
<1>9. CASE RemoveFinalizer
  <2>1. /\ env' = env /\ pass' = NoPass /\ pass.pc = "released" /\ agent'.gone
        /\ pvc' = IF pvc = "owned" THEN "collected" ELSE pvc
    BY <1>0, <1>9 DEF RemoveFinalizer, Collected, Agents
  <2> QED
    BY <1>0, <1>1, <2>1 DEF DeletesInOrder
<1>10. CASE DeleteAgent
  <2>1. CASE agent.finalizer
    <3>1. pvc' = pvc /\ env' = env /\ pass' = pass
      BY <1>10, <2>1 DEF DeleteAgent
    <3> QED
      BY <1>2, <3>1
  <2>2. CASE ~agent.finalizer
    <3>1. ~agent.gone /\ env' = env /\ pass' = pass /\ pvc' = IF pvc = "owned" THEN "collected" ELSE pvc
      BY <1>10, <2>2 DEF DeleteAgent, Collected
    <3>2. pvc = "none"
      BY <2>2, <3>1 DEF DeletesInOrder
    <3> QED
      BY <1>2, <3>1, <3>2
  <2> QED
    BY <2>1, <2>2
<1>11. CASE Crash
  <2>1. pvc' = pvc /\ env' = env /\ pass' = NoPass
    BY <1>11 DEF Crash
  <2> QED
    BY <1>0, <1>2, <2>1
<1>12. CASE Change \/ Clears
  <2>1. pvc' = pvc /\ pass' = pass
    BY <1>12 DEF Change, Clears
  <2>2. env'.retain = env.retain
    <3>1. \/ env' = [env EXCEPT !.spec = @ + 1] \/ env' = [env EXCEPT !.mismatch = TRUE]
          \/ env' = [env EXCEPT !.blocked = TRUE] \/ env' = [env EXCEPT !.cert = FALSE]
          \/ env' = [env EXCEPT !.mismatch = FALSE] \/ env' = [env EXCEPT !.blocked = FALSE]
          \/ env' = [env EXCEPT !.cert = TRUE]
      BY <1>12 DEF Change, Clears
    <3> QED
      BY <1>0, <3>1 DEF EnvShape
  <2> QED
    BY <1>2, <2>1, <2>2
<1>13. CASE \/ CacheAgent \/ CachePods \/ RequestWake \/ FetchActivity \/ Tick \/ UNCHANGED vars
            \/ (\E p \in PodIds : PodReady(p) \/ PodFails(p) \/ PodGoes(p))
            \/ (\E g \in Replicas : RestartReplica(g) \/ LoseReplica(g) \/ RegainReplica(g) \/ Traffic(g))
  <2>1. pvc' = pvc /\ env' = env /\ pass' = pass
    BY <1>13 DEF CacheAgent, CachePods, RequestWake, FetchActivity, Tick, vars, world, PodReady, PodFails, PodGoes,
       RestartReplica, LoseReplica, RegainReplica, Traffic
  <2> QED
    BY <1>2, <2>1
<1> QED
  BY <1>3, <1>4, <1>5, <1>6, <1>7, <1>8, <1>9, <1>10, <1>11, <1>12, <1>13 DEF Next, Reconcile, Surroundings

-----------------------------------------------------------------------------
(* Pods *)

(* Only createAgentPod adds a Pod, and it adds one. *)
LEMMA PodsMove ==
    ASSUME LifeTypes, [Next]_vars
    PROVE  /\ events' = events
           /\ ~CreatePod => \A q \in PodIds : Exists(pods', q) => Exists(pods, q)
           /\ CreatePod => \E p \in PodIds : \A q \in PodIds : Exists(pods', q) => Exists(pods, q) \/ q = p
<1>0. pods \in PodTables
  BY DEF LifeTypes, TypeOK
<1> DEFINE Same == \A q \in PodIds : Exists(pods', q) => Exists(pods, q)
<1>1. \A p : Deleting(p) => Same
  BY <1>0 DEF Deleting, Exists, PodTables
<1>2. Collected => Same
  BY <1>0 DEF Collected, Exists, PodTables
<1>3. ASSUME CreatePod
      PROVE  \E p \in PodIds : \A q \in PodIds : Exists(pods', q) => Exists(pods, q) \/ q = p
  <2>1. PICK p \in PodIds : pods' = [pods EXCEPT !.state[p] = "pending", !.spec[p] = env.spec]
    BY <1>3 DEF CreatePod, CreateWith
  <2>2. pods'.state = [pods.state EXCEPT ![p] = "pending"] /\ pods'.gone = pods.gone
    BY <1>0, <2>1 DEF PodTables
  <2> QED
    BY <1>0, <2>2 DEF Exists, PodTables
<1>4. pods' = pods => Same
  OBVIOUS
<1>5. \A p \in PodIds : \A from : \A to \in {"ready", "looping", "pending", "ended"} : PodMoves(p, from, to) => Same
  <2> SUFFICES ASSUME NEW p \in PodIds, NEW from, NEW to \in {"ready", "looping", "pending", "ended"}, PodMoves(p, from, to)
               PROVE  Same
    OBVIOUS
  <2>1. pods'.state = [pods.state EXCEPT ![p] = to] /\ pods'.gone = pods.gone /\ Exists(pods, p)
    BY <1>0 DEF PodMoves, PodTables
  <2> QED
    BY <1>0, <2>1 DEF Exists, PodTables
<1>6. \A p \in PodIds : PodGoes(p) => Same
  BY <1>0 DEF PodGoes, Exists, PodTables
<1>7. events' = events
  <2>1. CASE Reconcile
    BY <2>1 DEF Reconcile, AddFinalizer, HandleWake, ClearWake, DropStrayTrigger, EnterDegraded, LeaveDegraded,
       HibernatePod, SettleHibernated, AwaitCertificate, MarkReplacement, CreatePod, CreateRejected, ReplaceLost,
       AdmitReplacement, ReplaceDrifted, ObservePod, EndPass, Conflict, MarkTerminating, TerminatePod,
       ReleaseVolume, RemoveFinalizer, world
  <2>2. CASE Surroundings
    BY <2>2 DEF Surroundings, CacheAgent, CachePods, Crash, DeleteAgent, Change, Clears, FetchActivity,
       PodReady, PodFails, PodGoes, RestartReplica, LoseReplica, RegainReplica, world
  <2>3. CASE RequestWake \/ (\E g \in Replicas : Traffic(g)) \/ Tick \/ UNCHANGED vars
    BY <2>3 DEF RequestWake, Traffic, Tick, vars, world
  <2> QED
    BY <2>1, <2>2, <2>3 DEF Next
<1>8. ASSUME ~CreatePod
      PROVE  pods' = pods \/ Collected \/ (\E p : Deleting(p))
               \/ (\E p \in PodIds : PodReady(p) \/ PodFails(p) \/ PodGoes(p))
  <2>1. CASE Reconcile
    BY <1>8, <2>1 DEF Reconcile, AddFinalizer, HandleWake, ClearWake, DropStrayTrigger, EnterDegraded, LeaveDegraded,
       HibernatePod, SettleHibernated, AwaitCertificate, MarkReplacement, CreateRejected, ReplaceLost,
       AdmitReplacement, ReplaceDrifted, ObservePod, EndPass, Conflict, MarkTerminating, TerminatePod,
       ReleaseVolume, RemoveFinalizer
  <2>2. CASE Surroundings
    BY <2>2 DEF Surroundings, CacheAgent, CachePods, Crash, DeleteAgent, Change, Clears, FetchActivity,
       RestartReplica, LoseReplica, RegainReplica
  <2>3. CASE RequestWake \/ (\E g \in Replicas : Traffic(g)) \/ Tick \/ UNCHANGED vars
    BY <2>3 DEF RequestWake, Traffic, Tick, vars
  <2> QED
    BY <2>1, <2>2, <2>3 DEF Next
<1> HIDE DEF Same
<1>9. \A p \in PodIds : PodReady(p) \/ PodFails(p) => Same
  BY <1>1, <1>5 DEF PodReady, PodFails
<1>10. ~CreatePod => Same
  BY <1>1, <1>2, <1>4, <1>6, <1>8, <1>9
<1> QED
  BY <1>3, <1>7, <1>10 DEF Same

(* Where a pass is after a step, when that says something about the Pods. *)
LEMMA PassMoves ==
    ASSUME LifeTypes, [Next]_vars
    PROVE  /\ pass'.pc = "marked" => pass.pc = "marked" \/ MarkReplacement
           /\ pass'.pc = "released" => pass.pc = "released" \/ ReleaseVolume
           /\ CreatePod \/ SettleHibernated => pass'.pc \notin {"marked", "released"}
           /\ pvc' = "collected" => pvc = "collected" \/ RemoveFinalizer \/ (DeleteAgent /\ ~agent.finalizer)
<1>0. NoPass.pc = "idle"
  BY DEF NoPass
<1>1. \A a, p : Continue("ending", a, p) => pass'.pc = "ending"
  BY DEF Continue
<1>2. CASE CreatePod \/ CreateRejected
  <2>1. \E a, q : Continue("ending", a, q)
    BY <1>2 DEF CreatePod, CreateRejected, CreateWith
  <2>2. pass'.pc = "ending" /\ ~SettleHibernated
    BY <1>0, <1>1, <2>1 DEF SettleHibernated, WriteStatus
  <2>3. pvc' = "collected" => pvc = "collected"
    BY <1>2 DEF CreatePod, CreateRejected, EnsureVolume
  <2> QED
    BY <2>2, <2>3
<1>3. CASE Reconcile /\ ~CreatePod /\ ~CreateRejected
  <2>1. CASE \/ AddFinalizer \/ ClearWake \/ DropStrayTrigger \/ EnterDegraded \/ LeaveDegraded \/ SettleHibernated
             \/ AwaitCertificate \/ ObservePod \/ EndPass \/ Conflict \/ TerminatePod \/ RemoveFinalizer
    BY <1>0, <1>3, <2>1 DEF AddFinalizer, ClearWake, DropStrayTrigger, EnterDegraded, LeaveDegraded, SettleHibernated,
       AwaitCertificate, ObservePod, EndPass, Conflict, TerminatePod, RemoveFinalizer, WriteStatus, EndsPass, world
  <2>2. CASE HandleWake \/ HibernatePod \/ ReplaceLost \/ AdmitReplacement \/ ReplaceDrifted \/ MarkTerminating
    <3>1. pass'.pc \notin {"marked", "released"} /\ pvc' = pvc
      BY <1>0, <2>2 DEF HandleWake, HibernatePod, ReplaceLost, AdmitReplacement, ReplaceDrifted, MarkTerminating,
         WriteStatus, WriteOn, Continue, EndsPass, world
    <3> QED
      BY <1>3, <3>1
  <2>3. CASE MarkReplacement
    <3>1. pass'.pc = "marked" /\ pvc' = pvc
      BY <2>3 DEF MarkReplacement, WriteOn, world
    <3>2. ~SettleHibernated
      BY <1>0, <3>1 DEF SettleHibernated, WriteStatus
    <3> QED
      BY <1>3, <2>3, <3>1, <3>2
  <2>4. CASE ReleaseVolume
    <3>1. pass'.pc = "released" /\ (pvc' = "collected" => pvc = "collected")
      BY <2>4 DEF ReleaseVolume, Continue
    <3>2. ~SettleHibernated
      BY <1>0, <3>1 DEF SettleHibernated, WriteStatus
    <3> QED
      BY <1>3, <2>4, <3>1, <3>2
  <2> QED
    BY <1>3, <2>1, <2>2, <2>3, <2>4 DEF Reconcile
<1>4. CASE ~Reconcile
  <2>1. ~CreatePod /\ ~SettleHibernated
    BY <1>4 DEF Reconcile
  <2>2. pass' = pass \/ pass' = NoPass
    BY <1>4 DEF Next, Surroundings, CacheAgent, CachePods, Crash, DeleteAgent, Change, Clears, FetchActivity,
       PodReady, PodFails, PodGoes, RestartReplica, LoseReplica, RegainReplica, RequestWake, Traffic, Tick, vars
  <2>3. pvc' = pvc \/ (DeleteAgent /\ ~agent.finalizer)
    BY <1>4 DEF Next, Surroundings, CacheAgent, CachePods, Crash, DeleteAgent, Change, Clears, FetchActivity,
       PodReady, PodFails, PodGoes, RestartReplica, LoseReplica, RegainReplica, RequestWake, Traffic, Tick, vars, world
  <2> QED
    BY <1>0, <2>1, <2>2, <2>3
<1> QED
  BY <1>2, <1>3, <1>4

(* An Agent falls asleep by driveHibernating only: entering and leaving    *)
(* Degraded keeps it as it was.                                            *)
LEMMA SleepMoves ==
    ASSUME LifeTypes, CopiesInStep, [Next]_vars, Asleep(agent')
    PROVE  Asleep(agent) \/ SettleHibernated
<1>0. agent \in Agents /\ (agent.phase = "Degraded" => agent.pre # "none")
  BY DEF LifeTypes, TypeOK, Sane
<1>1. agent' = agent \/ Writes(agent, agent') \/ Patches(agent, agent')
  BY AgentMoves
<1>2. CASE agent' = agent
  BY <1>2 DEF Asleep
<1>3. CASE Writes(agent, agent')
  BY <1>0, <1>3 DEF Writes, Asleep, Agents
<1>4. CASE Patches(agent, agent')
  BY <1>0, <1>4 DEF Patches, Asleep, Agents
<1> QED
  BY <1>1, <1>2, <1>3, <1>4

(* Every step keeps Pods and phase apart. *)
LEMMA PodsApartStep == LifeInvariant /\ [Next]_vars => PodsApart'
<1> SUFFICES ASSUME LifeTypes, CopiesInStep, DeletesInOrder, PodsApart, [Next]_vars
             PROVE  PodsApart'
  BY DEF LifeInvariant
<1>0. MaxPods \in Nat /\ agent \in Agents /\ cagent \in Agents
  BY AgentAssumption DEF LifeTypes, TypeOK
<1>1. SettleHibernated => cagent' = cagent /\ cagent.phase = "Hibernating" /\ pods' = pods /\ pvc' = pvc
  BY DEF SettleHibernated, world
<1>2. SettleHibernated /\ SeesPods => NoPods
  BY <1>0, OwnedPodFinds DEF SettleHibernated, SeesPods, PodsRead, NoPods
<1>3. MarkReplacement => /\ ~Asleep(agent') /\ (SeesPods => NoPods)
  <2>1. MarkReplacement /\ SeesPods => NoPods
    BY <1>0, OwnedPodFinds DEF MarkReplacement, SeesPods, PodsRead, NoPods
  <2>2. ASSUME MarkReplacement PROVE ~Asleep(agent)
    BY <2>2, GuardsSay DEF MarkReplacement, PodsApart
  <2>3. ~(MarkReplacement /\ SettleHibernated)
    <3>1. NoPass.pc = "idle"
      BY DEF NoPass
    <3> QED
      BY <3>1 DEF MarkReplacement, SettleHibernated, WriteStatus, WriteOn
  <2> QED
    BY <2>1, <2>2, <2>3, SleepMoves
<1>4. ReleaseVolume /\ SeesPods => NoPods
  BY <1>0, OwnedPodFinds DEF ReleaseVolume, SeesPods, PodsRead, NoPods
<1>5. CreatePod => /\ ~Asleep(agent) /\ pvc # "collected" /\ (SeesPods => NoPods)
                   /\ agent' = agent /\ cagent' = cagent
  <2> SUFFICES ASSUME CreatePod
               PROVE  ~Asleep(agent) /\ pvc # "collected" /\ (SeesPods => NoPods) /\ agent' = agent /\ cagent' = cagent
    OBVIOUS
  <2>1. agent' = agent /\ cagent' = cagent
    BY DEF CreatePod
  <2>2. CASE Converges /\ NoPod \in OwnedPod(PodsRead)
    BY <1>0, <2>1, <2>2, GuardsSay, OwnedPodFinds DEF PodsApart, DeletesInOrder, SeesPods, PodsRead, NoPods
  <2>3. CASE pass.pc = "marked"
    BY <2>1, <2>3 DEF PodsApart, DeletesInOrder
  <2> QED
    BY <2>2, <2>3 DEF CreatePod
<1>6. cagent' = cagent \/ (cagent' = agent /\ agent' = agent)
  BY CopiesMove DEF Next, Reconcile, Surroundings, AddFinalizer, HandleWake, ClearWake, DropStrayTrigger, EnterDegraded,
     LeaveDegraded, HibernatePod, SettleHibernated, AwaitCertificate, MarkReplacement, CreatePod, CreateRejected, ReplaceLost,
     AdmitReplacement, ReplaceDrifted, ObservePod, EndPass, Conflict, MarkTerminating, TerminatePod, ReleaseVolume, RemoveFinalizer,
     CacheAgent, CachePods, Crash, DeleteAgent, Change, Clears, FetchActivity, PodReady, PodFails, PodGoes, RestartReplica,
     LoseReplica, RegainReplica, RequestWake, Traffic, Tick, vars
<1>7. Asleep(agent') => cagent'.phase \in {"Hibernating", "Hibernated", "Degraded"} /\ pass'.pc # "marked"
  <2> SUFFICES ASSUME Asleep(agent')
               PROVE  cagent'.phase \in {"Hibernating", "Hibernated", "Degraded"} /\ pass'.pc # "marked"
    OBVIOUS
  <2>1. pass'.pc # "marked"
    <3>1. SettleHibernated => pass'.pc # "marked"
      BY PassMoves
    <3> QED
      BY <1>3, <3>1, SleepMoves, PassMoves DEF PodsApart
  <2>2. CASE Asleep(agent)
    BY <1>6, <2>1, <2>2 DEF PodsApart, Asleep
  <2>3. CASE SettleHibernated
    BY <1>1, <2>1, <2>3
  <2> QED
    BY <2>2, <2>3, SleepMoves
<1>8. ASSUME SeesPods'
      PROVE  /\ \A p, q \in PodIds : Exists(pods', p) /\ Exists(pods', q) => p = q
             /\ pass'.pc \in {"marked", "released"} \/ Asleep(agent') \/ pvc' = "collected" => NoPods'
  <2>0. SeesPods
    BY <1>8, PodsMove DEF SeesPods
  <2>1. CASE CreatePod
    <3>1. PICK p \in PodIds : \A q \in PodIds : Exists(pods', q) => Exists(pods, q) \/ q = p
      BY <2>1, PodsMove
    <3>2. \A q \in PodIds : Exists(pods', q) => q = p
      BY <1>5, <2>0, <2>1, <3>1 DEF NoPods
    <3>3. pass'.pc \notin {"marked", "released"} /\ pvc' # "collected" /\ ~Asleep(agent')
      BY <1>5, <2>1, PassMoves DEF Asleep, CreatePod, EnsureVolume
    <3> QED
      BY <3>2, <3>3
  <2>2. CASE ~CreatePod
    <3>1. \A q \in PodIds : Exists(pods', q) => Exists(pods, q)
      BY <2>2, PodsMove
    <3>2. NoPods => NoPods'
      BY <3>1 DEF NoPods
    <3>3. pass'.pc \in {"marked", "released"} => NoPods
      BY <1>3, <1>4, <2>0, PassMoves DEF PodsApart
    <3>4. Asleep(agent') => NoPods
      BY <1>2, <2>0, SleepMoves DEF PodsApart
    <3>5. ASSUME pvc' = "collected" PROVE NoPods \/ NoPods'
      <4>1. RemoveFinalizer => pass.pc = "released"
        BY DEF RemoveFinalizer
      <4>2. DeleteAgent /\ ~agent.finalizer => pvc = "collected"
        BY <3>5 DEF DeleteAgent, Collected, DeletesInOrder
      <4> QED
        BY <2>0, <3>5, <4>1, <4>2, PassMoves DEF PodsApart
    <3> QED
      BY <2>0, <3>1, <3>2, <3>3, <3>4, <3>5 DEF PodsApart
  <2> QED
    BY <2>1, <2>2
<1> QED
  BY <1>7, <1>8 DEF PodsApart, NoPods, SeesPods, Asleep, Exists

(* A set with no two members has at most one. *)
LEMMA AtMostOne ==
    ASSUME NEW S, IsFiniteSet(S), \A x, y \in S : x = y
    PROVE  Cardinality(S) <= 1
<1>1. CASE S = {}
  BY <1>1, FS_EmptySet
<1>2. CASE S # {}
  <2>1. PICK x : S = {x}
    BY <1>2
  <2> QED
    BY <2>1, FS_Singleton
<1> QED
  BY <1>1, <1>2

(* Pods and volume keep in step with the Agent for every configuration: no *)
(* retained volume is collected and, with a current view of the Pods, one  *)
(* Pod at most, none while Hibernated, and no volume collected that is     *)
(* still mounted (convergePod, driveHibernating, reconcileDelete).  The    *)
(* Agent itself may be read from a cache of any age, and a pass may end    *)
(* between any two of its writes.                                          *)
THEOREM PodsKeepInStep == Spec => [](TypeOK /\ OnePod /\ VolumeKept /\ (SeesPods => PodsInStep))
<1>1. Init => LifeInvariant
  BY LifeTypesInit, LifeInit DEF LifeInvariant
<1>2. LifeInvariant /\ [Next]_vars => LifeInvariant'
  BY LifeTypesStep, CopiesStep, DeletesStep, PodsApartStep DEF LifeInvariant
<1>3. LifeInvariant => TypeOK /\ OnePod /\ VolumeKept /\ (SeesPods => PodsInStep)
  <2> SUFFICES ASSUME LifeInvariant
               PROVE  TypeOK /\ OnePod /\ VolumeKept /\ (SeesPods => HibernatedHasNoPod)
    BY DEF PodsInStep
  <2>0. TypeOK /\ MaxPods \in Nat
    BY AgentAssumption DEF LifeInvariant, LifeTypes
  <2>1. OnePod
    <3> DEFINE S == {p \in PodIds : Exists(pods, p)}
    <3>0. IsFiniteSet(1..MaxPods)
      BY <2>0, FS_Interval
    <3>1. IsFiniteSet(S)
      <4>1. S \in SUBSET (1..MaxPods)
        BY DEF PodIds
      <4> HIDE DEF S
      <4> QED
        BY <3>0, <4>1, FS_Subset
    <3>2. SeesPods => \A x, y \in S : x = y
      BY DEF LifeInvariant, PodsApart
    <3> QED
      BY <3>1, <3>2, AtMostOne DEF OnePod, SeesPods
  <2>2. SeesPods => HibernatedHasNoPod
    BY DEF LifeInvariant, PodsApart, NoPods, Asleep, HibernatedHasNoPod
  <2>3. VolumeKept
    BY DEF LifeInvariant, PodsApart, DeletesInOrder, NoPods, VolumeKept, SeesPods
  <2> QED
    BY <2>0, <2>1, <2>2, <2>3
<1> QED
  BY <1>1, <1>2, <1>3, PTL DEF Spec
=============================================================================
