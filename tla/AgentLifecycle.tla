--------------------------- MODULE AgentLifecycle ---------------------------
(***************************************************************************)
(* One Agent, from its creation to the removal of its finalizer: the Agent *)
(* reconciler, the Pods it creates under generated names, the activity the *)
(* gateways record, and the annotation that wakes a hibernated Agent.      *)
(*                                                                         *)
(* The reconciler reads the Agent from an informer cache of any age, and a *)
(* write is refused when its copy is not the stored version.  A pass is    *)
(* split where it writes: what it reads before a write is read in the same *)
(* step.  A pass that only sets conditions or requeues is a stutter.       *)
(* Time is a clock of idle-detection units.  Conditions other than         *)
(* PodUpToDate, events, metrics and the children other than the Pod and    *)
(* the PVC are left out.                                                   *)
(***************************************************************************)
EXTENDS Integers, FiniteSets, FiniteSetsExt

CONSTANTS
    Replicas,           \* gateway replicas
    IdleTimeout,        \* eff.IdleTimeout; zero turns idle detection off
    HibernationDelay,   \* eff.HibernationDelay
    Window,             \* activityCacheWindow
    Cases,              \* the sets of disturbances to consider, one per behaviour
    MaxPods,            \* bound: Pods created
    MaxNow,             \* bound: the clock
    MaxEvents           \* bound: disturbances in a behaviour

Disturbances ==
    {"wake", "evict", "loop", "spec", "mismatch", "block", "cert", "reject",
     "flap", "restart", "unreachable", "delete", "crash", "stalePods",
     "activator", "badReply", "timeout"}   \* the last three at a gateway

ASSUME AgentAssumption ==
    /\ IdleTimeout \in Nat /\ HibernationDelay \in Nat /\ Window \in Nat \ {0}
    /\ Cases \subseteq SUBSET Disturbances
    /\ IsFiniteSet(Replicas) /\ MaxPods \in Nat /\ MaxNow \in Nat \ {0} /\ MaxEvents \in Nat

VARIABLES
    agent,     \* the stored Agent
    cagent,    \* the reconciler's cached Agent
    fresh,     \* which copies are the stored version: "cache", "pass"
    pods,      \* its Pods, by number: last state, spec they were built from, deleting, gone
    cpods,     \* the reconciler's cached Pods
    env,       \* what a pass reads besides: derived spec, class mismatch, blocks, Certificate
    store,     \* each replica's ActivityStore: start and last recorded traffic
    fetched,   \* the reconciler's cached activity answer
    now,       \* the clock
    pass,      \* the pass in progress: what it does next, its Agent and Pod
    pvc,       \* the Agent's volume: "none", "owned", "kept" (no owner) or "collected"
    events,    \* the disturbances this behaviour may have
    nEvents,   \* disturbances so far
    seen       \* history: traffic, traffic before this tick, a Pod seen Ready, Pods owed a full idle
               \* window and the last Ready of one

world == <<env, store, fetched, now, pvc, events, nEvents, seen>>
vars == <<agent, cagent, fresh, pods, cpods, pass, world>>

PodIds == 1..MaxPods
NoPod == 0
Never == -1
Created == 1     \* the Agent's creationTimestamp

NewAgent ==
    [phase |-> "Pending", pre |-> "none", wake |-> "none", upToDate |-> "none",
     active |-> Never, since |-> Created, finalizer |-> FALSE, deleting |-> FALSE, gone |-> FALSE]
NoPass == [pc |-> "idle", agent |-> NewAgent, pod |-> NoPod]
NoAnswer == [at |-> Never, up |-> {}, rec |-> [g \in Replicas |-> Never],
             started |-> [g \in Replicas |-> 0]]

May(e) == e \in events /\ nEvents < MaxEvents
Disturb(e) == May(e) /\ nEvents' = nEvents + 1

-----------------------------------------------------------------------------
(* Pods *)

Exists(ps, p) == ps.state[p] # "none" /\ p \notin ps.gone
Serving(p) == Exists(pods, p) /\ p \notin pods.deleting /\ pods.state[p] = "ready"
PodsRead == IF "stalePods" \in events THEN cpods ELSE pods

(* Fault: a Pod that is being deleted is not seen. *)
OwnedPodStaying(ps) ==
    LET staying == {p \in PodIds : Exists(ps, p)} \ ps.deleting
    IN  IF staying # {} THEN staying ELSE {NoPod}

(* ownedPod: a Pod that is not being deleted, else one that is.  Which of  *)
(* several is up to the order of the list.                                 *)
OwnedPod(ps) ==
    LET all == {p \in PodIds : Exists(ps, p)}
        staying == all \ ps.deleting
    IN  IF staying # {} THEN staying ELSE IF all # {} THEN all ELSE {NoPod}

Deleting(p) == pods' = [pods EXCEPT !.deleting = @ \cup ({p} \ {NoPod})]

(* degradedReasons: the class forbids something the spec asks for. *)
Degrades == env.mismatch
(* podCreationBlocked: a check that holds the Pod work without degrading. *)
Blocked == env.blocked
(* ensureCertificate *)
CertificateReady == env.cert

(* podDriftCause: the Pod's spec hash, or its TLS Secret, is not the       *)
(* derived one.                                                            *)
Drifted(ps, p) == ps.spec[p] # env.spec

-----------------------------------------------------------------------------
(* What a pass does to its copy of the Agent *)

(* setPhase *)
SetPhase(a, ph) == IF a.phase = ph THEN a ELSE [a EXCEPT !.phase = ph, !.since = now]

(* podPendingPhase *)
PodPendingPhase(a) == IF a.phase = "Resuming" THEN "Resuming" ELSE "Provisioning"

Pending(a) == SetPhase(a, PodPendingPhase(a))

(* floorsActivityAtReady *)
FloorsActivity(reason) == reason \in {"Replacing", "PodDisrupted"}

(* Fault: an involuntary replacement is not marked. *)
MarkDisruptedNever(a) == a

(* markDisrupted *)
MarkDisrupted(a) ==
    IF a.upToDate \in {"none", "Replacing", "PodDisrupted"} THEN a
    ELSE [a EXCEPT !.upToDate = "PodDisrupted"]

(* convergePod on a Ready Pod: Running with the activity floor, unless     *)
(* Idle, and Current when the Pod has not drifted.  floor is read before   *)
(* this pass touches the reason.                                           *)
OnReady(a, floor, drifted) ==
    LET floored == a.phase \notin {"Idle", "Running"} /\ (a.phase = "Resuming" \/ floor)
        b == IF floored THEN [a EXCEPT !.active = now] ELSE a
        c == IF a.phase = "Idle" THEN b ELSE SetPhase(b, "Running")
    IN  IF drifted THEN c ELSE [c EXCEPT !.upToDate = "Current"]

(* convergePod on a Pod it leaves in place: crash loop, Ready, not Ready. *)
OnPod(a, floor, s, drifted) ==
    CASE s = "looping" -> SetPhase(a, "Failed")
      [] s = "ready" -> OnReady(a, floor, drifted)
      [] s = "pending" -> Pending(a)

(* A drifted Pod whose replacement waits: for a slot, or, while the        *)
(* Certificate is not Ready, for the Certificate.                          *)
HeldBack(a, s, certHeld) ==
    CASE ~certHeld -> [a EXCEPT !.upToDate = "ReplacementPending"]
      [] certHeld /\ (~FloorsActivity(a.upToDate) \/ s = "ready") ->
            [a EXCEPT !.upToDate = "CertificateNotReady"]
      [] OTHER -> a

-----------------------------------------------------------------------------
(* Activity *)

(* mergedActivity: the newest record of the replicas that answered, unless *)
(* it is older than the Agent.                                             *)
MergedActivity(ans) ==
    LET newest == IF ans.up = {} THEN Never ELSE Max({ans.rec[g] : g \in ans.up})
    IN  IF newest < Created THEN Never ELSE newest

(* Some replica has been up for the idle timeout. *)
Qualified(ans) == \E g \in ans.up : now - ans.started[g] >= IdleTimeout

ActivityStepRuns(a) == IdleTimeout > 0 /\ a.phase \in {"Running", "Idle"}

(* evaluateActivity.  synthetic: no record, so silence is measured from    *)
(* the phase transition.                                                   *)
Evaluated(a, ans, certHeld) ==
    LET synthetic == MergedActivity(ans) = Never
        last == IF synthetic THEN a.since ELSE MergedActivity(ans)
        marker == IF a.active > last THEN a.active ELSE last
        silence == IF a.active # Never /\ (synthetic \/ a.active > last) THEN a.active ELSE last
    IN  IF ans.up = {} \/ (synthetic /\ ~Qualified(ans)) THEN a
        ELSE CASE a.phase = "Running" ->
                    IF now - marker > IdleTimeout
                    THEN [SetPhase(a, "Idle") EXCEPT !.active = marker] ELSE a
               [] a.phase = "Idle" ->
                    IF ~synthetic /\ a.active # Never /\ last > a.active
                    THEN [SetPhase(a, "Running") EXCEPT !.active = last]
                    ELSE IF ~certHeld /\ now - silence > IdleTimeout + HibernationDelay
                    THEN SetPhase(a, "Hibernating") ELSE a

(* The answer in the per-namespace cache is not older than its window. *)
Fresh == fetched.at # Never /\ now - fetched.at < Window

-----------------------------------------------------------------------------
(* Writes *)

(* Fault: a write that carries no version. *)
AcceptedUnversioned(copy) == ~agent.gone

(* Status().Update and Update: refused unless the copy is the stored version. *)
Accepted(copy) == ~agent.gone /\ copy \in fresh

(* A write that ends the pass; one that changes nothing leaves the version. *)
WriteStatus(copy, a) ==
    /\ Accepted(copy)
    /\ agent' = a
    /\ pass' = NoPass
    /\ fresh' = IF a = agent THEN fresh \ {"pass"} ELSE {}

(* A write after which the pass goes on, with the version it was given. *)
WriteOn(copy, a, pc, p) ==
    /\ Accepted(copy)
    /\ agent' = a
    /\ pass' = [pc |-> pc, agent |-> a, pod |-> p]
    /\ fresh' = IF a = agent THEN fresh \cup {"pass"} ELSE {"pass"}

(* The pass goes on with the copy it has. *)
Continue(pc, a, p) ==
    /\ pass' = [pc |-> pc, agent |-> a, pod |-> p]
    /\ fresh' = IF pass.pc = "idle" /\ "cache" \in fresh THEN fresh \cup {"pass"} ELSE fresh

EndsPass == pass' = NoPass /\ fresh' = fresh \ {"pass"}

-----------------------------------------------------------------------------
Init ==
    /\ agent = NewAgent /\ cagent = NewAgent /\ fresh = {"cache"}
    /\ pods = [state |-> [p \in PodIds |-> "none"], spec |-> [p \in PodIds |-> 1],
               deleting |-> {}, gone |-> {}]
    /\ cpods = pods
    /\ store = [up |-> Replicas, started |-> [g \in Replicas |-> 0],
                rec |-> [g \in Replicas |-> 0]]   \* of an earlier Agent of the same name
    /\ fetched = NoAnswer
    /\ now = Created
    /\ pass = NoPass
    /\ pvc = "none"
    /\ events \in Cases
    /\ env \in [spec : {1}, mismatch : {FALSE}, blocked : {FALSE}, cert : {TRUE},
                retain : IF "delete" \in events THEN BOOLEAN ELSE {TRUE}]
    /\ nEvents = 0
    /\ seen = [traffic |-> Created, known |-> Created, ready |-> Created, served |-> FALSE, owed |-> {}]

(* A pass starts on a cached Agent; one that is being deleted goes to      *)
(* reconcileDelete.                                                        *)
Starts == pass.pc = "idle" /\ ~cagent.gone /\ ~cagent.deleting

AddFinalizer ==
    /\ Starts /\ ~cagent.finalizer
    /\ WriteStatus("cache", [cagent EXCEPT !.finalizer = TRUE])
    /\ UNCHANGED <<cagent, pods, cpods, world>>

Active == Starts /\ cagent.finalizer

(* Fault: the wake is taken off the Agent whatever its phase. *)
HandleWakeAnyPhase ==
    /\ Active /\ cagent.wake = "set"
    /\ WriteStatus("cache", [SetPhase(cagent, IF cagent.phase = "Hibernated" THEN "Resuming" ELSE cagent.phase)
                    EXCEPT !.wake = "none"])
    /\ UNCHANGED <<cagent, pods, cpods, world>>

(* handleWake on a Hibernated Agent: Resuming is committed before the      *)
(* annotation goes; on any other phase but Hibernating the annotation      *)
(* goes at once.                                                           *)
HandleWake ==
    /\ Active /\ cagent.wake = "set" /\ cagent.phase # "Hibernating"
    /\ IF cagent.phase = "Hibernated"
       THEN WriteOn("cache", [SetPhase(cagent, "Resuming") EXCEPT !.active = now], "woken", NoPod)
       ELSE WriteStatus("cache", [cagent EXCEPT !.wake = "none"])
    /\ UNCHANGED <<cagent, pods, cpods, world>>

ClearWake ==
    /\ pass.pc = "woken"
    /\ WriteStatus("pass", [pass.agent EXCEPT !.wake = "none"])
    /\ UNCHANGED <<cagent, pods, cpods, world>>

(* A trigger annotation with no wake request is removed. *)
DropStrayTrigger ==
    /\ Active /\ cagent.wake = "stray"
    /\ WriteStatus("cache", [cagent EXCEPT !.wake = "none"])
    /\ UNCHANGED <<cagent, pods, cpods, world>>

(* Past the wake annotations: a wake waits on a Hibernating Agent. *)
Checks == Active /\ (cagent.wake = "none" \/ (cagent.wake = "set" /\ cagent.phase = "Hibernating"))

(* enterOrStayDegraded: staying changes conditions only. *)
EnterDegraded ==
    /\ Checks /\ Degrades /\ cagent.phase # "Degraded"
    /\ WriteStatus("cache", [SetPhase(cagent, "Degraded") EXCEPT !.pre = cagent.phase])
    /\ UNCHANGED <<cagent, pods, cpods, world>>

LeaveDegraded ==
    /\ Checks /\ ~Degrades /\ cagent.phase = "Degraded"
    /\ WriteStatus("cache", [SetPhase(cagent, IF cagent.pre = "none" THEN "Pending" ELSE cagent.pre)
                    EXCEPT !.pre = "none"])
    /\ UNCHANGED <<cagent, pods, cpods, world>>

Admitted == Checks /\ ~Degrades /\ cagent.phase # "Degraded"

(* driveHibernating with a Pod: it is deleted, then status is written. *)
HibernatePod ==
    /\ Admitted /\ cagent.phase = "Hibernating"
    /\ \E p \in OwnedPod(PodsRead) \ {NoPod} :
         /\ p \notin PodsRead.deleting
         /\ Deleting(p)
         /\ Continue("ending", cagent, p)
    /\ UNCHANGED <<agent, cagent, cpods, world>>

(* driveHibernating once the Pod is gone. *)
SettleHibernated ==
    /\ Admitted /\ cagent.phase = "Hibernating"
    /\ NoPod \in OwnedPod(PodsRead)
    /\ WriteStatus("cache", [SetPhase(cagent, "Hibernated") EXCEPT !.upToDate = "none"])
    /\ UNCHANGED <<cagent, pods, cpods, world>>

(* Past podCreationBlocked, to the Pod. *)
Converges == Admitted /\ cagent.phase \notin {"Hibernating", "Hibernated"} /\ ~Blocked

(* waitForCertificateWithoutPod *)
AwaitCertificate ==
    /\ Converges /\ ~CertificateReady /\ NoPod \in OwnedPod(PodsRead)
    /\ Pending(cagent) # cagent
    /\ WriteStatus("cache", Pending(cagent))
    /\ UNCHANGED <<cagent, pods, cpods, world>>

(* createAgentPod, its first write: the marker is stored before the Pod is *)
(* created.                                                                *)
MarkReplacement ==
    /\ Converges /\ CertificateReady /\ NoPod \in OwnedPod(PodsRead)
    /\ MarkDisrupted(cagent) # cagent
    /\ WriteOn("cache", MarkDisrupted(cagent), "marked", NoPod)
    /\ UNCHANGED <<cagent, pods, cpods, world>>

(* createAgentPod with a copy of the Agent. *)
CreateWith(copy, a) ==
    \E p \in PodIds :
        /\ pods.state[p] = "none" /\ \A q \in PodIds : q < p => pods.state[q] # "none"
        /\ pods' = [pods EXCEPT !.state[p] = "pending", !.spec[p] = env.spec]
        /\ Continue("ending", Pending(a), p)
        /\ seen' = IF seen.served /\ Accepted(copy) THEN [seen EXCEPT !.owed = @ \cup {p}] ELSE seen

(* ensureChildren, before the Pod: the volume is created once. *)
EnsureVolume == pvc' = IF pvc = "none" THEN "owned" ELSE pvc

CreatePod ==
    /\ EnsureVolume
    /\ \/ /\ Converges /\ CertificateReady /\ NoPod \in OwnedPod(PodsRead)
          /\ MarkDisrupted(cagent) = cagent
          /\ CreateWith("cache", cagent)
       \/ pass.pc = "marked" /\ CreateWith("pass", pass.agent)
    /\ UNCHANGED <<agent, cagent, cpods, env, store, fetched, now, events, nEvents>>

(* The API server rejects the Pod. *)
CreateRejected ==
    /\ Disturb("reject") /\ EnsureVolume
    /\ \/ /\ Converges /\ CertificateReady /\ NoPod \in OwnedPod(PodsRead)
          /\ MarkDisrupted(cagent) = cagent
          /\ Continue("ending", Pending(cagent), NoPod)
       \/ pass.pc = "marked" /\ Continue("ending", Pending(pass.agent), NoPod)
    /\ UNCHANGED <<agent, cagent, pods, cpods, env, store, fetched, now, events, seen>>

(* convergePod on a Pod that is being deleted, or has ended, which is      *)
(* deleted.                                                                *)
ReplaceLost ==
    /\ Converges
    /\ \E p \in OwnedPod(PodsRead) \ {NoPod} :
         LET lost == Pending(MarkDisrupted(cagent))
         IN  \/ /\ p \in PodsRead.deleting
                /\ lost # cagent /\ WriteStatus("cache", lost)
                /\ UNCHANGED pods
             \/ /\ p \notin PodsRead.deleting /\ PodsRead.state[p] = "ended"
                /\ p \notin pods.gone   \* else the delete fails, and the pass with it
                /\ Deleting(p)
                /\ Continue("ending", lost, p)
                /\ UNCHANGED agent
    /\ UNCHANGED <<cagent, cpods, world>>

(* admitDriftReplacement with a slot: Replacing is stored before the Pod   *)
(* is deleted.                                                             *)
AdmitReplacement ==
    /\ Converges /\ CertificateReady
    /\ \E p \in OwnedPod(PodsRead) \ {NoPod} :
         /\ p \notin PodsRead.deleting /\ PodsRead.state[p] # "ended" /\ Drifted(PodsRead, p)
         /\ WriteOn("cache", [Pending(cagent) EXCEPT !.upToDate = "Replacing"], "replacing", p)
    /\ UNCHANGED <<cagent, pods, cpods, world>>

ReplaceDrifted ==
    /\ pass.pc = "replacing"
    /\ IF pass.pod \in pods.gone THEN EndsPass /\ UNCHANGED pods
       ELSE Deleting(pass.pod) /\ Continue("ending", pass.agent, pass.pod)
    /\ UNCHANGED <<agent, cagent, cpods, world>>

(* convergePod on a Pod that stays, then the activity step, then the write *)
(* at the end of the pass, if anything changed.                            *)
ObservePod ==
    /\ Converges
    /\ \E p \in OwnedPod(PodsRead) \ {NoPod} :
         LET s == PodsRead.state[p]
             drifted == Drifted(PodsRead, p)
             a == IF drifted THEN HeldBack(cagent, s, ~CertificateReady) ELSE cagent
             b == OnPod(a, FloorsActivity(cagent.upToDate), s, drifted)
             c == IF ActivityStepRuns(b) THEN Evaluated(b, fetched, ~CertificateReady) ELSE b
         IN  /\ p \notin PodsRead.deleting /\ s # "ended"
             /\ drifted /\ CertificateReady => cagent.upToDate # "Replacing"
             /\ ActivityStepRuns(b) => Fresh
             /\ c # cagent
             /\ WriteStatus("cache", c)
             /\ seen' = IF s = "ready"
                        THEN [seen EXCEPT !.served = TRUE, !.owed = @ \ {p},
                                          !.ready = IF p \in seen.owed THEN now ELSE @]
                        ELSE seen
    /\ UNCHANGED <<cagent, pods, cpods, env, store, fetched, now, pvc, events, nEvents>>

(* The write at the end of a pass that created or deleted a Pod. *)
EndPass ==
    /\ pass.pc = "ending"
    /\ WriteStatus("pass", pass.agent)
    /\ UNCHANGED <<cagent, pods, cpods, world>>

-----------------------------------------------------------------------------
(* reconcileDelete *)

Finalizes == pass.pc = "idle" /\ ~cagent.gone /\ cagent.deleting /\ cagent.finalizer

MarkTerminating ==
    /\ Finalizes /\ cagent.phase # "Terminating"
    /\ WriteOn("cache", [SetPhase(cagent, "Terminating") EXCEPT !.pre = "none"], "terminating", NoPod)
    /\ UNCHANGED <<cagent, pods, cpods, world>>

Terminating == (Finalizes /\ cagent.phase = "Terminating") \/ pass.pc = "terminating"
TerminatingAgent == IF pass.pc = "idle" THEN cagent ELSE pass.agent

(* A Pod that is there ends the pass, deleted if it was not yet. *)
TerminatePod ==
    /\ Terminating
    /\ \E p \in OwnedPod(PodsRead) \ {NoPod} :
         /\ pass.pc = "terminating" \/ p \notin PodsRead.deleting
         /\ Deleting(p)
    /\ EndsPass
    /\ UNCHANGED <<agent, cagent, cpods, world>>

(* Retain strips the owner reference from the volume before the finalizer  *)
(* goes.                                                                   *)
ReleaseVolume ==
    /\ Terminating /\ NoPod \in OwnedPod(PodsRead)
    /\ pvc' = IF env.retain /\ pvc = "owned" THEN "kept" ELSE pvc
    /\ Continue("released", TerminatingAgent, NoPod)
    /\ UNCHANGED <<agent, cagent, pods, cpods, env, store, fetched, now, events, nEvents, seen>>

(* The stored Agent goes with its last finalizer, and the garbage          *)
(* collector takes what it owns.                                           *)
Collected ==
    /\ agent' = [agent EXCEPT !.finalizer = FALSE, !.deleting = TRUE, !.gone = TRUE] /\ fresh' = {}
    /\ pvc' = IF pvc = "owned" THEN "collected" ELSE pvc
    /\ pods' = [pods EXCEPT !.deleting = @ \cup {p \in PodIds : Exists(pods, p)}]

RemoveFinalizer ==
    /\ pass.pc = "released" /\ Accepted("pass")
    /\ Collected
    /\ pass' = NoPass
    /\ UNCHANGED <<cagent, cpods, env, store, fetched, now, events, nEvents, seen>>

(* A refused write ends the pass with an error; a later pass starts over. *)
Conflict ==
    /\ pass.pc \in {"woken", "ending", "released"} /\ ~Accepted("pass")
    /\ EndsPass
    /\ UNCHANGED <<agent, cagent, pods, cpods, world>>

(* The controller stops, or loses its lease, between two writes; the next  *)
(* leader lists afresh.                                                    *)
Crash ==
    /\ Disturb("crash") /\ pass # NoPass
    /\ pass' = NoPass /\ cagent' = agent /\ fresh' = {"cache"} /\ cpods' = pods /\ fetched' = NoAnswer
    /\ UNCHANGED <<agent, pods, env, store, now, pvc, events, seen>>

-----------------------------------------------------------------------------
(* The rest of the world *)

CacheAgent ==
    /\ "cache" \notin fresh /\ cagent' = agent /\ fresh' = fresh \cup {"cache"}
    /\ UNCHANGED <<agent, pods, cpods, pass, world>>

CachePods ==
    /\ "stalePods" \in events /\ cpods # pods /\ cpods' = pods
    /\ UNCHANGED <<agent, cagent, fresh, pods, pass, world>>

(* A message at a gateway, or an operator's annotation: a patch, with no   *)
(* version.                                                                *)
RequestWake ==
    /\ Disturb("wake") /\ ~agent.gone /\ agent.wake = "none"
    /\ \E w \in {"set", "stray"} :
         agent' = [agent EXCEPT !.wake = w]
    /\ fresh' = {}
    /\ UNCHANGED <<cagent, pods, cpods, pass, env, store, fetched, now, pvc, events, seen>>

DeleteAgent ==
    /\ Disturb("delete") /\ ~agent.gone /\ ~agent.deleting
    /\ IF agent.finalizer
       THEN agent' = [agent EXCEPT !.deleting = TRUE] /\ fresh' = {} /\ UNCHANGED <<pods, pvc>>
       ELSE Collected
    /\ UNCHANGED <<cagent, cpods, pass, env, store, fetched, now, events, seen>>

(* The class or the spec changes, a check fails or the Certificate is not  *)
(* Ready, for a while.                                                     *)
Change ==
    /\ \/ Disturb("spec") /\ env' = [env EXCEPT !.spec = @ + 1]
       \/ Disturb("mismatch") /\ ~env.mismatch /\ env' = [env EXCEPT !.mismatch = TRUE]
       \/ Disturb("block") /\ ~env.blocked /\ env' = [env EXCEPT !.blocked = TRUE]
       \/ Disturb("cert") /\ env.cert /\ env' = [env EXCEPT !.cert = FALSE]
    /\ UNCHANGED <<agent, cagent, fresh, pods, cpods, pass, store, fetched, now, pvc, events, seen>>

Clears ==
    /\ \E e \in {[env EXCEPT !.mismatch = FALSE], [env EXCEPT !.blocked = FALSE],
                 [env EXCEPT !.cert = TRUE]} : e # env /\ env' = e
    /\ UNCHANGED <<agent, cagent, fresh, pods, cpods, pass, store, fetched, now, pvc, events, nEvents, seen>>

PodMoves(p, from, to) ==
    /\ Exists(pods, p) /\ pods.state[p] \in from
    /\ pods' = [pods EXCEPT !.state[p] = to]

PodReady(p) ==
    /\ PodMoves(p, {"pending", "looping"}, "ready") /\ p \notin pods.deleting
    /\ UNCHANGED <<agent, cagent, fresh, cpods, pass, world>>

(* A container crash-loops, readiness is lost, the Pod ends or is deleted. *)
PodFails(p) ==
    /\ \/ Disturb("loop") /\ PodMoves(p, {"pending"}, "looping")
       \/ Disturb("flap") /\ PodMoves(p, {"ready"}, "pending")
       \/ Disturb("evict") /\ PodMoves(p, {"pending", "ready"}, "ended")
       \/ Disturb("evict") /\ Exists(pods, p) /\ p \notin pods.deleting /\ Deleting(p)
    /\ UNCHANGED <<agent, cagent, fresh, cpods, pass, env, store, fetched, now, pvc, events, seen>>

PodGoes(p) ==
    /\ p \in pods.deleting /\ p \notin pods.gone
    /\ pods' = [pods EXCEPT !.gone = @ \cup {p}]
    /\ UNCHANGED <<agent, cagent, fresh, cpods, pass, world>>

(* A message is delivered to the Pod through replica g, which records it. *)
Traffic(g) ==
    /\ \E p \in PodIds : Serving(p)
    /\ store' = [store EXCEPT !.rec[g] = now]
    /\ seen' = [seen EXCEPT !.traffic = now]
    /\ UNCHANGED <<agent, cagent, fresh, pods, cpods, pass, env, fetched, now, pvc, events, nEvents>>

(* A replica restarts, which empties its record. *)
RestartReplica(g) ==
    /\ Disturb("restart")
    /\ store' = [store EXCEPT !.rec[g] = Never, !.started[g] = now]
    /\ UNCHANGED <<agent, cagent, fresh, pods, cpods, pass, env, fetched, now, pvc, events, seen>>

LoseReplica(g) ==
    /\ Disturb("unreachable") /\ g \in store.up
    /\ store' = [store EXCEPT !.up = @ \ {g}]
    /\ UNCHANGED <<agent, cagent, fresh, pods, cpods, pass, env, fetched, now, pvc, events, seen>>

RegainReplica(g) ==
    /\ g \notin store.up
    /\ store' = [store EXCEPT !.up = @ \cup {g}]
    /\ UNCHANGED <<agent, cagent, fresh, pods, cpods, pass, env, fetched, now, pvc, events, nEvents, seen>>

(* NamespaceActivity, for this Agent or a neighbour in its namespace: asks *)
(* the replicas once the cached answer has expired.  ForgetUnreachable     *)
(* drops an answer without data early.                                     *)
FetchActivity ==
    /\ ~Fresh \/ (fetched.up = {} /\ store.up # {})
    /\ fetched' = [at |-> now, up |-> store.up, rec |-> store.rec, started |-> store.started]
    /\ UNCHANGED <<agent, cagent, fresh, pods, cpods, pass, env, store, now, pvc, events, nEvents, seen>>

Tick ==
    /\ now < MaxNow /\ ~agent.gone /\ now' = now + 1
    /\ seen' = [seen EXCEPT !.known = seen.traffic]
    /\ UNCHANGED <<agent, cagent, fresh, pods, cpods, pass, env, store, fetched, pvc, events, nEvents>>

-----------------------------------------------------------------------------
Reconcile ==
    \/ AddFinalizer \/ HandleWake \/ ClearWake \/ DropStrayTrigger
    \/ EnterDegraded \/ LeaveDegraded \/ HibernatePod \/ SettleHibernated
    \/ AwaitCertificate \/ MarkReplacement \/ CreatePod \/ CreateRejected
    \/ ReplaceLost \/ AdmitReplacement \/ ReplaceDrifted \/ ObservePod
    \/ EndPass \/ Conflict
    \/ MarkTerminating \/ TerminatePod \/ ReleaseVolume \/ RemoveFinalizer

Surroundings ==
    \/ CacheAgent \/ CachePods \/ Crash
    \/ DeleteAgent \/ Change \/ Clears
    \/ \E p \in PodIds : PodReady(p) \/ PodFails(p) \/ PodGoes(p)
    \/ \E g \in Replicas : RestartReplica(g) \/ LoseReplica(g) \/ RegainReplica(g)
    \/ FetchActivity

Next == Reconcile \/ Surroundings \/ RequestWake \/ (\E g \in Replicas : Traffic(g)) \/ Tick

Spec == Init /\ [][Next]_vars

-----------------------------------------------------------------------------
Phases ==
    {"Pending", "Provisioning", "Running", "Idle", "Hibernating", "Hibernated", "Resuming",
     "Degraded", "Failed", "Terminating"}
Agents ==
    [phase : Phases, pre : Phases \cup {"none"}, wake : {"none", "set", "stray"},
     upToDate : {"none", "Current", "Replacing", "ReplacementPending", "PodDisrupted",
                 "CertificateNotReady"},
     active : Int, since : Nat, finalizer : BOOLEAN, deleting : BOOLEAN, gone : BOOLEAN]
PodTables ==
    [state : [PodIds -> {"none", "pending", "ready", "looping", "ended"}], spec : [PodIds -> Nat],
     deleting : SUBSET PodIds, gone : SUBSET PodIds]

(* Type correctness. *)
TypeOK ==
    /\ agent \in Agents /\ cagent \in Agents /\ agent.pre # "Degraded"
    /\ fresh \subseteq {"cache", "pass"}
    /\ pods \in PodTables /\ cpods \in PodTables
    /\ pass \in [pc : {"idle", "woken", "marked", "ending", "replacing", "terminating", "released"},
                 agent : Agents, pod : PodIds \cup {NoPod}]
    /\ now \in 1..MaxNow /\ nEvents \in 0..MaxEvents
    /\ pvc \in {"none", "owned", "kept", "collected"}

(* What a pass creates is a Pod whose name the API server generates, so    *)
(* nothing but convergePod keeps an Agent from having two: with a current  *)
(* view of the Pods it never has more than one, through drift, disruption, *)
(* hibernation, wake, a crash between the writes of a pass, and an Agent   *)
(* read from a cache that lags.                                            *)
OnePod == "stalePods" \notin events => Cardinality({p \in PodIds : Exists(pods, p)}) <= 1

(* driveHibernating settles Hibernated only when the Pod is gone, and no   *)
(* pass creates one before a wake: a Hibernated Agent has no Pod, so the   *)
(* wake that follows starts from an empty volume mount.  This holds even   *)
(* when the Pods are read from a cache that lags, since deletions reach it *)
(* last, unless Pods are also lost or replaced: a pass on the Agent of     *)
(* before then creates a Pod that the pass which settles does not see.     *)
HibernatedHasNoPod ==
    agent.phase = "Hibernated" /\ ~agent.deleting /\ ("stalePods" \in events => events \cap {"evict", "spec"} = {}) =>
        \A p \in PodIds : ~Exists(pods, p)

GoesQuiet ==
    \/ agent.phase = "Running" /\ agent'.phase = "Idle"
    \/ agent.phase = "Idle" /\ agent'.phase = "Hibernating"

(* An Agent goes Idle, and on to Hibernating, only after a full idle       *)
(* timeout without traffic the controller could have known of, counted     *)
(* from its creation (evaluateActivity): the record of an earlier Agent of *)
(* the same name, a restarted or unreachable replica, an answer from the   *)
(* cache and a lost write never shorten it.  And a Pod that a pass on the  *)
(* current Agent started for a wake, or in place of another, gets a full   *)
(* idle timeout from its Ready (the floor that handleWake, convergePod and *)
(* markDisrupted set), unless a lost Pod meets a crash or a spec change,   *)
(* where the marker or the phase it goes with is lost.                     *)
QuietEarned ==
    [][GoesQuiet =>
         /\ now - seen.known >= IdleTimeout
         /\ ("evict" \in events => events \cap {"crash", "spec"} = {}) => now - seen'.ready > IdleTimeout]_vars

(* What a pass may not forget.  A wake never goes from an Agent that is    *)
(* about to be, or is, without a Pod: handleWake commits Resuming before   *)
(* it removes the annotation, and one that lands while Hibernating is      *)
(* kept.  And a Degraded Agent leaves for the phase it came from, or       *)
(* Terminating: enterOrStayDegraded never records Degraded itself.         *)
PhaseKept ==
    [][/\ agent.wake = "set" /\ agent'.wake # "set" => agent.phase \notin {"Hibernating", "Hibernated"}
       /\ agent.phase = "Degraded" /\ agent'.phase # "Degraded" =>
            agent'.phase \in {agent.pre, "Terminating"} \ {"Degraded", "none"}]_vars

(* reconcileDelete waits for the Pod, releases a volume that is to be      *)
(* retained, and only then lets the Agent go: no retained volume is        *)
(* collected with it, and no volume while a Pod that mounts it is there.   *)
VolumeKept ==
    /\ agent.gone /\ env.retain => pvc # "collected"
    /\ pvc = "collected" /\ "stalePods" \notin events => \A p \in PodIds : ~Exists(pods, p)

(* Pod and volume keep in step with the Agent: one Pod at most, none while *)
(* Hibernated, and no volume collected that is retained or still mounted   *)
(* (convergePod, driveHibernating, reconcileDelete).                       *)
PodsInStep == TypeOK /\ OnePod /\ HibernatedHasNoPod /\ VolumeKept
=============================================================================
