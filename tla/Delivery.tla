------------------------------ MODULE Delivery ------------------------------
(***************************************************************************)
(* A gateway replica that takes messages for the Agent of AgentLifecycle:  *)
(* it wakes a hibernated Agent through the controller's activator, waits   *)
(* for its Pod in one of a bounded number of slots, and delivers with a    *)
(* bounded number of attempts.                                             *)
(*                                                                         *)
(* The gateway reads the Agent's phase from a cache, and its Pods from the *)
(* PodReadyTracker, both of any age.  Timing assumption: an attempt, a     *)
(* call to the activator, and the poll that finds a serving Pod take less  *)
(* than a unit of the clock.                                               *)
(***************************************************************************)
EXTENDS AgentLifecycle

CONSTANTS
    Gateway,      \* the replica of this gateway
    Messages,     \* bound: messages
    MaxPodWaits,  \* maxPodWaitsPerAgent
    Attempts      \* one more than the entries of DeliveryBackoff

ASSUME DeliveryAssumption ==
    /\ Gateway \in Replicas /\ IsFiniteSet(Messages)
    /\ MaxPodWaits \in Nat \ {0} /\ Attempts \in Nat \ {0}

VARIABLES
    view,    \* the phase in the gateway's Agent cache
    track,   \* PodReadyTracker.pods: each Pod "none", "seen" or "serving"
    msg,     \* each message: where it is, and what it has used up
    others,  \* Pod waits of messages not followed here
    slots    \* podWaits of the Agent

gateway == <<view, track, msg, others, slots>>
dvars == <<vars, gateway>>

NewMessage ==
    [pc |-> "out",       \* "waking", "waiting", "sending", "handling", "delivered", "refused", "failed"
     wait |-> TRUE,      \* its one Pod wait is left
     asked |-> FALSE,    \* it has requested its wake
     again |-> FALSE,    \* the activator call is a retry
     ready |-> FALSE,    \* its wait has seen a serving Pod
     tries |-> 0,        \* attempts made
     pod |-> NoPod,      \* the Pod that handles it
     handled |-> 0,      \* history: times a Pod was handed it
     misled |-> FALSE]   \* history: its wait ended on the Pod of an Agent gone quiet

needsWake(phase) == phase \in {"Hibernating", "Hibernated"}
Waits(m) == msg[m].pc \in {"waking", "waiting"}
Failed(m) == msg[m].pc \in {"refused", "failed"}
Put(m, r) == msg' = [msg EXCEPT ![m] = r]

(* The Agent has its first Pod, and runs. *)
DInit ==
    /\ agent = [NewAgent EXCEPT !.phase = "Running", !.upToDate = "Current", !.finalizer = TRUE]
    /\ cagent = agent /\ fresh = {"cache"}
    /\ pods = [state |-> [p \in PodIds |-> IF p = 1 THEN "ready" ELSE "none"],
               spec |-> [p \in PodIds |-> 1], deleting |-> {}, gone |-> {}]
    /\ cpods = pods
    /\ env = [spec |-> 1, mismatch |-> FALSE, blocked |-> FALSE, cert |-> TRUE, retain |-> TRUE]
    /\ store = [up |-> Replicas, started |-> [g \in Replicas |-> 0], rec |-> [g \in Replicas |-> 0]]
    /\ fetched = NoAnswer /\ now = Created /\ pass = NoPass /\ pvc = "owned"
    /\ events \in Cases /\ nEvents = 0
    /\ seen = [traffic |-> Created, known |-> Created, ready |-> Created, served |-> TRUE, owed |-> {}]
    /\ view = agent.phase
    /\ track = [p \in PodIds |-> IF p = 1 THEN "serving" ELSE "none"]
    /\ msg = [m \in Messages |-> NewMessage]
    /\ others \in {0, MaxPodWaits} /\ slots = others

-----------------------------------------------------------------------------

(* awaitPod, up to its wait: a slot, or agent_not_ready at once. *)
awaitPod(m, r, wake) ==
    IF slots >= MaxPodWaits
    THEN Put(m, [r EXCEPT !.pc = "refused"]) /\ UNCHANGED slots
    ELSE /\ slots' = slots + 1
         /\ Put(m, [r EXCEPT !.pc = IF wake THEN "waking" ELSE "waiting", !.wait = FALSE, !.asked = wake])

(* wakeAndDeliver, up to the first thing it waits for. *)
Receive(m) ==
    /\ msg[m].pc = "out"
    /\ CASE needsWake(view) -> awaitPod(m, msg[m], TRUE)
         [] view \in {"Provisioning", "Resuming"} -> awaitPod(m, msg[m], FALSE)
         [] OTHER -> Put(m, [msg[m] EXCEPT !.pc = "sending"]) /\ UNCHANGED slots
    /\ UNCHANGED <<vars, view, track, others>>

(* Fault: a failed wake keeps its slot. *)
EndWaitHeld(m, pc) ==
    /\ slots' = IF pc = "sending" THEN slots - 1 ELSE slots
    /\ Put(m, [msg[m] EXCEPT !.pc = pc, !.ready = FALSE])

(* A wait that ends releases its slot. *)
EndWait(m, pc) ==
    /\ slots' = slots - 1
    /\ Put(m, [msg[m] EXCEPT !.pc = pc, !.ready = FALSE, !.misled = agent.phase \in {"Idle", "Hibernating"}])

(* handleActivate: a merge patch. *)
Patch ==
    /\ agent' = [agent EXCEPT !.wake = "set"]
    /\ fresh' = IF agent.wake = "set" THEN fresh ELSE {}

(* requestWake *)
RequestsWake(m) ==
    /\ msg[m].pc = "waking" /\ ~agent.gone
    /\ Patch
    /\ Put(m, [msg[m] EXCEPT !.pc = "waiting"])
    /\ UNCHANGED <<cagent, pods, cpods, pass, world, view, track, others, slots>>

(* Fault: the second error is taken for an answer. *)
ActivatorFailsQuietly(m) ==
    /\ msg[m].pc = "waking" /\ ~agent.gone /\ Disturb("activator")
    /\ Patch \/ UNCHANGED <<agent, fresh>>
    /\ Put(m, [msg[m] EXCEPT !.again = TRUE, !.pc = IF msg[m].again THEN "waiting" ELSE @])
    /\ UNCHANGED <<cagent, pods, cpods, pass, env, store, fetched, now, pvc, events, seen, view, track, others, slots>>

(* ControllerActivator.Wake: one retry after an error, which may hide that *)
(* the patch was made.                                                     *)
ActivatorFails(m) ==
    /\ msg[m].pc = "waking" /\ ~agent.gone /\ Disturb("activator")
    /\ Patch \/ UNCHANGED <<agent, fresh>>
    /\ IF msg[m].again THEN EndWait(m, "failed")
       ELSE Put(m, [msg[m] EXCEPT !.again = TRUE]) /\ UNCHANGED slots
    /\ UNCHANGED <<cagent, pods, cpods, pass, env, store, fetched, now, pvc, events, seen, view, track, others>>

(* Fault: the wait keeps to the phase the message was routed on. *)
PollBlind(m) ==
    /\ msg[m].pc = "waiting"
    /\ \E p \in PodIds : Serving(p)
    /\ EndWait(m, "sending")
    /\ UNCHANGED <<vars, view, track, others>>

(* One check of waitAgentReachable: it connects when the tracker shows a   *)
(* serving Pod, or none at all; when it does not get through, the cached   *)
(* phase may ask for the wake.                                             *)
Poll(m) ==
    /\ msg[m].pc = "waiting"
    /\ LET ready == msg[m].ready \/ \E p \in PodIds : track[p] = "serving"
           connects == (ready \/ \A p \in PodIds : track[p] = "none") /\ \E p \in PodIds : Serving(p)
           missed == ~msg[m].asked /\ needsWake(view)
       IN  IF connects THEN EndWait(m, "sending")
           ELSE /\ missed \/ ready # msg[m].ready
                /\ Put(m, [msg[m] EXCEPT !.ready = ready, !.asked = @ \/ missed,
                                         !.pc = IF missed THEN "waking" ELSE @])
                /\ UNCHANGED slots
    /\ UNCHANGED <<vars, view, track, others>>

OtherWaitEnds ==
    /\ others > 0 /\ others' = others - 1 /\ slots' = slots - 1
    /\ UNCHANGED <<vars, view, track, msg>>

(* The wait's deadline, or the caller's. *)
WaitTimesOut(m) ==
    /\ Waits(m) /\ Disturb("timeout")
    /\ EndWait(m, "failed")
    /\ UNCHANGED <<agent, cagent, fresh, pods, cpods, pass, env, store, fetched, now, pvc, events, seen, view, track, others>>

(* After a failed attempt: the next one, or the end. *)
Retry(m, r) ==
    Put(m, [r EXCEPT !.pod = NoPod, !.pc = IF r.tries = Attempts THEN "failed" ELSE "sending"])

(* deliverToAgent: the attempt reaches a Pod, or fails to connect, which   *)
(* is worth the one Pod wait when an attempt is left.                      *)
Send(m) ==
    /\ msg[m].pc = "sending"
    /\ LET r == [msg[m] EXCEPT !.tries = @ + 1]
       IN  IF \E p \in PodIds : Serving(p)
           THEN /\ \E p \in PodIds : /\ Serving(p)
                                     /\ Put(m, [r EXCEPT !.pc = "handling", !.pod = p, !.handled = @ + 1])
                /\ UNCHANGED slots
           ELSE IF r.wait /\ r.tries < Attempts THEN awaitPod(m, r, FALSE)
           ELSE Retry(m, r) /\ UNCHANGED slots
    /\ UNCHANGED <<vars, view, track, others>>

(* The agent answers, which is recorded as traffic. *)
Reply(m) ==
    /\ msg[m].pc = "handling" /\ msg[m].pod \notin pods.gone
    /\ Put(m, [msg[m] EXCEPT !.pc = "delivered", !.pod = NoPod])
    /\ store' = [store EXCEPT !.rec[Gateway] = now]
    /\ seen' = [seen EXCEPT !.traffic = now]
    /\ UNCHANGED <<agent, cagent, fresh, pods, cpods, pass, env, fetched, now, pvc, events, nEvents, view, track, others, slots>>

(* No usable answer: the Pod went, or the agent answered an error.  The    *)
(* request may have been handled, so there is no Pod wait.                 *)
ReplyLost(m) ==
    /\ msg[m].pc = "handling"
    /\ \/ msg[m].pod \in pods.deleting /\ UNCHANGED nEvents
       \/ Disturb("badReply")
    /\ Retry(m, msg[m])
    /\ UNCHANGED <<agent, cagent, fresh, pods, cpods, pass, env, store, fetched, now, pvc, events, seen, view, track, others, slots>>

CacheView ==
    /\ view # agent.phase /\ view' = agent.phase
    /\ UNCHANGED <<vars, track, msg, others, slots>>

(* PodReadyTracker.observe and forget: a serving Pod wakes the waits. *)
Observe(p) ==
    LET now_p == IF ~Exists(pods, p) THEN "none" ELSE IF Serving(p) THEN "serving" ELSE "seen"
    IN  /\ track[p] # now_p
        /\ track' = [track EXCEPT ![p] = now_p]
        /\ msg' = IF now_p # "serving" THEN msg
                  ELSE [m \in Messages |-> IF msg[m].pc = "waiting" THEN [msg[m] EXCEPT !.ready = TRUE]
                                           ELSE msg[m]]
        /\ UNCHANGED <<vars, view, others, slots>>

-----------------------------------------------------------------------------
MessageStep(m) ==
    \/ Receive(m) \/ RequestsWake(m) \/ ActivatorFails(m) \/ Poll(m) \/ WaitTimesOut(m)
    \/ Send(m) \/ Reply(m) \/ ReplyLost(m)

DTick ==
    /\ Tick
    /\ \A m \in Messages : /\ msg[m].pc \notin {"waking", "sending", "handling"}
                           /\ msg[m].pc = "waiting" => \A p \in PodIds : ~Serving(p)

DNext ==
    \/ (Reconcile \/ Surroundings \/ DTick) /\ UNCHANGED gateway
    \/ CacheView \/ (\E p \in PodIds : Observe(p)) \/ OtherWaitEnds
    \/ \E m \in Messages : MessageStep(m)

(* What goes on by itself: the workqueue runs a pass for every change it   *)
(* has heard of, watches deliver, kubelets start and stop Pods, and the    *)
(* goroutine of a message runs.                                            *)
Progress ==
    \/ /\ \/ Reconcile \/ CacheAgent \/ FetchActivity
          \/ \E p \in PodIds : PodReady(p) \/ PodGoes(p)
       /\ UNCHANGED gateway
    \/ CacheView \/ \E p \in PodIds : Observe(p)
    \/ \E m \in Messages : RequestsWake(m) \/ Poll(m) \/ Send(m) \/ Reply(m) \/ ReplyLost(m)

(* Weak fairness of all of it together: some step is taken while one can be. *)
DSpec == DInit /\ [][DNext]_dvars /\ WF_dvars(Progress)

-----------------------------------------------------------------------------
(* Type correctness of the gateway; an attempt beyond the last is not made. *)
DTypeOK ==
    /\ view \in Phases
    /\ track \in [PodIds -> {"none", "seen", "serving"}]
    /\ \A m \in Messages : msg[m].tries \in 0..Attempts /\ msg[m].pod \in PodIds \cup {NoPod}

(* acquirePodWait and its release: the slots held are those of the         *)
(* messages that wait, never more than the cap, on every path out of a     *)
(* wait.                                                                   *)
SlotsCounted ==
    /\ DTypeOK
    /\ slots = Cardinality({m \in Messages : Waits(m)}) + others
    /\ slots <= MaxPodWaits

Undisturbed == events \cap {"activator", "badReply", "timeout"} = {}

(* wakeAndDeliver with everything it leans on - the wake kept by a         *)
(* Hibernating Agent, the phase re-read during the wait, the floor at      *)
(* Ready: a message that the cap does not refuse, in a behaviour with no   *)
(* wait timed out and no activator or agent failing, is delivered in      *)
(* the end, whatever the lag of the caches, the phase it came in, and a    *)
(* restart of the controller, unless its one Pod wait ended on a Pod that  *)
(* was about to be deleted for hibernation.                                *)
MessageArrives ==
    \A m \in Messages :
        (msg[m].pc # "out" /\ Undisturbed) ~> (msg[m].pc \in {"delivered", "refused"} \/ msg[m].misled)

(* What the sender of each message knows of it, and how often a Pod was    *)
(* handed it.                                                              *)
Outcomes ==
    [m \in Messages |-> CASE msg[m].pc \in {"out", "delivered"} -> msg[m].pc
                         [] Failed(m) -> "failed"
                         [] OTHER -> "taken"]
HandedOver == [m \in Messages |-> msg[m].handled]

(* The gateway keeps the promise of MessageService. *)
Promise == INSTANCE MessageService WITH outcome <- Outcomes, handled <- HandedOver
PromiseKept == Promise!Spec
=============================================================================
