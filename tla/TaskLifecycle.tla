---------------------------- MODULE TaskLifecycle ----------------------------
(***************************************************************************)
(* One AgentTask, from its creation to the removal of its finalizer: the   *)
(* AgentTask reconciler, the Pods it creates, and the gateway's            *)
(* POST /v1/task/complete, which writes the completion mailbox.            *)
(*                                                                         *)
(* The reconciler reads the task, the Pods and the mailbox from informer   *)
(* caches and writes to the API server; a status write or an Update is     *)
(* refused when its copy is not the stored version.  A pass is split where *)
(* it writes: what it reads before a write is read in the same step, as a  *)
(* cache may lag by any amount.  A cache that catches up takes the newest  *)
(* version.  Conditions, events and class snapshots are left out.          *)
(***************************************************************************)
EXTENDS Integers, FiniteSets

CONSTANTS
    Cases,        \* the tasks to consider: spec.completion and what may lag
    MaxPods,      \* bound: Pods created
    MaxFaults     \* bound: restarts, evictions, failed patches and deletes together

ASSUME CasesAssumption ==
    Cases \subseteq [spec : [agentReported : BOOLEAN, onTimeoutSucceed : BOOLEAN, backoffLimit : Nat],
                     late : SUBSET {"pods", "mailbox", "gateway", "patch"}]
ASSUME BoundsAssumption == MaxPods \in Nat /\ MaxFaults \in Nat

VARIABLES
    task,      \* the stored AgentTask
    pods,      \* its Pods, by number: last state, being deleted, gone
    mailbox,   \* the completion ConfigMap: version and the payload it holds
    ctask,     \* the reconciler's cached task
    cpods,     \* its cached Pods
    cbox,      \* its cached mailbox
    gtask,     \* what the gateway reads of its cached task: is it over, the Pod's UID
    late,      \* which of the Pod, mailbox and gateway caches, and the patch, may lag
    pass,      \* the pass in progress: what it does next, its task and Pod
    post,      \* the completion call of each Pod
    expired,   \* attempts whose timeout has elapsed since startTime
    attempt,   \* history: the attempt each Pod was created, then recorded, under
    nFaults    \* faults so far

caches == <<ctask, cpods, cbox, gtask, late>>
vars == <<task, pods, mailbox, caches, pass, post, expired, attempt, nFaults>>

PodIds == 1..MaxPods
NoPod == 0
NewTask(s) ==
    [spec |-> s, version |-> 1, phase |-> "Pending", retries |-> 0, uid |-> NoPod,
     name |-> NoPod,
     started |-> FALSE, reported |-> NoPod, completed |-> FALSE, rejected |-> FALSE,
     finalizer |-> FALSE, deleting |-> FALSE, gone |-> FALSE]
EmptyBox == [version |-> 1, from |-> NoPod, status |-> "none"]
NoPass == [pc |-> "idle", task |-> NewTask(task.spec), pod |-> NoPod, state |-> "none"]
NoCall == [state |-> "none", status |-> "none"]

AgentReported == task.spec.agentReported
OnTimeoutSucceed == task.spec.onTimeoutSucceed
BackoffLimit == task.spec.backoffLimit

Terminal == {"Succeeded", "Failed", "TimedOut"}
GatewayView == [over |-> task.gone \/ task.phase \in Terminal, uid |-> task.uid]

Exists(ps, p) == ps.state[p] # "none" /\ p \notin ps.gone
Ended(s) == s \in {"succeeded", "failed"}

-----------------------------------------------------------------------------
(* What a pass reads *)

PodsRead == IF "pods" \in late THEN cpods ELSE pods
BoxRead == IF "mailbox" \in late THEN cbox ELSE mailbox

(* Fault: a terminating Pod is not seen. *)
OwnedStayingOnly(ps) ==
    LET staying == {p \in PodIds : Exists(ps, p)} \ ps.deleting
    IN  IF staying # {} THEN staying ELSE {NoPod}

(* ownedTaskPod: a Pod that is not being deleted, else one that is.  Which *)
(* of several is up to the order of the list.                              *)
OwnedTaskPod(ps) ==
    LET all == {p \in PodIds : Exists(ps, p)}
        staying == all \ ps.deleting
    IN  IF staying # {} THEN staying ELSE IF all # {} THEN all ELSE {NoPod}

StateOf(ps, p) == IF p = NoPod THEN "none" ELSE ps.state[p]

(* timedOut *)
TimedOut(t) == t.started /\ t.retries \in expired

-----------------------------------------------------------------------------
(* What a pass writes *)

(* Fault: a status write with no version. *)
AcceptedUnversioned(t) == ~task.gone

(* Status().Update and Update: refused unless the copy is the stored version. *)
Accepted(t) == ~task.gone /\ t.version = task.version

(* The stored task after a write of t, which is also the pass's copy then. *)
Stored(t) == [t EXCEPT !.version = task.version + 1]
Continue(pc, t, p, s) == pass' = [pc |-> pc, task |-> t, pod |-> p, state |-> s]

(* settle: a terminal phase with its completion time. *)
Settled(t, phase) == [t EXCEPT !.phase = phase, !.completed = TRUE, !.rejected = FALSE]

Settle(t, phase) ==
    /\ Accepted(t)
    /\ task' = Stored(Settled(t, phase))
    /\ pass' = NoPass

(* retry, its counting write: from here on the old Pod's calls are refused. *)
Counted(t) ==
    [t EXCEPT !.retries = @ + 1, !.uid = NoPod, !.started = FALSE, !.reported = NoPod,
              !.rejected = FALSE, !.phase = "Failed"]

FailOrRetry(t) ==
    IF t.retries < BackoffLimit
    THEN /\ Accepted(t)
         /\ task' = Stored(Counted(t))
         /\ Continue("counted", task', NoPod, "none")
    ELSE Settle(t, "Failed")

SettleTimeout(t) == Settle(t, IF OnTimeoutSucceed THEN "Succeeded" ELSE "TimedOut")

(* The write of Completing, after which the evidence is read again. *)
EnterCompleting(t, p, s) ==
    /\ Accepted(t)
    /\ task' = Stored([t EXCEPT !.phase = "Completing"])
    /\ Continue("completing", task', p, s)

-----------------------------------------------------------------------------
Init ==
    /\ \E c \in Cases : task = NewTask(c.spec) /\ late = c.late
    /\ pods = [state |-> [p \in PodIds |-> "none"], deleting |-> {}, gone |-> {}]
    /\ mailbox = EmptyBox
    /\ ctask = task /\ cpods = pods /\ cbox = mailbox /\ gtask = GatewayView
    /\ pass = NoPass
    /\ post = [p \in PodIds |-> NoCall]
    /\ expired = {}
    /\ attempt = [p \in PodIds |-> 0]
    /\ nFaults = 0

world == <<pods, mailbox, caches, post, expired, attempt, nFaults>>

(* A pass starts on a task that is cached and not being deleted. *)
Starts == pass.pc = "idle" /\ ~ctask.gone /\ ~ctask.deleting

AddFinalizer ==
    /\ Starts /\ ~ctask.finalizer /\ Accepted(ctask)
    /\ task' = Stored([ctask EXCEPT !.finalizer = TRUE])
    /\ UNCHANGED <<pass, world>>

(* Fault: every Failed task is taken for settled. *)
ResumeRetryForgotten == Starts /\ ctask.finalizer /\ ctask.phase = "Failed" /\ FALSE

(* A Failed task with no completion time is a counted retry to finish. *)
ResumeRetry ==
    /\ Starts /\ ctask.finalizer /\ ctask.phase = "Failed" /\ ~ctask.completed
    /\ Continue("counted", ctask, NoPod, "none")
    /\ UNCHANGED <<task, world>>

(* handleTTL: Terminating is written, then the task is deleted. *)
ExpireTTL ==
    /\ Starts /\ ctask.finalizer /\ ctask.completed /\ Accepted(ctask)
    /\ task' = Stored([ctask EXCEPT !.phase = "Terminating"])
    /\ Continue("terminating", task', NoPod, "none")
    /\ UNCHANGED world

(* Past the checks that hold a task or end it. *)
Drives(phases) == Starts /\ ctask.finalizer /\ ~ctask.completed /\ ctask.phase \in phases
PrePod == Drives({"Pending", "Provisioning"}) /\ NoPod \in OwnedTaskPod(PodsRead)

(* taskViolation: terminal whatever backoff is left. *)
Violates == PrePod /\ Settle(ctask, "Failed") /\ UNCHANGED world

AwaitCertificate ==
    /\ PrePod /\ ctask.phase = "Pending" /\ Accepted(ctask)
    /\ task' = Stored([ctask EXCEPT !.phase = "Provisioning"])
    /\ UNCHANGED <<pass, world>>

(* The Pod is created under a generated name; the status write follows. *)
CreatePod ==
    /\ PrePod
    /\ \E p \in PodIds :
        /\ pods.state[p] = "none" /\ \A q \in PodIds : q < p => pods.state[q] # "none"
        /\ pods' = [pods EXCEPT !.state[p] = "pending"]
        /\ attempt' = [attempt EXCEPT ![p] = task.retries]
        /\ Continue("created", ctask, p, "pending")
    /\ UNCHANGED <<task, mailbox, caches, post, expired, nFaults>>

(* The API server rejects the Pod or a child: the deadline runs from the   *)
(* first rejection.                                                        *)
CreateRejected ==
    /\ PrePod
    /\ \/ /\ ~ctask.rejected /\ Accepted(ctask)
          /\ task' = Stored([ctask EXCEPT !.phase = "Provisioning", !.rejected = TRUE, !.name = NoPod])
          /\ UNCHANGED pass
       \/ ctask.rejected /\ FailOrRetry([ctask EXCEPT !.name = NoPod])
    /\ UNCHANGED world

(* status.podName, and for an agentReported task the currentPodUID. *)
Identified(t, p) ==
    [t EXCEPT !.name = p, !.uid = IF AgentReported THEN p ELSE @, !.rejected = FALSE]

RecordPod ==
    /\ pass.pc = "created" /\ Accepted(pass.task)
    /\ task' = Stored([Identified(pass.task, pass.pod) EXCEPT !.phase = "Provisioning"])
    /\ attempt' = [attempt EXCEPT ![pass.pod] = task'.retries]
    /\ pass' = NoPass
    /\ UNCHANGED <<pods, mailbox, caches, post, expired, nFaults>>

(* driveProvisioning with a Pod that is not being deleted: the repair of a  *)
(* lost identity, then Running, Completing or a failed start.               *)
ProvisionOn(t, p, s) ==
    \/ /\ s = "ready" /\ Accepted(t)
       /\ task' = Stored([t EXCEPT !.phase = "Running", !.started = TRUE])
       /\ pass' = NoPass
    \/ s = "succeeded" /\ ~AgentReported /\ EnterCompleting(t, p, s)
    \/ s = "succeeded" /\ AgentReported /\ FailOrRetry(t)
    \/ s = "failed" /\ FailOrRetry(t)
    \/ s = "pending" /\ FailOrRetry(t)   \* a fatal waiting reason, or the deadline

DriveProvisioning ==
    /\ Drives({"Pending", "Provisioning"})
    /\ \E p \in OwnedTaskPod(PodsRead) \ {NoPod} :
        /\ p \notin PodsRead.deleting
        /\ IF Identified(ctask, p) = [ctask EXCEPT !.rejected = FALSE]
           THEN ProvisionOn(ctask, p, PodsRead.state[p]) /\ UNCHANGED attempt
           ELSE /\ Accepted(ctask)
                /\ task' = Stored(Identified(ctask, p))
                /\ attempt' = [attempt EXCEPT ![p] = task'.retries]
                /\ Continue("identified", task', p, PodsRead.state[p])
    /\ UNCHANGED <<pods, mailbox, caches, post, expired, nFaults>>

FinishProvisioning ==
    /\ pass.pc = "identified"
    /\ ProvisionOn(pass.task, pass.pod, pass.state)
    /\ UNCHANGED world

(* Fault: the loss of the Pod is looked at first. *)
RunningStepLossFirst(t, p, s) ==
    IF p = NoPod \/ (AgentReported /\ s = "failed") THEN FailOrRetry(t)
    ELSE /\ TimedOut(t) \/ (IF AgentReported THEN BoxRead.status # "none" ELSE Ended(s))
         /\ EnterCompleting(t, p, s)

(* driveRunning: completion, timeout, loss of the Pod, in this order. *)
RunningStep(t, p, s) ==
    LET complete == IF AgentReported THEN BoxRead.status # "none" ELSE Ended(s)
        lost == p = NoPod \/ (AgentReported /\ s = "failed")
    IN  IF complete \/ TimedOut(t) THEN EnterCompleting(t, p, s) ELSE lost /\ FailOrRetry(t)

DriveRunning ==
    /\ Drives({"Running"})
    /\ \E p \in OwnedTaskPod(PodsRead) : RunningStep(ctask, p, StateOf(PodsRead, p))
    /\ UNCHANGED world

(* Fault: any report, and any exit of the container, is a success. *)
CompletingStepAnyEvidence(t, s) ==
    IF AgentReported /\ BoxRead.status # "none"
    THEN Settle([t EXCEPT !.reported = BoxRead.from], "Succeeded")
    ELSE IF ~AgentReported /\ Ended(s) THEN Settle(t, "Succeeded")
    ELSE IF TimedOut(t) THEN SettleTimeout(t) ELSE FailOrRetry(t)

(* driveCompleting: the outcome is derived again from the mailbox, the Pod *)
(* and the clock.                                                          *)
CompletingStep(t, s) ==
    LET reported == [t EXCEPT !.reported = BoxRead.from]
        noEvidence == IF TimedOut(t) THEN SettleTimeout(t) ELSE FailOrRetry(t)
    IN  IF AgentReported
        THEN CASE BoxRead.status = "success" -> Settle(reported, "Succeeded")
               [] BoxRead.status = "failure" -> FailOrRetry(reported)
               [] BoxRead.status = "none" -> noEvidence
        ELSE CASE s = "succeeded" -> Settle(t, "Succeeded")
               [] s = "failed" -> FailOrRetry(t)
               [] ~Ended(s) -> noEvidence

DriveCompleting ==
    /\ \/ /\ Drives({"Completing"})
          /\ \E p \in OwnedTaskPod(PodsRead) : CompletingStep(ctask, StateOf(PodsRead, p))
       \/ pass.pc = "completing" /\ CompletingStep(pass.task, pass.state)
    /\ UNCHANGED world

(* finishRetry, step 3: the old Pod is deleted. *)
DeleteOldPod ==
    /\ pass.pc = "counted"
    /\ \E p \in OwnedTaskPod(PodsRead) :
         pods' = [pods EXCEPT !.deleting = @ \cup ({p} \ {NoPod})]
    /\ pass' = [pass EXCEPT !.pc = "deleted"]
    /\ UNCHANGED <<task, mailbox, caches, post, expired, attempt, nFaults>>

(* Fault: the reset is left out. *)
ResetMailboxSkipped ==
    /\ pass.pc = "deleted"
    /\ pass' = [pass EXCEPT !.pc = "reset"]
    /\ UNCHANGED <<task, pods, mailbox, caches, post, expired, attempt, nFaults>>

(* Step 4: a mailbox with data is emptied; a conflict ends the pass. *)
ResetMailbox ==
    /\ pass.pc = "deleted"
    /\ IF AgentReported /\ BoxRead.status # "none"
       THEN /\ BoxRead.version = mailbox.version
            /\ mailbox' = [EmptyBox EXCEPT !.version = mailbox.version + 1]
       ELSE UNCHANGED mailbox
    /\ pass' = [pass EXCEPT !.pc = "reset"]
    /\ UNCHANGED <<task, pods, caches, post, expired, attempt, nFaults>>

(* Step 6: back to Provisioning. *)
Reprovision ==
    /\ pass.pc = "reset" /\ Accepted(pass.task)
    /\ task' = Stored([pass.task EXCEPT !.phase = "Provisioning"])
    /\ pass' = NoPass
    /\ UNCHANGED world

(* A delete call, of the user or of handleTTL. *)
Deleted(t) ==
    IF t.finalizer THEN [t EXCEPT !.deleting = TRUE, !.version = @ + 1] ELSE [t EXCEPT !.gone = TRUE]

DeleteExpired ==
    /\ pass.pc = "terminating"
    /\ task' = IF task.gone \/ task.deleting THEN task ELSE Deleted(task)
    /\ pass' = NoPass
    /\ UNCHANGED world

(* reconcileDelete: the Pods go first, then the finalizer. *)
ReconcileDelete ==
    /\ pass.pc = "idle" /\ ~ctask.gone /\ ctask.deleting /\ ctask.finalizer
    /\ \E p \in OwnedTaskPod(PodsRead) :
        IF p # NoPod
        THEN /\ p \notin PodsRead.deleting
             /\ pods' = [pods EXCEPT !.deleting = @ \cup {p}]
             /\ UNCHANGED task
        ELSE /\ Accepted(ctask)
             /\ task' = [Stored(ctask) EXCEPT !.finalizer = FALSE, !.gone = TRUE]
             /\ UNCHANGED pods
    /\ UNCHANGED <<pass, mailbox, caches, post, expired, attempt, nFaults>>

(* A write the API server refuses ends the pass; the next one reads again. *)
Conflict ==
    /\ pass.pc # "idle"
    /\ \/ pass.pc \notin {"counted", "deleted", "terminating"} /\ ~Accepted(pass.task)
       \/ pass.pc = "deleted" /\ BoxRead.version # mailbox.version
    /\ pass' = NoPass
    /\ UNCHANGED <<task, world>>

(* The controller restarts between two writes of a pass. *)
Crash ==
    /\ pass.pc # "idle" /\ nFaults < MaxFaults
    /\ pass' = NoPass
    /\ nFaults' = nFaults + 1
    /\ UNCHANGED <<task, pods, mailbox, caches, post, expired, attempt>>

-----------------------------------------------------------------------------
(* The gateway: handleTaskComplete and PatchMailbox *)

GatewayTask == IF "gateway" \in late THEN gtask ELSE GatewayView

(* A Pod whose container runs calls once; a retryable answer leaves it free *)
(* to call again, the 403 of a finished task does not.                      *)
CheckCompletion(p) ==
    /\ AgentReported /\ Exists(pods, p) /\ ~Ended(pods.state[p]) /\ post[p].state = "none"
    /\ \E status \in {"success", "failure"} :
        \/ /\ GatewayTask.over
           /\ post' = [post EXCEPT ![p].state = "denied"]
        \/ /\ ~GatewayTask.over /\ GatewayTask.uid = p
           /\ post' = [post EXCEPT ![p] = [state |-> "checked", status |-> status]]
    /\ UNCHANGED <<task, pods, mailbox, caches, pass, expired, attempt, nFaults>>

(* A merge patch of the ConfigMap with no precondition, whatever happened   *)
(* since the checks.                                                        *)
PatchMailbox(p) ==
    /\ post[p].state = "checked"
    /\ mailbox' = [version |-> mailbox.version + 1, from |-> p, status |-> post[p].status]
    /\ post' = [post EXCEPT ![p].state = "done"]
    /\ UNCHANGED <<task, pods, caches, pass, expired, attempt, nFaults>>

(* The patch fails: 503, retryable. *)
PatchFails(p) ==
    /\ post[p].state = "checked" /\ nFaults < MaxFaults
    /\ post' = [post EXCEPT ![p] = NoCall]
    /\ nFaults' = nFaults + 1
    /\ UNCHANGED <<task, pods, mailbox, caches, pass, expired, attempt>>

-----------------------------------------------------------------------------
(* Pods, clock, caches and users *)

PodBecomesReady(p) ==
    /\ Exists(pods, p) /\ pods.state[p] = "pending" /\ p \notin pods.deleting
    /\ pods' = [pods EXCEPT !.state[p] = "ready"]
    /\ UNCHANGED <<task, mailbox, caches, pass, post, expired, attempt, nFaults>>

(* restartPolicy Never: one exit is final. *)
PodExits(p) ==
    /\ Exists(pods, p) /\ ~Ended(pods.state[p])
    /\ \E s \in {"succeeded", "failed"} : pods' = [pods EXCEPT !.state[p] = s]
    /\ UNCHANGED <<task, mailbox, caches, pass, post, expired, attempt, nFaults>>

Evict(p) ==
    /\ Exists(pods, p) /\ p \notin pods.deleting /\ nFaults < MaxFaults
    /\ pods' = [pods EXCEPT !.deleting = @ \cup {p}]
    /\ nFaults' = nFaults + 1
    /\ UNCHANGED <<task, mailbox, caches, pass, post, expired, attempt>>

PodGoes(p) ==
    /\ Exists(pods, p) /\ p \in pods.deleting
    /\ pods' = [pods EXCEPT !.gone = @ \cup {p}]
    /\ UNCHANGED <<task, mailbox, caches, pass, post, expired, attempt, nFaults>>

(* The effective timeout of the attempt elapses; a task without one is the *)
(* behaviour in which it never does.                                       *)
TimeoutElapses ==
    /\ task.started /\ ~task.gone /\ task.retries \notin expired
    /\ expired' = expired \cup {task.retries}
    /\ UNCHANGED <<task, pods, mailbox, caches, pass, post, attempt, nFaults>>

UserDeletes ==
    /\ ~task.gone /\ ~task.deleting /\ nFaults < MaxFaults
    /\ task' = Deleted(task)
    /\ nFaults' = nFaults + 1
    /\ UNCHANGED <<pass, pods, mailbox, caches, post, expired, attempt>>

TaskCacheCatchesUp ==
    /\ ctask # task /\ ctask' = task
    /\ UNCHANGED <<task, pods, mailbox, cpods, cbox, gtask, late,
                   pass, post, expired, attempt, nFaults>>

PodCacheCatchesUp ==
    /\ "pods" \in late /\ cpods # pods /\ cpods' = pods
    /\ UNCHANGED <<task, pods, mailbox, ctask, cbox, gtask, late,
                   pass, post, expired, attempt, nFaults>>

MailboxCacheCatchesUp ==
    /\ "mailbox" \in late /\ cbox # mailbox /\ cbox' = mailbox
    /\ UNCHANGED <<task, pods, mailbox, ctask, cpods, gtask, late,
                   pass, post, expired, attempt, nFaults>>

GatewayCacheCatchesUp ==
    /\ "gateway" \in late /\ gtask # GatewayView /\ gtask' = GatewayView
    /\ UNCHANGED <<task, pods, mailbox, ctask, cpods, cbox, late,
                   pass, post, expired, attempt, nFaults>>

-----------------------------------------------------------------------------
Controller ==
    \/ AddFinalizer \/ ResumeRetry \/ Violates \/ AwaitCertificate
    \/ CreatePod \/ CreateRejected \/ RecordPod \/ DriveProvisioning \/ FinishProvisioning
    \/ DriveRunning \/ DriveCompleting \/ DeleteOldPod \/ ResetMailbox \/ Reprovision
    \/ DeleteExpired \/ ReconcileDelete \/ Conflict

CatchUp == TaskCacheCatchesUp \/ PodCacheCatchesUp \/ MailboxCacheCatchesUp \/ GatewayCacheCatchesUp

(* Nothing comes between a call's checks and its patch, unless it may.     *)
NoCallOpen == "patch" \in late \/ \A p \in PodIds : post[p].state # "checked"

Next ==
    \/ \E p \in PodIds : PatchMailbox(p) \/ PatchFails(p)
    \/ /\ NoCallOpen
       /\ \/ Controller \/ ExpireTTL \/ Crash \/ CatchUp \/ TimeoutElapses \/ UserDeletes
          \/ \E p \in PodIds :
                CheckCompletion(p) \/ PodBecomesReady(p) \/ PodExits(p) \/ Evict(p) \/ PodGoes(p)

Spec == Init /\ [][Next]_vars

(* Passes go on while there is work, caches follow, a Pod being deleted     *)
(* goes, and the attempt's timeout elapses.  Nothing makes a Pod become     *)
(* ready, exit or report, and nothing makes a TTL elapse.                   *)
Fairness ==
    /\ WF_vars(NoCallOpen /\ Controller)
    /\ WF_vars(NoCallOpen /\ CatchUp)
    /\ WF_vars(NoCallOpen /\ TimeoutElapses)
    /\ WF_vars(NoCallOpen /\ \E p \in PodIds : PodGoes(p))
    /\ WF_vars(\E p \in PodIds : PatchMailbox(p) \/ PatchFails(p))

FairSpec == Spec /\ Fairness

-----------------------------------------------------------------------------
(* Properties *)

Phases == {"Pending", "Provisioning", "Running", "Completing", "Succeeded", "Failed",
           "TimedOut", "Terminating"}
TaskType ==
    [spec : {c.spec : c \in Cases}, version : Nat, phase : Phases, retries : 0..BackoffLimit, uid : {NoPod} \cup PodIds,
     name : {NoPod} \cup PodIds, started : BOOLEAN, reported : {NoPod} \cup PodIds,
     completed : BOOLEAN, rejected : BOOLEAN, finalizer : BOOLEAN, deleting : BOOLEAN,
     gone : BOOLEAN]
PodsType ==
    [state : [PodIds -> {"none", "pending", "ready", "succeeded", "failed"}],
     deleting : SUBSET PodIds, gone : SUBSET PodIds]
BoxType == [version : Nat, from : {NoPod} \cup PodIds, status : {"none", "success", "failure"}]
Steps == {"idle", "created", "identified", "completing", "counted", "deleted", "reset", "terminating"}

(* The variables have their types; in particular the retry count never     *)
(* exceeds spec.completion.backoffLimit (failOrRetry).                     *)
TypeOK ==
    /\ task \in TaskType /\ ctask \in TaskType
    /\ gtask \in [over : BOOLEAN, uid : {NoPod} \cup PodIds]
    /\ pods \in PodsType /\ cpods \in PodsType
    /\ mailbox \in BoxType /\ cbox \in BoxType
    /\ \E c \in Cases : c = [spec |-> task.spec, late |-> late]
    /\ pass \in [pc : Steps, task : TaskType, pod : {NoPod} \cup PodIds,
                 state : {"none", "pending", "ready", "succeeded", "failed"}]
    /\ post \in [PodIds -> [state : {"none", "checked", "done", "denied"},
                            status : {"none", "success", "failure"}]]
    /\ expired \subseteq 0..BackoffLimit
    /\ attempt \in [PodIds -> 0..BackoffLimit]
    /\ nFaults \in 0..MaxFaults

(* A replacement Pod is created only once no task Pod remains: while the    *)
(* Pod cache is current, two task Pods never exist together                 *)
(* (driveProvisioning's hold on a terminating Pod, across retries,          *)
(* evictions, restarts and lost status writes).                             *)
OnePod == \A p, q \in PodIds : Exists(pods, p) /\ Exists(pods, q) => p = q

(* The result a task carries was reported by a Pod of its own attempt: a    *)
(* retry's clearing of the UID and reset of the mailbox keep an earlier     *)
(* attempt's payload out (retry, finishRetry, driveCompleting).             *)
ResultOfItsAttempt == task.reported # NoPod => attempt[task.reported] = task.retries

(* A task that Succeeded has the evidence: an accepted success, or exit 0,  *)
(* of a Pod of the current attempt, or a timeout that onTimeout turns into  *)
(* success (driveCompleting derives the outcome again after every restart). *)
SuccessIsEarned ==
    task.phase = "Succeeded" =>
        \/ OnTimeoutSucceed /\ task.retries \in expired
        \/ \E p \in PodIds :
              /\ pods.state[p] # "none" /\ attempt[p] = task.retries
              /\ IF AgentReported THEN post[p] = [state |-> "done", status |-> "success"]
                 ELSE pods.state[p] = "succeeded"

(* Completion beats disruption: a Running or Completing task is never       *)
(* retried or failed while the mailbox holds an accepted success of its     *)
(* attempt (driveRunning reads the mailbox before it looks at the Pod).     *)
AcceptedSuccessStands ==
    [][/\ task.phase \in {"Running", "Completing"}
       /\ task'.phase \in {"Failed", "TimedOut"}
       => ~(mailbox.status = "success" /\ attempt[mailbox.from] = task.retries)]_vars

(* The gateway never turns the task's current Pod away for good before the  *)
(* task has settled (handleTaskComplete's 403 TaskAlreadyCompleted).        *)
CurrentPodMayReport ==
    task.uid # NoPod /\ post[task.uid].state = "denied" => task.completed \/ task.gone

(* A settled task stays settled, with its phase, until Terminating: no pass *)
(* that began on an older copy writes over it (Status().Update).            *)
SettledStays ==
    [][task.completed => /\ task'.completed
                         /\ task'.phase \in {task.phase, "Terminating"}
                         /\ task'.retries = task.retries]_vars

(* The finalizer goes only after the last Pod (reconcileDelete), also when  *)
(* the delete comes between a Pod's creation and its status write.          *)
NoPodOutlivesTask == task.gone => \A p \in PodIds : ~Exists(pods, p)

(* One Pod at a time, none after the task, and no more attempts than        *)
(* backoffLimit allows (driveProvisioning, reconcileDelete, failOrRetry).   *)
PodsRight == TypeOK /\ OnePod /\ NoPodOutlivesTask

(* What the completion endpoint takes and turns away is what the attempt    *)
(* calls for (handleTaskComplete, finishRetry).                             *)
ReportsRight == ResultOfItsAttempt /\ CurrentPodMayReport

(* An AgentTask always settles in a terminal phase, unless it is deleted,   *)
(* and a deleted task goes away (failOrRetry, reconcileDelete).             *)
Settles == <>(task.completed \/ task.gone) /\ (task.deleting ~> task.gone)
=============================================================================
