--------------------------- MODULE ChannelRecords ---------------------------
(***************************************************************************)
(* The asynchronous half of a webhook channel.  A gateway replica answers  *)
(* 202 after it created a polling record, runs the delivery in the         *)
(* background, posts the answer to the channel's callback or patches it    *)
(* into the record, and serves polls.  The AgentChannel reconciler prunes  *)
(* expired records, and on deletion announces Terminating, waits for a     *)
(* replica to confirm, sweeps the records once and releases the finalizer. *)
(* A pruner reaps the records whose channel is gone.                       *)
(*                                                                         *)
(* Every process reads the channel from a watch cache of any age: copy is  *)
(* the controller's, and current says that it is the object's version, so  *)
(* that a write from it is not refused; view[g] is what gateway g reads of *)
(* the object.  A channel may be created again under the same name: uid    *)
(* tells the two objects apart, the records' labels do not.                *)
(*                                                                         *)
(* Ages are counted in ticks and stop at the first value past their limit, *)
(* so time itself is not bounded.                                          *)
(***************************************************************************)
EXTENDS Naturals, FiniteSets

CONSTANTS Gateways,   \* gateway replicas
          Requests,   \* webhook POSTs in async mode
          Attempts,   \* 1 + the length of CallbackBackoff
          TTL,        \* asyncTTL, in ticks
          Plans       \* what may happen: bounds on the incarnations of the
                      \* name, gateway crashes and changes of validity; the
                      \* replicas that run, whether a callback is configured
                      \* and whether a pipeline's context may end early

ASSUME RecordBounds ==
    /\ Attempts \in Nat \ {0} /\ TTL \in Nat \ {0}
    /\ Plans \subseteq [uids : Nat, crashes : Nat, toggles : Nat, callback : BOOLEAN,
                        cut : BOOLEAN, gates : SUBSET Gateways]

VARIABLES chan,        \* the AgentChannel object
          copy, current, \* the controller's copy, and whether it is current
          view,        \* what each gateway's copy shows
          known,       \* the controller's cached list of records
          recs,        \* the records: state and age
          req,         \* the requests and their pipelines
          cb,          \* requests whose answer reached the callback receiver
          valid,       \* what the reconciler's validation finds
          gone30,      \* disconnectTimeout has passed since the deletion
          swept,       \* the pass is between its sweep and its release
          calm,        \* ghost: nobody could add a record at the last sweep
          plan         \* what may still happen

obj == <<chan, copy, current>>      \* the channel and the controller's copy
pipes == <<req, cb>>                \* the gateway's requests
pass == <<known, swept, calm>>      \* the controller's record cache and pass
world == <<valid, gone30, plan>>    \* what the environment decides
rvars == <<obj, pipes, pass, world, view, recs>>

Absent(u) == [uid |-> u, here |-> FALSE, deleting |-> FALSE, finalizer |-> FALSE,
              ready |-> FALSE, phase |-> "none", confirmed |-> FALSE]

\* What the gateway reads of the object: ChannelByPath serves a Ready channel
\* only, and the disconnect handler looks at the phase and the annotation.
Shown(c) == [uid |-> c.uid, ready |-> c.ready, terminating |-> c.phase = "Terminating",
             confirmed |-> c.confirmed]

Live == {r \in Requests : recs[r].st \in {"pending", "filled"}}
Expired(r) == recs[r].age >= TTL
InPipeline == {"deliver", "callback", "patch"}

RInit ==
    /\ chan = Absent(0) /\ copy = chan /\ current = TRUE
    /\ view = [g \in Gateways |-> Shown(chan)]
    /\ known = {} /\ recs = [r \in Requests |-> [st |-> "none", age |-> 0, uid |-> 0]]
    /\ req = [r \in Requests |-> [pc |-> "out", g |-> "none", uid |-> 0, n |-> 0, dead |-> FALSE]]
    /\ cb = {}
    /\ valid = TRUE /\ gone30 = FALSE /\ swept = FALSE /\ calm = FALSE /\ plan \in Plans

\* A write by somebody else makes the controller's copy old.
Write(c) == chan' = c /\ current' = FALSE /\ UNCHANGED copy

\* A write by the controller, refused when its copy is old.  (A pass that
\* still reads the object as it was before the write repeats the write and
\* is refused: it changes nothing.)
WriteOwn(c) == current /\ chan' = c /\ copy' = c /\ UNCHANGED current

(***************************************************************************)
(* The user, the API server's garbage collection, the watches and time.    *)
(***************************************************************************)
CreateChannel ==
    /\ ~chan.here /\ plan.uids > 0 /\ plan' = [plan EXCEPT !.uids = @ - 1]
    /\ Write([Absent(chan.uid + 1) EXCEPT !.here = TRUE])
    /\ gone30' = FALSE
    /\ UNCHANGED <<pipes, pass, valid, view, recs>>

\* Without the finalizer the API server removes the object at once.
DeleteChannel ==
    /\ chan.here /\ ~chan.deleting
    /\ Write(IF chan.finalizer THEN [chan EXCEPT !.deleting = TRUE] ELSE Absent(chan.uid))
    /\ gone30' = FALSE
    /\ UNCHANGED <<pipes, pass, valid, plan, view, recs>>

ChangeValidity ==
    /\ plan.toggles > 0 /\ plan' = [plan EXCEPT !.toggles = @ - 1] /\ valid' = ~valid
    /\ UNCHANGED <<obj, pipes, pass, gone30, view, recs>>

SyncCopy ==
    /\ ~current /\ ~swept /\ copy' = chan /\ current' = TRUE
    /\ UNCHANGED <<chan, pipes, pass, world, view, recs>>

SyncView(g) ==
    /\ view[g] # Shown(chan) /\ view' = [view EXCEPT ![g] = Shown(chan)]
    /\ UNCHANGED <<obj, pipes, pass, world, recs>>

SyncRecords ==
    /\ known # Live /\ known' = Live
    /\ UNCHANGED <<obj, pipes, swept, calm, world, view, recs>>

Tick ==
    /\ recs' = [r \in Requests |-> IF r \in Live /\ recs[r].age <= TTL
                                   THEN [recs[r] EXCEPT !.age = @ + 1] ELSE recs[r]]
    /\ gone30' = (gone30 \/ (chan.here /\ chan.deleting))
    /\ <<recs', gone30'>> # <<recs, gone30>>
    /\ UNCHANGED <<obj, pipes, pass, valid, plan, view>>

(***************************************************************************)
(* The gateway.                                                            *)
(***************************************************************************)

\* Fault: the phase is not looked at.
ServesAnyPhase(c) == c.ready

\* ChannelByPath and the Terminating check of handleWebhook.  The count of
\* pending records comes from an informer and may be any number the cache
\* shows, so that the cap may turn the request away or not.
Serves(c) == c.ready /\ ~c.terminating
handleWebhook(r, g) ==
    /\ req[r].pc = "out"
    /\ \/ /\ Serves(view[g])
          /\ req' = [req EXCEPT ![r].pc = "checked", ![r].g = g, ![r].uid = view[g].uid]
       \/ req' = [req EXCEPT ![r].pc = "refused"]
    /\ UNCHANGED <<obj, cb, pass, world, view, recs>>

\* The synchronous Create of the placeholder; then the 202.  Its failure
\* answers 503 and starts nothing.
handleAsyncAccept(r) ==
    /\ req[r].pc = "checked"
    /\ \/ /\ recs' = [recs EXCEPT ![r] = [st |-> "pending", age |-> 0, uid |-> req[r].uid]]
          /\ req' = [req EXCEPT ![r].pc = "deliver"]
       \/ req' = [req EXCEPT ![r].pc = "refused"] /\ UNCHANGED recs
    /\ UNCHANGED <<obj, cb, pass, world, view>>

\* wakeAndDeliver returns, with an answer or an error; either is a payload.
runAsyncPipeline(r) ==
    /\ req[r].pc = "deliver"
    /\ req' = [req EXCEPT ![r].pc = IF plan.callback THEN "callback" ELSE "patch", ![r].n = 1]
    /\ UNCHANGED <<obj, cb, pass, world, view, recs>>

\* One attempt of sendCallback: the receiver may take the payload and its
\* 2xx may be lost; a terminal status, a refused address or a missing Secret
\* ends the schedule, as does the context during a backoff.
sendCallback(r) ==
    LET toPatch == [req EXCEPT ![r].pc = "patch", ![r].n = 1]
        retry == IF req[r].n < Attempts /\ ~req[r].dead
                 THEN [req EXCEPT ![r].n = @ + 1] ELSE toPatch
    IN  /\ req[r].pc = "callback"
        /\ \/ ~req[r].dead /\ cb' = cb \cup {r} /\ req' = [req EXCEPT ![r].pc = "done"]
           \/ ~req[r].dead /\ cb' = cb \cup {r} /\ req' = retry
           \/ UNCHANGED cb /\ req' = retry
           \/ UNCHANGED cb /\ req' = toPatch
        /\ UNCHANGED <<obj, pass, world, view, recs>>

\* A merge patch fills an existing record and never makes one.
Patch(r) == r \in Live /\ recs' = [recs EXCEPT ![r].st = "filled"]

\* One attempt of patchWithRetry; the last failure drops the payload.
patchWithRetry(r) ==
    LET failed == IF req[r].n < Attempts /\ ~req[r].dead
                  THEN [req EXCEPT ![r].n = @ + 1] ELSE [req EXCEPT ![r].pc = "dropped"]
    IN  /\ req[r].pc = "patch"
        /\ \/ ~req[r].dead /\ Patch(r) /\ req' = [req EXCEPT ![r].pc = "done"]
           \/ ~req[r].dead /\ Patch(r) /\ req' = failed
           \/ UNCHANGED recs /\ req' = failed
        /\ UNCHANGED <<obj, cb, pass, world, view>>

\* The pipeline's context ends: its bound, or the shutdown timeout.
ContextEnds(r) ==
    /\ plan.cut /\ req[r].pc \in InPipeline /\ ~req[r].dead
    /\ req' = [req EXCEPT ![r].dead = TRUE]
    /\ UNCHANGED <<obj, cb, pass, world, view, recs>>

\* What a poll of an accepted request is answered on any replica that serves
\* the channel: the record is read live and its age checked again.
handlePoll(r) == IF recs[r].st = "none" THEN "none"
                 ELSE IF r \notin Live \/ recs[r].age > TTL THEN "gone"
                 ELSE IF recs[r].st = "filled" THEN "answer" ELSE "wait"

\* The annotation patch names the object and no version of it, so one sent
\* for an earlier incarnation marks the present one.
channelDisconnectHandler(g) ==
    /\ view[g].terminating /\ ~view[g].confirmed
    /\ chan.here /\ ~chan.confirmed
    /\ Write([chan EXCEPT !.confirmed = TRUE])
    /\ UNCHANGED <<pipes, pass, world, view, recs>>

\* A replica dies with its pipelines and lists the channel when it is back.
CrashGateway(g) ==
    /\ plan.crashes > 0 /\ plan' = [plan EXCEPT !.crashes = @ - 1]
    /\ req' = [r \in Requests |-> IF req[r].g = g /\ req[r].pc \in InPipeline \cup {"checked"}
                                  THEN [req[r] EXCEPT !.pc = "lost"] ELSE req[r]]
    /\ view' = [view EXCEPT ![g] = Shown(chan)]
    /\ UNCHANGED <<obj, cb, pass, valid, gone30, recs>>

(***************************************************************************)
(* The controller: Reconcile, reconcileDelete and the orphan pruner.       *)
(***************************************************************************)
Delete(rs) == recs' = [r \in Requests |-> IF r \in rs /\ r \in Live
                                          THEN [recs[r] EXCEPT !.st = "deleted"] ELSE recs[r]]

\* pruneAsyncConfigMaps of a normal pass: the expired records it knows.
pruneExpired == Delete({r \in known : Expired(r)})

addFinalizer ==
    /\ copy.here /\ ~copy.deleting /\ ~copy.finalizer
    /\ WriteOwn([copy EXCEPT !.finalizer = TRUE])
    /\ UNCHANGED <<pipes, pass, world, view, recs>>

\* A pass over a channel that is not being deleted, Ready or not: the status
\* first, and the prune only after the status is written or unchanged.
Reconcile ==
    LET after == [copy EXCEPT !.ready = valid, !.phase = "Active"] IN
    /\ copy.here /\ ~copy.deleting /\ copy.finalizer
    /\ IF after # copy THEN WriteOwn(after) ELSE UNCHANGED obj
    /\ pruneExpired
    /\ <<chan', recs'>> # <<chan, recs>>
    /\ UNCHANGED <<pipes, pass, world, view>>

\* reconcileDelete, step 1.
announceTerminating ==
    /\ copy.here /\ copy.deleting /\ copy.finalizer /\ copy.phase # "Terminating"
    /\ WriteOwn([copy EXCEPT !.phase = "Terminating"])
    /\ UNCHANGED <<pipes, pass, world, view, recs>>

\* Steps 4 and 5: the confirmation or the timeout, then every known record.
\* (A repetition from an old copy that finds nothing to delete is refused at
\* its end and changes nothing: it is left out.)
sweep ==
    /\ copy.here /\ copy.deleting /\ copy.finalizer /\ copy.phase = "Terminating" /\ ~swept
    /\ copy.confirmed \/ gone30
    /\ current \/ known \cap Live # {}
    /\ Delete(known) /\ swept' = TRUE
    /\ calm' = /\ known = Live
               /\ \A g \in plan.gates : view[g].terminating /\ view[g].uid = chan.uid
               /\ \A r \in Requests : req[r].pc # "checked"
    /\ UNCHANGED <<obj, pipes, known, world, view>>

\* Step 6, refused when the object changed since the pass read it; the next
\* pass sweeps again.
release ==
    /\ swept /\ swept' = FALSE
    /\ IF current THEN Write(Absent(chan.uid)) ELSE UNCHANGED obj
    /\ UNCHANGED <<pipes, known, calm, world, view, recs>>

\* The orphan pruner: expired records whose channel the cache does not have.
pruneOnce ==
    /\ ~copy.here
    /\ pruneExpired /\ recs' # recs
    /\ UNCHANGED <<obj, pipes, pass, world, view>>

(***************************************************************************)
(* The specification.  A retry schedule runs on a timer, passes are        *)
(* requeued at least every minute, the pruner has a ticker and watches     *)
(* catch up.  No step of the list can be repeated forever, so that one     *)
(* weak fairness of them all is what those timers give.                    *)
(***************************************************************************)
RProgress ==
    \/ \E g \in plan.gates : SyncView(g)
    \/ SyncCopy \/ SyncRecords \/ Tick \/ addFinalizer \/ Reconcile \/ announceTerminating
    \/ sweep \/ release \/ pruneOnce
    \/ \E r \in Requests : handleAsyncAccept(r) \/ runAsyncPipeline(r) \/ sendCallback(r)
                           \/ patchWithRetry(r)

RNext ==
    \/ RProgress \/ CreateChannel \/ DeleteChannel \/ ChangeValidity
    \/ \E r \in Requests : ContextEnds(r)
    \/ \E g \in plan.gates : channelDisconnectHandler(g) \/ CrashGateway(g)
    \/ \E r \in Requests, g \in plan.gates : handleWebhook(r, g)

(***************************************************************************)
(* Properties.                                                             *)
(***************************************************************************)

\* The state has its shape: copies are past or present objects, a record's
\* age stops one tick after its TTL, and a schedule has at most Attempts.
RTypeOK ==
    /\ chan.phase \in {"none", "Active", "Terminating"}
    /\ current => copy = chan
    /\ copy.uid <= chan.uid /\ \A g \in Gateways : view[g].uid <= chan.uid
    /\ known \subseteq Requests
    /\ \A r \in Requests :
          /\ recs[r].st \in {"none", "pending", "filled", "deleted"} /\ recs[r].age \in 0..(TTL + 1)
          /\ req[r].pc \in InPipeline \cup {"out", "checked", "refused", "done", "dropped", "lost"}
          /\ req[r].n \in 0..Attempts

\* A record is deleted before its TTL only when its channel is being or has
\* been deleted: neither the reconciler's prune nor the orphan pruner takes
\* one a caller may still poll.
NoEarlyLoss ==
    \A r \in Requests : recs[r].st = "deleted" /\ ~Expired(r) =>
        chan.uid # recs[r].uid \/ ~chan.here \/ chan.deleting

\* A pipeline that ends without the drop signal put the answer where its
\* caller finds it: in the record, or at the callback receiver.
AnswerSomewhere ==
    \A r \in Requests : req[r].pc = "done" => r \in cb \/ recs[r].st \in {"filled", "deleted"}

\* The single sweep is final when every replica has seen Terminating, no
\* accept is between its check and its Create, and the controller's list is
\* current: after the finalizer is released no record of that channel is left.
SweepFinal ==
    calm /\ ~chan.here => \A r \in Live : recs[r].uid # chan.uid

\* Polls of one request never go back: an answer is followed by the answer or
\* by 404, and a 404 by 404.  A late patch never brings a record back.
PollMonotone ==
    [][\A r \in Requests : /\ handlePoll(r) = "answer" => handlePoll(r)' # "wait"
                           /\ handlePoll(r) = "gone" => handlePoll(r)' = "gone"]_rvars

\* Every record goes: pruned by its channel's passes whether the channel is
\* Ready or not, swept with it, or reaped when it outlives it.
RecordsReaped == []<>(Live = {})

\* A deletion ends even when no gateway confirms it.
DeletionCompletes == []<>~(chan.here /\ chan.deleting)
=============================================================================
