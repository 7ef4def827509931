---------------------------- MODULE ChannelPaths ----------------------------
(***************************************************************************)
(* Which channel holds a path.  The earliest channel of a namespace on a   *)
(* path is Ready and the others report PathConflict; all of them also need *)
(* an Agent that exposes a Service.  A channel is reconciled only when a   *)
(* watch event enqueues it: its own events, a sibling that appears, leaves *)
(* or moves, a change of the Agent that matters.  Passes of different      *)
(* channels run at once, read caches of any age, and write their status    *)
(* only over the version they read.  The periodic requeue is left out, so  *)
(* that what holds here does not wait for it.                              *)
(***************************************************************************)
EXTENDS Naturals

CONSTANTS Channels, \* names, 1..n: on equal timestamps the lower name wins
          Paths,    \* paths a channel may be given
          Events    \* changes the users may make

ASSUME PathBounds == Channels \subseteq Nat /\ Events \in Nat

VARIABLES stored,      \* the AgentChannels: path (0: absent), creation time, Ready
          storedSeen,   \* the controller's cached copies
          agent, agentCached, \* the Agent: service enabled, phase
          queue,    \* the work queue
          running,  \* passes under way: the copy read and the verdict
          births, events

pvars == <<stored, storedSeen, agent, agentCached, queue, running, births, events>>

Nowhere == [path |-> 0, at |-> 0, ready |-> FALSE, phase |-> "none"]
Idle == [on |-> FALSE, read |-> Nowhere, ready |-> FALSE, phase |-> "none"]
AgentStates == [there : {TRUE}, service : BOOLEAN, phase : {"Running", "Failed"}]
                 \cup {[there |-> FALSE, service |-> FALSE, phase |-> "none"]}

PInit ==
    /\ stored = [c \in Channels |-> Nowhere] /\ storedSeen = stored
    /\ agent = [there |-> TRUE, service |-> TRUE, phase |-> "Running"] /\ agentCached = agent
    /\ queue = {} /\ running = [c \in Channels |-> Idle] /\ births = 1 /\ events = 0

\* Rule 15: the earlier creationTimestamp, on a tie the lower name.
channelPrecedes(a, b, objs) ==
    \/ objs[a].at < objs[b].at
    \/ objs[a].at = objs[b].at /\ a < b
Siblings(c, path, objs) == {d \in Channels \ {c} : path # 0 /\ objs[d].path = path}

PathConflict(c, objs) ==
    \E d \in Siblings(c, objs[c].path, objs) : channelPrecedes(d, c, objs)

\* validateChannel and reducePhase over one view of the objects.
validateChannel(c, objs, a) == a.there /\ a.service /\ ~PathConflict(c, objs)
reducePhase(a) == IF ~a.there THEN "Failed"
                  ELSE IF a.phase = "Failed" THEN "Degraded" ELSE "Active"

(***************************************************************************)
(* The users.                                                              *)
(***************************************************************************)
\* A new channel has the current second for its timestamp, or, after the
\* clock of the API server went back, the one before.  A watch reports the
\* deletion of a name before its next creation (a re-list may not: the
\* periodic requeue repairs that case).
CreateAt(c) ==
    /\ events < Events /\ events' = events + 1 /\ stored[c].path = 0 /\ storedSeen[c].path = 0
    /\ \E p \in Paths, t \in {births, births - 1} :
          stored' = [stored EXCEPT ![c] = [path |-> p, at |-> t, ready |-> FALSE, phase |-> "none"]]
    /\ births' \in {births, births + 1}
    /\ UNCHANGED <<storedSeen, agent, agentCached, queue, running>>

RemoveChannel(c) ==
    /\ events < Events /\ events' = events + 1 /\ stored[c].path # 0
    /\ stored' = [stored EXCEPT ![c] = Nowhere]
    /\ UNCHANGED <<storedSeen, agent, agentCached, queue, running, births>>

Move(c) ==
    /\ events < Events /\ events' = events + 1 /\ stored[c].path # 0
    /\ \E p \in Paths \ {stored[c].path} : stored' = [stored EXCEPT ![c].path = p]
    /\ UNCHANGED <<storedSeen, agent, agentCached, queue, running, births>>

ChangeAgent ==
    /\ events < Events /\ events' = events + 1
    /\ \E a \in AgentStates : a # agent /\ agent' = a
    /\ UNCHANGED <<stored, storedSeen, agentCached, queue, running, births>>

(***************************************************************************)
(* The watches.                                                            *)
(***************************************************************************)

\* Fault: only the siblings on the new path hear of a move or a departure.
pathSiblingHandlerNew(c, old, new, objs) ==
    IF old.path = new.path THEN {} ELSE Siblings(c, new.path, objs)

\* The channels a create, delete or path change enqueues besides the channel:
\* the siblings on its old and its new path.
pathSiblingHandler(c, old, new, objs) ==
    IF old.path = new.path THEN {}
    ELSE Siblings(c, old.path, objs) \cup Siblings(c, new.path, objs)

\* One watch event: the cache first, then the handlers.
Deliver(c) ==
    LET after == [storedSeen EXCEPT ![c] = stored[c]] IN
    /\ storedSeen[c] # stored[c] /\ storedSeen' = after
    /\ queue' = queue \cup {c} \cup pathSiblingHandler(c, storedSeen[c], stored[c], after)
    /\ UNCHANGED <<stored, agent, agentCached, running, births, events>>

agentChangeMatters(old, new) ==
    old.there # new.there \/ old.service # new.service \/ old.phase # new.phase

DeliverAgent ==
    /\ agentCached # agent /\ agentCached' = agent
    /\ queue' = IF agentChangeMatters(agentCached, agent)
                THEN queue \cup {c \in Channels : storedSeen[c].path # 0} ELSE queue
    /\ UNCHANGED <<stored, storedSeen, agent, running, births, events>>

(***************************************************************************)
(* The reconciler.                                                         *)
(***************************************************************************)
\* The work queue hands a channel to one worker at a time; an event during
\* the pass puts it back.
StartPass(c) ==
    /\ c \in queue /\ ~running[c].on /\ queue' = queue \ {c}
    /\ running' = IF storedSeen[c].path = 0 THEN running
                  ELSE [running EXCEPT ![c] =
                          [on |-> TRUE, read |-> storedSeen[c],
                           ready |-> validateChannel(c, storedSeen, agentCached),
                           phase |-> reducePhase(agentCached)]]
    /\ UNCHANGED <<stored, storedSeen, agent, agentCached, births, events>>

\* updateStatusIfChanged: an unchanged status is not written; a version
\* conflict returns an error, which requeues the channel.
FinishPass(c) ==
    LET r == running[c] IN
    /\ r.on /\ running' = [running EXCEPT ![c] = Idle]
    /\ \/ /\ r.read.ready = r.ready /\ r.read.phase = r.phase
          /\ UNCHANGED <<stored, queue>>
       \/ /\ <<r.read.ready, r.read.phase>> # <<r.ready, r.phase>> /\ stored[c] = r.read
          /\ stored' = [stored EXCEPT ![c].ready = r.ready, ![c].phase = r.phase]
          /\ UNCHANGED queue
       \/ /\ <<r.read.ready, r.read.phase>> # <<r.ready, r.phase>> /\ stored[c] # r.read
          /\ queue' = queue \cup {c} /\ UNCHANGED stored
    /\ UNCHANGED <<storedSeen, agent, agentCached, births, events>>

PNext == \/ \E c \in Channels : CreateAt(c) \/ RemoveChannel(c) \/ Move(c) \/ Deliver(c)
                                \/ StartPass(c) \/ FinishPass(c)
         \/ ChangeAgent \/ DeliverAgent

(***************************************************************************)
(* Properties.                                                             *)
(***************************************************************************)
Quiet == /\ queue = {} /\ storedSeen = stored /\ agentCached = agent
         /\ \A c \in Channels : ~running[c].on

\* When the watches have caught up and the queue is empty, every channel's
\* status is what its checks find now: the events that enqueue a channel miss
\* no change its verdict depends on, whatever passes were under way.
StatusFollows ==
    Quiet => \A c \in Channels : stored[c].path # 0 =>
        stored[c].ready = validateChannel(c, stored, agent) /\ stored[c].phase = reducePhase(agent)

\* Then no path has two Ready channels, and it has one when the Agent can be
\* reached: the gateway routes every path to exactly one channel.
OneHolder ==
    Quiet => \A p \in Paths :
        LET on == {c \in Channels : stored[c].path = p}
            ready == {c \in on : stored[c].ready}
        IN  /\ \A c, d \in ready : c = d
            /\ on # {} /\ agent.there /\ agent.service => ready # {}

\* Once quiet, statuses and holders of paths are right (validateChannel,
\* pathSiblingHandler).
PathsFollow == StatusFollows /\ OneHolder
=============================================================================
