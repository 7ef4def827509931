---------------------------- MODULE ProviderPass ----------------------------
(***************************************************************************)
(* The reconcilers of the cluster-scoped resources: a ModelProvider, a     *)
(* ToolProvider or an AgentClass.  A pass reads the resource, what it      *)
(* depends on (the credential Secret; for a class, the providers it        *)
(* allows) and its users from informers of any age, probes the upstream    *)
(* when that is due, and writes the status it derives; the update event of *)
(* its own status write is dropped (ownWrites).  A delete is held while    *)
(* users exist.  Watches may join several changes into one event.          *)
(***************************************************************************)
EXTENDS Naturals, Sequences, SequencesExt, FiniteSets

CONSTANTS PassTroubles   \* edits, outages, failed writes and restarts in one behaviour

ASSUME PassBounds == PassTroubles \in Nat

VARIABLES what,               \* "model", "tool" or "class"
          res, resFeed, resSeen,   \* the resource, its undelivered versions, the cached copy
          dep, depSeen,       \* the dependency is good, and the cached view of it
          users, usersSeen,   \* a user of the resource exists
          remote,             \* "up", "down" or "rejects" (the credential)
          own,                \* ownWrites: resourceVersion of the last own write, or 0
          probe,              \* probeSchedule: its key, result and if it is due
          timer,              \* requeue pending: "none", for the current "probe", or "other"
          queued, run, left0

ppvars == <<what, res, resFeed, resSeen, dep, depSeen, users, usersSeen, remote, own, probe, timer, queued, run, left0>>

NoProbe == [at |-> "none", key |-> <<0, FALSE>>, result |-> "up"]
NewStatus == [gen |-> 0, ready |-> "none", healthy |-> "none", users |-> FALSE]
NewRes == [rv |-> 1, gen |-> 1, del |-> FALSE, fin |-> FALSE, gone |-> FALSE, status |-> NewStatus]
IdleRun == [pc |-> "idle", read |-> NewRes, to |-> NewStatus, wait |-> "none", standing |-> FALSE]
PPInit ==
    /\ what \in {"model", "tool", "class"}
    /\ res = NewRes /\ resFeed = <<>> /\ resSeen = res
    /\ dep = TRUE /\ depSeen = TRUE /\ users = FALSE /\ usersSeen = FALSE /\ remote = "up"
    /\ own = 0 /\ probe = NoProbe /\ timer = "none"
    /\ queued = TRUE /\ run = IdleRun /\ left0 = PassTroubles

Filtered == what # "class"      \* only the provider reconcilers filter their own writes
NewVersion(v) == res' = [v EXCEPT !.rv = res.rv + 1] /\ resFeed' = Append(resFeed, res')

(***************************************************************************)
(* Users, the upstream, and the watches.                                   *)
(***************************************************************************)
Trouble == left0 > 0 /\ left0' = left0 - 1
Edit == /\ Trouble /\ ~res.gone /\ ~res.del /\ NewVersion([res EXCEPT !.gen = @ + 1])
        /\ UNCHANGED <<what, resSeen, dep, depSeen, users, usersSeen, remote, own, probe, timer, queued, run>>
DeleteRes == /\ ~res.gone /\ ~res.del /\ UNCHANGED left0
             /\ NewVersion([res EXCEPT !.del = TRUE, !.gone = ~res.fin])
             /\ UNCHANGED <<what, resSeen, dep, depSeen, users, usersSeen, remote, own, probe, timer, queued, run>>
DepChanges == /\ Trouble /\ dep' = ~dep
              /\ UNCHANGED <<what, res, resFeed, resSeen, depSeen, users, usersSeen, remote, own, probe, timer, queued, run>>
UsersChange == /\ Trouble /\ users' = ~users /\ run' = [run EXCEPT !.standing = FALSE]
               /\ UNCHANGED <<what, res, resFeed, resSeen, dep, depSeen, usersSeen, remote, own, probe, timer, queued>>
UpstreamChanges == /\ Trouble /\ what # "class" /\ remote' \in {"up", "down", "rejects"} \ {remote}
                   /\ UNCHANGED <<what, res, resFeed, resSeen, dep, depSeen, users, usersSeen, own, probe, timer, queued, run>>
\* skipOwn: the event of the recorded write is dropped, once.
skipOwn(new) == Filtered /\ ~new.gone /\ new.rv = own
\* The next version arrives, or a re-list shows only the last.
DeliverRes(n) ==
    /\ resFeed # <<>> /\ n \in {1, Len(resFeed)}
    /\ resSeen' = resFeed[n] /\ resFeed' = SubSeq(resFeed, n + 1, Len(resFeed))
    /\ own' = (IF skipOwn(resFeed[n]) THEN 0 ELSE own)
    /\ queued' = (queued \/ ~skipOwn(resFeed[n]))
    /\ UNCHANGED <<what, res, dep, depSeen, users, usersSeen, remote, probe, timer, run, left0>>
DeliverDep == /\ depSeen # dep /\ depSeen' = dep /\ queued' = TRUE
              /\ UNCHANGED <<what, res, resFeed, resSeen, dep, users, usersSeen, remote, own, probe, timer, run, left0>>
\* providerRefsChanged, toolGrantsChanged, classUsageChanged admit it.
DeliverUsers == /\ usersSeen # users /\ usersSeen' = users /\ queued' = TRUE
                /\ UNCHANGED <<what, res, resFeed, resSeen, dep, depSeen, users, remote, own, probe, timer, run, left0>>
\* A pending requeue: the queue keeps the earlier of two.
TimerFires == /\ timer # "none" /\ timer' = "none" /\ queued' = TRUE
              /\ probe' = (IF timer = "probe" /\ probe.at = "fresh" THEN [probe EXCEPT !.at = "due"] ELSE probe)
              /\ UNCHANGED <<what, res, resFeed, resSeen, dep, depSeen, users, usersSeen, remote, own, run, left0>>
ManagerRestarts == /\ Trouble /\ run' = IdleRun /\ own' = 0 /\ probe' = NoProbe /\ timer' = "none" /\ queued' = TRUE
           /\ resSeen' = res /\ resFeed' = <<>> /\ depSeen' = dep /\ usersSeen' = users
           /\ UNCHANGED <<what, res, dep, users, remote>>

(***************************************************************************)
(* A pass.                                                                 *)
(***************************************************************************)
Goto(pc) == run' = [run EXCEPT !.pc = pc]
Waiting(w) == IF w = "none" \/ timer # "none" THEN timer ELSE w
\* A pass that ends without an error asks for its requeue; an error runs it again.
Done == run' = IdleRun /\ timer' = Waiting(run.wait) /\ UNCHANGED queued
Fails == run' = IdleRun /\ queued' = TRUE /\ UNCHANGED timer
\* Fault: the record of a write survives a read from before it.
readStaleKeeps(rv) == own
readStale(rv) == IF own # rv THEN 0 ELSE own
Begin1 ==
    LET r == resSeen
        pc == IF r.gone \/ (r.del /\ ~r.fin) THEN "idle" ELSE IF r.del THEN "users" ELSE IF ~r.fin THEN "finalizer" ELSE "checks"
    IN  /\ queued /\ run.pc = "idle" /\ queued' = FALSE
        /\ own' = (IF r.gone THEN 0 ELSE readStale(r.rv))
        /\ probe' = (IF r.gone \/ (what = "tool" /\ pc = "users") THEN NoProbe ELSE probe)
        /\ run' = [IdleRun EXCEPT !.pc = pc, !.read = r, !.to = r.status, !.standing = users]
        /\ UNCHANGED <<what, res, resFeed, resSeen, dep, depSeen, users, usersSeen, remote, timer, left0>>
\* An update carries the version read; it may fail, before or after it took effect.
Update(v, ok) ==
    \/ /\ run.read.rv = res.rv /\ NewVersion(v) /\ UNCHANGED left0
       /\ IF ok = "recordOwn" THEN Goto("recordOwn") /\ UNCHANGED <<timer, queued>> ELSE Done
    \/ /\ run.read.rv # res.rv /\ UNCHANGED <<res, resFeed, left0>> /\ Fails
    \/ /\ Trouble /\ Fails
       /\ \/ UNCHANGED <<res, resFeed>>
          \/ run.read.rv = res.rv /\ NewVersion(v)
AddFinalizer0 == /\ run.pc = "finalizer" /\ Update([run.read EXCEPT !.fin = TRUE], "end")
                 /\ UNCHANGED <<what, resSeen, dep, depSeen, users, usersSeen, remote, own, probe>>

setHealthyNotProbed(s) == IF what = "class" THEN s ELSE [s EXCEPT !.healthy = "unknown"]
setDeletionBlocked(s) == [s EXCEPT !.ready = "blocked"]
Holds(liveOnly) ==
    /\ run' = [run EXCEPT !.pc = "finish", !.wait = IF liveOnly THEN "other" ELSE "none",
                          !.to = setDeletionBlocked(setHealthyNotProbed(@))]
    /\ probe' = (IF what = "class" THEN probe ELSE NoProbe)
heldResult == Holds(TRUE)
\* Fault: the cached list alone releases the delete.
deleteReferrersCached == IF usersSeen THEN Holds(FALSE) ELSE Goto("release") /\ UNCHANGED probe
\* The cached list holds the delete; an empty one is read again, live.
deleteReferrers == IF usersSeen THEN Holds(FALSE) ELSE Goto("live") /\ UNCHANGED probe
Users == /\ run.pc = "users" /\ deleteReferrers
         /\ UNCHANGED <<what, res, resFeed, resSeen, dep, depSeen, users, usersSeen, remote, own, timer, queued, left0>>
LiveUsers == /\ run.pc = "live" /\ IF users THEN heldResult ELSE Goto("release") /\ UNCHANGED probe
             /\ UNCHANGED <<what, res, resFeed, resSeen, dep, depSeen, users, usersSeen, remote, own, timer, queued, left0>>
\* The spend ConfigMaps of a ModelProvider go first, or the pass fails there.
Release == /\ run.pc = "release" /\ probe' = NoProbe
           /\ \/ Update([run.read EXCEPT !.fin = FALSE, !.gone = TRUE], "end")
              \/ what = "model" /\ Trouble /\ Fails /\ UNCHANGED <<res, resFeed>>
           /\ UNCHANGED <<what, resSeen, dep, depSeen, users, usersSeen, remote, own>>

\* What the checks find: an unresolved reference; a class counts its users.
checkedClass == [gen |-> run.read.gen, ready |-> IF depSeen THEN "valid" ELSE "invalid",
                 healthy |-> "none", users |-> usersSeen]
checkedProvider == setHealthyNotProbed([gen |-> run.read.gen, ready |-> IF depSeen THEN "valid" ELSE "invalid",
                                        healthy |-> "none", users |-> FALSE])
\* The checks end the pass, or the probe follows.
Checks0 ==
    /\ run.pc = "checks"
    /\ run' = [run EXCEPT !.to = IF what = "class" THEN checkedClass ELSE checkedProvider, !.pc = IF what # "class" /\ depSeen THEN "probe" ELSE "finish"]
    /\ probe' = (IF what # "class" /\ ~depSeen THEN NoProbe ELSE probe)
    /\ UNCHANGED <<what, res, resFeed, resSeen, dep, depSeen, users, usersSeen, remote, own, timer, queued, left0>>
\* The recorded result until it is due, for the same object and credential.
cachedProbe(key) == probe.at = "fresh" /\ probe.key = key
\* A rejected credential ends Ready too.
probed(s, r) == [s EXCEPT !.ready = IF r = "rejects" THEN "rejected" ELSE @,
                          !.healthy = IF r = "up" THEN "true" ELSE "false"]
Probe0 ==
    LET key == <<run.read.gen, TRUE>>
        r == IF cachedProbe(key) THEN probe.result ELSE remote
    IN  /\ run.pc = "probe"
        /\ probe' = [at |-> "fresh", key |-> key, result |-> r]
        /\ timer' = (IF ~cachedProbe(key) /\ timer = "probe" THEN "other" ELSE timer)
        /\ run' = [run EXCEPT !.pc = "finish", !.wait = "probe", !.to = probed(@, r)]
        /\ UNCHANGED <<what, res, resFeed, resSeen, dep, depSeen, users, usersSeen, remote, own, queued, left0>>
\* A status equal to the stored one, as the cache has it now, is not written.
\* A class, and a held ToolProvider, compare with what the pass read.
Stored == IF what = "model" \/ (what = "tool" /\ ~run.read.del) THEN resSeen ELSE run.read
finish ==
    /\ run.pc = "finish"
    /\ \/ ~Stored.gone /\ Stored.status = run.to /\ Done /\ UNCHANGED <<res, resFeed, left0>>
       \/ /\ Stored.gone \/ Stored.status # run.to
          /\ Update([run.read EXCEPT !.status = run.to], IF Filtered THEN "recordOwn" ELSE "end")
    /\ UNCHANGED <<what, resSeen, dep, depSeen, users, usersSeen, remote, own, probe>>
\* The write has returned, perhaps after its event.
recordOwn == /\ run.pc = "recordOwn" /\ own' = run.read.rv + 1 /\ Done
          /\ UNCHANGED <<what, res, resFeed, resSeen, dep, depSeen, users, usersSeen, remote, probe, left0>>

PassStep == Begin1 \/ AddFinalizer0 \/ Users \/ LiveUsers \/ Release \/ Checks0 \/ Probe0 \/ finish \/ recordOwn
PPNext == PassStep \/ DeliverDep \/ DeliverUsers \/ TimerFires \/ (\E n \in 1..Len(resFeed) : DeliverRes(n))
          \/ Edit \/ DeleteRes \/ DepChanges \/ UsersChange \/ UpstreamChanges \/ ManagerRestarts

(***************************************************************************)
(* What the reconcilers promise.                                           *)
(***************************************************************************)
\* A delete is not released over a user that existed when the pass began and
\* still does, however old the caches (deleteReferrers: "a released finalizer
\* cannot be taken back").
UsersHold == [][res'.gone /\ res.fin /\ ~res.gone => ~run.standing]_ppvars

Verdict(up) == IF ~dep THEN "invalid" ELSE IF up = "rejects" THEN "rejected" ELSE "valid"
Describes(s, up) == /\ s.gen = res.gen /\ s.ready = Verdict(up)
                    /\ what = "class" => s.users = users
                    /\ what # "class" /\ dep => s.healthy = IF up = "up" THEN "true" ELSE "false"
\* With nothing left to deliver or to run, the status describes what is there
\* and the last probe: the dropped event of an own write never hid a change
\* until the next requeue (ownWrites, readStale).
QuietRight ==
    ~queued /\ run.pc = "idle" /\ resFeed = <<>> /\ depSeen = dep /\ usersSeen = users /\ ~res.gone =>
        IF res.del THEN timer # "none" \/ (users /\ res.status.ready = "blocked")
        ELSE Describes(res.status, IF what = "class" THEN "up" ELSE probe.result)

\* The status describes the resource, what it names and the upstream.
StatusRight == res.gone \/ IF res.del THEN res.status.ready = "blocked" ELSE Describes(res.status, remote)
=============================================================================
