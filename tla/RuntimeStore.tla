---------------------------- MODULE RuntimeStore ----------------------------
(***************************************************************************)
(* What an agent keeps across a restart (agentruntime/store.go): a         *)
(* snapshot and a log of the writes since, replies remembered per message  *)
(* and handler state, written under one lock while messages are handled    *)
(* concurrently (agentruntime/agent.go).  A crash may fall between any two *)
(* steps and tear the last record; an append, a snapshot or the emptying   *)
(* of the log may fail.  A record that failed is always cut off the log    *)
(* (truncating needs no space).                                            *)
(***************************************************************************)
EXTENDS Naturals, Sequences, SequencesExt, FiniteSets

CONSTANTS Ids,       \* messages
          Size,      \* dedupBufferSize
          Values0,   \* values of the one key
          Writes, Faults, Crashes0   \* bounds: writes, failed ones, crashes

ASSUME StoreSizes == Size \in Nat \ {0} /\ {Writes, Faults, Crashes0} \subseteq Nat

VARIABLES ram,      \* the state in memory: [kv, order]
          snap,     \* state.json
          log,      \* state.log: whole records, then perhaps a torn one
          torn, fresh0,   \* a torn record ends the log; the log is newer than the snapshot
          lock,     \* who holds the lock, at which step, with which record
          serving,  \* what each message's handler is at
          bounds,   \* writes, faults and crashes left
          allowed,  \* ghost: the values the key may have after a crash
          since,    \* ghost: ids used since an id's reply became durable
          held,     \* ghost: the log keeps records that the snapshot holds
          skipped,  \* ghost: the snapshot has a write the log has not
          again     \* ghost: such a log was replayed

rsvars == <<ram, snap, log, torn, fresh0, lock, serving, bounds, allowed, since, held, skipped, again>>

NotKept == Ids
Free == [pc |-> "free", rec |-> [op |-> "none", id |-> 0, value |-> 0]]
RSInit ==
    /\ ram = [kv |-> 0, order |-> <<>>] /\ snap = ram /\ log = <<>> /\ torn = FALSE /\ fresh0 = TRUE
    /\ lock = Free /\ serving = [i \in Ids |-> "none"]
    /\ bounds = [writes |-> Writes, faults |-> Faults, crashes |-> Crashes0]
    /\ allowed = {0} /\ since = [i \in Ids |-> NotKept]
    /\ held = FALSE /\ skipped = FALSE /\ again = FALSE

(***************************************************************************)
(* The operations on the state.                                            *)
(***************************************************************************)
rememberLocked(s, id) ==
    LET order == IF Contains(s.order, id) THEN s.order ELSE Append(s.order, id)
    IN  [s EXCEPT !.order = IF Len(order) > Size THEN Tail(order) ELSE order]
touchLocked(s, id) == [s EXCEPT !.order = Append(SelectSeq(s.order, LAMBDA i : i # id), id)]
applyLocked(s, rec) == IF rec.op = "remember" THEN rememberLocked(s, rec.id) ELSE [s EXCEPT !.kv = rec.value]
\* replayLog: a torn record is dropped.
replayed(s, records) == FoldLeft(applyLocked, s, records)

(***************************************************************************)
(* Messages.                                                               *)
(***************************************************************************)
\* A use of id counts against the replies of the others.
Used(id) == [i \in Ids |-> IF i = id THEN since[i] ELSE since[i] \cup {id}]

\* messageHandler looks the id up; a hit answers, and renews the id.
recall(id) ==
    /\ lock.pc = "free" /\ serving[id] = "none" /\ bounds.writes > 0
    /\ IF Contains(ram.order, id)
       THEN ram' = touchLocked(ram, id) /\ since' = Used(id) /\ UNCHANGED serving
       ELSE serving' = [serving EXCEPT ![id] = "handling"] /\ UNCHANGED <<ram, since>>
    /\ UNCHANGED <<snap, log, torn, fresh0, lock, bounds, allowed, held, skipped, again>>
\* The handler fails, or its reply cannot be encoded: nothing is kept.
HandlerFails(id) ==
    /\ serving[id] = "handling" /\ serving' = [serving EXCEPT ![id] = "none"]
    /\ UNCHANGED <<ram, snap, log, torn, fresh0, lock, bounds, allowed, since, held, skipped, again>>
\* remember and setKV change the state and go on to append.
Write0(rec) ==
    /\ lock.pc = "free" /\ bounds.writes > 0 /\ bounds' = [bounds EXCEPT !.writes = @ - 1]
    /\ ram' = applyLocked(ram, rec)
    /\ lock' = [pc |-> "append", rec |-> rec]
    /\ UNCHANGED <<snap, log, torn, fresh0, held, skipped, again>>
remember(id) == /\ serving[id] = "handling" /\ serving' = [serving EXCEPT ![id] = "none"]
                /\ Write0([op |-> "remember", id |-> id, value |-> 0])
                /\ since' = [Used(id) EXCEPT ![id] = IF Contains(ram.order, id) THEN @ ELSE NotKept]
                /\ UNCHANGED allowed
setKV(v) == /\ Write0([op |-> "set", id |-> 0, value |-> v])
            /\ allowed' = allowed \cup {v} /\ UNCHANGED <<serving, since>>

(***************************************************************************)
(* The volume.                                                             *)
(***************************************************************************)
\* What became durable: the record, or the whole state.
Kept(rec) ==
    /\ allowed' = IF rec.op = "set" THEN {rec.value} ELSE allowed
    /\ since' = IF rec.op = "remember" /\ since[rec.id] = NotKept THEN [since EXCEPT ![rec.id] = {}] ELSE since
\* The log is folded into the snapshot when it has grown, as it may have now.
appendRecord ==
    /\ lock.pc = "append"
    /\ log' = IF torn THEN log ELSE Append(log, lock.rec)
    /\ torn' = torn /\ fresh0' = TRUE /\ Kept(lock.rec)
    /\ \E grown \in BOOLEAN : lock' = IF grown THEN [lock EXCEPT !.pc = "rename"] ELSE Free
    /\ UNCHANGED <<ram, snap, serving, bounds, held, skipped, again>>
\* The append fails part way: the log is cut back and the state folded.
dropPartialAppendNot == torn' = TRUE
dropPartialAppend == torn' = torn
appendFails ==
    /\ lock.pc = "append" /\ bounds.faults > 0 /\ bounds' = [bounds EXCEPT !.faults = @ - 1]
    /\ dropPartialAppend /\ fresh0' = TRUE /\ lock' = [lock EXCEPT !.pc = "rename"] /\ skipped' = TRUE
    /\ UNCHANGED <<ram, snap, log, serving, allowed, since, held, again>>
\* compactLocked: the new snapshot takes the place of the old in one step.
compactLocked ==
    /\ lock.pc = "rename" /\ lock' = [lock EXCEPT !.pc = "truncate"]
    /\ snap' = ram /\ fresh0' = FALSE /\ held' = (log # <<>>)
    /\ allowed' = {ram.kv}
    /\ since' = [i \in Ids |-> IF lock.rec.id = i /\ since[i] = NotKept THEN {} ELSE since[i]]
    /\ UNCHANGED <<ram, log, torn, serving, bounds, skipped, again>>
compactFails ==
    /\ lock.pc = "rename" /\ bounds.faults > 0 /\ bounds' = [bounds EXCEPT !.faults = @ - 1] /\ lock' = Free
    /\ UNCHANGED <<ram, snap, log, torn, fresh0, serving, allowed, since, held, skipped, again>>
truncated ==
    /\ lock.pc = "truncate" /\ log' = <<>> /\ torn' = FALSE /\ fresh0' = TRUE /\ lock' = Free
    /\ held' = FALSE /\ skipped' = FALSE
    /\ UNCHANGED <<ram, snap, serving, bounds, allowed, since, again>>
truncateFails ==
    /\ lock.pc = "truncate" /\ bounds.faults > 0 /\ bounds' = [bounds EXCEPT !.faults = @ - 1] /\ lock' = Free
    /\ UNCHANGED <<ram, snap, log, torn, fresh0, serving, allowed, since, held, skipped, again>>
\* close folds what the log holds; the process then starts again.
close == /\ lock.pc = "free" /\ log # <<>> /\ \A i \in Ids : serving[i] = "none"
         /\ lock' = [Free EXCEPT !.pc = "rename"]
         /\ UNCHANGED <<ram, snap, log, torn, fresh0, serving, bounds, allowed, since, held, skipped, again>>

(***************************************************************************)
(* A crash, and newStore.  A record being appended may be there, torn or   *)
(* absent.  A log older than the snapshot is discarded; one of the same    *)
(* age, as the volume tells time, is replayed over it.                     *)
(***************************************************************************)
newStore(records, half, discard) ==
    /\ ram' = (IF discard THEN snap ELSE replayed(snap, records))
    /\ log' = (IF discard THEN <<>> ELSE records) /\ torn' = FALSE
    /\ lock' = IF ~discard /\ (records # <<>> \/ half) THEN [Free EXCEPT !.pc = "rename"] ELSE Free
    /\ allowed' = {ram'.kv}
Crash0 ==
    /\ bounds.crashes > 0 /\ bounds' = [bounds EXCEPT !.crashes = @ - 1]
    /\ serving' = [i \in Ids |-> "none"]
    /\ \E arrives \in {"not", "half", "whole"}, discard \in BOOLEAN :
         /\ arrives # "not" => lock.pc = "append"
         /\ discard => ~fresh0 /\ log # <<>> /\ arrives = "not"
         /\ newStore(IF arrives = "whole" /\ ~torn THEN Append(log, lock.rec) ELSE log,
                     torn \/ arrives = "half", discard)
         /\ fresh0' = (fresh0 \/ discard \/ arrives # "not")
         /\ again' = (again \/ (held /\ ~discard))
         /\ held' = (held /\ ~discard) /\ skipped' = (skipped /\ ~discard)
    /\ UNCHANGED <<snap, since>>

RSNext ==
    \/ \E i \in Ids : recall(i) \/ HandlerFails(i) \/ remember(i)
    \/ \E v \in Values0 : setKV(v)
    \/ appendRecord \/ appendFails \/ compactLocked \/ compactFails \/ truncated \/ truncateFails
    \/ close \/ Crash0

(***************************************************************************)
(* What the store promises.                                                *)
(***************************************************************************)
\* Whenever a crash falls, the key comes back with the last value whose append
\* or snapshot succeeded, or with one written since: a failed or torn append
\* never hides a later write, and a replayed log never undoes the snapshot
\* ("replaying them on the next start changes nothing") unless the snapshot
\* has a write whose append failed and the log was not emptied after it.
WritesSurvive ==
    /\ (held /\ skipped) \/ replayed(snap, log).kv \in allowed
    /\ ~fresh0 /\ log # <<>> /\ ~again => snap.kv \in allowed

\* A reply stays, through crashes, failed writes and snapshots, while fewer
\* than Size other messages came after it, so its redelivery is answered and
\* not handled again (messageHandler).  Replaying records that the snapshot
\* holds is outside this: it may bring older replies back in its place.
RepliesStay ==
    \A i \in Ids : ~again /\ Cardinality(since[i]) < Size /\ since[i] # NotKept =>
        /\ Contains(ram.order, i)
        /\ IF fresh0 THEN held \/ Contains(replayed(snap, log).order, i) ELSE Contains(snap.order, i)

\* What the store acknowledged and what it answered before stay, over crashes
\* and failed writes (appendRecord, load, rememberLocked).
StoreSurvives == WritesSurvive /\ RepliesStay
=============================================================================
