----------------------------- MODULE SecretWatch -----------------------------
(***************************************************************************)
(* One Secret served by the per-object watcher that the gateway and the    *)
(* controller share.  The first read starts an informer (list, then        *)
(* watch); reads wait for its first list and are then served from its      *)
(* store.  An informer whose list is refused stops, with a note whether a  *)
(* GET would still be allowed; a read after ErrorTTL replaces it.  Readers *)
(* hold the informer they began with while another replaces it, and load   *)
(* its shared fields one at a time.                                        *)
(***************************************************************************)
EXTENDS Naturals, FiniteSets, FiniteSetsExt

CONSTANTS Readers, \* concurrent calls of Get
          Changes  \* changes of the Secret and of the grant

ASSUME WatchBounds == IsFiniteSet(Readers) /\ Changes \in Nat

\* The Secret may be absent, or lack the label that lets a channel use it.
Values == {"absent", "labelled", "bare"}
\* What the Role grants: nothing, get and watch without list (an older Role),
\* or all three verbs.
Grants == {"none", "get", "all"}
\* A reader's informer, the current one, and one more for a replacement.
Slots == 1..(Cardinality(Readers) + 1)

VARIABLES secret, grant, left, \* the cluster, and the changes left
          cur,     \* the slot of the map's informer; 0: none
          inf,     \* the informers
          rd       \* the readers

wvars == <<secret, grant, left, cur, inf, rd>>

\* failure is the last failed list; old says that ErrorTTL has passed since.
NoFailure == [kind |-> "nil", getAllowed |-> FALSE, old |-> FALSE]
Fresh == [phase |-> "list", synced |-> FALSE, store |-> "absent", failure |-> NoFailure,
          revoked |-> FALSE, getOnly |-> FALSE]
\* An informer no reader and no map holds is garbage.
Gone == [Fresh EXCEPT !.phase = "halted"]
Resting == [pc |-> "idle", slot |-> 0, failure |-> NoFailure, result |-> "none", denied |-> FALSE]

WInit ==
    /\ secret = "labelled" /\ grant \in Grants /\ left = Changes /\ cur = 0
    /\ inf = [s \in Slots |-> Gone]
    /\ rd = [r \in Readers |-> Resting]

(***************************************************************************)
(* The cluster.                                                            *)
(***************************************************************************)
ChangeSecret ==
    /\ left > 0 /\ left' = left - 1
    /\ \E v \in Values \ {secret} : secret' = v
    /\ UNCHANGED <<grant, cur, inf, rd>>

\* A reader is no longer denied once the grant changes under it.
ChangeGrant ==
    /\ left > 0 /\ left' = left - 1
    /\ \E g \in Grants \ {grant} : grant' = g
    /\ rd' = [r \in Readers |-> [rd[r] EXCEPT !.denied = FALSE]]
    /\ UNCHANGED <<secret, cur, inf>>

ErrorTTLPasses(s) ==
    /\ s = cur /\ inf[s].failure.kind # "nil" /\ ~inf[s].failure.old
    /\ inf' = [inf EXCEPT ![s].failure.old = TRUE]
    /\ UNCHANGED <<secret, grant, left, cur, rd>>

(***************************************************************************)
(* The informer.                                                           *)
(***************************************************************************)
\* The list: on success the store is the Secret and the failure is cleared;
\* refused, one GET tells a lost grant from a Role without the list verb; or
\* another error.
List(s) ==
    /\ inf[s].phase = "list"
    /\ \/ /\ grant = "all"
          /\ inf' = [inf EXCEPT ![s].phase = "watch", ![s].synced = TRUE, ![s].store = secret,
                                ![s].failure = NoFailure]
       \/ /\ grant # "all"
          /\ inf' = [inf EXCEPT ![s].phase = "failed",
                       ![s].failure = [kind |-> "forbidden", getAllowed |-> grant = "get",
                                       old |-> FALSE]]
       \/ inf' = [inf EXCEPT ![s].phase = "failed",
                    ![s].failure = [kind |-> "other", getAllowed |-> FALSE, old |-> FALSE]]
    /\ UNCHANGED <<secret, grant, left, cur, rd>>

\* The watch error handler runs after the failed list.
stopOnForbidden(s) ==
    LET f == inf[s].failure IN
    /\ inf[s].phase = "failed"
    /\ inf' = IF f.kind # "forbidden" THEN [inf EXCEPT ![s].phase = "list"]
              ELSE [inf EXCEPT ![s].phase = "halted", ![s].getOnly = f.getAllowed,
                               ![s].revoked = ~f.getAllowed]
    /\ UNCHANGED <<secret, grant, left, cur, rd>>

\* A watch opened under an earlier grant keeps serving until it times out.
WatchEvent(s) ==
    /\ inf[s].phase = "watch" /\ inf[s].store # secret
    /\ inf' = [inf EXCEPT ![s].store = secret]
    /\ UNCHANGED <<secret, grant, left, cur, rd>>
WatchTimesOut(s) ==
    /\ inf[s].phase = "watch" /\ (inf[s].store # secret \/ grant # "all")
    /\ inf' = [inf EXCEPT ![s].phase = "list"]
    /\ UNCHANGED <<secret, grant, left, cur, rd>>

(***************************************************************************)
(* Get.                                                                    *)
(***************************************************************************)
\* entryFor, under the lock: keep the informer, or replace one that never
\* synced or was stopped and failed ErrorTTL ago.
Keeps(i) == \/ ~(i.revoked \/ i.getOnly) /\ (i.synced \/ i.failure.kind = "nil")
            \/ i.failure.kind # "nil" /\ ~i.failure.old
Unused == Slots \ ({cur} \cup {rd[r].slot : r \in Readers})

HeldBy(s) == {r \in Readers : rd[r].slot = s}
Hold(r, s, denied) == rd' = [rd EXCEPT ![r] = [Resting EXCEPT !.pc = "load", !.slot = s, !.denied = denied]]
\* retired is what becomes of the informer that is replaced.
readEntry(r, retired(_)) ==
    /\ rd[r].pc = "idle"
    /\ \/ /\ cur # 0 /\ Keeps(inf[cur])
          /\ Hold(r, cur, grant = "none" /\ inf[cur].failure.kind = "forbidden")
          /\ UNCHANGED <<cur, inf>>
       \/ /\ cur # 0 => ~Keeps(inf[cur])
          /\ cur' = Min(Unused)
          /\ inf' = [s \in Slots |-> IF s = cur' THEN Fresh ELSE IF s = cur THEN retired(s) ELSE inf[s]]
          /\ Hold(r, cur', FALSE)
    /\ UNCHANGED <<secret, grant, left>>

\* Fault: the informer that is replaced is not halted.
entryForLeaks(r) == readEntry(r, LAMBDA s : inf[s])

entryFor(r) ==
    readEntry(r, LAMBDA s : IF HeldBy(s) = {} THEN Gone ELSE [inf[s] EXCEPT !.phase = "halted"])

\* waitSynced, first load of a round: the failure.
LoadFailure(r) ==
    /\ rd[r].pc = "load"
    /\ rd' = [rd EXCEPT ![r].pc = "decide", ![r].failure = inf[rd[r].slot].failure]
    /\ UNCHANGED <<secret, grant, left, cur, inf>>

Answer(r, res) == [rd EXCEPT ![r].pc = "done", ![r].result = res, ![r].failure = NoFailure]
Live0(r) == [rd EXCEPT ![r].pc = "live", ![r].failure = NoFailure]

\* The stored or live Secret as the channel code takes it: only with the label.
channelCredential(v) == IF v = "absent" THEN "notfound" ELSE IF v = "bare" THEN "unlabelled" ELSE "value"

\* The other loads of the round, in their order.  A refusal is answered with
\* the failure loaded first, which may be nil when the list failed meanwhile.
Decide(r) ==
    LET i == inf[rd[r].slot]
        f == rd[r].failure
        goesLive == i.getOnly \/ f.getAllowed
        refused == i.revoked \/ f.kind = "forbidden"
    IN  /\ rd[r].pc = "decide"
        /\ \/ goesLive /\ rd' = Live0(r)
           \/ /\ ~goesLive /\ refused
              /\ rd' = Answer(r, IF f.kind = "nil" THEN "panic" ELSE "forbidden")
           \/ ~goesLive /\ ~refused /\ i.synced /\ rd' = Answer(r, channelCredential(i.store))
           \/ ~goesLive /\ ~refused /\ ~i.synced /\ f.kind # "nil" /\ rd' = Answer(r, "error")
           \/ /\ ~goesLive /\ ~refused /\ ~i.synced /\ f.kind = "nil"
              /\ rd' \in {Live0(r), [rd EXCEPT ![r].pc = "load"]}
        /\ UNCHANGED <<secret, grant, left, cur, inf>>

LiveGet(r) ==
    /\ rd[r].pc = "live"
    /\ rd' = Answer(r, IF grant = "none" THEN "forbidden" ELSE channelCredential(secret))
    /\ UNCHANGED <<secret, grant, left, cur, inf>>

Return(r) ==
    /\ rd[r].pc = "done" /\ rd' = [rd EXCEPT ![r] = Resting]
    /\ inf' = [s \in Slots |-> IF s # cur /\ \A q \in Readers : rd'[q].slot # s THEN Gone ELSE inf[s]]
    /\ UNCHANGED <<secret, grant, left, cur>>

\* The janitor drops an informer nobody has used for IdleTTL.
janitor ==
    /\ cur # 0 /\ \A r \in Readers : rd[r].slot # cur
    /\ cur' = 0 /\ inf' = [inf EXCEPT ![cur] = Gone]
    /\ UNCHANGED <<secret, grant, left, rd>>

WNext == \/ ChangeSecret \/ ChangeGrant \/ janitor
         \/ \E s \in Slots : ErrorTTLPasses(s) \/ List(s) \/ stopOnForbidden(s) \/ WatchEvent(s)
                             \/ WatchTimesOut(s)
         \/ \E r \in Readers : entryFor(r) \/ LoadFailure(r) \/ Decide(r) \/ LiveGet(r) \/ Return(r)

WSpec == WInit /\ [][WNext]_wvars

(***************************************************************************)
(* Properties.                                                             *)
(***************************************************************************)

\* A read that begins while the grant is gone and the informer has been told
\* so never returns the Secret from the store, while the grant stays away.
RefusalNotOverridden == \A r \in Readers : rd[r].denied => rd[r].result \notin {"value", "unlabelled"}

\* At most one informer of the Secret runs, whatever readers still hold: a
\* replaced or dropped one is halted.
OneInformer == Cardinality({s \in Slots : inf[s].phase # "halted"}) <= 1

\* A refused read is answered with the refusal it met (waitSynced: "otherwise
\* it returns the refusal").
RefusalAnswered == \A r \in Readers : rd[r].result # "panic"

\* One informer per Secret, and no answer from one that was refused (entryFor,
\* waitSynced).
WatchesSound == OneInformer /\ RefusalNotOverridden
=============================================================================
