----------------------------- MODULE HealthStore -----------------------------
(***************************************************************************)
(* One gateway replica's delivery observations for one channel path.  An   *)
(* observation is stamped before the lock is taken, so that two requests   *)
(* record in either order; the store drops what is too old only when it is *)
(* touched, keeps the newest success apart, and bounds the failures.  A    *)
(* time is kept as the age it has now, from 0 to HealthWindow, which means *)
(* out of the rolling window.                                              *)
(***************************************************************************)
EXTENDS Naturals, Sequences, SequencesExt

CONSTANTS HealthWindow,   \* the rolling window, in ticks
          Cap,            \* maxChannelObservations
          InFlight        \* requests between their stamp and the lock

ASSUME StoreBounds == HealthWindow \in Nat \ {0} /\ Cap \in Nat \ {0} /\ InFlight \in Nat \ {0}

VARIABLES success,   \* age of the success kept; HealthWindow + 1 is none
          failures,  \* ages of the failures kept, in the order recorded
          kept,      \* the path has an entry in the map
          pruned,    \* age of lastPrune
          flying,    \* observations stamped and not yet recorded
          lastOk, lastBad \* ghosts: ages of the newest observations recorded

hvars == <<success, failures, kept, pruned, flying, lastOk, lastBad>>

NoMark == HealthWindow + 1
OlderMark(a) == IF a < HealthWindow THEN a + 1 ELSE a
Newer(a, b) == IF a < b THEN a ELSE b

HInit ==
    /\ success = NoMark /\ failures = <<>> /\ kept = FALSE /\ pruned = HealthWindow
    /\ flying = <<>> /\ lastOk = HealthWindow /\ lastBad = HealthWindow

\* inWindow: the success or any failure.
inWindow(s, f) == s < HealthWindow \/ \E i \in DOMAIN f : f[i] < HealthWindow

Observe(ok) ==
    /\ Len(flying) < InFlight /\ flying' = Append(flying, [ok |-> ok, age |-> 0])
    /\ UNCHANGED <<success, failures, kept, pruned, lastOk, lastBad>>

\* What a recorded failure leaves: the last Cap - 1 of the window, then itself.
withFailure(f, a) ==
    LET live == SelectSeq(f, LAMBDA x : x < HealthWindow)
        from == IF Len(live) >= Cap THEN Len(live) - Cap + 2 ELSE 1
    IN  Append(SubSeq(live, from, Len(live)), a)

\* Fault: a success that was stamped earlier replaces a newer one.
newestSuccessLast(s, obs) == IF obs.ok THEN obs.age ELSE IF s >= HealthWindow THEN NoMark ELSE s

\* The success kept after an observation: the newer by its stamp.
newestSuccess(s, obs) ==
    LET old == IF s >= HealthWindow THEN NoMark ELSE s IN
    IF obs.ok /\ obs.age <= old THEN obs.age ELSE old

\* record: the sweep of the whole map at most once per window, then the path.
record(i) ==
    LET obs == flying[i]
        drop == pruned >= HealthWindow /\ ~inWindow(success, failures)
        s == IF drop \/ ~kept THEN NoMark ELSE success
        f == IF drop \/ ~kept THEN <<>> ELSE failures
    IN  /\ flying' = RemoveAt(flying, i)
        /\ success' = newestSuccess(s, obs)
        /\ failures' = IF obs.ok THEN f ELSE withFailure(f, obs.age)
        /\ kept' = TRUE /\ pruned' = IF pruned >= HealthWindow THEN 0 ELSE pruned
        /\ lastOk' = IF obs.ok THEN Newer(lastOk, obs.age) ELSE lastOk
        /\ lastBad' = IF obs.ok THEN lastBad ELSE Newer(lastBad, obs.age)

\* pruneLocked, by Snapshot or by a record of another path.
pruneLocked ==
    /\ kept' = (kept /\ inWindow(success, failures))
    /\ success' = IF kept' THEN success ELSE NoMark
    /\ failures' = IF kept' THEN failures ELSE <<>>
    /\ pruned' = 0
    /\ UNCHANGED <<flying, lastOk, lastBad>>

HTick ==
    /\ success' = IF success = NoMark THEN NoMark ELSE OlderMark(success)
    /\ failures' = [i \in DOMAIN failures |-> OlderMark(failures[i])]
    /\ pruned' = OlderMark(pruned)
    /\ flying' = [i \in DOMAIN flying |-> [flying[i] EXCEPT !.age = OlderMark(@)]]
    /\ lastOk' = OlderMark(lastOk) /\ lastBad' = OlderMark(lastBad)
    /\ UNCHANGED kept

HNext == \/ \E ok \in BOOLEAN : Observe(ok)
         \/ \E i \in DOMAIN flying : record(i)
         \/ pruneLocked \/ HTick

\* The channel's entry of Snapshot: its state and the ages of the newest
\* success and failure it reports.  Ages out of the window count as HealthWindow.
Snapshot ==
    LET ok == IF success < HealthWindow THEN success ELSE HealthWindow
        bad == FoldLeft(LAMBDA a, x : Newer(a, x), HealthWindow, failures)
    IN  [state |-> IF ~kept \/ ~inWindow(success, failures) THEN "none"
                   ELSE IF ok < HealthWindow THEN "success" ELSE "failure",
         ok |-> ok, bad |-> bad]

\* The list of failures is bounded.
HTypeOK == Len(failures) <= Cap /\ success \in 0..NoMark /\ (~kept => failures = <<>>)

\* Whatever was dropped, trimmed or recorded out of order, a snapshot reports
\* what all the observations of the window would: the newest success if there
\* is one, else the newest failure, else nothing.
StoreExact ==
    Snapshot = [state |-> IF lastOk < HealthWindow THEN "success"
                          ELSE IF lastBad < HealthWindow THEN "failure" ELSE "none",
                ok |-> lastOk, bad |-> lastBad]
=============================================================================
