---------------------------- MODULE DrainSequence ----------------------------
(***************************************************************************)
(* A gateway replica from its start to its exit.  The Service routes to it *)
(* while its readiness probe succeeds; a termination, or a server that     *)
(* failed, starts the drain: not ready first, then a delay in which it     *)
(* still serves, then the listeners close, the open requests and the       *)
(* pipelines they started get a bounded time, and the health port stops.   *)
(***************************************************************************)
EXTENDS Naturals, FiniteSets

CONSTANTS Callers,   \* clients with one request each
          Delays,    \* drain delays the operator may set
          Spread     \* ticks the endpoints take to follow a failing probe

ASSUME DrainBounds == Delays \subseteq Nat /\ Spread \in Nat

VARIABLES delay,     \* the delay of this replica
          waited, failing,   \* ticks of the delay, and since the probe began to fail
          proc,      \* where Serve is
          synced, cert,   \* informers listed; serving certificate readable
          failed0,   \* a server stopped by itself, and the drain saw it
          ready0,    \* the answer of the last probe, as the Service routes by it
          draining,  \* the flags the handlers and /readyz read
          work,      \* per request: new, open, piping (its pipeline runs on), done, refused, lost
          closing,   \* requests whose reply closes their connection
          timedOut, misuse

drvars == <<delay, waited, failing, proc, synced, cert, failed0, ready0, draining, work, closing, timedOut, misuse>>

DRInit == /\ delay \in Delays /\ waited = 0 /\ failing = 0
          /\ proc = "serving" /\ synced = FALSE /\ cert = TRUE /\ failed0 = FALSE
          /\ ready0 = FALSE /\ draining = FALSE
          /\ work = [c \in Callers |-> "new"] /\ closing = {}
          /\ timedOut = FALSE /\ misuse = FALSE

Listening == proc \in {"serving", "delay"}
InHandler == {c \in Callers : work[c] = "open"}
Piping == {c \in Callers : work[c] = "piping"}

(***************************************************************************)
(* Readiness.                                                              *)
(***************************************************************************)
\* Both listeners answer a dial, the informers listed, the certificate reads.
readyzHandler == ~draining /\ Listening /\ synced /\ cert
\* A probe, and the Service's endpoints after it.
Probe == /\ proc # "exited" /\ ready0 # readyzHandler /\ ready0' = readyzHandler
         /\ UNCHANGED <<delay, waited, failing, proc, synced, cert, failed0, draining, work, closing, timedOut, misuse>>
\* Time passes; the endpoints do not stay behind a failing probe for long.
Tick0 == LET longer(n, most) == IF n < most THEN n + 1 ELSE n
             f == IF readyzHandler THEN 0 ELSE longer(failing, Spread)
             w == IF proc = "delay" THEN longer(waited, delay) ELSE waited
         IN  /\ <<f, w>> # <<failing, waited>> /\ ~(ready0 /\ failing >= Spread)
             /\ failing' = f /\ waited' = w
             /\ UNCHANGED <<delay, proc, synced, cert, failed0, ready0, draining, work, closing, timedOut, misuse>>
Sync == /\ ~synced /\ synced' = TRUE
        /\ UNCHANGED <<delay, waited, failing, proc, cert, failed0, ready0, draining, work, closing, timedOut, misuse>>
CertLost == /\ cert /\ cert' = FALSE
            /\ UNCHANGED <<delay, waited, failing, proc, synced, failed0, ready0, draining, work, closing, timedOut, misuse>>

(***************************************************************************)
(* Requests.                                                               *)
(***************************************************************************)
\* A request that is routed here, or comes on a connection kept open.
Arrive(c, kept) ==
    /\ work[c] = "new" /\ proc # "exited"
    /\ IF kept THEN Listening ELSE ready0
    /\ work' = [work EXCEPT ![c] = IF Listening THEN "open" ELSE "refused"]
    /\ closing' = IF draining /\ Listening THEN closing \cup {c} ELSE closing
    /\ UNCHANGED <<delay, waited, failing, proc, synced, cert, failed0, ready0, draining, timedOut, misuse>>
\* The handler returns, or starts a pipeline that runs on after it: Add may
\* not race the Wait for a count of zero.
Reply(c, pipes) ==
    /\ work[c] = "open" /\ proc # "exited"
    /\ work' = [work EXCEPT ![c] = IF pipes THEN "piping" ELSE "done"]
    /\ misuse' = (misuse \/ (pipes /\ proc = "pending" /\ Piping = {}))
    /\ UNCHANGED <<delay, waited, failing, proc, synced, cert, failed0, ready0, draining, closing, timedOut>>
PipelineDone(c) == /\ work[c] = "piping" /\ proc # "exited" /\ work' = [work EXCEPT ![c] = "done"]
                   /\ UNCHANGED <<delay, waited, failing, proc, synced, cert, failed0, ready0, draining, closing, timedOut, misuse>>

(***************************************************************************)
(* Serve.                                                                  *)
(***************************************************************************)
\* Fault: the replica is marked draining when its listeners close.
Begin0Late(failed) ==
    /\ proc = "serving" /\ failed0' = failed
    /\ draining' = (failed \/ delay = 0)
    /\ proc' = IF failed \/ delay = 0 THEN "stopping" ELSE "delay"
    /\ UNCHANGED <<delay, waited, failing, synced, cert, ready0, work, closing, timedOut, misuse>>
\* ctx ends or a server fails; a failed server skips the delay.
Begin0(failed) ==
    /\ proc = "serving" /\ failed0' = failed
    /\ draining' = TRUE
    /\ proc' = IF failed \/ delay = 0 THEN "stopping" ELSE "delay"
    /\ UNCHANGED <<delay, waited, failing, synced, cert, ready0, work, closing, timedOut, misuse>>
\* The delay ends, by its timer or a failing server.
DelayOver(failed) ==
    /\ proc = "delay" /\ (failed \/ waited >= delay)
    /\ proc' = "stopping" /\ failed0' = failed
    /\ UNCHANGED <<delay, waited, failing, synced, cert, ready0, draining, work, closing, timedOut, misuse>>
\* The pipelines are waited for only when every handler returned.
Awaits == ~timedOut'
\* Shutdown returns: every handler did, or the timeout passed.
Shutdown ==
    /\ proc = "stopping"
    /\ timedOut' \in {t \in BOOLEAN : InHandler # {} => t}
    /\ proc' = IF Awaits THEN "pending" ELSE "health"
    /\ UNCHANGED <<delay, waited, failing, synced, cert, failed0, ready0, draining, work, closing, misuse>>
\* Every pipeline is done, or the same timeout passes.
PendingOver == /\ proc = "pending" /\ proc' = "health"
               /\ timedOut' \in {t \in BOOLEAN : (Piping # {} => t) /\ (timedOut => t)}
               /\ UNCHANGED <<delay, waited, failing, synced, cert, failed0, ready0, draining, work, closing, misuse>>
\* The health server stops last, and what still runs is lost with the process.
Exit == /\ proc = "health" /\ proc' = "exited"
        /\ work' = [c \in Callers |-> IF work[c] \in {"open", "piping"} THEN "lost" ELSE work[c]]
        /\ UNCHANGED <<delay, waited, failing, synced, cert, failed0, ready0, draining, closing, timedOut, misuse>>

Steps0 == (\E f \in BOOLEAN : DelayOver(f)) \/ Shutdown \/ PendingOver \/ Exit
DRNext == \/ Probe \/ Tick0 \/ Sync \/ CertLost \/ Steps0
          \/ \E f \in BOOLEAN : Begin0(f)
          \/ \E c \in Callers : \/ PipelineDone(c)
                                \/ \E b \in BOOLEAN : Arrive(c, b) \/ Reply(c, b)

\* A request is refused only when the drain gave the endpoints no time: the
\* delay is not longer than they take to follow the probe, or a server failed.
NoneRefused == (delay > Spread /\ ~failed0) => \A c \in Callers : work[c] # "refused"

\* Work is lost only to the timeout, handler and pipeline alike, and a
\* pipeline is never added to a count of zero that is being waited for.
WorkFinishes == /\ ~timedOut => \A c \in Callers : work[c] # "lost"
                /\ ~misuse

\* A shutdown costs no caller a request: none refused, none lost (Run).
DrainSound == NoneRefused /\ WorkFinishes
=============================================================================
