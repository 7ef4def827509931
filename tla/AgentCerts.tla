----------------------------- MODULE AgentCerts -----------------------------
(***************************************************************************)
(* An agent's TLS material (agentruntime/tls.go, gateway.go).  The kubelet *)
(* swaps all files of the mount at once, while the reloader reads them one *)
(* by one: a swap may fall between any two reads, and between the first    *)
(* load and the watch.  A generation may not parse.  Connections read what *)
(* is held at several moments of a reload.                                 *)
(***************************************************************************)
EXTENDS Naturals

CONSTANT Swaps     \* bound: rotations of the volume
ASSUME SwapsBound == Swaps \in Nat

VARIABLES shown,     \* the generation the mount shows
          wholly,    \* per generation, what of it parses: [pair, ca]
          watched,   \* the watch on the directory is anchored
          notices,   \* swaps of ..data the watcher has not taken yet
          kept,      \* what the reloader holds: [cert, ca, gen]
          reading,   \* the reload in progress: [pc, cert, ca]
          transport, \* reloadingTransport: [gen, pool]
          request,   \* the call it serves: [pc, seen, pool, began]
          shake,     \* an inbound handshake: [pc, ca, cert, began]
          missed     \* ghost: a swap fell before the watch, and none since

acvars == <<shown, wholly, watched, notices, kept, reading, transport, request, shake, missed>>

Generations == 1..(Swaps + 1)
NotReading == [pc |-> "idle", cert |-> 0, ca |-> 0]
NoRequest == [pc |-> "idle", seen |-> 0, pool |-> 0, began |-> 0]
NoShake == [pc |-> "idle", ca |-> 0, cert |-> 0, began |-> 0]
ACInit ==
    /\ shown = 1 /\ wholly \in [Generations -> [pair : BOOLEAN, ca : BOOLEAN]]
    /\ watched = FALSE /\ notices = 0 /\ kept = [cert |-> 0, ca |-> 0, gen |-> 0]
    /\ reading = [NotReading EXCEPT !.pc = "cert"] /\ transport = [gen |-> 0, pool |-> 0]
    /\ request = NoRequest /\ shake = NoShake /\ missed = FALSE

\* The kubelet renames ..data; the watcher is told if it is there.
Swap ==
    /\ shown <= Swaps /\ shown' = shown + 1
    /\ IF watched THEN notices' = notices + 1 /\ UNCHANGED missed
                  ELSE missed' = (reading.pc # "cert" \/ kept.gen > 0 \/ missed) /\ UNCHANGED notices
    /\ UNCHANGED <<wholly, watched, kept, reading, transport, request, shake>>

(***************************************************************************)
(* reload: certificate, key, bundle, and the exchange under the lock.      *)
(***************************************************************************)
\* A failed first load ends New, and the process starts again; a later one
\* is logged, and the reloader keeps what it holds.
reloadFails == /\ reading' = IF kept.gen = 0 THEN [NotReading EXCEPT !.pc = "cert"] ELSE NotReading
               /\ missed' = (missed /\ kept.gen > 0)
readCert == /\ reading.pc = "cert" /\ reading' = [reading EXCEPT !.pc = "key", !.cert = shown]
            /\ UNCHANGED <<shown, wholly, watched, notices, kept, transport, request, shake, missed>>
\* A key of another generation fits only if the renewal kept the key.
readKey(sameKey) ==
    /\ reading.pc = "key"
    /\ IF wholly[reading.cert].pair /\ wholly[shown].pair /\ (reading.cert = shown \/ sameKey)
       THEN reading' = [reading EXCEPT !.pc = "ca"] /\ UNCHANGED missed
       ELSE reloadFails
    /\ UNCHANGED <<shown, wholly, watched, notices, kept, transport, request, shake>>
readCA ==
    /\ reading.pc = "ca"
    /\ IF wholly[shown].ca THEN reading' = [reading EXCEPT !.pc = "publish", !.ca = shown] /\ UNCHANGED missed
                           ELSE reloadFails
    /\ UNCHANGED <<shown, wholly, watched, notices, kept, transport, request, shake>>
publish ==
    /\ reading.pc = "publish" /\ reading' = NotReading
    /\ kept' = [cert |-> reading.cert, ca |-> reading.ca, gen |-> kept.gen + 1]
    /\ UNCHANGED <<shown, wholly, watched, notices, transport, request, shake, missed>>

\* watch anchors on the directory when the agent begins to serve, and takes
\* the events one by one.
watch == /\ ~watched /\ kept.gen > 0 /\ watched' = TRUE
         /\ UNCHANGED <<shown, wholly, notices, kept, reading, transport, request, shake, missed>>
onEvent == /\ watched /\ notices > 0 /\ reading.pc = "idle" /\ notices' = notices - 1
           /\ reading' = [NotReading EXCEPT !.pc = "cert"] /\ missed' = FALSE
           /\ UNCHANGED <<shown, wholly, watched, kept, transport, request, shake>>

(***************************************************************************)
(* Connections.  reloadingTransport compares generations and then builds   *)
(* its trust from the pool held by then.                                   *)
(***************************************************************************)
RoundTrip ==
    /\ request.pc = "idle" /\ kept.gen > 0
    /\ request' = IF transport.gen = kept.gen
                  THEN [pc |-> "sent", seen |-> kept.gen, pool |-> transport.pool, began |-> kept.gen]
                  ELSE [pc |-> "build", seen |-> kept.gen, pool |-> 0, began |-> kept.gen]
    /\ UNCHANGED <<shown, wholly, watched, notices, kept, reading, transport, shake, missed>>
clientTLSConfig == /\ request.pc = "build" /\ request' = [request EXCEPT !.pc = "install", !.pool = kept.gen]
                   /\ UNCHANGED <<shown, wholly, watched, notices, kept, reading, transport, shake, missed>>
installLate == /\ request.pc = "install" /\ request' = [request EXCEPT !.pc = "sent"]
               /\ transport' = [gen |-> kept.gen, pool |-> request.pool]
               /\ UNCHANGED <<shown, wholly, watched, notices, kept, reading, shake, missed>>
install == /\ request.pc = "install" /\ request' = [request EXCEPT !.pc = "sent"]
           /\ transport' = [gen |-> request.seen, pool |-> request.pool]
           /\ UNCHANGED <<shown, wholly, watched, notices, kept, reading, shake, missed>>
RequestEnds == /\ request.pc = "sent" /\ request' = NoRequest
               /\ UNCHANGED <<shown, wholly, watched, notices, kept, reading, transport, shake, missed>>

\* serverTLSConfig: the pool for the hello, the certificate after it.
serverTLSConfig ==
    /\ watched
    /\ \/ shake.pc = "idle" /\ shake' = [pc |-> "hello", ca |-> kept.gen, cert |-> 0, began |-> kept.gen]
       \/ shake.pc = "hello" /\ shake' = [shake EXCEPT !.pc = "done", !.cert = kept.gen]
       \/ shake.pc = "done" /\ shake' = NoShake
    /\ UNCHANGED <<shown, wholly, watched, notices, kept, reading, transport, request, missed>>

ACNext ==
    \/ Swap \/ readCert \/ readCA \/ publish \/ watch \/ onEvent
    \/ \E same \in BOOLEAN : readKey(same)
    \/ RoundTrip \/ clientTLSConfig \/ install \/ RequestEnds \/ serverTLSConfig

(***************************************************************************)
(* What a rotation promises.                                               *)
(***************************************************************************)
\* With no reload under way and no event waiting, the agent holds the
\* certificate and the bundle the mount shows, if they parse, whichever reads
\* the swaps fell between: a reload that a swap spoilt is followed by one for
\* that swap.  A swap between the first load and the watch goes unnoticed
\* until the next (newCertReloader, watch).
QuietFresh ==
    watched /\ notices = 0 /\ reading.pc = "idle" /\ ~missed /\ wholly[shown].pair /\ wholly[shown].ca =>
        kept.cert = shown /\ kept.ca = shown

\* A call or a handshake uses material at least as new as was held when it
\* began: the transport never takes an old pool for the new generation's
\* (reloadingTransport.RoundTrip, serverTLSConfig).
ConnectionsFresh ==
    /\ request.pc = "sent" => request.pool >= request.began
    /\ shake.pc = "done" => shake.ca >= shake.began /\ shake.cert >= shake.ca
=============================================================================
