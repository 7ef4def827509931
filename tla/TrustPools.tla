----------------------------- MODULE TrustPools -----------------------------
(***************************************************************************)
(* The rotation-aware loaders of the servers (internal/tlsutil/loader.go)  *)
(* and the clients over them: an mTLS dial, which loads the certificate    *)
(* and then the pool, and the health probes' transport, which it rebuilds  *)
(* for a new pool (internal/controller/probe_client.go).  Files are        *)
(* replaced between any two of a load's stats and reads, and may for a     *)
(* time be gone or not parse.  Modification times tell versions apart.     *)
(***************************************************************************)
EXTENDS Naturals, Sequences

CONSTANTS Requests,   \* concurrent requests
          Edits       \* bound: replacements of a volume

ASSUME EditsBound == Edits \in Nat

VARIABLES client,   \* whose loaders these are: "dial" or "probe"
          disk,     \* per volume, the version it shows
          spoilt,   \* the <<volume, version>> that do not parse, or are gone
          pool0,    \* CAPoolLoader: the pool, as versions of its files, and their mtimes
          cert0,    \* CertLoader: the certificate's version and mtime
          loading,  \* the load under a loader's lock, per loader
          inner,    \* the probe transport's pool
          calls,    \* per request: [pc, cert, pool, began]
          edits,    \* replacements so far
          unsound   \* ghost: per request, its load met files that do not parse or fit

tpvars == <<client, disk, spoilt, pool0, cert0, loading, inner, calls, edits, unsound>>

\* The CA files: the identity volume's, and for probes an extra bundle.
Files == IF client = "dial" THEN <<"id">> ELSE <<"id", "extra">>
Volumes == {Files[i] : i \in 1..Len(Files)}
None0 == <<>>
Waiting == [pc |-> "idle", cert |-> 0, pool |-> None0, began |-> None0]
NoLoad == [pc |-> "free", by |-> 0, mtimes |-> <<>>, got |-> <<>>]
TPInit ==
    /\ client \in {"dial", "probe"} /\ disk = [v \in Volumes |-> 1]
    /\ spoilt \in SUBSET (Volumes \X (1..(Edits + 1)))
    /\ pool0 = [pool |-> None0, mtimes |-> None0] /\ cert0 = [cert |-> 0, mtime |-> 0]
    /\ loading = [cert |-> NoLoad, pool |-> NoLoad] /\ inner = None0
    /\ calls = [r \in Requests |-> Waiting] /\ edits = 0 /\ unsound = [r \in Requests |-> FALSE]

Bad(v) == <<v, disk[v]>> \in spoilt
\* A request whose load runs while one of its files is spoilt.
Spoils(v) == [r \in Requests |-> unsound[r] \/ (calls[r].pc \in {"cert", "pool"} /\ <<v, disk'[v]>> \in spoilt)]
Replace(v) ==
    /\ edits < Edits /\ edits' = edits + 1
    /\ disk' = [disk EXCEPT ![v] = @ + 1] /\ unsound' = Spoils(v)
    /\ UNCHANGED <<client, spoilt, pool0, cert0, loading, inner, calls>>

Begin(r) ==
    /\ calls[r].pc = "idle"
    /\ calls' = [calls EXCEPT ![r] = [Waiting EXCEPT !.pc = IF client = "dial" THEN "cert" ELSE "pool", !.began = disk]]
    /\ unsound' = [unsound EXCEPT ![r] = \E i \in 1..Len(Files) : Bad(Files[i])]
    /\ UNCHANGED <<client, disk, spoilt, pool0, cert0, loading, inner, edits>>

Unlock(l) == loading' = [loading EXCEPT ![l] = NoLoad]
Fail(r) == calls' = [calls EXCEPT ![r].pc = "failed"]

(***************************************************************************)
(* CertLoader.Certificate: stat, certificate, key.                         *)
(***************************************************************************)
HasCert(r, c) == calls' = [calls EXCEPT ![r].pc = "pool", ![r].cert = c]
certStat(r) ==
    /\ calls[r].pc = "cert" /\ loading.cert.pc = "free"
    /\ \/ Bad("id") /\ Fail(r) /\ UNCHANGED loading   \* the file is gone
       \/ cert0.cert # 0 /\ cert0.mtime = disk["id"] /\ HasCert(r, cert0.cert) /\ UNCHANGED loading
       \/ /\ cert0.cert = 0 \/ cert0.mtime # disk["id"]
          /\ loading' = [loading EXCEPT !.cert = [pc |-> "cert", by |-> r, mtimes |-> <<disk["id"]>>, got |-> <<>>]]
          /\ UNCHANGED calls
    /\ UNCHANGED <<client, disk, spoilt, pool0, cert0, inner, edits, unsound>>
certRead ==
    /\ loading.cert.pc = "cert"
    /\ loading' = [loading EXCEPT !.cert.pc = "key", !.cert.got = <<disk["id"]>>]
    /\ UNCHANGED <<client, disk, spoilt, pool0, cert0, inner, calls, edits, unsound>>
\* A pair that does not load leaves the old one in use, and its mtime.
keyRead(sameKey) ==
    /\ loading.cert.pc = "key" /\ Unlock("cert")
    /\ LET r == loading.cert.by
           c == loading.cert.got[1]
       IN  IF <<"id", c>> \notin spoilt /\ ~Bad("id") /\ (c = disk["id"] \/ sameKey)
           THEN /\ cert0' = [cert |-> c, mtime |-> loading.cert.mtimes[1]] /\ HasCert(r, c)
                /\ UNCHANGED unsound
           ELSE /\ IF cert0.cert = 0 THEN Fail(r) ELSE HasCert(r, cert0.cert)
                /\ unsound' = [unsound EXCEPT ![r] = TRUE] /\ UNCHANGED cert0
    /\ UNCHANGED <<client, disk, spoilt, pool0, inner, edits>>

(***************************************************************************)
(* CAPoolLoader.Load: the mtimes of all files, then their contents.        *)
(***************************************************************************)
HasPool(r, p) == calls' = [calls EXCEPT ![r].pc = "ready", ![r].pool = p]
\* A file that cannot be read leaves the old pool in use.
KeepPool(r) == UNCHANGED pool0 /\ IF pool0.pool = None0 THEN Fail(r) ELSE HasPool(r, pool0.pool)
LoadBegins(r) ==
    /\ calls[r].pc = "pool" /\ loading.pool.pc = "free"
    /\ loading' = [loading EXCEPT !.pool = [NoLoad EXCEPT !.pc = "stat", !.by = r]]
    /\ UNCHANGED <<client, disk, spoilt, pool0, cert0, inner, calls, edits, unsound>>
LoadStat ==
    /\ loading.pool.pc = "stat"
    /\ LET load == loading.pool
           v == Files[Len(load.mtimes) + 1]
           mtimes == Append(load.mtimes, disk[v])
       IN  \/ Bad(v) /\ KeepPool(load.by) /\ Unlock("pool")
           \/ /\ Len(mtimes) < Len(Files) /\ loading' = [loading EXCEPT !.pool.mtimes = mtimes]
              /\ UNCHANGED <<pool0, calls>>
           \/ /\ Len(mtimes) = Len(Files)
              /\ IF pool0.pool # None0 /\ pool0.mtimes = mtimes
                 THEN HasPool(load.by, pool0.pool) /\ Unlock("pool") /\ UNCHANGED pool0
                 ELSE /\ loading' = [loading EXCEPT !.pool.mtimes = mtimes, !.pool.pc = "read"]
                      /\ UNCHANGED <<pool0, calls>>
    /\ UNCHANGED <<client, disk, spoilt, cert0, inner, edits, unsound>>
Mtimes == [i \in 1..Len(Files) |-> disk[Files[i]]]
LoadStore(r, got, mtimes) == pool0' = [pool |-> got, mtimes |-> mtimes] /\ HasPool(r, got)
LoadRead ==
    /\ loading.pool.pc = "read"
    /\ LET load == loading.pool
           v == Files[Len(load.got) + 1]
           got == Append(load.got, disk[v])
       IN  \/ Bad(v) /\ KeepPool(load.by) /\ Unlock("pool")
           \/ /\ ~Bad(v) /\ Len(got) < Len(Files) /\ loading' = [loading EXCEPT !.pool.got = got]
              /\ UNCHANGED <<pool0, calls>>
           \/ ~Bad(v) /\ Len(got) = Len(Files) /\ LoadStore(load.by, got, load.mtimes) /\ Unlock("pool")
    /\ UNCHANGED <<client, disk, spoilt, cert0, inner, edits, unsound>>

(***************************************************************************)
(* The clients.                                                            *)
(***************************************************************************)
\* DialTLSContext dials with what it loaded.
DialTLSContext(r) ==
    /\ client = "dial" /\ calls[r].pc = "ready" /\ calls' = [calls EXCEPT ![r].pc = "sent"]
    /\ UNCHANGED <<client, disk, spoilt, pool0, cert0, loading, inner, edits, unsound>>
\* The probe transport is rebuilt for a pool that is not the one it was built
\* for, as it is again for a request that loaded an older one.
probeRoundTrip(r) ==
    /\ client = "probe" /\ calls[r].pc = "ready"
    /\ inner' = calls[r].pool /\ calls' = [calls EXCEPT ![r].pc = "sent", ![r].pool = inner']
    /\ UNCHANGED <<client, disk, spoilt, pool0, cert0, loading, edits, unsound>>
CallEnds(r) == /\ calls[r].pc \in {"sent", "failed"} /\ calls' = [calls EXCEPT ![r] = Waiting]
            /\ UNCHANGED <<client, disk, spoilt, pool0, cert0, loading, inner, edits, unsound>>

TPNext ==
    \/ \E v \in Volumes : Replace(v)
    \/ \E r \in Requests : \/ Begin(r) \/ certStat(r) \/ LoadBegins(r)
                           \/ DialTLSContext(r) \/ probeRoundTrip(r) \/ CallEnds(r)
    \/ certRead \/ LoadStat \/ LoadRead
    \/ \E same \in BOOLEAN : keyRead(same)

(***************************************************************************)
(* What the loaders promise.                                               *)
(***************************************************************************)
\* A connection is made with the certificate and the bundles the mounts
\* showed when it was asked for, or newer ones, wherever replacements fell
\* among the stats and reads of its load and of the loads before it; only
\* files that are gone, do not parse or do not fit each other while it loads
\* keep older ones in use (Certificate, Load, caReloadingTransport.RoundTrip).
PoolsFresh ==
    \A r \in Requests : calls[r].pc = "sent" /\ ~unsound[r] =>
        /\ \A i \in 1..Len(Files) : calls[r].pool[i] >= calls[r].began[Files[i]]
        /\ client = "dial" => calls[r].cert >= calls[r].began["id"]
=============================================================================
