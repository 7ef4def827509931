---------------------------- MODULE CallbackTarget ----------------------------
(***************************************************************************)
(* Where a callback goes.  The reconciler resolves the callback host and   *)
(* refuses a channel that points into internal space; the gateway resolves *)
(* again before every attempt, checks the address, and dials that address  *)
(* or reuses a pooled connection to the host.  The name's addresses and    *)
(* the Secret that carries a bearer token may change between any two steps.*)
(***************************************************************************)
EXTENDS Naturals, Sequences, SequencesExt, FiniteSets

CONSTANTS Entries,  \* the operator's allowlist
          DnsEdits, Tries

ASSUME TargetBounds == DnsEdits \in Nat /\ Tries \in Nat \ {0}

\* Addresses by the ranges the policy tells apart: loopback and link-local,
\* private, shared space, and public.
Addresses == {"loopback", "linklocal", "private", "shared", "public"}
Answers == {<<>>} \cup {<<a>> : a \in Addresses} \cup {<<a, b>> : a \in {"public", "private"}, b \in Addresses}

(***************************************************************************)
(* The policy.                                                             *)
(***************************************************************************)
\* An entry is the range it opens, or "host" for a suffix of the host's name.
matches(a) == "host" \in Entries \/ a \in Entries
\* Loopback and link-local are never a target, an allowlist match is; then
\* private and shared space are not.
Allowed(a) == a \notin {"loopback", "linklocal"} /\ (matches(a) \/ a \notin {"private", "shared"})

VARIABLES dns, token, changes, \* the host's addresses, the token's approval
          ready, unresolved, warned, \* the channel, the noted host, the warnings
          attempt, pool        \* the delivery, and the pooled connection

tvars == <<dns, token, changes, ready, unresolved, warned, attempt, pool>>

NoAttempt == [pc |-> "none", tries |-> 0, ip |-> "none", used |-> "none", outcome |-> "none"]
TInit == /\ dns \in Answers /\ token \in BOOLEAN /\ changes = DnsEdits
         /\ ready = FALSE /\ unresolved = FALSE /\ warned = 0 /\ attempt = NoAttempt /\ pool = "none"

ChangeDns == /\ changes > 0 /\ changes' = changes - 1 /\ dns' \in Answers \ {dns}
             /\ UNCHANGED <<token, ready, unresolved, warned, attempt, pool>>
ChangeToken == /\ changes > 0 /\ changes' = changes - 1 /\ token' = ~token
               /\ UNCHANGED <<dns, ready, unresolved, warned, attempt, pool>>

\* The reconciler: every address must be allowed; a host that does not resolve
\* passes, with one warning until it resolves or the channel fails.
validateCallbackURL ==
    LET blocked == \E i \in DOMAIN dns : ~Allowed(dns[i]) IN
    /\ ready' = ~blocked
    /\ unresolved' = (~blocked /\ dns = <<>>)
    /\ warned' = IF unresolved' /\ ~unresolved THEN 1 ELSE warned
    /\ <<ready', unresolved', warned'>> # <<ready, unresolved, warned>>
    /\ UNCHANGED <<dns, token, changes, attempt, pool>>

(***************************************************************************)
(* The gateway.                                                            *)
(***************************************************************************)
Ends(outcome) == [attempt EXCEPT !.pc = "done", !.outcome = outcome]
Again == IF attempt.tries = Tries THEN Ends("exhausted") ELSE [attempt EXCEPT !.pc = "secret"]

sendCallbackTo == /\ attempt.pc = "none" /\ ready /\ attempt' = [NoAttempt EXCEPT !.pc = "secret"]
                /\ UNCHANGED <<dns, token, changes, ready, unresolved, warned, pool>>

\* The Secret is read before each attempt; a token not approved for the host
\* ends the delivery.
callbackSecret ==
    /\ attempt.pc = "secret"
    /\ attempt' = IF token THEN [attempt EXCEPT !.pc = "resolve", !.tries = @ + 1]
                  ELSE Ends("invalid")
    /\ UNCHANGED <<dns, token, changes, ready, unresolved, warned, pool>>

\* The host is resolved and its first address checked.
Resolve ==
    /\ attempt.pc = "resolve"
    /\ attempt' = IF dns = <<>> THEN Again
                  ELSE IF ~Allowed(Head(dns)) THEN Ends("invalid")
                  ELSE [attempt EXCEPT !.pc = "dial", !.ip = Head(dns)]
    /\ UNCHANGED <<dns, token, changes, ready, unresolved, warned, pool>>

\* The dial goes to the address of the attempt's context.
dialCallbackTLS(a) == a

\* A pooled connection of the host is used again, or one is dialled.
dialCallbackOnce ==
    LET conn == IF pool # "none" THEN pool ELSE dialCallbackTLS(attempt.ip) IN
    /\ attempt.pc = "dial"
    /\ \E status \in {"2xx", "terminal", "other", "refused"} :
        /\ pool' = IF status = "refused" THEN "none" ELSE conn
        /\ attempt' = [(CASE status = "2xx" -> Ends("delivered")
                          [] status = "terminal" -> Ends("rejected")
                          [] OTHER -> Again) EXCEPT !.used = conn, !.ip = "none"]
    /\ UNCHANGED <<dns, token, changes, ready, unresolved, warned>>

\* The next delivery; the pool closes idle connections.
NextDelivery == /\ attempt.pc = "done" /\ attempt' = NoAttempt
                /\ UNCHANGED <<dns, token, changes, ready, unresolved, warned, pool>>
IdleClosed == /\ pool # "none" /\ pool' = "none"
              /\ UNCHANGED <<dns, token, changes, ready, unresolved, warned, attempt>>

TNext == \/ ChangeDns \/ ChangeToken \/ validateCallbackURL \/ sendCallbackTo \/ callbackSecret \/ Resolve
         \/ dialCallbackOnce \/ NextDelivery \/ IdleClosed

(***************************************************************************)
(* Properties.                                                             *)
(***************************************************************************)

\* No callback is sent over a connection to loopback, link-local or unlisted
\* internal space, whatever the name resolved to before, during or after the
\* check and however long the connection was pooled (sendCallbackTo: "the dial is
\* pinned to the checked IP so an independent re-resolution cannot be rebound
\* to a blocked address").
TargetAllowed == attempt.used \notin {"loopback", "linklocal"} \cup ({"private", "shared"} \ Entries)
===============================================================================
