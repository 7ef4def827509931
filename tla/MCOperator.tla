----------------------------- MODULE MCOperator -----------------------------
(***************************************************************************)
(* Parts of the operator and of the agents that share no state, each from  *)
(* all of its initial states with the others left at one: what a process   *)
(* keeps between passes or across restarts, and decides from caches.       *)
(***************************************************************************)
EXTENDS SecretWatch, ChannelPaths, DriftSlots, RuntimeStore, AgentCerts, TrustPools,
        EligibilityNotes, ConsoleAuth

VARIABLE part   \* the part this behaviour is about

\* The state a part is left at while the behaviour is about another.
Left ==
    /\ IF part # "secrets" THEN grant = CHOOSE g \in Grants : TRUE ELSE TRUE
    /\ IF part # "slots" THEN idling = {} ELSE TRUE
    /\ IF part # "certs" THEN wholly = [g \in Generations |-> [pair |-> TRUE, ca |-> TRUE]] ELSE TRUE
    /\ IF part # "pools" THEN client = "dial" /\ spoilt = {} ELSE TRUE
    /\ IF part # "notes" THEN found = {} ELSE TRUE
    /\ IF part # "console" THEN sort = Questions /\ until = [k \in Keys |-> Never] ELSE TRUE

Init ==
    /\ part \in {"secrets", "paths", "slots", "store", "certs", "pools", "notes", "console"}
    /\ Left
    /\ WInit /\ PInit /\ DSInit /\ RSInit /\ ACInit /\ TPInit /\ ENInit /\ CAInit

Next ==
    /\ UNCHANGED part
    /\ \/ part = "secrets" /\ WNext
       \/ part # "secrets" /\ UNCHANGED wvars
    /\ \/ part = "paths" /\ PNext
       \/ part # "paths" /\ UNCHANGED pvars
    /\ \/ part = "slots" /\ DSNext
       \/ part # "slots" /\ UNCHANGED dsvars
    /\ \/ part = "store" /\ RSNext
       \/ part # "store" /\ UNCHANGED rsvars
    /\ \/ part = "certs" /\ ACNext
       \/ part # "certs" /\ UNCHANGED acvars
    /\ \/ part = "pools" /\ TPNext
       \/ part # "pools" /\ UNCHANGED tpvars
    /\ \/ part = "notes" /\ ENNext
       \/ part # "notes" /\ UNCHANGED envars
    /\ \/ part = "console" /\ CANext
       \/ part # "console" /\ UNCHANGED cavars

\* Tells states apart as all the variables do: the other parts never move.
PartView == CASE part = "secrets" -> <<part, wvars>> [] part = "paths" -> <<part, pvars>>
              [] part = "slots" -> <<part, dsvars>> [] part = "store" -> <<part, rsvars>>
              [] part = "certs" -> <<part, acvars>> [] part = "pools" -> <<part, tpvars>>
              [] part = "notes" -> <<part, envars>> [] part = "console" -> <<part, cavars>>

Spec == Init /\ [][Next]_<<part, wvars, pvars, dsvars, rsvars, acvars, tpvars, envars, cavars>>

\* After a rotation, connections use the new certificates and pools: in the
\* agent (certReloader) and in the manager, gateway and console (CertLoader,
\* PoolLoader).
CertsFresh == QuietFresh /\ ConnectionsFresh /\ PoolsFresh
=============================================================================
