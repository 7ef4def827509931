----------------------------- MODULE MCSettles -----------------------------
(***************************************************************************)
(* Parts that share no state, each from all of its initial states with     *)
(* the others left at one: the questions about what eventually happens.    *)
(***************************************************************************)
EXTENDS ChannelRecords, ChannelCondition, CredentialGrant, ProviderPass, ReplyRelay, DrainSequence,
        StorageMigration

CONSTANTS g1, g2
VARIABLE part   \* the part this behaviour is about

\* One record's life under four plans: a callback cut short by a crash, the
\* name used again, two replicas, and a channel that stops being valid.
Plan == [uids |-> 1, crashes |-> 0, toggles |-> 0, callback |-> FALSE, cut |-> FALSE, gates |-> {g1}]
MCPlans == {[Plan EXCEPT !.callback = TRUE, !.cut = TRUE, !.crashes = 1], [Plan EXCEPT !.uids = 2],
            [Plan EXCEPT !.gates = {g1, g2}], [Plan EXCEPT !.toggles = 1]}

Init ==
    /\ part \in {"records", "condition", "grant", "pass", "relay", "drain", "migration"}
    /\ IF part # "migration" THEN leader = g1 /\ storage = OldVersion /\ objects = <<>> ELSE TRUE
    /\ RInit /\ CInit /\ KInit /\ PPInit /\ RYInit /\ DRInit /\ SMInit
    /\ part # "records" => plan = [Plan EXCEPT !.toggles = 1]
    /\ part # "grant" => /\ spec.inbound = SecretNames /\ spec.callback = {}
                         /\ kind = [n \in SecretNames |-> "good"]
    /\ part # "pass" => what = "model"
    /\ part # "relay" => resp = [kind |-> "json", body |-> <<"usage">>, declared |-> 1, slot |-> FALSE]
    /\ part # "drain" => delay = 0

Next ==
    /\ UNCHANGED part
    /\ \/ part = "records" /\ RNext /\ UNCHANGED <<cvars, kvars, ppvars, ryvars, drvars, smvars>>
       \/ part = "condition" /\ CNext /\ UNCHANGED <<rvars, kvars, ppvars, ryvars, drvars, smvars>>
       \/ part = "grant" /\ KNext /\ UNCHANGED <<rvars, cvars, ppvars, ryvars, drvars, smvars>>
       \/ part = "pass" /\ PPNext /\ UNCHANGED <<rvars, cvars, kvars, ryvars, drvars, smvars>>
       \/ part = "relay" /\ RYNext /\ UNCHANGED <<rvars, cvars, kvars, ppvars, drvars, smvars>>
       \/ part = "drain" /\ DRNext /\ UNCHANGED <<rvars, cvars, kvars, ppvars, ryvars, smvars>>
       \/ part = "migration" /\ SMNext /\ UNCHANGED <<rvars, cvars, kvars, ppvars, ryvars, drvars>>

\* The fairness of each part, of the part this behaviour is about.
Fair ==
    /\ WF_rvars(part = "records" /\ RProgress)
    /\ WF_cvars(part = "condition" /\ CTick) /\ WF_cvars(part = "condition" /\ reduceChannelHealth)
    /\ WF_kvars(part = "grant" /\ KStep) /\ \A n \in SecretNames : WF_kvars(part = "grant" /\ SyncSecret(n))
    /\ \A ks \in Informers : WF_kvars(part = "grant" /\ SyncObjects(ks))
    /\ WF_ppvars(part = "pass" /\ PassStep) /\ WF_ppvars(part = "pass" /\ DeliverDep)
    /\ WF_ppvars(part = "pass" /\ DeliverUsers) /\ WF_ppvars(part = "pass" /\ TimerFires)
    /\ WF_ppvars(part = "pass" /\ \E n \in 1..Len(resFeed) : DeliverRes(n))
    /\ WF_ryvars(part = "relay" /\ idle) /\ WF_ryvars(part = "relay" /\ Proceed)
    /\ WF_drvars(part = "drain" /\ Steps0) /\ WF_drvars(part = "drain" /\ Probe) /\ WF_drvars(part = "drain" /\ Tick0)
    /\ WF_smvars(part = "migration" /\ MigrateStep(leader))

allvars == <<part, rvars, cvars, kvars, ppvars, ryvars, drvars, smvars>>
Spec == Init /\ [][Next]_allvars /\ Fair

\* Tells states apart as allvars does: the other parts never move.
PartView == CASE part = "records" -> <<part, rvars>> [] part = "condition" -> <<part, cvars>>
              [] part = "grant" -> <<part, kvars>> [] part = "pass" -> <<part, ppvars>>
              [] part = "relay" -> <<part, ryvars>> [] part = "drain" -> <<part, drvars>>
              [] part = "migration" -> <<part, smvars>>

\* What holds of a channel throughout: no record goes early, no answer is
\* lost, the sweep of a deletion is final, and the gateway is granted only
\* Secrets that opted in.
ChannelSafe == RTypeOK /\ NoEarlyLoss /\ AnswerSomewhere /\ SweepFinal /\ NeverUnlabelled

\* What no step may do: take an answer back from a poller, turn the condition
\* without cause, touch a Role that is another's, release a delete over a user.
StepsSound == PollMonotone /\ ConnectedEarned /\ OthersKept /\ UsersHold

\* Where the parts come to rest once edits and failures stop: the grant and
\* the reason follow the Secrets (scopeCredentialRoles, validateSecrets), a
\* provider's status describes it and a delete without users is released
\* (probeSchedule, heldResult), a relay has ended whatever the provider does
\* (attemptWatchdog), a drain with the process, and a CRD is migrated although
\* passes fail and the lead moves (Start).
Settled == /\ part = "grant" => GrantRight /\ ReasonRight
           /\ part = "pass" => StatusRight /\ (res.del /\ ~users => res.gone)
           /\ part = "relay" => relay.at = "ended"
           /\ part = "drain" => (draining => proc = "exited")
           /\ part = "migration" => Migrated

\* Everything that must happen happens: records are reaped, a channel's
\* deletion ends, a silent channel shows Unknown, and the other parts settle.
EverythingSettles == RecordsReaped /\ DeletionCompletes /\ SilenceShown /\ <>[]Settled
=============================================================================
