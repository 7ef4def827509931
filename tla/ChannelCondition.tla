-------------------------- MODULE ChannelCondition --------------------------
(***************************************************************************)
(* The PlatformConnected condition of a channel.  The reconciler asks      *)
(* every gateway replica for its snapshot (HealthStore shows what one is), *)
(* keeps the answers for a while, and reduces them by four rules.          *)
(* Replicas restart with an empty store and may be out of reach.  Ages     *)
(* stop at their limits, so time is not bounded.                           *)
(***************************************************************************)
EXTENDS Naturals

CONSTANTS Replicas, Window, \* the replicas and their rolling window, in ticks
          CacheWindow       \* activityCacheWindow, in ticks

ASSUME ConditionBounds == Window \in Nat \ {0} /\ CacheWindow \in Nat \ {0}

VARIABLES ok, bad,    \* age of a replica's newest success and failure
          up,         \* age of a replica
          down,       \* replicas out of reach
          everOk,     \* ghost: age of the newest success anywhere, restarts or not
          cache,      \* the answers kept: their age, and one per replica reached
          cond        \* the condition's status

cvars == <<ok, bad, up, down, everOk, cache, cond>>

Older(a, limit) == IF a < limit THEN a + 1 ELSE a
NoAnswers == [age |-> CacheWindow, from |-> {}, state |-> [g \in Replicas |-> "none"],
              full |-> [g \in Replicas |-> FALSE]]

CInit ==
    /\ ok = [g \in Replicas |-> Window] /\ bad = ok /\ up = [g \in Replicas |-> 0]
    /\ down = {} /\ everOk = Window + CacheWindow /\ cache = NoAnswers /\ cond = "none"

Succeed(g) == /\ ok' = [ok EXCEPT ![g] = 0] /\ everOk' = 0
              /\ UNCHANGED <<bad, up, down, cache, cond>>
Fail(g) == bad' = [bad EXCEPT ![g] = 0] /\ UNCHANGED <<ok, up, down, everOk, cache, cond>>
Restart(g) ==
    /\ ok' = [ok EXCEPT ![g] = Window] /\ bad' = [bad EXCEPT ![g] = Window]
    /\ up' = [up EXCEPT ![g] = 0] /\ UNCHANGED <<down, everOk, cache, cond>>
Reach(g) ==
    /\ down' = IF g \in down THEN down \ {g} ELSE down \cup {g}
    /\ UNCHANGED <<ok, bad, up, everOk, cache, cond>>

CTick ==
    /\ ok' = [g \in Replicas |-> Older(ok[g], Window)]
    /\ bad' = [g \in Replicas |-> Older(bad[g], Window)]
    /\ up' = [g \in Replicas |-> Older(up[g], Window)]
    /\ everOk' = Older(everOk, Window + CacheWindow)
    /\ cache' = [cache EXCEPT !.age = Older(@, CacheWindow)]
    /\ UNCHANGED <<down, cond>>

\* The fan-out: one snapshot of every replica reached.
fetched ==
    [age |-> 0, from |-> Replicas \ down,
     state |-> [g \in Replicas |-> IF g \in down THEN "none"
                                   ELSE IF ok[g] < Window THEN "success"
                                   ELSE IF bad[g] < Window THEN "failure" ELSE "none"],
     full |-> [g \in Replicas |-> g \notin down /\ up[g] >= Window]]

NamespaceChannelHealth == IF cache.age < CacheWindow THEN cache ELSE fetched

\* Rules 1 to 4 of reduceChannelHealth over the answers a.
reduced(a) ==
    IF a.from = {} THEN cond
    ELSE IF \E g \in a.from : a.state[g] = "success" THEN "True"
    ELSE IF \E g \in a.from : a.state[g] = "failure" THEN "False"
    ELSE IF \E g \in a.from : a.full[g] THEN "Unknown" ELSE cond

reduceChannelHealth ==
    /\ cache' = NamespaceChannelHealth
    /\ cond' = reduced(cache')
    /\ UNCHANGED <<ok, bad, up, down, everOk>>

CNext == \/ \E g \in Replicas : Succeed(g) \/ Fail(g) \/ Restart(g) \/ Reach(g)
         \/ CTick \/ reduceChannelHealth

\* The condition turns True only for a success no older than the window and
\* the time an answer is kept, and never turns False while a replica that just
\* answered holds a success of the window.
ConnectedEarned ==
    [][/\ cond # "True" /\ cond' = "True" => everOk < Window + CacheWindow
       /\ cond # "False" /\ cond' = "False" /\ cache'.age = 0 /\ cache.age = CacheWindow
          => \A g \in Replicas \ down : ok[g] >= Window]_cvars

\* When all traffic stops and every replica stays in reach, the condition ends
\* at Unknown: no answer is believed for ever.
SilenceShown ==
    <>[](down = {} /\ \A g \in Replicas : ok[g] = Window /\ bad[g] = Window /\ up[g] = Window)
      => <>[](cond = "Unknown")
=============================================================================
