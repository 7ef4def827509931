-------------------------- MODULE MCAgentLifecycle --------------------------
(* Instances of AgentLifecycle for TLC. *)
EXTENDS AgentLifecycle

(* Two disturbances of the kinds in one set may happen in a behaviour. *)
LifeCases ==
    {{"wake", "crash"}, {"wake", "mismatch"}, {"wake", "cert"}, {"loop", "flap"},
     {"spec", "evict"}, {"spec", "cert"}, {"block", "reject", "evict"},
     {"restart", "unreachable", "wake"}, {"delete", "crash"}, {"delete", "wake"},
     {"stalePods", "wake"}, {"crash", "evict"}, {"crash", "spec"}}

(* An expired answer is fetched anew before it is read. *)
Current ==
    <<agent, cagent, fresh, pods, cpods, pass, env, store, IF Fresh THEN fetched ELSE NoAnswer,
      now, pvc, events, nEvents, seen>>
=============================================================================
