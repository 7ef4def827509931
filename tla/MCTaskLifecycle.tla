--------------------------- MODULE MCTaskLifecycle ---------------------------
(* Instances of TaskLifecycle for TLC: the kinds of task, and what lags.   *)
EXTENDS TaskLifecycle

Reports(n) == [agentReported |-> TRUE, onTimeoutSucceed |-> FALSE, backoffLimit |-> n]
Exits(n) == [agentReported |-> FALSE, onTimeoutSucceed |-> TRUE, backoffLimit |-> n]
Case(s, l) == [spec |-> s, late |-> l]

Current == {Case(Reports(1), {}), Case(Exits(1), {})}
Lagging == {Case(Reports(0), {"mailbox", "gateway", "patch"}), Case(Exits(1), {"pods"})}
(* Versions are only compared with the stored one: states that differ in   *)
(* nothing else behave alike.                                              *)
Unversioned(o) == [o EXCEPT !.version = 0]
Versionless ==
    <<Unversioned(task), pods, Unversioned(mailbox), cpods, gtask, late, post, expired, attempt,
      nFaults, Unversioned(ctask), ctask.version = task.version,
      Unversioned(cbox), cbox.version = mailbox.version,
      [pass EXCEPT !.task = Unversioned(@)], pass.task.version = task.version /\ pass.pc # "idle">>
=============================================================================
