--------------------------- MODULE MessageService ---------------------------
(***************************************************************************)
(* What a gateway promises to the sender of a message: a message it takes  *)
(* is handed to the agent at most Attempts times, its outcome is given     *)
(* once, "delivered" only if the agent has handled it, and never withheld  *)
(* for ever.                                                               *)
(***************************************************************************)
EXTENDS Naturals

CONSTANTS Messages, Attempts

VARIABLES
    outcome,   \* of each message: "out" (not sent yet), "taken", "delivered" or "failed"
    handled    \* how often the agent was handed each message

svars == <<outcome, handled>>

Init ==
    /\ outcome = [m \in Messages |-> "out"]
    /\ handled = [m \in Messages |-> 0]

Take(m) ==
    /\ outcome[m] = "out"
    /\ outcome' = [outcome EXCEPT ![m] = "taken"]
    /\ UNCHANGED handled

(* A message can be refused as it comes. *)
Refuse(m) ==
    /\ outcome[m] = "out"
    /\ outcome' = [outcome EXCEPT ![m] = "failed"]
    /\ UNCHANGED handled

Handle(m) ==
    /\ outcome[m] = "taken" /\ handled[m] < Attempts
    /\ handled' = [handled EXCEPT ![m] = @ + 1]
    /\ UNCHANGED outcome

Deliver(m) ==
    /\ outcome[m] = "taken" /\ handled[m] > 0
    /\ outcome' = [outcome EXCEPT ![m] = "delivered"]
    /\ UNCHANGED handled

Fail(m) ==
    /\ outcome[m] = "taken"
    /\ outcome' = [outcome EXCEPT ![m] = "failed"]
    /\ UNCHANGED handled

Settle(m) == Deliver(m) \/ Fail(m)

Next == \E m \in Messages : Take(m) \/ Refuse(m) \/ Handle(m) \/ Settle(m)

Spec == Init /\ [][Next]_svars /\ \A m \in Messages : WF_svars(Settle(m))
=============================================================================
