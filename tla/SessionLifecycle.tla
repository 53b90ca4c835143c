-------------------------- MODULE SessionLifecycle --------------------------
(***************************************************************************)
(* The lifecycle graph of a charging session, as sessions.service.ts       *)
(* declares it in SESSION_STATE_TRANSITIONS: a session is created PENDING  *)
(* through the app, or ACTIVE by a charger, and then only moves along the  *)
(* graph.                                                                  *)
(***************************************************************************)
CONSTANT Sessions

VARIABLE status   \* sessions.status, "NONE" before the row exists

Statuses == {"NONE", "PENDING", "AUTHORIZED", "ACTIVE", "COMPLETED", "FAILED", "CANCELLED"}

Transitions ==
  [NONE       |-> {"PENDING", "ACTIVE"},
   PENDING    |-> {"AUTHORIZED", "CANCELLED"},
   AUTHORIZED |-> {"ACTIVE", "CANCELLED"},
   ACTIVE     |-> {"COMPLETED", "FAILED"},
   COMPLETED  |-> {},
   FAILED     |-> {},
   CANCELLED  |-> {}]

Init == status = [s \in Sessions |-> "NONE"]

Move(s) == \E to \in Transitions[status[s]] : status' = [status EXCEPT ![s] = to]

Next == \E s \in Sessions : Move(s)

Spec == Init /\ [][Next]_status

=============================================================================
