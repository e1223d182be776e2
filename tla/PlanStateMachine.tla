-------------------------- MODULE PlanStateMachine --------------------------
(***************************************************************************)
(* The plan lifecycle as rates/plans/state_machine.py declares it: which   *)
(* action is legal from which status, and which status the row is left in. *)
(* It says nothing of slots, requests or crashes.  PlanLifecycle, which    *)
(* models the handlers statement by statement, implements it.              *)
(***************************************************************************)
CONSTANT Plans

VARIABLE status

Rows == {"draft", "active", "archived"}
Statuses == Rows \cup {"absent", "gone"}

(* LEGAL_STATES_FOR_ACTION, for the actions that move the status of a row. *)
LegalFrom == [promote  |-> {"draft"},
              discard  |-> {"draft"},
              rollback |-> {"active"}]

(* NEW_STATUS_AFTER: where the primary row of the action ends. *)
StatusAfter == [promote  |-> "active",
                discard  |-> "archived",
                rollback |-> "archived"]

Transition(action, p) ==
  /\ status[p] \in LegalFrom[action]
  /\ status' = [status EXCEPT ![p] = StatusAfter[action]]

(* CREATE, FORK and duplicate: a row is born a draft. *)
Born(p) ==
  /\ status[p] = "absent"
  /\ status' = [status EXCEPT ![p] = "draft"]

(* The second row of PROMOTE (the sibling it evicts) takes the step of the *)
(* primary row of ROLLBACK; the second row of ROLLBACK comes back.         *)
Revived(p) ==
  /\ status[p] = "archived"
  /\ status' = [status EXCEPT ![p] = "active"]

(* hard_delete_plan removes archived rows, the compensation of             *)
(* duplicate_plan removes the draft it has just inserted.                  *)
Removed(p) ==
  /\ status[p] \in {"draft", "archived"}
  /\ status' = [status EXCEPT ![p] = "gone"]

Init == status = [p \in Plans |-> "absent"]

Next == \E p \in Plans :
          \/ Born(p)
          \/ \E action \in DOMAIN LegalFrom : Transition(action, p)
          \/ Revived(p)
          \/ Removed(p)

Spec == Init /\ [][Next]_status
=============================================================================
