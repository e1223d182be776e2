----------------------------- MODULE EventLedger -----------------------------
(***************************************************************************)
(* What the event feed promises an integrator (integration contract, rule  *)
(* 1 of section 5): an event has at most one outcome, which never changes, *)
(* and that outcome is told at most once; every other answer is            *)
(* "duplicate".                                                            *)
(***************************************************************************)
CONSTANT Ids

VARIABLES
  outcome,   \* what was decided of each event, or "none"
  told       \* events whose outcome left in a response

ledgerVars == <<outcome, told>>

Init == outcome = [id \in Ids |-> "none"] /\ told = {}

Decide(id, verdict) ==
  /\ outcome[id] = "none"
  /\ outcome' = [outcome EXCEPT ![id] = verdict]
  /\ UNCHANGED told

(* One response tells the outcomes of a batch. *)
Tell(S) ==
  /\ S \cap told = {} /\ \A id \in S : outcome[id] # "none"
  /\ told' = told \cup S
  /\ UNCHANGED outcome

Next ==
  \/ \E id \in Ids, verdict \in {"applied", "error"} : Decide(id, verdict)
  \/ \E S \in SUBSET Ids : Tell(S)

Spec == Init /\ [][Next]_ledgerVars
=============================================================================
