-------------------------- MODULE MCPlanLifecycle ---------------------------
(* Small instances of PlanLifecycle: two products that share the legacy    *)
(* line of business "cgl", in one state.                                   *)
EXTENDS PlanLifecycle, TLC

CONSTANTS p1, p2, p3, alice, bob

Row(product, jurisdiction, effective) ==
  [line |-> "cgl", product |-> product, jurisdiction |-> jurisdiction,
   effective |-> effective]

TwoProducts  == {Row("cgl", "CA", 1), Row("do", "CA", 2)}

(* Plans and operators a run treats alike. *)
Alike == Permutations(Plans \ (Served \cup Revised)) \cup Permutations(Operators)
=============================================================================
