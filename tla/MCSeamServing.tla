---------------------------- MODULE MCSeamServing ----------------------------
(* A small instance of SeamServing: two versions of one plan that need one  *)
(* input, one caller that quotes and switches on, and one that tests; or    *)
(* two versions that differ and one caller after another.                   *)
EXTENDS SeamServing

CONSTANTS c1, c2, i1

OneInput == {[needs |-> {i1}]}

TwoBodies == {[needs |-> {}], [needs |-> {i1}]}

OneTests == [c \in Callers |-> IF c = c1 THEN {"quote", "pinned", "live"} ELSE {"test"}]

OneDoesAll == [c \in Callers |-> {"quote", "live", "test"}]
=============================================================================
