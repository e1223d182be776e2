--------------------------- MODULE MCTowerAutosave ---------------------------
(* A small instance of TowerAutosave. *)
EXTENDS TowerAutosave
=============================================================================
