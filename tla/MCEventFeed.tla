----------------------------- MODULE MCEventFeed -----------------------------
(* Small instances of EventFeed: an event that names a carrier and one     *)
(* that lacks a required value, repeated within a batch and across batches. *)
EXTENDS EventFeed, TLC

CONSTANTS i1, i2, e1, e2, k1, d1, d2

Quoted  == [id |-> e1, names |-> {k1}, sound |-> TRUE]
Unsound == [id |-> e2, names |-> {}, sound |-> FALSE]

RepeatedBatches == {<<Quoted, Unsound>>, <<Quoted, Quoted>>}

Alike == Permutations(Deliveries)
=============================================================================
