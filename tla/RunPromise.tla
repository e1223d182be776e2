----------------------------- MODULE RunPromise -----------------------------
(* What a book run promises whoever reads plan_runs: it opens once, ends   *)
(* once, is done only when every row is rated, and an ended run's rows     *)
(* stay as they are.                                                       *)
EXTENDS Naturals

CONSTANTS
  Runs,  \* runs of books and probes
  Size   \* the rows each run has to rate

VARIABLES
  outcome,  \* "none", "running", "done" or "error"
  rated     \* how many of its rows are rated

promiseVars == <<outcome, rated>>

Ended(r) == outcome[r] \in {"done", "error"}

PromiseInit ==
  /\ outcome = [r \in Runs |-> "none"]
  /\ rated = [r \in Runs |-> 0]

Open(r) ==
  /\ outcome[r] = "none"
  /\ outcome' = [outcome EXCEPT ![r] = "running"]
  /\ UNCHANGED rated

(* Several workers rate at once, and rows may be rated before the run opens. *)
Rate ==
  /\ rated' \in [Runs -> Nat]
  /\ \A r \in Runs : /\ rated[r] <= rated'[r]
                     /\ rated'[r] <= Size[r]
                     /\ Ended(r) => rated'[r] = rated[r]
  /\ UNCHANGED outcome

Finish(r) ==
  /\ outcome[r] = "running"
  /\ rated[r] = Size[r]
  /\ outcome' = [outcome EXCEPT ![r] = "done"]
  /\ UNCHANGED rated

Fail(r) ==
  /\ outcome[r] = "running"
  /\ outcome' = [outcome EXCEPT ![r] = "error"]
  /\ UNCHANGED rated

PromiseNext ==
  \/ Rate
  \/ \E r \in Runs : Open(r) \/ Finish(r) \/ Fail(r)

PromiseSpec == PromiseInit /\ [][PromiseNext]_promiseVars
=============================================================================
