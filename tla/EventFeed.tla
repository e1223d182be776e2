------------------------------ MODULE EventFeed ------------------------------
(***************************************************************************)
(* The event feed of integrations (integrations/events.py): batches of     *)
(* placement events, delivered more than once and concurrently, each event *)
(* claimed, judged and finalized in statements of their own.  The endpoint *)
(* is a plain function on the thread pool; every statement autocommits.    *)
(***************************************************************************)
EXTENDS Naturals, Sequences

CONSTANTS
  Integrations, \* who delivers
  Ids,          \* event ids
  Carriers,     \* carrier labels
  Batches,      \* bound: the batches that are delivered
  Deliveries,   \* bound: requests in flight
  MaxFaults     \* bound: failed statements and crashes

ASSUME FaultBound == MaxFaults \in Nat

(* names: the exposures its pins and its label name, none if its kind has no  *)
(* exposure fence; sound: no identity keys, the premium or policy_ref its     *)
(* kind requires.                                                             *)
Events == [id : Ids, names : SUBSET Carriers, sound : BOOLEAN]

ASSUME BatchesOfEvents == Batches \subseteq Seq(Events) \ {<< >>}

VARIABLES
  ledger,    \* integration_events, by its primary key event_id
  exposed,   \* the carriers each integration is shown (integration_exposed_plans)
  shown,     \* history: the carriers it was ever shown
  delivery,  \* the requests in flight
  told,      \* history: the events whose outcome left in a response
  faults

feedVars == <<ledger, exposed, shown, delivery, told, faults>>

-----------------------------------------------------------------------------
Outcomes == {"applied", "error"}

(* status is ack_status; "none" is no row. *)
NoRow == [status |-> "none", owner |-> {}, names |-> {}]
Rows  == [status : {"none", "pending"} \cup Outcomes,
          owner : SUBSET Integrations,
          names : SUBSET Carriers]

(* at is where an ack stands in its batch, counted from the end. *)
Acks == [at : Nat, id : Ids, status : {"duplicate"} \cup Outcomes]

Steps == {"idle", "claim", "judge", "finalize", "release", "reply"}

Requests == [at : Steps, from : SUBSET Integrations, batch : Seq(Events),
             fence : SUBSET Carriers, verdict : Outcomes,
             acks : SUBSET Acks]

Idle == [at |-> "idle", from |-> {}, batch |-> << >>, fence |-> {},
         verdict |-> "error", acks |-> {}]

TypeOK ==
  /\ ledger \in [Ids -> Rows]
  /\ exposed \in [Integrations -> SUBSET Carriers]
  /\ shown \in [Integrations -> SUBSET Carriers]
  /\ delivery \in [Deliveries -> Requests]
  /\ \A d \in Deliveries :
       delivery[d].batch = << >> <=> delivery[d].at \in {"idle", "reply"}
  /\ told \in SUBSET Ids
  /\ faults \in 0 .. MaxFaults

Init ==
  /\ ledger = [id \in Ids |-> NoRow]
  /\ exposed = [i \in Integrations |-> {}]
  /\ shown = [i \in Integrations |-> {}]
  /\ delivery = [d \in Deliveries |-> Idle]
  /\ told = {}
  /\ faults = 0

-----------------------------------------------------------------------------
(* apply_events, statement by statement *)

Event(d)  == Head(delivery[d].batch)
Row(d)    == ledger[Event(d).id]
OthersStay == UNCHANGED <<exposed, shown>>

(* The exposures are read once, for the whole batch. *)
Deliver(d, i, batch) ==
  /\ delivery[d].at = "idle"
  /\ delivery' = [delivery EXCEPT ![d] =
       [Idle EXCEPT !.at = "claim", !.from = {i}, !.batch = batch, !.fence = exposed[i]]]
  /\ UNCHANGED <<ledger, told, faults>> /\ OthersStay

(* The ack of the current event; then the next event, or the response. *)
Advance(d, status) ==
  delivery' = [delivery EXCEPT
    ![d].acks = @ \cup {[at |-> Len(delivery[d].batch), id |-> Event(d).id,
                         status |-> status]},
    ![d].batch = Tail(@),
    ![d].at = IF Len(delivery[d].batch) = 1 THEN "reply" ELSE "claim"]

Claimed(d) == [status |-> "pending", owner |-> delivery[d].from,
               names |-> Event(d).names]

(* Mutant: a row that is only pending may be claimed again. *)
ClaimPending(d) ==
  /\ delivery[d].at = "claim"
  /\ \/ /\ Row(d).status \in {"none", "pending"}
        /\ ledger' = [ledger EXCEPT ![Event(d).id] = Claimed(d)]
        /\ delivery' = [delivery EXCEPT ![d].at = "judge"]
     \/ /\ Row(d).status \in Outcomes
        /\ Advance(d, "duplicate")
        /\ UNCHANGED ledger
  /\ UNCHANGED <<told, faults>> /\ OthersStay

(* _claim_event: INSERT OR IGNORE on the primary key; the loser acks. *)
Claim(d) ==
  /\ delivery[d].at = "claim"
  /\ \/ /\ Row(d).status = "none"
        /\ ledger' = [ledger EXCEPT ![Event(d).id] = Claimed(d)]
        /\ delivery' = [delivery EXCEPT ![d].at = "judge"]
     \/ /\ Row(d).status # "none"
        /\ Advance(d, "duplicate")
        /\ UNCHANGED ledger
  /\ UNCHANGED <<told, faults>> /\ OthersStay

(* Mutant: the label fallback looks at nothing. *)
VerdictUnfenced(event, fence) == IF event.sound THEN "applied" ELSE "error"

(* _judge_one: the identity fence; pins first, label fallback; the values. *)
Verdict(event, fence) ==
  IF event.sound /\ (event.names = {} \/ event.names \cap fence # {})
  THEN "applied" ELSE "error"

Judge(d) ==
  /\ delivery[d].at = "judge"
  /\ delivery' = [delivery EXCEPT ![d].at = "finalize",
                                  ![d].verdict = Verdict(Event(d), delivery[d].fence)]
  /\ UNCHANGED <<ledger, told, faults>> /\ OthersStay

(* An unexpected exception of _judge_one: the claim is released. *)
JudgeRaises(d) ==
  /\ delivery[d].at = "judge" /\ faults < MaxFaults
  /\ faults' = faults + 1
  /\ delivery' = [delivery EXCEPT ![d].at = "release"]
  /\ UNCHANGED <<ledger, told>> /\ OthersStay

(* _release_claim, guarded on pending; then the exception surfaces. *)
Release(d) ==
  /\ delivery[d].at = "release"
  /\ ledger' = [ledger EXCEPT ![Event(d).id] = IF @.status = "pending" THEN NoRow ELSE @]
  /\ delivery' = [delivery EXCEPT ![d] = Idle]
  /\ UNCHANGED <<told, faults>> /\ OthersStay

Stamped(row, d) == [row EXCEPT !.status = delivery[d].verdict]

(* Mutant: an UPDATE that fails is swallowed and the event acked. *)
FinalizeSwallows(d) ==
  /\ delivery[d].at = "finalize"
  /\ \/ ledger' = [ledger EXCEPT ![Event(d).id] = Stamped(@, d)] /\ UNCHANGED faults
     \/ faults < MaxFaults /\ faults' = faults + 1 /\ UNCHANGED ledger
  /\ Advance(d, delivery[d].verdict)
  /\ UNCHANGED told /\ OthersStay

(* _finalize_event: a plain UPDATE of the claimed row. *)
Finalize(d) ==
  /\ delivery[d].at = "finalize"
  /\ ledger' = [ledger EXCEPT ![Event(d).id] = Stamped(@, d)]
  /\ Advance(d, delivery[d].verdict)
  /\ UNCHANGED <<told, faults>> /\ OthersStay

Told(d) == {a.id : a \in {b \in delivery[d].acks : b.status \in Outcomes}}

Reply(d) ==
  /\ delivery[d].at = "reply"
  /\ told' = told \cup Told(d)
  /\ delivery' = [delivery EXCEPT ![d] = Idle]
  /\ UNCHANGED <<ledger, faults>> /\ OthersStay

(* A statement that raises outside the try block ends the request. *)
StatementFails(d) ==
  /\ delivery[d].at \in {"claim", "finalize", "release"} /\ faults < MaxFaults
  /\ faults' = faults + 1
  /\ delivery' = [delivery EXCEPT ![d] = Idle]
  /\ UNCHANGED <<ledger, told>> /\ OthersStay

Crash ==
  /\ faults < MaxFaults
  /\ faults' = faults + 1
  /\ delivery' = [d \in Deliveries |-> Idle]
  /\ UNCHANGED <<ledger, told>> /\ OthersStay

-----------------------------------------------------------------------------
(* insert_exposed_plan and delete_exposed_plan, as the feed sees them. *)
Expose(i, c) ==
  /\ exposed' = [exposed EXCEPT ![i] = @ \cup {c}]
  /\ shown' = [shown EXCEPT ![i] = @ \cup {c}]
  /\ UNCHANGED <<ledger, delivery, told, faults>>

Unexpose(i, c) ==
  /\ exposed' = [exposed EXCEPT ![i] = @ \ {c}]
  /\ UNCHANGED <<ledger, shown, delivery, told, faults>>

Continues(d) ==
  Claim(d) \/ Judge(d) \/ Release(d) \/ Finalize(d) \/ Reply(d)

FeedNext ==
  \/ \E d \in Deliveries :
       \/ \E i \in Integrations, batch \in Batches : Deliver(d, i, batch)
       \/ Continues(d) \/ JudgeRaises(d) \/ StatementFails(d)
  \/ Crash
  \/ \E i \in Integrations, c \in Carriers : Expose(i, c) \/ Unexpose(i, c)

Spec == Init /\ [][FeedNext]_feedVars

-----------------------------------------------------------------------------
(* Safety *)

(* An outcome is acked once: of two concurrent, repeated or retried           *)
(* deliveries of an event, all but one get "duplicate", in whatever statement *)
(* they meet and whatever was released in between.                            *)
OutcomeToldOnce ==
  \A d, e \in Deliveries : \A a \in delivery[d].acks, b \in delivery[e].acks :
    (a.status \in Outcomes /\ b.status \in Outcomes /\ a.id = b.id)
      => d = e /\ a = b /\ a.id \notin told

(* What an ack says is in the ledger and stays there: no crash, release or    *)
(* other delivery takes back what an integrator was told.                     *)
AckIsRecorded ==
  /\ \A d \in Deliveries : \A a \in delivery[d].acks :
       a.status \in Outcomes => ledger[a.id].status = a.status
  /\ \A id \in told : ledger[id].status \in Outcomes

(* The exposure fence: a recorded placement names a carrier its integration   *)
(* was shown, although the fence is read once for a batch and exposures come  *)
(* and go.                                                                    *)
FenceHolds ==
  \A id \in Ids : (ledger[id].status = "applied" /\ ledger[id].names # {}) =>
    \A i \in ledger[id].owner : ledger[id].names \cap shown[i] # {}

(* The ledger implements what the contract promises of it.                    *)
outcome == [id \in Ids |-> IF ledger[id].status \in Outcomes THEN ledger[id].status
                           ELSE "none"]

Promise == INSTANCE EventLedger

KeepsPromise == Promise!Spec
=============================================================================
