--------------------------- MODULE EventFeedProofs ---------------------------
(***************************************************************************)
(* The feed keeps the promise of EventLedger for any events, batches,      *)
(* deliveries and faults.  The argument: a delivery at work on an event    *)
(* owns a pending row of it (Owns) and no two work on the same one         *)
(* (Apart); so a row leaves "pending" once, by its owner, and what was     *)
(* acked or told is a row that has left it (AckIsRecorded).                *)
(***************************************************************************)
EXTENDS EventFeed, SequenceTheorems, TLAPS

Working == {"judge", "finalize", "release"}

Owns ==
  \A d \in Deliveries : delivery[d].at \in Working =>
    /\ Row(d).status = "pending"
    /\ Row(d).owner = delivery[d].from
    /\ Row(d).names = Event(d).names

Apart ==
  \A d, e \in Deliveries :
    (d # e /\ delivery[d].at \in Working /\ delivery[e].at \in Working)
      => Event(d).id # Event(e).id

Safe == Owns /\ Apart /\ AckIsRecorded /\ OutcomeToldOnce

IInv == TypeOK /\ Safe

-----------------------------------------------------------------------------
(* Types *)

LEMMA IdleTyped == Idle \in Requests
BY DEF Idle, Requests, Steps, Outcomes

LEMMA NoRowTyped == NoRow \in Rows
BY DEF NoRow, Rows

LEMMA EventTyped ==
  ASSUME TypeOK, NEW d \in Deliveries, delivery[d].at \notin {"idle", "reply"}
  PROVE  Event(d) \in Events /\ Event(d).id \in Ids
<1>1. delivery[d].batch \in Seq(Events) /\ delivery[d].batch # << >>
  BY DEF TypeOK, Requests
<1>2. Event(d) \in Events
  BY <1>1 DEF Event
<1>3. QED
  BY <1>2 DEF Events

(* What acking the current event and moving on does to the request. *)
LEMMA AdvanceEffect ==
  ASSUME TypeOK, NEW d \in Deliveries, NEW status \in {"duplicate"} \cup Outcomes,
         delivery[d].at \notin {"idle", "reply"}, Advance(d, status)
  PROVE  /\ delivery' \in [Deliveries -> Requests]
         /\ \A e \in Deliveries : e # d => delivery'[e] = delivery[e]
         /\ delivery'[d].at \in {"reply", "claim"}
         /\ delivery'[d].batch = << >> <=> delivery'[d].at = "reply"
         /\ delivery'[d].from = delivery[d].from
         /\ delivery'[d].fence = delivery[d].fence
         /\ delivery'[d].acks = delivery[d].acks \cup
              {[at |-> Len(delivery[d].batch), id |-> Event(d).id, status |-> status]}
<1> DEFINE b == delivery[d].batch
           ack == [at |-> Len(b), id |-> Event(d).id, status |-> status]
           k == [delivery[d] EXCEPT !.acks = @ \cup {ack}, !.batch = Tail(@),
                                    !.at = IF Len(b) = 1 THEN "reply" ELSE "claim"]
<1>1. delivery' = [delivery EXCEPT ![d] = k]
  BY DEF Advance
<1>2. b \in Seq(Events) /\ b # << >> /\ delivery[d] \in Requests
  BY DEF TypeOK, Requests
<1>3. Len(b) \in Nat /\ Tail(b) \in Seq(Events) /\ (Tail(b) = << >> <=> Len(b) = 1)
  <2>1. Len(b) \in Nat
    BY <1>2, LenProperties
  <2>2. Tail(b) \in Seq(Events) /\ Len(Tail(b)) = Len(b) - 1
    BY <1>2, HeadTailProperties
  <2>3. (Tail(b) # << >> => Len(Tail(b)) \in Nat \ {0}) /\ Len(<< >>) = 0
    BY <2>2, EmptySeq
  <2>4. Tail(b) = << >> => Len(Tail(b)) = 0
    BY <2>3
  <2>5. Tail(b) = << >> => Len(b) = 1
    BY <2>1, <2>2, <2>4
  <2>6. Len(b) = 1 => Tail(b) = << >>
    BY <2>1, <2>2, <2>3
  <2>7. QED
    BY <2>1, <2>2, <2>5, <2>6
<1>4. ack \in Acks
  BY <1>3, EventTyped DEF Acks
<1>5. delivery[d].acks \cup {ack} \in SUBSET Acks
  BY <1>2, <1>4 DEF Requests
<1>6. k \in Requests
  BY <1>2, <1>3, <1>5 DEF Requests, Steps
<1>7. /\ k.at = IF Len(b) = 1 THEN "reply" ELSE "claim"
      /\ k.batch = Tail(b) /\ k.acks = delivery[d].acks \cup {ack}
      /\ k.from = delivery[d].from /\ k.fence = delivery[d].fence
  BY <1>2 DEF Requests
<1> HIDE DEF k
<1>8. delivery'[d] = k /\ delivery' \in [Deliveries -> Requests]
      /\ \A e \in Deliveries : e # d => delivery'[e] = delivery[e]
  BY <1>1, <1>6 DEF TypeOK
<1>9. QED
  BY <1>3, <1>7, <1>8

(* A step that puts one well-typed request in the place of another. *)
LEMMA RequestTyped ==
  ASSUME TypeOK, NEW d \in Deliveries, NEW k \in Requests,
         delivery' = [delivery EXCEPT ![d] = k],
         k.batch = << >> <=> k.at \in {"idle", "reply"},
         ledger' \in [Ids -> Rows], exposed' = exposed, shown' = shown,
         told' \in SUBSET Ids, faults' \in 0 .. MaxFaults
  PROVE  TypeOK'
<1>1. delivery' \in [Deliveries -> Requests] /\ delivery'[d] = k
  BY DEF TypeOK
<1>2. \A e \in Deliveries : e # d => delivery'[e] = delivery[e]
  BY DEF TypeOK
<1>3. \A e \in Deliveries : delivery'[e].batch = << >> <=> delivery'[e].at \in {"idle", "reply"}
  BY <1>1, <1>2 DEF TypeOK
<1>4. QED
  BY <1>1, <1>3 DEF TypeOK

-----------------------------------------------------------------------------
(* The steps of a request, its types *)

USE DEF OthersStay

LEMMA FaultTyped ==
  ASSUME TypeOK, faults' = faults \/ (faults < MaxFaults /\ faults' = faults + 1)
  PROVE  faults' \in 0 .. MaxFaults
BY FaultBound DEF TypeOK

LEMMA DeliverTyped ==
  ASSUME TypeOK, NEW d \in Deliveries, NEW i \in Integrations, NEW batch \in Batches,
         Deliver(d, i, batch)
  PROVE  TypeOK'
<1> DEFINE k == [Idle EXCEPT !.at = "claim", !.from = {i}, !.batch = batch,
                             !.fence = exposed[i]]
<1>1. batch \in Seq(Events) /\ batch # << >> /\ exposed[i] \in SUBSET Carriers
  BY BatchesOfEvents DEF TypeOK
<1>2. k \in Requests /\ k.at = "claim" /\ k.batch = batch
  BY <1>1, IdleTyped DEF Idle, Requests, Steps, Outcomes
<1>3. delivery' = [delivery EXCEPT ![d] = k]
  BY DEF Deliver
<1> HIDE DEF k
<1>4. QED
  BY <1>1, <1>2, <1>3, RequestTyped DEF Deliver, TypeOK

LEMMA JudgeTyped ==
  ASSUME TypeOK, NEW d \in Deliveries, Judge(d)
  PROVE  TypeOK'
<1> DEFINE v == Verdict(Event(d), delivery[d].fence)
           k == [delivery[d] EXCEPT !.at = "finalize", !.verdict = v]
<1>1. delivery[d] \in Requests /\ delivery[d].batch # << >>
  BY DEF TypeOK, Judge
<1>2. v \in Outcomes
  BY DEF Verdict, Outcomes
<1>3. delivery' = [delivery EXCEPT ![d] = k]
  BY DEF Judge
<1> HIDE DEF v
<1>4. k \in Requests /\ k.at = "finalize" /\ k.batch = delivery[d].batch
  BY <1>1, <1>2 DEF Requests, Steps
<1> HIDE DEF k
<1>5. QED
  BY <1>1, <1>3, <1>4, RequestTyped DEF Judge, TypeOK

LEMMA JudgeRaisesTyped ==
  ASSUME TypeOK, NEW d \in Deliveries, JudgeRaises(d)
  PROVE  TypeOK'
<1> DEFINE k == [delivery[d] EXCEPT !.at = "release"]
<1>1. delivery[d] \in Requests /\ delivery[d].batch # << >>
  BY DEF TypeOK, JudgeRaises
<1>2. delivery' = [delivery EXCEPT ![d] = k]
  BY DEF JudgeRaises
<1>3. k \in Requests /\ k.at = "release" /\ k.batch = delivery[d].batch
  BY <1>1 DEF Requests, Steps
<1> HIDE DEF k
<1>4. QED
  BY <1>1, <1>2, <1>3, RequestTyped, FaultTyped DEF JudgeRaises, TypeOK
(* Acking the current event: the request moves on, the rest is typed. *)
LEMMA AdvanceTyped ==
  ASSUME TypeOK, NEW d \in Deliveries, NEW status \in {"duplicate"} \cup Outcomes,
         delivery[d].at \notin {"idle", "reply"}, Advance(d, status),
         ledger' \in [Ids -> Rows], exposed' = exposed, shown' = shown,
         told' \in SUBSET Ids, faults' \in 0 .. MaxFaults
  PROVE  TypeOK'
<1>1. /\ delivery' \in [Deliveries -> Requests]
      /\ \A e \in Deliveries : e # d => delivery'[e] = delivery[e]
      /\ delivery'[d].at \in {"reply", "claim"}
      /\ delivery'[d].batch = << >> <=> delivery'[d].at = "reply"
  BY AdvanceEffect
<1>2. \A e \in Deliveries : delivery'[e].batch = << >> <=> delivery'[e].at \in {"idle", "reply"}
  BY <1>1 DEF TypeOK
<1>3. QED
  BY <1>1, <1>2 DEF TypeOK

LEMMA RowTyped ==
  ASSUME TypeOK, NEW id \in Ids, NEW row \in Rows,
         ledger' = [ledger EXCEPT ![id] = row]
  PROVE  /\ ledger' \in [Ids -> Rows] /\ ledger'[id] = row
         /\ \A other \in Ids : other # id => ledger'[other] = ledger[other]
BY DEF TypeOK

LEMMA IdledTyped ==
  ASSUME TypeOK, NEW d \in Deliveries, delivery' = [delivery EXCEPT ![d] = Idle],
         ledger' \in [Ids -> Rows], exposed' = exposed, shown' = shown,
         told' \in SUBSET Ids, faults' \in 0 .. MaxFaults
  PROVE  TypeOK'
<1>1. Idle.batch = << >> /\ Idle.at = "idle"
  BY DEF Idle
<1>2. QED
  BY <1>1, IdleTyped, RequestTyped

(* A claim that wins: the row it writes and the request that owns it. *)
Wins(d) == Claim(d) /\ Row(d).status = "none"

LEMMA WinsEffect ==
  ASSUME TypeOK, NEW d \in Deliveries, Wins(d)
  PROVE  /\ Claimed(d) \in Rows
         /\ ledger' = [ledger EXCEPT ![Event(d).id] = Claimed(d)]
         /\ delivery' = [delivery EXCEPT ![d] = [@ EXCEPT !.at = "judge"]]
         /\ [delivery[d] EXCEPT !.at = "judge"] \in Requests
         /\ UNCHANGED <<exposed, shown, told, faults>>
<1>1. delivery[d] \in Requests /\ Event(d) \in Events
  BY EventTyped DEF Wins, Claim, TypeOK
<1>2. Claimed(d) \in Rows
  BY <1>1 DEF Claimed, Rows, Requests, Events
<1>3. [delivery[d] EXCEPT !.at = "judge"] \in Requests
  BY <1>1 DEF Requests, Steps
<1>4. QED
  BY <1>2, <1>3 DEF Wins, Claim

LEMMA ClaimTyped ==
  ASSUME TypeOK, NEW d \in Deliveries, Claim(d)
  PROVE  TypeOK'
<1>1. delivery[d].at = "claim" /\ Event(d).id \in Ids /\ delivery[d] \in Requests
      /\ delivery[d].batch # << >>
  BY EventTyped DEF Claim, TypeOK
<1>2. CASE Wins(d)
  <2> DEFINE k == [delivery[d] EXCEPT !.at = "judge"]
  <2>1. k \in Requests /\ k.at = "judge" /\ k.batch = delivery[d].batch
    BY <1>1, <1>2, WinsEffect DEF Requests
  <2>2. delivery' = [delivery EXCEPT ![d] = k]
    BY <1>2, WinsEffect
  <2>3. ledger' \in [Ids -> Rows]
    BY <1>1, <1>2, WinsEffect, RowTyped
  <2>4. UNCHANGED <<exposed, shown, told, faults>>
    BY <1>2, WinsEffect
  <2> HIDE DEF k
  <2>5. QED
    BY <1>1, <2>1, <2>2, <2>3, <2>4, RequestTyped DEF TypeOK
<1>3. CASE Row(d).status # "none"
  BY <1>1, <1>3, AdvanceTyped DEF Claim, TypeOK
<1>4. QED
  BY <1>2, <1>3 DEF Wins

LEMMA ReleaseTyped ==
  ASSUME TypeOK, NEW d \in Deliveries, Release(d)
  PROVE  TypeOK'
<1>1. Event(d).id \in Ids
  BY EventTyped DEF Release
<1>2. ledger' \in [Ids -> Rows]
  BY <1>1, NoRowTyped DEF Release, TypeOK
<1>3. QED
  BY <1>2, IdledTyped DEF Release, TypeOK

LEMMA FinalizeEffect ==
  ASSUME TypeOK, NEW d \in Deliveries, Finalize(d)
  PROVE  /\ Event(d).id \in Ids
         /\ delivery[d].verdict \in Outcomes
         /\ Stamped(Row(d), d) \in Rows
         /\ Stamped(Row(d), d).status = delivery[d].verdict
         /\ ledger' = [ledger EXCEPT ![Event(d).id] = Stamped(Row(d), d)]
<1>1. Event(d).id \in Ids /\ delivery[d] \in Requests /\ ledger \in [Ids -> Rows]
  BY EventTyped DEF Finalize, TypeOK
<1>2. Row(d) \in Rows /\ delivery[d].verdict \in Outcomes
  BY <1>1 DEF Row, Requests
<1>3. Stamped(Row(d), d) \in Rows /\ Stamped(Row(d), d).status = delivery[d].verdict
  BY <1>2 DEF Stamped, Rows
<1>4. ledger' = [ledger EXCEPT ![Event(d).id] = Stamped(Row(d), d)]
  BY DEF Finalize, Row
<1>5. QED
  BY <1>1, <1>2, <1>3, <1>4

LEMMA FinalizeTyped ==
  ASSUME TypeOK, NEW d \in Deliveries, Finalize(d)
  PROVE  TypeOK'
<1>1. ledger' \in [Ids -> Rows] /\ delivery[d].verdict \in Outcomes
  BY FinalizeEffect, RowTyped
<1>2. QED
  BY <1>1, AdvanceTyped DEF Finalize, TypeOK

LEMMA ToldTyped ==
  ASSUME TypeOK, NEW d \in Deliveries
  PROVE  Told(d) \in SUBSET Ids
<1>1. delivery[d].acks \in SUBSET Acks
  BY DEF TypeOK, Requests
<1>2. QED
  BY <1>1 DEF Told, Acks

LEMMA ReplyTyped ==
  ASSUME TypeOK, NEW d \in Deliveries, Reply(d)
  PROVE  TypeOK'
BY ToldTyped, IdledTyped DEF Reply, TypeOK

LEMMA CrashTyped ==
  ASSUME TypeOK, Crash
  PROVE  TypeOK'
<1>1. Idle.batch = << >> /\ Idle.at = "idle"
  BY DEF Idle
<1>2. \A d \in Deliveries : delivery'[d] = Idle
  BY DEF Crash
<1>3. delivery' \in [Deliveries -> Requests]
  BY IdleTyped DEF Crash
<1>4. QED
  BY <1>1, <1>2, <1>3, FaultTyped DEF Crash, TypeOK

LEMMA TypeStep ==
  ASSUME TypeOK, [FeedNext]_feedVars
  PROVE  TypeOK'
<1>1. CASE UNCHANGED feedVars
  BY <1>1 DEF feedVars, TypeOK
<1>2. ASSUME NEW d \in Deliveries, NEW i \in Integrations, NEW batch \in Batches,
             Deliver(d, i, batch)
      PROVE  TypeOK'
  BY <1>2, DeliverTyped
<1>3. ASSUME NEW d \in Deliveries, Continues(d) \/ JudgeRaises(d)
      PROVE  TypeOK'
  BY <1>3, ClaimTyped, JudgeTyped, JudgeRaisesTyped, ReleaseTyped,
     FinalizeTyped, ReplyTyped DEF Continues
<1>4. ASSUME NEW d \in Deliveries, StatementFails(d)
      PROVE  TypeOK'
  BY <1>4, IdledTyped, FaultTyped DEF StatementFails, TypeOK
<1>5. CASE Crash
  BY <1>5, CrashTyped
<1>6. ASSUME NEW i \in Integrations, NEW c \in Carriers, Expose(i, c) \/ Unexpose(i, c)
      PROVE  TypeOK'
  BY <1>6 DEF Expose, Unexpose, TypeOK
<1>7. QED
  BY <1>1, <1>2, <1>3, <1>4, <1>5, <1>6 DEF FeedNext

LEMMA TypeInit ==
  ASSUME Init
  PROVE  TypeOK
<1>1. Idle.batch = << >> /\ Idle.at = "idle"
  BY DEF Idle
<1>2. QED
  BY <1>1, IdleTyped, NoRowTyped, FaultBound DEF Init, TypeOK

(* The feed is well typed: no ack, row or request in flight is of an event *)
(* that was not delivered, and only a request without events left replies. *)
THEOREM TypeCorrect == Spec => []TypeOK
<1>1. Init => TypeOK
  BY TypeInit
<1>2. TypeOK /\ [FeedNext]_feedVars => TypeOK'
  BY TypeStep
<1> HIDE DEF Init, TypeOK, FeedNext, feedVars
<1>3. QED
  BY <1>1, <1>2, PTL DEF Spec
-----------------------------------------------------------------------------
(* Ownership, and what was acked *)

LEMMA WorkingTyped ==
  ASSUME TypeOK, NEW d \in Deliveries, delivery[d].at \in Working
  PROVE  Event(d).id \in Ids
BY EventTyped DEF Working

(* A step that leaves ledger and told alone, lets no request begin to work *)
(* and wins no ack keeps everything.                                       *)
LEMMA QuietStep ==
  ASSUME Safe, UNCHANGED <<ledger, told>>,
         \A d \in Deliveries : delivery'[d].at \in Working =>
           /\ delivery[d].at \in Working
           /\ delivery'[d].batch = delivery[d].batch
           /\ delivery'[d].from = delivery[d].from,
         \A d \in Deliveries : \A a \in delivery'[d].acks :
           a.status \in Outcomes => a \in delivery[d].acks
  PROVE  Safe'
<1> USE DEF Safe
<1>1. Owns' /\ Apart'
  BY DEF Owns, Apart, Row, Event
<1>2. AckIsRecorded'
  BY DEF AckIsRecorded
<1>3. OutcomeToldOnce'
  BY DEF OutcomeToldOnce
<1>4. QED
  BY <1>1, <1>2, <1>3

LEMMA IdleWorksNot == Idle.at \notin Working /\ Idle.acks = {}
BY DEF Idle, Working

LEMMA DeliverSafe ==
  ASSUME IInv, NEW d \in Deliveries, NEW i \in Integrations, NEW batch \in Batches,
         Deliver(d, i, batch)
  PROVE  Safe'
<1> DEFINE k == [Idle EXCEPT !.at = "claim", !.from = {i}, !.batch = batch,
                             !.fence = exposed[i]]
<1>1. k.at \notin Working /\ k.acks = {}
  BY DEF Idle, Working
<1>2. delivery' = [delivery EXCEPT ![d] = k]
  BY DEF Deliver
<1> HIDE DEF k
<1>3. \A e \in Deliveries : delivery'[e] = IF e = d THEN k ELSE delivery[e]
  BY <1>2 DEF IInv, TypeOK
<1>4. QED
  BY <1>1, <1>3, QuietStep DEF Deliver, IInv

LEMMA MoveSafe ==
  ASSUME IInv, NEW d \in Deliveries, Judge(d) \/ JudgeRaises(d)
  PROVE  Safe'
<1>1. /\ delivery \in [Deliveries -> Requests]
      /\ delivery[d] \in Requests
  BY DEF IInv, TypeOK
<1>2. /\ delivery'[d].at \in Working => delivery[d].at \in Working
      /\ delivery'[d].batch = delivery[d].batch
      /\ delivery'[d].from = delivery[d].from
      /\ delivery'[d].acks = delivery[d].acks
  BY <1>1 DEF Judge, JudgeRaises, Working, Requests
<1>3. \A e \in Deliveries : e # d => delivery'[e] = delivery[e]
  BY <1>1 DEF Judge, JudgeRaises
<1>4. \A e \in Deliveries : delivery'[e].at \in Working =>
        /\ delivery[e].at \in Working
        /\ delivery'[e].batch = delivery[e].batch
        /\ delivery'[e].from = delivery[e].from
  BY <1>2, <1>3
<1>5. \A e \in Deliveries : delivery'[e].acks = delivery[e].acks
  BY <1>2, <1>3
<1>6. QED
  BY <1>4, <1>5, QuietStep DEF IInv, Judge, JudgeRaises

(* The row is taken while nobody works on its event: an owner would have *)
(* it pending.                                                           *)
LEMMA WinsSafe ==
  ASSUME IInv, NEW d \in Deliveries, Wins(d)
  PROVE  Safe'
<1> DEFINE id == Event(d).id
           k == [delivery[d] EXCEPT !.at = "judge"]
<1>1. /\ TypeOK /\ Safe /\ delivery[d].at = "claim" /\ id \in Ids
      /\ ledger[id].status = "none" /\ told' = told
  BY EventTyped DEF IInv, Wins, Claim, Row
<1>2. /\ ledger' \in [Ids -> Rows] /\ ledger'[id] = Claimed(d)
      /\ \A other \in Ids : other # id => ledger'[other] = ledger[other]
  BY <1>1, WinsEffect, RowTyped
<1>3. /\ Claimed(d).status = "pending" /\ Claimed(d).owner = delivery[d].from
      /\ Claimed(d).names = Event(d).names
  BY DEF Claimed
<1>4. k.at = "judge" /\ k.batch = delivery[d].batch /\ k.acks = delivery[d].acks
      /\ k.from = delivery[d].from
  BY <1>1 DEF TypeOK, Requests
<1>5. delivery' = [delivery EXCEPT ![d] = k]
  BY <1>1, WinsEffect
<1> HIDE DEF k
<1>6. \A e \in Deliveries : delivery'[e] = IF e = d THEN k ELSE delivery[e]
  BY <1>1, <1>5 DEF TypeOK
<1>7. \A e \in Deliveries : Event(e)' = Event(e) /\ delivery'[e].acks = delivery[e].acks
                            /\ delivery'[e].from = delivery[e].from
  BY <1>4, <1>6 DEF Event
<1>8. \A e \in Deliveries : (e # d /\ delivery'[e].at \in Working) =>
        /\ delivery[e].at \in Working /\ Event(e).id \in Ids /\ Event(e).id # id
  BY <1>1, <1>6, WorkingTyped DEF Safe, Owns, Row
<1>9. Owns'
  <2> SUFFICES ASSUME NEW e \in Deliveries, delivery'[e].at \in Working
               PROVE  /\ ledger'[Event(e).id].status = "pending"
                      /\ ledger'[Event(e).id].owner = delivery[e].from
                      /\ ledger'[Event(e).id].names = Event(e).names
    BY <1>7 DEF Owns, Row
  <2>1. CASE e = d
    BY <2>1, <1>2, <1>3
  <2>2. CASE e # d
    BY <2>2, <1>1, <1>2, <1>8 DEF Safe, Owns, Row
  <2>3. QED
    BY <2>1, <2>2
<1>10. Apart'
  BY <1>1, <1>7, <1>8 DEF Apart, Safe
<1>11. AckIsRecorded'
  <2>1. \A other \in Ids : ledger[other].status \in Outcomes => ledger'[other] = ledger[other]
    BY <1>1, <1>2 DEF Outcomes
  <2>2. told \subseteq Ids /\ \A e \in Deliveries : \A a \in delivery[e].acks : a.id \in Ids
    BY <1>1 DEF TypeOK, Requests, Acks
  <2>3. QED
    BY <1>1, <1>7, <2>1, <2>2 DEF AckIsRecorded, Safe
<1>12. OutcomeToldOnce'
  BY <1>1, <1>7 DEF OutcomeToldOnce, Safe
<1>13. QED
  BY <1>9, <1>10, <1>11, <1>12 DEF Safe

(* The loser's ack is no outcome. *)
LEMMA LosesSafe ==
  ASSUME IInv, NEW d \in Deliveries, Claim(d), Row(d).status # "none"
  PROVE  Safe'
<1> DEFINE ack == [at |-> Len(delivery[d].batch), id |-> Event(d).id,
                   status |-> "duplicate"]
<1>1. TypeOK /\ Safe /\ Advance(d, "duplicate") /\ UNCHANGED <<ledger, told>>
      /\ delivery[d].at \notin {"idle", "reply"}
  BY DEF IInv, Claim
<1>2. /\ \A e \in Deliveries : e # d => delivery'[e] = delivery[e]
      /\ delivery'[d].at \in {"reply", "claim"}
      /\ delivery'[d].acks = delivery[d].acks \cup {ack}
  BY <1>1, AdvanceEffect
<1>3. ack.status \notin Outcomes
  BY DEF Outcomes
<1> HIDE DEF ack
<1>4. \A e \in Deliveries : delivery'[e].at \in Working => delivery'[e] = delivery[e]
  BY <1>2 DEF Working
<1>5. \A e \in Deliveries : \A a \in delivery'[e].acks :
        a.status \in Outcomes => a \in delivery[e].acks
  BY <1>2, <1>3
<1>6. QED
  BY <1>1, <1>4, <1>5, QuietStep
(* The owner gives its row up: nobody else works on it, and no ack is of it. *)
LEMMA ReleaseSafe ==
  ASSUME IInv, NEW d \in Deliveries, Release(d)
  PROVE  Safe'
<1> DEFINE id == Event(d).id
<1>1. /\ TypeOK /\ Safe /\ delivery[d].at \in Working /\ id \in Ids
      /\ ledger[id].status = "pending" /\ told' = told
  BY WorkingTyped DEF IInv, Safe, Owns, Row, Release, Working
<1>2. \A other \in Ids : other # id => ledger'[other] = ledger[other]
  BY <1>1 DEF Release, TypeOK
<1>3. \A e \in Deliveries : delivery'[e] = IF e = d THEN Idle ELSE delivery[e]
  BY <1>1 DEF Release, TypeOK
<1>4. \A e \in Deliveries : delivery'[e].at \in Working =>
        /\ delivery'[e] = delivery[e] /\ Event(e)' = Event(e)
        /\ Event(e).id \in Ids /\ Event(e).id # id
  BY <1>1, <1>3, IdleWorksNot, WorkingTyped DEF Safe, Apart, Event
<1>5. Owns' /\ Apart'
  BY <1>1, <1>2, <1>4 DEF Safe, Owns, Apart, Row
<1>6. \A e \in Deliveries : \A a \in delivery'[e].acks : a \in delivery[e].acks
  BY <1>3, IdleWorksNot
<1>7. AckIsRecorded'
  <2>1. \A other \in Ids : ledger[other].status \in Outcomes => ledger'[other] = ledger[other]
    BY <1>1, <1>2 DEF Outcomes
  <2>2. told \subseteq Ids /\ \A e \in Deliveries : \A a \in delivery[e].acks : a.id \in Ids
    BY <1>1 DEF TypeOK, Requests, Acks
  <2>3. QED
    BY <1>1, <1>6, <2>1, <2>2 DEF AckIsRecorded, Safe
<1>8. OutcomeToldOnce'
  BY <1>1, <1>6 DEF OutcomeToldOnce, Safe
<1>9. QED
  BY <1>5, <1>7, <1>8 DEF Safe

(* The owner decides: the row was pending, so no ack and nothing told is of *)
(* this event, and the new ack is its first.                                *)
LEMMA FinalizeSafe ==
  ASSUME IInv, NEW d \in Deliveries, Finalize(d)
  PROVE  Safe'
<1> DEFINE id == Event(d).id
           v == delivery[d].verdict
           ack == [at |-> Len(delivery[d].batch), id |-> id, status |-> v]
<1>1. /\ TypeOK /\ Safe /\ delivery[d].at \in Working
      /\ delivery[d].at \notin {"idle", "reply"} /\ Advance(d, v) /\ told' = told
  BY DEF IInv, Finalize, Working
<1>2. id \in Ids /\ v \in Outcomes /\ ledger[id].status = "pending"
  BY <1>1, FinalizeEffect DEF IInv, Safe, Owns, Row
<1>3. /\ ledger'[id].status = v
      /\ \A other \in Ids : other # id => ledger'[other] = ledger[other]
  BY <1>1, FinalizeEffect, RowTyped
<1>4. /\ \A e \in Deliveries : e # d => delivery'[e] = delivery[e]
      /\ delivery'[d].at \in {"reply", "claim"}
      /\ delivery'[d].acks = delivery[d].acks \cup {ack}
  BY <1>1, <1>2, AdvanceEffect
<1>5. ack.id = id /\ ack.status = v
  OBVIOUS
<1> HIDE DEF ack
<1>6. \A e \in Deliveries : delivery'[e].at \in Working =>
        /\ delivery'[e] = delivery[e] /\ Event(e)' = Event(e)
        /\ Event(e).id \in Ids /\ Event(e).id # id
  BY <1>1, <1>4, WorkingTyped DEF Safe, Apart, Event, Working
<1>7. Owns' /\ Apart'
  BY <1>1, <1>3, <1>6 DEF Safe, Owns, Apart, Row
<1>8. \A e \in Deliveries : \A a \in delivery'[e].acks : a \in delivery[e].acks \/ (e = d /\ a = ack)
  BY <1>4
<1>9. \A other \in Ids : ledger[other].status \in Outcomes => other # id
  BY <1>2 DEF Outcomes
<1>10. told \subseteq Ids /\ \A e \in Deliveries : \A a \in delivery[e].acks : a.id \in Ids
  BY <1>1 DEF TypeOK, Requests, Acks
<1>11. /\ \A e \in Deliveries : \A a \in delivery[e].acks : a.status \in Outcomes => a.id # id
       /\ id \notin told
  BY <1>1, <1>9, <1>10 DEF Safe, AckIsRecorded
<1>12. AckIsRecorded'
  BY <1>1, <1>2, <1>3, <1>5, <1>8, <1>10, <1>11 DEF AckIsRecorded, Safe
<1>13. OutcomeToldOnce'
  BY <1>1, <1>5, <1>8, <1>11 DEF OutcomeToldOnce, Safe
<1>14. QED
  BY <1>7, <1>12, <1>13 DEF Safe

LEMMA ReplySafe ==
  ASSUME IInv, NEW d \in Deliveries, Reply(d)
  PROVE  Safe'
<1>1. TypeOK /\ Safe /\ ledger' = ledger /\ told' = told \cup Told(d)
  BY DEF IInv, Reply
<1>2. \A e \in Deliveries : delivery'[e] = IF e = d THEN Idle ELSE delivery[e]
  BY <1>1 DEF Reply, TypeOK
<1>3. \A e \in Deliveries : (delivery'[e].at \in Working \/ delivery'[e].acks # {}) =>
        e # d /\ delivery'[e] = delivery[e] /\ Event(e)' = Event(e)
  BY <1>2, IdleWorksNot DEF Event
<1>4. Owns' /\ Apart'
  BY <1>1, <1>3 DEF Safe, Owns, Apart, Row
<1>5. \A id \in Told(d) : \E a \in delivery[d].acks : a.status \in Outcomes /\ a.id = id
  BY DEF Told
<1>6. AckIsRecorded'
  BY <1>1, <1>3, <1>5 DEF Safe, AckIsRecorded
<1>7. \A e \in Deliveries : \A a \in delivery[e].acks :
        (e # d /\ a.status \in Outcomes) => a.id \notin Told(d)
  BY <1>1, <1>5 DEF Safe, OutcomeToldOnce
<1>8. OutcomeToldOnce'
  BY <1>1, <1>3, <1>7 DEF Safe, OutcomeToldOnce
<1>9. QED
  BY <1>4, <1>6, <1>8 DEF Safe

LEMMA SafeStep ==
  ASSUME IInv, [FeedNext]_feedVars
  PROVE  Safe'
<1>1. Safe /\ TypeOK
  BY DEF IInv
<1>2. CASE UNCHANGED <<ledger, delivery, told>>
  BY <1>1, <1>2, QuietStep
<1>3. ASSUME NEW d \in Deliveries, StatementFails(d)
      PROVE  Safe'
  <2>1. \A e \in Deliveries : delivery'[e] = IF e = d THEN Idle ELSE delivery[e]
    BY <1>3 DEF StatementFails, IInv, TypeOK
  <2>2. \A e \in Deliveries :
          /\ delivery'[e].at \in Working => delivery'[e] = delivery[e]
          /\ \A a \in delivery'[e].acks : a \in delivery[e].acks
    BY <2>1, IdleWorksNot
  <2>3. Safe /\ UNCHANGED <<ledger, told>>
    BY <1>3 DEF StatementFails, IInv
  <2> HIDE DEF Working
  <2>4. QED
    BY <2>2, <2>3, QuietStep
<1>4. CASE Crash
  <2>1. \A e \in Deliveries : delivery'[e].at \notin Working /\ delivery'[e].acks = {}
    BY <1>4, IdleWorksNot DEF Crash
  <2>2. Safe /\ UNCHANGED <<ledger, told>>
    BY <1>4 DEF Crash, IInv
  <2>3. QED
    BY <2>1, <2>2, QuietStep
<1>5. ASSUME NEW d \in Deliveries, Continues(d) \/ JudgeRaises(d)
      PROVE  Safe'
  <2>1. CASE Claim(d)
    BY <2>1, WinsSafe, LosesSafe DEF Wins
  <2>2. CASE Judge(d) \/ JudgeRaises(d)
    BY <2>2, MoveSafe
  <2>3. CASE Release(d) \/ Finalize(d) \/ Reply(d)
    BY <2>3, ReleaseSafe, FinalizeSafe, ReplySafe
  <2>4. QED
    BY <1>5, <2>1, <2>2, <2>3 DEF Continues
<1>6. ASSUME NEW i \in Integrations, NEW c \in Carriers, Expose(i, c) \/ Unexpose(i, c)
      PROVE  Safe'
  BY <1>6, <1>2 DEF Expose, Unexpose
<1>7. CASE \E d \in Deliveries, i \in Integrations, batch \in Batches : Deliver(d, i, batch)
  BY <1>7, DeliverSafe
<1>8. CASE UNCHANGED feedVars
  BY <1>8, <1>2 DEF feedVars
<1>9. QED
  BY <1>3, <1>4, <1>5, <1>6, <1>7, <1>8 DEF FeedNext

LEMMA InvInit ==
  ASSUME Init
  PROVE  IInv
<1>1. \A d \in Deliveries : delivery[d] = Idle
  BY DEF Init
<1>2. Safe
  BY <1>1, IdleWorksNot DEF Init, Safe, Owns, Apart, AckIsRecorded, OutcomeToldOnce
<1>3. QED
  BY <1>2, TypeInit DEF IInv

LEMMA Invariant == Spec => []IInv
<1>1. Init => IInv
  BY InvInit
<1>2. IInv /\ [FeedNext]_feedVars => IInv'
  BY SafeStep, TypeStep DEF IInv
<1> HIDE DEF Init, IInv, FeedNext, feedVars
<1>3. QED
  BY <1>1, <1>2, PTL DEF Spec

(* What integrators are told stays in the ledger: for any deliveries, *)
(* crashes and failed statements, an ack's outcome is the row's.      *)
THEOREM AcksDurable == Spec => []AckIsRecorded
<1>1. IInv => AckIsRecorded
  BY DEF IInv, Safe
<1> HIDE DEF IInv, AckIsRecorded
<1>2. QED
  BY <1>1, Invariant, PTL

(* No event's outcome is acked twice, however many requests carry it. *)
THEOREM ToldOnce == Spec => []OutcomeToldOnce
<1>1. IInv => OutcomeToldOnce
  BY DEF IInv, Safe
<1> HIDE DEF IInv, OutcomeToldOnce
<1>2. QED
  BY <1>1, Invariant, PTL
-----------------------------------------------------------------------------
(* The ledger of the contract *)

LEMMA OutcomeKept ==
  ASSUME \A id \in Ids : \/ ledger'[id] = ledger[id]
                         \/ /\ ledger[id].status \notin Outcomes
                            /\ ledger'[id].status \notin Outcomes
  PROVE  outcome' = outcome
<1>1. \A id \in Ids : (IF ledger'[id].status \in Outcomes THEN ledger'[id].status ELSE "none")
                        = IF ledger[id].status \in Outcomes THEN ledger[id].status ELSE "none"
  OBVIOUS
<1>2. QED
  BY <1>1 DEF outcome

LEMMA DecideStep ==
  ASSUME IInv, NEW d \in Deliveries, Finalize(d)
  PROVE  Promise!Decide(Event(d).id, delivery[d].verdict)
<1> DEFINE id == Event(d).id
           v == delivery[d].verdict
<1>1. TypeOK /\ Safe /\ delivery[d].at \in Working /\ told' = told
  BY DEF IInv, Finalize, Working
<1>2. id \in Ids /\ v \in Outcomes /\ ledger[id].status = "pending"
  BY <1>1, FinalizeEffect DEF Safe, Owns, Row
<1>3. /\ ledger'[id].status = v
      /\ \A other \in Ids : other # id => ledger'[other] = ledger[other]
  BY <1>1, FinalizeEffect, RowTyped
<1>4. outcome[id] = "none"
  BY <1>2 DEF outcome, Outcomes
<1>5. \A other \in Ids :
        (IF ledger'[other].status \in Outcomes THEN ledger'[other].status ELSE "none")
          = IF other = id THEN v
            ELSE IF ledger[other].status \in Outcomes THEN ledger[other].status ELSE "none"
  BY <1>2, <1>3
<1>6. outcome' = [outcome EXCEPT ![id] = v]
  BY <1>5 DEF outcome
<1>7. QED
  BY <1>1, <1>4, <1>6 DEF Promise!Decide

LEMMA TellStep ==
  ASSUME IInv, NEW d \in Deliveries, Reply(d)
  PROVE  Told(d) \in SUBSET Ids /\ Promise!Tell(Told(d))
<1>1. TypeOK /\ Safe /\ ledger' = ledger /\ told' = told \cup Told(d)
  BY DEF IInv, Reply
<1>2. Told(d) \in SUBSET Ids
  BY <1>1, ToldTyped
<1>3. \A id \in Told(d) : \E a \in delivery[d].acks : a.status \in Outcomes /\ a.id = id
  BY DEF Told
<1>4. Told(d) \cap told = {}
  BY <1>1, <1>3 DEF Safe, OutcomeToldOnce
<1>5. \A id \in Told(d) : ledger[id].status \in Outcomes
  BY <1>1, <1>3 DEF Safe, AckIsRecorded
<1>6. \A id \in Told(d) : outcome[id] # "none"
  BY <1>2, <1>5 DEF outcome, Outcomes
<1>7. outcome' = outcome
  BY <1>1, OutcomeKept
<1>8. QED
  BY <1>1, <1>2, <1>4, <1>6, <1>7 DEF Promise!Tell

LEMMA LedgerStep ==
  ASSUME IInv, [FeedNext]_feedVars
  PROVE  [Promise!Next]_<<outcome, told>>
<1>1. TypeOK /\ Safe
  BY DEF IInv
<1>2. CASE UNCHANGED <<ledger, told>>
  BY <1>2, OutcomeKept
<1>3. ASSUME NEW d \in Deliveries, Claim(d)
      PROVE  UNCHANGED <<outcome, told>>
  <2>1. CASE Wins(d)
    <3>1. Event(d).id \in Ids /\ ledger[Event(d).id].status = "none"
      BY <1>1, <2>1, EventTyped DEF Wins, Claim, Row
    <3>2. /\ ledger'[Event(d).id].status = "pending"
          /\ \A other \in Ids : other # Event(d).id => ledger'[other] = ledger[other]
      <4>1. Claimed(d) \in Rows /\ ledger' = [ledger EXCEPT ![Event(d).id] = Claimed(d)]
        BY <1>1, <2>1, WinsEffect
      <4>2. /\ ledger'[Event(d).id] = Claimed(d)
            /\ \A other \in Ids : other # Event(d).id => ledger'[other] = ledger[other]
        BY <1>1, <3>1, <4>1, RowTyped
      <4>3. QED
        BY <4>2 DEF Claimed
    <3>3. outcome' = outcome
      BY <3>1, <3>2, OutcomeKept DEF Outcomes
    <3>4. QED
      BY <1>3, <3>3 DEF Claim
  <2>2. CASE Row(d).status # "none"
    BY <1>3, <2>2, OutcomeKept DEF Claim
  <2>3. QED
    BY <1>3, <2>1, <2>2 DEF Wins
<1>4. ASSUME NEW d \in Deliveries, Release(d)
      PROVE  UNCHANGED <<outcome, told>>
  <2>1. \A id \in Ids : \/ ledger'[id] = ledger[id]
                        \/ ledger[id].status = "pending" /\ ledger'[id].status = "none"
    BY <1>1, <1>4 DEF Release, TypeOK, NoRow
  <2>2. outcome' = outcome
    BY <2>1, OutcomeKept DEF Outcomes
  <2>3. QED
    BY <1>4, <2>2 DEF Release
<1>5. ASSUME NEW d \in Deliveries, Finalize(d)
      PROVE  Promise!Next
  <2>1. Event(d).id \in Ids /\ delivery[d].verdict \in Outcomes
    BY <1>1, <1>5, FinalizeEffect
  <2>2. QED
    BY <1>5, <2>1, DecideStep DEF Promise!Next, Outcomes
<1>6. ASSUME NEW d \in Deliveries, Reply(d)
      PROVE  Promise!Next
  BY <1>6, TellStep DEF Promise!Next
<1>7. ASSUME NEW d \in Deliveries,
             Judge(d) \/ JudgeRaises(d) \/ StatementFails(d)
      PROVE  UNCHANGED <<ledger, told>>
  BY <1>7 DEF Judge, JudgeRaises, StatementFails
<1>8. ASSUME NEW d \in Deliveries, NEW i \in Integrations, NEW batch \in Batches,
             Deliver(d, i, batch)
      PROVE  UNCHANGED <<ledger, told>>
  BY <1>8 DEF Deliver
<1>9. ASSUME NEW i \in Integrations, NEW c \in Carriers, Expose(i, c) \/ Unexpose(i, c)
      PROVE  UNCHANGED <<ledger, told>>
  BY <1>9 DEF Expose, Unexpose
<1>10. CASE Crash
  BY <1>2, <1>10 DEF Crash
<1>11. CASE UNCHANGED feedVars
  BY <1>2, <1>11 DEF feedVars
<1>12. QED
  BY <1>2, <1>3, <1>4, <1>5, <1>6, <1>7, <1>8, <1>9, <1>10, <1>11 DEF FeedNext, Continues

LEMMA LedgerInit ==
  ASSUME Init
  PROVE  Promise!Init
<1>1. \A id \in Ids : ledger[id].status = "none"
  BY DEF Init, NoRow
<1>2. QED
  BY <1>1 DEF Init, Promise!Init, outcome, Outcomes

(* The feed implements the ledger the contract promises: one outcome of an *)
(* event, which never changes and is told at most once.                    *)
THEOREM ImplementsLedger == Spec => KeepsPromise
<1>1. Init => Promise!Init
  BY LedgerInit
<1>2. IInv /\ [FeedNext]_feedVars => [Promise!Next]_<<outcome, told>>
  BY LedgerStep
<1>3. Promise!Init /\ [][Promise!Next]_<<outcome, told>> <=> KeepsPromise
  BY DEF KeepsPromise, Promise!Spec, Promise!ledgerVars
<1> HIDE DEF Init, IInv, FeedNext, feedVars, outcome, KeepsPromise
<1>4. QED
  BY <1>1, <1>2, <1>3, Invariant, PTL DEF Spec
-----------------------------------------------------------------------------
(* The exposure fence *)

FenceSeen ==
  \A d \in Deliveries : \A i \in delivery[d].from : delivery[d].fence \subseteq shown[i]

VerdictStands ==
  \A d \in Deliveries : delivery[d].at = "finalize" =>
    delivery[d].verdict = Verdict(Event(d), delivery[d].fence)

ExposedWasShown == \A i \in Integrations : exposed[i] \subseteq shown[i]

FInv == IInv /\ FenceSeen /\ VerdictStands /\ ExposedWasShown /\ FenceHolds

(* What was shown stays shown. *)
LEMMA ShownGrows ==
  ASSUME TypeOK, [FeedNext]_feedVars
  PROVE  \A i \in Integrations : shown[i] \subseteq shown'[i]
<1>1. CASE UNCHANGED shown
  BY <1>1
<1>2. CASE \E i \in Integrations, c \in Carriers : Expose(i, c)
  BY <1>2 DEF Expose, TypeOK
<1>3. QED
  BY <1>1, <1>2 DEF FeedNext, feedVars, Continues, Deliver, Claim, Judge, JudgeRaises, Release,
     Finalize, Reply, StatementFails, Crash, Unexpose

LEMMA ExposedStep ==
  ASSUME TypeOK, ExposedWasShown, [FeedNext]_feedVars
  PROVE  ExposedWasShown'
<1>1. CASE UNCHANGED <<exposed, shown>>
  BY <1>1 DEF ExposedWasShown
<1>2. CASE \E i \in Integrations, c \in Carriers : Expose(i, c) \/ Unexpose(i, c)
  BY <1>2 DEF Expose, Unexpose, TypeOK, ExposedWasShown
<1>3. QED
  BY <1>1, <1>2 DEF FeedNext, feedVars, Continues, Deliver, Claim, Judge, JudgeRaises, Release,
     Finalize, Reply, StatementFails, Crash

(* What a step does to a request, for the fence: it is begun with what is  *)
(* exposed, kept, judged, moved on to the next event, or ended.            *)
LEMMA RequestStep ==
  ASSUME IInv, NEW d \in Deliveries, [FeedNext]_feedVars
  PROVE  \/ /\ delivery'[d].from = delivery[d].from
            /\ delivery'[d].fence = delivery[d].fence
            /\ \/ delivery'[d].at # "finalize"
               \/ /\ delivery[d].at = "finalize"
                  /\ delivery'[d].batch = delivery[d].batch
                  /\ delivery'[d].verdict = delivery[d].verdict
               \/ /\ delivery'[d].batch = delivery[d].batch
                  /\ delivery'[d].verdict = Verdict(Event(d), delivery[d].fence)
         \/ /\ delivery'[d].at # "finalize"
            /\ \/ delivery'[d].from = {}
               \/ \E i \in Integrations :
                    delivery'[d].from = {i} /\ delivery'[d].fence = exposed[i]
<1> DEFINE Kept == /\ delivery'[d].from = delivery[d].from
                   /\ delivery'[d].fence = delivery[d].fence
                   /\ \/ delivery'[d].at # "finalize"
                      \/ /\ delivery[d].at = "finalize"
                         /\ delivery'[d].batch = delivery[d].batch
                         /\ delivery'[d].verdict = delivery[d].verdict
                      \/ /\ delivery'[d].batch = delivery[d].batch
                         /\ delivery'[d].verdict = Verdict(Event(d), delivery[d].fence)
           Began == /\ delivery'[d].at # "finalize"
                    /\ \/ delivery'[d].from = {}
                       \/ \E i \in Integrations :
                            delivery'[d].from = {i} /\ delivery'[d].fence = exposed[i]
<1> SUFFICES Kept \/ Began
  OBVIOUS
<1>0. TypeOK /\ delivery \in [Deliveries -> Requests] /\ delivery[d] \in Requests
  BY DEF IInv, TypeOK
<1>1. CASE delivery'[d] = delivery[d]
  BY <1>1
<1>2. CASE delivery'[d] = Idle
  BY <1>2 DEF Idle
<1>3. ASSUME NEW i \in Integrations, NEW batch \in Batches, Deliver(d, i, batch)
      PROVE  Began
  <2> DEFINE k == [Idle EXCEPT !.at = "claim", !.from = {i}, !.batch = batch,
                               !.fence = exposed[i]]
  <2>1. k.at = "claim" /\ k.from = {i} /\ k.fence = exposed[i]
    BY DEF Idle
  <2>2. delivery' = [delivery EXCEPT ![d] = k]
    BY <1>3 DEF Deliver
  <2> HIDE DEF k
  <2>3. delivery'[d] = k
    BY <1>0, <2>2
  <2>4. QED
    BY <2>1, <2>3
<1>4. CASE Claim(d)
  <2>1. CASE Wins(d)
    <3> DEFINE k == [delivery[d] EXCEPT !.at = "judge"]
    <3>1. delivery' = [delivery EXCEPT ![d] = k]
      BY <1>0, <2>1, WinsEffect
    <3>2. k.at = "judge" /\ k.from = delivery[d].from /\ k.fence = delivery[d].fence
      BY <1>0 DEF Requests
    <3> HIDE DEF k
    <3>3. delivery'[d] = k
      BY <1>0, <3>1
    <3>4. QED
      BY <3>2, <3>3
  <2>2. CASE Row(d).status # "none"
    BY <1>0, <1>4, <2>2, AdvanceEffect DEF Claim
  <2>3. QED
    BY <1>4, <2>1, <2>2 DEF Wins
<1>5. CASE Judge(d)
  <2> DEFINE v == Verdict(Event(d), delivery[d].fence)
             k == [delivery[d] EXCEPT !.at = "finalize", !.verdict = v]
  <2>1. delivery' = [delivery EXCEPT ![d] = k]
    BY <1>5 DEF Judge
  <2> HIDE DEF v
  <2>2. k.from = delivery[d].from /\ k.fence = delivery[d].fence
        /\ k.batch = delivery[d].batch /\ k.verdict = v
    BY <1>0 DEF Requests
  <2> HIDE DEF k
  <2>3. delivery'[d] = k
    BY <1>0, <2>1
  <2>4. QED
    BY <2>2, <2>3 DEF v
<1>6. CASE JudgeRaises(d)
  <2> DEFINE k == [delivery[d] EXCEPT !.at = "release"]
  <2>1. delivery' = [delivery EXCEPT ![d] = k]
    BY <1>6 DEF JudgeRaises
  <2>2. k.at = "release" /\ k.from = delivery[d].from /\ k.fence = delivery[d].fence
    BY <1>0 DEF Requests
  <2> HIDE DEF k
  <2>3. delivery'[d] = k
    BY <1>0, <2>1
  <2>4. QED
    BY <2>2, <2>3
<1>7. CASE Finalize(d)
  BY <1>0, <1>7, AdvanceEffect, FinalizeEffect DEF Finalize
<1>8. CASE \E e \in Deliveries : Release(e) \/ Reply(e) \/ StatementFails(e)
  <2>1. \A e \in Deliveries : delivery'[e] = delivery[e] \/ delivery'[e] = Idle
    BY <1>0, <1>8 DEF Release, Reply, StatementFails
  <2>2. QED
    BY <1>1, <1>2, <2>1
<1>9. CASE Crash
  BY <1>2, <1>9 DEF Crash
<1>10. ASSUME NEW e \in Deliveries \ {d},
              \/ \E i \in Integrations, batch \in Batches : Deliver(e, i, batch)
              \/ Claim(e) \/ Judge(e) \/ JudgeRaises(e) \/ Finalize(e)
       PROVE  delivery'[d] = delivery[d]
  <2>1. CASE Claim(e) \/ Finalize(e)
    <3>1. UNCHANGED delivery \/ (\E status \in {"duplicate"} \cup Outcomes : Advance(e, status))
          \/ delivery' = [delivery EXCEPT ![e].at = "judge"]
      BY <1>0, <2>1, FinalizeEffect DEF Claim, Finalize
    <3>2. QED
      BY <1>0, <3>1 DEF Advance
  <2>2. QED
    BY <1>0, <1>10, <2>1 DEF Deliver, Judge, JudgeRaises
<1>11. CASE UNCHANGED delivery
  BY <1>1, <1>11
<1>12. ASSUME NEW e \in Deliveries,
              \/ \E i \in Integrations, batch \in Batches : Deliver(e, i, batch)
              \/ Claim(e) \/ Judge(e) \/ JudgeRaises(e) \/ Finalize(e)
       PROVE  Kept \/ Began
  <2> HIDE DEF Kept, Began
  <2>1. CASE e = d
    BY <1>3, <1>4, <1>5, <1>6, <1>7, <1>12, <2>1
  <2>2. CASE e # d
    BY <1>1, <1>10, <1>12, <2>2
  <2>3. QED
    BY <2>1, <2>2
<1> HIDE DEF Kept, Began
<1>13. CASE \E i \in Integrations, c \in Carriers : Expose(i, c) \/ Unexpose(i, c)
  BY <1>11, <1>13 DEF Expose, Unexpose
<1>14. CASE UNCHANGED feedVars
  BY <1>11, <1>14 DEF feedVars
<1>15. QED
  BY <1>8, <1>9, <1>12, <1>13, <1>14 DEF FeedNext, Continues

LEMMA FenceStep ==
  ASSUME FInv, [FeedNext]_feedVars
  PROVE  FenceSeen' /\ VerdictStands'
<1>1. TypeOK /\ IInv /\ TypeOK'
  BY TypeStep DEF FInv, IInv
<1>2. \A i \in Integrations : shown[i] \subseteq shown'[i]
  BY <1>1, ShownGrows
<1>3. \A d \in Deliveries : delivery[d].from \subseteq Integrations
                           /\ delivery'[d].from \subseteq Integrations
  BY <1>1 DEF TypeOK, Requests
<1>4. \A i \in Integrations : exposed[i] \subseteq shown[i]
  BY DEF FInv, ExposedWasShown
<1>5. FenceSeen'
  <2> SUFFICES ASSUME NEW d \in Deliveries, NEW i \in delivery'[d].from
               PROVE  delivery'[d].fence \subseteq shown'[i]
    BY DEF FenceSeen
  <2>1. CASE delivery'[d].from = delivery[d].from /\ delivery'[d].fence = delivery[d].fence
    <3>1. i \in Integrations /\ delivery[d].fence \subseteq shown[i]
      BY <1>3, <2>1 DEF FInv, FenceSeen
    <3>2. QED
      BY <1>2, <2>1, <3>1
  <2>2. CASE \E j \in Integrations : delivery'[d].from = {j} /\ delivery'[d].fence = exposed[j]
    BY <1>2, <1>4, <2>2
  <2>3. QED
    BY <1>1, <2>1, <2>2, RequestStep
<1>6. VerdictStands'
  <2> SUFFICES ASSUME NEW d \in Deliveries, delivery'[d].at = "finalize"
               PROVE  delivery'[d].verdict = Verdict(Event(d)', delivery'[d].fence)
    BY DEF VerdictStands
  <2>1. /\ delivery'[d].fence = delivery[d].fence
        /\ delivery'[d].batch = delivery[d].batch
        /\ \/ /\ delivery[d].at = "finalize"
              /\ delivery'[d].verdict = delivery[d].verdict
           \/ delivery'[d].verdict = Verdict(Event(d), delivery[d].fence)
    BY <1>1, RequestStep
  <2>2. Event(d)' = Event(d)
    BY <2>1 DEF Event
  <2>3. QED
    BY <2>1, <2>2 DEF FInv, VerdictStands
<1>7. QED
  BY <1>5, <1>6

(* A row becomes "applied" only when its owner finalizes it, on the verdict *)
(* of the fence the owner read.                                             *)
LEMMA FenceHoldsStep ==
  ASSUME FInv, [FeedNext]_feedVars
  PROVE  FenceHolds'
<1>1. TypeOK /\ Safe /\ IInv /\ \A i \in Integrations : shown[i] \subseteq shown'[i]
  BY ShownGrows DEF FInv, IInv
<1>2. SUFFICES ASSUME NEW id \in Ids, ledger'[id].status = "applied", ledger'[id].names # {},
                      NEW i \in ledger'[id].owner
               PROVE  ledger'[id].names \cap shown'[i] # {}
  BY DEF FenceHolds
<1>3. CASE ledger'[id] = ledger[id]
  <2>1. ledger[id].names \cap shown[i] # {} /\ i \in Integrations
    BY <1>1, <1>2, <1>3 DEF FInv, FenceHolds, TypeOK, Rows
  <2>2. QED
    BY <1>1, <1>3, <2>1
<1>4. ASSUME NEW d \in Deliveries, Finalize(d)
      PROVE  ledger'[id].names \cap shown'[i] # {}
  <2>1. Event(d).id \in Ids /\ ledger' = [ledger EXCEPT ![Event(d).id] = Stamped(Row(d), d)]
        /\ Stamped(Row(d), d) \in Rows
    BY <1>1, <1>4, FinalizeEffect
  <2>2. CASE id # Event(d).id
    BY <1>1, <1>3, <2>1, <2>2, RowTyped
  <2>3. CASE id = Event(d).id
    <3>1. ledger'[id] = Stamped(Row(d), d)
      BY <1>1, <2>1, <2>3, RowTyped
    <3>2. Row(d).owner = delivery[d].from /\ Row(d).names = Event(d).names
      BY <1>1, <1>4 DEF Safe, Owns, Finalize, Working
    <3>3. Row(d) \in Rows
      BY <1>1, <2>1 DEF TypeOK, Row
    <3>4. /\ Stamped(Row(d), d).status = delivery[d].verdict
          /\ Stamped(Row(d), d).owner = delivery[d].from
          /\ Stamped(Row(d), d).names = Event(d).names
      BY <3>2, <3>3 DEF Stamped, Rows
    <3>5. delivery[d].verdict = Verdict(Event(d), delivery[d].fence)
      BY <1>4 DEF FInv, VerdictStands, Finalize
    <3>6. Event(d).names \cap delivery[d].fence # {}
      BY <1>2, <3>1, <3>4, <3>5 DEF Verdict
    <3>7. i \in delivery[d].from /\ delivery[d].fence \subseteq shown[i]
      BY <1>2, <3>1, <3>4 DEF FInv, FenceSeen
    <3>8. i \in Integrations
      BY <1>1, <3>7 DEF TypeOK, Requests
    <3>9. QED
      BY <1>1, <3>1, <3>4, <3>6, <3>7, <3>8
  <2>4. QED
    BY <2>2, <2>3
<1>5. ASSUME NEW d \in Deliveries, Claim(d)
      PROVE  ledger'[id] = ledger[id]
  <2>1. CASE Wins(d)
    <3>1. Event(d).id \in Ids
      BY <1>1, <2>1, EventTyped DEF Wins, Claim
    <3>2. Claimed(d) \in Rows /\ ledger' = [ledger EXCEPT ![Event(d).id] = Claimed(d)]
      BY <1>1, <2>1, WinsEffect
    <3>3. /\ ledger'[Event(d).id] = Claimed(d)
          /\ \A other \in Ids : other # Event(d).id => ledger'[other] = ledger[other]
      BY <1>1, <3>1, <3>2, RowTyped
    <3>4. QED
      BY <1>2, <3>3 DEF Claimed
  <2>2. CASE Row(d).status # "none"
    BY <1>5, <2>2 DEF Claim
  <2>3. QED
    BY <1>5, <2>1, <2>2 DEF Wins
<1>6. ASSUME NEW d \in Deliveries, Release(d)
      PROVE  ledger'[id] = ledger[id]
  BY <1>1, <1>2, <1>6 DEF Release, TypeOK, NoRow
<1>7. ASSUME NEW d \in Deliveries,
             \/ \E j \in Integrations, batch \in Batches : Deliver(d, j, batch)
             \/ Judge(d) \/ JudgeRaises(d) \/ Reply(d) \/ StatementFails(d)
      PROVE  ledger' = ledger
  BY <1>7 DEF Deliver, Judge, JudgeRaises, Reply, StatementFails
<1>8. CASE Crash \/ (\E j \in Integrations, c \in Carriers : Expose(j, c) \/ Unexpose(j, c))
           \/ UNCHANGED feedVars
  BY <1>3, <1>8 DEF Crash, Expose, Unexpose, feedVars
<1>9. QED
  BY <1>3, <1>4, <1>5, <1>6, <1>7, <1>8 DEF FeedNext, Continues

(* A recorded placement names an exposure its integration was shown, for *)
(* any exposures that come and go between the statements of a batch.     *)
THEOREM FenceKept == Spec => []FenceHolds
<1>1. Init => FInv
  BY InvInit DEF Init, FInv, FenceSeen, VerdictStands, ExposedWasShown, FenceHolds, Idle, NoRow
<1>2. FInv /\ [FeedNext]_feedVars => FInv'
  BY SafeStep, TypeStep, FenceStep, FenceHoldsStep, ExposedStep DEF FInv, IInv
<1>3. FInv => FenceHolds
  BY DEF FInv
<1> HIDE DEF Init, FInv, FeedNext, feedVars, FenceHolds
<1>4. QED
  BY <1>1, <1>2, <1>3, PTL DEF Spec
=============================================================================
