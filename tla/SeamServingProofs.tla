-------------------------- MODULE SeamServingProofs --------------------------
(***************************************************************************)
(* What a quote-set may say, for any number of plans, versions and         *)
(* requests in flight.  The argument is per request: Seen relates what a   *)
(* request holds to what was committed while it ran.  The author and the   *)
(* operator only widen that window; the request's own steps only use what  *)
(* lies in it.                                                             *)
(***************************************************************************)
EXTENDS SeamServing, TLAPS

(* The part of the invariant that speaks of one request k, its window w and *)
(* the published pointers.                                                  *)
Seen(k, w, pub) ==
  /\ k.at = "idle" => k.answers = {} /\ k.scope = {}
  /\ k.at \in {"scope", "status", "price"} => k.op \in {"quote", "pinned", "test"}
  /\ k.at \in {"check", "gaps", "update"} => k.op = "live"
  /\ k.todo # {} => k.op = "quote"
  /\ k.op = "live" => \A p, q \in k.scope : p = q
  /\ k.at # "idle" => \A p \in Plans : pub[p] \in w[p].published
  /\ \A p \in Plans : k.rows[p].live => w[p].live
  /\ \A p \in k.scope : k.op \in {"quote", "pinned"} => k.rows[p].live
  /\ \A p \in k.scope : (k.op = "quote" \/ k.at \in {"gaps", "update"}) =>
       k.rows[p].receipt # 0 /\ k.rows[p].receipt \in w[p].published
  /\ \A p \in k.scope :
       (k.at \in {"status", "price"} /\ k.op # "pinned" /\ Least(k.scope, p))
         => k.held \in w[p].published
  /\ \A a \in k.answers : k.op # "pinned" => /\ a.version \in w[a.plan].published
                                             /\ a.hash \in w[a.plan].published
  /\ \A a \in k.answers : k.op # "test" => w[a.plan].live
  /\ \A a \in k.answers : (a.priced /\ k.op = "quote") =>
       k.rows[a.plan].receipt # 0 /\ k.rows[a.plan].receipt \in w[a.plan].published

AllSeen == \A c \in Callers : Seen(call[c], window[c], published)

IInv == TypeOK /\ AllSeen

-----------------------------------------------------------------------------
(* Types *)

LEMMA IdleTyped == Idle \in Calls
BY SMT, VersionBound DEF Idle, Calls, Steps, Unexposed, Exposures, Numbers, Mappings

LEMMA ClosedTyped == Closed \in [Plans -> Sights]
BY DEF Closed, Sights

(* Observe keeps the windows typed. *)
LEMMA ObserveTyped ==
  ASSUME TypeOK, NEW pub \in [Plans -> Numbers], NEW exp \in [Plans -> Exposures],
         Observe(pub, exp)
  PROVE  window' \in [Callers -> [Plans -> Sights]]
<1>1. ASSUME NEW c \in Callers, NEW p \in Plans
      PROVE  Sees(window[c], p, pub[p], exp[p].live) \in Sights
  BY <1>1 DEF TypeOK, Sees, Sights, Exposures
<1>2. QED
  BY <1>1 DEF Observe, TypeOK

LEMMA OpenTyped ==
  ASSUME TypeOK, NEW c \in Callers, Open(c)
  PROVE  window' \in [Callers -> [Plans -> Sights]]
<1>1. ASSUME NEW p \in Plans
      PROVE  Sees(Closed, p, published[p], exposure[p].live) \in Sights
  BY <1>1, ClosedTyped DEF TypeOK, Sees, Sights, Exposures, Closed
<1>2. QED
  BY <1>1 DEF Open, TypeOK

LEMMA ShutTyped ==
  ASSUME TypeOK, NEW c \in Callers, Shut(c)
  PROVE  window' \in [Callers -> [Plans -> Sights]]
BY ClosedTyped DEF Shut, TypeOK

(* A request changed field by field stays a request. *)
LEMMA FieldsTyped ==
  ASSUME NEW k \in Calls, NEW left \in SUBSET Plans, NEW told \in SUBSET Answers,
         NEW zero \in Numbers
  PROVE  [k EXCEPT !.scope = left, !.at = "scope", !.held = zero, !.answers = told]
           \in Calls
BY DEF Calls, Steps

LEMMA AnswerTyped ==
  ASSUME TypeOK, NEW c \in Callers, NEW p \in Plans, NEW v \in Numbers,
         NEW h \in Numbers, NEW b \in BOOLEAN, Answer(c, p, v, h, b)
  PROVE  call' \in [Callers -> Calls]
<1>1. [plan |-> p, version |-> v, hash |-> h, priced |-> b] \in Answers
  BY DEF Answers
<1>2. /\ call[c].answers \cup {[plan |-> p, version |-> v, hash |-> h, priced |-> b]}
           \in SUBSET Answers
      /\ call[c].scope \ {p} \in SUBSET Plans
      /\ 0 \in Numbers
  BY <1>1, VersionBound DEF TypeOK, Calls, Numbers
<1> DEFINE k == [call[c] EXCEPT !.scope = @ \ {p}, !.at = "scope", !.held = 0,
                   !.answers = @ \cup {[plan |-> p, version |-> v, hash |-> h, priced |-> b]}]
<1>3. call' = [call EXCEPT ![c] = k]
  BY DEF Answer
<1>4. k \in Calls
  <2>1. call[c] \in Calls
    BY DEF TypeOK
  <2>2. QED
    BY <1>2, <2>1, FieldsTyped
<1> HIDE DEF k
<1>5. QED
  BY <1>3, <1>4 DEF TypeOK

LEMMA TypeAuthor == TypeOK /\ Author => TypeOK'
<1> SUFFICES ASSUME TypeOK, NEW p \in Plans,
                    \/ \E body \in Contents : Freeze(p, body)
                    \/ \E v \in Numbers : Publish(p, v)
                    \/ Activate(p) \/ Evict(p) \/ Discard(p)
             PROVE  TypeOK'
  BY DEF Author
<1>1. CASE \E body \in Contents : Freeze(p, body)
  BY <1>1, VersionBound DEF Freeze, TypeOK, Numbers
<1>2. CASE \E v \in Numbers : Publish(p, v)
  <2> PICK v \in Numbers : Publish(p, v)
    BY <1>2
  <2>1. published' \in [Plans -> Numbers]
    BY DEF Publish, TypeOK
  <2>2. window' \in [Callers -> [Plans -> Sights]]
    BY <2>1, ObserveTyped DEF Publish, TypeOK
  <2>3. \A q \in Plans : published'[q] <= Len(versions'[q]) /\ Len(versions'[q]) <= MaxVersions
    BY VersionBound DEF Publish, TypeOK, Numbers
  <2>4. QED
    BY <2>1, <2>2, <2>3 DEF Publish, TypeOK
<1>3. CASE Activate(p) \/ Evict(p)
  BY <1>3 DEF Activate, Evict, TypeOK
<1>4. CASE Discard(p)
  <2>1. published' \in [Plans -> Numbers]
    BY <1>4, VersionBound DEF Discard, TypeOK, Numbers
  <2>2. window' \in [Callers -> [Plans -> Sights]]
    BY <1>4, <2>1, ObserveTyped DEF Discard, TypeOK
  <2>3. \A q \in Plans : published'[q] <= Len(versions'[q]) /\ Len(versions'[q]) <= MaxVersions
    BY <1>4, VersionBound DEF Discard, TypeOK, Numbers
  <2>4. QED
    BY <1>4, <2>1, <2>2, <2>3 DEF Discard, TypeOK
<1>5. QED
  BY <1>1, <1>2, <1>3, <1>4

LEMMA TypeOperator == TypeOK /\ Operator => TypeOK'
<1> SUFFICES ASSUME TypeOK, NEW p \in Plans,
                    Pause(p) \/ \E m \in Mappings : PatchMapping(p, m)
             PROVE  TypeOK'
  BY DEF Operator
<1>1. exposure' \in [Plans -> Exposures]
  <2>1. /\ [exposure[p] EXCEPT !.live = FALSE] \in Exposures
        /\ \A m \in Mappings : [exposure[p] EXCEPT !.mapping = m] \in Exposures
    BY DEF TypeOK, Exposures
  <2>2. PICK row \in Exposures : exposure' = [exposure EXCEPT ![p] = row]
    BY <2>1 DEF Pause, PatchMapping, SetExposure
  <2>3. QED
    BY <2>2 DEF TypeOK
<1>2. window' \in [Callers -> [Plans -> Sights]]
  BY <1>1, ObserveTyped DEF Pause, PatchMapping, SetExposure, TypeOK
<1>3. QED
  BY <1>1, <1>2 DEF Pause, PatchMapping, SetExposure, TypeOK

(* Every request begins from Idle, with the rows as they are. *)
LEMMA BeginTyped ==
  ASSUME TypeOK, NEW c \in Callers, NEW request \in Calls, Begin(c, request)
  PROVE  TypeOK'
<1>1. window' \in [Callers -> [Plans -> Sights]]
  BY OpenTyped DEF Begin
<1>2. QED
  BY <1>1 DEF Begin, TypeOK

(* The parts of the rows a request keeps are rows, live only where those are. *)
LEMMA RowsKept ==
  ASSUME TypeOK
  PROVE  /\ {JustMapped, Unreceipted, Paused} \subseteq [Plans -> Exposures]
         /\ \A p \in Plans : /\ JustMapped[p].live = FALSE
                             /\ Unreceipted[p].live = exposure[p].live
                             /\ Paused[p].live = FALSE
<1>1. \A p \in Plans : exposure[p] \in Exposures
  BY DEF TypeOK
<1>2. 0 \in Numbers
  BY VersionBound DEF Numbers
<1>3. \A p \in Plans : /\ JustMapped[p] = [live |-> FALSE, mapping |-> exposure[p].mapping, receipt |-> 0]
                       /\ Unreceipted[p] = [live |-> exposure[p].live,
                                            mapping |-> exposure[p].mapping, receipt |-> 0]
                       /\ Paused[p] = [live |-> FALSE, mapping |-> exposure[p].mapping,
                                       receipt |-> exposure[p].receipt]
  BY <1>1 DEF JustMapped, Unreceipted, Paused, Unexposed, Exposures
<1>4. \A p \in Plans : {JustMapped[p], Unreceipted[p], Paused[p]} \subseteq Exposures
  <2> SUFFICES ASSUME NEW p \in Plans
               PROVE  {JustMapped[p], Unreceipted[p], Paused[p]} \subseteq Exposures
    OBVIOUS
  <2>1. /\ exposure[p].live \in BOOLEAN /\ exposure[p].mapping \in Mappings
        /\ exposure[p].receipt \in Numbers
    BY <1>1 DEF Exposures
  <2>2. \A l \in BOOLEAN, m \in Mappings, r \in Numbers :
          [live |-> l, mapping |-> m, receipt |-> r] \in Exposures
    BY DEF Exposures
  <2>3. [live |-> FALSE, mapping |-> exposure[p].mapping, receipt |-> 0] \in Exposures
    BY <1>2, <2>1, <2>2
  <2>4. /\ [live |-> exposure[p].live, mapping |-> exposure[p].mapping, receipt |-> 0] \in Exposures
        /\ [live |-> FALSE, mapping |-> exposure[p].mapping, receipt |-> exposure[p].receipt]
             \in Exposures
    BY <1>2, <2>1, <2>2
  <2>5. QED
    BY <1>3, <2>3, <2>4
<1>5. QED
  BY <1>3, <1>4 DEF JustMapped, Unreceipted, Paused

LEMMA TypeArrives == TypeOK => \A c \in Callers : Arrives(c) => TypeOK'
<1> SUFFICES ASSUME TypeOK, NEW c \in Callers, Arrives(c)
             PROVE  TypeOK'
  OBVIOUS
<1>1. CASE BeginQuote(c)
  <2>1. [Idle EXCEPT !.op = "quote", !.at = "scope", !.rows = exposure, !.todo = Plans] \in Calls
    BY IdleTyped, RowsKept DEF TypeOK, Calls, Steps
  <2>2. QED
    BY <1>1, <2>1, BeginTyped DEF BeginQuote
<1>2. ASSUME NEW p \in Plans, BeginTest(c, p) PROVE TypeOK'
  <2>1. [Idle EXCEPT !.op = "test", !.at = "scope", !.rows = JustMapped, !.scope = {p}] \in Calls
    BY IdleTyped, RowsKept DEF TypeOK, Calls, Steps
  <2>2. QED
    BY <1>2, <2>1, BeginTyped DEF BeginTest
<1>3. ASSUME NEW p \in Plans, NEW v \in Numbers, BeginPinned(c, p, v) PROVE TypeOK'
  <2>1. [Idle EXCEPT !.op = "pinned", !.at = "status", !.rows = Unreceipted,
                     !.scope = {p}, !.held = v] \in Calls
    BY IdleTyped, RowsKept DEF TypeOK, Calls, Steps
  <2>2. QED
    BY <1>3, <2>1, BeginTyped DEF BeginPinned
<1>4. ASSUME NEW p \in Plans, NEW sent \in SUBSET Mappings, BeginLive(c, p, sent) PROVE TypeOK'
  <2>1. [Idle EXCEPT !.op = "live", !.at = "check", !.rows = Paused,
                     !.scope = {p}, !.sent = sent] \in Calls
    BY IdleTyped, RowsKept DEF TypeOK, Calls, Steps
  <2>2. QED
    BY <1>4, <2>1, BeginTyped DEF BeginLive
<1>5. {} \in SUBSET Mappings /\ \A m \in Mappings : {m} \in SUBSET Mappings
  OBVIOUS
<1>6. QED
  BY <1>1, <1>2, <1>3, <1>4, <1>5 DEF Arrives

LEMMA TypeServes == TypeOK => \A c \in Callers : Serves(c) => TypeOK'
<1> SUFFICES ASSUME TypeOK, NEW c \in Callers, Serves(c)
             PROVE  TypeOK'
  OBVIOUS
<1>e. End(c) => call' \in [Callers -> Calls] /\ window' \in [Callers -> [Plans -> Sights]]
  BY IdleTyped, ShutTyped DEF End, TypeOK
<1>g. \A step \in Steps : Goto(c, step) => call' \in [Callers -> Calls]
  <2> TAKE step \in Steps
  <2> DEFINE k == [call[c] EXCEPT !.at = step]
  <2>1. Goto(c, step) => call' = [call EXCEPT ![c] = k]
    BY DEF Goto
  <2>2. k \in Calls
    BY DEF TypeOK, Calls
  <2> HIDE DEF k
  <2>3. QED
    BY <2>1, <2>2 DEF TypeOK
<1>1. CASE CheckTested(c)
  BY <1>1, <1>e, <1>g DEF CheckTested, TypeOK, Steps
<1>2. CASE CheckGaps(c)
  BY <1>2, <1>e, <1>g DEF CheckGaps, TypeOK, Steps
<1>3. CASE SwitchOn(c)
  <2>1. PICK p \in Plans, m \in Mappings :
          exposure' = [exposure EXCEPT ![p].live = TRUE, ![p].mapping = m]
    BY <1>3 DEF SwitchOn, TypeOK, Calls, Exposures
  <2>3. exposure' \in [Plans -> Exposures]
    <3> DEFINE row == [exposure[p] EXCEPT !.live = TRUE, !.mapping = m]
    <3>2. exposure' = [exposure EXCEPT ![p] = row]
      BY <2>1
    <3>3. row \in Exposures
      BY DEF TypeOK, Exposures
    <3> HIDE DEF row
    <3>4. QED
      BY <3>2, <3>3 DEF TypeOK
  <2>4. ASSUME NEW d \in Callers, NEW q \in Plans
        PROVE  Sees(window[d], q, published[q], exposure'[q].live) \in Sights
    BY <2>3 DEF TypeOK, Sees, Sights, Exposures
  <2>5. window' \in [Callers -> [Plans -> Sights]]
    BY <1>3, <2>4, ClosedTyped DEF SwitchOn, TypeOK
  <2>6. call' \in [Callers -> Calls]
    BY <1>3, IdleTyped DEF SwitchOn, TypeOK
  <2>7. QED
    BY <1>3, <2>3, <2>5, <2>6 DEF SwitchOn, TypeOK
<1>4. CASE Gate(c)
  <2>1. PICK p \in Plans, S \in SUBSET Plans :
          call' = [call EXCEPT ![c].todo = @ \ {p}, ![c].scope = @ \cup ({p} \cap S)]
    BY <1>4 DEF Gate, Gated
  <2>2. call' \in [Callers -> Calls]
    <3> DEFINE k == [call[c] EXCEPT !.todo = @ \ {p}, !.scope = @ \cup ({p} \cap S)]
    <3>1. call' = [call EXCEPT ![c] = k]
      BY <2>1
    <3>2. k \in Calls
      <4>1. call[c].todo \ {p} \in SUBSET Plans /\ call[c].scope \cup ({p} \cap S) \in SUBSET Plans
        BY DEF TypeOK, Calls
      <4>2. QED
        BY <4>1 DEF TypeOK, Calls
    <3> HIDE DEF k
    <3>3. QED
      BY <3>1, <3>2 DEF TypeOK
  <2>3. QED
    BY <1>4, <2>2 DEF Gate, Gated, TypeOK
<1>5. CASE ReadPins(c)
  <2>1. call' \in [Callers -> Calls]
    <3>1. PICK p \in Plans :
            \/ call' = [call EXCEPT ![c].at = "status", ![c].held = published[p]]
            \/ Answer(c, p, published[p], published[p], FALSE)
      BY <1>5 DEF ReadPins
    <3>2. published[p] \in Numbers
      BY DEF TypeOK
    <3>3. CASE Answer(c, p, published[p], published[p], FALSE)
      BY <3>2, <3>3, AnswerTyped
    <3>4. CASE call' = [call EXCEPT ![c].at = "status", ![c].held = published[p]]
      <4> DEFINE k == [call[c] EXCEPT !.at = "status", !.held = published[p]]
      <4>1. call' = [call EXCEPT ![c] = k]
        BY <3>4
      <4>2. k \in Calls
        BY <3>2 DEF TypeOK, Calls, Steps
      <4> HIDE DEF k
      <4>3. QED
        BY <4>1, <4>2 DEF TypeOK
    <3>5. QED
      BY <3>1, <3>3, <3>4
  <2>2. QED
    BY <1>5, <2>1 DEF ReadPins, TypeOK
<1>6. CASE ReadStatus(c)
  BY <1>6, <1>g DEF ReadStatus, TypeOK, Steps
<1>7. CASE Price(c)
  <2>1. call' \in [Callers -> Calls]
    <3>1. PICK p \in Plans :
            \/ \E v, h \in {0, Resolves(c, p), call[c].held} : \E b \in BOOLEAN :
                 Answer(c, p, v, h, b)
            \/ call' = [call EXCEPT ![c].at = "stamp", ![c].held = Resolves(c, p)]
      BY <1>7, Zenon DEF Price
    <3>2. Resolves(c, p) \in Numbers /\ call[c].held \in Numbers /\ 0 \in Numbers
      BY VersionBound DEF Resolves, TypeOK, Calls, Numbers
    <3>3. CASE \E v, h \in {0, Resolves(c, p), call[c].held} : \E b \in BOOLEAN :
                 Answer(c, p, v, h, b)
      BY <3>2, <3>3, AnswerTyped
    <3>4. CASE call' = [call EXCEPT ![c].at = "stamp", ![c].held = Resolves(c, p)]
      <4> DEFINE k == [call[c] EXCEPT !.at = "stamp", !.held = Resolves(c, p)]
      <4>1. call' = [call EXCEPT ![c] = k]
        BY <3>4
      <4>2. k \in Calls
        BY <3>2 DEF TypeOK, Calls, Steps
      <4> HIDE DEF k
      <4>3. QED
        BY <4>1, <4>2 DEF TypeOK
    <3>5. QED
      BY <3>1, <3>3, <3>4
  <2>2. QED
    BY <1>7, <2>1 DEF Price, TypeOK
<1>8. CASE Stamp(c)
  <2>1. PICK p \in Plans : exposure' = [exposure EXCEPT ![p].receipt = call[c].held]
    BY <1>8 DEF Stamp, TypeOK, Calls
  <2>2. exposure' \in [Plans -> Exposures]
    <3> DEFINE row == [exposure[p] EXCEPT !.receipt = call[c].held]
    <3>1. exposure' = [exposure EXCEPT ![p] = row]
      BY <2>1
    <3>2. call[c].held \in Numbers
      BY DEF TypeOK, Calls
    <3>3. row \in Exposures
      BY <3>2 DEF TypeOK, Exposures
    <3> HIDE DEF row
    <3>4. QED
      BY <3>1, <3>3 DEF TypeOK
  <2>3. QED
    BY <1>8, <1>e, <2>2 DEF Stamp, TypeOK
<1>9. CASE Reply(c)
  BY <1>9, <1>e DEF Reply, TypeOK
<1>10. QED
  BY <1>1, <1>2, <1>3, <1>4, <1>5, <1>6, <1>7, <1>8, <1>9 DEF Serves

(* The types are kept by every step, whatever the author, the operator and the *)
(* other requests do.                                                          *)
THEOREM TypeCorrect == Spec => []TypeOK
<1>1. Init => TypeOK
  BY IdleTyped, ClosedTyped, VersionBound DEF Init, TypeOK, Unexposed, Exposures, Mappings, Numbers
<1>2. TypeOK /\ [Next]_vars => TypeOK'
  <2> SUFFICES ASSUME TypeOK, [Next]_vars PROVE TypeOK'
    OBVIOUS
  <2>1. CASE UNCHANGED vars
    BY <2>1 DEF TypeOK, vars
  <2>2. CASE Next
    BY <2>2, TypeAuthor, TypeOperator, TypeArrives, TypeServes DEF Next
  <2>3. QED
    BY <2>1, <2>2
<1>3. QED
  BY <1>1, <1>2, PTL DEF Spec

-----------------------------------------------------------------------------
(* What a request holds lies in its window *)

(* A wider window only admits more. *)
LEMMA Widened ==
  ASSUME NEW k \in Calls, NEW w, NEW v, NEW pub, NEW pub2, Seen(k, w, pub),
         \A p \in Plans : w[p].published \subseteq v[p].published /\ (w[p].live => v[p].live),
         k.at # "idle" => \A p \in Plans : pub2[p] \in v[p].published
  PROVE  Seen(k, v, pub2)
<1>1. k.scope \subseteq Plans /\ \A a \in k.answers : a.plan \in Plans
  BY DEF Calls, Answers
<1>2. QED
  BY <1>1 DEF Seen

(* Nothing is in flight, nothing is claimed. *)
LEMMA IdleSeen == ASSUME NEW w, NEW pub PROVE Seen(Idle, w, pub)
BY DEF Seen, Idle, Unexposed

(* What Sees keeps of the window and adds to it. *)
LEMMA SeesWider ==
  ASSUME NEW w \in [Plans -> Sights], NEW p \in Plans, NEW version, NEW live \in BOOLEAN
  PROVE  /\ Sees(w, p, version, live).published = w[p].published \cup {version}
         /\ w[p].live => Sees(w, p, version, live).live
         /\ live => Sees(w, p, version, live).live
<1>1. w[p].live \in BOOLEAN
  BY DEF Sights
<1>2. Sees(w, p, version, live).live = (w[p].live \/ live)
  BY <1>1 DEF Sees
<1>3. QED
  BY <1>1, <1>2 DEF Sees

(* An author's or an operator's commit widens every open window. *)
LEMMA ObserveSeen ==
  ASSUME TypeOK, AllSeen, NEW exp \in [Plans -> Exposures], Observe(published', exp),
         UNCHANGED call
  PROVE  AllSeen'
<1> SUFFICES ASSUME NEW c \in Callers
             PROVE  Seen(call[c], window'[c], published')
  BY DEF AllSeen
<1>1. Seen(call[c], window[c], published) /\ call[c] \in Calls
  BY DEF AllSeen, TypeOK
<1>2. CASE call[c].at = "idle"
  <2>1. window'[c] = window[c]
    BY <1>2 DEF Observe
  <2>2. QED
    BY <1>1, <1>2, <2>1, Widened
<1>3. CASE call[c].at # "idle"
  <2>1. \A p \in Plans : window'[c][p] = Sees(window[c], p, published'[p], exp[p].live)
    BY <1>3 DEF Observe
  <2>2. window[c] \in [Plans -> Sights] /\ \A p \in Plans : exp[p].live \in BOOLEAN
    BY DEF TypeOK, Exposures
  <2>3. \A p \in Plans : /\ window[c][p].published \subseteq window'[c][p].published
                         /\ window[c][p].live => window'[c][p].live
                         /\ published'[p] \in window'[c][p].published
    <3> SUFFICES ASSUME NEW p \in Plans
                 PROVE  /\ window[c][p].published \subseteq window'[c][p].published
                        /\ window[c][p].live => window'[c][p].live
                        /\ published'[p] \in window'[c][p].published
      OBVIOUS
    <3>1. window'[c][p] = Sees(window[c], p, published'[p], exp[p].live)
      BY <2>1
    <3>2. QED
      BY <2>2, <3>1, SeesWider
  <2>4. /\ \A p \in Plans : window[c][p].published \subseteq window'[c][p].published
                          /\ (window[c][p].live => window'[c][p].live)
        /\ call[c].at # "idle" => \A p \in Plans : published'[p] \in window'[c][p].published
    BY <2>3
  <2>5. QED
    BY <1>1, <2>4, Widened
<1>4. QED
  BY <1>2, <1>3

LEMMA AuthorSeen == TypeOK /\ AllSeen /\ (Author \/ Operator) => AllSeen'
<1> SUFFICES ASSUME TypeOK, AllSeen, NEW p \in Plans,
                    \/ \E body \in Contents : Freeze(p, body)
                    \/ \E v \in Numbers : Publish(p, v)
                    \/ Activate(p) \/ Evict(p) \/ Discard(p)
                    \/ Pause(p) \/ \E m \in Mappings : PatchMapping(p, m)
             PROVE  AllSeen'
  BY DEF Author, Operator
<1>1. CASE (\E body \in Contents : Freeze(p, body)) \/ Activate(p) \/ Evict(p)
  BY <1>1 DEF Freeze, Activate, Evict, AllSeen
<1>2. CASE (\E v \in Numbers : Publish(p, v)) \/ Discard(p)
  BY <1>2, ObserveSeen DEF Publish, Discard, TypeOK
<1>3. CASE Pause(p) \/ \E m \in Mappings : PatchMapping(p, m)
  <2>1. published' = published /\ call' = call /\ Observe(published, exposure')
    BY <1>3 DEF Pause, PatchMapping, SetExposure
  <2>2. Observe(published', exposure')
    BY <2>1
  <2>3. exposure' \in [Plans -> Exposures]
    BY <1>3, TypeOperator DEF Operator, TypeOK
  <2>4. QED
    BY <2>1, <2>2, <2>3, ObserveSeen
<1>4. QED
  BY <1>1, <1>2, <1>3

(* A request that opens sees the pointers and the switches of that moment. *)
LEMMA BeginSeen ==
  ASSUME TypeOK, AllSeen, NEW c \in Callers, NEW request \in Calls, Begin(c, request),
         \A p \in Plans : request.rows[p].live => exposure[p].live,
         request.answers = {},
         request.scope = {} \/ request.op # "quote",
         request.op = "pinned" => \A p \in request.scope : request.rows[p].live,
         request.at \in {"status", "price"} => request.op = "pinned",
         request.at # "idle", request.todo # {} => request.op = "quote",
         request.at \in {"scope", "status", "price"} => request.op \in {"quote", "pinned", "test"},
         request.at \in {"check", "gaps", "update"} => request.op = "live",
         request.at \notin {"gaps", "update"},
         request.op = "live" => \A p, q \in request.scope : p = q
  PROVE  AllSeen'
<1> SUFFICES ASSUME NEW d \in Callers
             PROVE  Seen(call'[d], window'[d], published)
  BY DEF AllSeen, Begin
<1>1. CASE d # c
  BY <1>1 DEF Begin, Open, AllSeen, TypeOK
<1>2. CASE d = c
  <2>1. call'[c] = request
    BY DEF Begin, TypeOK
  <2>2. \A p \in Plans : window'[c][p] = Sees(Closed, p, published[p], exposure[p].live)
    BY DEF Begin, Open, TypeOK
  <2>3. \A p \in Plans : published[p] \in window'[c][p].published
                        /\ (exposure[p].live => window'[c][p].live)
    <3> SUFFICES ASSUME NEW p \in Plans
                 PROVE  published[p] \in window'[c][p].published
                        /\ (exposure[p].live => window'[c][p].live)
      OBVIOUS
    <3>1. window'[c][p] = Sees(Closed, p, published[p], exposure[p].live)
      BY <2>2
    <3>2. exposure[p].live \in BOOLEAN
      BY DEF TypeOK, Exposures
    <3>3. QED
      BY <3>1, <3>2, ClosedTyped, SeesWider
  <2>4. \A p \in Plans : request.rows[p].live => window'[c][p].live
    BY <2>3
  <2>5. request.scope \subseteq Plans
    BY DEF Calls
  <2>6. QED
    BY <1>2, <2>1, <2>3, <2>4, <2>5 DEF Seen
<1>3. QED
  BY <1>1, <1>2

LEMMA ArrivesSeen == TypeOK /\ AllSeen => \A c \in Callers : Arrives(c) => AllSeen'
<1> SUFFICES ASSUME TypeOK, AllSeen, NEW c \in Callers, Arrives(c)
             PROVE  AllSeen'
  OBVIOUS
<1>1. CASE BeginQuote(c)
  <2> DEFINE k == [Idle EXCEPT !.op = "quote", !.at = "scope", !.rows = exposure, !.todo = Plans]
  <2>1. k \in Calls
    BY IdleTyped, RowsKept DEF TypeOK, Calls, Steps
  <2>2. k.rows = exposure /\ k.answers = {} /\ k.scope = {} /\ k.op = "quote" /\ k.at = "scope"
    BY DEF Idle
  <2>3. Begin(c, k)
    BY <1>1 DEF BeginQuote
  <2> HIDE DEF k
  <2>4. QED
    BY <2>1, <2>2, <2>3, RowsKept, BeginSeen
<1>2. ASSUME NEW p \in Plans, BeginTest(c, p) PROVE AllSeen'
  <2> DEFINE k == [Idle EXCEPT !.op = "test", !.at = "scope", !.rows = JustMapped, !.scope = {p}]
  <2>1. k \in Calls
    BY IdleTyped, RowsKept DEF TypeOK, Calls, Steps
  <2>2. k.rows = JustMapped /\ k.answers = {} /\ k.op = "test" /\ k.at = "scope" /\ k.todo = {}
    BY DEF Idle
  <2>3. Begin(c, k)
    BY <1>2 DEF BeginTest
  <2> HIDE DEF k
  <2>4. QED
    BY <2>1, <2>2, <2>3, RowsKept, BeginSeen
<1>3. ASSUME NEW p \in Plans, NEW v \in Numbers, BeginPinned(c, p, v) PROVE AllSeen'
  <2> DEFINE k == [Idle EXCEPT !.op = "pinned", !.at = "status", !.rows = Unreceipted,
                               !.scope = {p}, !.held = v]
  <2>1. k \in Calls
    BY IdleTyped, RowsKept DEF TypeOK, Calls, Steps
  <2>2. /\ k.rows = Unreceipted /\ k.answers = {} /\ k.op = "pinned" /\ k.at = "status"
        /\ k.scope = {p} /\ k.todo = {}
    BY DEF Idle
  <2>3. Begin(c, k) /\ exposure[p].live
    BY <1>3 DEF BeginPinned
  <2> HIDE DEF k
  <2>4. QED
    BY <2>1, <2>2, <2>3, RowsKept, BeginSeen
<1>4. ASSUME NEW p \in Plans, NEW sent \in SUBSET Mappings, BeginLive(c, p, sent) PROVE AllSeen'
  <2> DEFINE k == [Idle EXCEPT !.op = "live", !.at = "check", !.rows = Paused,
                               !.scope = {p}, !.sent = sent]
  <2>1. k \in Calls
    BY IdleTyped, RowsKept DEF TypeOK, Calls, Steps
  <2>2. k.rows = Paused /\ k.answers = {} /\ k.op = "live" /\ k.at = "check" /\ k.todo = {}
        /\ k.scope = {p}
    BY DEF Idle
  <2>3. Begin(c, k)
    BY <1>4 DEF BeginLive
  <2> HIDE DEF k
  <2>4. QED
    BY <2>1, <2>2, <2>3, RowsKept, BeginSeen
<1>5. {} \in SUBSET Mappings /\ \A m \in Mappings : {m} \in SUBSET Mappings
  OBVIOUS
<1>6. QED
  BY <1>1, <1>2, <1>3, <1>4, <1>5 DEF Arrives

(* A step of one request leaves the others' windows as they are. *)
LEMMA StepSeen ==
  ASSUME TypeOK, AllSeen, NEW c \in Callers, NEW k, call' = [call EXCEPT ![c] = k],
         UNCHANGED <<window, published>>, Seen(k, window[c], published)
  PROVE  AllSeen'
<1> SUFFICES ASSUME NEW d \in Callers
             PROVE  Seen(call'[d], window'[d], published')
  BY DEF AllSeen
<1>1. CASE d = c
  <2>1. call'[d] = k /\ window'[d] = window[c] /\ published' = published
    BY <1>1 DEF TypeOK
  <2>2. QED
    BY <2>1
<1>2. CASE d # c
  <2>1. call'[d] = call[d] /\ window'[d] = window[d] /\ published' = published
    BY <1>2 DEF TypeOK
  <2>2. QED
    BY <2>1 DEF AllSeen
<1>3. QED
  BY <1>1, <1>2

LEMMA EndSeen ==
  ASSUME TypeOK, AllSeen, NEW c \in Callers, End(c), UNCHANGED published
  PROVE  AllSeen'
<1> SUFFICES ASSUME NEW d \in Callers
             PROVE  Seen(call'[d], window'[d], published')
  BY DEF AllSeen
<1>1. CASE d = c
  <2>1. call'[d] = Idle
    BY <1>1 DEF End, TypeOK
  <2>2. QED
    BY <2>1, IdleSeen
<1>2. CASE d # c
  <2>1. call'[d] = call[d] /\ window'[d] = window[d] /\ published' = published
    BY <1>2 DEF End, Shut, TypeOK
  <2>2. QED
    BY <2>1 DEF AllSeen
<1>3. QED
  BY <1>1, <1>2

(* A request that only moves on, not back to a step that claims more. *)
LEMMA GotoSeen ==
  ASSUME TypeOK, AllSeen, NEW c \in Callers, NEW step, Goto(c, step),
         UNCHANGED <<window, published>>, call[c].at # "idle", step # "idle",
         step = "price" => call[c].at = "status",
         step \notin {"scope", "status", "check"},
         step \in {"gaps", "update"} =>
           /\ call[c].op = "live"
           /\ \A p \in call[c].scope : /\ call[c].rows[p].receipt # 0
                                       /\ call[c].rows[p].receipt \in window[c][p].published
  PROVE  AllSeen'
<1> DEFINE k == [call[c] EXCEPT !.at = step]
<1>1. call' = [call EXCEPT ![c] = k]
  BY DEF Goto
<1>2. Seen(call[c], window[c], published) /\ call[c] \in Calls
  BY DEF AllSeen, TypeOK
<1>3. /\ k.at = step /\ k.op = call[c].op /\ k.rows = call[c].rows
      /\ k.todo = call[c].todo /\ k.scope = call[c].scope /\ k.held = call[c].held
      /\ k.answers = call[c].answers
  BY <1>2 DEF Calls
<1> HIDE DEF k
<1>4. Seen(k, window[c], published)
  BY <1>2, <1>3 DEF Seen
<1>5. QED
  BY <1>1, <1>4, StepSeen

(* An answer adds a version of the window, for a plan of the scope. *)
LEMMA AnswerSeen ==
  ASSUME TypeOK, AllSeen, NEW c \in Callers, NEW p \in Plans, NEW v \in Numbers,
         NEW h \in Numbers, NEW b \in BOOLEAN, Answer(c, p, v, h, b),
         UNCHANGED <<window, published>>, call[c].at \in {"scope", "price"},
         p \in call[c].scope,
         call[c].op # "pinned" => {v, h} \subseteq window[c][p].published
  PROVE  AllSeen'
<1> DEFINE new == [plan |-> p, version |-> v, hash |-> h, priced |-> b]
           k == [call[c] EXCEPT !.scope = @ \ {p}, !.at = "scope", !.held = 0,
                                !.answers = @ \cup {new}]
<1>1. call' = [call EXCEPT ![c] = k]
  BY DEF Answer
<1>2. Seen(call[c], window[c], published) /\ call[c] \in Calls
  BY DEF AllSeen, TypeOK
<1>3. /\ k.at = "scope" /\ k.op = call[c].op /\ k.rows = call[c].rows
      /\ k.todo = call[c].todo /\ k.scope = call[c].scope \ {p}
      /\ k.answers = call[c].answers \cup {new}
  BY <1>2 DEF Calls
<1>4. new.plan = p /\ new.version = v /\ new.hash = h /\ new.priced = b
  OBVIOUS
<1> HIDE DEF new, k
<1>5. call[c].op \in {"quote", "pinned", "test"}
  BY <1>2 DEF Seen
<1>6. /\ call[c].op \in {"quote", "pinned"} => window[c][p].live
      /\ call[c].op = "quote" => /\ call[c].rows[p].receipt # 0
                                 /\ call[c].rows[p].receipt \in window[c][p].published
  BY <1>2 DEF Seen
<1>7. Seen(k, window[c], published)
  BY <1>2, <1>3, <1>4, <1>5, <1>6 DEF Seen
<1>8. QED
  BY <1>1, <1>7, StepSeen

LEMMA GateSeen ==
  ASSUME TypeOK, AllSeen, NEW c \in Callers, Gate(c)
  PROVE  AllSeen'
<1> DEFINE S == {p \in Plans : call[c].rows[p].live /\ Tested(c, p)}
<1>1. PICK p \in Plans :
        /\ Least(call[c].todo, p)
        /\ call' = [call EXCEPT ![c].todo = @ \ {p}, ![c].scope = @ \cup ({p} \cap S)]
  BY DEF Gate, Gated
<1>2. call[c].at = "scope" /\ UNCHANGED <<window, published>>
  BY DEF Gate, Gated
<1>3. p \in S => /\ call[c].rows[p].live
                 /\ published[p] # 0 /\ published[p] = call[c].rows[p].receipt
  BY DEF Tested
<1> HIDE DEF S
<1> DEFINE k == [call[c] EXCEPT !.todo = @ \ {p}, !.scope = @ \cup ({p} \cap S)]
<1>4. call' = [call EXCEPT ![c] = k]
  BY <1>1
<1>5. Seen(call[c], window[c], published) /\ call[c] \in Calls
  BY DEF AllSeen, TypeOK
<1>6. /\ k.at = "scope" /\ k.op = call[c].op /\ k.rows = call[c].rows
      /\ k.todo = call[c].todo \ {p} /\ k.scope = call[c].scope \cup ({p} \cap S)
      /\ k.answers = call[c].answers
  BY <1>2, <1>5 DEF Calls
<1> HIDE DEF k
<1>7. call[c].op = "quote" /\ published[p] \in window[c][p].published
  BY <1>1, <1>2, <1>5 DEF Seen, Least
<1>8. Seen(k, window[c], published)
  BY <1>2, <1>3, <1>5, <1>6, <1>7 DEF Seen
<1>9. QED
  BY <1>2, <1>4, <1>8, StepSeen

LEMMA ReadPinsSeen ==
  ASSUME TypeOK, AllSeen, NEW c \in Callers, ReadPins(c)
  PROVE  AllSeen'
<1>1. PICK p \in Plans :
        /\ Member(c, p)
        /\ \/ call' = [call EXCEPT ![c].at = "status", ![c].held = published[p]]
           \/ Answer(c, p, published[p], published[p], FALSE)
  BY DEF ReadPins
<1>2. /\ call[c].at = "scope" /\ UNCHANGED <<window, published>>
      /\ Least(call[c].scope, p) /\ p \in call[c].scope /\ published[p] \in Numbers
  BY <1>1 DEF ReadPins, Member, Least, TypeOK
<1>3. Seen(call[c], window[c], published) /\ call[c] \in Calls
  BY DEF AllSeen, TypeOK
<1>4. published[p] \in window[c][p].published
  BY <1>2, <1>3 DEF Seen
<1>5. CASE Answer(c, p, published[p], published[p], FALSE)
  BY <1>2, <1>4, <1>5, AnswerSeen
<1>6. CASE call' = [call EXCEPT ![c].at = "status", ![c].held = published[p]]
  <2> DEFINE k == [call[c] EXCEPT !.at = "status", !.held = published[p]]
  <2>1. call' = [call EXCEPT ![c] = k]
    BY <1>6
  <2>2. /\ k.at = "status" /\ k.op = call[c].op /\ k.rows = call[c].rows
        /\ k.todo = call[c].todo /\ k.scope = call[c].scope /\ k.held = published[p]
        /\ k.answers = call[c].answers
    BY <1>3 DEF Calls
  <2> HIDE DEF k
  <2>3. \A q \in call[c].scope : Least(call[c].scope, q) => q = p
    <3> SUFFICES ASSUME NEW q \in call[c].scope, Least(call[c].scope, q) PROVE q = p
      OBVIOUS
    <3>1. p <= q /\ q <= p /\ p \in Nat /\ q \in Nat
      BY <1>2, <1>3, PlanRanks DEF Least, Calls
    <3>2. QED
      BY <3>1
  <2>4. Seen(k, window[c], published)
    BY <1>2, <1>3, <1>4, <2>2, <2>3 DEF Seen
  <2>5. QED
    BY <1>2, <2>1, <2>4, StepSeen
<1>7. QED
  BY <1>1, <1>5, <1>6

LEMMA PriceSeen ==
  ASSUME TypeOK, AllSeen, NEW c \in Callers, Price(c)
  PROVE  AllSeen'
<1>1. PICK p \in Plans :
        /\ Member(c, p)
        /\ \/ Resolves(c, p) = 0 /\ Answer(c, p, 0, 0, FALSE)
           \/ \E b \in BOOLEAN : Answer(c, p, Resolves(c, p), call[c].held, b)
           \/ Answer(c, p, call[c].held, call[c].held, FALSE)
           \/ call' = [call EXCEPT ![c].at = "stamp", ![c].held = Resolves(c, p)]
  BY Zenon DEF Price
<1>2. /\ call[c].at = "price" /\ UNCHANGED <<window, published>>
      /\ Least(call[c].scope, p) /\ p \in call[c].scope
  BY <1>1 DEF Price, Member, Least
<1>3. Seen(call[c], window[c], published) /\ call[c] \in Calls
  BY DEF AllSeen, TypeOK
<1>4. Resolves(c, p) \in Numbers /\ call[c].held \in Numbers /\ 0 \in Numbers
  BY <1>3, VersionBound DEF Resolves, TypeOK, Calls, Numbers
<1>5. call[c].op # "pinned" => /\ Resolves(c, p) \in window[c][p].published
                              /\ call[c].held \in window[c][p].published
  BY <1>2, <1>3 DEF Seen, Resolves
<1>6. CASE Resolves(c, p) = 0 /\ Answer(c, p, 0, 0, FALSE)
  BY <1>2, <1>4, <1>5, <1>6, AnswerSeen
<1>7. CASE \E b \in BOOLEAN : Answer(c, p, Resolves(c, p), call[c].held, b)
  BY <1>2, <1>4, <1>5, <1>7, AnswerSeen
<1>8. CASE Answer(c, p, call[c].held, call[c].held, FALSE)
  BY <1>2, <1>4, <1>5, <1>8, AnswerSeen
<1>9. CASE call' = [call EXCEPT ![c].at = "stamp", ![c].held = Resolves(c, p)]
  <2> DEFINE k == [call[c] EXCEPT !.at = "stamp", !.held = Resolves(c, p)]
  <2>1. call' = [call EXCEPT ![c] = k]
    BY <1>9
  <2>2. /\ k.at = "stamp" /\ k.op = call[c].op /\ k.rows = call[c].rows
        /\ k.todo = call[c].todo /\ k.scope = call[c].scope
        /\ k.answers = call[c].answers
    BY <1>3 DEF Calls
  <2> HIDE DEF k
  <2>3. Seen(k, window[c], published)
    BY <1>2, <1>3, <2>2 DEF Seen
  <2>4. QED
    BY <1>2, <2>1, <2>3, StepSeen
<1>10. QED
  BY <1>1, <1>6, <1>7, <1>8, <1>9

(* The switch ends its own request and widens the others' windows. *)
LEMMA SwitchOnSeen ==
  ASSUME TypeOK, AllSeen, NEW c \in Callers, SwitchOn(c)
  PROVE  AllSeen'
<1> SUFFICES ASSUME NEW d \in Callers
             PROVE  Seen(call'[d], window'[d], published')
  BY DEF AllSeen
<1>1. published' = published /\ exposure' \in [Plans -> Exposures]
  BY TypeServes DEF Serves, SwitchOn, TypeOK
<1>2. CASE d = c
  <2>1. call'[d] = Idle
    BY <1>2 DEF SwitchOn, TypeOK
  <2>2. QED
    BY <2>1, IdleSeen
<1>3. CASE d # c
  <2>1. call'[d] = call[d]
    BY <1>3 DEF SwitchOn, TypeOK
  <2>2. Seen(call[d], window[d], published) /\ call[d] \in Calls
    BY DEF AllSeen, TypeOK
  <2>3. CASE call[d].at = "idle"
    <3>1. window'[d] = window[d]
      BY <1>3, <2>3 DEF SwitchOn
    <3>2. QED
      BY <1>1, <2>1, <2>2, <3>1
  <2>4. CASE call[d].at # "idle"
    <3>1. \A p \in Plans : window'[d][p] = Sees(window[d], p, published[p], exposure'[p].live)
      BY <1>3, <2>4 DEF SwitchOn
    <3>2. window[d] \in [Plans -> Sights] /\ \A p \in Plans : exposure'[p].live \in BOOLEAN
      BY <1>1 DEF TypeOK, Exposures
    <3>3. \A p \in Plans : window[d][p].published \subseteq window'[d][p].published
                          /\ (window[d][p].live => window'[d][p].live)
      <4> SUFFICES ASSUME NEW p \in Plans
                   PROVE  window[d][p].published \subseteq window'[d][p].published
                          /\ (window[d][p].live => window'[d][p].live)
        OBVIOUS
      <4>1. window'[d][p] = Sees(window[d], p, published[p], exposure'[p].live)
        BY <3>1
      <4>2. QED
        BY <3>2, <4>1, SeesWider
    <3>4. call[d].at # "idle" => \A p \in Plans : published[p] \in window'[d][p].published
      BY <2>2, <3>3 DEF Seen
    <3>5. QED
      BY <1>1, <2>1, <2>2, <3>3, <3>4, Widened
  <2>5. QED
    BY <2>3, <2>4
<1>4. QED
  BY <1>2, <1>3

LEMMA ServesSeen == TypeOK /\ AllSeen => \A c \in Callers : Serves(c) => AllSeen'
<1> SUFFICES ASSUME TypeOK, AllSeen, NEW c \in Callers, Serves(c)
             PROVE  AllSeen'
  OBVIOUS
<1>s. Seen(call[c], window[c], published) /\ call[c] \in Calls
  BY DEF AllSeen, TypeOK
<1>1. CASE CheckTested(c)
  <2>1. call[c].at = "check" /\ UNCHANGED published
    BY <1>1 DEF CheckTested
  <2>2. \/ End(c)
        \/ /\ Goto(c, "gaps") /\ UNCHANGED window
           /\ \E p \in call[c].scope : Tested(c, p)
    BY <1>1 DEF CheckTested
  <2>3. CASE End(c)
    BY <2>1, <2>3, EndSeen
  <2>4. CASE Goto(c, "gaps") /\ UNCHANGED window /\ \E p \in call[c].scope : Tested(c, p)
    <3>1. PICK p \in call[c].scope : Tested(c, p)
      BY <2>4
    <3>2. /\ call[c].op = "live" /\ p \in Plans /\ published[p] \in window[c][p].published
          /\ \A q \in call[c].scope : q = p
      BY <1>s, <2>1 DEF Seen, Calls
    <3>3. \A q \in call[c].scope : /\ call[c].rows[q].receipt # 0
                                   /\ call[c].rows[q].receipt \in window[c][q].published
      BY <3>1, <3>2 DEF Tested
    <3>4. QED
      BY <2>1, <2>4, <3>2, <3>3, GotoSeen
  <2>5. QED
    BY <2>2, <2>3, <2>4
<1>5. CASE CheckGaps(c)
  <2>1. call[c].at = "gaps" /\ UNCHANGED published
    BY <1>5 DEF CheckGaps
  <2>2. End(c) \/ (Goto(c, "update") /\ UNCHANGED window)
    BY <1>5 DEF CheckGaps
  <2>3. /\ call[c].op = "live"
        /\ \A q \in call[c].scope : /\ call[c].rows[q].receipt # 0
                                    /\ call[c].rows[q].receipt \in window[c][q].published
    BY <1>s, <2>1 DEF Seen
  <2>4. QED
    BY <2>1, <2>2, <2>3, EndSeen, GotoSeen
<1>2. CASE ReadStatus(c)
  <2>1. \E step \in {"conflict", "price"} : Goto(c, step)
    BY <1>2 DEF ReadStatus
  <2>2. call[c].at = "status" /\ UNCHANGED <<window, published>>
    BY <1>2 DEF ReadStatus
  <2>3. QED
    BY <2>1, <2>2, GotoSeen
<1>3. CASE Stamp(c) \/ Reply(c)
  BY <1>3, EndSeen DEF Stamp, Reply
<1>4. QED
  BY <1>1, <1>2, <1>3, <1>5, GateSeen, ReadPinsSeen, PriceSeen, SwitchOnSeen DEF Serves

-----------------------------------------------------------------------------
(* The invariant of every request *)

LEMMA Inductive == Spec => []IInv
<1>1. Init => IInv
  <2>1. Init => TypeOK
    BY IdleTyped, ClosedTyped, VersionBound
       DEF Init, TypeOK, Unexposed, Exposures, Mappings, Numbers
  <2>2. Init => AllSeen
    BY IdleSeen DEF Init, AllSeen
  <2>3. QED
    BY <2>1, <2>2 DEF IInv
<1>2. IInv /\ [Next]_vars => IInv'
  <2> SUFFICES ASSUME TypeOK, AllSeen, [Next]_vars PROVE TypeOK' /\ AllSeen'
    BY DEF IInv
  <2>1. CASE UNCHANGED vars
    BY <2>1 DEF TypeOK, AllSeen, vars
  <2>2. CASE Next
    BY <2>2, TypeAuthor, TypeOperator, TypeArrives, TypeServes,
       AuthorSeen, ArrivesSeen, ServesSeen DEF Next
  <2>3. QED
    BY <2>1, <2>2
<1>3. QED
  BY <1>1, <1>2, PTL DEF Spec

(* publish_snapshot is never seen half done: what a request without a pin     *)
(* answers for a plan, snapshot and hash, was published at some moment of it. *)
THEOREM AnswersPublished == Spec => []AnswerWasPublished
<1>1. IInv => AnswerWasPublished
  BY DEF IInv, AllSeen, Seen, AnswerWasPublished
<1>2. QED
  BY <1>1, Inductive, PTL

(* A plan paused throughout a quote-set is not answered for, on rows however  *)
(* old.                                                                       *)
THEOREM PausesHold == Spec => []PauseHolds
<1>1. IInv => PauseHolds
  BY DEF IInv, AllSeen, Seen, PauseHolds
<1>2. QED
  BY <1>1, Inductive, PTL

(* What passes the drift gate of a quote-set was the tested version while the *)
(* request ran, however many tests and publishes run beside it.               *)
THEOREM GateIsCurrent == Spec => []TestedWhileAsked
<1>1. IInv => TestedWhileAsked
  BY DEF IInv, AllSeen, Seen, TestedWhileAsked
<1>2. QED
  BY <1>1, Inductive, PTL

(* No step but SwitchOn turns a plan live, and SwitchOn has passed the gate.   *)
LEMMA SwitchGated ==
  IInv /\ [Next]_vars =>
    \A p \in Plans : (~exposure[p].live /\ exposure'[p].live) =>
      \E c \in Callers :
        LET tested == call[c].rows[p].receipt
        IN  /\ call[c].op = "live" /\ call'[c] = Idle
            /\ tested # 0 /\ tested \in window[c][p].published
<1> SUFFICES ASSUME TypeOK, AllSeen, [Next]_vars, NEW p \in Plans,
                    ~exposure[p].live, exposure'[p].live
             PROVE  \E c \in Callers :
                      /\ call[c].op = "live" /\ call'[c] = Idle
                      /\ call[c].rows[p].receipt # 0
                      /\ call[c].rows[p].receipt \in window[c][p].published
  BY DEF IInv
<1>1. exposure' # exposure
  OBVIOUS
<1>2. CASE Operator
  <2>1. PICK q \in Plans : Pause(q) \/ \E m \in Mappings : PatchMapping(q, m)
    BY <1>2 DEF Operator
  <2>2. exposure[q] \in Exposures
    BY DEF TypeOK
  <2>3. q # p => exposure'[p] = exposure[p]
    BY <2>1 DEF Pause, PatchMapping, SetExposure, TypeOK
  <2>4. q = p => ~exposure'[p].live
    BY <2>1, <2>2 DEF Pause, PatchMapping, SetExposure, TypeOK, Exposures
  <2>5. QED
    BY <2>3, <2>4
<1>3. ASSUME NEW c \in Callers, Stamp(c) PROVE FALSE
  <2>1. PICK q \in Plans : exposure' = [exposure EXCEPT ![q].receipt = call[c].held]
    BY <1>3 DEF Stamp, TypeOK, Calls
  <2>2. exposure'[p].live = exposure[p].live
    BY <2>1 DEF TypeOK, Exposures
  <2>3. QED
    BY <2>2
<1>4. ASSUME NEW c \in Callers, SwitchOn(c)
      PROVE  /\ call[c].op = "live" /\ call'[c] = Idle
             /\ call[c].rows[p].receipt # 0
             /\ call[c].rows[p].receipt \in window[c][p].published
  <2>1. PICK q \in call[c].scope, m \in Mappings :
          exposure' = [exposure EXCEPT ![q].live = TRUE, ![q].mapping = m]
    BY <1>4 DEF SwitchOn, TypeOK, Calls, Exposures
  <2>2. q = p
    BY <2>1 DEF TypeOK
  <2>3. Seen(call[c], window[c], published) /\ call[c].at = "update" /\ call'[c] = Idle
    BY <1>4 DEF SwitchOn, AllSeen, TypeOK
  <2>4. QED
    BY <2>2, <2>3 DEF Seen
<1>5. CASE \E c \in Callers : Arrives(c)
  BY <1>1, <1>5 DEF Arrives, BeginQuote, BeginTest, BeginPinned, BeginLive, Begin
<1>6. CASE Author
  BY <1>1, <1>6 DEF Author, Freeze, Publish, Activate, Evict, Discard
<1>7. ASSUME NEW c \in Callers, Serves(c), ~Stamp(c), ~SwitchOn(c) PROVE FALSE
  BY <1>1, <1>7 DEF Serves, CheckTested, CheckGaps, Gate, Gated, ReadPins, ReadStatus, Price, Reply
<1>8. ~UNCHANGED vars
  BY <1>1 DEF vars
<1>9. QED
  BY <1>2, <1>3, <1>4, <1>5, <1>6, <1>7, <1>8 DEF Next

(* A plan goes live only through a request during which the version of its    *)
(* receipt was published, whoever else publishes, tests and patches.          *)
THEOREM SwitchIsTested == Spec => GoesLiveTested
<1>1. IInv /\ [Next]_vars => [\A p \in Plans : (~exposure[p].live /\ exposure'[p].live) =>
       \E c \in Callers :
         LET tested == call[c].rows[p].receipt
         IN  /\ call[c].op = "live" /\ call'[c] = Idle
             /\ tested # 0 /\ tested \in window[c][p].published]_vars
  BY SwitchGated
<1>2. QED
  BY <1>1, Inductive, PTL DEF Spec, GoesLiveTested
===============================================================================
