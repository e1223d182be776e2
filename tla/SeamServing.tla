----------------------------- MODULE SeamServing ----------------------------
(***************************************************************************)
(* One integration serving quotes: exposed plans, their test receipts and  *)
(* live switches (integrations/service.py, integrations_route.py), the     *)
(* quote-set composer (integrations/quote_set.py) and the quote service    *)
(* (rates/quotes/service.py), against plans whose versions are frozen and  *)
(* published (rates/snapshots) and whose status moves meanwhile.           *)
(*                                                                         *)
(* The integration routes are plain functions on the thread pool: a        *)
(* request reads the exposure rows, the published pointer and the plan's   *)
(* status in statements of their own, and the author's routes, on the      *)
(* event loop, move all three in between.                                  *)
(***************************************************************************)
EXTENDS Naturals, Sequences

CONSTANTS
  Plans,        \* exposed plans, numbered in the order of their carrier labels
  Contents,     \* what a frozen body holds, as far as the seam sees it
  Callers,      \* bound: requests in flight on the thread pool
  Asked,        \* bound: the requests each caller sends
  MaxVersions   \* bound: versions frozen per plan

ASSUME PlanRanks == Plans \subseteq Nat
ASSUME VersionBound == MaxVersions \in Nat
ASSUME AskedKinds == Asked \in [Callers -> SUBSET {"quote", "pinned", "test", "live"}]

VARIABLES
  status,       \* rating_plans.status
  versions,     \* the frozen bodies of each plan, in order (plan_snapshots)
  published,    \* the version whose published_at is set, or 0
  exposure,     \* the row of integration_exposed_plans
  call,         \* the request a caller has in flight
  window        \* history: what each plan showed since the request began

vars == <<status, versions, published, exposure, call, window>>

-----------------------------------------------------------------------------
(* Types *)

Numbers == 0 .. MaxVersions
Inputs  == UNION {body.needs : body \in Contents}
Mappings == SUBSET Inputs

Exposures == [live : BOOLEAN, mapping : Mappings, receipt : Numbers]

(* The snapshot_id and content_hash of a member, both as version numbers. *)
Answers == [plan : Plans, version : Numbers, hash : Numbers, priced : BOOLEAN]

Steps == {"idle", "scope", "status", "price", "stamp", "check", "gaps", "update",
          "conflict"}

Calls == [op : {"none", "quote", "pinned", "test", "live"}, at : Steps,
          rows : [Plans -> Exposures], todo : SUBSET Plans, scope : SUBSET Plans,
          held : Numbers, sent : SUBSET Mappings, answers : SUBSET Answers]

Unexposed == [live |-> FALSE, mapping |-> {}, receipt |-> 0]

Idle == [op |-> "none", at |-> "idle", rows |-> [p \in Plans |-> Unexposed],
         todo |-> {}, scope |-> {}, held |-> 0, sent |-> {}, answers |-> {}]

Sights == [published : SUBSET Numbers, live : BOOLEAN]
Closed == [p \in Plans |-> [published |-> {}, live |-> FALSE]]

TypeOK ==
  /\ status \in [Plans -> {"draft", "active", "archived"}]
  /\ versions \in [Plans -> Seq(Contents)]
  /\ \A p \in Plans : published[p] <= Len(versions[p]) /\ Len(versions[p]) <= MaxVersions
  /\ published \in [Plans -> Numbers]
  /\ exposure \in [Plans -> Exposures]
  /\ call \in [Callers -> Calls]
  /\ window \in [Callers -> [Plans -> Sights]]

(* insert_exposed_plan: no mapping, not live, no receipt. *)
Init ==
  /\ status = [p \in Plans |-> "draft"]
  /\ versions = [p \in Plans |-> << >>]
  /\ published = [p \in Plans |-> 0]
  /\ exposure = [p \in Plans |-> Unexposed]
  /\ call = [c \in Callers |-> Idle]
  /\ window = [c \in Callers |-> Closed]

-----------------------------------------------------------------------------
(* History: every open request sees what is committed while it runs. *)

Sees(w, p, version, live) ==
  [published |-> w[p].published \cup {version}, live |-> w[p].live \/ live]

Observe(pub, exp) ==
  window' = [c \in Callers |->
               IF call[c].at = "idle" THEN window[c]
               ELSE [p \in Plans |-> Sees(window[c], p, pub[p], exp[p].live)]]

Open(c) == window' = [window EXCEPT ![c] =
                        [p \in Plans |-> Sees(Closed, p, published[p], exposure[p].live)]]

Shut(c) == window' = [window EXCEPT ![c] = Closed]

-----------------------------------------------------------------------------
(* The author's side: each is one statement or one transaction *)

Freeze(p, body) ==
  /\ Len(versions[p]) < MaxVersions
  /\ versions' = [versions EXCEPT ![p] = Append(@, body)]
  /\ UNCHANGED <<status, published, exposure, call, window>>

(* publish_snapshot: BEGIN IMMEDIATE, demote, promote, audit, COMMIT.  go_live *)
(* is Freeze followed by Publish.                                              *)
Publish(p, v) ==
  /\ v \in 1 .. Len(versions[p])
  /\ published' = [published EXCEPT ![p] = v]
  /\ Observe(published', exposure)
  /\ UNCHANGED <<status, versions, exposure, call>>

(* promote and rollback move the status and leave the pointer. *)
Activate(p) ==
  /\ status[p] \in {"draft", "archived"}
  /\ status' = [status EXCEPT ![p] = "active"]
  /\ UNCHANGED <<versions, published, exposure, call, window>>

Evict(p) ==
  /\ status[p] = "active"
  /\ status' = [status EXCEPT ![p] = "archived"]
  /\ UNCHANGED <<versions, published, exposure, call, window>>

(* discard_draft clears the pointer in its transaction. *)
Discard(p) ==
  /\ status[p] = "draft"
  /\ status' = [status EXCEPT ![p] = "archived"]
  /\ published' = [published EXCEPT ![p] = 0]
  /\ Observe(published', exposure)
  /\ UNCHANGED <<versions, exposure, call>>

-----------------------------------------------------------------------------
(* The operator's side of an exposure *)

SetExposure(p, row) ==
  /\ exposure' = [exposure EXCEPT ![p] = row]
  /\ Observe(published, exposure')

(* A PATCH without live = true has no gate: a single UPDATE. *)
Pause(p) ==
  /\ SetExposure(p, [exposure[p] EXCEPT !.live = FALSE])
  /\ UNCHANGED <<status, versions, published, call>>

PatchMapping(p, mapping) ==
  /\ SetExposure(p, [exposure[p] EXCEPT !.mapping = mapping])
  /\ UNCHANGED <<status, versions, published, call>>

Begin(c, request) ==
  /\ call[c].at = "idle"
  /\ request.op \in Asked[c]
  /\ call' = [call EXCEPT ![c] = request]
  /\ Open(c)
  /\ UNCHANGED <<status, versions, published, exposure>>

End(c) ==
  /\ call' = [call EXCEPT ![c] = Idle]
  /\ Shut(c)

Goto(c, step) == call' = [call EXCEPT ![c].at = step]

(* The rows as a request that is not gated reads them: their mapping; as    *)
(* one for live rows does, and as the live switch does.                     *)
JustMapped  == [p \in Plans |-> [Unexposed EXCEPT !.mapping = exposure[p].mapping]]
Unreceipted == [p \in Plans |-> [exposure[p] EXCEPT !.receipt = 0]]
Paused      == [p \in Plans |-> [exposure[p] EXCEPT !.live = FALSE]]

(* A PATCH with live = true reads the row first; sent holds the mapping its *)
(* body may bring along.                                                    *)
BeginLive(c, p, sent) ==
  Begin(c, [Idle EXCEPT !.op = "live", !.at = "check", !.rows = Paused,
                        !.scope = {p}, !.sent = sent])

(* current_version_is_tested, on the row read at the beginning. *)
Tested(c, p) == published[p] # 0 /\ published[p] = call[c].rows[p].receipt

(* Mutant: "tested at some point" opens the gate. *)
CheckTestedOnce(c) ==
  /\ call[c].at = "check"
  /\ \E p \in call[c].scope :
       \/ call[c].rows[p].receipt # 0 /\ Goto(c, "gaps") /\ UNCHANGED window
       \/ call[c].rows[p].receipt = 0 /\ End(c)
  /\ UNCHANGED <<status, versions, published, exposure>>

CheckTested(c) ==
  /\ call[c].at = "check"
  /\ \E p \in call[c].scope :
       \/ Tested(c, p) /\ Goto(c, "gaps") /\ UNCHANGED window
       \/ ~Tested(c, p) /\ End(c)
  /\ UNCHANGED <<status, versions, published, exposure>>

(* consumed_inputs_with_coverage; nothing published consumes nothing. *)
Consumed(p) == IF published[p] = 0 THEN {} ELSE versions[p][published[p]].needs

Covered(p, mapping) == Consumed(p) \subseteq mapping

CheckGaps(c) ==
  /\ call[c].at = "gaps"
  /\ \E p \in call[c].scope :
       \/ Covered(p, call[c].rows[p].mapping) /\ Goto(c, "update") /\ UNCHANGED window
       \/ ~Covered(p, call[c].rows[p].mapping) /\ End(c)
  /\ UNCHANGED <<status, versions, published, exposure>>

SwitchOn(c) ==
  /\ call[c].at = "update"
  /\ \E p \in call[c].scope :
       \E m \in IF call[c].sent = {} THEN {exposure[p].mapping} ELSE call[c].sent :
         exposure' = [exposure EXCEPT ![p].live = TRUE, ![p].mapping = m]
  /\ call' = [call EXCEPT ![c] = Idle]
  /\ window' = [d \in Callers |->
                  IF d = c THEN Closed
                  ELSE IF call[d].at = "idle" THEN window[d]
                  ELSE [p \in Plans |->
                          Sees(window[d], p, published[p], exposure'[p].live)]]
  /\ UNCHANGED <<status, versions, published>>

-----------------------------------------------------------------------------
(* A quote-set: the rows in one SELECT, the gate of each, then the members *)

BeginQuote(c) ==
  Begin(c, [Idle EXCEPT !.op = "quote", !.at = "scope", !.rows = exposure,
                        !.todo = Plans])

Least(S, p) == p \in S /\ \A q \in S : p <= q

Gated(c, serving) ==
  /\ call[c].at = "scope"
  /\ \E p \in Plans :
       /\ Least(call[c].todo, p)
       /\ call' = [call EXCEPT ![c].todo = @ \ {p},
                              ![c].scope = @ \cup ({p} \cap serving)]
  /\ UNCHANGED <<status, versions, published, exposure, window>>

(* Mutant: "tested at some point" is enough. *)
GateOnce(c) == Gated(c, {p \in Plans : call[c].rows[p].live /\ call[c].rows[p].receipt # 0})

(* _serving_note: paused, or the live version drifted from the tested one. *)
Gate(c) == Gated(c, {p \in Plans : call[c].rows[p].live /\ Tested(c, p)})

(* Mutant: a pin is quoted whatever the operator's pause says. *)
BeginPinnedPaused(c, p, v) ==
  /\ v \in 1 .. Len(versions[p])
  /\ Begin(c, [Idle EXCEPT !.op = "pinned", !.at = "status", !.rows = Unreceipted,
                           !.scope = {p}, !.held = v])

(* A pinned request: the scope is the one plan, if it is live, at the named *)
(* version; the drift gate is not consulted.                                *)
BeginPinned(c, p, v) ==
  /\ exposure[p].live
  /\ v \in 1 .. Len(versions[p])
  /\ Begin(c, [Idle EXCEPT !.op = "pinned", !.at = "status", !.rows = Unreceipted,
                           !.scope = {p}, !.held = v])

(* The Hub's test step: one member, no gate. *)
BeginTest(c, p) ==
  Begin(c, [Idle EXCEPT !.op = "test", !.at = "scope", !.rows = JustMapped,
                        !.scope = {p}])

Member(c, p) == call[c].todo = {} /\ Least(call[c].scope, p)

Answer(c, p, version, hash, priced) ==
  call' = [call EXCEPT ![c].scope = @ \ {p}, ![c].at = "scope", ![c].held = 0,
                       ![c].answers = @ \cup {[plan |-> p, version |-> version,
                                               hash |-> hash, priced |-> priced]}]

(* _published_pins, then the mapping: a missing required fact refuses the *)
(* member without a quote.                                                *)
ReadPins(c) ==
  /\ call[c].at = "scope"
  /\ \E p \in Plans :
       /\ Member(c, p)
       /\ \/ call' = [call EXCEPT ![c].at = "status", ![c].held = published[p]]
          \/ call[c].rows[p].mapping # {} /\ Answer(c, p, published[p], published[p], FALSE)
  /\ UNCHANGED <<status, versions, published, exposure, window>>

(* quote_plan's guard; its ConflictError is caught by no one. *)
ReadStatus(c) ==
  /\ call[c].at = "status"
  /\ \E p \in Plans :
       /\ Member(c, p)
       /\ Goto(c, IF status[p] = "archived" THEN "conflict" ELSE "price")
  /\ UNCHANGED <<status, versions, published, exposure, window>>

(* Mutant: the quote is priced on the version of the receipt. *)
ResolvesReceipt(c, p) ==
  IF call[c].op = "pinned" THEN call[c].held ELSE call[c].rows[p].receipt

(* get_published_snapshot_with_body, a second time, or the pinned snapshot. *)
Resolves(c, p) == IF call[c].op = "pinned" THEN call[c].held ELSE published[p]

(* The engine prices only what it was given every required input of; it may *)
(* also refuse the risk, fail or be unreachable.  A priced member states    *)
(* the snapshot of quote_plan and the hash of the pins read before; a       *)
(* failed one states the pins.                                              *)
Price(c) ==
  /\ call[c].at = "price"
  /\ \E p \in Plans :
       LET v == Resolves(c, p) IN
       /\ Member(c, p)
       /\ \/ v = 0 /\ Answer(c, p, 0, 0, FALSE)
          \/ v # 0 /\ Answer(c, p, v, call[c].held, FALSE)
          \/ v # 0 /\ Answer(c, p, call[c].held, call[c].held, FALSE)
          \/ /\ v # 0
             /\ versions[p][v].needs \subseteq call[c].rows[p].mapping
             /\ \/ call[c].op # "test" /\ Answer(c, p, v, call[c].held, TRUE)
                \/ /\ call[c].op = "test"
                   /\ call' = [call EXCEPT ![c].at = "stamp", ![c].held = v]
  /\ UNCHANGED <<status, versions, published, exposure, window>>

(* stamp_test_receipt, on the row as it is now. *)
Stamp(c) ==
  /\ call[c].at = "stamp"
  /\ \E p \in call[c].scope :
       exposure' = [exposure EXCEPT ![p].receipt = call[c].held]
  /\ End(c)
  /\ UNCHANGED <<status, versions, published>>

(* The response leaves: the members, or 409 for the whole request. *)
Reply(c) ==
  /\ \/ call[c].at = "scope" /\ call[c].todo = {} /\ call[c].scope = {}
     \/ call[c].at = "conflict"
  /\ End(c)
  /\ UNCHANGED <<status, versions, published, exposure>>

-----------------------------------------------------------------------------
Author ==
  \E p \in Plans :
    \/ \E body \in Contents : Freeze(p, body)
    \/ \E v \in Numbers : Publish(p, v)
    \/ Activate(p) \/ Evict(p) \/ Discard(p)

Operator == \E p \in Plans : Pause(p) \/ \E m \in Mappings : PatchMapping(p, m)

Arrives(c) ==
  \/ BeginQuote(c)
  \/ \E p \in Plans :
       \/ BeginTest(c, p)
       \/ \E v \in Numbers : BeginPinned(c, p, v)
       \/ BeginLive(c, p, {})
       \/ \E m \in Mappings : BeginLive(c, p, {m})

Serves(c) ==
  \/ CheckTested(c) \/ CheckGaps(c) \/ SwitchOn(c)
  \/ Gate(c) \/ ReadPins(c) \/ ReadStatus(c) \/ Price(c) \/ Stamp(c) \/ Reply(c)

Next == Author \/ Operator \/ \E c \in Callers : Arrives(c) \/ Serves(c)

Spec == Init /\ [][Next]_vars

-----------------------------------------------------------------------------
(* Safety *)

(* Whatever a quote-set or a test answers for a plan, the snapshot it states  *)
(* and the hash it states were each published at some moment of the request   *)
(* (not the same moment: see PinsReplay), and "no published version" is       *)
(* answered only if there was none at some moment: the two UPDATEs of         *)
(* publish_snapshot are never seen half done.                                 *)
AnswerWasPublished ==
  \A c \in Callers : \A a \in call[c].answers :
    call[c].op # "pinned" =>
      {a.version, a.hash} \subseteq window[c][a.plan].published

(* A plan that was paused for the whole of a request is not answered for,     *)
(* pinned or not, although the composer works on rows it read at the start.   *)
PauseHolds ==
  \A c \in Callers : \A a \in call[c].answers :
    call[c].op # "test" => window[c][a.plan].live

(* A quote-set prices a plan only if the version of its receipt was the       *)
(* published one at some moment of the request: what slips past the drift     *)
(* gate was published while the request ran, however many tests stamped the   *)
(* row meanwhile.                                                             *)
TestedWhileAsked ==
  \A c \in Callers : \A a \in call[c].answers :
    (a.priced /\ call[c].op = "quote") =>
      LET tested == call[c].rows[a.plan].receipt
      IN  tested # 0 /\ tested \in window[c][a.plan].published

(* A plan goes live only through a request during which the version of the    *)
(* receipt it read was published: the gate and the UPDATE are statements of   *)
(* their own, so this is all the gate can promise.                            *)
GoesLiveTested ==
  [][\A p \in Plans : (~exposure[p].live /\ exposure'[p].live) =>
       \E c \in Callers :
         LET tested == call[c].rows[p].receipt
         IN  /\ call[c].op = "live" /\ call'[c] = Idle
             /\ tested # 0 /\ tested \in window[c][p].published]_vars

(* The promise of QuoteSetVersion ("The member's replay pins", models.py:321): *)
(* the hash a priced member states is the hash of the body of the snapshot it  *)
(* states.  _published_pins reads the pointer before quote_plan resolves it    *)
(* again, and an unpinned member takes the hash of the one and the snapshot of *)
(* the other.                                                                  *)
PinsReplay ==
  \A c \in Callers : \A a \in call[c].answers :
    a.priced /\ a.hash # 0 =>
      versions[a.plan][a.version] = versions[a.plan][a.hash]
=============================================================================
