---------------------------- MODULE BookPricing ----------------------------
(* How the scoring worker prices a book: it composes the policies of the    *)
(* book (services/scoring bookRun.ts over contracts policy-book.ts), folds  *)
(* the refused rows into them, stores the rows chunk by chunk and sums the  *)
(* ledger (worker.ts, the book branch of processNextJob).  Beside it, the   *)
(* price a single quote gives the same row (score.ts).                      *)
(*                                                                          *)
(* The rating engine is external to this module: a row of the book carries  *)
(* what the engine answers for it.  Money is integral, and the instances    *)
(* choose amounts and percentages whose products are exact.                 *)
EXTENDS Integers, Sequences, FiniteSets, FiniteSetsExt, SequencesExt

CONSTANTS
  Shapes,      \* rows: [cell, money, tiv, error, refused, tier]
  Plans,       \* plans: [coverages, total, gates, tail, floor]
  Mappings,    \* mappings: [grouped, rollups], rollups a function to reducers
  ChunkSizes,  \* values of spec.chunkSize
  MaxRows,     \* bound on the length of a book
  None         \* null, undefined or an absent key

VARIABLES
  book,        \* the rows as the engine answers them
  plan,        \* the resolved bundle: outputs, gates, tail, floor
  mapping,     \* spec.book
  chunk,       \* spec.chunkSize
  phase,       \* "compose", "rate", "done" or "failed"
  policies,    \* what composeBookPolicies returned
  adjusted,    \* the same after the refusals are folded in
  base,        \* chunkBase
  collected,   \* the results the summary is made from
  stored,      \* the rows of the result store
  summary      \* the summary of the result store

vars == <<book, plan, mapping, chunk, phase, policies, adjusted, base,
          collected, stored, summary>>
input == <<book, plan, mapping, chunk>>

TiersInOrder == <<"preferred", "standard", "submit", "decline">>
Tiers == Range(TiersInOrder)
Total == "total_premium"
CoverageSum == "coverage_sum_premium"
Exposure == "tiv"
LocationCount == "location_count"
Numbers == 1..Len(book)

\* composeBookPolicies answers null.
NoPolicies == [k \in {} |-> None]

---------------------------------------------------------------------------
(* What the engine answers and the editor lets a plan and a mapping hold    *)

ASSUME NoneApart == None \notin Int \cup Tiers

ASSUME RowsRated ==
  \A row \in Shapes :
    /\ row.tiv \in Int /\ row.error \in BOOLEAN /\ row.refused \in BOOLEAN
    /\ row.tier \in Tiers \cup {None}
    /\ \A p \in Plans : \A c \in p.coverages : row.money[c] \in Int

IsAdjustment(adj) ==
  /\ adj.kind \in {"schedule_rating", "package_factor", "endorsement", "minimum_premium"}
  /\ adj.kind = "schedule_rating" => adj.net \in Int /\ adj.cap \in Int
  /\ adj.kind = "package_factor" => adj.percent \in Int
  /\ adj.kind = "endorsement" => adj.amount \in Int
  /\ adj.kind = "minimum_premium" => adj.floor \in Int

ASSUME PlansResolved ==
  \A p \in Plans :
    /\ p.total \in BOOLEAN /\ p.floor \in Nat
    /\ IsFiniteSet(p.coverages) /\ p.coverages # {}
    /\ p.coverages \cap {Total, CoverageSum, Exposure, LocationCount} = {}
    /\ \A gate \in p.gates : gate.tier \in Tiers /\ gate.default \in Tiers
    /\ p.tail \in Seq(Range(p.tail))
    /\ \A n \in 1..Len(p.tail) : IsAdjustment(p.tail[n])

ASSUME MappingsDeclare ==
  \A m \in Mappings :
    /\ m.grouped \in BOOLEAN
    /\ \A f \in DOMAIN m.rollups : m.rollups[f] \in {"count", "sum", "max", "min"}

ASSUME Sizes == ChunkSizes \subseteq Nat \ {0} /\ MaxRows \in Nat

---------------------------------------------------------------------------
(* The engine's answer for a row, and what the plan calls its premium       *)

\* An error row's outputs are withheld; the exposure is an input.
Value(row, f) ==
  CASE f = Exposure -> row.tiv
    [] f \in plan.coverages /\ ~row.error -> row.money[f]
    [] f = Total /\ plan.total /\ ~row.error ->
         SumFunctionOnSet(row.money, plan.coverages)
    [] OTHER -> None

Declared == DOMAIN mapping.rollups
DeclaredPremium == Declared \ {Exposure}
TotalLess == ~plan.total /\ Cardinality(plan.coverages) > 1
IsCoverageSum == DeclaredPremium = {} /\ TotalLess

PlanBasis ==
  CASE plan.total -> Total
    [] TotalLess -> CoverageSum
    [] OTHER -> CHOOSE c \in plan.coverages : TRUE

Basis == IF DeclaredPremium # {} THEN CHOOSE f \in DeclaredPremium : TRUE
                                 ELSE PlanBasis

ExtraRollups == IF IsCoverageSum THEN plan.coverages \ Declared
                ELSE IF Declared = {} THEN {Basis} ELSE {}

RollupFields ==
  [f \in Declared \cup ExtraRollups |->
     IF f \in Declared THEN mapping.rollups[f] ELSE "sum"]

DeriveViews(row) ==
  IF row.error THEN None
  ELSE IF TotalLess THEN SumFunctionOnSet(row.money, plan.coverages)
  ELSE Value(row, PlanBasis)

---------------------------------------------------------------------------
(* The policy pipeline of the contracts package                             *)

ReduceRollup(reducer, S, f) ==
  LET finite == {i \in S : Value(book[i], f) # None}
      values == {Value(book[i], f) : i \in finite}
  IN CASE reducer = "count" -> Cardinality(S)
       [] reducer = "sum" -> SumFunction([i \in finite |-> Value(book[i], f)])
       [] reducer = "max" -> IF finite = {} THEN 0 ELSE Max(values)
       [] reducer = "min" -> IF finite = {} THEN 0 ELSE Min(values)

MostRestrictive(tiers) ==
  LET ranks == {r \in 1..4 : TiersInOrder[r] \in tiers}
  IN IF ranks = {} THEN TiersInOrder[1] ELSE TiersInOrder[Max(ranks)]

\* A missing field is a no-match, never a refusal.
Matches(rule, totals) ==
  rule.field \in DOMAIN totals /\ totals[rule.field] >= rule.least

GateVerdict(gate, totals) ==
  IF Matches(gate, totals) THEN gate.tier ELSE gate.default

Clamp(x, low, high) == Max({Min({x, high}), low})
Percent(x, p) == (x * p) \div 100

Apply(adj, x, totals) ==
  IF adj.when # None /\ ~Matches(adj.when, totals) THEN x
  ELSE CASE adj.kind = "schedule_rating" ->
              Percent(x, 100 + Clamp(adj.net, -adj.cap, adj.cap))
         [] adj.kind = "package_factor" -> Percent(x, adj.percent)
         [] adj.kind = "endorsement" -> x + adj.amount
         [] adj.kind = "minimum_premium" -> Max({x, adj.floor})

EvaluateTail(subtotal, tail, totals) ==
  LET running[n \in 0..Len(tail)] ==
        IF n = 0 THEN subtotal ELSE Apply(tail[n], running[n - 1], totals)
  IN running[Len(tail)]

ComposedTail ==
  plan.tail \o
  (IF plan.floor = 0 THEN <<>>
   ELSE <<[kind |-> "minimum_premium", floor |-> plan.floor, when |-> None]>>)

ComposePolicyTail(errors, rolled, key, totals) ==
  IF errors > 0 \/ ComposedTail = <<>> \/ key \notin DOMAIN rolled THEN None
  ELSE EvaluateTail(rolled[key], ComposedTail, totals)

\* evaluatePolicyBook, for the policy that holds the rows S.
Policy(S, fields, key) ==
  LET rolled == [f \in DOMAIN fields |-> ReduceRollup(fields[f], S, f)]
      totals == [f \in {LocationCount} \cup DOMAIN fields |->
                   IF f \in DOMAIN fields THEN rolled[f] ELSE Cardinality(S)]
      errors == Cardinality({i \in S : book[i].error})
      rowVerdicts == {book[i].tier : i \in S} \ {None}
      policyVerdicts == {GateVerdict(g, totals) : g \in plan.gates}
  IN [rows |-> S, rolled |-> rolled, errors |-> errors,
      tier |-> MostRestrictive(rowVerdicts \cup policyVerdicts),
      composed |-> ComposePolicyTail(errors, rolled, key, totals)]

---------------------------------------------------------------------------
(* The book: keys, composition, refusals                                    *)

RowKey(i) == [cell |-> "", row |-> i]

\* keyedRowsFromBook: a row without a policy id is a policy of its own.
KeyOf(i) ==
  IF mapping.grouped /\ book[i].cell \notin {"", None}
  THEN [cell |-> book[i].cell, row |-> 0] ELSE RowKey(i)

Keys == {KeyOf(i) : i \in Numbers}
Members(k) == {i \in Numbers : KeyOf(i) = k}

NothingToCompose ==
  ~mapping.grouped /\ ComposedTail = <<>> /\ plan.gates = {}

CannotCompose == IsCoverageSum /\ ComposedTail # <<>>

BookPolicies == [k \in Keys |-> Policy(Members(k), RollupFields, Basis)]

\* Mutant: the refused rows stay out of the policies they belong to.
RefusalsAside(ps) == ps

\* Grouped books: the composition ran blind to the refusals.
FoldRefusals(ps) ==
  IF ~mapping.grouped THEN ps
  ELSE [k \in DOMAIN ps |->
          LET n == Cardinality({i \in ps[k].rows : book[i].refused})
          IN IF n = 0 THEN ps[k]
             ELSE [ps[k] EXCEPT !.errors = @ + n, !.composed = None]]

---------------------------------------------------------------------------
(* The rows                                                                 *)

Init ==
  /\ book \in UNION {[1..n -> Shapes] : n \in 1..MaxRows}
  /\ plan \in Plans
  /\ mapping \in Mappings
  /\ DeclaredPremium \subseteq plan.coverages \cup (IF plan.total THEN {Total} ELSE {})
  /\ chunk \in ChunkSizes
  /\ phase = "compose"
  /\ policies = NoPolicies
  /\ adjusted = NoPolicies
  /\ base = 0
  /\ collected = <<>>
  /\ stored = <<>>
  /\ summary = None

\* composeBookPolicies, then the fold, without an await in between; a tail
\* on a plan without a total fails the job by name.
Compose ==
  /\ phase = "compose"
  /\ IF CannotCompose
     THEN phase' = "failed" /\ UNCHANGED <<policies, adjusted>>
     ELSE /\ phase' = "rate"
          /\ policies' = IF NothingToCompose THEN NoPolicies ELSE BookPolicies
          /\ adjusted' = FoldRefusals(policies')
  /\ UNCHANGED <<input, base, collected, stored, summary>>

\* A row of an ungrouped book is the only row of its policy.
HasPolicy == ~mapping.grouped /\ policies # NoPolicies
PolicyOf(i) == policies[RowKey(i)]
Composed(i) == HasPolicy /\ PolicyOf(i).composed # None

CompositionFailed(i) ==
  /\ HasPolicy /\ ComposedTail # <<>>
  /\ PolicyOf(i).composed = None \/ PolicyOf(i).errors > 0

Unpriced(i) == book[i].refused \/ book[i].error \/ CompositionFailed(i)

\* Mutant: the result the summary reads misses the verdict of its policy.
CollectedAsRated(i) ==
  [status |-> IF Unpriced(i) THEN "error" ELSE "ok", tier |-> book[i].tier]

\* A refusal takes the verdict with it; a row of its own policy has the
\* policy's verdict.
Collected(i) ==
  [status |-> IF Unpriced(i) THEN "error" ELSE "ok",
   tier |-> IF book[i].refused THEN None
            ELSE IF ~Unpriced(i) /\ HasPolicy THEN PolicyOf(i).tier
            ELSE book[i].tier]

\* Mutant: the policy is looked up by the place in the chunk.
StoredInChunk(i) ==
  LET policy == PolicyOf(((i - 1) % chunk) + 1) IN
  IF Unpriced(i) THEN [status |-> "error", premium |-> None, tier |-> None]
  ELSE [status |-> "ok",
        premium |-> IF HasPolicy /\ policy.composed # None
                    THEN policy.composed ELSE DeriveViews(book[i]),
        tier |-> IF HasPolicy THEN policy.tier ELSE book[i].tier]

Stored(i) ==
  IF Unpriced(i) THEN [status |-> "error", premium |-> None, tier |-> None]
  ELSE [status |-> "ok",
        premium |-> IF Composed(i) THEN PolicyOf(i).composed ELSE DeriveViews(book[i]),
        tier |-> IF HasPolicy THEN PolicyOf(i).tier ELSE book[i].tier]

\* Mutant: chunkBase counts a short chunk as a full one.
RateFullChunk ==
  /\ phase = "rate" /\ base < Len(book)
  /\ LET size == Min({chunk, Len(book) - base}) IN
       /\ base' = base + chunk
       /\ collected' = collected \o [j \in 1..size |-> Collected(base + j)]
       /\ stored' = stored \o [j \in 1..size |-> Stored(base + j)]
  /\ UNCHANGED <<input, phase, policies, adjusted, summary>>

\* One call of onChunk.
RateChunk ==
  /\ phase = "rate" /\ base < Len(book)
  /\ LET size == Min({chunk, Len(book) - base}) IN
       /\ base' = base + size
       /\ collected' = collected \o [j \in 1..size |-> Collected(base + j)]
       /\ stored' = stored \o [j \in 1..size |-> Stored(base + j)]
  /\ UNCHANGED <<input, phase, policies, adjusted, summary>>

---------------------------------------------------------------------------
(* The summary                                                              *)

PremiumOf(i) ==
  IF collected[i].status # "error" /\ Composed(i) THEN PolicyOf(i).composed
  ELSE IF DeriveViews(book[i]) # None THEN DeriveViews(book[i])
  ELSE Value(book[i], Basis)

\* The summary keys a row by its cell, an empty one too.
LedgerRow(i) ==
  LET error == collected[i].status = "error" IN
  [policy |-> IF ~mapping.grouped THEN None
              ELSE IF book[i].cell = None THEN RowKey(i)
              ELSE [cell |-> book[i].cell, row |-> 0],
   status |-> collected[i].status,
   premium |-> IF error THEN None ELSE PremiumOf(i),
   tier |-> IF error THEN None ELSE collected[i].tier]

RolledPolicyPremium(rolled) ==
  IF IsCoverageSum THEN SumFunctionOnSet(rolled, plan.coverages)
  ELSE IF Basis \in DOMAIN rolled THEN rolled[Basis] ELSE None

PolicyPremiumOf(p) ==
  IF p.errors > 0 THEN None
  ELSE IF p.composed # None THEN p.composed ELSE RolledPolicyPremium(p.rolled)

\* What a total adds up: policies of a grouped book, else ledger rows.
Entries ==
  IF mapping.grouped
  THEN [k \in DOMAIN adjusted |->
          [error |-> adjusted[k].errors > 0,
           premium |-> PolicyPremiumOf(adjusted[k]),
           tier |-> adjusted[k].tier]]
  ELSE [i \in Numbers |-> [error |-> LedgerRow(i).status = "error",
                           premium |-> LedgerRow(i).premium,
                           tier |-> LedgerRow(i).tier]]

\* Mutant: a declined premium is written like any other.
SumEverything(declined) ==
  LET of == {e \in DOMAIN Entries : ~Entries[e].error /\ Entries[e].premium # None}
  IN SumFunction([e \in of |-> Entries[e].premium])

SumEntries(declined) ==
  LET of == {e \in DOMAIN Entries :
               /\ ~Entries[e].error /\ Entries[e].premium # None
               /\ (Entries[e].tier = "decline") = declined}
  IN SumFunction([e \in of |-> Entries[e].premium])

SummarizeBook ==
  [written |-> SumEntries(FALSE),
   indicative |-> SumEntries(TRUE),
   errorRows |-> Cardinality({i \in Numbers : LedgerRow(i).status = "error"}),
   rows |-> [i \in Numbers |-> LedgerRow(i)],
   policies |-> IF ~mapping.grouped THEN None
                ELSE [k \in DOMAIN adjusted |->
                        [premium |-> PolicyPremiumOf(adjusted[k]),
                         tier |-> adjusted[k].tier,
                         errors |-> adjusted[k].errors]]]

Summarize ==
  /\ phase = "rate" /\ base = Len(book)
  /\ phase' = "done"
  /\ summary' = SummarizeBook
  /\ UNCHANGED <<input, policies, adjusted, base, collected, stored>>

Next == Compose \/ RateChunk \/ Summarize

Spec == Init /\ [][Next]_vars

---------------------------------------------------------------------------
(* The price of one risk, as scoreOne composes it: no mapping, so nothing   *)
(* rolls up but the premium.                                                *)

Quote(i) ==
  LET row == book[i]
      key == IF plan.total THEN Total ELSE CHOOSE c \in plan.coverages : TRUE
      compose == ~row.error /\ ~row.refused
                   /\ (ComposedTail # <<>> \/ plan.gates # {})
      policy == Policy({i}, [f \in {key} |-> "sum"], key)
      failed == /\ compose /\ ComposedTail # <<>>
                /\ TotalLess \/ policy.composed = None
  IN IF row.error \/ row.refused \/ failed
     THEN [status |-> "error", premium |-> None, tier |-> None]
     ELSE [status |-> "ok",
           premium |-> IF compose /\ policy.composed # None
                       THEN policy.composed ELSE DeriveViews(row),
           tier |-> IF compose THEN policy.tier ELSE row.tier]

---------------------------------------------------------------------------
(* Properties                                                               *)

Facets == [status : {"ok"}, premium : Int, tier : Tiers \cup {None}]
          \cup [status : {"error"}, premium : {None}, tier : {None}]

\* Every stored row is a priced row with its verdict, or an error row; the
\* cursor of the chunks counts the rows stored (processNextJob, onChunk).
TypeOK ==
  /\ phase \in {"compose", "rate", "done", "failed"}
  /\ base \in 0..Len(book)
  /\ Len(stored) = base /\ Len(collected) = base
  /\ \A i \in 1..base : stored[i] \in Facets
  /\ IF phase = "done" THEN DOMAIN summary.rows = Numbers ELSE summary = None

\* A row that cannot be rated has no premium and no tier among its stored
\* views (status, premium, tier) and in the ledger, and its policy no premium
\* (ADR-0056 in worker.ts and summarizeBook): a refusal found after the
\* composition reaches the policy.  The stored row's raw outputs and trace
\* are not looked at.
NothingWithheldLeaks ==
  /\ \A i \in 1..base : book[i].error \/ book[i].refused =>
       stored[i] = [status |-> "error", premium |-> None, tier |-> None]
  /\ phase = "done" =>
       \A i \in Numbers : book[i].error \/ book[i].refused =>
         /\ summary.rows[i].premium = None /\ summary.rows[i].tier = None
         /\ mapping.grouped => summary.policies[KeyOf(i)].premium = None

\* The mapping leaves the plan's own premium to roll up.
RollsThePremium ==
  Basis = PlanBasis /\ (IsCoverageSum \/ Basis \in DOMAIN RollupFields)

Rateable(k) == \A i \in Members(k) : ~book[i].error /\ ~book[i].refused
Filed(k) ==
  LET p == Policy(Members(k), RollupFields, Basis) IN
  IF ComposedTail = <<>>
  THEN SumFunction([i \in Members(k) |-> DeriveViews(book[i])])
  ELSE p.composed

\* The totals of a finished book, grouped or not, add up each policy all of
\* whose rows can be rated, once and with its tail and floor applied once;
\* a declined one only as indicative (worker.ts, summarizeBook).
TotalsAreFiled ==
  phase = "done" /\ RollsThePremium
    /\ (\A f \in Declared \ {Exposure} : mapping.rollups[f] = "sum") =>
    LET good == {k \in Keys : Rateable(k)}
        declined == {k \in good : /\ ~NothingToCompose
                                  /\ policies[k].tier = "decline"}
                    \cup {k \in good : /\ NothingToCompose
                                       /\ book[k.row].tier = "decline"}
    IN /\ summary.written = SumFunction([k \in good \ declined |-> Filed(k)])
       /\ summary.indicative = SumFunction([k \in declined |-> Filed(k)])

\* A row of an ungrouped book whose mapping declares no roll-up is stored
\* with the price, the verdict and the status a quote of the same inputs
\* answers, whatever chunk it falls in (worker.ts onChunk, score.ts).
RowsMatchQuotes ==
  ~mapping.grouped /\ Declared = {} /\ ~TotalLess =>
    \A i \in 1..base : stored[i] = Quote(i)

\* The ledger of a finished book says of each row what the store says of it:
\* the two are made from different results of the same chunk.
LedgerIsWhatWasStored ==
  phase = "done" =>
    \A i \in Numbers : /\ summary.rows[i].status = stored[i].status
                       /\ summary.rows[i].premium = stored[i].premium
                       /\ summary.rows[i].tier = stored[i].tier
=============================================================================
