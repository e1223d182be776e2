# OpenRater: verification models

OpenRater is a rating platform for commercial insurance: actuaries author a
*rating plan* (a chain of stages over factor tables), freeze it into immutable
*versions*, publish one of them, rate whole books of risks with it, and
integrators (MGA front ends, shops) ask for quotes over a tenant-scoped seam and
report placements back. This directory holds TLA+ modules translated from the
code under `src/`, the TLC configurations that check them on small instances,
and TLAPS proofs of what they promise for every size.

Paths below are relative to `src/server/src/openrater/` unless they start with
another top-level directory of the repository. `P` is
`frontend/src/routes/PlanDetailRoute.tsx`.

| Part | Modules |
|------|---------|
| life of a plan | `PlanStateMachine` (abstract), `PlanLifecycle`, `MCPlanLifecycle`, `PlanLifecycleProofs` |
| quotes over the seam | `SeamServing`, `MCSeamServing`, `SeamServingProofs` |
| event feed | `EventLedger` (abstract), `EventFeed`, `MCEventFeed`, `EventFeedProofs` |
| book runs over two services | `RunPromise` (abstract), `BookRuns`, `MCBookRuns`, `BookRunsProofs` |
| what a book is priced at | `BookPricing`, `MCBookPricing`, `BookPricingProofs` |
| draft documents in the browser | `DraftSync`, `MCDraftSync`, `DraftSyncProofs` |
| the calculation tower's autosave | `TowerAutosave`, `MCTowerAutosave`, `TowerAutosaveProofs` |
| the MCP launcher's children | `McpRuntime`, `MCMcpRuntime`, `McpRuntimeProofs` |

`PROJECT.json` is the index: components, runs, mutants, the code lines each
definition translates, hazards, findings and theorems.

To check: `tlc -workers 2 -config LifecycleSlots.cfg MCPlanLifecycle` (likewise
for the other configurations, with the module named in the table of runs) and
`tlapm PlanLifecycleProofs.tla`.

## 1. The system

### How it executes

What is atomic decides everything here, and it is not what one would guess:

* One `uvicorn` process with `--workers 1` (`deploy/Dockerfile:80`), one SQLite
  file.
* Connections are in autocommit mode (`persistence/db.py:106-136`): each SQL
  statement commits by itself. An explicit `BEGIN` is found only in
  `insert_plan`, `_copy_plan_substrate`, `discard_draft`, `publish_snapshot`,
  the bulk writers and `Database.transaction()`. Promote, rollback, hard
  delete, fork and the event feed have none, although docstrings speak of
  transactions.
* The author's routes (plans, snapshots, dimensions, factor tables, mapping,
  class codes, ingest, connectors) are `async def` with synchronous SQLite
  calls and **no await**: one request runs at a time and no other author
  request comes between its statements.
* The routes of integrations, quotes, plan runs and API keys are plain `def`:
  FastAPI puts them on a thread pool, where they interleave with one another
  and with the author's routes, statement by statement.
* The scoring service and its batch worker are Node processes of their own;
  the MCP launcher starts and respawns both.
* The browser is one thread whose requests answer in any order; so is the MCP
  launcher, where every `await` lets another tool call run.

### Components

| Component | State | Operations | Hard behaviour | What makes it correct |
|---|---|---|---|---|
| Plan lifecycle (`rates/plans/author.py`, `state_machine.py`) | `rating_plans`, stages, `draft_sessions`, `audit_log` | create, fork, duplicate, edit, promote, rollback, discard, hard delete | two to five autocommitted statements each; faults between them; foreign keys and a partial unique index that refuse late | one active plan a slot; what was validated is what goes live; no half-built copies, no dangling parents, exposures or versions |
| Stage chain and validator | `rating_plan_stages` | add, remove, reorder, patch | sequence numbers parked at 9999 and shifted by single UPDATEs | the chain stays a gapless order through a failure |
| Plan versions (`rates/snapshots`) | `plan_snapshots`, `published_at` | freeze, publish, go live, unpublish | demote and promote in one transaction, readers beside it | one published version, never a moment without |
| Integration seam (`integrations`, `integrations_route.py`) | exposures: mapping, receipt, live switch | expose, patch, switch live, test quote, quote-set, pinned quote | gate, price and stamp read the published pointer in separate statements, on threads | nothing paused is quoted; what is priced was published; the drift gate; a hash is of the snapshot beside it |
| Pairing and integrator keys | pairing codes, keys | mint, exchange, revoke | a code checked and used in separate statements | one active secret; a failed exchange can be repeated |
| Event feed (`integrations/events.py`) | `integration_events` | deliver a batch, list | retries while the first request runs, faults between claim and finalize | one outcome an event, told once, fenced by exposure |
| Quotes (`rates/quotes`) | quote ledger (append only) | quote a plan | the status guard and the version are read after the seam's gate | the version priced is the version stated |
| Plan runs (`rates/runs`) | `plan_runs` | submit, poll, page, compare | the job exists before its run; a run ends only when somebody reads it | a run ends, once, and its rows are its book's |
| Batch worker (`services/scoring/src/worker`, `core`, `adapters`) | spec, results and summary files; the queue's record and list | save, enqueue, claim, rate by chunks, sum up | a claim removes the job; files and record are two stores, one durable and one perhaps not | every row once, done only when whole; policies, refusals and totals agree |
| Frontend (`P`, hooks) | local copies, hashes, debounces, query cache | edit, save under If-Match, diff stages, freeze | answers out of order, refetches set off by saves, others writing | no edit lost silently, no edit of others wiped unseen |
| MCP launcher (`services/mcp`) | managed child processes | boot, respawn, repair, exit hooks | tool calls and the doctor share state across awaits; children die when they like | one engine, every call answered, children that die with the launcher |
| Idempotency middleware | stored responses by key | lookup, run, store | awaits between the three | a retried request does its work once |
| Persistence | schema, connections, migrations | transaction, migrate | nested scopes, a migration that fails midway | all or nothing where promised |
| Substrates, templates, ingest, connectors | plan-scoped tables | upserts, apply a workbook | mostly one statement or transaction on the event loop | |
| Rating engine, contracts, UI | none, or views | pure evaluation | arithmetic | conformance fixtures |

Interactions: the lifecycle moves `status`; the snapshots route moves the
published pointer; the seam reads both together with its own exposure rows and
calls `quote_plan`, which reads status and pointer once more; hard delete reads
the exposures; the event feed is fenced by the exposures; runs read the
pointer and post jobs to the scoring service, and read its files back when the
page polls; a quote and a book go through the same engine and different
compositions of policies; the browser writes drafts through the author's routes
and freezes them; the MCP launcher spawns the server and the scoring service.

## 2. Modules and how they correspond to the code

### PlanLifecycle (implements PlanStateMachine)

State: `status`, `attrs`, `parent`, `chain` are columns of `rating_plans` and
the verdict `validate_plan` would give on the stages; `substrate`, `session`,
`versions`, `audit`, `exposed` are the tables a lifecycle request also writes
or reads. `req` is the author request in flight with the statement it is at:
there is one, because the handlers have no await. `exposing` is the expose call
on the thread pool between its check and its insert.

Every statement is an action: `PromoteEvicting` archives the sibling,
`PromoteActivate` activates the draft or is refused by the unique index,
`PromoteAudit` writes the event; likewise rollback (four statements), hard
delete (guard, then three), create and fork (row, session, link, event),
duplicate (the same with the substrate copy first, and the compensation of its
`except` branch). `DiscardDraft` is one action because it is one transaction.
`StatementFails` ends the request with what was committed in place, `Crash`
loses the request and keeps the tables.

`PlanStateMachine` is `LEGAL_STATES_FOR_ACTION` and `NEW_STATUS_AFTER` of
`state_machine.py`: the moves a status may make. `PlanLifecycle` implements it
with the identity mapping on `status`.

Abstractions: plan ids carry a uuid and are never used again (an ingest with an
explicit id could); stage edits are one action `EditStages` that leaves some
verdict; the audit keeps the kinds in `Traced`; the columns of a deleted row
are forgotten; the random suffix that breaks a tie in rollback's `ORDER BY` is
a choice; fork does not copy the substrate tables, which duplicate does; the
signoff lock is not there because no code takes it, the status `proposed`
because no code sets it.

### SeamServing

State: `status`, `versions` and `published` of each exposed plan, `exposure`
(live, mapping, receipt), `call`: the request a thread has in flight, with the
rows it read at its beginning (`rows`), what it still has to gate (`todo`) and
to price (`scope`), the version it holds and the members it answered. `window`
is a history variable: the published versions and the live switch of each plan
as they were at any moment of the request. It is what makes a statement such as
"what was answered was published while you asked" a state predicate.

A quote-set is `BeginQuote` (one SELECT of the exposures), `Gate` per plan (the
pause and drift checks of `_serving_note`), then per member `ReadPins`,
`ReadStatus`, `Price`, and `Reply`. A pinned request is scoped to a live
exposure and skips the gate; a test skips the gate and ends in `Stamp`, which
writes the receipt on the row as it is by then. Switching live is three
statements: `CheckTested`, `CheckGaps`, `SwitchOn`. The author's actions
(`Freeze`, `Publish`, `Activate`, `Evict`, `Discard`) come between any two.

Abstractions: one integration; the exposures exist throughout (exposing and
withdrawing are in `PlanLifecycle` and `EventFeed`); a frozen body is the set
of required inputs it consumes; the engine's answer is a priced or a failed
member; plans are numbered in the order of their carrier labels, the order in
which the composer visits them; the request's subset of carriers and the ledger
rows are left out. `go_live` is `Freeze` followed by `Publish`.

### EventFeed (implements EventLedger)

State: `ledger` is `integration_events` by its primary key, `delivery` the
requests in flight, each with its batch, the fence read at its beginning, and
its acks. `Claim` is `INSERT OR IGNORE`, `Judge` is `_judge_one`, `Finalize`
the UPDATE to the outcome, `Release` the guarded DELETE after an exception.
`shown` and `told` are history: the exposures an integration ever had, and the
events whose outcome left in a response.

`EventLedger` is the promise of the integration contract: an event has at most
one outcome, which never changes, and the outcome is told at most once. The
refinement maps `outcome` to the decided part of the ledger; `Finalize` is its
`Decide`, `Reply` its `Tell`, everything else stutters.

Abstractions: authentication; an event is its id, the exposures its pins or its
label name (none: a kind without exposure fence), and whether its values are
those its kind requires; acks are a set with positions; timestamps are left out.

### BookRuns (implements RunPromise)

State: `post` is how far `POST /score-batch` and the `create_run` around it
have come; `files` what the durable result store has of a job (spec, the rows
of `results.ndjson`, a torn last line, the summary); `record` and `ready` the
queue adapter's status and list, which a crash empties when the `driver` is the
in-memory one and Redis keeps; `worker` the `WORKER_CONCURRENCY` loops; `run`
the row of `plan_runs`; `answers` the terminal states `refresh_run` has read and
not yet written; `reader` whoever pages through the rows.

`SaveSpec`, `SaveInput`, `Enqueue`, `InsertRun` are the four writes of a
submission, in their order; `LoseAnswer` is the timeout or crash before the
last. A worker is `Ask`, `Claim` (or `TimeOut`), `Begin`, `Load`, `AppendChunk`
per chunk, `SaveSummary`, `Close`. `Throw` is any call of it that throws, which
leaves a chunk cut at any row and may leave a torn line; `CloseFailed` is the
catch. `Stop`, `Exit`, `Crash` and `Boot` are the process: SIGTERM drains, a
crash does not, the container restarts. `Poll` and `Finalize` are `refresh_run`
split at its await. When a record is gone, `StatusOf` rebuilds it from the
files, as `scoreBatch.ts` does.

`RunPromise` says what whoever reads `plan_runs` may rely on: a run opens once,
ends once, is done only when every row is rated, and an ended run's rows stay.
The refinement maps `outcome` to the run's status and `rated` to the length of
the results file: the two live in different services.

Abstractions: a row is its number in the book; the input file is read whole;
progress and timestamps are left out; a job's rows are at least one (an empty
batch is refused).

### BookPricing

A pure module: a state is a book, a plan, a mapping and a chunk size, and the
three steps of a worker on it: `Compose` (`composeBookPolicies` over the whole
book), `RateChunk` (the rows of one `onChunk`, and the refusals folded into the
policies), `Summarize` (`summarizeBook`, `sumLedgerEntries`). The operators
follow the functions of `bookRun.ts`, `policy-book.ts` and `policy-stage.ts`:
roll-ups, gates, the tail (adjustment by adjustment, with its clamps and the
floor), the most restrictive tier, the premium a policy states. `Quote` is the
composition of `score.ts`, which a single quote of the same row takes.

The rating of one row is given: a row is what the engine answers (money per
coverage, exposure, error, refusal, tier). What the types of the contracts package
and the editor guarantee of rows, plans and mappings is stated as `RowsRated`,
`PlansResolved` and `MappingsDeclare`. Money is integral and the instances
choose percentages that divide it. `NoPolicies` is the null that
`composeBookPolicies` answers when nothing composes. Reducers `avg` and `first`, a spec's own
`views`, the object's constants of `policyInputKeys`, factor endorsements,
compound rules and warnings are left out.

### DraftSync

One tab of the plan route and the three hooks by which it persists documents of
a draft: a *collection* (always stored), a *mapping* (stored or deleted), the
policy *tail* (refetches and resolves a refused write). `server` is the stored
document, `tab` the state and refs of the hook (the local copy, the hash ref,
the debounce, the one-shot reconcile), `get` and `flights` the requests on the
wire, `freeze` is `handleFreezeConfirm`. `Edit`, `Fire` (the debounce),
`Serve`, `Answer`, `Fail`, `Read`, `Deliver` and the reconcile of each kind are
actions; `OthersWrite` is another tab or the authoring API.

A document is the set of edits it holds; a hash is the content it was made of,
which is what SHA-256 over canonical JSON amounts to.

### TowerAutosave

The Assemble pane: `edited` is what the user sees, `base` the plan detail in the
query cache, `saves` the calls of `handleSaveAssembleStages`, each a diff
(`Diff`) turned into requests that are sent one after the other and each set off
a refetch (`get`). Each save names the mount of the pane that began it (`by`,
`mounts`): the failure count is state of the pane, so an instance that is gone
counts nothing, while `saving` and the query cache are the route's. `Adopted` is the guard that decides whether a refetched plan
replaces the screen; `streak` is the retry counter with its limit; `Leave` and
`Return` unmount the pane; `Pill` is what the save pill shows; `ClickFreeze`, `PostFreeze` and `Compose` are the
freeze that flushes the tower first.

A chain is one stage with a numbered content, beside the `input_node` a content
may need; that is enough for all four requests a diff can hold (input, add,
patch, remove).

### McpRuntime

The module variables of `services/mcp/src/runtime.ts`: `managed` (the promise),
`boot` (how far each `boot()` is), its two children `engine` and `sidecar`,
`killers` (the pair the latest `installExitHooks` closed over), `hooked` (all
the pairs some exit handler kills), `config`. A tool call enters
`ensureRuntime` (`Enter`), and its continuation is an action of its own
(`Reuse`, `Respawn`, `Booted`, `Rejected`); the doctor goes on with `Look` and
`ProbeHealthy` or `ProbeFails`. A boot awaits its ports (`StartBoot`), then spawns
and hooks its pair without an await (`SpawnPair`) or throws on the way to its
hooks (`SpawnThrows`), with a sidecar already spawned or not; `EngineHealthy`,
`EngineFails`, `ScoringHealthy` and `ScoringFails` are its two health checks.
Children come to listen or die.

`Exit` is an end that runs handlers: exit, SIGINT, SIGTERM. A launcher that gets
SIGHUP or SIGKILL runs none and leaves its children; that is not modelled, and
`kill()`, a SIGTERM in the code, kills at once here. Port numbers and tokens are
left out; a health check that times out and a boot that throws count as faults
(`MaxDeaths`).

## 3. Runs

| Run | Instance | Question | Distinct states |
|---|---|---|---|
| `lifecycle_slots` | 3 plans of 2 products in one line and state, 1 operator, 1 failed statement | one active plan a slot; promoted plans stay valid; reads of a handler hold; one open fork an operator; duplicate never half-builds; a live plan was promoted or, discarded, rolled back to; status moves as declared | 1.2 M |
| `lifecycle_served` | 2 plans, 1 served and exposed, 1 crash, fairness | parents, exposures and versions survive hard delete in the right way; a promote that evicted fills the slot | 0.44 M |
| `seam` | 1 plan, 2 versions of a body that needs an input, 2 requests of any kind | published while asked, pause, drift gate, live gate | 2.2 M |
| `quote_pins` | the same, 1 request | *violated*: a hash is of the snapshot beside it | |
| `events_repeated` | 2 integrations, 2 events, 2 requests, 1 fault; a batch with a repeated event | recorded, fenced; refinement of the ledger | 0.25 M |
| `book_runs` | a book of 3 rows and a batch, 2 workers, both drivers, 2 stops or crashes, 2 throws | each row once, ended is over, done is whole, pages are whole; refinement of the promise; a polled run ends | 0.12 M |
| `collect_truncated` | the same, no fault | *violated*: `collect_run_rows` collects every row | |
| `book_pricing` | all books of up to 3 rows of 6 kinds, 6 plans, 8 mappings, chunks of 1 and 2 | types; refused rows leak no money; totals against a price per policy; rows against quotes; ledger against store | 0.11 M |
| `draft_sync` | 1 document of any kind, 1 own and 1 foreign edit, 2 writes in flight, 1 lost request | types; nothing unseen is wiped; a freeze carries what was pending; an edit lands or the user hears | 0.21 M |
| `tower_autosave` | 3 contents, 2 saves of up to 2 requests, 1 lost request, 2 retries | no unsent edit is dropped; "all changes saved" is true; a dirty tower settles | 0.40 M |
| `tower_freeze` | the same | *violated*: a failed save aborts the freeze | |
| `mcp_runtime` | 2 tool calls, 1 of the doctor, 3 boots, 3 faults, fairness | one engine while no calls overlap; no orphans but the unhooked; every call answered | 0.19 M |

Why these bounds. Three plans are a draft, the active plan it evicts and an
archived one that a rollback may revive, which is every role a lifecycle
request gives a plan; two products of one line are what tells `product` from
`line_of_business`. One fault reaches every gap between two statements. Two
versions are "tested" and "republished since"; a third would repeat the pair.
Two requests are one that reads and one that stamps, switches or claims; two
events are a decided one and its neighbour in the batch. A book of three rows in
chunks of two has a full chunk, a short one and a page boundary; two workers and
two jobs are what a claim may confuse; two restarts are one that loses the
record and one that happens while it is rebuilt. Three rows make a policy of
two and one beside it. One own and one foreign edit with two writes in flight
are every order in which answers can disagree with hashes; three contents are
saved, being saved and typed since. Three boots are one that dies, its successor
and one that replaces it while somebody still looks at the first. Where a
component has proofs, they do away with these bounds.

`CHECK_DEADLOCK FALSE`: plans, versions, books, calls and faults are finite, so
an instance ends when all are used up; the program itself has no such end.

Symmetry is used for plans and operators that a configuration treats alike and
for deliveries, and only in two runs of safety properties (`lifecycle_slots`,
`events_repeated`); no run with a liveness property has any.

Every property of a passing run has a mutant: an operator whose comment starts
with "Mutant:", a plausible bug in the definition that follows it. With the
mutant in that definition's place TLC finds the property violated
(PROJECT.json, `mutants`). `Next` never uses a mutant.

Every component has a proof module, and in it a theorem for each of the
invariants that its runs check.

### Fairness

* `lifecycle_served`: `WF(Continues)`, the next statement of the request in
  flight. A handler has no await to be left at, so it runs to its end unless it
  raises or the process dies. Nothing is assumed of callers. `PromoteCompletes`
  excepts the request that a fault ended: the sibling is archived, nothing is
  active, and somebody must promote again.
* `book_runs`: a request in hand is served; the worker loop spins; the container
  is restarted (`restart: unless-stopped`, `deploy/docker-compose.yml`); the page
  that started a run polls it (`refetchInterval`), in a background tab as well.
  `EveryRunEnds` excepts a *stranded* run (a torn results file, or a Redis record
  left open by a crash), which nothing in the code repairs.
* `draft_sync`: the debounce fires, requests are answered, the barrier of a
  freeze proceeds. Nobody has to edit.
* `tower_autosave`: the autosave effect runs, requests are answered, refetches
  arrive. A lost request is a fault, of which there are finitely many.
* `mcp_runtime`: a child that started comes to listen or dies, polls of health
  come round, a settled await is resumed. No call has to be made.

### What the violated runs say

Each checks one sentence of a docstring or a comment.

* `quote_pins`: an unpinned member takes its hash from the version published at
  one read and its snapshot from the one published at the next. "The member's
  replay pins (§4.2 rule 5). `content_hash` is the published body's own hash"
  (`integrations/models.py:321`). `AnswerWasPublished` is what holds: each of
  the two was published while the request ran.
* `collect_truncated`: `collect_run_rows` asks its page for `nextOffset`, which
  `fetch_batch_rows` answers as `next_offset` (`rates/runs/scoring.py:297`): it
  stops after the first 2000 rows. "EVERY row of a DONE book/probe run"
  (`rates/runs/service.py:461`).
* `tower_freeze`: the tower's save swallows its failure, so the flush resolves
  and the version is composed without the edit. "The save rethrows on failure
  (G23), which ABORTS the freeze upstream" (`P:4912`).

### Met while modelling, and not worth a run each

Plans and versions:

* `rollback_plan` looks for its target by line of business
  (`rates/plans/author.py:2347`), the unique index is on product
  (`persistence/migrations/001_baseline.sql:830`): when the target's slot is
  taken, the current plan is archived (`author.py:2385`) and the activation
  refused. "Atomically swap" (`author.py:2330`) is two autocommitted UPDATEs;
* `hard_delete_plan` records the removal (`author.py:2295`), deletes the
  versions, and may then be refused by the foreign key of a forked child: the
  row stays without its versions;
* rollback can revive a *discarded* draft, which was never validated nor live: the
  hint says "Roll-back requires a previously-promoted plan" (`author.py:2312`),
  the SELECT takes any archived one (`:2347`). `LiveIsExplained` is what holds: a
  plan is live because it was promoted, or discarded and rolled back to. "Most
  recently archived" is ordered by effective date;
* a nationwide slot (NULL jurisdiction) can hold two active plans after a
  rollback, since NULLs are distinct in the index (`state_machine.py:42` says one);
* a plan that leaves service by eviction or rollback keeps its published pointer
  (`rates/snapshots/repo.py:286`), and a pinned or direct quote is refused by
  status only (`rates/quotes/service.py:125`);
* a row exposed between hard delete's guard (`author.py:2240`) and its DELETE
  is removed by the cascade without the guard having seen it;
* a fork whose event failed to be written (`author.py:539`) is not found by the
  next fork of the same operator;
* `add_stage` speaks of the "same transaction" under autocommit.

The seam and the feed:

* `ConflictError` of an archived plan is not among the exceptions
  `_quote_member` catches (`integrations/quote_set.py:331`), so a live exposure
  of an evicted plan turns each quote-set of its integration into a 409; each
  member was to stand alone (`docs/specs/integration-contract.md:228`);
* the coverage check of a PATCH reads the stored mapping
  (`app/routes/integrations_route.py:259`), the UPDATE writes the one the same
  body brings along (`:261`);
* a patch of the mapping keeps the receipt of the test made without it
  (`integrations/repo.py:336`);
* the drift gate and the price read the pointer separately, so a republish in
  between is quoted untested (`docs/specs/integration-contract.md:271`);
  `TestedWhileAsked` states what does hold;
* of two tests at once the slower may stamp its older version over the newer's
  receipt (`app/routes/integrations_route.py:372`): the gates then refuse the
  plan until it is tested again;
* only an exception of `_judge_one` releases a claim (`integrations/events.py:293`);
  a failed `_finalize_event` or a crash leaves it pending, acked `duplicate` for
  ever (`:259`);
* `event_id` alone is the primary key (`001_baseline.sql:698`), over all
  integrations.

Books:

* a crash between the last chunk and the summary leaves a run that is reported
  succeeded and has no summary, since the files prove the rows
  (`services/scoring/src/http/routes/scoreBatch.ts:53`, `rates/runs/service.py:396`);
* a refused row's policy keeps its tier in the summary of a grouped book
  (`services/scoring/src/worker/bookRun.ts:411`; shown at `P:9860`); row errors
  are counted twice over chunks and composition (`worker.ts:174`,
  `policy-book.ts:104`); the ledger and the rows name an ungrouped policy
  differently (`bookRun.ts:295`); a mapping that names an absent premium field
  sums to 0;
* a quote composes its policy without the roll-ups of a mapping
  (`services/scoring/src/core/score.ts:239`), so a gate on a
  rolled-up exposure takes its default, where the ungrouped row of a book is
  gated ("byte-identical to what quote_risk returns", `worker.ts:250`):
  `RowsMatchQuotes` speaks of mappings without roll-ups;
* an ungrouped book with a tail whose mapping rolls up no premium fails to
  compose a plan without a total, which a quote composes.

The browser:

* a freeze does not wait for a write that is in flight at the click (`P:3463`),
  and after a conflict nothing is armed, so it proceeds;
* a tab that overtook itself is told that *another* tab wrote (`P:966`); the
  tail resolves that refusal by adopting the server's document and so loses its
  own edit;
* a mapping's DELETE carries no hash, the PUT behind it the deleted one's
  (`frontend/src/lib/api/inputs-mapping.ts:77`): 412;
* the first write of a document never stored carries no hash;
* at the cap of failures the tower's autosave effect returns (`P:4843`) whatever
  was edited, and only a success or a remount resets the count, so what is typed
  afterwards waits for the pane to be left or a version to be frozen, where the
  comment promises that "a subsequent edit [...]
  re-fires the effect, giving a natural manual retry" (`P:4840`). Its pill then
  says "Save failed — retrying" (`P:5612`), and goes on saying so over a clean
  tower that was adopted after a failure. `DirtySettles` is what holds;
* the tower of a quiet tab adopts and later writes back over what others did
  meanwhile; an adoption may revert the screen to a content the server had
  earlier, where the comment says that "adoption now requires that no unsaved
  work would be lost" (`P:4721`): what holds is `NothingUnsentIsDropped`.

The launcher:

* calls that find a dead engine at the same time each boot another
  (`services/mcp/src/runtime.ts:617`);
* a doctor's late probe overwrites the module's `killers` while a respawn boots
  (`runtime.ts:385`, `:575`); if that boot times out, it kills the old pair and
  leaves the new engine (`:502`). Hence `OneEngineInTurn` speaks of calls of
  which no two overlap;
* a boot may throw after it spawned the sidecar (`runtime.ts:451`) and before its
  hooks (`:485`): the server's command is missing (`:176`) or its spawn throws
  (`:472`). No handler knows that sidecar, and each call leaves one more, where
  the module says "Children die with us" (`:24`). `NoOrphans` is what holds: no
  engine is left, and of the sidecars only those and a waiting doctor's;
* a boot that throws before its engine's health check writes no
  `lastBootFailure`, so the doctor reports none or an older one (`:727`).

## 4. Proofs

All obligations are discharged by tlapm; the assumptions are the named `ASSUME`s
of the modules (bounds are naturals, plan ids are not the null value, plans of
the seam are ranked, batches are not empty, a book has rows, edits of others are
not ours; and for prices what TypeScript's types say: money and percentages are
numbers, tiers, reducers and kinds of adjustment are the declared ones).

**PlanLifecycleProofs**: `TypeCorrect`, `SlotsUnique`, `HandlersUndisturbed`,
`ParentsStand`, `PromotedStaysValid`, `ImplementsMachine`.
`UniqueActive` is inductive with types: only two actions set `active`, both
under `IndexAdmits`, and a reingest changes attributes of drafts only.
`ReadsHold` and `LineageStands` are not inductive alone: that a plan being
undone has no child needs that every parent has its row, and that a removed row
leaves no orphan needs that the compensation's plan has no child. Together they
are. `PromotedIsValid` and the refinement then follow from `ReadsHold`: what
the handler read at its first statement (draft, valid, archived) is what its
later statements act on.

What the tables beside `rating_plans` may rely on is proved beside these:
`ExposuresStand`, `VersionsGo`, `LiveHasReason`, `OneOpenFork`, and
`CopiesAreWhole` below. Exposures are
inductive with types. Versions need that none is frozen of a plan between the
second and the third statement of its hard delete, nor while its birth is under
way. One open fork needs that an unborn plan has no event and that the lookup
at the start of a fork still holds when its event is written, which is what
`ReadsHold` and the single author request give.

`CopiesAreWhole` is `NeverHalfBuilds`: with at most one failed statement and no
crash, `duplicate_plan` leaves a whole copy or no row. (The compensation of its
`except` branch is itself two autocommitted statements in the process that
failed, so a second fault, or a crash, can leave half of one.) The invariant says
what each statement of a copy in flight has written so far, that no other
request touches a row being copied, and that a copy which ended stays whole
while it has a row.

`LiveHasReason` is `LiveIsExplained`, from the same statement of archived plans,
which are what rollback picks from. It and `CopiesAreWhole` assume that the audit
keeps the kind of event they speak of (`Traced`).

**SeamServingProofs**: `TypeCorrect`, `AnswersPublished`, `PausesHold`,
`GateIsCurrent`, `SwitchIsTested`. The inductive invariant is a predicate
`Seen(request, window, pointer)` of one request: the current pointer is in its
window; what it read as live is live in its window; each plan in a quote's
scope has a receipt that its window saw published; what it holds was published
in its window; and its answers likewise. A request's own step establishes it
from the tables; any other step only widens the window (`Sees` is monotone).
The hash is held from one statement and the snapshot from the next, which is why
`AnswersPublished` is of each and not of the pair.

**EventFeedProofs**: `TypeCorrect`, `AcksDurable`, `ToldOnce`, `FenceKept`,
`ImplementsLedger`. The strengthening is ownership: a request at *judge*,
*finalize* or *release* has a pending row for its event, and no two such
requests are on one event. `INSERT OR IGNORE` gives it, finalize and release
end it. Hence `Finalize` meets a pending row, which gives the first outcome
(`Decide`), and no second ack carries an outcome. The fence needs that a
request's fence was shown to its integration, that a verdict *applied* names
something in that fence, and that `shown` only grows.

**BookRunsProofs**: `TypeCorrect`, `EachRowOnce`, `EndIsFinal`, `DoneIsProved`,
`PagesComplete`, `ImplementsPromise`. None of the properties is inductive, for
each is about two services. `JobInv` follows a job through both: it is in the
list once or held by one worker; until that worker closes it, the record says
open and the files are as far as the worker's step says (`AsFar`); before the
answer to the POST there is no run. Hence whoever reads a terminal state reads
it of a job that is *free*, so that nothing can append afterwards, and a state
`Proven` by summary, record, run or an answer on its way has a whole file behind
it. `ReaderInv` extends this to the pages: they are of a done run, whose file no
longer changes. The refinement needs from it that rows only grow (`RowsGrow`) and
that a status moves at most once from each of its states (`RunsMove`).

**TowerAutosaveProofs**: `TypeCorrect`, `NothingDropped`, `PillTrue`. An adoption takes the
screen's content away only if it is what the latest save carried; `Sourced` says
that such a content was landed, was carried in vain, or is under way, because a
save whose chain the server has not had still has a request left that puts it
there (`Landing`), also when the last request of its diff is on the wire.
`PillTrue` is `PillIsHonest`, which speaks of a pane to whose plan nobody else
writes and whose answers all came. Its invariant `InStep` says that, as long as no
answer is owed (`Unanswered`), the cached plan is the server's if no refetch is on
its way, and a refetch that was read carries what the server has: each answer
asks for a refetch anew, in place of one that was read before.

**DraftSyncProofs**: `TypeCorrect`, `FreezeKeepsEdits`, `NothingWiped`. `Shown`:
what the tab holds of others, in a document, in a hash or in a write on the wire,
it has shown at some time. So a hash that still matches is of a content the user
knew, whichever answer it came from: that is `NothingUnseenIsWiped`, and it holds
because only the one-shot reconcile and the answers to own writes touch the hash.
`Carried`: a document that owes the freeze an edit has exactly one write under
way, the freeze's own, until the edit is on the server. It rests on `Armed`
(nothing is pending before the reconcile ran, so no late GET replaces the
document) and on the dialog being modal.

**McpRuntimeProofs**: `TypeCorrect`, `OnlyTheUnhookedOutlive`, `OneEngine`.
`Hooked`: every child that may be alive is in a pair that some exit handler kills,
but for the sidecar of a boot that threw and the one a doctor still waits for;
that is what makes `NoOrphans` inductive, with `StayThrown`: a boot that threw is
never anything else. `InTurn`: as long as no two calls have overlapped, an engine
that may be alive is the managed one, a boot under way is the one call's own, has
no engine while it waits for ports, and its pair is what `killers` names once it
is spawned, so that a failed boot kills what it started.

**BookPricingProofs**: `TypeCorrect`, `NothingLeaks`, `LedgerAgrees`,
`SameAsQuoted`, `TotalsAddUp`. The invariant is simple (the policies are what the
inputs compose to, the rows stored and collected are the images of the first
`base` rows of the book); the work is in what it implies of a finished book.

* `Refusals`: after the fold, a policy of a grouped book is clean exactly when
  all its rows can be rated, and then it is what was composed. That gives
  `NothingLeaks`, and the entries a total keeps.
* `PremiumIsFiled`: the premium `summarizeBook` finds for a clean policy is the
  composed one if there is a tail, and otherwise its rows' premiums added up:
  by the roll-up of the premium's own field, or, in a plan without a total, by
  the roll-ups of its coverages, which is the one place where a table is added
  up by rows on one side and by columns on the other (`SumSwap`).
* `EntriesAddUp`: entries that are in bijection with the policies, and agree with
  them on error, premium and verdict, give the same two totals (`SumReindex`). A
  grouped book has its policies for entries, another the rows of its ledger.

The sums are folds of the community modules, `CHOOSE`ing which term comes next.
The library's induction on finite sets takes an operator as a parameter, so the
first section of the module proves what is needed by a *minimal counterexample*
(`MinimalSubset`, from the well-foundedness of inclusion on a finite set): the fold exists
(`SumsExist`), does not depend on the order (`SumTakeOut`), and may be renamed,
added and swapped. The running premium of a tail is treated likewise
(`RunningExists`, `TailInt`), so the theorems are of tails of any length.
`TotalsAddUp` keeps the premise of the property: the mapping rolls the plan's own
premium up, and as a sum; with another reducer a total is whatever was asked for.

The last step of each temporal theorem is `PTL`; everything else is a step
lemma per action.

**Only model-checked**: the liveness properties (`PromoteCompletes`,
`EveryRunEnds`, `EditsLand`, `DirtySettles`, `CallsAreAnswered`), which are out of
the prover's reach. Every other property of a passing run is a theorem. What
the operators of `BookPricing` compute is compared there with one another; that
their arithmetic is the code's is what the map claims and the conformance
fixtures of the repository test.

## 5. Not modelled

Most of the repository's lines render: routes, panels, sheets and canvases of
the browser, the design system, and the projections that feed them. They keep
no state that outlives a click; what the plan screen persists is `DraftSync` and
`TowerAutosave`. Beside them:

* *Rating engine, contracts, lint, diff, workbook parsing and reports*: pure
  functions, tested value by value by the repository's conformance fixtures.
  What policies do to rated rows is `BookPricing`.
* *Stage sequence numbers*: `PlanLifecycle` edits a chain as a whole. The UPDATEs
  that park a stage at 9999 and shift the others (`author.py:1246`, `:1657`) can
  stop midway; the hazard is listed, nothing in the code repairs it, and readers
  only use the order.
* *Pairing codes* (`integrations/service.py:209`, `:220`): two exchanges of one
  code may both succeed; the code has no guard that a property could be about.
* *Idempotency middleware* (`middleware/idempotency.py:348`, `:380`): lookup,
  handler and store of concurrent requests with one key; whether a repeated
  handler does harm is a property of each handler behind it.
* *`list_events`*: whether its cursor skips rows turns on clocks and on commits
  behind an earlier stamp.
* *`Database.transaction()` and the migration runner*: nesting of savepoints,
  run once at start.
* *API keys, templates, connectors, substrates*: single statements without a
  protocol between calls; an If-Match write as the browser meets it is
  `DraftSync`'s `Serve`.
* *Comparison of runs*: arithmetic over two collected runs; what is collected is
  `BookRuns`.
* *Ports, tokens and the tools behind a call* of the MCP launcher; *packaging*,
  whose one worker process is an assumption of every module.

The notes in `PROJECT.json` say the same part by part.
