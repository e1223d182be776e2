--------------------------- MODULE PlanLifecycle ----------------------------
(***************************************************************************)
(* The life of a rating plan: rates/plans/author.py (create, fork,         *)
(* duplicate, edit, promote, rollback, discard, hard delete) over the      *)
(* tables of persistence/migrations/001_baseline.sql.                      *)
(*                                                                         *)
(* Connections are in autocommit mode (persistence/db.py), so every SQL    *)
(* statement outside an explicit BEGIN commits by itself and is a step of  *)
(* its own here.  The author routes are coroutines without an await: one   *)
(* request runs at a time, held in req.  The route that exposes a plan to  *)
(* an integration runs on the thread pool: its check and its insert (held  *)
(* in exposing) interleave with the statements of req.                     *)
(***************************************************************************)
EXTENDS Naturals, FiniteSets

CONSTANTS
  Plans,          \* plan ids (uuid-suffixed, so never used twice)
  NoPlan,         \* the parent of a plan created from scratch
  Operators,      \* X-Operator-Id values
  Attributes,     \* [line, product, jurisdiction, effective] of a plan row
  Multistate,     \* the NULL jurisdiction
  Served,         \* bound: the plans callers freeze, publish and expose
  Verdicts,       \* bound: the verdicts an edit of the stages can lead to
  Revised,        \* bound: the plans a revised workbook is applied to
  Traced,         \* bound: the kinds of audit event the model keeps
  MaxFailures,    \* bound on statements that fail (lock timeout, I/O error)
  MaxCrashes      \* bound on restarts of the process

ASSUME PlanIds == NoPlan \notin Plans
ASSUME AttributeRecords ==
  /\ Attributes # {}
  /\ \A a \in Attributes : /\ DOMAIN a = {"line", "product", "jurisdiction", "effective"}
                           /\ a.effective \in Nat
ASSUME Bounds ==
  /\ Served \subseteq Plans /\ Revised \subseteq Plans
  /\ Verdicts \subseteq {"empty", "sound", "broken"}
ASSUME FaultBounds == MaxFailures \in Nat /\ MaxCrashes \in Nat

VARIABLES
  status,         \* rating_plans.status; "absent" before, "gone" after the row
  attrs,          \* the identity columns of the row
  parent,         \* rating_plans.parent_plan_id
  chain,          \* the verdict validate_plan would give on the stages
  substrate,      \* a duplicate's copy of the six substrate tables has landed
  session,        \* draft_sessions row and rating_plans.draft_session_id
  versions,       \* plan_snapshots: none, only checkpoints, one published
  audit,          \* audit_log rows of entity_kind plan
  exposed,        \* plans with a row in integration_exposed_plans
  exposing,       \* the plan an expose call has checked, not yet inserted
  req,            \* the author request being executed
  failures, crashes,
  origin,         \* history: how the row was born and for whom
  promoted        \* history: plans promote_draft has activated

rows     == <<status, attrs, parent, chain, substrate, session>>
seam     == <<exposed, exposing>>
faults   == <<failures, crashes>>
history  == <<origin, promoted>>
vars     == <<rows, versions, audit, seam, req, faults, history>>

-----------------------------------------------------------------------------
(* Types *)

Rows     == {"draft", "active", "archived"}
Statuses == Rows \cup {"absent", "gone"}
Chains   == {"empty", "sound", "broken"}
Births   == {"none", "create", "fork", "duplicate"}
Kinds    == {"fork", "duplicate", "promote", "discard", "rollback", "hard_delete"}

BirthSteps  == {"substrate", "session", "link", "birth_audit"}
UndoSteps   == {"undo_session", "undo_row"}
DeleteSteps == {"delete_audit", "delete_snapshots", "delete_row"}
PromoteSteps  == {"activate", "promote_audit"}
RollbackSteps == {"reactivate", "rollback_audit", "revival_audit"}
Steps == BirthSteps \cup UndoSteps \cup DeleteSteps \cup PromoteSteps
           \cup RollbackSteps

NoOperator == "nobody"
Unborn == [kind |-> "none", by |-> NoOperator]

Idle == [at |-> "idle", plan |-> NoPlan, other |-> NoPlan, by |-> NoOperator,
         force |-> FALSE]

Requests ==
  [at : Steps \cup {"idle"}, plan : Plans \cup {NoPlan},
   other : Plans \cup {NoPlan}, by : Operators \cup {NoOperator}, force : BOOLEAN]

Events == [plan : Plans, kind : Kinds, by : Operators]

TypeOK ==
  /\ status \in [Plans -> Statuses]
  /\ attrs \in [Plans -> Attributes]
  /\ parent \in [Plans -> Plans \cup {NoPlan}]
  /\ chain \in [Plans -> Chains]
  /\ substrate \in [Plans -> BOOLEAN]
  /\ session \in [Plans -> {"none", "opened", "linked", "dangling"}]
  /\ versions \in [Plans -> {"none", "checkpoint", "live"}]
  /\ audit \subseteq Events
  /\ exposed \subseteq Plans
  /\ exposing \in Plans \cup {NoPlan}
  /\ req \in Requests
  /\ IF req.at = "idle" THEN req = Idle
                        ELSE req.plan \in Plans /\ req.by \in Operators
  /\ req.at \in RollbackSteps => req.other \in Plans
  /\ failures \in 0 .. MaxFailures
  /\ crashes \in 0 .. MaxCrashes
  /\ origin \in [Plans -> [kind : Births, by : Operators \cup {NoOperator}]]
  /\ promoted \subseteq Plans

Init ==
  /\ status = [p \in Plans |-> "absent"]
  /\ attrs = [p \in Plans |-> CHOOSE a \in Attributes : TRUE]
  /\ parent = [p \in Plans |-> NoPlan]
  /\ chain = [p \in Plans |-> "empty"]
  /\ substrate = [p \in Plans |-> FALSE]
  /\ session = [p \in Plans |-> "none"]
  /\ versions = [p \in Plans |-> "none"]
  /\ audit = {}
  /\ exposed = {}
  /\ exposing = NoPlan
  /\ req = Idle
  /\ failures = 0
  /\ crashes = 0
  /\ origin = [p \in Plans |-> Unborn]
  /\ promoted = {}

-----------------------------------------------------------------------------
(* What the tables hold *)

HasRow(p) == status[p] \in Rows

Recorded(p, kind) == \E o \in Operators : [plan |-> p, kind |-> kind, by |-> o] \in audit

Record(p, kind, o) ==
  audit' = IF kind \in Traced
           THEN audit \cup {[plan |-> p, kind |-> kind, by |-> o]}
           ELSE audit

SameSlot(p, q) == /\ attrs[p].product = attrs[q].product
                  /\ attrs[p].jurisdiction = attrs[q].jurisdiction

(* Mutant: the lookup without its status column. *)
SiblingsAnyStatus(p) == {q \in Plans \ {p} : HasRow(q) /\ SameSlot(p, q)}

(* promote_draft's SELECT: IS matches NULL with NULL. *)
Siblings(p) == {q \in Plans \ {p} : status[q] = "active" /\ SameSlot(p, q)}

(* rollback_plan's SELECT, ORDER BY effective_date DESC LIMIT 1; the id that *)
(* breaks a tie is a random suffix.                                          *)
ArchivedSiblings(p) ==
  {q \in Plans \ {p} : /\ status[q] = "archived"
                       /\ attrs[q].line = attrs[p].line
                       /\ attrs[q].jurisdiction = attrs[p].jurisdiction}

RollbackTargets(p) ==
  {q \in ArchivedSiblings(p) :
     \A r \in ArchivedSiblings(p) : attrs[r].effective <= attrs[q].effective}

(* Mutant: the schema without the partial unique index. *)
NoIndex(p) == TRUE

(* unique_active_plan_per_product_jurisdiction; NULLs are distinct in a *)
(* UNIQUE index.                                                        *)
IndexAdmits(p) == attrs[p].jurisdiction = Multistate \/ Siblings(p) = {}

(* _existing_draft_for_operator: the join of drafts with their fork event. *)
OpenForks(s, o) ==
  {p \in Plans : /\ parent[p] = s
                 /\ status[p] = "draft"
                 /\ [plan |-> p, kind |-> "fork", by |-> o] \in audit}

Children(p) == {q \in Plans : HasRow(q) /\ parent[q] = p}

-----------------------------------------------------------------------------
(* The control of one request *)

Begin(step, p, other, o) ==
  req' = [at |-> step, plan |-> p, other |-> other, by |-> o, force |-> FALSE]

Goto(step) == req' = [req EXCEPT !.at = step]

Done == req' = Idle

(* insert_plan: the row and its stages in one transaction. *)
InsertPlan(p, a, from, stages, birth, o) ==
  /\ status[p] = "absent"
  /\ status' = [status EXCEPT ![p] = "draft"]
  /\ attrs' = [attrs EXCEPT ![p] = a]
  /\ parent' = [parent EXCEPT ![p] = from]
  /\ chain' = [chain EXCEPT ![p] = stages]
  /\ origin' = [origin EXCEPT ![p] = [kind |-> birth, by |-> o]]
  /\ UNCHANGED <<substrate, session, versions, audit, seam, faults, promoted>>

CreatePlan(p, a, o) ==
  /\ req = Idle
  /\ InsertPlan(p, a, NoPlan, "empty", "create", o)
  /\ Begin("session", p, NoPlan, o)

(* Mutant: fork without the lookup of an open draft. *)
ForkAlways(p, s, o) ==
  /\ req = Idle
  /\ status[s] = "active"
  /\ chain[s] # "empty"
  /\ InsertPlan(p, attrs[s], s, chain[s], "fork", o)
  /\ Begin("session", p, s, o)

ForkPlan(p, s, o) ==
  /\ req = Idle
  /\ status[s] = "active"
  /\ OpenForks(s, o) = {}
  /\ chain[s] # "empty"
  /\ InsertPlan(p, attrs[s], s, chain[s], "fork", o)
  /\ Begin("session", p, s, o)

DuplicatePlan(p, s, o) ==
  /\ req = Idle
  /\ HasRow(s)
  /\ InsertPlan(p, attrs[s], s, chain[s], "duplicate", o)
  /\ Begin("substrate", p, s, o)

(* _copy_plan_substrate: one transaction over the six tables. *)
CopySubstrate ==
  /\ req.at = "substrate"
  /\ substrate' = [substrate EXCEPT ![req.plan] = TRUE]
  /\ Goto("session")
  /\ UNCHANGED <<status, attrs, parent, chain, session, versions, audit, seam,
                 faults, history>>

OpenSession ==
  /\ req.at = "session"
  /\ session' = [session EXCEPT ![req.plan] = "opened"]
  /\ Goto("link")
  /\ UNCHANGED <<status, attrs, parent, chain, substrate, versions, audit, seam,
                 faults, history>>

LinkSession ==
  /\ req.at = "link"
  /\ session' = [session EXCEPT ![req.plan] = "linked"]
  /\ Goto("birth_audit")
  /\ UNCHANGED <<status, attrs, parent, chain, substrate, versions, audit, seam,
                 faults, history>>

(* create_plan re-uses the event kind fork. *)
BirthEvent(p) == IF origin[p].kind = "duplicate" THEN "duplicate" ELSE "fork"

AuditBirth ==
  /\ req.at = "birth_audit"
  /\ Record(req.plan, BirthEvent(req.plan), req.by)
  /\ Done
  /\ UNCHANGED <<rows, versions, seam, faults, history>>

(* The except branch of duplicate_plan. *)
UndoSession ==
  /\ req.at = "undo_session"
  /\ session' = [session EXCEPT ![req.plan] =
                   IF @ = "linked" THEN "dangling" ELSE "none"]
  /\ Goto("undo_row")
  /\ UNCHANGED <<status, attrs, parent, chain, substrate, versions, audit, seam,
                 faults, history>>

(* DELETE FROM rating_plans: the child tables and the exposures cascade; what *)
(* described the row is forgotten, its events stay in the audit.             *)
RemoveRow(p) ==
  /\ status' = [status EXCEPT ![p] = "gone"]
  /\ parent' = [parent EXCEPT ![p] = NoPlan]
  /\ chain' = [chain EXCEPT ![p] = "empty"]
  /\ substrate' = [substrate EXCEPT ![p] = FALSE]
  /\ session' = [session EXCEPT ![p] = "none"]
  /\ origin' = [origin EXCEPT ![p] = Unborn]
  /\ promoted' = promoted \ {p}
  /\ exposed' = exposed \ {p}
  /\ UNCHANGED attrs

UndoRow ==
  /\ req.at = "undo_row"
  /\ RemoveRow(req.plan)
  /\ Done
  /\ UNCHANGED <<versions, audit, exposing, faults>>

-----------------------------------------------------------------------------
(* Editing a draft *)

(* Mutant: an edit handler that can run between the statements of another. *)
EditBetween(p, verdict) ==
  /\ status[p] = "draft"
  /\ chain' = [chain EXCEPT ![p] = verdict]
  /\ UNCHANGED <<status, attrs, parent, substrate, session, versions, audit,
                 seam, req, faults, history>>

(* Mutant: an edit that does not ask for a draft. *)
EditAnyRow(p, verdict) ==
  /\ req = Idle
  /\ HasRow(p)
  /\ chain' = [chain EXCEPT ![p] = verdict]
  /\ UNCHANGED <<status, attrs, parent, substrate, session, versions, audit,
                 seam, req, faults, history>>

(* Any of the stage edits, as one step: the order of their statements is left *)
(* out.  The signoff lock is never taken (plan_signoff.py mints no signoff).  *)
EditStages(p, verdict) ==
  /\ req = Idle
  /\ status[p] = "draft"
  /\ chain' = [chain EXCEPT ![p] = verdict]
  /\ UNCHANGED <<status, attrs, parent, substrate, session, versions, audit,
                 seam, req, faults, history>>

(* A workbook revision applied to a draft, in one Database.transaction(). *)
Reingest(p, a) ==
  /\ req = Idle
  /\ status[p] = "draft"
  /\ attrs' = [attrs EXCEPT ![p] = a]
  /\ \E verdict \in Verdicts \ {"empty"} : chain' = [chain EXCEPT ![p] = verdict]
  /\ UNCHANGED <<status, parent, substrate, session, versions, audit, seam, req, faults,
                 history>>

-----------------------------------------------------------------------------
(* Promote: three statements, each committed by itself *)

Promotable(p) == status[p] = "draft" /\ chain[p] # "broken"

(* Mutant: the UPDATE that archives the sibling is missing. *)
PromoteOver(p, q, o) ==
  /\ req = Idle
  /\ Promotable(p)
  /\ q \in Siblings(p)
  /\ Begin("activate", p, q, o)
  /\ UNCHANGED <<rows, versions, audit, seam, faults, history>>

(* LIMIT 1: any one of the siblings; it is archived before p is activated. *)
PromoteEvicting(p, q, o) ==
  /\ req = Idle
  /\ Promotable(p)
  /\ q \in Siblings(p)
  /\ status' = [status EXCEPT ![q] = "archived"]
  /\ Begin("activate", p, q, o)
  /\ UNCHANGED <<attrs, parent, chain, substrate, session, versions, audit,
                 seam, faults, history>>

PromoteIntoEmptySlot(p, o) ==
  /\ req = Idle
  /\ Promotable(p)
  /\ Siblings(p) = {}
  /\ Begin("activate", p, NoPlan, o)
  /\ UNCHANGED <<rows, versions, audit, seam, faults, history>>

(* The UPDATE that activates p; the unique index may refuse it. *)
PromoteActivate ==
  /\ req.at = "activate"
  /\ IF IndexAdmits(req.plan)
     THEN /\ status' = [status EXCEPT ![req.plan] = "active"]
          /\ promoted' = promoted \cup {req.plan}
          /\ Goto("promote_audit")
     ELSE /\ UNCHANGED <<status, promoted>>
          /\ Done
  /\ UNCHANGED <<attrs, parent, chain, substrate, session, versions, audit,
                 seam, faults, origin>>

PromoteAudit ==
  /\ req.at = "promote_audit"
  /\ Record(req.plan, "promote", req.by)
  /\ Done
  /\ UNCHANGED <<rows, versions, seam, faults, history>>

-----------------------------------------------------------------------------
(* Rollback: four statements, each committed by itself *)

RollbackArchive(p, q, o) ==
  /\ req = Idle
  /\ status[p] = "active"
  /\ q \in RollbackTargets(p)
  /\ status' = [status EXCEPT ![p] = "archived"]
  /\ Begin("reactivate", p, q, o)
  /\ UNCHANGED <<attrs, parent, chain, substrate, session, versions, audit,
                 seam, faults, history>>

RollbackActivate ==
  /\ req.at = "reactivate"
  /\ IndexAdmits(req.other)
  /\ status' = [status EXCEPT ![req.other] = "active"]
  /\ Goto("rollback_audit")
  /\ UNCHANGED <<attrs, parent, chain, substrate, session, versions, audit,
                 seam, faults, history>>

(* The target's product slot is taken: IntegrityError, the archive stands. *)
RollbackRefused ==
  /\ req.at = "reactivate"
  /\ ~IndexAdmits(req.other)
  /\ Done
  /\ UNCHANGED <<rows, versions, audit, seam, faults, history>>

RollbackAudit ==
  /\ req.at = "rollback_audit"
  /\ Record(req.plan, "rollback", req.by)
  /\ Goto("revival_audit")
  /\ UNCHANGED <<rows, versions, seam, faults, history>>

RevivalAudit ==
  /\ req.at = "revival_audit"
  /\ Record(req.other, "rollback", req.by)
  /\ Done
  /\ UNCHANGED <<rows, versions, seam, faults, history>>

-----------------------------------------------------------------------------
(* Discard: one BEGIN IMMEDIATE transaction *)

TurnOff(p) == versions' = [versions EXCEPT ![p] = IF @ = "live" THEN "checkpoint" ELSE @]

DiscardDraft(p, o) ==
  /\ req = Idle
  /\ status[p] = "draft"
  /\ status' = [status EXCEPT ![p] = "archived"]
  /\ TurnOff(p)
  /\ Record(p, "discard", o)
  /\ UNCHANGED <<attrs, parent, chain, substrate, session, seam, req, faults,
                 history>>

-----------------------------------------------------------------------------
(* Hard delete: the guard, then three statements *)

(* Mutant: the archived-only rail is missing. *)
HardDeleteAnyRow(p, o, force) ==
  /\ req = Idle
  /\ HasRow(p)
  /\ p \in exposed => force
  /\ req' = [at |-> "delete_audit", plan |-> p, other |-> NoPlan, by |-> o,
             force |-> force]
  /\ UNCHANGED <<rows, versions, audit, seam, faults, history>>

HardDeleteCheck(p, o, force) ==
  /\ req = Idle
  /\ status[p] = "archived"
  /\ p \in exposed => force
  /\ req' = [at |-> "delete_audit", plan |-> p, other |-> NoPlan, by |-> o,
             force |-> force]
  /\ UNCHANGED <<rows, versions, audit, seam, faults, history>>

HardDeleteAudit ==
  /\ req.at = "delete_audit"
  /\ Record(req.plan, "hard_delete", req.by)
  /\ Goto("delete_snapshots")
  /\ UNCHANGED <<rows, versions, seam, faults, history>>

(* Mutant: plan_snapshots left to a cascade it does not have. *)
SnapshotsLeft ==
  /\ req.at = "delete_snapshots"
  /\ Goto("delete_row")
  /\ UNCHANGED <<rows, versions, audit, seam, faults, history>>

HardDeleteSnapshots ==
  /\ req.at = "delete_snapshots"
  /\ versions' = [versions EXCEPT ![req.plan] = "none"]
  /\ Goto("delete_row")
  /\ UNCHANGED <<rows, audit, seam, faults, history>>

(* Mutant: foreign keys not enforced on the parent. *)
DeleteRowUnchecked ==
  /\ req.at = "delete_row"
  /\ RemoveRow(req.plan)
  /\ Done
  /\ UNCHANGED <<versions, audit, exposing, faults>>

HardDeleteRow ==
  /\ req.at = "delete_row"
  /\ Children(req.plan) = {}
  /\ RemoveRow(req.plan)
  /\ Done
  /\ UNCHANGED <<versions, audit, exposing, faults>>

(* parent_plan_id has no ON DELETE clause: a plan with a child keeps its row. *)
HardDeleteRefused ==
  /\ req.at = "delete_row"
  /\ Children(req.plan) # {}
  /\ Done
  /\ UNCHANGED <<rows, versions, audit, seam, faults, history>>

-----------------------------------------------------------------------------
(* Versions and exposures, as far as the lifecycle meets them *)

Freeze(p) ==
  /\ req = Idle
  /\ HasRow(p)
  /\ versions[p] = "none"
  /\ versions' = [versions EXCEPT ![p] = "checkpoint"]
  /\ UNCHANGED <<rows, audit, seam, req, faults, history>>

Publish(p) ==
  /\ req = Idle
  /\ versions[p] = "checkpoint"
  /\ versions' = [versions EXCEPT ![p] = "live"]
  /\ UNCHANGED <<rows, audit, seam, req, faults, history>>

(* expose_plan runs on the thread pool, beside the author request. *)
ExposeCheck(p) ==
  /\ exposing = NoPlan
  /\ HasRow(p)
  /\ versions[p] = "live"
  /\ exposing' = p
  /\ UNCHANGED <<rows, versions, audit, exposed, req, faults, history>>

(* Mutant: foreign keys not enforced on the exposure. *)
ExposeUnchecked ==
  /\ exposing # NoPlan
  /\ exposed' = exposed \cup {exposing}
  /\ exposing' = NoPlan
  /\ UNCHANGED <<rows, versions, audit, req, faults, history>>

(* The foreign key to rating_plans refuses a plan deleted since the check. *)
ExposeInsert ==
  /\ exposing # NoPlan
  /\ exposed' = IF HasRow(exposing) THEN exposed \cup {exposing} ELSE exposed
  /\ exposing' = NoPlan
  /\ UNCHANGED <<rows, versions, audit, req, faults, history>>

Unexpose(p) ==
  /\ p \in exposed
  /\ exposed' = exposed \ {p}
  /\ UNCHANGED <<rows, versions, audit, exposing, req, faults, history>>

-----------------------------------------------------------------------------
(* Faults *)

(* Mutant: the try block covers the substrate copy only. *)
CompensatedCopyOnly == /\ origin[req.plan].kind = "duplicate"
                       /\ req.at = "substrate"

(* A statement raises: what was committed stays.  Only duplicate_plan's try *)
(* block, from the substrate copy to the audit row, compensates.            *)
Compensated == /\ origin[req.plan].kind = "duplicate"
               /\ req.at \in BirthSteps

StatementFails ==
  /\ req # Idle
  /\ failures < MaxFailures
  /\ failures' = failures + 1
  /\ \/ Compensated /\ Goto("undo_session")
     \/ ~Compensated /\ Done
  /\ UNCHANGED <<rows, versions, audit, seam, crashes, history>>

(* The process restarts: every request in flight is forgotten. *)
Crash ==
  /\ req # Idle \/ exposing # NoPlan
  /\ crashes < MaxCrashes
  /\ crashes' = crashes + 1
  /\ Done
  /\ exposing' = NoPlan
  /\ UNCHANGED <<rows, versions, audit, exposed, failures, history>>

-----------------------------------------------------------------------------
Begins ==
  \E p \in Plans, o \in Operators :
    \/ \E a \in Attributes : CreatePlan(p, a, o)
    \/ \E s \in Plans : ForkPlan(p, s, o) \/ DuplicatePlan(p, s, o)
    \/ \E q \in Plans : PromoteEvicting(p, q, o) \/ RollbackArchive(p, q, o)
    \/ PromoteIntoEmptySlot(p, o)
    \/ DiscardDraft(p, o)
    \/ \E force \in BOOLEAN : HardDeleteCheck(p, o, force)

(* The next statement of the request in flight. *)
Continues ==
  \/ CopySubstrate \/ OpenSession \/ LinkSession \/ AuditBirth
  \/ UndoSession \/ UndoRow
  \/ PromoteActivate \/ PromoteAudit
  \/ RollbackActivate \/ RollbackRefused \/ RollbackAudit \/ RevivalAudit
  \/ HardDeleteAudit \/ HardDeleteSnapshots
  \/ HardDeleteRow \/ HardDeleteRefused

Edits ==
  \E p \in Plans :
    \/ \E verdict \in Verdicts : EditStages(p, verdict)
    \/ p \in Revised /\ \E a \in Attributes : Reingest(p, a)

Serving ==
  \/ ExposeInsert
  \/ \E p \in Served : Freeze(p) \/ Publish(p) \/ ExposeCheck(p) \/ Unexpose(p)

Faults == StatementFails \/ Crash

Next == Begins \/ Continues \/ Edits \/ Serving \/ Faults

Spec == Init /\ [][Next]_vars

(* A handler that started runs to its end unless a fault stops it: there is *)
(* no await it could be left at.  Callers owe nothing.                      *)
FairSpec == Spec /\ WF_vars(Continues)

-----------------------------------------------------------------------------
(* Safety *)

(* A (product, jurisdiction) slot with a jurisdiction never has two active  *)
(* plans, whichever statements of promote and rollback are committed: the   *)
(* partial unique index is the only thing rollback relies on, since it      *)
(* looks its target up by line of business.                                 *)
UniqueActive ==
  \A p, q \in Plans :
    (/\ p # q /\ SameSlot(p, q) /\ attrs[p].jurisdiction # Multistate
     /\ status[p] = "active")
      => status[q] # "active"

(* A plan that promote_draft activated has a chain that passes validate_plan *)
(* for as long as its row lives, through eviction, rollback and revival: no  *)
(* edit reaches it between the validation and the UPDATE, nor afterwards.    *)
PromotedIsValid ==
  \A p \in promoted : status[p] \in {"active", "archived"} /\ chain[p] # "broken"

(* What a request read of its plan when it began still holds at each of its  *)
(* later statements, although none of them runs in a transaction: the draft  *)
(* being born or undone has no child, the plan being promoted is a draft     *)
(* that passed validation, the plan being deleted is archived, the rollback  *)
(* target is archived.                                                       *)
BirthUndisturbed ==
  req.at \in BirthSteps \cup UndoSteps =>
    status[req.plan] = "draft" /\ Children(req.plan) = {}
PromotionUndisturbed == req.at = "activate" => Promotable(req.plan)
RollbackUndisturbed == req.at = "reactivate" => status[req.other] = "archived"
DeletionUndisturbed == req.at \in DeleteSteps => status[req.plan] = "archived"

ReadsHold == /\ BirthUndisturbed
             /\ PromotionUndisturbed
             /\ RollbackUndisturbed
             /\ DeletionUndisturbed

(* parent_plan_id always names a plan that still has its row, although hard  *)
(* delete commits its statements one by one and forks of an evicted plan     *)
(* outlive it as the active plan.                                            *)
LineageStands ==
  \A p \in Plans : HasRow(p) /\ parent[p] # NoPlan => HasRow(parent[p])

(* An exposure never outlives its plan, whatever hard delete does between    *)
(* the check and the insert of an expose call on another thread.             *)
ExposedHasRow == \A p \in exposed : HasRow(p)

(* A plan whose row is gone has no version left that a caller could be       *)
(* served: hard delete clears plan_snapshots before the row.                 *)
NoOrphanVersions == \A p \in Plans : ~HasRow(p) => versions[p] = "none"

(* fork_plan promises one open draft per operator and source.  The lookup    *)
(* goes through the audit event, so this holds of the drafts whose event was *)
(* written, across discards, promotions and faults.                          *)
OneOpenForkPerOperator ==
  \A s \in Plans, o \in Operators : Cardinality(OpenForks(s, o)) <= 1

(* duplicate_plan never half-builds: when no request is in flight a copy is  *)
(* either whole, with its session and its event, or has no row.  A statement *)
(* may fail; one of the compensation's own may not, nor is a crash           *)
(* compensated: either may leave half a copy.                                *)
CopyWhole(p) == substrate[p] /\ session[p] = "linked" /\ Recorded(p, "duplicate")
NeverHalfBuilds ==
  req = Idle /\ crashes = 0 /\ failures <= 1 =>
    \A p \in Plans :
      origin[p].kind = "duplicate" /\ HasRow(p) => CopyWhole(p)

(* No plan is live without a reason on record: promote_draft validated and   *)
(* activated it, or an operator discarded it and a rollback brought it back  *)
(* (promote's eviction and rollback's own archiving never put an unvalidated *)
(* plan where rollback finds it).  So discard and rollback is the only way   *)
(* round the validation, and it is one: rollback's hint asks for a           *)
(* "previously-promoted plan" (author.py:2312), its SELECT for any archived. *)
LiveIsExplained ==
  \A p \in Plans :
    status[p] = "active" => p \in promoted \/ Recorded(p, "discard")

(* A status moves only when the lifecycle of state_machine.py allows it.     *)
Machine == INSTANCE PlanStateMachine
StatusFollowsMachine == Machine!Spec

-----------------------------------------------------------------------------
(* Liveness: a promote that has evicted the active plan of a slot fills the  *)
(* slot again, unless a later fault stops it: the row it archived was all    *)
(* that stood in the index's way.                                            *)
Faulted == failures + crashes
PromoteCompletes ==
  \A p \in Plans, n \in 0 .. MaxFailures + MaxCrashes :
    (req.at = "activate" /\ req.plan = p /\ req.other # NoPlan /\ Faulted = n)
      ~> (status[p] = "active" \/ Faulted > n)
=============================================================================
