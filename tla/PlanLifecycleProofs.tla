------------------------ MODULE PlanLifecycleProofs -------------------------
(***************************************************************************)
(* What PlanLifecycle guarantees for every set of plans, operators and     *)
(* attributes and any number of faults.                                    *)
(***************************************************************************)
EXTENDS PlanLifecycle, FiniteSetTheorems, TLAPS

-----------------------------------------------------------------------------
(* Types *)

LEMMA TypeInit == Init => TypeOK
  BY AttributeRecords, FaultBounds
  DEF Init, TypeOK, Rows, Statuses, Chains, Births, Kinds, Events, Requests,
      Idle, Unborn, Steps, BirthSteps, UndoSteps, DeleteSteps, PromoteSteps,
      RollbackSteps

(* Every step of every handler keeps the tables and the request in flight in *)
(* their types: in particular a rollback under way knows its target.         *)
LEMMA TypeStep ==
  ASSUME TypeOK, [Next]_vars
  PROVE  TypeOK'
  <1> USE FaultBounds, Bounds
      DEF TypeOK, Rows, Statuses, Chains, Births, Kinds, Events, Requests, Idle,
          Unborn, Steps, BirthSteps, UndoSteps, DeleteSteps, PromoteSteps,
          RollbackSteps, rows, seam, faults, history, vars
  <1>1. ASSUME NEW p \in Plans, NEW o \in Operators, NEW a \in Attributes, CreatePlan(p, a, o)
       PROVE TypeOK'
    BY <1>1 DEF CreatePlan, InsertPlan, Begin
  <1>2. ASSUME NEW p \in Plans, NEW o \in Operators, NEW s \in Plans, ForkPlan(p, s, o)
       PROVE TypeOK'
    BY <1>2 DEF ForkPlan, InsertPlan, Begin
  <1>3. ASSUME NEW p \in Plans, NEW o \in Operators, NEW s \in Plans, DuplicatePlan(p, s, o)
       PROVE TypeOK'
    BY <1>3 DEF DuplicatePlan, InsertPlan, Begin
  <1>4. ASSUME NEW p \in Plans, NEW o \in Operators, NEW q \in Plans, PromoteEvicting(p, q, o)
       PROVE TypeOK'
    BY <1>4 DEF PromoteEvicting, Begin, Siblings
  <1>5. ASSUME NEW p \in Plans, NEW o \in Operators, NEW q \in Plans, RollbackArchive(p, q, o)
       PROVE TypeOK'
    BY <1>5 DEF RollbackArchive, Begin
  <1>6. ASSUME NEW p \in Plans, NEW o \in Operators, PromoteIntoEmptySlot(p, o)
       PROVE TypeOK'
    BY <1>6 DEF PromoteIntoEmptySlot, Begin
  <1>7. ASSUME NEW p \in Plans, NEW o \in Operators, DiscardDraft(p, o)
       PROVE TypeOK'
    BY <1>7 DEF DiscardDraft, Record, TurnOff
  <1>8. ASSUME NEW p \in Plans, NEW o \in Operators, NEW force \in BOOLEAN, HardDeleteCheck(p, o, force)
       PROVE TypeOK'
    BY <1>8 DEF HardDeleteCheck
  <1>9. CASE CopySubstrate
    BY <1>9 DEF CopySubstrate, Goto
  <1>10. CASE OpenSession
    BY <1>10 DEF OpenSession, Goto
  <1>11. CASE LinkSession
    BY <1>11 DEF LinkSession, Goto
  <1>12. CASE AuditBirth
    BY <1>12 DEF AuditBirth, Record, BirthEvent, Done
  <1>13. CASE UndoSession
    BY <1>13 DEF UndoSession, Goto
  <1>14. CASE UndoRow
    BY <1>14 DEF UndoRow, RemoveRow, Done
  <1>15. CASE PromoteActivate
    <2>1. CASE IndexAdmits(req.plan)
      <3>1. /\ status' = [status EXCEPT ![req.plan] = "active"]
            /\ promoted' = promoted \cup {req.plan}
            /\ req' = [req EXCEPT !.at = "promote_audit"]
            /\ req.at = "activate"
        BY <1>15, <2>1 DEF PromoteActivate, Goto
      <3> QED BY <1>15, <3>1 DEF PromoteActivate
    <2>2. CASE ~(IndexAdmits(req.plan))
      <3>1. UNCHANGED <<status, promoted>> /\ req' = Idle
        BY <1>15, <2>2 DEF PromoteActivate, Done
      <3> QED BY <1>15, <3>1 DEF PromoteActivate
    <2> QED BY <2>1, <2>2
  <1>16. CASE PromoteAudit
    BY <1>16 DEF PromoteAudit, Record, Done
  <1>17. CASE RollbackActivate
    BY <1>17 DEF RollbackActivate, Goto
  <1>18. CASE RollbackRefused
    BY <1>18 DEF RollbackRefused, Done
  <1>19. CASE RollbackAudit
    BY <1>19 DEF RollbackAudit, Record, Goto
  <1>20. CASE RevivalAudit
    BY <1>20 DEF RevivalAudit, Record, Done
  <1>21. CASE HardDeleteAudit
    BY <1>21 DEF HardDeleteAudit, Record, Goto
  <1>22. CASE HardDeleteSnapshots
    BY <1>22 DEF HardDeleteSnapshots, Goto
  <1>23. CASE HardDeleteRow
    BY <1>23 DEF HardDeleteRow, RemoveRow, Done
  <1>24. CASE HardDeleteRefused
    BY <1>24 DEF HardDeleteRefused, Done
  <1>25. ASSUME NEW p \in Plans, NEW verdict \in Verdicts, EditStages(p, verdict)
       PROVE TypeOK'
    BY <1>25 DEF EditStages
  <1>26. ASSUME NEW p \in Plans, NEW a \in Attributes, Reingest(p, a)
       PROVE TypeOK'
    BY <1>26 DEF Reingest
  <1>27. CASE ExposeInsert
    BY <1>27 DEF ExposeInsert
  <1>28. ASSUME NEW p \in Plans, Freeze(p)
       PROVE TypeOK'
    BY <1>28 DEF Freeze
  <1>29. ASSUME NEW p \in Plans, Publish(p)
       PROVE TypeOK'
    BY <1>29 DEF Publish
  <1>30. ASSUME NEW p \in Plans, ExposeCheck(p)
       PROVE TypeOK'
    BY <1>30 DEF ExposeCheck
  <1>31. ASSUME NEW p \in Plans, Unexpose(p)
       PROVE TypeOK'
    BY <1>31 DEF Unexpose
  <1>32. CASE StatementFails
    <2>1. CASE Compensated
      BY <1>32, <2>1 DEF StatementFails, Goto, Done, Compensated
    <2>2. CASE ~(Compensated)
      <3>1. req' = Idle /\ failures' \in 0 .. MaxFailures
        BY <1>32, <2>2 DEF StatementFails, Done
      <3> QED BY <1>32, <3>1 DEF StatementFails
    <2> QED BY <2>1, <2>2
  <1>33. CASE Crash
    BY <1>33 DEF Crash, Done
  <1>34. CASE UNCHANGED vars
    BY <1>34
  <1> HIDE DEF TypeOK, vars, Rows, Statuses, Chains, Kinds, Steps
  <1> QED
    BY <1>1, <1>2, <1>3, <1>4, <1>5, <1>6, <1>7, <1>8, <1>9, <1>10, <1>11,
       <1>12, <1>13, <1>14, <1>15, <1>16, <1>17, <1>18, <1>19, <1>20, <1>21,
       <1>22, <1>23, <1>24, <1>25, <1>26, <1>27, <1>28, <1>29, <1>30, <1>31,
       <1>32, <1>33, <1>34
    DEF Next, Begins, Continues, Edits, Serving, Faults

(* The type invariant of the lifecycle: rows, events, versions, exposures    *)
(* and the request in flight, through every handler and every fault.         *)
THEOREM TypeCorrect == Spec => []TypeOK
  BY TypeInit, TypeStep, PTL DEF Spec

-----------------------------------------------------------------------------
(* What the tables and the requests hold *)

(* Handlers run one at a time and only the one in flight moves a status or a *)
(* chain, so what a request read stays true; a plan that is being born has   *)
(* no child because every parent has a row.                                  *)
LEMMA ReadsStep ==
  ASSUME TypeOK, LineageStands, ReadsHold, [Next]_vars
  PROVE  ReadsHold'
  <1> USE PlanIds
      DEF TypeOK, Rows, Statuses, Chains, Requests, Idle, Steps, BirthSteps,
             UndoSteps, DeleteSteps, PromoteSteps, RollbackSteps, HasRow, Children,
             Promotable, ReadsHold, BirthUndisturbed, PromotionUndisturbed,
             RollbackUndisturbed, DeletionUndisturbed, LineageStands, rows, seam,
             faults, history, vars
  <1>1. ASSUME NEW p \in Plans, NEW o \in Operators, NEW a \in Attributes, CreatePlan(p, a, o)
       PROVE ReadsHold'
    BY <1>1 DEF CreatePlan, InsertPlan, Begin
  <1>2. ASSUME NEW p \in Plans, NEW o \in Operators, NEW s \in Plans, ForkPlan(p, s, o)
       PROVE ReadsHold'
    <2>1. /\ status' = [status EXCEPT ![p] = "draft"]
          /\ parent' = [parent EXCEPT ![p] = s]
          /\ req'.plan = p /\ req'.at \in {"session", "substrate"}
          /\ status[p] = "absent" /\ status[s] \in Rows
      BY <1>2 DEF ForkPlan, InsertPlan, Begin
    <2>2. ASSUME NEW c \in Plans, HasRow(c)', parent'[c] = p
          PROVE  FALSE
      BY <2>1, <2>2
    <2> QED BY <2>1, <2>2
  <1>3. ASSUME NEW p \in Plans, NEW o \in Operators, NEW s \in Plans, DuplicatePlan(p, s, o)
       PROVE ReadsHold'
    <2>1. /\ status' = [status EXCEPT ![p] = "draft"]
          /\ parent' = [parent EXCEPT ![p] = s]
          /\ req'.plan = p /\ req'.at \in {"session", "substrate"}
          /\ status[p] = "absent" /\ status[s] \in Rows
      BY <1>3 DEF DuplicatePlan, InsertPlan, Begin
    <2>2. ASSUME NEW c \in Plans, HasRow(c)', parent'[c] = p
          PROVE  FALSE
      BY <2>1, <2>2
    <2> QED BY <2>1, <2>2
  <1>4. ASSUME NEW p \in Plans, NEW o \in Operators, NEW q \in Plans, PromoteEvicting(p, q, o)
       PROVE ReadsHold'
    BY <1>4 DEF PromoteEvicting, Begin, Siblings
  <1>5. ASSUME NEW p \in Plans, NEW o \in Operators, NEW q \in Plans, RollbackArchive(p, q, o)
       PROVE ReadsHold'
    BY <1>5 DEF RollbackArchive, Begin, RollbackTargets, ArchivedSiblings
  <1>6. ASSUME NEW p \in Plans, NEW o \in Operators, PromoteIntoEmptySlot(p, o)
       PROVE ReadsHold'
    BY <1>6 DEF PromoteIntoEmptySlot, Begin
  <1>7. ASSUME NEW p \in Plans, NEW o \in Operators, DiscardDraft(p, o)
       PROVE ReadsHold'
    BY <1>7 DEF DiscardDraft, Record, TurnOff
  <1>8. ASSUME NEW p \in Plans, NEW o \in Operators, NEW force \in BOOLEAN, HardDeleteCheck(p, o, force)
       PROVE ReadsHold'
    BY <1>8 DEF HardDeleteCheck
  <1>9. CASE CopySubstrate
    BY <1>9 DEF CopySubstrate, Goto
  <1>10. CASE OpenSession
    BY <1>10 DEF OpenSession, Goto
  <1>11. CASE LinkSession
    BY <1>11 DEF LinkSession, Goto
  <1>12. CASE AuditBirth
    BY <1>12 DEF AuditBirth, Record, BirthEvent, Done
  <1>13. CASE UndoSession
    BY <1>13 DEF UndoSession, Goto
  <1>14. CASE UndoRow
    BY <1>14 DEF UndoRow, RemoveRow, Done
  <1>15. CASE PromoteActivate
    BY <1>15 DEF PromoteActivate, Goto, Done, IndexAdmits
  <1>16. CASE PromoteAudit
    BY <1>16 DEF PromoteAudit, Record, Done
  <1>17. CASE RollbackActivate
    BY <1>17 DEF RollbackActivate, Goto
  <1>18. CASE RollbackRefused
    BY <1>18 DEF RollbackRefused, Done
  <1>19. CASE RollbackAudit
    BY <1>19 DEF RollbackAudit, Record, Goto
  <1>20. CASE RevivalAudit
    BY <1>20 DEF RevivalAudit, Record, Done
  <1>21. CASE HardDeleteAudit
    BY <1>21 DEF HardDeleteAudit, Record, Goto
  <1>22. CASE HardDeleteSnapshots
    BY <1>22 DEF HardDeleteSnapshots, Goto
  <1>23. CASE HardDeleteRow
    BY <1>23 DEF HardDeleteRow, RemoveRow, Done
  <1>24. CASE HardDeleteRefused
    BY <1>24 DEF HardDeleteRefused, Done
  <1>25. ASSUME NEW p \in Plans, NEW verdict \in Verdicts, EditStages(p, verdict)
       PROVE ReadsHold'
    BY <1>25 DEF EditStages
  <1>26. ASSUME NEW p \in Plans, NEW a \in Attributes, Reingest(p, a)
       PROVE ReadsHold'
    BY <1>26 DEF Reingest
  <1>27. CASE ExposeInsert
    BY <1>27 DEF ExposeInsert
  <1>28. ASSUME NEW p \in Plans, Freeze(p)
       PROVE ReadsHold'
    BY <1>28 DEF Freeze
  <1>29. ASSUME NEW p \in Plans, Publish(p)
       PROVE ReadsHold'
    BY <1>29 DEF Publish
  <1>30. ASSUME NEW p \in Plans, ExposeCheck(p)
       PROVE ReadsHold'
    BY <1>30 DEF ExposeCheck
  <1>31. ASSUME NEW p \in Plans, Unexpose(p)
       PROVE ReadsHold'
    BY <1>31 DEF Unexpose
  <1>32. CASE StatementFails
    BY <1>32 DEF StatementFails, Goto, Done, Compensated
  <1>33. CASE Crash
    BY <1>33 DEF Crash, Done
  <1>34. CASE UNCHANGED vars
    BY <1>34
  <1> HIDE DEF vars, TypeOK, ReadsHold, LineageStands, Rows, Steps
  <1> QED
    BY Bounds,
       <1>1, <1>2, <1>3, <1>4, <1>5, <1>6, <1>7, <1>8, <1>9, <1>10, <1>11,
       <1>12, <1>13, <1>14, <1>15, <1>16, <1>17, <1>18, <1>19, <1>20, <1>21,
       <1>22, <1>23, <1>24, <1>25, <1>26, <1>27, <1>28, <1>29, <1>30, <1>31,
       <1>32, <1>33, <1>34
    DEF Next, Begins, Continues, Edits, Serving, Faults

(* A row goes only when no row names it as its parent: the foreign key holds  *)
(* back a hard delete, and a copy that is undone is too young to have a child. *)
LEMMA LineageStep ==
  ASSUME TypeOK, ReadsHold, LineageStands, [Next]_vars
  PROVE  LineageStands'
  <1> USE PlanIds
      DEF TypeOK, Rows, HasRow, Children, LineageStands, UndoSteps, BirthSteps,
          ReadsHold, BirthUndisturbed,
          rows, seam, faults, history, vars
  <1>1. ASSUME NEW p \in Plans, NEW o \in Operators, NEW a \in Attributes, CreatePlan(p, a, o)
       PROVE LineageStands'
    BY <1>1 DEF CreatePlan, InsertPlan, Begin
  <1>2. ASSUME NEW p \in Plans, NEW o \in Operators, NEW s \in Plans, ForkPlan(p, s, o)
       PROVE LineageStands'
    BY <1>2 DEF ForkPlan, InsertPlan, Begin
  <1>3. ASSUME NEW p \in Plans, NEW o \in Operators, NEW s \in Plans, DuplicatePlan(p, s, o)
       PROVE LineageStands'
    BY <1>3 DEF DuplicatePlan, InsertPlan, Begin
  <1>4. ASSUME NEW p \in Plans, NEW o \in Operators, NEW q \in Plans, PromoteEvicting(p, q, o)
       PROVE LineageStands'
    BY <1>4 DEF PromoteEvicting, Begin, Siblings
  <1>5. ASSUME NEW p \in Plans, NEW o \in Operators, NEW q \in Plans, RollbackArchive(p, q, o)
       PROVE LineageStands'
    BY <1>5 DEF RollbackArchive, Begin
  <1>6. ASSUME NEW p \in Plans, NEW o \in Operators, PromoteIntoEmptySlot(p, o)
       PROVE LineageStands'
    BY <1>6 DEF PromoteIntoEmptySlot, Begin
  <1>7. ASSUME NEW p \in Plans, NEW o \in Operators, DiscardDraft(p, o)
       PROVE LineageStands'
    BY <1>7 DEF DiscardDraft, Record, TurnOff
  <1>8. ASSUME NEW p \in Plans, NEW o \in Operators, NEW force \in BOOLEAN, HardDeleteCheck(p, o, force)
       PROVE LineageStands'
    BY <1>8 DEF HardDeleteCheck
  <1>9. CASE UndoRow
    BY <1>9 DEF UndoRow, RemoveRow, Done
  <1>10. CASE PromoteActivate
    <2>1. CASE IndexAdmits(req.plan)
      <3>1. /\ status' = [status EXCEPT ![req.plan] = "active"]
            /\ parent' = parent
        BY <1>10, <2>1 DEF PromoteActivate
      <3>2. HasRow(req.plan)
        BY <1>10 DEF PromoteActivate, PromotionUndisturbed, Promotable
      <3> QED BY <3>1, <3>2
    <2>2. CASE ~IndexAdmits(req.plan)
      <3>1. UNCHANGED <<status, parent>>
        BY <1>10, <2>2 DEF PromoteActivate
      <3> QED BY <3>1
    <2> QED BY <2>1, <2>2
  <1>11. CASE RollbackActivate
    <2>1. /\ status' = [status EXCEPT ![req.other] = "active"]
          /\ parent' = parent
      BY <1>11 DEF RollbackActivate
    <2>2. HasRow(req.other)
      BY <1>11 DEF RollbackActivate, RollbackUndisturbed
    <2> QED BY <2>1, <2>2
  <1>12. CASE HardDeleteRow
    BY <1>12 DEF HardDeleteRow, RemoveRow, Done
  <1>13. ASSUME NEW p \in Plans, NEW verdict \in Verdicts, EditStages(p, verdict)
       PROVE LineageStands'
    BY <1>13 DEF EditStages
  <1>14. ASSUME NEW p \in Plans, NEW a \in Attributes, Reingest(p, a)
       PROVE LineageStands'
    BY <1>14 DEF Reingest
  <1>15. ASSUME NEW p \in Plans, Freeze(p)
       PROVE LineageStands'
    BY <1>15 DEF Freeze
  <1>16. ASSUME NEW p \in Plans, Publish(p)
       PROVE LineageStands'
    BY <1>16 DEF Publish
  <1>17. ASSUME NEW p \in Plans, ExposeCheck(p)
       PROVE LineageStands'
    BY <1>17 DEF ExposeCheck
  <1>18. ASSUME NEW p \in Plans, Unexpose(p)
       PROVE LineageStands'
    BY <1>18 DEF Unexpose
  <1>19. CASE CopySubstrate \/ OpenSession \/ LinkSession \/ AuditBirth \/
            UndoSession \/ PromoteAudit \/ RollbackRefused \/
            RollbackAudit \/ RevivalAudit \/ HardDeleteAudit \/
            HardDeleteSnapshots \/ HardDeleteRefused \/ ExposeInsert \/
            StatementFails \/ Crash
    BY <1>19 DEF CopySubstrate, OpenSession, LinkSession, AuditBirth, UndoSession,
       PromoteAudit, RollbackRefused, RollbackAudit, RevivalAudit,
       HardDeleteAudit, HardDeleteSnapshots, HardDeleteRefused,
       ExposeInsert, StatementFails, Crash
  <1>20. CASE UNCHANGED vars
    BY <1>20
  <1> HIDE DEF vars, TypeOK, LineageStands
  <1> QED
    BY Bounds,
       <1>1, <1>2, <1>3, <1>4, <1>5, <1>6, <1>7, <1>8, <1>9, <1>10, <1>11,
       <1>12, <1>13, <1>14, <1>15, <1>16, <1>17, <1>18, <1>19, <1>20
    DEF Next, Begins, Continues, Edits, Serving, Faults

(* Only an UPDATE that the partial unique index admits makes a plan active.   *)
LEMMA UniqueStep ==
  ASSUME TypeOK, UniqueActive, [Next]_vars
  PROVE  UniqueActive'
  <1> USE DEF TypeOK, UniqueActive, SameSlot, Siblings, Rows,
          rows, seam, faults, history, vars
  <1>1. ASSUME NEW p \in Plans, NEW o \in Operators, NEW a \in Attributes, CreatePlan(p, a, o)
       PROVE UniqueActive'
    BY <1>1 DEF CreatePlan, InsertPlan, Begin
  <1>2. ASSUME NEW p \in Plans, NEW o \in Operators, NEW s \in Plans, ForkPlan(p, s, o)
       PROVE UniqueActive'
    BY <1>2 DEF ForkPlan, InsertPlan, Begin
  <1>3. ASSUME NEW p \in Plans, NEW o \in Operators, NEW s \in Plans, DuplicatePlan(p, s, o)
       PROVE UniqueActive'
    BY <1>3 DEF DuplicatePlan, InsertPlan, Begin
  <1>4. ASSUME NEW p \in Plans, NEW o \in Operators, NEW q \in Plans, PromoteEvicting(p, q, o)
       PROVE UniqueActive'
    BY <1>4 DEF PromoteEvicting, Begin, Siblings
  <1>5. ASSUME NEW p \in Plans, NEW o \in Operators, NEW q \in Plans, RollbackArchive(p, q, o)
       PROVE UniqueActive'
    BY <1>5 DEF RollbackArchive, Begin, RollbackTargets, ArchivedSiblings
  <1>6. ASSUME NEW p \in Plans, NEW o \in Operators, PromoteIntoEmptySlot(p, o)
       PROVE UniqueActive'
    BY <1>6 DEF PromoteIntoEmptySlot, Begin
  <1>7. ASSUME NEW p \in Plans, NEW o \in Operators, DiscardDraft(p, o)
       PROVE UniqueActive'
    BY <1>7 DEF DiscardDraft, Record, TurnOff
  <1>8. ASSUME NEW p \in Plans, NEW o \in Operators, NEW force \in BOOLEAN, HardDeleteCheck(p, o, force)
       PROVE UniqueActive'
    BY <1>8 DEF HardDeleteCheck
  <1>9. CASE UndoRow
    BY <1>9 DEF UndoRow, RemoveRow, Done
  <1>10. CASE PromoteActivate
    <2>1. CASE IndexAdmits(req.plan)
      <3>1. status' = [status EXCEPT ![req.plan] = "active"] /\ attrs' = attrs
        BY <1>10, <2>1 DEF PromoteActivate
      <3> QED BY <2>1, <3>1 DEF IndexAdmits
    <2>2. CASE ~IndexAdmits(req.plan)
      <3>1. UNCHANGED <<status, attrs>>
        BY <1>10, <2>2 DEF PromoteActivate
      <3> QED BY <3>1
    <2> QED BY <2>1, <2>2
  <1>11. CASE RollbackActivate
    <2>1. /\ status' = [status EXCEPT ![req.other] = "active"]
          /\ attrs' = attrs /\ req.other \in Plans
      BY <1>11 DEF RollbackActivate, RollbackSteps
    <2>2. IndexAdmits(req.other)
      BY <1>11 DEF RollbackActivate
    <2> QED BY <2>1, <2>2 DEF IndexAdmits
  <1>12. CASE HardDeleteRow
    BY <1>12 DEF HardDeleteRow, RemoveRow, Done
  <1>13. ASSUME NEW p \in Plans, NEW verdict \in Verdicts, EditStages(p, verdict)
       PROVE UniqueActive'
    BY <1>13 DEF EditStages
  <1>14. ASSUME NEW p \in Plans, NEW a \in Attributes, Reingest(p, a)
       PROVE UniqueActive'
    BY <1>14 DEF Reingest
  <1>15. ASSUME NEW p \in Plans, Freeze(p)
       PROVE UniqueActive'
    BY <1>15 DEF Freeze
  <1>16. ASSUME NEW p \in Plans, Publish(p)
       PROVE UniqueActive'
    BY <1>16 DEF Publish
  <1>17. ASSUME NEW p \in Plans, ExposeCheck(p)
       PROVE UniqueActive'
    BY <1>17 DEF ExposeCheck
  <1>18. ASSUME NEW p \in Plans, Unexpose(p)
       PROVE UniqueActive'
    BY <1>18 DEF Unexpose
  <1>19. CASE CopySubstrate \/ OpenSession \/ LinkSession \/ AuditBirth \/
            UndoSession \/ PromoteAudit \/ RollbackRefused \/
            RollbackAudit \/ RevivalAudit \/ HardDeleteAudit \/
            HardDeleteSnapshots \/ HardDeleteRefused \/ ExposeInsert \/
            StatementFails \/ Crash
    BY <1>19 DEF CopySubstrate, OpenSession, LinkSession, AuditBirth, UndoSession,
       PromoteAudit, RollbackRefused, RollbackAudit, RevivalAudit,
       HardDeleteAudit, HardDeleteSnapshots, HardDeleteRefused,
       ExposeInsert, StatementFails, Crash
  <1>20. CASE UNCHANGED vars
    BY <1>20
  <1> HIDE DEF vars, TypeOK, UniqueActive
  <1> QED
    BY Bounds,
       <1>1, <1>2, <1>3, <1>4, <1>5, <1>6, <1>7, <1>8, <1>9, <1>10, <1>11,
       <1>12, <1>13, <1>14, <1>15, <1>16, <1>17, <1>18, <1>19, <1>20
    DEF Next, Begins, Continues, Edits, Serving, Faults

(* A promoted plan leaves draft with a chain that passed, and edits reach     *)
(* drafts only.                                                               *)
LEMMA ValidStep ==
  ASSUME TypeOK, ReadsHold, PromotedIsValid, [Next]_vars
  PROVE  PromotedIsValid'
  <1> USE DEF TypeOK, PromotedIsValid, ReadsHold, PromotionUndisturbed,
          RollbackUndisturbed, Promotable, HasRow, Rows,
          rows, seam, faults, history, vars
  <1>1. ASSUME NEW p \in Plans, NEW o \in Operators, NEW a \in Attributes, CreatePlan(p, a, o)
       PROVE PromotedIsValid'
    BY <1>1 DEF CreatePlan, InsertPlan, Begin
  <1>2. ASSUME NEW p \in Plans, NEW o \in Operators, NEW s \in Plans, ForkPlan(p, s, o)
       PROVE PromotedIsValid'
    BY <1>2 DEF ForkPlan, InsertPlan, Begin
  <1>3. ASSUME NEW p \in Plans, NEW o \in Operators, NEW s \in Plans, DuplicatePlan(p, s, o)
       PROVE PromotedIsValid'
    BY <1>3 DEF DuplicatePlan, InsertPlan, Begin
  <1>4. ASSUME NEW p \in Plans, NEW o \in Operators, NEW q \in Plans, PromoteEvicting(p, q, o)
       PROVE PromotedIsValid'
    BY <1>4 DEF PromoteEvicting, Begin, Siblings
  <1>5. ASSUME NEW p \in Plans, NEW o \in Operators, NEW q \in Plans, RollbackArchive(p, q, o)
       PROVE PromotedIsValid'
    BY <1>5 DEF RollbackArchive, Begin, RollbackTargets, ArchivedSiblings
  <1>6. ASSUME NEW p \in Plans, NEW o \in Operators, PromoteIntoEmptySlot(p, o)
       PROVE PromotedIsValid'
    BY <1>6 DEF PromoteIntoEmptySlot, Begin
  <1>7. ASSUME NEW p \in Plans, NEW o \in Operators, DiscardDraft(p, o)
       PROVE PromotedIsValid'
    BY <1>7 DEF DiscardDraft, Record, TurnOff
  <1>8. ASSUME NEW p \in Plans, NEW o \in Operators, NEW force \in BOOLEAN, HardDeleteCheck(p, o, force)
       PROVE PromotedIsValid'
    BY <1>8 DEF HardDeleteCheck
  <1>9. CASE UndoRow
    BY <1>9 DEF UndoRow, RemoveRow, Done
  <1>10. CASE PromoteActivate
    BY <1>10 DEF PromoteActivate, Goto, Done, IndexAdmits
  <1>11. CASE RollbackActivate
    BY <1>11 DEF RollbackActivate, Goto
  <1>12. CASE HardDeleteRow
    BY <1>12 DEF HardDeleteRow, RemoveRow, Done
  <1>13. ASSUME NEW p \in Plans, NEW verdict \in Verdicts, EditStages(p, verdict)
       PROVE PromotedIsValid'
    BY <1>13 DEF EditStages
  <1>14. ASSUME NEW p \in Plans, NEW a \in Attributes, Reingest(p, a)
       PROVE PromotedIsValid'
    BY <1>14 DEF Reingest
  <1>15. ASSUME NEW p \in Plans, Freeze(p)
       PROVE PromotedIsValid'
    BY <1>15 DEF Freeze
  <1>16. ASSUME NEW p \in Plans, Publish(p)
       PROVE PromotedIsValid'
    BY <1>16 DEF Publish
  <1>17. ASSUME NEW p \in Plans, ExposeCheck(p)
       PROVE PromotedIsValid'
    BY <1>17 DEF ExposeCheck
  <1>18. ASSUME NEW p \in Plans, Unexpose(p)
       PROVE PromotedIsValid'
    BY <1>18 DEF Unexpose
  <1>19. CASE CopySubstrate \/ OpenSession \/ LinkSession \/ AuditBirth \/
            UndoSession \/ PromoteAudit \/ RollbackRefused \/
            RollbackAudit \/ RevivalAudit \/ HardDeleteAudit \/
            HardDeleteSnapshots \/ HardDeleteRefused \/ ExposeInsert \/
            StatementFails \/ Crash
    BY <1>19 DEF CopySubstrate, OpenSession, LinkSession, AuditBirth, UndoSession,
       PromoteAudit, RollbackRefused, RollbackAudit, RevivalAudit,
       HardDeleteAudit, HardDeleteSnapshots, HardDeleteRefused,
       ExposeInsert, StatementFails, Crash
  <1>20. CASE UNCHANGED vars
    BY <1>20
  <1> HIDE DEF vars, TypeOK, PromotedIsValid
  <1> QED
    BY Bounds,
       <1>1, <1>2, <1>3, <1>4, <1>5, <1>6, <1>7, <1>8, <1>9, <1>10, <1>11,
       <1>12, <1>13, <1>14, <1>15, <1>16, <1>17, <1>18, <1>19, <1>20
    DEF Next, Begins, Continues, Edits, Serving, Faults

(* Every statement moves at most one status, the way the tables allow.        *)
LEMMA MachineStep ==
  ASSUME TypeOK, ReadsHold, [Next]_vars
  PROVE  [Machine!Next]_status
  <1> USE DEF TypeOK, ReadsHold, PromotionUndisturbed, RollbackUndisturbed,
          BirthUndisturbed, DeletionUndisturbed, DeleteSteps, UndoSteps,
          RollbackSteps, Promotable, HasRow, Rows, Machine!Next, Machine!Born,
          Machine!Transition, Machine!Revived, Machine!Removed,
          Machine!LegalFrom, Machine!StatusAfter,
          rows, seam, faults, history, vars
  <1>1. ASSUME NEW p \in Plans, NEW o \in Operators, NEW a \in Attributes, CreatePlan(p, a, o)
       PROVE [Machine!Next]_status
    BY <1>1 DEF CreatePlan, InsertPlan, Begin
  <1>2. ASSUME NEW p \in Plans, NEW o \in Operators, NEW s \in Plans, ForkPlan(p, s, o)
       PROVE [Machine!Next]_status
    BY <1>2 DEF ForkPlan, InsertPlan, Begin
  <1>3. ASSUME NEW p \in Plans, NEW o \in Operators, NEW s \in Plans, DuplicatePlan(p, s, o)
       PROVE [Machine!Next]_status
    BY <1>3 DEF DuplicatePlan, InsertPlan, Begin
  <1>4. ASSUME NEW p \in Plans, NEW o \in Operators, NEW q \in Plans, PromoteEvicting(p, q, o)
       PROVE [Machine!Next]_status
    BY <1>4 DEF PromoteEvicting, Begin, Siblings
  <1>5. ASSUME NEW p \in Plans, NEW o \in Operators, NEW q \in Plans, RollbackArchive(p, q, o)
       PROVE [Machine!Next]_status
    BY <1>5 DEF RollbackArchive, Begin, RollbackTargets, ArchivedSiblings
  <1>6. ASSUME NEW p \in Plans, NEW o \in Operators, PromoteIntoEmptySlot(p, o)
       PROVE [Machine!Next]_status
    BY <1>6 DEF PromoteIntoEmptySlot, Begin
  <1>7. ASSUME NEW p \in Plans, NEW o \in Operators, DiscardDraft(p, o)
       PROVE [Machine!Next]_status
    BY <1>7 DEF DiscardDraft, Record, TurnOff
  <1>8. ASSUME NEW p \in Plans, NEW o \in Operators, NEW force \in BOOLEAN, HardDeleteCheck(p, o, force)
       PROVE [Machine!Next]_status
    BY <1>8 DEF HardDeleteCheck
  <1>9. CASE UndoRow
    BY <1>9 DEF UndoRow, RemoveRow, Done
  <1>10. CASE PromoteActivate
    BY <1>10 DEF PromoteActivate, Goto, Done, IndexAdmits
  <1>11. CASE RollbackActivate
    BY <1>11 DEF RollbackActivate, Goto
  <1>12. CASE HardDeleteRow
    BY <1>12 DEF HardDeleteRow, RemoveRow, Done
  <1>13. ASSUME NEW p \in Plans, NEW verdict \in Verdicts, EditStages(p, verdict)
       PROVE [Machine!Next]_status
    BY <1>13 DEF EditStages
  <1>14. ASSUME NEW p \in Plans, NEW a \in Attributes, Reingest(p, a)
       PROVE [Machine!Next]_status
    BY <1>14 DEF Reingest
  <1>15. ASSUME NEW p \in Plans, Freeze(p)
       PROVE [Machine!Next]_status
    BY <1>15 DEF Freeze
  <1>16. ASSUME NEW p \in Plans, Publish(p)
       PROVE [Machine!Next]_status
    BY <1>16 DEF Publish
  <1>17. ASSUME NEW p \in Plans, ExposeCheck(p)
       PROVE [Machine!Next]_status
    BY <1>17 DEF ExposeCheck
  <1>18. ASSUME NEW p \in Plans, Unexpose(p)
       PROVE [Machine!Next]_status
    BY <1>18 DEF Unexpose
  <1>19. CASE CopySubstrate \/ OpenSession \/ LinkSession \/ AuditBirth \/
            UndoSession \/ PromoteAudit \/ RollbackRefused \/
            RollbackAudit \/ RevivalAudit \/ HardDeleteAudit \/
            HardDeleteSnapshots \/ HardDeleteRefused \/ ExposeInsert \/
            StatementFails \/ Crash
    BY <1>19 DEF CopySubstrate, OpenSession, LinkSession, AuditBirth, UndoSession,
       PromoteAudit, RollbackRefused, RollbackAudit, RevivalAudit,
       HardDeleteAudit, HardDeleteSnapshots, HardDeleteRefused,
       ExposeInsert, StatementFails, Crash
  <1>20. CASE UNCHANGED vars
    BY <1>20
  <1> HIDE DEF vars, TypeOK
  <1> QED
    BY Bounds,
       <1>1, <1>2, <1>3, <1>4, <1>5, <1>6, <1>7, <1>8, <1>9, <1>10, <1>11,
       <1>12, <1>13, <1>14, <1>15, <1>16, <1>17, <1>18, <1>19, <1>20
    DEF Next, Begins, Continues, Edits, Serving, Faults

-----------------------------------------------------------------------------
(* Theorems *)

(* A slot with a jurisdiction never has two active plans, for any number of   *)
(* plans and faults, although promote and rollback commit statement by        *)
(* statement and rollback does not look at the slot.                          *)
THEOREM SlotsUnique == Spec => []UniqueActive
  <1>1. Init => UniqueActive
    BY DEF Init, UniqueActive
  <1> QED
    BY <1>1, TypeCorrect, UniqueStep, PTL DEF Spec

(* The foreign key on parent_plan_id and the reads of the requests in flight  *)
(* support each other: neither is inductive alone.                            *)
LEMMA Undisturbed == Spec => [](ReadsHold /\ LineageStands)
  <1>1. Init => ReadsHold /\ LineageStands
    BY DEF Init, Idle, ReadsHold, BirthUndisturbed, PromotionUndisturbed,
           RollbackUndisturbed, DeletionUndisturbed, LineageStands, HasRow, Rows,
           BirthSteps, UndoSteps, DeleteSteps
  <1> QED
    BY <1>1, TypeCorrect, ReadsStep, LineageStep, PTL DEF Spec

(* What a handler read of its plan holds at each of its later statements.     *)
THEOREM HandlersUndisturbed == Spec => []ReadsHold
  BY Undisturbed, PTL

(* A plan never loses the row its parent_plan_id names.                       *)
THEOREM ParentsStand == Spec => []LineageStands
  BY Undisturbed, PTL

(* A plan that promote_draft activated keeps a chain that passes validation.  *)
THEOREM PromotedStaysValid == Spec => []PromotedIsValid
  <1>1. Init => PromotedIsValid
    BY DEF Init, PromotedIsValid
  <1> QED
    BY <1>1, TypeCorrect, Undisturbed, ValidStep, PTL DEF Spec

(* The handlers implement the lifecycle that state_machine.py declares:       *)
(* every committed statement of theirs is a transition of it or a stutter.    *)
THEOREM ImplementsMachine == Spec => StatusFollowsMachine
  <1>1. Init => Machine!Init
    BY DEF Init, Machine!Init
  <1> QED
    BY <1>1, TypeCorrect, Undisturbed, MachineStep, PTL
    DEF Spec, StatusFollowsMachine, Machine!Spec

-----------------------------------------------------------------------------
(* What the tables beside rating_plans may rely on: the exposures, the     *)
(* versions and the audit trail.                                           *)

(* Exposures *)

(* A row goes with its exposures, and an insert asks for the row. *)
LEMMA ExposedStep ==
  ASSUME TypeOK, ExposedHasRow, [Next]_vars
  PROVE  ExposedHasRow'
<1> USE DEF TypeOK, ExposedHasRow, HasRow, Rows, rows, seam, faults, history, vars
<1>1. ASSUME NEW p \in Plans, NEW o \in Operators, NEW a \in Attributes,
             CreatePlan(p, a, o)
      PROVE  ExposedHasRow'
  BY <1>1 DEF CreatePlan, InsertPlan, Begin
<1>2. ASSUME NEW p \in Plans, NEW o \in Operators, NEW s \in Plans,
             ForkPlan(p, s, o)
      PROVE  ExposedHasRow'
  BY <1>2 DEF ForkPlan, InsertPlan, Begin
<1>3. ASSUME NEW p \in Plans, NEW o \in Operators, NEW s \in Plans,
             DuplicatePlan(p, s, o)
      PROVE  ExposedHasRow'
  BY <1>3 DEF DuplicatePlan, InsertPlan, Begin
<1>4. ASSUME NEW p \in Plans, NEW o \in Operators, NEW q \in Plans,
             PromoteEvicting(p, q, o)
      PROVE  ExposedHasRow'
  BY <1>4 DEF PromoteEvicting, Begin
<1>5. ASSUME NEW p \in Plans, NEW o \in Operators, NEW q \in Plans,
             RollbackArchive(p, q, o)
      PROVE  ExposedHasRow'
  BY <1>5 DEF RollbackArchive, Begin
<1>6. ASSUME NEW p \in Plans, NEW o \in Operators,
             PromoteIntoEmptySlot(p, o)
      PROVE  ExposedHasRow'
  BY <1>6 DEF PromoteIntoEmptySlot, Begin
<1>7. ASSUME NEW p \in Plans, NEW o \in Operators,
             DiscardDraft(p, o)
      PROVE  ExposedHasRow'
  BY <1>7 DEF DiscardDraft, Record, TurnOff
<1>8. ASSUME NEW p \in Plans, NEW o \in Operators, NEW force \in BOOLEAN,
             HardDeleteCheck(p, o, force)
      PROVE  ExposedHasRow'
  BY <1>8 DEF HardDeleteCheck
<1>9. CASE UndoRow
  BY <1>9 DEF UndoRow, RemoveRow, Done
<1>10. CASE PromoteActivate
  BY <1>10 DEF PromoteActivate, Goto, Done
<1>11. CASE RollbackActivate
  BY <1>11 DEF RollbackActivate, Goto
<1>12. CASE HardDeleteRow
  BY <1>12 DEF HardDeleteRow, RemoveRow, Done
<1>13. CASE AuditBirth
  BY <1>13 DEF AuditBirth, Record, Done
<1>14. CASE HardDeleteSnapshots
  BY <1>14 DEF HardDeleteSnapshots, Goto
<1>15. ASSUME NEW p \in Plans, NEW verdict \in Verdicts,
             EditStages(p, verdict)
      PROVE  ExposedHasRow'
  BY <1>15 DEF EditStages
<1>16. ASSUME NEW p \in Plans, NEW a \in Attributes,
             Reingest(p, a)
      PROVE  ExposedHasRow'
  BY <1>16 DEF Reingest
<1>17. ASSUME NEW p \in Plans, Freeze(p) PROVE ExposedHasRow'
  BY <1>17 DEF Freeze
<1>18. ASSUME NEW p \in Plans, Publish(p) PROVE ExposedHasRow'
  BY <1>18 DEF Publish
<1>19. ASSUME NEW p \in Plans,
             ExposeCheck(p) \/ Unexpose(p)
      PROVE  ExposedHasRow'
  BY <1>19 DEF ExposeCheck, Unexpose
<1>20. CASE ExposeInsert
  BY <1>20 DEF ExposeInsert
<1>21. CASE CopySubstrate \/ OpenSession \/ LinkSession \/ UndoSession
  BY <1>21 DEF CopySubstrate, OpenSession, LinkSession, UndoSession, Goto
<1>22. CASE PromoteAudit \/ RollbackAudit \/ RevivalAudit \/ HardDeleteAudit
  BY <1>22
  DEF PromoteAudit, RollbackAudit, RevivalAudit, HardDeleteAudit, Record, Goto, Done
<1>23. CASE RollbackRefused \/ HardDeleteRefused
  BY <1>23 DEF RollbackRefused, HardDeleteRefused, Done
<1>24. CASE StatementFails \/ Crash
  BY <1>24 DEF StatementFails, Crash, Goto, Done
<1>25. CASE UNCHANGED vars
  BY <1>25
<1> HIDE DEF vars, TypeOK
<1> QED
  BY Bounds,
     <1>1, <1>2, <1>3, <1>4, <1>5, <1>6, <1>7, <1>8, <1>9,
     <1>10, <1>11, <1>12, <1>13, <1>14, <1>15, <1>16, <1>17, <1>18,
     <1>19, <1>20, <1>21, <1>22, <1>23, <1>24, <1>25
  DEF Next, Begins, Continues, Edits, Serving, Faults

(* An exposure never outlives its plan, whatever a hard delete commits between *)
(* the check and the insert of an expose call.                                 *)
THEOREM ExposuresStand == Spec => []ExposedHasRow
<1>1. Init => ExposedHasRow
  BY DEF Init, ExposedHasRow
<1> QED
  BY <1>1, TypeCorrect, ExposedStep, PTL DEF Spec

-----------------------------------------------------------------------------
(* Versions *)

(* No version is frozen of a plan while its birth is under way or after hard *)
(* delete has cleared them.                                                  *)
Cleared == /\ req.at = "delete_row" => versions[req.plan] = "none"
           /\ req.at \in BirthSteps \cup UndoSteps => versions[req.plan] = "none"

(* The row goes last, after its versions. *)
LEMMA VersionsStep ==
  ASSUME TypeOK, NoOrphanVersions, Cleared, [Next]_vars
  PROVE  (NoOrphanVersions /\ Cleared)'
<1> USE DEF TypeOK, NoOrphanVersions, Cleared, HasRow, Rows, Requests, Idle, BirthSteps,
            UndoSteps, rows, seam, faults, history, vars
<1>1. ASSUME NEW p \in Plans, NEW o \in Operators, NEW a \in Attributes,
             CreatePlan(p, a, o)
      PROVE  (NoOrphanVersions /\ Cleared)'
  BY <1>1 DEF CreatePlan, InsertPlan, Begin
<1>2. ASSUME NEW p \in Plans, NEW o \in Operators, NEW s \in Plans,
             ForkPlan(p, s, o)
      PROVE  (NoOrphanVersions /\ Cleared)'
  BY <1>2 DEF ForkPlan, InsertPlan, Begin
<1>3. ASSUME NEW p \in Plans, NEW o \in Operators, NEW s \in Plans,
             DuplicatePlan(p, s, o)
      PROVE  (NoOrphanVersions /\ Cleared)'
  BY <1>3 DEF DuplicatePlan, InsertPlan, Begin
<1>4. ASSUME NEW p \in Plans, NEW o \in Operators, NEW q \in Plans,
             PromoteEvicting(p, q, o)
      PROVE  (NoOrphanVersions /\ Cleared)'
  BY <1>4 DEF PromoteEvicting, Begin
<1>5. ASSUME NEW p \in Plans, NEW o \in Operators, NEW q \in Plans,
             RollbackArchive(p, q, o)
      PROVE  (NoOrphanVersions /\ Cleared)'
  BY <1>5 DEF RollbackArchive, Begin
<1>6. ASSUME NEW p \in Plans, NEW o \in Operators,
             PromoteIntoEmptySlot(p, o)
      PROVE  (NoOrphanVersions /\ Cleared)'
  BY <1>6 DEF PromoteIntoEmptySlot, Begin
<1>7. ASSUME NEW p \in Plans, NEW o \in Operators,
             DiscardDraft(p, o)
      PROVE  (NoOrphanVersions /\ Cleared)'
  BY <1>7 DEF DiscardDraft, Record, TurnOff
<1>8. ASSUME NEW p \in Plans, NEW o \in Operators, NEW force \in BOOLEAN,
             HardDeleteCheck(p, o, force)
      PROVE  (NoOrphanVersions /\ Cleared)'
  BY <1>8 DEF HardDeleteCheck
<1>9. CASE UndoRow
  BY <1>9 DEF UndoRow, RemoveRow, Done
<1>10. CASE PromoteActivate
  BY <1>10 DEF PromoteActivate, Goto, Done
<1>11. CASE RollbackActivate
  BY <1>11 DEF RollbackActivate, Goto
<1>12. CASE HardDeleteRow
  BY <1>12 DEF HardDeleteRow, RemoveRow, Done
<1>13. CASE AuditBirth
  BY <1>13 DEF AuditBirth, Record, Done
<1>14. CASE HardDeleteSnapshots
  BY <1>14 DEF HardDeleteSnapshots, Goto
<1>15. ASSUME NEW p \in Plans, NEW verdict \in Verdicts,
             EditStages(p, verdict)
      PROVE  (NoOrphanVersions /\ Cleared)'
  BY <1>15 DEF EditStages
<1>16. ASSUME NEW p \in Plans, NEW a \in Attributes,
             Reingest(p, a)
      PROVE  (NoOrphanVersions /\ Cleared)'
  BY <1>16 DEF Reingest
<1>17. ASSUME NEW p \in Plans, Freeze(p) PROVE (NoOrphanVersions /\ Cleared)'
  BY <1>17 DEF Freeze
<1>18. ASSUME NEW p \in Plans, Publish(p) PROVE (NoOrphanVersions /\ Cleared)'
  BY <1>18 DEF Publish
<1>19. ASSUME NEW p \in Plans,
             ExposeCheck(p) \/ Unexpose(p)
      PROVE  (NoOrphanVersions /\ Cleared)'
  BY <1>19 DEF ExposeCheck, Unexpose
<1>20. CASE ExposeInsert
  BY <1>20 DEF ExposeInsert
<1>21. CASE CopySubstrate \/ OpenSession \/ LinkSession \/ UndoSession
  BY <1>21 DEF CopySubstrate, OpenSession, LinkSession, UndoSession, Goto
<1>22. CASE PromoteAudit \/ RollbackAudit \/ RevivalAudit \/ HardDeleteAudit
  BY <1>22
  DEF PromoteAudit, RollbackAudit, RevivalAudit, HardDeleteAudit, Record, Goto, Done
<1>23. CASE RollbackRefused \/ HardDeleteRefused
  BY <1>23 DEF RollbackRefused, HardDeleteRefused, Done
<1>24. CASE StatementFails \/ Crash
  BY <1>24 DEF StatementFails, Crash, Goto, Done, Compensated
<1>25. CASE UNCHANGED vars
  BY <1>25
<1> HIDE DEF vars, TypeOK
<1> QED
  BY Bounds,
     <1>1, <1>2, <1>3, <1>4, <1>5, <1>6, <1>7, <1>8, <1>9,
     <1>10, <1>11, <1>12, <1>13, <1>14, <1>15, <1>16, <1>17, <1>18,
     <1>19, <1>20, <1>21, <1>22, <1>23, <1>24, <1>25
  DEF Next, Begins, Continues, Edits, Serving, Faults

(* A plan whose row is gone leaves no version behind. *)
THEOREM VersionsGo == Spec => []NoOrphanVersions
<1>1. Init => NoOrphanVersions /\ Cleared
  BY DEF Init, Idle, NoOrphanVersions, Cleared, BirthSteps, UndoSteps
<1> QED
  BY <1>1, TypeCorrect, VersionsStep, PTL DEF Spec

-----------------------------------------------------------------------------
(* What is live *)

(* A plan that was ever made active or archived was promoted or discarded,   *)
(* archived plans included: they are what rollback picks from.               *)
Explained ==
  \A p \in Plans :
    status[p] \in {"active", "archived"} => p \in promoted \/ Recorded(p, "discard")

(* Only discard archives a draft, and it says so in the audit, which forgets *)
(* nothing; every other archiving UPDATE finds its plan active.              *)
LEMMA ExplainedStep ==
  ASSUME "discard" \in Traced, TypeOK, ReadsHold, Explained, [Next]_vars
  PROVE  Explained'
<1> USE DEF TypeOK, ReadsHold, RollbackUndisturbed, Explained, Recorded,
            rows, seam, faults, history, vars
<1>1. ASSUME NEW p \in Plans, NEW o \in Operators, NEW a \in Attributes,
             CreatePlan(p, a, o)
      PROVE  Explained'
  BY <1>1 DEF CreatePlan, InsertPlan, Begin
<1>2. ASSUME NEW p \in Plans, NEW o \in Operators, NEW s \in Plans,
             ForkPlan(p, s, o)
      PROVE  Explained'
  BY <1>2 DEF ForkPlan, InsertPlan, Begin
<1>3. ASSUME NEW p \in Plans, NEW o \in Operators, NEW s \in Plans,
             DuplicatePlan(p, s, o)
      PROVE  Explained'
  BY <1>3 DEF DuplicatePlan, InsertPlan, Begin
<1>4. ASSUME NEW p \in Plans, NEW o \in Operators, NEW q \in Plans,
             PromoteEvicting(p, q, o)
      PROVE  Explained'
  BY <1>4 DEF PromoteEvicting, Begin, Siblings
<1>5. ASSUME NEW p \in Plans, NEW o \in Operators, NEW q \in Plans,
             RollbackArchive(p, q, o)
      PROVE  Explained'
  BY <1>5 DEF RollbackArchive, Begin
<1>6. ASSUME NEW p \in Plans, NEW o \in Operators,
             PromoteIntoEmptySlot(p, o)
      PROVE  Explained'
  BY <1>6 DEF PromoteIntoEmptySlot, Begin
<1>7. ASSUME NEW p \in Plans, NEW o \in Operators,
             DiscardDraft(p, o)
      PROVE  Explained'
  BY <1>7 DEF DiscardDraft, Record, TurnOff
<1>8. ASSUME NEW p \in Plans, NEW o \in Operators, NEW force \in BOOLEAN,
             HardDeleteCheck(p, o, force)
      PROVE  Explained'
  BY <1>8 DEF HardDeleteCheck
<1>9. CASE UndoRow
  BY <1>9 DEF UndoRow, RemoveRow, Done
<1>10. CASE PromoteActivate
  BY <1>10 DEF PromoteActivate, Goto, Done
<1>11. CASE RollbackActivate
  BY <1>11 DEF RollbackActivate, Goto
<1>12. CASE HardDeleteRow
  BY <1>12 DEF HardDeleteRow, RemoveRow, Done
<1>13. CASE AuditBirth
  BY <1>13 DEF AuditBirth, Record, Done
<1>14. CASE HardDeleteSnapshots
  BY <1>14 DEF HardDeleteSnapshots, Goto
<1>15. ASSUME NEW p \in Plans, NEW verdict \in Verdicts,
             EditStages(p, verdict)
      PROVE  Explained'
  BY <1>15 DEF EditStages
<1>16. ASSUME NEW p \in Plans, NEW a \in Attributes,
             Reingest(p, a)
      PROVE  Explained'
  BY <1>16 DEF Reingest
<1>17. ASSUME NEW p \in Plans, Freeze(p) PROVE Explained'
  BY <1>17 DEF Freeze
<1>18. ASSUME NEW p \in Plans, Publish(p) PROVE Explained'
  BY <1>18 DEF Publish
<1>19. ASSUME NEW p \in Plans, ExposeCheck(p) \/ Unexpose(p) PROVE Explained'
  BY <1>19 DEF ExposeCheck, Unexpose
<1>20. CASE ExposeInsert
  BY <1>20 DEF ExposeInsert
<1>21. CASE CopySubstrate \/ OpenSession \/ LinkSession \/ UndoSession
  BY <1>21
  DEF CopySubstrate, OpenSession, LinkSession, UndoSession, Goto, BirthSteps
<1>22. CASE PromoteAudit \/ RollbackAudit \/ RevivalAudit \/ HardDeleteAudit
  BY <1>22
  DEF PromoteAudit, RollbackAudit, RevivalAudit, HardDeleteAudit, Record, Goto, Done
<1>23. CASE RollbackRefused \/ HardDeleteRefused
  BY <1>23 DEF RollbackRefused, HardDeleteRefused, Done
<1>24. CASE StatementFails \/ Crash
  BY <1>24 DEF StatementFails, Crash, Goto, Done
<1>25. CASE UNCHANGED vars
  BY <1>25
<1> HIDE DEF vars, TypeOK, Explained
<1> QED
  BY Bounds,
     <1>1, <1>2, <1>3, <1>4, <1>5, <1>6, <1>7, <1>8, <1>9,
     <1>10, <1>11, <1>12, <1>13, <1>14, <1>15, <1>16, <1>17, <1>18,
     <1>19, <1>20, <1>21, <1>22, <1>23, <1>24, <1>25
  DEF Next, Begins, Continues, Edits, Serving, Faults

(* A live plan was promoted, or discarded and brought back by a rollback.    *)
THEOREM LiveHasReason ==
  ASSUME "discard" \in Traced
  PROVE  Spec => []LiveIsExplained
<1>1. Init => Explained
  BY DEF Init, Explained
<1>2. Explained => LiveIsExplained
  BY DEF Explained, LiveIsExplained
<1>3. TypeOK /\ ReadsHold /\ Explained /\ [Next]_vars => Explained'
  BY ExplainedStep
<1> QED
  BY <1>1, <1>2, <1>3, TypeCorrect, HandlersUndisturbed, PTL DEF Spec

-----------------------------------------------------------------------------
(* Forks *)

Forked(p, o) == [plan |-> p, kind |-> "fork", by |-> o] \in audit

AtMostOneFork ==
  \A s \in Plans, o \in Operators : \A p, q \in OpenForks(s, o) : p = q

(* An unborn plan has no event, and while a fork is born its operator has no *)
(* other open one.                                                           *)
ForkAwaited ==
  /\ \A p \in Plans, o \in Operators : status[p] = "absent" => ~Forked(p, o)
  /\ (req.at \in BirthSteps /\ origin[req.plan].kind # "duplicate") =>
       parent[req.plan] = NoPlan \/ OpenForks(parent[req.plan], req.by) = {}

(* The lookup at the start of a fork still holds when its event is written. *)
LEMMA ForksStep ==
  ASSUME TypeOK, ReadsHold, AtMostOneFork, ForkAwaited, [Next]_vars
  PROVE  (AtMostOneFork /\ ForkAwaited)'
<1> USE PlanIds DEF TypeOK, ReadsHold, BirthUndisturbed, PromotionUndisturbed, Promotable,
            RollbackUndisturbed, AtMostOneFork, ForkAwaited, Forked, OpenForks, HasRow,
            Rows, Requests, Idle, BirthSteps, UndoSteps, rows, seam, faults, history, vars
<1>1. ASSUME NEW p \in Plans, NEW o \in Operators, NEW a \in Attributes,
             CreatePlan(p, a, o)
      PROVE  (AtMostOneFork /\ ForkAwaited)'
  BY <1>1 DEF CreatePlan, InsertPlan, Begin
<1>2. ASSUME NEW p \in Plans, NEW o \in Operators, NEW s \in Plans,
             ForkPlan(p, s, o)
      PROVE  (AtMostOneFork /\ ForkAwaited)'
  BY <1>2 DEF ForkPlan, InsertPlan, Begin
<1>3. ASSUME NEW p \in Plans, NEW o \in Operators, NEW s \in Plans,
             DuplicatePlan(p, s, o)
      PROVE  (AtMostOneFork /\ ForkAwaited)'
  BY <1>3 DEF DuplicatePlan, InsertPlan, Begin
<1>4. ASSUME NEW p \in Plans, NEW o \in Operators, NEW q \in Plans,
             PromoteEvicting(p, q, o)
      PROVE  (AtMostOneFork /\ ForkAwaited)'
  BY <1>4 DEF PromoteEvicting, Begin
<1>5. ASSUME NEW p \in Plans, NEW o \in Operators, NEW q \in Plans,
             RollbackArchive(p, q, o)
      PROVE  (AtMostOneFork /\ ForkAwaited)'
  BY <1>5 DEF RollbackArchive, Begin
<1>6. ASSUME NEW p \in Plans, NEW o \in Operators,
             PromoteIntoEmptySlot(p, o)
      PROVE  (AtMostOneFork /\ ForkAwaited)'
  BY <1>6 DEF PromoteIntoEmptySlot, Begin
<1>7. ASSUME NEW p \in Plans, NEW o \in Operators,
             DiscardDraft(p, o)
      PROVE  (AtMostOneFork /\ ForkAwaited)'
  BY <1>7 DEF DiscardDraft, Record, TurnOff
<1>8. ASSUME NEW p \in Plans, NEW o \in Operators, NEW force \in BOOLEAN,
             HardDeleteCheck(p, o, force)
      PROVE  (AtMostOneFork /\ ForkAwaited)'
  BY <1>8 DEF HardDeleteCheck
<1>9. CASE UndoRow
  BY <1>9 DEF UndoRow, RemoveRow, Done
<1>10. CASE PromoteActivate
  <2>1. UNCHANGED <<parent, audit, origin>> /\ req'.at \notin BirthSteps
    BY <1>10 DEF PromoteActivate, Goto, Done
  <2>2. status' = status \/ status' = [status EXCEPT ![req.plan] = "active"]
    BY <1>10 DEF PromoteActivate
  <2>3. \A p \in Plans : status'[p] \in {"draft", "absent"} => status[p] = status'[p]
    BY <2>2
  <2> QED
    BY <2>1, <2>3
<1>11. CASE RollbackActivate
  BY <1>11 DEF RollbackActivate, Goto
<1>12. CASE HardDeleteRow
  BY <1>12 DEF HardDeleteRow, RemoveRow, Done
<1>13. CASE AuditBirth
  BY <1>13 DEF AuditBirth, Record, Done, BirthEvent
<1>14. CASE HardDeleteSnapshots
  BY <1>14 DEF HardDeleteSnapshots, Goto
<1>15. ASSUME NEW p \in Plans, NEW verdict \in Verdicts,
             EditStages(p, verdict)
      PROVE  (AtMostOneFork /\ ForkAwaited)'
  BY <1>15 DEF EditStages
<1>16. ASSUME NEW p \in Plans, NEW a \in Attributes,
             Reingest(p, a)
      PROVE  (AtMostOneFork /\ ForkAwaited)'
  BY <1>16 DEF Reingest
<1>17. ASSUME NEW p \in Plans, Freeze(p) PROVE (AtMostOneFork /\ ForkAwaited)'
  BY <1>17 DEF Freeze
<1>18. ASSUME NEW p \in Plans,
             Publish(p)
      PROVE  (AtMostOneFork /\ ForkAwaited)'
  BY <1>18 DEF Publish
<1>19. ASSUME NEW p \in Plans,
             ExposeCheck(p) \/ Unexpose(p)
      PROVE  (AtMostOneFork /\ ForkAwaited)'
  BY <1>19 DEF ExposeCheck, Unexpose
<1>20. CASE ExposeInsert
  BY <1>20 DEF ExposeInsert
<1>21. CASE CopySubstrate \/ OpenSession \/ LinkSession \/ UndoSession
  BY <1>21 DEF CopySubstrate, OpenSession, LinkSession, UndoSession, Goto
<1>22. CASE PromoteAudit \/ RollbackAudit \/ RevivalAudit \/ HardDeleteAudit
  BY <1>22
  DEF PromoteAudit, RollbackAudit, RevivalAudit, HardDeleteAudit, Record, Goto, Done
<1>23. CASE RollbackRefused \/ HardDeleteRefused
  BY <1>23 DEF RollbackRefused, HardDeleteRefused, Done
<1>24. CASE StatementFails \/ Crash
  BY <1>24 DEF StatementFails, Crash, Goto, Done, Compensated
<1>25. CASE UNCHANGED vars
  BY <1>25
<1> HIDE DEF vars, TypeOK
<1> QED
  BY Bounds,
     <1>1, <1>2, <1>3, <1>4, <1>5, <1>6, <1>7, <1>8, <1>9,
     <1>10, <1>11, <1>12, <1>13, <1>14, <1>15, <1>16, <1>17, <1>18,
     <1>19, <1>20, <1>21, <1>22, <1>23, <1>24, <1>25
  DEF Next, Begins, Continues, Edits, Serving, Faults

(* An operator has at most one open fork of a plan whose event was written. *)
THEOREM OneOpenFork == Spec => []OneOpenForkPerOperator
<1>1. Init => AtMostOneFork /\ ForkAwaited
  BY DEF Init, Idle, AtMostOneFork, ForkAwaited, Forked, OpenForks, BirthSteps
<1>2. AtMostOneFork => OneOpenForkPerOperator
  <2> SUFFICES ASSUME AtMostOneFork, NEW s \in Plans, NEW o \in Operators
               PROVE  Cardinality(OpenForks(s, o)) <= 1
    BY DEF OneOpenForkPerOperator
  <2>1. CASE OpenForks(s, o) = {}
    BY <2>1, FS_EmptySet
  <2>2. ASSUME NEW p \in OpenForks(s, o) PROVE Cardinality(OpenForks(s, o)) <= 1
    <3>1. OpenForks(s, o) = {p}
      BY <2>2 DEF AtMostOneFork
    <3>2. Cardinality({p}) = 1
      BY FS_Singleton
    <3> QED
      BY <3>1, <3>2
  <2> QED
    BY <2>1, <2>2
<1> QED
  BY <1>1, <1>2, TypeCorrect, Undisturbed, ForksStep, PTL DEF Spec

-----------------------------------------------------------------------------
(* Copies *)

(* How far the copy in flight is, in the order of duplicate_plan's try block. *)
CopyAsFar ==
  /\ req.at \in {"session", "link", "birth_audit"} => substrate[req.plan]
  /\ req.at = "birth_audit" => session[req.plan] = "linked"
  /\ req.at \in UndoSteps => failures >= 1

InFlight(p) == req.plan = p /\ req.at \in BirthSteps \cup UndoSteps

(* A copy is whole unless it is the one in flight, which is as far as the     *)
(* statement it has come to.                                                  *)
CopiesWhole ==
  crashes = 0 /\ failures <= 1 =>
    \A p \in Plans :
      origin[p].kind = "duplicate" =>
        IF InFlight(p) THEN CopyAsFar ELSE CopyWhole(p)

(* Where a copy is not in flight, no handler makes it less than whole. *)
LEMMA StaysWhole ==
  ASSUME CopiesWhole, crashes' = 0 => crashes = 0, failures' <= 1 => failures <= 1,
         \A p \in Plans : origin'[p].kind = "duplicate" =>
           IF InFlight(p)' THEN CopyAsFar'
           ELSE /\ origin[p].kind = "duplicate" /\ ~InFlight(p)
                /\ substrate'[p] = substrate[p] /\ session'[p] = session[p]
                /\ audit \subseteq audit'
  PROVE  CopiesWhole'
BY DEF CopiesWhole, CopyWhole, Recorded

LEMMA CopiesStep ==
  ASSUME "duplicate" \in Traced, TypeOK, CopiesWhole, [Next]_vars
  PROVE  CopiesWhole'
<1> USE DEF rows, seam, faults, history, vars
<1> DEFINE Quiet == /\ UNCHANGED <<substrate, session, faults>>
                    /\ audit \subseteq audit'
           Settled == req.at \notin BirthSteps \cup UndoSteps
<1>1. ASSUME NEW p \in Plans, NEW o \in Operators, NEW birth \in Births,
             NEW a, NEW from, NEW stages, NEW step \in {"substrate", "session"},
             NEW other,
             req = Idle, InsertPlan(p, a, from, stages, birth, o),
             Begin(step, p, other, o), birth = "duplicate" => step = "substrate"
      PROVE  CopiesWhole'
  <2>1. /\ origin' = [origin EXCEPT ![p] = [kind |-> birth, by |-> o]]
        /\ UNCHANGED <<substrate, session, audit, faults>>
    BY <1>1 DEF InsertPlan
  <2>2. req'.at = step /\ req'.plan = p
    BY <1>1 DEF Begin
  <2>3. ASSUME NEW q \in Plans, origin'[q].kind = "duplicate"
        PROVE  IF InFlight(q)' THEN CopyAsFar'
               ELSE origin[q].kind = "duplicate" /\ ~InFlight(q)
    <3>1. CASE q = p
      <4>1. origin'[q] = [kind |-> birth, by |-> o]
        BY <2>1, <3>1 DEF TypeOK
      <4>2. step = "substrate"
        BY <1>1, <2>3, <4>1
      <4>3. QED
        BY <2>2, <3>1, <4>2 DEF InFlight, CopyAsFar, BirthSteps, UndoSteps
    <3>2. CASE q # p
      BY <1>1, <2>1, <2>2, <2>3, <3>2 DEF InFlight, Idle, TypeOK, BirthSteps, UndoSteps
    <3>3. QED
      BY <3>1, <3>2
  <2>4. QED
    BY <2>1, <2>3, StaysWhole
<1>2. ASSUME Quiet, Settled, UNCHANGED origin, req'.at \notin BirthSteps \cup UndoSteps
      PROVE  CopiesWhole'
  BY <1>2, StaysWhole DEF InFlight
<1>3. ASSUME Quiet, UNCHANGED <<origin, req>> PROVE CopiesWhole'
  BY <1>3 DEF CopiesWhole, CopyWhole, CopyAsFar, InFlight, Recorded
<1>4. ASSUME NEW p \in Plans, NEW o \in Operators,
             \/ \E a \in Attributes : CreatePlan(p, a, o)
             \/ \E s \in Plans : ForkPlan(p, s, o) \/ DuplicatePlan(p, s, o)
      PROVE  CopiesWhole'
  <2>1. ASSUME NEW a \in Attributes, CreatePlan(p, a, o) PROVE CopiesWhole'
    BY <1>1, <2>1 DEF CreatePlan, Births
  <2>2. ASSUME NEW s \in Plans, ForkPlan(p, s, o) PROVE CopiesWhole'
    BY <1>1, <2>2 DEF ForkPlan, Births
  <2>3. ASSUME NEW s \in Plans, DuplicatePlan(p, s, o) PROVE CopiesWhole'
    BY <1>1, <2>3 DEF DuplicatePlan, Births
  <2>4. QED
    BY <1>4, <2>1, <2>2, <2>3
<1>5. ASSUME NEW p \in Plans, NEW o \in Operators,
             \/ \E q \in Plans : PromoteEvicting(p, q, o) \/ RollbackArchive(p, q, o)
             \/ PromoteIntoEmptySlot(p, o)
             \/ \E force \in BOOLEAN : HardDeleteCheck(p, o, force)
      PROVE  CopiesWhole'
  <2>1. Quiet /\ UNCHANGED origin
    BY <1>5 DEF PromoteEvicting, RollbackArchive, PromoteIntoEmptySlot, HardDeleteCheck
  <2>2. req = Idle /\ req'.at \in {"activate", "reactivate", "delete_audit"}
    BY <1>5 DEF PromoteEvicting, RollbackArchive, PromoteIntoEmptySlot,
                HardDeleteCheck, Begin
  <2>3. QED
    BY <1>2, <2>1, <2>2 DEF Idle, BirthSteps, UndoSteps
<1>6. ASSUME NEW p \in Plans, NEW o \in Operators, DiscardDraft(p, o)
      PROVE  CopiesWhole'
  BY <1>3, <1>6 DEF DiscardDraft, Record
<1>7. CASE Edits \/ Serving
  <2>1. Quiet /\ UNCHANGED <<origin, req>>
    BY <1>7 DEF Edits, Serving, EditStages, Reingest, Freeze, Publish, ExposeCheck,
                ExposeInsert, Unexpose
  <2>2. QED
    BY <1>3, <2>1
<1>8. ASSUME \/ PromoteActivate \/ PromoteAudit
             \/ RollbackActivate \/ RollbackRefused \/ RollbackAudit \/ RevivalAudit
             \/ HardDeleteAudit \/ HardDeleteSnapshots \/ HardDeleteRefused
      PROVE  CopiesWhole'
  <2>1. Quiet /\ UNCHANGED origin
    BY <1>8 DEF PromoteActivate, PromoteAudit, RollbackActivate, RollbackRefused,
                RollbackAudit, RevivalAudit, HardDeleteAudit, HardDeleteSnapshots,
                HardDeleteRefused, Record
  <2>2. /\ Settled
        /\ req'.at \in {"idle", "promote_audit", "rollback_audit", "revival_audit",
                        "delete_snapshots", "delete_row"}
    BY <1>8 DEF PromoteActivate, PromoteAudit, RollbackActivate, RollbackRefused,
                RollbackAudit, RevivalAudit, HardDeleteAudit, HardDeleteSnapshots,
                HardDeleteRefused, Goto, Done, Idle, BirthSteps, UndoSteps, TypeOK, Requests
  <2>3. QED
    BY <1>2, <2>1, <2>2 DEF BirthSteps, UndoSteps
<1>9. CASE UndoRow \/ HardDeleteRow
  <2>1. /\ origin' = [origin EXCEPT ![req.plan] = Unborn]
        /\ substrate' = [substrate EXCEPT ![req.plan] = FALSE]
        /\ session' = [session EXCEPT ![req.plan] = "none"]
        /\ req' = Idle /\ req.plan \in Plans
        /\ UNCHANGED <<audit, faults>>
    BY <1>9 DEF UndoRow, HardDeleteRow, RemoveRow, Done, TypeOK, Idle
  <2>2. Unborn.kind # "duplicate" /\ Idle.at \notin BirthSteps \cup UndoSteps
    BY DEF Unborn, Idle, BirthSteps, UndoSteps
  <2>3. ASSUME NEW q \in Plans, origin'[q].kind = "duplicate"
        PROVE  /\ ~InFlight(q)' /\ origin[q].kind = "duplicate" /\ ~InFlight(q)
               /\ substrate'[q] = substrate[q] /\ session'[q] = session[q]
    BY <2>1, <2>2, <2>3 DEF InFlight, TypeOK
  <2>4. QED
    BY <2>1, <2>3, StaysWhole
<1>10. CASE CopySubstrate \/ OpenSession \/ LinkSession \/ UndoSession
  <2>1. /\ UNCHANGED <<audit, origin, faults>> /\ req.plan \in Plans /\ req'.plan = req.plan
        /\ req.at \in BirthSteps \cup UndoSteps /\ req'.at \in BirthSteps \cup UndoSteps
        /\ \A q \in Plans \ {req.plan} : substrate'[q] = substrate[q] /\ session'[q] = session[q]
    BY <1>10 DEF CopySubstrate, OpenSession, LinkSession, UndoSession, Goto, TypeOK, Idle,
                 Requests, BirthSteps, UndoSteps
  <2>2. CopyAsFar => CopyAsFar'
    BY <1>10 DEF CopySubstrate, OpenSession, LinkSession, UndoSession, Goto, TypeOK, Idle,
                 Requests, CopyAsFar, UndoSteps
  <2>3. QED
    BY <2>1, <2>2 DEF CopiesWhole, CopyWhole, InFlight, Recorded
<1>11. CASE AuditBirth
  <2>1. /\ req.at = "birth_audit" /\ req.plan \in Plans /\ req.by \in Operators
        /\ req' = Idle /\ UNCHANGED <<rows, faults, history>> /\ audit \subseteq audit'
    BY <1>11 DEF AuditBirth, Record, Done, TypeOK, Idle
  <2>2. PICK p \in Plans : p = req.plan
    BY <2>1
  <2>3. ASSUME origin[p].kind = "duplicate" PROVE Recorded(p, "duplicate")'
    <3>1. audit' = audit \cup {[plan |-> p, kind |-> "duplicate", by |-> req.by]}
      BY <1>11, <2>2, <2>3 DEF AuditBirth, Record, BirthEvent
    <3>2. QED
      BY <2>1, <3>1 DEF Recorded
  <2>4. \A q \in Plans : ~InFlight(q)'
    BY <2>1 DEF InFlight, Idle, BirthSteps, UndoSteps
  <2>5. ASSUME NEW q \in Plans, origin[q].kind = "duplicate", crashes = 0, failures <= 1
        PROVE  CopyWhole(q)'
    <3>1. CASE q = p
      <4>1. InFlight(q) /\ CopyAsFar
        BY <2>1, <2>2, <2>5, <3>1 DEF InFlight, BirthSteps, CopiesWhole
      <4>2. substrate[q] /\ session[q] = "linked"
        BY <2>1, <2>2, <3>1, <4>1 DEF CopyAsFar
      <4>3. Recorded(q, "duplicate")'
        BY <2>3, <2>5, <3>1
      <4>4. QED
        BY <2>1, <4>2, <4>3 DEF CopyWhole
    <3>2. CASE q # p
      <4>1. CopyWhole(q)
        BY <2>2, <2>5, <3>2 DEF InFlight, CopiesWhole
      <4>2. QED
        BY <2>1, <4>1 DEF CopyWhole, Recorded
    <3>3. QED
      BY <3>1, <3>2
  <2>6. QED
    BY <2>1, <2>4, <2>5 DEF CopiesWhole
<1>12. CASE StatementFails
  <2>1. /\ failures' = failures + 1 /\ failures \in Nat /\ req # Idle
        /\ UNCHANGED <<substrate, session, audit, origin, crashes>>
    BY <1>12, FaultBounds DEF StatementFails, TypeOK
  <2>2. CASE Compensated /\ Goto("undo_session")
    <3>1. /\ req.at \in BirthSteps /\ req'.at = "undo_session" /\ req'.plan = req.plan
      BY <2>2 DEF Compensated, Goto, TypeOK, Requests
    <3>2. CopyAsFar' /\ \A q \in Plans : InFlight(q)' => InFlight(q)
      BY <2>1, <3>1 DEF CopyAsFar, InFlight
    <3>3. \A q \in Plans : InFlight(q) => InFlight(q)'
      BY <3>1 DEF InFlight, UndoSteps
    <3>4. \A q \in Plans : CopyWhole(q) => CopyWhole(q)'
      BY <2>1 DEF CopyWhole, Recorded
    <3>5. QED
      BY <2>1, <3>2, <3>3, <3>4 DEF CopiesWhole
  <2>3. CASE ~Compensated /\ Done
    <3>1. \A q \in Plans : ~InFlight(q)'
      BY <2>3 DEF Done, Idle, InFlight, BirthSteps, UndoSteps
    <3>2. ASSUME NEW q \in Plans, InFlight(q), origin[q].kind = "duplicate", crashes = 0,
                 failures + 1 <= 1
          PROVE  FALSE
      <4>1. req.at \in UndoSteps
        BY <2>3, <3>2 DEF InFlight, Compensated
      <4>2. CopyAsFar
        BY <2>1, <3>2 DEF CopiesWhole
      <4>3. QED
        BY <2>1, <3>2, <4>1, <4>2 DEF CopyAsFar
    <3>3. \A q \in Plans : CopyWhole(q) => CopyWhole(q)'
      BY <2>1 DEF CopyWhole, Recorded
    <3>4. ASSUME crashes = 0, failures + 1 <= 1, NEW q \in Plans,
                 origin[q].kind = "duplicate"
          PROVE  CopyWhole(q)
      BY <2>1, <3>2, <3>4 DEF CopiesWhole
    <3>5. QED
      BY <2>1, <3>1, <3>3, <3>4 DEF CopiesWhole
  <2>4. QED
    BY <1>12, <2>2, <2>3 DEF StatementFails
<1>13. CASE Crash
  BY <1>13, FaultBounds DEF Crash, CopiesWhole, TypeOK
<1>14. CASE UNCHANGED vars
  BY <1>3, <1>14
<1> QED
  BY <1>4, <1>5, <1>6, <1>7, <1>8, <1>9, <1>10, <1>11, <1>12, <1>13, <1>14
     DEF Next, Begins, Continues, Faults

(* duplicate_plan leaves a whole copy or no row, whatever other requests do   *)
(* beside it, if no more than one statement fails and the process stays up.   *)
(* The events of duplicates are among those the model keeps.                  *)
THEOREM CopiesAreWhole ==
  ASSUME "duplicate" \in Traced
  PROVE  Spec => []NeverHalfBuilds
<1>1. Init => CopiesWhole
  BY DEF Init, CopiesWhole, Unborn
<1>2. TypeOK /\ CopiesWhole /\ [Next]_vars => CopiesWhole'
  BY CopiesStep
<1>3. CopiesWhole => NeverHalfBuilds
  BY DEF CopiesWhole, NeverHalfBuilds, InFlight, Idle, BirthSteps, UndoSteps
<1>4. QED
  BY <1>1, <1>2, <1>3, TypeCorrect, PTL DEF Spec
=============================================================================
