---------------------------- MODULE TowerAutosave ----------------------------
(***************************************************************************)
(* The Assemble pane: the calculation tower a user edits, its autosave as  *)
(* a row of requests against the stages of the draft, the refetches each   *)
(* of them sets off, and the guard that decides when what the server has   *)
(* replaces what the user sees.  Others write the same stages meanwhile.   *)
(***************************************************************************)
EXTENDS Naturals, Sequences

CONSTANTS
  MaxChain,    \* bound: contents the chain is ever given, by anybody
  Minting,     \* those that name an input field the dictionary may not have
  MaxSaves,    \* bound: saves under way
  MaxTrips,    \* bound: times the pane is left, a version frozen, the plan refetched for other reasons
  MaxFaults,   \* bound: requests or answers that are lost
  MaxRetries   \* ASSEMBLE_MAX_AUTO_RETRIES

ASSUME ChainBound == MaxChain \in Nat \ {0} /\ Minting \subseteq 1 .. MaxChain
ASSUME SaveBounds == MaxSaves \in Nat /\ MaxTrips \in Nat /\ MaxFaults \in Nat
ASSUME SomeRetry == MaxRetries \in Nat \ {0}

VARIABLES
  server,      \* plan_stages: the chain stage and whether the field's input_node is there
  base,        \* the plan detail in the query cache, which the pane is drawn from
  edited,      \* editedPlan
  dispatched,  \* dispatchedSigRef: {} or what the latest save carried
  saves,       \* calls of handleSaveAssembleStages that have not returned
  saving,      \* isSavingAssemble
  streak,      \* saveFailures
  get,         \* the refetch of the plan detail
  pane,        \* whether the pane is mounted
  mounts,      \* times the pane was mounted anew: which instance is, or was last
  freeze,      \* handleFreezeConfirm
  fresh,       \* the next content somebody makes
  landed,      \* history: contents the server has had
  spoilt,      \* history: contents a failed save carried
  foreign,     \* history: others wrote since the cache last read the server
  trips, faults

towerVars == <<server, base, edited, dispatched, saves, saving, streak, get,
               pane, mounts, freeze, fresh, landed, spoilt, foreign, trips, faults>>

-----------------------------------------------------------------------------
(* Contents are numbered as they are made; 0 is no chain stage. *)
NoChain == 0
Chains == 0 .. MaxChain
Stages == [chain : Chains, input : BOOLEAN]

Ops == {"input", "add", "patch", "remove"}
Saves == [desired : Stages, todo : Seq(Ops), awaited : BOOLEAN, by : Nat,
          verdict : {"sent", "done", "refused"}]

NoGet == [at |-> "none", stages |-> [chain |-> NoChain, input |-> FALSE]]
NotFreezing == [at |-> "idle", owed |-> {}]

TypeOK ==
  /\ server \in Stages /\ base \in Stages
  /\ edited \in Chains
  /\ dispatched \in {{}} \cup {{s} : s \in Stages}
  /\ saves \in Seq(Saves)
  /\ saving \in BOOLEAN
  /\ streak \in Nat
  /\ get \in [at : {"none", "asked", "read"}, stages : Stages]
  /\ pane \in BOOLEAN
  /\ mounts \in Nat
  /\ freeze \in [at : {"idle", "flushing", "composing"}, owed : SUBSET Chains]
  /\ fresh \in 1 .. MaxChain + 1
  /\ landed \subseteq Chains /\ spoilt \subseteq Chains
  /\ foreign \in BOOLEAN
  /\ trips \in 0 .. MaxTrips
  /\ faults \in 0 .. MaxFaults

Init ==
  /\ \E chain \in {NoChain, 1} :
       /\ server = [chain |-> chain, input |-> chain \in Minting]
       /\ base = server
       /\ edited = chain
       /\ landed = {chain}
  /\ dispatched = {}
  /\ saves = << >>
  /\ saving = FALSE
  /\ streak = 0
  /\ get = NoGet
  /\ pane = TRUE
  /\ mounts = 0
  /\ freeze = NotFreezing
  /\ fresh = 2
  /\ spoilt = {}
  /\ foreign = FALSE
  /\ trips = 0
  /\ faults = 0

-----------------------------------------------------------------------------
(* The pane *)

(* towerPlanToStages: the edited chain over the cached dictionary, and the  *)
(* input_node the chain needs if the dictionary lacks it.                   *)
Projection(chain, stages) ==
  [chain |-> chain, input |-> stages.input \/ chain \in Minting]

Dirty == Projection(edited, base) # base

(* Mutant: what the server has always replaces what the user sees. *)
AlwaysAdopted(stages) == stages.chain

(* The adoption guard, run when a changed cache is drawn: what the server   *)
(* has replaces what the user sees if that is in step with it, or is just   *)
(* what the latest save carried.                                            *)
Adopted(stages) ==
  LET current == Projection(edited, stages)
  IN IF stages # base /\ (current = stages \/ current \in dispatched)
     THEN stages.chain ELSE edited

(* A new answer in the query cache. *)
Cache(stages) ==
  /\ base' = stages
  /\ edited' = IF pane THEN Adopted(stages) ELSE edited

-----------------------------------------------------------------------------
(* handleSaveAssemble and handleSaveAssembleStages *)

(* The requests, in their order, that turn stages into desired. *)
Diff(desired, stages) ==
  (IF desired.input /\ ~stages.input THEN <<"input">> ELSE << >>) \o
  CASE desired.chain = stages.chain -> << >>
    [] stages.chain = NoChain /\ desired.chain # NoChain -> <<"add">>
    [] stages.chain # NoChain /\ desired.chain = NoChain -> <<"remove">>
    [] OTHER -> <<"patch">>

(* A save carries what is projected now, against the cache it was drawn from, *)
(* and belongs to the instance of the pane that began it.                     *)
StartSave(awaited) ==
  LET desired == Projection(edited, base)
  IN /\ Len(saves) < MaxSaves
     /\ dispatched' = {desired}
     /\ saving' = TRUE
     /\ saves' = Append(saves,
                        [desired |-> desired, todo |-> Diff(desired, base),
                         awaited |-> awaited, by |-> mounts, verdict |-> "sent"])

(* The effect waits while a save runs, and gives up after a streak. *)
Autosave ==
  /\ pane
  /\ Dirty /\ ~saving
  /\ streak < MaxRetries
  /\ StartSave(FALSE)
  /\ UNCHANGED <<server, base, edited, streak, get, pane, mounts, freeze, fresh,
                 landed, spoilt, foreign, trips, faults>>

AtWork == pane /\ freeze.at = "idle"

Edit ==
  /\ AtWork
  /\ fresh <= MaxChain
  /\ edited' \in {fresh, NoChain} \ {edited}
  /\ fresh' = fresh + 1
  /\ UNCHANGED <<server, base, dispatched, saves, saving, streak, get, pane,
                 mounts, freeze, landed, spoilt, foreign, trips, faults>>

(* Another workspace of the plan: the unmounted pane saves what is dirty. *)
Leave ==
  /\ AtWork
  /\ trips < MaxTrips
  /\ trips' = trips + 1
  /\ pane' = FALSE
  /\ IF Dirty THEN StartSave(FALSE) ELSE UNCHANGED <<dispatched, saving, saves>>
  /\ UNCHANGED <<server, base, edited, streak, get, mounts, freeze, fresh,
                 landed, spoilt, foreign, faults>>

Return ==
  /\ ~pane
  /\ pane' = TRUE
  /\ edited' = base.chain
  /\ dispatched' = {}
  /\ streak' = 0
  /\ mounts' = mounts + 1
  /\ UNCHANGED <<server, base, saves, saving, get, freeze, fresh, landed,
                 spoilt, foreign, trips, faults>>

-----------------------------------------------------------------------------
(* The server, one request at a time, and the others who write to it *)

(* A stage that is there cannot be added, one that is not cannot be patched *)
(* or removed.                                                              *)
Accepts(op) ==
  CASE op = "input" -> ~server.input
    [] op = "add"   -> server.chain = NoChain
    [] OTHER        -> server.chain # NoChain

Serve(i) ==
  LET s  == saves[i]
      op == Head(s.todo)
  IN /\ s.verdict = "sent"
     /\ IF Accepts(op)
        THEN /\ server' = IF op = "input" THEN [server EXCEPT !.input = TRUE]
                          ELSE [server EXCEPT !.chain = s.desired.chain]
             /\ landed' = landed \cup {server'.chain}
             /\ saves' = [saves EXCEPT ![i].verdict = "done"]
        ELSE /\ saves' = [saves EXCEPT ![i].verdict = "refused"]
             /\ UNCHANGED <<server, landed>>
     /\ UNCHANGED <<base, edited, dispatched, saving, streak, get, pane, mounts,
                    freeze, fresh, spoilt, foreign, trips, faults>>

(* Another tab, the authoring tools of a chat, or the queue of declared     *)
(* inputs.                                                                  *)
OthersWrite ==
  /\ \/ /\ fresh <= MaxChain
        /\ server' = Projection(fresh, server)
        /\ fresh' = fresh + 1
        /\ landed' = landed \cup {fresh}
     \/ /\ ~server.input
        /\ server' = [server EXCEPT !.input = TRUE]
        /\ UNCHANGED <<fresh, landed>>
  /\ foreign' = TRUE
  /\ UNCHANGED <<base, edited, dispatched, saves, saving, streak, get, pane,
                 mounts, freeze, spoilt, trips, faults>>

(* The network comes back, or a sibling's mutation invalidates the plan. *)
Refetch ==
  /\ get.at = "none"
  /\ trips < MaxTrips
  /\ trips' = trips + 1
  /\ get' = [NoGet EXCEPT !.at = "asked"]
  /\ UNCHANGED <<server, base, edited, dispatched, saves, saving, streak, pane,
                 mounts, freeze, fresh, landed, spoilt, foreign, faults>>

Read ==
  /\ get.at = "asked"
  /\ get' = [at |-> "read", stages |-> server]
  /\ foreign' = FALSE
  /\ UNCHANGED <<server, base, edited, dispatched, saves, saving, streak, pane,
                 mounts, freeze, fresh, landed, spoilt, trips, faults>>

Deliver ==
  /\ get.at = "read"
  /\ get' = NoGet
  /\ Cache(get.stages)
  /\ UNCHANGED <<server, dispatched, saves, saving, streak, pane, mounts,
                 freeze, fresh, landed, spoilt, foreign, trips, faults>>

-----------------------------------------------------------------------------
(* The answers to a save *)

(* saveFailures is the pane's own: what an instance that is gone sets is lost, *)
(* while the route's isSavingAssemble and the query cache outlive it.          *)
Counts(s) == pane /\ s.by = mounts

Without(i) == SubSeq(saves, 1, i - 1) \o SubSeq(saves, i + 1, Len(saves))

(* Mutant: a refetch under way is left to answer. *)
AnswerKeepsRefetch(i) ==
  LET s == saves[i] IN
  /\ s.verdict = "done"
  /\ get' = IF get.at = "none" THEN [NoGet EXCEPT !.at = "asked"] ELSE get
  /\ IF Len(s.todo) > 1
     THEN /\ saves' = [saves EXCEPT ![i].todo = Tail(@), ![i].verdict = "sent"]
          /\ UNCHANGED <<base, edited, saving, streak>>
     ELSE /\ saves' = Without(i)
          /\ saving' = FALSE
          /\ streak' = IF Counts(s) THEN 0 ELSE streak
          /\ Cache(s.desired)
  /\ UNCHANGED <<server, dispatched, pane, mounts, freeze, fresh, landed,
                 spoilt, foreign, trips, faults>>

(* Each mutation that succeeds invalidates the plan, which cancels a        *)
(* refetch under way and asks anew; the last one also writes what was       *)
(* desired into the cache and ends the streak.                              *)
Answer(i) ==
  LET s == saves[i] IN
  /\ s.verdict = "done"
  /\ get' = [NoGet EXCEPT !.at = "asked"]
  /\ IF Len(s.todo) > 1
     THEN /\ saves' = [saves EXCEPT ![i].todo = Tail(@), ![i].verdict = "sent"]
          /\ UNCHANGED <<base, edited, saving, streak>>
     ELSE /\ saves' = Without(i)
          /\ saving' = FALSE
          /\ streak' = IF Counts(s) THEN 0 ELSE streak
          /\ Cache(s.desired)
  /\ UNCHANGED <<server, dispatched, pane, mounts, freeze, fresh, landed,
                 spoilt, foreign, trips, faults>>

(* Mutant: no finally block, so a save that failed still counts as running. *)
GiveUpStillSaving(i) ==
  /\ saves' = Without(i)
  /\ streak' = IF Counts(saves[i]) /\ streak < MaxRetries THEN streak + 1
               ELSE streak
  /\ spoilt' = spoilt \cup {saves[i].desired.chain}
  /\ UNCHANGED saving

(* A save that fails leaves its other requests unsent; handleSaveAssemble   *)
(* counts the failure and returns as if all were well.                      *)
GiveUp(i) ==
  /\ saves' = Without(i)
  /\ saving' = FALSE
  /\ streak' = IF Counts(saves[i]) /\ streak < MaxRetries THEN streak + 1
               ELSE streak
  /\ spoilt' = spoilt \cup {saves[i].desired.chain}

Refused(i) ==
  /\ saves[i].verdict = "refused"
  /\ GiveUp(i)
  /\ UNCHANGED <<server, base, edited, dispatched, get, pane, mounts, freeze,
                 fresh, landed, foreign, trips, faults>>

(* The request is lost on its way, or its answer is. *)
Lose(i) ==
  /\ faults < MaxFaults
  /\ saves[i].verdict # "refused"
  /\ GiveUp(i)
  /\ faults' = faults + 1
  /\ UNCHANGED <<server, base, edited, dispatched, get, pane, mounts, freeze,
                 fresh, landed, foreign, trips>>

-----------------------------------------------------------------------------
(* handleFreezeConfirm, as far as the tower's flush goes *)

ClickFreeze ==
  /\ AtWork
  /\ trips < MaxTrips
  /\ trips' = trips + 1
  /\ IF Dirty
     THEN StartSave(TRUE) /\ freeze' = [at |-> "flushing", owed |-> {edited}]
     ELSE /\ freeze' = [at |-> "flushing", owed |-> {}]
          /\ UNCHANGED <<dispatched, saving, saves>>
  /\ UNCHANGED <<server, base, edited, streak, get, pane, mounts, fresh, landed,
                 spoilt, foreign, faults>>

PostFreeze ==
  /\ freeze.at = "flushing"
  /\ \A i \in 1 .. Len(saves) : ~saves[i].awaited
  /\ freeze' = [freeze EXCEPT !.at = "composing"]
  /\ UNCHANGED <<server, base, edited, dispatched, saves, saving, streak, get,
                 pane, mounts, fresh, landed, spoilt, foreign, trips, faults>>

Compose ==
  /\ freeze.at = "composing"
  /\ freeze' = NotFreezing
  /\ UNCHANGED <<server, base, edited, dispatched, saves, saving, streak, get,
                 pane, mounts, fresh, landed, spoilt, foreign, trips, faults>>

-----------------------------------------------------------------------------
Request(i) == Serve(i) \/ Answer(i) \/ Refused(i)

Next ==
  \/ Edit \/ Leave \/ Return \/ ClickFreeze
  \/ Autosave \/ PostFreeze \/ Compose
  \/ OthersWrite \/ Refetch \/ Read \/ Deliver
  \/ \E i \in 1 .. Len(saves) : Request(i) \/ Lose(i)

Spec == Init /\ [][Next]_towerVars

(* Timers fire, requests are answered, the freeze goes on; the user, the    *)
(* others and the network owe nothing.                                      *)
Fairness ==
  /\ WF_towerVars(Autosave)
  /\ WF_towerVars(Read) /\ WF_towerVars(Deliver)
  /\ \A i \in 1 .. MaxSaves : WF_towerVars(i <= Len(saves) /\ Request(i))
  /\ WF_towerVars(PostFreeze) /\ WF_towerVars(Compose)

FairSpec == Spec /\ Fairness

-----------------------------------------------------------------------------
(* The properties *)

(* A content the server has had, or that a save carries or carried in vain. *)
Tried(n) ==
  n \in landed \cup spoilt \cup {saves[i].desired.chain : i \in 1 .. Len(saves)}

(* What an adoption takes off the screen is an edit the server has had, or   *)
(* one that a save carries or carried in vain: never an edit made since the  *)
(* latest save was sent.                                                     *)
NothingUnsentIsDropped ==
  [][edited' # edited /\ base' # base => Tried(edited)]_towerVars

(* "All changes saved" is true: with no request under way, and unless others *)
(* wrote or an answer was lost, a tower that is not dirty is what the server *)
(* has.                                                                      *)
PillIsHonest ==
  pane /\ ~Dirty /\ saves = << >> /\ get.at = "none" /\ ~foreign /\ faults = 0
    => server.chain = edited

(* The SavePill of the page. *)
Pill == IF streak > 0 /\ ~saving THEN "error"
        ELSE IF saving \/ Dirty THEN "saving" ELSE "saved"

(* A dirty tower never rests on a permanent "Saving..." (PlanDetailRoute.tsx  *)
(* :4787): it is saved or replaced, or the pane is left, or the retries are   *)
(* used up and the pill shows an error.  At the cap the effect sends nothing  *)
(* more, later edits included, although :4840 promises a "natural manual      *)
(* retry"; and the error reads "Save failed - retrying" (:5612).              *)
DirtySettles ==
  pane /\ Dirty ~> ~pane \/ ~Dirty \/ (streak >= MaxRetries /\ Pill = "error")

(* PlanDetailRoute.tsx:4912 "the save rethrows on failure (G23), which ABORTS *)
(* the freeze": what is composed was never without the edit the flush owed.   *)
FreezeAbortsUnsaved ==
  freeze.at = "composing" => freeze.owed \subseteq landed
=============================================================================
