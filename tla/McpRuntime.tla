----------------------------- MODULE McpRuntime -----------------------------
(***************************************************************************)
(* The supervisor of the MCP launcher in managed mode: tool calls share    *)
(* one engine and its scoring sidecar, spawned on the first call and again *)
(* when the engine has died; the doctor respawns a dead sidecar.  Node is  *)
(* single-threaded, but every await lets another call run, and children    *)
(* die when they like.                                                     *)
(***************************************************************************)
EXTENDS Naturals, FiniteSets

CONSTANTS
  Tools,      \* calls of run(), each made once
  Doctors,    \* calls of runtimeStatus(), each made once
  MaxBoots,   \* bound: calls of boot()
  MaxDeaths   \* bound: children that die, health checks that time out, and
              \* boots that throw before their pair is hooked

Calls == Tools \cup Doctors
Boots == 1 .. MaxBoots

ASSUME DisjointCalls == Tools \cap Doctors = {} /\ Calls \cap Boots = {}
ASSUME BootBounds == MaxBoots \in Nat /\ MaxDeaths \in Nat

VARIABLES
  host,      \* the launcher process
  boot,      \* how far each boot() has come
  engine,    \* the server child of each boot
  sidecar,   \* scoring children: one of each boot, one of each doctor's retry
  scoring,   \* Managed.scoring: which of them the boot's pair holds
  healthy,   \* Managed.scoringHealthy
  managed,   \* the module's promise: 0 (null), or the boot it is of
  config,    \* whose port config.baseUrl names, 0 before the first apply
  call,      \* where each call stands, and the boot it awaits
  killers,   \* the pair the latest installExitHooks closed over
  hooked,    \* the pairs an exit handler kills
  crossed,   \* history: a call came while another was under way
  deaths

runtimeVars == <<host, boot, engine, sidecar, scoring, healthy, managed, config,
                 call, killers, hooked, crossed, deaths>>

-----------------------------------------------------------------------------
Life == {"none", "starting", "live", "dead"}
Alive(state) == state \in {"starting", "live"}

(* An engine and a sidecar, as killed together. *)
Pairs == [server : Boots, scoring : Boots \cup Calls]

TypeOK ==
  /\ host \in {"up", "gone"}
  /\ boot \in [Boots -> {"none", "ports", "engine", "scoring", "up", "failed", "thrown"}]
  /\ engine \in [Boots -> Life]
  /\ sidecar \in [Boots \cup Calls -> Life]
  /\ scoring \in [Boots -> Boots \cup Calls]
  /\ healthy \in [Boots -> BOOLEAN]
  /\ managed \in 0 .. MaxBoots
  /\ config \in 0 .. MaxBoots
  /\ call \in [Calls -> [at : {"idle", "reuse", "boot", "look", "probe", "over"},
                         on : 0 .. MaxBoots]]
  /\ killers \in SUBSET Pairs
  /\ hooked \in SUBSET Pairs
  /\ crossed \in BOOLEAN
  /\ deaths \in 0 .. MaxDeaths

Init ==
  /\ host = "up"
  /\ boot = [b \in Boots |-> "none"]
  /\ engine = [b \in Boots |-> "none"]
  /\ sidecar = [k \in Boots \cup Calls |-> "none"]
  /\ scoring = [b \in Boots |-> b]
  /\ healthy = [b \in Boots |-> FALSE]
  /\ managed = 0
  /\ config = 0
  /\ call = [c \in Calls |-> [at |-> "idle", on |-> 0]]
  /\ killers = {}
  /\ hooked = {}
  /\ crossed = FALSE
  /\ deaths = 0

-----------------------------------------------------------------------------
(* Children *)

Killed(state) == IF Alive(state) THEN "dead" ELSE state

(* Mutant: only the pair spawned last dies with the process. *)
HooksOnlyTheLast(b, k) ==
  /\ killers' = {[server |-> b, scoring |-> k]}
  /\ hooked' = {[server |-> b, scoring |-> k]}

(* installExitHooks: the process keeps every handler, the module the last. *)
InstallExitHooks(b, k) ==
  /\ killers' = {[server |-> b, scoring |-> k]}
  /\ hooked' = hooked \cup {[server |-> b, scoring |-> k]}

(* The sidecars spawned for a boot share its scoring port. *)
OfBoot(b) == {b} \cup {c \in Doctors : call[c].on = b}
Serves(b) == \E k \in OfBoot(b) : sidecar[k] = "live"

EngineListens(b) ==
  /\ engine[b] = "starting"
  /\ engine' = [engine EXCEPT ![b] = "live"]
  /\ UNCHANGED <<host, boot, sidecar, scoring, healthy, managed, config, call,
                 killers, hooked, crossed, deaths>>

(* A sidecar that finds the port taken exits. *)
SidecarListens(b, k) ==
  /\ k \in OfBoot(b) /\ sidecar[k] = "starting"
  /\ sidecar' = [sidecar EXCEPT ![k] = IF Serves(b) THEN "dead" ELSE "live"]
  /\ UNCHANGED <<host, boot, engine, scoring, healthy, managed, config, call,
                 killers, hooked, crossed, deaths>>

Die ==
  /\ deaths < MaxDeaths
  /\ deaths' = deaths + 1
  /\ \/ \E b \in Boots : /\ Alive(engine[b])
                         /\ engine' = [engine EXCEPT ![b] = "dead"]
                         /\ UNCHANGED sidecar
     \/ \E k \in Boots \cup Calls : /\ Alive(sidecar[k])
                                    /\ sidecar' = [sidecar EXCEPT ![k] = "dead"]
                                    /\ UNCHANGED engine
  /\ UNCHANGED <<host, boot, scoring, healthy, managed, config, call, killers,
                 hooked, crossed>>

-----------------------------------------------------------------------------
(* boot *)

(* The boot waits for its ports; what is awaited is managed. *)
StartBoot(c, sidecars) ==
  \E b \in Boots :
    /\ boot[b] = "none" /\ \A a \in Boots : a < b => boot[a] # "none"
    /\ boot' = [boot EXCEPT ![b] = "ports"]
    /\ sidecar' = sidecars
    /\ managed' = b
    /\ call' = [call EXCEPT ![c] = [at |-> "boot", on |-> b]]
    /\ UNCHANGED <<engine, killers, hooked>>

(* Sidecar and engine are spawned, then hooked.  A spawn that fails later,  *)
(* in its 'error' event, is a child that dies before it listens.            *)
SpawnPair(b) ==
  /\ boot[b] = "ports"
  /\ boot' = [boot EXCEPT ![b] = "engine"]
  /\ engine' = [engine EXCEPT ![b] = "starting"]
  /\ sidecar' = [sidecar EXCEPT ![b] = "starting"]
  /\ InstallExitHooks(b, b)
  /\ UNCHANGED <<host, scoring, healthy, managed, config, call, crossed, deaths>>

(* boot throws on the way to its hooks: before it spawns anything (no port, *)
(* no directory, no sidecar), or behind a sidecar it spawned (no server     *)
(* command, or an engine that spawn itself refuses).  Nothing is killed;    *)
(* the catch behind boot forgets whatever managed is by now.                *)
SpawnThrows(b) ==
  /\ boot[b] = "ports"
  /\ deaths < MaxDeaths /\ deaths' = deaths + 1
  /\ boot' = [boot EXCEPT ![b] = "thrown"]
  /\ \/ UNCHANGED sidecar
     \/ sidecar' = [sidecar EXCEPT ![b] = "starting"]
  /\ managed' = 0
  /\ UNCHANGED <<host, engine, scoring, healthy, config, call, killers, hooked, crossed>>

EngineHealthy(b) ==
  /\ boot[b] = "engine" /\ engine[b] = "live"
  /\ boot' = [boot EXCEPT ![b] = "scoring"]
  /\ UNCHANGED <<host, engine, sidecar, scoring, healthy, managed, config, call,
                 killers, hooked, crossed, deaths>>

(* Exited, or 45 seconds are over, which is counted as a death. *)
GivenUp(state) ==
  \/ state = "dead" /\ UNCHANGED deaths
  \/ state = "starting" /\ deaths < MaxDeaths /\ deaths' = deaths + 1

(* Mutant: a boot that failed leaves its pair behind. *)
EngineFailsUnkilled(b) ==
  /\ boot[b] = "engine" /\ GivenUp(engine[b])
  /\ boot' = [boot EXCEPT ![b] = "failed"]
  /\ managed' = 0
  /\ UNCHANGED <<host, engine, sidecar, scoring, healthy, config, call, killers,
                 hooked, crossed>>

(* The failure is fatal: killers kills its pair, and the catch behind boot  *)
(* forgets whatever managed is by now.                                      *)
EngineFails(b) ==
  /\ boot[b] = "engine" /\ GivenUp(engine[b])
  /\ boot' = [boot EXCEPT ![b] = "failed"]
  /\ engine' = [a \in Boots |-> IF \E p \in killers : p.server = a
                                THEN Killed(engine[a]) ELSE engine[a]]
  /\ sidecar' = [k \in Boots \cup Calls |-> IF \E p \in killers : p.scoring = k
                                            THEN Killed(sidecar[k]) ELSE sidecar[k]]
  /\ managed' = 0
  /\ UNCHANGED <<host, scoring, healthy, config, call, killers, hooked, crossed>>

ScoringHealthy(b) ==
  /\ boot[b] = "scoring" /\ sidecar[b] = "live"
  /\ boot' = [boot EXCEPT ![b] = "up"]
  /\ healthy' = [healthy EXCEPT ![b] = TRUE]
  /\ UNCHANGED <<host, engine, sidecar, scoring, managed, config, call, killers,
                 hooked, crossed, deaths>>

(* The boot degrades. *)
ScoringFails(b) ==
  /\ boot[b] = "scoring" /\ GivenUp(sidecar[b])
  /\ boot' = [boot EXCEPT ![b] = "up"]
  /\ sidecar' = [sidecar EXCEPT ![b] = Killed(@)]
  /\ UNCHANGED <<host, engine, scoring, healthy, managed, config, call, killers,
                 hooked, crossed>>

-----------------------------------------------------------------------------
(* ensureRuntime *)

UnderWay == {c \in Calls : call[c].at \notin {"idle", "over"}}
Moves(c, at, b) == call' = [call EXCEPT ![c] = [at |-> at, on |-> b]]

Enter(c) ==
  /\ host = "up"
  /\ call[c].at = "idle"
  /\ crossed' = (crossed \/ UnderWay # {})
  /\ \/ /\ managed # 0
        /\ Moves(c, IF c \in Tools THEN "reuse" ELSE "look", managed)
        /\ UNCHANGED <<boot, engine, sidecar, managed, killers, hooked>>
     \/ /\ managed = 0
        /\ StartBoot(c, sidecar)
  /\ UNCHANGED <<host, scoring, healthy, config, deaths>>

(* The await is over and the engine lives: it is reused. *)
Reuse(c) ==
  LET b == call[c].on IN
  /\ call[c].at = "reuse" /\ boot[b] = "up" /\ Alive(engine[b])
  /\ healthy' = [healthy EXCEPT ![b] = @ /\ Alive(sidecar[scoring[b]])]
  /\ config' = b
  /\ Moves(c, "over", b)
  /\ UNCHANGED <<host, boot, engine, sidecar, scoring, managed, killers, hooked,
                 crossed, deaths>>

(* It is over and the engine is dead: the pair is killed and another        *)
(* booted, whatever managed is by now.                                      *)
Respawn(c) ==
  LET b == call[c].on IN
  /\ host = "up"
  /\ call[c].at = "reuse" /\ boot[b] = "up" /\ ~Alive(engine[b])
  /\ StartBoot(c, [sidecar EXCEPT ![scoring[b]] = Killed(@)])
  /\ UNCHANGED <<host, scoring, healthy, config, crossed, deaths>>

(* The call that booted does not look at the engine again; a doctor goes on *)
(* with whatever managed is by now.                                         *)
Booted(c) ==
  LET b == call[c].on IN
  /\ call[c].at = "boot" /\ boot[b] = "up"
  /\ config' = b
  /\ IF c \in Doctors /\ managed # 0 THEN Moves(c, "look", managed)
                                     ELSE Moves(c, "over", b)
  /\ UNCHANGED <<host, boot, engine, sidecar, scoring, healthy, managed, killers,
                 hooked, crossed, deaths>>

(* Mutant: the doctor's await is not caught. *)
RejectedToolsOnly(c) ==
  /\ call[c].at \in {"reuse", "boot"} /\ boot[call[c].on] \in {"failed", "thrown"}
  /\ Moves(c, "over", call[c].on)
  /\ UNCHANGED <<host, boot, engine, sidecar, scoring, healthy, managed, config,
                 killers, hooked, crossed, deaths>>

Rejected(c) ==
  /\ call[c].at \in {"reuse", "boot", "look"} /\ boot[call[c].on] \in {"failed", "thrown"}
  /\ Moves(c, "over", call[c].on)
  /\ UNCHANGED <<host, boot, engine, sidecar, scoring, healthy, managed, config,
                 killers, hooked, crossed, deaths>>

-----------------------------------------------------------------------------
(* runtimeStatus and retryScoring *)

ScoringUp(b) == healthy[b] /\ Alive(sidecar[scoring[b]])

(* A dead sidecar is respawned behind an engine that answers. *)
Look(c) ==
  LET b == call[c].on IN
  /\ host = "up"
  /\ call[c].at = "look" /\ boot[b] = "up"
  /\ IF engine[b] = "live" /\ ~ScoringUp(b)
     THEN /\ sidecar' = [sidecar EXCEPT ![c] = "starting"]
          /\ Moves(c, "probe", b)
     ELSE /\ Moves(c, "over", b)
          /\ UNCHANGED sidecar
  /\ UNCHANGED <<host, boot, engine, scoring, healthy, managed, config, killers,
                 hooked, crossed, deaths>>

(* Whoever answers on the port, the child is taken for healthy, unless its  *)
(* exit is seen first.                                                      *)
ProbeHealthy(c) ==
  LET b == call[c].on IN
  /\ call[c].at = "probe"
  /\ Serves(b) /\ Alive(sidecar[c])
  /\ scoring' = [scoring EXCEPT ![b] = c]
  /\ healthy' = [healthy EXCEPT ![b] = TRUE]
  /\ InstallExitHooks(b, c)
  /\ Moves(c, "over", b)
  /\ UNCHANGED <<host, boot, engine, sidecar, managed, config, crossed, deaths>>

ProbeFails(c) ==
  LET b == call[c].on IN
  /\ call[c].at = "probe" /\ GivenUp(sidecar[c])
  /\ sidecar' = [sidecar EXCEPT ![c] = Killed(@)]
  /\ Moves(c, "over", b)
  /\ UNCHANGED <<host, boot, engine, scoring, healthy, managed, config, killers,
                 hooked, crossed>>

-----------------------------------------------------------------------------
(* The host quits by exit, SIGINT or SIGTERM: every handler runs, and whoever *)
(* awaits awaits no more.  SIGHUP and SIGKILL run none and are not modelled;  *)
(* kill(), a SIGTERM in the code, kills at once.                              *)
Exit ==
  /\ host = "up"
  /\ host' = "gone"
  /\ engine' = [a \in Boots |-> IF \E p \in hooked : p.server = a
                                THEN Killed(engine[a]) ELSE engine[a]]
  /\ sidecar' = [k \in Boots \cup Calls |-> IF \E p \in hooked : p.scoring = k
                                            THEN Killed(sidecar[k]) ELSE sidecar[k]]
  /\ UNCHANGED <<boot, scoring, healthy, managed, config, call, killers, hooked,
                 crossed, deaths>>

Boot(b) ==
  /\ host = "up"
  /\ \/ SpawnPair(b) \/ SpawnThrows(b)
     \/ EngineHealthy(b) \/ EngineFails(b)
     \/ ScoringHealthy(b) \/ ScoringFails(b)

Resume(c) ==
  /\ host = "up"
  /\ \/ Reuse(c) \/ Respawn(c) \/ Booted(c) \/ Rejected(c)
     \/ c \in Doctors /\ (Look(c) \/ ProbeHealthy(c) \/ ProbeFails(c))

Listens(b) == EngineListens(b) \/ \E k \in OfBoot(b) : SidecarListens(b, k)

Next ==
  \/ \E c \in Calls : Enter(c) \/ Resume(c)
  \/ \E b \in Boots : Boot(b) \/ Listens(b)
  \/ Die \/ Exit

Spec == Init /\ [][Next]_runtimeVars

(* A child that started comes to listen or dies, polls come round, and a    *)
(* settled await is resumed.                                                *)
Fairness ==
  /\ \A c \in Calls : WF_runtimeVars(Resume(c))
  /\ \A b \in Boots : WF_runtimeVars(Boot(b)) /\ WF_runtimeVars(Listens(b))

FairSpec == Spec /\ Fairness

-----------------------------------------------------------------------------
(* The properties *)

Engines == {b \in Boots : Alive(engine[b])}

(* As long as no two calls overlap, one engine at most is alive, over        *)
(* deaths, failed and thrown boots and the doctor's retries.                 *)
OneEngineInTurn ==
  ~crossed => Cardinality(Engines) <= 1

(* Whoever quits leaves no engine behind, and of the sidecars only those no  *)
(* handler knows: of a boot that threw between its spawns and its hooks, or  *)
(* of a doctor that is still waiting for it.  So "Children die with us"      *)
(* (runtime.ts:24) is true but for these two.                                *)
NoOrphans ==
  host = "gone" =>
    /\ Engines = {}
    /\ \A k \in Boots \cup Calls : Alive(sidecar[k]) =>
         \/ k \in Boots /\ boot[k] = "thrown"
         \/ k \in Doctors /\ call[k].at = "probe"

(* Every call is answered while the launcher lives, whatever dies, as long   *)
(* as there is a boot left to try.                                           *)
CallsAreAnswered ==
  \A c \in Calls :
    call[c].at \notin {"idle", "over"}
      ~> call[c].at = "over" \/ host = "gone" \/ \A b \in Boots : boot[b] # "none"
=============================================================================
