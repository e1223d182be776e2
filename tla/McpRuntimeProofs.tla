-------------------------- MODULE McpRuntimeProofs --------------------------
(***************************************************************************)
(* What the supervisor keeps for any number of calls, boots and deaths:    *)
(* every child that may be alive is in a pair some exit handler kills, but *)
(* for the sidecar of a boot that threw before its hooks and the one a     *)
(* doctor still waits for; and while no two calls overlap, the engine that *)
(* may be alive is the managed one.                                        *)
(***************************************************************************)
EXTENDS McpRuntime, FiniteSetTheorems, TLAPS

Children == Boots \cup Calls
CallStates == [at : {"idle", "reuse", "boot", "look", "probe", "over"}, on : 0 .. MaxBoots]

(* A call that is under way waits for a boot there was. *)
OnBoot == \A c \in Calls : call[c].at # "idle" => call[c].on \in Boots

Probing(k) == k \in Doctors /\ call[k].at = "probe"
Thrown(k) == k \in Boots /\ boot[k] = "thrown"

Hooked ==
  host = "up" =>
    /\ \A b \in Boots : Alive(engine[b]) => \E p \in hooked : p.server = b
    /\ \A k \in Children : Alive(sidecar[k]) =>
         Thrown(k) \/ Probing(k) \/ \E p \in hooked : p.scoring = k

(* One call at a time: what it waits for is managed, and so is the boot under *)
(* way, which is its own, has no engine before it spawns one and whose pair   *)
(* is what a failure kills.                                                  *)
OneCall == \A c, d \in UnderWay : c = d

EngineManaged == \A b \in Boots : Alive(engine[b]) => b = managed

UnderWayManaged ==
  \A b \in Boots : boot[b] \in {"ports", "engine", "scoring"} =>
    /\ b = managed
    /\ boot[b] = "ports" => ~Alive(engine[b])
    /\ boot[b] = "engine" => killers = {[server |-> b, scoring |-> b]}
    /\ \E c \in Calls : call[c].at = "boot" /\ call[c].on = b

CallsOnManaged ==
  \A c \in Calls : call[c].at \in {"reuse", "look", "probe"} => call[c].on = managed

InTurn ==
  host = "up" /\ ~crossed
    => OneCall /\ EngineManaged /\ UnderWayManaged /\ CallsOnManaged

IInv == TypeOK /\ OnBoot /\ Hooked /\ NoOrphans

-----------------------------------------------------------------------------
(* Types *)

LEMMA Lives == \A state : /\ Killed(state) \in Life <=> state \in Life
                          /\ ~Alive(Killed(state))
BY DEF Killed, Alive, Life

LEMMA BootNumbers == Boots \subseteq 0 .. MaxBoots /\ Boots \subseteq Children
BY BootBounds DEF Boots, Children

(* A call that moves on to a step of a boot. *)
LEMMA MovesTyped ==
  ASSUME TypeOK, OnBoot, NEW c \in Calls,
         NEW at \in {"reuse", "boot", "look", "probe", "over"}, NEW b \in Boots,
         Moves(c, at, b)
  PROVE  /\ call' \in [Calls -> CallStates] /\ OnBoot'
         /\ call'[c].at = at /\ call'[c].on = b
         /\ \A d \in Calls : d # c => call'[d] = call[d]
<1>1. call \in [Calls -> CallStates] /\ [at |-> at, on |-> b] \in CallStates
  BY BootNumbers DEF TypeOK, CallStates
<1>2. call' = [call EXCEPT ![c] = [at |-> at, on |-> b]]
  BY DEF Moves
<1>3. /\ call' \in [Calls -> CallStates] /\ call'[c] = [at |-> at, on |-> b]
      /\ \A d \in Calls : d # c => call'[d] = call[d]
  BY <1>1, <1>2
<1>4. QED
  BY <1>3 DEF OnBoot

LEMMA HooksTyped ==
  ASSUME TypeOK, NEW b \in Boots, NEW k \in Children, InstallExitHooks(b, k)
  PROVE  /\ killers' \in SUBSET Pairs /\ hooked' \in SUBSET Pairs
         /\ hooked \subseteq hooked'
         /\ \E p \in hooked' : p.server = b /\ p.scoring = k
         /\ killers' = {[server |-> b, scoring |-> k]}
<1>1. [server |-> b, scoring |-> k] \in Pairs
  BY DEF Pairs, Children
<1>2. PICK p \in Pairs : p = [server |-> b, scoring |-> k]
  BY <1>1
<1>3. p.server = b /\ p.scoring = k
  BY <1>2
<1>4. killers' = {p} /\ hooked' = hooked \cup {p}
  BY <1>2 DEF InstallExitHooks
<1>5. QED
  BY <1>2, <1>3, <1>4 DEF TypeOK

BootStates == {"none", "ports", "engine", "scoring", "up", "failed", "thrown"}

(* A boot that threw is never anything else again. *)
StayThrown == \A b \in Boots : Thrown(b) => Thrown(b)'

LEMMA Typed ==
  ASSUME TypeOK
  PROVE  /\ boot \in [Boots -> BootStates] /\ engine \in [Boots -> Life]
         /\ sidecar \in [Children -> Life] /\ scoring \in [Boots -> Children]
         /\ call \in [Calls -> CallStates]
BY DEF TypeOK, Children, CallStates, BootStates

(* A boot is begun and nothing is spawned yet. *)
LEMMA StartsOne ==
  ASSUME TypeOK, OnBoot, NEW c \in Calls, NEW sidecars \in [Children -> Life],
         StartBoot(c, sidecars)
  PROVE  \E b \in Boots :
           /\ boot[b] = "none" /\ boot' = [boot EXCEPT ![b] = "ports"]
           /\ boot' \in [Boots -> BootStates] /\ StayThrown
           /\ sidecar' = sidecars
           /\ managed' = b /\ managed' \in 0 .. MaxBoots
           /\ call' \in [Calls -> CallStates] /\ OnBoot'
           /\ call'[c].at = "boot" /\ call'[c].on = b
           /\ \A d \in Calls : d # c => call'[d] = call[d]
           /\ UNCHANGED <<engine, killers, hooked>>
<1>1. PICK b \in Boots :
        /\ boot[b] = "none" /\ boot' = [boot EXCEPT ![b] = "ports"]
        /\ sidecar' = sidecars
        /\ managed' = b
        /\ call' = [call EXCEPT ![c] = [at |-> "boot", on |-> b]]
        /\ UNCHANGED <<engine, killers, hooked>>
  BY DEF StartBoot
<1>2. boot' \in [Boots -> BootStates] /\ StayThrown
  BY <1>1, Typed DEF BootStates, StayThrown, Thrown
<1>3. /\ call' \in [Calls -> CallStates] /\ OnBoot'
      /\ call'[c].at = "boot" /\ call'[c].on = b
      /\ \A d \in Calls : d # c => call'[d] = call[d]
  BY <1>1, MovesTyped DEF Moves
<1>4. b \in 0 .. MaxBoots
  BY BootNumbers
<1>5. QED
  BY <1>1, <1>2, <1>3, <1>4

-----------------------------------------------------------------------------
(* Types and hooks, action by action *)

LEMMA EnterKeeps ==
  ASSUME IInv, NEW c \in Calls, Enter(c) PROVE IInv'
<1>1. host = "up" /\ host' = "up" /\ TypeOK /\ OnBoot /\ Hooked /\ call[c].at = "idle"
  BY DEF IInv, Enter
<1>2. crossed' \in BOOLEAN
  BY <1>1 DEF Enter, TypeOK
<1>3. CASE managed # 0 /\ UNCHANGED <<boot, engine, sidecar, managed, killers, hooked>>
  <2>1. managed \in Boots
    BY <1>1, <1>3, BootBounds DEF TypeOK, Boots
  <2>2. PICK at \in {"reuse", "look"} : Moves(c, at, managed)
    BY <1>3, <2>1, BootNumbers, Typed, <1>1 DEF Enter, StartBoot
  <2>3. /\ call' \in [Calls -> CallStates] /\ OnBoot'
        /\ \A d \in Calls : d # c => call'[d] = call[d]
    BY <1>1, <2>1, <2>2, MovesTyped
  <2>4. TypeOK'
    BY <1>1, <1>2, <1>3, <2>3 DEF Enter, TypeOK, CallStates
  <2>5. Hooked'
    BY <1>1, <1>3, <2>3 DEF Hooked, Probing, Thrown, Calls
  <2>6. QED
    BY <1>1, <2>3, <2>4, <2>5 DEF IInv, NoOrphans
<1>4. CASE StartBoot(c, sidecar)
  <2>1. sidecar \in [Children -> Life]
    BY <1>1, Typed
  <2>2. /\ boot' \in [Boots -> BootStates] /\ StayThrown
        /\ managed' \in 0 .. MaxBoots
        /\ call' \in [Calls -> CallStates] /\ OnBoot'
        /\ \A d \in Calls : d # c => call'[d] = call[d]
        /\ UNCHANGED <<engine, sidecar, killers, hooked>>
    BY <1>1, <1>4, <2>1, StartsOne
  <2>3. TypeOK'
    BY <1>1, <1>2, <2>2 DEF Enter, TypeOK, CallStates, BootStates
  <2>4. Hooked'
    BY <1>1, <2>2 DEF Hooked, Probing, Calls, StayThrown, Thrown
  <2>5. QED
    BY <1>1, <2>2, <2>3, <2>4 DEF IInv, NoOrphans
<1>5. QED
  BY <1>3, <1>4 DEF Enter

LEMMA ListenKeeps ==
  ASSUME IInv, NEW b \in Boots, EngineListens(b) PROVE IInv'
<1>1. TypeOK /\ OnBoot /\ Hooked /\ NoOrphans
  BY DEF IInv
<1>2. /\ engine' \in [Boots -> Life]
      /\ \A a \in Boots : Alive(engine'[a]) => Alive(engine[a])
  BY <1>1, Typed DEF EngineListens, Life, Alive
<1>3. TypeOK'
  BY <1>1, <1>2 DEF EngineListens, TypeOK
<1>4. OnBoot'
  BY <1>1 DEF EngineListens, OnBoot
<1>5. Hooked'
  BY <1>1, <1>2 DEF EngineListens, Hooked, Probing, Thrown
<1>6. NoOrphans'
  BY <1>1, <1>2 DEF EngineListens, NoOrphans, Engines
<1>7. QED
  BY <1>3, <1>4, <1>5, <1>6 DEF IInv

LEMMA SidecarKeeps ==
  ASSUME IInv, NEW b \in Boots, NEW k \in OfBoot(b), SidecarListens(b, k) PROVE IInv'
<1>1. TypeOK /\ OnBoot /\ Hooked /\ NoOrphans
  BY DEF IInv
<1>2. k \in Children
  BY BootNumbers DEF OfBoot, Children, Calls
<1>3. /\ sidecar' \in [Children -> Life]
      /\ \A j \in Children : Alive(sidecar'[j]) => Alive(sidecar[j])
  BY <1>1, <1>2, Typed DEF SidecarListens, Life, Alive
<1>4. TypeOK'
  BY <1>1, <1>3 DEF SidecarListens, TypeOK, Children
<1>5. OnBoot'
  BY <1>1 DEF SidecarListens, OnBoot
<1>6. Hooked'
  BY <1>1, <1>3 DEF SidecarListens, Hooked, Probing, Thrown
<1>7. NoOrphans'
  BY <1>1, <1>3 DEF SidecarListens, NoOrphans, Engines, Children
<1>8. QED
  BY <1>4, <1>5, <1>6, <1>7 DEF IInv

LEMMA DieKeeps ==
  ASSUME IInv, Die PROVE IInv'
<1>1. TypeOK /\ OnBoot /\ Hooked /\ NoOrphans
  BY DEF IInv
<1>2. /\ engine' \in [Boots -> Life]
      /\ \A a \in Boots : Alive(engine'[a]) => Alive(engine[a])
  BY <1>1, Typed DEF Die, Life, Alive
<1>3. /\ sidecar' \in [Children -> Life]
      /\ \A j \in Children : Alive(sidecar'[j]) => Alive(sidecar[j])
  BY <1>1, Typed DEF Die, Life, Alive, Children
<1>4. deaths' \in 0 .. MaxDeaths
  BY <1>1, BootBounds DEF Die, TypeOK
<1>5. TypeOK'
  BY <1>1, <1>2, <1>3, <1>4 DEF Die, TypeOK, Children
<1>6. OnBoot'
  BY <1>1 DEF Die, OnBoot
<1>7. Hooked'
  BY <1>1, <1>2, <1>3 DEF Die, Hooked, Probing, Thrown
<1>8. NoOrphans'
  BY <1>1, <1>2, <1>3 DEF Die, NoOrphans, Engines, Children
<1>9. QED
  BY <1>5, <1>6, <1>7, <1>8 DEF IInv

(* A timeout is counted. *)
LEMMA GivenUpCounts ==
  ASSUME TypeOK, NEW state, GivenUp(state) PROVE deaths' \in 0 .. MaxDeaths
BY BootBounds DEF GivenUp, TypeOK

LEMMA SpawnPairKeeps ==
  ASSUME IInv, NEW b \in Boots, host = "up", SpawnPair(b) PROVE IInv'
<1>1. TypeOK /\ OnBoot /\ Hooked /\ b \in Children
  BY BootNumbers DEF IInv
<1>2. boot' \in [Boots -> BootStates] /\ StayThrown
  BY <1>1, Typed DEF SpawnPair, BootStates, StayThrown, Thrown
<1>3. /\ engine' \in [Boots -> Life] /\ sidecar' \in [Children -> Life]
      /\ \A a \in Boots : a # b => engine'[a] = engine[a]
      /\ \A k \in Children : k # b => sidecar'[k] = sidecar[k]
  BY <1>1, Typed DEF SpawnPair, Life
<1>4. /\ killers' \in SUBSET Pairs /\ hooked' \in SUBSET Pairs /\ hooked \subseteq hooked'
      /\ \E p \in hooked' : p.server = b /\ p.scoring = b
  BY <1>1, HooksTyped DEF SpawnPair
<1>5. TypeOK'
  BY <1>1, <1>2, <1>3, <1>4 DEF SpawnPair, TypeOK, BootStates, Children
<1>6. OnBoot'
  BY <1>1 DEF SpawnPair, OnBoot
<1>7. Hooked'
  BY <1>1, <1>2, <1>3, <1>4 DEF SpawnPair, Hooked, Probing, StayThrown, Thrown
<1>8. QED
  BY <1>5, <1>6, <1>7 DEF IInv, SpawnPair, NoOrphans

(* What it spawned is a sidecar of a boot that threw. *)
LEMMA SpawnThrowsKeeps ==
  ASSUME IInv, NEW b \in Boots, host = "up", SpawnThrows(b) PROVE IInv'
<1>1. TypeOK /\ OnBoot /\ Hooked /\ b \in Children
  BY BootNumbers DEF IInv
<1>2. boot' \in [Boots -> BootStates] /\ StayThrown /\ Thrown(b)'
  BY <1>1, Typed DEF SpawnThrows, BootStates, StayThrown, Thrown
<1>3. /\ sidecar' \in [Children -> Life]
      /\ \A k \in Children : k # b => sidecar'[k] = sidecar[k]
  BY <1>1, Typed DEF SpawnThrows, Life
<1>4. deaths' \in 0 .. MaxDeaths /\ managed' \in 0 .. MaxBoots
  BY <1>1, BootBounds DEF SpawnThrows, TypeOK
<1>5. TypeOK'
  BY <1>1, <1>2, <1>3, <1>4 DEF SpawnThrows, TypeOK, BootStates, Children
<1>6. OnBoot'
  BY <1>1 DEF SpawnThrows, OnBoot
<1>7. Hooked'
  BY <1>1, <1>2, <1>3 DEF SpawnThrows, Hooked, Probing, StayThrown, Thrown
<1>8. QED
  BY <1>5, <1>6, <1>7 DEF IInv, SpawnThrows, NoOrphans

LEMMA EngineHealthyKeeps ==
  ASSUME IInv, NEW b \in Boots, host = "up", EngineHealthy(b) PROVE IInv'
<1>1. TypeOK /\ OnBoot /\ Hooked /\ NoOrphans
  BY DEF IInv
<1>2. boot' \in [Boots -> BootStates] /\ StayThrown
  BY <1>1, Typed DEF EngineHealthy, BootStates, StayThrown, Thrown
<1>3. TypeOK'
  BY <1>1, <1>2 DEF EngineHealthy, TypeOK, BootStates
<1>4. OnBoot' /\ Hooked' /\ NoOrphans'
  BY <1>1, <1>2 DEF EngineHealthy, OnBoot, Hooked, Probing, StayThrown, Thrown, NoOrphans,
                     Engines
<1>5. QED
  BY <1>3, <1>4 DEF IInv

LEMMA EngineFailsKeeps ==
  ASSUME IInv, NEW b \in Boots, host = "up", EngineFails(b) PROVE IInv'
<1>1. TypeOK /\ OnBoot /\ Hooked /\ NoOrphans
  BY DEF IInv
<1>2. boot' \in [Boots -> BootStates] /\ StayThrown
  BY <1>1, Typed DEF EngineFails, BootStates, StayThrown, Thrown
<1>3. /\ engine' \in [Boots -> Life]
      /\ \A a \in Boots : Alive(engine'[a]) => Alive(engine[a])
  BY <1>1, Typed, Lives DEF EngineFails
<1>4. /\ sidecar' \in [Children -> Life]
      /\ \A j \in Children : Alive(sidecar'[j]) => Alive(sidecar[j])
  BY <1>1, Typed, Lives DEF EngineFails, Children
<1>5. deaths' \in 0 .. MaxDeaths /\ managed' \in 0 .. MaxBoots
  BY <1>1, GivenUpCounts, BootBounds DEF EngineFails
<1>6. TypeOK'
  BY <1>1, <1>2, <1>3, <1>4, <1>5 DEF EngineFails, TypeOK, BootStates, Children
<1>7. OnBoot'
  BY <1>1 DEF EngineFails, OnBoot
<1>8. Hooked'
  BY <1>1, <1>2, <1>3, <1>4 DEF EngineFails, Hooked, Probing, StayThrown, Thrown
<1>9. QED
  BY <1>1, <1>6, <1>7, <1>8 DEF IInv, EngineFails, NoOrphans

LEMMA ScoringHealthyKeeps ==
  ASSUME IInv, NEW b \in Boots, host = "up", ScoringHealthy(b) PROVE IInv'
<1>1. TypeOK /\ OnBoot /\ Hooked /\ NoOrphans
  BY DEF IInv
<1>2. boot' \in [Boots -> BootStates] /\ StayThrown
  BY <1>1, Typed DEF ScoringHealthy, BootStates, StayThrown, Thrown
<1>3. healthy' \in [Boots -> BOOLEAN]
  BY <1>1 DEF ScoringHealthy, TypeOK
<1>4. TypeOK'
  BY <1>1, <1>2, <1>3 DEF ScoringHealthy, TypeOK, BootStates
<1>5. OnBoot' /\ Hooked' /\ NoOrphans'
  BY <1>1, <1>2 DEF ScoringHealthy, OnBoot, Hooked, Probing, StayThrown, Thrown, NoOrphans,
                     Engines
<1>6. QED
  BY <1>4, <1>5 DEF IInv

LEMMA ScoringFailsKeeps ==
  ASSUME IInv, NEW b \in Boots, host = "up", ScoringFails(b) PROVE IInv'
<1>1. TypeOK /\ OnBoot /\ Hooked /\ NoOrphans
  BY DEF IInv
<1>2. boot' \in [Boots -> BootStates] /\ StayThrown
  BY <1>1, Typed DEF ScoringFails, BootStates, StayThrown, Thrown
<1>3. /\ sidecar' \in [Children -> Life]
      /\ \A j \in Children : Alive(sidecar'[j]) => Alive(sidecar[j])
  BY <1>1, Typed, Lives, BootNumbers DEF ScoringFails
<1>4. deaths' \in 0 .. MaxDeaths
  BY <1>1, GivenUpCounts DEF ScoringFails
<1>5. TypeOK'
  BY <1>1, <1>2, <1>3, <1>4 DEF ScoringFails, TypeOK, BootStates, Children
<1>6. OnBoot'
  BY <1>1 DEF ScoringFails, OnBoot
<1>7. Hooked'
  BY <1>1, <1>2, <1>3 DEF ScoringFails, Hooked, Probing, StayThrown, Thrown
<1>8. QED
  BY <1>1, <1>5, <1>6, <1>7 DEF IInv, ScoringFails, NoOrphans

(* A call that no longer waits, or waits for another step, of its own boot. *)
LEMMA ReuseKeeps ==
  ASSUME IInv, NEW c \in Calls, host = "up", Reuse(c) PROVE IInv'
<1>1. TypeOK /\ OnBoot /\ Hooked /\ NoOrphans /\ call[c].on \in Boots
  BY DEF IInv, OnBoot, Reuse
<1>2. PICK b \in Boots :
        /\ b = call[c].on
        /\ healthy' = [healthy EXCEPT ![b] = @ /\ Alive(sidecar[scoring[b]])]
        /\ config' = b /\ Moves(c, "over", b)
  BY <1>1 DEF Reuse
<1>3. /\ call' \in [Calls -> CallStates] /\ OnBoot'
      /\ \A d \in Calls : d # c => call'[d] = call[d]
  BY <1>1, <1>2, MovesTyped
<1>4. config' \in 0 .. MaxBoots
  BY <1>2, BootNumbers
<1>5. Alive(sidecar[scoring[b]]) \in BOOLEAN
  BY DEF Alive
<1>6. healthy' \in [Boots -> BOOLEAN]
  BY <1>1, <1>2, <1>5 DEF TypeOK
<1>7. TypeOK'
  BY <1>1, <1>3, <1>4, <1>6 DEF Reuse, TypeOK, CallStates
<1>8. Hooked'
  BY <1>1, <1>3 DEF Reuse, Hooked, Probing, Thrown, Calls
<1>9. QED
  BY <1>1, <1>3, <1>7, <1>8 DEF IInv, Reuse, NoOrphans

LEMMA RespawnKeeps ==
  ASSUME IInv, NEW c \in Calls, Respawn(c) PROVE IInv'
<1>1. /\ TypeOK /\ OnBoot /\ Hooked /\ NoOrphans
      /\ call[c].at = "reuse" /\ call[c].on \in Boots /\ host = "up" /\ host' = "up"
  BY DEF IInv, OnBoot, Respawn
<1>2. PICK s \in Children : s = scoring[call[c].on]
  BY <1>1, Typed
<1>3. PICK sidecars \in [Children -> Life] :
        /\ sidecars = [sidecar EXCEPT ![s] = Killed(@)]
        /\ \A k \in Children : Alive(sidecars[k]) => Alive(sidecar[k])
  <2>1. sidecar \in [Children -> Life]
    BY <1>1, Typed
  <2>2. Killed(sidecar[s]) \in Life /\ ~Alive(Killed(sidecar[s]))
    BY <2>1, Lives
  <2>3. PICK sidecars \in [Children -> Life] : sidecars = [sidecar EXCEPT ![s] = Killed(@)]
    BY <2>1, <2>2
  <2>4. \A k \in Children : Alive(sidecars[k]) => Alive(sidecar[k])
    BY <2>1, <2>2, <2>3
  <2>5. QED
    BY <2>3, <2>4
<1>4. StartBoot(c, sidecars)
  BY <1>2, <1>3 DEF Respawn
<1>5. /\ boot' \in [Boots -> BootStates] /\ StayThrown
      /\ sidecar' = sidecars
      /\ managed' \in 0 .. MaxBoots
      /\ call' \in [Calls -> CallStates] /\ OnBoot'
      /\ \A d \in Calls : d # c => call'[d] = call[d]
      /\ UNCHANGED <<engine, killers, hooked>>
  BY <1>1, <1>4, StartsOne
<1>6. TypeOK'
  BY <1>1, <1>3, <1>5 DEF Respawn, TypeOK, CallStates, BootStates, Children
<1>7. Hooked'
  BY <1>1, <1>3, <1>5 DEF Hooked, Probing, Calls, StayThrown, Thrown
<1>8. QED
  BY <1>1, <1>5, <1>6, <1>7 DEF IInv, NoOrphans

LEMMA BootedKeeps ==
  ASSUME IInv, NEW c \in Calls, host = "up", Booted(c) PROVE IInv'
<1>1. /\ TypeOK /\ OnBoot /\ Hooked /\ NoOrphans
      /\ call[c].at = "boot" /\ call[c].on \in Boots
  BY DEF IInv, OnBoot, Booted
<1>2. managed # 0 => managed \in Boots
  BY <1>1, BootBounds DEF TypeOK, Boots
<1>3. PICK at \in {"look", "over"}, b \in Boots : Moves(c, at, b)
  BY <1>1, <1>2 DEF Booted
<1>4. /\ call' \in [Calls -> CallStates] /\ OnBoot'
      /\ \A d \in Calls : d # c => call'[d] = call[d]
  BY <1>1, <1>3, MovesTyped
<1>5. config' \in 0 .. MaxBoots
  BY <1>1, BootNumbers DEF Booted
<1>6. TypeOK'
  BY <1>1, <1>4, <1>5 DEF Booted, TypeOK, CallStates
<1>7. Hooked'
  BY <1>1, <1>4 DEF Booted, Hooked, Probing, Thrown, Calls
<1>8. QED
  BY <1>1, <1>4, <1>6, <1>7 DEF IInv, Booted, NoOrphans

LEMMA RejectedKeeps ==
  ASSUME IInv, NEW c \in Calls, host = "up", Rejected(c) PROVE IInv'
<1>1. /\ TypeOK /\ OnBoot /\ Hooked /\ NoOrphans
      /\ call[c].at \in {"reuse", "boot", "look"} /\ call[c].on \in Boots
  BY DEF IInv, OnBoot, Rejected
<1>2. /\ call' \in [Calls -> CallStates] /\ OnBoot'
      /\ \A d \in Calls : d # c => call'[d] = call[d]
  BY <1>1, MovesTyped DEF Rejected
<1>3. TypeOK'
  BY <1>1, <1>2 DEF Rejected, TypeOK, CallStates
<1>4. Hooked'
  BY <1>1, <1>2 DEF Rejected, Hooked, Probing, Thrown, Calls
<1>5. QED
  BY <1>1, <1>2, <1>3, <1>4 DEF IInv, Rejected, NoOrphans

LEMMA LookKeeps ==
  ASSUME IInv, NEW c \in Doctors, Look(c) PROVE IInv'
<1>1. /\ TypeOK /\ OnBoot /\ Hooked /\ NoOrphans /\ host = "up" /\ c \in Calls
      /\ call[c].at = "look" /\ call[c].on \in Boots
  BY DEF IInv, OnBoot, Look, Calls
<1>2. PICK at \in {"probe", "over"} :
        /\ Moves(c, at, call[c].on)
        /\ \/ at = "probe" /\ sidecar' = [sidecar EXCEPT ![c] = "starting"]
           \/ at = "over" /\ sidecar' = sidecar
  BY DEF Look
<1>3. /\ call' \in [Calls -> CallStates] /\ OnBoot' /\ call'[c].at = at
      /\ \A d \in Calls : d # c => call'[d] = call[d]
  BY <1>1, <1>2, MovesTyped
<1>4. c \in Children
  BY <1>1 DEF Children
<1>5. /\ sidecar' \in [Children -> Life]
      /\ \A k \in Children : k # c => sidecar'[k] = sidecar[k]
      /\ at = "over" => sidecar' = sidecar
  BY <1>1, <1>2, <1>4, Typed DEF Life
<1>6. TypeOK'
  BY <1>1, <1>3, <1>5 DEF Look, TypeOK, CallStates, Children
<1>7. \A k \in Doctors : k \in Calls
  BY DEF Calls
<1>8. Hooked'
  BY <1>1, <1>2, <1>3, <1>5, <1>7 DEF Look, Hooked, Probing, Thrown
<1>9. QED
  BY <1>1, <1>3, <1>6, <1>8 DEF IInv, Look, NoOrphans

LEMMA ProbeHealthyKeeps ==
  ASSUME IInv, NEW c \in Doctors, host = "up", ProbeHealthy(c) PROVE IInv'
<1>1. /\ TypeOK /\ OnBoot /\ Hooked /\ NoOrphans /\ c \in Calls /\ c \in Children
      /\ call[c].at = "probe" /\ call[c].on \in Boots
  BY DEF IInv, OnBoot, ProbeHealthy, Calls, Children
<1>2. PICK b \in Boots :
        /\ scoring' = [scoring EXCEPT ![b] = c]
        /\ healthy' = [healthy EXCEPT ![b] = TRUE]
        /\ InstallExitHooks(b, c) /\ Moves(c, "over", b)
  BY <1>1 DEF ProbeHealthy
<1>3. /\ call' \in [Calls -> CallStates] /\ OnBoot'
      /\ \A d \in Calls : d # c => call'[d] = call[d]
  BY <1>1, <1>2, MovesTyped
<1>4. /\ killers' \in SUBSET Pairs /\ hooked' \in SUBSET Pairs /\ hooked \subseteq hooked'
      /\ \E p \in hooked' : p.server = b /\ p.scoring = c
  BY <1>1, <1>2, HooksTyped
<1>5. scoring' \in [Boots -> Children] /\ healthy' \in [Boots -> BOOLEAN]
  BY <1>1, <1>2, Typed DEF TypeOK
<1>6. TypeOK'
  BY <1>1, <1>3, <1>4, <1>5 DEF ProbeHealthy, TypeOK, CallStates, Children
<1>7. \A k \in Doctors : k \in Calls
  BY DEF Calls
<1>8. Hooked'
  BY <1>1, <1>3, <1>4, <1>7 DEF ProbeHealthy, Hooked, Probing, Thrown
<1>9. QED
  BY <1>1, <1>3, <1>6, <1>8 DEF IInv, ProbeHealthy, NoOrphans

LEMMA ProbeFailsKeeps ==
  ASSUME IInv, NEW c \in Doctors, host = "up", ProbeFails(c) PROVE IInv'
<1>1. /\ TypeOK /\ OnBoot /\ Hooked /\ NoOrphans /\ c \in Calls /\ c \in Children
      /\ call[c].at = "probe" /\ call[c].on \in Boots
  BY DEF IInv, OnBoot, ProbeFails, Calls, Children
<1>2. /\ call' \in [Calls -> CallStates] /\ OnBoot'
      /\ \A d \in Calls : d # c => call'[d] = call[d]
  BY <1>1, MovesTyped DEF ProbeFails
<1>3. /\ sidecar' \in [Children -> Life] /\ ~Alive(sidecar'[c])
      /\ \A k \in Children : k # c => sidecar'[k] = sidecar[k]
  BY <1>1, Typed, Lives DEF ProbeFails
<1>4. deaths' \in 0 .. MaxDeaths
  BY <1>1, GivenUpCounts DEF ProbeFails
<1>5. TypeOK'
  BY <1>1, <1>2, <1>3, <1>4 DEF ProbeFails, TypeOK, CallStates, Children
<1>6. \A k \in Doctors : k \in Calls
  BY DEF Calls
<1>7. Hooked'
  BY <1>1, <1>2, <1>3, <1>6 DEF ProbeFails, Hooked, Probing, Thrown
<1>8. QED
  BY <1>1, <1>2, <1>5, <1>7 DEF IInv, ProbeFails, NoOrphans

(* Whoever quits kills what is hooked. *)
LEMMA ExitKeeps ==
  ASSUME IInv, Exit PROVE IInv'
<1>1. TypeOK /\ OnBoot /\ Hooked /\ host = "up" /\ host' = "gone"
  BY DEF IInv, Exit
<1>2. /\ engine' \in [Boots -> Life]
      /\ \A a \in Boots : Alive(engine'[a]) => /\ Alive(engine[a])
                                               /\ ~\E p \in hooked : p.server = a
  BY <1>1, Typed, Lives DEF Exit
<1>3. /\ sidecar' \in [Children -> Life]
      /\ \A k \in Children : Alive(sidecar'[k]) => /\ Alive(sidecar[k])
                                                  /\ ~\E p \in hooked : p.scoring = k
  BY <1>1, Typed, Lives DEF Exit, Children
<1>4. TypeOK'
  BY <1>1, <1>2, <1>3 DEF Exit, TypeOK, Children
<1>5. OnBoot' /\ Hooked'
  BY <1>1 DEF Exit, OnBoot, Hooked
<1>6. NoOrphans'
  BY <1>1, <1>2, <1>3 DEF Exit, Hooked, Probing, Thrown, NoOrphans, Engines, Children
<1>7. QED
  BY <1>4, <1>5, <1>6 DEF IInv

LEMMA InitHolds == Init => IInv
<1> SUFFICES ASSUME Init PROVE IInv
  OBVIOUS
<1>1. TypeOK
  <2>1. 0 \in 0 .. MaxBoots /\ 0 \in 0 .. MaxDeaths
    BY BootBounds
  <2>2. /\ scoring \in [Boots -> Boots \cup Calls]
        /\ call \in [Calls -> CallStates]
    BY <2>1 DEF Init, CallStates
  <2>3. QED
    BY <2>1, <2>2 DEF Init, TypeOK, Life, CallStates
<1>2. OnBoot
  BY DEF Init, OnBoot
<1>3. Hooked
  BY DEF Init, Hooked, Alive, Children
<1>4. QED
  BY <1>1, <1>2, <1>3 DEF Init, IInv, NoOrphans

LEMMA StepKeeps == IInv /\ [Next]_runtimeVars => IInv'
<1> SUFFICES ASSUME IInv, [Next]_runtimeVars PROVE IInv'
  OBVIOUS
<1>1. CASE UNCHANGED runtimeVars
  BY <1>1 DEF runtimeVars, IInv, TypeOK, OnBoot, Hooked, Probing, Thrown, NoOrphans, Engines
<1>2. ASSUME NEW c \in Calls, Enter(c) PROVE IInv'
  BY <1>2, EnterKeeps
<1>3. ASSUME NEW c \in Calls, Resume(c) PROVE IInv'
  BY <1>3, ReuseKeeps, RespawnKeeps, BootedKeeps, RejectedKeeps, LookKeeps,
     ProbeHealthyKeeps, ProbeFailsKeeps DEF Resume
<1>4. ASSUME NEW b \in Boots, Boot(b) PROVE IInv'
  BY <1>4, SpawnPairKeeps, SpawnThrowsKeeps, EngineHealthyKeeps, EngineFailsKeeps, ScoringHealthyKeeps, ScoringFailsKeeps DEF Boot
<1>5. ASSUME NEW b \in Boots, Listens(b) PROVE IInv'
  BY <1>5, ListenKeeps, SidecarKeeps DEF Listens
<1>6. CASE Die \/ Exit
  BY <1>6, DieKeeps, ExitKeeps
<1>7. QED
  BY <1>1, <1>2, <1>3, <1>4, <1>5, <1>6 DEF Next

(* No child, call, boot or pair is ever anything the launcher does not know  *)
(* (runtime.ts: the Managed record and its two children).                    *)
THEOREM TypeCorrect == Spec => []TypeOK
<1>1. IInv => TypeOK
  BY DEF IInv
<1>2. QED
  BY <1>1, InitHolds, StepKeeps, PTL DEF Spec

(* Whoever quits leaves no engine and no sidecar behind, for any number of   *)
(* calls, boots and deaths, but the sidecar of a boot that threw before its  *)
(* hooks and the one a doctor was waiting for (installExitHooks).            *)
THEOREM OnlyTheUnhookedOutlive == Spec => []NoOrphans
<1>1. IInv => NoOrphans
  BY DEF IInv
<1>2. QED
  BY <1>1, InitHolds, StepKeeps, PTL DEF Spec

-----------------------------------------------------------------------------
(* One call at a time *)

(* In turn, a call waits for the managed boot, and no other call waits. *)
LEMMA Turn ==
  ASSUME InTurn, host = "up", ~crossed, NEW c \in UnderWay
  PROVE  /\ EngineManaged /\ UnderWayManaged /\ CallsOnManaged
         /\ \A d \in Calls : d # c => call[d].at \in {"idle", "over"}
         /\ \A b \in Boots : boot[b] \in {"ports", "engine", "scoring"} =>
              b = managed /\ call[c].at = "boot" /\ call[c].on = b
<1>1. OneCall /\ EngineManaged /\ UnderWayManaged /\ CallsOnManaged
  BY DEF InTurn
<1>2. \A d \in Calls : d # c => call[d].at \in {"idle", "over"}
  BY <1>1 DEF OneCall, UnderWay
<1>3. QED
  BY <1>1, <1>2 DEF UnderWayManaged

(* A boot that starts when no engine is alive and no boot is under way. *)
LEMMA StartsTurn ==
  ASSUME TypeOK, OnBoot, NEW c \in Calls, NEW sidecars \in [Children -> Life],
         StartBoot(c, sidecars),
         \A a \in Boots : ~Alive(engine[a]),
         \A a \in Boots : boot[a] \notin {"ports", "engine", "scoring"},
         \A d \in Calls : d # c => call[d].at \in {"idle", "over"}
  PROVE  OneCall' /\ EngineManaged' /\ UnderWayManaged' /\ CallsOnManaged'
<1>1. PICK b \in Boots :
        /\ boot' = [boot EXCEPT ![b] = "ports"]
        /\ managed' = b
        /\ call'[c].at = "boot" /\ call'[c].on = b
        /\ \A d \in Calls : d # c => call'[d] = call[d]
        /\ UNCHANGED engine
  BY StartsOne
<1>2. boot'[b] = "ports" /\ \A a \in Boots : a # b => boot'[a] = boot[a]
  BY <1>1, Typed
<1>3. OneCall'
  BY <1>1 DEF OneCall, UnderWay
<1>4. EngineManaged'
  BY <1>1 DEF EngineManaged
<1>5. UnderWayManaged'
  BY <1>1, <1>2 DEF UnderWayManaged
<1>6. CallsOnManaged'
  BY <1>1 DEF CallsOnManaged
<1>7. QED
  BY <1>3, <1>4, <1>5, <1>6

(* A call that is answered, its boot no longer under way. *)
LEMMA OverTurn ==
  ASSUME InTurn, host = "up", ~crossed, NEW c \in UnderWay,
         boot[call[c].on] \notin {"ports", "engine", "scoring"},
         call'[c].at = "over", \A d \in Calls : d # c => call'[d] = call[d],
         UNCHANGED <<boot, engine, managed, killers>>
  PROVE  OneCall' /\ EngineManaged' /\ UnderWayManaged' /\ CallsOnManaged'
<1>1. /\ EngineManaged
      /\ \A d \in Calls : d # c => call[d].at \in {"idle", "over"}
      /\ \A b \in Boots : boot[b] \notin {"ports", "engine", "scoring"}
  BY Turn
<1>2. \A d \in Calls : call'[d].at \in {"idle", "over"}
  BY <1>1
<1>3. QED
  BY <1>1, <1>2 DEF OneCall, UnderWay, EngineManaged, UnderWayManaged, CallsOnManaged

LEMMA EnterTurn ==
  ASSUME IInv, InTurn, NEW c \in Calls, Enter(c) PROVE InTurn'
<1> SUFFICES ASSUME ~crossed'
             PROVE  OneCall' /\ EngineManaged' /\ UnderWayManaged' /\ CallsOnManaged'
  BY DEF InTurn
<1>1. /\ TypeOK /\ OnBoot /\ host = "up" /\ UnderWay = {} /\ call[c].at = "idle"
      /\ EngineManaged /\ UnderWayManaged
  BY DEF InTurn, Enter, IInv
<1>2. \A d \in Calls : call[d].at \in {"idle", "over"}
  BY <1>1 DEF UnderWay
<1>3. \A b \in Boots : boot[b] \notin {"ports", "engine", "scoring"}
  BY <1>1, <1>2 DEF UnderWayManaged
<1>4. CASE managed # 0 /\ UNCHANGED <<boot, engine, sidecar, managed, killers, hooked>>
  <2>1. managed \in Boots
    BY <1>1, <1>4, BootBounds DEF TypeOK, Boots
  <2>2. PICK at \in {"reuse", "look"} : Moves(c, at, managed)
    BY <1>4, <2>1, BootNumbers, Typed, <1>1 DEF Enter, StartBoot
  <2>3. /\ call'[c].on = managed
        /\ \A d \in Calls : d # c => call'[d] = call[d]
    BY <1>1, <2>1, <2>2, MovesTyped
  <2>4. OneCall'
    BY <1>2, <2>3 DEF OneCall, UnderWay
  <2>5. EngineManaged' /\ UnderWayManaged'
    BY <1>1, <1>3, <1>4 DEF EngineManaged, UnderWayManaged
  <2>6. CallsOnManaged'
    BY <1>2, <1>4, <2>3 DEF CallsOnManaged
  <2>7. QED
    BY <2>4, <2>5, <2>6
<1>5. CASE managed = 0 /\ StartBoot(c, sidecar)
  <2>1. \A a \in Boots : ~Alive(engine[a])
    BY <1>1, <1>5, BootBounds DEF EngineManaged, Boots
  <2>2. sidecar \in [Children -> Life]
    BY <1>1, Typed
  <2>3. QED
    BY <1>1, <1>2, <1>3, <1>5, <2>1, <2>2, StartsTurn
<1>6. QED
  BY <1>4, <1>5 DEF Enter

LEMMA ReuseTurn ==
  ASSUME IInv, InTurn, NEW c \in Calls, host = "up", Reuse(c) PROVE InTurn'
<1> SUFFICES ASSUME ~crossed'
             PROVE  OneCall' /\ EngineManaged' /\ UnderWayManaged' /\ CallsOnManaged'
  BY DEF InTurn
<1>1. /\ TypeOK /\ OnBoot /\ ~crossed /\ call[c].on \in Boots /\ call[c].at = "reuse"
      /\ c \in UnderWay
  BY DEF IInv, OnBoot, Reuse, UnderWay
<1>2. /\ call'[c].at = "over"
      /\ \A d \in Calls : d # c => call'[d] = call[d]
  BY <1>1, MovesTyped DEF Reuse
<1>3. QED
  BY <1>1, <1>2, OverTurn DEF Reuse

LEMMA RespawnTurn ==
  ASSUME IInv, InTurn, NEW c \in Calls, Respawn(c) PROVE InTurn'
<1> SUFFICES ASSUME ~crossed'
             PROVE  OneCall' /\ EngineManaged' /\ UnderWayManaged' /\ CallsOnManaged'
  BY DEF InTurn
<1>1. /\ TypeOK /\ OnBoot /\ host = "up" /\ ~crossed /\ call[c].on \in Boots
      /\ call[c].at = "reuse" /\ ~Alive(engine[call[c].on]) /\ c \in UnderWay
  BY DEF IInv, OnBoot, Respawn, UnderWay
<1>2. /\ EngineManaged /\ CallsOnManaged
      /\ \A d \in Calls : d # c => call[d].at \in {"idle", "over"}
      /\ \A b \in Boots : boot[b] \notin {"ports", "engine", "scoring"}
  BY <1>1, Turn
<1>3. \A a \in Boots : ~Alive(engine[a])
  BY <1>1, <1>2 DEF EngineManaged, CallsOnManaged
<1>4. PICK s \in Children : s = scoring[call[c].on]
  BY <1>1, Typed
<1>5. PICK sidecars \in [Children -> Life] : sidecars = [sidecar EXCEPT ![s] = Killed(@)]
  <2>1. sidecar \in [Children -> Life] /\ Killed(sidecar[s]) \in Life
    BY <1>1, Typed, Lives
  <2>2. QED
    BY <2>1
<1>6. StartBoot(c, sidecars)
  BY <1>4, <1>5 DEF Respawn
<1>7. QED
  BY <1>1, <1>2, <1>3, <1>5, <1>6, StartsTurn

LEMMA BootedTurn ==
  ASSUME IInv, InTurn, NEW c \in Calls, host = "up", Booted(c) PROVE InTurn'
<1> SUFFICES ASSUME ~crossed'
             PROVE  OneCall' /\ EngineManaged' /\ UnderWayManaged' /\ CallsOnManaged'
  BY DEF InTurn
<1>1. /\ TypeOK /\ OnBoot /\ ~crossed /\ call[c].on \in Boots /\ call[c].at = "boot"
      /\ boot[call[c].on] = "up" /\ c \in UnderWay
  BY DEF IInv, OnBoot, Booted, UnderWay
<1>2. managed # 0 => managed \in Boots
  BY <1>1, BootBounds DEF TypeOK, Boots
<1>3. PICK at \in {"look", "over"}, b \in Boots :
        Moves(c, at, b) /\ (at = "look" => b = managed)
  BY <1>1, <1>2 DEF Booted
<1>4. /\ call'[c].at = at /\ call'[c].on = b
      /\ \A d \in Calls : d # c => call'[d] = call[d]
  BY <1>1, <1>3, MovesTyped
<1>5. /\ EngineManaged
      /\ \A d \in Calls : d # c => call[d].at \in {"idle", "over"}
      /\ \A a \in Boots : boot[a] \notin {"ports", "engine", "scoring"}
  BY <1>1, Turn
<1>6. OneCall'
  BY <1>4, <1>5 DEF OneCall, UnderWay
<1>7. EngineManaged' /\ UnderWayManaged'
  BY <1>5 DEF Booted, EngineManaged, UnderWayManaged
<1>8. CallsOnManaged'
  BY <1>3, <1>4, <1>5 DEF CallsOnManaged, Booted
<1>9. QED
  BY <1>6, <1>7, <1>8

LEMMA RejectedTurn ==
  ASSUME IInv, InTurn, NEW c \in Calls, host = "up", Rejected(c) PROVE InTurn'
<1> SUFFICES ASSUME ~crossed'
             PROVE  OneCall' /\ EngineManaged' /\ UnderWayManaged' /\ CallsOnManaged'
  BY DEF InTurn
<1>1. /\ TypeOK /\ OnBoot /\ ~crossed /\ call[c].on \in Boots
      /\ call[c].at \in {"reuse", "boot", "look"} /\ boot[call[c].on] \in {"failed", "thrown"}
      /\ c \in UnderWay
  BY DEF IInv, OnBoot, Rejected, UnderWay
<1>2. /\ call'[c].at = "over"
      /\ \A d \in Calls : d # c => call'[d] = call[d]
  BY <1>1, MovesTyped DEF Rejected
<1>3. QED
  BY <1>1, <1>2, OverTurn DEF Rejected

LEMMA DoctorTurn ==
  ASSUME IInv, InTurn, NEW c \in Doctors, host = "up",
         Look(c) \/ ProbeHealthy(c) \/ ProbeFails(c)
  PROVE  InTurn'
<1> SUFFICES ASSUME ~crossed'
             PROVE  OneCall' /\ EngineManaged' /\ UnderWayManaged' /\ CallsOnManaged'
  BY DEF InTurn
<1>1. /\ TypeOK /\ OnBoot /\ ~crossed /\ c \in Calls /\ call[c].on \in Boots
      /\ call[c].at \in {"look", "probe"} /\ c \in UnderWay
      /\ UNCHANGED <<boot, engine, managed>>
  BY DEF IInv, OnBoot, Look, ProbeHealthy, ProbeFails, UnderWay, Calls
<1>2. PICK at \in {"probe", "over"} : Moves(c, at, call[c].on)
  BY DEF Look, ProbeHealthy, ProbeFails
<1>3. /\ call'[c].at = at /\ call'[c].on = call[c].on
      /\ \A d \in Calls : d # c => call'[d] = call[d]
  BY <1>1, <1>2, MovesTyped
<1>4. /\ EngineManaged /\ call[c].on = managed
      /\ \A d \in Calls : d # c => call[d].at \in {"idle", "over"}
      /\ \A b \in Boots : boot[b] \notin {"ports", "engine", "scoring"}
  BY <1>1, Turn DEF CallsOnManaged
<1>5. OneCall'
  BY <1>3, <1>4 DEF OneCall, UnderWay
<1>6. EngineManaged' /\ UnderWayManaged'
  BY <1>1, <1>4 DEF EngineManaged, UnderWayManaged
<1>7. CallsOnManaged'
  BY <1>1, <1>3, <1>4 DEF CallsOnManaged
<1>8. QED
  BY <1>5, <1>6, <1>7

LEMMA BootTurn ==
  ASSUME IInv, InTurn, NEW b \in Boots, Boot(b) PROVE InTurn'
<1> SUFFICES ASSUME ~crossed'
             PROVE  OneCall' /\ EngineManaged' /\ UnderWayManaged' /\ CallsOnManaged'
  BY DEF InTurn
<1>1. /\ TypeOK /\ host = "up" /\ ~crossed /\ UNCHANGED call
      /\ boot[b] \in {"ports", "engine", "scoring"}
  BY DEF IInv, Boot, SpawnPair, SpawnThrows, EngineHealthy, EngineFails, ScoringHealthy,
         ScoringFails
<1>2. OneCall /\ EngineManaged /\ UnderWayManaged /\ CallsOnManaged
  BY <1>1 DEF InTurn
<1>3. PICK c \in Calls : call[c].at = "boot" /\ call[c].on = b
  BY <1>1, <1>2 DEF UnderWayManaged
<1>4. \A d \in Calls : d # c => call[d].at \in {"idle", "over"}
  BY <1>2, <1>3 DEF OneCall, UnderWay
<1>5. b = managed /\ \A a \in Boots : a # b => boot[a] \notin {"ports", "engine", "scoring"}
  BY <1>1, <1>2 DEF UnderWayManaged
<1>6. OneCall'
  BY <1>1, <1>2 DEF OneCall, UnderWay
<1>7. CallsOnManaged'
  BY <1>1, <1>3, <1>4 DEF CallsOnManaged
<1>8. CASE EngineFails(b)
  <2>1. PICK p \in killers : p.server = b
    <3>1. killers = {[server |-> b, scoring |-> b]}
      BY <1>2, <1>8 DEF UnderWayManaged, EngineFails
    <3>2. [server |-> b, scoring |-> b].server = b
      OBVIOUS
    <3>3. QED
      BY <3>1, <3>2
  <2>2. ~Alive(engine'[b])
    BY <1>8, <2>1, Lives DEF EngineFails
  <2>3. \A a \in Boots : ~Alive(engine'[a])
    BY <1>2, <1>5, <1>8, <2>2, Lives DEF EngineFails, EngineManaged
  <2>4. boot'[b] = "failed" /\ \A a \in Boots : a # b => boot'[a] = boot[a]
    BY <1>1, <1>8, Typed DEF EngineFails
  <2>5. QED
    BY <1>5, <1>6, <1>7, <2>3, <2>4 DEF EngineManaged, UnderWayManaged
<1>9. CASE EngineHealthy(b) \/ ScoringHealthy(b) \/ ScoringFails(b)
  <2>1. UNCHANGED <<engine, managed>>
    BY <1>9 DEF EngineHealthy, ScoringHealthy, ScoringFails
  <2>2. boot'[b] \in {"scoring", "up"} /\ \A a \in Boots : a # b => boot'[a] = boot[a]
    BY <1>1, <1>9, Typed DEF EngineHealthy, ScoringHealthy, ScoringFails
  <2>3. EngineManaged'
    BY <1>2, <2>1 DEF EngineManaged
  <2>4. UnderWayManaged'
    BY <1>1, <1>3, <1>5, <2>1, <2>2 DEF UnderWayManaged
  <2>5. QED
    BY <1>6, <1>7, <2>3, <2>4
<1>10. CASE SpawnPair(b)
  <2>1. /\ boot'[b] = "engine" /\ \A a \in Boots : a # b => boot'[a] = boot[a]
        /\ \A a \in Boots : a # b => engine'[a] = engine[a]
        /\ UNCHANGED managed
    BY <1>1, <1>10, Typed DEF SpawnPair
  <2>2. killers' = {[server |-> b, scoring |-> b]}
    BY <1>1, <1>10, HooksTyped, BootNumbers DEF SpawnPair
  <2>3. EngineManaged'
    BY <1>2, <1>5, <2>1 DEF EngineManaged
  <2>4. UnderWayManaged'
    BY <1>1, <1>3, <1>5, <2>1, <2>2 DEF UnderWayManaged
  <2>5. QED
    BY <1>6, <1>7, <2>3, <2>4
<1>11. CASE SpawnThrows(b)
  <2>1. /\ boot'[b] = "thrown" /\ \A a \in Boots : a # b => boot'[a] = boot[a]
        /\ UNCHANGED engine
    BY <1>1, <1>11, Typed DEF SpawnThrows
  <2>2. \A a \in Boots : ~Alive(engine[a])
    BY <1>2, <1>5, <1>11 DEF SpawnThrows, EngineManaged, UnderWayManaged
  <2>3. QED
    BY <1>5, <1>6, <1>7, <2>1, <2>2 DEF EngineManaged, UnderWayManaged
<1>12. QED
  BY <1>8, <1>9, <1>10, <1>11 DEF Boot

(* Children come and go; the launcher keeps what it knows of them. *)
LEMMA ChildTurn ==
  ASSUME IInv, InTurn, (\E b \in Boots : Listens(b)) \/ Die PROVE InTurn'
<1>1. UNCHANGED <<host, boot, managed, call, killers, crossed>>
  BY DEF Listens, EngineListens, SidecarListens, Die
<1>2. \A a \in Boots : Alive(engine'[a]) => Alive(engine[a])
  BY Typed DEF IInv, Listens, EngineListens, SidecarListens, Die, Alive
<1>3. QED
  BY <1>1, <1>2 DEF InTurn, OneCall, EngineManaged, UnderWayManaged, CallsOnManaged, UnderWay

LEMMA StepTurn == IInv /\ InTurn /\ [Next]_runtimeVars => InTurn'
<1> SUFFICES ASSUME IInv, InTurn, [Next]_runtimeVars PROVE InTurn'
  OBVIOUS
<1>1. CASE UNCHANGED runtimeVars
  BY <1>1 DEF runtimeVars, InTurn, OneCall, EngineManaged, UnderWayManaged, CallsOnManaged,
              UnderWay
<1>2. ASSUME NEW c \in Calls, Enter(c) PROVE InTurn'
  BY <1>2, EnterTurn
<1>3. ASSUME NEW c \in Calls, Resume(c) PROVE InTurn'
  BY <1>3, ReuseTurn, RespawnTurn, BootedTurn, RejectedTurn, DoctorTurn DEF Resume
<1>4. ASSUME NEW b \in Boots, Boot(b) PROVE InTurn'
  BY <1>4, BootTurn
<1>5. CASE (\E b \in Boots : Listens(b)) \/ Die
  BY <1>5, ChildTurn
<1>6. CASE Exit
  BY <1>6 DEF Exit, InTurn
<1>7. QED
  BY <1>1, <1>2, <1>3, <1>4, <1>5, <1>6 DEF Next

(* As long as no two calls overlap, one engine at most is alive, for any     *)
(* number of calls, deaths, failed or thrown boots and retries               *)
(* (ensureRuntime and boot of runtime.ts).                                   *)
THEOREM OneEngine == Spec => []OneEngineInTurn
<1>1. Init => InTurn
  BY DEF Init, InTurn, OneCall, EngineManaged, UnderWayManaged, CallsOnManaged, UnderWay, Alive
<1>2. ASSUME IInv, InTurn PROVE OneEngineInTurn
  <2> SUFFICES ASSUME ~crossed PROVE Cardinality(Engines) <= 1
    BY DEF OneEngineInTurn
  <2>1. host = "up" \/ Engines = {}
    BY <1>2 DEF IInv, TypeOK, NoOrphans
  <2>2. Engines \in SUBSET {managed}
    BY <1>2, <2>1 DEF InTurn, EngineManaged, Engines
  <2>3. IsFiniteSet({managed}) /\ Cardinality({managed}) = 1
    BY FS_Singleton
  <2>4. QED
    BY <2>2, <2>3, FS_Subset
<1>3. QED
  BY <1>1, <1>2, InitHolds, StepKeeps, StepTurn, PTL DEF Spec
=============================================================================
