------------------------ MODULE TowerAutosaveProofs ------------------------
(***************************************************************************)
(* No edit is taken off the screen before it was sent, for any number of   *)
(* contents, saves and retries.  An adoption under the user's hands needs  *)
(* the screen to show what the latest save carried; Sourced says that such *)
(* a content is on its way, in vain or arrived, because a save that        *)
(* finishes has put its chain on the server, or found it there.            *)
(* And a pane at rest shows what the server has: each answer asks for a    *)
(* refetch, so that nothing the server did for the pane stays unread.      *)
(***************************************************************************)
EXTENDS TowerAutosave, SequenceTheorems, TLAPS

(* A save whose chain the server has not had still has to send it. *)
Landing(s, had) ==
  \/ s.desired.chain \in had
  \/ /\ s.todo # << >> /\ s.todo[Len(s.todo)] # "input"
     /\ s.verdict = "done" => Len(s.todo) > 1

Underway == {saves[i].desired.chain : i \in 1 .. Len(saves)}

Sourced ==
  /\ server.chain \in landed /\ base.chain \in landed
  /\ get.at = "read" => get.stages.chain \in landed
  /\ \A i \in 1 .. Len(saves) : Landing(saves[i], landed)
  /\ \A d \in dispatched : d.chain \in landed \cup spoilt \cup Underway

IInv == TypeOK /\ Sourced

(* A request the server has carried out and that the pane has no answer to. *)
Unanswered == \E i \in 1 .. Len(saves) : saves[i].verdict = "done"

(* Every answer asks for a refetch, so that whatever the server was last     *)
(* asked for is what it has, as long as nobody is owed an answer.            *)
InStep ==
  faults = 0 /\ ~foreign /\ ~Unanswered
    => /\ get.at = "none" => base = server
       /\ get.at = "read" => get.stages = server

-----------------------------------------------------------------------------
(* The helpers *)

(* Of a sequence without its i-th element, the others are left. *)
LEMMA WithoutKeeps ==
  ASSUME saves \in Seq(Saves), NEW i \in 1 .. Len(saves)
  PROVE  /\ Without(i) \in Seq(Saves)
         /\ Len(Without(i)) = Len(saves) - 1
         /\ \A k \in 1 .. Len(saves) - 1 :
              Without(i)[k] = IF k < i THEN saves[k] ELSE saves[k + 1]
<1> DEFINE a == SubSeq(saves, 1, i - 1)
           b == SubSeq(saves, i + 1, Len(saves))
<1>1. Len(saves) \in Nat /\ \A k \in 1 .. Len(saves) : saves[k] \in Saves
  BY LenProperties, ElementOfSeq
<1>2. /\ a \in Seq(Saves) /\ Len(a) = i - 1
      /\ \A k \in 1 .. i - 1 : a[k] = saves[k]
  <2>1. \A k \in 1 .. i - 1 : saves[k] \in Saves
    BY <1>1
  <2>2. QED
    BY <1>1, <2>1, SubSeqProperties
<1>3. /\ b \in Seq(Saves) /\ Len(b) = Len(saves) - i
      /\ \A k \in 1 .. Len(saves) - i : b[k] = saves[i + k]
  <2>1. \A k \in i + 1 .. Len(saves) : saves[k] \in Saves
    BY <1>1
  <2>2. QED
    BY <1>1, <2>1, SubSeqProperties
<1>4. /\ Without(i) \in Seq(Saves) /\ Len(Without(i)) = Len(a) + Len(b)
      /\ \A k \in 1 .. Len(a) + Len(b) : Without(i)[k] = IF k <= Len(a) THEN a[k] ELSE b[k - Len(a)]
  BY <1>2, <1>3, ConcatProperties DEF Without
<1> HIDE DEF a, b
<1>5. PICK n \in Nat : n = Len(saves)
  BY <1>1
<1>6. i \in Nat /\ 1 <= i /\ i <= n /\ (i - 1) + (n - i) = n - 1
  BY <1>5
<1>7. Len(a) = i - 1 /\ Len(Without(i)) = n - 1
  BY <1>2, <1>3, <1>4, <1>5, <1>6
<1>8. ASSUME NEW k \in 1 .. n - 1 PROVE Without(i)[k] = IF k < i THEN saves[k] ELSE saves[k + 1]
  <2>1. k \in 1 .. Len(a) + Len(b)
    BY <1>4, <1>7
  <2>2. CASE k < i
    <3>1. k \in 1 .. i - 1 /\ k <= i - 1
      BY <1>6, <2>2
    <3>2. QED
      BY <1>2, <1>4, <1>7, <2>1, <2>2, <3>1
  <2>3. CASE ~(k < i)
    <3>1. /\ ~(k <= i - 1)
          /\ k - (i - 1) \in 1 .. n - i /\ i + (k - (i - 1)) = k + 1
      BY <1>6, <2>3
    <3>2. Without(i)[k] = b[k - (i - 1)]
      BY <1>4, <1>7, <2>1, <3>1
    <3>3. QED
      BY <1>3, <1>5, <2>3, <3>1, <3>2
  <2>4. QED
    BY <2>2, <2>3
<1>9. QED
  BY <1>4, <1>5, <1>7, <1>8

LEMMA ProjectionTyped ==
  ASSUME NEW chain \in Chains, NEW stages \in Stages
  PROVE  Projection(chain, stages) \in Stages /\ Projection(chain, stages).chain = chain
<1>1. (stages.input \/ chain \in Minting) \in BOOLEAN
  BY DEF Stages
<1>2. QED
  BY <1>1 DEF Projection, Stages

(* What is adopted is a content, the server's or the user's. *)
LEMMA AdoptedTyped ==
  ASSUME TypeOK, NEW stages \in Stages
  PROVE  Adopted(stages) \in Chains
BY DEF TypeOK, Adopted, Stages

(* A diff is a sequence of requests; unless the chain is as wanted already, *)
(* the last of them sets it.                                                *)
LEMMA DiffEndsInChain ==
  ASSUME NEW desired \in Stages, NEW stages \in Stages
  PROVE  /\ Diff(desired, stages) \in Seq(Ops)
         /\ desired.chain # stages.chain =>
              /\ Diff(desired, stages) # << >>
              /\ Diff(desired, stages)[Len(Diff(desired, stages))] # "input"
<1>1. PICK a \in {<< >>, <<"input">>} :
        a = IF desired.input /\ ~stages.input THEN <<"input">> ELSE << >>
  OBVIOUS
<1>2. a \in Seq(Ops) /\ Len(a) \in Nat
  <2>1. << >> \in Seq(Ops) /\ <<"input">> \in Seq(Ops)
    BY DEF Ops
  <2>2. QED
    BY <1>1, <2>1, LenProperties
<1>3. CASE desired.chain = stages.chain
  <2>1. Diff(desired, stages) = a \o << >>
    BY <1>1, <1>3 DEF Diff
  <2>2. QED
    BY <1>2, <1>3, <2>1, ConcatEmptySeq
<1>4. CASE desired.chain # stages.chain
  <2>1. \E op \in {"add", "remove", "patch"} : Diff(desired, stages) = a \o <<op>>
    <3>1. CASE stages.chain = NoChain /\ desired.chain # NoChain
      <4>1. Diff(desired, stages) = a \o <<"add">>
        BY <1>1, <1>4, <3>1 DEF Diff
      <4>2. QED
        BY <4>1
    <3>2. CASE stages.chain # NoChain /\ desired.chain = NoChain
      <4>1. Diff(desired, stages) = a \o <<"remove">>
        BY <1>1, <1>4, <3>2 DEF Diff
      <4>2. QED
        BY <4>1
    <3>3. CASE stages.chain # NoChain /\ desired.chain # NoChain
      <4>1. Diff(desired, stages) = a \o <<"patch">>
        BY <1>1, <1>4, <3>3 DEF Diff
      <4>2. QED
        BY <4>1
    <3>4. QED
      BY <1>4, <3>1, <3>2, <3>3
  <2>2. PICK op \in {"add", "remove", "patch"} : Diff(desired, stages) = a \o <<op>>
    BY <2>1
  <2>3. <<op>> \in Seq(Ops) /\ Len(<<op>>) = 1 /\ <<op>>[1] = op /\ op # "input"
    BY DEF Ops
  <2>4. PICK d : d = a \o <<op>>
    OBVIOUS
  <2>5. /\ d \in Seq(Ops) /\ Len(d) = Len(a) + 1
        /\ d[Len(a) + 1] = op
    <3>1. Len(a) + 1 \in 1 .. Len(a) + Len(<<op>>) /\ ~(Len(a) + 1 <= Len(a))
          /\ Len(a) + 1 - Len(a) = 1
      BY <1>2, <2>3
    <3>2. QED
      BY <1>2, <2>3, <2>4, <3>1, ConcatProperties
  <2>6. d # << >>
    BY <1>2, <2>5, EmptySeq
  <2>7. QED
    BY <1>4, <2>2, <2>3, <2>4, <2>5, <2>6
<1>5. QED
  BY <1>3, <1>4

-----------------------------------------------------------------------------
(* What a save brings about when it starts and when it ends *)

Types == /\ dispatched \in {{}} \cup {{s} : s \in Stages}
         /\ saves \in Seq(Saves)

Carried == /\ \A i \in 1 .. Len(saves) : Landing(saves[i], landed)
           /\ \A d \in dispatched : d.chain \in landed \cup spoilt \cup Underway

(* A new save carries what the screen shows, and its requests set the chain *)
(* unless the cache, and so the server once, had it.                        *)
LEMMA StartCarries ==
  ASSUME IInv, NEW awaited \in BOOLEAN, StartSave(awaited),
         UNCHANGED <<landed, spoilt>>
  PROVE  Types' /\ Carried' /\ saving' \in BOOLEAN
<1> DEFINE desired == Projection(edited, base)
           s == [desired |-> desired, todo |-> Diff(desired, base),
                 awaited |-> awaited, by |-> mounts, verdict |-> "sent"]
<1>1. desired \in Stages /\ base \in Stages
  BY ProjectionTyped DEF IInv, TypeOK
<1>2. /\ Diff(desired, base) \in Seq(Ops)
      /\ desired.chain # base.chain =>
           /\ Diff(desired, base) # << >>
           /\ Diff(desired, base)[Len(Diff(desired, base))] # "input"
  BY <1>1, DiffEndsInChain
<1>3. s \in Saves /\ s.desired = desired
  BY <1>1, <1>2 DEF Saves, IInv, TypeOK
<1>4. saves' = Append(saves, s) /\ dispatched' = {desired} /\ saving' = TRUE
  BY DEF StartSave
<1>5. Landing(s, landed)
  BY <1>2 DEF Landing, IInv, Sourced
<1> HIDE DEF s, desired
<1>6. saves \in Seq(Saves)
  BY DEF IInv, TypeOK
<1>7. /\ saves' \in Seq(Saves) /\ Len(saves') = Len(saves) + 1
      /\ saves'[Len(saves) + 1] = s
      /\ \A i \in 1 .. Len(saves) : saves'[i] = saves[i]
  BY <1>3, <1>4, <1>6
<1>8. Len(saves) \in Nat
  BY <1>6
<1>9. \A i \in 1 .. Len(saves') : Landing(saves'[i], landed')
  <2> SUFFICES ASSUME NEW i \in 1 .. Len(saves') PROVE Landing(saves'[i], landed')
    OBVIOUS
  <2>1. CASE i = Len(saves) + 1
    BY <1>5, <1>7, <2>1 DEF Landing
  <2>2. CASE i # Len(saves) + 1
    <3>1. i \in 1 .. Len(saves)
      BY <1>7, <1>8, <2>2
    <3>2. QED
      BY <1>7, <3>1 DEF Landing, IInv, Sourced
  <2>3. QED
    BY <2>1, <2>2
<1>10. desired.chain \in Underway'
  <2>1. Len(saves) + 1 \in 1 .. Len(saves')
    BY <1>7, <1>8
  <2>2. QED
    BY <1>3, <1>7, <2>1 DEF Underway
<1>11. QED
  BY <1>1, <1>4, <1>7, <1>9, <1>10 DEF Types, Carried

(* A save that ends, its chain landed or given up, takes nothing with it. *)
LEMMA EndCarries ==
  ASSUME IInv, NEW i \in 1 .. Len(saves), saves' = Without(i),
         saves[i].desired.chain \in landed \cup spoilt',
         spoilt \subseteq spoilt', UNCHANGED <<dispatched, landed>>
  PROVE  Types' /\ Carried'
<1>1. saves \in Seq(Saves) /\ Len(saves) \in Nat
  BY DEF IInv, TypeOK
<1>2. /\ saves' \in Seq(Saves) /\ Len(saves') = Len(saves) - 1
      /\ \A k \in 1 .. Len(saves') : saves'[k] = IF k < i THEN saves[k] ELSE saves[k + 1]
  BY <1>1, WithoutKeeps
<1>3. \A k \in 1 .. Len(saves') : \E j \in 1 .. Len(saves) : saves'[k] = saves[j]
  <2> SUFFICES ASSUME NEW k \in 1 .. Len(saves')
               PROVE  \E j \in 1 .. Len(saves) : saves'[k] = saves[j]
    OBVIOUS
  <2>1. k \in 1 .. Len(saves) /\ k + 1 \in 1 .. Len(saves)
    BY <1>1, <1>2
  <2>2. QED
    BY <1>2, <2>1
<1>4. \A j \in 1 .. Len(saves) :
        j # i => \E k \in 1 .. Len(saves') : saves'[k] = saves[j]
  <2> SUFFICES ASSUME NEW j \in 1 .. Len(saves), j # i
               PROVE  \E k \in 1 .. Len(saves') : saves'[k] = saves[j]
    OBVIOUS
  <2>1. CASE j < i
    <3>1. j \in 1 .. Len(saves')
      BY <1>1, <1>2, <2>1
    <3>2. QED
      BY <1>2, <2>1, <3>1
  <2>2. CASE j > i
    <3>1. j - 1 \in 1 .. Len(saves') /\ ~(j - 1 < i) /\ j - 1 + 1 = j
      BY <1>1, <1>2, <2>2
    <3>2. QED
      BY <1>2, <3>1
  <2>3. QED
    BY <1>1, <2>1, <2>2
<1>5. \A k \in 1 .. Len(saves') : Landing(saves'[k], landed')
  BY <1>3 DEF Landing, IInv, Sourced
<1>6. \A d \in dispatched : d.chain \in landed \cup spoilt' \cup Underway'
  <2> SUFFICES ASSUME NEW d \in dispatched, d.chain \in Underway
               PROVE  d.chain \in landed \cup spoilt' \cup Underway'
    BY DEF IInv, Sourced
  <2>1. PICK j \in 1 .. Len(saves) : d.chain = saves[j].desired.chain
    BY DEF Underway
  <2>2. CASE j = i
    BY <2>1, <2>2
  <2>3. CASE j # i
    <3>1. PICK k \in 1 .. Len(saves') : saves'[k] = saves[j]
      BY <1>4, <2>3
    <3>2. QED
      BY <2>1, <3>1 DEF Underway
  <2>4. QED
    BY <2>2, <2>3
<1>7. QED
  BY <1>2, <1>5, <1>6 DEF Types, Carried, IInv, TypeOK

(* A save that goes on carries what it did. *)
LEMMA GoesOnCarries ==
  ASSUME IInv, NEW i \in 1 .. Len(saves), NEW s \in Saves,
         saves' = [saves EXCEPT ![i] = s], s.desired = saves[i].desired,
         landed \subseteq landed', Landing(s, landed'), UNCHANGED <<dispatched, spoilt>>
  PROVE  Types' /\ Carried'
<1>1. saves \in Seq(Saves)
  BY DEF IInv, TypeOK
<1>2. /\ saves' \in Seq(Saves) /\ Len(saves') = Len(saves)
      /\ \A j \in 1 .. Len(saves) : saves'[j] = IF j = i THEN s ELSE saves[j]
  BY <1>1, ExceptSeq
<1>3. \A j \in 1 .. Len(saves') : Landing(saves'[j], landed')
  BY <1>2 DEF Landing, IInv, Sourced
<1>4. Underway' = Underway
  BY <1>2 DEF Underway
<1>5. \A d \in dispatched' : d.chain \in landed' \cup spoilt' \cup Underway'
  BY <1>4 DEF IInv, Sourced
<1>6. QED
  BY <1>2, <1>3, <1>5 DEF Types, Carried, IInv, TypeOK

(* What is drawn from an answer is typed. *)
LEMMA CacheTyped ==
  ASSUME TypeOK, NEW stages \in Stages, Cache(stages)
  PROVE  base' \in Stages /\ base' = stages /\ edited' \in Chains
BY AdoptedTyped DEF Cache, TypeOK

LEMMA AskedTyped ==
  /\ [NoGet EXCEPT !.at = "asked"] \in [at : {"none", "asked", "read"}, stages : Stages]
  /\ [NoGet EXCEPT !.at = "asked"].at = "asked"
<1>1. [chain |-> NoChain, input |-> FALSE] \in Stages
  BY ChainBound DEF Stages, Chains, NoChain
<1>2. [NoGet EXCEPT !.at = "asked"]
        = [at |-> "asked", stages |-> [chain |-> NoChain, input |-> FALSE]]
  <2>1. \A st : [[at |-> "none", stages |-> st] EXCEPT !.at = "asked"]
                 = [at |-> "asked", stages |-> st]
    OBVIOUS
  <2>2. QED
    BY <2>1 DEF NoGet
<1>3. QED
  BY <1>1, <1>2

-----------------------------------------------------------------------------
(* The invariant, action by action *)

LEMMA InitInv == Init => IInv
<1> SUFFICES ASSUME Init PROVE IInv
  OBVIOUS
<1>1. PICK chain \in {NoChain, 1} :
        /\ server = [chain |-> chain, input |-> chain \in Minting]
        /\ base = server /\ edited = chain /\ landed = {chain}
  BY DEF Init
<1>2. chain \in Chains /\ 0 \in Chains /\ 2 \in 1 .. MaxChain + 1
  BY ChainBound DEF Chains, NoChain
<1>3. (chain \in Minting) \in BOOLEAN
  OBVIOUS
<1>4. server \in Stages /\ server.chain = chain
  BY <1>1, <1>2, <1>3 DEF Stages
<1>5. get \in [at : {"none", "asked", "read"}, stages : Stages] /\ get.at = "none"
  BY <1>2 DEF Init, NoGet, NoChain, Stages
<1>6. freeze \in [at : {"idle", "flushing", "composing"}, owed : SUBSET Chains]
  BY DEF Init, NotFreezing
<1>7. TypeOK
  <2>1. /\ server \in Stages /\ base \in Stages /\ edited \in Chains /\ landed \subseteq Chains
        /\ spoilt \subseteq Chains
    BY <1>1, <1>2, <1>4 DEF Init
  <2>2. saves \in Seq(Saves)
    BY DEF Init
  <2>3. trips \in 0 .. MaxTrips /\ faults \in 0 .. MaxFaults
    BY SaveBounds DEF Init
  <2>4. QED
    BY <1>2, <1>5, <1>6, <2>1, <2>2, <2>3 DEF TypeOK, Init
<1>8. Sourced
  BY <1>1, <1>4, <1>5, EmptySeq DEF Sourced, Init
<1>9. QED
  BY <1>7, <1>8 DEF IInv

LEMMA EditInv == IInv /\ Edit => IInv'
<1> SUFFICES ASSUME IInv, Edit PROVE IInv'
  OBVIOUS
<1>1. fresh \in Chains /\ NoChain \in Chains /\ fresh + 1 \in 1 .. MaxChain + 1
  BY ChainBound DEF Edit, IInv, TypeOK, Chains, NoChain
<1>2. TypeOK'
  BY <1>1 DEF Edit, IInv, TypeOK
<1>3. Sourced'
  BY DEF Edit, IInv, Sourced, Underway
<1>4. QED
  BY <1>2, <1>3 DEF IInv

LEMMA AutosaveInv == IInv /\ Autosave => IInv'
<1> SUFFICES ASSUME IInv, Autosave PROVE IInv'
  OBVIOUS
<1>1. Types' /\ Carried' /\ saving' \in BOOLEAN
  BY StartCarries DEF Autosave
<1>2. TypeOK'
  BY <1>1 DEF Autosave, IInv, TypeOK, Types
<1>3. Sourced'
  BY <1>1 DEF Autosave, IInv, Sourced, Carried
<1>4. QED
  BY <1>2, <1>3 DEF IInv

(* The pane may or may not start a save as it is left or as a version is    *)
(* frozen.                                                                  *)
LEMMA MayStart ==
  ASSUME IInv, NEW awaited \in BOOLEAN, UNCHANGED <<landed, spoilt>>,
         StartSave(awaited) \/ UNCHANGED <<dispatched, saving, saves>>
  PROVE  Types' /\ Carried' /\ saving' \in BOOLEAN
<1>1. CASE StartSave(awaited)
  BY <1>1, StartCarries
<1>2. CASE UNCHANGED <<dispatched, saving, saves>>
  BY <1>2 DEF IInv, TypeOK, Sourced, Types, Carried, Underway
<1>3. QED
  BY <1>1, <1>2

LEMMA LeaveInv == IInv /\ Leave => IInv'
<1> SUFFICES ASSUME IInv, Leave PROVE IInv'
  OBVIOUS
<1>1. Types' /\ Carried' /\ saving' \in BOOLEAN
  BY MayStart DEF Leave
<1>2. trips' \in 0 .. MaxTrips
  BY SaveBounds DEF Leave, IInv, TypeOK
<1>3. TypeOK'
  BY <1>1, <1>2 DEF Leave, IInv, TypeOK, Types
<1>4. Sourced'
  BY <1>1 DEF Leave, IInv, Sourced, Carried
<1>5. QED
  BY <1>3, <1>4 DEF IInv

LEMMA ClickFreezeInv == IInv /\ ClickFreeze => IInv'
<1> SUFFICES ASSUME IInv, ClickFreeze PROVE IInv'
  OBVIOUS
<1>1. Types' /\ Carried' /\ saving' \in BOOLEAN
  BY MayStart DEF ClickFreeze
<1>2. trips' \in 0 .. MaxTrips
  BY SaveBounds DEF ClickFreeze, IInv, TypeOK
<1>3. freeze' \in [at : {"idle", "flushing", "composing"}, owed : SUBSET Chains]
  <2>1. edited \in Chains
    BY DEF IInv, TypeOK
  <2>2. PICK owed \in {{}, {edited}} : freeze' = [at |-> "flushing", owed |-> owed]
    BY DEF ClickFreeze
  <2>3. QED
    BY <2>1, <2>2
<1>4. TypeOK'
  BY <1>1, <1>2, <1>3 DEF ClickFreeze, IInv, TypeOK, Types
<1>5. Sourced'
  BY <1>1 DEF ClickFreeze, IInv, Sourced, Carried
<1>6. QED
  BY <1>4, <1>5 DEF IInv

(* Return, the freeze's later steps and a refetch that is asked for.        *)
LEMMA QuietInv == IInv /\ (Return \/ PostFreeze \/ Compose \/ Refetch) => IInv'
<1> SUFFICES ASSUME IInv, Return \/ PostFreeze \/ Compose \/ Refetch PROVE IInv'
  OBVIOUS
<1>1. CASE Return
  <2>1. TypeOK'
    BY <1>1 DEF Return, IInv, TypeOK, Stages
  <2>2. Sourced'
    BY <1>1 DEF Return, IInv, Sourced
  <2>3. QED
    BY <2>1, <2>2 DEF IInv
<1>2. CASE PostFreeze
  BY <1>2 DEF PostFreeze, IInv, TypeOK, Sourced, Underway
<1>3. CASE Compose
  BY <1>3 DEF Compose, NotFreezing, IInv, TypeOK, Sourced, Underway
<1>4. CASE Refetch
  <2>1. get' \in [at : {"none", "asked", "read"}, stages : Stages] /\ get'.at = "asked"
    BY <1>4, AskedTyped DEF Refetch
  <2>2. trips' \in 0 .. MaxTrips
    BY <1>4, SaveBounds DEF Refetch, IInv, TypeOK
  <2>3. TypeOK'
    BY <1>4, <2>1, <2>2 DEF Refetch, IInv, TypeOK
  <2>4. Sourced'
    BY <1>4, <2>1 DEF Refetch, IInv, Sourced, Underway
  <2>5. QED
    BY <2>3, <2>4 DEF IInv
<1>5. QED
  BY <1>1, <1>2, <1>3, <1>4

LEMMA OthersInv == IInv /\ OthersWrite => IInv'
<1> SUFFICES ASSUME IInv, OthersWrite PROVE IInv'
  OBVIOUS
<1>1. /\ server' \in Stages /\ server'.chain \in landed' /\ landed \subseteq landed'
      /\ landed' \subseteq Chains /\ fresh' \in 1 .. MaxChain + 1
  <2>1. CASE fresh <= MaxChain /\ server' = Projection(fresh, server)
             /\ fresh' = fresh + 1 /\ landed' = landed \cup {fresh}
    <3>1. fresh \in Chains /\ fresh + 1 \in 1 .. MaxChain + 1
      BY <2>1, ChainBound DEF IInv, TypeOK, Chains
    <3>2. QED
      BY <2>1, <3>1, ProjectionTyped DEF IInv, TypeOK
  <2>2. CASE server' = [server EXCEPT !.input = TRUE] /\ UNCHANGED <<fresh, landed>>
    BY <2>2 DEF IInv, TypeOK, Sourced, Stages
  <2>3. QED
    BY <2>1, <2>2 DEF OthersWrite
<1>2. TypeOK'
  BY <1>1 DEF OthersWrite, IInv, TypeOK
<1>3. Sourced'
  BY <1>1 DEF OthersWrite, IInv, Sourced, Landing, Underway
<1>4. QED
  BY <1>2, <1>3 DEF IInv

LEMMA ReadInv == IInv /\ (Read \/ Deliver) => IInv'
<1> SUFFICES ASSUME IInv, Read \/ Deliver PROVE IInv'
  OBVIOUS
<1>1. CASE Read
  <2>1. get' \in [at : {"none", "asked", "read"}, stages : Stages]
    BY <1>1 DEF Read, IInv, TypeOK
  <2>2. TypeOK'
    BY <1>1, <2>1 DEF Read, IInv, TypeOK
  <2>3. Sourced'
    BY <1>1 DEF Read, IInv, Sourced, Underway
  <2>4. QED
    BY <2>2, <2>3 DEF IInv
<1>2. CASE Deliver
  <2>1. get' \in [at : {"none", "asked", "read"}, stages : Stages] /\ get'.at = "none"
    BY <1>2, ChainBound DEF Deliver, NoGet, NoChain, Stages, Chains
  <2>2. get.stages \in Stages /\ get.stages.chain \in landed
    BY <1>2 DEF Deliver, IInv, TypeOK, Sourced
  <2>3. base' \in Stages /\ base' = get.stages /\ edited' \in Chains
    BY <1>2, <2>2, CacheTyped DEF Deliver, IInv
  <2>4. TypeOK'
    BY <1>2, <2>1, <2>3 DEF Deliver, IInv, TypeOK
  <2>5. Sourced'
    BY <1>2, <2>1, <2>2, <2>3 DEF Deliver, IInv, Sourced, Underway
  <2>6. QED
    BY <2>4, <2>5 DEF IInv
<1>3. QED
  BY <1>1, <1>2

(* The last request of a save puts its chain on the server. *)
LEMMA ServeInv ==
  ASSUME IInv, NEW i \in 1 .. Len(saves), Serve(i)
  PROVE  IInv'
<1> DEFINE s == saves[i]
           op == Head(s.todo)
<1>1. s \in Saves
  BY DEF IInv, TypeOK
<1>2. /\ s.desired \in Stages /\ s.todo \in Seq(Ops) /\ Landing(s, landed) /\ s.verdict = "sent"
      /\ server \in Stages /\ server.chain \in landed /\ landed \subseteq Chains
  BY <1>1 DEF Serve, Saves, IInv, TypeOK, Sourced
<1>3. CASE Accepts(op)
  <2> DEFINE t == [s EXCEPT !.verdict = "done"]
  <2>1. saves' = [saves EXCEPT ![i] = t]
    BY <1>3 DEF Serve
  <2>2. t \in Saves /\ t.desired = s.desired /\ t.todo = s.todo /\ t.verdict = "done"
    BY <1>1 DEF Saves
  <2>3. /\ server' = IF op = "input" THEN [server EXCEPT !.input = TRUE]
                     ELSE [server EXCEPT !.chain = s.desired.chain]
        /\ landed' = landed \cup {server'.chain}
    BY <1>3 DEF Serve
  <2>4. /\ server' \in Stages
        /\ op # "input" => s.desired.chain \in landed'
    BY <1>2, <2>3 DEF Stages
  <2> HIDE DEF t
  <2>5. Landing(t, landed')
    <3>1. CASE s.desired.chain \in landed
      BY <2>2, <2>3, <3>1 DEF Landing
    <3>2. CASE s.desired.chain \notin landed
      <4>1. s.todo # << >> /\ s.todo[Len(s.todo)] # "input" /\ Len(s.todo) \in Nat \ {0}
        BY <1>2, <3>2, EmptySeq DEF Landing
      <4>2. CASE Len(s.todo) = 1
        <5>1. op = s.todo[1]
          BY <1>2, <4>1
        <5>2. QED
          BY <2>2, <2>4, <4>1, <4>2, <5>1 DEF Landing
      <4>3. CASE Len(s.todo) > 1
        BY <2>2, <4>1, <4>3 DEF Landing
      <4>4. Len(s.todo) = 1 \/ Len(s.todo) > 1
        <5>1. \A n \in Nat \ {0} : n = 1 \/ n > 1
          OBVIOUS
        <5>2. QED
          BY <4>1, <5>1
      <4>5. QED
        BY <4>2, <4>3, <4>4
    <3>3. QED
      BY <3>1, <3>2
  <2>6. UNCHANGED <<dispatched, spoilt>>
    BY DEF Serve
  <2>7. Types' /\ Carried'
    BY <2>1, <2>2, <2>3, <2>5, <2>6, GoesOnCarries
  <2>8. TypeOK'
    <3>1. landed' \subseteq Chains
      BY <1>2, <2>3, <2>4 DEF Stages
    <3>2. QED
      BY <2>4, <2>7, <3>1 DEF Serve, IInv, TypeOK, Types
  <2>9. Sourced'
    BY <2>3, <2>7 DEF Serve, IInv, Sourced, Carried
  <2>10. QED
    BY <2>8, <2>9 DEF IInv
<1>4. CASE ~Accepts(op)
  <2> DEFINE t == [s EXCEPT !.verdict = "refused"]
  <2>1. saves' = [saves EXCEPT ![i] = t] /\ UNCHANGED <<server, landed, dispatched, spoilt>>
    BY <1>4 DEF Serve
  <2>2. t \in Saves /\ t.desired = s.desired /\ t.todo = s.todo /\ t.verdict = "refused"
    BY <1>1 DEF Saves
  <2>3. Landing(t, landed')
    BY <1>2, <2>1, <2>2 DEF Landing
  <2> HIDE DEF t
  <2>4. Types' /\ Carried'
    BY <2>1, <2>2, <2>3, GoesOnCarries
  <2>5. TypeOK'
    BY <2>1, <2>4 DEF Serve, IInv, TypeOK, Types
  <2>6. Sourced'
    BY <2>1, <2>4 DEF Serve, IInv, Sourced, Carried
  <2>7. QED
    BY <2>5, <2>6 DEF IInv
<1>5. QED
  BY <1>3, <1>4

(* A save that fails is remembered as spoilt. *)
LEMMA GiveUpInv ==
  ASSUME IInv, NEW i \in 1 .. Len(saves), Refused(i) \/ Lose(i)
  PROVE  IInv'
<1>1. GiveUp(i) /\ UNCHANGED <<server, base, edited, dispatched, get, pane, mounts,
                               freeze, fresh, landed, foreign, trips>>
  BY DEF Refused, Lose
<1>2. saves[i].desired.chain \in Chains
  <2>1. saves[i] \in Saves
    BY DEF IInv, TypeOK
  <2>2. QED
    BY <2>1 DEF Saves, Stages
<1>3. Types' /\ Carried'
  BY <1>1, EndCarries DEF GiveUp
<1>4. faults' \in 0 .. MaxFaults
  BY SaveBounds DEF Refused, Lose, IInv, TypeOK
<1>5. streak' \in Nat /\ spoilt' \subseteq Chains /\ saving' \in BOOLEAN
  <2>1. streak \in Nat /\ spoilt \subseteq Chains /\ streak + 1 \in Nat
    BY DEF IInv, TypeOK
  <2>2. /\ streak' = streak + 1 \/ streak' = streak
        /\ spoilt' = spoilt \cup {saves[i].desired.chain} /\ saving' = FALSE
    BY <1>1 DEF GiveUp
  <2>3. QED
    BY <1>2, <2>1, <2>2
<1>6. TypeOK'
  BY <1>1, <1>3, <1>4, <1>5 DEF IInv, TypeOK, Types
<1>7. Sourced'
  BY <1>1, <1>3 DEF IInv, Sourced, Carried
<1>8. QED
  BY <1>6, <1>7 DEF IInv

(* An answer sends the next request; the last one shows what the save made. *)
LEMMA AnswerInv ==
  ASSUME IInv, NEW i \in 1 .. Len(saves), Answer(i)
  PROVE  IInv'
<1> DEFINE s == saves[i]
<1>1. s \in Saves
  BY DEF IInv, TypeOK
<1>2. /\ s.desired \in Stages /\ s.todo \in Seq(Ops) /\ Landing(s, landed) /\ s.verdict = "done"
      /\ Len(s.todo) \in Nat
  BY <1>1, LenProperties DEF Answer, Saves, IInv, Sourced
<1>3. get' \in [at : {"none", "asked", "read"}, stages : Stages] /\ get'.at = "asked"
  BY AskedTyped DEF Answer
<1>4. UNCHANGED <<server, dispatched, pane, mounts, freeze, fresh, landed, spoilt,
                  foreign, trips, faults>>
  BY DEF Answer
<1>5. CASE Len(s.todo) > 1
  <2> DEFINE t == [s EXCEPT !.todo = Tail(@), !.verdict = "sent"]
  <2>1. saves' = [saves EXCEPT ![i] = t] /\ UNCHANGED <<base, edited, saving, streak>>
    BY <1>5 DEF Answer
  <2>2. s.todo # << >>
    BY <1>5, EmptySeq
  <2>3. /\ Tail(s.todo) \in Seq(Ops) /\ Len(Tail(s.todo)) = Len(s.todo) - 1
        /\ Tail(s.todo)[Len(s.todo) - 1] = s.todo[Len(s.todo)]
    <3>1. /\ Tail(s.todo) \in Seq(Ops) /\ Len(Tail(s.todo)) = Len(s.todo) - 1
          /\ \A k \in 1 .. Len(Tail(s.todo)) : Tail(s.todo)[k] = s.todo[k + 1]
      BY <1>2, <2>2, HeadTailProperties
    <3>2. Len(s.todo) - 1 \in 1 .. Len(Tail(s.todo)) /\ (Len(s.todo) - 1) + 1 = Len(s.todo)
      BY <1>2, <1>5, <3>1
    <3>3. QED
      BY <3>1, <3>2
  <2>4. t \in Saves /\ t.desired = s.desired /\ t.todo = Tail(s.todo) /\ t.verdict = "sent"
    BY <1>1, <2>3 DEF Saves
  <2>5. Tail(s.todo) # << >>
    <3>1. Len(Tail(s.todo)) # 0 /\ Len(<< >>) = 0
      BY <1>2, <1>5, <2>3
    <3>2. QED
      BY <3>1
  <2>6. Landing(t, landed')
    BY <1>2, <1>4, <2>3, <2>4, <2>5 DEF Landing
  <2> HIDE DEF t
  <2>7. Types' /\ Carried'
    BY <1>4, <2>1, <2>4, <2>6, GoesOnCarries
  <2>8. TypeOK'
    BY <1>3, <1>4, <2>1, <2>7 DEF IInv, TypeOK, Types
  <2>9. Sourced'
    BY <1>3, <1>4, <2>1, <2>7 DEF IInv, Sourced, Carried
  <2>10. QED
    BY <2>8, <2>9 DEF IInv
<1>6. CASE ~(Len(s.todo) > 1)
  <2>1. /\ saves' = Without(i) /\ saving' = FALSE /\ Cache(s.desired)
        /\ streak' = IF Counts(s) THEN 0 ELSE streak
    BY <1>6 DEF Answer
  <2>2. s.desired.chain \in landed
    BY <1>2, <1>6 DEF Landing
  <2>3. Types' /\ Carried'
    BY <1>4, <2>1, <2>2, EndCarries
  <2>4. base' \in Stages /\ base' = s.desired /\ edited' \in Chains
    BY <1>2, <2>1, CacheTyped DEF IInv
  <2>5. TypeOK'
    BY <1>3, <1>4, <2>1, <2>3, <2>4 DEF IInv, TypeOK, Types
  <2>6. Sourced'
    BY <1>3, <1>4, <2>2, <2>3, <2>4 DEF IInv, Sourced, Carried
  <2>7. QED
    BY <2>5, <2>6 DEF IInv
<1>7. QED
  BY <1>5, <1>6

LEMMA NextInv == IInv /\ [Next]_towerVars => IInv'
<1> SUFFICES ASSUME IInv, [Next]_towerVars PROVE IInv'
  OBVIOUS
<1>1. CASE UNCHANGED towerVars
  BY <1>1 DEF towerVars, IInv, TypeOK, Sourced, Underway
<1>2. ASSUME NEW i \in 1 .. Len(saves), Request(i) \/ Lose(i) PROVE IInv'
  BY <1>2, ServeInv, AnswerInv, GiveUpInv DEF Request
<1>3. QED
  BY <1>1, <1>2, EditInv, LeaveInv, QuietInv, ClickFreezeInv, AutosaveInv, OthersInv, ReadInv
     DEF Next

-----------------------------------------------------------------------------
(* The cache and the server *)

(* A new save has no answer to wait for yet, and leaves the others theirs. *)
LEMMA StartOwes ==
  ASSUME TypeOK, NEW awaited \in BOOLEAN, StartSave(awaited), Unanswered
  PROVE  Unanswered'
<1>1. PICK n \in Saves : saves' = Append(saves, n)
  <2>1. Projection(edited, base) \in Stages
    BY ProjectionTyped DEF TypeOK
  <2>2. Diff(Projection(edited, base), base) \in Seq(Ops)
    BY <2>1, DiffEndsInChain DEF TypeOK
  <2>3. mounts \in Nat
    BY DEF TypeOK
  <2>4. QED
    BY <2>1, <2>2, <2>3 DEF StartSave, Saves
<1>2. PICK i \in 1 .. Len(saves) : saves[i].verdict = "done"
  BY DEF Unanswered
<1>3. i \in 1 .. Len(saves') /\ saves'[i] = saves[i]
  BY <1>1, <1>2, AppendProperties, LenProperties DEF TypeOK
<1>4. QED
  BY <1>2, <1>3 DEF Unanswered

(* A refused save was owed nothing: the others wait as before. *)
LEMMA RefusalOwes ==
  ASSUME TypeOK, NEW i \in 1 .. Len(saves), Refused(i), Unanswered
  PROVE  Unanswered'
<1>1. PICK n \in Nat : n = Len(saves)
  BY LenProperties DEF TypeOK
<1>2. PICK k \in 1 .. n : saves[k].verdict = "done"
  BY <1>1 DEF Unanswered
<1>3. /\ saves' = Without(i) /\ Len(saves') = n - 1 /\ i \in 1 .. n /\ k # i
      /\ \A j \in 1 .. n - 1 : saves'[j] = IF j < i THEN saves[j] ELSE saves[j + 1]
  BY <1>1, <1>2, WithoutKeeps DEF Refused, GiveUp, TypeOK
<1>4. CASE k < i
  <2>1. k \in 1 .. n - 1
    BY <1>3, <1>4
  <2>2. QED
    BY <1>2, <1>3, <1>4, <2>1 DEF Unanswered
<1>5. CASE i < k
  <2>1. PICK j \in 1 .. n - 1 : j + 1 = k /\ ~(j < i)
    BY <1>2, <1>3, <1>5
  <2>2. saves'[j].verdict = "done"
    BY <1>2, <1>3, <2>1
  <2>3. QED
    BY <1>3, <2>2 DEF Unanswered
<1>6. QED
  BY <1>3, <1>4, <1>5

(* Only an answer, a read and a delivery move what the cache holds of the    *)
(* server, and only a request of the pane's or a write of others the server. *)
LEMMA InStepStep ==
  ASSUME TypeOK, InStep, [Next]_towerVars
  PROVE  InStep'
<1>1. CASE UNCHANGED towerVars
  BY <1>1 DEF towerVars, InStep, Unanswered
<1>2. CASE Edit \/ Return \/ PostFreeze \/ Compose
  BY <1>2 DEF Edit, Return, PostFreeze, Compose, InStep, Unanswered
<1>3. CASE Autosave \/ Leave \/ ClickFreeze
  <2>1. UNCHANGED <<server, base, get, foreign, faults>>
    BY <1>3 DEF Autosave, Leave, ClickFreeze
  <2>2. UNCHANGED saves \/ \E awaited \in BOOLEAN : StartSave(awaited)
    BY <1>3 DEF Autosave, Leave, ClickFreeze
  <2>3. Unanswered => Unanswered'
    BY <2>2, StartOwes DEF Unanswered
  <2>4. QED
    BY <2>1, <2>3 DEF InStep
<1>4. CASE OthersWrite
  BY <1>4 DEF OthersWrite, InStep
<1>5. CASE Refetch
  BY <1>5 DEF Refetch, NoGet, InStep
<1>6. CASE Read
  BY <1>6 DEF Read, InStep
<1>7. CASE Deliver
  BY <1>7 DEF Deliver, Cache, NoGet, InStep, Unanswered
<1>8. ASSUME NEW i \in 1 .. Len(saves), Serve(i) PROVE InStep'
  <2>1. UNCHANGED <<base, get, foreign, faults>>
    BY <1>8 DEF Serve
  <2>2. PICK t : saves' = [saves EXCEPT ![i] = t] /\ (t.verdict = "done" \/ UNCHANGED server)
    <3>1. CASE Accepts(Head(saves[i].todo))
      <4>1. saves' = [saves EXCEPT ![i] = [saves[i] EXCEPT !.verdict = "done"]]
        BY <1>8, <3>1 DEF Serve
      <4>2. [saves[i] EXCEPT !.verdict = "done"].verdict = "done"
        BY DEF TypeOK, Saves
      <4>3. QED
        BY <4>1, <4>2
    <3>2. CASE ~Accepts(Head(saves[i].todo))
      <4>1. /\ saves' = [saves EXCEPT ![i] = [saves[i] EXCEPT !.verdict = "refused"]]
            /\ UNCHANGED server
        BY <1>8, <3>2 DEF Serve
      <4>2. QED
        BY <4>1
    <3>3. QED
      BY <3>1, <3>2
  <2>3. Len(saves') = Len(saves) /\ saves'[i] = t
        /\ \A k \in 1 .. Len(saves) : k # i => saves'[k] = saves[k]
    BY <2>2, ExceptSeq DEF TypeOK
  <2>4. CASE t.verdict = "done"
    BY <2>1, <2>3, <2>4 DEF InStep, Unanswered
  <2>5. CASE UNCHANGED server
    <3>1. Unanswered => Unanswered'
      BY <1>8, <2>3 DEF Unanswered, Serve
    <3>2. QED
      BY <2>1, <2>5, <3>1 DEF InStep
  <2>6. QED
    BY <2>2, <2>4, <2>5
<1>9. ASSUME NEW i \in 1 .. Len(saves), Answer(i) PROVE InStep'
  BY <1>9 DEF Answer, NoGet, InStep
<1>10. ASSUME NEW i \in 1 .. Len(saves), Refused(i) PROVE InStep'
  <2>1. Unanswered => Unanswered'
    BY <1>10, RefusalOwes
  <2>2. QED
    BY <1>10, <2>1 DEF Refused, InStep
<1>11. ASSUME NEW i \in 1 .. Len(saves), Lose(i) PROVE InStep'
  BY <1>11, SaveBounds DEF Lose, InStep, TypeOK
<1>12. QED
  BY <1>1, <1>2, <1>3, <1>4, <1>5, <1>6, <1>7, <1>8, <1>9, <1>10, <1>11 DEF Next, Request

-----------------------------------------------------------------------------
(* The theorems *)

LEMMA Invariance == Spec => []IInv
<1>1. Init => IInv
  BY InitInv
<1>2. IInv /\ [Next]_towerVars => IInv'
  BY NextInv
<1>3. QED
  BY <1>1, <1>2, PTL DEF Spec

(* Every reachable state of the pane is well typed: the cache and the screen *)
(* show contents somebody made, and a save under way is a row of requests of *)
(* handleSaveAssembleStages.                                                 *)
THEOREM TypeCorrect == Spec => []TypeOK
<1>1. IInv => TypeOK
  BY DEF IInv
<1>2. QED
  BY <1>1, Invariance, PTL

(* An adoption (PlanDetailRoute.tsx, the guard of SectionDetailPane) takes   *)
(* nothing off the screen but what the server has had or a save carried.     *)
THEOREM NothingDropped == Spec => NothingUnsentIsDropped
<1>1. ASSUME IInv, [Next]_towerVars, edited' # edited, base' # base
      PROVE  edited \in landed \cup spoilt \cup Underway
  <2>1. PICK stages \in Stages : Cache(stages)
    <3>1. CASE Deliver
      BY <1>1, <3>1 DEF Deliver, IInv, TypeOK
    <3>2. ASSUME NEW i \in 1 .. Len(saves), Answer(i)
          PROVE  Cache(saves[i].desired) /\ saves[i].desired \in Stages
      <4>1. saves[i].desired \in Stages
        <5>1. saves[i] \in Saves
          BY <1>1, <3>2 DEF IInv, TypeOK
        <5>2. QED
          BY <5>1 DEF Saves
      <4>2. QED
        BY <1>1, <3>2, <4>1 DEF Answer
    <3>3. Deliver \/ \E i \in 1 .. Len(saves) : Answer(i)
      BY <1>1 DEF Next, towerVars, Request, Edit, Leave, Return, ClickFreeze, Autosave,
         PostFreeze, Compose, OthersWrite, Refetch, Read, Serve, Refused, Lose
    <3>4. QED
      BY <3>1, <3>2, <3>3
  <2>2. Projection(edited, stages).chain = edited
    BY <1>1, <2>1, ProjectionTyped DEF IInv, TypeOK
  <2>3. edited' = Adopted(stages) /\ Adopted(stages) = stages.chain
    BY <1>1, <2>1 DEF Cache, Adopted
  <2>4. Projection(edited, stages) \in dispatched
    BY <1>1, <2>1, <2>2, <2>3 DEF Cache, Adopted
  <2>5. QED
    BY <1>1, <2>2, <2>4 DEF IInv, Sourced
<1>2. IInv /\ [Next]_towerVars =>
        [edited' # edited /\ base' # base => Tried(edited)]_towerVars
  BY <1>1 DEF Underway, Tried
<1>3. QED
  BY <1>2, Invariance, PTL DEF Spec, NothingUnsentIsDropped

(* "All changes saved" (the SavePill of PlanDetailRoute.tsx) is no lie: at  *)
(* rest, with no answer lost and none of the others' writes unread, a tower   *)
(* that is not dirty is what the server has.                                  *)
THEOREM PillTrue == Spec => []PillIsHonest
<1>1. Init => InStep
  BY DEF Init, InStep, NoGet
<1>2. Spec => []InStep
  BY <1>1, TypeCorrect, InStepStep, PTL DEF Spec
<1>3. TypeOK /\ InStep => PillIsHonest
  <2> SUFFICES ASSUME TypeOK, InStep, pane, ~Dirty, saves = << >>, get.at = "none",
                      ~foreign, faults = 0
               PROVE  server.chain = edited
    BY DEF PillIsHonest
  <2>1. ~Unanswered
    BY EmptySeq DEF Unanswered
  <2>2. base = server
    BY <2>1 DEF InStep
  <2>3. Projection(edited, base) = base /\ Projection(edited, base).chain = edited
    BY ProjectionTyped DEF Dirty, TypeOK
  <2>4. QED
    BY <2>2, <2>3
<1>4. QED
  BY <1>2, <1>3, TypeCorrect, PTL
=============================================================================
