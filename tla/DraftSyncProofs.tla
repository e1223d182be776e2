-------------------------- MODULE DraftSyncProofs --------------------------
(***************************************************************************)
(* Two promises of the draft's documents, for any number of documents,     *)
(* edits, writes and failures.  What a tab holds of others, in a document, *)
(* a hash or a write, it has shown (Shown): so a hash that still matches   *)
(* is of a content the user knew.  And a document that owes the freeze an  *)
(* edit has one write under way, the freeze's own, until the edit is on    *)
(* the server (Carried): the debounce is down and nobody sends another.    *)
(***************************************************************************)
EXTENDS DraftSync, SequenceTheorems, TLAPS

(* Contents, documents of the tab and writes that hold nothing of others but k. *)
Seen(content, k) == content \cap Theirs \subseteq k
ShownTabs(k) == {t \in Tabs : Seen(t.local, k) /\ \A h \in t.token : Seen(h, k)}
Shown(k)     == {w \in Writes : Seen(w.body, k) /\ \A h \in w.match : Seen(h, k)}

Others ==
  /\ kind \in [Docs -> Kinds]
  /\ server \in [Docs -> Content]
  /\ get \in [Docs -> Gets]
  /\ freeze \in [at : {"idle", "flushing", "composing"}, owed : [Docs -> SUBSET Mine]]
  /\ mounted \in BOOLEAN
  /\ failures \in 0 .. MaxFailures

Held ==
  /\ known \in [Docs -> SUBSET Theirs]
  /\ tab \in [Docs -> Tabs] /\ \A d \in Docs : tab[d] \in ShownTabs(known[d])
  /\ flights \in [Docs -> Seq(Writes)] /\ \A d \in Docs : flights[d] \in Seq(Shown(known[d]))

(* Only a document that is in step with the server is written after a delay. *)
Armed(d) ==
  kind[d] # "tail" => /\ tab[d].timer => tab[d].pending
                      /\ tab[d].pending => tab[d].synced

Carried(d) ==
  kind[d] # "tail" /\ freeze.at # "idle" /\ freeze.owed[d] # {} =>
    /\ tab[d].synced /\ ~tab[d].timer /\ ~tab[d].pending
    /\ \/ flights[d] = << >> /\ freeze.owed[d] \subseteq server[d]
       \/ /\ freeze.at = "flushing"
          /\ Len(flights[d]) = 1 /\ flights[d][1].awaited
          /\ freeze.owed[d] \subseteq flights[d][1].body
          /\ flights[d][1].verdict = "stored" => freeze.owed[d] \subseteq server[d]

IInv == Others /\ Held /\ \A d \in Docs : Armed(d) /\ Carried(d)

-----------------------------------------------------------------------------
(* Sequences of writes *)

LEMMA MapSeq ==
  ASSUME NEW S, NEW fs \in Seq(S), NEW g \in [DOMAIN fs -> S]
  PROVE  g \in Seq(S) /\ Len(g) = Len(fs)
<1>1. Len(fs) \in Nat /\ DOMAIN fs = 1 .. Len(fs)
  BY LenProperties
<1>2. g \in [1 .. Len(fs) -> S]
  BY <1>1
<1>3. g \in Seq(S)
  BY <1>1, <1>2, SeqDef
<1>4. DOMAIN g = 1 .. Len(g) /\ DOMAIN g = 1 .. Len(fs) /\ Len(g) \in Nat
  BY <1>2, <1>3, LenProperties
<1>5. QED
  BY <1>1, <1>3, <1>4

(* Of a sequence without its i-th element, the others are left. *)
LEMMA WithoutSeq ==
  ASSUME NEW S, NEW fs \in Seq(S), NEW i \in 1 .. Len(fs)
  PROVE  /\ Without(fs, i) \in Seq(S)
         /\ Len(fs) = 1 => Without(fs, i) = << >>
<1>1. Len(fs) \in Nat /\ \A n \in 1 .. Len(fs) : fs[n] \in S
  BY LenProperties, ElementOfSeq
<1>2. /\ SubSeq(fs, 1, i - 1) \in Seq(S)
      /\ Len(SubSeq(fs, 1, i - 1)) = IF 1 <= i - 1 THEN i - 1 ELSE 0
  <2>1. \A n \in 1 .. i - 1 : fs[n] \in S
    BY <1>1
  <2>2. QED
    BY <1>1, <2>1, SubSeqProperties
<1>3. /\ SubSeq(fs, i + 1, Len(fs)) \in Seq(S)
      /\ Len(SubSeq(fs, i + 1, Len(fs))) = IF i + 1 <= Len(fs) THEN Len(fs) - i ELSE 0
  <2>1. \A n \in i + 1 .. Len(fs) : fs[n] \in S
    BY <1>1
  <2>2. QED
    BY <1>1, <2>1, SubSeqProperties
<1>4. /\ Without(fs, i) \in Seq(S)
      /\ Len(Without(fs, i)) = Len(SubSeq(fs, 1, i - 1)) + Len(SubSeq(fs, i + 1, Len(fs)))
  BY <1>2, <1>3, ConcatProperties DEF Without
<1>5. ASSUME Len(fs) = 1 PROVE Len(Without(fs, i)) = 0
  BY <1>1, <1>2, <1>3, <1>4, <1>5
<1>6. QED
  BY <1>4, <1>5, EmptySeq

-----------------------------------------------------------------------------
(* What is shown *)

LEMMA ShownGrows ==
  ASSUME NEW k, NEW l, k \subseteq l
  PROVE  /\ ShownTabs(k) \subseteq ShownTabs(l)
         /\ Shown(k) \subseteq Shown(l)
         /\ \A fs \in Seq(Shown(k)) : fs \in Seq(Shown(l))
<1>1. /\ ShownTabs(k) \subseteq ShownTabs(l)
      /\ Shown(k) \subseteq Shown(l)
  BY DEF ShownTabs, Shown, Seen
<1>2. QED
  BY <1>1, SeqMonotonic

(* A write stays shown when its flags or its verdict change. *)
LEMMA FlagsShown ==
  ASSUME NEW k, NEW w \in Shown(k), NEW flag \in BOOLEAN,
         NEW verdict \in {"sent", "stored", "stale"}
  PROVE  /\ [w EXCEPT !.heard = flag] \in Shown(k)
         /\ [w EXCEPT !.awaited = flag] \in Shown(k)
         /\ [w EXCEPT !.verdict = verdict] \in Shown(k)
BY DEF Shown, Writes

LEMMA WriteShown ==
  ASSUME NEW d \in Docs, NEW k, tab[d] \in ShownTabs(k),
         NEW promised \in BOOLEAN, NEW awaited \in BOOLEAN
  PROVE  /\ WriteOf(d, promised, awaited) \in Shown(k)
         /\ WriteOf(d, promised, awaited).body = tab[d].local
         /\ WriteOf(d, promised, awaited).awaited = awaited
         /\ WriteOf(d, promised, awaited).verdict = "sent"
<1>1. /\ tab[d].local \in Content /\ tab[d].token \in Hashes /\ {} \in Hashes
      /\ Seen(tab[d].local, k) /\ \A h \in tab[d].token : Seen(h, k)
  BY DEF ShownTabs, Tabs, Hashes
<1>2. QED
  BY <1>1 DEF WriteOf, Shown, Writes

LEMMA SentSeq ==
  ASSUME NEW k, NEW fs \in Seq(Shown(k)), NEW w \in Shown(k)
  PROVE  /\ Sent(fs, w) \in Seq(Shown(k))
         /\ fs = << >> => Len(Sent(fs, w)) = 1 /\ Sent(fs, w)[1] = w
<1>1. PICK g : g = [i \in DOMAIN fs |->
                      IF w.op = "put" /\ ~fs[i].promised THEN [fs[i] EXCEPT !.heard = FALSE]
                                                         ELSE fs[i]]
  OBVIOUS
<1>2. DOMAIN fs = 1 .. Len(fs) /\ Len(fs) \in Nat /\ (fs = << >> => Len(fs) = 0)
  BY LenProperties, EmptySeq
<1>3. \A i \in DOMAIN fs : fs[i] \in Shown(k) /\ [fs[i] EXCEPT !.heard = FALSE] \in Shown(k)
  BY <1>2, ElementOfSeq, FlagsShown
<1>4. g \in [DOMAIN fs -> Shown(k)]
  BY <1>1, <1>3
<1>5. g \in Seq(Shown(k)) /\ Len(g) = Len(fs)
  BY <1>4, MapSeq
<1>6. Sent(fs, w) = Append(g, w)
  BY <1>1 DEF Sent
<1>7. QED
  BY <1>2, <1>5, <1>6, AppendProperties

LEMMA DeafSeq ==
  ASSUME NEW k, NEW fs \in Seq(Shown(k))
  PROVE  [i \in DOMAIN fs |-> [fs[i] EXCEPT !.heard = @ /\ fs[i].promised]] \in Seq(Shown(k))
<1>1. DOMAIN fs = 1 .. Len(fs)
  BY LenProperties
<1>2. ASSUME NEW i \in DOMAIN fs
      PROVE  [fs[i] EXCEPT !.heard = @ /\ fs[i].promised] \in Shown(k)
  <2>1. fs[i] \in Shown(k)
    BY <1>1, ElementOfSeq
  <2>2. (fs[i].heard /\ fs[i].promised) \in BOOLEAN
    OBVIOUS
  <2>3. QED
    BY <2>1, <2>2, FlagsShown
<1>3. [i \in DOMAIN fs |-> [fs[i] EXCEPT !.heard = @ /\ fs[i].promised]]
        \in [DOMAIN fs -> Shown(k)]
  BY <1>2
<1>4. QED
  BY <1>3, MapSeq

LEMMA NotAwaitedSeq ==
  ASSUME NEW k, NEW fs \in Seq(Shown(k))
  PROVE  NotAwaited(fs) \in Seq(Shown(k))
<1>1. DOMAIN fs = 1 .. Len(fs)
  BY LenProperties
<1>2. \A i \in DOMAIN fs : [fs[i] EXCEPT !.awaited = FALSE] \in Shown(k)
  BY <1>1, ElementOfSeq, FlagsShown
<1>3. NotAwaited(fs) \in [DOMAIN fs -> Shown(k)]
  BY <1>2 DEF NotAwaited
<1>4. QED
  BY <1>3, MapSeq

-----------------------------------------------------------------------------
(* One document at a time *)

LEMMA HeldAt ==
  ASSUME Held, NEW d \in Docs
  PROVE  /\ tab[d] \in ShownTabs(known[d]) /\ tab[d] \in Tabs
         /\ flights[d] \in Seq(Shown(known[d])) /\ Len(flights[d]) \in Nat
         /\ known[d] \in SUBSET Theirs
         /\ \A i \in 1 .. Len(flights[d]) : flights[d][i] \in Shown(known[d])
<1>1. flights[d] \in Seq(Shown(known[d]))
  BY DEF Held
<1>2. QED
  BY <1>1, LenProperties, ElementOfSeq DEF Held

(* A step that gives one document another tab, other writes, more to know. *)
LEMMA OneDoc ==
  ASSUME Held, NEW d \in Docs, NEW k \in SUBSET Theirs,
         NEW t \in ShownTabs(k), NEW fs \in Seq(Shown(k)),
         tab' = [tab EXCEPT ![d] = t], flights' = [flights EXCEPT ![d] = fs],
         known' = [known EXCEPT ![d] = k]
  PROVE  /\ Held' /\ tab'[d] = t /\ flights'[d] = fs
         /\ \A e \in Docs : e # d => tab'[e] = tab[e] /\ flights'[e] = flights[e]
<1>1. t \in Tabs /\ Shown(k) \subseteq Writes
  BY DEF ShownTabs, Shown
<1>2. fs \in Seq(Writes)
  BY <1>1, SeqMonotonic
<1>3. /\ tab' \in [Docs -> Tabs] /\ flights' \in [Docs -> Seq(Writes)]
      /\ known' \in [Docs -> SUBSET Theirs]
      /\ tab'[d] = t /\ flights'[d] = fs /\ known'[d] = k
  BY <1>1, <1>2 DEF Held
<1>4. \A e \in Docs : e # d => /\ tab'[e] = tab[e] /\ flights'[e] = flights[e]
                               /\ known'[e] = known[e]
  BY DEF Held
<1>5. \A e \in Docs : tab'[e] \in ShownTabs(known'[e]) /\ flights'[e] \in Seq(Shown(known'[e]))
  BY <1>3, <1>4 DEF Held
<1>6. QED
  BY <1>3, <1>4, <1>5 DEF Held

(* A step that only gives a document another tab, or only other writes. *)
LEMMA OneTab ==
  ASSUME Held, NEW d \in Docs, NEW t \in ShownTabs(known[d]),
         tab' = [tab EXCEPT ![d] = t], UNCHANGED <<flights, known>>
  PROVE  /\ Held' /\ tab'[d] = t
         /\ \A e \in Docs : e # d => tab'[e] = tab[e]
<1>1. t \in Tabs
  BY DEF ShownTabs
<1>2. /\ tab' \in [Docs -> Tabs] /\ tab'[d] = t
      /\ \A e \in Docs : e # d => tab'[e] = tab[e]
  BY <1>1 DEF Held
<1>3. \A e \in Docs : tab'[e] \in ShownTabs(known[e])
  BY <1>2 DEF Held
<1>4. QED
  BY <1>2, <1>3 DEF Held

LEMMA OneFlights ==
  ASSUME Held, NEW d \in Docs, NEW fs \in Seq(Shown(known[d])),
         flights' = [flights EXCEPT ![d] = fs], UNCHANGED <<tab, known>>
  PROVE  /\ Held' /\ flights'[d] = fs
         /\ \A e \in Docs : e # d => flights'[e] = flights[e]
<1>1. Shown(known[d]) \subseteq Writes
  BY DEF Shown
<1>2. fs \in Seq(Writes)
  BY <1>1, SeqMonotonic
<1>3. /\ flights' \in [Docs -> Seq(Writes)] /\ flights'[d] = fs
      /\ \A e \in Docs : e # d => flights'[e] = flights[e]
  BY <1>2 DEF Held
<1>4. \A e \in Docs : flights'[e] \in Seq(Shown(known[e]))
  BY <1>3 DEF Held
<1>5. QED
  BY <1>3, <1>4 DEF Held

LEMMA ShownAreWrites ==
  ASSUME NEW k, NEW fs \in Seq(Shown(k)) PROVE fs \in Seq(Writes)
<1>1. Shown(k) \subseteq Writes
  BY DEF Shown
<1>2. QED
  BY <1>1, SeqMonotonic

LEMMA TabKinds ==
  ASSUME NEW k, NEW t \in ShownTabs(k)
  PROVE  /\ Cleared(t) \in ShownTabs(k) /\ Arm(t) \in ShownTabs(k)
         /\ ~Cleared(t).timer /\ ~Cleared(t).pending /\ Cleared(t).synced = t.synced
         /\ Arm(t).pending /\ Arm(t).synced = t.synced
BY DEF ShownTabs, Tabs, Cleared, Arm

LEMMA OtherDoc ==
  ASSUME NEW e \in Docs, Armed(e), Carried(e), UNCHANGED <<kind, freeze>>,
         tab'[e] = tab[e], flights'[e] = flights[e], server'[e] = server[e]
  PROVE  Armed(e)' /\ Carried(e)'
BY DEF Armed, Carried

(* While the user works no freeze is under way, and nothing is owed. *)
LEMMA NothingOwed ==
  ASSUME freeze.at' = "idle" PROVE \A e \in Docs : Carried(e)'
BY DEF Carried

-----------------------------------------------------------------------------
(* The user *)

LEMMA MineUnseen ==
  ASSUME NEW e \in Mine, NEW k, NEW content, Seen(content, k)
  PROVE  Seen(content \cup {e}, k)
BY DisjointEdits DEF Seen

LEMMA EditedKinds ==
  ASSUME NEW d \in Docs, NEW k, NEW t \in ShownTabs(k)
  PROVE  /\ Edited(d, t) \in ShownTabs(k)
         /\ kind[d] # "tail" =>
               \/ Edited(d, t).synced
               \/ /\ ~Edited(d, t).timer
                  /\ Edited(d, t).pending = t.pending /\ Edited(d, t).synced = t.synced
         /\ kind[d] # "tail" /\ ~Edited(d, t).pending => ~Edited(d, t).timer
<1>1. PICK noted : noted = [t EXCEPT !.blocked = @ \/ (kind[d] # "tail" /\ get[d].at = "failing")]
  OBVIOUS
<1>2. (t.blocked \/ (kind[d] # "tail" /\ get[d].at = "failing")) \in BOOLEAN
  OBVIOUS
<1>3. /\ noted \in ShownTabs(k) /\ noted.pending = t.pending /\ noted.synced = t.synced
      /\ noted.conflict = t.conflict
  BY <1>1, <1>2 DEF ShownTabs, Tabs
<1>4. CASE kind[d] = "tail" \/ (t.synced /\ ~t.conflict)
  <2>1. Edited(d, t) = Arm(noted)
    BY <1>1, <1>4 DEF Edited
  <2>2. QED
    BY <1>3, <1>4, <2>1, TabKinds
<1>5. CASE ~(kind[d] = "tail" \/ (t.synced /\ ~t.conflict))
  <2>1. Edited(d, t) = [noted EXCEPT !.timer = FALSE]
    BY <1>1, <1>5 DEF Edited
  <2>2. /\ Edited(d, t) \in ShownTabs(k) /\ ~Edited(d, t).timer
        /\ Edited(d, t).pending = noted.pending /\ Edited(d, t).synced = noted.synced
    BY <1>3, <2>1 DEF ShownTabs, Tabs
  <2>3. QED
    BY <1>3, <2>2
<1>6. QED
  BY <1>4, <1>5

LEMMA EditKeeps ==
  ASSUME IInv, NEW d \in Docs, Edit(d) \/ ClearMapping(d) PROVE IInv'
<1>1. /\ Others /\ Held /\ \A e \in Docs : Armed(e)
      /\ UNCHANGED <<kind, server, get, flights, freeze, mounted, known, failures>>
      /\ freeze.at = "idle"
  BY DEF IInv, Edit, ClearMapping, AtWork
<1>2. tab[d] \in ShownTabs(known[d])
  BY <1>1, HeldAt
<1>3. PICK t \in ShownTabs(known[d]) :
        /\ tab' = [tab EXCEPT ![d] = Edited(d, t)]
        /\ t.pending = tab[d].pending /\ t.synced = tab[d].synced
  <2>1. CASE Edit(d)
    <3>1. PICK e \in Mine \ tab[d].local :
            tab' = [tab EXCEPT ![d] = Edited(d, [tab[d] EXCEPT !.local = @ \cup {e}])]
      BY <2>1 DEF Edit
    <3>2. PICK t : t = [tab[d] EXCEPT !.local = @ \cup {e}]
      OBVIOUS
    <3>3. /\ tab[d].local \cup {e} \in Content /\ Seen(tab[d].local \cup {e}, known[d])
      BY <1>2, MineUnseen DEF ShownTabs, Tabs, Content
    <3>4. /\ t \in ShownTabs(known[d])
          /\ t.pending = tab[d].pending /\ t.synced = tab[d].synced
      BY <1>2, <3>2, <3>3 DEF ShownTabs, Tabs
    <3>5. tab' = [tab EXCEPT ![d] = Edited(d, t)]
      BY <3>1, <3>2
    <3>6. QED
      BY <3>4, <3>5
  <2>2. CASE ClearMapping(d)
    <3>1. PICK t : t = [tab[d] EXCEPT !.local = {}]
      OBVIOUS
    <3>2. /\ t \in ShownTabs(known[d])
          /\ t.pending = tab[d].pending /\ t.synced = tab[d].synced
      BY <1>2, <3>1 DEF ShownTabs, Tabs, Content, Seen
    <3>3. tab' = [tab EXCEPT ![d] = Edited(d, [tab[d] EXCEPT !.local = {}])]
      BY <1>1, <2>2 DEF ClearMapping, Held
    <3>5. tab' = [tab EXCEPT ![d] = Edited(d, t)]
      BY <3>1, <3>3
    <3>6. QED
      BY <3>2, <3>5
  <2>3. QED
    BY <2>1, <2>2
<1>4. PICK u \in ShownTabs(known[d]) : u = Edited(d, t)
  BY <1>3, EditedKinds
<1>5. /\ Held' /\ tab'[d] = u
      /\ \A e \in Docs : e # d => tab'[e] = tab[e]
  BY <1>1, <1>3, <1>4, OneTab
<1>6. kind[d] # "tail" => (u.timer => u.pending) /\ (u.pending => u.synced)
  BY <1>1, <1>3, <1>4, EditedKinds DEF Armed
<1>7. \A e \in Docs : Armed(e)'
  BY <1>1, <1>5, <1>6 DEF Armed
<1>8. Others' /\ \A e \in Docs : Carried(e)'
  BY <1>1, NothingOwed DEF Others
<1>9. QED
  BY <1>5, <1>7, <1>8 DEF IInv

(* Requests for the document come and go. *)
LEMMA GetKeeps ==
  ASSUME IInv, NEW d \in Docs, Refetch(d) \/ FailGet(d) \/ RetryGet(d) \/ Read(d)
  PROVE  IInv'
<1>1. /\ Others /\ Held
      /\ UNCHANGED <<kind, server, tab, flights, freeze, mounted, known>>
  BY DEF IInv, Refetch, FailGet, RetryGet, Read
<1>2. get' \in [Docs -> Gets]
  <2>1. Asked \in Gets /\ server[d] \in Content /\ get[d] \in Gets
    BY <1>1 DEF Others, Gets, Asked, Content
  <2>2. /\ [at |-> "read", content |-> server[d]] \in Gets
        /\ [get[d] EXCEPT !.at = "failing"] \in Gets
    BY <2>1 DEF Gets
  <2>3. QED
    BY <1>1, <2>1, <2>2 DEF Refetch, FailGet, RetryGet, Read, Others
<1>3. failures' \in 0 .. MaxFailures
  BY <1>1, DraftBounds DEF Refetch, FailGet, RetryGet, Read, Others
<1>4. Others' /\ Held'
  BY <1>1, <1>2, <1>3 DEF Others, Held
<1>5. QED
  BY <1>1, <1>4 DEF IInv, Armed, Carried

LEMMA LeaveKeeps ==
  ASSUME IInv, Leave PROVE IInv'
<1>1. /\ Others /\ Held /\ freeze.at = "idle"
      /\ UNCHANGED <<kind, server, freeze, known, failures>>
      /\ mounted' = FALSE /\ tab' = [d \in Docs |-> Cleared(tab[d])]
      /\ get' = [d \in Docs |-> NoGet]
  BY DEF IInv, Leave, AtWork
<1>2. ASSUME NEW d \in Docs
      PROVE  /\ tab'[d] \in ShownTabs(known[d]) /\ tab'[d] \in Tabs
             /\ ~tab'[d].timer /\ ~tab'[d].pending
  BY <1>1, HeldAt, TabKinds DEF ShownTabs
<1>3. ASSUME NEW d \in Docs PROVE flights'[d] \in Seq(Shown(known[d]))
  <2>1. PICK deaf \in Seq(Shown(known[d])) :
          deaf = [i \in DOMAIN flights[d] |->
                    [flights[d][i] EXCEPT !.heard = @ /\ flights[d][i].promised]]
    BY <1>1, HeldAt, DeafSeq
  <2>2. Sent(deaf, WriteOf(d, TRUE, FALSE)) \in Seq(Shown(known[d]))
    BY <1>1, HeldAt, WriteShown, SentSeq
  <2>3. flights'[d] = IF tab[d].pending THEN Sent(deaf, WriteOf(d, TRUE, FALSE)) ELSE deaf
    BY <2>1 DEF Leave
  <2>4. QED
    BY <2>1, <2>2, <2>3
<1>4. flights' \in [Docs -> Seq(Writes)]
  <2>1. \A d \in Docs : flights'[d] \in Seq(Writes)
    BY <1>3, ShownAreWrites
  <2>2. DOMAIN flights' = Docs /\ flights' = [d \in Docs |-> flights'[d]]
    BY DEF Leave
  <2>3. QED
    BY <2>1, <2>2
<1>5. Held'
  BY <1>1, <1>2, <1>3, <1>4 DEF Held
<1>6. Others'
  BY <1>1 DEF Others, NoGet, Gets, Content
<1>7. \A d \in Docs : Armed(d)' /\ Carried(d)'
  BY <1>1, <1>2, NothingOwed DEF Armed
<1>8. QED
  BY <1>5, <1>6, <1>7 DEF IInv

-----------------------------------------------------------------------------
(* The hook *)

LEMMA FireKeeps ==
  ASSUME IInv, NEW d \in Docs, Fire(d) PROVE IInv'
<1>1. /\ Others /\ Held /\ \A e \in Docs : Armed(e) /\ Carried(e)
      /\ UNCHANGED <<kind, server, get, freeze, mounted, known, failures>>
      /\ tab[d].timer
  BY DEF IInv, Fire
<1>2. PICK t \in ShownTabs(known[d]) : t = Cleared(tab[d]) /\ ~t.timer /\ ~t.pending
  BY <1>1, HeldAt, TabKinds
<1>3. PICK w \in Shown(known[d]) : w = WriteOf(d, kind[d] = "tail", FALSE)
  <2>1. (kind[d] = "tail") \in BOOLEAN
    OBVIOUS
  <2>2. QED
    BY <1>1, <2>1, HeldAt, WriteShown
<1>4. PICK fs \in Seq(Shown(known[d])) : fs = Sent(flights[d], w)
  BY <1>1, <1>3, HeldAt, SentSeq
<1>5. /\ tab' = [tab EXCEPT ![d] = t] /\ flights' = [flights EXCEPT ![d] = fs]
      /\ known' = [known EXCEPT ![d] = known[d]]
  BY <1>1, <1>2, <1>3, <1>4 DEF Fire, Send, Held
<1>6. /\ Held' /\ tab'[d] = t
      /\ \A e \in Docs : e # d => tab'[e] = tab[e] /\ flights'[e] = flights[e]
  BY <1>1, <1>5, HeldAt, OneDoc
<1>7. Armed(d)' /\ Carried(d)'
  BY <1>1, <1>2, <1>6 DEF Armed, Carried
<1>8. \A e \in Docs : e # d => Armed(e)' /\ Carried(e)'
  BY <1>1, <1>6, OtherDoc
<1>9. Others'
  BY <1>1 DEF Others
<1>10. QED
  BY <1>6, <1>7, <1>8, <1>9 DEF IInv

(* The first answer of a collection or a mapping. *)
LEMMA ReconcileKeeps ==
  ASSUME Others, Held, NEW d \in Docs, Armed(d), Carried(d), kind[d] # "tail",
         NEW content \in Content, Reconcile(d, content),
         UNCHANGED <<kind, server, freeze>>
  PROVE  /\ Held' /\ Armed(d)' /\ Carried(d)'
         /\ \A e \in Docs : e # d => tab'[e] = tab[e] /\ flights'[e] = flights[e]
<1>1. CASE tab[d].synced
  <2>1. UNCHANGED <<tab, flights, known>>
    BY <1>1 DEF Reconcile
  <2>2. QED
    BY <2>1 DEF Held, Armed, Carried
<1>2. CASE ~tab[d].synced
  <2>1. PICK k \in SUBSET Theirs : k = known[d] \cup (content \cap Theirs)
    BY HeldAt
  <2>2. /\ known[d] \subseteq k /\ known[d] \in SUBSET Theirs
        /\ tab[d] \in Tabs /\ tab[d] \in ShownTabs(known[d]) /\ tab[d] \in ShownTabs(k)
        /\ flights[d] \in Seq(Shown(known[d])) /\ flights[d] \in Seq(Shown(k))
    BY <2>1, HeldAt, ShownGrows
  <2>3. ~tab[d].timer /\ ~tab[d].pending
    BY <1>2 DEF Armed
  <2>4. freeze.at = "idle" \/ freeze.owed[d] = {}
    BY <1>2 DEF Carried
  <2>5. PICK h : h = IF Hash(kind[d], content) = {} THEN tab[d].token ELSE Hash(kind[d], content)
    OBVIOUS
  <2>6. PICK t : t = [tab[d] EXCEPT !.synced = TRUE, !.token = h]
    OBVIOUS
  <2>7. h \in Hashes /\ \A c \in h : Seen(c, k)
    BY <2>1, <2>2, <2>5 DEF Hash, Hashes, Seen, ShownTabs, Tabs
  <2>8. t \in ShownTabs(k) /\ t.synced /\ ~t.timer /\ ~t.pending
    BY <2>2, <2>3, <2>6, <2>7 DEF ShownTabs, Tabs
  <2>9. CASE content # {} /\ ~tab[d].blocked
    <3>1. PICK u : u = [t EXCEPT !.local = content]
      OBVIOUS
    <3>2. u \in ShownTabs(k) /\ u.synced
      BY <2>1, <2>8, <3>1 DEF ShownTabs, Tabs, Seen
    <3>3. Arm(u) \in ShownTabs(k) /\ Arm(u).pending /\ Arm(u).synced
      BY <3>2, TabKinds
    <3>4. /\ tab' = [tab EXCEPT ![d] = Arm(u)] /\ flights' = flights
          /\ known' = [known EXCEPT ![d] = k]
      BY <1>2, <2>1, <2>5, <2>6, <2>9, <3>1 DEF Reconcile
    <3>5. flights' = [flights EXCEPT ![d] = flights[d]]
      BY <3>4 DEF Held
    <3>6. /\ Held' /\ tab'[d] = Arm(u)
          /\ \A e \in Docs : e # d => tab'[e] = tab[e] /\ flights'[e] = flights[e]
      BY <2>2, <3>3, <3>4, <3>5, OneDoc
    <3>7. QED
      BY <2>4, <3>3, <3>6 DEF Armed, Carried
  <2>10. CASE content = {} \/ tab[d].blocked
    <3>1. PICK l \in SUBSET Theirs : l = IF tab[d].blocked THEN k ELSE known[d]
      BY <2>2
    <3>2. Hash(kind[d], content) = {} \/ tab[d].blocked \/ h = {{}}
      BY <2>5, <2>10 DEF Hash
    <3>3. \A c \in h : Seen(c, l)
      BY <2>2, <2>5, <2>7, <3>1, <3>2 DEF Seen, ShownTabs
    <3>4. t \in ShownTabs(l) /\ tab[d] \in ShownTabs(l) /\ flights[d] \in Seq(Shown(l))
      BY <2>2, <2>6, <2>7, <2>8, <3>1, <3>3 DEF ShownTabs, Tabs
    <3>5. PICK u \in ShownTabs(l) :
            /\ u = IF tab[d].local = {} /\ kind[d] = "mapping" THEN t
                                                              ELSE [t EXCEPT !.blocked = FALSE]
            /\ u.synced /\ ~u.timer /\ ~u.pending
      <4>1. /\ [t EXCEPT !.blocked = FALSE] \in ShownTabs(l) /\ [t EXCEPT !.blocked = FALSE].synced
            /\ ~[t EXCEPT !.blocked = FALSE].timer /\ ~[t EXCEPT !.blocked = FALSE].pending
        BY <2>8, <3>4 DEF ShownTabs, Tabs
      <4>2. CASE tab[d].local = {} /\ kind[d] = "mapping"
        BY <2>8, <3>4, <4>2
      <4>3. CASE ~(tab[d].local = {} /\ kind[d] = "mapping")
        BY <4>1, <4>3
      <4>4. QED
        BY <4>2, <4>3
    <3>6. PICK w \in Shown(l) : w = [WriteOf(d, FALSE, FALSE) EXCEPT !.match = h]
      <4>1. WriteOf(d, FALSE, FALSE) \in Shown(l)
        BY <3>4, WriteShown
      <4>2. QED
        BY <2>7, <3>3, <4>1 DEF Shown, Writes
    <3>7. PICK fs \in Seq(Shown(l)) : flights' = [flights EXCEPT ![d] = fs]
      <4>1. CASE flights' = flights
        BY <3>4, <4>1 DEF Held
      <4>2. CASE flights' # flights
        <5>1. Send(d, w)
          BY <1>2, <2>5, <2>6, <2>8, <2>9, <2>10, <3>6, <4>2 DEF Reconcile, Tabs, ShownTabs
        <5>2. flights' = [flights EXCEPT ![d] = Sent(flights[d], w)]
          BY <5>1 DEF Send, Held
        <5>3. QED
          BY <3>4, <3>6, <5>2, SentSeq
      <4>3. QED
        BY <4>1, <4>2
    <3>8. tab' = [tab EXCEPT ![d] = u] /\ known' = [known EXCEPT ![d] = l]
      BY <1>2, <2>1, <2>5, <2>6, <2>10, <3>1, <3>5 DEF Reconcile
    <3>9. /\ Held' /\ tab'[d] = u
          /\ \A e \in Docs : e # d => tab'[e] = tab[e] /\ flights'[e] = flights[e]
      BY <3>7, <3>8, OneDoc
    <3>10. QED
      BY <2>4, <3>5, <3>9 DEF Armed, Carried
  <2>11. QED
    BY <2>9, <2>10
<1>3. QED
  BY <1>1, <1>2

LEMMA ReconcileTailKeeps ==
  ASSUME Held, NEW d \in Docs, kind[d] = "tail",
         NEW content \in Content, ReconcileTail(d, content),
         UNCHANGED <<kind, server, freeze>>,
         known' = [known EXCEPT ![d] = @ \cup (content \cap Theirs)]
  PROVE  /\ Held' /\ Armed(d)' /\ Carried(d)'
         /\ \A e \in Docs : e # d => tab'[e] = tab[e] /\ flights'[e] = flights[e]
<1>1. PICK k \in SUBSET Theirs : k = known[d] \cup (content \cap Theirs)
  BY HeldAt
<1>2. /\ known[d] \subseteq k /\ known' = [known EXCEPT ![d] = k] /\ Seen(content, k)
      /\ tab[d] \in ShownTabs(k) /\ flights[d] \in Seq(Shown(k))
  <2>1. known[d] \subseteq k /\ Seen(content, k)
    BY <1>1 DEF Seen
  <2>2. tab[d] \in ShownTabs(k) /\ flights[d] \in Seq(Shown(k))
    BY <2>1, HeldAt, ShownGrows
  <2>3. known' = [known EXCEPT ![d] = k]
    BY <1>1 DEF Held
  <2>4. QED
    BY <2>1, <2>2, <2>3
<1>3. PICK t \in ShownTabs(k) : tab' = [tab EXCEPT ![d] = t]
  <2>1. CASE tab' = [tab EXCEPT ![d].local = content, ![d].token = {content},
                                ![d].synced = TRUE]
    <3>1. PICK t : t = [tab[d] EXCEPT !.local = content, !.token = {content}, !.synced = TRUE]
      OBVIOUS
    <3>2. tab' = [tab EXCEPT ![d] = t]
      BY <2>1, <3>1 DEF Held
    <3>3. t \in ShownTabs(k)
      BY <1>2, <3>1 DEF ShownTabs, Tabs, Hashes
    <3>4. QED
      BY <3>2, <3>3
  <2>2. CASE tab' = [tab EXCEPT ![d].synced = TRUE]
    <3>1. PICK t : t = [tab[d] EXCEPT !.synced = TRUE]
      OBVIOUS
    <3>2. tab' = [tab EXCEPT ![d] = t]
      BY <2>2, <3>1 DEF Held
    <3>3. t \in ShownTabs(k)
      BY <1>2, <3>1 DEF ShownTabs, Tabs
    <3>4. QED
      BY <3>2, <3>3
  <2>3. CASE tab' = tab
    BY <1>2, <2>3 DEF Held
  <2>4. QED
    BY <2>1, <2>2, <2>3 DEF ReconcileTail
<1>4. PICK fs \in Seq(Shown(k)) : flights' = [flights EXCEPT ![d] = fs]
  <2>1. CASE flights' = flights
    BY <1>2, <2>1 DEF Held
  <2>2. CASE flights' # flights
    <3>1. WriteOf(d, FALSE, FALSE) \in Shown(k)
      BY <1>2, WriteShown
    <3>2. PICK w \in Shown(k) :
            w = [WriteOf(d, FALSE, FALSE) EXCEPT !.match = {}, !.heard = FALSE]
      BY <3>1 DEF Shown, Writes, Hashes
    <3>3. flights' = [flights EXCEPT ![d] = Sent(flights[d], w)]
      BY <2>2, <3>2 DEF ReconcileTail, Send, Held
    <3>4. QED
      BY <1>2, <3>2, <3>3, SentSeq
  <2>3. QED
    BY <2>1, <2>2
<1>5. /\ Held' /\ \A e \in Docs : e # d => tab'[e] = tab[e] /\ flights'[e] = flights[e]
  BY <1>2, <1>3, <1>4, OneDoc
<1>6. QED
  BY <1>5 DEF Armed, Carried

LEMMA DeliverKeeps ==
  ASSUME IInv, NEW d \in Docs, Deliver(d) PROVE IInv'
<1>1. /\ Others /\ Held /\ \A e \in Docs : Armed(e) /\ Carried(e)
      /\ UNCHANGED <<kind, server, freeze, mounted, failures>>
      /\ get' = [get EXCEPT ![d] = NoGet]
  BY DEF IInv, Deliver
<1>2. get[d].content \in Content
  BY <1>1 DEF Others, Gets
<1>3. /\ Held' /\ Armed(d)' /\ Carried(d)'
      /\ \A e \in Docs : e # d => tab'[e] = tab[e] /\ flights'[e] = flights[e]
  <2>1. CASE kind[d] = "tail"
    BY <1>1, <1>2, <2>1, ReconcileTailKeeps DEF Deliver
  <2>2. CASE kind[d] # "tail"
    BY <1>1, <1>2, <2>2, ReconcileKeeps DEF Deliver
  <2>3. QED
    BY <2>1, <2>2
<1>4. \A e \in Docs : e # d => Armed(e)' /\ Carried(e)'
  BY <1>1, <1>3, OtherDoc
<1>5. Others'
  BY <1>1 DEF Others, NoGet, Gets, Content
<1>6. QED
  BY <1>3, <1>4, <1>5 DEF IInv

-----------------------------------------------------------------------------
(* The server *)

LEMMA ServeKeeps ==
  ASSUME IInv, NEW d \in Docs, NEW i \in 1 .. Len(flights[d]), Serve(d, i)
  PROVE  IInv'
<1>1. /\ Others /\ Held /\ \A e \in Docs : Armed(e) /\ Carried(e)
      /\ UNCHANGED <<kind, tab, get, freeze, mounted, known, failures>>
      /\ flights[d][i].verdict = "sent"
  BY DEF IInv, Serve
<1>2. PICK w \in Shown(known[d]) : w = flights[d][i]
  BY <1>1, HeldAt
<1>3. PICK verdict \in {"stored", "stale"} :
        /\ flights' = [flights EXCEPT ![d][i].verdict = verdict]
        /\ \/ verdict = "stored" /\ server' = [server EXCEPT ![d] = w.body]
           \/ verdict = "stale" /\ server' = server
  BY <1>2 DEF Serve
<1>4. PICK u \in Shown(known[d]) : u = [w EXCEPT !.verdict = verdict]
  BY <1>2, FlagsShown
<1>5. PICK fs : fs = [flights[d] EXCEPT ![i] = u]
  OBVIOUS
<1>6. /\ fs \in Seq(Shown(known[d])) /\ Len(fs) = Len(flights[d]) /\ fs[i] = u
      /\ DOMAIN flights[d] = 1 .. Len(flights[d])
  BY <1>1, <1>5, HeldAt, ExceptSeq, LenProperties
<1>7. flights' = [flights EXCEPT ![d] = fs]
  BY <1>1, <1>2, <1>3, <1>4, <1>5, <1>6 DEF Held
<1>8. /\ Held' /\ flights'[d] = fs /\ \A e \in Docs : e # d => flights'[e] = flights[e]
  BY <1>1, <1>6, <1>7, OneFlights
<1>9. w.body \in Content /\ w \in Writes
  BY <1>2 DEF Shown, Writes
<1>10. Others' /\ \A e \in Docs : e # d => server'[e] = server[e]
  BY <1>1, <1>3, <1>9 DEF Others
<1>11. Carried(d)'
  <2>1. SUFFICES ASSUME kind[d] # "tail", freeze.at # "idle", freeze.owed[d] # {}
                 PROVE  Carried(d)'
    BY <1>1 DEF Carried
  <2>2. Len(flights[d]) = 1 /\ i = 1 /\ flights[d] # << >>
    BY <1>1, <2>1, HeldAt, EmptySeq DEF Carried
  <2>3. /\ freeze.at = "flushing" /\ w.awaited /\ freeze.owed[d] \subseteq w.body
        /\ tab[d].synced /\ ~tab[d].timer /\ ~tab[d].pending
    BY <1>1, <1>2, <2>1, <2>2 DEF Carried
  <2>4. /\ u.awaited /\ u.body = w.body /\ u.verdict = verdict
    BY <1>4, <1>9, <2>3 DEF Writes
  <2>5. verdict = "stored" => server'[d] = w.body
    BY <1>1, <1>3 DEF Others
  <2>6. /\ Len(flights'[d]) = 1 /\ flights'[d][1] = u
    BY <1>6, <1>8, <2>2
  <2>7. QED
    BY <1>1, <2>3, <2>4, <2>5, <2>6 DEF Carried
<1>12. \A e \in Docs : Armed(e)'
  BY <1>1 DEF Armed
<1>13. \A e \in Docs : e # d => Carried(e)'
  BY <1>1, <1>8, <1>10, OtherDoc
<1>14. QED
  BY <1>8, <1>10, <1>11, <1>12, <1>13 DEF IInv

LEMMA OthersWriteKeeps ==
  ASSUME IInv, NEW d \in Docs, OthersWrite(d) PROVE IInv'
<1>1. /\ Others /\ Held /\ \A e \in Docs : Armed(e) /\ Carried(e)
      /\ UNCHANGED <<kind, tab, get, flights, freeze, mounted, known, failures>>
  BY DEF IInv, OthersWrite
<1>2. PICK e \in Theirs : server' = [server EXCEPT ![d] = @ \cup {e}]
  BY DEF OthersWrite
<1>3. server' \in [Docs -> Content] /\ \A f \in Docs : server[f] \subseteq server'[f]
  BY <1>1, <1>2 DEF Others, Content
<1>4. Others' /\ Held'
  BY <1>1, <1>3 DEF Others, Held
<1>5. \A f \in Docs : Armed(f)' /\ Carried(f)'
  BY <1>1, <1>3 DEF Armed, Carried
<1>6. QED
  BY <1>4, <1>5 DEF IInv

-----------------------------------------------------------------------------
(* The answers *)

(* An answer that does not abort the freeze says that the awaited write is  *)
(* stored; one that does leaves no freeze to owe anything to.               *)
LEMMA ConcludeKeeps ==
  ASSUME Others, Held, \A e \in Docs : Armed(e) /\ Carried(e),
         NEW d \in Docs, NEW i \in 1 .. Len(flights[d]), NEW w,
         w.awaited = flights[d][i].awaited,
         w.verdict = "stored" => flights[d][i].verdict = "stored",
         Conclude(d, i, w),
         NEW t \in ShownTabs(known[d]), tab' = [tab EXCEPT ![d] = t],
         t.timer = tab[d].timer, t.pending = tab[d].pending, t.synced = tab[d].synced,
         UNCHANGED <<kind, server, known>>
  PROVE  /\ Held' /\ \A e \in Docs : Armed(e)' /\ Carried(e)'
         /\ freeze' \in [at : {"idle", "flushing", "composing"}, owed : [Docs -> SUBSET Mine]]
<1>1. /\ tab' \in [Docs -> Tabs] /\ tab'[d] = t /\ \A e \in Docs : e # d => tab'[e] = tab[e]
  BY DEF Held, ShownTabs
<1>2. \A e \in Docs : Armed(e)'
  BY <1>1 DEF Armed
<1>3. \A e \in Docs : tab'[e] \in ShownTabs(known'[e])
  BY <1>1 DEF Held
<1>4. PICK fs \in Seq(Shown(known[d])) :
        fs = Without(flights[d], i) /\ (Len(flights[d]) = 1 => fs = << >>)
  BY HeldAt, WithoutSeq
<1>5. CASE Aborts(d, w)
  <2>1. /\ freeze' = NotFreezing
        /\ flights' = [e \in Docs |-> NotAwaited(IF e = d THEN fs ELSE flights[e])]
    BY <1>4, <1>5 DEF Conclude
  <2>2. ASSUME NEW e \in Docs
        PROVE  flights'[e] \in Seq(Shown(known[e])) /\ flights'[e] \in Seq(Writes)
    <3>1. PICK gs \in Seq(Shown(known[e])) : gs = IF e = d THEN fs ELSE flights[e]
      BY <1>4, HeldAt
    <3>2. flights'[e] = NotAwaited(gs)
      BY <2>1, <3>1
    <3>3. QED
      BY <3>2, NotAwaitedSeq, ShownAreWrites
  <2>3. flights' \in [Docs -> Seq(Writes)]
    <3>1. DOMAIN flights' = Docs /\ flights' = [e \in Docs |-> flights'[e]]
      BY <2>1
    <3>2. QED
      BY <2>2, <3>1
  <2>4. Held'
    BY <1>1, <1>3, <2>2, <2>3 DEF Held
  <2>5. /\ freeze'.at = "idle"
        /\ freeze' \in [at : {"idle", "flushing", "composing"}, owed : [Docs -> SUBSET Mine]]
    BY <2>1 DEF NotFreezing
  <2>6. QED
    BY <1>2, <2>4, <2>5, NothingOwed
<1>6. CASE ~Aborts(d, w)
  <2>1. freeze' = freeze /\ flights' = [flights EXCEPT ![d] = fs]
    BY <1>4, <1>6 DEF Conclude, Held
  <2>2. fs \in Seq(Writes)
    BY <1>4, ShownAreWrites
  <2>3. /\ Held' /\ flights'[d] = fs /\ \A e \in Docs : e # d => flights'[e] = flights[e]
    <3>1. /\ flights' \in [Docs -> Seq(Writes)] /\ flights'[d] = fs
          /\ \A e \in Docs : e # d => flights'[e] = flights[e]
      BY <2>1, <2>2 DEF Held
    <3>2. \A e \in Docs : flights'[e] \in Seq(Shown(known'[e]))
      BY <1>4, <3>1 DEF Held
    <3>3. QED
      BY <1>1, <1>3, <3>1, <3>2 DEF Held
  <2>4. Carried(d)'
    <3>1. SUFFICES ASSUME kind[d] # "tail", freeze.at # "idle", freeze.owed[d] # {}
                   PROVE  Carried(d)'
      BY <2>1 DEF Carried
    <3>2. Len(flights[d]) = 1 /\ i = 1
      BY <3>1, HeldAt, EmptySeq DEF Carried
    <3>3. /\ flights[d][i].awaited
          /\ flights[d][i].verdict = "stored" => freeze.owed[d] \subseteq server[d]
          /\ tab[d].synced /\ ~tab[d].timer /\ ~tab[d].pending
      BY <3>1, <3>2, EmptySeq DEF Carried
    <3>4. w.verdict = "stored"
      BY <1>6, <3>1, <3>3 DEF Aborts
    <3>5. flights'[d] = << >> /\ freeze.owed[d] \subseteq server[d]
      BY <1>4, <2>3, <3>2, <3>3, <3>4
    <3>6. QED
      BY <1>1, <2>1, <3>3, <3>5 DEF Carried
  <2>5. \A e \in Docs : e # d => Carried(e)'
    BY <1>1, <2>1, <2>3 DEF Carried
  <2>6. QED
    BY <1>2, <2>1, <2>3, <2>4, <2>5 DEF Others
<1>7. QED
  BY <1>5, <1>6

LEMMA AnswerKeeps ==
  ASSUME IInv, NEW d \in Docs, NEW i \in 1 .. Len(flights[d]), Answer(d, i)
  PROVE  IInv'
<1>1. /\ Others /\ Held /\ \A e \in Docs : Armed(e) /\ Carried(e)
      /\ UNCHANGED <<kind, server, mounted, known, failures>>
  BY DEF IInv, Answer
<1>2. PICK w \in Shown(known[d]) : w = flights[d][i]
  BY <1>1, HeldAt
<1>3. PICK t \in ShownTabs(known[d]) :
        /\ tab' = [tab EXCEPT ![d] = t]
        /\ t.timer = tab[d].timer /\ t.pending = tab[d].pending /\ t.synced = tab[d].synced
  <2>1. tab[d] \in ShownTabs(known[d]) /\ {w.body} \in Hashes /\ Seen(w.body, known[d])
    BY <1>1, <1>2, HeldAt DEF Shown, Writes, Hashes
  <2>2. /\ [tab[d] EXCEPT !.token = {w.body}] \in ShownTabs(known[d])
        /\ [tab[d] EXCEPT !.conflict = TRUE] \in ShownTabs(known[d])
    BY <2>1 DEF ShownTabs, Tabs
  <2>3. /\ Settled(d, w) \in ShownTabs(known[d]) /\ Settled(d, w).timer = tab[d].timer
        /\ Settled(d, w).pending = tab[d].pending /\ Settled(d, w).synced = tab[d].synced
    <3>1. CASE w.verdict = "stored" /\ w.op = "put" /\ w.heard
      BY <2>1, <2>2, <3>1 DEF Settled, ShownTabs, Tabs
    <3>2. CASE w.verdict = "stale" /\ w.heard /\ kind[d] # "tail"
      BY <2>1, <2>2, <3>2 DEF Settled, ShownTabs, Tabs
    <3>3. CASE ~(\/ w.verdict = "stored" /\ w.op = "put" /\ w.heard
                 \/ w.verdict = "stale" /\ w.heard /\ kind[d] # "tail")
      <4>1. Settled(d, w) = tab[d]
        BY <3>3 DEF Settled
      <4>2. QED
        BY <2>1, <4>1
    <3>4. QED
      BY <3>1, <3>2, <3>3
  <2>4. tab' = [tab EXCEPT ![d] = Settled(d, w)]
    BY <1>2 DEF Answer
  <2>5. QED
    BY <2>3, <2>4
<1>4. Conclude(d, i, w)
  BY <1>2 DEF Answer
<1>5. /\ Held' /\ \A e \in Docs : Armed(e)' /\ Carried(e)'
      /\ freeze' \in [at : {"idle", "flushing", "composing"}, owed : [Docs -> SUBSET Mine]]
  BY <1>1, <1>2, <1>3, <1>4, ConcludeKeeps
<1>6. get' \in [Docs -> Gets]
  BY <1>1 DEF Answer, Others, Asked, Gets, Content
<1>7. QED
  BY <1>1, <1>5, <1>6 DEF IInv, Others

LEMMA FailKeeps ==
  ASSUME IInv, NEW d \in Docs, NEW i \in 1 .. Len(flights[d]), Fail(d, i)
  PROVE  IInv'
<1>1. /\ Others /\ Held /\ \A e \in Docs : Armed(e) /\ Carried(e)
      /\ UNCHANGED <<kind, server, tab, get, mounted, known>>
      /\ failures < MaxFailures /\ failures' = failures + 1
  BY DEF IInv, Fail
<1>2. PICK w : w = [flights[d][i] EXCEPT !.verdict = "sent"]
  OBVIOUS
<1>3. flights[d][i] \in Writes
  BY <1>1, HeldAt DEF Shown
<1>4. w.awaited = flights[d][i].awaited /\ w.verdict = "sent"
  BY <1>2, <1>3 DEF Writes
<1>5. Conclude(d, i, w)
  BY <1>2 DEF Fail
<1>6. PICK t \in ShownTabs(known[d]) : t = tab[d] /\ tab' = [tab EXCEPT ![d] = t]
  BY <1>1, HeldAt DEF Held
<1>7. /\ Held' /\ \A e \in Docs : Armed(e)' /\ Carried(e)'
      /\ freeze' \in [at : {"idle", "flushing", "composing"}, owed : [Docs -> SUBSET Mine]]
  BY <1>1, <1>4, <1>5, <1>6, ConcludeKeeps
<1>8. failures' \in 0 .. MaxFailures
  BY <1>1, DraftBounds DEF Others
<1>9. QED
  BY <1>1, <1>7, <1>8 DEF IInv, Others

-----------------------------------------------------------------------------
(* The freeze *)

LEMMA ClickKeeps ==
  ASSUME IInv, ClickFreeze PROVE IInv'
<1>1. /\ Others /\ Held /\ \A e \in Docs : Armed(e) /\ Carried(e)
      /\ UNCHANGED <<kind, server, get, mounted, known, failures>>
      /\ tab' = [d \in Docs |-> Cleared(tab[d])]
  BY DEF IInv, ClickFreeze
<1>2. PICK owed : owed = [d \in Docs |-> IF Owes(d) THEN tab[d].local \cap Mine ELSE {}]
  OBVIOUS
<1>3. /\ owed \in [Docs -> SUBSET Mine]
      /\ \A d \in Docs : owed[d] # {} => Owes(d) /\ owed[d] \subseteq tab[d].local
  BY <1>2
<1>4. freeze' = [at |-> "flushing", owed |-> owed]
  BY <1>2 DEF ClickFreeze, NotFreezing
<1>5. ASSUME NEW d \in Docs
      PROVE  /\ tab'[d] \in ShownTabs(known[d]) /\ tab'[d] \in Tabs
             /\ ~tab'[d].timer /\ ~tab'[d].pending /\ tab'[d].synced = tab[d].synced
  <2>1. tab[d] \in ShownTabs(known[d]) /\ tab'[d] = Cleared(tab[d])
    BY <1>1, HeldAt
  <2>2. /\ Cleared(tab[d]) \in ShownTabs(known[d]) /\ ~Cleared(tab[d]).timer
        /\ ~Cleared(tab[d]).pending /\ Cleared(tab[d]).synced = tab[d].synced
    BY <2>1, TabKinds
  <2>3. QED
    BY <2>1, <2>2 DEF ShownTabs
<1>6. ASSUME NEW d \in Docs
      PROVE  /\ flights'[d] \in Seq(Shown(known[d]))
             /\ Owes(d) => /\ Len(flights'[d]) = 1 /\ flights'[d][1].awaited
                           /\ flights'[d][1].body = tab[d].local
                           /\ flights'[d][1].verdict = "sent"
  <2>1. PICK w \in Shown(known[d]) :
          w = WriteOf(d, TRUE, TRUE) /\ w.body = tab[d].local /\ w.awaited /\ w.verdict = "sent"
    BY <1>1, HeldAt, WriteShown
  <2>2. PICK fs \in Seq(Shown(known[d])) :
          fs = Sent(flights[d], w) /\ (flights[d] = << >> => Len(fs) = 1 /\ fs[1] = w)
    BY <1>1, HeldAt, SentSeq
  <2>3. flights'[d] = IF tab[d].pending THEN fs ELSE flights[d]
    BY <2>1, <2>2 DEF ClickFreeze
  <2>4. flights'[d] \in Seq(Shown(known[d]))
    BY <1>1, <2>2, <2>3, HeldAt
  <2>5. Owes(d) => Len(flights'[d]) = 1 /\ flights'[d][1] = w
    BY <2>2, <2>3 DEF Owes
  <2>6. QED
    BY <2>1, <2>4, <2>5
<1>7. Held'
  <2>1. \A d \in Docs : flights'[d] \in Seq(Writes)
    BY <1>6, ShownAreWrites
  <2>2. DOMAIN flights' = Docs /\ flights' = [d \in Docs |-> flights'[d]]
    BY DEF ClickFreeze
  <2>3. flights' \in [Docs -> Seq(Writes)]
    BY <2>1, <2>2
  <2>4. QED
    BY <1>1, <1>5, <1>6, <2>3 DEF Held
<1>8. Others'
  BY <1>1, <1>3, <1>4 DEF Others
<1>9. ASSUME NEW d \in Docs PROVE Armed(d)' /\ Carried(d)'
  <2>1. Armed(d)'
    BY <1>5 DEF Armed
  <2>2. Carried(d)'
    <3>1. SUFFICES ASSUME kind[d] # "tail", owed[d] # {} PROVE Carried(d)'
      BY <1>1, <1>4 DEF Carried
    <3>2. Owes(d) /\ owed[d] \subseteq tab[d].local /\ tab[d].synced
      BY <1>1, <1>3, <3>1 DEF Owes, Armed
    <3>3. QED
      BY <1>4, <1>5, <1>6, <3>2 DEF Carried
  <2>3. QED
    BY <2>1, <2>2
<1>10. QED
  BY <1>7, <1>8, <1>9 DEF IInv

LEMMA FreezeKeeps ==
  ASSUME IInv, PostFreeze \/ Compose PROVE IInv'
<1>1. /\ Others /\ Held /\ \A e \in Docs : Armed(e) /\ Carried(e)
      /\ UNCHANGED <<kind, server, tab, get, flights, mounted, known, failures>>
  BY DEF IInv, PostFreeze, Compose
<1>2. Held' /\ \A e \in Docs : Armed(e)'
  BY <1>1 DEF Held, Armed
<1>3. CASE PostFreeze
  <2>1. /\ freeze.at = "flushing" /\ freeze' = [freeze EXCEPT !.at = "composing"]
        /\ \A d \in Docs : \A i \in 1 .. Len(flights[d]) : ~flights[d][i].awaited
    BY <1>3 DEF PostFreeze
  <2>2. /\ Others' /\ freeze'.owed = freeze.owed
    BY <1>1, <2>1 DEF Others
  <2>3. \A d \in Docs : Carried(d)'
    BY <1>1, <2>1, <2>2 DEF Carried
  <2>4. QED
    BY <1>2, <2>2, <2>3 DEF IInv
<1>4. CASE Compose
  <2>1. Others' /\ freeze'.at = "idle"
    BY <1>1, <1>4 DEF Compose, NotFreezing, Others
  <2>2. QED
    BY <1>2, <2>1, NothingOwed DEF IInv
<1>5. QED
  BY <1>3, <1>4

-----------------------------------------------------------------------------
(* The promises *)

LEMMA InitHolds ==
  ASSUME Init PROVE IInv
<1>1. PICK cache \in [Docs -> {{}} \cup {{e} : e \in Mine}] :
        tab = [d \in Docs |-> Fresh(cache[d])]
  BY DEF Init
<1>2. ASSUME NEW d \in Docs
      PROVE  /\ tab[d] = Fresh(cache[d]) /\ cache[d] \in Content /\ cache[d] \cap Theirs = {}
  BY <1>1, DisjointEdits DEF Content
<1>3. ASSUME NEW d \in Docs
      PROVE  /\ tab[d] \in Tabs /\ tab[d] \in ShownTabs({}) /\ ~tab[d].timer /\ ~tab[d].pending
  <2>1. PICK t : t = tab[d] /\ t = Fresh(cache[d])
    BY <1>2
  <2>2. t.local = cache[d] /\ t.token = {}
    BY <2>1 DEF Fresh
  <2>3. t \in Tabs /\ ~t.timer /\ ~t.pending
    BY <1>2, <2>1 DEF Fresh, Tabs, Hashes
  <2>4. t \in ShownTabs({})
    BY <1>2, <2>2, <2>3 DEF ShownTabs, Seen
  <2>5. QED
    BY <2>1, <2>3, <2>4
<1>4. /\ known = [d \in Docs |-> {}] /\ flights = [d \in Docs |-> << >>]
      /\ freeze = NotFreezing /\ get = [d \in Docs |-> Asked]
      /\ server \in [Docs -> {{}} \cup {{e} : e \in Theirs}]
      /\ kind \in [Docs -> Kinds] /\ mounted = TRUE /\ failures = 0
  BY DEF Init
<1>5. tab \in [Docs -> Tabs]
  BY <1>1, <1>3
<1>6. \A d \in Docs : flights[d] \in Seq(Shown(known[d])) /\ flights[d] \in Seq(Writes)
  BY <1>4, EmptySeq
<1>7. Held
  BY <1>3, <1>4, <1>5, <1>6 DEF Held
<1>8. \A d \in Docs : server[d] \in Content
  <2>1. ASSUME NEW d \in Docs PROVE server[d] \in Content
    <3>1. server[d] = {} \/ \E e \in Theirs : server[d] = {e}
      BY <1>4
    <3>2. QED
      BY <3>1 DEF Content
  <2>2. QED
    BY <2>1
<1>9. Others
  BY <1>4, <1>8, DraftBounds DEF Others, NotFreezing, Gets, Asked, Content
<1>10. QED
  BY <1>3, <1>4, <1>7, <1>9 DEF IInv, Armed, Carried, NotFreezing

LEMMA StepKeeps ==
  ASSUME IInv, [Next]_draftVars PROVE IInv'
<1>1. CASE UNCHANGED draftVars
  <2>1. Others' /\ Held'
    BY <1>1 DEF IInv, Others, Held, draftVars
  <2>2. QED
    BY <1>1, <2>1 DEF IInv, Armed, Carried, draftVars
<1>2. CASE User
  BY <1>2, EditKeeps, GetKeeps, ClickKeeps, LeaveKeeps DEF User
<1>3. ASSUME NEW d \in Docs,
             Fire(d) \/ Read(d) \/ Deliver(d) \/ RetryGet(d) \/ FailGet(d) \/ OthersWrite(d)
      PROVE  IInv'
  BY <1>3, FireKeeps, GetKeeps, DeliverKeeps, OthersWriteKeeps
<1>4. ASSUME NEW d \in Docs, NEW i \in 1 .. Len(flights[d]), Request(d, i) \/ Fail(d, i)
      PROVE  IInv'
  BY <1>4, ServeKeeps, AnswerKeeps, FailKeeps DEF Request
<1>5. CASE PostFreeze \/ Compose
  BY <1>5, FreezeKeeps
<1>6. QED
  BY <1>1, <1>2, <1>3, <1>4, <1>5 DEF Next

LEMMA Inductive == Spec => []IInv
<1>1. Init => IInv
  BY InitHolds
<1>2. IInv /\ [Next]_draftVars => IInv'
  BY StepKeeps
<1>3. QED
  BY <1>1, <1>2, PTL DEF Spec

(* The tab, its requests and the freeze always have their types, whatever   *)
(* order answers arrive in (the hooks of PlanDetailRoute.tsx).               *)
THEOREM TypeCorrect == Spec => []TypeOK
<1>1. IInv => TypeOK
  BY DEF IInv, Others, Held, TypeOK
<1>2. QED
  BY <1>1, Inductive, PTL

(* What a freeze composes holds every edit that sat in the debounce window  *)
(* at the click (handleFreezeConfirm of PlanDetailRoute.tsx).                *)
THEOREM FreezeKeepsEdits == Spec => []FreezeCarriesEdits
<1>1. IInv => FreezeCarriesEdits
  <2>1. SUFFICES ASSUME IInv, freeze.at = "composing", NEW d \in Docs, kind[d] # "tail"
                 PROVE  freeze.owed[d] \subseteq server[d]
    BY DEF FreezeCarriesEdits
  <2>2. Carried(d)
    BY <2>1 DEF IInv
  <2>3. QED
    BY <2>1, <2>2 DEF Carried
<1>2. QED
  BY <1>1, Inductive, PTL

(* A write that carries a hash wipes no edit of others that the tab has not *)
(* shown: its hash is of a content that it had (onSuccess of the PUTs).      *)
THEOREM NothingWiped == Spec => NothingUnseenIsWiped
<1>1. ASSUME IInv, NEW d \in Docs, NEW i \in 1 .. Len(flights[d]),
             flights[d][i].match # {}, Serve(d, i)
      PROVE  (server[d] \cap Theirs) \ server'[d] \subseteq known[d]
  <2>1. Held /\ Others
    BY <1>1 DEF IInv
  <2>2. PICK w \in Shown(known[d]) : w = flights[d][i]
    BY <2>1, HeldAt
  <2>3. CASE Matches(d, w)
    <3>1. w.match = Hash(kind[d], server[d])
      BY <1>1, <2>2, <2>3 DEF Matches
    <3>2. server[d] \in w.match
      BY <1>1, <2>2, <3>1 DEF Hash
    <3>3. Seen(server[d], known[d])
      BY <2>2, <3>2 DEF Shown
    <3>4. QED
      BY <3>3 DEF Seen
  <2>4. CASE ~Matches(d, w)
    BY <1>1, <2>2, <2>4 DEF Serve
  <2>5. QED
    BY <2>3, <2>4
<1>2. IInv /\ [Next]_draftVars =>
        [\A d \in Docs : \A i \in 1 .. Len(flights[d]) :
           flights[d][i].match # {} /\ Serve(d, i)
             => (server[d] \cap Theirs) \ server'[d] \subseteq known[d]]_draftVars
  BY <1>1
<1>3. QED
  BY <1>2, Inductive, PTL DEF Spec, NothingUnseenIsWiped
=============================================================================
