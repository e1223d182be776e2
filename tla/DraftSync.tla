------------------------------ MODULE DraftSync ------------------------------
(***************************************************************************)
(* One browser tab editing a draft: how the plan route keeps its local     *)
(* copies of the draft's documents in step with the server's while others  *)
(* write them too.  Edits are debounced, writes carry the hash last seen   *)
(* and are refused when the server's differs, and a freeze first flushes   *)
(* what is pending.  Answers arrive in any order, late or never.           *)
(***************************************************************************)
EXTENDS Naturals, Sequences

CONSTANTS
  Docs,        \* documents of the plan that this tab mounts
  Kinds,       \* what they may be: "collection", "mapping", "tail"
  Mine,        \* the edits of this tab
  Theirs,      \* the edits of other tabs and of the authoring API
  MaxFlights,  \* bound: writes of a document in flight
  MaxFailures  \* bound: requests that fail or whose answer is lost

ASSUME DisjointEdits == Mine \cap Theirs = {}
ASSUME KnownKinds == Kinds \subseteq {"collection", "mapping", "tail"}
ASSUME DraftBounds == MaxFlights \in Nat /\ MaxFailures \in Nat

VARIABLES
  kind,      \* which of the three syncs a document has
  server,    \* the stored documents
  tab,       \* the state and refs of the hook that edits a document
  get,       \* its GET: in flight, or the answer on its way
  flights,   \* its writes in flight
  freeze,    \* handleFreezeConfirm
  mounted,   \* whether the route is still open
  known,     \* history: their edits this tab showed, or overruled on reconnect
  failures

draftVars == <<kind, server, tab, get, flights, freeze, mounted, known,
               failures>>

-----------------------------------------------------------------------------
(* A document is the set of edits it holds, {} a mapping or a tail that is  *)
(* not stored.  A hash is {the content} it was made of; what is not stored  *)
(* has none, which is {}.                                                   *)
Content == SUBSET (Mine \cup Theirs)
Hashes == {{}} \cup {{c} : c \in Content}
Hash(k, content) == IF content = {} /\ k # "collection" THEN {} ELSE {content}

(* local: the edited document; token: the hash ref; synced: the one-shot     *)
(* reconcile ran; blocked: edited while the GET was failing; conflict: told  *)
(* to reload; timer and pending: the FlushableDebounce.                      *)
Tabs == [local : Content, token : Hashes, synced : BOOLEAN,
         blocked : BOOLEAN, conflict : BOOLEAN, timer : BOOLEAN,
         pending : BOOLEAN]

(* heard: whether somebody still listens to the answer; promised: it was    *)
(* sent with mutateAsync; awaited: the freeze waits for it.                  *)
Writes == [op : {"put", "delete"}, body : Content,
           match : Hashes, heard : BOOLEAN, promised : BOOLEAN,
           awaited : BOOLEAN, verdict : {"sent", "stored", "stale"}]

Gets == [at : {"none", "asked", "failing", "read"}, content : Content]
Asked == [at |-> "asked", content |-> {}]
NoGet == [at |-> "none", content |-> {}]

NotFreezing == [at |-> "idle", owed |-> [d \in Docs |-> {}]]

TypeOK ==
  /\ kind \in [Docs -> Kinds]
  /\ server \in [Docs -> Content]
  /\ tab \in [Docs -> Tabs]
  /\ get \in [Docs -> Gets]
  /\ flights \in [Docs -> Seq(Writes)]
  /\ freeze \in [at : {"idle", "flushing", "composing"},
                 owed : [Docs -> SUBSET Mine]]
  /\ mounted \in BOOLEAN
  /\ known \in [Docs -> SUBSET Theirs]
  /\ failures \in 0 .. MaxFailures

(* A tab opens on its localStorage cache, which may be empty or of a session *)
(* whose last edit reached the server or did not.                            *)
Fresh(cache) == [local |-> cache, token |-> {}, synced |-> FALSE,
                 blocked |-> FALSE, conflict |-> FALSE, timer |-> FALSE,
                 pending |-> FALSE]

Init ==
  /\ kind \in [Docs -> Kinds]
  /\ server \in [Docs -> {{}} \cup {{e} : e \in Theirs}]
  /\ \E cache \in [Docs -> {{}} \cup {{e} : e \in Mine}] :
       tab = [d \in Docs |-> Fresh(cache[d])]
  /\ get = [d \in Docs |-> Asked]
  /\ flights = [d \in Docs |-> << >>]
  /\ freeze = NotFreezing
  /\ mounted = TRUE
  /\ known = [d \in Docs |-> {}]
  /\ failures = 0

-----------------------------------------------------------------------------
(* createFlushableDebounce *)

Arm(t)      == [t EXCEPT !.timer = TRUE, !.pending = TRUE]
Cleared(t)  == [t EXCEPT !.timer = FALSE, !.pending = FALSE]

(* A write of what is local now; a mapping that was cleared is a DELETE,    *)
(* which carries no hash.                                                   *)
WriteOf(d, promised, awaited) ==
  LET deletes == kind[d] = "mapping" /\ tab[d].local = {}
  IN [op |-> IF deletes THEN "delete" ELSE "put",
      body |-> tab[d].local,
      match |-> IF deletes THEN {} ELSE tab[d].token,
      heard |-> ~deletes,
      promised |-> promised,
      awaited |-> awaited,
      verdict |-> "sent"]

(* A mutation observer forgets the callbacks of its earlier call; a promise *)
(* keeps its own.                                                           *)
Sent(fs, w) ==
  Append([i \in DOMAIN fs |->
            IF w.op = "put" /\ ~fs[i].promised THEN [fs[i] EXCEPT !.heard = FALSE]
                                               ELSE fs[i]], w)

Room(d) == Len(flights[d]) < MaxFlights

Send(d, w) == flights' = [flights EXCEPT ![d] = Sent(@, w)]

-----------------------------------------------------------------------------
(* The user *)

(* A changed document runs the effects: an edit while the GET fails is      *)
(* remembered, and the debounce is disarmed, and armed again unless the     *)
(* sync has not run or was stopped by a conflict: then the pending write    *)
(* waits for a flush.  The tail arms at once.                               *)
Edited(d, t) ==
  LET noted == [t EXCEPT !.blocked = @ \/ (kind[d] # "tail" /\ get[d].at = "failing")]
  IN IF kind[d] = "tail" \/ (t.synced /\ ~t.conflict) THEN Arm(noted)
     ELSE [noted EXCEPT !.timer = FALSE]

(* The freeze dialog is modal: the user waits for it. *)
AtWork == mounted /\ freeze.at = "idle"

Edit(d) ==
  /\ AtWork
  /\ \E e \in Mine \ tab[d].local :
       tab' = [tab EXCEPT ![d] = Edited(d, [tab[d] EXCEPT !.local = @ \cup {e}])]
  /\ UNCHANGED <<kind, server, get, flights, freeze, mounted, known, failures>>

ClearMapping(d) ==
  /\ AtWork
  /\ kind[d] = "mapping" /\ tab[d].local # {}
  /\ tab' = [tab EXCEPT ![d] = Edited(d, [tab[d] EXCEPT !.local = {}])]
  /\ UNCHANGED <<kind, server, get, flights, freeze, mounted, known, failures>>

(* The network comes back, or another mutation invalidates the query. *)
Refetch(d) ==
  /\ mounted
  /\ get[d].at = "none"
  /\ get' = [get EXCEPT ![d] = Asked]
  /\ UNCHANGED <<kind, server, tab, flights, freeze, mounted, known, failures>>

(* Unmount: the cleanups disarm, then land what is pending, without waiting. *)
Leave ==
  /\ AtWork
  /\ \A d \in Docs : tab[d].pending => Room(d)
  /\ mounted' = FALSE
  /\ tab' = [d \in Docs |-> Cleared(tab[d])]
  /\ flights' = [d \in Docs |->
       LET deaf == [i \in DOMAIN flights[d] |->
                      [flights[d][i] EXCEPT !.heard = @ /\ flights[d][i].promised]]
       IN IF tab[d].pending THEN Sent(deaf, WriteOf(d, TRUE, FALSE)) ELSE deaf]
  /\ get' = [d \in Docs |-> NoGet]
  /\ UNCHANGED <<kind, server, freeze, known, failures>>

-----------------------------------------------------------------------------
(* The hook *)

Fire(d) ==
  /\ mounted
  /\ tab[d].timer
  /\ Room(d)
  /\ tab' = [tab EXCEPT ![d] = Cleared(@)]
  /\ Send(d, WriteOf(d, kind[d] = "tail", FALSE))
  /\ UNCHANGED <<kind, server, get, freeze, mounted, known, failures>>

(* Mutant: a later answer freshens the hash, and not the document. *)
EveryAnswerFreshens(d, content) ==
  LET t == [tab[d] EXCEPT !.synced = TRUE,
              !.token = IF Hash(kind[d], content) = {} THEN @
                        ELSE Hash(kind[d], content)]
  IN \/ /\ tab[d].synced
        /\ tab' = [tab EXCEPT ![d] = t]
        /\ UNCHANGED <<flights, known>>
     \/ /\ ~tab[d].synced
        /\ tab' = [tab EXCEPT ![d] = Arm([t EXCEPT !.local = content])]
        /\ known' = [known EXCEPT ![d] = @ \cup (content \cap Theirs)]
        /\ UNCHANGED flights

(* The first answer of a collection or a mapping reconciles: the server's   *)
(* document wins, or edits made while it was out of reach are pushed over   *)
(* it, or a cache the server has nothing for is uploaded.  Later answers    *)
(* change nothing, the hash least of all.                                   *)
Reconcile(d, content) ==
  LET t == [tab[d] EXCEPT !.synced = TRUE,
              !.token = IF Hash(kind[d], content) = {} THEN @
                        ELSE Hash(kind[d], content)]
      push == [WriteOf(d, FALSE, FALSE) EXCEPT !.match = t.token]
  IN \/ /\ tab[d].synced
        /\ UNCHANGED <<tab, flights, known>>
     \/ /\ ~tab[d].synced /\ content # {} /\ ~tab[d].blocked
        /\ tab' = [tab EXCEPT ![d] = Arm([t EXCEPT !.local = content])]
        /\ known' = [known EXCEPT ![d] = @ \cup (content \cap Theirs)]
        /\ UNCHANGED flights
     \/ /\ ~tab[d].synced /\ (content = {} \/ tab[d].blocked)
        /\ IF tab[d].local # {} \/ (tab[d].blocked /\ kind[d] = "collection")
           THEN Room(d) /\ Send(d, push) ELSE UNCHANGED flights
        /\ tab' = [tab EXCEPT ![d] =
             IF tab[d].local = {} /\ kind[d] = "mapping" THEN t
             ELSE [t EXCEPT !.blocked = FALSE]]
        /\ known' = [known EXCEPT
             ![d] = IF tab[d].blocked THEN @ \cup (content \cap Theirs) ELSE @]

(* reconcilePolicyTail: a stored tail is adopted once for each hash; a plan  *)
(* without one takes the cache, once.                                        *)
ReconcileTail(d, content) ==
  \/ /\ content # {} /\ tab[d].token # {content}
     /\ tab' = [tab EXCEPT ![d].local = content, ![d].token = {content},
                           ![d].synced = TRUE]
     /\ UNCHANGED flights
  \/ /\ content = {} /\ tab[d].local # {} /\ ~tab[d].synced
     /\ Room(d)
     /\ Send(d, [WriteOf(d, FALSE, FALSE) EXCEPT !.match = {}, !.heard = FALSE])
     /\ tab' = [tab EXCEPT ![d].synced = TRUE]
  \/ /\ \/ content # {} /\ tab[d].token = {content}
        \/ content = {} /\ (tab[d].local = {} \/ tab[d].synced)
     /\ UNCHANGED <<tab, flights>>

Deliver(d) ==
  /\ mounted
  /\ get[d].at = "read"
  /\ IF kind[d] = "tail"
     THEN /\ ReconcileTail(d, get[d].content)
          /\ known' = [known EXCEPT ![d] = @ \cup (get[d].content \cap Theirs)]
     ELSE Reconcile(d, get[d].content)
  /\ get' = [get EXCEPT ![d] = NoGet]
  /\ UNCHANGED <<kind, server, freeze, mounted, failures>>

FailGet(d) ==
  /\ failures < MaxFailures
  /\ get[d].at = "asked" /\ ~tab[d].synced
  /\ get' = [get EXCEPT ![d].at = "failing"]
  /\ failures' = failures + 1
  /\ UNCHANGED <<kind, server, tab, flights, freeze, mounted, known>>

RetryGet(d) ==
  /\ get[d].at = "failing"
  /\ get' = [get EXCEPT ![d] = Asked]
  /\ UNCHANGED <<kind, server, tab, flights, freeze, mounted, known, failures>>

-----------------------------------------------------------------------------
(* The server, one request at a time, and the others who write to it *)

Read(d) ==
  /\ get[d].at = "asked"
  /\ get' = [get EXCEPT ![d] = [at |-> "read", content |-> server[d]]]
  /\ UNCHANGED <<kind, server, tab, flights, freeze, mounted, known, failures>>

(* If-Match against the current hash; a request without it is not checked. *)
Matches(d, w) == w.match = {} \/ w.match = Hash(kind[d], server[d])

Serve(d, i) ==
  /\ flights[d][i].verdict = "sent"
  /\ LET w == flights[d][i] IN
       IF Matches(d, w)
       THEN /\ server' = [server EXCEPT ![d] = w.body]
            /\ flights' = [flights EXCEPT ![d][i].verdict = "stored"]
       ELSE /\ flights' = [flights EXCEPT ![d][i].verdict = "stale"]
            /\ UNCHANGED server
  /\ UNCHANGED <<kind, tab, get, freeze, mounted, known, failures>>

OthersWrite(d) ==
  /\ \E e \in Theirs \ server[d] : server' = [server EXCEPT ![d] = @ \cup {e}]
  /\ UNCHANGED <<kind, tab, get, flights, freeze, mounted, known, failures>>

-----------------------------------------------------------------------------
(* The answers *)

Without(fs, i) == SubSeq(fs, 1, i - 1) \o SubSeq(fs, i + 1, Len(fs))
NotAwaited(fs) == [i \in DOMAIN fs |-> [fs[i] EXCEPT !.awaited = FALSE]]

(* Mutant: the ref keeps the document in the place of its hash. *)
KeepsTheDocument(d, w) ==
  IF w.verdict = "stored" THEN [tab[d] EXCEPT !.token = w.body] ELSE tab[d]

(* Mutant: a stale write is dropped without a word. *)
DropsStaleWrites(d, w) ==
  IF w.verdict = "stored" /\ w.op = "put" /\ w.heard
  THEN [tab[d] EXCEPT !.token = {w.body}] ELSE tab[d]

(* A stored write freshens the hash if somebody listens.  A stale one stops *)
(* the sync; the tail refetches instead, and adopts.                        *)
Settled(d, w) ==
  CASE w.verdict = "stored" /\ w.op = "put" /\ w.heard ->
         [tab[d] EXCEPT !.token = {w.body}]
    [] w.verdict = "stale" /\ w.heard /\ kind[d] # "tail" ->
         [tab[d] EXCEPT !.conflict = TRUE]
    [] OTHER -> tab[d]

Refetches(d, w) == mounted /\ kind[d] = "tail" /\ w.verdict \in {"stored", "stale"}

(* Mutant: the flushes are settled and nobody looks how. *)
NeverAborts(d, w) == FALSE

(* A rejected flush aborts the freeze; the tail resolves a stale one. *)
Aborts(d, w) == w.awaited /\ w.verdict # "stored" /\ ~(kind[d] = "tail" /\ w.verdict = "stale")

Conclude(d, i, w) ==
  IF Aborts(d, w)
  THEN /\ flights' = [e \in Docs |-> NotAwaited(IF e = d THEN Without(flights[d], i)
                                                        ELSE flights[e])]
       /\ freeze' = NotFreezing
  ELSE /\ flights' = [flights EXCEPT ![d] = Without(@, i)]
       /\ UNCHANGED freeze

Answer(d, i) ==
  LET w == flights[d][i] IN
  /\ w.verdict # "sent"
  /\ tab' = [tab EXCEPT ![d] = Settled(d, w)]
  /\ get' = IF Refetches(d, w) THEN [get EXCEPT ![d] = Asked] ELSE get
  /\ Conclude(d, i, w)
  /\ UNCHANGED <<kind, server, mounted, known, failures>>

(* The request is lost on its way, or its answer is. *)
Fail(d, i) ==
  /\ failures < MaxFailures
  /\ flights[d][i].verdict \in {"sent", "stored"}
  /\ Conclude(d, i, [flights[d][i] EXCEPT !.verdict = "sent"])
  /\ failures' = failures + 1
  /\ UNCHANGED <<kind, server, tab, get, mounted, known>>

-----------------------------------------------------------------------------
(* handleFreezeConfirm: flush all, then let the server compose the version *)

(* An edit sits in the debounce window and nothing else is under way. *)
Owes(d) == tab[d].pending /\ flights[d] = << >>

ClickFreeze ==
  /\ AtWork
  /\ \A d \in Docs : tab[d].pending => Room(d)
  /\ freeze' = [NotFreezing EXCEPT !.at = "flushing",
       !.owed = [d \in Docs |-> IF Owes(d) THEN tab[d].local \cap Mine ELSE {}]]
  /\ flights' = [d \in Docs |-> IF tab[d].pending
                                THEN Sent(flights[d], WriteOf(d, TRUE, TRUE))
                                ELSE flights[d]]
  /\ tab' = [d \in Docs |-> Cleared(tab[d])]
  /\ UNCHANGED <<kind, server, get, mounted, known, failures>>

PostFreeze ==
  /\ freeze.at = "flushing"
  /\ \A d \in Docs : \A i \in 1 .. Len(flights[d]) : ~flights[d][i].awaited
  /\ freeze' = [freeze EXCEPT !.at = "composing"]
  /\ UNCHANGED <<kind, server, tab, get, flights, mounted, known, failures>>

Compose ==
  /\ freeze.at = "composing"
  /\ freeze' = NotFreezing
  /\ UNCHANGED <<kind, server, tab, get, flights, mounted, known, failures>>

-----------------------------------------------------------------------------
User == \/ \E d \in Docs : Edit(d) \/ ClearMapping(d) \/ Refetch(d)
        \/ ClickFreeze \/ Leave

Request(d, i) == Serve(d, i) \/ Answer(d, i)

Next ==
  \/ User
  \/ \E d \in Docs : \/ Fire(d) \/ Read(d) \/ Deliver(d) \/ RetryGet(d)
                     \/ FailGet(d) \/ OthersWrite(d)
                     \/ \E i \in 1 .. Len(flights[d]) : Request(d, i) \/ Fail(d, i)
  \/ PostFreeze \/ Compose

Spec == Init /\ [][Next]_draftVars

(* Timers fire and requests are answered; users, others and failures owe    *)
(* nothing.                                                                 *)
Fairness ==
  /\ \A d \in Docs :
       /\ WF_draftVars(Fire(d))
       /\ WF_draftVars(Read(d)) /\ WF_draftVars(Deliver(d)) /\ WF_draftVars(RetryGet(d))
       /\ \A i \in 1 .. MaxFlights :
            WF_draftVars(i <= Len(flights[d]) /\ Request(d, i))
  /\ WF_draftVars(PostFreeze) /\ WF_draftVars(Compose)

FairSpec == Spec /\ Fairness

-----------------------------------------------------------------------------
(* The properties *)

(* A write that carries a hash never wipes an edit of others that this tab   *)
(* has not shown, in whatever order writes, answers and refetches arrive:    *)
(* the hash a write carries is never fresher than the document it carries.   *)
(* Only what a reconnect push overrules on purpose is exempt.                *)
NothingUnseenIsWiped ==
  [][\A d \in Docs : \A i \in 1 .. Len(flights[d]) :
       flights[d][i].match # {} /\ Serve(d, i)
         => (server[d] \cap Theirs) \ server'[d] \subseteq known[d]]_draftVars

(* What the server composes for a freeze of this tab holds every edit that   *)
(* sat in the debounce window at the click, if no write was in flight:       *)
(* the barrier lands what is pending, or the freeze does not happen.  The    *)
(* tail is exempt: it resolves a refused write.                              *)
FreezeCarriesEdits ==
  freeze.at = "composing" =>
    \A d \in Docs : kind[d] # "tail" => freeze.owed[d] \subseteq server[d]

(* An edit of a reconciled collection ends on the server, or the user hears  *)
(* that it did not: a conflict, a failed save, or the edit is taken back.    *)
(* Not so a mapping: its DELETE carries no hash, so one that overtakes the   *)
(* PUT behind it leaves nothing stored and nobody told.                      *)
EditsLand ==
  \A d \in Docs : \A e \in Mine :
    kind[d] = "collection" /\ tab[d].synced /\ e \in tab[d].local
      ~> \/ e \in server[d] \/ e \notin tab[d].local
         \/ tab[d].conflict \/ failures > 0 \/ ~mounted
=============================================================================
