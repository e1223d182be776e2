--------------------------- MODULE BookRunsProofs ---------------------------
(***************************************************************************)
(* A book run is rated once and ends once, for any number of jobs, workers *)
(* and faults, and with either queue.  A job is queued once and claimed    *)
(* once, and until its worker closes it the record says that it is open:   *)
(* so nobody reads a terminal state while anything could still append to   *)
(* its files, and what the state said of the files stays true.             *)
(***************************************************************************)
EXTENDS BookRuns, SequenceTheorems, TLAPS

Queued(j) == \E i \in 1 .. Len(ready) : ready[i] = j
Free(j)   == ~Queued(j) /\ \A w \in Workers : ~Holds(w, j)

Untouched(j) == files[j].results = << >> /\ ~files[j].torn /\ ~files[j].summary
Whole(j)     == Len(files[j].results) = Rows[j] /\ ~files[j].torn

(* How far the files of a job are when the worker that holds it is at a step. *)
AsFar(at, start, j) ==
  /\ at \notin {"idle", "asking"}
  /\ at \in {"claimed", "loading"} => Untouched(j) /\ start = 0
  /\ at = "rating" => /\ start = Len(files[j].results) /\ start < Rows[j]
                      /\ ~files[j].torn /\ ~files[j].summary
  /\ at \in {"summing", "closing"} => Whole(j)

Proven(j) == \/ files[j].summary \/ record[j] = "succeeded" \/ run[j].status = "done"
             \/ \E a \in answers[j] : a.status = "succeeded"

JobInv(j) ==
  /\ \A v, w \in Workers : Holds(v, j) /\ Holds(w, j) => v = w
  /\ Queued(j) => /\ \A w \in Workers : ~Holds(w, j)
                  /\ record[j] = "queued" /\ Untouched(j)
  /\ \A w \in Workers : Holds(w, j) =>
       record[j] \in {"queued", "running"} /\ AsFar(worker[w].at, worker[w].start, j)
  /\ post[j] \in {"new", "saving", "saved"} => Free(j) /\ record[j] = "none" /\ Untouched(j)
  /\ post[j] # "over" => run[j].status = "none"
  /\ run[j].status = "none" => answers[j] = {}
  /\ answers[j] # {} \/ Ended(j) => Free(j)
  /\ files[j].results = Rated(0, Len(files[j].results))
  /\ Len(files[j].results) <= Rows[j]
  /\ Proven(j) => Whole(j)

(* The list hands a job out once. *)
QueueInv == \A i, k \in 1 .. Len(ready) : ready[i] = ready[k] => i = k

IInv == TypeOK /\ QueueInv /\ \A j \in Jobs : JobInv(j)

-----------------------------------------------------------------------------
(* Rows *)

LEMMA RatedSeq ==
  ASSUME NEW start \in Nat, NEW n \in Nat
  PROVE  /\ Rated(start, n) \in Seq(Nat) /\ Len(Rated(start, n)) = n
         /\ \A i \in 1 .. n : Rated(start, n)[i] = start + i
<1>1. \A i \in 1 .. n : start + i \in Nat
  OBVIOUS
<1>2. Rated(start, n) \in [1 .. n -> Nat]
  BY <1>1 DEF Rated
<1>3. Rated(start, n) \in Seq(Nat)
  BY <1>2, SeqDef
<1>4. DOMAIN Rated(start, n) = 1 .. n
  BY DEF Rated
<1>5. Len(Rated(start, n)) = n
  BY <1>3, <1>4, LenProperties
<1>6. QED
  BY <1>3, <1>5 DEF Rated

LEMMA RatedFirst ==
  ASSUME NEW n \in Nat
  PROVE  /\ Rated(0, n) \in Seq(Nat) /\ Len(Rated(0, n)) = n
         /\ \A i \in 1 .. n : Rated(0, n)[i] = i
<1>1. 0 \in Nat /\ \A i \in 1 .. n : 0 + i = i
  OBVIOUS
<1>2. /\ Rated(0, n) \in Seq(Nat) /\ Len(Rated(0, n)) = n
      /\ \A i \in 1 .. n : Rated(0, n)[i] = 0 + i
  BY <1>1, RatedSeq, Zenon
<1>3. QED
  BY <1>1, <1>2

(* Rows rated from where the last chunk ended continue the book. *)
LEMMA RatedOn ==
  ASSUME NEW m \in Nat, NEW n \in Nat
  PROVE  Rated(0, m) \o Rated(m, n) = Rated(0, m + n)
<1> DEFINE a == Rated(0, m)
           b == Rated(m, n)
           c == Rated(0, m + n)
<1>1. /\ a \in Seq(Nat) /\ Len(a) = m /\ \A i \in 1 .. m : a[i] = i
      /\ b \in Seq(Nat) /\ Len(b) = n /\ \A i \in 1 .. n : b[i] = m + i
      /\ c \in Seq(Nat) /\ Len(c) = m + n /\ \A i \in 1 .. m + n : c[i] = i
  <2>1. m + n \in Nat
    OBVIOUS
  <2>2. /\ a \in Seq(Nat) /\ Len(a) = m /\ \A i \in 1 .. m : a[i] = i
    BY RatedFirst
  <2>3. /\ b \in Seq(Nat) /\ Len(b) = n /\ \A i \in 1 .. n : b[i] = m + i
    BY RatedSeq
  <2>4. /\ c \in Seq(Nat) /\ Len(c) = m + n /\ \A i \in 1 .. m + n : c[i] = i
    BY <2>1, RatedFirst
  <2> HIDE DEF a, b, c
  <2>5. QED
    BY <2>2, <2>3, <2>4
<1> HIDE DEF a, b, c
<1>2. /\ a \o b \in Seq(Nat) /\ Len(a \o b) = m + n
      /\ \A i \in 1 .. m + n : (a \o b)[i] = IF i <= m THEN a[i] ELSE b[i - m]
  BY <1>1, ConcatProperties
<1>3. ASSUME NEW i \in 1 .. m + n PROVE (a \o b)[i] = c[i]
  <2>1. CASE i <= m
    BY <1>1, <1>2, <2>1
  <2>2. CASE ~(i <= m)
    <3>1. i - m \in 1 .. n /\ m + (i - m) = i
      BY <2>2
    <3>2. QED
      BY <1>1, <1>2, <2>2, <3>1
  <2>3. QED
    BY <2>1, <2>2
<1>4. a \o b = c
  BY <1>1, <1>2, <1>3, SeqEqual
<1>5. QED
  BY <1>4 DEF a, b, c

(* A page of a results file. *)
LEMMA RatedPart ==
  ASSUME NEW n \in Nat, NEW m \in 0 .. n, NEW last \in m .. n
  PROVE  SubSeq(Rated(0, n), m + 1, last) = Rated(m, last - m)
<1> DEFINE c == Rated(0, n)
           b == Rated(m, last - m)
<1>1. last - m \in Nat /\ m \in Nat /\ last \in Nat
  OBVIOUS
<1>2. /\ c \in Seq(Nat) /\ Len(c) = n /\ \A i \in 1 .. n : c[i] = i
      /\ b \in Seq(Nat) /\ Len(b) = last - m /\ \A i \in 1 .. last - m : b[i] = m + i
  <2>1. c \in Seq(Nat) /\ Len(c) = n /\ \A i \in 1 .. n : c[i] = i
    BY RatedFirst
  <2>2. b \in Seq(Nat) /\ Len(b) = last - m /\ \A i \in 1 .. last - m : b[i] = m + i
    BY <1>1, RatedSeq
  <2> HIDE DEF b, c
  <2>3. QED
    BY <2>1, <2>2
<1> HIDE DEF b, c
<1>3. \A i \in m + 1 .. last : c[i] \in Nat
  BY <1>2
<1>4. /\ SubSeq(c, m + 1, last) \in Seq(Nat) /\ Len(SubSeq(c, m + 1, last)) = last - m
      /\ \A i \in 1 .. last - m : SubSeq(c, m + 1, last)[i] = c[m + i]
  <2>1. /\ SubSeq(c, m + 1, last) \in Seq(Nat)
        /\ Len(SubSeq(c, m + 1, last)) = IF m + 1 <= last THEN last - (m + 1) + 1 ELSE 0
        /\ \A i \in 1 .. last - (m + 1) + 1 : SubSeq(c, m + 1, last)[i] = c[(m + 1) + i - 1]
    BY <1>1, <1>3, SubSeqProperties
  <2>2. last - (m + 1) + 1 = last - m /\ (~(m + 1 <= last) => last - m = 0)
    BY <1>1
  <2>3. \A i \in 1 .. last - m : (m + 1) + i - 1 = m + i
    BY <1>1
  <2>4. QED
    BY <2>1, <2>2, <2>3
<1>5. \A i \in 1 .. last - m : SubSeq(c, m + 1, last)[i] = b[i]
  <2> SUFFICES ASSUME NEW i \in 1 .. last - m
               PROVE  SubSeq(c, m + 1, last)[i] = b[i]
    OBVIOUS
  <2>1. m + i \in 1 .. n
    BY <1>1
  <2>2. QED
    BY <1>2, <1>4, <2>1
<1>6. SubSeq(c, m + 1, last) = b
  BY <1>2, <1>4, <1>5, SeqEqual
<1>7. QED
  BY <1>6 DEF b, c

(* A chunk is never empty and never longer than the book. *)
LEMMA ChunkFits ==
  ASSUME NEW size \in Nat, NEW start \in Nat, start < size
  PROVE  /\ ChunkLength(start, size) \in Nat \ {0}
         /\ start + ChunkLength(start, size) <= size
BY Sizes DEF ChunkLength, Min

-----------------------------------------------------------------------------
(* Types *)

Loops  == [at : Steps, job : SUBSET Jobs, start : Nat]
Stored == [spec : BOOLEAN, results : Seq(Nat), torn : BOOLEAN, summary : BOOLEAN]

LEMMA Typed ==
  ASSUME TypeOK
  PROVE  /\ worker \in [Workers -> Loops] /\ files \in [Jobs -> Stored]
         /\ ready \in Seq(Jobs) /\ Len(ready) \in Nat
         /\ \A i \in 1 .. Len(ready) : ready[i] \in Jobs
         /\ \A j \in Jobs : /\ files[j].results \in Seq(Nat) /\ Len(files[j].results) \in Nat
                            /\ Rows[j] \in Nat \ {0}
BY RowCounts, LenProperties DEF TypeOK, Loops, Stored

LEMMA InitTyped == Init => TypeOK
<1> SUFFICES ASSUME Init PROVE TypeOK
  OBVIOUS
<1>1. Idle \in Loops
  BY DEF Idle, Loops, Steps
<1>2. NoFiles \in Stored
  BY DEF NoFiles, Stored
<1>3. reader \in [Readers -> [by : {"none", "ui", "collect"}, job : SUBSET Jobs,
                             got : Seq(Nat), over : BOOLEAN]]
  BY DEF Init, Closed
<1>4. run \in [Jobs -> [status : {"none", "running", "done", "error"},
                       result : {"none", "summary", "blank"}]]
  BY DEF Init, NoRun
<1>5. /\ record \in [Jobs -> {"none"} \cup Statuses] /\ ready \in Seq(Jobs)
      /\ post \in [Jobs -> {"new", "saving", "saved", "answered", "over"}]
      /\ answers \in [Jobs -> SUBSET [status : Terminal, summary : BOOLEAN]]
  BY DEF Init
<1>6. restarts \in 0 .. MaxRestarts /\ faults \in 0 .. MaxFaults
  BY Bounds DEF Init
<1>7. QED
  BY <1>1, <1>2, <1>3, <1>4, <1>5, <1>6 DEF Init, TypeOK, Loops, Stored

(* A worker goes on to a step, or to none. *)
LEMMA ToTyped ==
  ASSUME TypeOK, NEW w \in Workers, NEW step \in Steps
  PROVE  To(w, step) \in [Workers -> Loops]
<1>1. worker[w] \in Loops /\ worker \in [Workers -> Loops]
  BY Typed
<1>2. [worker[w] EXCEPT !.at = step] \in Loops
  BY <1>1 DEF Loops
<1>3. QED
  BY <1>1, <1>2 DEF To

LEMMA IdleTyped ==
  ASSUME TypeOK, NEW w \in Workers
  PROVE  [worker EXCEPT ![w] = Idle] \in [Workers -> Loops]
<1>1. Idle \in Loops
  BY DEF Idle, Loops, Steps
<1>2. QED
  BY <1>1, Typed

LEMMA UpdatedTyped ==
  ASSUME TypeOK, NEW j \in Jobs, NEW step \in Statuses
  PROVE  Updated(j, step) \in [Jobs -> {"none"} \cup Statuses]
BY DEF TypeOK, Updated

LEMMA BoundsTyped ==
  ASSUME TypeOK
  PROVE  /\ faults < MaxFaults => faults + 1 \in 0 .. MaxFaults
         /\ restarts < MaxRestarts => restarts + 1 \in 0 .. MaxRestarts
BY Bounds DEF TypeOK

-----------------------------------------------------------------------------
(* What a step that leaves a job alone keeps *)

Same(j) ==
  /\ /\ files'[j].results = files[j].results /\ files'[j].torn = files[j].torn
     /\ files'[j].summary = files[j].summary
  /\ record'[j] = record[j] \/ (record'[j] = "none" /\ Free(j)')
  /\ run'[j] = run[j] /\ answers'[j] = answers[j]
  /\ post'[j] \in {"new", "saving", "saved"} => post[j] \in {"new", "saving", "saved"}
  /\ post'[j] # "over" => post[j] # "over"
  /\ Queued(j)' => Queued(j)
  /\ \A w \in Workers : Holds(w, j)' =>
       /\ Holds(w, j)
       /\ \/ worker'[w].at = worker[w].at /\ worker'[w].start = worker[w].start
          \/ AsFar(worker'[w].at, worker'[w].start, j)

LEMMA SameKeeps ==
  ASSUME NEW j, JobInv(j), Same(j)
  PROVE  JobInv(j)'
<1>1. /\ Untouched(j)' = Untouched(j) /\ Whole(j)' = Whole(j)
      /\ files'[j].results = files[j].results
  BY DEF Same, Untouched, Whole
<1>2. Free(j) => Free(j)'
  BY DEF Same, Free
<1>3. \A w \in Workers : Holds(w, j)' => AsFar(worker[w].at, worker[w].start, j)'
  <2> SUFFICES ASSUME NEW w \in Workers, Holds(w, j)'
               PROVE  AsFar(worker[w].at, worker[w].start, j)'
    OBVIOUS
  <2>1. AsFar(worker'[w].at, worker'[w].start, j)
    BY DEF Same, JobInv
  <2>2. QED
    BY <1>1, <2>1 DEF Same, AsFar
<1>4. Proven(j)' => Proven(j)
  BY DEF Same, Proven
<1>5. \A w \in Workers : Holds(w, j)' => record'[j] \in {"queued", "running"}
  BY DEF Same, JobInv, Free
<1>6. Queued(j)' => record'[j] = "queued" /\ \A w \in Workers : ~Holds(w, j)'
  BY DEF Same, JobInv, Free
<1>7. QED
  BY <1>1, <1>2, <1>3, <1>4, <1>5, <1>6 DEF Same, JobInv, Ended

(* A step of all jobs alike that leaves the list alone. *)
LEMMA AllSameKeep ==
  ASSUME IInv, TypeOK', ready' = ready, \A j \in Jobs : Same(j)
  PROVE  IInv'
<1>1. QueueInv'
  BY DEF IInv, QueueInv
<1>2. \A j \in Jobs : JobInv(j)'
  BY SameKeeps DEF IInv
<1>3. QED
  BY <1>1, <1>2 DEF IInv

(* What a step owes to the files, the queue and the loops it leaves alone. *)
LEMMA QueueSame ==
  ASSUME NEW j, ready' = ready PROVE Queued(j)' <=> Queued(j)
BY DEF Queued

-----------------------------------------------------------------------------
(* POST /score-batch *)

LEMMA SaveSpecKeeps ==
  ASSUME IInv, NEW j \in Jobs, SaveSpec(j) PROVE IInv'
<1>1. TypeOK'
  <2>1. files' \in [Jobs -> Stored]
    BY Typed DEF IInv, SaveSpec, Stored
  <2>2. QED
    BY <2>1 DEF IInv, SaveSpec, Posting, serviceVars, TypeOK, Stored
<1>2. \A k \in Jobs : Same(k)
  BY QueueSame, Typed DEF IInv, TypeOK, SaveSpec, Posting, serviceVars, Same, Holds, Stored
<1>3. QED
  BY <1>1, <1>2, AllSameKeep DEF SaveSpec, serviceVars

LEMMA SaveInputKeeps ==
  ASSUME IInv, NEW j \in Jobs, SaveInput(j) PROVE IInv'
<1>1. TypeOK'
  BY DEF IInv, SaveInput, Posting, serviceVars, TypeOK
<1>2. \A k \in Jobs : Same(k)
  BY QueueSame DEF IInv, TypeOK, SaveInput, Posting, serviceVars, Same, Holds
<1>3. QED
  BY <1>1, <1>2, AllSameKeep DEF SaveInput, serviceVars

LEMMA LoseAnswerKeeps ==
  ASSUME IInv, NEW j \in Jobs, LoseAnswer(j) PROVE IInv'
<1>1. TypeOK'
  BY BoundsTyped DEF IInv, LoseAnswer, Posting, serviceVars, TypeOK
<1>2. \A k \in Jobs : Same(k)
  BY QueueSame DEF IInv, TypeOK, LoseAnswer, Posting, serviceVars, Same, Holds
<1>3. QED
  BY <1>1, <1>2, AllSameKeep DEF LoseAnswer, serviceVars

LEMMA EnqueueKeeps ==
  ASSUME IInv, NEW j \in Jobs, Enqueue(j) PROVE IInv'
<1>1. TypeOK'
  BY DEF IInv, Enqueue, Posting, TypeOK, Statuses
<1>2. ~Queued(j) /\ (\A w \in Workers : ~Holds(w, j)) /\ Untouched(j)
  BY DEF IInv, JobInv, Enqueue, Posting, Free
<1>3. /\ Len(ready') = Len(ready) + 1 /\ Len(ready) \in Nat
      /\ \A i \in 1 .. Len(ready) + 1 :
           ready'[i] = IF i <= Len(ready) THEN ready[i] ELSE j
  BY Typed, AppendProperties DEF IInv, Enqueue
<1>4. QueueInv'
  BY <1>2, <1>3 DEF IInv, QueueInv, Queued
<1>5. ASSUME NEW k \in Jobs, k # j PROVE JobInv(k)'
  <2>1. Queued(k)' => Queued(k)
    BY <1>3, <1>5 DEF Queued
  <2>2. Same(k)
    BY <1>5, <2>1 DEF IInv, TypeOK, Enqueue, Posting, Same, Holds
  <2>3. QED
    BY <2>2, SameKeeps DEF IInv
<1>6. JobInv(j)'
  <2>1. /\ Untouched(j)' /\ record'[j] = "queued" /\ post'[j] = "answered"
        /\ run' = run /\ answers' = answers /\ files' = files /\ worker' = worker
    BY <1>2 DEF IInv, TypeOK, Enqueue, Posting, Untouched
  <2>2. \A w \in Workers : ~Holds(w, j)'
    BY <1>2, <2>1 DEF Holds
  <2>3. run[j].status = "none" /\ answers[j] = {}
    BY DEF IInv, JobInv, Enqueue, Posting
  <2>4. Proven(j)' => Proven(j)
    BY <2>1 DEF Proven
  <2>5. Whole(j)' = Whole(j)
    BY <2>1 DEF Whole
  <2>6. QED
    BY <2>1, <2>2, <2>3, <2>4, <2>5 DEF IInv, JobInv, Ended
<1>7. QED
  BY <1>1, <1>4, <1>5, <1>6 DEF IInv

LEMMA InsertRunKeeps ==
  ASSUME IInv, NEW j \in Jobs, InsertRun(j) PROVE IInv'
<1>1. TypeOK'
  BY DEF IInv, InsertRun, Posting, serviceVars, TypeOK
<1>2. QueueInv'
  BY DEF IInv, QueueInv, InsertRun, serviceVars
<1>3. ASSUME NEW k \in Jobs, k # j PROVE JobInv(k)'
  <2>1. Same(k)
    BY <1>3, QueueSame DEF IInv, TypeOK, InsertRun, Posting, serviceVars, Same, Holds
  <2>2. QED
    BY <2>1, SameKeeps DEF IInv
<1>4. JobInv(j)'
  <2>1. /\ post'[j] = "over" /\ run'[j].status = "running"
        /\ record' = record /\ answers' = answers /\ files' = files /\ worker' = worker
        /\ ready' = ready
    BY DEF IInv, TypeOK, InsertRun, Posting, serviceVars
  <2>2. run[j].status = "none" /\ answers[j] = {}
    BY DEF IInv, JobInv, InsertRun, Posting
  <2>3. /\ (Queued(j)' <=> Queued(j)) /\ (Whole(j)' <=> Whole(j)) /\ (Untouched(j)' <=> Untouched(j))
        /\ \A w \in Workers : Holds(w, j)' <=> Holds(w, j)
    BY <2>1, QueueSame DEF Whole, Untouched, Holds
  <2>4. Proven(j)' => Proven(j)
    BY <2>1 DEF Proven
  <2>5. \A w \in Workers : AsFar(worker[w].at, worker[w].start, j)'
                           <=> AsFar(worker[w].at, worker[w].start, j)
    BY <2>1, <2>3 DEF AsFar
  <2>6. QED
    BY <2>1, <2>2, <2>3, <2>4, <2>5 DEF IInv, JobInv, Ended
<1>5. QED
  BY <1>1, <1>2, <1>3, <1>4 DEF IInv

-----------------------------------------------------------------------------
(* processNextJob *)

(* A loop that goes on to a step keeps its job and where it is in the book. *)
LEMMA ToKeeps ==
  ASSUME TypeOK, NEW w \in Workers, NEW step \in Steps, worker' = To(w, step)
  PROVE  /\ worker' \in [Workers -> Loops]
         /\ \A j \in Jobs, v \in Workers : Holds(v, j)' <=> Holds(v, j)
         /\ \A v \in Workers : worker'[v].start = worker[v].start
         /\ \A v \in Workers : v # w => worker'[v].at = worker[v].at
         /\ worker'[w].at = step
<1>1. worker' \in [Workers -> Loops]
  BY ToTyped
<1>2. QED
  BY <1>1, Typed DEF To, Holds, Loops

(* A loop that lets go of its job. *)
LEMMA IdleKeeps ==
  ASSUME TypeOK, NEW w \in Workers, worker' = [worker EXCEPT ![w] = Idle]
  PROVE  /\ worker' \in [Workers -> Loops]
         /\ \A j \in Jobs, v \in Workers : Holds(v, j)' <=> v # w /\ Holds(v, j)
         /\ \A v \in Workers : v # w => worker'[v] = worker[v]
<1>1. worker' \in [Workers -> Loops]
  BY IdleTyped
<1>2. worker'[w].job = {} /\ \A v \in Workers : v # w => worker'[v] = worker[v]
  BY Typed DEF Idle
<1>3. \A j : {j} # {}
  OBVIOUS
<1>4. QED
  BY <1>1, <1>2, <1>3 DEF Holds

LEMMA AskKeeps ==
  ASSUME IInv, NEW w \in Workers, Ask(w) PROVE IInv'
<1>1. "asking" \in Steps /\ worker' = To(w, "asking")
  BY DEF Ask, Steps
<1>2. TypeOK'
  BY <1>1, ToTyped DEF IInv, Ask, TypeOK, Loops
<1>3. \A k \in Jobs : Same(k)
  <2>1. \A k \in Jobs : ~Holds(w, k)
    BY DEF IInv, JobInv, AsFar, Ask
  <2>2. /\ \A k \in Jobs, v \in Workers : Holds(v, k)' <=> Holds(v, k)
        /\ \A v \in Workers : worker'[v].start = worker[v].start
        /\ \A v \in Workers : v # w => worker'[v].at = worker[v].at
    BY <1>1, ToKeeps DEF IInv
  <2>3. QED
    BY <2>1, <2>2 DEF Ask, Same, Holds, Queued
<1>4. QED
  BY <1>2, <1>3, AllSameKeep DEF Ask

LEMMA TimeOutKeeps ==
  ASSUME IInv, NEW w \in Workers, TimeOut(w) PROVE IInv'
<1>1. "idle" \in Steps /\ worker' = To(w, "idle")
  BY DEF TimeOut, Steps
<1>2. TypeOK'
  BY <1>1, ToTyped DEF IInv, TimeOut, TypeOK, Loops
<1>3. \A k \in Jobs : Same(k)
  <2>1. \A k \in Jobs : ~Holds(w, k)
    BY DEF IInv, JobInv, AsFar, TimeOut
  <2>2. /\ \A k \in Jobs, v \in Workers : Holds(v, k)' <=> Holds(v, k)
        /\ \A v \in Workers : worker'[v].start = worker[v].start
        /\ \A v \in Workers : v # w => worker'[v].at = worker[v].at
    BY <1>1, ToKeeps DEF IInv
  <2>3. QED
    BY <2>1, <2>2, QueueSame DEF TimeOut, Same, Holds
<1>4. QED
  BY <1>2, <1>3, AllSameKeep DEF TimeOut

LEMMA ClaimKeeps ==
  ASSUME IInv, NEW w \in Workers, Claim(w) PROVE IInv'
<1>1. ready \in Seq(Jobs) /\ ready # << >>
  BY DEF IInv, TypeOK, Claim
<1>0. PICK j \in Jobs : j = Head(ready)
  BY <1>1, HeadTailProperties
<1> DEFINE held == [Idle EXCEPT !.at = "claimed", !.job = {j}]
<1>2. /\ j = ready[1] /\ Len(ready) \in Nat \ {0} /\ ready' \in Seq(Jobs)
      /\ Len(ready') = Len(ready) - 1
      /\ \A i \in 1 .. Len(ready) - 1 : ready'[i] = ready[i + 1]
  BY <1>0, <1>1, HeadTailProperties, EmptySeq, LenProperties DEF Claim
<1>3. Queued(j)
  BY <1>2 DEF Queued
<1>4. \A k \in Jobs : Queued(k)' => Queued(k) /\ k # j
  BY <1>2 DEF IInv, QueueInv, Queued
<1>5. held.at = "claimed" /\ held.job = {j} /\ held.start = 0 /\ held \in Loops
  BY <1>3 DEF Idle, Loops, Steps
<1>6. /\ worker' = [worker EXCEPT ![w] = held] /\ worker'[w] = held
      /\ \A v \in Workers : v # w => worker'[v] = worker[v]
  BY <1>0, Typed DEF IInv, Claim
<1> HIDE DEF held
<1>7. worker' \in [Workers -> Loops]
  BY <1>5, <1>6, Typed DEF IInv
<1>8. TypeOK'
  BY <1>2, <1>7 DEF IInv, Claim, TypeOK, Loops
<1>9. QueueInv'
  BY <1>2 DEF IInv, QueueInv
<1>10. /\ \A k \in Jobs : Holds(w, k)' => k = j
       /\ \A k \in Jobs, v \in Workers : v # w => (Holds(v, k)' <=> Holds(v, k))
       /\ Holds(w, j)'
  BY <1>5, <1>6 DEF Holds
<1>11. ASSUME NEW k \in Jobs, k # j PROVE JobInv(k)'
  <2>1. Same(k)
    BY <1>4, <1>6, <1>10, <1>11 DEF Claim, Same
  <2>2. QED
    BY <2>1, SameKeeps DEF IInv
<1>12. JobInv(j)'
  <2>1. /\ record[j] = "queued" /\ Untouched(j) /\ \A v \in Workers : ~Holds(v, j)
        /\ post[j] \notin {"new", "saving", "saved"} /\ ~Ended(j) /\ answers[j] = {}
    BY <1>3 DEF IInv, JobInv, Free
  <2>2. /\ record' = record /\ files' = files /\ post' = post /\ run' = run
        /\ answers' = answers /\ ~Queued(j)'
    BY <1>4 DEF Claim
  <2>3. \A v \in Workers : Holds(v, j)' => v = w
    BY <1>10, <2>1
  <2>4. AsFar(worker[w].at, worker[w].start, j)'
    BY <1>5, <1>6, <2>1, <2>2 DEF AsFar, Untouched
  <2>5. Proven(j)' => Proven(j)
    BY <2>2 DEF Proven
  <2>6. (Whole(j)' <=> Whole(j))
    BY <2>2 DEF Whole
  <2>7. QED
    BY <1>3, <2>1, <2>2, <2>3, <2>4, <2>5, <2>6 DEF IInv, JobInv, Ended
<1>13. QED
  BY <1>8, <1>9, <1>11, <1>12 DEF IInv

(* What is known of a job while a worker holds it. *)
LEMMA HeldJob ==
  ASSUME IInv, NEW w \in Workers, NEW j \in Jobs, Holds(w, j)
  PROVE  /\ record[j] \in {"queued", "running"} /\ ~Queued(j) /\ ~Ended(j)
         /\ answers[j] = {} /\ post[j] \notin {"new", "saving", "saved"}
         /\ \A v \in Workers : Holds(v, j) => v = w
         /\ AsFar(worker[w].at, worker[w].start, j)
         /\ \A k \in Jobs : Holds(w, k) => k = j
<1>1. \A k \in Jobs : Holds(w, k) => k = j
  BY DEF Holds
<1>2. QED
  BY <1>1 DEF IInv, JobInv, Free

LEMMA BeginKeeps ==
  ASSUME IInv, NEW w \in Workers, NEW j \in Jobs, Begin(w, j) PROVE IInv'
<1>1. "loading" \in Steps /\ worker' = To(w, "loading") /\ Holds(w, j)
      /\ "running" \in Statuses
  BY DEF Begin, Steps, Statuses
<1>2. TypeOK'
  BY <1>1, ToTyped, UpdatedTyped DEF IInv, Begin, TypeOK, Loops
<1>3. QueueInv'
  BY DEF IInv, QueueInv, Begin
<1>4. ASSUME NEW k \in Jobs, k # j PROVE JobInv(k)'
  <2>1. record'[k] = record[k]
    BY <1>4 DEF IInv, TypeOK, Begin, Updated
  <2>2. ~Holds(w, k)
    BY <1>1, <1>4 DEF Holds
  <2>3. /\ \A i \in Jobs, v \in Workers : Holds(v, i)' <=> Holds(v, i)
        /\ \A v \in Workers : worker'[v].start = worker[v].start
        /\ \A v \in Workers : v # w => worker'[v].at = worker[v].at
    BY <1>1, ToKeeps DEF IInv
  <2>4. Same(k)
    BY <2>1, <2>2, <2>3, QueueSame DEF Begin, Same, Holds
  <2>5. QED
    BY <2>4, SameKeeps DEF IInv
<1>5. JobInv(j)'
  <2>1. record'[j] = "running"
    BY <1>1, HeldJob DEF IInv, TypeOK, Begin, Updated
  <2>2. files' = files /\ post' = post /\ run' = run /\ answers' = answers
        /\ (Queued(j)' <=> Queued(j))
    BY QueueSame DEF Begin
  <2>3. /\ \A v \in Workers : Holds(v, j)' => v = w
        /\ worker'[w].at = "loading" /\ worker'[w].start = worker[w].start
    <3>1. /\ \A k \in Jobs, v \in Workers : Holds(v, k)' <=> Holds(v, k)
          /\ \A v \in Workers : worker'[v].start = worker[v].start
          /\ \A v \in Workers : v # w => worker'[v].at = worker[v].at
          /\ worker'[w].at = "loading"
      BY <1>1, ToKeeps DEF IInv
    <3>2. QED
      BY <1>1, <3>1, HeldJob DEF Holds
  <2>4. AsFar(worker[w].at, worker[w].start, j) /\ worker[w].at = "claimed"
    BY <1>1, HeldJob DEF Begin
  <2>5. AsFar(worker[w].at, worker[w].start, j)'
    BY <2>2, <2>3, <2>4 DEF AsFar, Untouched
  <2>6. Proven(j)' => Proven(j)
    BY <2>1, <2>2 DEF Proven
  <2>7. (Whole(j)' <=> Whole(j))
    BY <2>2 DEF Whole
  <2>8. QED
    BY <1>1, <2>1, <2>2, <2>3, <2>5, <2>6, <2>7, HeldJob DEF IInv, JobInv, Ended
<1>6. QED
  BY <1>2, <1>3, <1>4, <1>5 DEF IInv

LEMMA LoadKeeps ==
  ASSUME IInv, NEW w \in Workers, NEW j \in Jobs, Load(w, j) PROVE IInv'
<1> DEFINE step == IF files[j].spec THEN "rating" ELSE "failing"
<1>1. step \in Steps /\ worker' = To(w, step) /\ Holds(w, j) /\ worker[w].at = "loading"
  BY DEF Load, Steps
<1>3. /\ step \in {"rating", "failing"}
      /\ UNCHANGED <<driver, service, record, ready, post, files, run, answers, reader,
                      restarts, faults>>
  BY DEF Load
<1> HIDE DEF step
<1>2. TypeOK'
  BY <1>1, <1>3, ToTyped DEF IInv, TypeOK, Loops
<1>4. AsFar(step, worker[w].start, j)
  <2>1. Untouched(j) /\ worker[w].start = 0
    BY <1>1, HeldJob DEF AsFar
  <2>2. 0 < Rows[j]
    BY RowCounts
  <2>3. QED
    BY <1>3, <2>1, <2>2, EmptySeq DEF AsFar, Untouched
<1>5. \A k \in Jobs : Same(k)
  <2>1. \A k \in Jobs : Holds(w, k) => k = j
    BY <1>1, HeldJob
  <2>2. /\ \A k \in Jobs, v \in Workers : Holds(v, k)' <=> Holds(v, k)
        /\ \A v \in Workers : worker'[v].start = worker[v].start
        /\ \A v \in Workers : v # w => worker'[v].at = worker[v].at
        /\ worker'[w].at = step
    BY <1>1, ToKeeps DEF IInv
  <2>3. QED
    BY <1>3, <1>4, <2>1, <2>2, QueueSame DEF Same, Holds
<1>6. QED
  BY <1>2, <1>5, AllSameKeep DEF Load

(* What remains to be shown of a job its worker keeps. *)
LEMMA StillHeld ==
  ASSUME IInv, NEW w \in Workers, NEW j \in Jobs, Holds(w, j),
         record'[j] = record[j], ready' = ready,
         post' = post, run' = run, answers' = answers,
         \A v \in Workers : Holds(v, j)' => Holds(v, j),
         AsFar(worker[w].at, worker[w].start, j)',
         files'[j].results = Rated(0, Len(files'[j].results)),
         Len(files'[j].results) <= Rows[j],
         files'[j].summary => Whole(j)'
  PROVE  JobInv(j)'
<1>1. \A v \in Workers : Holds(v, j)' => v = w
  BY HeldJob
<1>2. ~Queued(j)'
  BY HeldJob, QueueSame
<1>3. Proven(j)' => Whole(j)'
  BY HeldJob DEF Proven, Ended
<1>4. \A v \in Workers : Holds(v, j)' =>
        record'[j] \in {"queued", "running"} /\ AsFar(worker[v].at, worker[v].start, j)'
  BY <1>1, HeldJob DEF Holds
<1>5. post'[j] \notin {"new", "saving", "saved"} /\ ~Ended(j)' /\ answers'[j] = {}
  BY HeldJob DEF Ended
<1>6. post'[j] # "over" => run'[j].status = "none"
  BY DEF IInv, JobInv
<1>7. QED
  BY <1>1, <1>2, <1>3, <1>4, <1>5, <1>6 DEF JobInv

(* Rows appended where the file ends continue the book. *)
LEMMA Continued ==
  ASSUME IInv, NEW j \in Jobs, NEW n \in Nat
  PROVE  LET all == files[j].results \o Rated(Len(files[j].results), n)
         IN  all = Rated(0, Len(all)) /\ Len(all) = Len(files[j].results) + n
<1>1. PICK m \in Nat : m = Len(files[j].results)
  BY Typed DEF IInv
<1>2. files[j].results = Rated(0, m)
  BY <1>1 DEF IInv, JobInv
<1>3. Rated(0, m) \o Rated(m, n) = Rated(0, m + n)
  BY RatedOn
<1>0. m + n \in Nat
  OBVIOUS
<1>4. Len(Rated(0, m + n)) = m + n
  BY <1>0, RatedFirst
<1>5. QED
  BY <1>1, <1>2, <1>3, <1>4

LEMMA AppendChunkKeeps ==
  ASSUME IInv, NEW w \in Workers, NEW j \in Jobs, AppendChunk(w, j) PROVE IInv'
<1>1. worker[w].at = "rating" /\ Holds(w, j) /\ AsFar(worker[w].at, worker[w].start, j)
  BY HeldJob DEF AppendChunk
<1>2. PICK start \in Nat : /\ start = worker[w].start /\ start = Len(files[j].results)
                           /\ start < Rows[j] /\ ~files[j].torn /\ ~files[j].summary
  BY <1>1, Typed DEF IInv, AsFar
<1>3. PICK n \in Nat \ {0} : n = ChunkLength(start, Rows[j]) /\ start + n <= Rows[j]
  BY <1>2, ChunkFits, Typed DEF IInv
<1>4. PICK step : step = CASE start + n < Rows[j] -> "rating"
                            [] start + n >= Rows[j] /\ j \in Books -> "summing"
                            [] OTHER -> "closing"
  OBVIOUS
<1>5. /\ step \in {"rating", "summing", "closing"}
      /\ step = "rating" => start + n < Rows[j]
      /\ step \in {"summing", "closing"} => start + n = Rows[j]
  <2>1. start + n \in Nat /\ Rows[j] \in Nat /\ start + n <= Rows[j]
    BY <1>3, Typed DEF IInv
  <2>2. CASE start + n < Rows[j]
    BY <1>4, <2>1, <2>2
  <2>3. CASE ~(start + n < Rows[j])
    <3>1. start + n = Rows[j]
      BY <2>1, <2>3
    <3>2. step \in {"summing", "closing"}
      BY <1>4, <2>1, <2>3
    <3>3. QED
      BY <3>1, <3>2
  <2>4. QED
    BY <2>2, <2>3
<1>6. /\ files' = [files EXCEPT ![j].results = @ \o Rated(start, n)]
      /\ worker' = [worker EXCEPT ![w].start = start + n, ![w].at = step]
      /\ UNCHANGED <<driver, service, record, ready, post, run, answers, reader,
                      restarts, faults>>
  BY <1>2, <1>3, <1>4 DEF AppendChunk
<1>7. LET all == files[j].results \o Rated(start, n)
      IN  all = Rated(0, Len(all)) /\ Len(all) = start + n /\ all \in Seq(Nat)
  <2>1. Rated(start, n) \in Seq(Nat) /\ files[j].results \in Seq(Nat)
    BY RatedSeq, Typed DEF IInv
  <2>2. files[j].results \o Rated(start, n) \in Seq(Nat)
    BY <2>1, ConcatProperties
  <2>3. QED
    BY <1>2, <2>2, Continued
<1>8. /\ files' \in [Jobs -> Stored] /\ files'[j].results = files[j].results \o Rated(start, n)
      /\ files'[j].torn = files[j].torn /\ files'[j].summary = files[j].summary
      /\ \A k \in Jobs : k # j => files'[k] = files[k]
  BY <1>6, <1>7, Typed DEF IInv, Stored
<1>9. /\ worker' \in [Workers -> Loops] /\ worker'[w].at = step /\ worker'[w].start = start + n
      /\ \A v \in Workers : v # w => worker'[v] = worker[v]
      /\ \A v \in Workers : worker'[v].job = worker[v].job
  <2>1. start + n \in Nat /\ step \in Steps
    BY <1>5 DEF Steps
  <2>2. QED
    BY <1>6, <2>1, Typed DEF IInv, Loops
<1>10. TypeOK'
  BY <1>6, <1>8, <1>9 DEF IInv, TypeOK, Loops, Stored
<1>11. QueueInv'
  BY <1>6 DEF IInv, QueueInv
<1>12. ASSUME NEW k \in Jobs, k # j PROVE JobInv(k)'
  <2>1. ~Holds(w, k)
    BY <1>1, <1>12 DEF Holds
  <2>2. Same(k)
    BY <1>6, <1>8, <1>9, <1>12, <2>1, QueueSame DEF Same, Holds
  <2>3. QED
    BY <2>2, SameKeeps DEF IInv
<1>13. JobInv(j)'
  <2>1. Len(files'[j].results) = start + n /\ files'[j].results = Rated(0, Len(files'[j].results))
    BY <1>7, <1>8
  <2>2. AsFar(worker[w].at, worker[w].start, j)'
    BY <1>2, <1>5, <1>8, <1>9, <2>1 DEF AsFar, Whole
  <2>3. \A v \in Workers : Holds(v, j)' => Holds(v, j)
    BY <1>9 DEF Holds
  <2>4. QED
    BY <1>1, <1>2, <1>3, <1>6, <1>8, <2>1, <2>2, <2>3, StillHeld
<1>14. QED
  BY <1>10, <1>11, <1>12, <1>13 DEF IInv

LEMMA SaveSummaryKeeps ==
  ASSUME IInv, NEW w \in Workers, NEW j \in Jobs, SaveSummary(w, j) PROVE IInv'
<1>1. /\ worker[w].at = "summing" /\ Holds(w, j) /\ Whole(j)
      /\ "closing" \in Steps /\ worker' = To(w, "closing")
  BY HeldJob DEF SaveSummary, AsFar, Steps
<1>2. /\ files' \in [Jobs -> Stored] /\ files'[j].results = files[j].results
      /\ files'[j].torn = files[j].torn
      /\ \A k \in Jobs : k # j => files'[k] = files[k]
  BY Typed DEF IInv, SaveSummary, Stored
<1>3. /\ \A k \in Jobs, v \in Workers : Holds(v, k)' <=> Holds(v, k)
      /\ \A v \in Workers : v # w => worker'[v].at = worker[v].at
      /\ \A v \in Workers : worker'[v].start = worker[v].start
      /\ worker'[w].at = "closing"
  BY <1>1, ToKeeps DEF IInv
<1>4. TypeOK'
  BY <1>1, <1>2, ToTyped DEF IInv, SaveSummary, TypeOK, Loops, Stored
<1>5. QueueInv'
  BY DEF IInv, QueueInv, SaveSummary
<1>6. ASSUME NEW k \in Jobs, k # j PROVE JobInv(k)'
  <2>1. ~Holds(w, k)
    BY <1>1, <1>6 DEF Holds
  <2>2. Same(k)
    BY <1>2, <1>3, <1>6, <2>1, QueueSame DEF SaveSummary, Same, Holds
  <2>3. QED
    BY <2>2, SameKeeps DEF IInv
<1>7. JobInv(j)'
  <2>1. Whole(j)' /\ AsFar(worker[w].at, worker[w].start, j)'
    BY <1>1, <1>2, <1>3 DEF AsFar, Whole
  <2>2. /\ files'[j].results = Rated(0, Len(files'[j].results))
        /\ Len(files'[j].results) <= Rows[j]
    BY <1>2 DEF IInv, JobInv
  <2>3. \A v \in Workers : Holds(v, j)' => Holds(v, j)
    BY <1>3 DEF Holds
  <2>4. QED
    BY <1>1, <2>1, <2>2, <2>3, StillHeld DEF SaveSummary
<1>8. QED
  BY <1>4, <1>5, <1>6, <1>7 DEF IInv

(* A worker that lets go of its job, with the record it leaves. *)
LEMMA LetGo ==
  ASSUME IInv, NEW w \in Workers, NEW j \in Jobs, Holds(w, j),
         worker' = [worker EXCEPT ![w] = Idle],
         NEW status \in {"succeeded", "failed"},
         record' = Updated(j, status), status = "succeeded" => Whole(j),
         UNCHANGED <<driver, service, ready, post, files, run, answers, reader, restarts, faults>>
  PROVE  IInv'
<1>1. /\ worker' \in [Workers -> Loops]
      /\ \A k \in Jobs, v \in Workers : Holds(v, k)' <=> v # w /\ Holds(v, k)
      /\ \A v \in Workers : v # w => worker'[v] = worker[v]
  BY IdleKeeps DEF IInv
<1>2. status \in Statuses
  BY DEF Statuses, Terminal
<1>3. TypeOK'
  BY <1>1, <1>2, UpdatedTyped DEF IInv, TypeOK, Loops
<1>4. QueueInv'
  BY DEF IInv, QueueInv
<1>5. ASSUME NEW k \in Jobs, k # j PROVE JobInv(k)'
  <2>1. record'[k] = record[k]
    BY <1>5 DEF IInv, TypeOK, Updated
  <2>2. Same(k)
    BY <1>1, <2>1, QueueSame DEF Same, Holds
  <2>3. QED
    BY <2>2, SameKeeps DEF IInv
<1>6. JobInv(j)'
  <2>1. record'[j] = status
    <3>1. record \in [Jobs -> {"none"} \cup Statuses]
      BY DEF IInv, TypeOK
    <3>2. record[j] # "none"
      BY HeldJob
    <3>3. QED
      BY <3>1, <3>2 DEF Updated
  <2>2. \A v \in Workers : ~Holds(v, j)'
    BY <1>1, HeldJob DEF Holds
  <2>3. ~Queued(j)'
    BY HeldJob, QueueSame
  <2>4. Whole(j)' <=> Whole(j)
    BY DEF Whole
  <2>5. Proven(j)' => Whole(j)'
    BY <2>1, <2>4, HeldJob DEF IInv, JobInv, Proven, Ended
  <2>6. QED
    BY <2>1, <2>2, <2>3, <2>5, HeldJob DEF IInv, JobInv, Ended, Free
<1>7. QED
  BY <1>3, <1>4, <1>5, <1>6 DEF IInv

LEMMA CloseKeeps ==
  ASSUME IInv, NEW w \in Workers, NEW j \in Jobs, Close(w, j) PROVE IInv'
<1>1. Holds(w, j) /\ Whole(j)
  BY HeldJob DEF Close, AsFar
<1>2. QED
  BY <1>1, LetGo DEF Close

LEMMA CloseFailedKeeps ==
  ASSUME IInv, NEW w \in Workers, NEW j \in Jobs, CloseFailed(w, j) PROVE IInv'
BY LetGo DEF CloseFailed

LEMMA LoseUpdateKeeps ==
  ASSUME IInv, NEW w \in Workers, LoseUpdate(w) PROVE IInv'
<1>1. /\ worker' \in [Workers -> Loops]
      /\ \A k \in Jobs, v \in Workers : Holds(v, k)' <=> v # w /\ Holds(v, k)
      /\ \A v \in Workers : v # w => worker'[v] = worker[v]
  BY IdleKeeps DEF IInv, LoseUpdate
<1>2. TypeOK'
  BY <1>1, BoundsTyped DEF IInv, LoseUpdate, TypeOK, Loops
<1>3. \A k \in Jobs : Same(k)
  BY <1>1, QueueSame DEF LoseUpdate, Same, Holds
<1>4. QED
  BY <1>2, <1>3, AllSameKeep DEF LoseUpdate

(* A write that does not finish leaves rows of the book, and a torn file only *)
(* when rows are missing.                                                     *)
LEMMA CutLeaves ==
  ASSUME IInv, NEW j \in Jobs, NEW w \in Workers, Holds(w, j), worker[w].at = "rating",
         NEW n \in Nat, NEW torn \in BOOLEAN,
         n <= ChunkLength(worker[w].start, Rows[j])
  PROVE  LET f == Cut(files[j], worker[w].start, n, torn)
         IN  /\ f \in Stored /\ ~f.summary /\ f.spec = files[j].spec
             /\ f.results = Rated(0, Len(f.results)) /\ Len(f.results) <= Rows[j]
<1>1. PICK start \in Nat : /\ start = worker[w].start /\ start = Len(files[j].results)
                           /\ start < Rows[j] /\ ~files[j].summary
  BY HeldJob, Typed DEF IInv, AsFar
<1>2. files[j] \in Stored
  BY Typed DEF IInv
<1>3. /\ Cut(files[j], start, n, torn) \in Stored
      /\ Cut(files[j], start, n, torn).results = files[j].results \o Rated(start, n)
      /\ Cut(files[j], start, n, torn).summary = files[j].summary
  <2>1. /\ files[j].results \in Seq(Nat) /\ Rated(start, n) \in Seq(Nat)
        /\ files[j].results \o Rated(start, n) \in Seq(Nat)
    BY <1>2, RatedSeq, ConcatProperties DEF Stored
  <2>2. QED
    BY <1>2, <2>1 DEF Cut, Stored
<1>7. Cut(files[j], start, n, torn).spec = files[j].spec
  BY <1>2 DEF Cut, Stored
<1>4. LET all == files[j].results \o Rated(start, n)
      IN  all = Rated(0, Len(all)) /\ Len(all) = start + n
  BY <1>1, Continued
<1>5. start + n <= Rows[j]
  <2>1. /\ ChunkLength(start, Rows[j]) \in Nat
        /\ start + ChunkLength(start, Rows[j]) <= Rows[j] /\ Rows[j] \in Nat
    BY <1>1, ChunkFits, Typed DEF IInv
  <2>2. QED
    BY <1>1, <2>1
<1>6. QED
  BY <1>1, <1>3, <1>4, <1>5, <1>7

LEMMA ThrowKeeps ==
  ASSUME IInv, NEW w \in Workers, NEW j \in Jobs, Throw(w, j) PROVE IInv'
<1>1. /\ Holds(w, j) /\ "failing" \in Steps /\ worker' = To(w, "failing")
      /\ UNCHANGED <<driver, service, record, ready, post, run, answers, reader, restarts>>
      /\ faults < MaxFaults /\ faults' = faults + 1
  BY DEF Throw, Steps
<1>2. /\ files' \in [Jobs -> Stored]
      /\ \A k \in Jobs : k # j => files'[k] = files[k]
      /\ files'[j].results = Rated(0, Len(files'[j].results))
      /\ Len(files'[j].results) <= Rows[j]
      /\ files'[j].summary => Whole(j)'
  <2>1. CASE files' = files
    <3>1. Whole(j)' <=> Whole(j)
      BY <2>1 DEF Whole
    <3>2. QED
      BY <2>1, <3>1, Typed DEF IInv, JobInv, Proven
  <2>2. CASE ~(files' = files)
    <3>1. PICK n \in 0 .. ChunkLength(worker[w].start, Rows[j]), torn \in BOOLEAN :
            /\ worker[w].at = "rating"
            /\ files' = [files EXCEPT ![j] = Cut(@, worker[w].start, n, torn)]
      BY <2>2 DEF Throw
    <3>2. n \in Nat /\ n <= ChunkLength(worker[w].start, Rows[j])
      <4>1. worker[w].start \in Nat /\ worker[w].start < Rows[j]
        BY <1>1, <3>1, HeldJob, Typed DEF IInv, AsFar
      <4>2. ChunkLength(worker[w].start, Rows[j]) \in Nat
        BY <4>1, ChunkFits, Typed DEF IInv
      <4>3. QED
        BY <4>2
    <3> DEFINE f == Cut(files[j], worker[w].start, n, torn)
    <3>3. /\ f \in Stored /\ ~f.summary
          /\ f.results = Rated(0, Len(f.results)) /\ Len(f.results) <= Rows[j]
      BY <1>1, <3>1, <3>2, CutLeaves
    <3>4. files' = [files EXCEPT ![j] = f] /\ files'[j] = f
      BY <3>1, Typed DEF IInv
    <3> HIDE DEF f
    <3>5. QED
      BY <3>3, <3>4, Typed DEF IInv
  <2>3. QED
    BY <2>1, <2>2
<1>3. /\ \A k \in Jobs, v \in Workers : Holds(v, k)' <=> Holds(v, k)
      /\ \A v \in Workers : v # w => worker'[v].at = worker[v].at
      /\ \A v \in Workers : worker'[v].start = worker[v].start
      /\ worker'[w].at = "failing"
  BY <1>1, ToKeeps DEF IInv
<1>4. TypeOK'
  BY <1>1, <1>2, ToTyped, BoundsTyped DEF IInv, TypeOK, Loops, Stored
<1>5. QueueInv'
  BY <1>1 DEF IInv, QueueInv
<1>6. ASSUME NEW k \in Jobs, k # j PROVE JobInv(k)'
  <2>1. ~Holds(w, k)
    BY <1>1, <1>6 DEF Holds
  <2>2. Same(k)
    BY <1>1, <1>2, <1>3, <1>6, <2>1, QueueSame DEF Same, Holds
  <2>3. QED
    BY <2>2, SameKeeps DEF IInv
<1>7. JobInv(j)'
  <2>1. AsFar(worker[w].at, worker[w].start, j)'
    BY <1>3 DEF AsFar
  <2>2. \A v \in Workers : Holds(v, j)' => Holds(v, j)
    BY <1>3 DEF Holds
  <2>3. QED
    BY <1>1, <1>2, <2>1, <2>2, StillHeld
<1>8. QED
  BY <1>4, <1>5, <1>6, <1>7 DEF IInv

-----------------------------------------------------------------------------
(* main *)

LEMMA StopKeeps ==
  ASSUME IInv, Stop PROVE IInv'
<1>1. TypeOK'
  BY BoundsTyped DEF IInv, Stop, TypeOK
<1>2. \A k \in Jobs : Same(k)
  BY QueueSame DEF Stop, Same, Holds
<1>3. QED
  BY <1>1, <1>2, AllSameKeep DEF Stop

LEMMA BootKeeps ==
  ASSUME IInv, Boot PROVE IInv'
<1>1. TypeOK'
  BY DEF IInv, Boot, TypeOK
<1>2. \A k \in Jobs : Same(k)
  BY QueueSame DEF Boot, Same, Holds
<1>3. QED
  BY <1>1, <1>2, AllSameKeep DEF Boot

(* What is left when the process is gone, whatever it left in the files. *)
LEMMA GoneLeaves ==
  ASSUME IInv, Gone, files' \in [Jobs -> Stored],
         restarts' \in 0 .. MaxRestarts
  PROVE  /\ TypeOK' /\ QueueInv'
         /\ \A k \in Jobs : /\ Queued(k)' => Queued(k) /\ driver # "memory"
                            /\ post'[k] \notin {"saving", "saved"}
                            /\ post'[k] = post[k] \/ post'[k] = "over"
                            /\ record'[k] = record[k] \/ (record'[k] = "none" /\ ~Queued(k)')
         /\ \A k \in Jobs, w \in Workers : ~Holds(w, k)'
         /\ run' = run /\ answers' = answers
<1>1. Idle \in Loops /\ Idle.job = {}
  BY DEF Idle, Loops, Steps
<1>2. worker' \in [Workers -> Loops] /\ \A w \in Workers : worker'[w].job = {}
  BY <1>1 DEF Gone
<1>3. \A k \in Jobs, w \in Workers : ~Holds(w, k)'
  BY <1>2 DEF Holds
<1>4. /\ post' \in [Jobs -> {"new", "saving", "saved", "answered", "over"}]
      /\ \A k \in Jobs : /\ post'[k] \notin {"saving", "saved"}
                         /\ post'[k] = post[k] \/ post'[k] = "over"
  BY DEF Gone, IInv, TypeOK
<1>5. /\ record' \in [Jobs -> {"none"} \cup Statuses] /\ ready' \in Seq(Jobs) /\ QueueInv'
      /\ \A k \in Jobs : /\ Queued(k)' => Queued(k) /\ driver # "memory"
                         /\ record'[k] = record[k] \/ (record'[k] = "none" /\ ~Queued(k)')
  <2>1. CASE driver = "memory"
    <3>1. record' = [j \in Jobs |-> "none"] /\ ready' = << >>
      BY <2>1 DEF Gone
    <3>2. ready' \in Seq(Jobs) /\ Len(ready') = 0
      BY <3>1
    <3>3. QED
      BY <3>1, <3>2 DEF QueueInv, Queued
  <2>2. CASE driver # "memory"
    <3>1. record' = record /\ ready' = ready
      BY <2>2 DEF Gone
    <3>2. QED
      BY <2>2, <3>1 DEF QueueInv, Queued, IInv, TypeOK
  <2>3. QED
    BY <2>1, <2>2
<1>6. TypeOK'
  BY <1>2, <1>4, <1>5 DEF Gone, IInv, TypeOK, Loops, Stored
<1>7. QED
  BY <1>3, <1>4, <1>5, <1>6 DEF Gone

LEMMA ExitKeeps ==
  ASSUME IInv, Exit PROVE IInv'
<1>1. /\ files' = files /\ files \in [Jobs -> Stored] /\ restarts' \in 0 .. MaxRestarts
  BY Typed DEF Exit, IInv, TypeOK
<1>2. /\ TypeOK' /\ QueueInv'
      /\ \A k \in Jobs : /\ Queued(k)' => Queued(k)
                         /\ post'[k] \notin {"saving", "saved"}
                         /\ post'[k] = post[k] \/ post'[k] = "over"
                         /\ record'[k] = record[k] \/ (record'[k] = "none" /\ ~Queued(k)')
      /\ \A k \in Jobs, w \in Workers : ~Holds(w, k)'
      /\ run' = run /\ answers' = answers
  BY <1>1, GoneLeaves DEF Exit
<1>3. ASSUME NEW k \in Jobs PROVE JobInv(k)'
  <2>1. \A w \in Workers : ~Holds(w, k)'
    BY <1>2 DEF Holds
  <2>2. Same(k)
    BY <1>1, <1>2, <2>1 DEF Same, Free
  <2>3. QED
    BY <2>2, SameKeeps DEF IInv
<1>4. QED
  BY <1>2, <1>3 DEF IInv

(* A crash cuts the files of jobs that are being rated, and no others. *)
LEMMA CrashCuts ==
  ASSUME IInv, Crash, NEW k \in Jobs
  PROVE  /\ files'[k] \in Stored /\ DOMAIN files' = Jobs
         /\ files'[k].results = Rated(0, Len(files'[k].results))
         /\ Len(files'[k].results) <= Rows[k]
         /\ files'[k] = files[k] \/ (~files'[k].summary /\ \E w \in Workers : Holds(w, k))
<1>1. PICK n \in [Workers -> 0 .. Chunk], torn \in [Workers -> BOOLEAN] :
        /\ \A w \in Workers :
             IF worker[w].at = "rating"
             THEN \E j \in worker[w].job :
                    LET whole == ChunkLength(worker[w].start, Rows[j])
                    IN n[w] <= whole /\ (torn[w] => n[w] < whole)
             ELSE n[w] = 0 /\ ~torn[w]
        /\ files' = [j \in Jobs |->
             IF \E w \in Workers : worker[w].at = "rating" /\ Holds(w, j)
             THEN LET w == CHOOSE w \in Workers : worker[w].at = "rating" /\ Holds(w, j)
                  IN Cut(files[j], worker[w].start, n[w], torn[w])
             ELSE files[j]]
  BY DEF Crash
<1>2. CASE \E w \in Workers : worker[w].at = "rating" /\ Holds(w, k)
  <2>1. PICK w \in Workers :
          /\ w = CHOOSE v \in Workers : worker[v].at = "rating" /\ Holds(v, k)
          /\ worker[w].at = "rating" /\ Holds(w, k)
    BY <1>2
  <2>2. files'[k] = Cut(files[k], worker[w].start, n[w], torn[w])
    BY <1>1, <1>2, <2>1
  <2>3. n[w] \in Nat /\ torn[w] \in BOOLEAN /\ n[w] <= ChunkLength(worker[w].start, Rows[k])
    <3>1. \E j \in worker[w].job : n[w] <= ChunkLength(worker[w].start, Rows[j])
      BY <1>1, <2>1
    <3>2. worker[w].job = {k}
      BY <2>1 DEF Holds
    <3>3. n[w] \in Nat /\ torn[w] \in BOOLEAN
      BY Sizes
    <3>4. QED
      BY <3>1, <3>2, <3>3
  <2> DEFINE f == Cut(files[k], worker[w].start, n[w], torn[w])
  <2>4. /\ f \in Stored /\ ~f.summary
        /\ f.results = Rated(0, Len(f.results)) /\ Len(f.results) <= Rows[k]
    BY <2>1, <2>3, CutLeaves
  <2>5. files'[k] = f
    BY <2>2
  <2> HIDE DEF f
  <2>6. QED
    BY <1>1, <2>1, <2>4, <2>5
<1>3. CASE ~(\E w \in Workers : worker[w].at = "rating" /\ Holds(w, k))
  <2>1. files'[k] = files[k] /\ DOMAIN files' = Jobs
    BY <1>1, <1>3
  <2>2. QED
    BY <2>1, Typed DEF IInv, JobInv
<1>4. QED
  BY <1>2, <1>3

LEMMA CrashKeeps ==
  ASSUME IInv, Crash PROVE IInv'
<1>1. /\ Gone /\ files' \in [Jobs -> Stored] /\ restarts' \in 0 .. MaxRestarts
  <2>1. files' = [k \in Jobs |-> files'[k]]
    BY DEF Crash
  <2>2. \A k \in Jobs : files'[k] \in Stored
    BY CrashCuts
  <2>3. QED
    BY <2>1, <2>2, BoundsTyped DEF Crash, IInv
<1>2. /\ TypeOK' /\ QueueInv'
      /\ \A k \in Jobs : /\ Queued(k)' => Queued(k)
                         /\ post'[k] \notin {"saving", "saved"}
                         /\ post'[k] = post[k] \/ post'[k] = "over"
                         /\ record'[k] = record[k] \/ (record'[k] = "none" /\ ~Queued(k)')
      /\ \A k \in Jobs, w \in Workers : ~Holds(w, k)'
      /\ run' = run /\ answers' = answers
  BY <1>1, GoneLeaves
<1>3. ASSUME NEW k \in Jobs PROVE JobInv(k)'
  <2>1. \A w \in Workers : ~Holds(w, k)'
    BY <1>2 DEF Holds
  <2>2. CASE files'[k] = files[k]
    <3>1. Same(k)
      BY <1>2, <2>1, <2>2 DEF Same, Free
    <3>2. QED
      BY <3>1, SameKeeps DEF IInv
  <2>3. CASE files'[k] # files[k]
    <3>1. PICK w \in Workers : Holds(w, k) /\ ~files'[k].summary
      BY <2>3, CrashCuts
    <3>2. /\ record[k] \in {"queued", "running"} /\ ~Queued(k) /\ ~Ended(k)
          /\ answers[k] = {} /\ post[k] \notin {"new", "saving", "saved"}
      BY <3>1, HeldJob
    <3>3. ~Queued(k)'
      BY <1>2, <3>2
    <3>4. ~Proven(k)'
      BY <1>2, <3>1, <3>2 DEF Proven, Ended
    <3>5. ~Ended(k)' /\ (post'[k] # "over" => run'[k].status = "none") /\ answers'[k] = {}
      BY <1>2, <3>2 DEF IInv, JobInv, Ended
    <3>6. post'[k] \notin {"new", "saving", "saved"}
      BY <1>2, <3>2
    <3>7. /\ files'[k].results = Rated(0, Len(files'[k].results))
          /\ Len(files'[k].results) <= Rows[k]
      BY CrashCuts
    <3>8. QED
      BY <2>1, <3>3, <3>4, <3>5, <3>6, <3>7 DEF JobInv
  <2>4. QED
    BY <2>2, <2>3
<1>4. QED
  BY <1>2, <1>3 DEF IInv

-----------------------------------------------------------------------------
(* refresh_run and the rows *)

(* A terminal state is read only of a job nobody holds or will claim. *)
LEMMA TerminalIsOver ==
  ASSUME IInv, NEW j \in Jobs, run[j].status # "none", StatusOf(j) \in Terminal
  PROVE  /\ Free(j)
         /\ StatusOf(j) = "succeeded" /\ ~files[j].torn => Whole(j)
<1>1. post[j] \notin {"new", "saving", "saved"}
  BY DEF IInv, JobInv
<1>2. CASE record[j] # "none"
  <2>1. record[j] \in Terminal
    BY <1>2 DEF StatusOf
  <2>2. Free(j)
    BY <2>1 DEF Terminal, Free, IInv, JobInv
  <2>3. record[j] = "succeeded" => Whole(j)
    BY DEF IInv, JobInv, Proven
  <2>4. QED
    BY <1>2, <2>2, <2>3 DEF StatusOf
<1>3. CASE record[j] = "none"
  <2>1. Free(j)
    BY <1>3 DEF Free, IInv, JobInv
  <2>2. StatusOf(j) = "succeeded" => files[j].summary \/ Len(files[j].results) >= Rows[j]
    BY <1>3 DEF StatusOf
  <2>3. files[j].summary => Whole(j)
    BY DEF IInv, JobInv, Proven
  <2>4. Len(files[j].results) >= Rows[j] /\ ~files[j].torn => Whole(j)
    <3>1. /\ Len(files[j].results) \in Nat /\ Rows[j] \in Nat
          /\ Len(files[j].results) <= Rows[j]
      BY Typed DEF IInv, JobInv
    <3>2. QED
      BY <3>1 DEF Whole
  <2>5. QED
    BY <2>1, <2>2, <2>3, <2>4
<1>4. QED
  BY <1>2, <1>3

LEMMA PollKeeps ==
  ASSUME IInv, NEW j \in Jobs, Poll(j) PROVE IInv'
<1>1. /\ Free(j) /\ StatusOf(j) \in Terminal
      /\ StatusOf(j) = "succeeded" => Whole(j)
  BY TerminalIsOver DEF Poll, Readable
<1>2. PICK answer \in [status : Terminal, summary : BOOLEAN] :
        /\ answer.status = StatusOf(j)
        /\ answers' = [answers EXCEPT ![j] = @ \cup {answer}]
  <2>1. files[j].summary \in BOOLEAN
    BY Typed DEF IInv, Stored
  <2>2. [status |-> StatusOf(j), summary |-> files[j].summary]
          \in [status : Terminal, summary : BOOLEAN]
    BY <1>1, <2>1
  <2>3. QED
    BY <2>2 DEF Poll
<1>3. /\ answers' \in [Jobs -> SUBSET [status : Terminal, summary : BOOLEAN]]
      /\ answers'[j] = answers[j] \cup {answer}
      /\ \A k \in Jobs : k # j => answers'[k] = answers[k]
  BY <1>2 DEF IInv, TypeOK
<1>4. TypeOK'
  BY <1>3 DEF IInv, Poll, serviceVars, TypeOK
<1>5. QueueInv'
  BY DEF IInv, QueueInv, Poll, serviceVars
<1>6. ASSUME NEW k \in Jobs, k # j PROVE JobInv(k)'
  <2>1. Same(k)
    BY <1>3, <1>6, QueueSame DEF Poll, serviceVars, Same, Holds
  <2>2. QED
    BY <2>1, SameKeeps DEF IInv
<1>7. JobInv(j)'
  <2>1. /\ run' = run /\ record' = record /\ files' = files /\ post' = post
        /\ worker' = worker /\ ready' = ready /\ run[j].status = "running"
    BY DEF Poll, serviceVars
  <2>2. /\ (Queued(j)' <=> Queued(j)) /\ (Whole(j)' <=> Whole(j))
        /\ (Untouched(j)' <=> Untouched(j))
        /\ \A w \in Workers : Holds(w, j)' <=> Holds(w, j)
    BY <2>1, QueueSame DEF Whole, Untouched, Holds
  <2>3. Free(j)'
    BY <1>1, <2>2 DEF Free, Holds
  <2>4. Proven(j)' => Whole(j)'
    BY <1>1, <1>2, <1>3, <2>1, <2>2 DEF Proven, IInv, JobInv
  <2>5. \A w \in Workers : ~Holds(w, j)'
    BY <2>3 DEF Free
  <2>6. QED
    BY <2>1, <2>2, <2>3, <2>4, <2>5 DEF IInv, JobInv
<1>8. QED
  BY <1>4, <1>5, <1>6, <1>7 DEF IInv

(* What an answer that was read does to a run. *)
LEMMA FinalizedRun ==
  ASSUME IInv, NEW j \in Jobs, NEW answer \in answers[j]
  PROVE  /\ Finalized(j, answer) \in [Jobs -> [status : {"none", "running", "done", "error"},
                                               result : {"none", "summary", "blank"}]]
         /\ \A k \in Jobs : k # j => Finalized(j, answer)[k] = run[k]
         /\ \/ run[j].status \in {"done", "error"} /\ Finalized(j, answer) = run
            \/ /\ run[j].status = "running" /\ Free(j)
               /\ \/ Finalized(j, answer)[j].status = "error"
                  \/ Finalized(j, answer)[j].status = "done" /\ Whole(j)
<1>1. /\ run \in [Jobs -> [status : {"none", "running", "done", "error"},
                           result : {"none", "summary", "blank"}]]
      /\ answer \in [status : Terminal, summary : BOOLEAN]
      /\ run[j].status \in {"running", "done", "error"}
  BY DEF IInv, TypeOK, JobInv
<1>2. Free(j) /\ (answer.status = "succeeded" => Whole(j))
  BY DEF IInv, JobInv, Proven
<1>3. answer.status \in {"succeeded", "failed"}
  BY <1>1 DEF Terminal
<1>4. CASE run[j].status # "running"
  BY <1>1, <1>4 DEF Finalized
<1>5. CASE run[j].status = "running" /\ answer.status = "failed"
  BY <1>1, <1>2, <1>5 DEF Finalized
<1>6. CASE run[j].status = "running" /\ answer.status = "succeeded"
  <2>1. PICK done \in [status : {"done"}, result : {"summary", "blank"}] :
          Finalized(j, answer) = [run EXCEPT ![j] = done]
    <3>1. [status |-> "done", result |-> IF answer.summary THEN "summary" ELSE "blank"]
            \in [status : {"done"}, result : {"summary", "blank"}]
      OBVIOUS
    <3>2. QED
      BY <1>6, <3>1 DEF Finalized
  <2>2. QED
    BY <1>1, <1>2, <1>6, <2>1
<1>7. QED
  BY <1>3, <1>4, <1>5, <1>6

LEMMA FinalizeKeeps ==
  ASSUME IInv, NEW j \in Jobs, Finalize(j) PROVE IInv'
<1>1. PICK answer \in answers[j] :
        /\ run' = Finalized(j, answer)
        /\ answers' = [answers EXCEPT ![j] = @ \ {answer}]
  BY DEF Finalize
<1>2. /\ record' = record /\ files' = files /\ post' = post
      /\ worker' = worker /\ ready' = ready
  BY DEF Finalize, serviceVars
<1>3. /\ answers' \in [Jobs -> SUBSET [status : Terminal, summary : BOOLEAN]]
      /\ answers'[j] \subseteq answers[j]
      /\ \A k \in Jobs : k # j => answers'[k] = answers[k]
  BY <1>1 DEF IInv, TypeOK
<1>4. /\ run' \in [Jobs -> [status : {"none", "running", "done", "error"},
                            result : {"none", "summary", "blank"}]]
      /\ \A k \in Jobs : k # j => run'[k] = run[k]
      /\ \/ run[j].status \in {"done", "error"} /\ run' = run
         \/ /\ run[j].status = "running" /\ run'[j].status \in {"done", "error"}
            /\ run'[j].status = "done" => Whole(j)
  BY <1>1, FinalizedRun
<1>5. TypeOK'
  BY <1>3, <1>4 DEF IInv, Finalize, serviceVars, TypeOK
<1>6. QueueInv'
  BY <1>2 DEF IInv, QueueInv
<1>7. ASSUME NEW k \in Jobs, k # j PROVE JobInv(k)'
  <2>1. Same(k)
    BY <1>2, <1>3, <1>4, <1>7, QueueSame DEF Same, Holds
  <2>2. QED
    BY <2>1, SameKeeps DEF IInv
<1>8. JobInv(j)'
  <2>1. /\ (Queued(j)' <=> Queued(j)) /\ (Whole(j)' <=> Whole(j))
        /\ (Untouched(j)' <=> Untouched(j))
        /\ \A w \in Workers : Holds(w, j)' <=> Holds(w, j)
    BY <1>2, QueueSame DEF Whole, Untouched, Holds
  <2>2. Free(j)' /\ post[j] = "over"
    BY <1>1, <1>2, <1>4, <2>1 DEF Free, Holds, IInv, JobInv
  <2>3. Proven(j)' => Whole(j)'
    BY <1>2, <1>3, <1>4, <2>1 DEF Proven, IInv, JobInv
  <2>4. \A w \in Workers : ~Holds(w, j)'
    BY <2>2 DEF Free
  <2>5. run'[j].status # "none"
    BY <1>4
  <2>6. QED
    BY <1>2, <2>1, <2>2, <2>3, <2>4, <2>5 DEF IInv, JobInv
<1>9. QED
  BY <1>5, <1>6, <1>7, <1>8 DEF IInv

Pager == [by : {"none", "ui", "collect"}, job : SUBSET Jobs, got : Seq(Nat), over : BOOLEAN]

(* A step of a reader is no step of the job. *)
LEMMA ReaderKeeps ==
  ASSUME IInv, reader' \in [Readers -> Pager],
         UNCHANGED <<serviceVars, post, files, run, answers, restarts, faults>>
  PROVE  IInv'
<1>1. TypeOK'
  BY DEF IInv, TypeOK, Pager, serviceVars
<1>2. \A k \in Jobs : Same(k)
  BY QueueSame DEF Same, Holds, serviceVars
<1>3. QED
  BY <1>1, <1>2, AllSameKeep DEF serviceVars

LEMMA OpenRowsKeeps ==
  ASSUME IInv, NEW r \in Readers, NEW j \in Jobs, OpenRows(r, j)
  PROVE  /\ IInv' /\ run[j].status = "done"
         /\ \E p \in Pager : reader' = [reader EXCEPT ![r] = p] /\ p.job = {j}
                             /\ p.got = << >> /\ ~p.over /\ p.by # "none"
<1>1. PICK by \in {"ui", "collect"} :
        reader' = [reader EXCEPT ![r] = [Closed EXCEPT !.by = by, !.job = {j}]]
  BY DEF OpenRows
<1>2. PICK p \in Pager : /\ p = [Closed EXCEPT !.by = by, !.job = {j}] /\ p.job = {j}
                         /\ p.got = << >> /\ ~p.over /\ p.by = by
  <2>1. PICK shut \in Pager : shut = Closed /\ shut.got = << >> /\ ~shut.over
    <3>1. Closed \in Pager /\ ~Closed.over
      BY DEF Closed, Pager
    <3>2. Closed.got = << >>
      BY Zenon DEF Closed
    <3>3. QED
      BY <3>1, <3>2
  <2> DEFINE p == [shut EXCEPT !.by = by, !.job = {j}]
  <2>2. p \in Pager /\ p.job = {j} /\ p.got = << >> /\ ~p.over /\ p.by = by
    BY <2>1 DEF Pager
  <2>3. QED
    BY <2>1, <2>2
<1>3. reader' = [reader EXCEPT ![r] = p] /\ reader' \in [Readers -> Pager]
  BY <1>1, <1>2 DEF IInv, TypeOK, Pager
<1>4. IInv'
  BY <1>3, ReaderKeeps DEF OpenRows
<1>5. QED
  BY <1>2, <1>3, <1>4 DEF OpenRows

(* A page of a book ends with its last row or the page's. *)
LEMMA PageIs ==
  ASSUME IInv, NEW j \in Jobs, NEW m \in Nat
  PROVE  /\ Page(j, m) \in Seq(Nat)
         /\ m <= Len(files[j].results) =>
              \E last \in m .. Len(files[j].results) :
                /\ last = Min(m + PageSize, Len(files[j].results))
                /\ Page(j, m) = Rated(m, last - m)
<1>1. PICK n \in Nat : n = Len(files[j].results) /\ files[j].results = Rated(0, n)
  BY Typed DEF IInv, JobInv
<1>2. PICK last \in Nat : last = Min(m + PageSize, n) /\ last <= n /\ (m <= n => m <= last)
  <2>1. PageSize \in Nat /\ m + PageSize \in Nat
    BY Sizes
  <2>2. QED
    BY <2>1 DEF Min
<1>3. Page(j, m) = SubSeq(Rated(0, n), m + 1, last)
  BY <1>1, <1>2 DEF Page
<1>4. Page(j, m) \in Seq(Nat)
  <2>1. /\ Rated(0, n) \in Seq(Nat) /\ Len(Rated(0, n)) = n
        /\ \A i \in 1 .. n : Rated(0, n)[i] = i
    BY RatedFirst
  <2>2. \A i \in m + 1 .. last : Rated(0, n)[i] \in Nat
    BY <1>2, <2>1
  <2> DEFINE c == Rated(0, n)
  <2>3. \A i \in m + 1 .. last : c[i] \in Nat
    BY <2>2
  <2>4. m + 1 \in Int /\ last \in Int
    BY <1>2
  <2> HIDE DEF c
  <2>5. SubSeq(c, m + 1, last) \in Seq(Nat)
    BY <2>3, <2>4, SubSeqProperties
  <2>6. QED
    BY <1>3, <2>5 DEF c
<1>5. CASE m <= n
  <2>1. m \in 0 .. n /\ last \in m .. n
    BY <1>2, <1>5
  <2>2. Page(j, m) = Rated(m, last - m)
    BY <1>3, <2>1, RatedPart
  <2>3. QED
    BY <1>1, <1>2, <1>4, <2>1, <2>2
<1>6. QED
  BY <1>1, <1>4, <1>5

LEMMA ReadPageKeeps ==
  ASSUME IInv, NEW r \in Readers, NEW j \in Jobs, ReadPage(r, j)
  PROVE  /\ IInv'
         /\ \E p \in Pager :
              /\ reader' = [reader EXCEPT ![r] = p] /\ p.job = {j} /\ reader[r].job = {j}
              /\ p.by = reader[r].by
              /\ p.got = reader[r].got \o Page(j, Len(reader[r].got))
              /\ p.over /\ p.by = "ui" => ~More(j, Len(reader[r].got))
<1>1. reader[r] \in Pager /\ reader \in [Readers -> Pager] /\ Len(reader[r].got) \in Nat
  BY LenProperties DEF IInv, TypeOK, Pager
<1>2. reader[r].got \o Page(j, Len(reader[r].got)) \in Seq(Nat)
  BY <1>1, PageIs, ConcatProperties DEF Pager
<1>3. PICK over \in BOOLEAN :
        /\ over = ~(IF reader[r].by = "ui" THEN More(j, Len(reader[r].got)) ELSE FALSE)
        /\ reader' = [reader EXCEPT ![r].got = @ \o Page(j, Len(reader[r].got)),
                                    ![r].over = over]
  BY DEF ReadPage
<1>4. PICK p \in Pager :
        /\ p = [reader[r] EXCEPT !.got = @ \o Page(j, Len(reader[r].got)), !.over = over]
        /\ p.got = reader[r].got \o Page(j, Len(reader[r].got))
        /\ p.over = over /\ p.job = reader[r].job /\ p.by = reader[r].by
  <2> DEFINE got == reader[r].got \o Page(j, Len(reader[r].got))
             p   == [reader[r] EXCEPT !.got = @ \o Page(j, Len(reader[r].got)), !.over = over]
  <2>1. p = [reader[r] EXCEPT !.got = got, !.over = over] /\ got \in Seq(Nat)
    BY <1>2
  <2> HIDE DEF got, p
  <2>2. p \in Pager /\ p.got = got /\ p.over = over /\ p.job = reader[r].job /\ p.by = reader[r].by
    BY <1>1, <2>1 DEF Pager
  <2>3. QED
    BY <2>2 DEF got, p
<1>5. reader' = [reader EXCEPT ![r] = p] /\ reader' \in [Readers -> Pager]
  BY <1>1, <1>3, <1>4
<1>6. IInv'
  BY <1>5, ReaderKeeps DEF ReadPage
<1>7. QED
  BY <1>3, <1>4, <1>5, <1>6 DEF ReadPage

-----------------------------------------------------------------------------
(* The invariant *)

LEMMA InitInv == Init => IInv
<1> SUFFICES ASSUME Init PROVE IInv
  OBVIOUS
<1>1. /\ ready = << >> /\ Len(ready) = 0
      /\ \A w \in Workers : worker[w].job = {}
      /\ \A j \in Jobs : /\ files[j].results = << >> /\ ~files[j].torn /\ ~files[j].summary
                         /\ record[j] = "none" /\ run[j].status = "none" /\ answers[j] = {}
  BY DEF Init, Idle, NoFiles, NoRun
<1>2. QueueInv
  BY <1>1 DEF QueueInv
<1>3. Rated(0, 0) = << >>
  BY RatedFirst, EmptySeq
<1>4. ASSUME NEW j \in Jobs PROVE JobInv(j)
  <2>1. ~Queued(j) /\ \A w \in Workers : ~Holds(w, j)
    BY <1>1 DEF Queued, Holds
  <2>2. Untouched(j) /\ ~Proven(j) /\ ~Ended(j)
    BY <1>1 DEF Untouched, Proven, Ended
  <2>3. Len(files[j].results) = 0 /\ 0 <= Rows[j]
    BY <1>1, RowCounts
  <2>4. files[j].results = Rated(0, Len(files[j].results))
    BY <1>1, <1>3, <2>3
  <2>5. QED
    BY <1>1, <2>1, <2>2, <2>3, <2>4 DEF JobInv, Free
<1>5. QED
  BY <1>2, <1>4, InitTyped DEF IInv

LEMMA NextInv == IInv /\ [Next]_bookVars => IInv'
<1> SUFFICES ASSUME IInv, [Next]_bookVars PROVE IInv'
  OBVIOUS
<1>1. ASSUME NEW j \in Jobs, Post(j) \/ LoseAnswer(j) \/ Poll(j) \/ Finalize(j)
      PROVE  IInv'
  BY <1>1, SaveSpecKeeps, SaveInputKeeps, EnqueueKeeps, InsertRunKeeps, LoseAnswerKeeps,
     PollKeeps, FinalizeKeeps DEF Post
<1>2. ASSUME NEW w \in Workers, Work(w) \/ LoseUpdate(w)
      PROVE  IInv'
  BY <1>2, AskKeeps, TimeOutKeeps, ClaimKeeps, BeginKeeps, LoadKeeps, AppendChunkKeeps,
     SaveSummaryKeeps, CloseKeeps, CloseFailedKeeps, LoseUpdateKeeps DEF Work
<1>3. ASSUME NEW w \in Workers, NEW j \in Jobs, Throw(w, j)
      PROVE  IInv'
  BY <1>3, ThrowKeeps
<1>4. ASSUME NEW r \in Readers, NEW j \in Jobs, OpenRows(r, j) \/ ReadPage(r, j)
      PROVE  IInv'
  BY <1>4, OpenRowsKeeps, ReadPageKeeps
<1>5. CASE Stop \/ Crash \/ Exit \/ Boot
  BY <1>5, StopKeeps, CrashKeeps, ExitKeeps, BootKeeps
<1>6. CASE UNCHANGED bookVars
  <2>1. TypeOK'
    BY <1>6 DEF IInv, TypeOK, bookVars, serviceVars
  <2>2. \A k \in Jobs : Same(k)
    BY <1>6, QueueSame DEF Same, Holds, bookVars, serviceVars
  <2>3. QED
    BY <1>6, <2>1, <2>2, AllSameKeep DEF bookVars, serviceVars
<1>7. QED
  BY <1>1, <1>2, <1>3, <1>4, <1>5, <1>6 DEF Next, Fault

(* The state of the two services is well formed and in their own words. *)
THEOREM TypeCorrect == Spec => []TypeOK
<1>1. IInv => TypeOK
  BY DEF IInv
<1>2. QED
  BY <1>1, InitInv, NextInv, PTL DEF Spec

(* However many workers claim, and whatever throws, crashes or restarts,    *)
(* every row of a job is rated once and stored in the book's order.         *)
THEOREM EachRowOnce == Spec => []RatedOnce
<1>1. IInv => RatedOnce
  BY DEF IInv, JobInv, AsFar, RatedOnce
<1>2. QED
  BY <1>1, InitInv, NextInv, PTL DEF Spec

(* A run that ended is over in the scoring service: no worker holds its job *)
(* and the queue will not hand it out.                                      *)
THEOREM EndIsFinal == Spec => []EndedIsOver
<1>1. IInv => EndedIsOver
  BY DEF IInv, JobInv, Free, Queued, EndedIsOver
<1>2. QED
  BY <1>1, InitInv, NextInv, PTL DEF Spec

(* A run reported done, and a summary, have a complete and readable results *)
(* file behind them.                                                        *)
THEOREM DoneIsProved == Spec => []DoneIsWhole
<1>1. IInv => DoneIsWhole
  BY DEF IInv, JobInv, Proven, Whole, DoneIsWhole
<1>2. QED
  BY <1>1, InitInv, NextInv, PTL DEF Spec

-----------------------------------------------------------------------------
(* The promise *)

(* Rows are only added, and none to an ended run. *)
Grows(j) ==
  /\ Len(files[j].results) <= Len(files'[j].results)
  /\ Ended(j) => files'[j].results = files[j].results

LEMMA RowsGrow ==
  ASSUME IInv, [Next]_bookVars, NEW k \in Jobs
  PROVE  Grows(k)
<1>1. Len(files[k].results) \in Nat /\ files \in [Jobs -> Stored]
  BY Typed DEF IInv
<1>2. CASE files'[k].results = files[k].results
  BY <1>1, <1>2 DEF Grows
<1>3. ASSUME NEW w \in Workers, NEW j \in Jobs, AppendChunk(w, j)
      PROVE  Grows(k)
  <2>1. CASE k # j
    BY <1>1, <1>2, <1>3, <2>1 DEF AppendChunk
  <2>2. CASE k = j
    <3>1. /\ worker[w].start = Len(files[k].results) /\ worker[w].start < Rows[k] /\ ~Ended(k)
      BY <1>3, <2>2, HeldJob DEF AppendChunk, AsFar
    <3>2. PICK n \in Nat : n = ChunkLength(worker[w].start, Rows[k])
      BY <1>1, <3>1, ChunkFits, Typed DEF IInv
    <3>3. files'[k].results = files[k].results \o Rated(Len(files[k].results), n)
      BY <1>1, <1>3, <2>2, <3>1, <3>2 DEF AppendChunk, Stored
    <3>4. Len(files'[k].results) = Len(files[k].results) + n
      BY <3>3, Continued
    <3>5. QED
      BY <1>1, <3>1, <3>4 DEF Grows
  <2>3. QED
    BY <2>1, <2>2
<1>4. ASSUME NEW w \in Workers, NEW j \in Jobs, SaveSummary(w, j)
      PROVE  Grows(k)
  BY <1>1, <1>2, <1>4 DEF SaveSummary, Stored
<1>5. ASSUME NEW j \in Jobs, SaveSpec(j)
      PROVE  Grows(k)
  BY <1>1, <1>2, <1>5 DEF SaveSpec, Stored
<1>6. ASSUME NEW w \in Workers, NEW n \in Nat, NEW torn \in BOOLEAN,
             Holds(w, k), worker[w].at = "rating",
             files'[k] = Cut(files[k], worker[w].start, n, torn)
      PROVE  Grows(k)
  <2>1. worker[w].start = Len(files[k].results) /\ ~Ended(k)
    BY <1>6, HeldJob DEF AsFar
  <2>2. files'[k].results = files[k].results \o Rated(Len(files[k].results), n)
    BY <1>1, <1>6, <2>1 DEF Cut, Stored
  <2>3. Len(files'[k].results) = Len(files[k].results) + n
    BY <2>2, Continued
  <2>4. QED
    BY <1>1, <2>1, <2>3 DEF Grows
<1>7. ASSUME NEW w \in Workers, NEW j \in Jobs, Throw(w, j)
      PROVE  Grows(k)
  <2>1. CASE files' = files
    BY <1>2, <2>1
  <2>2. CASE files' # files
    <3>1. PICK n \in 0 .. ChunkLength(worker[w].start, Rows[j]), torn \in BOOLEAN :
            /\ worker[w].at = "rating"
            /\ files' = [files EXCEPT ![j] = Cut(@, worker[w].start, n, torn)]
      BY <1>7, <2>2 DEF Throw
    <3>2. CASE k # j
      BY <1>1, <1>2, <3>1, <3>2
    <3>3. CASE k = j
      <4>1. Holds(w, k) /\ files'[k] = Cut(files[k], worker[w].start, n, torn)
        BY <1>1, <1>7, <3>1, <3>3 DEF Throw
      <4>2. n \in Nat
        <5>1. worker[w].start \in Nat /\ worker[w].start < Rows[k]
          BY <3>1, <4>1, HeldJob, Typed DEF IInv, AsFar
        <5>2. ChunkLength(worker[w].start, Rows[k]) \in Nat
          BY <5>1, ChunkFits, Typed DEF IInv
        <5>3. QED
          BY <3>3, <5>2
      <4>3. QED
        BY <1>6, <3>1, <4>1, <4>2
    <3>4. QED
      BY <3>2, <3>3
  <2>3. QED
    BY <2>1, <2>2
<1>8. CASE Crash
  <2>1. PICK n \in [Workers -> 0 .. Chunk], torn \in [Workers -> BOOLEAN] :
          files' = [j \in Jobs |->
            IF \E w \in Workers : worker[w].at = "rating" /\ Holds(w, j)
            THEN LET w == CHOOSE w \in Workers : worker[w].at = "rating" /\ Holds(w, j)
                 IN Cut(files[j], worker[w].start, n[w], torn[w])
            ELSE files[j]]
    BY <1>8 DEF Crash
  <2>2. CASE \E w \in Workers : worker[w].at = "rating" /\ Holds(w, k)
    <3>1. PICK w \in Workers :
            /\ w = CHOOSE v \in Workers : worker[v].at = "rating" /\ Holds(v, k)
            /\ worker[w].at = "rating" /\ Holds(w, k)
      BY <2>2
    <3>2. files'[k] = Cut(files[k], worker[w].start, n[w], torn[w])
      BY <2>1, <2>2, <3>1
    <3>3. n[w] \in Nat /\ torn[w] \in BOOLEAN
      BY Sizes
    <3>4. QED
      BY <1>6, <3>1, <3>2, <3>3
  <2>3. CASE ~(\E w \in Workers : worker[w].at = "rating" /\ Holds(w, k))
    BY <1>2, <2>1, <2>3
  <2>4. QED
    BY <2>2, <2>3
<1>9. CASE files' = files
  BY <1>2, <1>9
<1>10. QED
  <2>1. ASSUME NEW j \in Jobs, Post(j) \/ LoseAnswer(j) \/ Poll(j) \/ Finalize(j)
        PROVE  Grows(k)
    BY <1>5, <1>9, <2>1 DEF Post, SaveInput, Enqueue, InsertRun, LoseAnswer, Poll, Finalize
  <2>2. ASSUME NEW w \in Workers, Work(w) \/ LoseUpdate(w)
        PROVE  Grows(k)
    BY <1>3, <1>4, <1>9, <2>2
       DEF Work, Ask, TimeOut, Claim, Begin, Load, Close, CloseFailed, LoseUpdate
  <2>3. CASE Stop \/ Exit \/ Boot
           \/ \E r \in Readers, j \in Jobs : OpenRows(r, j) \/ ReadPage(r, j)
    BY <1>9, <2>3 DEF Stop, Exit, Boot, OpenRows, ReadPage
  <2>4. CASE UNCHANGED bookVars
    BY <1>9, <2>4 DEF bookVars
  <2>5. QED
    BY <1>7, <1>8, <2>1, <2>2, <2>3, <2>4 DEF Next, Fault

(* A run opens when it is inserted, and ends when its first answer is written. *)
LEMMA RunsMove ==
  ASSUME IInv, [Next]_bookVars
  PROVE  \/ run' = run
         \/ /\ files' = files
            /\ \E j \in Jobs :
                 /\ \A k \in Jobs : k # j => run'[k] = run[k]
                 /\ \/ run[j].status = "none" /\ run'[j].status = "running"
                    \/ run[j].status = "running" /\ run'[j].status = "error"
                    \/ run[j].status = "running" /\ run'[j].status = "done" /\ Whole(j)
<1>1. ASSUME NEW j \in Jobs, InsertRun(j)
      PROVE  /\ files' = files
             /\ \A k \in Jobs : k # j => run'[k] = run[k]
             /\ run[j].status = "none" /\ run'[j].status = "running"
  BY <1>1 DEF InsertRun, Posting, serviceVars, IInv, JobInv, TypeOK
<1>2. ASSUME NEW j \in Jobs, Finalize(j)
      PROVE  \/ run' = run
             \/ /\ files' = files
                /\ \A k \in Jobs : k # j => run'[k] = run[k]
                /\ run[j].status = "running"
                /\ \/ run'[j].status = "error"
                   \/ run'[j].status = "done" /\ Whole(j)
  <2>1. PICK answer \in answers[j] : run' = Finalized(j, answer) /\ files' = files
    BY <1>2 DEF Finalize
  <2>2. QED
    BY <2>1, FinalizedRun
<1>3. ASSUME NEW j \in Jobs, Post(j) \/ LoseAnswer(j) \/ Poll(j), ~InsertRun(j)
      PROVE  run' = run
  BY <1>3 DEF Post, SaveSpec, SaveInput, Enqueue, LoseAnswer, Poll
<1>4. ASSUME NEW w \in Workers, Work(w) \/ LoseUpdate(w) \/ \E j \in Jobs : Throw(w, j)
      PROVE  run' = run
  BY <1>4 DEF Work, Ask, TimeOut, Claim, Begin, Load, AppendChunk, SaveSummary, Close,
              CloseFailed, LoseUpdate, Throw
<1>5. CASE Stop \/ Crash \/ Exit \/ Boot \/ UNCHANGED bookVars
           \/ \E r \in Readers, j \in Jobs : OpenRows(r, j) \/ ReadPage(r, j)
  BY <1>5 DEF Stop, Crash, Exit, Gone, Boot, OpenRows, ReadPage, bookVars
<1>6. QED
  BY <1>1, <1>2, <1>3, <1>4, <1>5 DEF Next, Fault, Post

outcomes == [j \in Jobs |-> run[j].status]
ratings  == [j \in Jobs |-> Len(files[j].results)]

LEMMA PromiseStep ==
  ASSUME IInv, [Next]_bookVars
  PROVE  [Promise!PromiseNext]_(Promise!promiseVars)
<1>1. /\ ratings' = [j \in Jobs |-> Len(files'[j].results)]
      /\ outcomes' = [j \in Jobs |-> run'[j].status]
  BY DEF ratings, outcomes
<1>2. CASE run' = run
  <2>1. IInv'
    BY NextInv
  <2>2. \A j \in Jobs : /\ Len(files'[j].results) \in Nat /\ Len(files'[j].results) <= Rows[j]
                        /\ Len(files[j].results) <= Len(files'[j].results)
                        /\ Ended(j) => Len(files'[j].results) = Len(files[j].results)
    BY <2>1, Typed, RowsGrow DEF IInv, JobInv, Grows
  <2>3. outcomes' = outcomes /\ ratings' \in [Jobs -> Nat]
    BY <1>1, <1>2, <2>2 DEF outcomes
  <2>4. Promise!Rate
    <3>1. ASSUME NEW r \in Jobs
          PROVE  /\ ratings[r] <= ratings'[r] /\ ratings'[r] <= Rows[r]
                 /\ outcomes[r] \in {"done", "error"} => ratings'[r] = ratings[r]
      <4>1. /\ ratings[r] = Len(files[r].results) /\ ratings'[r] = Len(files'[r].results)
            /\ outcomes[r] = run[r].status
        BY <1>1 DEF ratings, outcomes
      <4>2. QED
        BY <2>2, <4>1 DEF Ended
    <3>2. QED
      BY <2>3, <3>1 DEF Promise!Rate, Promise!Ended, outcomes, ratings
  <2>5. QED
    BY <2>4 DEF Promise!PromiseNext
<1>3. ASSUME files' = files, NEW j \in Jobs, \A k \in Jobs : k # j => run'[k] = run[k],
             \/ run[j].status = "none" /\ run'[j].status = "running"
             \/ run[j].status = "running" /\ run'[j].status = "error"
             \/ run[j].status = "running" /\ run'[j].status = "done" /\ Whole(j)
      PROVE  Promise!PromiseNext
  <2>1. ratings' = ratings
    BY <1>1, <1>3 DEF ratings
  <2>2. outcomes' = [outcomes EXCEPT ![j] = run'[j].status]
    BY <1>1, <1>3 DEF outcomes
  <2>3. outcomes[j] = run[j].status /\ (Whole(j) => ratings[j] = Rows[j])
    BY DEF outcomes, ratings, Whole
  <2>4. CASE run[j].status = "none" /\ run'[j].status = "running"
    <3>1. Promise!Open(j)
      BY <2>1, <2>2, <2>3, <2>4 DEF Promise!Open, outcomes, ratings
    <3>2. QED
      BY <3>1 DEF Promise!PromiseNext
  <2>5. CASE run[j].status = "running" /\ run'[j].status = "error"
    <3>1. Promise!Fail(j)
      BY <2>1, <2>2, <2>3, <2>5 DEF Promise!Fail, outcomes, ratings
    <3>2. QED
      BY <3>1 DEF Promise!PromiseNext
  <2>6. CASE run[j].status = "running" /\ run'[j].status = "done" /\ Whole(j)
    <3>1. Promise!Finish(j)
      BY <2>1, <2>2, <2>3, <2>6 DEF Promise!Finish, outcomes, ratings
    <3>2. QED
      BY <3>1 DEF Promise!PromiseNext
  <2>7. QED
    BY <1>3, <2>4, <2>5, <2>6
<1>4. QED
  BY <1>2, <1>3, RunsMove

(* plan_runs and the result store keep the promise of a run, for any number *)
(* of runs, workers, stops, crashes and failing calls: each step of the two *)
(* services is a step of RunPromise or none.                                *)
THEOREM ImplementsPromise == Spec => KeepsPromise
<1>1. Init => Promise!PromiseInit
  <2> SUFFICES ASSUME Init PROVE Promise!PromiseInit
    OBVIOUS
  <2>1. \A j \in Jobs : run[j].status = "none" /\ Len(files[j].results) = 0
    BY DEF Init, NoRun, NoFiles
  <2>2. QED
    BY <2>1 DEF Promise!PromiseInit
<1>2. IInv /\ [Next]_bookVars => [Promise!PromiseNext]_(Promise!promiseVars)
  BY PromiseStep
<1>3. QED
  BY <1>1, <1>2, InitInv, NextInv, PTL DEF Spec, KeepsPromise, Promise!PromiseSpec

-----------------------------------------------------------------------------
(* Paging through the rows *)

PagerInv(p) ==
  /\ p.by = "none" => p.job = {}
  /\ \A j \in p.job :
       /\ run[j].status = "done"
       /\ p.got = Rated(0, Len(p.got)) /\ Len(p.got) <= Rows[j]
       /\ p.over /\ p.by = "ui" => Len(p.got) = Rows[j]

ReaderInv == \A r \in Readers : PagerInv(reader[r])

LEMMA NextPage ==
  ASSUME IInv, NEW j \in Jobs, NEW m \in Nat, run[j].status = "done", m <= Rows[j]
  PROVE  \E last \in Nat : /\ last <= Rows[j] /\ Rated(0, m) \o Page(j, m) = Rated(0, last)
                           /\ ~More(j, m) => last = Rows[j]
<1>1. Len(files[j].results) = Rows[j] /\ Rows[j] \in Nat /\ PageSize \in Nat
  BY Sizes, Typed DEF IInv, JobInv, Proven, Whole
<1>2. PICK last \in m .. Rows[j] :
        last = Min(m + PageSize, Rows[j]) /\ Page(j, m) = Rated(m, last - m)
  BY <1>1, PageIs
<1>3. last \in Nat /\ last - m \in Nat /\ m + (last - m) = last /\ last <= Rows[j]
  BY <1>1
<1>4. Rated(0, m) \o Rated(m, last - m) = Rated(0, m + (last - m))
  BY <1>3, RatedOn
<1>5. ~More(j, m) => last = Rows[j]
  BY <1>1, <1>2 DEF More, Min
<1>6. QED
  BY <1>2, <1>3, <1>4, <1>5

LEMMA ReaderStep ==
  ASSUME IInv, ReaderInv, [Next]_bookVars
  PROVE  ReaderInv'
<1>1. \A j \in Jobs : run[j].status = "done" => run'[j].status = "done"
  BY RunsMove
<1>2. reader \in [Readers -> Pager]
  BY DEF IInv, TypeOK, Pager
<1>3. ASSUME NEW r \in Readers, reader'[r] = reader[r]
      PROVE  PagerInv(reader[r])'
  <2>1. reader[r].job \subseteq Jobs
    BY <1>2 DEF Pager
  <2>2. QED
    BY <1>1, <1>3, <2>1 DEF ReaderInv, PagerInv
<1>4. ASSUME NEW r \in Readers, NEW j \in Jobs, OpenRows(r, j)
      PROVE  ReaderInv'
  <2>1. PICK p \in Pager : /\ reader' = [reader EXCEPT ![r] = p] /\ p.job = {j}
                           /\ p.got = << >> /\ ~p.over /\ p.by # "none"
    BY <1>4, OpenRowsKeeps
  <2>2. reader'[r] = p /\ \A s \in Readers : s # r => reader'[s] = reader[s]
    BY <1>2, <2>1
  <2>3. run'[j].status = "done"
    BY <1>1, <1>4 DEF OpenRows
  <2>4. Len(p.got) = 0 /\ 0 <= Rows[j] /\ p.got = Rated(0, Len(p.got))
    <3>1. Rated(0, 0) = << >>
      BY RatedFirst, EmptySeq
    <3>2. QED
      BY <2>1, <3>1, RowCounts
  <2>5. PagerInv(reader[r])'
    BY <2>1, <2>2, <2>3, <2>4 DEF PagerInv
  <2>6. QED
    BY <1>3, <2>2, <2>5 DEF ReaderInv
<1>5. ASSUME NEW r \in Readers, NEW j \in Jobs, ReadPage(r, j)
      PROVE  ReaderInv'
  <2>1. PICK p \in Pager :
          /\ reader' = [reader EXCEPT ![r] = p] /\ p.job = {j} /\ reader[r].job = {j}
          /\ p.by = reader[r].by
          /\ p.got = reader[r].got \o Page(j, Len(reader[r].got))
          /\ p.over /\ p.by = "ui" => ~More(j, Len(reader[r].got))
    BY <1>5, ReadPageKeeps
  <2>2. reader'[r] = p /\ \A s \in Readers : s # r => reader'[s] = reader[s]
    BY <1>2, <2>1
  <2>3. PICK m \in Nat : m = Len(reader[r].got)
    BY <1>2, LenProperties DEF Pager
  <2>4. /\ run[j].status = "done" /\ reader[r].got = Rated(0, m) /\ m <= Rows[j]
        /\ reader[r].by # "none"
    BY <2>1, <2>3 DEF ReaderInv, PagerInv
  <2>5. PICK last \in Nat : /\ last <= Rows[j] /\ Rated(0, m) \o Page(j, m) = Rated(0, last)
                            /\ ~More(j, m) => last = Rows[j]
    BY <2>3, <2>4, NextPage
  <2>6. p.got = Rated(0, Len(p.got)) /\ Len(p.got) = last
    <3>1. p.got = Rated(0, last)
      BY <2>1, <2>3, <2>4, <2>5
    <3>2. Len(Rated(0, last)) = last
      BY RatedFirst
    <3>3. QED
      BY <3>1, <3>2
  <2>7. run'[j].status = "done"
    BY <1>1, <2>4
  <2>8. PagerInv(reader[r])'
    BY <2>1, <2>2, <2>3, <2>4, <2>5, <2>6, <2>7 DEF PagerInv
  <2>9. QED
    BY <1>3, <2>2, <2>8 DEF ReaderInv
<1>6. CASE reader' = reader
  BY <1>3, <1>6 DEF ReaderInv
<1>7. QED
  <2>1. ASSUME NEW j \in Jobs, Post(j) \/ LoseAnswer(j) \/ Poll(j) \/ Finalize(j)
        PROVE  reader' = reader
    BY <2>1 DEF Post, SaveSpec, SaveInput, Enqueue, InsertRun, LoseAnswer, Poll, Finalize
  <2>2. ASSUME NEW w \in Workers, Work(w) \/ LoseUpdate(w) \/ \E j \in Jobs : Throw(w, j)
        PROVE  reader' = reader
    BY <2>2 DEF Work, Ask, TimeOut, Claim, Begin, Load, AppendChunk, SaveSummary, Close,
                CloseFailed, LoseUpdate, Throw
  <2>3. CASE Stop \/ Crash \/ Exit \/ Boot \/ UNCHANGED bookVars
    BY <1>6, <2>3 DEF Stop, Crash, Exit, Gone, Boot, bookVars
  <2>4. QED
    BY <1>4, <1>5, <1>6, <2>1, <2>2, <2>3 DEF Next, Fault

(* Whoever pages through the rows of a done run reads them without gap or   *)
(* repeat, and the user interface all of them, for any page and book size.  *)
THEOREM PagesComplete == Spec => []PagesAreWhole
<1>1. Init => ReaderInv
  BY DEF Init, Closed, ReaderInv, PagerInv
<1>2. IInv /\ ReaderInv /\ [Next]_bookVars => ReaderInv'
  BY ReaderStep
<1>3. ReaderInv => PagesAreWhole
  BY DEF ReaderInv, PagerInv, PagesAreWhole
<1>4. QED
  BY <1>1, <1>2, <1>3, InitInv, NextInv, PTL DEF Spec
=============================================================================
