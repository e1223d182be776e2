------------------------------ MODULE BookRuns ------------------------------
(***************************************************************************)
(* Book and probe runs across two services.  api-lab (rates/runs) posts a  *)
(* job to the scoring service, inserts the run that names it, and learns   *)
(* the outcome only when somebody reads the run.  The scoring service      *)
(* keeps the job's files in a durable store and its lifecycle record in a  *)
(* queue that is process memory or Redis; workers rate the rows by chunks. *)
(***************************************************************************)
EXTENDS Naturals, Sequences

CONSTANTS
  Jobs,         \* jobs of the scoring service
  Books,        \* those api-lab posts for a run; the others are direct batches
  Rows,         \* how many rows each job has
  Workers,      \* WORKER_CONCURRENCY loops
  Readers,      \* who pages through the rows of a done run
  Chunk,        \* spec.chunkSize
  PageSize,     \* rows a reader asks for at a time
  Drivers,      \* QUEUE_DRIVER: "memory" or "redis"
  MaxRestarts,  \* bound: stops and crashes of the scoring service
  MaxFaults     \* bound: calls that throw

ASSUME BookJobs == Books \subseteq Jobs
ASSUME RowCounts == Rows \in [Jobs -> Nat \ {0}]
ASSUME Sizes == Chunk \in Nat \ {0} /\ PageSize \in Nat \ {0}
ASSUME KnownDrivers == Drivers \subseteq {"memory", "redis"}
ASSUME Bounds == MaxRestarts \in Nat /\ MaxFaults \in Nat

VARIABLES
  driver,    \* the queue adapter this deployment runs with
  service,   \* the scoring process: up, draining after SIGTERM, or down
  post,      \* how far POST /score-batch and its caller have come
  files,     \* the result store's files of a job
  record,    \* the queue's lifecycle record
  ready,     \* the queue's list of jobs to claim
  worker,    \* the worker loops
  run,       \* plan_runs: status and what result_json holds
  answers,   \* terminal states read by refresh_run and not yet written
  reader,    \* who pages through rows
  restarts, faults

serviceVars == <<driver, service, record, ready, worker>>
bookVars == <<serviceVars, post, files, run, answers, reader, restarts, faults>>

-----------------------------------------------------------------------------
Min(a, b) == IF a < b THEN a ELSE b

Terminal == {"succeeded", "failed"}
Statuses == {"queued", "running"} \cup Terminal

(* results: the numbers of the rows in results.ndjson, in its order;        *)
(* torn: it ends in a line that was cut short, so no reader can parse it.   *)
NoFiles == [spec |-> FALSE, results |-> << >>, torn |-> FALSE, summary |-> FALSE]

Steps == {"idle", "asking", "claimed", "loading", "rating", "summing",
          "closing", "failing"}

(* job is {} or the one job the worker holds; start is chunkBase. *)
Idle == [at |-> "idle", job |-> {}, start |-> 0]

NoRun == [status |-> "none", result |-> "none"]

(* "ui" follows the page's next_offset; "collect" is collect_run_rows. *)
Closed == [by |-> "none", job |-> {}, got |-> << >>, over |-> FALSE]

Ended(j) == run[j].status \in {"done", "error"}

TypeOK ==
  /\ driver \in Drivers
  /\ service \in {"up", "draining", "down"}
  /\ post \in [Jobs -> {"new", "saving", "saved", "answered", "over"}]
  /\ files \in [Jobs -> [spec : BOOLEAN, results : Seq(Nat), torn : BOOLEAN,
                         summary : BOOLEAN]]
  /\ record \in [Jobs -> {"none"} \cup Statuses]
  /\ ready \in Seq(Jobs)
  /\ worker \in [Workers -> [at : Steps, job : SUBSET Jobs, start : Nat]]
  /\ run \in [Jobs -> [status : {"none", "running", "done", "error"},
                       result : {"none", "summary", "blank"}]]
  /\ answers \in [Jobs -> SUBSET [status : Terminal, summary : BOOLEAN]]
  /\ reader \in [Readers -> [by : {"none", "ui", "collect"}, job : SUBSET Jobs,
                             got : Seq(Nat), over : BOOLEAN]]
  /\ restarts \in 0 .. MaxRestarts
  /\ faults \in 0 .. MaxFaults

Init ==
  /\ driver \in Drivers
  /\ service = "up"
  /\ post = [j \in Jobs |-> "new"]
  /\ files = [j \in Jobs |-> NoFiles]
  /\ record = [j \in Jobs |-> "none"]
  /\ ready = << >>
  /\ worker = [w \in Workers |-> Idle]
  /\ run = [j \in Jobs |-> NoRun]
  /\ answers = [j \in Jobs |-> {}]
  /\ reader = [r \in Readers |-> Closed]
  /\ restarts = 0
  /\ faults = 0

-----------------------------------------------------------------------------
(* POST /score-batch, and create_run around it *)

Posting(j, from, to) ==
  /\ post[j] = from
  /\ post' = [post EXCEPT ![j] = to]

SaveSpec(j) ==
  /\ service # "down"
  /\ Posting(j, "new", "saving")
  /\ files' = [files EXCEPT ![j].spec = TRUE]
  /\ UNCHANGED <<serviceVars, run, answers, reader, restarts, faults>>

SaveInput(j) ==
  /\ Posting(j, "saving", "saved")
  /\ UNCHANGED <<serviceVars, files, run, answers, reader, restarts, faults>>

Enqueue(j) ==
  /\ Posting(j, "saved", "answered")
  /\ record' = [record EXCEPT ![j] = "queued"]
  /\ ready' = Append(ready, j)
  /\ UNCHANGED <<driver, service, worker, files, run, answers, reader,
                 restarts, faults>>

InsertRun(j) ==
  /\ j \in Books
  /\ Posting(j, "answered", "over")
  /\ run' = [run EXCEPT ![j].status = "running"]
  /\ UNCHANGED <<serviceVars, files, answers, reader, restarts, faults>>

(* The answer times out, or api-lab dies before insert_run. *)
LoseAnswer(j) ==
  /\ faults < MaxFaults
  /\ Posting(j, "answered", "over")
  /\ faults' = faults + 1
  /\ UNCHANGED <<serviceVars, files, run, answers, reader, restarts>>

-----------------------------------------------------------------------------
(* processNextJob *)

Holds(w, j) == worker[w].job = {j}

To(w, step) == [worker EXCEPT ![w].at = step]

(* BRPOP blocks inside the call, beyond the loop's look at the signal. *)
Ask(w) ==
  /\ driver = "redis"
  /\ service = "up"
  /\ worker[w].at = "idle"
  /\ worker' = To(w, "asking")
  /\ UNCHANGED <<driver, service, record, ready, post, files, run, answers,
                 reader, restarts, faults>>

TimeOut(w) ==
  /\ worker[w].at = "asking"
  /\ ready = << >>
  /\ worker' = To(w, "idle")
  /\ UNCHANGED <<driver, service, record, ready, post, files, run, answers,
                 reader, restarts, faults>>

Claim(w) ==
  /\ \/ driver = "memory" /\ service = "up" /\ worker[w].at = "idle"
     \/ worker[w].at = "asking"
  /\ ready # << >>
  /\ worker' = [worker EXCEPT ![w] = [Idle EXCEPT !.at = "claimed",
                                                  !.job = {Head(ready)}]]
  /\ ready' = Tail(ready)
  /\ UNCHANGED <<driver, service, record, post, files, run, answers, reader,
                 restarts, faults>>

(* queue.update patches a record it still finds. *)
Updated(j, status) ==
  IF record[j] = "none" THEN record ELSE [record EXCEPT ![j] = status]

Begin(w, j) ==
  /\ worker[w].at = "claimed" /\ Holds(w, j)
  /\ record' = Updated(j, "running")
  /\ worker' = To(w, "loading")
  /\ UNCHANGED <<driver, service, ready, post, files, run, answers, reader,
                 restarts, faults>>

(* loadSpec, loadInput, the plan, and for a book the composition. *)
Load(w, j) ==
  /\ worker[w].at = "loading" /\ Holds(w, j)
  /\ worker' = To(w, IF files[j].spec THEN "rating" ELSE "failing")
  /\ UNCHANGED <<driver, service, record, ready, post, files, run, answers,
                 reader, restarts, faults>>

(* Mutant: the last chunk is not cut to the book. *)
WholeChunk(start, size) == Chunk

(* The rows of the chunk from start on, as long as the book lasts. *)
ChunkLength(start, size) == Min(start + Chunk, size) - start
Rated(start, n) == [i \in 1 .. n |-> start + i]

AppendChunk(w, j) ==
  LET start == worker[w].start
      n     == ChunkLength(start, Rows[j])
  IN /\ worker[w].at = "rating" /\ Holds(w, j)
     /\ files' = [files EXCEPT ![j].results = @ \o Rated(start, n)]
     /\ worker' = [worker EXCEPT ![w].start = start + n,
                     ![w].at = CASE start + n < Rows[j] -> "rating"
                                 [] start + n >= Rows[j] /\ j \in Books -> "summing"
                                 [] OTHER -> "closing"]
     /\ UNCHANGED <<driver, service, record, ready, post, run, answers, reader,
                    restarts, faults>>

SaveSummary(w, j) ==
  /\ worker[w].at = "summing" /\ Holds(w, j)
  /\ files' = [files EXCEPT ![j].summary = TRUE]
  /\ worker' = To(w, "closing")
  /\ UNCHANGED <<driver, service, record, ready, post, run, answers, reader,
                 restarts, faults>>

Close(w, j) ==
  /\ worker[w].at = "closing" /\ Holds(w, j)
  /\ record' = Updated(j, "succeeded")
  /\ worker' = [worker EXCEPT ![w] = Idle]
  /\ UNCHANGED <<driver, service, ready, post, files, run, answers, reader,
                 restarts, faults>>

(* The catch block. *)
CloseFailed(w, j) ==
  /\ worker[w].at = "failing" /\ Holds(w, j)
  /\ record' = Updated(j, "failed")
  /\ worker' = [worker EXCEPT ![w] = Idle]
  /\ UNCHANGED <<driver, service, ready, post, files, run, answers, reader,
                 restarts, faults>>

(* What a write of the chunk that does not finish leaves: some rows, and   *)
(* perhaps a line cut short.                                               *)
Cut(f, start, n, torn) ==
  [f EXCEPT !.results = @ \o Rated(start, n), !.torn = torn]

(* An await of the try block throws: the plan's fetch, the composition, a   *)
(* write to the store, or, with Redis, an update of the record.             *)
Throw(w, j) ==
  /\ faults < MaxFaults
  /\ Holds(w, j)
  /\ \/ worker[w].at \in {"loading", "summing"} /\ UNCHANGED files
     \/ worker[w].at \in {"claimed", "closing"} /\ driver = "redis" /\ UNCHANGED files
     \/ /\ worker[w].at = "rating"
        /\ \E n \in 0 .. ChunkLength(worker[w].start, Rows[j]), torn \in BOOLEAN :
             /\ torn => n < ChunkLength(worker[w].start, Rows[j])
             /\ files' = [files EXCEPT ![j] = Cut(@, worker[w].start, n, torn)]
  /\ worker' = To(w, "failing")
  /\ faults' = faults + 1
  /\ UNCHANGED <<driver, service, record, ready, post, run, answers, reader,
                 restarts>>

(* The catch block's own update throws; runWorkerLoop swallows it. *)
LoseUpdate(w) ==
  /\ faults < MaxFaults
  /\ driver = "redis"
  /\ worker[w].at = "failing"
  /\ worker' = [worker EXCEPT ![w] = Idle]
  /\ faults' = faults + 1
  /\ UNCHANGED <<driver, service, record, ready, post, files, run, answers,
                 reader, restarts>>

-----------------------------------------------------------------------------
(* main: signals, crashes, restarts *)

Stop ==
  /\ restarts < MaxRestarts
  /\ service = "up"
  /\ service' = "draining"
  /\ restarts' = restarts + 1
  /\ UNCHANGED <<driver, record, ready, worker, post, files, run, answers,
                 reader, faults>>

(* The process is gone: its requests, its workers, a queue in its memory. *)
Gone ==
  /\ service' = "down"
  /\ post' = [j \in Jobs |-> IF post[j] \in {"saving", "saved"} THEN "over"
                                                              ELSE post[j]]
  /\ worker' = [w \in Workers |-> Idle]
  /\ IF driver = "memory"
     THEN record' = [j \in Jobs |-> "none"] /\ ready' = << >>
     ELSE UNCHANGED <<record, ready>>
  /\ UNCHANGED <<driver, run, answers, reader, faults>>

(* shutdown() waits for the workers, then for the open requests. *)
Exit ==
  /\ service = "draining"
  /\ \A w \in Workers : worker[w].at = "idle"
  /\ \A j \in Jobs : post[j] \notin {"saving", "saved"}
  /\ Gone
  /\ UNCHANGED <<files, restarts>>

Crash ==
  /\ restarts < MaxRestarts
  /\ service # "down"
  /\ \E n \in [Workers -> 0 .. Chunk], torn \in [Workers -> BOOLEAN] :
       /\ \A w \in Workers :
            IF worker[w].at = "rating"
            THEN \E j \in worker[w].job :
                   LET whole == ChunkLength(worker[w].start, Rows[j])
                   IN n[w] <= whole /\ (torn[w] => n[w] < whole)
            ELSE n[w] = 0 /\ ~torn[w]
       /\ files' = [j \in Jobs |->
            IF \E w \in Workers : worker[w].at = "rating" /\ Holds(w, j)
            THEN LET w == CHOOSE w \in Workers : worker[w].at = "rating" /\ Holds(w, j)
                 IN Cut(files[j], worker[w].start, n[w], torn[w])
            ELSE files[j]]
  /\ restarts' = restarts + 1
  /\ Gone

Boot ==
  /\ service = "down"
  /\ service' = "up"
  /\ UNCHANGED <<driver, record, ready, worker, post, files, run, answers,
                 reader, restarts, faults>>

-----------------------------------------------------------------------------
(* refresh_run and the rows, read through the scoring service *)

(* Mutant: the files are asked before the live record. *)
FilesBeforeRecord(j) ==
  CASE files[j].spec /\ Len(files[j].results) >= Rows[j] -> "succeeded"
    [] record[j] # "none" -> record[j]
    [] OTHER -> IF files[j].spec THEN "failed" ELSE "missing"

(* Mutant: any row at all proves that the job finished. *)
AnyRowProves(j) ==
  CASE record[j] # "none" -> record[j]
    [] record[j] = "none" /\ ~files[j].spec -> "missing"
    [] OTHER -> IF files[j].summary \/ files[j].results # << >>
                THEN "succeeded" ELSE "failed"

(* Mutant: a job without a live record is unknown, as before the files were *)
(* asked.                                                                   *)
RecordOnly(j) == IF record[j] = "none" THEN "missing" ELSE record[j]

(* recordOrReconstruct: the live record, or what the files prove. *)
StatusOf(j) ==
  CASE record[j] # "none" -> record[j]
    [] record[j] = "none" /\ ~files[j].spec -> "missing"
    [] OTHER -> IF files[j].summary \/ Len(files[j].results) >= Rows[j]
                THEN "succeeded" ELSE "failed"

(* GET .../result; a torn file or a job unknown to the store is an error,  *)
(* which leaves the run as it is.                                          *)
Readable(j) == service # "down" /\ ~files[j].torn /\ StatusOf(j) # "missing"

Poll(j) ==
  /\ run[j].status = "running"
  /\ Readable(j)
  /\ StatusOf(j) \in Terminal
  /\ answers' = [answers EXCEPT
       ![j] = @ \cup {[status |-> StatusOf(j), summary |-> files[j].summary]}]
  /\ UNCHANGED <<serviceVars, post, files, run, reader, restarts, faults>>

(* Mutant: no WHERE clause. *)
FinalizedAlways(j, answer) ==
  [run EXCEPT ![j] =
     IF answer.status = "failed" THEN [status |-> "error", result |-> "none"]
     ELSE [status |-> "done",
           result |-> IF answer.summary THEN "summary" ELSE "blank"]]

(* finalize_run: WHERE status = 'running'. *)
Finalized(j, answer) ==
  IF run[j].status # "running" THEN run
  ELSE [run EXCEPT ![j] =
         IF answer.status = "failed" THEN [status |-> "error", result |-> "none"]
         ELSE [status |-> "done",
               result |-> IF answer.summary THEN "summary" ELSE "blank"]]

Finalize(j) ==
  /\ \E answer \in answers[j] :
       /\ run' = Finalized(j, answer)
       /\ answers' = [answers EXCEPT ![j] = @ \ {answer}]
  /\ UNCHANGED <<serviceVars, post, files, reader, restarts, faults>>

(* Mutant: the page starts at the offset, counted from one. *)
PageOneEarly(j, offset) ==
  SubSeq(files[j].results, IF offset = 0 THEN 1 ELSE offset,
         Min(offset + PageSize, Len(files[j].results)))

(* readResults: the page, and whether another follows it. *)
Page(j, offset) ==
  SubSeq(files[j].results, offset + 1,
         Min(offset + PageSize, Len(files[j].results)))
More(j, offset) == offset + PageSize < Len(files[j].results)

OpenRows(r, j) ==
  /\ reader[r].by = "none"
  /\ run[j].status = "done"
  /\ \E by \in {"ui", "collect"} :
       reader' = [reader EXCEPT ![r] = [Closed EXCEPT !.by = by, !.job = {j}]]
  /\ UNCHANGED <<serviceVars, post, files, run, answers, restarts, faults>>

(* The page answers under next_offset, which the user interface follows;   *)
(* collect_run_rows looks for nextOffset, finds none and stops.            *)
ReadPage(r, j) ==
  LET offset == Len(reader[r].got)
      next   == IF reader[r].by = "ui" THEN More(j, offset) ELSE FALSE
  IN /\ reader[r].job = {j} /\ ~reader[r].over
     /\ Readable(j)
     /\ reader' = [reader EXCEPT ![r].got = @ \o Page(j, offset),
                                 ![r].over = ~next]
     /\ UNCHANGED <<serviceVars, post, files, run, answers, restarts, faults>>

-----------------------------------------------------------------------------
Post(j) == SaveSpec(j) \/ SaveInput(j) \/ Enqueue(j) \/ InsertRun(j)

Work(w) ==
  \/ Ask(w) \/ TimeOut(w) \/ Claim(w)
  \/ \E j \in Jobs : \/ Begin(w, j) \/ Load(w, j) \/ AppendChunk(w, j)
                     \/ SaveSummary(w, j) \/ Close(w, j) \/ CloseFailed(w, j)

Fault ==
  \/ Stop \/ Crash
  \/ \E j \in Jobs : LoseAnswer(j) \/ \E w \in Workers : Throw(w, j)
  \/ \E w \in Workers : LoseUpdate(w)

Next ==
  \/ \E j \in Jobs : Post(j) \/ Poll(j) \/ Finalize(j)
  \/ \E w \in Workers : Work(w)
  \/ \E r \in Readers, j \in Jobs : OpenRows(r, j) \/ ReadPage(r, j)
  \/ Fault \/ Exit \/ Boot

Spec == Init /\ [][Next]_bookVars

(* A request in hand is served, the worker loop spins, the container        *)
(* restarts (restart: unless-stopped), and the page that started a run      *)
(* polls it, in a background tab as well.                                   *)
Fairness ==
  /\ \A j \in Jobs : WF_bookVars(SaveInput(j) \/ Enqueue(j))
  /\ \A w \in Workers : WF_bookVars(Work(w))
  /\ WF_bookVars(Exit) /\ WF_bookVars(Boot)
  /\ \A j \in Jobs : WF_bookVars(Poll(j)) /\ WF_bookVars(Finalize(j))

FairSpec == Spec /\ Fairness

-----------------------------------------------------------------------------
(* The properties *)

(* Every row of a job is rated once and stored in the book's order, whatever *)
(* throws or crashes and however many workers claim: results.ndjson holds    *)
(* rows 1 .. k, and a worker's chunkBase is exactly that k.                  *)
RatedOnce ==
  \A j \in Jobs :
    /\ files[j].results = Rated(0, Len(files[j].results))
    /\ Len(files[j].results) <= Rows[j]
    /\ \A w \in Workers :
         worker[w].at = "rating" /\ Holds(w, j)
           => worker[w].start = Len(files[j].results)

(* A run that ended is over in the scoring service too: no worker holds its  *)
(* job and no queue will hand it out, so nothing appends behind the result.  *)
EndedIsOver ==
  \A j \in Jobs : Ended(j) =>
    /\ \A w \in Workers : ~Holds(w, j)
    /\ \A i \in 1 .. Len(ready) : ready[i] # j

(* A run reported done has every row of the book in its results file, and    *)
(* the file can be read; a summary exists only behind a complete file.       *)
DoneIsWhole ==
  \A j \in Jobs :
    run[j].status = "done" \/ files[j].summary
      => Len(files[j].results) = Rows[j] /\ ~files[j].torn

(* Whoever pages through a done run has read its first rows without gap or   *)
(* repeat, and the user interface stops only when it has them all.           *)
PagesAreWhole ==
  \A r \in Readers : \A j \in reader[r].job :
    /\ reader[r].got = Rated(0, Len(reader[r].got))
    /\ reader[r].over /\ reader[r].by = "ui" => Len(reader[r].got) = Rows[j]

(* The state of plan_runs and of the result store, read as a RunPromise. *)
Promise == INSTANCE RunPromise WITH
  Runs    <- Jobs,
  Size    <- Rows,
  outcome <- [j \in Jobs |-> run[j].status],
  rated   <- [j \in Jobs |-> Len(files[j].results)]

(* The run table and the store together implement the promise: a run ends    *)
(* once, done only with every row rated, and its rows stay as they were.     *)
KeepsPromise == Promise!PromiseSpec

(* A run nobody will ever end: its results file is torn, or Redis still      *)
(* holds an open record of a job no worker holds and no list hands out.      *)
Stranded(j) ==
  \/ files[j].torn
  \/ /\ record[j] \in {"queued", "running"}
     /\ \A w \in Workers : ~Holds(w, j)
     /\ \A i \in 1 .. Len(ready) : ready[i] # j

(* A running run that is polled ends, through stops, crashes and restarts    *)
(* of the scoring service, unless it is stranded.                            *)
EveryRunEnds ==
  \A j \in Jobs : run[j].status = "running" ~> Ended(j) \/ Stranded(j)

(* service.py:461 "EVERY row of a DONE book/probe run": when                 *)
(* collect_run_rows returns, it has all of them.                             *)
CollectsEveryRow ==
  \A r \in Readers : \A j \in reader[r].job :
    reader[r].by = "collect" /\ reader[r].over => Len(reader[r].got) = Rows[j]
=============================================================================
