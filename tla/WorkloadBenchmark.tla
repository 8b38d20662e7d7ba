------------------------- MODULE WorkloadBenchmark -------------------------
(***************************************************************************)
(* tee/workload_benchmark.py, run several times over the same output files.*)
(* Each worker count is an attempt in a process pool of that size; a       *)
(* MemoryError ends the attempt, and it is repeated with less scratch      *)
(* memory per worker until the memory is below the minimum.                *)
(***************************************************************************)
EXTENDS Integers, FiniteSetsExt

CONSTANTS
  WorkerCounts, RequestsPerWorker,
  MemoryBudget,       \* megabytes that may be used by all workers
  GivenScratch,       \* the value of --scratch-mb; none: {}
  RetryPercent, MinScratch, AutoReduce,
  MaxRuns             \* bound on the runs of the program

ASSUME WorkloadConstants ==
  /\ WorkerCounts # {} /\ WorkerCounts \subseteq Nat \ {0} /\ IsFiniteSet(WorkerCounts)
  /\ RequestsPerWorker \in Nat /\ MemoryBudget \in Nat /\ MaxRuns \in Nat
  /\ GivenScratch \subseteq Nat
  /\ RetryPercent \in 10 .. 95 /\ MinScratch \in Nat \ {0} /\ AutoReduce \in BOOLEAN

VARIABLES
  tasks,
  run,       \* the number of the run
  main,      \* where its main thread is
  left,      \* worker counts still to be measured
  scratch,   \* active_scratch_mb
  rows,      \* of the attempt
  allRows,   \* of the worker counts that are measured
  file       \* the output files

Pool == INSTANCE FuturesPool
vars == <<tasks, run, main, left, scratch, rows, allRows, file>>

Finals == {"raw", "summary", "config"}
Partials == {"partial raw", "partial summary"}
NoFile == [run |-> 0, whole |-> TRUE, rows |-> {}]

MaxWorkers == Max(WorkerCounts)
Largest(a, b) == IF a > b THEN a ELSE b

(* compute_scratch_mb: the value given, or the budget split among the      *)
(* largest number of workers.                                              *)
InitialScratch ==
  IF GivenScratch # {} THEN CHOOSE mb \in GivenScratch : TRUE
  ELSE Largest(1, MemoryBudget \div MaxWorkers)

(* int(active_scratch_mb * memory_retry_factor)                            *)
NextScratch_RoundedUp == (scratch * RetryPercent + 99) \div 100
NextScratch == (scratch * RetryPercent) \div 100

WorkerCount == Min(left)
Requests == Largest(1, WorkerCount * RequestsPerWorker)
Job(i) == [count |-> WorkerCount, request |-> i, scratch |-> scratch]

Init ==
  /\ Pool!Init
  /\ run = 0 /\ main = "idle"
  /\ left = {} /\ scratch = 0 /\ rows = {} /\ allRows = {}
  /\ file = [f \in Finals \cup Partials |-> NoFile]

Start ==
  /\ main \in {"idle", "done", "failed", "stopped"} /\ run < MaxRuns
  /\ run' = run + 1 /\ main' = "attempt"
  /\ left' = WorkerCounts /\ scratch' = InitialScratch
  /\ rows' = {} /\ allRows' = {}
  /\ UNCHANGED <<tasks, file>>

---------------------------------------------------------------------------
(* run_worker_count *)

Attempt_KeepsRows ==
  /\ main = "attempt"
  /\ Pool!Submit({Job(i) : i \in 0 .. Requests - 1})
  /\ main' = "collecting"
  /\ UNCHANGED <<run, left, scratch, rows, allRows, file>>

Attempt ==
  /\ main = "attempt"
  /\ Pool!Submit({Job(i) : i \in 0 .. Requests - 1})
  /\ rows' = {} /\ main' = "collecting"
  /\ UNCHANGED <<run, left, scratch, allRows, file>>

(* as_completed, and future.result, which raises what the worker raised: a *)
(* MemoryError, or another exception that nothing catches.                 *)
Collect ==
  /\ main = "collecting"
  /\ \E t \in tasks :
       \/ /\ t.state = "done" /\ t.job \notin rows
          /\ rows' = rows \cup {t.job}
          /\ main' = main
       \/ /\ t.state = "raised"
          /\ main' \in {"out of memory", "broken"}
          /\ UNCHANGED rows
  /\ UNCHANGED <<tasks, run, left, scratch, allRows, file>>

(* The executor's block is left when its workers have stopped.             *)
LeavePool_AtOnce == UNCHANGED tasks
LeavePool == Pool!Idle /\ Pool!Drop

Measured ==
  /\ main = "collecting" /\ Cardinality(rows) = Requests
  /\ LeavePool
  /\ allRows' = allRows \cup rows
  /\ left' = left \ {WorkerCount}
  /\ main' = "partial raw"
  /\ UNCHANGED <<run, scratch, rows, file>>

(* The except clause: less memory, or the partial results and the end.     *)
OutOfMemory ==
  /\ main = "out of memory" /\ LeavePool
  /\ IF AutoReduce /\ NextScratch >= MinScratch
     THEN scratch' = NextScratch /\ main' = "attempt"
     ELSE main' = "last partial raw" /\ UNCHANGED scratch
  /\ UNCHANGED <<run, left, rows, allRows, file>>

Broken ==
  /\ main = "broken" /\ LeavePool
  /\ main' = "failed"
  /\ UNCHANGED <<run, left, scratch, rows, allRows, file>>

---------------------------------------------------------------------------
(* The files.  The writers of rows do nothing when there are none.         *)

Write(f, content) ==
  file' = IF content = {} THEN file
          ELSE [file EXCEPT ![f] = [run |-> run, whole |-> TRUE, rows |-> content]]

Publishing(here, f, next) ==
  /\ main = here
  /\ Write(f, allRows)
  /\ main' = next
  /\ UNCHANGED <<tasks, run, left, rows, allRows>>

WritePartials ==
  \/ Publishing("partial raw", "partial raw", "partial summary") /\ UNCHANGED scratch
  \/ /\ Publishing("partial summary", "partial summary", IF left = {} THEN "raw" ELSE "attempt")
     /\ scratch' = InitialScratch
  \/ Publishing("last partial raw", "partial raw", "last partial summary") /\ UNCHANGED scratch
  \/ Publishing("last partial summary", "partial summary", "failed") /\ UNCHANGED scratch

WriteFinals_SummaryFirst ==
  /\ \/ Publishing("raw", "summary", "summary")
     \/ Publishing("summary", "config", "config")
     \/ Publishing("config", "raw", "done")
  /\ UNCHANGED scratch

WriteFinals ==
  /\ \/ Publishing("raw", "raw", "summary")
     \/ Publishing("summary", "summary", "config")
     \/ Publishing("config", "config", "done")
  /\ UNCHANGED scratch

---------------------------------------------------------------------------
Worker ==
  /\ \E t \in tasks :
       \/ Pool!Run(t, t.job.count)
       \/ \E state \in {"done", "raised"} : Pool!Finish(t, state)
  /\ UNCHANGED <<run, main, left, scratch, rows, allRows, file>>

(* The file that is written at this point.                                 *)
OpenFile ==
  IF main \in Finals \cup Partials THEN {main}
  ELSE IF main = "last partial raw" THEN {"partial raw"}
  ELSE IF main = "last partial summary" THEN {"partial summary"} ELSE {}

(* The program and its pool are killed, or the user interrupts it; a file  *)
(* that is being written stays cut off.                                    *)
Stop ==
  /\ main \notin {"idle", "done", "failed", "stopped"}
  /\ Pool!Drop
  /\ main' = "stopped"
  /\ \/ UNCHANGED file
     \/ \E f \in OpenFile :
          allRows # {} /\ file' = [file EXCEPT ![f] = [run |-> run, whole |-> FALSE, rows |-> {}]]
  /\ UNCHANGED <<run, left, scratch, rows, allRows>>

Main == Attempt \/ Collect \/ Measured \/ OutOfMemory \/ Broken \/ WritePartials \/ WriteFinals

Next == Start \/ Main \/ Worker \/ Stop

(* The main thread and the worker processes are scheduled; a worker either *)
(* returns or raises.                                                      *)
Spec == Init /\ [][Next]_vars /\ WF_vars(Main) /\ WF_vars(Worker)

---------------------------------------------------------------------------
(* What the program promises *)

(* What a file reports about a worker count comes from one attempt: every  *)
(* request once, all with the same scratch memory.  The summary takes the  *)
(* memory of a group from its first row.                                   *)
OneAttemptPerGroup ==
  \A f \in DOMAIN file : \A r \in file[f].rows :
    LET group == {q \in file[f].rows : q.count = r.count} IN
    /\ \A q \in group : q.scratch = r.scratch
    /\ {q.request : q \in group} = 0 .. Largest(1, r.count * RequestsPerWorker) - 1

(* Retries lower the memory of each worker, and an attempt starts only when*)
(* the last one's workers have stopped: all that run together fit into the *)
(* memory the first attempt was planned with.                              *)
MemoryWithinPlan ==
  /\ main \in {"attempt", "collecting"} =>
       \A t \in Pool!In("running") : t.job.count = WorkerCount /\ t.job.scratch = scratch
  /\ SumFunctionOnSet([t \in tasks |-> t.job.scratch], Pool!In("running"))
       <= InitialScratch * MaxWorkers

(* The configuration is written last: where the three files are of the same*)
(* run they are whole and about all worker counts, whatever happened to    *)
(* earlier and later runs.                                                 *)
ConfigMarksCompletion ==
  \A f \in Finals :
    /\ file["config"].run <= file[f].run
    /\ file["config"].whole /\ file[f].run = file["config"].run /\ file[f].run > 0 =>
         file[f].whole /\ {r.count : r \in file[f].rows} = WorkerCounts

(* The retry loop has no bound on its rounds.  It ends because every round *)
(* has less memory than the last, whatever the workers do.                 *)
EveryWorkloadEnds == main = "attempt" ~> main \in {"done", "failed", "stopped"}
=============================================================================
