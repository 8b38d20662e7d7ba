---------------------- MODULE WorkloadBenchmarkProofs ----------------------
(***************************************************************************)
(* Theorems of tee/workload_benchmark.py for any worker counts, requests,  *)
(* memory budget and number of runs.                                       *)
(***************************************************************************)
EXTENDS WorkloadBenchmark, FiniteSums, TLAPS

FileNames == Finals \cup Partials
Resting == {"idle", "done", "failed", "stopped"}
InPool == {"collecting", "out of memory", "broken"}
Mains ==
  Resting \cup InPool \cup FileNames \cup {"attempt", "last partial raw", "last partial summary"}

Jobs == [count : WorkerCounts, request : Nat, scratch : Nat]
Files == [run : Nat, whole : BOOLEAN, rows : SUBSET Jobs]

(* The jobs of the present attempt.                                        *)
AttemptJobs == {Job(i) : i \in 0 .. Requests - 1}

Types ==
  /\ run \in Nat /\ main \in Mains
  /\ left \in SUBSET WorkerCounts /\ scratch \in Nat
  /\ rows \in SUBSET Jobs /\ allRows \in SUBSET Jobs
  /\ tasks \in SUBSET [job : Jobs, state : Pool!States] /\ IsFiniteSet(tasks)
  /\ file \in [FileNames -> Files]

(* The pool holds the jobs of one attempt, and its memory is at most that  *)
(* of the first one.                                                       *)
PoolShape ==
  /\ scratch <= InitialScratch
  /\ main \notin InPool => tasks = {}
  /\ main \in InPool \cup {"attempt"} => left # {}
  /\ main \in InPool =>
       /\ \A t \in tasks : t.job \in AttemptJobs
       /\ Cardinality(Pool!In("running")) <= WorkerCount
  /\ main = "collecting" => rows \subseteq AttemptJobs

(* What OneAttemptPerGroup says of the rows of one file.                   *)
Whole(content) ==
  \A r \in content :
    LET group == {q \in content : q.count = r.count} IN
    /\ \A q \in group : q.scratch = r.scratch
    /\ {q.request : q \in group} = 0 .. Largest(1, r.count * RequestsPerWorker) - 1

(* The worker counts that are measured have one whole group each.          *)
RowsShape ==
  /\ Whole(allRows) /\ \A f \in FileNames : Whole(file[f].rows)
  /\ main # "idle" => {r.count : r \in allRows} = WorkerCounts \ left
  /\ main \in Finals => left = {}

Published(f) ==
  /\ file[f].run = run /\ file[f].whole
  /\ {r.count : r \in file[f].rows} = WorkerCounts

FilesShape ==
  /\ \A f \in FileNames : file[f].run <= run
  /\ main \notin Resting => file["config"].run < run
  /\ main \in {"summary", "config"} => Published("raw")
  /\ main = "config" => Published("summary")
  /\ ConfigMarksCompletion

IInv == Types /\ PoolShape /\ RowsShape /\ FilesShape

---------------------------------------------------------------------------
(* The least and the largest of a set of numbers *)

LEMMA MinIsLeast ==
  ASSUME NEW S \in SUBSET Nat, S # {}
  PROVE  Min(S) \in S /\ \A n \in S : Min(S) <= n
  BY SmallestNumber DEF Min

(* The bounds of a finite set have a least one, which is in the set.       *)
LEMMA MaxIsLargest ==
  ASSUME NEW S \in SUBSET Nat, S # {}, IsFiniteSet(S)
  PROVE  Max(S) \in S /\ \A n \in S : n <= Max(S)
  <1> DEFINE bounds == {b \in Nat : \A n \in S : n <= b}
             numbers == [n \in S |-> n]
  <1>1. SumFunctionOnSet(numbers, S) \in bounds
    <2>1. \A n \in S : numbers[n] \in Nat /\ numbers[n] = n
      OBVIOUS
    <2> HIDE DEF numbers
    <2>2. SumFunctionOnSet(numbers, S) \in Nat
      BY <2>1, SumIsNat
    <2>3. ASSUME NEW n \in S PROVE n <= SumFunctionOnSet(numbers, S)
      <3>1. numbers[n] <= SumFunctionOnSet(numbers, S)
        BY <2>1, SumBoundsValue
      <3>2. QED BY <3>1, <2>1
    <2>4. QED BY <2>2, <2>3
  <1>2. PICK b \in bounds : \A c \in bounds : b <= c
    <2>1. bounds \in SUBSET Nat /\ bounds # {}
      BY <1>1
    <2> HIDE DEF bounds
    <2>2. QED BY <2>1, SmallestNumber
  <1>3. b \in S
    <2>1. SUFFICES ASSUME b \notin S PROVE FALSE
      OBVIOUS
    <2>2. ASSUME NEW n \in S PROVE n <= b - 1
      BY <2>1
    <2>3. b - 1 \in Nat
      <3>1. PICK n \in S : TRUE
        OBVIOUS
      <3>2. n \in Nat /\ n <= b - 1 /\ b \in Nat
        BY <2>2
      <3>3. QED BY <3>2
    <2>4. b - 1 \in bounds
      BY <2>2, <2>3
    <2>5. b <= b - 1
      BY <2>4, <1>2
    <2>6. QED BY <2>5
  <1>4. \E x \in S : \A y \in S : x >= y
    BY <1>3
  <1>5. Max(S) \in S /\ \A n \in S : Max(S) >= n
    BY <1>4 DEF Max
  <1>6. QED BY <1>5

(* The worker count that is measured is one of those asked for, and not    *)
(* above the largest.                                                      *)
LEMMA Counts ==
  /\ MaxWorkers \in Nat
  /\ \A w \in WorkerCounts : w \in Nat \ {0} /\ w <= MaxWorkers
  <1>1. WorkerCounts \in SUBSET Nat /\ WorkerCounts # {} /\ IsFiniteSet(WorkerCounts)
    BY WorkloadConstants
  <1>2. QED BY <1>1, MaxIsLargest, WorkloadConstants DEF MaxWorkers

LEMMA CountOfAttempt ==
  ASSUME left \in SUBSET WorkerCounts, left # {}
  PROVE  /\ WorkerCount \in left /\ WorkerCount \in WorkerCounts /\ WorkerCount \in Nat \ {0}
         /\ WorkerCount <= MaxWorkers
         /\ Requests \in Nat \ {0}
         /\ Requests = Largest(1, WorkerCount * RequestsPerWorker)
  <1>1. left \in SUBSET Nat
    BY WorkloadConstants
  <1>2. WorkerCount \in left
    BY <1>1, MinIsLeast DEF WorkerCount
  <1>3. WorkerCount \in Nat \ {0} /\ WorkerCount <= MaxWorkers
    BY <1>2, Counts
  <1>4. WorkerCount * RequestsPerWorker \in Nat
    BY <1>3, WorkloadConstants
  <1>5. QED BY <1>2, <1>3, <1>4 DEF Requests, Largest

LEMMA InitialScratchIsNat == InitialScratch \in Nat
  <1>1. MaxWorkers \in Nat \ {0} /\ MemoryBudget \in Nat
    <2>1. PICK w \in WorkerCounts : TRUE
      BY WorkloadConstants
    <2>2. w \in Nat \ {0} /\ w <= MaxWorkers /\ MaxWorkers \in Nat
      BY Counts
    <2>3. QED BY <2>2, WorkloadConstants
  <1>2. MemoryBudget \div MaxWorkers \in Nat
    BY <1>1
  <1>3. GivenScratch # {} => (CHOOSE mb \in GivenScratch : TRUE) \in Nat
    BY WorkloadConstants
  <1>4. QED BY <1>2, <1>3 DEF InitialScratch, Largest

(* A retry has no more memory than the attempt before it.                  *)
LEMMA ScratchShrinks ==
  ASSUME scratch \in Nat PROVE NextScratch \in Nat /\ NextScratch <= scratch
  <1>1. RetryPercent \in Nat /\ RetryPercent <= 100
    BY WorkloadConstants
  <1>2. scratch * RetryPercent \in Nat /\ scratch * RetryPercent <= scratch * 100
    BY <1>1
  <1> DEFINE product == scratch * RetryPercent
  <1> HIDE DEF product
  <1>3. product \in Nat /\ product <= scratch * 100
    BY <1>2 DEF product
  <1>4. product \div 100 \in Nat /\ product \div 100 <= scratch
    BY <1>3
  <1>5. QED BY <1>4 DEF NextScratch, product

(* The jobs of an attempt are as many as its requests.                     *)
LEMMA JobsOfAttempt ==
  ASSUME left \in SUBSET WorkerCounts, left # {}, scratch \in Nat
  PROVE  /\ AttemptJobs \in SUBSET Jobs /\ IsFiniteSet(AttemptJobs)
         /\ Cardinality(AttemptJobs) = Requests
         /\ \A j \in AttemptJobs : j.count = WorkerCount /\ j.scratch = scratch
         /\ {j.request : j \in AttemptJobs} = 0 .. Requests - 1
  <1> DEFINE numbers == 0 .. Requests - 1
             jobOf == [i \in numbers |-> Job(i)]
  <1>1. WorkerCount \in WorkerCounts /\ Requests \in Nat \ {0}
    BY CountOfAttempt
  <1>2. \A i \in numbers : Job(i) \in Jobs /\ Job(i).request = i /\ Job(i).count = WorkerCount
                             /\ Job(i).scratch = scratch
    BY <1>1 DEF Job, Jobs
  <1>3. IsFiniteSet(numbers) /\ Cardinality(numbers) = Requests
    <2>1. 0 \in Int /\ Requests - 1 \in Int /\ ~ (0 > Requests - 1)
      BY <1>1
    <2>2. QED BY <2>1, <1>1, FS_Interval
  <1>4. jobOf \in Surjection(numbers, AttemptJobs) /\ jobOf \in Injection(numbers, AttemptJobs)
    BY <1>2 DEF Surjection, Injection, IsInjective, AttemptJobs
  <1> HIDE DEF jobOf
  <1>5. IsFiniteSet(AttemptJobs) /\ Cardinality(AttemptJobs) = Requests
    <2> HIDE DEF numbers
    <2> QED BY <1>3, <1>4, FS_Surjection
  <1>6. QED BY <1>2, <1>5 DEF AttemptJobs

---------------------------------------------------------------------------
(* Init and the steps *)

LEMMA InitHolds == Init => IInv
  <1> SUFFICES ASSUME Init PROVE IInv
    OBVIOUS
  <1>1. NoFile \in Files /\ file = [f \in FileNames |-> NoFile]
    BY DEF Init, NoFile, Files, FileNames
  <1>2. Types
    BY <1>1, FS_EmptySet DEF Init, Types, Pool!Init, Mains, Resting
  <1>3. PoolShape
    BY InitialScratchIsNat DEF Init, PoolShape, Pool!Init, InPool
  <1>4. RowsShape
    BY <1>1 DEF Init, RowsShape, Whole, NoFile, Finals
  <1>5. \A f \in FileNames : file[f] = NoFile
    BY <1>1
  <1>6. FilesShape
    BY <1>5 DEF Init, FilesShape, ConfigMarksCompletion, NoFile, Resting, FileNames, Finals
  <1>7. QED BY <1>2, <1>3, <1>4, <1>6 DEF IInv

(* The properties of the files hold on when neither they nor the run are   *)
(* touched, and the main thread moves within one phase.                    *)
LEMMA FilesUntouched ==
  ASSUME IInv, UNCHANGED <<run, file>>,
         main' \in Resting \/ (main \notin Resting /\ main' \notin {"summary", "config"})
  PROVE  FilesShape'
  <1>1. ConfigMarksCompletion'
    BY DEF IInv, FilesShape, ConfigMarksCompletion
  <1>2. QED BY <1>1 DEF IInv, FilesShape, Resting, FileNames

LEMMA StartKeeps == ASSUME IInv, Start PROVE IInv'
  <1>1. /\ tasks' = {} /\ run' = run + 1 /\ main' = "attempt" /\ left' = WorkerCounts
        /\ scratch' = InitialScratch /\ rows' = {} /\ allRows' = {} /\ file' = file
    BY DEF Start, IInv, PoolShape, InPool
  <1>2. Types'
    <2>1. run \in Nat
      BY DEF IInv, Types
    <2>2. run' \in Nat
      BY <1>1, <2>1
    <2>3. main' \in Mains
      BY <1>1 DEF Mains
    <2>4. scratch' \in Nat
      BY <1>1, InitialScratchIsNat
    <2>5. QED BY <1>1, <2>2, <2>3, <2>4, FS_EmptySet DEF IInv, Types
  <1>3. PoolShape'
    BY <1>1, InitialScratchIsNat, WorkloadConstants DEF PoolShape, InPool
  <1>4. RowsShape'
    BY <1>1 DEF IInv, RowsShape, Whole, Finals
  <1>5. \A f \in FileNames : file[f].run \in Nat /\ file[f].run <= run /\ run \in Nat
    BY DEF IInv, Types, Files, FilesShape
  <1>6. \A f \in FileNames : file'[f].run <= run' /\ file'[f].run < run'
    BY <1>1, <1>5
  <1>7. ConfigMarksCompletion'
    BY <1>1 DEF IInv, FilesShape, ConfigMarksCompletion
  <1>8. FilesShape'
    BY <1>1, <1>6, <1>7 DEF FilesShape, FileNames, Finals
  <1>9. QED BY <1>2, <1>3, <1>4, <1>8 DEF IInv

(* An attempt fills the empty pool with its jobs.                          *)
LEMMA AttemptKeeps == ASSUME IInv, Attempt PROVE IInv'
  <1>1. /\ main = "attempt" /\ main' = "collecting" /\ rows' = {} /\ tasks = {} /\ left # {}
        /\ UNCHANGED <<run, left, scratch, allRows, file>>
    BY DEF Attempt, IInv, PoolShape, InPool
  <1>2. tasks' = [job : AttemptJobs, state : {"queued"}]
    BY <1>1 DEF Attempt, Pool!Submit, AttemptJobs
  <1>3. AttemptJobs \in SUBSET Jobs /\ IsFiniteSet(AttemptJobs)
    BY <1>1, JobsOfAttempt DEF IInv, Types
  <1>4. IsFiniteSet(tasks')
    <2> DEFINE taskOf == [j \in AttemptJobs |-> [job |-> j, state |-> "queued"]]
    <2>1. taskOf \in Surjection(AttemptJobs, tasks')
      BY <1>2 DEF Surjection
    <2> HIDE DEF taskOf
    <2>2. QED BY <2>1, <1>3, FS_Surjection
  <1>5. tasks' \in SUBSET [job : Jobs, state : Pool!States]
    BY <1>2, <1>3 DEF Pool!States
  <1>6. Types'
    BY <1>1, <1>4, <1>5 DEF IInv, Types, Mains, InPool
  <1>7. PoolShape'
    <2>1. AttemptJobs' = AttemptJobs /\ WorkerCount' = WorkerCount
      BY <1>1 DEF AttemptJobs, Requests, WorkerCount, Job
    <2>2. Pool!In("running")' = {}
      BY <1>2 DEF Pool!In
    <2>3. Cardinality(Pool!In("running")') <= WorkerCount
      BY <2>2, <1>1, CountOfAttempt, FS_EmptySet DEF IInv, Types
    <2>4. QED BY <1>1, <1>2, <2>1, <2>3 DEF IInv, PoolShape, InPool
  <1>8. RowsShape'
    BY <1>1 DEF IInv, RowsShape, Finals
  <1>9. FilesShape'
    BY <1>1, FilesUntouched DEF Resting
  <1>10. QED BY <1>6, <1>7, <1>8, <1>9 DEF IInv

LEMMA CollectKeeps == ASSUME IInv, Collect PROVE IInv'
  <1>1. main = "collecting" /\ UNCHANGED <<tasks, run, left, scratch, allRows, file>>
    BY DEF Collect
  <1>2. PICK t \in tasks : \/ rows' = rows \cup {t.job} /\ main' = main
                           \/ rows' = rows /\ main' \in {"out of memory", "broken"}
    BY DEF Collect
  <1>3. t.job \in Jobs /\ t.job \in AttemptJobs
    BY <1>1 DEF IInv, Types, PoolShape, InPool
  <1>4. main' \in InPool
    BY <1>1, <1>2 DEF InPool
  <1>5. Types'
    BY <1>1, <1>2, <1>3, <1>4 DEF IInv, Types, Mains
  <1>6. PoolShape'
    <2>1. AttemptJobs' = AttemptJobs /\ WorkerCount' = WorkerCount /\ Pool!In("running")' = Pool!In("running")
      BY <1>1 DEF AttemptJobs, Requests, WorkerCount, Job, Pool!In
    <2>2. rows' \subseteq AttemptJobs
      BY <1>1, <1>2, <1>3 DEF IInv, PoolShape
    <2>3. QED BY <1>1, <1>4, <2>1, <2>2 DEF IInv, PoolShape, InPool
  <1>7. RowsShape'
    BY <1>1, <1>4 DEF IInv, RowsShape, InPool, Finals
  <1>8. FilesShape'
    BY <1>1, <1>4, FilesUntouched DEF InPool, Resting
  <1>9. QED BY <1>5, <1>6, <1>7, <1>8 DEF IInv

(* Whole rows of one more worker count make no other group bigger.         *)
LEMMA GroupsAdd ==
  ASSUME NEW old, Whole(old), NEW new, Whole(new),
         \A r \in old : \A q \in new : r.count # q.count
  PROVE  Whole(old \cup new)
  <1>1. ASSUME NEW r \in old \cup new
        PROVE  LET group == {q \in old \cup new : q.count = r.count} IN
               /\ \A q \in group : q.scratch = r.scratch
               /\ {q.request : q \in group} = 0 .. Largest(1, r.count * RequestsPerWorker) - 1
    <2>1. CASE r \in old
      <3>1. {q \in old \cup new : q.count = r.count} = {q \in old : q.count = r.count}
        BY <2>1
      <3>2. QED BY <2>1, <3>1 DEF Whole
    <2>2. CASE r \in new
      <3>1. {q \in old \cup new : q.count = r.count} = {q \in new : q.count = r.count}
        BY <2>2
      <3>2. QED BY <2>2, <3>1 DEF Whole
    <2>3. QED BY <2>1, <2>2
  <1>2. QED BY <1>1 DEF Whole

(* All results are in: they are the jobs of this attempt, each once.       *)
LEMMA MeasuredKeeps == ASSUME IInv, Measured PROVE IInv'
  <1>1. /\ main = "collecting" /\ main' = "partial raw" /\ tasks' = {}
        /\ allRows' = allRows \cup rows /\ left' = left \ {WorkerCount}
        /\ Cardinality(rows) = Requests
        /\ UNCHANGED <<run, scratch, rows, file>>
    BY DEF Measured, LeavePool, Pool!Drop
  <1>2. left \in SUBSET WorkerCounts /\ left # {} /\ scratch \in Nat
    BY <1>1 DEF IInv, Types, PoolShape, InPool
  <1>3. rows = AttemptJobs
    BY <1>1, <1>2, JobsOfAttempt, FS_Subset DEF IInv, PoolShape
  <1>4. /\ WorkerCount \in left /\ Requests \in Nat \ {0}
        /\ Requests = Largest(1, WorkerCount * RequestsPerWorker)
    BY <1>2, CountOfAttempt
  <1>5. /\ \A r \in rows : r.count = WorkerCount /\ r.scratch = scratch
        /\ {r.request : r \in rows} = 0 .. Requests - 1
    BY <1>2, <1>3, JobsOfAttempt
  <1>6. Whole(rows)
    <2>1. ASSUME NEW r \in rows PROVE {q \in rows : q.count = r.count} = rows
      BY <1>5
    <2>2. QED BY <1>4, <1>5, <2>1 DEF Whole
  <1>7. {r.count : r \in rows} = {WorkerCount}
    <2>1. rows # {}
      BY <1>4, <1>5
    <2>2. QED BY <1>5, <2>1
  <1>8. {r.count : r \in allRows} = WorkerCounts \ left
    BY <1>1 DEF IInv, RowsShape
  <1>9. Whole(allRows')
    BY <1>1, <1>4, <1>5, <1>6, <1>8, GroupsAdd DEF IInv, RowsShape
  <1>10. {r.count : r \in allRows'} = WorkerCounts \ left'
    <2>1. {r.count : r \in allRows'} = (WorkerCounts \ left) \cup {WorkerCount}
      BY <1>1, <1>7, <1>8
    <2>. HIDE DEF WorkerCount
    <2>2. left' = left \ {WorkerCount} /\ WorkerCount \in WorkerCounts
      BY <1>1, <1>2, <1>4
    <2>. QED BY <2>1, <2>2
  <1>11. Types'
    BY <1>1, FS_EmptySet DEF IInv, Types, Mains, FileNames, Partials
  <1>12. PoolShape'
    BY <1>1 DEF IInv, PoolShape, InPool
  <1>13. RowsShape'
    BY <1>1, <1>9, <1>10 DEF IInv, RowsShape, Finals
  <1>14. FilesShape'
    BY <1>1, FilesUntouched DEF Resting
  <1>15. QED BY <1>11, <1>12, <1>13, <1>14 DEF IInv

(* The ways an attempt fails leave the pool with nothing in it.            *)
LEMMA FailuresKeep == ASSUME IInv, OutOfMemory \/ Broken PROVE IInv'
  <1>1. /\ main \in {"out of memory", "broken"} /\ tasks' = {}
        /\ main' \in {"attempt", "last partial raw", "failed"}
        /\ UNCHANGED <<run, left, rows, allRows, file>>
    BY DEF OutOfMemory, Broken, LeavePool, Pool!Drop
  <1>2. scratch \in Nat /\ scratch <= InitialScratch /\ left # {}
    BY <1>1 DEF IInv, Types, PoolShape, InPool
  <1>3. scratch' \in {scratch, NextScratch}
    BY DEF OutOfMemory, Broken
  <1>4. scratch' \in Nat /\ scratch' <= InitialScratch
    BY <1>2, <1>3, ScratchShrinks, InitialScratchIsNat
  <1>5. Types'
    BY <1>1, <1>4, FS_EmptySet DEF IInv, Types, Mains, Resting
  <1>6. PoolShape'
    BY <1>1, <1>2, <1>4 DEF PoolShape, InPool
  <1>7. RowsShape'
    BY <1>1 DEF IInv, RowsShape, Finals
  <1>8. FilesShape'
    BY <1>1, FilesUntouched DEF Resting
  <1>9. QED BY <1>5, <1>6, <1>7, <1>8 DEF IInv

---------------------------------------------------------------------------
(* The files *)

(* A file after it was written, or would have been.                        *)
LEMMA WriteOne ==
  ASSUME IInv, NEW f \in FileNames, Write(f, allRows), UNCHANGED <<run, allRows>>
  PROVE  /\ file' \in [FileNames -> Files]
         /\ \A g \in FileNames \ {f} : file'[g] = file[g]
         /\ file'[f].run <= run /\ Whole(file'[f].rows)
         /\ allRows # {} => file'[f] = [run |-> run, whole |-> TRUE, rows |-> allRows]
  <1> DEFINE new == [run |-> run, whole |-> TRUE, rows |-> allRows]
  <1>1. new \in Files /\ run <= run /\ Whole(allRows) /\ new.run = run /\ new.rows = allRows
    BY DEF IInv, Types, Files, RowsShape
  <1>2. file' = file \/ file' = [file EXCEPT ![f] = new]
    BY DEF Write
  <1>3. allRows # {} => file' = [file EXCEPT ![f] = new]
    BY DEF Write
  <1>4. file[f].run <= run /\ Whole(file[f].rows) /\ file \in [FileNames -> Files]
    BY DEF IInv, Types, RowsShape, FilesShape
  <1> HIDE DEF new
  <1>5. /\ file' \in [FileNames -> Files]
        /\ \A g \in FileNames \ {f} : file'[g] = file[g]
        /\ file'[f] = file[f] \/ file'[f] = new
        /\ allRows # {} => file'[f] = new
    BY <1>1, <1>2, <1>3, <1>4
  <1>6. QED BY <1>1, <1>4, <1>5 DEF new

(* What a step of the writers keeps, wherever it is.                       *)
LEMMA WritersKeep ==
  ASSUME IInv, NEW here, NEW f \in FileNames, NEW next, Publishing(here, f, next),
         scratch' \in {scratch, InitialScratch},
         here \notin InPool, here # "idle", next \in Mains \ InPool,
         next = "attempt" => left # {}, next \in Finals => left = {}
  PROVE  Types' /\ PoolShape' /\ RowsShape'
  <1>1. /\ main = here /\ main' = next /\ UNCHANGED <<tasks, run, left, rows, allRows>>
        /\ Write(f, allRows)
    BY DEF Publishing
  <1>2. /\ file' \in [FileNames -> Files] /\ \A g \in FileNames : Whole(file'[g].rows)
    BY <1>1, WriteOne DEF IInv, RowsShape
  <1>3. scratch' \in Nat /\ scratch' <= InitialScratch
    BY InitialScratchIsNat DEF IInv, Types, PoolShape
  <1>4. Types'
    BY <1>1, <1>2, <1>3 DEF IInv, Types
  <1>5. PoolShape'
    BY <1>1, <1>3 DEF IInv, PoolShape, InPool
  <1>6. RowsShape'
    BY <1>1, <1>2 DEF IInv, RowsShape
  <1>7. QED BY <1>4, <1>5, <1>6

LEMMA PartialsKeep == ASSUME IInv, WritePartials PROVE IInv'
  <1>1. PICK here \in {"partial raw", "partial summary", "last partial raw", "last partial summary"},
             f \in Partials,
             next \in {"partial summary", "raw", "attempt", "last partial summary", "failed"} :
          /\ Publishing(here, f, next)
          /\ next = "attempt" => left # {}
          /\ next = "raw" => left = {}
    BY DEF WritePartials, Partials
  <1>2. scratch' \in {scratch, InitialScratch}
    BY DEF WritePartials
  <1>3. f \in FileNames /\ f \notin Finals
    BY DEF FileNames, Partials, Finals
  <1>4. here \notin InPool /\ here \notin Resting /\ here # "idle"
    BY DEF InPool, Resting
  <1>5. /\ next \in Mains \ InPool /\ next \notin {"summary", "config"}
        /\ next = "attempt" => left # {}
        /\ next \in Finals => left = {}
    BY <1>1 DEF Mains, InPool, Resting, FileNames, Finals, Partials
  <1>6. Types' /\ PoolShape' /\ RowsShape'
    BY <1>1, <1>2, <1>3, <1>4, <1>5, WritersKeep
  <1>7. main = here /\ main' = next /\ UNCHANGED <<run, allRows>> /\ Write(f, allRows)
    BY <1>1 DEF Publishing
  <1>8. /\ \A g \in FileNames \ {f} : file'[g] = file[g]
        /\ file'[f].run <= run
    BY <1>3, <1>7, WriteOne
  <1>9. \A g \in Finals : file'[g] = file[g]
    BY <1>3, <1>8 DEF FileNames
  <1>10. ConfigMarksCompletion'
    BY <1>9 DEF IInv, FilesShape, ConfigMarksCompletion, Finals
  <1>11. FilesShape'
    BY <1>4, <1>5, <1>7, <1>8, <1>9, <1>10 DEF IInv, FilesShape, Finals
  <1>12. QED BY <1>6, <1>11 DEF IInv

(* Where all worker counts are measured there are rows to publish.         *)
LEMMA AllMeasured ==
  ASSUME IInv, main \in Finals
  PROVE  left = {} /\ allRows # {} /\ {r.count : r \in allRows} = WorkerCounts
  <1>1. left = {} /\ {r.count : r \in allRows} = WorkerCounts
    BY DEF IInv, RowsShape, Finals
  <1>2. QED BY <1>1, WorkloadConstants

(* The three final files, the configuration last.                          *)
LEMMA FinalsKeep == ASSUME IInv, WriteFinals PROVE IInv'
  <1>1. main \in Finals /\ UNCHANGED <<run, scratch, allRows, left>>
    BY DEF WriteFinals, Publishing, Finals
  <1>2. allRows # {} /\ left = {} /\ {r.count : r \in allRows} = WorkerCounts
    BY <1>1, AllMeasured
  <1>3. PICK f \in Finals, next \in {"summary", "config", "done"} :
          /\ Publishing(f, f, next)
          /\ \/ f = "raw" /\ next = "summary"
             \/ f = "summary" /\ next = "config"
             \/ f = "config" /\ next = "done"
    BY DEF WriteFinals, Finals
  <1>4. main = f /\ main' = next /\ Write(f, allRows)
    BY <1>3 DEF Publishing
  <1>5. f \in FileNames /\ f \notin InPool /\ f # "idle" /\ next \in Mains \ InPool /\ next # "attempt"
    BY DEF FileNames, Finals, Mains, Resting, InPool
  <1>6. Types' /\ PoolShape' /\ RowsShape'
    BY <1>1, <1>2, <1>3, <1>5, WritersKeep
  <1>7. /\ file'[f] = [run |-> run, whole |-> TRUE, rows |-> allRows]
        /\ \A g \in FileNames \ {f} : file'[g] = file[g]
    BY <1>1, <1>2, <1>4, <1>5, WriteOne
  <1>8. run \in Nat /\ \A g \in FileNames : file[g].run \in Nat /\ file[g].run <= run
    BY DEF IInv, Types, Files, FilesShape
  <1>9. \A g \in FileNames : file'[g].run <= run'
    BY <1>1, <1>7, <1>8
  <1>10. Published(f)'
    BY <1>1, <1>2, <1>7 DEF Published
  <1>11. \A g \in Finals \ {f} : file'[g] = file[g] /\ (Published(g) => Published(g)')
    BY <1>1, <1>7 DEF Published, FileNames
  <1>12. FilesShape'
    <2>1. CASE f = "raw"
      <3>1. file["config"].run < run /\ file'["config"] = file["config"]
        BY <1>4, <1>7, <2>1 DEF IInv, FilesShape, Resting, FileNames, Finals
      <3>2. ConfigMarksCompletion'
        BY <1>1, <1>7, <1>8, <1>11, <2>1, <3>1 DEF IInv, FilesShape, ConfigMarksCompletion, FileNames, Finals
      <3>3. QED BY <1>1, <1>3, <1>4, <1>9, <1>10, <2>1, <3>1, <3>2 DEF FilesShape
    <2>2. CASE f = "summary"
      <3>1. file["config"].run < run /\ file'["config"] = file["config"]
        BY <1>4, <1>7, <2>2 DEF IInv, FilesShape, Resting, FileNames, Finals
      <3>2. Published("raw")'
        BY <1>4, <1>11, <2>2 DEF IInv, FilesShape, Finals
      <3>3. ConfigMarksCompletion'
        BY <1>1, <1>7, <1>8, <1>11, <2>2, <3>1 DEF IInv, FilesShape, ConfigMarksCompletion, FileNames, Finals
      <3>4. QED BY <1>1, <1>3, <1>4, <1>9, <1>10, <2>2, <3>1, <3>2, <3>3 DEF FilesShape
    <2>3. CASE f = "config"
      <3>1. Published("raw")' /\ Published("summary")'
        BY <1>4, <1>11, <2>3 DEF IInv, FilesShape, Finals
      <3>2. ConfigMarksCompletion'
        BY <1>1, <1>8, <1>10, <2>3, <3>1 DEF ConfigMarksCompletion, Published, Finals
      <3>3. QED BY <1>3, <1>4, <1>9, <2>3, <3>2 DEF FilesShape, Resting
    <2>4. QED BY <1>3, <2>1, <2>2, <2>3
  <1>13. QED BY <1>6, <1>12 DEF IInv

(* A file that is cut off is not whole, and no configuration is of the run *)
(* of a file that was cut off before it.                                   *)
LEMMA StopKeeps == ASSUME IInv, Stop PROVE IInv'
  <1>1. /\ main \notin Resting /\ main' = "stopped" /\ tasks' = {}
        /\ UNCHANGED <<run, left, scratch, rows, allRows>>
    BY DEF Stop, Resting, Pool!Drop
  <1> DEFINE cut == [run |-> run, whole |-> FALSE, rows |-> {}]
  <1>2. file' = file \/ \E f \in OpenFile : file' = [file EXCEPT ![f] = cut]
    BY DEF Stop
  <1>3. OpenFile \subseteq FileNames /\ (OpenFile \cap Finals # {} => main \in Finals /\ OpenFile = {main})
    BY DEF OpenFile, FileNames, Finals, Partials
  <1>4. cut \in Files /\ Whole(cut.rows) /\ cut.run = run /\ cut.whole = FALSE
    BY DEF IInv, Types, Files, Whole
  <1>5. file \in [FileNames -> Files] /\ run \in Nat
    BY DEF IInv, Types
  <1> HIDE DEF cut
  <1>6. CASE file' = file
    <2>1. Types' /\ PoolShape' /\ RowsShape'
      BY <1>1, <1>6, FS_EmptySet DEF IInv, Types, PoolShape, RowsShape, Mains, Resting, InPool, Finals
    <2>2. FilesShape'
      BY <1>1, <1>6, FilesUntouched DEF Resting
    <2>3. QED BY <2>1, <2>2 DEF IInv
  <1>7. ASSUME NEW f \in OpenFile, file' = [file EXCEPT ![f] = cut]
        PROVE  IInv'
    <2>1. /\ f \in FileNames /\ file' \in [FileNames -> Files] /\ file'[f] = cut
          /\ \A g \in FileNames \ {f} : file'[g] = file[g]
      BY <1>3, <1>4, <1>5, <1>7
    <2>2. Types'
      BY <1>1, <2>1, FS_EmptySet DEF IInv, Types, Mains, Resting
    <2>3. PoolShape'
      BY <1>1 DEF IInv, PoolShape, InPool
    <2>4. RowsShape'
      BY <1>1, <1>4, <2>1 DEF IInv, RowsShape, Finals, Resting
    <2>5. \A g \in FileNames : file'[g].run <= run' /\ file[g].run \in Nat
      BY <1>1, <1>4, <1>5, <2>1 DEF IInv, FilesShape, Files
    <2>6. ConfigMarksCompletion'
      <3>1. CASE f \notin Finals
        <4>1. \A g \in Finals : file'[g] = file[g]
          BY <2>1, <3>1 DEF FileNames
        <4>2. QED BY <4>1 DEF IInv, FilesShape, ConfigMarksCompletion, Finals
      <3>2. CASE f \in Finals \ {"config"}
        <4>1. file["config"].run < run /\ file'["config"] = file["config"]
          BY <1>1, <2>1, <3>2 DEF IInv, FilesShape, FileNames, Finals
        <4>2. \A g \in Finals \ {f} : file'[g] = file[g]
          BY <2>1 DEF FileNames
        <4>3. file["config"].run \in Nat
          BY <2>5 DEF FileNames, Finals
        <4>4. QED BY <1>4, <1>5, <2>1, <3>2, <4>1, <4>2, <4>3 DEF IInv, FilesShape, ConfigMarksCompletion
      <3>3. CASE f = "config"
        <4>1. main = "config"
          BY <1>3, <3>3 DEF Finals
        <4>2. file["raw"].run = run /\ file["summary"].run = run
          BY <4>1 DEF IInv, FilesShape, Published
        <4>3. file'["config"] = cut /\ file'["raw"] = file["raw"] /\ file'["summary"] = file["summary"]
          BY <2>1, <3>3 DEF FileNames, Finals
        <4>4. QED BY <1>4, <1>5, <4>2, <4>3 DEF ConfigMarksCompletion, Finals
      <3>4. QED BY <3>1, <3>2, <3>3
    <2>7. FilesShape'
      BY <1>1, <2>5, <2>6 DEF FilesShape, Resting
    <2>8. QED BY <2>2, <2>3, <2>4, <2>7 DEF IInv
  <1>8. QED BY <1>2, <1>6, <1>7

---------------------------------------------------------------------------
(* The pool *)

(* A worker takes a job only while fewer run than the attempt has workers. *)
LEMMA WorkerKeeps == ASSUME IInv, Worker PROVE IInv'
  <1>1. UNCHANGED <<run, main, left, scratch, rows, allRows, file>>
    BY DEF Worker
  <1>2. PICK t \in tasks : \/ Pool!Run(t, t.job.count)
                           \/ \E state \in {"done", "raised"} : Pool!Finish(t, state)
    BY DEF Worker
  <1>3. PICK state \in {"running", "done", "raised"} :
          /\ tasks' = (tasks \ {t}) \cup {[t EXCEPT !.state = state]}
          /\ state = "running" => Cardinality(Pool!In("running")) < t.job.count
    <2>1. CASE Pool!Run(t, t.job.count)
      <3>1. "running" \in {"running", "done", "raised"}
        OBVIOUS
      <3>2. tasks' = (tasks \ {t}) \cup {[t EXCEPT !.state = "running"]}
        BY <2>1 DEF Pool!Run, Pool!Become
      <3>3. Cardinality(Pool!In("running")) < t.job.count
        BY <2>1 DEF Pool!Run, Pool!Cardinality, Cardinality
      <3>4. QED BY <3>1, <3>2, <3>3
    <2>2. ASSUME NEW s \in {"done", "raised"}, Pool!Finish(t, s)
          PROVE  /\ s \in {"running", "done", "raised"} /\ s # "running"
                 /\ tasks' = (tasks \ {t}) \cup {[t EXCEPT !.state = s]}
      BY <2>2 DEF Pool!Finish, Pool!Become
    <2>3. QED BY <1>2, <2>1, <2>2
  <1> DEFINE new == [t EXCEPT !.state = state]
  <1>4. t \in [job : Jobs, state : Pool!States] /\ IsFiniteSet(tasks)
    BY DEF IInv, Types
  <1>5. new \in [job : Jobs, state : Pool!States] /\ new.job = t.job /\ new.state = state
    BY <1>4 DEF Pool!States
  <1> HIDE DEF new
  <1>6. tasks' = (tasks \ {t}) \cup {new}
    BY <1>3 DEF new
  <1>7. IsFiniteSet(tasks')
    <2>1. IsFiniteSet(tasks \ {t})
      BY <1>4, FS_RemoveElement
    <2>2. QED BY <1>6, <2>1, FS_AddElement
  <1>8. main \in InPool /\ left # {} /\ t.job \in AttemptJobs
    BY <1>2 DEF IInv, PoolShape
  <1>9. /\ Cardinality(Pool!In("running")) <= WorkerCount /\ t.job.count = WorkerCount
        /\ WorkerCount \in Nat
    BY <1>8, JobsOfAttempt, CountOfAttempt DEF IInv, Types, PoolShape
  <1>10. Cardinality(Pool!In("running")') <= WorkerCount
    <2> DEFINE before == Pool!In("running")
               after == Pool!In("running")'
    <2>1. IsFiniteSet(before) /\ Cardinality(before) \in Nat
      BY <1>4, FS_Subset, FS_CardinalityType DEF Pool!In
    <2>2. CASE state = "running"
      <3>1. after \in SUBSET (before \cup {new})
        BY <1>6 DEF Pool!In
      <3>2. IsFiniteSet(before \cup {new}) /\ Cardinality(before \cup {new}) <= Cardinality(before) + 1
        <4> HIDE DEF before
        <4>1. /\ IsFiniteSet(before \cup {new})
              /\ \/ Cardinality(before \cup {new}) = Cardinality(before)
                 \/ Cardinality(before \cup {new}) = Cardinality(before) + 1
          BY <2>1, FS_AddElement
        <4>2. QED BY <4>1, <2>1
      <3>3. Cardinality(after) <= Cardinality(before \cup {new}) /\ IsFiniteSet(after)
        BY <3>1, <3>2, FS_Subset
      <3>4. Cardinality(after) \in Nat /\ Cardinality(before \cup {new}) \in Nat
        BY <3>2, <3>3, FS_CardinalityType
      <3>5. QED BY <1>3, <1>9, <2>1, <2>2, <3>2, <3>3, <3>4
    <2>3. CASE state # "running"
      <3>1. after \in SUBSET before
        BY <1>5, <1>6, <2>3 DEF Pool!In
      <3>2. Cardinality(after) <= Cardinality(before) /\ IsFiniteSet(after)
        BY <2>1, <3>1, FS_Subset
      <3>3. Cardinality(after) \in Nat
        BY <3>2, FS_CardinalityType
      <3>4. QED BY <1>9, <2>1, <3>2, <3>3
    <2>4. QED BY <2>2, <2>3
  <1>11. Types'
    BY <1>1, <1>5, <1>6, <1>7 DEF IInv, Types
  <1>12. PoolShape'
    <2>1. AttemptJobs' = AttemptJobs /\ WorkerCount' = WorkerCount
      BY <1>1 DEF AttemptJobs, Requests, WorkerCount, Job
    <2>2. \A u \in tasks' : u.job \in AttemptJobs
      BY <1>5, <1>6, <1>8 DEF IInv, PoolShape
    <2>3. QED BY <1>1, <1>8, <1>10, <2>1, <2>2 DEF IInv, PoolShape
  <1>13. RowsShape'
    BY <1>1 DEF IInv, RowsShape
  <1>14. FilesShape'
    BY <1>1 DEF IInv, FilesShape, Published, ConfigMarksCompletion
  <1>15. QED BY <1>11, <1>12, <1>13, <1>14 DEF IInv

(* The workers that run, at most as many as the attempt has, each with its *)
(* scratch memory, need no more than was planned for the largest number.   *)
LEMMA MemoryFits == IInv => MemoryWithinPlan
  <1> SUFFICES ASSUME IInv PROVE MemoryWithinPlan
    OBVIOUS
  <1> DEFINE running == Pool!In("running")
             memory == [t \in tasks |-> t.job.scratch]
  <1>1. ASSUME main \in InPool
        PROVE  \A t \in running : t.job.count = WorkerCount /\ t.job.scratch = scratch
    BY <1>1, JobsOfAttempt DEF IInv, Types, PoolShape, Pool!In
  <1>2. main \notin InPool => running = {}
    BY DEF IInv, PoolShape, Pool!In
  <1>3. IsFiniteSet(running) /\ Cardinality(running) \in Nat /\ running \subseteq tasks
    BY FS_Subset, FS_CardinalityType DEF IInv, Types, Pool!In
  <1>4. /\ InitialScratch \in Nat /\ MaxWorkers \in Nat
        /\ scratch \in Nat /\ scratch <= InitialScratch
    BY InitialScratchIsNat, Counts DEF IInv, Types, PoolShape
  <1>5. SumFunctionOnSet(memory, running) <= InitialScratch * MaxWorkers
    <2>1. \A t \in running : memory[t] \in Nat /\ memory[t] <= InitialScratch
      BY <1>1, <1>2, <1>3, <1>4
    <2>2. Cardinality(running) <= MaxWorkers
      <3>1. CASE main \in InPool
        <4>1. Cardinality(running) <= WorkerCount /\ WorkerCount <= MaxWorkers /\ WorkerCount \in Nat
          BY <3>1, CountOfAttempt DEF IInv, Types, PoolShape
        <4>2. QED BY <4>1, <1>3, <1>4
      <3>2. CASE main \notin InPool
        <4>1. Cardinality(running) = 0
          BY <1>2, <3>2, FS_EmptySet
        <4>2. QED BY <4>1, <1>4
      <3>3. QED BY <3>1, <3>2
    <2> HIDE DEF running, memory
    <2>3. SumFunctionOnSet(memory, running) <= InitialScratch * Cardinality(running)
      BY <1>3, <1>4, <2>1, SumAtMost
    <2>4. SumFunctionOnSet(memory, running) \in Nat
      BY <1>3, <2>1, SumIsNat
    <2>5. InitialScratch * Cardinality(running) <= InitialScratch * MaxWorkers
      BY <1>3, <1>4, <2>2
    <2>6. InitialScratch * Cardinality(running) \in Nat /\ InitialScratch * MaxWorkers \in Nat
      BY <1>3, <1>4
    <2>7. QED BY <2>3, <2>4, <2>5, <2>6
  <1>6. QED BY <1>1, <1>2, <1>5 DEF MemoryWithinPlan, InPool

(* The invariant of the workload benchmark.                                *)
LEMMA Invariance == Spec => []IInv
  <1>1. IInv /\ [Next]_vars => IInv'
    <2> SUFFICES ASSUME IInv, [Next]_vars PROVE IInv'
      OBVIOUS
    <2>1. CASE UNCHANGED vars
      <3>1. AttemptJobs' = AttemptJobs /\ WorkerCount' = WorkerCount /\ Pool!In("running")' = Pool!In("running")
        BY <2>1 DEF vars, AttemptJobs, Requests, WorkerCount, Job, Pool!In
      <3>2. Types' /\ PoolShape'
        BY <2>1, <3>1 DEF vars, IInv, Types, PoolShape
      <3>3. RowsShape' /\ FilesShape'
        BY <2>1 DEF vars, IInv, RowsShape, FilesShape, Published, ConfigMarksCompletion
      <3>4. QED BY <3>2, <3>3 DEF IInv
    <2>2. QED
      BY <2>1, StartKeeps, AttemptKeeps, CollectKeeps, MeasuredKeeps, FailuresKeep, PartialsKeep,
         FinalsKeep, WorkerKeeps, StopKeeps
      DEF Next, Main
  <1>2. QED BY <1>1, InitHolds, PTL DEF Spec

---------------------------------------------------------------------------
(* Whatever attempts failed before, what a file says of a worker count is  *)
(* one attempt's: every request once, with the same memory.                *)
THEOREM GroupsAreOfOneAttempt == Spec => []OneAttemptPerGroup
  <1>1. IInv => OneAttemptPerGroup
    BY DEF IInv, Types, RowsShape, Whole, OneAttemptPerGroup
  <1>2. QED BY <1>1, Invariance, PTL

(* The workers that run together never need more than the memory the first *)
(* attempt of the largest worker count was planned with.                   *)
THEOREM MemoryStaysWithinPlan == Spec => []MemoryWithinPlan
  BY MemoryFits, Invariance, PTL

(* Final files of one run, the configuration among them and whole, are     *)
(* whole and about all worker counts.                                      *)
THEOREM ConfigurationMarksCompletion == Spec => []ConfigMarksCompletion
  <1>1. IInv => ConfigMarksCompletion
    BY DEF IInv, FilesShape
  <1>2. QED BY <1>1, Invariance, PTL
=============================================================================
