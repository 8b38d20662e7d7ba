----------------------- MODULE AttackSimulationProofs -----------------------
(***************************************************************************)
(* Theorems of tee/attack_simulation.py for any lists of attacks and       *)
(* severities, any number of trials, any budget, any number of workers and *)
(* of runs, and any draws of the detector.                                 *)
(***************************************************************************)
EXTENDS AttackSimulation, FiniteSums, TLAPS

FileNames == Finals \cup Partials
Early == Collecting \cup {"leaving", "stop raw", "stop summary", "stopping", "failing"}
Ended == {"exiting", "stopped", "abandoned", "killed"}
Mains == Resting \cup Early \cup Ended \cup Finals \cup Last

(* The requests a job finds that matter to it, by the way it is run.       *)
SeenBefore(j) == IF ~Parallel /\ Repeats(j) THEN {RequestId(Trial(j))} ELSE {}
ScheduledVerdicts == {Verdict(j, SeenBefore(j), draw) : j \in Jobs}

Types ==
  /\ run \in Nat /\ workers \in Nat \ {0} /\ main \in Mains
  /\ main = "sequential" => ~Parallel
  /\ main = "collecting" => Parallel
  /\ todo \in SUBSET Jobs /\ tasks \in SUBSET [job : Jobs, state : Pool!States]
  /\ DOMAIN seen = Range(Attacks)
  /\ rows \in SUBSET ScheduledVerdicts
  /\ DOMAIN file = FileNames /\ \A f \in FileNames : file[f].run \in Nat

(* There are futures only while a pool's block has not been left, or after *)
(* a process that could not wait for it.                                   *)
PoolShape ==
  tasks # {} => Parallel /\ main \in Early \cup {"exiting", "abandoned", "killed"}

(* A sequential run takes the jobs in their order, and has seen the        *)
(* requests of those it has finished and let through.                      *)
TodoShape == \A i \in Jobs \ todo : \A k \in todo : Before(i, k)
SeenShape ==
  todo # {} =>
    \A a \in Range(Attacks) \ {"replay_request"} : \A id :
      id \in seen[a] <=>
        \E i \in Jobs \ todo :
          Trial(i).attack = a /\ PolicyOk(Trial(i), {}) /\ id = RequestId(Trial(i))

(* Nothing of this run is published before its block is left, and what it  *)
(* says is so: nothing is written once it has been said.                   *)
Kept(f) == ~DisableCheckpoints /\ rows # {} => file[f] = [run |-> run, whole |-> TRUE, rows |-> rows]
Unpublished == \A f \in Finals : file[f].run < run

FilesShape ==
  /\ \A f \in FileNames : file[f].run <= run
  /\ main \in Early => Unpublished
  /\ "stopped by user" \in says => Unpublished /\ main \in Ended
  /\ main = "stop summary" => Kept("partial raw")
  /\ "kept" \in says =>
       Kept("partial raw") /\ Kept("partial summary") /\ main \in Ended \cup {"stopping"}

IInv == Types /\ PoolShape /\ TodoShape /\ SeenShape /\ FilesShape

---------------------------------------------------------------------------
(* The order of the jobs *)

LEMMA JobFields ==
  ASSUME NEW j \in Jobs
  PROVE  /\ j.a \in Nat /\ j.s \in Nat /\ j.trial \in Nat
         /\ j = [a |-> j.a, s |-> j.s, trial |-> j.trial]
         /\ j.a \in DOMAIN Attacks
  <1>1. DOMAIN Attacks \in SUBSET Nat /\ DOMAIN Severities \in SUBSET Nat /\ Trials \in Nat
    BY AttackConstants
  <1>2. QED BY <1>1 DEF Jobs

LEMMA BeforeIsAnOrder ==
  ASSUME NEW i \in Jobs, NEW j \in Jobs, Before(i, j)
  PROVE  ~Before(j, i) /\ i # j
  <1>1. /\ i.a \in Nat /\ i.s \in Nat /\ i.trial \in Nat
        /\ j.a \in Nat /\ j.s \in Nat /\ j.trial \in Nat
    BY JobFields
  <1>2. QED BY <1>1 DEF Before

(* The first of some jobs is one of them, and before all others: attack,   *)
(* severity and trial, in this order, each have a least place.             *)
LEMMA FirstIsOne ==
  ASSUME NEW jobs \in SUBSET Jobs, jobs # {}
  PROVE  First(jobs) \in jobs /\ \A i \in jobs \ {First(jobs)} : Before(First(jobs), i)
  <1> DEFINE attacks == {j.a : j \in jobs}
  <1>1. attacks \in SUBSET Nat /\ attacks # {}
    BY JobFields
  <1>2. PICK p \in attacks : \A q \in attacks : p <= q
    <2> HIDE DEF attacks
    <2> QED BY <1>1, SmallestNumber
  <1> DEFINE severities == {j.s : j \in {k \in jobs : k.a = p}}
  <1>3. severities \in SUBSET Nat /\ severities # {}
    BY JobFields
  <1>4. PICK s \in severities : \A q \in severities : s <= q
    <2> HIDE DEF severities
    <2> QED BY <1>3, SmallestNumber
  <1> DEFINE trials == {j.trial : j \in {k \in jobs : k.a = p /\ k.s = s}}
  <1>5. trials \in SUBSET Nat /\ trials # {}
    BY JobFields
  <1>6. PICK t \in trials : \A q \in trials : t <= q
    <2> HIDE DEF trials
    <2> QED BY <1>5, SmallestNumber
  <1>7. PICK j \in jobs : j.a = p /\ j.s = s /\ j.trial = t
    OBVIOUS
  <1>8. ASSUME NEW i \in jobs \ {j} PROVE Before(j, i)
    <2>1. /\ i.a \in Nat /\ i.s \in Nat /\ i.trial \in Nat
          /\ p \in Nat /\ s \in Nat /\ t \in Nat
      BY JobFields, <1>1, <1>3, <1>5
    <2>2. p <= i.a
      BY <1>2
    <2>3. i.a = p => s <= i.s
      BY <1>4
    <2>4. i.a = p /\ i.s = s => t <= i.trial
      BY <1>6
    <2>5. ~(i.a = p /\ i.s = s /\ i.trial = t)
      BY <1>7, JobFields
    <2> HIDE DEF attacks, severities, trials
    <2>6. QED BY <2>1, <2>2, <2>3, <2>4, <2>5, <1>7 DEF Before
  <1>9. QED BY <1>7, <1>8 DEF First

---------------------------------------------------------------------------
(* One trial *)

LEMMA TrialOfJob ==
  ASSUME NEW j \in Jobs
  PROVE  Trial(j).attack \in Range(Attacks)
  BY JobFields DEF Trial, Range

LEMMA SameRequest ==
  ASSUME NEW i \in Jobs, NEW j \in Jobs,
         Trial(i).attack # "replay_request", Trial(j).attack # "replay_request",
         RequestId(Trial(i)) = RequestId(Trial(j))
  PROVE  Trial(i) = Trial(j)
  BY DEF RequestId, Trial

(* A sequential run comes to a job after all before it, and has seen its   *)
(* request if an earlier job with it was let through.                      *)
LEMMA SeenIsRepeated ==
  ASSUME IInv, NEW j \in Jobs, j \in todo, \A i \in todo \ {j} : Before(j, i),
         Trial(j).attack # "replay_request"
  PROVE  RequestId(Trial(j)) \in seen[Trial(j).attack] <=> PolicyOk(Trial(j), {}) /\ Repeats(j)
  <1> DEFINE a == Trial(j).attack
  <1>1. a \in Range(Attacks) \ {"replay_request"}
    BY TrialOfJob
  <1>2. RequestId(Trial(j)) \in seen[a] <=>
          \E i \in Jobs \ todo :
            Trial(i).attack = a /\ PolicyOk(Trial(i), {}) /\ RequestId(Trial(j)) = RequestId(Trial(i))
    <2> HIDE DEF a
    <2> QED BY <1>1 DEF IInv, SeenShape
  <1>3. ASSUME NEW i \in Jobs \ todo, Trial(i).attack = a, PolicyOk(Trial(i), {}),
               RequestId(Trial(j)) = RequestId(Trial(i))
        PROVE  PolicyOk(Trial(j), {}) /\ Repeats(j)
    <2>1. Trial(i) = Trial(j)
      BY <1>3, SameRequest
    <2>2. Before(i, j)
      BY DEF IInv, TodoShape
    <2>3. QED BY <2>1, <2>2, <1>3 DEF Repeats
  <1>4. ASSUME PolicyOk(Trial(j), {}), NEW i \in Jobs, Before(i, j), Trial(i) = Trial(j)
        PROVE  i \in Jobs \ todo
    BY <1>4, BeforeIsAnOrder
  <1>5. QED BY <1>2, <1>3, <1>4 DEF Repeats

LEMMA SequentialVerdict ==
  ASSUME IInv, ~Parallel, NEW j \in Jobs, j \in todo, \A i \in todo \ {j} : Before(j, i)
  PROVE  Verdict(j, seen[Trial(j).attack], draw) = Verdict(j, SeenBefore(j), draw)
  <1>1. PolicyOk(Trial(j), seen[Trial(j).attack]) = PolicyOk(Trial(j), SeenBefore(j))
    <2>1. CASE Trial(j).attack = "replay_request"
      BY <2>1 DEF PolicyOk
    <2>2. CASE Trial(j).attack # "replay_request"
      BY <2>2, SeenIsRepeated DEF PolicyOk, SeenBefore
    <2>3. QED BY <2>1, <2>2
  <1>2. QED BY <1>1 DEF Verdict

LEMMA VerdictOfJob ==
  ASSUME NEW j, NEW s, NEW d
  PROVE  Verdict(j, s, d).job = j /\ Verdict(j, s, d).blocked = ~PolicyOk(Trial(j), s)
  BY DEF Verdict

LEMMA FileFacts ==
  ASSUME IInv
  PROVE  /\ run \in Nat /\ DOMAIN file = FileNames
         /\ \A f \in FileNames : file[f].run \in Nat /\ file[f].run <= run
  BY DEF IInv, Types, FilesShape

LEMMA SameSchedule ==
  ASSUME UNCHANGED <<draw, workers>>
  PROVE  ScheduledVerdicts' = ScheduledVerdicts /\ Parallel' = Parallel
  BY DEF ScheduledVerdicts, SeenBefore, Parallel

---------------------------------------------------------------------------
LEMMA InitHolds == Init => IInv
  <1> SUFFICES ASSUME Init PROVE IInv
    OBVIOUS
  <1>1. DOMAIN file = FileNames /\ \A f \in FileNames : file[f] = NoFile
    BY DEF Init, FileNames
  <1>2. Types
    BY <1>1 DEF Init, Types, Pool!Init, Mains, Resting, NoFile, NothingSeen
  <1>3. PoolShape /\ SeenShape /\ TodoShape
    BY DEF Init, PoolShape, SeenShape, TodoShape, Pool!Init
  <1>4. FilesShape
    BY <1>1 DEF Init, FilesShape, NoFile, Early, Collecting
  <1>5. QED BY <1>2, <1>3, <1>4 DEF IInv

(* What the executor does to its futures keeps them jobs.                  *)
LEMMA FuturesAreJobs ==
  ASSUME tasks \in SUBSET [job : Jobs, state : Pool!States],
         \/ Pool!Renew(Jobs) \/ (\E futures : Pool!Cancel(futures)) \/ Pool!Drop
         \/ \E t \in tasks : (\E n : Pool!Run(t, n)) \/ (\E s : Pool!Finish(t, s))
  PROVE  tasks' \in SUBSET [job : Jobs, state : Pool!States]
  <1>1. CASE Pool!Renew(Jobs) \/ Pool!Drop
    <2>1. [job : Jobs, state : {"queued"}] \in SUBSET [job : Jobs, state : Pool!States]
      BY DEF Pool!States
    <2>2. QED BY <1>1, <2>1 DEF Pool!Renew, Pool!Drop
  <1>2. ASSUME NEW futures, Pool!Cancel(futures)
        PROVE  tasks' \in SUBSET [job : Jobs, state : Pool!States]
    <2>1. \A t \in tasks : [t EXCEPT !.state = "cancelled"] \in [job : Jobs, state : Pool!States]
      BY DEF Pool!States
    <2>2. QED BY <1>2, <2>1 DEF Pool!Cancel
  <1>3. ASSUME NEW t \in tasks, (\E n : Pool!Run(t, n)) \/ (\E s : Pool!Finish(t, s))
        PROVE  tasks' \in SUBSET [job : Jobs, state : Pool!States]
    <2>1. PICK s \in Pool!States : Pool!Become(t, s)
      BY <1>3 DEF Pool!States, Pool!Run, Pool!Finish
    <2>2. [t EXCEPT !.state = s] \in [job : Jobs, state : Pool!States]
      OBVIOUS
    <2>3. QED BY <2>1, <2>2 DEF Pool!Become
  <1>4. QED BY <1>1, <1>2, <1>3

LEMMA CancelledOfNone ==
  ASSUME NEW futures, Pool!Cancel(futures), tasks = {} PROVE tasks' = {}
  BY DEF Pool!Cancel

LEMMA StartKeeps == ASSUME IInv, Start PROVE IInv'
  <1>1. run \in Nat
    BY DEF IInv, Types
  <1>2. /\ run' = run + 1 /\ rows' = {} /\ says' = {} /\ seen' = NothingSeen
        /\ workers' \in Nat \ {0} /\ UNCHANGED <<draw, file>>
    BY AttackConstants DEF Start
  <1>3. \/ Parallel' /\ Pool!Renew(Jobs) /\ todo' = {} /\ main' = "collecting"
        \/ ~Parallel' /\ Pool!Drop /\ todo' = Jobs /\ main' = "sequential"
    BY DEF Start
  <1>4. tasks' \in SUBSET [job : Jobs, state : Pool!States]
    BY <1>3, FuturesAreJobs DEF IInv, Types
  <1>5. Types'
    <2>1. main' \in Mains /\ todo' \in SUBSET Jobs
      BY <1>3 DEF Mains, Early, Collecting
    <2>2. DOMAIN seen' = Range(Attacks)
      BY <1>2 DEF NothingSeen
    <2>3. QED BY <1>1, <1>2, <1>3, <1>4, <2>1, <2>2 DEF IInv, Types
  <1>6. PoolShape'
    BY <1>3 DEF PoolShape, Pool!Drop, Early, Collecting
  <1>7. TodoShape' /\ SeenShape'
    BY <1>2, <1>3 DEF TodoShape, SeenShape, NothingSeen
  <1>8. FilesShape'
    <2>1. \A f \in FileNames : file'[f].run < run' /\ file'[f].run <= run'
      <3>1. \A f \in FileNames : file'[f].run \in Nat /\ file'[f].run <= run
        BY <1>2, FileFacts
      <3>2. QED BY <1>1, <1>2, <3>1
    <2>2. QED BY <1>2, <1>3, <2>1 DEF FilesShape, Unpublished, FileNames
  <1>9. QED BY <1>5, <1>6, <1>7, <1>8 DEF IInv

LEMMA RunHereKeeps == ASSUME IInv, RunHere PROVE IInv'
  <1> DEFINE j == First(todo)
             t == Trial(j)
             verdict == Verdict(j, seen[t.attack], draw)
  <1>1. j \in todo /\ j \in Jobs /\ \A i \in todo \ {j} : Before(j, i)
    BY FirstIsOne DEF RunHere, IInv, Types
  <1>2. /\ main = "sequential" /\ rows' = rows \cup {verdict} /\ todo' = todo \ {j}
        /\ seen' = IF verdict.blocked /\ t.attack # "replay_request" THEN seen
                   ELSE [seen EXCEPT ![t.attack] = @ \cup {RequestId(t)}]
        /\ UNCHANGED <<tasks, draw, run, workers, says, file>>
    BY DEF RunHere
  <1>3. main' \in {"sequential", "checkpoint"}
    BY DEF RunHere
  <1>4. ~Parallel
    BY <1>2 DEF IInv, Types
  <1>5. verdict \in ScheduledVerdicts
    BY <1>1, <1>4, SequentialVerdict DEF ScheduledVerdicts
  <1>6. t.attack \in Range(Attacks) /\ verdict.blocked = ~PolicyOk(t, seen[t.attack])
    BY <1>1, TrialOfJob, VerdictOfJob
  <1>7. t.attack # "replay_request" =>
          (RequestId(t) \in seen[t.attack] <=> PolicyOk(t, {}) /\ Repeats(j))
    BY <1>1, SeenIsRepeated
  <1>8. SeenShape'
    <2> SUFFICES ASSUME NEW a \in Range(Attacks) \ {"replay_request"}, NEW id
                 PROVE  id \in seen'[a] <=>
                          \E i \in Jobs \ todo' :
                            Trial(i).attack = a /\ PolicyOk(Trial(i), {}) /\ id = RequestId(Trial(i))
      BY DEF SeenShape
    <2>1. id \in seen[a] <=>
            \E i \in Jobs \ todo :
              Trial(i).attack = a /\ PolicyOk(Trial(i), {}) /\ id = RequestId(Trial(i))
      BY <1>1 DEF IInv, SeenShape
    <2>2. Jobs \ todo' = (Jobs \ todo) \cup {j}
      BY <1>1, <1>2
    <2>3. id \in seen'[a] <=> id \in seen[a] \/ (a = t.attack /\ PolicyOk(t, {}) /\ id = RequestId(t))
      <3>1. CASE a # t.attack
        BY <3>1, <1>2, <1>6 DEF IInv, Types
      <3>2. CASE a = t.attack
        <4>1. PolicyOk(t, seen[a]) <=> PolicyOk(t, {}) /\ RequestId(t) \notin seen[a]
          BY DEF PolicyOk
        <4>2. seen'[a] = IF PolicyOk(t, seen[a]) THEN seen[a] \cup {RequestId(t)} ELSE seen[a]
          BY <3>2, <1>2, <1>6 DEF IInv, Types
        <4>3. QED BY <3>2, <4>1, <4>2, <1>7
      <3>3. QED BY <3>1, <3>2
    <2> HIDE DEF j, t
    <2>4. QED BY <2>1, <2>2, <2>3 DEF t
  <1>9. TodoShape'
    BY <1>1, <1>2 DEF IInv, TodoShape
  <1>10. Types'
    <2>1. DOMAIN seen' = Range(Attacks)
      BY <1>2 DEF IInv, Types
    <2> HIDE DEF j, t, verdict
    <2>2. rows' \in SUBSET ScheduledVerdicts /\ todo' \in SUBSET Jobs /\ main' \in Mains
      BY <1>1, <1>2, <1>3, <1>5 DEF IInv, Types, Mains, Early, Collecting
    <2>3. QED BY <1>2, <1>3, <1>4, <2>1, <2>2, SameSchedule DEF IInv, Types
  <1> HIDE DEF j, t, verdict
  <1>11. PoolShape'
    BY <1>2, <1>4 DEF IInv, PoolShape
  <1>12. FilesShape'
    BY <1>2, <1>3 DEF IInv, FilesShape, Unpublished, Early, Ended, Collecting
  <1>13. QED BY <1>8, <1>9, <1>10, <1>11, <1>12 DEF IInv

LEMMA CollectKeeps == ASSUME IInv, Collect PROVE IInv'
  <1>1. PICK t \in Pool!In("done") : rows' = rows \cup {Verdict(t.job, {}, draw)}
    BY DEF Collect
  <1>2. main = "collecting" /\ UNCHANGED <<tasks, draw, run, workers, seen, todo, says, file>>
    BY DEF Collect
  <1>3. main' \in {"collecting", "checkpoint"}
    BY DEF Collect
  <1>4. t.job \in Jobs /\ Parallel
    BY <1>2 DEF Pool!In, IInv, Types
  <1>5. rows' \in SUBSET ScheduledVerdicts
    BY <1>1, <1>4 DEF IInv, Types, ScheduledVerdicts, SeenBefore
  <1>6. Types'
    BY <1>2, <1>3, <1>4, <1>5, SameSchedule DEF IInv, Types, Mains, Early, Collecting
  <1>7. PoolShape' /\ TodoShape' /\ SeenShape'
    BY <1>2, <1>3, SameSchedule DEF IInv, PoolShape, TodoShape, SeenShape, Early, Collecting
  <1>8. FilesShape'
    BY <1>2, <1>3 DEF IInv, FilesShape, Unpublished, Early, Ended, Collecting
  <1>9. QED BY <1>6, <1>7, <1>8 DEF IInv

(* What leaves the jobs, the requests seen and the rows alone.             *)
LEMMA OnlyMain ==
  ASSUME IInv, UNCHANGED <<draw, run, workers, seen, todo, rows>>,
         tasks' \in SUBSET [job : Jobs, state : Pool!States], main' \in Mains,
         main' = "sequential" => ~Parallel, main' = "collecting" => Parallel,
         DOMAIN file' = FileNames, \A f \in FileNames : file'[f].run \in Nat
  PROVE  Types' /\ TodoShape' /\ SeenShape'
  BY SameSchedule DEF IInv, Types, TodoShape, SeenShape

LEMMA EndLoopKeeps == ASSUME IInv, EndLoop PROVE IInv'
  <1>1. /\ UNCHANGED <<tasks, draw, run, workers, seen, todo, rows, says, file>>
        /\ main \in {"collecting", "sequential"}
        /\ (Parallel /\ main' = "leaving") \/ (~Parallel /\ main' = "raw")
    BY DEF EndLoop
  <1>2. Types' /\ TodoShape' /\ SeenShape'
    <2>1. main' \in Mains
      BY <1>1 DEF Mains, Early, Finals
    <2>2. QED BY <1>1, <2>1, OnlyMain DEF IInv, Types
  <1>3. PoolShape'
    BY <1>1, SameSchedule DEF IInv, PoolShape, Early
  <1>4. FilesShape'
    BY <1>1 DEF IInv, FilesShape, Unpublished, Early, Ended, Collecting
  <1>5. QED BY <1>2, <1>3, <1>4 DEF IInv

---------------------------------------------------------------------------
(* The files *)

(* Writing a file changes that file only, to the rows of this run, and     *)
(* nothing if there are none.                                              *)
LEMMA WriteOne ==
  ASSUME IInv, NEW f \in FileNames, Write(f)
  PROVE  /\ DOMAIN file' = FileNames
         /\ \A g \in FileNames : file'[g].run \in Nat /\ file'[g].run <= run
         /\ rows # {} => file'[f] = [run |-> run, whole |-> TRUE, rows |-> rows]
         /\ \A g \in FileNames \ {f} : file'[g] = file[g]
  <1>1. /\ run \in Nat /\ DOMAIN file = FileNames
        /\ \A g \in FileNames : file[g].run \in Nat /\ file[g].run <= run
    BY FileFacts
  <1>2. CASE file' = file
    <2>1. rows = {} \/ file[f] = [run |-> run, whole |-> TRUE, rows |-> rows]
      <3>1. CASE rows = {} /\ f # "config"
        BY <3>1
      <3>2. CASE ~(rows = {} /\ f # "config")
        BY <1>1, <1>2, <3>2 DEF Write
      <3>3. QED BY <3>1, <3>2
    <2>2. QED BY <1>1, <1>2, <2>1
  <1>3. CASE file' # file
    <2>1. file' = [file EXCEPT ![f] = [run |-> run, whole |-> TRUE, rows |-> rows]]
      BY <1>3 DEF Write
    <2>2. /\ DOMAIN file' = FileNames /\ file'[f] = [run |-> run, whole |-> TRUE, rows |-> rows]
          /\ \A g \in FileNames \ {f} : file'[g] = file[g]
      BY <1>1, <2>1
    <2>3. file'[f].run = run
      BY <2>2
    <2>4. QED BY <1>1, <2>2, <2>3
  <1>4. QED BY <1>2, <1>3

LEMMA CheckpointOne ==
  ASSUME IInv, NEW f \in Partials, NEW here, NEW next, Checkpoint(here, f, next)
  PROVE  /\ DOMAIN file' = FileNames
         /\ \A g \in FileNames : file'[g].run \in Nat /\ file'[g].run <= run
         /\ Kept(f)'
         /\ \A g \in FileNames \ {f} : file'[g] = file[g]
         /\ main = here /\ main' = next
         /\ UNCHANGED <<tasks, draw, run, workers, seen, todo, rows>>
  <1>1. f \in FileNames /\ UNCHANGED <<tasks, draw, run, workers, seen, todo, rows>>
    BY DEF Checkpoint, FileNames
  <1>2. CASE DisableCheckpoints
    BY <1>1, <1>2 DEF Checkpoint, Kept, IInv, Types, FilesShape
  <1>3. CASE ~DisableCheckpoints
    BY <1>1, <1>3, WriteOne DEF Checkpoint, Kept
  <1>4. QED BY <1>1, <1>2, <1>3 DEF Checkpoint

LEMMA CheckpointKeeps == ASSUME IInv, WriteCheckpoint PROVE IInv'
  <1>1. PICK f \in Partials : \E here, next : Checkpoint(here, f, next)
    BY DEF WriteCheckpoint, Partials
  <1>2. /\ DOMAIN file' = FileNames
        /\ \A g \in FileNames : file'[g].run \in Nat /\ file'[g].run <= run
        /\ \A g \in Finals : file'[g] = file[g]
        /\ UNCHANGED <<tasks, draw, run, workers, seen, todo, rows>>
    <2>1. \A g \in FileNames \ {f} : file'[g] = file[g]
      BY <1>1, CheckpointOne
    <2>2. Finals \in SUBSET (FileNames \ {f})
      BY DEF FileNames, Finals, Partials
    <2>3. QED BY <1>1, CheckpointOne, <2>1, <2>2
  <1>3. /\ main' \in Mains
        /\ main' = "sequential" => ~Parallel
        /\ main' = "collecting" => Parallel
    BY DEF WriteCheckpoint, Checkpoint, Mains, Resting, Returned, Early, Collecting, Last
  <1>4. Types' /\ TodoShape' /\ SeenShape'
    BY <1>2, <1>3, OnlyMain DEF IInv, Types
  <1>5. PoolShape'
    <2>1. main \in Early => main' \in Early
      BY DEF WriteCheckpoint, Checkpoint, Early, Collecting
    <2>2. main \notin {"exiting", "abandoned", "killed"}
      BY DEF WriteCheckpoint, Checkpoint
    <2>3. QED BY <1>2, <2>1, <2>2, SameSchedule DEF IInv, PoolShape
  <1>6. FilesShape'
    <2>1. CASE /\ UNCHANGED says
               /\ \/ Checkpoint("checkpoint", "partial raw", "checkpoint summary")
                  \/ Checkpoint("checkpoint summary", "partial summary",
                                IF Parallel THEN "collecting" ELSE "sequential")
                  \/ Checkpoint("last checkpoint", "partial raw", "last summary")
                  \/ Checkpoint("last summary", "partial summary", "done")
      BY <1>2, <2>1 DEF IInv, FilesShape, Unpublished, Checkpoint, Early, Ended, Collecting
    <2>2. CASE UNCHANGED says /\ Checkpoint("stop raw", "partial raw", "stop summary")
      <3>1. Kept("partial raw")'
        BY <2>2, CheckpointOne DEF Partials
      <3>2. QED BY <1>2, <2>2, <3>1 DEF IInv, FilesShape, Unpublished, Checkpoint, Early, Ended, Collecting
    <2>3. CASE Checkpoint("stop summary", "partial summary", "stopping") /\ says' = says \cup {"kept"}
      <3>1. Kept("partial summary")' /\ file'["partial raw"] = file["partial raw"]
        BY <2>3, CheckpointOne DEF Partials, FileNames
      <3>2. Kept("partial raw")'
        BY <1>2, <2>3, <3>1 DEF IInv, FilesShape, Checkpoint, Kept
      <3>3. QED
        BY <1>2, <2>3, <3>1, <3>2 DEF IInv, FilesShape, Unpublished, Checkpoint, Early, Ended, Collecting
    <2>4. QED BY <2>1, <2>2, <2>3 DEF WriteCheckpoint
  <1>7. QED BY <1>4, <1>5, <1>6 DEF IInv

LEMMA PublishKeeps == ASSUME IInv, WriteFinals PROVE IInv'
  <1>1. UNCHANGED <<tasks, draw, run, workers, seen, todo, rows, says>> /\ main \in Finals
    BY DEF WriteFinals, Publishing, Finals
  <1>2. main' \in {"summary", "logs", "config", "last checkpoint"}
    BY DEF WriteFinals, Publishing
  <1>3. PICK f \in FileNames : Write(f)
    BY DEF WriteFinals, Publishing, FileNames, Finals
  <1>4. /\ DOMAIN file' = FileNames
        /\ \A g \in FileNames : file'[g].run \in Nat /\ file'[g].run <= run
    BY <1>3, WriteOne
  <1>5. Types' /\ TodoShape' /\ SeenShape'
    <2>1. main' \in Mains
      BY <1>2 DEF Mains, Finals, Last
    <2>2. QED BY <1>1, <1>2, <1>4, <2>1, OnlyMain DEF IInv, Types
  <1>6. PoolShape'
    BY <1>1 DEF IInv, PoolShape, Finals, Early, Collecting
  <1>7. FilesShape'
    BY <1>1, <1>2, <1>4 DEF IInv, FilesShape, Finals, Early, Ended, Collecting
  <1>8. QED BY <1>5, <1>6, <1>7 DEF IInv

LEMMA LeaveKeeps == ASSUME IInv, Leave PROVE IInv'
  <1>1. /\ tasks' = {} /\ UNCHANGED <<draw, run, workers, seen, todo, rows, file>>
        /\ \/ main = "leaving" /\ main' = "raw" /\ says' = says
           \/ main = "failing" /\ main' = "failed" /\ says' = says
           \/ main = "stopping" /\ main' = "stopped" /\ says' = says \cup {"stopped by user"}
           \/ main = "exiting" /\ main' = "stopped" /\ says' = says
    BY DEF Leave, LeavePool, Pool!Drop
  <1>2. Types' /\ TodoShape' /\ SeenShape'
    <2>1. main' \in Mains
      BY <1>1 DEF Mains, Resting, Returned, Finals
    <2>2. QED BY <1>1, <2>1, OnlyMain DEF IInv, Types
  <1>3. PoolShape'
    BY <1>1 DEF PoolShape
  <1>4. FilesShape'
    BY <1>1 DEF IInv, FilesShape, Unpublished, Early, Ended, Collecting, Kept
  <1>5. QED BY <1>2, <1>3, <1>4 DEF IInv

LEMMA WorkerKeeps == ASSUME IInv, Worker PROVE IInv'
  <1>1. tasks # {} /\ UNCHANGED <<draw, run, main, workers, seen, todo, rows, says, file>>
    BY DEF Worker
  <1>2. tasks' \in SUBSET [job : Jobs, state : Pool!States]
    BY FuturesAreJobs DEF Worker, IInv, Types
  <1>3. Types' /\ TodoShape' /\ SeenShape'
    BY <1>1, <1>2, OnlyMain DEF IInv, Types
  <1>4. PoolShape'
    BY <1>1, SameSchedule DEF IInv, PoolShape
  <1>5. FilesShape'
    BY <1>1 DEF IInv, FilesShape, Unpublished, Kept
  <1>6. QED BY <1>3, <1>4, <1>5 DEF IInv

(* A file that is cut off belongs to this run, and is not a published one  *)
(* before its block is left.                                               *)
LEMMA CutOffFiles ==
  ASSUME IInv, CutOff
  PROVE  /\ DOMAIN file' = FileNames
         /\ \A g \in FileNames : file'[g].run \in Nat /\ file'[g].run <= run
         /\ main \notin Finals => \A g \in Finals : file'[g] = file[g]
         /\ OpenFile = {} => file' = file
  <1>1. CASE UNCHANGED file
    BY <1>1 DEF IInv, Types, FilesShape
  <1>2. ASSUME NEW f \in OpenFile, file' = [file EXCEPT ![f] = [run |-> run, whole |-> FALSE, rows |-> {}]]
        PROVE  /\ DOMAIN file' = FileNames
               /\ \A g \in FileNames : file'[g].run \in Nat /\ file'[g].run <= run
               /\ main \notin Finals => \A g \in Finals : file'[g] = file[g]
    <2>1. f \in FileNames /\ (f \in Finals => main = f) /\ Finals \in SUBSET FileNames
      BY DEF OpenFile, FileNames
    <2>2. /\ run \in Nat /\ DOMAIN file = FileNames
          /\ \A g \in FileNames : file[g].run \in Nat /\ file[g].run <= run
      BY FileFacts
    <2>3. /\ DOMAIN file' = FileNames /\ file'[f] = [run |-> run, whole |-> FALSE, rows |-> {}]
          /\ \A g \in FileNames \ {f} : file'[g] = file[g]
      BY <1>2, <2>1, <2>2
    <2>4. file'[f].run = run
      BY <2>3
    <2>5. QED BY <2>1, <2>2, <2>3, <2>4
  <1>3. QED BY <1>1, <1>2 DEF CutOff

(* Where a run that is stopped or fails goes, by where it was.             *)
LEMMA StopsKeep == ASSUME IInv, Interrupt \/ Fail \/ Kill PROVE IInv'
  <1>1. UNCHANGED <<draw, run, workers, seen, todo, rows>> /\ CutOff
    BY DEF Interrupt, Fail, Kill
  <1>2. /\ DOMAIN file' = FileNames
        /\ \A g \in FileNames : file'[g].run \in Nat /\ file'[g].run <= run
        /\ main \notin Finals => \A g \in Finals : file'[g] = file[g]
        /\ OpenFile = {} => file' = file
    BY <1>1, CutOffFiles
  <1>3. tasks' \in SUBSET [job : Jobs, state : Pool!States] /\ (tasks = {} => tasks' = {})
    <2>1. UNCHANGED tasks \/ \E futures : Pool!Cancel(futures)
      BY DEF Interrupt, StopPool, StopRun, StopProcess, Fail, Kill
    <2>2. QED BY <2>1, FuturesAreJobs, CancelledOfNone DEF IInv, Types
  <1>4. \/ /\ UNCHANGED says
           /\ \/ main \in Early /\ Parallel /\ main' \in {"stop raw", "stopping", "failing"}
                 /\ main # "stopping"
              \/ main \in {"stop raw", "stop summary"} /\ main' = "stopping"
        \/ /\ says' = says \cup {"stopped by user"}
           /\ \/ main \in Collecting /\ ~Parallel /\ main' = "stopped"
              \/ main \in {"leaving", "stopping", "failing"} /\ main' = "exiting"
        \/ /\ UNCHANGED says
           /\ \/ main \in Finals \cup Last /\ main' = "failed"
              \/ main = "exiting" /\ main' = "abandoned"
              \/ /\ main \in Collecting \cup {"stop raw", "stop summary"}
                 /\ ~Parallel /\ main' = "failed"
              \/ main' = "killed"
    <2>1. CASE Interrupt
      BY <2>1 DEF Interrupt, StopPool, StopRun, StopProcess, Early, Collecting
    <2>2. CASE Kill
      BY <2>2 DEF Kill
    <2>3. CASE Fail
      <3>1. main \in Collecting \cup {"stop raw", "stop summary"} \cup Finals \cup Last
        BY <2>3 DEF Fail, OpenFile, Collecting, Finals, Last, Partials
      <3>2. UNCHANGED says
        BY <2>3 DEF Fail
      <3>3. CASE main \in Finals \cup Last
        BY <2>3, <3>2, <3>3 DEF Fail
      <3>4. CASE main \notin Finals \cup Last /\ Parallel
        <4>1. main \in Early /\ main # "stopping" /\ main' = "failing"
          BY <2>3, <3>1, <3>4 DEF Fail, Early, Collecting
        <4>2. QED BY <3>2, <3>4, <4>1
      <3>5. CASE main \notin Finals \cup Last /\ ~Parallel
        <4>1. main' = "failed"
          BY <2>3, <3>5 DEF Fail
        <4>2. QED BY <3>1, <3>2, <3>5, <4>1
      <3>6. QED BY <3>3, <3>4, <3>5
    <2>4. QED BY <2>1, <2>2, <2>3
  <1>5. main' \in Mains
    BY <1>4 DEF Mains, Resting, Returned, Early, Ended
  <1>6. Types' /\ TodoShape' /\ SeenShape'
    <2>1. main' \notin {"sequential", "collecting"}
      BY <1>4
    <2>2. QED BY <1>1, <1>2, <1>3, <1>5, <2>1, OnlyMain
  <1>7. PoolShape'
    <2>1. main \in Finals \cup Last => main \notin Early \cup {"exiting", "abandoned", "killed"}
      BY DEF Finals, Last, Early, Collecting
    <2>2. QED BY <1>1, <1>3, <1>4, <2>1, SameSchedule DEF IInv, PoolShape, Early
  <1>8. FilesShape'
    <2>1. main \in Early \cup Ended => main \notin Finals
      BY DEF Early, Ended, Collecting, Finals
    <2>2. main \in Ended \cup {"stopping"} => OpenFile = {}
      BY DEF OpenFile, Ended, Finals, Partials
    <2>3. main \in Early \cup Ended => (Unpublished' <=> Unpublished)
      BY <1>1, <1>2, <2>1 DEF Unpublished
    <2> HIDE DEF Unpublished
    <2>4. "stopped by user" \in says' => Unpublished' /\ main' \in Ended
      <3>1. CASE "stopped by user" \in says
        <4>1. Unpublished /\ main \in Ended
          BY <3>1 DEF IInv, FilesShape
        <4>2. main' \in Ended
          BY <1>4, <4>1 DEF Early, Ended, Collecting, Finals, Last
        <4>3. QED BY <2>3, <4>1, <4>2
      <3>2. CASE says' # says
        <4>1. main \in Early /\ main' \in Ended
          BY <3>2, <1>4 DEF Early, Ended, Collecting
        <4>2. QED BY <2>3, <4>1 DEF IInv, FilesShape
      <3>3. QED BY <3>1, <3>2
    <2>5. main' \in Early => Unpublished'
      BY <1>4, <2>3 DEF IInv, FilesShape, Early, Collecting
    <2>6. "kept" \in says' =>
            Kept("partial raw")' /\ Kept("partial summary")' /\ main' \in Ended \cup {"stopping"}
      <3> SUFFICES ASSUME "kept" \in says'
                   PROVE  Kept("partial raw")' /\ Kept("partial summary")' /\ main' \in Ended \cup {"stopping"}
        OBVIOUS
      <3>1. "kept" \in says
        <4>1. says' = says \/ says' = says \cup {"stopped by user"}
          BY <1>4
        <4>2. CASE says' = says
          BY <4>2
        <4>3. CASE says' = says \cup {"stopped by user"}
          <5>1. "kept" # "stopped by user"
            OBVIOUS
          <5>2. QED BY <4>3, <5>1
        <4>4. QED BY <4>1, <4>2, <4>3
      <3>2. main \in Ended \cup {"stopping"} /\ file' = file
        BY <3>1, <2>2, <1>2 DEF IInv, FilesShape
      <3>3. main' \in Ended
        BY <1>4, <3>2 DEF Early, Ended, Finals, Last, Collecting
      <3>4. QED BY <1>1, <3>1, <3>2, <3>3 DEF IInv, FilesShape, Kept
    <2>7. QED BY <1>1, <1>2, <1>4, <2>4, <2>5, <2>6 DEF FilesShape
  <1>9. QED BY <1>6, <1>7, <1>8 DEF IInv

(* The invariant of the attack simulation.                                 *)
LEMMA Invariance == Spec => []IInv
  <1>1. IInv /\ [Next]_vars => IInv'
    <2> SUFFICES ASSUME IInv, [Next]_vars PROVE IInv'
      OBVIOUS
    <2>1. CASE UNCHANGED vars
      <3>1. UNCHANGED <<tasks, draw, run, main, workers, seen, todo, rows, says, file>>
        BY <2>1 DEF vars
      <3>2. Types' /\ TodoShape' /\ SeenShape'
        BY <3>1, OnlyMain DEF IInv, Types
      <3>3. PoolShape' /\ FilesShape'
        BY <3>1, SameSchedule DEF IInv, PoolShape, FilesShape, Unpublished, Kept
      <3>4. QED BY <3>2, <3>3 DEF IInv
    <2>2. QED
      BY <2>1, StartKeeps, RunHereKeeps, CollectKeeps, EndLoopKeeps, CheckpointKeeps, PublishKeeps,
         LeaveKeeps, WorkerKeeps, StopsKeep
      DEF Next
  <1>2. QED BY <1>1, InitHolds, PTL DEF Spec

---------------------------------------------------------------------------
(* However the trials are run, one after the other with the requests seen  *)
(* so far or each in a worker process, the verdicts reported are those the *)
(* trials alone decide, but for a trial that stands in the list before: it *)
(* is a replay to a sequential run, and to no other.                       *)
THEOREM VerdictsDoNotDependOnSchedule == Spec => []VerdictsIndependentOfSchedule
  <1>1. IInv => VerdictsIndependentOfSchedule
    <2> SUFFICES ASSUME IInv, NEW r \in rows
                 PROVE  r = Verdict(r.job, SeenBefore(r.job), draw)
      BY DEF SeenBefore, VerdictsIndependentOfSchedule
    <2>1. PICK j \in Jobs : r = Verdict(j, SeenBefore(j), draw)
      BY DEF IInv, Types, ScheduledVerdicts
    <2>2. QED BY <2>1, VerdictOfJob
  <1>2. QED BY <1>1, Invariance, PTL

(* A run that says it was stopped by the user has published nothing, and   *)
(* one that says its checkpoint was kept has all its rows in it, wherever  *)
(* and however often it was interrupted.                                   *)
THEOREM StoppingKeepsRows == Spec => []StoppedRunKeepsItsRows
  <1>1. IInv => StoppedRunKeepsItsRows
    BY DEF IInv, FilesShape, Unpublished, Kept, StoppedRunKeepsItsRows, Partials
  <1>2. QED BY <1>1, Invariance, PTL

(* No trial runs on when the program has ended by itself or was stopped.   *)
THEOREM ReturnLeavesNoTrial == Spec => []NoTrialAfterReturn
  <1>1. IInv => NoTrialAfterReturn
    BY DEF IInv, PoolShape, NoTrialAfterReturn, Returned, Early, Collecting, Pool!In
  <1>2. QED BY <1>1, Invariance, PTL
=============================================================================
