-------------------------- MODULE AttackSimulation --------------------------
(***************************************************************************)
(* tee/attack_simulation.py: trials of attacks on a simulated worker, one  *)
(* after the other or in a process pool, with checkpoints while they run   *)
(* and interrupts by the user; run several times over the same files.      *)
(*                                                                         *)
(* The values of --attacks and --severity-levels are lists, in which one   *)
(* value may stand twice.  Severities are percentages.                     *)
(*                                                                         *)
(* A trial's random draws come from a generator seeded with the trial; how *)
(* many are used before the detector's, and its score, depend on whether   *)
(* the policy let the trial through.  So whether the statistical detector  *)
(* fires is a fixed, arbitrary function of the trial and of that.          *)
(***************************************************************************)
EXTENDS Integers, FiniteSets, Sequences, Functions

CONSTANTS
  Attacks, Severities, Trials,
  TotalBudget, HonestEpsilon,
  StrictPolicyBlocks,
  WorkerCounts,       \* what --workers may be: 1 runs in the main process
  CheckpointEvery, DisableCheckpoints,
  MaxDetected,        \* bound on how often the statistical detector may fire
  MaxRuns             \* bound on the runs of the program

ATTACK_TYPES ==
  {"honest", "invalid_purpose", "invalid_query", "budget_overuse", "tampered_result",
   "tampered_attestation", "replay_request", "dataset_substitution", "skip_dp_noise",
   "wrong_epsilon"}

ASSUME AttackConstants ==
  /\ Attacks \in Seq(ATTACK_TYPES)
  /\ Severities \in Seq(Int) /\ Trials \in Nat
  /\ TotalBudget \in Nat /\ HonestEpsilon \in 1 .. TotalBudget
  /\ StrictPolicyBlocks \in BOOLEAN /\ DisableCheckpoints \in BOOLEAN
  /\ WorkerCounts \subseteq Nat \ {0} /\ CheckpointEvery \in Nat \ {0}
  /\ MaxDetected \in Nat /\ MaxRuns \in Nat

(* build_jobs: by attack, then severity, then trial.  A job is a place in  *)
(* that list; the same trial is in it as often as its values are named.    *)
Jobs == [a : DOMAIN Attacks, s : DOMAIN Severities, trial : 0 .. Trials - 1]

Before(i, j) ==
  \/ i.a < j.a
  \/ i.a = j.a /\ (i.s < j.s \/ (i.s = j.s /\ i.trial < j.trial))
First(jobs) == CHOOSE j \in jobs : \A i \in jobs \ {j} : Before(j, i)

Trial(j) == [attack |-> Attacks[j.a], severity |-> Severities[j.s], trial |-> j.trial]
AllTrials == {Trial(j) : j \in Jobs}

---------------------------------------------------------------------------
(* One trial *)

(* The request: its id, and what the attack changes in it.                 *)
RequestId_NoSeverity(t) ==
  IF t.attack = "replay_request" THEN "REQ_REPLAY_FIXED" ELSE <<t.attack, t.trial>>
RequestId(t) ==
  IF t.attack = "replay_request" THEN "REQ_REPLAY_FIXED" ELSE <<t.attack, t.severity, t.trial>>

AtLeastOne(n) == IF n > 1 THEN n ELSE 1
Epsilon(t) ==
  CASE t.attack = "budget_overuse" -> (TotalBudget * (100 + t.severity)) \div 100
    [] t.attack = "wrong_epsilon" -> AtLeastOne((HonestEpsilon * (500 - 4 * t.severity)) \div 500)
    [] OTHER -> HonestEpsilon

(* check_policy against the requests seen so far, to which a replay's own  *)
(* request has been added before.                                          *)
PolicyOk(t, seen) ==
  /\ t.attack # "replay_request" /\ RequestId(t) \notin seen
  /\ t.attack \notin {"invalid_purpose", "invalid_query", "dataset_substitution"}
  /\ Epsilon(t) > 0 /\ Epsilon(t) <= TotalBudget

(* verify_attestation: the signature covers the report hash, and the hash  *)
(* the report, as they were before the attack changed them.                *)
AttestationValid(t) ==
  /\ t.attack = "tampered_result" => t.severity = 0
  /\ t.attack # "tampered_attestation"
  /\ t.attack = "wrong_epsilon" => (Epsilon(t) * (100 + t.severity)) \div 100 = Epsilon(t)

(* probabilistic_detect, with its draw below the score or not              *)
Detected(t, ok, fires) ==
  IF t.attack # "honest" /\ ~ok /\ StrictPolicyBlocks THEN TRUE ELSE fires

(* The row of a job, given the requests seen before it and the draws.      *)
Verdict(j, seen, draws) ==
  LET t == Trial(j)
      ok == PolicyOk(t, seen)
      detected == Detected(t, ok, draws[t, ok])
  IN
  [job |-> j, blocked |-> ~ok, detected |-> detected, accepted |-> ok /\ ~detected,
   consumed |-> IF ok /\ AttestationValid(t) /\ t.attack \notin {"skip_dp_noise", "wrong_epsilon"}
                THEN Epsilon(t) ELSE 0]

---------------------------------------------------------------------------
VARIABLES
  tasks,
  draw,      \* for each trial, blocked or not: is the draw below the score
  run, main,
  workers,   \* of this run; more than one: a pool of that size
  seen,      \* requests seen, by attack, of a sequential run
  todo,      \* jobs a sequential run has left
  rows,      \* verdicts collected
  says,      \* what the run has told its user
  file       \* the output files

Pool == INSTANCE FuturesPool
Parallel == workers > 1
vars == <<tasks, draw, run, main, workers, seen, todo, rows, says, file>>

Finals == {"raw", "summary", "logs", "config"}
Partials == {"partial raw", "partial summary"}
NoFile == [run |-> 0, whole |-> TRUE, rows |-> {}]
NothingSeen == [a \in Range(Attacks) |-> {}]

Init ==
  /\ Pool!Init
  /\ draw \in {d \in [AllTrials \X BOOLEAN -> BOOLEAN] :
                Cardinality({x \in AllTrials \X BOOLEAN : d[x]}) <= MaxDetected}
  /\ run = 0 /\ main = "idle" /\ workers = 1
  /\ seen = NothingSeen
  /\ todo = {} /\ rows = {} /\ says = {}
  /\ file = [f \in Finals \cup Partials |-> NoFile]

Returned == {"done", "failed", "stopped"}
Resting == Returned \cup {"idle", "killed", "abandoned"}

Start ==
  /\ main \in Resting /\ run < MaxRuns
  /\ run' = run + 1
  /\ rows' = {} /\ says' = {} /\ seen' = NothingSeen
  /\ workers' \in WorkerCounts
  /\ IF Parallel'
     THEN Pool!Renew(Jobs) /\ todo' = {} /\ main' = "collecting"
     ELSE Pool!Drop /\ todo' = Jobs /\ main' = "sequential"
  /\ UNCHANGED <<draw, file>>

(* run_sequential: one trial in the main process; the requests it has seen *)
(* are kept for all trials of the attack.                                  *)
RunHere ==
  /\ main = "sequential" /\ todo # {}
  /\ LET j == First(todo)
         t == Trial(j)
         verdict == Verdict(j, seen[t.attack], draw)
     IN
       /\ rows' = rows \cup {verdict}
       /\ todo' = todo \ {j}
       /\ seen' = IF verdict.blocked /\ t.attack # "replay_request" THEN seen
                  ELSE [seen EXCEPT ![t.attack] = @ \cup {RequestId(t)}]
  /\ main' \in IF Cardinality(rows') % CheckpointEvery = 0 \/ todo' = {}
               THEN {"checkpoint"} ELSE {"sequential", "checkpoint"}
  /\ UNCHANGED <<tasks, draw, run, workers, says, file>>

(* run_parallel: a worker process takes the oldest job that waits, and runs*)
(* it with an empty set; the trial may raise.  The workers of a process    *)
(* that was killed or abandoned run on.                                    *)
Worker ==
  /\ \E t \in tasks :
       \/ (\A u \in Pool!In("queued") : ~Before(u.job, t.job)) /\ Pool!Run(t, workers)
       \/ \E state \in {"done", "raised"} : Pool!Finish(t, state)
  /\ UNCHANGED <<draw, run, main, workers, seen, todo, rows, says, file>>

AllCollected == Cardinality(rows) = Cardinality(Jobs)

Collect ==
  /\ main = "collecting"
  /\ \E t \in Pool!In("done") :
       LET verdict == Verdict(t.job, {}, draw) IN
       verdict \notin rows /\ rows' = rows \cup {verdict}
  /\ main' \in IF Cardinality(rows') % CheckpointEvery = 0 \/ AllCollected'
               THEN {"checkpoint"} ELSE {"collecting", "checkpoint"}
  /\ UNCHANGED <<tasks, draw, run, workers, seen, todo, says, file>>

EndLoop ==
  /\ main \in {"collecting", "sequential"} /\ AllCollected
  /\ main' = IF Parallel THEN "leaving" ELSE "raw"
  /\ UNCHANGED <<tasks, draw, run, workers, seen, todo, rows, says, file>>

---------------------------------------------------------------------------
(* The files.  The writers of rows do nothing when there are none.         *)

Write(f) ==
  file' = IF rows = {} /\ f # "config" THEN file
          ELSE [file EXCEPT ![f] = [run |-> run, whole |-> TRUE, rows |-> rows]]

Checkpoint(here, f, next) ==
  /\ main = here
  /\ IF DisableCheckpoints THEN UNCHANGED file ELSE Write(f)
  /\ main' = next
  /\ UNCHANGED <<tasks, draw, run, workers, seen, todo, rows>>

(* The handler of the interrupt says that the checkpoint was kept.         *)
WriteCheckpoint ==
  \/ /\ \/ Checkpoint("checkpoint", "partial raw", "checkpoint summary")
        \/ Checkpoint("checkpoint summary", "partial summary",
                      IF Parallel THEN "collecting" ELSE "sequential")
        \/ Checkpoint("stop raw", "partial raw", "stop summary")
        \/ Checkpoint("last checkpoint", "partial raw", "last summary")
        \/ Checkpoint("last summary", "partial summary", "done")
     /\ UNCHANGED says
  \/ /\ Checkpoint("stop summary", "partial summary", "stopping")
     /\ says' = says \cup {"kept"}

Publishing(here, f, next) ==
  /\ main = here
  /\ Write(f)
  /\ main' = next
  /\ UNCHANGED <<tasks, draw, run, workers, seen, todo, rows, says>>

(* The logs directory is removed first; a stop in between leaves a part.   *)
WriteFinals ==
  \/ Publishing("raw", "raw", "summary")
  \/ Publishing("summary", "summary", "logs")
  \/ Publishing("logs", "logs", "config")
  \/ Publishing("config", "config", "last checkpoint")

(* The executor's block, or the interpreter, is left when no worker runs.  *)
LeavePool_AtOnce(here, next, words) ==
  /\ main = here
  /\ main' = next /\ says' = says \cup words
  /\ UNCHANGED <<tasks, draw, run, workers, seen, todo, rows, file>>

LeavePool(here, next, words) ==
  /\ main = here /\ Pool!Idle
  /\ Pool!Drop
  /\ main' = next /\ says' = says \cup words
  /\ UNCHANGED <<draw, run, workers, seen, todo, rows, file>>

Leave ==
  \/ LeavePool("leaving", "raw", {}) \/ LeavePool("failing", "failed", {})
  \/ LeavePool("stopping", "stopped", {"stopped by user"}) \/ LeavePool("exiting", "stopped", {})

---------------------------------------------------------------------------
(* What ends a run early *)

Collecting == {"collecting", "sequential", "checkpoint", "checkpoint summary"}
Last == {"last checkpoint", "last summary"}

(* The file that is written at this point, which then may stay cut off.    *)
OpenFile ==
  {f \in Finals \cup Partials :
     /\ f \in Finals => main = f /\ (rows # {} \/ f = "config")
     /\ f \in Partials => ~DisableCheckpoints /\ rows # {}
     /\ f = "partial raw" => main \in {"checkpoint", "stop raw", "last checkpoint"}
     /\ f = "partial summary" => main \in {"checkpoint summary", "stop summary", "last summary"}}

CutOff ==
  \/ UNCHANGED file
  \/ \E f \in OpenFile :
       file' = [file EXCEPT ![f] = [run |-> run, whole |-> FALSE, rows |-> {}]]

(* The first interrupt of a pool is handled: what does not run is cancelled*)
(* and a last checkpoint is written.  It comes before the handler when not *)
(* all jobs are submitted, and a second one cuts the handler's cancelling  *)
(* or its checkpoint off.                                                  *)
StopPool ==
  /\ UNCHANGED says
  /\ \/ main \in Collecting /\ Parallel /\ Pool!Cancel(tasks) /\ main' = "stop raw"
     \/ /\ main \in Collecting /\ Parallel /\ main' = "stopping"
        /\ \E j \in Jobs :
             \/ Pool!Cancel({t \in tasks : Before(t.job, j)})
             \/ rows = {} /\ Pool!Cancel({t \in tasks : Before(j, t.job)})
     \/ main \in {"stop raw", "stop summary"} /\ main' = "stopping" /\ UNCHANGED tasks

(* In a sequential run, or while the executor's block is being left, it is *)
(* caught by run, which says so and returns; the interpreter then waits for*)
(* the pool once more.                                                     *)
StopRun ==
  /\ UNCHANGED tasks /\ says' = says \cup {"stopped by user"}
  /\ \/ main \in Collecting /\ ~Parallel /\ main' = "stopped"
     \/ main \in {"leaving", "stopping", "failing"} /\ main' = "exiting"

(* Elsewhere it ends the process: with a traceback, or by giving up the    *)
(* wait for the pool.                                                      *)
StopProcess ==
  /\ UNCHANGED <<tasks, says>>
  /\ \/ main \in Finals \cup Last /\ main' = "failed"
     \/ main = "exiting" /\ main' = "abandoned"

Interrupt_NoCheckpoint ==
  /\ \/ /\ main \in Collecting /\ Parallel /\ Pool!Cancel(tasks)
        /\ main' = "stopping" /\ says' = says \cup {"kept"}
     \/ StopRun \/ StopProcess
  /\ CutOff
  /\ UNCHANGED <<draw, run, workers, seen, todo, rows>>

Interrupt ==
  /\ StopPool \/ StopRun \/ StopProcess
  /\ CutOff
  /\ UNCHANGED <<draw, run, workers, seen, todo, rows>>

(* An exception: of a trial, here or in a worker, or of a write.           *)
Fail ==
  /\ \/ main = "collecting" /\ Pool!In("raised") # {}
     \/ main = "sequential" /\ todo # {}
     \/ OpenFile # {}
  /\ main' = IF Parallel /\ main \notin Finals \cup Last THEN "failing" ELSE "failed"
  /\ CutOff
  /\ UNCHANGED <<tasks, draw, run, workers, seen, todo, rows, says>>

(* The process is killed; nobody waits for its workers.                    *)
Kill ==
  /\ main \notin Resting
  /\ main' = "killed"
  /\ CutOff
  /\ UNCHANGED <<tasks, draw, run, workers, seen, todo, rows, says>>

Next ==
  \/ Start \/ RunHere \/ Collect \/ EndLoop \/ WriteCheckpoint \/ WriteFinals \/ Leave
  \/ Worker \/ Interrupt \/ Fail \/ Kill

Spec == Init /\ [][Next]_vars

---------------------------------------------------------------------------
(* What the program promises *)

(* The verdict on a trial does not depend on how the trials are run, with  *)
(* one exception: a sequential run takes a trial that stands in the list a *)
(* second time (a value named twice in --attacks or --severity-levels) for *)
(* a replay, a pool does not.  Apart from that sequential runs, which share*)
(* the requests seen, and workers, which start with none, both report what *)
(* the trial alone decides, in whatever order it was run.                  *)
Repeats(j) == \E i \in Jobs : Before(i, j) /\ Trial(i) = Trial(j)

VerdictsIndependentOfSchedule ==
  \A r \in rows :
    r = Verdict(r.job, IF ~Parallel /\ Repeats(r.job) THEN {RequestId(Trial(r.job))} ELSE {}, draw)

(* What the program tells a user who interrupts it is true, however often  *)
(* and wherever it is interrupted: a run that says it was stopped by the   *)
(* user has left the published files of earlier runs alone, and one that   *)
(* says its checkpoint was kept has all rows it collected in it.  (With    *)
(* --disable-checkpoints, or without rows, the same words mean nothing.)   *)
StoppedRunKeepsItsRows ==
  /\ "stopped by user" \in says => \A f \in Finals : file[f].run < run
  /\ "kept" \in says /\ ~DisableCheckpoints /\ rows # {} =>
       \A f \in Partials : file[f] = [run |-> run, whole |-> TRUE, rows |-> rows]

(* When the program has ended by itself, or was stopped, no trial of it is *)
(* still running: the next run's measurements are not disturbed.  (A kill, *)
(* and an interrupt of the interpreter's own wait, do leave some.)         *)
NoTrialAfterReturn == main \in Returned => Pool!In("running") = {}
=============================================================================
