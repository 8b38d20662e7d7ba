---------------------------- MODULE FuturesPool ----------------------------
(***************************************************************************)
(* A concurrent.futures executor as tee/workload_benchmark.py and          *)
(* tee/attack_simulation.py use it: jobs are submitted in a batch, at most *)
(* max_workers run at a time, a future is cancelled only before it runs,   *)
(* and the block around the executor is left when nothing runs or waits.   *)
(***************************************************************************)
EXTENDS FiniteSets, Naturals

VARIABLE tasks    \* the futures of the executor: a job and its state

States == {"queued", "running", "done", "raised", "cancelled"}

Init == tasks = {}

In(state) == {t \in tasks : t.state = state}
Idle == In("queued") = {} /\ In("running") = {}
Become(t, state) == tasks' = (tasks \ {t}) \cup {[t EXCEPT !.state = state]}

Submit(jobs) == tasks' = tasks \cup [job : jobs, state : {"queued"}]

(* A new executor, of a new process, with these jobs.                      *)
Renew(jobs) == tasks' = [job : jobs, state : {"queued"}]

Run(t, maxWorkers) ==
  /\ t \in In("queued") /\ Cardinality(In("running")) < maxWorkers
  /\ Become(t, "running")

Finish(t, state) ==
  /\ t \in In("running") /\ state \in {"done", "raised"}
  /\ Become(t, state)

(* future.cancel on these futures                                          *)
Cancel(futures) ==
  tasks' = {IF t.state = "queued" /\ t \in futures THEN [t EXCEPT !.state = "cancelled"] ELSE t : t \in tasks}

(* The executor is dropped: at the end of its block, or with the process.  *)
Drop == tasks' = {}
=============================================================================
