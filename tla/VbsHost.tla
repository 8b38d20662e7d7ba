------------------------------ MODULE VbsHost ------------------------------
(***************************************************************************)
(* A process of tee/vbs/TrustCircuitHost (or of TrustCircuitNative) with   *)
(* the enclave it loads, as one pipeline call after another process sees   *)
(* it: started, killed, or ended by itself with an answer on its pipe.     *)
(*                                                                         *)
(* A process that has been started may stop making progress at any point.  *)
(***************************************************************************)
EXTENDS Naturals

CONSTANT Calls    \* the pipeline calls; each runs at most one process at a time
VARIABLE proc     \* the process each call started last

Operations == {"execute", "validate"}

(* The enclave's work, in order.  The native baseline has no evidence.     *)
Stages(processor) ==
  IF processor = "vbs" THEN <<"decrypt", "aggregate", "noise", "transcript", "evidence">>
                       ELSE <<"decrypt", "aggregate", "noise", "transcript">>
StageNames == {"decrypt", "aggregate", "noise", "transcript", "evidence"}
StageCount(processor) == IF processor = "vbs" THEN 5 ELSE 4

NoProcess ==
  [op |-> "none", processor |-> "none", image |-> 0, state |-> "none",
   taken |-> FALSE, step |-> 0, outs |-> {}, answer |-> "none"]

Init == proc = [c \in Calls |-> NoProcess]

Running(c) == proc[c].state = "running"
Exited(c) == proc[c].state = "exited"

(* subprocess.Popen or subprocess.run: the image on disk is loaded.        *)
Spawn(c, op, processor, image) ==
  /\ ~Running(c)
  /\ proc' = [proc EXCEPT ![c] =
                [op |-> op, processor |-> processor, image |-> image, state |-> "running",
                 taken |-> FALSE, step |-> 0, outs |-> {}, answer |-> "none"]]

(* The request is read and the current time is taken: the execution time,  *)
(* or the validation time.  A refusal is an error answer and exit code 1.  *)
Take(c, accepted) ==
  /\ Running(c) /\ ~proc[c].taken
  /\ proc' = IF accepted THEN [proc EXCEPT ![c].taken = TRUE]
                         ELSE [proc EXCEPT ![c].state = "exited", ![c].answer = "error"]

(* Any stage may fail: everything written so far stays behind, an error    *)
(* answer with empty fields is printed.                                    *)
Fail_FallsThrough(c) ==
  /\ Running(c) /\ proc[c].taken /\ proc[c].answer = "none"
  /\ proc[c].op = "execute" /\ proc[c].step < StageCount(proc[c].processor)
  /\ proc' = [proc EXCEPT ![c].step = @ + 1]

Fail(c) ==
  /\ Running(c) /\ proc[c].taken /\ proc[c].answer = "none"
  /\ proc' = [proc EXCEPT ![c].state = "exited", ![c].answer = "error"]

(* The next stage of ExecuteEncrypted succeeds and sets its out-parameters *)
Stage(c) ==
  LET p == proc[c] IN
  /\ Running(c) /\ p.op = "execute" /\ p.taken
  /\ p.step < StageCount(p.processor)
  /\ proc' = [proc EXCEPT ![c].step = @ + 1,
                          ![c].outs = @ \cup {Stages(p.processor)[p.step + 1]}]

(* S_OK: the answer is written to the pipe.  An answer that does not fit   *)
(* into a pipe nobody reads blocks the process.                            *)
Answer(c, fits) ==
  LET p == proc[c] IN
  /\ Running(c) /\ p.taken /\ p.answer = "none"
  /\ p.op = "execute" => p.step = StageCount(p.processor)
  /\ proc' = [proc EXCEPT ![c].answer = "ok", ![c].state = IF fits THEN "exited" ELSE "running"]

(* The process dies without an answer, or with half of one.                *)
Die(c) ==
  /\ Running(c)
  /\ proc' = [proc EXCEPT ![c].state = "exited", ![c].answer = "none"]

Killed(c) == [proc EXCEPT ![c].state = IF Running(c) THEN "killed" ELSE @]
=============================================================================
