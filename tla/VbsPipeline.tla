---------------------------- MODULE VbsPipeline ----------------------------
(***************************************************************************)
(* Calls of the VBS pipeline: execute_synthetic_request with the           *)
(* validation of its evidence, and the programs around it that write a     *)
(* bundle or a comparison sample.  Every call is a Python process of its   *)
(* own; the calls share the clock and the program image on disk, which a   *)
(* build may replace between two processes.                                *)
(*                                                                         *)
(* Time is kept as ages in ticks, each up to one tick past the last limit  *)
(* it is compared with, so no bound on the clock is needed.                *)
(***************************************************************************)
EXTENDS Naturals

CONSTANTS
  Calls,
  Variants,             \* the programs the calls may be
  MaxAttestationLifetime,
  Timeout,              \* of a child process
  Deadline,             \* of a request, 300 s
  CliDeadline,          \* of a request of run_pipeline, 120 s
  Images                \* program images, numbered from 1 in the order of the builds

AllVariants == {"phase7_bundle", "tee_only", "local_dp_ledger", "run_pipeline"}

ASSUME PipelineConstants ==
  /\ Variants \subseteq AllVariants
  /\ MaxAttestationLifetime \in Nat /\ Timeout \in Nat
  /\ Deadline \in Nat /\ CliDeadline \in Nat
  /\ Images \subseteq Nat /\ 1 \in Images

VARIABLES
  proc,
  image,      \* the image on disk
  pc,         \* where each call is
  variant,
  requestAge, \* ticks since the deadline was set
  childAge,   \* ticks since the child was started
  resultAge,  \* ticks since the execution time was taken
  exit,       \* how the call left the block with the temporary directory
  files,      \* what that directory holds
  execution,  \* the execution the call has parsed
  statement,  \* the validated statement attached to it
  output      \* the file the call's --output names

callVars == <<pc, variant, exit, files, execution, statement, output>>
ages == <<requestAge, childAge, resultAge>>
vars == <<proc, image, callVars, ages>>

Host == INSTANCE VbsHost

Processor(c) == IF variant[c] = "local_dp_ledger" THEN "native" ELSE "vbs"
Validates(c) == Processor(c) = "vbs"
Encodes(c) == variant[c] = "phase7_bundle"
WritesFile(c) == variant[c] # "run_pipeline"
Limit(c) == IF variant[c] = "run_pipeline" THEN CliDeadline ELSE Deadline

(* subprocess.run reads both pipes while it waits, kills the child when it *)
(* is interrupted; the polling loop of _run_with_process_metrics does not. *)
ReadsWhileWaiting(c) == proc[c].op = "validate" \/ variant[c] = "run_pipeline"

NoExecution == [outs |-> {}, image |-> 0]
NoStatement == [image |-> 0]

Waiting == {"executing", "validating"}
InBlock == {"staging", "staged", "executing", "executed", "validating", "removing"}
Active == InBlock \cup {"returned", "encoded", "opened"}
Endings == {"done", "failed", "interrupted", "cut short", "killed"}
Ended(c) == pc[c] \in Endings

Init ==
  /\ Host!Init
  /\ image = 1
  /\ pc = [c \in Calls |-> "idle"]
  /\ variant \in [Calls -> Variants]
  /\ requestAge = [c \in Calls |-> 0]
  /\ childAge = [c \in Calls |-> 0]
  /\ resultAge = [c \in Calls |-> 0]
  /\ exit = [c \in Calls |-> "none"]
  /\ files = [c \in Calls |-> {}]
  /\ execution = [c \in Calls |-> NoExecution]
  /\ statement = [c \in Calls |-> NoStatement]
  /\ output \in [Calls -> {"absent", "earlier"}]

---------------------------------------------------------------------------
(* The calling process *)

(* The request is made; its deadline runs from here.                       *)
Begin(c) ==
  /\ pc[c] = "idle"
  /\ pc' = [pc EXCEPT ![c] = "staging"]
  /\ requestAge' = [requestAge EXCEPT ![c] = 0]
  /\ UNCHANGED <<proc, image, variant, childAge, resultAge, exit, files, execution, statement, output>>

(* Ciphertext and request, which holds the key, are written.               *)
StageRequest(c) ==
  /\ pc[c] = "staging"
  /\ files' = [files EXCEPT ![c] = {"dataset.enc", "request.json"}]
  /\ pc' = [pc EXCEPT ![c] = "staged"]
  /\ UNCHANGED <<proc, image, variant, ages, exit, execution, statement, output>>

StartExecution(c) ==
  /\ pc[c] = "staged"
  /\ Host!Spawn(c, "execute", Processor(c), image)
  /\ childAge' = [childAge EXCEPT ![c] = 0]
  /\ pc' = [pc EXCEPT ![c] = "executing"]
  /\ UNCHANGED <<image, variant, requestAge, resultAge, exit, files, execution, statement, output>>

(* The with block is left; its temporary directory is yet to be removed.   *)
Leave(c, end) ==
  /\ pc' = [pc EXCEPT ![c] = "removing"]
  /\ exit' = [exit EXCEPT ![c] = end]

(* Windows does not remove a file a process has open: a child that runs on *)
(* after an interrupt, or was killed by it and not waited for.             *)
MayBeHeldOpen(c) == exit[c] = "interrupted" /\ proc[c].state \in {"running", "killed"}

(* TemporaryDirectory.cleanup.  At the first file it cannot remove it      *)
(* raises PermissionError and leaves the rest.                             *)
Remove_OnReturn(c) ==
  /\ pc[c] = "removing"
  /\ pc' = [pc EXCEPT ![c] = exit[c]]
  /\ files' = [files EXCEPT ![c] = IF exit[c] = "returned" THEN {} ELSE @]
  /\ UNCHANGED <<proc, image, variant, ages, exit, execution, statement, output>>

Remove(c) ==
  /\ pc[c] = "removing"
  /\ pc' = [pc EXCEPT ![c] = exit[c]]
  /\ \E left \in SUBSET files[c] :
       /\ left # {} => MayBeHeldOpen(c)
       /\ files' = [files EXCEPT ![c] = left]
  /\ UNCHANGED <<proc, image, variant, ages, exit, execution, statement, output>>

(* The child has ended: its answer is read and parsed.                     *)
ReadExecution_AlwaysValidates(c) ==
  /\ pc[c] = "executing" /\ Host!Exited(c)
  /\ IF proc[c].answer = "ok"
     THEN /\ execution' = [execution EXCEPT ![c] = [outs |-> proc[c].outs, image |-> proc[c].image]]
          /\ pc' = [pc EXCEPT ![c] = "executed"]
          /\ UNCHANGED exit
     ELSE /\ Leave(c, "failed")
          /\ UNCHANGED execution
  /\ UNCHANGED <<proc, image, variant, ages, files, statement, output>>

ReadExecution(c) ==
  /\ pc[c] = "executing" /\ Host!Exited(c)
  /\ IF proc[c].answer = "ok"
     THEN /\ execution' = [execution EXCEPT ![c] = [outs |-> proc[c].outs, image |-> proc[c].image]]
          /\ IF Validates(c) THEN /\ pc' = [pc EXCEPT ![c] = "executed"]
                                  /\ UNCHANGED exit
                             ELSE Leave(c, "returned")
     ELSE /\ Leave(c, "failed")
          /\ UNCHANGED execution
  /\ UNCHANGED <<proc, image, variant, ages, files, statement, output>>

StartValidation(c) ==
  /\ pc[c] = "executed"
  /\ Host!Spawn(c, "validate", "vbs", image)
  /\ childAge' = [childAge EXCEPT ![c] = 0]
  /\ files' = [files EXCEPT ![c] = @ \cup {"attestation-validation.json"}]
  /\ pc' = [pc EXCEPT ![c] = "validating"]
  /\ UNCHANGED <<image, variant, requestAge, resultAge, exit, execution, statement, output>>

(* An ok answer names this request's transcript and the identity of the    *)
(* enclave that executed it, or is refused; then the statement is attached.*)
ReadValidation(c) ==
  /\ pc[c] = "validating" /\ Host!Exited(c)
  /\ IF proc[c].answer = "ok"
     THEN /\ statement' = [statement EXCEPT ![c].image = proc[c].image]
          /\ Leave(c, "returned")
     ELSE /\ Leave(c, "failed")
          /\ UNCHANGED statement
  /\ UNCHANGED <<proc, image, variant, ages, files, execution, output>>

(* The child is killed and waited for, then TimeoutExpired is raised.      *)
KillLate_LeavesChild(c) ==
  /\ pc[c] \in Waiting /\ Host!Running(c) /\ childAge[c] > Timeout
  /\ Leave(c, "failed")
  /\ UNCHANGED <<proc, image, variant, ages, files, execution, statement, output>>

KillLate_Validation(c) ==
  /\ pc[c] = "validating" /\ Host!Running(c) /\ childAge[c] > Timeout
  /\ proc' = Host!Killed(c)
  /\ Leave(c, "failed")
  /\ UNCHANGED <<image, variant, ages, files, execution, statement, output>>

KillLate(c) ==
  /\ pc[c] \in Waiting /\ Host!Running(c) /\ childAge[c] > Timeout
  /\ proc' = Host!Killed(c)
  /\ Leave(c, "failed")
  /\ UNCHANGED <<image, variant, ages, files, execution, statement, output>>

(* A removal that is cut off has removed some of the files.                *)
CutOffRemoval(c) ==
  \E left \in IF pc[c] = "removing" THEN SUBSET files[c] ELSE {files[c]} :
    files' = [files EXCEPT ![c] = left]

(* KeyboardInterrupt, which may also reach a child on the same console.    *)
Interrupt(c) ==
  /\ pc[c] \in Active
  /\ \/ proc' = Host!Killed(c)
     \/ /\ pc[c] \in Waiting => ~ReadsWhileWaiting(c)
        /\ UNCHANGED proc
  /\ CutOffRemoval(c)
  /\ \/ /\ pc[c] \in InBlock \ {"removing"}
        /\ Leave(c, "interrupted")
     \/ /\ pc[c] \notin InBlock \ {"removing"}
        /\ pc' = [pc EXCEPT ![c] = IF @ = "removing" THEN "cut short" ELSE "interrupted"]
        /\ UNCHANGED exit
  /\ UNCHANGED <<image, variant, ages, execution, statement, output>>

(* The calling process is killed; its child may go down with it.           *)
KillCaller(c) ==
  /\ pc[c] \in Active
  /\ proc' = Host!Killed(c) \/ UNCHANGED proc
  /\ CutOffRemoval(c)
  /\ pc' = [pc EXCEPT ![c] = "killed"]
  /\ UNCHANGED <<image, variant, ages, exit, execution, statement, output>>

(* encode_phase7_context: the statement must be there, and validated, for  *)
(* this execution's transcript and enclave.                                *)
Encode(c) ==
  /\ pc[c] = "returned"
  /\ pc' = [pc EXCEPT ![c] =
       IF ~WritesFile(c) THEN "done"
       ELSE IF Encodes(c) /\ (statement[c] = NoStatement \/ statement[c].image # execution[c].image)
            THEN "failed" ELSE "encoded"]
  /\ UNCHANGED <<proc, image, variant, ages, exit, files, execution, statement, output>>

(* Path.write_text truncates the file and then fills it.                   *)
OpenOutput_First(c) ==
  /\ pc[c] \in {"returned", "encoded"} /\ WritesFile(c)
  /\ output' = [output EXCEPT ![c] = "truncated"]
  /\ pc' = [pc EXCEPT ![c] = IF @ = "encoded" THEN "opened" ELSE @]
  /\ UNCHANGED <<proc, image, variant, ages, exit, files, execution, statement>>

OpenOutput(c) ==
  /\ pc[c] = "encoded"
  /\ output' = [output EXCEPT ![c] = "truncated"]
  /\ pc' = [pc EXCEPT ![c] = "opened"]
  /\ UNCHANGED <<proc, image, variant, ages, exit, files, execution, statement>>

FillOutput(c) ==
  /\ pc[c] = "opened"
  /\ output' = [output EXCEPT ![c] = "written"]
  /\ pc' = [pc EXCEPT ![c] = "done"]
  /\ UNCHANGED <<proc, image, variant, ages, exit, files, execution, statement>>

CallStep(c) ==
  \/ Begin(c) \/ StageRequest(c) \/ StartExecution(c) \/ ReadExecution(c)
  \/ StartValidation(c) \/ ReadValidation(c) \/ KillLate(c) \/ Remove(c)
  \/ Encode(c) \/ OpenOutput(c) \/ FillOutput(c)

---------------------------------------------------------------------------
(* The child processes, the clock and the build *)

(* executionUnixMs against the deadline; a request file that is gone cannot*)
(* be read.                                                                *)
TakeExecution(c) ==
  /\ proc[c].op = "execute"
  /\ Host!Take(c, "request.json" \in files[c] /\ requestAge[c] <= Limit(c))
  /\ resultAge' = [resultAge EXCEPT ![c] = 0]
  /\ UNCHANGED <<image, callVars, requestAge, childAge>>

(* The validation time against the window, min(deadline, execution +       *)
(* lifetime), and the enclave's own identity against the evidence's.       *)
InWindow_AtExecution(c) == TRUE
InWindow(c) == requestAge[c] <= Limit(c) /\ resultAge[c] <= MaxAttestationLifetime

SameEnclave_Reported(c) == execution[c].image = execution[c].image
SameEnclave(c) == proc[c].image = execution[c].image

TakeValidation(c) ==
  /\ proc[c].op = "validate"
  /\ Host!Take(c, "attestation-validation.json" \in files[c] /\ InWindow(c) /\ SameEnclave(c))
  /\ UNCHANGED <<image, callVars, ages>>

Child(c) ==
  \/ TakeExecution(c)
  \/ TakeValidation(c)
  \/ /\ \/ Host!Stage(c)
        \/ Host!Fail(c)
        \/ Host!Die(c)
        \/ \E fits \in BOOLEAN : (ReadsWhileWaiting(c) => fits) /\ Host!Answer(c, fits)
     /\ UNCHANGED <<image, callVars, ages>>

(* A build replaces the image; a running process keeps the file locked.    *)
Rebuild ==
  /\ image + 1 \in Images
  /\ \A c \in Calls : ~Host!Running(c)
  /\ image' = image + 1
  /\ UNCHANGED <<proc, callVars, ages>>

Older(age, limit) == IF age > limit THEN age ELSE age + 1
LongestLimit == IF Deadline > CliDeadline THEN Deadline ELSE CliDeadline

Tick ==
  /\ requestAge' = [c \in Calls |-> Older(requestAge[c], LongestLimit)]
  /\ childAge' = [c \in Calls |-> Older(childAge[c], Timeout)]
  /\ resultAge' = [c \in Calls |-> Older(resultAge[c], MaxAttestationLifetime)]
  /\ UNCHANGED <<proc, image, callVars>>

Next ==
  \/ \E c \in Calls : CallStep(c) \/ Interrupt(c) \/ KillCaller(c) \/ Child(c)
  \/ Rebuild
  \/ Tick

(* The operating system runs the calling process and the clock; nothing is *)
(* assumed of a child.                                                     *)
Spec == Init /\ [][Next]_vars /\ \A c \in Calls : WF_vars(CallStep(c)) /\ WF_vars(Tick)

---------------------------------------------------------------------------
(* What the pipeline promises *)

(* The shape of every variable, and the shape of a call of the native      *)
(* baseline: it has no evidence to validate, so it has no validator and no *)
(* statement.                                                              *)
PipelineTypeOK ==
  /\ \A c \in Calls :
       /\ proc[c].op \in Host!Operations \cup {"none"}
       /\ proc[c].state \in {"none", "running", "exited", "killed"}
       /\ proc[c].answer \in {"none", "error", "ok"}
       /\ proc[c].outs \subseteq Host!StageNames
       /\ pc[c] \in Active \cup {"idle"} \cup Endings
       /\ exit[c] \in {"none", "returned", "failed", "interrupted"}
       /\ files[c] \subseteq {"dataset.enc", "request.json", "attestation-validation.json"}
       /\ output[c] \in {"absent", "earlier", "truncated", "written"}
       /\ requestAge[c] \in 0 .. LongestLimit + 1
       /\ childAge[c] \in 0 .. Timeout + 1
       /\ resultAge[c] \in 0 .. MaxAttestationLifetime + 1
       /\ ~Validates(c) => /\ proc[c].op # "validate"
                           /\ pc[c] \notin {"executed", "validating"}
                           /\ statement[c] = NoStatement
  /\ image \in Images

(* Trusted.cpp ExecuteEncrypted returns early from a dozen places after it *)
(* has decrypted, some with the raw aggregate already in an out-parameter. *)
(* Whatever fails, a call only ever parses a result that was noised,       *)
(* hashed and, in the enclave, attested.                                   *)
OnlyWholeResults ==
  \A c \in Calls :
    execution[c] # NoExecution =>
      execution[c].outs = {Host!Stages(Processor(c))[i] : i \in 1 .. Host!StageCount(Processor(c))}

(* _run_with_process_metrics and subprocess.run: once a call has stopped   *)
(* waiting its child is gone, whether it answered, failed or was late.  The*)
(* exceptions in the code are an interrupt of the polling loop and a kill  *)
(* of the calling process itself.                                          *)
NoChildLeftBehind ==
  \A c \in Calls :
    Host!Running(c) =>
      \/ pc[c] \in Waiting \cup {"killed"}
      \/ exit[c] = "interrupted" /\ proc[c].op = "execute" /\ variant[c] # "run_pipeline"

(* The request file holds the data key.  A call leaves the block that needs*)
(* it without the file, on every way out: answer, refusal, timeout, and an *)
(* interrupt.  What keeps the file is a kill of the calling process, a     *)
(* second interrupt during the removal, and an interrupt whose child has   *)
(* not been waited for and still has a file open (Windows refuses).        *)
KeyRemoved ==
  [][\A c \in Calls :
       pc[c] \in InBlock /\ pc'[c] \notin InBlock /\ "request.json" \in files'[c] =>
         \/ pc'[c] \in {"killed", "cut short"}
         \/ pc'[c] = "interrupted" /\ proc[c].state \in {"running", "killed"}]_vars

(* A statement attached to an execution was made by an enclave of the same *)
(* image, although a build may replace the image between the two processes;*)
(* and what a bundle or validated sample publishes has such a statement.   *)
StatementOfExecutingEnclave ==
  \A c \in Calls :
    /\ statement[c] # NoStatement => statement[c].image = execution[c].image
    /\ output[c] = "written" /\ Validates(c) => statement[c] # NoStatement

(* A rerun destroys the bundle of an earlier run only when it has complete *)
(* results of its own: a call that fails before leaves the file alone.     *)
EarlierOutputKept ==
  \A c \in Calls :
    output[c] \in {"truncated", "written"} =>
      pc[c] \in {"opened", "done", "interrupted", "killed"} /\ execution[c] # NoExecution

(* An execution whose deadline has passed, or that is older than the       *)
(* lifetime of its attestation, before its validator was started is never  *)
(* returned as validated, however the rest is scheduled: both are compared *)
(* with the validator's clock.                                             *)
Late(c) == requestAge[c] > Limit(c) \/ resultAge[c] > MaxAttestationLifetime

LateExecutionNeverAttached ==
  \A c \in Calls :
    [](pc[c] = "executed" /\ Late(c) => [](statement[c] = NoStatement))

(* Every call comes to an end, although its child may hang, die, or block  *)
(* on a pipe the polling loop does not read: the timeout is on the caller. *)
EveryCallEnds == \A c \in Calls : pc[c] \in Active ~> Ended(c)
=============================================================================
