-------------------------- MODULE VbsPipelineProofs --------------------------
(***************************************************************************)
(* Theorems of the VBS pipeline for any number of calls of any of the      *)
(* programs, any limits and any number of builds.                          *)
(*                                                                         *)
(* Calls share only the clock and the image, so the invariant is a         *)
(* conjunction over calls: what the child process of a call may look like  *)
(* (ChildShape), and what is true of a call at each point of its program   *)
(* (CallShape).  A step of one call leaves both alone at every other.      *)
(***************************************************************************)
EXTENDS VbsPipeline, TLAPS

Process ==
  [op : {"none", "execute", "validate"}, processor : {"none", "vbs", "native"}, image : Nat,
   state : {"none", "running", "exited", "killed"}, taken : BOOLEAN, step : 0 .. 5,
   outs : SUBSET Host!StageNames, answer : {"none", "error", "ok"}]

Types ==
  /\ proc \in [Calls -> Process]
  /\ image \in Images /\ image > 0
  /\ pc \in [Calls -> Active \cup {"idle"} \cup Endings]
  /\ exit \in [Calls -> {"none", "returned", "failed", "interrupted"}]
  /\ variant \in [Calls -> Variants]
  /\ requestAge \in [Calls -> 0 .. LongestLimit + 1]
  /\ childAge \in [Calls -> 0 .. Timeout + 1]
  /\ resultAge \in [Calls -> 0 .. MaxAttestationLifetime + 1]
  /\ files \in [Calls -> SUBSET {"dataset.enc", "request.json", "attestation-validation.json"}]
  /\ execution \in [Calls -> [outs : SUBSET Host!StageNames, image : Nat]]
  /\ statement \in [Calls -> [image : Nat]]
  /\ output \in [Calls -> {"absent", "earlier", "truncated", "written"}]

Whole(processor) == {Host!Stages(processor)[i] : i \in 1 .. Host!StageCount(processor)}

(* A child has done its stages in order, and says ok only when it has done *)
(* all of them.                                                            *)
ChildShape(c) ==
  LET p == proc[c] IN
  /\ p.step <= Host!StageCount(p.processor)
  /\ p.outs = {Host!Stages(p.processor)[i] : i \in 1 .. p.step}
  /\ p.answer = "ok" => p.taken /\ (p.op = "execute" => p.step = Host!StageCount(p.processor))
  /\ p.state # "none" => p.op # "none" /\ p.image > 0

Before == {"idle", "staging", "staged", "executing", "executed", "validating"}
Over == {"returned", "encoded", "opened", "done"}

CallShape(c) ==
  /\ pc[c] \in {"idle", "staging", "staged"} => proc[c].state = "none"
  /\ pc[c] = "executing" => proc[c].op = "execute" /\ proc[c].processor = Processor(c)
  /\ pc[c] = "validating" => proc[c].op = "validate"
  /\ pc[c] \in Waiting => proc[c].state \in {"running", "exited"}
  /\ pc[c] \in {"executed", "validating"} => Validates(c)
  /\ ~ Validates(c) => proc[c].op # "validate" /\ statement[c] = NoStatement
  /\ Host!Running(c) =>
       \/ pc[c] \in Waiting \cup {"killed"}
       \/ exit[c] = "interrupted" /\ proc[c].op = "execute" /\ variant[c] # "run_pipeline"
  /\ pc[c] \in Before => exit[c] = "none"
  /\ pc[c] = "removing" => exit[c] # "none"
  /\ pc[c] \in Over => exit[c] = "returned"
  /\ pc[c] \in {"idle", "staging", "staged", "executing"} => execution[c] = NoExecution
  /\ pc[c] \in {"executed", "validating"} \/ exit[c] = "returned" => execution[c] # NoExecution
  /\ execution[c] # NoExecution => execution[c].outs = Whole(Processor(c))
  /\ exit[c] = "returned" /\ Validates(c) => statement[c] # NoStatement
  /\ statement[c] # NoStatement => /\ exit[c] = "returned"
                                   /\ statement[c].image = execution[c].image
  /\ pc[c] = "validating" /\ proc[c].taken => proc[c].image = execution[c].image
  /\ output[c] \in {"truncated", "written"} =>
       pc[c] \in {"opened", "done", "interrupted", "killed"} /\ execution[c] # NoExecution
  /\ output[c] = "written" => pc[c] = "done"

IInv == Types /\ \A c \in Calls : ChildShape(c) /\ CallShape(c)
---------------------------------------------------------------------------
(* The parts of the invariant one by one *)

(* There are four stages, or five, and each has a name.                    *)
LEMMA StagesAreNamed ==
  ASSUME NEW processor
  PROVE  /\ Host!StageCount(processor) \in {4, 5}
         /\ \A i \in 1 .. Host!StageCount(processor) :
              Host!Stages(processor)[i] \in Host!StageNames
BY DEF Host!StageCount, Host!Stages, Host!StageNames

Untouched(c) ==
  /\ proc'[c] = proc[c] /\ pc'[c] = pc[c] /\ variant'[c] = variant[c]
  /\ exit'[c] = exit[c] /\ execution'[c] = execution[c]
  /\ statement'[c] = statement[c] /\ output'[c] = output[c]

(* The invariant of a call reads that call only.                           *)
LEMMA UntouchedKeeps ==
  ASSUME NEW c \in Calls, ChildShape(c), CallShape(c), Untouched(c)
  PROVE  ChildShape(c)' /\ CallShape(c)'
<1>1. ChildShape(c)'
  BY DEF ChildShape, Untouched
<1>2. Processor(c)' = Processor(c) /\ (Validates(c)' <=> Validates(c))
  BY DEF Processor, Validates, Untouched
<1>3. (Host!Running(c)' <=> Host!Running(c))
  BY DEF Host!Running, Untouched
<1>4. CallShape(c)'
  BY <1>2, <1>3 DEF CallShape, Untouched
<1>. QED
  BY <1>1, <1>4

(* So a step of one call has to be checked at that call.                   *)
LEMMA OneCallSteps ==
  ASSUME IInv, NEW c \in Calls, Types', ChildShape(c)', CallShape(c)',
         \A d \in Calls \ {c} : Untouched(d)
  PROVE  IInv'
BY UntouchedKeeps DEF IInv

---------------------------------------------------------------------------
(* The steps of the calling process *)

(* A call that begins has nothing yet.                                     *)
LEMMA BeginPreserves ==
  ASSUME IInv, NEW c \in Calls, Begin(c)
  PROVE  IInv'
<1>. USE DEF IInv, Begin
<1>1. Types'
  <2>1. requestAge' \in [Calls -> 0 .. LongestLimit + 1]
    BY PipelineConstants DEF Types, LongestLimit
  <2>2. pc' \in [Calls -> Active \cup {"idle"} \cup Endings]
    BY DEF Types, Active, InBlock
  <2>. QED
    BY <2>1, <2>2 DEF Types
<1>2. \A d \in Calls \ {c} : Untouched(d)
  BY DEF Types, Untouched
<1>3. ChildShape(c)'
  BY DEF ChildShape
<1>4. CallShape(c)'
  BY DEF CallShape, Types, Processor, Validates, Host!Running, Waiting, Before, Over
<1>. QED
  BY <1>1, <1>2, <1>3, <1>4, OneCallSteps

(* The key is on disk from here.                                           *)
LEMMA StageRequestPreserves ==
  ASSUME IInv, NEW c \in Calls, StageRequest(c)
  PROVE  IInv'
<1>. USE DEF IInv, StageRequest
<1>1. Types'
  BY DEF Types, Active, InBlock, Endings, ages
<1>2. \A d \in Calls \ {c} : Untouched(d)
  BY DEF Types, Untouched
<1>3. ChildShape(c)'
  BY DEF ChildShape
<1>4. CallShape(c)'
  BY DEF CallShape, Types, Processor, Validates, Host!Running, Waiting, Before, Over
<1>. QED
  BY <1>1, <1>2, <1>3, <1>4, OneCallSteps

(* A new child has done nothing yet.                                       *)
LEMMA SpawnShape ==
  ASSUME Types, NEW c \in Calls, NEW op \in Host!Operations,
         NEW processor \in {"vbs", "native"}, Host!Spawn(c, op, processor, image)
  PROVE  /\ proc' \in [Calls -> Process]
         /\ \A d \in Calls \ {c} : proc'[d] = proc[d]
         /\ proc'[c].op = op /\ proc'[c].processor = processor
         /\ proc'[c].state = "running" /\ ~ proc'[c].taken
         /\ ChildShape(c)'
<1>. DEFINE new == [op |-> op, processor |-> processor, image |-> image, state |-> "running",
                    taken |-> FALSE, step |-> 0, outs |-> {}, answer |-> "none"]
<1>1. proc' = [proc EXCEPT ![c] = new]
  BY DEF Host!Spawn
<1>2. image \in Nat /\ image > 0
  BY PipelineConstants DEF Types
<1>3. new \in Process
  BY <1>2 DEF Process, Host!Operations
<1>4. proc'[c] = new
  BY <1>1 DEF Types
<1>5. ChildShape(c)'
  BY <1>2, <1>4, StagesAreNamed DEF ChildShape, Host!Operations
<1>. QED
  BY <1>1, <1>3, <1>4, <1>5 DEF Types

(* The child that executes is started on the image of the moment.          *)
LEMMA StartExecutionPreserves ==
  ASSUME IInv, NEW c \in Calls, StartExecution(c)
  PROVE  IInv'
<1>. USE DEF IInv
<1>1. /\ pc[c] = "staged" /\ pc' = [pc EXCEPT ![c] = "executing"]
      /\ childAge' = [childAge EXCEPT ![c] = 0]
      /\ UNCHANGED <<image, variant, requestAge, resultAge, exit, files, execution, statement, output>>
  BY DEF StartExecution
<1>2. /\ proc' \in [Calls -> Process]
      /\ \A d \in Calls \ {c} : proc'[d] = proc[d]
      /\ proc'[c].op = "execute" /\ proc'[c].processor = Processor(c)
      /\ proc'[c].state = "running" /\ ~ proc'[c].taken
      /\ ChildShape(c)'
  BY SpawnShape DEF StartExecution, Host!Operations, Processor
<1>3. Types'
  <2>1. childAge' \in [Calls -> 0 .. Timeout + 1]
    BY <1>1, PipelineConstants DEF Types
  <2>. QED
    BY <1>1, <1>2, <2>1 DEF Types, Active, InBlock, Endings
<1>4. \A d \in Calls \ {c} : Untouched(d)
  BY <1>1, <1>2 DEF Types, Untouched
<1>5. CallShape(c)'
  <2>1. /\ pc'[c] = "executing" /\ variant'[c] = variant[c] /\ exit'[c] = "none"
        /\ execution'[c] = NoExecution /\ statement'[c] = NoStatement
        /\ output'[c] \notin {"truncated", "written"}
    BY <1>1 DEF Types, CallShape, Before
  <2>2. proc'[c].processor = Processor(c)'
    BY <1>1, <1>2 DEF Processor
  <2>. QED
    BY <1>2, <2>1, <2>2 DEF CallShape, Host!Running, Waiting, Before, Over
<1>. QED
  BY <1>2, <1>3, <1>4, <1>5, OneCallSteps

(* The result is parsed: it is whole, because the child said ok.           *)
LEMMA ReadExecutionPreserves ==
  ASSUME IInv, NEW c \in Calls, ReadExecution(c)
  PROVE  IInv'
<1>. USE DEF IInv
<1>1. /\ pc[c] = "executing" /\ proc[c].state = "exited" /\ proc[c].op = "execute"
      /\ proc[c].processor = Processor(c)
      /\ UNCHANGED <<proc, image, variant, ages, files, statement, output>>
  BY DEF ReadExecution, Host!Exited, CallShape
<1>2. proc[c] \in Process /\ ChildShape(c) /\ CallShape(c)
  BY DEF Types
<1>3. CASE proc[c].answer = "ok"
  <2>1. proc[c].outs = Whole(Processor(c)) /\ proc[c].image > 0 /\ proc[c].image \in Nat
    BY <1>1, <1>2, <1>3 DEF ChildShape, Whole, Process
  <2>2. execution' = [execution EXCEPT ![c] = [outs |-> proc[c].outs, image |-> proc[c].image]]
    BY <1>3 DEF ReadExecution
  <2>3. \/ Validates(c) /\ pc' = [pc EXCEPT ![c] = "executed"] /\ exit' = exit
        \/ ~ Validates(c) /\ pc' = [pc EXCEPT ![c] = "removing"]
           /\ exit' = [exit EXCEPT ![c] = "returned"]
    BY <1>3 DEF ReadExecution, Leave
  <2>4. execution'[c] = [outs |-> proc[c].outs, image |-> proc[c].image]
    BY <2>2 DEF Types
  <2>5. execution'[c] # NoExecution /\ execution'[c].outs = Whole(Processor(c))
    BY <2>1, <2>4 DEF NoExecution
  <2>6. Types'
    BY <1>1, <1>2, <2>1, <2>2, <2>3 DEF Types, Active, InBlock, Endings, Process, ages
  <2>7. \A d \in Calls \ {c} : Untouched(d)
    BY <1>1, <2>2, <2>3 DEF Types, Untouched
  <2>8. ChildShape(c)'
    BY <1>1, <1>2 DEF ChildShape
  <2>9. CallShape(c)'
    <3>1. CASE Validates(c) /\ pc' = [pc EXCEPT ![c] = "executed"] /\ exit' = exit
      BY <1>1, <1>2, <2>5, <3>1
      DEF CallShape, Types, Processor, Validates, Host!Running, Waiting, Before, Over
    <3>2. CASE /\ ~ Validates(c) /\ pc' = [pc EXCEPT ![c] = "removing"]
               /\ exit' = [exit EXCEPT ![c] = "returned"]
      BY <1>1, <1>2, <2>5, <3>2
      DEF CallShape, Types, Processor, Validates, Host!Running, Waiting, Before, Over
    <3>. QED
      BY <2>3, <3>1, <3>2
  <2>. QED
    BY <2>6, <2>7, <2>8, <2>9, OneCallSteps
<1>4. CASE proc[c].answer # "ok"
  <2>1. /\ pc' = [pc EXCEPT ![c] = "removing"] /\ exit' = [exit EXCEPT ![c] = "failed"]
        /\ execution' = execution
    BY <1>4 DEF ReadExecution, Leave
  <2>2. Types'
    BY <1>1, <2>1 DEF Types, Active, InBlock, ages
  <2>3. \A d \in Calls \ {c} : Untouched(d)
    BY <1>1, <2>1 DEF Types, Untouched
  <2>4. ChildShape(c)'
    BY <1>1, <1>2 DEF ChildShape
  <2>5. CallShape(c)'
    BY <1>1, <1>2, <2>1
    DEF CallShape, Types, Processor, Validates, Host!Running, Waiting, Before, Over
  <2>. QED
    BY <2>2, <2>3, <2>4, <2>5, OneCallSteps
<1>. QED
  BY <1>3, <1>4
(* The validator is started on the image of the moment, which may not be   *)
(* the one that executed.                                                  *)
LEMMA StartValidationPreserves ==
  ASSUME IInv, NEW c \in Calls, StartValidation(c)
  PROVE  IInv'
<1>. USE DEF IInv
<1>1. /\ pc[c] = "executed" /\ pc' = [pc EXCEPT ![c] = "validating"]
      /\ childAge' = [childAge EXCEPT ![c] = 0]
      /\ files' = [files EXCEPT ![c] = files[c] \cup {"attestation-validation.json"}]
      /\ UNCHANGED <<image, variant, requestAge, resultAge, exit, execution, statement, output>>
  BY DEF StartValidation
<1>2. /\ proc' \in [Calls -> Process]
      /\ \A d \in Calls \ {c} : proc'[d] = proc[d]
      /\ proc'[c].op = "validate" /\ proc'[c].state = "running" /\ ~ proc'[c].taken
      /\ ChildShape(c)'
  BY SpawnShape DEF StartValidation, Host!Operations
<1>3. Types'
  <2>1. childAge' \in [Calls -> 0 .. Timeout + 1]
    BY <1>1, PipelineConstants DEF Types
  <2>. QED
    BY <1>1, <1>2, <2>1 DEF Types, Active, InBlock, Endings
<1>4. \A d \in Calls \ {c} : Untouched(d)
  BY <1>1, <1>2 DEF Types, Untouched
<1>5. CallShape(c)'
  <2>1. /\ pc'[c] = "validating" /\ variant'[c] = variant[c] /\ Validates(c)
        /\ execution'[c] = execution[c] /\ execution[c] # NoExecution
        /\ execution[c].outs = Whole(Processor(c))
        /\ statement'[c] = NoStatement /\ output'[c] \notin {"truncated", "written"}
        /\ exit'[c] = "none"
    BY <1>1 DEF Types, CallShape, Before
  <2>2. Processor(c)' = Processor(c) /\ (Validates(c)' <=> Validates(c))
    BY <1>1, <2>1 DEF Processor, Validates
  <2>. QED
    BY <1>2, <2>1, <2>2 DEF CallShape, Host!Running, Waiting, Before, Over
<1>. QED
  BY <1>2, <1>3, <1>4, <1>5, OneCallSteps

(* The statement is attached: an ok answer comes from an enclave that      *)
(* compared its own identity with the one in the evidence.                 *)
LEMMA ReadValidationPreserves ==
  ASSUME IInv, NEW c \in Calls, ReadValidation(c)
  PROVE  IInv'
<1>. USE DEF IInv
<1>1. /\ pc[c] = "validating" /\ proc[c].state = "exited"
      /\ pc' = [pc EXCEPT ![c] = "removing"]
      /\ UNCHANGED <<proc, image, variant, ages, files, execution, output>>
  BY DEF ReadValidation, Host!Exited, Leave
<1>2. proc[c] \in Process /\ ChildShape(c) /\ CallShape(c)
  BY DEF Types
<1>3. CASE proc[c].answer = "ok"
  <2>1. /\ proc[c].image > 0 /\ proc[c].image \in Nat
        /\ proc[c].image = execution[c].image
    BY <1>1, <1>2, <1>3 DEF ChildShape, Process, CallShape
  <2>2. /\ exit' = [exit EXCEPT ![c] = "returned"]
        /\ statement' = [statement EXCEPT ![c].image = proc[c].image]
    BY <1>3 DEF ReadValidation, Leave
  <2>3. statement' \in [Calls -> [image : Nat]] /\ statement'[c].image = proc[c].image
    BY <2>1, <2>2 DEF Types
  <2>4. statement'[c] # NoStatement
    BY <2>1, <2>3 DEF NoStatement
  <2>5. Types'
    BY <1>1, <2>2, <2>3 DEF Types, Active, InBlock, Endings, ages
  <2>6. \A d \in Calls \ {c} : Untouched(d)
    BY <1>1, <2>2 DEF Types, Untouched
  <2>7. ChildShape(c)'
    BY <1>1, <1>2 DEF ChildShape
  <2>8. CallShape(c)'
    BY <1>1, <1>2, <2>1, <2>2, <2>3, <2>4
    DEF CallShape, Types, Processor, Validates, Host!Running, Waiting, Before, Over
  <2>. QED
    BY <2>5, <2>6, <2>7, <2>8, OneCallSteps
<1>4. CASE proc[c].answer # "ok"
  <2>1. exit' = [exit EXCEPT ![c] = "failed"] /\ statement' = statement
    BY <1>4 DEF ReadValidation, Leave
  <2>2. Types'
    BY <1>1, <2>1 DEF Types, Active, InBlock, ages
  <2>3. \A d \in Calls \ {c} : Untouched(d)
    BY <1>1, <2>1 DEF Types, Untouched
  <2>4. ChildShape(c)'
    BY <1>1, <1>2 DEF ChildShape
  <2>5. CallShape(c)'
    BY <1>1, <1>2, <2>1
    DEF CallShape, Types, Processor, Validates, Host!Running, Waiting, Before, Over
  <2>. QED
    BY <2>2, <2>3, <2>4, <2>5, OneCallSteps
<1>. QED
  BY <1>3, <1>4

(* What a change of the state of a child leaves as it was.                 *)
LEMMA StateOnly ==
  ASSUME proc \in [Calls -> Process], NEW c \in Calls,
         NEW end \in {"none", "running", "exited", "killed"},
         proc' = [proc EXCEPT ![c].state = end]
  PROVE  /\ proc' \in [Calls -> Process]
         /\ \A d \in Calls \ {c} : proc'[d] = proc[d]
         /\ proc'[c].op = proc[c].op /\ proc'[c].processor = proc[c].processor
         /\ proc'[c].image = proc[c].image /\ proc'[c].state = end
         /\ proc'[c].taken = proc[c].taken /\ proc'[c].step = proc[c].step
         /\ proc'[c].outs = proc[c].outs /\ proc'[c].answer = proc[c].answer
BY DEF Process

(* A killed child keeps what it had done.                                  *)
LEMMA KilledShape ==
  ASSUME Types, NEW c \in Calls, ChildShape(c), proc' = Host!Killed(c)
  PROVE  /\ proc' \in [Calls -> Process]
         /\ \A d \in Calls \ {c} : proc'[d] = proc[d]
         /\ proc'[c].state = IF Host!Running(c) THEN "killed" ELSE proc[c].state
         /\ proc'[c].op = proc[c].op
         /\ ChildShape(c)'
<1>1. proc \in [Calls -> Process] /\ proc[c] \in Process
  BY DEF Types
<1>2. PICK end \in {"none", "running", "exited", "killed"} :
        /\ end = IF Host!Running(c) THEN "killed" ELSE proc[c].state
        /\ proc' = [proc EXCEPT ![c].state = end]
  BY <1>1 DEF Host!Killed, Process
<1>3. /\ proc' \in [Calls -> Process]
      /\ \A d \in Calls \ {c} : proc'[d] = proc[d]
      /\ proc'[c].op = proc[c].op /\ proc'[c].image = proc[c].image
      /\ proc'[c].processor = proc[c].processor /\ proc'[c].state = end
      /\ proc'[c].taken = proc[c].taken /\ proc'[c].step = proc[c].step
      /\ proc'[c].outs = proc[c].outs /\ proc'[c].answer = proc[c].answer
  BY <1>1, <1>2, StateOnly
<1>. QED
  BY <1>2, <1>3 DEF ChildShape, Host!Running

(* A late child is killed before the call gives up.                        *)
LEMMA KillLatePreserves ==
  ASSUME IInv, NEW c \in Calls, KillLate(c)
  PROVE  IInv'
<1>. USE DEF IInv
<1>1. /\ pc[c] \in Waiting /\ Host!Running(c)
      /\ pc' = [pc EXCEPT ![c] = "removing"] /\ exit' = [exit EXCEPT ![c] = "failed"]
      /\ UNCHANGED <<image, variant, ages, files, execution, statement, output>>
  BY DEF KillLate, Leave
<1>2. /\ proc' \in [Calls -> Process]
      /\ \A d \in Calls \ {c} : proc'[d] = proc[d]
      /\ proc'[c].state = "killed"
      /\ proc'[c].op = proc[c].op
      /\ ChildShape(c)'
  BY <1>1, KilledShape DEF KillLate
<1>3. Types'
  BY <1>1, <1>2 DEF Types, Active, InBlock, ages
<1>4. \A d \in Calls \ {c} : Untouched(d)
  BY <1>1, <1>2 DEF Types, Untouched
<1>5. CallShape(c)'
  <2>1. /\ pc'[c] = "removing" /\ exit'[c] = "failed" /\ statement[c] = NoStatement
        /\ output[c] \notin {"truncated", "written"}
        /\ ~ Validates(c) => proc'[c].op # "validate"
    BY <1>1, <1>2 DEF CallShape, Types, Waiting, Before
  <2>2. Processor(c)' = Processor(c) /\ (Validates(c)' <=> Validates(c))
    BY <1>1 DEF Processor, Validates
  <2>. QED
    BY <1>1, <1>2, <2>1, <2>2 DEF CallShape, Types, Host!Running, Waiting, Before, Over
<1>. QED
  BY <1>2, <1>3, <1>4, <1>5, OneCallSteps

(* The directory is removed, or what could not be removed is left in it.   *)
LEMMA RemovePreserves ==
  ASSUME IInv, NEW c \in Calls, Remove(c)
  PROVE  IInv'
<1>. USE DEF IInv
<1>1. /\ pc[c] = "removing" /\ exit[c] \in {"returned", "failed", "interrupted"}
      /\ pc' = [pc EXCEPT ![c] = exit[c]]
      /\ \E left \in SUBSET files[c] : files' = [files EXCEPT ![c] = left]
      /\ UNCHANGED <<proc, image, variant, ages, exit, execution, statement, output>>
  BY DEF Remove, Types, CallShape
<1>2. Types'
  <2>1. files' \in [Calls -> SUBSET {"dataset.enc", "request.json", "attestation-validation.json"}]
    BY <1>1 DEF Types
  <2>2. pc' \in [Calls -> Active \cup {"idle"} \cup Endings]
    BY <1>1 DEF Types, Active, InBlock, Endings
  <2>. QED
    BY <1>1, <2>1, <2>2 DEF Types, ages
<1>3. \A d \in Calls \ {c} : Untouched(d)
  BY <1>1 DEF Types, Untouched
<1>4. ChildShape(c)'
  BY <1>1 DEF ChildShape
<1>5. CallShape(c)'
  BY <1>1 DEF CallShape, Types, Processor, Validates, Host!Running, Waiting, Before, Over
<1>. QED
  BY <1>2, <1>3, <1>4, <1>5, OneCallSteps

(* A removal cut off leaves a part of the directory.                       *)
LEMMA CutOffTypes ==
  ASSUME Types, NEW c \in Calls, CutOffRemoval(c)
  PROVE  files' \in [Calls -> SUBSET {"dataset.enc", "request.json", "attestation-validation.json"}]
BY DEF Types, CutOffRemoval

(* Only a child of the polling loop survives an interrupt.                 *)
LEMMA InterruptPreserves ==
  ASSUME IInv, NEW c \in Calls, Interrupt(c)
  PROVE  IInv'
<1>. USE DEF IInv
<1>1. /\ pc[c] \in Active
      /\ \/ pc[c] \in InBlock \ {"removing"} /\ pc' = [pc EXCEPT ![c] = "removing"]
            /\ exit' = [exit EXCEPT ![c] = "interrupted"]
         \/ pc[c] = "removing" /\ pc' = [pc EXCEPT ![c] = "cut short"] /\ exit' = exit
         \/ pc[c] \in {"returned", "encoded", "opened"}
            /\ pc' = [pc EXCEPT ![c] = "interrupted"] /\ exit' = exit
      /\ UNCHANGED <<image, variant, ages, execution, statement, output>>
  BY DEF Interrupt, Leave, Active, InBlock
<1>2. proc[c] \in Process /\ ChildShape(c) /\ CallShape(c)
  BY DEF Types
<1>3. /\ proc' \in [Calls -> Process]
      /\ \A d \in Calls \ {c} : proc'[d] = proc[d]
      /\ proc'[c].op = proc[c].op
      /\ ChildShape(c)'
      /\ Host!Running(c)' =>
           /\ Host!Running(c)
           /\ pc[c] \in Waiting => proc[c].op = "execute" /\ variant[c] # "run_pipeline"
  <2>1. CASE proc' = Host!Killed(c)
    BY <1>2, <2>1, KilledShape DEF Host!Running
  <2>2. CASE proc' = proc /\ (pc[c] \in Waiting => ~ ReadsWhileWaiting(c))
    <3>1. Host!Running(c) /\ pc[c] \in Waiting =>
            proc[c].op = "execute" /\ variant[c] # "run_pipeline"
      BY <1>2, <2>2 DEF CallShape, Process, ReadsWhileWaiting, Waiting
    <3>2. ChildShape(c)' /\ (Host!Running(c)' <=> Host!Running(c))
      BY <1>2, <2>2 DEF ChildShape, Host!Running
    <3>. QED
      BY <2>2, <3>1, <3>2 DEF Types
  <2>. QED
    BY <2>1, <2>2 DEF Interrupt
<1>4. Types'
  BY <1>1, <1>3, CutOffTypes DEF Interrupt, Types, Active, InBlock, Endings, ages
<1>5. \A d \in Calls \ {c} : Untouched(d)
  BY <1>1, <1>3 DEF Types, Untouched
<1>6. CallShape(c)'
  <2>1. CASE pc[c] \in InBlock \ {"removing"} /\ pc' = [pc EXCEPT ![c] = "removing"]
             /\ exit' = [exit EXCEPT ![c] = "interrupted"]
    <3>1. /\ pc'[c] = "removing" /\ exit'[c] = "interrupted" /\ statement[c] = NoStatement
          /\ output[c] \notin {"truncated", "written"}
      BY <1>2, <2>1 DEF CallShape, Types, Before, InBlock
    <3>2. Processor(c)' = Processor(c) /\ (Validates(c)' <=> Validates(c))
      BY <1>1 DEF Processor, Validates
    <3>3. Host!Running(c)' => proc'[c].op = "execute" /\ variant[c] # "run_pipeline"
      BY <1>2, <1>3, <2>1 DEF CallShape, InBlock, Before
    <3>. QED
      BY <1>1, <1>2, <1>3, <3>1, <3>2, <3>3 DEF CallShape, Waiting, Before, Over
  <2>2. CASE pc[c] = "removing" /\ pc' = [pc EXCEPT ![c] = "cut short"] /\ exit' = exit
    BY <1>1, <1>2, <1>3, <2>2
    DEF CallShape, Types, Processor, Validates, Waiting, Before, Over
  <2>3. CASE pc[c] \in {"returned", "encoded", "opened"}
             /\ pc' = [pc EXCEPT ![c] = "interrupted"] /\ exit' = exit
    BY <1>1, <1>2, <1>3, <2>3
    DEF CallShape, Types, Processor, Validates, Waiting, Before, Over
  <2>. QED
    BY <1>1, <2>1, <2>2, <2>3
<1>. QED
  BY <1>3, <1>4, <1>5, <1>6, OneCallSteps

(* A kill leaves everything as it is, and perhaps the child running.       *)
LEMMA KillCallerPreserves ==
  ASSUME IInv, NEW c \in Calls, KillCaller(c)
  PROVE  IInv'
<1>. USE DEF IInv
<1>1. /\ pc[c] \in Active /\ pc' = [pc EXCEPT ![c] = "killed"]
      /\ UNCHANGED <<image, variant, ages, exit, execution, statement, output>>
  BY DEF KillCaller
<1>2. /\ proc' \in [Calls -> Process]
      /\ \A d \in Calls \ {c} : proc'[d] = proc[d]
      /\ proc'[c].op = proc[c].op
      /\ ChildShape(c)'
  <2>1. CASE proc' = Host!Killed(c)
    BY <2>1, KilledShape
  <2>2. CASE proc' = proc
    <3>1. ChildShape(c)'
      BY <2>2 DEF ChildShape
    <3>. QED
      BY <2>2, <3>1 DEF Types
  <2>. QED
    BY <2>1, <2>2 DEF KillCaller
<1>3. Types'
  BY <1>1, <1>2, CutOffTypes DEF KillCaller, Types, Endings, ages
<1>4. \A d \in Calls \ {c} : Untouched(d)
  BY <1>1, <1>2 DEF Types, Untouched
<1>5. CallShape(c)'
  BY <1>1, <1>2
  DEF CallShape, Types, Processor, Validates, Waiting, Before, Over, Active, InBlock
<1>. QED
  BY <1>2, <1>3, <1>4, <1>5, OneCallSteps

(* Encoding decides whether the call goes on to write.                     *)
LEMMA EncodePreserves ==
  ASSUME IInv, NEW c \in Calls, Encode(c)
  PROVE  IInv'
<1>. USE DEF IInv
<1>1. /\ pc[c] = "returned"
      /\ \E next \in {"done", "failed", "encoded"} : pc' = [pc EXCEPT ![c] = next]
      /\ UNCHANGED <<proc, image, variant, ages, exit, files, execution, statement, output>>
  BY DEF Encode
<1>2. Types'
  BY <1>1 DEF Types, Active, InBlock, Endings, ages
<1>3. \A d \in Calls \ {c} : Untouched(d)
  BY <1>1 DEF Types, Untouched
<1>4. ChildShape(c)'
  BY <1>1 DEF ChildShape
<1>5. CallShape(c)'
  BY <1>1 DEF CallShape, Types, Processor, Validates, Host!Running, Waiting, Before, Over
<1>. QED
  BY <1>2, <1>3, <1>4, <1>5, OneCallSteps

(* The output is truncated only with results at hand.                      *)
LEMMA OpenOutputPreserves ==
  ASSUME IInv, NEW c \in Calls, OpenOutput(c)
  PROVE  IInv'
<1>. USE DEF IInv, OpenOutput
<1>1. Types'
  BY DEF Types, Active, InBlock, Endings, ages
<1>2. \A d \in Calls \ {c} : Untouched(d)
  BY DEF Types, Untouched
<1>3. ChildShape(c)'
  BY DEF ChildShape
<1>4. CallShape(c)'
  BY DEF CallShape, Types, Processor, Validates, Host!Running, Waiting, Before, Over
<1>. QED
  BY <1>1, <1>2, <1>3, <1>4, OneCallSteps

(* The output is complete when the call is done.                           *)
LEMMA FillOutputPreserves ==
  ASSUME IInv, NEW c \in Calls, FillOutput(c)
  PROVE  IInv'
<1>. USE DEF IInv, FillOutput
<1>1. Types'
  BY DEF Types, Active, InBlock, Endings, ages
<1>2. \A d \in Calls \ {c} : Untouched(d)
  BY DEF Types, Untouched
<1>3. ChildShape(c)'
  BY DEF ChildShape
<1>4. CallShape(c)'
  BY DEF CallShape, Types, Processor, Validates, Host!Running, Waiting, Before, Over
<1>. QED
  BY <1>1, <1>2, <1>3, <1>4, OneCallSteps

---------------------------------------------------------------------------
(* The steps of the child *)

(* What a step of the child leaves as it was.                              *)
ChildMoves(c) ==
  /\ proc' \in [Calls -> Process]
  /\ \A d \in Calls \ {c} : proc'[d] = proc[d]
  /\ proc[c].state = "running" /\ proc'[c].state \in {"running", "exited"}
  /\ proc'[c].op = proc[c].op /\ proc'[c].processor = proc[c].processor
  /\ proc'[c].image = proc[c].image

(* A child that is refused ends and has taken nothing.                     *)
LEMMA TakeMoves ==
  ASSUME Types, NEW c \in Calls, ChildShape(c), NEW accepted \in BOOLEAN,
         Host!Take(c, accepted)
  PROVE  ChildMoves(c) /\ ChildShape(c)' /\ (proc'[c].taken => accepted)
<1>1. proc[c] \in Process /\ proc[c].state = "running" /\ ~ proc[c].taken
  BY DEF Types, Host!Take, Host!Running
<1>2. CASE accepted
  <2>1. /\ proc' \in [Calls -> Process]
        /\ \A d \in Calls \ {c} : proc'[d] = proc[d]
        /\ proc'[c].op = proc[c].op /\ proc'[c].processor = proc[c].processor
        /\ proc'[c].image = proc[c].image /\ proc'[c].state = proc[c].state
        /\ proc'[c].taken = TRUE /\ proc'[c].step = proc[c].step
        /\ proc'[c].outs = proc[c].outs /\ proc'[c].answer = proc[c].answer
    <3>1. proc' = [proc EXCEPT ![c].taken = TRUE]
      BY <1>2 DEF Host!Take
    <3>. QED
      BY <1>1, <3>1 DEF Types, Process
  <2>. QED
    BY <1>1, <1>2, <2>1 DEF ChildMoves, ChildShape, Process
<1>3. CASE ~ accepted
  <2>1. /\ proc' \in [Calls -> Process]
        /\ \A d \in Calls \ {c} : proc'[d] = proc[d]
        /\ proc'[c].op = proc[c].op /\ proc'[c].processor = proc[c].processor
        /\ proc'[c].image = proc[c].image /\ proc'[c].state = "exited"
        /\ proc'[c].taken = proc[c].taken /\ proc'[c].step = proc[c].step
        /\ proc'[c].outs = proc[c].outs /\ proc'[c].answer = "error"
    <3>1. proc' = [proc EXCEPT ![c].state = "exited", ![c].answer = "error"]
      BY <1>3 DEF Host!Take
    <3>. QED
      BY <1>1, <3>1 DEF Types, Process
  <2>. QED
    BY <1>1, <1>3, <2>1 DEF ChildMoves, ChildShape, Process
<1>. QED
  BY <1>2, <1>3

(* A stage adds its own out-parameters to those of the stages before it.   *)
LEMMA StageMoves ==
  ASSUME Types, NEW c \in Calls, ChildShape(c), Host!Stage(c)
  PROVE  ChildMoves(c) /\ ChildShape(c)' /\ (proc'[c].taken => proc[c].taken)
<1>. DEFINE p == proc[c]
            count == Host!StageCount(p.processor)
            stage(i) == Host!Stages(p.processor)[i]
<1>1. /\ p \in Process /\ p.state = "running" /\ p.op = "execute" /\ p.taken
      /\ p.step < count
      /\ proc' = [proc EXCEPT ![c].step = p.step + 1,
                              ![c].outs = p.outs \cup {stage(p.step + 1)}]
  BY DEF Types, Host!Stage, Host!Running
<1>2. p.step + 1 \in 1 .. count /\ count \in {4, 5} /\ p.step + 1 \in 0 .. 5
  BY <1>1, StagesAreNamed DEF Process
<1>3. stage(p.step + 1) \in Host!StageNames
  BY <1>2, StagesAreNamed
<1>4. /\ proc' \in [Calls -> Process]
      /\ \A d \in Calls \ {c} : proc'[d] = proc[d]
      /\ proc'[c].op = proc[c].op /\ proc'[c].processor = proc[c].processor
      /\ proc'[c].image = proc[c].image /\ proc'[c].state = proc[c].state
      /\ proc'[c].taken = proc[c].taken /\ proc'[c].step = p.step + 1
      /\ proc'[c].outs = p.outs \cup {stage(p.step + 1)} /\ proc'[c].answer = proc[c].answer
  <2>. HIDE DEF count, stage
  <2>1. proc \in [Calls -> Process] /\ p \in Process
    BY DEF Types
  <2>2. [p EXCEPT !.step = p.step + 1, !.outs = p.outs \cup {stage(p.step + 1)}] \in Process
    BY <1>2, <1>3, <2>1 DEF Process
  <2>3. proc' = [proc EXCEPT ![c] = [p EXCEPT !.step = p.step + 1,
                                              !.outs = p.outs \cup {stage(p.step + 1)}]]
    BY <1>1
  <2>4. proc' \in [Calls -> Process] /\ \A d \in Calls \ {c} : proc'[d] = proc[d]
    BY <2>1, <2>2, <2>3
  <2>. QED
    BY <2>1, <2>3, <2>4 DEF Process
<1>5. p.outs \cup {stage(p.step + 1)} = {stage(i) : i \in 1 .. p.step + 1}
  <2>1. p.outs = {stage(i) : i \in 1 .. p.step}
    BY DEF ChildShape
  <2>2. 1 .. p.step + 1 = (1 .. p.step) \cup {p.step + 1}
    BY <1>1 DEF Process
  <2>. HIDE DEF stage, p
  <2>. QED
    BY <2>1, <2>2
<1>6. ChildMoves(c)
  BY <1>1, <1>4 DEF ChildMoves
<1>7. ChildShape(c)'
  <2>1. /\ p.answer = "ok" => p.step = count
        /\ p.image > 0
    BY <1>1 DEF ChildShape
  <2>2. p.step \in Nat
    BY <1>1 DEF Process
  <2>3. p.answer # "ok"
    BY <1>1, <1>2, <2>1, <2>2
  <2>. QED
    BY <1>1, <1>2, <1>4, <1>5, <2>1, <2>3 DEF ChildShape
<1>. QED
  BY <1>4, <1>6, <1>7

(* Ok is said after the last stage.                                        *)
LEMMA AnswerMoves ==
  ASSUME Types, NEW c \in Calls, ChildShape(c), NEW fits \in BOOLEAN, Host!Answer(c, fits)
  PROVE  ChildMoves(c) /\ ChildShape(c)' /\ (proc'[c].taken => proc[c].taken)
<1>1. /\ proc[c] \in Process /\ proc[c].state = "running" /\ proc[c].taken
      /\ proc[c].op = "execute" => proc[c].step = Host!StageCount(proc[c].processor)
  BY DEF Types, Host!Answer, Host!Running
<1>2. /\ proc' \in [Calls -> Process]
      /\ \A d \in Calls \ {c} : proc'[d] = proc[d]
      /\ proc'[c].op = proc[c].op /\ proc'[c].processor = proc[c].processor
      /\ proc'[c].image = proc[c].image /\ proc'[c].state = IF fits THEN "exited" ELSE "running"
      /\ proc'[c].taken = proc[c].taken /\ proc'[c].step = proc[c].step
      /\ proc'[c].outs = proc[c].outs /\ proc'[c].answer = "ok"
  <2>1. proc' = [proc EXCEPT ![c].answer = "ok",
                             ![c].state = IF fits THEN "exited" ELSE "running"]
    BY DEF Host!Answer
  <2>. QED
    BY <1>1, <2>1 DEF Types, Process
<1>. QED
  BY <1>1, <1>2 DEF ChildMoves, ChildShape, Process

(* A child that fails or dies says nothing or an error.                    *)
LEMMA FailMoves ==
  ASSUME Types, NEW c \in Calls, ChildShape(c), Host!Fail(c) \/ Host!Die(c)
  PROVE  ChildMoves(c) /\ ChildShape(c)' /\ (proc'[c].taken => proc[c].taken)
<1>1. proc[c] \in Process /\ proc[c].state = "running"
  BY DEF Types, Host!Fail, Host!Die, Host!Running
<1>2. PICK answer \in {"error", "none"} :
        proc' = [proc EXCEPT ![c].state = "exited", ![c].answer = answer]
  BY DEF Host!Fail, Host!Die
<1>3. /\ proc' \in [Calls -> Process]
      /\ \A d \in Calls \ {c} : proc'[d] = proc[d]
      /\ proc'[c].op = proc[c].op /\ proc'[c].processor = proc[c].processor
      /\ proc'[c].image = proc[c].image /\ proc'[c].state = "exited"
      /\ proc'[c].taken = proc[c].taken /\ proc'[c].step = proc[c].step
      /\ proc'[c].outs = proc[c].outs /\ proc'[c].answer = answer
  BY <1>1, <1>2 DEF Types, Process
<1>. QED
  BY <1>1, <1>3 DEF ChildMoves, ChildShape, Process

(* A call whose child has moved is where it was, and the child still of    *)
(* the kind it waits for.                                                  *)
LEMMA ChildMovesKeepCall ==
  ASSUME IInv, NEW c \in Calls, ChildMoves(c), ChildShape(c)', UNCHANGED <<image, callVars>>,
         Types', pc[c] = "validating" /\ proc'[c].taken => proc[c].image = execution[c].image
  PROVE  IInv'
<1>. USE DEF IInv, ChildMoves, callVars
<1>1. \A d \in Calls \ {c} : Untouched(d)
  BY DEF Untouched
<1>2. CallShape(c)'
  BY DEF CallShape, Types, Processor, Validates, Host!Running, Waiting, Before, Over
<1>. QED
  BY <1>1, <1>2, OneCallSteps

(* Whatever the child does, at whatever point of its call.                 *)
LEMMA ChildPreserves ==
  ASSUME IInv, NEW c \in Calls, Child(c)
  PROVE  IInv'
<1>. USE DEF IInv
<1>1. CASE TakeExecution(c)
  <2>1. ChildMoves(c) /\ ChildShape(c)'
    BY <1>1, TakeMoves DEF TakeExecution
  <2>2. Types'
    <3>1. resultAge' \in [Calls -> 0 .. MaxAttestationLifetime + 1]
      BY <1>1, PipelineConstants DEF TakeExecution, Types
    <3>. QED
      BY <1>1, <2>1, <3>1 DEF TakeExecution, Types, ChildMoves, callVars
  <2>3. pc[c] # "validating"
    BY <1>1 DEF TakeExecution, CallShape
  <2>. QED
    BY <1>1, <2>1, <2>2, <2>3, ChildMovesKeepCall DEF TakeExecution
<1>2. CASE TakeValidation(c)
  <2>1. ChildMoves(c) /\ ChildShape(c)' /\ (proc'[c].taken => SameEnclave(c))
    BY <1>2, TakeMoves DEF TakeValidation
  <2>2. Types'
    BY <1>2, <2>1 DEF TakeValidation, Types, ChildMoves, callVars, ages
  <2>. QED
    BY <1>2, <2>1, <2>2, ChildMovesKeepCall DEF TakeValidation, SameEnclave
<1>3. CASE /\ \/ Host!Stage(c) \/ Host!Fail(c) \/ Host!Die(c)
              \/ \E fits \in BOOLEAN : Host!Answer(c, fits)
           /\ UNCHANGED <<image, callVars, ages>>
  <2>1. ChildMoves(c) /\ ChildShape(c)' /\ (proc'[c].taken => proc[c].taken)
    BY <1>3, StageMoves, FailMoves, AnswerMoves
  <2>2. Types'
    BY <1>3, <2>1 DEF Types, ChildMoves, callVars, ages
  <2>. QED
    BY <1>3, <2>1, <2>2, ChildMovesKeepCall DEF CallShape
<1>. QED
  BY <1>1, <1>2, <1>3 DEF Child

---------------------------------------------------------------------------
(* The build and the clock *)

(* A build, a tick and a stutter touch no call.                            *)
LEMMA SharedPreserves ==
  ASSUME IInv, Rebuild \/ Tick \/ UNCHANGED vars
  PROVE  IInv'
<1>. USE DEF IInv
<1>1. \A c \in Calls : Untouched(c)
  BY DEF Rebuild, Tick, vars, callVars, Untouched
<1>2. Types'
  <2>1. CASE Rebuild
    BY <2>1, PipelineConstants DEF Rebuild, Types, callVars, ages
  <2>2. CASE Tick
    <3>1. ASSUME NEW limit \in Nat, NEW age \in 0 .. limit + 1
          PROVE  Older(age, limit) \in 0 .. limit + 1
      BY DEF Older
    <3>2. LongestLimit \in Nat
      BY PipelineConstants DEF LongestLimit
    <3>3. /\ requestAge' \in [Calls -> 0 .. LongestLimit + 1]
          /\ childAge' \in [Calls -> 0 .. Timeout + 1]
          /\ resultAge' \in [Calls -> 0 .. MaxAttestationLifetime + 1]
      BY <2>2, <3>1, <3>2, PipelineConstants DEF Tick, Types
    <3>. QED
      BY <2>2, <3>3 DEF Tick, Types, callVars
  <2>3. CASE UNCHANGED vars
    BY <2>3 DEF vars, Types, callVars, ages
  <2>. QED
    BY <2>1, <2>2, <2>3
<1>. QED
  BY <1>1, <1>2, UntouchedKeeps
---------------------------------------------------------------------------
(* The theorems *)

(* Before any call begins.                                                 *)
LEMMA InitIInv == Init => IInv
<1>. SUFFICES ASSUME Init PROVE IInv
  OBVIOUS
<1>1. \A c \in Calls : proc[c] = Host!NoProcess /\ pc[c] = "idle" /\ exit[c] = "none"
                       /\ execution[c] = NoExecution /\ statement[c] = NoStatement
                       /\ output[c] \in {"absent", "earlier"}
  BY DEF Init, Host!Init
<1>2. Types
  <2>1. LongestLimit \in Nat
    BY PipelineConstants DEF LongestLimit
  <2>2. Host!NoProcess \in Process
    BY DEF Host!NoProcess, Process
  <2>. QED
    BY <2>1, <2>2, PipelineConstants
    DEF Init, Host!Init, Types, Active, NoExecution, NoStatement
<1>3. ASSUME NEW c \in Calls PROVE ChildShape(c)
  BY <1>1, StagesAreNamed DEF ChildShape, Host!NoProcess
<1>4. ASSUME NEW c \in Calls PROVE CallShape(c)
  BY <1>1 DEF CallShape, Host!NoProcess, Host!Running, Waiting, Before, Over, Processor, Validates
<1>. QED
  BY <1>2, <1>3, <1>4 DEF IInv

(* Every step keeps the invariant.                                         *)
LEMMA StepPreserves == IInv /\ [Next]_vars => IInv'
<1>. SUFFICES ASSUME IInv, [Next]_vars PROVE IInv'
  OBVIOUS
<1>1. ASSUME NEW c \in Calls, CallStep(c) PROVE IInv'
  BY <1>1, BeginPreserves, StageRequestPreserves, StartExecutionPreserves,
     ReadExecutionPreserves, StartValidationPreserves, ReadValidationPreserves,
     KillLatePreserves, RemovePreserves, EncodePreserves, OpenOutputPreserves, FillOutputPreserves
  DEF CallStep
<1>. QED
  BY <1>1, InterruptPreserves, KillCallerPreserves, ChildPreserves, SharedPreserves DEF Next

(* The invariant holds of every reachable state.                           *)
LEMMA Invariance == Spec => []IInv
BY InitIInv, StepPreserves, PTL DEF Spec

(* The variables keep their shape, and the ages stay within one tick of    *)
(* the limits they are compared with, for any limits.                      *)
THEOREM PipelineTypeCorrect == Spec => []PipelineTypeOK
<1>1. IInv => PipelineTypeOK
  BY DEF IInv, Types, Process, CallShape, PipelineTypeOK, Host!Operations
<1>. QED
  BY <1>1, Invariance, PTL

(* ExecuteEncrypted may return early with out-parameters half filled; a    *)
(* call only ever parses a result that went through every stage.           *)
THEOREM ParsedResultsAreWhole == Spec => []OnlyWholeResults
<1>1. IInv => OnlyWholeResults
  BY DEF IInv, CallShape, Whole, OnlyWholeResults
<1>. QED
  BY <1>1, Invariance, PTL

(* Whether a child answered, failed or was late, it is gone when its call  *)
(* has stopped waiting, unless the polling loop was interrupted.           *)
THEOREM ChildrenAreCollected == Spec => []NoChildLeftBehind
<1>1. IInv => NoChildLeftBehind
  BY DEF IInv, CallShape, NoChildLeftBehind
<1>. QED
  BY <1>1, Invariance, PTL

(* A call leaves its directory without the file with the data key, unless  *)
(* it is killed, interrupted again while removing it, or interrupted while *)
(* its child runs on or has not been waited for.                           *)
THEOREM KeyIsRemoved == Spec => KeyRemoved
<1>1. IInv /\ [Next]_vars =>
        [\A c \in Calls :
           pc[c] \in InBlock /\ pc'[c] \notin InBlock /\ "request.json" \in files'[c] =>
             \/ pc'[c] \in {"killed", "cut short"}
             \/ pc'[c] = "interrupted" /\ proc[c].state \in {"running", "killed"}]_vars
  <2>. SUFFICES ASSUME IInv, Next, NEW c \in Calls, pc[c] \in InBlock, pc'[c] \notin InBlock,
                       "request.json" \in files'[c]
                PROVE  \/ pc'[c] \in {"killed", "cut short"}
                       \/ pc'[c] = "interrupted" /\ proc[c].state \in {"running", "killed"}
    OBVIOUS
  <2>1. Types
    BY DEF IInv
  <2>2. PICK d \in Calls : CallStep(d) \/ Interrupt(d) \/ KillCaller(d)
    BY DEF Next, Child, TakeExecution, TakeValidation, Rebuild, Tick, callVars
  <2>3. d = c
    BY <2>1, <2>2
    DEF Types, CallStep, Begin, StageRequest, StartExecution, ReadExecution, StartValidation,
        ReadValidation, KillLate, Remove, Encode, OpenOutput, FillOutput, Interrupt, KillCaller,
        Leave
  <2>4. CASE Remove(c)
    <3>1. PICK left \in SUBSET files[c] : /\ left # {} => MayBeHeldOpen(c)
                                          /\ files' = [files EXCEPT ![c] = left]
      BY <2>4 DEF Remove
    <3>2. MayBeHeldOpen(c) /\ pc'[c] = exit[c]
      BY <2>1, <2>4, <3>1 DEF Types, Remove
    <3>. QED
      BY <3>2 DEF MayBeHeldOpen
  <2>5. CASE CallStep(c) /\ ~ Remove(c)
    BY <2>1, <2>5
    DEF Types, CallStep, Begin, StageRequest, StartExecution, ReadExecution, StartValidation,
        ReadValidation, KillLate, Encode, OpenOutput, FillOutput, Leave, InBlock
  <2>6. CASE Interrupt(c) \/ KillCaller(c)
    BY <2>1, <2>6 DEF Types, Interrupt, KillCaller, Leave, InBlock
  <2>. QED
    BY <2>2, <2>3, <2>4, <2>5, <2>6
<1>. QED
  BY <1>1, Invariance, PTL DEF Spec, KeyRemoved

(* An attached statement was made by an enclave of the image that          *)
(* executed, however many builds come between the two processes.           *)
THEOREM StatementsMatchExecutions == Spec => []StatementOfExecutingEnclave
<1>1. IInv => StatementOfExecutingEnclave
  BY DEF IInv, CallShape, Over, StatementOfExecutingEnclave
<1>. QED
  BY <1>1, Invariance, PTL

(* The output of an earlier run is only touched by a call that has results.*)
THEOREM EarlierOutputIsKept == Spec => []EarlierOutputKept
<1>1. IInv => EarlierOutputKept
  BY DEF IInv, CallShape, EarlierOutputKept
<1>. QED
  BY <1>1, Invariance, PTL

(* A call that will not have a statement any more.                         *)
GivenUp(c) ==
  \/ pc[c] \in Endings \ {"done"}
  \/ pc[c] = "removing" /\ exit[c] # "returned"

(* Nor will a call that is late before its validator has looked at the     *)
(* clock: no validator accepts it.                                         *)
LateFor(c) ==
  /\ statement[c] = NoStatement
  /\ \/ GivenUp(c)
     \/ Late(c) /\ pc[c] = "executed"
     \/ Late(c) /\ pc[c] = "validating" /\ ~ proc[c].taken

(* A late call stays late, and is refused, whatever happens around it.     *)
LEMMA LateStaysLate ==
  ASSUME IInv, NEW c \in Calls, LateFor(c), [Next]_vars
  PROVE  LateFor(c)'
<1>. USE DEF LateFor
<1>1. ChildShape(c) /\ CallShape(c) /\ Types /\ variant' = variant
  <2>1. variant' = variant
    BY DEF Next, CallStep, Begin, StageRequest, StartExecution, ReadExecution,
           StartValidation, ReadValidation, KillLate, Remove, Encode, OpenOutput, FillOutput,
           Interrupt, KillCaller, Child, TakeExecution, TakeValidation, Rebuild, Tick, vars,
           callVars
  <2>. QED
    BY <2>1 DEF IInv
<1>2. CASE UNCHANGED <<proc, callVars, ages>>
  BY <1>2 DEF callVars, ages, Late, Limit, GivenUp
<1>3. CASE Tick
  <2>1. /\ requestAge'[c] = Older(requestAge[c], LongestLimit)
        /\ resultAge'[c] = Older(resultAge[c], MaxAttestationLifetime)
    BY <1>3 DEF Tick
  <2>2. /\ requestAge[c] \in Nat /\ resultAge[c] \in Nat
        /\ Limit(c) \in Nat /\ Limit(c)' = Limit(c) /\ Limit(c) <= LongestLimit
    BY <1>1, PipelineConstants DEF Types, LongestLimit, Limit
  <2>3. Late(c) => Late(c)'
    BY <2>1, <2>2, PipelineConstants DEF Late, Older, LongestLimit
  <2>. QED
    BY <1>3, <2>3 DEF Tick, callVars, GivenUp
<1>4. ASSUME NEW d \in Calls, CallStep(d) \/ Interrupt(d) \/ KillCaller(d), d # c
      PROVE  LateFor(c)'
  <2>1. /\ statement'[c] = statement[c] /\ requestAge'[c] = requestAge[c]
        /\ resultAge'[c] = resultAge[c] /\ exit'[c] = exit[c]
        /\ pc'[c] = pc[c] /\ proc'[c] = proc[c]
    BY <1>1, <1>4
    DEF CallStep, Begin, StageRequest, StartExecution, ReadExecution,
        StartValidation, ReadValidation, KillLate, Remove, Encode, OpenOutput, FillOutput,
        Interrupt, KillCaller, Leave, Types, Host!Spawn, Host!Killed, ages
  <2>. QED
    BY <1>1, <2>1 DEF Late, Limit, GivenUp
<1>5. ASSUME NEW d \in Calls, Child(d), d # c PROVE LateFor(c)'
  <2>1. proc'[c] = proc[c] /\ resultAge'[c] = resultAge[c] /\ requestAge'[c] = requestAge[c]
    BY <1>1, <1>5
    DEF Child, TakeExecution, TakeValidation, Types, Host!Take, Host!Stage, Host!Fail,
        Host!Die, Host!Answer, ages
  <2>. QED
    BY <1>5, <2>1 DEF Child, TakeExecution, TakeValidation, callVars, Late, Limit, GivenUp
<1>6. ASSUME Child(c) PROVE LateFor(c)'
  <2>1. UNCHANGED callVars /\ Host!Running(c)
    BY <1>6
    DEF Child, TakeExecution, TakeValidation, Host!Take, Host!Stage, Host!Fail, Host!Die,
        Host!Answer
  <2>2. pc[c] # "executed"
    BY <1>1, <2>1 DEF CallShape, Before, Waiting
  <2>3. CASE pc[c] = "validating"
    <3>1. proc[c].op = "validate" /\ ~ proc[c].taken /\ Late(c)
      BY <1>1, <2>3 DEF CallShape, GivenUp, Endings
    <3>2. CASE TakeValidation(c)
      <4>1. ~ InWindow(c)
        <5>1. /\ requestAge[c] \in Nat /\ resultAge[c] \in Nat /\ Limit(c) \in Nat
          BY <1>1, PipelineConstants DEF Types, LongestLimit, Limit
        <5>. QED
          BY <3>1, <5>1, PipelineConstants DEF InWindow, Late
      <4>2. ~ proc'[c].taken
        BY <1>1, <3>2, <4>1, TakeMoves DEF TakeValidation
      <4>. QED
        BY <2>1, <2>3, <3>1, <3>2, <4>2 DEF TakeValidation, callVars, ages, Late, Limit
    <3>3. CASE Host!Die(c) /\ UNCHANGED <<image, callVars, ages>>
      <4>1. ~ proc'[c].taken
        BY <1>1, <3>1, <3>3, FailMoves
      <4>. QED
        BY <2>3, <3>1, <3>3, <4>1 DEF callVars, ages, Late, Limit
    <3>. QED
      BY <1>6, <3>1, <3>2, <3>3
      DEF Child, TakeExecution, Host!Stage, Host!Fail, Host!Answer
  <2>. QED
    BY <2>1, <2>2, <2>3 DEF callVars, GivenUp
<1>7. ASSUME CallStep(c) \/ Interrupt(c) \/ KillCaller(c) PROVE LateFor(c)'
  <2>1. CASE StartValidation(c)
    <3>1. ~ proc'[c].taken
      BY <1>1, <2>1, SpawnShape DEF StartValidation, Host!Operations
    <3>2. Late(c) /\ Late(c)'
      BY <1>1, <2>1 DEF StartValidation, GivenUp, Endings, Late, Limit
    <3>. QED
      BY <1>1, <2>1, <3>1, <3>2 DEF StartValidation, Types
  <2>2. CASE ReadValidation(c)
    <3>1. proc[c].answer # "ok"
      BY <1>1, <2>2 DEF ReadValidation, ChildShape, GivenUp, Endings
    <3>. QED
      BY <1>1, <2>2, <3>1 DEF ReadValidation, Leave, Types, GivenUp
  <2>3. CASE Interrupt(c) \/ KillCaller(c)
    BY <1>1, <2>3
    DEF Interrupt, KillCaller, Leave, Types, GivenUp, Endings, InBlock, Active
  <2>4. CASE KillLate(c)
    BY <1>1, <2>4 DEF KillLate, Leave, Types, GivenUp
  <2>5. CASE Remove(c)
    BY <1>1, <2>5 DEF Remove, Types, CallShape, GivenUp, Endings
  <2>. QED
    BY <1>7, <2>1, <2>2, <2>3, <2>4, <2>5
    DEF CallStep, Begin, StageRequest, StartExecution, ReadExecution, Encode, OpenOutput,
        FillOutput, GivenUp, Endings
<1>8. CASE Rebuild \/ UNCHANGED vars
  BY <1>2, <1>8 DEF Rebuild, vars
<1>. QED
  BY <1>3, <1>4, <1>5, <1>6, <1>7, <1>8 DEF Next

(* An execution that is past its deadline, or older than its attestation   *)
(* may be, before its validator starts is never returned as validated: the *)
(* validator compares both with its own clock.                             *)
THEOREM LateExecutionsAreRefused == Spec => LateExecutionNeverAttached
<1>. SUFFICES ASSUME NEW c \in Calls
              PROVE  Spec => [](pc[c] = "executed" /\ Late(c) => [](statement[c] = NoStatement))
  BY DEF LateExecutionNeverAttached
<1>1. IInv /\ pc[c] = "executed" /\ Late(c) => LateFor(c)
  BY DEF IInv, CallShape, Before, LateFor
<1>2. IInv /\ LateFor(c) /\ [Next]_vars => LateFor(c)'
  BY LateStaysLate
<1>3. LateFor(c) => statement[c] = NoStatement
  BY DEF LateFor
<1>. QED
  BY <1>1, <1>2, <1>3, Invariance, PTL DEF Spec
=============================================================================
