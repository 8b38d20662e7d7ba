--------------------------- MODULE NitroBenchmark ---------------------------
(***************************************************************************)
(* The three programs that measure Nitro workers, run one after the other: *)
(* pool_benchmark.py with a thread per worker, attestation_benchmark.py    *)
(* and parent_benchmark.py with one call at a time.  Call n of a run is    *)
(* number n of that run's own range of Calls.                              *)
(***************************************************************************)
EXTENDS Integers, Sequences, FiniteSets

CONSTANTS
  WorkerCount, \* the number of enclaves
  CallsPerRun,
  MaxRuns      \* bound on the runs of a program
Programs == {"pool", "attestation", "latency"}
Workers == 1 .. WorkerCount
Calls == 1 .. CallsPerRun * MaxRuns

ASSUME BenchmarkConstants ==
  /\ CallsPerRun \in Nat \ {0} /\ MaxRuns \in Nat
  /\ WorkerCount \in Nat \ {0}

VARIABLES
  worker, backlog, request, open, reply,
  program,   \* the one that runs, or "none"
  run,       \* how many were started
  main,      \* where its main thread is
  call,      \* where each call is
  rows,      \* rows collected in this run
  csv        \* the output file of each program

benchVars == <<program, run, main, rows, csv>>
workerVars == <<worker, backlog, request, open, reply>>
vars == <<workerVars, benchVars, call>>

Enclave == INSTANCE NitroWorker

NoFile == [exists |-> FALSE, by |-> 0, headers |-> 0, rows |-> {}]
NewFile(n) == [exists |-> TRUE, by |-> n, headers |-> 0, rows |-> {}]

Init ==
  /\ Enclave!Init
  /\ program = "none" /\ run = 0 /\ main = "idle"
  /\ call = [c \in Calls |-> "unborn"]
  /\ rows = {}
  /\ csv = [p \in Programs |-> NoFile]

Current == {c \in Calls : (c - 1) \div CallsPerRun = run - 1}
InFlight == {"connected", "sent"}
Finished == {"measured", "refused", "failed", "collected"}
Sequential == program # "pool"

(* Task i goes to worker i modulo their number, or to the only one named.  *)
WorkerOf(c) ==
  IF Sequential THEN 1 ELSE 1 + (((c - 1) % CallsPerRun) % WorkerCount)
Threads == IF Sequential THEN 1 ELSE WorkerCount

Start(p) ==
  /\ program = "none" /\ run < MaxRuns
  /\ program' = p /\ run' = run + 1 /\ main' = "collecting" /\ rows' = {}
  /\ call' = [c \in Calls |-> IF (c - 1) \div CallsPerRun = run THEN "queued" ELSE call[c]]
  /\ UNCHANGED <<workerVars, csv>>

(* A thread takes the oldest queued task; a sequential program the next    *)
(* one, after the row of the last.                                         *)
NextTask(c) ==
  /\ c \in Current /\ call[c] = "queued"
  /\ \A d \in Current : d < c => call[d] # "queued"
  /\ Cardinality({d \in Current : call[d] \in InFlight}) < Threads
  /\ Sequential => main = "collecting" /\ \A d \in Current : d < c => call[d] = "collected"

(* socket.connect; an enclave that is gone refuses or resets.              *)
Connect(c) ==
  /\ NextTask(c)
  /\ IF Enclave!Alive(WorkerOf(c))
     THEN /\ Enclave!Connect(WorkerOf(c), c)
          /\ call' = [call EXCEPT ![c] = "connected"]
     ELSE /\ call' = [call EXCEPT ![c] = "failed"]
          /\ UNCHANGED workerVars
  /\ UNCHANGED benchVars

Send(c) ==
  /\ c \in Current /\ call[c] = "connected"
  /\ Enclave!Send(c)
  /\ call' = [call EXCEPT ![c] = "sent"]
  /\ UNCHANGED benchVars

(* One recv: a whole reply, or one that does not parse; or nothing, because*)
(* the worker has closed its end or is gone.                               *)
Read(c) ==
  /\ c \in Current /\ call[c] = "sent"
  /\ \/ reply[c] = "result" /\ call' = [call EXCEPT ![c] = "measured"]
     \/ reply[c] = "error" /\ call' = [call EXCEPT ![c] = "refused"]
     \/ /\ \/ reply[c] # "none" \/ Enclave!Closed(WorkerOf(c), c)
           \/ ~Enclave!Alive(WorkerOf(c))
        /\ call' = [call EXCEPT ![c] = "failed"]
  /\ Enclave!Close({c})
  /\ UNCHANGED benchVars

(* The row of a finished call.  Only parent_benchmark reads the reply with *)
(* get, and writes an empty row for an error reply; the others look up a   *)
(* field an error reply does not have.                                     *)
YieldsRow_Get(c) == call[c] \in {"measured", "refused"}
YieldsRow(c) == call[c] = "measured" \/ (call[c] = "refused" /\ program = "latency")

Collect(c) ==
  /\ main = "collecting" /\ c \in Current
  /\ call[c] \in Finished \ {"collected"}
  /\ IF YieldsRow(c)
     THEN /\ rows' = rows \cup {[call |-> c, measured |-> call[c] = "measured"]}
          /\ main' = main
     ELSE main' = "failing" /\ UNCHANGED rows
  /\ call' = [call EXCEPT ![c] = "collected"]
  /\ UNCHANGED <<workerVars, program, run, csv>>

(* Leaving the executor's block waits for every task that was submitted.   *)
AllFinished_AtOnce == TRUE
AllFinished ==
  IF Sequential THEN \A c \in Current : call[c] \notin InFlight
                ELSE \A c \in Current : call[c] \in Finished

GiveUp ==
  /\ main = "failing" /\ AllFinished
  /\ main' = "idle" /\ program' = "none"
  /\ UNCHANGED <<workerVars, run, rows, csv, call>>

(* The file is opened, for appending or anew; an appended file gets a      *)
(* header only if it is new.                                               *)
OpenFile_Header ==
  LET old == csv[program]
      appends == program = "pool" /\ old.exists
  IN
  /\ main = "collecting" /\ \A c \in Current : call[c] = "collected"
  /\ csv' = IF appends THEN csv ELSE [csv EXCEPT ![program] = NewFile(run)]
  /\ main' = "opened"
  /\ UNCHANGED <<workerVars, program, run, rows, call>>

OpenFile ==
  LET old == csv[program]
      appends == program = "pool" /\ old.exists
  IN
  /\ main = "collecting" /\ \A c \in Current : call[c] = "collected"
  /\ csv' = IF appends THEN csv ELSE [csv EXCEPT ![program] = NewFile(run)]
  /\ main' = IF appends THEN "writing" ELSE "opened"
  /\ UNCHANGED <<workerVars, program, run, rows, call>>

WriteHeader ==
  /\ main = "opened"
  /\ csv' = [csv EXCEPT ![program].headers = @ + 1]
  /\ main' = "writing"
  /\ UNCHANGED <<workerVars, program, run, rows, call>>

WriteRow ==
  /\ main = "writing"
  /\ \E r \in rows \ csv[program].rows :
       csv' = [csv EXCEPT ![program].rows = @ \cup {r}]
  /\ UNCHANGED <<workerVars, program, run, main, rows, call>>

Finish ==
  /\ main = "writing" /\ rows \subseteq csv[program].rows
  /\ main' = "done" /\ program' = "none"
  /\ UNCHANGED <<workerVars, run, rows, csv, call>>

(* A first interrupt is an exception in the main thread of the pool, which *)
(* still leaves the executor's block; elsewhere it ends the program.       *)
Interrupt ==
  /\ main = "collecting" /\ program = "pool"
  /\ main' = "failing"
  /\ UNCHANGED <<workerVars, program, run, rows, csv, call>>

(* The process is killed; its sockets close, half-written rows stay.       *)
Kill ==
  /\ program # "none"
  /\ Enclave!Close(Calls)
  /\ call' = [c \in Calls |-> IF call[c] \in InFlight \cup {"queued"} THEN "gone" ELSE call[c]]
  /\ main' = "idle" /\ program' = "none"
  /\ UNCHANGED <<run, rows, csv>>

Client ==
  \/ \E c \in Calls : Connect(c) \/ Send(c) \/ Read(c) \/ Collect(c)
  \/ GiveUp \/ OpenFile \/ WriteHeader \/ WriteRow \/ Finish

Serve(w) == Enclave!Serve(w) /\ UNCHANGED <<benchVars, call>>

Next ==
  \/ \E p \in Programs : Start(p)
  \/ Client \/ Interrupt \/ Kill
  \/ \E w \in Workers : Serve(w)

(* A program that runs is scheduled, and so is every enclave.              *)
Spec == Init /\ [][Next]_vars /\ WF_vars(Client) /\ \A w \in Workers : WF_vars(Serve(w))

---------------------------------------------------------------------------
(* What the benchmarks promise *)

(* Error replies are ordinary JSON answers.  None of them, and no broken   *)
(* answer, becomes a row of the pool or attestation results; only          *)
(* parent_benchmark writes empty rows.                                     *)
OnlyMeasurementsPublished ==
  \A p \in {"pool", "attestation"} : \A r \in csv[p].rows : r.measured

(* pool_benchmark appends to the file of earlier runs: no file ever has two*)
(* headers, and the run that created it wrote the header before its rows,  *)
(* however it and later runs ended.  (A run killed between the two leaves  *)
(* an empty file, and the rows of the next one then have no header.)       *)
OneHeader ==
  \A p \in Programs :
    /\ csv[p].headers <= 1
    /\ csv[p].headers = 0 => \A r \in csv[p].rows : (r.call - 1) \div CallsPerRun # csv[p].by - 1

(* Leaving the executor's block waits for calls that are still in flight,  *)
(* also after an error: the next run never calls beside the last one.  (A  *)
(* worker may still be busy with a request of a client that was killed.)   *)
RunsDoNotOverlap == program = "none" => \A c \in Calls : call[c] \notin InFlight

(* Every run comes to an end, although no socket has a timeout and client  *)
(* and worker each wait for the other's bytes: the worker answers what one *)
(* recv returned, whole or not, closes, or dies, and each of these ends the*)
(* client's recv.                                                          *)
EveryRunEnds == program # "none" ~> program = "none"

(* tee/nitro/enclave_worker.py:136: "keep enclave alive during benchmark   *)
(* failures".                                                              *)
EnclaveStaysAlive == \A w \in Workers : Enclave!Alive(w)
=============================================================================
