------------------------ MODULE NitroBenchmarkProofs ------------------------
(***************************************************************************)
(* Theorems of the Nitro benchmarks for any number of workers, of calls    *)
(* per run and of runs.  None of them depends on what the enclaves do: the *)
(* invariant speaks of the program, its calls and its files only.          *)
(***************************************************************************)
EXTENDS NitroBenchmark, TLAPS

RunOf(c) == (c - 1) \div CallsPerRun

States ==
  {"unborn", "queued", "connected", "sent", "measured", "refused", "failed", "collected", "gone"}
Rows == [call : Calls, measured : BOOLEAN]

Types ==
  /\ program \in Programs \cup {"none"}
  /\ run \in Nat
  /\ main \in {"idle", "collecting", "failing", "opened", "writing", "done"}
  /\ call \in [Calls -> States]
  /\ rows \in SUBSET Rows
  /\ csv \in [Programs -> [exists : BOOLEAN, by : Nat, headers : Nat, rows : SUBSET Rows]]

(* Where the main thread is when a program runs, and that nothing of an    *)
(* earlier run is in flight beside it.                                     *)
ProgramShape ==
  /\ program = "none" <=> main \in {"idle", "done"}
  /\ \A c \in Calls : call[c] \in InFlight => program # "none" /\ c \in Current
  /\ main \in {"opened", "writing"} => \A c \in Current : call[c] = "collected"

(* The rows at hand are those of this run, and measured.                   *)
RowsShape ==
  program # "none" =>
    /\ \A r \in rows : RunOf(r.call) = run - 1
    /\ program # "latency" => \A r \in rows : r.measured

(* Each file is of a run before this one, until this one opens its own.    *)
FileShape(p) ==
  LET file == csv[p] IN
  /\ file.by <= run
  /\ file.headers <= 1
  /\ file.headers = 0 => \A r \in file.rows : RunOf(r.call) # file.by - 1
  /\ p # "latency" => \A r \in file.rows : r.measured
  /\ main \in {"collecting", "failing"} => file.by < run
  /\ main = "opened" /\ p = program => file.headers = 0 /\ file.rows = {} /\ file.by = run
  /\ main = "writing" /\ p = program => file.headers = 1 \/ file.by < run

IInv == Types /\ ProgramShape /\ RowsShape /\ \A p \in Programs : FileShape(p)

---------------------------------------------------------------------------
(* The calls of the present run, and of the next one, by their run number. *)
LEMMA CurrentCalls == Current = {c \in Calls : RunOf(c) = run - 1}
  BY DEF Current, RunOf

LEMMA CurrentCallsNext == Current' = {c \in Calls : RunOf(c) = run' - 1}
  BY DEF Current, RunOf, Calls

LEMMA InitHolds == Init => IInv
  BY BenchmarkConstants
  DEF Init, IInv, Types, ProgramShape, RowsShape, FileShape, NoFile, InFlight, States, Rows, Programs

(* Start queues the calls of a new run; no file can be of that run.        *)
LEMMA StartKeeps == ASSUME IInv, NEW p \in Programs, Start(p) PROVE IInv'
  <1>1. call' = [c \in Calls |-> IF RunOf(c) = run THEN "queued" ELSE call[c]]
    BY DEF Start, RunOf
  <1>2. Types'
    BY <1>1 DEF IInv, Types, Start, States
  <1>3. ProgramShape'
    BY <1>1 DEF IInv, Types, ProgramShape, Start, InFlight, Programs
  <1>4. RowsShape'
    BY DEF Start, RowsShape
  <1>5. ASSUME NEW q \in Programs PROVE FileShape(q)'
    BY DEF IInv, Types, FileShape, Start
  <1>6. QED BY <1>2, <1>3, <1>4, <1>5 DEF IInv

(* A call of the present run that was not collected moves on, while the    *)
(* main thread waits.                                                      *)
CallMoves(c, s) ==
  /\ c \in Current /\ call[c] # "collected" /\ program # "none"
  /\ s \in States
  /\ call' = [call EXCEPT ![c] = s]
  /\ UNCHANGED benchVars

LEMMA MovingKeeps ==
  ASSUME IInv, NEW c, NEW s, CallMoves(c, s) PROVE IInv'
  <1>1. c \in Calls /\ call[c] # "collected" /\ Current' = Current
    BY CurrentCalls, CurrentCallsNext DEF CallMoves, benchVars
  <1>2. Types'
    BY <1>1 DEF IInv, Types, CallMoves, benchVars
  <1>3. main \notin {"opened", "writing"}
    BY <1>1 DEF IInv, ProgramShape, CallMoves
  <1>4. ProgramShape'
    BY <1>1, <1>3 DEF IInv, Types, ProgramShape, CallMoves, benchVars, InFlight
  <1>5. RowsShape'
    BY DEF IInv, RowsShape, CallMoves, benchVars
  <1>6. ASSUME NEW q \in Programs PROVE FileShape(q)'
    BY DEF IInv, FileShape, CallMoves, benchVars
  <1>7. QED BY <1>2, <1>4, <1>5, <1>6 DEF IInv

(* Every socket operation is such a move: a call in flight belongs to a    *)
(* program that runs, and a task is only taken by one that does.           *)
LEMMA SocketsMoveCalls ==
  ASSUME IInv, NEW c \in Calls, Connect(c) \/ Send(c) \/ Read(c)
  PROVE  \E s \in States : CallMoves(c, s)
  <1>1. CASE Connect(c)
    <2>1. program # "none"
      BY <1>1 DEF Connect, NextTask, Sequential, IInv, ProgramShape
    <2>2. c \in Current /\ call[c] = "queued" /\ UNCHANGED benchVars
      BY <1>1 DEF Connect, NextTask
    <2>3. \E s \in {"connected", "failed"} : call' = [call EXCEPT ![c] = s]
      BY <1>1 DEF Connect
    <2>4. QED BY <2>1, <2>2, <2>3 DEF CallMoves, States
  <1>2. CASE Send(c)
    BY <1>2 DEF Send, CallMoves, States, IInv, ProgramShape, InFlight
  <1>3. CASE Read(c)
    <2>1. \E s \in {"measured", "refused", "failed"} : call' = [call EXCEPT ![c] = s]
      BY <1>3 DEF Read
    <2>2. c \in Current /\ call[c] = "sent" /\ UNCHANGED benchVars
      BY <1>3 DEF Read
    <2>3. program # "none"
      BY <2>2 DEF IInv, ProgramShape, InFlight
    <2>4. QED BY <2>1, <2>2, <2>3 DEF CallMoves, States
  <1>4. QED BY <1>1, <1>2, <1>3

(* Only a measured call yields a row that counts as a measurement, except  *)
(* of the program that also writes refusals.                               *)
LEMMA CollectKeeps == ASSUME IInv, NEW c \in Calls, Collect(c) PROVE IInv'
  <1>1. /\ c \in Current /\ main = "collecting" /\ Current' = Current /\ RunOf(c) = run - 1
        /\ call' = [call EXCEPT ![c] = "collected"]
        /\ UNCHANGED <<program, run, csv>>
    BY CurrentCalls, CurrentCallsNext DEF Collect
  <1>2. main' \in {"collecting", "failing"}
    BY <1>1 DEF Collect
  <1>3. PICK new \in SUBSET Rows :
          /\ rows' = rows \cup new
          /\ \A r \in new : r.call = c /\ (program # "latency" => r.measured)
    <2>1. CASE YieldsRow(c)
      <3> DEFINE row == [call |-> c, measured |-> call[c] = "measured"]
      <3>1. rows' = rows \cup {row}
        BY <2>1 DEF Collect
      <3>2. row \in Rows /\ row.call = c /\ (program # "latency" => row.measured)
        BY <2>1 DEF Rows, YieldsRow
      <3>3. {row} \in SUBSET Rows /\ \A r \in {row} : r.call = c /\ (program # "latency" => r.measured)
        BY <3>2
      <3> HIDE DEF row
      <3>4. QED BY <3>1, <3>3
    <2>2. CASE ~YieldsRow(c)
      <3>1. rows' = rows \cup {}
        BY <2>2 DEF Collect
      <3>2. {} \in SUBSET Rows /\ \A r \in {} : r.call = c /\ (program # "latency" => r.measured)
        OBVIOUS
      <3>3. QED BY <3>1, <3>2, Zenon
    <2>3. QED BY <2>1, <2>2
  <1>4. Types'
    BY <1>1, <1>2, <1>3 DEF IInv, Types, States
  <1>5. ProgramShape'
    BY <1>1, <1>2 DEF IInv, Types, ProgramShape, InFlight
  <1>6. RowsShape'
    BY <1>1, <1>3 DEF IInv, RowsShape
  <1>7. ASSUME NEW q \in Programs PROVE FileShape(q)'
    BY <1>1, <1>2 DEF IInv, FileShape
  <1>8. QED BY <1>4, <1>5, <1>6, <1>7 DEF IInv

(* The ends of a run: whatever the way, no call is in flight any more.     *)
LEMMA EndingKeeps == ASSUME IInv, GiveUp \/ Finish \/ Kill PROVE IInv'
  <1>1. /\ program' = "none" /\ main' \in {"idle", "done"} /\ UNCHANGED <<run, rows, csv>>
        /\ Current' = Current
    BY CurrentCalls, CurrentCallsNext DEF GiveUp, Finish, Kill
  <1>2. call' \in [Calls -> States]
    BY DEF GiveUp, Finish, Kill, IInv, Types, States
  <1>3. \A c \in Calls : call'[c] \notin InFlight
    <2>1. CASE GiveUp
      BY <2>1 DEF GiveUp, AllFinished, IInv, ProgramShape, InFlight, Finished
    <2>2. CASE Finish
      BY <2>2 DEF Finish, IInv, ProgramShape, InFlight
    <2>3. CASE Kill
      BY <2>3 DEF Kill, InFlight
    <2>4. QED BY <2>1, <2>2, <2>3
  <1>4. Types'
    BY <1>1, <1>2 DEF IInv, Types
  <1>5. ProgramShape' /\ RowsShape'
    BY <1>1, <1>3 DEF ProgramShape, RowsShape, InFlight
  <1>6. ASSUME NEW q \in Programs PROVE FileShape(q)'
    BY <1>1 DEF IInv, FileShape
  <1>7. QED BY <1>4, <1>5, <1>6 DEF IInv

(* Opening the file: an existing one of the pool is kept, with whatever    *)
(* header it has; any other is started anew by this run.                   *)
LEMMA OpenKeeps == ASSUME IInv, OpenFile PROVE IInv'
  <1>1. /\ main = "collecting" /\ \A c \in Current : call[c] = "collected"
        /\ UNCHANGED <<program, run, rows, call>> /\ Current' = Current
    BY CurrentCalls, CurrentCallsNext DEF OpenFile
  <1>2. program \in Programs
    BY <1>1 DEF IInv, Types, ProgramShape
  <1>3. \/ csv' = csv /\ main' = "writing"
        \/ csv' = [csv EXCEPT ![program] = NewFile(run)] /\ main' = "opened"
    BY DEF OpenFile
  <1>4. NewFile(run) \in [exists : BOOLEAN, by : Nat, headers : Nat, rows : SUBSET Rows]
    BY DEF NewFile, IInv, Types
  <1>5. Types'
    BY <1>1, <1>3, <1>4 DEF IInv, Types
  <1>6. ProgramShape' /\ RowsShape'
    BY <1>1, <1>3 DEF IInv, ProgramShape, RowsShape, InFlight
  <1>7. ASSUME NEW q \in Programs PROVE FileShape(q)'
    <2>1. CASE csv' = csv /\ main' = "writing"
      BY <1>1, <2>1 DEF IInv, FileShape
    <2>2. CASE csv' = [csv EXCEPT ![program] = NewFile(run)] /\ main' = "opened"
      <3>1. csv'[q] = IF q = program THEN NewFile(run) ELSE csv[q]
        BY <2>2 DEF IInv, Types
      <3>2. CASE q = program
        BY <1>1, <2>2, <3>1, <3>2 DEF FileShape, NewFile, IInv, Types
      <3>3. CASE q # program
        BY <1>1, <2>2, <3>1, <3>3 DEF FileShape, IInv
      <3>4. QED BY <3>2, <3>3
    <2>3. QED BY <1>3, <2>1, <2>2
  <1>8. QED BY <1>5, <1>6, <1>7 DEF IInv

(* A header is only written to a file this run has just started.           *)
LEMMA HeaderKeeps == ASSUME IInv, WriteHeader PROVE IInv'
  <1>1. /\ main = "opened" /\ main' = "writing"
        /\ UNCHANGED <<program, run, rows, call>> /\ Current' = Current
        /\ csv' = [csv EXCEPT ![program].headers = @ + 1]
    BY CurrentCalls, CurrentCallsNext DEF WriteHeader
  <1>2. program \in Programs
    BY <1>1 DEF IInv, Types, ProgramShape
  <1>3. Types'
    <2>1. csv' \in [Programs -> [exists : BOOLEAN, by : Nat, headers : Nat, rows : SUBSET Rows]]
      <3> DEFINE file == csv[program]
                 after == [file EXCEPT !.headers = @ + 1]
      <3>1. file \in [exists : BOOLEAN, by : Nat, headers : Nat, rows : SUBSET Rows]
        BY <1>2 DEF IInv, Types
      <3>2. file.headers + 1 \in Nat
        BY <3>1
      <3>3. after \in [exists : BOOLEAN, by : Nat, headers : Nat, rows : SUBSET Rows]
        BY <3>1, <3>2
      <3>4. csv' = [csv EXCEPT ![program] = after]
        BY <1>1
      <3> HIDE DEF after
      <3>5. QED BY <3>3, <3>4 DEF IInv, Types
    <2>2. QED BY <1>1, <2>1 DEF IInv, Types
  <1>4. ProgramShape' /\ RowsShape'
    BY <1>1 DEF IInv, ProgramShape, RowsShape, InFlight
  <1>5. ASSUME NEW q \in Programs PROVE FileShape(q)'
    <2>1. csv[q] \in [exists : BOOLEAN, by : Nat, headers : Nat, rows : SUBSET Rows]
      BY DEF IInv, Types
    <2>2. /\ csv'[q].by = csv[q].by /\ csv'[q].rows = csv[q].rows
          /\ csv'[q].headers = IF q = program THEN csv[q].headers + 1 ELSE csv[q].headers
      BY <1>1, <2>1 DEF IInv, Types
    <2>3. QED BY <1>1, <2>1, <2>2 DEF IInv, FileShape
  <1>6. QED BY <1>3, <1>4, <1>5 DEF IInv

(* A row is of this run, so a file without a header, which an earlier run  *)
(* left, gets none of its creator's.                                       *)
LEMMA RowKeeps == ASSUME IInv, WriteRow PROVE IInv'
  <1>1. /\ main = "writing" /\ UNCHANGED <<program, run, main, rows, call>> /\ Current' = Current
    BY CurrentCalls, CurrentCallsNext DEF WriteRow
  <1>2. PICK r \in rows : csv' = [csv EXCEPT ![program].rows = @ \cup {r}]
    BY DEF WriteRow
  <1>3. program \in Programs
    BY <1>1 DEF IInv, Types, ProgramShape
  <1>4. r \in Rows /\ RunOf(r.call) = run - 1 /\ (program # "latency" => r.measured)
    BY <1>3 DEF IInv, Types, RowsShape, Programs
  <1>5. Types'
    BY <1>1, <1>2, <1>4 DEF IInv, Types
  <1>6. ProgramShape' /\ RowsShape'
    BY <1>1 DEF IInv, ProgramShape, RowsShape, InFlight
  <1>7. ASSUME NEW q \in Programs PROVE FileShape(q)'
    <2>1. csv[q] \in [exists : BOOLEAN, by : Nat, headers : Nat, rows : SUBSET Rows] /\ run \in Nat
      BY DEF IInv, Types
    <2>2. /\ csv'[q].by = csv[q].by /\ csv'[q].headers = csv[q].headers
          /\ csv'[q].rows = IF q = program THEN csv[q].rows \cup {r} ELSE csv[q].rows
      BY <1>2, <2>1 DEF IInv, Types
    <2>3. QED BY <1>1, <1>4, <2>1, <2>2 DEF IInv, FileShape
  <1>8. QED BY <1>5, <1>6, <1>7 DEF IInv

(* Steps that leave calls, rows and files alone.                           *)
LEMMA OthersKeep ==
  ASSUME IInv, Interrupt \/ (\E w \in Workers : Serve(w)) \/ UNCHANGED vars PROVE IInv'
  <1>1. UNCHANGED <<program, run, call, rows, csv>> /\ Current' = Current
    BY CurrentCalls, CurrentCallsNext DEF Interrupt, Serve, vars, benchVars
  <1>2. main' = main \/ (main = "collecting" /\ main' = "failing")
    BY DEF Interrupt, Serve, vars, benchVars
  <1>3. Types'
    BY <1>1, <1>2 DEF IInv, Types
  <1>4. ProgramShape' /\ RowsShape'
    BY <1>1, <1>2 DEF IInv, ProgramShape, RowsShape, InFlight
  <1>5. ASSUME NEW q \in Programs PROVE FileShape(q)'
    BY <1>1, <1>2 DEF IInv, FileShape
  <1>6. QED BY <1>3, <1>4, <1>5 DEF IInv

(* The invariant of the benchmarks.                                        *)
LEMMA Invariance == Spec => []IInv
  <1>1. IInv /\ [Next]_vars => IInv'
    <2> SUFFICES ASSUME IInv, [Next]_vars PROVE IInv'
      OBVIOUS
    <2>1. CASE \E p \in Programs : Start(p)
      BY <2>1, StartKeeps
    <2>2. CASE \E c \in Calls : Connect(c) \/ Send(c) \/ Read(c)
      BY <2>2, SocketsMoveCalls, MovingKeeps
    <2>3. CASE \E c \in Calls : Collect(c)
      BY <2>3, CollectKeeps
    <2>4. CASE GiveUp \/ Finish \/ Kill
      BY <2>4, EndingKeeps
    <2>5. CASE OpenFile
      BY <2>5, OpenKeeps
    <2>6. CASE WriteHeader
      BY <2>6, HeaderKeeps
    <2>7. CASE WriteRow
      BY <2>7, RowKeeps
    <2>8. CASE Interrupt \/ (\E w \in Workers : Serve(w)) \/ UNCHANGED vars
      BY <2>8, OthersKeep
    <2>9. QED BY <2>1, <2>2, <2>3, <2>4, <2>5, <2>6, <2>7, <2>8 DEF Next, Client
  <1>2. QED BY <1>1, InitHolds, PTL DEF Spec

---------------------------------------------------------------------------
(* No error reply and no broken answer becomes a row of pool_benchmark.py  *)
(* or attestation_benchmark.py, in whatever order the answers come and     *)
(* whatever run left the file.                                             *)
THEOREM PublishedRowsAreMeasurements == Spec => []OnlyMeasurementsPublished
  <1>1. IInv => OnlyMeasurementsPublished
    BY DEF IInv, FileShape, OnlyMeasurementsPublished, Programs
  <1>2. QED BY <1>1, Invariance, PTL

(* However runs end, no result file gets a second header, and the run that *)
(* creates a file writes no row before it.                                 *)
THEOREM HeadersAreWrittenOnce == Spec => []OneHeader
  <1>1. IInv => OneHeader
    BY DEF IInv, FileShape, OneHeader, RunOf
  <1>2. QED BY <1>1, Invariance, PTL

(* When a program has ended, by itself, by an error, by an interrupt or    *)
(* killed, none of its calls is in flight.                                 *)
THEOREM RunsAreSeparate == Spec => []RunsDoNotOverlap
  <1>1. IInv => RunsDoNotOverlap
    BY DEF IInv, ProgramShape, RunsDoNotOverlap
  <1>2. QED BY <1>1, Invariance, PTL
=============================================================================
