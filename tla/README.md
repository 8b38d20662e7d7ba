# TrustCircuit in TLA+

A specification of TrustCircuit's on-chain protocol, with TLC models and TLAPS
proofs. The source it describes is the repository's; paths below are relative
to its root.

## The system

TrustCircuit lets a *consumer* obtain a differentially private aggregate of a
*provider's* dataset. An enclave computes the aggregate, a Groth16 proof ties
the result to a registered context, and a set of contracts charges the
privacy budget when the proof is accepted.

| component | state | operations | hard behaviour | what makes it correct |
|---|---|---|---|---|
| `contracts/DataRegistry.sol` | `assets` | `registerAsset`, `registerAssetV2` | first come, first served; no update | an asset never changes |
| `contracts/AccessController.sol` | `requests` | `requestAccess(V2)`, approve, reject, complete | every transition is open to every caller | a request only moves forward |
| `contracts/BudgetLedger.sol` | `budgets`, `reservations` | register, reserve, consume, release | racing reservations, checked arithmetic, zero keys | solvency; counters equal sums; a request is charged once |
| `contracts/ComplianceVerifier.sol` | `expectations`, `nullifierUsed`, `owner` | register, `submitCompliance`, `transferOwnership` | direct submission beside `settle`; keys reduced modulo the field; seconds against milliseconds | a nullifier is spent once and belongs to one request |
| `zk/circuits/compliance_check.circom`, `contracts/Phase7Groth16Verifier.sol` | none | prove, verify | which signals the relation really binds | the nullifier determines the context |
| `contracts/AuditLedger.sol` | event log | `recordAudit`, `recordSettlement` | anybody can emit | every settlement has its record |
| `contracts/TrustCircuitSettlement.sol` | `owner`, events | `reserveBudgetForRequest`, `settle`, `transferOwnership` | five contracts change in one transaction, and stay open to direct calls in between | all parts of a settlement or none |
| `tee/vbs` enclave and host | out-parameters, evidence | execute encrypted request, validate evidence | many early returns; expiry window; a rebuild between two processes | a caller only sees whole results |
| `tee/vbs/*.py`, `scripts/prepare_*.py` | child processes, a directory with the key, an output file | stage, execute, validate, encode, write | hanging, dying and blocking children; timeout; interrupt | evidence attached belongs to its execution; the key is removed when the directory is left; every call ends |
| `tee/nitro/*.py` | connections, rows, CSV files | accept, receive, answer; connect, send, collect, append | split messages, error replies, dead clients and workers | only measurements are published; every run ends |
| `tee/workload_benchmark.py`, `tee/attack_simulation.py` | process pool, rows, checkpoints | submit, collect, retry, checkpoint, publish | memory errors, interrupts, kills between files | a file is about one attempt; verdicts do not depend on the schedule |
| phase 8: `scripts/run_all_phase8_experiments.ps1` and what it starts, `crypto/run_*.py` | the files below `results/` | measure, process, plot | any program fails or is killed at any file, and is run again | files that vouch for others are right |
| `scripts/run_trustcircuit_e2e.js` | bundle | deploy, register, reserve, prove, settle | order of off-chain and on-chain steps | the reservation precedes what it pays for |
| `benchmarks/base_sepolia_settlement.js` | result store, confirmation tracker | send, track, checkpoint, resume | late receipts, failed sends, restart | every sent transaction has a row |
| `crypto/abe_hybrid.js` | none | encrypt, decrypt by access tree | nested thresholds | decryption iff the tree is satisfied |

Interactions: the settlement contract calls the other five; the enclave and
its host produce the evidence and the proof inputs the driver passes to
`registerExpectation` and `settle`; the benchmarks drive the same contracts.
Contracts share no storage; they see each other by calls, and a
revert anywhere undoes the transaction. Off the chain, the pipeline's programs
start host and enclave as child processes, the Nitro clients talk to workers
over sockets, and the experiment programs meet only in result files.

## Modules

| module | models | state and actions |
|---|---|---|
| `BudgetLedger` | `BudgetLedger.sol` | the mappings, one operator per function, `msg.sender` as parameter; `charged` adds up what `BudgetConsumed` events report |
| `PrivacyOdometer` | abstract | what a ledger promises: claims against a limit, admitted only while their sum fits |
| `BudgetLedgerOdometer` | refinement mapping | the ledger seen as an odometer: a reservation is a claim, the counters are not looked at |
| `MCBudgetLedger` | | the ledger's TLC instance |
| `FiniteSums` | | lemmas about sums over finite sets, for the ledger's counters |
| `BudgetLedgerProofs` | | theorems of the ledger |
| `DataRegistry`, `AccessController`, `AuditLedger` | the contract of that name | one operator per function |
| `ComplianceCircuit` | circuit and verifier | `ComplianceCheck` is the relation; `verifyProof` holds iff some witness satisfies it |
| `ComplianceVerifier` | `ComplianceVerifier.sol` | expectations, nullifiers, owner |
| `TrustCircuitSettlement` | `TrustCircuitSettlement.sol` | instantiates the five others; `settle` is one action, the conjunction of its guards and of the operations it calls |
| `AtomicSettlement` | abstract | a request's account: open, held, settled in one step |
| `SettlementAccounts` | refinement mapping | what the contracts together know of a request is its account |
| `MCSettlement` | | input sets and further statements for TLC |
| `TrustCircuitSettlementProofs` | | theorems of the composition |
| `VbsHost` | a host or native process with its enclave | `proc`: what was started, from which image, the stages done and out-parameters set, the answer; `Stage`, `Fail`, `Answer`, `Die` |
| `VbsPipeline` | the Python call around it: `pipeline_client.py`, `attestation_validator.py`, `phase7_encoding.py`, `run_pipeline.py`, `prepare_phase7_bundle.py`, `prepare_phase8_comparison_sample.py` | `pc` is the place in the call, `files` its temporary directory, `exit` the way it left the block with that directory, which `Remove` may not empty when a child holds a file open, `execution` and `statement` what it has parsed, `output` its file; instantiates `VbsHost`; ages stand for clocks |
| `NitroWorker` | `nitro/enclave_worker.py` | the server loop, its backlog and the two ends of each connection; the `finally` clause closes the worker's end (`Closed`) |
| `NitroBenchmark` | the three clients | the running program, its calls, rows and files; instantiates `NitroWorker` |
| `FuturesPool` | `concurrent.futures`, as used | a set of futures |
| `WorkloadBenchmark` | `workload_benchmark.py` | retry loop, rows of an attempt, files with the run that wrote them; instantiates `FuturesPool` |
| `AttackSimulation` | `attack_simulation.py` | a job is a place in the list `build_jobs` makes, so a trial may be in it twice; `Verdict` is `run_trial` without timings; sequential and pooled runs, checkpoints, what the run says to its user (`says`), any number of interrupts (`StopPool`, `StopRun`, `StopProcess`), exceptions (`Fail`); instantiates `FuturesPool` |
| `MCAttackSimulation` | | its lists of attacks and severities for TLC |
| `VbsPipelineProofs`, `NitroBenchmarkProofs`, `WorkloadBenchmarkProofs`, `AttackSimulationProofs`, `ExperimentOutputsProofs` | | theorems of the module of that name |
| `ExperimentOutputs` | the phase 8 programs | a program is a sequence of parts with the files each reads and writes; a file remembers the runs that wrote it (`runs`) and measured what is in it (`from`), and whether it is whole; `comparisonOnly` is the flag, or the variable in the environment, that cuts the chain experiments down to the comparisons |

Modelling conventions.

* A call whose guard fails reverts, so it is no step. A transaction is atomic,
  so it is one step; the interleavings are those of transactions.
* Keys, hashes and addresses are naturals and 0 is the default of a mapping
  slot, so the zero key and the empty slot coincide as they do in storage.
* `resultHash`, `transcriptHash` and `attestationDigest` are registered,
  compared and logged alike everywhere; one field, `evidence`, stands for all
  three. Hashes that are only logged are left out.
* The proof system is idealised: a proof of signals exists exactly when the
  relation has a witness. The Poseidon function is a parameter.
* `block.timestamp * 1000` does not overflow for any real timestamp; the model
  leaves that guard out. The 64-bit range check of the policy version in the
  circuit is left out too, which only admits more.
* Off-chain modules run the programs of one user one after the other over the
  same files; a file that is being written when its program ends stays cut off.
  A cut-off table is read without complaint, as `csv` does.
* `VbsPipeline` keeps ages instead of clocks, capped one past the last limit
  they are compared with. Deadline, timeout and lifetime are small numbers in an
  order that lets each of them expire first.
* In `ExperimentOutputs` a name may stand for files one function writes in a
  row; until the last is written such a group holds a mix of runs. The commands that only
  build and test are left out, and so is `zk_schemes_gas.js`, whose file no stage reads.
* In `AttackSimulation` the detector's draw is a fixed, arbitrary function of the
  trial and of whether the policy let it through, since the generator is seeded
  with the trial.
* Leaving the block with the temporary directory and removing it are two steps of
  `VbsPipeline`. Windows does not remove a file some process has open, so after
  an interrupt whose child was not waited for the removal may raise and leave
  any of the files; a second interrupt or a kill may cut it off. These are the
  exceptions `KeyRemoved` names, beside a kill of the caller at any time.
* The worker's `finally` clause closes the connection whatever happened, so a
  client always gets an answer, a part of one, or nothing and the end of the
  stream. The values of `--cids` are taken to be distinct.
* `StoppedRunKeepsItsRows` is about what the program tells its user, since an
  interrupt does not always end in a stop: a second one during the handler's
  checkpoint ends a run that says it was stopped but not that its checkpoint was
  kept, and one during the final writes ends it with a traceback, published files
  half overwritten, and says neither. "Kept" is printed with
  `--disable-checkpoints` as well, where it means nothing.
* `VerdictsIndependentOfSchedule` has one exception, which is in the code: when a value
  is named twice in `--attacks` or `--severity-levels`, a sequential run takes the second
  trial for a replay and a pool does not.
* `newOwner` may be any address in the model and in the theorems, 0 and the
  settlement contract included; the run hands over to the two users.
* An operator `Op_Xyz` directly before `Op` is a bug planted to show that a
  property can fail; nothing uses it.

## Runs

| run | cfg | checks | bounds |
|---|---|---|---|
| `budget_ledger` | `MCBudgetLedger.cfg` | type invariant, solvency, charge per request, counters equal sums, arithmetic never locks a holder out, slot history, refinement of `PrivacyOdometer` | 2 assets (one under the zero key), 3 requests, 2 callers, amounts 0..3, maximum integer 3 |
| `settlement` | `MCSettlement.cfg` | the composition with one request: held as approved, all or nothing, nullifiers, policy, held until settled | 1 asset, 1 request, 2 users, amounts 0..2, 3 blocks, right and wrong hashes, functions, costs and nullifiers |
| `twin_requests` | `MCTwinRequests.cfg` | two requests with equal keys modulo the field: nullifiers, spend within budget, refinement of `AtomicSettlement` | request keys 1 and 8 in a field of 7, 1 user, amounts 1 and 2, 2 nonces, one block |
| `open_calls` | `MCOpenCalls.cfg` | ownership handed over, audit events forged: all or nothing, freshness | as `settlement` with amount 1 and the right hashes only; 2 new owners (the users), a forged record, a stage record |
| `verified_directly` | `MCVerifiedDirectly.cfg` | `VerifiedOnlyBySettling`, violated | as `settlement` |
| `under_reported` | `MCUnderReported.cfg` | `ChargedAsRegistered`, violated | as `settlement` |
| `vbs_pipeline` | `VbsPipeline.cfg` | type invariant, whole results only, no child left, key removed, statement of the executing enclave, earlier output kept, late execution never attached, every call ends | 1 call of any of 4 programs, 2 program images, timeout 1, deadline 3 (2 for `run_pipeline`), lifetime 2 |
| `nitro_benchmark` | `NitroBenchmark.cfg` | only measurements published, one header, runs do not overlap, every run ends | 2 workers, 2 runs of 2 calls, any of 3 programs |
| `nitro_worker_dies` | `NitroWorkerDies.cfg` | `EnclaveStaysAlive`, violated | 1 worker, 1 call |
| `workload_benchmark` | `WorkloadBenchmark.cfg` | one attempt per group, memory within plan, configuration marks completion, every workload ends | worker counts 1 and 2, 1 request each, 4 MB per worker, reduced to 65% at each memory error and at least 1, 2 runs |
| `attack_simulation` | `MCAttackSimulation.cfg` | verdicts independent of the schedule, a stopped run keeps its rows, no trial after return | 1 attack, severities 0, 100 and 0 again, 1 trial, 1 or 2 workers, checkpoint every 3, at most 1 draw that detects, 2 runs |
| `experiment_outputs` | `ExperimentOutputs.cfg` | PASS means fresh, the inventory certifies, the digest certifies | the whole chain or any of its programs, 2 or 3 bundles of which 2 are required, whole or cut down to the comparisons, 2 runs |

The largest run, `attack_simulation`, has about 770,000 distinct states.

Why these bounds: three requests are the fewest with one consumed, one
released and one outstanding at once; a total of 3 is the least that two unequal
reservations can exhaust and overflow; two requests with aliasing keys are the
fewest that can fight over a proof. Time 0, 1 and 2 lie before, at and
after an expiry of 1000 ms. `MaxUint` is as small as the largest amount so that
every checked addition is at its limit. The state space is finite without
constraints because every slot is written a bounded number of times.

`CHECK_DEADLOCK FALSE` is set because once every key has been used no transaction
succeeds any more: that is the end of the system, not an error. The off-chain
modules stop for a like reason: the call has ended, or the bounded number of runs
has been made.

Why the off-chain bounds: pipeline calls share nothing but the image and the
clock, so one call meets everything another could do to it, and two have 16
million states. Two runs are the fewest in which one overwrites what another left;
two workers the fewest that can be at different places of the loop. Three
memory errors lead from 4 MB to below 1. With one detecting
draw verdicts with and without detection meet in one run. A severity named
twice makes a list with a repeated trial and a different one between. `replay_request`, which
is blocked in every schedule, is left to the theorems; so are more attacks, which have sets
of seen requests of their own.

### Fairness

The contracts have none: the chain guarantees nobody that a transaction will be
sent, and the contract runs have no liveness property. In particular a reservation
of the settlement contract may stay for ever (its request completed
directly, its attestation expired, its proof already submitted); the model shows
that settlement is the only way out (`HeldUntilSettled`) and no document
promises another.

Off the chain, what is fair is what the operating system or the interpreter
runs by itself:

* `VbsPipeline`: each calling process and the clock, nothing of the child: it
  may hang, die or block on a full pipe, and `EveryCallEnds` must follow from
  the caller's timeout alone.
* `NitroBenchmark`: the client and each server loop. No socket has a timeout, so
  `EveryRunEnds` does need the worker to go on or to be gone. What it shows is that
  neither waits for more bytes than the other will send: the worker acts on what
  one `recv` returns, and its answer, its `close` or its end wakes the client. The
  error reply only tells the client why.
* `WorkloadBenchmark`: the main thread and the workers of the pool, each of which
  returns or raises. That the retry loop ends is not assumed: it follows from the
  shrinking memory.

No fairness is given to interrupts, kills, rebuilds or to the user. The two
remaining modules have no liveness property; their properties are about what is
on disk when a program stops anywhere.

### Divergences the runs show

* `verified_directly`: `submitCompliance` is open to every caller
  (`contracts/ComplianceVerifier.sol:182`), so verification and nullifier update can
  happen without budget consumption, completion and audit record;
  `tee/vbs/PROTOCOL.md:254-257` describes them as one transaction. The later
  `settle` reverts with `AlreadyVerified` and the held budget stays held.
* `under_reported`: signal 7 is bounded by the registered maximum and not
  matched (`contracts/ComplianceVerifier.sol:205-209`); the protocol text names it
  the actual cost and says each signal is matched.
* `nitro_worker_dies`: `tee/nitro/enclave_worker.py:136` says "keep enclave alive
  during benchmark failures", but the error reply in that clause (line 138) is
  not caught: a client that is killed after it connected makes `recv` return
  nothing, the parse fail, the error reply raise, and the server loop end.

Noted without a run: `phase8_chain_experiments.js:1231-1233` ends after its
comparisons, with exit code 0, when `TRUSTCIRCUIT_COMPARISON_ONLY` is 1 in the
environment, and `scripts/run_all_phase8_experiments.ps1:46-49` starts it without
clearing the variable, so the chain may print "PASS: Phase 8 raw data, processed data, and
all panels generated" (`:68`) when the settlements, attacks, ablations and budgets behind
the tables are of an earlier run. The model has that case; `PassMeansFresh` then still shows
that every table and panel is whole and of this run, and that all is measured in this
run when the variable is not set. Further: `pool_benchmark.py` decides on the header before it opens
the file, so a run killed right after leaves an empty file and later rows get no
header (`OneHeader` says exactly what does hold); `process_phase8_results.py` run
on its own may combine measurements of different runs (`PassMeansFresh` is
about the whole chain: all of it when the chain experiments are complete, and only that
tables and panels are its own and whole when they were cut down to the comparisons);
`phase8_chain_experiments.js` run on its own takes one timing of `e2e_ablation` from
the first bundle on disk, which an earlier program wrote; it also proves bundles of an
earlier, larger run, which only reach a file nothing processes;
`run_attack_layer_audit.py` looks for the test's name in the output of the suite, which a
skipped test has too; `attack_simulation.py` groups severities by two decimals;
`dp/public_dataset_experiment.py` reads a cache that a killed download may have cut off.

## Proofs

Every safety invariant and action property of the passing runs is a theorem, as
are both refinements. Each theorem is `Spec => []Inv`, `Spec => [][A]_vars` or
`Spec => AbstractSpec`, for all values of the constants under the named
assumptions of the module that declares them. Where the checked invariant is not
inductive by itself, the proof module defines a stronger one (`IInv`, in the ledger
`LedgerInv`), which TLC was given first on the run of that module.

Assumptions on constants: keys and hashes are naturals, 0 is no user's address, the
settlement contract is no user, new owners are any addresses, amounts are at most `MaxUint`, signals and
expectations are typed records; off the chain, counts, limits and numbers of runs are
naturals, positive where the programs check it. The set of request keys is finite
(`FiniteRequestKeys`, `RequestKeysFinite`): a key is a `bytes32`, and only with
finitely many of them does a sum over all requests mean anything. Nothing else
uses it.

### The ledger (`BudgetLedgerProofs`)

`LedgerInv` is type correctness with slot shapes, `Solvency`,
`ChargedWithinReservation` and `CountersMatchReservations`. Solvency alone is not
inductive: releasing needs the amounts to be naturals, and charging needs the
charge to be at most the reservation. It needs no sum, since the checked subtraction
is itself a guard; that this guard never stands in a holder's way
(`LedgerArithmetic`) needs them, because only the sum says that one
reservation is at most the whole `reserved` counter. Each call changes one summand:
`reserve` adds one, `consume` moves one from the first sum to the second,
`release` removes one.

Theorems: `LedgerTypeCorrect`, `LedgerSolvency`, `LedgerCharges`, `LedgerCounters`,
`LedgerArithmetic`, `LedgerHistoryHolds`, `LedgerImplementsOdometer`. The refinement
takes register, reserve, consume and release to the odometer's limit, admit, spend and
return; that `reserve` only admits what the odometer admits is again the sums.

`FiniteSums` derives what the ledger needs of the library's sum (empty, one element
more or less, union, monotone, equal values, equal sums under renaming) from its
definition. The library's induction theorems cannot be used (their predicate is an
operator), so these lemmas take a smallest counterexample instead: among the sets where
a fact fails one of least cardinality is chosen, and one element is removed from it.

### The composed contracts (`TrustCircuitSettlementProofs`)

`IInv` adds to the checked invariants that a request names an asset key once made, that a
verified expectation is registered, that an event names a request key and an asset
with an owner, and the ledger's own invariant. `OutsideStep` summarises what all calls that
bypass the settlement contract may do to what it relies on: owned assets and verified
expectations are frozen, requests only move forward, the settlement contract's
reservations are untouched. Every such call is shown to be an outside step and
outside steps to keep the invariant; `reserveBudgetForRequest` and `settle` are taken
one by one. The ledger's lemmas are reused by instantiation; they are stated for any
natural amount because the settlement contract passes amounts taken from requests and
proofs.

Theorems: `SettlementTypeCorrect`, `HeldBudgetWasApproved`, `SettlementIsAtomic`,
`NullifiersAreSpentOnce`, `SettledUnderPolicy`, `SettledBeforeExpiry`,
`LedgerSolventInComposition`, `HeldBudgetIsOnlySettled`, and

* `ReportedSpendIsCovered`: what the settlement events report for an asset is within its
  budget. Each event is a request the settlement contract consumed, so the sum over
  events is at most the ledger's sum over consumed requests, which is `used`.
* `SettlementImplementsAccounts`: the contracts implement `AtomicSettlement`. The
  mapping needs `AccountsInv`, that is `IInv`, that a request keeps an amount it may have
  asked for, and that the settlement contract's reservations are never released. An outside
  step is a stutter or burns nullifiers, a reservation is the account's `Hold`, and
  `settle` takes every part of the account to settled at once.

### Off the chain

| module | inductive invariant, and why it is needed | theorems |
|---|---|---|
| `VbsPipelineProofs` | `ChildShape`: a child has done its stages in order, so an answer "ok" has all out-parameters; `CallShape`: which child there is at each `pc`, and what exit, results, statement and output file may be there. `KeyIsRemoved` and `LateExecutionsAreRefused` are about steps: the first looks at every way out of the block, the second needs besides that ages never decrease while a call is past its execution. Calls share only clock and image, so a step of one leaves the others' shapes alone | `PipelineTypeCorrect`, `ParsedResultsAreWhole`, `ChildrenAreCollected`, `KeyIsRemoved`, `StatementsMatchExecutions`, `EarlierOutputIsKept`, `LateExecutionsAreRefused` |
| `NitroBenchmarkProofs` | calls in flight are of the present run, rows at hand are measured, a file is of an earlier run until this one opens it. Nothing is assumed of the workers, so a dead, confused or killed one cannot break it | `PublishedRowsAreMeasurements`, `HeadersAreWrittenOnce`, `RunsAreSeparate` |
| `WorkloadBenchmarkProofs` | the pool holds jobs of the one attempt; scratch never exceeds its first value; worker counts not left have a whole group in the rows; the files before the configuration are published when it is written. Memory: running workers times scratch is bounded by the plan of the largest count | `GroupsAreOfOneAttempt`, `MemoryStaysWithinPlan`, `ConfigurationMarksCompletion` |
| `AttackSimulationProofs` | a sequential run takes the jobs in the order of the list (`TodoShape`) and has seen exactly the ids of the trials it has finished and let through (`SeenShape`); ids of different trials differ, so what it has seen decides a job only if the same trial stands before it, and blocks it then; futures exist only in a pool's block or after a process that could not wait for it; nothing is published before the block is left, and what the run has said is true of the files and nothing is written after it (`FilesShape`) | `VerdictsDoNotDependOnSchedule`, `StoppingKeepsRows`, `ReturnLeavesNoTrial` |
| `ExperimentOutputsProofs` | below | `ChainPassesOnFreshResults`, `InventoryVouches`, `DigestVouches` |

The proof about the result files has two layers. The first turns the programs, which are
constant sequences, into facts: `Table` says which file is output where, `Input` which
is read where; from these, no program writes a file twice (`OutputsDiffer`), no
two stages of the chain write the same file but for the copies the circuits' benchmarks
make (`StagesDiffer`), and every part of the chain that anything processed
depends on reads only outputs of earlier stages (`Sources`). The second is the
invariant: what the running program has behind it is its own and whole
(`WrittenShape`); in the chain so are the processed tables and panels of the stages before
(`TablesShape`), and if its chain experiments are complete (`Complete`) all outputs of the
stages before, computed from this run's measurements only (`FreshShape`, without
`phase7_proof_runs`, which is made from whatever bundles there are, and the inventory); once the inventory is open nothing
processed is written any more in this run (`InventoryShape`); and while a report's three
files are made, its configuration is of an earlier run or the other two belong
together (`DigestShape`, one argument for both reports).

The invariants were checked on the runs' configurations before they were proved; the
larger ones: `AttackSimulation` 770,090 distinct states, `VbsPipeline` 377,236,
`ExperimentOutputs` 217,468, `NitroBenchmark` 204,432, `WorkloadBenchmark` 34,384.

### Only model-checked

* `EveryCallEnds`, `EveryRunEnds`, `EveryWorkloadEnds`: liveness under fairness, and with it
  ENABLED, is out of the prover's reach.
* The three expected violations, which are counterexamples.
* Nothing is proved about what a computation over data yields (the aggregate, the
  statistics, the cryptography): that would be induction over data.

## Plan

1. Done: the ledger with its odometer; the composed contracts; the VBS pipeline with its
   host, the Nitro workers, the workload and attack simulations, the phase 8 result
   files.
2. Done: the theorems above, for every safety property and both refinements.
3. Open: `benchmarks/base_sepolia_settlement.js` (sender, confirmation tracker, result
   store), whose hazards are listed without a property; the liveness statements could be
   complemented by proofs of the variants they rest on (ages grow up to a limit, scratch
   shrinks at every memory error).

## Not modelled

* `benchmarks/base_sepolia_settlement.js`: see the plan.
* `scripts/run_trustcircuit_e2e.js`: one straight line of transactions; what
  others do in between is in the settlement runs.
* `tee/vbs/Shared/DatasetAggregate.h`, `crypto/abe_hybrid.js`: computations over data.
* `tee/worker_sim.py`, `tee/pool_benchmark.py`, `tee/redundancy_attack_benchmark.py`: a
  pure computation mapped over a pool.
* Cost models and DP experiments: floating point without protocol state.
* Generated verifiers and comparison contracts (gas baselines), figures and tables
  outside the chain of phase 8, cryptographic primitives.
