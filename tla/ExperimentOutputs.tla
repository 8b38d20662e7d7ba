------------------------- MODULE ExperimentOutputs -------------------------
(***************************************************************************)
(* The result files of the phase 8 experiments.  Independent programs      *)
(* measure, process and plot; they meet only in the files below results/,  *)
(* which every run overwrites in place.  The user starts the whole chain   *)
(* (run_all_phase8_experiments.ps1) or one program of it, and any of them  *)
(* may fail or be killed at any point.                                     *)
(*                                                                         *)
(* A program is a sequence of parts; a part reads its inputs and then      *)
(* writes its outputs one by one.  Files which one function writes in a    *)
(* row, with nothing in between that could tell them apart, are one name.  *)
(***************************************************************************)
EXTENDS FiniteSetsExt, SequencesExt

CONSTANTS
  Goals,            \* what the user may start
  BundleCounts,     \* what --concurrency-bundles may be
  RequiredBundles,  \* bundles the chain experiments insist on
  MaxRuns           \* bound on the runs of the user

Measured(reads, writes) ==
  [measures |-> TRUE, reads |-> reads, atLeast |-> Cardinality(reads), writes |-> writes]
Derived(reads, writes) ==
  [measures |-> FALSE, reads |-> reads, atLeast |-> Cardinality(reads), writes |-> writes]

---------------------------------------------------------------------------
(* scripts/run_phase8_vbs_experiments.py *)

BundleNames == <<"bundle_00", "bundle_01", "bundle_02">>

PairedPerformance == Measured({}, <<"native_vbs_performance">>)
PrivacyRuns == Measured({}, <<"dp_vbs">>)
RoundingBoundaries == Measured({}, <<"dp_rounding_boundaries">>)
Composition == Measured({}, <<"dp_composition">>)
Bundles(count) == Measured({}, SubSeq(BundleNames, 1, count) \o <<"bundle_manifest">>)
VbsConfig == Measured({}, <<"vbs_config">>)

VbsExperiments(count) ==
  <<PairedPerformance, PrivacyRuns, RoundingBoundaries, Composition, Bundles(count), VbsConfig>>

(* benchmarks/phase8_chain_experiments.js.  It proves every bundle that the*)
(* directory holds, whichever run wrote it.                                *)
ProofRuns ==
  [measures |-> TRUE, reads |-> ToSet(BundleNames), atLeast |-> RequiredBundles,
   writes |-> <<"phase7_proof_runs">>]
Comparisons == Measured({}, <<"comparison_performance", "comparison_capabilities">>)
Settlements == Measured({}, <<"settlement_concurrency", "protocol_attacks">>)
Ablations == Measured({"bundle_00"}, <<"e2e_ablation">>)   \* the timing of the first bundle
BudgetExhaustion == Measured({"dp_vbs"}, <<"budget_exhaustion">>)
ChainConfig == Measured({}, <<"chain_config">>)
ChainExperiments ==
  <<ProofRuns, Comparisons, Settlements, Ablations, BudgetExhaustion, ChainConfig>>
ComparisonOnly == <<Comparisons, ChainConfig>>

(* scripts/run_attack_layer_audit.py: the test suites run again            *)
AttackLayerAudit == <<Measured({}, <<"attack_binding_matrix", "attack_binding_config">>)>>

(* zk/scripts: the raw rows and a processed copy                           *)
ZkBenchmarks ==
  <<Measured({}, <<"zk_scaling", "zk_scaling_runs", "processed_zk_scaling">>),
    Measured({}, <<"zk_backends", "processed_zk_backends", "zk_backend_runs">>)>>

---------------------------------------------------------------------------
(* scripts/process_phase8_results.py: each function reads and computes     *)
(* before it writes, but for the table of capabilities.                    *)

SummarizeAblation == Derived({"e2e_ablation"}, <<"processed_ablation">>)
SummarizeVbs == Derived({"native_vbs_performance"}, <<"processed_vbs">>)
SummarizeDp ==
  Derived({"dp_vbs", "dp_rounding_boundaries", "dp_composition", "budget_exhaustion"},
          <<"processed_dp">>)
SummarizeProtocol ==
  Derived({"protocol_attacks", "settlement_concurrency", "attack_binding_matrix"},
          <<"processed_protocol">>)
SummarizeZk ==
  Derived({"zk_scaling", "zk_backends", "zk_scaling_runs", "zk_backend_runs", "e2e_ablation",
           "comparison_performance"},
          <<"zk_trials", "processed_zk_scaling", "processed_zk_backends", "processed_zk">>)
CopyCapabilities == Derived({"comparison_capabilities"}, <<"processed_capabilities">>)
Inventory == Derived({}, <<"inventory">>)

ProcessResults_InventoryFirst ==
  <<Inventory, SummarizeAblation, SummarizeVbs, SummarizeDp, SummarizeProtocol, SummarizeZk,
    CopyCapabilities>>
ProcessResults ==
  <<SummarizeAblation, SummarizeVbs, SummarizeDp, SummarizeProtocol, SummarizeZk,
    CopyCapabilities, Inventory>>

(* scripts/plot_all_results.py: the first panels of fig4 and of fig8 are   *)
(* saved before the trials are read.                                       *)
Fig3 == Derived({"processed_ablation"}, <<"fig3">>)
Fig4a == Derived({"processed_zk_scaling"}, <<"fig4a">>)
Fig4 == Derived({"processed_zk_scaling", "zk_trials", "processed_zk"}, <<"fig4">>)
Fig5 == Derived({"processed_dp"}, <<"fig5">>)
Fig6 == Derived({"processed_vbs"}, <<"fig6">>)
Fig7 == Derived({"processed_protocol"}, <<"fig7">>)
Fig8a == Derived({"processed_capabilities"}, <<"fig8a">>)
Fig8 == Derived({"processed_capabilities", "processed_zk"}, <<"fig8">>)
PlotResults == <<Fig3, Fig4a, Fig4, Fig5, Fig6, Fig7, Fig8a, Fig8>>

(* crypto/run_aes_gcm_scaling.py and crypto/run_cpabe_policy_benchmark.py: *)
(* the configuration has the digest of the raw file as it is on disk.      *)
DigestReport_ConfigEarly(raw, summary, config) ==
  <<Measured({}, <<raw>>), Derived({raw}, <<config>>), Measured({}, <<summary>>)>>
DigestReport(raw, summary, config) ==
  <<Measured({}, <<raw, summary>>), Derived({raw}, <<config>>)>>
AesGcmScaling == DigestReport("aes_raw", "aes_summary", "aes_config")
CpAbePolicy == DigestReport("cpabe_raw", "cpabe_summary", "cpabe_config")
DigestReports == {<<"aes_raw", "aes_summary", "aes_config">>, <<"cpabe_raw", "cpabe_summary", "cpabe_config">>}

---------------------------------------------------------------------------
Program(name, count) ==
  CASE name = "vbs" -> VbsExperiments(count)
    [] name = "chain" -> ChainExperiments
    [] name = "comparison" -> ComparisonOnly
    [] name = "audit" -> AttackLayerAudit
    [] name = "zk" -> ZkBenchmarks
    [] name = "process" -> ProcessResults
    [] name = "plot" -> PlotResults
    [] name = "aes" -> AesGcmScaling
    [] name = "cpabe" -> CpAbePolicy

Programs == {"vbs", "chain", "comparison", "audit", "zk", "process", "plot", "aes", "cpabe"}

(* The chain experiments end after the comparisons when they are told to,  *)
(* by a flag or by TRUSTCIRCUIT_COMPARISON_ONLY in the environment, which  *)
(* run_all_phase8_experiments.ps1 hands down as it is.                     *)
ChainProgram(comparisonOnly) == IF comparisonOnly THEN "comparison" ELSE "chain"
Stages(comparisonOnly) ==
  <<"vbs", ChainProgram(comparisonOnly), "audit", "zk", "process", "plot">>
Plan(goal, comparisonOnly) ==
  CASE goal = "all" -> Stages(comparisonOnly)
    [] goal = "chain" -> <<ChainProgram(comparisonOnly)>>
    [] OTHER -> <<goal>>

Written(program) == UNION {ToSet(program[i].writes) : i \in DOMAIN program}
Processed == Written(ProcessResults) \ {"inventory"}
Panels == Written(PlotResults)
Groups ==    \* names which stand for several files
  {"processed_ablation", "processed_vbs", "processed_dp", "processed_protocol", "zk_trials",
   "processed_zk"} \cup Panels
Names == (Programs \ {"comparison"}) \cup {"all"}
Files == UNION {Written(Program(n, Len(BundleNames))) : n \in Programs}

ASSUME OutputConstants ==
  /\ Goals \subseteq Names
  /\ BundleCounts # {} /\ BundleCounts \subseteq 1 .. Len(BundleNames)
  /\ RequiredBundles \in Nat /\ MaxRuns \in Nat

VARIABLES
  run,       \* number of the user's run
  goal,      \* what it is for
  main,      \* where it is
  queue,     \* programs left, the running one first
  count,     \* its --concurrency-bundles
  comparisonOnly,  \* the flag, or the variable in its environment
  part, at,  \* of the program, and of the outputs of the part
  data,      \* runs that measured what the part computes from; 0: a file that was cut off
  file       \* the result files

vars == <<run, goal, main, queue, count, comparisonOnly, part, at, data, file>>

(* runs: those that wrote a part of what is there; none if there is no file*)
NoFile == [runs |-> {}, whole |-> FALSE, from |-> {}]

Init ==
  /\ run = 0 /\ goal = "all" /\ main = "idle"
  /\ queue = <<>> /\ count \in BundleCounts /\ comparisonOnly = FALSE
  /\ part = 1 /\ at = 1 /\ data = {}
  /\ file = [f \in Files |-> NoFile]

Resting == {"idle", "passed", "stopped"}

Start ==
  /\ main \in Resting /\ run < MaxRuns
  /\ run' = run + 1 /\ goal' \in Goals /\ count' \in BundleCounts /\ comparisonOnly' \in BOOLEAN
  /\ queue' = Plan(goal', comparisonOnly') /\ main' = "reading"
  /\ part' = 1 /\ at' = 1 /\ data' = {}
  /\ UNCHANGED file

Running == Program(Head(queue), count)
Part == Running[part]
Exists(f) == file[f].runs # {}
Present == {f \in Part.reads : Exists(f)}

(* read_csv, and the bundles in their directory: too few of them, and the  *)
(* program ends.  What a file that was cut off has lost goes unnoticed.    *)
Read ==
  /\ main = "reading" /\ Cardinality(Present) >= Part.atLeast
  /\ data' = (UNION {file[f].from : f \in Present})
               \cup (IF \A f \in Present : file[f].whole THEN {} ELSE {0})
               \cup (IF Part.measures THEN {run} ELSE {})
  /\ main' = "writing"
  /\ UNCHANGED <<run, goal, queue, count, comparisonOnly, part, at, file>>

(* An output is opened, which removes what it was; of a group, one file    *)
(* after the other is.                                                     *)
Open ==
  /\ main = "writing"
  /\ LET f == Part.writes[at]
         old == IF f \in Groups THEN file[f] ELSE NoFile IN
     file' = [file EXCEPT ![f] = [runs |-> old.runs \cup {run}, whole |-> FALSE,
                                  from |-> old.from \cup data]]
  /\ main' = "open"
  /\ UNCHANGED <<run, goal, queue, count, comparisonOnly, part, at, data>>

(* The program ends with exit code zero, and the next stage starts.        *)
Proceed ==
  /\ queue' = Tail(queue) /\ part' = 1 /\ at' = 1
  /\ main' = IF Tail(queue) = <<>> THEN "passed" ELSE "reading"

Close ==
  /\ main = "open"
  /\ file' = [file EXCEPT ![Part.writes[at]] = [runs |-> {run}, whole |-> TRUE, from |-> data]]
  /\ \/ /\ at < Len(Part.writes)
        /\ at' = at + 1 /\ main' = "writing" /\ UNCHANGED <<queue, part>>
     \/ /\ at = Len(Part.writes) /\ part < Len(Running)
        /\ part' = part + 1 /\ at' = 1 /\ main' = "reading" /\ UNCHANGED queue
     \/ /\ at = Len(Part.writes) /\ part = Len(Running)
        /\ Proceed
  /\ UNCHANGED <<run, goal, count, comparisonOnly, data>>

(* An input is missing, a check does not hold, a child fails, a table is   *)
(* empty: an exception, exit code one, and the chain of stages is left.    *)
(* Or the user interrupts it all.                                          *)
Stop_ExitCodeUnchecked ==
  /\ main \in {"reading", "writing", "open"}
  /\ Proceed
  /\ UNCHANGED <<run, goal, count, comparisonOnly, data, file>>

Stop ==
  /\ main \in {"reading", "writing", "open"}
  /\ main' = "stopped"
  /\ UNCHANGED <<run, goal, queue, count, comparisonOnly, part, at, data, file>>

Next == Start \/ Read \/ Open \/ Close \/ Stop

Spec == Init /\ [][Next]_vars

---------------------------------------------------------------------------
(* What the files say *)

(* When the whole chain says PASS, every processed table and every panel   *)
(* was written by it and is whole; and if its chain experiments were not   *)
(* cut down to the comparisons, all of it is computed from measurements of *)
(* this run only: nothing that earlier, failed or partial runs left is in  *)
(* it.                                                                     *)
PassMeansFresh ==
  main = "passed" /\ goal = "all" =>
    \A f \in Processed \cup Panels :
      /\ file[f].runs = {run} /\ file[f].whole
      /\ ~ comparisonOnly => file[f].from = {run}

(* experiment_inventory.json is written last: no listed file is older than *)
(* it, and one that is not whole is of a later run.                        *)
InventoryCertifies ==
  LET inventory == file["inventory"] IN
  \A g \in inventory.runs : \A f \in Processed :
    /\ \A r \in file[f].runs : r >= g
    /\ file[f].whole \/ \E r \in file[f].runs : r > g

(* A configuration whose digest is that of the raw file: the summary beside*)
(* it is whole and computed from that very file, also after a later run    *)
(* was stopped between the three files.                                    *)
DigestCertifies ==
  \A report \in DigestReports :
    LET raw == file[report[1]]
        summary == file[report[2]]
        config == file[report[3]]
    IN config.whole /\ raw.whole /\ config.from = raw.from =>
         summary.whole /\ summary.from = raw.from
=============================================================================
