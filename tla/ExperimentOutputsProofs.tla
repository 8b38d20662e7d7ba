---------------------- MODULE ExperimentOutputsProofs ----------------------
(***************************************************************************)
(* Theorems about the result files of the phase 8 experiments.             *)
(*                                                                         *)
(* What the three statements need is where the running program is: the     *)
(* outputs it has behind it are its own and whole, and in the chain so are *)
(* the tables and panels of the stages before it; in a complete chain, one *)
(* whose chain experiments are not cut down to the comparisons, all of it  *)
(* is computed from this run's measurements only, with few exceptions that *)
(* nothing processed depends on.                                           *)
(***************************************************************************)
EXTENDS ExperimentOutputs, TLAPS

Active == {"reading", "writing", "open"}

(* f is the i-th output of part r; of part p of program n.                 *)
Writes(r, i, f) == i \in 1 .. Len(r.writes) /\ i \in DOMAIN r.writes /\ f = r.writes[i]
Output(n, c, p, i, f) == p \in 1 .. Len(Program(n, c)) /\ Writes(Program(n, c)[p], i, f)

Types ==
  /\ run \in Nat /\ goal \in Names /\ main \in Resting \cup Active
  /\ main # "idle" => run >= 1
  /\ count \in 1 .. 3 /\ comparisonOnly \in BOOLEAN
  /\ part \in Nat \ {0} /\ at \in Nat \ {0}
  /\ data \in SUBSET (0 .. run)
  /\ file \in [Files -> [runs : SUBSET (1 .. run), whole : BOOLEAN, from : SUBSET (0 .. run)]]

(* The queue is what is left of the plan: of the complete chain's line, or *)
(* of one with the comparisons in the place of the chain experiments.      *)
Line == Stages(FALSE)
StageIs(s, n) == n = Line[s] \/ (comparisonOnly /\ s = 2 /\ n = "comparison")

QueueShape ==
  /\ queue \in Seq(Programs)
  /\ goal # "all" => Len(queue) <= 1
  /\ goal = "all" => /\ Len(queue) <= 6
                     /\ \A i \in 1 .. Len(queue) : StageIs(i + 6 - Len(queue), queue[i])
  /\ main = "passed" => queue = <<>>

PlaceShape ==
  main \in Active =>
    /\ queue # <<>>
    /\ part \in 1 .. Len(Running) /\ at \in 1 .. Len(Part.writes)
    /\ main = "reading" => at = 1

(* The running program has f, its output i of part q, behind it.           *)
Behind(q, i, f) ==
  /\ Output(Head(queue), count, q, i, f)
  /\ q < part \/ (q = part /\ i < at)

WrittenShape ==
  main \in Active =>
    \A q, i \in Nat, f \in Files : Behind(q, i, f) => file[f].runs = {run} /\ file[f].whole

(* Once the inventory has been opened, its program has nothing left but to *)
(* close it, and does not come again in this run.                          *)
InventoryShape ==
  run \in file["inventory"].runs /\ main \in Active =>
    \/ Head(queue) = "plot"
    \/ Head(queue) = "process" /\ part = 7 /\ main = "open"

(* While a report is made, its configuration still is of an earlier run or *)
(* its other two files belong together.                                    *)
DigestShape(n, raw, summary, config) ==
  main \in Active /\ Head(queue) = n =>
    /\ part = 1 => /\ run \notin file[config].from
                   /\ main # "reading" => data = {run}
                   /\ at = 2 => file[raw].whole /\ file[raw].from = {run}
    /\ part = 2 => /\ file[raw].whole /\ file[raw].from = {run}
                   /\ file[summary].whole /\ file[summary].from = {run}
                   /\ main # "reading" => data = {run}

(* The stage of the chain that runs; 7 when all are done.  Exempt are      *)
(* phase7_proof_runs and the inventory, and the copies the circuits'       *)
(* benchmarks make, which process_phase8_results writes again.             *)
Stage == 7 - Len(queue)
Exempt(s, q) == (s = 2 /\ q = 1) \/ (s = 5 /\ q = 7)
Copies == {"processed_zk_scaling", "processed_zk_backends"}
Past(s, q, i, f) ==
  /\ Output(Line[s], count, q, i, f)
  /\ ~ Exempt(s, q) /\ (s = 4 => f \notin Copies)
  /\ s < Stage \/ (s = Stage /\ (q < part \/ (q = part /\ i < at)))

Complete == goal = "all" /\ ~ comparisonOnly
Fresh(f) == file[f] = [runs |-> {run}, whole |-> TRUE, from |-> {run}]

FreshShape ==
  Complete /\ main \in Active \cup {"passed"} =>
    /\ \A s \in 1 .. 6, q, i \in Nat, f \in Files : Past(s, q, i, f) => Fresh(f)
    /\ main \in {"writing", "open"} /\ ~ Exempt(Stage, part) => data = {run}

(* The tables and panels of the stages that are done.                      *)
Made(f) == file[f].runs = {run} /\ file[f].whole
TablesShape ==
  goal = "all" /\ main \in Active \cup {"passed"} =>
    /\ Stage >= 6 => \A f \in Processed : Made(f)
    /\ Stage = 7 => \A f \in Panels : Made(f)

IInv ==
  /\ Types /\ QueueShape /\ PlaceShape /\ WrittenShape
  /\ InventoryShape /\ InventoryCertifies
  /\ DigestShape("aes", "aes_raw", "aes_summary", "aes_config")
  /\ DigestShape("cpabe", "cpabe_raw", "cpabe_summary", "cpabe_config")
  /\ DigestCertifies
  /\ FreshShape /\ TablesShape
---------------------------------------------------------------------------
(* Which file is output where *)

Length(s, n) == Len(s) = n /\ DOMAIN s = 1 .. n
Indexed(r) == DOMAIN r.writes = 1 .. Len(r.writes)
Gives1(r, f) ==
  /\ Indexed(r)
  /\ \A i, x : Writes(r, i, x) <=> i = 1 /\ x = f
Gives2(r, f, g) ==
  /\ Indexed(r)
  /\ \A i, x : Writes(r, i, x) <=> (i = 1 /\ x = f) \/ (i = 2 /\ x = g)
Gives3(r, f, g, h) ==
  /\ Indexed(r)
  /\ \A i, x : Writes(r, i, x) <=> (i = 1 /\ x = f) \/ (i = 2 /\ x = g) \/ (i = 3 /\ x = h)
Gives4(r, f, g, h, k) ==
  /\ Indexed(r)
  /\ \A i, x : Writes(r, i, x) <=>
                 (i = 1 /\ x = f) \/ (i = 2 /\ x = g) \/ (i = 3 /\ x = h) \/ (i = 4 /\ x = k)
GivesBundles(r, c) ==
  /\ Indexed(r)
  /\ \A i, x : Writes(r, i, x) <=> \/ i = 1 /\ x = "bundle_00"
                                   \/ i = 2 /\ i <= c /\ x = "bundle_01"
                                   \/ i = 3 /\ i <= c /\ x = "bundle_02"
                                   \/ i = c + 1 /\ x = "bundle_manifest"

LEMMA PartsGive ==
  ASSUME NEW R, NEW f, NEW g, NEW h, NEW k
  PROVE  /\ Gives1(Measured(R, <<f>>), f) /\ Gives1(Derived(R, <<f>>), f)
         /\ Gives2(Measured(R, <<f, g>>), f, g)
         /\ Gives3(Measured(R, <<f, g, h>>), f, g, h)
         /\ Gives4(Derived(R, <<f, g, h, k>>), f, g, h, k)
BY DEF Gives1, Gives2, Gives3, Gives4, Indexed, Writes, Measured, Derived

LEMMA BundlesGive ==
  ASSUME NEW c \in 1 .. 3
  PROVE  GivesBundles(Bundles(c), c)
<1>. DEFINE w == SubSeq(BundleNames, 1, c) \o <<"bundle_manifest">>
<1>1. Bundles(c).writes = w
  BY DEF Bundles, Measured
<1>2. /\ Len(w) = c + 1 /\ DOMAIN w = 1 .. c + 1
      /\ \A i \in 1 .. c : w[i] = BundleNames[i]
      /\ w[c + 1] = "bundle_manifest"
  BY DEF BundleNames
<1>3. BundleNames[1] = "bundle_00" /\ BundleNames[2] = "bundle_01" /\ BundleNames[3] = "bundle_02"
  BY DEF BundleNames
<1>. HIDE DEF w
<1>4. \A i, x : Writes(Bundles(c), i, x) <=> i \in 1 .. c + 1 /\ x = w[i]
  BY <1>1, <1>2 DEF Writes
<1>5. \A i, x : i \in 1 .. c + 1 /\ x = w[i] <=> \/ i = 1 /\ x = "bundle_00"
                                                 \/ i = 2 /\ i <= c /\ x = "bundle_01"
                                                 \/ i = 3 /\ i <= c /\ x = "bundle_02"
                                                 \/ i = c + 1 /\ x = "bundle_manifest"
  <2>1. c = 1 \/ c = 2 \/ c = 3
    OBVIOUS
  <2>2. CASE c = 1
    BY <1>2, <1>3, <2>2
  <2>3. CASE c = 2
    BY <1>2, <1>3, <2>3
  <2>4. CASE c = 3
    BY <1>2, <1>3, <2>4
  <2>. QED
    BY <2>1, <2>2, <2>3, <2>4
<1>. QED
  <2>1. Indexed(Bundles(c))
    BY <1>1, <1>2 DEF Indexed
  <2>. QED
    BY <1>4, <1>5, <2>1 DEF GivesBundles

LEMMA VbsParts ==
  ASSUME NEW c \in 1 .. 3
  PROVE  LET P == VbsExperiments(c) IN
         /\ Length(P, 6)
         /\ Gives1(P[1], "native_vbs_performance") /\ Gives1(P[2], "dp_vbs")
         /\ Gives1(P[3], "dp_rounding_boundaries") /\ Gives1(P[4], "dp_composition")
         /\ GivesBundles(P[5], c) /\ Gives1(P[6], "vbs_config")
<1>1. Length(VbsExperiments(c), 6)
  BY DEF VbsExperiments, Length
<1>2. LET P == VbsExperiments(c) IN
      /\ P[1] = PairedPerformance /\ P[2] = PrivacyRuns /\ P[3] = RoundingBoundaries
      /\ P[4] = Composition /\ P[5] = Bundles(c) /\ P[6] = VbsConfig
  BY DEF VbsExperiments
<1>3. /\ Gives1(PairedPerformance, "native_vbs_performance") /\ Gives1(PrivacyRuns, "dp_vbs")
      /\ Gives1(RoundingBoundaries, "dp_rounding_boundaries")
      /\ Gives1(Composition, "dp_composition") /\ Gives1(VbsConfig, "vbs_config")
  BY PartsGive DEF PairedPerformance, PrivacyRuns, RoundingBoundaries, Composition, VbsConfig
<1>. QED
  BY <1>1, <1>2, <1>3, BundlesGive

LEMMA ChainParts ==
  /\ Length(ChainExperiments, 6)
  /\ Gives1(ChainExperiments[1], "phase7_proof_runs")
  /\ Gives2(ChainExperiments[2], "comparison_performance", "comparison_capabilities")
  /\ Gives2(ChainExperiments[3], "settlement_concurrency", "protocol_attacks")
  /\ Gives1(ChainExperiments[4], "e2e_ablation")
  /\ Gives1(ChainExperiments[5], "budget_exhaustion")
  /\ Gives1(ChainExperiments[6], "chain_config")
<1>1. Gives1(ProofRuns, "phase7_proof_runs")
  BY DEF ProofRuns, Gives1, Indexed, Writes
<1>2. Length(ChainExperiments, 6)
  BY DEF ChainExperiments, Length
<1>3. /\ Gives2(Settlements, "settlement_concurrency", "protocol_attacks")
      /\ Gives1(Ablations, "e2e_ablation") /\ Gives1(BudgetExhaustion, "budget_exhaustion")
      /\ Gives1(ChainConfig, "chain_config")
      /\ Gives2(Comparisons, "comparison_performance", "comparison_capabilities")
  BY PartsGive DEF Settlements, Ablations, BudgetExhaustion, ChainConfig, Comparisons
<1>. QED
  BY <1>1, <1>2, <1>3 DEF ChainExperiments

LEMMA ComparisonParts ==
  /\ Length(ComparisonOnly, 2)
  /\ Gives2(ComparisonOnly[1], "comparison_performance", "comparison_capabilities")
  /\ Gives1(ComparisonOnly[2], "chain_config")
<1>1. Length(ComparisonOnly, 2)
  BY DEF ComparisonOnly, Length
<1>. QED
  BY <1>1, PartsGive DEF ComparisonOnly, Comparisons, ChainConfig

LEMMA AuditParts ==
  /\ Length(AttackLayerAudit, 1)
  /\ Gives2(AttackLayerAudit[1], "attack_binding_matrix", "attack_binding_config")
<1>1. Length(AttackLayerAudit, 1)
  BY DEF AttackLayerAudit, Length
<1>. QED
  BY <1>1, PartsGive DEF AttackLayerAudit

LEMMA ZkParts ==
  /\ Length(ZkBenchmarks, 2)
  /\ Gives3(ZkBenchmarks[1], "zk_scaling", "zk_scaling_runs", "processed_zk_scaling")
  /\ Gives3(ZkBenchmarks[2], "zk_backends", "processed_zk_backends", "zk_backend_runs")
<1>1. Length(ZkBenchmarks, 2)
  BY DEF ZkBenchmarks, Length
<1>. QED
  BY <1>1, PartsGive DEF ZkBenchmarks

LEMMA ProcessParts ==
  /\ Length(ProcessResults, 7)
  /\ Gives1(ProcessResults[1], "processed_ablation") /\ Gives1(ProcessResults[2], "processed_vbs")
  /\ Gives1(ProcessResults[3], "processed_dp") /\ Gives1(ProcessResults[4], "processed_protocol")
  /\ Gives4(ProcessResults[5], "zk_trials", "processed_zk_scaling", "processed_zk_backends",
            "processed_zk")
  /\ Gives1(ProcessResults[6], "processed_capabilities")
  /\ Gives1(ProcessResults[7], "inventory")
<1>1. Length(ProcessResults, 7)
  BY DEF ProcessResults, Length
<1>. QED
  BY <1>1, PartsGive DEF ProcessResults, SummarizeAblation, SummarizeVbs, SummarizeDp,
     SummarizeProtocol, SummarizeZk, CopyCapabilities, Inventory

LEMMA PlotParts ==
  /\ Length(PlotResults, 8)
  /\ Gives1(PlotResults[1], "fig3") /\ Gives1(PlotResults[2], "fig4a")
  /\ Gives1(PlotResults[3], "fig4") /\ Gives1(PlotResults[4], "fig5")
  /\ Gives1(PlotResults[5], "fig6") /\ Gives1(PlotResults[6], "fig7")
  /\ Gives1(PlotResults[7], "fig8a") /\ Gives1(PlotResults[8], "fig8")
<1>1. Length(PlotResults, 8)
  BY DEF PlotResults, Length
<1>. QED
  BY <1>1, PartsGive DEF PlotResults, Fig3, Fig4a, Fig4, Fig5, Fig6, Fig7, Fig8a,
     Fig8

LEMMA DigestParts ==
  ASSUME NEW raw, NEW summary, NEW config
  PROVE  LET P == DigestReport(raw, summary, config) IN
         Length(P, 2) /\ Gives2(P[1], raw, summary) /\ Gives1(P[2], config)
<1>1. Length(DigestReport(raw, summary, config), 2)
  BY DEF DigestReport, Length
<1>. QED
  BY <1>1, PartsGive DEF DigestReport

(* The outputs of all programs.                                            *)
Table(n, c, p, i, f) ==
  \/ n = "vbs" /\ \/ p = 1 /\ i = 1 /\ f = "native_vbs_performance"
                  \/ p = 2 /\ i = 1 /\ f = "dp_vbs"
                  \/ p = 3 /\ i = 1 /\ f = "dp_rounding_boundaries"
                  \/ p = 4 /\ i = 1 /\ f = "dp_composition"
                  \/ p = 5 /\ i = 1 /\ f = "bundle_00"
                  \/ p = 5 /\ i = 2 /\ i <= c /\ f = "bundle_01"
                  \/ p = 5 /\ i = 3 /\ i <= c /\ f = "bundle_02"
                  \/ p = 5 /\ i = c + 1 /\ f = "bundle_manifest"
                  \/ p = 6 /\ i = 1 /\ f = "vbs_config"
  \/ n = "chain" /\ \/ p = 1 /\ i = 1 /\ f = "phase7_proof_runs"
                    \/ p = 2 /\ i = 1 /\ f = "comparison_performance"
                    \/ p = 2 /\ i = 2 /\ f = "comparison_capabilities"
                    \/ p = 3 /\ i = 1 /\ f = "settlement_concurrency"
                    \/ p = 3 /\ i = 2 /\ f = "protocol_attacks"
                    \/ p = 4 /\ i = 1 /\ f = "e2e_ablation"
                    \/ p = 5 /\ i = 1 /\ f = "budget_exhaustion"
                    \/ p = 6 /\ i = 1 /\ f = "chain_config"
  \/ n = "comparison" /\ \/ p = 1 /\ i = 1 /\ f = "comparison_performance"
                         \/ p = 1 /\ i = 2 /\ f = "comparison_capabilities"
                         \/ p = 2 /\ i = 1 /\ f = "chain_config"
  \/ n = "audit" /\ \/ p = 1 /\ i = 1 /\ f = "attack_binding_matrix"
                    \/ p = 1 /\ i = 2 /\ f = "attack_binding_config"
  \/ n = "zk" /\ \/ p = 1 /\ i = 1 /\ f = "zk_scaling"
                 \/ p = 1 /\ i = 2 /\ f = "zk_scaling_runs"
                 \/ p = 1 /\ i = 3 /\ f = "processed_zk_scaling"
                 \/ p = 2 /\ i = 1 /\ f = "zk_backends"
                 \/ p = 2 /\ i = 2 /\ f = "processed_zk_backends"
                 \/ p = 2 /\ i = 3 /\ f = "zk_backend_runs"
  \/ n = "process" /\ \/ p = 1 /\ i = 1 /\ f = "processed_ablation"
                      \/ p = 2 /\ i = 1 /\ f = "processed_vbs"
                      \/ p = 3 /\ i = 1 /\ f = "processed_dp"
                      \/ p = 4 /\ i = 1 /\ f = "processed_protocol"
                      \/ p = 5 /\ i = 1 /\ f = "zk_trials"
                      \/ p = 5 /\ i = 2 /\ f = "processed_zk_scaling"
                      \/ p = 5 /\ i = 3 /\ f = "processed_zk_backends"
                      \/ p = 5 /\ i = 4 /\ f = "processed_zk"
                      \/ p = 6 /\ i = 1 /\ f = "processed_capabilities"
                      \/ p = 7 /\ i = 1 /\ f = "inventory"
  \/ n = "plot" /\ \/ p = 1 /\ i = 1 /\ f = "fig3"
                   \/ p = 2 /\ i = 1 /\ f = "fig4a"
                   \/ p = 3 /\ i = 1 /\ f = "fig4"
                   \/ p = 4 /\ i = 1 /\ f = "fig5"
                   \/ p = 5 /\ i = 1 /\ f = "fig6"
                   \/ p = 6 /\ i = 1 /\ f = "fig7"
                   \/ p = 7 /\ i = 1 /\ f = "fig8a"
                   \/ p = 8 /\ i = 1 /\ f = "fig8"
  \/ n = "aes" /\ \/ p = 1 /\ i = 1 /\ f = "aes_raw"
                  \/ p = 1 /\ i = 2 /\ f = "aes_summary"
                  \/ p = 2 /\ i = 1 /\ f = "aes_config"
  \/ n = "cpabe" /\ \/ p = 1 /\ i = 1 /\ f = "cpabe_raw"
                    \/ p = 1 /\ i = 2 /\ f = "cpabe_summary"
                    \/ p = 2 /\ i = 1 /\ f = "cpabe_config"

AsTable(n, c, P) ==
  /\ Len(P) \in 1 .. 8 /\ DOMAIN P = 1 .. Len(P)
  /\ \A p \in 1 .. Len(P) : Indexed(P[p])
  /\ \A p, i, f : p \in 1 .. Len(P) /\ Writes(P[p], i, f) <=> Table(n, c, p, i, f)
  /\ \A p \in 1 .. Len(P) : \E f : Table(n, c, p, 1, f)

LEMMA Outputs ==
  ASSUME NEW n \in Programs, NEW c \in 1 .. 3
  PROVE  /\ Len(Program(n, c)) \in 1 .. 8 /\ DOMAIN Program(n, c) = 1 .. Len(Program(n, c))
         /\ \A p \in 1 .. Len(Program(n, c)) : Indexed(Program(n, c)[p])
         /\ \A p, i, f : Output(n, c, p, i, f) <=> Table(n, c, p, i, f)
         /\ \A p \in 1 .. Len(Program(n, c)) : \E f : Output(n, c, p, 1, f)
<1>1. AsTable("vbs", c, VbsExperiments(c))
  <2>. DEFINE P == VbsExperiments(c)
  <2>1. Length(P, 6)
    BY VbsParts
  <2>2. \A p \in 1 .. 6 : Indexed(P[p])
    BY VbsParts DEF Gives1, GivesBundles
  <2>3. \A p, i, f : p \in 1 .. 6 /\ Writes(P[p], i, f) <=> Table("vbs", c, p, i, f)
    BY VbsParts DEF Gives1, GivesBundles, Table
  <2>4. \A p \in 1 .. 6 : \E f : Table("vbs", c, p, 1, f)
    BY DEF Table
  <2>. QED
    BY <2>1, <2>2, <2>3, <2>4 DEF AsTable, Length
<1>2. AsTable("chain", c, ChainExperiments)
  <2>. DEFINE P == ChainExperiments
  <2>1. Length(P, 6)
    BY ChainParts
  <2>2. \A p \in 1 .. 6 : Indexed(P[p])
    BY ChainParts DEF Gives1, Gives2
  <2>3. \A p, i, f : p \in 1 .. 6 /\ Writes(P[p], i, f) <=> Table("chain", c, p, i, f)
    BY ChainParts DEF Gives1, Gives2, Table
  <2>4. \A p \in 1 .. 6 : \E f : Table("chain", c, p, 1, f)
    BY DEF Table
  <2>. QED
    BY <2>1, <2>2, <2>3, <2>4 DEF AsTable, Length
<1>3. AsTable("comparison", c, ComparisonOnly)
  <2>. DEFINE P == ComparisonOnly
  <2>1. Length(P, 2)
    BY ComparisonParts
  <2>2. \A p \in 1 .. 2 : Indexed(P[p])
    BY ComparisonParts DEF Gives1, Gives2
  <2>3. \A p, i, f : p \in 1 .. 2 /\ Writes(P[p], i, f) <=> Table("comparison", c, p, i, f)
    BY ComparisonParts DEF Gives1, Gives2, Table
  <2>4. \A p \in 1 .. 2 : \E f : Table("comparison", c, p, 1, f)
    BY DEF Table
  <2>. QED
    BY <2>1, <2>2, <2>3, <2>4 DEF AsTable, Length
<1>4. AsTable("audit", c, AttackLayerAudit)
  <2>. DEFINE P == AttackLayerAudit
  <2>1. Length(P, 1)
    BY AuditParts
  <2>2. \A p \in 1 .. 1 : Indexed(P[p])
    BY AuditParts DEF Gives2
  <2>3. \A p, i, f : p \in 1 .. 1 /\ Writes(P[p], i, f) <=> Table("audit", c, p, i, f)
    BY AuditParts DEF Gives2, Table
  <2>4. \A p \in 1 .. 1 : \E f : Table("audit", c, p, 1, f)
    BY DEF Table
  <2>. QED
    BY <2>1, <2>2, <2>3, <2>4 DEF AsTable, Length
<1>5. AsTable("zk", c, ZkBenchmarks)
  <2>. DEFINE P == ZkBenchmarks
  <2>1. Length(P, 2)
    BY ZkParts
  <2>2. \A p \in 1 .. 2 : Indexed(P[p])
    BY ZkParts DEF Gives3
  <2>3. \A p, i, f : p \in 1 .. 2 /\ Writes(P[p], i, f) <=> Table("zk", c, p, i, f)
    BY ZkParts DEF Gives3, Table
  <2>4. \A p \in 1 .. 2 : \E f : Table("zk", c, p, 1, f)
    BY DEF Table
  <2>. QED
    BY <2>1, <2>2, <2>3, <2>4 DEF AsTable, Length
<1>6. AsTable("process", c, ProcessResults)
  <2>. DEFINE P == ProcessResults
  <2>1. Length(P, 7)
    BY ProcessParts
  <2>2. \A p \in 1 .. 7 : Indexed(P[p])
    BY ProcessParts DEF Gives1, Gives4
  <2>3. \A p, i, f : p \in 1 .. 7 /\ Writes(P[p], i, f) <=> Table("process", c, p, i, f)
    BY ProcessParts DEF Gives1, Gives4, Table
  <2>4. \A p \in 1 .. 7 : \E f : Table("process", c, p, 1, f)
    BY DEF Table
  <2>. QED
    BY <2>1, <2>2, <2>3, <2>4 DEF AsTable, Length
<1>7. AsTable("plot", c, PlotResults)
  <2>. DEFINE P == PlotResults
  <2>1. Length(P, 8)
    BY PlotParts
  <2>2. \A p \in 1 .. 8 : Indexed(P[p])
    BY PlotParts DEF Gives1
  <2>3. \A p, i, f : p \in 1 .. 8 /\ Writes(P[p], i, f) <=> Table("plot", c, p, i, f)
    BY PlotParts DEF Gives1, Table
  <2>4. \A p \in 1 .. 8 : \E f : Table("plot", c, p, 1, f)
    BY DEF Table
  <2>. QED
    BY <2>1, <2>2, <2>3, <2>4 DEF AsTable, Length
<1>8. AsTable("aes", c, DigestReport("aes_raw", "aes_summary", "aes_config"))
  <2>. DEFINE P == DigestReport("aes_raw", "aes_summary", "aes_config")
  <2>1. Length(P, 2)
    BY DigestParts
  <2>2. \A p \in 1 .. 2 : Indexed(P[p])
    BY DigestParts DEF Gives1, Gives2
  <2>3. \A p, i, f : p \in 1 .. 2 /\ Writes(P[p], i, f) <=> Table("aes", c, p, i, f)
    <3>1. Gives2(P[1], "aes_raw", "aes_summary") /\ Gives1(P[2], "aes_config")
      BY DigestParts
    <3>. HIDE DEF P
    <3>. QED
      BY <3>1 DEF Gives1, Gives2, Table
  <2>4. \A p \in 1 .. 2 : \E f : Table("aes", c, p, 1, f)
    BY DEF Table
  <2>. HIDE DEF P
  <2>5. AsTable("aes", c, P)
    BY <2>1, <2>2, <2>3, <2>4 DEF AsTable, Length
  <2>. QED
    BY <2>5 DEF P
<1>9. AsTable("cpabe", c, DigestReport("cpabe_raw", "cpabe_summary", "cpabe_config"))
  <2>. DEFINE P == DigestReport("cpabe_raw", "cpabe_summary", "cpabe_config")
  <2>1. Length(P, 2)
    BY DigestParts
  <2>2. \A p \in 1 .. 2 : Indexed(P[p])
    BY DigestParts DEF Gives1, Gives2
  <2>3. \A p, i, f : p \in 1 .. 2 /\ Writes(P[p], i, f) <=> Table("cpabe", c, p, i, f)
    <3>1. Gives2(P[1], "cpabe_raw", "cpabe_summary") /\ Gives1(P[2], "cpabe_config")
      BY DigestParts
    <3>. HIDE DEF P
    <3>. QED
      BY <3>1 DEF Gives1, Gives2, Table
  <2>4. \A p \in 1 .. 2 : \E f : Table("cpabe", c, p, 1, f)
    BY DEF Table
  <2>. HIDE DEF P
  <2>5. AsTable("cpabe", c, P)
    BY <2>1, <2>2, <2>3, <2>4 DEF AsTable, Length
  <2>. QED
    BY <2>5 DEF P
<1>10. AsTable(n, c, Program(n, c))
  BY <1>1, <1>2, <1>3, <1>4, <1>5, <1>6, <1>7, <1>8, <1>9
     DEF Programs, Program, AesGcmScaling, CpAbePolicy
<1>. QED
  BY <1>10 DEF AsTable, Output
(* A program has no output twice, and each part has one.                   *)
LEMMA OutputsDiffer ==
  ASSUME NEW n \in Programs, NEW c \in 1 .. 3, NEW p, NEW q, NEW i, NEW j, NEW f,
         Output(n, c, p, i, f), Output(n, c, q, j, f)
  PROVE  p = q /\ i = j
<1>1. Table(n, c, p, i, f) /\ Table(n, c, q, j, f)
  BY Outputs
<1>. QED
  BY <1>1 DEF Table

LEMMA PartsHaveOutputs ==
  ASSUME NEW n \in Programs, NEW c \in 1 .. 3, NEW p \in 1 .. Len(Program(n, c))
  PROVE  Len(Program(n, c)[p].writes) \in Nat \ {0}
<1>1. PICK f : Output(n, c, p, 1, f)
  BY Outputs
<1>2. 1 \in 1 .. Len(Program(n, c)[p].writes) /\ Indexed(Program(n, c)[p])
  BY <1>1, Outputs DEF Output, Writes
<1>. QED
  BY <1>2

(* Numbers of parts and outputs are positive.                              *)
LEMMA PlacesAreNumbers ==
  ASSUME NEW n \in Programs, NEW c \in 1 .. 3, NEW p, NEW i, NEW f, Output(n, c, p, i, f)
  PROVE  p \in 1 .. 8 /\ i \in 1 .. 4
<1>1. Table(n, c, p, i, f)
  BY Outputs
<1>. QED
  BY <1>1 DEF Table

(* Which program runs as which stage.                                      *)
LEMMA StagesAre ==
  /\ Len(Line) = 6 /\ Line \in Seq(Programs)
  /\ Line[1] = "vbs" /\ Line[2] = "chain" /\ Line[3] = "audit"
  /\ Line[4] = "zk" /\ Line[5] = "process" /\ Line[6] = "plot"
BY DEF Line, Stages, ChainProgram, Programs

(* The stages do not write each other's files, but for the copies.         *)
LEMMA StagesDiffer ==
  ASSUME NEW s \in 1 .. 6, NEW t \in 1 .. 6, NEW c \in 1 .. 3, NEW p, NEW q, NEW i, NEW j, NEW f,
         Output(Line[s], c, p, i, f), Output(Line[t], c, q, j, f), s < t
  PROVE  s = 4 /\ t = 5 /\ f \in Copies
<1>1. s \in {1, 2, 3, 4, 5, 6} /\ t \in {1, 2, 3, 4, 5, 6}
  OBVIOUS
<1>2. Line[s] \in Programs /\ Line[t] \in Programs
  BY <1>1, StagesAre DEF Programs
<1>3. Table(Line[s], c, p, i, f) /\ Table(Line[t], c, q, j, f)
  BY <1>2, Outputs
<1>. QED
  BY <1>1, <1>3, StagesAre DEF Table, Copies

(* Every output, whatever the number of bundles, is a file.                *)
LEMMA OutputsAreFiles ==
  ASSUME NEW n \in Programs, NEW c \in 1 .. 3, NEW p, NEW i, NEW f, Output(n, c, p, i, f)
  PROVE  f \in Files
<1>1. Len(BundleNames) = 3
  BY DEF BundleNames
<1>2. ASSUME NEW m \in Programs, NEW q, NEW j, Output(m, 3, q, j, f)
      PROVE  f \in Files
  <2>. DEFINE P == Program(m, 3)
  <2>1. q \in DOMAIN P /\ j \in DOMAIN P[q].writes /\ f = P[q].writes[j]
    BY <1>2, Outputs DEF Output, Writes
  <2>. HIDE DEF P
  <2>2. f \in Written(P)
    BY <2>1 DEF Written, ToSet
  <2>. QED
    BY <1>1, <2>2 DEF P, Files
<1>3. \E q, j : Output(n, 3, q, j, f)
  <2>1. Table(n, c, p, i, f)
    BY Outputs
  <2>2. \E q, j : Table(n, 3, q, j, f)
    <3>1. CASE n = "vbs"
      BY <2>1, <3>1 DEF Table
    <3>2. CASE n # "vbs"
      <4>1. Table(n, 3, p, i, f)
        BY <2>1, <3>2 DEF Table
      <4>. QED
        BY <4>1
    <3>. QED
      BY <3>1, <3>2
  <2>. QED
    BY <2>2, Outputs
<1>. QED
  BY <1>2, <1>3

---------------------------------------------------------------------------
(* Which file is input where *)

IsMeasuring(r) == r.measures
TakesIn(r, g) == g \in r.reads
Measures(r, R) == IsMeasuring(r) /\ \A g : TakesIn(r, g) <=> g \in R
DerivesFrom(r, R) == ~ IsMeasuring(r) /\ \A g : TakesIn(r, g) <=> g \in R

LEMMA PartsRead ==
  ASSUME NEW R, NEW w
  PROVE  Measures(Measured(R, w), R) /\ DerivesFrom(Derived(R, w), R)
BY DEF Measures, DerivesFrom, IsMeasuring, TakesIn, Measured, Derived

(* The inputs of all programs, and the parts that only derive.             *)
Input(n, p, g) ==
  \/ n = "chain" /\ p = 1 /\ g \in {"bundle_00", "bundle_01", "bundle_02"}
  \/ n = "chain" /\ p = 4 /\ g \in {"bundle_00"}
  \/ n = "chain" /\ p = 5 /\ g \in {"dp_vbs"}
  \/ n = "process" /\ p = 1 /\ g \in {"e2e_ablation"}
  \/ n = "process" /\ p = 2 /\ g \in {"native_vbs_performance"}
  \/ n = "process" /\ p = 3 /\ g \in {"dp_vbs", "dp_rounding_boundaries", "dp_composition",
                                      "budget_exhaustion"}
  \/ n = "process" /\ p = 4 /\ g \in {"protocol_attacks", "settlement_concurrency",
                                      "attack_binding_matrix"}
  \/ n = "process" /\ p = 5 /\ g \in {"zk_scaling", "zk_backends", "zk_scaling_runs",
                                      "zk_backend_runs", "e2e_ablation",
                                      "comparison_performance"}
  \/ n = "process" /\ p = 6 /\ g \in {"comparison_capabilities"}
  \/ n = "plot" /\ p = 1 /\ g \in {"processed_ablation"}
  \/ n = "plot" /\ p = 2 /\ g \in {"processed_zk_scaling"}
  \/ n = "plot" /\ p = 3 /\ g \in {"processed_zk_scaling", "zk_trials", "processed_zk"}
  \/ n = "plot" /\ p = 4 /\ g \in {"processed_dp"}
  \/ n = "plot" /\ p = 5 /\ g \in {"processed_vbs"}
  \/ n = "plot" /\ p = 6 /\ g \in {"processed_protocol"}
  \/ n = "plot" /\ p = 7 /\ g \in {"processed_capabilities"}
  \/ n = "plot" /\ p = 8 /\ g \in {"processed_capabilities", "processed_zk"}
  \/ n = "aes" /\ p = 2 /\ g = "aes_raw"
  \/ n = "cpabe" /\ p = 2 /\ g = "cpabe_raw"
Derives(n, p) == n \in {"process", "plot"} \/ (n \in {"aes", "cpabe"} /\ p = 2)

InputsAre(n, P, k) ==
  \A p \in 1 .. k : /\ IsMeasuring(P[p]) <=> ~ Derives(n, p)
                    /\ \A g : TakesIn(P[p], g) <=> Input(n, p, g)

LEMMA Inputs ==
  ASSUME NEW n \in Programs, NEW c \in 1 .. 3
  PROVE  InputsAre(n, Program(n, c), Len(Program(n, c)))
<1>1. InputsAre("vbs", VbsExperiments(c), 6) /\ Len(VbsExperiments(c)) = 6
  <2>1. /\ Measures(VbsExperiments(c)[1], {})
        /\ Measures(VbsExperiments(c)[2], {})
        /\ Measures(VbsExperiments(c)[3], {})
        /\ Measures(VbsExperiments(c)[4], {})
        /\ Measures(VbsExperiments(c)[5], {})
        /\ Measures(VbsExperiments(c)[6], {})
    BY PartsRead DEF VbsExperiments, PairedPerformance, PrivacyRuns, RoundingBoundaries, Composition,
         Bundles, VbsConfig
  <2>. QED
    BY <2>1, VbsParts DEF Measures, DerivesFrom, InputsAre, Input, Derives, Length
<1>2. InputsAre("chain", ChainExperiments, 6) /\ Len(ChainExperiments) = 6
  <2>1. /\ Measures(ChainExperiments[1], {"bundle_00", "bundle_01", "bundle_02"})
        /\ Measures(ChainExperiments[2], {})
        /\ Measures(ChainExperiments[3], {})
        /\ Measures(ChainExperiments[4], {"bundle_00"})
        /\ Measures(ChainExperiments[5], {"dp_vbs"})
        /\ Measures(ChainExperiments[6], {})
    BY PartsRead DEF ChainExperiments, Comparisons, ProofRuns, BundleNames, ToSet, Settlements,
         Ablations, BudgetExhaustion, ChainConfig, Measures, IsMeasuring, TakesIn
  <2>. QED
    BY <2>1, ChainParts DEF Measures, DerivesFrom, InputsAre, Input, Derives, Length
<1>3. InputsAre("comparison", ComparisonOnly, 2) /\ Len(ComparisonOnly) = 2
  <2>1. /\ Measures(ComparisonOnly[1], {})
        /\ Measures(ComparisonOnly[2], {})
    BY PartsRead DEF ComparisonOnly, Comparisons, ChainConfig
  <2>. QED
    BY <2>1, ComparisonParts DEF Measures, DerivesFrom, InputsAre, Input, Derives, Length
<1>4. InputsAre("audit", AttackLayerAudit, 1) /\ Len(AttackLayerAudit) = 1
  <2>1. Measures(AttackLayerAudit[1], {})
    BY PartsRead DEF AttackLayerAudit
  <2>. QED
    BY <2>1, AuditParts DEF Measures, DerivesFrom, InputsAre, Input, Derives, Length
<1>5. InputsAre("zk", ZkBenchmarks, 2) /\ Len(ZkBenchmarks) = 2
  <2>1. /\ Measures(ZkBenchmarks[1], {})
        /\ Measures(ZkBenchmarks[2], {})
    BY PartsRead DEF ZkBenchmarks
  <2>. QED
    BY <2>1, ZkParts DEF Measures, DerivesFrom, InputsAre, Input, Derives, Length
<1>6. InputsAre("process", ProcessResults, 7) /\ Len(ProcessResults) = 7
  <2>1. /\ DerivesFrom(ProcessResults[1], {"e2e_ablation"})
        /\ DerivesFrom(ProcessResults[2], {"native_vbs_performance"})
        /\ DerivesFrom(ProcessResults[3], {"dp_vbs", "dp_rounding_boundaries",
            "dp_composition", "budget_exhaustion"})
        /\ DerivesFrom(ProcessResults[4], {"protocol_attacks", "settlement_concurrency",
            "attack_binding_matrix"})
        /\ DerivesFrom(ProcessResults[5], {"zk_scaling", "zk_backends",
            "zk_scaling_runs", "zk_backend_runs", "e2e_ablation",
            "comparison_performance"})
        /\ DerivesFrom(ProcessResults[6], {"comparison_capabilities"})
        /\ DerivesFrom(ProcessResults[7], {})
    BY PartsRead DEF ProcessResults, SummarizeAblation, SummarizeVbs, SummarizeDp, SummarizeProtocol,
         SummarizeZk, CopyCapabilities, Inventory
  <2>. QED
    BY <2>1, ProcessParts DEF Measures, DerivesFrom, InputsAre, Input, Derives, Length
<1>7. InputsAre("plot", PlotResults, 8) /\ Len(PlotResults) = 8
  <2>1. /\ DerivesFrom(PlotResults[1], {"processed_ablation"})
        /\ DerivesFrom(PlotResults[2], {"processed_zk_scaling"})
        /\ DerivesFrom(PlotResults[3], {"processed_zk_scaling", "zk_trials",
            "processed_zk"})
        /\ DerivesFrom(PlotResults[4], {"processed_dp"})
        /\ DerivesFrom(PlotResults[5], {"processed_vbs"})
        /\ DerivesFrom(PlotResults[6], {"processed_protocol"})
        /\ DerivesFrom(PlotResults[7], {"processed_capabilities"})
        /\ DerivesFrom(PlotResults[8], {"processed_capabilities", "processed_zk"})
    BY PartsRead DEF PlotResults, Fig3, Fig4a, Fig4, Fig5, Fig6, Fig7, Fig8a, Fig8
  <2>. QED
    BY <2>1, PlotParts DEF Measures, DerivesFrom, InputsAre, Input, Derives, Length
<1>8. LET P == DigestReport("aes_raw", "aes_summary", "aes_config") IN
      InputsAre("aes", P, 2) /\ Len(P) = 2
  <2>. DEFINE P == DigestReport("aes_raw", "aes_summary", "aes_config")
  <2>1. Measures(P[1], {}) /\ DerivesFrom(P[2], {"aes_raw"})
    BY PartsRead DEF DigestReport
  <2>2. Length(P, 2)
    BY DigestParts
  <2>. HIDE DEF P
  <2>3. InputsAre("aes", P, 2) /\ Len(P) = 2
    BY <2>1, <2>2 DEF Measures, DerivesFrom, InputsAre, Input, Derives, Length
  <2>. QED
    BY <2>3 DEF P
<1>9. LET P == DigestReport("cpabe_raw", "cpabe_summary", "cpabe_config") IN
      InputsAre("cpabe", P, 2) /\ Len(P) = 2
  <2>. DEFINE P == DigestReport("cpabe_raw", "cpabe_summary", "cpabe_config")
  <2>1. Measures(P[1], {}) /\ DerivesFrom(P[2], {"cpabe_raw"})
    BY PartsRead DEF DigestReport
  <2>2. Length(P, 2)
    BY DigestParts
  <2>. HIDE DEF P
  <2>3. InputsAre("cpabe", P, 2) /\ Len(P) = 2
    BY <2>1, <2>2 DEF Measures, DerivesFrom, InputsAre, Input, Derives, Length
  <2>. QED
    BY <2>3 DEF P
<1>10. CASE n = "vbs"
  BY <1>1, <1>10 DEF Program
<1>11. CASE n = "chain"
  BY <1>2, <1>11 DEF Program
<1>12. CASE n = "comparison"
  BY <1>3, <1>12 DEF Program
<1>13. CASE n = "audit"
  BY <1>4, <1>13 DEF Program
<1>14. CASE n = "zk"
  BY <1>5, <1>14 DEF Program
<1>15. CASE n = "process"
  BY <1>6, <1>15 DEF Program
<1>16. CASE n = "plot"
  BY <1>7, <1>16 DEF Program
<1>17. CASE n = "aes"
  BY <1>8, <1>17 DEF Program, AesGcmScaling
<1>18. CASE n = "cpabe"
  BY <1>9, <1>18 DEF Program, CpAbePolicy
<1>. QED
  BY <1>10, <1>11, <1>12, <1>13, <1>14, <1>15, <1>16, <1>17, <1>18 DEF Programs

(* What is read is written by some program.                                *)
LEMMA InputsAreFiles ==
  ASSUME NEW n \in Programs, NEW c \in 1 .. 3, NEW p \in 1 .. Len(Program(n, c)),
         NEW g \in Program(n, c)[p].reads
  PROVE  g \in Files
<1>1. Input(n, p, g)
  BY Inputs DEF InputsAre, TakesIn
<1>2. \E m \in Programs : \E q, i : Table(m, 3, q, i, g)
  <2>1. g \in {"bundle_00", "bundle_01", "bundle_02", "dp_vbs", "e2e_ablation",
               "native_vbs_performance", "dp_rounding_boundaries", "dp_composition",
               "budget_exhaustion", "protocol_attacks", "settlement_concurrency",
               "attack_binding_matrix", "zk_scaling", "zk_backends", "zk_scaling_runs",
               "zk_backend_runs", "comparison_performance", "comparison_capabilities",
               "processed_ablation", "processed_zk_scaling", "zk_trials", "processed_zk",
               "processed_dp", "processed_vbs", "processed_protocol", "processed_capabilities",
               "aes_raw", "cpabe_raw"}
    BY <1>1 DEF Input
  <2>2. {"vbs", "chain", "audit", "zk", "process", "aes", "cpabe"} \subseteq Programs
    BY DEF Programs
  <2>3. \E m \in {"vbs", "chain", "audit", "zk", "process", "aes", "cpabe"} : \E q, i : Table(m, 3, q, i, g)
    BY <2>1 DEF Table
  <2>. QED
    BY <2>2, <2>3
<1>. QED
  BY <1>2, Outputs, OutputsAreFiles

(* In the chain, a part that is not exempt measures or has inputs, and its *)
(* inputs are outputs of earlier stages.                                   *)
LEMMA Sources ==
  ASSUME NEW s \in 1 .. 6, NEW c \in 1 .. 3, NEW p \in 1 .. Len(Program(Line[s], c)),
         ~ Exempt(s, p)
  PROVE  LET r == Program(Line[s], c)[p] IN
         /\ IsMeasuring(r) \/ \E g : g \in r.reads
         /\ \A g \in r.reads : \E t \in 1 .. 6, q, i \in Nat :
              /\ Output(Line[t], c, q, i, g) /\ t < s
              /\ ~ Exempt(t, q) /\ (t = 4 => g \notin Copies)
<1>. DEFINE r == Program(Line[s], c)[p]
<1>1. s \in {1, 2, 3, 4, 5, 6} /\ Line[s] \in Programs
  BY StagesAre DEF Programs
<1>2. /\ IsMeasuring(r) <=> ~ Derives(Line[s], p)
      /\ \A g : g \in r.reads <=> Input(Line[s], p, g)
  BY <1>1, Inputs DEF InputsAre, TakesIn
<1>3. p \in 1 .. 8
  <2>1. PICK k \in 1 .. 8 : Len(Program(Line[s], c)) = k
    BY <1>1, Outputs
  <2>2. p \in 1 .. k
    BY <2>1
  <2>. QED
    BY <2>2
<1>4. s = 5 => p \in 1 .. 7
  BY StagesAre, ProcessParts DEF Program, Length
<1>. HIDE DEF r
<1>5. IsMeasuring(r) \/ \E g : g \in r.reads
  <2>1. ~ Derives(Line[s], p) \/ \E g : Input(Line[s], p, g)
    <3>1. CASE s = 5
      <4>1. p \in {1, 2, 3, 4, 5, 6}
        BY <1>4, <3>1 DEF Exempt
      <4>. QED
        BY <3>1, <4>1, StagesAre DEF Input
    <3>2. CASE s = 6
      BY <1>3, <3>2, StagesAre DEF Input
    <3>. QED
      BY <1>1, <3>1, <3>2, StagesAre DEF Derives
  <2>. QED
    BY <1>2, <2>1
<1>6. ASSUME NEW g \in r.reads
      PROVE  \E t \in 1 .. 6, q, i \in Nat :
               /\ Output(Line[t], c, q, i, g) /\ t < s
               /\ ~ Exempt(t, q) /\ (t = 4 => g \notin Copies)
  <2>1. Input(Line[s], p, g)
    BY <1>2
  <2>2. \E t \in 1 .. 6, q, i \in Nat :
          /\ Table(Line[t], c, q, i, g) /\ t < s
          /\ ~ Exempt(t, q) /\ (t = 4 => g \notin Copies)
    <3>. DEFINE From(t, q, i) == /\ Table(Line[t], c, q, i, g)
                                 /\ ~ Exempt(t, q) /\ (t = 4 => g \notin Copies)
    <3>1. /\ g = "native_vbs_performance" => From(1, 1, 1)
          /\ g = "dp_vbs" => From(1, 2, 1)
          /\ g = "dp_rounding_boundaries" => From(1, 3, 1)
          /\ g = "dp_composition" => From(1, 4, 1)
          /\ g = "bundle_00" => From(1, 5, 1)
      BY StagesAre DEF Table, Exempt
    <3>2. /\ g = "comparison_performance" => From(2, 2, 1)
          /\ g = "comparison_capabilities" => From(2, 2, 2)
          /\ g = "settlement_concurrency" => From(2, 3, 1)
      BY StagesAre DEF Table, Exempt
    <3>3. /\ g = "protocol_attacks" => From(2, 3, 2)
          /\ g = "e2e_ablation" => From(2, 4, 1)
          /\ g = "budget_exhaustion" => From(2, 5, 1)
      BY StagesAre DEF Table, Exempt
    <3>4. /\ g = "attack_binding_matrix" => From(3, 1, 1)
      BY StagesAre DEF Table, Exempt
    <3>5. /\ g = "zk_scaling" => From(4, 1, 1)
          /\ g = "zk_scaling_runs" => From(4, 1, 2)
          /\ g = "zk_backends" => From(4, 2, 1)
          /\ g = "zk_backend_runs" => From(4, 2, 3)
      BY StagesAre DEF Table, Exempt, Copies
    <3>6. /\ g = "processed_ablation" => From(5, 1, 1)
          /\ g = "processed_vbs" => From(5, 2, 1)
          /\ g = "processed_dp" => From(5, 3, 1)
          /\ g = "processed_protocol" => From(5, 4, 1)
      BY StagesAre DEF Table, Exempt
    <3>7. /\ g = "zk_trials" => From(5, 5, 1)
          /\ g = "processed_zk_scaling" => From(5, 5, 2)
          /\ g = "processed_zk" => From(5, 5, 4)
          /\ g = "processed_capabilities" => From(5, 6, 1)
      BY StagesAre DEF Table, Exempt
    <3>. HIDE DEF From
    <3>8. \E t \in 1 .. 6, q, i \in Nat : From(t, q, i) /\ t < s
      <4>1. CASE s = 2
        <5>1. g = "dp_vbs" \/ g = "bundle_00"
          BY <1>1, <2>1, <4>1, StagesAre DEF Input, Exempt
        <5>. QED
          BY <3>1, <4>1, <5>1
      <4>2. CASE s = 5
        <5>1. g \in {"e2e_ablation", "native_vbs_performance", "dp_vbs", "dp_rounding_boundaries",
                     "dp_composition", "budget_exhaustion", "protocol_attacks",
                     "settlement_concurrency", "attack_binding_matrix", "zk_scaling",
                     "zk_backends", "zk_scaling_runs", "zk_backend_runs",
                     "comparison_performance", "comparison_capabilities"}
          BY <2>1, <4>2, StagesAre DEF Input
        <5>. QED
          BY <3>1, <3>2, <3>3, <3>4, <3>5, <4>2, <5>1
      <4>3. CASE s = 6
        <5>1. g \in {"processed_ablation", "processed_zk_scaling", "zk_trials", "processed_zk",
                     "processed_dp", "processed_vbs", "processed_protocol",
                     "processed_capabilities"}
          BY <2>1, <4>3, StagesAre DEF Input
        <5>. QED
          BY <3>6, <3>7, <4>3, <5>1
      <4>. QED
        BY <1>1, <2>1, <4>1, <4>2, <4>3, StagesAre DEF Input
    <3>. QED
      BY <3>8 DEF From
  <2>3. \A t \in 1 .. 6 : Line[t] \in Programs
    BY StagesAre DEF Programs
  <2>. QED
    BY <2>2, <2>3, Outputs
<1>. QED
  BY <1>5, <1>6 DEF r

(* The inventory is the last output of its program, and alone there.       *)
LEMMA InventoryIsLast ==
  ASSUME NEW c \in 1 .. 3
  PROVE  /\ \A n \in Programs : \A p, i :
              Output(n, c, p, i, "inventory") => n = "process" /\ p = 7 /\ i = 1
         /\ Output("process", c, 7, 1, "inventory")
         /\ Len(Program("process", c)) = 7 /\ Len(Program("process", c)[7].writes) = 1
         /\ "inventory" \in Files /\ "inventory" \notin Groups
<1>1. "process" \in Programs /\ "plot" \in Programs
  BY DEF Programs
<1>2. \A n \in Programs : \A p, i :
        Output(n, c, p, i, "inventory") => n = "process" /\ p = 7 /\ i = 1
  <2>1. ASSUME NEW n \in Programs, NEW p, NEW i, Output(n, c, p, i, "inventory")
        PROVE  n = "process" /\ p = 7 /\ i = 1
    <3>1. Table(n, c, p, i, "inventory")
      BY <2>1, Outputs
    <3>. QED
      BY <3>1 DEF Table
  <2>. QED
    BY <2>1
<1>3. Output("process", c, 7, 1, "inventory")
  BY <1>1, Outputs DEF Table
<1>4. Len(Program("process", c)) = 7
  BY ProcessParts DEF Program, Length
<1>5. Len(Program("process", c)[7].writes) = 1
  BY DEF Program, ProcessResults, Inventory, Derived
<1>6. "inventory" \notin Panels
  <2>1. \A p, i : ~ Table("plot", c, p, i, "inventory")
    BY DEF Table
  <2>2. ASSUME "inventory" \in Panels PROVE \E p, i : Output("plot", c, p, i, "inventory")
    <3>1. Program("plot", c) = PlotResults
      BY DEF Program
    <3>2. PICK p : p \in DOMAIN PlotResults /\ \E i \in DOMAIN PlotResults[p].writes : PlotResults[p].writes[i] = "inventory"
      BY <2>2 DEF Panels, Written, ToSet
    <3>3. PICK i \in DOMAIN PlotResults[p].writes : PlotResults[p].writes[i] = "inventory"
      BY <3>2
    <3>4. Output("plot", c, p, i, "inventory")
      BY <1>1, <3>1, <3>2, <3>3, Outputs DEF Output, Writes, Indexed
    <3>. QED
      BY <3>4
  <2>. QED
    BY <1>1, <2>1, <2>2, Outputs
<1>. QED
  BY <1>1, <1>2, <1>3, <1>4, <1>5, <1>6, OutputsAreFiles DEF Groups

(* What the processing and the plotting write.                             *)
LEMMA ProcessedAreOutputs ==
  ASSUME NEW c \in 1 .. 3, NEW f \in Processed
  PROVE  f \in Files /\ f # "inventory" /\ \E p \in 1 .. 6, i \in Nat : Output("process", c, p, i, f)
<1>1. "process" \in Programs /\ Program("process", c) = ProcessResults
  BY DEF Programs, Program
<1>2. PICK p : p \in DOMAIN ProcessResults /\ \E i \in DOMAIN ProcessResults[p].writes : ProcessResults[p].writes[i] = f
  BY DEF Processed, Written, ToSet
<1>3. PICK i \in DOMAIN ProcessResults[p].writes : ProcessResults[p].writes[i] = f
  BY <1>2
<1>4. Output("process", c, p, i, f)
  BY <1>1, <1>2, <1>3, Outputs DEF Output, Writes, Indexed
<1>5. f # "inventory"
  BY DEF Processed
<1>6. p \in 1 .. 6 /\ i \in Nat
  BY <1>1, <1>4, <1>5, Outputs DEF Table
<1>. QED
  BY <1>1, <1>4, <1>5, <1>6, OutputsAreFiles

LEMMA PanelsAreOutputs ==
  ASSUME NEW c \in 1 .. 3, NEW f \in Panels
  PROVE  f \in Files /\ \E p, i \in Nat : Output("plot", c, p, i, f)
<1>1. "plot" \in Programs /\ Program("plot", c) = PlotResults
  BY DEF Programs, Program
<1>2. PICK p : p \in DOMAIN PlotResults /\ \E i \in DOMAIN PlotResults[p].writes : PlotResults[p].writes[i] = f
  BY DEF Panels, Written, ToSet
<1>3. PICK i \in DOMAIN PlotResults[p].writes : PlotResults[p].writes[i] = f
  BY <1>2
<1>4. Output("plot", c, p, i, f)
  BY <1>1, <1>2, <1>3, Outputs DEF Output, Writes, Indexed
<1>. QED
  BY <1>1, <1>4, OutputsAreFiles, PlacesAreNumbers

---------------------------------------------------------------------------
(* A report: its three files, which no other program writes, are made in   *)
(* two parts, the second from the raw file.                                *)
IsReport(n, raw, summary, config) ==
  /\ n \in Programs /\ n \notin {"vbs", "chain", "comparison", "audit", "zk", "process", "plot"}
  /\ {raw, summary, config} \subseteq Files \ Processed
  /\ raw # summary /\ raw # config /\ summary # config
  /\ \A c \in 1 .. 3 : \A f, p, i :
       Output(n, c, p, i, f) <=> \/ p = 1 /\ i = 1 /\ f = raw
                                 \/ p = 1 /\ i = 2 /\ f = summary
                                 \/ p = 2 /\ i = 1 /\ f = config
  /\ \A c \in 1 .. 3, m \in Programs, f \in {raw, summary, config} : \A p, i :
       Output(m, c, p, i, f) => m = n
  /\ \A c \in 1 .. 3 : /\ IsMeasuring(Program(n, c)[1]) /\ \A g : ~ TakesIn(Program(n, c)[1], g)
                       /\ ~ IsMeasuring(Program(n, c)[2])
                       /\ \A g : TakesIn(Program(n, c)[2], g) <=> g = raw
  /\ \A c \in 1 .. 3 : /\ Len(Program(n, c)) = 2
                       /\ Len(Program(n, c)[1].writes) = 2 /\ Len(Program(n, c)[2].writes) = 1

LEMMA Reports ==
  /\ IsReport("aes", "aes_raw", "aes_summary", "aes_config")
  /\ IsReport("cpabe", "cpabe_raw", "cpabe_summary", "cpabe_config")
<1>. DEFINE Named(n, raw, summary, config) ==
              \/ /\ n = "aes" /\ raw = "aes_raw" /\ summary = "aes_summary" /\ config = "aes_config"
              \/ /\ n = "cpabe" /\ raw = "cpabe_raw" /\ summary = "cpabe_summary"
                 /\ config = "cpabe_config"
<1>1. ASSUME NEW n, NEW raw, NEW summary, NEW config, Named(n, raw, summary, config)
      PROVE  IsReport(n, raw, summary, config)
  <2>1. /\ n \in Programs /\ n \notin {"vbs", "chain", "comparison", "audit", "zk", "process", "plot"}
        /\ raw # summary /\ raw # config /\ summary # config
    BY <1>1 DEF Programs
  <2>2. \A c \in 1 .. 3 : \A f, p, i :
          Output(n, c, p, i, f) <=> \/ p = 1 /\ i = 1 /\ f = raw
                                    \/ p = 1 /\ i = 2 /\ f = summary
                                    \/ p = 2 /\ i = 1 /\ f = config
    <3>1. ASSUME NEW c \in 1 .. 3, NEW f, NEW p, NEW i
          PROVE  Table(n, c, p, i, f) <=> \/ p = 1 /\ i = 1 /\ f = raw
                                          \/ p = 1 /\ i = 2 /\ f = summary
                                          \/ p = 2 /\ i = 1 /\ f = config
      BY <1>1 DEF Table
    <3>. QED
      BY <2>1, <3>1, Outputs
  <2>3. \A c \in 1 .. 3, m \in Programs, f \in {raw, summary, config} : \A p, i :
          Output(m, c, p, i, f) => m = n
    <3>1. ASSUME NEW c \in 1 .. 3, NEW m \in Programs, NEW f \in {raw, summary, config}, NEW p, NEW i,
                 Table(m, c, p, i, f)
          PROVE  m = n
      BY <1>1, <3>1 DEF Table
    <3>. QED
      BY <3>1, Outputs
  <2>4. {raw, summary, config} \subseteq Files \ Processed
    <3>1. ASSUME NEW f \in {raw, summary, config}
          PROVE  f \in Files /\ f \notin Processed
      <4>1. f \in Files
        <5>1. \E p, i : Output(n, 1, p, i, f)
          BY <2>2
        <5>. QED
          BY <2>1, <5>1, OutputsAreFiles
      <4>2. f \notin Processed
        <5>1. "process" \in Programs
          BY DEF Programs
        <5>. QED
          BY <2>1, <2>3, <5>1, ProcessedAreOutputs
      <4>. QED
        BY <4>1, <4>2
    <3>. QED
      BY <3>1
  <2>5. ASSUME NEW c \in 1 .. 3
        PROVE  /\ IsMeasuring(Program(n, c)[1]) /\ \A g : ~ TakesIn(Program(n, c)[1], g)
               /\ ~ IsMeasuring(Program(n, c)[2])
               /\ \A g : TakesIn(Program(n, c)[2], g) <=> g = raw
               /\ Len(Program(n, c)) = 2
               /\ Len(Program(n, c)[1].writes) = 2 /\ Len(Program(n, c)[2].writes) = 1
    <3>0. Program(n, c) = DigestReport(raw, summary, config)
      BY <1>1 DEF Program, AesGcmScaling, CpAbePolicy
    <3>1. /\ Len(Program(n, c)) = 2
          /\ Len(Program(n, c)[1].writes) = 2 /\ Len(Program(n, c)[2].writes) = 1
      BY <3>0 DEF DigestReport, Measured, Derived
    <3>2. InputsAre(n, Program(n, c), 2)
      BY <2>1, <3>1, Inputs
    <3>3. /\ ~ Derives(n, 1) /\ \A g : ~ Input(n, 1, g)
          /\ Derives(n, 2) /\ \A g : Input(n, 2, g) <=> g = raw
      BY <1>1 DEF Derives, Input
    <3>4. 1 \in 1 .. 2 /\ 2 \in 1 .. 2
      OBVIOUS
    <3>. HIDE DEF Named
    <3>. QED
      BY <3>1, <3>2, <3>3, <3>4 DEF InputsAre
  <2>. HIDE DEF Named
  <2>. QED
    BY <2>1, <2>2, <2>3, <2>4, <2>5 DEF IsReport
<1>. QED
  BY <1>1

(* While a program runs, it is on one of its outputs.                      *)
LEMMA Place ==
  ASSUME Types, QueueShape, PlaceShape, main \in Active
  PROVE  /\ Head(queue) \in Programs /\ Len(queue) \in Nat \ {0} /\ count \in 1 .. 3
         /\ Head(queue) = queue[1]
         /\ part \in 1 .. Len(Running) /\ at \in 1 .. Len(Part.writes)
         /\ Len(Running) \in 1 .. 8 /\ Len(Part.writes) \in Nat /\ Indexed(Part)
         /\ Output(Head(queue), count, part, at, Part.writes[at])
         /\ Part.writes[at] \in Files
         /\ goal # "all" => Len(queue) = 1
         /\ goal = "all" => Stage \in 1 .. 6 /\ StageIs(Stage, Head(queue))
         /\ Complete => Stage \in 1 .. 6 /\ Head(queue) = Line[Stage]
<1>1. queue # <<>> /\ part \in 1 .. Len(Running) /\ at \in 1 .. Len(Part.writes)
  BY DEF PlaceShape
<1>2. queue \in Seq(Programs) /\ count \in 1 .. 3
  BY DEF QueueShape, Types
<1>3. Head(queue) \in Programs /\ Head(queue) = queue[1] /\ Len(queue) \in Nat \ {0}
  BY <1>1, <1>2
<1>4. /\ Len(Running) \in 1 .. 8 /\ \A p \in 1 .. Len(Running) : Indexed(Running[p])
  BY <1>2, <1>3, Outputs DEF Running
<1>5. Indexed(Part)
  BY <1>1, <1>4 DEF Part
<1>6. Output(Head(queue), count, part, at, Part.writes[at])
  BY <1>1, <1>5 DEF Output, Writes, Indexed, Part, Running
<1>7. Len(Part.writes) \in Nat
  BY <1>1, <1>2, <1>3, PartsHaveOutputs DEF Part, Running
<1>8. goal # "all" => Len(queue) = 1
  <2>1. PICK k \in Nat \ {0} : Len(queue) = k
    BY <1>3
  <2>2. goal # "all" => Len(queue) <= 1
    BY DEF QueueShape
  <2>. QED
    BY <2>1, <2>2
<1>9. goal = "all" => Stage \in 1 .. 6 /\ StageIs(Stage, Head(queue))
  <2>1. SUFFICES ASSUME goal = "all" PROVE Stage \in 1 .. 6 /\ StageIs(Stage, Head(queue))
    OBVIOUS
  <2>2. Len(queue) <= 6 /\ StageIs(1 + 6 - Len(queue), queue[1])
    BY <1>3, <2>1 DEF QueueShape
  <2>3. 1 + 6 - Len(queue) = Stage
    BY <1>3 DEF Stage
  <2>. QED
    BY <1>3, <2>2, <2>3 DEF Stage
<1>10. Complete => Head(queue) = Line[Stage]
  BY <1>9 DEF Complete, StageIs
<1>. QED
  BY <1>1, <1>2, <1>3, <1>4, <1>5, <1>6, <1>7, <1>8, <1>9, <1>10, OutputsAreFiles DEF Complete

(* A file that is being written is not behind, nor of an earlier stage but *)
(* as a copy.                                                              *)
LEMMA CurrentIsNew ==
  ASSUME Types, QueueShape, PlaceShape, main \in Active
  PROVE  /\ \A q, i \in Nat : ~ Behind(q, i, Part.writes[at])
         /\ Complete => \A s \in 1 .. 6, q, i \in Nat : ~ Past(s, q, i, Part.writes[at])
<1>. DEFINE f == Part.writes[at]
<1>1. /\ Head(queue) \in Programs /\ count \in 1 .. 3 /\ part \in Nat /\ at \in Nat
      /\ Output(Head(queue), count, part, at, f)
  BY Place DEF Types
<1>2. Complete => Stage \in 1 .. 6 /\ Head(queue) = Line[Stage]
  BY Place
<1>. HIDE DEF f
<1>3. \A q, i \in Nat : Output(Head(queue), count, q, i, f) => q = part /\ i = at
  BY <1>1, OutputsDiffer
<1>4. \A q, i \in Nat : ~ Behind(q, i, f)
  BY <1>1, <1>3 DEF Behind
<1>5. ASSUME Complete, NEW s \in 1 .. 6, NEW q \in Nat, NEW i \in Nat, Past(s, q, i, f)
      PROVE  FALSE
  <2>1. CASE s < Stage
    BY <1>1, <1>2, <1>5, <2>1, StagesDiffer DEF Past
  <2>2. CASE s = Stage
    BY <1>1, <1>2, <1>3, <1>5, <2>2 DEF Past
  <2>. QED
    BY <1>5, <2>1, <2>2 DEF Past
<1>. QED
  BY <1>4, <1>5 DEF f

(* What DigestCertifies says of one report.                                *)
DigestHolds(raw, summary, config) ==
  file[config].whole /\ file[raw].whole /\ file[config].from = file[raw].from =>
    file[summary].whole /\ file[summary].from = file[raw].from

LEMMA DigestsAre ==
  /\ DigestCertifies => /\ DigestHolds("aes_raw", "aes_summary", "aes_config")
                        /\ DigestHolds("cpabe_raw", "cpabe_summary", "cpabe_config")
  /\ DigestHolds("aes_raw", "aes_summary", "aes_config")'
       /\ DigestHolds("cpabe_raw", "cpabe_summary", "cpabe_config")' => DigestCertifies'
BY DEF DigestCertifies, DigestReports, DigestHolds

---------------------------------------------------------------------------
(* The invariant holds initially                                           *)

LEMMA Initially ==
  Init => IInv
<1>. SUFFICES ASSUME Init PROVE IInv
  OBVIOUS
<1>1. count \in 1 .. 3
  <2>1. Len(BundleNames) = 3
    BY DEF BundleNames
  <2>. QED
    BY <2>1, OutputConstants DEF Init
<1>2. \A f \in Files : file[f] = [runs |-> {}, whole |-> FALSE, from |-> {}]
  BY DEF Init, NoFile
<1>3. main = "idle" /\ main \notin Active
  BY DEF Init, Active
<1>4. Types
  <2>1. run = 0 /\ goal \in Names /\ comparisonOnly \in BOOLEAN /\ main \in Resting \cup Active /\ part = 1 /\ at = 1 /\ data = {}
    BY DEF Init, Names, Resting
  <2>3. main # "idle" => run >= 1
    BY <1>3
  <2>2. file \in [Files -> [runs : SUBSET (1 .. run), whole : BOOLEAN, from : SUBSET (0 .. run)]]
    <3>1. NoFile \in [runs : SUBSET (1 .. run), whole : BOOLEAN, from : SUBSET (0 .. run)]
      BY DEF NoFile
    <3>. QED
      BY <3>1 DEF Init
  <2>. QED
    BY <1>1, <2>1, <2>2, <2>3 DEF Types
<1>5. QueueShape
  BY <1>3 DEF Init, QueueShape
<1>6. InventoryCertifies
  <2>1. "inventory" \in Files
    BY <1>1, InventoryIsLast
  <2>. QED
    BY <1>2, <2>1 DEF InventoryCertifies
<1>7. DigestCertifies
  <2>1. "aes_config" \in Files /\ "cpabe_config" \in Files
    BY Reports DEF IsReport
  <2>2. \A report \in DigestReports : report[3] \in Files
    BY <2>1 DEF DigestReports
  <2>. QED
    BY <1>2, <2>2 DEF DigestCertifies
<1>. QED
  <2>1. PlaceShape /\ WrittenShape /\ InventoryShape
    BY <1>3 DEF PlaceShape, WrittenShape, InventoryShape
  <2>2. /\ DigestShape("aes", "aes_raw", "aes_summary", "aes_config")
        /\ DigestShape("cpabe", "cpabe_raw", "cpabe_summary", "cpabe_config")
    BY <1>3 DEF DigestShape
  <2>3. FreshShape /\ TablesShape
    BY <1>3 DEF FreshShape, TablesShape
  <2>. QED
    BY <1>4, <1>5, <1>6, <1>7, <2>1, <2>2, <2>3 DEF IInv

---------------------------------------------------------------------------
(* A run starts *)

(* A program that is about to read has nothing behind it.                  *)
LEMMA NothingBehind ==
  ASSUME NEW n \in Programs, NEW c \in 1 .. 3, NEW q, NEW i, NEW f, Output(n, c, q, i, f)
  PROVE  ~ (q < 1 \/ (q = 1 /\ i < 1))
BY PlacesAreNumbers

(* The properties that only the files have stay when the files do.         *)
LEMMA FilesStay ==
  ASSUME InventoryCertifies, DigestCertifies, file' = file
  PROVE  InventoryCertifies' /\ DigestCertifies'
BY DEF InventoryCertifies, DigestCertifies

LEMMA PlanShape ==
  ASSUME NEW g \in Names, NEW only \in BOOLEAN
  PROVE  LET plan == Plan(g, only) IN
         /\ plan \in Seq(Programs) /\ plan # <<>> /\ Head(plan) \in Programs
         /\ g # "all" => Len(plan) = 1
         /\ g = "all" => /\ Len(plan) = 6
                         /\ \A i \in 1 .. 6 :
                              plan[i] = Line[i] \/ (only /\ i = 2 /\ plan[i] = "comparison")
<1>1. ChainProgram(only) \in Programs
  BY DEF ChainProgram, Programs
<1>2. CASE g = "all"
  <2>. DEFINE plan == Stages(only)
  <2>1. Plan(g, only) = plan
    BY <1>2 DEF Plan
  <2>2. Len(plan) = 6 /\ plan \in Seq(Programs) /\ plan # <<>> /\ Head(plan) = "vbs"
    BY <1>1 DEF Stages, Programs
  <2>3. ASSUME NEW i \in 1 .. 6
        PROVE  plan[i] = Line[i] \/ (only /\ i = 2 /\ plan[i] = "comparison")
    <3>1. i \in {1, 2, 3, 4, 5, 6}
      OBVIOUS
    <3>2. /\ plan[1] = "vbs" /\ plan[2] = ChainProgram(only) /\ plan[3] = "audit"
          /\ plan[4] = "zk" /\ plan[5] = "process" /\ plan[6] = "plot"
      BY DEF Stages
    <3>. HIDE DEF plan
    <3>. QED
      BY <3>1, <3>2, StagesAre DEF ChainProgram
  <2>4. "vbs" \in Programs
    BY DEF Programs
  <2>. HIDE DEF plan
  <2>. QED
    BY <1>2, <2>1, <2>2, <2>3, <2>4
<1>3. CASE g # "all"
  <2>1. PICK n \in Programs : Plan(g, only) = <<n>>
    BY <1>1, <1>3 DEF Plan, Names
  <2>. QED
    BY <1>3, <2>1
<1>. QED
  BY <1>2, <1>3

LEMMA StartStep ==
  ASSUME IInv, Start
  PROVE  IInv'
<1>1. /\ run' = run + 1 /\ goal' \in Names /\ comparisonOnly' \in BOOLEAN
      /\ queue' = Plan(goal', comparisonOnly')
      /\ main' = "reading" /\ part' = 1 /\ at' = 1 /\ data' = {} /\ file' = file
  BY OutputConstants DEF Start
<1>2. count' \in 1 .. 3
  <2>1. Len(BundleNames) = 3
    BY DEF BundleNames
  <2>. QED
    BY <2>1, OutputConstants DEF Start
<1>3. run \in Nat /\ file \in [Files -> [runs : SUBSET (1 .. run), whole : BOOLEAN, from : SUBSET (0 .. run)]]
  BY DEF IInv, Types
<1>4. /\ queue' \in Seq(Programs) /\ queue' # <<>> /\ Head(queue') \in Programs
      /\ goal' # "all" => Len(queue') = 1
      /\ goal' = "all" => /\ Len(queue') = 6
                          /\ \A i \in 1 .. 6 :
                               \/ queue'[i] = Line[i]
                               \/ comparisonOnly' /\ i = 2 /\ queue'[i] = "comparison"
  BY <1>1, PlanShape
<1>5. Types'
  <2>1. 1 .. run \subseteq 1 .. run' /\ 0 .. run \subseteq 0 .. run' /\ run' \in Nat
    BY <1>1, <1>3
  <2>2. file' \in [Files -> [runs : SUBSET (1 .. run'), whole : BOOLEAN, from : SUBSET (0 .. run')]]
    BY <1>1, <1>3, <2>1
  <2>3. main' \in Resting \cup Active /\ part' \in Nat \ {0} /\ at' \in Nat \ {0} /\ data' \in SUBSET (0 .. run')
    BY <1>1 DEF Active
  <2>4. run' >= 1
    BY <1>1, <1>3
  <2>. QED
    BY <1>1, <1>2, <2>1, <2>2, <2>3, <2>4 DEF Types
<1>6. QueueShape'
  <2>1. ASSUME goal' = "all"
        PROVE  /\ Len(queue') = 6
               /\ \A i \in 1 .. Len(queue') : StageIs(i + 6 - Len(queue), queue[i])'
    <3>1. \A i \in 1 .. 6 : i + 6 - 6 = i
      OBVIOUS
    <3>. QED
      BY <1>4, <2>1, <3>1 DEF StageIs
  <2>2. ASSUME goal' # "all" PROVE Len(queue') <= 1
    <3>1. Len(queue') = 1
      BY <1>4, <2>2
    <3>. QED
      BY <3>1
  <2>3. ASSUME goal' = "all" PROVE Len(queue') <= 6
    <3>1. Len(queue') = 6
      BY <1>4, <2>3
    <3>. QED
      BY <3>1
  <2>4. queue' \in Seq(Programs) /\ main' # "passed"
    BY <1>1, <1>4
  <2>. QED
    BY <2>1, <2>2, <2>3, <2>4 DEF QueueShape, StageIs
<1>7. PlaceShape'
  <2>1. Len(Running') \in 1 .. 8 /\ Len(Part'.writes) \in Nat \ {0}
    <3>1. Len(Program(Head(queue'), count')) \in 1 .. 8
      BY <1>2, <1>4, Outputs
    <3>2. 1 \in 1 .. Len(Program(Head(queue'), count'))
      <4>1. PICK k \in 1 .. 8 : Len(Program(Head(queue'), count')) = k
        BY <3>1
      <4>. QED
        BY <4>1
    <3>3. Len(Program(Head(queue'), count')[1].writes) \in Nat \ {0}
      BY <1>2, <1>4, <3>2, PartsHaveOutputs
    <3>. QED
      BY <1>1, <3>1, <3>3 DEF Running, Part
  <2>2. PICK k \in 1 .. 8, l \in Nat \ {0} : Len(Running') = k /\ Len(Part'.writes) = l
    BY <2>1
  <2>3. 1 \in 1 .. Len(Running') /\ 1 \in 1 .. Len(Part'.writes)
    BY <2>2
  <2>. QED
    BY <1>1, <1>4, <2>3 DEF PlaceShape
<1>8. WrittenShape'
  <2>1. \A q, i \in Nat, f \in Files : ~ Behind(q, i, f)'
    BY <1>1, <1>2, <1>4, NothingBehind DEF Behind
  <2>. QED
    BY <2>1 DEF WrittenShape
<1>9. InventoryShape'
  <2>1. "inventory" \in Files
    BY <1>2, InventoryIsLast
  <2>2. run' \notin file'["inventory"].runs
    BY <1>1, <1>3, <2>1
  <2>. QED
    BY <2>2 DEF InventoryShape
<1>10. ASSUME NEW n, NEW raw, NEW summary, NEW config, IsReport(n, raw, summary, config)
       PROVE  DigestShape(n, raw, summary, config)'
  <2>1. config \in Files
    BY <1>10 DEF IsReport
  <2>2. run' \notin file'[config].from
    BY <1>1, <1>3, <2>1
  <2>. QED
    BY <1>1, <2>2 DEF DigestShape
<1>11. FreshShape'
  <2>1. ASSUME Complete', NEW s \in 1 .. 6, NEW q \in Nat, NEW i \in Nat, NEW f \in Files,
               Past(s, q, i, f)'
        PROVE  FALSE
    <3>1. Stage' = 1
      <4>1. Len(queue') = 6
        BY <1>4, <2>1 DEF Complete
      <4>. QED
        BY <4>1 DEF Stage
    <3>2. s = 1 /\ Output(Line[s], count', q, i, f) /\ (q < 1 \/ (q = 1 /\ i < 1))
      BY <1>1, <2>1, <3>1 DEF Past
    <3>3. Line[s] \in Programs
      BY <3>2, StagesAre DEF Programs
    <3>. QED
      BY <1>2, <3>2, <3>3, NothingBehind
  <2>. QED
    BY <1>1, <2>1 DEF FreshShape
<1>12. TablesShape'
  <2>1. ASSUME goal' = "all" PROVE Stage' = 1
    <3>1. Len(queue') = 6
      BY <1>4, <2>1
    <3>. QED
      BY <3>1 DEF Stage
  <2>. QED
    BY <2>1 DEF TablesShape
<1>. QED
  BY <1>1, <1>5, <1>6, <1>7, <1>8, <1>9, <1>10, <1>11, <1>12, Reports, FilesStay DEF IInv

---------------------------------------------------------------------------
(* A run stops *)

LEMMA StopStep ==
  ASSUME IInv, Stop
  PROVE  IInv'
<1>1. /\ main' = "stopped" /\ run' = run /\ goal' = goal /\ queue' = queue /\ count' = count
      /\ comparisonOnly' = comparisonOnly /\ part' = part /\ at' = at /\ data' = data /\ file' = file
  BY DEF Stop
<1>2. main' \notin Active /\ main' # "passed"
  BY <1>1 DEF Active
<1>3. Types'
  <2>1. main' \in Resting \cup Active
    BY <1>1 DEF Resting
  <2>2. main # "idle"
    BY DEF Stop
  <2>. QED
    BY <1>1, <2>1, <2>2 DEF IInv, Types
<1>4. QueueShape'
  BY <1>1, <1>2 DEF IInv, QueueShape, StageIs
<1>5. PlaceShape' /\ WrittenShape' /\ InventoryShape' /\ FreshShape' /\ TablesShape'
  BY <1>2 DEF PlaceShape, WrittenShape, InventoryShape, FreshShape, TablesShape
<1>6. /\ DigestShape("aes", "aes_raw", "aes_summary", "aes_config")'
      /\ DigestShape("cpabe", "cpabe_raw", "cpabe_summary", "cpabe_config")'
  BY <1>2 DEF DigestShape
<1>. QED
  BY <1>1, <1>3, <1>4, <1>5, <1>6, FilesStay DEF IInv

---------------------------------------------------------------------------
(* A part reads its inputs *)

(* What data comes from: the inputs, an input that is not whole, and the   *)
(* part itself.                                                            *)
Computed == UNION {file[f].from : f \in Present}
Cut == IF \A f \in Present : file[f].whole THEN {} ELSE {0}
Own == IF Part.measures THEN {run} ELSE {}

LEMMA ReadStep ==
  ASSUME IInv, Read
  PROVE  IInv'
<1>1. /\ main = "reading" /\ main' = "writing" /\ run' = run /\ goal' = goal /\ queue' = queue
      /\ count' = count /\ comparisonOnly' = comparisonOnly /\ part' = part /\ at' = at /\ file' = file
  BY DEF Read
<1>2. main \in Active /\ main' \in Active /\ main' # "passed"
  BY <1>1 DEF Active
<1>3. Types /\ QueueShape /\ PlaceShape /\ WrittenShape /\ InventoryShape /\ FreshShape
      /\ TablesShape
  BY DEF IInv
<1>4. /\ Head(queue) \in Programs /\ count \in 1 .. 3 /\ part \in 1 .. Len(Running)
      /\ at = 1
      /\ Complete => Stage \in 1 .. 6 /\ Head(queue) = Line[Stage]
  BY <1>1, <1>2, <1>3, Place DEF PlaceShape
<1>5. Part = Program(Head(queue), count)[part] /\ Len(Running) = Len(Program(Head(queue), count))
  BY DEF Part, Running
<1>6. Part.reads \subseteq Files
  BY <1>4, <1>5, InputsAreFiles
<1>7. \A x : x \in data' <=> (\E f \in Present : x \in file[f].from) \/ x \in Cut \/ x \in Own
  <2>1. data' = Computed \cup Cut \cup Own
    BY DEF Read, Computed, Cut, Own
  <2>2. \A x : x \in Computed <=> \E f \in Present : x \in file[f].from
    BY DEF Computed
  <2>. QED
    BY <2>1, <2>2
<1>8. run \in Nat /\ file \in [Files -> [runs : SUBSET (1 .. run), whole : BOOLEAN, from : SUBSET (0 .. run)]]
  BY <1>3 DEF Types
<1>9. Present \subseteq Part.reads /\ Present \subseteq Files
  BY <1>6 DEF Present
<1>10. Types'
  <2>1. \A f \in Present : file[f].from \subseteq 0 .. run
    BY <1>8, <1>9
  <2>2. Cut \subseteq 0 .. run /\ Own \subseteq 0 .. run
    BY <1>8 DEF Cut, Own
  <2>3. data' \subseteq 0 .. run
    BY <1>7, <2>1, <2>2
  <2>4. main' \in Resting \cup Active
    BY <1>2
  <2>. QED
    BY <1>1, <1>3, <2>3, <2>4 DEF Types
<1>11. QueueShape'
  BY <1>1, <1>2, <1>3 DEF QueueShape, StageIs
<1>12. Running' = Running /\ Part' = Part
  BY <1>1 DEF Running, Part
<1>13. PlaceShape'
  BY <1>1, <1>2, <1>3, <1>12 DEF PlaceShape
<1>14. WrittenShape'
  <2>1. \A q, i \in Nat, f \in Files : Behind(q, i, f)' => Behind(q, i, f)
    BY <1>1 DEF Behind
  <2>. QED
    BY <1>1, <1>2, <1>3, <2>1 DEF WrittenShape
<1>15. InventoryShape'
  BY <1>1, <1>2, <1>3 DEF InventoryShape
<1>16. ASSUME NEW n, NEW raw, NEW summary, NEW config, IsReport(n, raw, summary, config),
              DigestShape(n, raw, summary, config)
       PROVE  DigestShape(n, raw, summary, config)'
  <2>1. SUFFICES ASSUME Head(queue) = n
                 PROVE  DigestShape(n, raw, summary, config)'
    BY <1>1 DEF DigestShape
  <2>2. /\ part = 1 => run \notin file[config].from
        /\ part = 2 => /\ file[raw].whole /\ file[raw].from = {run}
                       /\ file[summary].whole /\ file[summary].from = {run}
    BY <1>2, <1>16, <2>1 DEF DigestShape
  <2>3. CASE part = 1
    <3>1. IsMeasuring(Part) /\ Part.reads = {}
      BY <1>4, <1>5, <1>16, <2>1, <2>3 DEF IsReport, TakesIn
    <3>2. Present = {} /\ Cut = {} /\ Own = {run}
      BY <1>9, <3>1 DEF Cut, Own, IsMeasuring
    <3>3. data' = {run}
      BY <1>7, <3>2
    <3>. QED
      BY <1>1, <1>4, <2>2, <2>3, <3>3 DEF DigestShape
  <2>4. CASE part = 2
    <3>1. ~ IsMeasuring(Part) /\ Part.reads = {raw}
      <4>1. ~ IsMeasuring(Part) /\ \A g : TakesIn(Part, g) <=> g = raw
        BY <1>4, <1>5, <1>16, <2>1, <2>4 DEF IsReport
      <4>. QED
        BY <4>1 DEF TakesIn
    <3>2. Behind(1, 1, raw) /\ raw \in Files
      BY <1>4, <1>16, <2>1, <2>4 DEF IsReport, Behind
    <3>3. file[raw].runs = {run}
      BY <1>2, <1>3, <3>2 DEF WrittenShape
    <3>4. Present = {raw}
      BY <3>1, <3>3 DEF Present, Exists
    <3>5. Cut = {} /\ Own = {}
      BY <2>2, <2>4, <3>1, <3>4 DEF Cut, Own, IsMeasuring
    <3>6. data' = {run}
      BY <1>7, <2>2, <2>4, <3>4, <3>5
    <3>. QED
      BY <1>1, <2>2, <2>4, <3>6 DEF DigestShape
  <2>5. CASE part # 1 /\ part # 2
    BY <1>1, <2>5 DEF DigestShape
  <2>. QED
    BY <2>3, <2>4, <2>5
<1>17. FreshShape'
  <2>1. \A s \in 1 .. 6, q, i \in Nat, f \in Files : Past(s, q, i, f)' => Past(s, q, i, f)
    BY <1>1 DEF Past, Stage
  <2>2. ASSUME Complete, ~ Exempt(Stage, part)
        PROVE  data' = {run}
    <3>1. /\ IsMeasuring(Part) \/ \E g : g \in Part.reads
          /\ \A g \in Part.reads : \E t \in 1 .. 6, q, i \in Nat :
               /\ Output(Line[t], count, q, i, g) /\ t < Stage
               /\ ~ Exempt(t, q) /\ (t = 4 => g \notin Copies)
      <4>1. Stage \in 1 .. 6 /\ Part = Program(Line[Stage], count)[part]
            /\ part \in 1 .. Len(Program(Line[Stage], count))
        BY <1>4, <1>5, <2>2
      <4>. QED
        BY <1>4, <2>2, <4>1, Sources
    <3>2. \A g \in Part.reads : \E t \in 1 .. 6, q, i \in Nat : Past(t, q, i, g)
      BY <3>1 DEF Past
    <3>3. \A g \in Part.reads : Fresh(g)
      BY <1>2, <1>3, <1>6, <2>2, <3>2 DEF FreshShape
    <3>4. \A g \in Part.reads : /\ file[g].runs = {run} /\ file[g].whole /\ file[g].from = {run}
      BY <3>3 DEF Fresh
    <3>5. Present = Part.reads
      BY <3>4 DEF Present, Exists
    <3>6. Cut = {}
      BY <3>4, <3>5 DEF Cut
    <3>7. Own = {run} \/ (Own = {} /\ \E g : g \in Present)
      BY <3>1, <3>5 DEF Own, IsMeasuring
    <3>8. \A g \in Present : file[g].from = {run}
      BY <3>4, <3>5
    <3>9. Own \subseteq {run}
      BY DEF Own
    <3>10. \A x : x \in data' <=> x = run
      BY <1>7, <3>6, <3>7, <3>8, <3>9
    <3>. QED
      BY <3>10
  <2>3. \A f \in Files : Fresh(f) => Fresh(f)'
    BY <1>1 DEF Fresh
  <2>4. Complete => \A s \in 1 .. 6, q, i \in Nat, f \in Files : Past(s, q, i, f)' => Fresh(f)'
    BY <1>2, <1>3, <2>1, <2>3 DEF FreshShape
  <2>5. Exempt(Stage, part)' <=> Exempt(Stage, part)
    BY <1>1 DEF Exempt, Stage
  <2>. QED
    BY <1>1, <2>2, <2>4, <2>5 DEF FreshShape, Complete
<1>18. TablesShape'
  BY <1>1, <1>2, <1>3 DEF TablesShape, Stage, Made
<1>. QED
  BY <1>1, <1>10, <1>11, <1>13, <1>14, <1>15, <1>16, <1>17, <1>18, Reports, FilesStay DEF IInv

---------------------------------------------------------------------------
(* An output is opened *)

(* Processed names are written by the processing, and by the circuits'     *)
(* benchmarks before it.                                                   *)
LEMMA PlotWritesPanels ==
  ASSUME NEW c \in 1 .. 3, NEW p, NEW i, NEW f \in Processed
  PROVE  ~ Output("plot", c, p, i, f)
<1>1. PICK q \in 1 .. 6, j \in Nat : Output("process", c, q, j, f)
  BY ProcessedAreOutputs
<1>2. Line[5] = "process" /\ Line[6] = "plot"
  BY StagesAre
<1>. QED
  BY <1>1, <1>2, StagesDiffer

(* While the inventory is written, all that it lists is of this run.       *)
LEMMA InventoryListsOwn ==
  ASSUME Types, QueueShape, PlaceShape, WrittenShape, main \in Active,
         Part.writes[at] = "inventory", NEW f \in Processed
  PROVE  file[f].runs = {run} /\ file[f].whole
<1>1. Head(queue) = "process" /\ part = 7 /\ count \in 1 .. 3
  BY Place, InventoryIsLast
<1>2. PICK q \in 1 .. 6, i \in Nat : Output("process", count, q, i, f)
  BY <1>1, ProcessedAreOutputs
<1>3. Behind(q, i, f) /\ f \in Files
  BY <1>1, <1>2, ProcessedAreOutputs DEF Behind
<1>. QED
  BY <1>3 DEF WrittenShape

(* Once the tables are done, only the plotting is left.                    *)
LEMMA PlotIsLast ==
  ASSUME Types, QueueShape, PlaceShape, main \in Active, goal = "all", Stage >= 6
  PROVE  Stage = 6 /\ Head(queue) = "plot"
<1>1. Stage \in 1 .. 6 /\ StageIs(Stage, Head(queue))
  BY Place
<1>2. Stage = 6
  BY <1>1
<1>. QED
  BY <1>1, <1>2, StagesAre DEF StageIs

LEMMA OpenStep ==
  ASSUME IInv, Open
  PROVE  IInv'
<1>. DEFINE f == Part.writes[at]
            old == IF f \in Groups THEN file[f] ELSE NoFile
<1>1. /\ main = "writing" /\ main' = "open" /\ run' = run /\ goal' = goal /\ queue' = queue
      /\ count' = count /\ comparisonOnly' = comparisonOnly /\ part' = part /\ at' = at /\ data' = data
  BY DEF Open
<1>2. main \in Active /\ main' \in Active /\ main' # "passed" /\ main' # "reading"
  BY <1>1 DEF Active
<1>3. /\ Types /\ QueueShape /\ PlaceShape /\ WrittenShape /\ InventoryShape /\ FreshShape
      /\ TablesShape
      /\ InventoryCertifies /\ DigestCertifies
  BY DEF IInv
<1>4. /\ Head(queue) \in Programs /\ count \in 1 .. 3 /\ part \in 1 .. Len(Running)
      /\ Output(Head(queue), count, part, at, f) /\ f \in Files
      /\ part \in Nat /\ at \in Nat
  BY <1>2, <1>3, Place DEF Types
<1>5. /\ \A q, i \in Nat : ~ Behind(q, i, f)
      /\ Complete => \A s \in 1 .. 6, q, i \in Nat : ~ Past(s, q, i, f)
  BY <1>2, <1>3, CurrentIsNew
<1>6. /\ run \in Nat /\ data \in SUBSET (0 .. run)
      /\ file \in [Files -> [runs : SUBSET (1 .. run), whole : BOOLEAN, from : SUBSET (0 .. run)]]
  BY <1>3 DEF Types
<1>7. run >= 1
  BY <1>1, <1>3 DEF Types
<1>8. old \in [runs : SUBSET (1 .. run), whole : BOOLEAN, from : SUBSET (0 .. run)]
  <2>1. NoFile \in [runs : SUBSET (1 .. run), whole : BOOLEAN, from : SUBSET (0 .. run)]
    BY DEF NoFile
  <2>. QED
    BY <1>4, <1>6, <2>1
<1>. DEFINE new == [runs |-> old.runs \cup {run}, whole |-> FALSE, from |-> old.from \cup data]
<1>9. file' = [file EXCEPT ![f] = new]
  BY DEF Open
<1>10. f = "inventory" => old.runs = {}
  BY <1>4, InventoryIsLast DEF NoFile
<1>11. f \in Processed => \A r \in old.runs : r \in file[f].runs
  BY DEF NoFile
<1>. HIDE DEF old
<1>12. /\ new \in [runs : SUBSET (1 .. run), whole : BOOLEAN, from : SUBSET (0 .. run)]
       /\ new.runs = old.runs \cup {run} /\ ~ new.whole
  <2>1. old.runs \cup {run} \in SUBSET (1 .. run) /\ old.from \cup data \in SUBSET (0 .. run)
    <3>1. old.runs \in SUBSET (1 .. run) /\ old.from \in SUBSET (0 .. run)
      BY <1>8
    <3>2. run \in 1 .. run /\ data \in SUBSET (0 .. run)
      BY <1>6, <1>7
    <3>. QED
      BY <3>1, <3>2
  <2>2. FALSE \in BOOLEAN
    OBVIOUS
  <2>. QED
    BY <2>1, <2>2
<1>13. Part.writes[at] = f
  OBVIOUS
<1>. HIDE DEF f, new
<1>14. file'[f] = new /\ \A g \in Files : g # f => file'[g] = file[g]
  BY <1>4, <1>6, <1>9
<1>15. Types'
  <2>1. file' \in [Files -> [runs : SUBSET (1 .. run), whole : BOOLEAN, from : SUBSET (0 .. run)]]
    BY <1>4, <1>6, <1>9, <1>12
  <2>2. main' \in Resting \cup Active
    BY <1>2
  <2>. QED
    BY <1>1, <1>3, <1>7, <2>1, <2>2 DEF Types
<1>16. QueueShape'
  BY <1>1, <1>2, <1>3 DEF QueueShape, StageIs
<1>17. PlaceShape'
  <2>1. Running' = Running /\ Part' = Part
    BY <1>1 DEF Running, Part
  <2>. QED
    BY <1>1, <1>2, <1>3, <2>1 DEF PlaceShape
<1>18. WrittenShape'
  <2>1. \A q, i \in Nat, g \in Files : Behind(q, i, g)' => Behind(q, i, g)
    BY <1>1 DEF Behind
  <2>2. \A q, i \in Nat, g \in Files : Behind(q, i, g) => file'[g] = file[g]
    BY <1>5, <1>14
  <2>. QED
    BY <1>1, <1>2, <1>3, <2>1, <2>2 DEF WrittenShape
<1>19. InventoryShape'
  <2>1. CASE f = "inventory"
    BY <1>1, <1>4, <2>1, InventoryIsLast DEF InventoryShape
  <2>2. CASE f # "inventory"
    <3>1. file'["inventory"] = file["inventory"]
      BY <1>4, <1>14, <2>2, InventoryIsLast
    <3>. QED
      BY <1>1, <1>2, <1>3, <3>1 DEF InventoryShape
  <2>. QED
    BY <2>1, <2>2
<1>20. InventoryCertifies'
  <2>1. \A h \in Processed : h \in Files /\ h # "inventory"
    BY <1>4, ProcessedAreOutputs
  <2>2. SUFFICES ASSUME NEW g \in file'["inventory"].runs, NEW h \in Processed
                 PROVE  /\ \A r \in file'[h].runs : r >= g
                        /\ file'[h].whole \/ \E r \in file'[h].runs : r > g
    BY DEF InventoryCertifies
  <2>3. CASE f = "inventory"
    <3>1. g = run
      BY <1>10, <1>12, <1>14, <2>2, <2>3
    <3>2. file[h].runs = {run} /\ file[h].whole
      BY <1>2, <1>3, <1>13, <2>3, InventoryListsOwn
    <3>3. file'[h] = file[h]
      BY <1>14, <2>1, <2>3
    <3>. QED
      BY <1>6, <3>1, <3>2, <3>3
  <2>4. CASE f # "inventory"
    <3>1. "inventory" \in Files
      BY <1>4, InventoryIsLast
    <3>2. g \in file["inventory"].runs /\ g \in 1 .. run
      BY <1>6, <1>14, <2>4, <3>1
    <3>3. /\ \A r \in file[h].runs : r >= g
          /\ file[h].whole \/ \E r \in file[h].runs : r > g
      BY <1>3, <3>2 DEF InventoryCertifies
    <3>4. CASE h # f
      BY <1>14, <2>1, <3>3, <3>4
    <3>5. CASE h = f
      <4>1. Head(queue) # "plot"
        BY <1>4, <3>5, PlotWritesPanels
      <4>2. g # run
        BY <1>1, <1>2, <1>3, <3>2, <4>1 DEF InventoryShape
      <4>3. \A r \in new.runs : r >= g
        BY <1>6, <1>11, <1>12, <3>2, <3>3, <3>5
      <4>4. run \in new.runs /\ run > g
        BY <1>6, <1>12, <3>2, <4>2
      <4>. QED
        BY <1>14, <3>5, <4>3, <4>4
    <3>. QED
      BY <3>4, <3>5
  <2>. QED
    BY <2>3, <2>4
<1>21. ASSUME NEW n, NEW raw, NEW summary, NEW config, IsReport(n, raw, summary, config),
              DigestShape(n, raw, summary, config), DigestHolds(raw, summary, config)
       PROVE  /\ DigestShape(n, raw, summary, config)'
              /\ DigestHolds(raw, summary, config)'
  <2>1. /\ raw \in Files /\ summary \in Files /\ config \in Files
        /\ raw # summary /\ raw # config /\ summary # config
    BY <1>21 DEF IsReport
  <2>2. CASE f \in {raw, summary, config}
    <3>1. Head(queue) = n
      BY <1>4, <1>21, <2>2 DEF IsReport
    <3>2. \/ part = 1 /\ at = 1 /\ f = raw
          \/ part = 1 /\ at = 2 /\ f = summary
          \/ part = 2 /\ at = 1 /\ f = config
      BY <1>4, <1>21, <3>1 DEF IsReport
    <3>3. CASE part = 1 /\ at = 1 /\ f = raw
      <4>1. run \notin file[config].from /\ data = {run}
        BY <1>1, <1>2, <1>21, <3>1, <3>3 DEF DigestShape
      <4>2. file'[config] = file[config] /\ ~ file'[raw].whole
        BY <1>12, <1>14, <2>1, <3>3
      <4>. QED
        BY <1>1, <3>3, <4>1, <4>2 DEF DigestShape, DigestHolds
    <3>4. CASE part = 1 /\ at = 2 /\ f = summary
      <4>1. run \notin file[config].from /\ data = {run} /\ file[raw].whole /\ file[raw].from = {run}
        BY <1>1, <1>2, <1>21, <3>1, <3>4 DEF DigestShape
      <4>2. file'[config] = file[config] /\ file'[raw] = file[raw]
        BY <1>14, <2>1, <3>4
      <4>. QED
        BY <1>1, <3>4, <4>1, <4>2 DEF DigestShape, DigestHolds
    <3>5. CASE part = 2 /\ at = 1 /\ f = config
      <4>1. /\ file[raw].whole /\ file[raw].from = {run} /\ data = {run}
            /\ file[summary].whole /\ file[summary].from = {run}
        BY <1>1, <1>2, <1>21, <3>1, <3>5 DEF DigestShape
      <4>2. file'[raw] = file[raw] /\ file'[summary] = file[summary] /\ ~ file'[config].whole
        BY <1>12, <1>14, <2>1, <3>5
      <4>. QED
        BY <1>1, <3>5, <4>1, <4>2 DEF DigestShape, DigestHolds
    <3>. QED
      BY <3>2, <3>3, <3>4, <3>5
  <2>3. CASE f \notin {raw, summary, config}
    <3>1. file'[raw] = file[raw] /\ file'[summary] = file[summary] /\ file'[config] = file[config]
      BY <1>14, <2>1, <2>3
    <3>. QED
      BY <1>1, <1>2, <1>21, <3>1 DEF DigestShape, DigestHolds
  <2>. QED
    BY <2>2, <2>3
<1>22. /\ DigestShape("aes", "aes_raw", "aes_summary", "aes_config")'
       /\ DigestShape("cpabe", "cpabe_raw", "cpabe_summary", "cpabe_config")'
       /\ DigestCertifies'
  BY <1>3, <1>21, Reports, DigestsAre DEF IInv
<1>23. FreshShape'
  <2>1. \A s \in 1 .. 6, q, i \in Nat, g \in Files : Past(s, q, i, g)' => Past(s, q, i, g)
    BY <1>1 DEF Past, Stage
  <2>2. Complete => \A s \in 1 .. 6, q, i \in Nat, g \in Files : Past(s, q, i, g) =>
                          Fresh(g) /\ file'[g] = file[g]
    BY <1>2, <1>3, <1>5, <1>14 DEF FreshShape
  <2>3. Complete => \A s \in 1 .. 6, q, i \in Nat, g \in Files : Past(s, q, i, g)' => Fresh(g)'
    <3>1. ASSUME Complete, NEW s \in 1 .. 6, NEW q \in Nat, NEW i \in Nat, NEW g \in Files,
                 Past(s, q, i, g)'
          PROVE  Fresh(g)'
      <4>1. Fresh(g) /\ file'[g] = file[g]
        BY <2>1, <2>2, <3>1
      <4>. QED
        BY <1>1, <4>1 DEF Fresh
    <3>. QED
      BY <3>1
  <2>4. Complete /\ ~ Exempt(Stage, part)' => data' = {run'}
    <3>1. Exempt(Stage, part)' <=> Exempt(Stage, part)
      BY <1>1 DEF Exempt, Stage
    <3>. QED
      BY <1>1, <1>2, <1>3, <3>1 DEF FreshShape
  <2>. QED
    BY <1>1, <2>3, <2>4 DEF FreshShape, Complete
<1>24. TablesShape'
  <2>1. SUFFICES ASSUME goal = "all", Stage >= 6
                 PROVE  Stage # 7 /\ \A g \in Processed : Made(g)'
    BY <1>1, <1>2 DEF TablesShape, Stage
  <2>2. Stage = 6 /\ Head(queue) = "plot"
    BY <1>2, <1>3, <2>1, PlotIsLast
  <2>3. \A g \in Processed : g \in Files /\ g # f
    BY <1>4, <2>2, PlotWritesPanels, ProcessedAreOutputs
  <2>4. \A g \in Processed : Made(g) /\ file'[g] = file[g]
    BY <1>2, <1>3, <1>14, <2>1, <2>3 DEF TablesShape
  <2>. QED
    BY <1>1, <2>2, <2>4 DEF Made
<1>. QED
  BY <1>15, <1>16, <1>17, <1>18, <1>19, <1>20, <1>22, <1>23, <1>24 DEF IInv

---------------------------------------------------------------------------
(* An output is closed *)

(* Then comes the next output, the next part or the next program.          *)
NextOutput ==
  /\ at < Len(Part.writes)
  /\ at' = at + 1 /\ main' = "writing" /\ queue' = queue /\ part' = part
NextPart ==
  /\ at = Len(Part.writes) /\ part < Len(Running)
  /\ part' = part + 1 /\ at' = 1 /\ main' = "reading" /\ queue' = queue
NextProgram ==
  /\ at = Len(Part.writes) /\ part = Len(Running)
  /\ queue' = Tail(queue) /\ part' = 1 /\ at' = 1
  /\ main' = IF Tail(queue) = <<>> THEN "passed" ELSE "reading"

LEMMA CloseCases ==
  ASSUME Close
  PROVE  /\ NextOutput \/ NextPart \/ NextProgram
         /\ main = "open" /\ run' = run /\ goal' = goal /\ count' = count /\ data' = data
         /\ comparisonOnly' = comparisonOnly
         /\ file' = [file EXCEPT ![Part.writes[at]] = [runs |-> {run}, whole |-> TRUE, from |-> data]]
BY DEF Close, Proceed, NextOutput, NextPart, NextProgram

(* The queue when a program ends: the chain goes on with its next stage.   *)
LEMMA QueueAdvances ==
  ASSUME Types, QueueShape, PlaceShape, main \in Active, goal' = goal,
         comparisonOnly' = comparisonOnly, NextProgram
  PROVE  /\ QueueShape'
         /\ main' = "passed" \/ main' = "reading"
         /\ main' = "reading" => queue' # <<>> /\ goal = "all"
         /\ goal = "all" => /\ Stage' = Stage + 1
                            /\ main' = "reading" =>
                                 Stage' \in 1 .. 6 /\ StageIs(Stage', Head(queue'))
<1>1. queue \in Seq(Programs) /\ Len(queue) \in Nat \ {0} /\ queue # <<>>
  BY Place DEF QueueShape, PlaceShape
<1>2. PICK k \in Nat \ {0} : Len(queue) = k
  BY <1>1
<1>3. /\ queue' \in Seq(Programs) /\ Len(queue') = k - 1
      /\ \A i \in 1 .. k - 1 : queue'[i] = queue[i + 1]
  BY <1>1, <1>2 DEF NextProgram
<1>4. /\ main' = "passed" => queue' = <<>>
      /\ main' = "reading" => queue' # <<>>
      /\ main' = "passed" \/ main' = "reading"
  BY DEF NextProgram
<1>5. goal # "all" => queue' = <<>>
  <2>1. goal # "all" => k = 1
    BY <1>2 DEF QueueShape
  <2>2. k = 1 => Len(queue') = 0
    BY <1>3
  <2>. QED
    BY <1>3, <2>1, <2>2
<1>6. goal = "all" => /\ k <= 6
                      /\ \A i \in 1 .. k - 1 : StageIs(i + 6 - (k - 1), queue'[i])
  <2>1. SUFFICES ASSUME goal = "all", k <= 6, NEW i \in 1 .. k - 1
                 PROVE  StageIs(i + 6 - (k - 1), queue'[i])
    BY <1>2 DEF QueueShape
  <2>2. i + 1 \in 1 .. k /\ i + 1 + 6 - k = i + 6 - (k - 1)
    BY <1>2
  <2>3. StageIs(i + 1 + 6 - k, queue[i + 1])
    BY <1>2, <2>1, <2>2 DEF QueueShape
  <2>. QED
    BY <1>3, <2>2, <2>3
<1>7. QueueShape'
  BY <1>3, <1>4, <1>5, <1>6 DEF QueueShape, StageIs
<1>8. goal = "all" => Stage' = Stage + 1
  BY <1>2, <1>3 DEF Stage
<1>9. ASSUME goal = "all", main' = "reading"
      PROVE  Stage' \in 1 .. 6 /\ StageIs(Stage', Head(queue'))
  <2>1. k - 1 >= 1 /\ Head(queue') = queue'[1]
    BY <1>2, <1>3, <1>4, <1>9
  <2>2. StageIs(1 + 6 - (k - 1), queue'[1]) /\ 1 + 6 - (k - 1) = 8 - k
    BY <1>2, <1>6, <1>9, <2>1
  <2>3. Stage' = 8 - k /\ 8 - k \in 1 .. 6
    BY <1>2, <1>3, <1>6, <1>9, <2>1 DEF Stage
  <2>. QED
    BY <2>1, <2>2, <2>3
<1>. QED
  BY <1>4, <1>5, <1>7, <1>8, <1>9

(* What is behind grows by the output that is closed.                      *)
LEMMA BehindGrows ==
  ASSUME Types, QueueShape, PlaceShape, main \in Active, count' = count, run' = run, goal' = goal,
         comparisonOnly' = comparisonOnly,
         NextOutput \/ NextPart \/ NextProgram
  PROVE  /\ main' \in Active => \A q, i \in Nat, g \in Files :
              Behind(q, i, g)' => queue' = queue /\ (Behind(q, i, g) \/ g = Part.writes[at])
         /\ Complete => \A s \in 1 .. 6, q, i \in Nat, g \in Files :
              Past(s, q, i, g)' => \/ Past(s, q, i, g)
                                   \/ g = Part.writes[at] /\ ~ Exempt(Stage, part)
<1>1. /\ Head(queue) \in Programs /\ count \in 1 .. 3
      /\ part \in 1 .. Len(Running) /\ at \in 1 .. Len(Part.writes)
      /\ Len(Running) \in 1 .. 8 /\ Len(Part.writes) \in Nat
      /\ part \in Nat /\ at \in Nat
      /\ Complete => Stage \in 1 .. 6 /\ Head(queue) = Line[Stage]
  BY Place DEF Types
<1>2. PICK k \in 1 .. 8, l \in Nat : Len(Running) = k /\ Len(Part.writes) = l
  BY <1>1
<1>3. part \in 1 .. k /\ at \in 1 .. l
  BY <1>1, <1>2
<1>4. ASSUME NEW q \in Nat, NEW i \in Nat, NEW g, Output(Head(queue), count, q, i, g)
      PROVE  q <= k /\ (q = part => i <= l) /\ (q = part /\ i = at => g = Part.writes[at])
  BY <1>2, <1>4 DEF Output, Writes, Running, Part
<1>5. ASSUME NEW q \in Nat, NEW i \in Nat, NEW g, Output(Head(queue), count, q, i, g),
             \/ NextOutput /\ (q < part \/ (q = part /\ i < at + 1))
             \/ NextPart /\ (q < part + 1 \/ (q = part + 1 /\ i < 1))
             \/ NextProgram
      PROVE  \/ q < part \/ (q = part /\ i < at)
             \/ q = part /\ g = Part.writes[at]
  <2>1. CASE NextOutput /\ (q < part \/ (q = part /\ i < at + 1))
    BY <1>3, <1>4, <1>5, <2>1
  <2>2. CASE NextPart /\ (q < part + 1 \/ (q = part + 1 /\ i < 1))
    <3>1. at = l
      BY <1>2, <2>2 DEF NextPart
    <3>2. q <= part
      BY <1>1, <1>3, <1>5, <2>2, PlacesAreNumbers
    <3>. QED
      BY <1>3, <1>4, <1>5, <3>1, <3>2
  <2>3. CASE NextProgram
    <3>1. at = l /\ part = k
      BY <1>2, <2>3 DEF NextProgram
    <3>. QED
      BY <1>3, <1>4, <1>5, <3>1
  <2>. QED
    BY <1>5, <2>1, <2>2, <2>3
<1>6. ASSUME main' \in Active, NEW q \in Nat, NEW i \in Nat, NEW g \in Files, Behind(q, i, g)'
      PROVE  queue' = queue /\ (Behind(q, i, g) \/ g = Part.writes[at])
  <2>1. Output(Head(queue'), count, q, i, g) /\ (q < part' \/ (q = part' /\ i < at'))
    BY <1>6 DEF Behind
  <2>2. CASE NextProgram
    <3>1. main' = "reading" /\ queue' # <<>> /\ queue' \in Seq(Programs)
      BY <1>6, <2>2, QueueAdvances DEF Active, QueueShape
    <3>2. Head(queue') \in Programs /\ part' = 1 /\ at' = 1
      BY <2>2, <3>1 DEF NextProgram
    <3>. QED
      BY <1>1, <2>1, <3>2, NothingBehind
  <2>3. CASE NextOutput
    <3>1. queue' = queue /\ part' = part /\ at' = at + 1
      BY <2>3 DEF NextOutput
    <3>. QED
      BY <1>5, <2>1, <2>3, <3>1 DEF Behind
  <2>4. CASE NextPart
    <3>1. queue' = queue /\ part' = part + 1 /\ at' = 1
      BY <2>4 DEF NextPart
    <3>. QED
      BY <1>5, <2>1, <2>4, <3>1 DEF Behind
  <2>. QED
    BY <2>2, <2>3, <2>4
<1>7. ASSUME Complete, NEW s \in 1 .. 6, NEW q \in Nat, NEW i \in Nat, NEW g \in Files,
             Past(s, q, i, g)'
      PROVE  Past(s, q, i, g) \/ (g = Part.writes[at] /\ ~ Exempt(Stage, part))
  <2>1. /\ Output(Line[s], count, q, i, g) /\ ~ Exempt(s, q) /\ (s = 4 => g \notin Copies)
        /\ s < Stage' \/ (s = Stage' /\ (q < part' \/ (q = part' /\ i < at')))
    BY <1>7 DEF Past
  <2>2. CASE s < Stage
    BY <2>1, <2>2 DEF Past
  <2>3. CASE s = Stage
    <3>1. Output(Head(queue), count, q, i, g)
      BY <1>1, <1>7, <2>1, <2>3
    <3>2. \/ NextOutput /\ (q < part \/ (q = part /\ i < at + 1))
          \/ NextPart /\ (q < part + 1 \/ (q = part + 1 /\ i < 1))
          \/ NextProgram
      <4>1. NextOutput \/ NextPart => Stage' = Stage
        BY DEF NextOutput, NextPart, Stage
      <4>2. NextOutput => part' = part /\ at' = at + 1
        BY DEF NextOutput
      <4>3. NextPart => part' = part + 1 /\ at' = 1
        BY DEF NextPart
      <4>. QED
        BY <1>1, <1>7, <2>1, <2>3, <4>1, <4>2, <4>3
    <3>3. \/ q < part \/ (q = part /\ i < at)
          \/ q = part /\ g = Part.writes[at]
      BY <1>5, <3>1, <3>2
    <3>. QED
      BY <2>1, <2>3, <3>3 DEF Past
  <2>4. CASE s > Stage
    <3>1. NextProgram /\ Stage' = Stage + 1 /\ part' = 1 /\ at' = 1
      <4>1. NextOutput \/ NextPart => Stage' = Stage
        BY DEF NextOutput, NextPart, Stage
      <4>2. NextProgram
        BY <1>1, <1>7, <2>1, <2>4, <4>1
      <4>. QED
        BY <1>7, <4>2, QueueAdvances DEF NextProgram, Complete
    <3>2. s = Stage' /\ (q < 1 \/ (q = 1 /\ i < 1))
      BY <1>1, <1>7, <2>1, <2>4, <3>1
    <3>3. Line[s] \in Programs
      <4>1. s \in {1, 2, 3, 4, 5, 6}
        BY <1>7
      <4>. QED
        BY <4>1, StagesAre DEF Programs
    <3>. QED
      BY <1>1, <2>1, <3>2, <3>3, NothingBehind
  <2>. QED
    BY <1>1, <1>7, <2>2, <2>3, <2>4
<1>. QED
  BY <1>6, <1>7

(* When a program ends, all of it is behind but the output that is closed. *)
LEMMA AllIsBehind ==
  ASSUME Types, QueueShape, PlaceShape, main \in Active, NextProgram,
         NEW q \in Nat, NEW i \in Nat, NEW g, Output(Head(queue), count, q, i, g)
  PROVE  Behind(q, i, g) \/ g = Part.writes[at]
<1>1. /\ part \in 1 .. Len(Running) /\ at \in 1 .. Len(Part.writes)
      /\ Len(Running) \in 1 .. 8 /\ Len(Part.writes) \in Nat
  BY Place
<1>2. PICK k \in 1 .. 8, l \in Nat : Len(Running) = k /\ Len(Part.writes) = l
  BY <1>1
<1>3. at = l /\ part = k
  BY <1>2 DEF NextProgram
<1>4. q <= k /\ (q = part => i <= l) /\ (q = part /\ i = at => g = Part.writes[at])
  BY <1>2 DEF Output, Writes, Running, Part
<1>. QED
  BY <1>3, <1>4 DEF Behind

(* The inventory is closed last: its program has nothing left to do.       *)
LEMMA InventoryEnds ==
  ASSUME Types, QueueShape, PlaceShape, main \in Active, goal' = goal,
         comparisonOnly' = comparisonOnly,
         NextOutput \/ NextPart \/ NextProgram
  PROVE  /\ Part.writes[at] = "inventory" /\ main' \in Active => Head(queue') = "plot"
         /\ Head(queue) = "plot" /\ main' \in Active => Head(queue') = "plot"
         /\ Head(queue) = "process" /\ part = 7 => Part.writes[at] = "inventory"
<1>1. /\ Head(queue) \in Programs /\ count \in 1 .. 3
      /\ Output(Head(queue), count, part, at, Part.writes[at])
      /\ at \in 1 .. Len(Part.writes)
      /\ goal = "all" => Stage \in 1 .. 6 /\ StageIs(Stage, Head(queue))
  BY Place
<1>2. NextProgram /\ main' \in Active =>
        goal = "all" /\ Stage' = Stage + 1 /\ Stage' \in 1 .. 6 /\ StageIs(Stage', Head(queue'))
  BY QueueAdvances DEF Active
<1>3. Head(queue) = "process" /\ part = 7 => Part.writes[at] = "inventory"
  <2>1. SUFFICES ASSUME Head(queue) = "process", part = 7 PROVE Part.writes[at] = "inventory"
    OBVIOUS
  <2>2. Len(Part.writes) = 1 /\ Output("process", count, 7, 1, "inventory")
    BY <1>1, <2>1, InventoryIsLast DEF Part, Running
  <2>3. at = 1 /\ "inventory" = Part.writes[1]
    BY <1>1, <2>1, <2>2 DEF Output, Writes, Part, Running
  <2>. QED
    BY <2>3
<1>4. ASSUME Part.writes[at] = "inventory", main' \in Active
      PROVE  Head(queue') = "plot"
  <2>1. Head(queue) = "process" /\ part = 7 /\ at = 1
    BY <1>1, <1>4, InventoryIsLast
  <2>2. Len(Part.writes) = 1 /\ Len(Running) = 7
    BY <1>1, <2>1, InventoryIsLast DEF Part, Running
  <2>3. NextProgram
    BY <2>1, <2>2 DEF NextOutput, NextPart
  <2>4. Stage \in {1, 2, 3, 4, 5, 6} /\ StageIs(Stage, "process")
    BY <1>1, <1>2, <1>4, <2>1, <2>3
  <2>5. Stage = 5
    BY <2>4, StagesAre DEF StageIs
  <2>. QED
    BY <1>2, <1>4, <2>3, <2>5, StagesAre DEF StageIs
<1>5. ASSUME Head(queue) = "plot", main' \in Active
      PROVE  Head(queue') = "plot"
  <2>1. CASE NextProgram
    <3>1. Stage \in {1, 2, 3, 4, 5, 6} /\ StageIs(Stage, "plot")
      BY <1>1, <1>2, <1>5, <2>1
    <3>2. Stage = 6
      BY <3>1, StagesAre DEF StageIs
    <3>. QED
      BY <1>2, <1>5, <2>1, <3>2
  <2>2. CASE NextOutput \/ NextPart
    BY <1>5, <2>2 DEF NextOutput, NextPart
  <2>. QED
    BY <2>1, <2>2
<1>. QED
  BY <1>3, <1>4, <1>5

LEMMA CloseStep ==
  ASSUME IInv, Close
  PROVE  IInv'
<1>. DEFINE f == Part.writes[at]
            new == [runs |-> {run}, whole |-> TRUE, from |-> data]
<1>1. /\ NextOutput \/ NextPart \/ NextProgram
      /\ main = "open" /\ run' = run /\ goal' = goal /\ count' = count /\ data' = data
      /\ comparisonOnly' = comparisonOnly
  BY CloseCases
<1>2. main \in Active /\ main # "reading"
  BY <1>1 DEF Active
<1>3. /\ Types /\ QueueShape /\ PlaceShape /\ WrittenShape /\ InventoryShape /\ FreshShape
      /\ TablesShape
      /\ InventoryCertifies /\ DigestCertifies
  BY DEF IInv
<1>4. /\ Head(queue) \in Programs /\ count \in 1 .. 3
      /\ Output(Head(queue), count, part, at, f) /\ f \in Files
      /\ part \in 1 .. Len(Running) /\ at \in 1 .. Len(Part.writes)
      /\ Len(Running) \in 1 .. 8 /\ Len(Part.writes) \in Nat /\ part \in Nat /\ at \in Nat
      /\ goal # "all" => Len(queue) = 1
      /\ goal = "all" => Stage \in 1 .. 6 /\ StageIs(Stage, Head(queue))
  BY <1>2, <1>3, Place DEF Types
<1>5. /\ run \in Nat /\ data \in SUBSET (0 .. run) /\ run >= 1
      /\ file \in [Files -> [runs : SUBSET (1 .. run), whole : BOOLEAN, from : SUBSET (0 .. run)]]
  BY <1>1, <1>3 DEF Types
<1>6. file' = [file EXCEPT ![f] = new]
  BY CloseCases
<1>7. /\ new \in [runs : SUBSET (1 .. run), whole : BOOLEAN, from : SUBSET (0 .. run)]
      /\ new.runs = {run} /\ new.whole /\ new.from = data
  <2>1. {run} \in SUBSET (1 .. run) /\ TRUE \in BOOLEAN /\ data \in SUBSET (0 .. run)
    BY <1>5
  <2>. QED
    BY <2>1
<1>8. Part.writes[at] = f
  OBVIOUS
<1>9. file'[f] = [runs |-> {run}, whole |-> TRUE, from |-> data]
  BY <1>4, <1>5, <1>6
<1>. HIDE DEF f, new
<1>10. file'[f] = new /\ \A g \in Files : g # f => file'[g] = file[g]
  BY <1>4, <1>5, <1>6
<1>11. /\ main' \in Active \cup {"passed"} /\ part' \in Nat \ {0} /\ at' \in Nat \ {0}
  <2>1. CASE NextOutput
    BY <1>4, <2>1 DEF NextOutput, Active
  <2>2. CASE NextPart
    BY <1>4, <2>2 DEF NextPart, Active
  <2>3. CASE NextProgram
    BY <2>3 DEF NextProgram, Active
  <2>. QED
    BY <1>1, <2>1, <2>2, <2>3
<1>12. Types'
  <2>1. file' \in [Files -> [runs : SUBSET (1 .. run), whole : BOOLEAN, from : SUBSET (0 .. run)]]
    BY <1>4, <1>5, <1>6, <1>7
  <2>2. main' \in Resting \cup Active
    BY <1>11 DEF Resting
  <2>. QED
    BY <1>1, <1>3, <1>5, <1>11, <2>1, <2>2 DEF Types
<1>13. QueueShape'
  <2>1. CASE NextOutput \/ NextPart
    BY <1>1, <1>3, <2>1 DEF QueueShape, StageIs, NextOutput, NextPart
  <2>2. CASE NextProgram
    BY <1>1, <1>2, <1>3, <2>2, QueueAdvances
  <2>. QED
    BY <1>1, <2>1, <2>2
<1>14. PlaceShape'
  <2>1. CASE NextOutput
    <3>1. Running' = Running /\ Part' = Part /\ queue' = queue
      BY <1>1, <2>1 DEF NextOutput, Running, Part
    <3>2. at + 1 \in 1 .. Len(Part.writes)
      BY <1>4, <2>1 DEF NextOutput
    <3>. QED
      BY <1>2, <1>3, <1>4, <2>1, <3>1, <3>2 DEF PlaceShape, NextOutput
  <2>2. CASE NextPart
    <3>1. Running' = Running /\ queue' = queue /\ Part' = Program(Head(queue), count)[part + 1]
      BY <1>1, <2>2 DEF NextPart, Running, Part
    <3>2. part + 1 \in 1 .. Len(Running) /\ Len(Running) = Len(Program(Head(queue), count))
      BY <1>4, <2>2 DEF NextPart, Running
    <3>3. Len(Part'.writes) \in Nat \ {0}
      BY <1>4, <3>1, <3>2, PartsHaveOutputs
    <3>4. 1 \in 1 .. Len(Part'.writes)
      <4>1. PICK l \in Nat \ {0} : Len(Part'.writes) = l
        BY <3>3
      <4>. QED
        BY <4>1
    <3>. QED
      BY <1>2, <1>3, <2>2, <3>1, <3>2, <3>4 DEF PlaceShape, NextPart
  <2>3. CASE NextProgram
    <3>1. SUFFICES ASSUME main' \in Active PROVE PlaceShape'
      BY DEF PlaceShape
    <3>2. main' = "reading" /\ queue' # <<>> /\ queue' \in Seq(Programs)
      BY <1>1, <1>2, <1>3, <2>3, <3>1, QueueAdvances DEF Active, QueueShape
    <3>3. Head(queue') \in Programs
      BY <3>2
    <3>4. PICK k \in 1 .. 8 : Len(Program(Head(queue'), count)) = k
      BY <1>4, <3>3, Outputs
    <3>5. 1 \in 1 .. Len(Program(Head(queue'), count))
      BY <3>4
    <3>6. PICK l \in Nat \ {0} : Len(Program(Head(queue'), count)[1].writes) = l
      BY <1>4, <3>3, <3>5, PartsHaveOutputs
    <3>7. part' = 1 /\ at' = 1
      BY <2>3 DEF NextProgram
    <3>8. 1 \in 1 .. Len(Running') /\ 1 \in 1 .. Len(Part'.writes)
      BY <1>1, <3>5, <3>6, <3>7 DEF Running, Part
    <3>. QED
      BY <3>2, <3>7, <3>8 DEF PlaceShape
  <2>. QED
    BY <1>1, <2>1, <2>2, <2>3
<1>15. WrittenShape'
  <2>1. ASSUME main' \in Active, NEW q \in Nat, NEW i \in Nat, NEW g \in Files, Behind(q, i, g)'
        PROVE  file'[g].runs = {run} /\ file'[g].whole
    <3>1. Behind(q, i, g) \/ g = f
      BY <1>1, <1>2, <1>3, <1>8, <2>1, BehindGrows
    <3>2. CASE g = f
      BY <1>7, <1>10, <3>2
    <3>3. CASE g # f
      BY <1>2, <1>3, <1>10, <3>1, <3>3 DEF WrittenShape
    <3>. QED
      BY <3>2, <3>3
  <2>. QED
    BY <1>1, <2>1 DEF WrittenShape
<1>16. InventoryShape'
  <2>1. SUFFICES ASSUME run \in file'["inventory"].runs, main' \in Active
                 PROVE  Head(queue') = "plot"
    BY <1>1 DEF InventoryShape
  <2>2. CASE f = "inventory"
    BY <1>1, <1>2, <1>3, <1>8, <2>1, <2>2, InventoryEnds
  <2>3. CASE f # "inventory"
    <3>1. run \in file["inventory"].runs
      BY <1>4, <1>10, <2>1, <2>3, InventoryIsLast
    <3>2. Head(queue) = "plot"
      BY <1>1, <1>2, <1>3, <1>8, <2>3, <3>1, InventoryEnds DEF InventoryShape
    <3>. QED
      BY <1>1, <1>2, <1>3, <2>1, <3>2, InventoryEnds
  <2>. QED
    BY <2>2, <2>3
<1>17. InventoryCertifies'
  <2>1. /\ \A h \in Processed : h \in Files /\ h # "inventory"
        /\ "inventory" \in Files
    BY <1>4, ProcessedAreOutputs, InventoryIsLast
  <2>2. SUFFICES ASSUME NEW g \in file'["inventory"].runs, NEW h \in Processed
                 PROVE  /\ \A r \in file'[h].runs : r >= g
                        /\ file'[h].whole \/ \E r \in file'[h].runs : r > g
    BY DEF InventoryCertifies
  <2>3. CASE f = "inventory"
    <3>1. g = run
      BY <1>7, <1>10, <2>2, <2>3
    <3>2. file[h].runs = {run} /\ file[h].whole
      BY <1>2, <1>3, <1>8, <2>3, InventoryListsOwn
    <3>3. file'[h] = file[h]
      BY <1>10, <2>1, <2>3
    <3>. QED
      BY <1>5, <3>1, <3>2, <3>3
  <2>4. CASE f # "inventory"
    <3>1. g \in file["inventory"].runs /\ g \in 1 .. run
      BY <1>5, <1>10, <2>1, <2>2, <2>4
    <3>2. CASE h = f
      BY <1>5, <1>7, <1>10, <3>1, <3>2
    <3>3. CASE h # f
      BY <1>3, <1>10, <2>1, <3>1, <3>3 DEF InventoryCertifies
    <3>. QED
      BY <3>2, <3>3
  <2>. QED
    BY <2>3, <2>4
<1>18. ASSUME NEW n, NEW raw, NEW summary, NEW config, IsReport(n, raw, summary, config),
              DigestShape(n, raw, summary, config), DigestHolds(raw, summary, config)
       PROVE  /\ DigestShape(n, raw, summary, config)'
              /\ DigestHolds(raw, summary, config)'
  <2>1. /\ raw \in Files /\ summary \in Files /\ config \in Files
        /\ raw # summary /\ raw # config /\ summary # config
    BY <1>18 DEF IsReport
  <2>2. (NextProgram \/ Head(queue) # n) /\ main' \in Active => Head(queue') # n
    <3>1. CASE NextProgram
      <4>1. SUFFICES ASSUME main' \in Active PROVE Head(queue') # n
        OBVIOUS
      <4>2. Stage' \in {1, 2, 3, 4, 5, 6} /\ StageIs(Stage', Head(queue'))
        BY <1>1, <1>2, <1>3, <3>1, <4>1, QueueAdvances DEF Active
      <4>. QED
        BY <1>18, <4>2, StagesAre DEF IsReport, StageIs
    <3>2. CASE (NextOutput \/ NextPart) /\ ~ NextProgram
      BY <3>2 DEF NextOutput, NextPart
    <3>. QED
      BY <1>1, <3>1, <3>2
  <2>3. CASE Head(queue) = n
    <3>1. \/ part = 1 /\ at = 1 /\ f = raw
          \/ part = 1 /\ at = 2 /\ f = summary
          \/ part = 2 /\ at = 1 /\ f = config
      BY <1>4, <1>18, <2>3 DEF IsReport
    <3>2. Len(Running) = 2
      BY <1>4, <1>18, <2>3 DEF IsReport, Running
    <3>3. part = 1 => run \notin file[config].from /\ data = {run}
      BY <1>2, <1>18, <2>3 DEF DigestShape
    <3>4. CASE part = 1 /\ at = 1 /\ f = raw
      <4>1. /\ file'[config] = file[config] /\ file'[raw].whole /\ file'[raw].from = {run}
        BY <1>7, <1>10, <2>1, <3>3, <3>4
      <4>2. Len(Part.writes) = 2
        BY <1>4, <1>18, <2>3, <3>4 DEF IsReport, Part, Running
      <4>3. NextOutput
        BY <1>1, <3>4, <4>2 DEF NextPart, NextProgram
      <4>4. at' = 2 /\ part' = 1
        BY <3>4, <4>3 DEF NextOutput
      <4>. QED
        BY <1>1, <3>3, <3>4, <4>1, <4>4 DEF DigestShape, DigestHolds
    <3>5. CASE part = 1 /\ at = 2 /\ f = summary
      <4>1. file[raw].whole /\ file[raw].from = {run}
        BY <1>2, <1>18, <2>3, <3>5 DEF DigestShape
      <4>2. /\ file'[config] = file[config] /\ file'[raw] = file[raw]
            /\ file'[summary].whole /\ file'[summary].from = {run}
        BY <1>7, <1>10, <2>1, <3>3, <3>5
      <4>3. Len(Part.writes) = 2
        BY <1>4, <1>18, <2>3, <3>5 DEF IsReport, Part, Running
      <4>4. NextPart
        BY <1>1, <3>2, <3>5, <4>3 DEF NextOutput, NextProgram
      <4>5. part' = 2 /\ main' = "reading"
        BY <3>5, <4>4 DEF NextPart
      <4>. QED
        BY <1>1, <3>3, <3>5, <4>1, <4>2, <4>5 DEF DigestShape, DigestHolds
    <3>6. CASE part = 2 /\ at = 1 /\ f = config
      <4>1. /\ file[raw].whole /\ file[raw].from = {run}
            /\ file[summary].whole /\ file[summary].from = {run} /\ data = {run}
        BY <1>2, <1>18, <2>3, <3>6 DEF DigestShape
      <4>2. file'[raw] = file[raw] /\ file'[summary] = file[summary]
        BY <1>10, <2>1, <3>6
      <4>3. Len(Part.writes) = 1
        BY <1>4, <1>18, <2>3, <3>6 DEF IsReport, Part, Running
      <4>4. NextProgram
        BY <1>1, <3>2, <3>6, <4>3 DEF NextOutput, NextPart
      <4>5. main' \in Active => Head(queue') # n
        BY <2>2, <4>4
      <4>. QED
        BY <4>1, <4>2, <4>5 DEF DigestShape, DigestHolds
    <3>. QED
      BY <3>1, <3>4, <3>5, <3>6
  <2>4. CASE Head(queue) # n
    <3>1. f \notin {raw, summary, config}
      BY <1>4, <1>18, <2>4 DEF IsReport
    <3>2. file'[raw] = file[raw] /\ file'[summary] = file[summary] /\ file'[config] = file[config]
      BY <1>10, <2>1, <3>1
    <3>. QED
      BY <1>18, <2>2, <2>4, <3>2 DEF DigestShape, DigestHolds
  <2>. QED
    BY <2>3, <2>4
<1>19. /\ DigestShape("aes", "aes_raw", "aes_summary", "aes_config")'
       /\ DigestShape("cpabe", "cpabe_raw", "cpabe_summary", "cpabe_config")'
       /\ DigestCertifies'
  BY <1>3, <1>18, Reports, DigestsAre DEF IInv
<1>20. FreshShape'
  <2>1. ASSUME Complete, NEW s \in 1 .. 6, NEW q \in Nat, NEW i \in Nat, NEW g \in Files,
               Past(s, q, i, g)'
        PROVE  Fresh(g)'
    <3>1. Past(s, q, i, g) \/ (g = f /\ ~ Exempt(Stage, part))
      BY <1>1, <1>2, <1>3, <1>8, <2>1, BehindGrows
    <3>2. CASE g = f /\ ~ Exempt(Stage, part)
      <4>1. data = {run}
        BY <1>1, <1>2, <1>3, <2>1, <3>2 DEF FreshShape
      <4>. QED
        BY <1>1, <1>9, <3>2, <4>1 DEF Fresh
    <3>3. CASE Past(s, q, i, g)
      <4>1. Fresh(g) /\ g # f
        BY <1>2, <1>3, <1>8, <2>1, <3>3, CurrentIsNew DEF FreshShape
      <4>. QED
        BY <1>1, <1>10, <4>1 DEF Fresh
    <3>. QED
      BY <3>1, <3>2, <3>3
  <2>2. ASSUME Complete, main' \in {"writing", "open"}, ~ Exempt(Stage, part)'
        PROVE  data = {run}
    <3>1. NextOutput
      BY <1>1, <2>2 DEF NextPart, NextProgram
    <3>2. ~ Exempt(Stage, part)
      BY <2>2, <3>1 DEF NextOutput, Exempt, Stage
    <3>. QED
      BY <1>1, <1>2, <1>3, <2>2, <3>2 DEF FreshShape
  <2>. QED
    BY <1>1, <2>1, <2>2 DEF FreshShape, Complete
<1>21. TablesShape'
  <2>1. \A g \in Files : g # f => (Made(g) => Made(g)')
    BY <1>1, <1>10 DEF Made
  <2>2. \A g \in Files : g = f => Made(g)'
    BY <1>1, <1>7, <1>10 DEF Made
  <2>3. ASSUME goal = "all", Stage >= 6, NEW h \in Processed
        PROVE  Made(h)'
    <3>1. Head(queue) = "plot" /\ Made(h)
      BY <1>2, <1>3, <2>3, PlotIsLast DEF TablesShape
    <3>2. h \in Files /\ h # f
      BY <1>4, <3>1, PlotWritesPanels, ProcessedAreOutputs
    <3>. QED
      BY <2>1, <3>1, <3>2
  <2>4. CASE NextOutput \/ NextPart
    <3>1. Stage' = Stage /\ (goal = "all" => Stage # 7)
      BY <1>4, <2>4 DEF NextOutput, NextPart, Stage
    <3>. QED
      BY <1>1, <2>3, <3>1 DEF TablesShape
  <2>5. CASE NextProgram
    <3>1. SUFFICES ASSUME goal = "all"
                   PROVE  /\ Stage' >= 6 => \A h \in Processed : Made(h)'
                          /\ Stage' = 7 => \A h \in Panels : Made(h)'
      BY <1>1 DEF TablesShape
    <3>2. Stage' = Stage + 1 /\ Stage \in 1 .. 6 /\ StageIs(Stage, Head(queue))
      BY <1>1, <1>2, <1>3, <2>5, <3>1, QueueAdvances, Place
    <3>3. ASSUME Stage = 5, NEW h \in Processed
          PROVE  Made(h)'
      <4>1. Head(queue) = "process"
        BY <3>2, <3>3, StagesAre DEF StageIs
      <4>2. part = 7
        BY <1>4, <2>5, <4>1, InventoryIsLast DEF NextProgram, Running
      <4>3. f = "inventory"
        BY <1>1, <1>2, <1>3, <1>8, <4>1, <4>2, InventoryEnds
      <4>4. Made(h)
        BY <1>2, <1>3, <1>8, <4>3, InventoryListsOwn DEF Made
      <4>5. h \in Files /\ h # f
        BY <1>4, <4>3, ProcessedAreOutputs
      <4>. QED
        BY <2>1, <4>4, <4>5
    <3>4. ASSUME Stage = 6, NEW h \in Panels
          PROVE  Made(h)'
      <4>1. Head(queue) = "plot"
        BY <3>2, <3>4, StagesAre DEF StageIs
      <4>2. PICK q \in Nat, i \in Nat : Output("plot", count, q, i, h)
        BY <1>4, PanelsAreOutputs
      <4>3. Behind(q, i, h) \/ h = f
        BY <1>2, <1>3, <1>8, <2>5, <4>1, <4>2, AllIsBehind
      <4>4. h \in Files
        BY <1>4, PanelsAreOutputs
      <4>5. CASE h # f
        <5>1. Made(h)
          BY <1>2, <1>3, <4>3, <4>4, <4>5 DEF WrittenShape, Made
        <5>. QED
          BY <2>1, <4>4, <4>5, <5>1
      <4>. QED
        BY <2>2, <4>4, <4>5
    <3>5. Stage' >= 6 => Stage = 5 \/ Stage >= 6
      BY <3>2
    <3>6. Stage' = 7 => Stage = 6
      BY <3>2
    <3>. QED
      BY <2>3, <3>1, <3>3, <3>4, <3>5, <3>6
  <2>. QED
    BY <1>1, <2>4, <2>5
<1>. QED
  BY <1>12, <1>13, <1>14, <1>15, <1>16, <1>17, <1>19, <1>20, <1>21 DEF IInv

---------------------------------------------------------------------------
(* The theorems *)

LEMMA NextStep ==
  ASSUME IInv, [Next]_vars
  PROVE  IInv'
<1>1. CASE Start
  BY <1>1, StartStep
<1>2. CASE Read
  BY <1>2, ReadStep
<1>3. CASE Open
  BY <1>3, OpenStep
<1>4. CASE Close
  BY <1>4, CloseStep
<1>5. CASE Stop
  BY <1>5, StopStep
<1>6. CASE UNCHANGED vars
  <2>1. /\ run' = run /\ goal' = goal /\ main' = main /\ queue' = queue /\ count' = count
        /\ comparisonOnly' = comparisonOnly
        /\ part' = part /\ at' = at /\ data' = data /\ file' = file
    BY <1>6 DEF vars
  <2>2. Running' = Running /\ Part' = Part /\ Stage' = Stage
    BY <2>1 DEF Running, Part, Stage
  <2>3. Types' /\ QueueShape' /\ PlaceShape' /\ InventoryShape'
    BY <2>1, <2>2 DEF IInv, Types, QueueShape, StageIs, PlaceShape, InventoryShape
  <2>4. WrittenShape'
    <3>1. \A q, i \in Nat, f \in Files : Behind(q, i, f)' => Behind(q, i, f)
      BY <2>1 DEF Behind
    <3>. QED
      BY <2>1, <3>1 DEF IInv, WrittenShape
  <2>5. \A n, raw, summary, config :
          DigestShape(n, raw, summary, config) => DigestShape(n, raw, summary, config)'
    BY <2>1 DEF DigestShape
  <2>6. FreshShape'
    <3>1. \A s \in 1 .. 6, q, i \in Nat, f \in Files : Past(s, q, i, f)' => Past(s, q, i, f)
      BY <2>1, <2>2 DEF Past
    <3>2. \A f \in Files : Fresh(f) => Fresh(f)'
      BY <2>1 DEF Fresh
    <3>3. ASSUME Complete, main \in Active \cup {"passed"}, NEW s \in 1 .. 6, NEW q \in Nat,
                 NEW i \in Nat, NEW f \in Files, Past(s, q, i, f)'
          PROVE  Fresh(f)'
      BY <3>1, <3>2, <3>3 DEF IInv, FreshShape
    <3>4. Exempt(Stage, part)' <=> Exempt(Stage, part)
      BY <2>1, <2>2 DEF Exempt
    <3>5. Complete /\ main \in {"writing", "open"} /\ ~ Exempt(Stage, part)' => data' = {run'}
      BY <2>1, <3>4 DEF IInv, FreshShape, Active
    <3>. QED
      BY <2>1, <3>3, <3>5 DEF FreshShape, Complete
  <2>7. TablesShape'
    BY <2>1, <2>2 DEF IInv, TablesShape, Made
  <2>. QED
    BY <2>1, <2>3, <2>4, <2>5, <2>6, <2>7, FilesStay DEF IInv
<1>. QED
  BY <1>1, <1>2, <1>3, <1>4, <1>5, <1>6 DEF Next

LEMMA Invariant ==
  Spec => []IInv
<1>. QED
  BY Initially, NextStep, PTL DEF Spec

(* When the chain has passed, all its stages are past.                     *)
LEMMA PassedAllStages ==
  IInv => PassMeansFresh
<1>. SUFFICES ASSUME IInv, main = "passed", goal = "all", NEW f \in Processed \cup Panels
              PROVE  /\ file[f].runs = {run} /\ file[f].whole
                     /\ ~ comparisonOnly => file[f].from = {run}
  BY DEF PassMeansFresh
<1>1. count \in 1 .. 3 /\ Stage = 7
  <2>1. queue = <<>>
    BY DEF IInv, QueueShape
  <2>. QED
    BY <2>1 DEF IInv, Types, Stage
<1>2. file[f].runs = {run} /\ file[f].whole
  BY <1>1 DEF IInv, TablesShape, Made
<1>3. Complete => \A s \in 1 .. 6, q, i \in Nat, g \in Files : Past(s, q, i, g) => Fresh(g)
  BY DEF IInv, FreshShape
<1>4. \E s \in 1 .. 6, q, i \in Nat : Past(s, q, i, f) /\ f \in Files
  <2>1. CASE f \in Processed
    <3>1. PICK q \in 1 .. 6, i \in Nat : Output("process", count, q, i, f)
      BY <1>1, <2>1, ProcessedAreOutputs
    <3>2. Past(5, q, i, f)
      BY <1>1, <3>1, StagesAre DEF Past, Exempt
    <3>. QED
      BY <1>1, <2>1, <3>2, ProcessedAreOutputs
  <2>2. CASE f \in Panels
    <3>1. PICK q \in Nat, i \in Nat : Output("plot", count, q, i, f)
      BY <1>1, <2>2, PanelsAreOutputs
    <3>2. Past(6, q, i, f)
      BY <1>1, <3>1, StagesAre DEF Past, Exempt
    <3>. QED
      BY <1>1, <2>2, <3>2, PanelsAreOutputs
  <2>. QED
    BY <2>1, <2>2
<1>. QED
  BY <1>2, <1>3, <1>4 DEF Fresh, Complete

(* The processed tables and the panels of a chain that passed were written *)
(* by it, in full, and unless its chain experiments were cut down to the   *)
(* comparisons from its own measurements only, whatever earlier, failed or *)
(* partial runs left in results/ (run_all_phase8_experiments.ps1).         *)
THEOREM ChainPassesOnFreshResults ==
  Spec => []PassMeansFresh
<1>. QED
  BY Invariant, PassedAllStages, PTL

(* experiment_inventory.json vouches for the processed tables: none is     *)
(* older, and one that was cut off is of a later run                       *)
(* (process_phase8_results.py writes it last).                             *)
THEOREM InventoryVouches ==
  Spec => []InventoryCertifies
<1>1. IInv => InventoryCertifies
  BY DEF IInv
<1>. QED
  BY <1>1, Invariant, PTL

(* A configuration with the digest of the raw file vouches for the summary *)
(* beside it, also when a later run was stopped between the three files    *)
(* (run_aes_gcm_scaling.py, run_cpabe_policy_benchmark.py).                *)
THEOREM DigestVouches ==
  Spec => []DigestCertifies
<1>1. IInv => DigestCertifies
  BY DEF IInv
<1>. QED
  BY <1>1, Invariant, PTL
=============================================================================
