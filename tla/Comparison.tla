----------------------------- MODULE Comparison -----------------------------
(***************************************************************************)
(* tools/compare.py after the ledger was found complete: the performance   *)
(* gates.  Each paired series of a workload is kept as what its bootstrap  *)
(* interval says of the regression limit 1 - holdout_max_regression:       *)
(*   "missing"    too few or invalid pairs                                 *)
(*   "regressed"  the whole interval is below the limit                    *)
(*   "unsure"     the limit is inside it                                   *)
(*   "fine"       the whole interval is above the limit                    *)
(* The campaign measures again until it decides: one series changes at a   *)
(* time, and the verdict is that of the present measurements.              *)
(***************************************************************************)
EXTENDS FiniteSets, Integers

CONSTANTS
  Primary,   \* performance_gates.primary_workload
  Holdouts   \* performance_gates.holdout_workloads

ASSUME ComparisonAssumption == Primary \notin Holdouts

VARIABLES
  correct,   \* the correctness section found no failure
  invalid,   \* a generation record lists invalid samples
  series,    \* workload -> series -> class of its interval
  fits,      \* workload -> peak memory is measured and within the budget
  fast,      \* primary: CI lower and median pass the speedup gates
  confirm    \* the reserved pairs: "missing", "faster" or "slower"

measured == <<correct, invalid, series, fits, fast, confirm>>

Workloads == Holdouts \union {Primary}
Later == {"prefill", "first_token"}
Series == {"decode"} \union Later
Classes == {"missing", "regressed", "unsure", "fine"}

NothingMeasured ==
  /\ correct = TRUE /\ invalid = FALSE
  /\ series = [w \in Workloads |-> [s \in Series |-> "missing"]]
  /\ fits = [w \in Workloads |-> FALSE]
  /\ fast = FALSE /\ confirm = "missing"

(* Decode pairs of w are usable; otherwise the loop goes on to the next w. *)
Usable(w) == series[w]["decode"] # "missing"

(* Mutant: a regression has to be certain to count. *)
RegressedWhenCertain ==
  {w \in Workloads : \/ \E s \in Series : series[w][s] \in {"missing", "regressed"}
                     \/ ~fits[w]}

(* Mutant: a workload without decode pairs is skipped without a mark. *)
RegressedIfUsable ==
  {w \in Workloads : Usable(w) /\ (~fits[w] \/ \E s \in Series : series[w][s] # "fine")}

(* The loop over the workloads: those in "regressed". *)
Regressed ==
  {w \in Workloads : \/ ~Usable(w)
                     \/ \E s \in Series : series[w][s] # "fine"
                     \/ ~fits[w]}

(* Mutant: the lower end of the interval decides. *)
ConfirmedByLowerEnd(w) ==
  Usable(w) /\ \E s \in Later : series[w][s] \in {"regressed", "unsure"}

(* The series whose interval the REGRESSION verdict looks at. *)
Confirmed(w) == Usable(w) /\ \E s \in Later : series[w][s] = "regressed"

Verdict ==
  CASE ~correct -> "INCORRECT"
    [] correct /\ (invalid \/ ~Usable(Primary)) -> "INCONCLUSIVE"
    [] OTHER -> IF Regressed # {}
                THEN IF \E w \in Regressed : Confirmed(w) THEN "REGRESSION" ELSE "INCONCLUSIVE"
                ELSE IF ~fast THEN "NO_GAIN"
                ELSE IF confirm = "faster" THEN "PASS" ELSE "INCONCLUSIVE"
-----------------------------------------------------------------------------
(* New measurements *)

(* A confidence bound above 1 is above the regression limit. *)
Remeasure(w, s) ==
  /\ \E c \in Classes : series' = [series EXCEPT ![w][s] = c]
  /\ fast' = (fast /\ (<<w, s>> = <<Primary, "decode">> => series'[w][s] = "fine"))
  /\ UNCHANGED <<correct, invalid, fits, confirm>>

Speedup ==
  /\ fast' = ~fast /\ (fast' => series[Primary]["decode"] = "fine")
  /\ UNCHANGED <<correct, invalid, series, fits, confirm>>

Confirmation ==
  /\ \E c \in {"missing", "faster", "slower"} : confirm' = c
  /\ UNCHANGED <<correct, invalid, series, fits, fast>>

Memory(w) ==
  /\ fits' = [fits EXCEPT ![w] = ~@]
  /\ UNCHANGED <<correct, invalid, series, fast, confirm>>

Samples ==
  /\ invalid' = ~invalid
  /\ UNCHANGED <<correct, series, fits, fast, confirm>>

Correctness ==
  /\ correct' = ~correct
  /\ UNCHANGED <<invalid, series, fits, fast, confirm>>

Measure ==
  \/ \E w \in Workloads, s \in Series : Remeasure(w, s)
  \/ \E w \in Workloads : Memory(w)
  \/ Speedup \/ Confirmation \/ Samples \/ Correctness

Campaign == NothingMeasured /\ [][Measure]_measured
-----------------------------------------------------------------------------
(* Properties *)

(* No series says less than it did before. *)
Rank(c) == CASE c = "missing" -> 0 [] c = "regressed" -> 0 [] c = "unsure" -> 1 [] c = "fine" -> 2

NoBetter ==
  /\ correct' => correct
  /\ invalid => invalid'
  /\ \A w \in Workloads : /\ fits'[w] => fits[w]
                          /\ \A s \in Series : Rank(series'[w][s]) <= Rank(series[w][s])
  /\ fast' => fast
  /\ confirm' = "faster" => confirm = "faster"

(* A measurement that is no better than the one it replaces never makes a
   candidate eligible, whichever loop branch it moves the workload to. *)
WorseNeverPasses == [][NoBetter /\ Verdict' = "PASS" => Verdict = "PASS"]_measured

(* "Missing metrics ... block a PASS verdict" (compare.py:16), and a PASS has no
   series whose interval reaches below the limit: "no holdout regression >3%"
   (ITERATIVE_OPTIMIZATION_LOOP.md:88). *)
PassIsComplete ==
  Verdict = "PASS" => /\ \A w \in Workloads, s \in Series : series[w][s] = "fine"
                      /\ ~invalid /\ correct /\ confirm = "faster"

(* REGRESSION ends a candidate, so it is never given on an interval that still
   contains the limit, on missing pairs or on memory alone. *)
RegressionIsCertain ==
  Verdict = "REGRESSION" =>
    correct /\ \E w \in Workloads, s \in Series : series[w][s] = "regressed"
=============================================================================
