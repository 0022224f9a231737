------------------------------- MODULE Gates -------------------------------
(***************************************************************************)
(* The decision of research milestone M7, phase 3, about the regime-aware  *)
(* forecasts (research/m7_scenarios.py, phase3_decision), from the         *)
(* forecasts of Regimes.                                                   *)
(*                                                                         *)
(* How good a forecast is, is a constant: how far its median is from the   *)
(* outcome, whether its interval covers it, and whether the shifts of the  *)
(* median are small.  All bootstraps are evaluated on the same splits      *)
(* (RegimesComparable), so that sums stand for means.                      *)
(***************************************************************************)
EXTENDS Regimes

CONSTANTS Error(_, _),   \* absolute error of a forecast of an actual value
          Covers(_, _),  \* the interval of a forecast covers an actual value
          Stable(_, _)   \* shifted medians, against the error of the baseline

Baseline == "empirical_bootstrap"
Recency == "recency_weighted_bootstrap"

\* regime_candidates: the first of the best is taken.
RegimeCandidates ==
    <<"current_regime_only", "regime_weighted_bootstrap",
      "break_confidence_weighted_bootstrap", "conditional_regime_weighted_bootstrap">>

\* What became of each split by each method.
Phase3Results(b) ==
    [e \in EvaluatedInPhase3(b, Baseline) |->
        LET forecasts == Phase3Forecasts(b, e[1], e[2])
        IN  [m \in Phase3Bootstraps |->
                [error   |-> Error(forecasts[m], Actual(b, e)),
                 covered |-> Covers(forecasts[m], Actual(b, e))]]]

\* calibration_metrics: mae and coverage_90, as sums.
TotalError(results, m) == MapThenSumSet(LAMBDA e : results[e][m].error, DOMAIN results)

\* Ten times the gap to the nominal coverage of 0.90.
CoverageGap(results, m) ==
    LET gap == 10 * Cardinality({e \in DOMAIN results : results[e][m].covered})
                 - 9 * Cardinality(DOMAIN results)
    IN  IF gap < 0 THEN -gap ELSE gap

BestRegime(total) ==
    RegimeCandidates[CHOOSE i \in DOMAIN RegimeCandidates :
        \A j \in DOMAIN RegimeCandidates :
            /\ total[RegimeCandidates[i]] <= total[RegimeCandidates[j]]
            /\ j < i => total[RegimeCandidates[i]] < total[RegimeCandidates[j]]]

\* Seeded fault: a tie is an improvement.
ImprovedOrTied(results, m) ==
    {e \in DOMAIN results : results[e][m].error <= results[e][Baseline].error}

\* _paired_improvement, row by row.
Improved(results, m) ==
    {e \in DOMAIN results : results[e][m].error < results[e][Baseline].error}

\* In more than half of the rows of a group.
MostOf(rows, part) == 2 * Cardinality(part \cap rows) > Cardinality(rows)

OfCountry(rows, c) == {e \in rows : e[1] = c}
OfOrigin(rows, o) == {e \in rows : e[2][1] = o}

\* In most rows of at least half of the countries, and of the origins.
ByHalf(rows, part) ==
    LET countries == {e[1] : e \in rows}
        origins   == {e[2][1] : e \in rows}
    IN  /\ 2 * Cardinality({c \in countries : MostOf(OfCountry(rows, c), part)})
             >= Cardinality(countries)
        /\ 2 * Cardinality({o \in origins : MostOf(OfOrigin(rows, o), part)})
             >= Cardinality(origins)

\* break_year_sensitivity: the medians with the break where it is, and moved.
Shifts(b) ==
    LET base(d)  == Phase3Forecasts(b, d[1], d[2]).regime_weighted_bootstrap
        moved(d) == Perturbed(b, d[1], d[2], d[3])
    IN  [d \in {x \in Countries \X Splits \X Offsets : base(x) # None /\ moved(x) # None} |->
            <<base(d), moved(d)>>]

\* Seeded fault: no shift counts as a small one.
SmallShiftsOrNone(shifts, total) == shifts = <<>> \/ Stable(shifts, total)

\* The median of no shifts is infinite.
SmallShifts(shifts, total) == shifts # <<>> /\ Stable(shifts, total)

\* phase3_decision, of results that there are.
Decision(results, shifts) ==
    LET rows     == DOMAIN results
        total    == [m \in Phase3Bootstraps |-> TotalError(results, m)]
        best     == BestRegime(total)
        accepted ==
            /\ total[best] < total[Baseline]
            /\ total[best] < total[Recency]
            /\ 2 * CoverageGap(results, best)
                 <= 2 * CoverageGap(results, Baseline) + Cardinality(rows)
            /\ ByHalf(rows, Improved(results, best))
            /\ SmallShifts(shifts, total[Baseline])
    IN  [best     |-> best,
         decision |->
            IF accepted
            THEN IF best = "conditional_regime_weighted_bootstrap"
                 THEN "ACCEPT_CONDITIONAL_REGIME_AWARE_SCENARIOS"
                 ELSE "ACCEPT_REGIME_AWARE_SCENARIOS"
            ELSE IF total[Recency] < total[Baseline] /\ total[best] >= total[Recency]
            THEN "RECENCY_WEIGHTING_ONLY"
            ELSE IF \E i \in DOMAIN RegimeCandidates :
                        total[RegimeCandidates[i]] < total[Baseline]
            THEN "DIAGNOSTICS_ONLY"
            ELSE "REJECT_OR_REVISE"]

Phase3Decision(b) == Decision(Phase3Results(b), Shifts(b))

-----------------------------------------------------------------------------
(* Properties.                                                             *)

ActiveSplits(b) ==
    {e \in Countries \X Splits :
        Active(History(BuildPanel(b), e[1], e[2]), HistoryRows(b, e[1], e[2]),
               RegimeAt(b, e[1], e[2]))}

\* An acceptance, of evaluated splits some of which are active, rests on these.
RestsOnActive(outcome, rows, active) ==
    outcome.decision \in {"ACCEPT_REGIME_AWARE_SCENARIOS",
                          "ACCEPT_CONDITIONAL_REGIME_AWARE_SCENARIOS"} =>
        /\ active # {}
        /\ outcome.best \in {"current_regime_only", "conditional_regime_weighted_bootstrap"}
             => ByHalf(rows, active)

\* Regime-aware forecasts are accepted only if some regime was ever active: the
\* candidates that weigh by a regime may beat the baseline with one that never
\* passes regime_activation, or with none, when all weights are one.
\* And a candidate that falls back on the baseline is accepted only if its regimes
\* were active in most splits of half of the countries and of half of the origins
\* ("at least half of eligible origins improve vs empirical_bootstrap"): where it
\* falls back it is the baseline, and is not an improvement.
AcceptedOnActiveRegimes ==
    LET rows == EvaluatedInPhase3(bronze, Baseline)
    IN  rows # {} => RestsOnActive(Phase3Decision(bronze), rows, ActiveSplits(bronze))
=============================================================================
