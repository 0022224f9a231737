------------------------------ MODULE Regimes ------------------------------
(***************************************************************************)
(* The regime-aware forecasts of research milestone M7, phase 3            *)
(* (research/m7_scenarios.py), with the breaks of Detection, on the panel  *)
(* of Panel.                                                               *)
(***************************************************************************)
EXTENDS Detection

CONSTANTS MinPostBreak,    \* MIN_POST_BREAK_OBSERVATIONS
          Confident(_, _)  \* a break passes the thresholds of the activation

ASSUME RegimesAssumption == MinPostBreak \in Nat /\ MinPostBreak <= MinSegment

-----------------------------------------------------------------------------
(* The regime of an origin.                                                *)

NoRegime == [year |-> None]

\* detect_break by segmented_regression, of the levels.
Regime(h) ==
    LET levels == Restrict(h, Usable(h))
        y == DetectBreak(levels, "segmented_regression")
    IN  IF y = None THEN NoRegime
        ELSE [year |-> y, confident |-> Confident(levels, y)]

\* Seeded fault: the series is not cut off at the origin.
RegimeToday(b, c, s) == Regime(Series(BuildPanel(b), c))

\* _regime_evidence.
RegimeAt(b, c, s) == Regime(History(BuildPanel(b), c, s))

\* The rows of a history, with a level or without.
HistoryRows(b, c, s) == {y \in Years : y <= s[1] /\ HasRow(b, c, y)}

\* regime_activation.  Rows are counted from an index into the levels.
Active(h, rows, regime) ==
    /\ regime # NoRegime
    /\ regime.confident
    /\ Cardinality(rows) - Cardinality(Before(Restrict(h, Usable(h)), regime.year))
         >= MinPostBreak

-----------------------------------------------------------------------------
(* Weighted bootstraps.                                                    *)

\* Seeded fault: the first weights for the last.
WeightRowLeading(rows, ys, y) ==
    CHOOSE r \in rows : Cardinality({q \in rows : q < r})
                          = Cardinality({q \in Changes(ys) : q < y})

\* The row whose weight the change to the level of year y is drawn with: there
\* is a weight for each row, and the changes take the last of them.
WeightRow(rows, ys, y) ==
    CHOOSE r \in rows : Cardinality({q \in rows : q > r})
                          = Cardinality({q \in ys : q > y})

\* _weighted_bootstrap_result.
Weighted(h, rows, target, weights) ==
    IF Cardinality(Usable(h)) < MinLevels \/ target <= Latest(Usable(h)) THEN None
    ELSE [levels  |-> Restrict(h, Usable(h)),
          horizon |-> target - Latest(Usable(h)),
          weights |-> [y \in Changes(Usable(h)) |->
                          weights[WeightRow(rows, Usable(h), y)]]]

\* _recency_weights: an age halves a weight.
RecencyWeights(rows) == [r \in rows |-> Latest(rows) - r]

\* _regime_weights.
RegimeWeights(rows, regime, multiplier) ==
    [r \in rows |-> IF regime # NoRegime /\ r >= regime.year THEN multiplier ELSE "one"]

-----------------------------------------------------------------------------
(* run_regime_scenario_backtest and break_year_sensitivity.                *)

\* Seeded fault: nothing stands in for a regime that is too short.
CurrentRegimeAlone(h, active, regime, target) ==
    IF active THEN Bootstrap(Restrict(h, {y \in DOMAIN h : y >= regime.year}), target)
    ELSE Bootstrap(h, target)

\* The method current_regime_only.
CurrentRegimeOnly(h, active, regime, target) ==
    LET current == Bootstrap(Restrict(h, {y \in DOMAIN h : y >= regime.year}), target)
    IN  IF active /\ current # None THEN current ELSE Bootstrap(h, target)

\* forecast_scenario, for each method.
Phase3Forecasts(b, c, s) ==
    LET h      == History(BuildPanel(b), c, s)
        rows   == HistoryRows(b, c, s)
        regime == RegimeAt(b, c, s)
        active == Active(h, rows, regime)
        byConfidence == Weighted(h, rows, s[2], RegimeWeights(rows, regime, "confidence"))
    IN  [deterministic_trend        |-> Trend(h, s[2]),
         empirical_bootstrap        |-> Bootstrap(h, s[2]),
         recency_weighted_bootstrap |-> Weighted(h, rows, s[2], RecencyWeights(rows)),
         current_regime_only        |-> CurrentRegimeOnly(h, active, regime, s[2]),
         regime_weighted_bootstrap  |->
            Weighted(h, rows, s[2], RegimeWeights(rows, regime, "multiplier")),
         break_confidence_weighted_bootstrap |-> byConfidence,
         conditional_regime_weighted_bootstrap |->
            IF active THEN byConfidence ELSE Bootstrap(h, s[2])]

Phase3Bootstraps ==
    {"empirical_bootstrap", "recency_weighted_bootstrap", "current_regime_only",
     "regime_weighted_bootstrap", "break_confidence_weighted_bootstrap",
     "conditional_regime_weighted_bootstrap"}

\* _agreement_evidence: of a history without a level no detection gives a row,
\* the table of them has no columns to group by, and the command ends there.
Phase3Fails(b) ==
    \E e \in Countries \X Splits :
        HasOutcome(b, e) /\ Usable(History(BuildPanel(b), e[1], e[2])) = {}

EvaluatedInPhase3(b, m) ==
    IF Phase3Fails(b) THEN {}
    ELSE {e \in Countries \X Splits :
            HasOutcome(b, e) /\ Phase3Forecasts(b, e[1], e[2])[m] # None}

Offsets == {-2, -1, 1, 2}

\* break_year_sensitivity: the weighted forecast with the break moved.
Perturbed(b, c, s, offset) ==
    LET h      == History(BuildPanel(b), c, s)
        rows   == HistoryRows(b, c, s)
        regime == RegimeAt(b, c, s)
        moved  == [regime EXCEPT !.year = @ + offset]
    IN  IF Active(h, rows, regime)
        THEN Weighted(h, rows, s[2], RegimeWeights(rows, moved, "multiplier"))
        ELSE None

-----------------------------------------------------------------------------
(* Properties.                                                             *)

\* The breaks, activations and weights that a forecast from an origin rests on,
\* and the forecasts with the break moved, are those of an observer at that
\* origin ("all historical-origin evaluation filters to observations <=
\* origin_year").
RegimeNoLeakage ==
    \A c \in Countries : \A s \in Splits :
        LET then == KnownIn(bronze, s[1])
        IN  /\ Phase3Forecasts(then, c, s) = Phase3Forecasts(bronze, c, s)
            /\ \A o \in Offsets : Perturbed(then, c, s, o) = Perturbed(bronze, c, s, o)

\* The mean errors that the gates compare (phase3_decision) are means over the
\* same country-splits for all six bootstraps, whatever a break leaves of a
\* history, and none of them is missing for the trend.
RegimesComparable ==
    /\ \A m \in Phase3Bootstraps :
          EvaluatedInPhase3(bronze, m) = EvaluatedInPhase3(bronze, "empirical_bootstrap")
    /\ EvaluatedInPhase3(bronze, "empirical_bootstrap")
          \subseteq EvaluatedInPhase3(bronze, "deterministic_trend")

\* An active regime has MIN_POST_BREAK_OBSERVATIONS levels ("minimum post-break
\* observations"), although regime_activation counts rows without a level, too:
\* the detection leaves no shorter segment.
ActiveHasObservations ==
    \A c \in Countries : \A s \in Splits :
        LET h      == History(BuildPanel(bronze), c, s)
            regime == RegimeAt(bronze, c, s)
        IN  Active(h, HistoryRows(bronze, c, s), regime) =>
                Cardinality(Since(Restrict(h, Usable(h)), regime.year)) >= MinPostBreak

\* What phase 3 decides on as the recency control is what phase 4 takes over as
\* canonical_recency: in a history with a level in every row from the first
\* level on, each change has the weight of its own year (_weighted_bootstrap_result
\* pairs weights of rows with changes of levels).
RecencyControlIsCanonical ==
    \A c \in Countries : \A s \in Splits :
        LET h       == History(BuildPanel(bronze), c, s)
            control == Phase3Forecasts(bronze, c, s).recency_weighted_bootstrap
        IN  /\ control # None
            /\ \A r \in HistoryRows(bronze, c, s) : r \in Usable(h) \/ \A y \in Usable(h) : r < y
            => /\ RecencyForecast(h, s[2], Candidate("canonical_recency")) # None
               /\ \A y \in DOMAIN control.weights : control.weights[y] = Latest(Usable(h)) - y
=============================================================================
