------------------------------ MODULE Recency ------------------------------
(***************************************************************************)
(* The recency-weighted forecasts of research milestone M7, phase 4        *)
(* (research/m7_phase4.py), on the panel of Panel: for each origin a       *)
(* weighting scheme is chosen and an interval scale estimated, both from   *)
(* the forecasts whose outcome was known before that origin.               *)
(*                                                                         *)
(* As in Panel, a result is kept as what it is computed from: a chosen     *)
(* scheme as the errors it is chosen by, a scale as its residuals.         *)
(***************************************************************************)
EXTENDS Panel

CONSTANT MinSplits  \* MIN_CALIBRATION_SPLITS

ASSUME MinSplitsAssumption == MinSplits \in Nat \ {0}

Schemes == {"weak_recency", "canonical_recency", "strong_recency"}
Candidate(name) == [scheme |-> name]

\* The row of a year does not exist if neither OWID nor the World Bank reports
\* anything of it.
HasRow(b, c, y) ==
    /\ y \in Years
    /\ [b[c][y] EXCEPT !.energy = None] # NoData

-----------------------------------------------------------------------------
(* One forecast.                                                           *)

\* Seeded fault: as many levels as the trend needs.
RecencyShort(h, target, candidate) ==
    IF Cardinality(Usable(h)) < MinObservations \/ target <= Latest(Usable(h))
    THEN None
    ELSE [levels  |-> Restrict(h, Usable(h)),
          horizon |-> target - Latest(Usable(h)),
          weights |-> candidate]

\* _recency_forecast.  The weights go with the years that have a level.
RecencyForecast(h, target, candidate) ==
    IF Cardinality(Usable(h)) < MinLevels \/ target <= Latest(Usable(h)) THEN None
    ELSE [levels  |-> Restrict(h, Usable(h)),
          horizon |-> target - Latest(Usable(h)),
          weights |-> candidate]

\* An interval has a width unless all changes are the same; a history of equal
\* levels stands for one of equal changes.
HasWidth(h) == \E y, z \in Usable(h) : h[y] # h[z]

-----------------------------------------------------------------------------
(* What is known at an origin of earlier forecasts.                        *)

\* Seeded fault: the origins before this one, whether or not their target is.
PriorByOrigin(origin) == {s \in Splits : s[1] < origin}

Prior(origin) == {s \in Splits : s[2] < origin}

\* The country-splits of a scheme that are forecast and have a row to compare
\* with.  The level of that row may be missing.
Evaluated(b, origin, candidate) ==
    LET p == BuildPanel(b)
    IN  {e \in Countries \X Prior(origin) :
            /\ HasRow(b, e[1], e[2][2])
            /\ RecencyForecast(History(p, e[1], e[2]), e[2][2], candidate) # None}

Actual(b, e) == Series(BuildPanel(b), e[1])[e[2][2]]

\* _candidate_scheme_results: a row for each scheme and country-split.
CandidateResults(b, origin) ==
    LET p == BuildPanel(b)
        rows == {r \in Schemes \X Countries \X Prior(origin) :
                    <<r[2], r[3]>> \in Evaluated(b, origin, Candidate(r[1]))}
    IN  [r \in rows |->
            [forecast |-> RecencyForecast(History(p, r[2], r[3]), r[3][2], Candidate(r[1])),
             actual   |-> Actual(b, <<r[2], r[3]>>)]]

\* select_nested_recency_schemes: the scheme of the least mean error, where
\* rows without a level do not count, once there are rows enough.
Selected(b, origin) ==
    LET results == CandidateResults(b, origin)
    IN  IF Cardinality(DOMAIN results) < MinSplits
        THEN Candidate("canonical_recency")
        ELSE [least_error_of |->
                Restrict(results, {r \in DOMAIN results : results[r].actual # None})]

\* No error at all has no least one, and the command ends there.
SelectionFails(b) ==
    \E s \in Splits :
        LET selected == Selected(b, s[1])
        IN  /\ selected # Candidate("canonical_recency")
            /\ selected.least_error_of = <<>>

Unscaled == [scale |-> 1]

\* prior_origin_interval_scales: a quantile of the residuals, each of a
\* forecast by the scheme that was selected at its own origin.  A residual that
\* is not a number makes the quantile none, and the bounds turn that into 1.
IntervalScale(b, origin) ==
    LET p == BuildPanel(b)
        residuals == {e \in Countries \X Prior(origin) :
                        /\ e \in Evaluated(b, origin, Selected(b, e[2][1]))
                        /\ HasWidth(History(p, e[1], e[2]))}
    IN  IF \/ Cardinality(residuals) < MinSplits
           \/ \E e \in residuals : Actual(b, e) = None
        THEN Unscaled
        ELSE [quantile_of |->
                [e \in residuals |->
                    [forecast |-> RecencyForecast(History(p, e[1], e[2]), e[2][2],
                                                  Selected(b, e[2][1])),
                     actual   |-> Actual(b, e)]]]

-----------------------------------------------------------------------------
(* run_phase4_backtest.                                                    *)

Bootstraps == {"empirical_bootstrap", "recency_weighted_bootstrap",
               "nested_recency_weighted_bootstrap", "recency_weighted_calibrated"}
Methods == {"deterministic_trend"} \cup Bootstraps

\* _phase4_forecast: without a recency forecast the production bootstrap
\* stands in for it.
Phase4Forecast(b, c, s, m) ==
    LET h == History(BuildPanel(b), c, s)
        scheme == IF m = "recency_weighted_bootstrap" THEN Candidate("canonical_recency")
                  ELSE Selected(b, s[1])
        scale == IF m = "recency_weighted_calibrated" THEN IntervalScale(b, s[1])
                 ELSE Unscaled
        recency == RecencyForecast(h, s[2], scheme)
    IN  IF m = "deterministic_trend" THEN Trend(h, s[2])
        ELSE IF m = "empirical_bootstrap" \/ recency = None THEN Bootstrap(h, s[2])
        ELSE [forecast |-> recency, interval |-> scale]

\* The outcome a forecast is compared with.
HasOutcome(b, e) ==
    /\ HasRow(b, e[1], e[2][2])
    /\ Actual(b, e) # None /\ Actual(b, e) > 0

\* The country-splits a method is evaluated on.
EvaluatedBy(b, m) ==
    IF SelectionFails(b) THEN {}
    ELSE {e \in Countries \X Splits :
            HasOutcome(b, e) /\ Phase4Forecast(b, e[1], e[2], m) # None}

-----------------------------------------------------------------------------
(* Properties.                                                             *)

\* No more than what was known at an origin goes into a forecast from it, and no
\* more than what was known before it into the scheme and the scale selected for
\* it, through all the forecasts, outcomes and selections of earlier origins
\* that these rest on ("only forecasts with target_year < evaluation origin may
\* set scale").
KnownIn(b, year) ==
    [c \in Countries |-> [y \in Years |-> IF y <= year THEN b[c][y] ELSE NoData]]

NestedNoLeakage ==
    \A s \in Splits :
        LET before == KnownIn(bronze, s[1] - 1)
            then   == KnownIn(bronze, s[1])
        IN  /\ Selected(before, s[1]) = Selected(bronze, s[1])
            /\ IntervalScale(before, s[1]) = IntervalScale(bronze, s[1])
            /\ \A c \in Countries : \A m \in Methods :
                  Phase4Forecast(then, c, s, m) = Phase4Forecast(bronze, c, s, m)

\* The mean errors and coverages that the decision compares (phase4_decision)
\* are means over the same country-splits for all four bootstraps, none of
\* which the trend is missing for: the schemes, the scales and the production
\* bootstrap ask the same of a history, each in its own function.
MethodsComparable ==
    /\ \A m \in Bootstraps : EvaluatedBy(bronze, m) = EvaluatedBy(bronze, "empirical_bootstrap")
    /\ EvaluatedBy(bronze, "empirical_bootstrap") \subseteq EvaluatedBy(bronze, "deterministic_trend")

\* A scheme other than the canonical one is selected only on MIN_CALIBRATION_SPLITS
\* prior splits ("use canonical_recency when fewer than MIN_CALIBRATION_SPLITS
\* prior splits are available").  The code counts each split once per scheme.
SelectedOnEnoughSplits ==
    \A s \in Splits :
        \/ Selected(bronze, s[1]) = Candidate("canonical_recency")
        \/ Cardinality(Evaluated(bronze, s[1], Candidate("canonical_recency"))) >= MinSplits
=============================================================================
