------------------------------- MODULE Energy -------------------------------
(***************************************************************************)
(* The energy features of a country (features/energy_transition.py), and   *)
(* the evaluation of them from historical origins by research milestone M6 *)
(* (research/m6_incremental.py), on the lake of Panel.                     *)
(*                                                                         *)
(* A feature is kept as the years whose values it is computed from.        *)
(***************************************************************************)
EXTENDS Recency

\* MIN_TRAILING_OBSERVATIONS and DEFAULT_TRAILING_WINDOW_YEARS.
MinTrailing == 3
TrailingWindow == 5

\* fact_country_year_energy: the shares of a country that have a value, by year.
EnergyRows(b, c) ==
    [y \in {z \in Years : b[c][z].energy # None} |-> b[c][y].energy]

UpTo(f, year) == Restrict(f, {y \in DOMAIN f : y <= year})

Reporting(rows, share) == {y \in DOMAIN rows : share \in rows[y]}

-----------------------------------------------------------------------------
(* compute_energy_features.                                                *)

Window(ys, latest, width) == {y \in ys : y > latest - width}

\* Seeded fault: as many rows as the window has years, however old.
TrailingLast(rows, share, width) ==
    LET ys == Reporting(rows, share)
    IN  {y \in ys : Cardinality({z \in ys : z > y}) < width}

\* The window of a share ends with the last value of that share.
Trailing(rows, share, width) ==
    LET ys == Reporting(rows, share)
    IN  IF Cardinality(ys) < MinTrailing THEN ys
        ELSE Window(ys, Latest(ys), width)

\* _trailing_slope_pp_per_year: the regression, and how many rows there are.
Slope(rows, share, width) ==
    LET ys == Trailing(rows, share, width)
    IN  IF Cardinality(ys) < MinTrailing THEN None ELSE ys

HasSample(rows, width) ==
    \E share \in {"coal_share_elec", "low_carbon_share_elec"} :
        Cardinality(Trailing(rows, share, width)) >= MinTrailing

\* The years with a fossil or a low-carbon share; the last is the latest year.
Dated(rows) ==
    Reporting(rows, "fossil_share_elec") \cup Reporting(rows, "low_carbon_share_elec")

\* A velocity is one over the headroom; that there is none with hardly any
\* headroom is a matter of the values and left out.
EnergyFeatures(rows, width) ==
    LET latest        == Latest(Dated(rows))
        window        == Window(DOMAIN rows, latest, width)
        within(share) == window \cap Reporting(rows, share)
        momentum      == Slope(rows, "low_carbon_share_elec", width)
        current       == momentum # None /\ "low_carbon_share_elec" \in rows[latest]
    IN  IF Dated(rows) = {} \/ ~HasSample(rows, width) THEN None
        ELSE [latest_year        |-> latest,
              levels             |-> rows[latest],
              coal_trend         |-> Slope(rows, "coal_share_elec", width),
              momentum           |-> momentum,
              buildout           |-> IF Cardinality(within("renewables_share_elec")) < 2
                                     THEN None ELSE within("renewables_share_elec"),
              fossil_persistence |-> within("fossil_share_elec"),
              velocity           |-> IF current THEN momentum ELSE None,
              stalled_residual   |->
                IF current /\ Cardinality(within("low_carbon_share_elec")) >= MinTrailing
                THEN within("low_carbon_share_elec") ELSE None]

-----------------------------------------------------------------------------
(* build_incremental_dataset.                                              *)

\* Seeded fault: the features of today.
SplitInputsToday(b, c, s) ==
    [baseline |-> Trend(History(BuildPanel(b), c, s), s[2]),
     features |-> EnergyFeatures(EnergyRows(b, c), TrailingWindow)]

\* The baseline and the features of a country-split.
SplitInputs(b, c, s) ==
    [baseline |-> Trend(History(BuildPanel(b), c, s), s[2]),
     features |-> EnergyFeatures(UpTo(EnergyRows(b, c), s[1]), TrailingWindow)]

\* Seeded fault: the actual value is not tested.
InDatasetWithoutActual(b, c, s) ==
    LET inputs == SplitInputs(b, c, s)
    IN  inputs.baseline # None /\ inputs.features # None /\ HasRow(b, c, s[2])

InDataset(b, c, s) ==
    LET inputs == SplitInputs(b, c, s)
    IN  /\ inputs.baseline # None /\ inputs.features # None
        /\ HasOutcome(b, <<c, s>>)

IncrementalDataset(b) ==
    [e \in {d \in Countries \X Splits : InDataset(b, d[1], d[2])} |->
        [inputs |-> SplitInputs(b, e[1], e[2]), actual |-> Actual(b, e)]]

-----------------------------------------------------------------------------
(* Properties.                                                             *)

\* Baseline and energy features of an origin are those of an observer at that
\* origin ("exactly one implementation of derive without future leakage").
IncrementalNoLeakage ==
    \A c \in Countries : \A s \in Splits :
        SplitInputs(KnownIn(bronze, s[1]), c, s) = SplitInputs(bronze, c, s)

\* "this result is directly comparable to the existing v1 backtest": each row of
\* the dataset is a split that the backtest evaluates, with the same baseline and
\* the same actual, although each tests the history and the target for itself.
IncrementalComparable ==
    LET p       == BuildPanel(bronze)
        dataset == IncrementalDataset(bronze)
    IN  \A e \in DOMAIN dataset :
            /\ EligibleSplit(p, e[1], e[2])
            /\ dataset[e].inputs.baseline = Forecast(p, e[1], e[2], "deterministic_trend")
            /\ dataset[e].actual = Series(p, e[1])[e[2][2]]

\* The stalled-transition residual is taken against the trend that the momentum
\* is the slope of ("relative to its own recent trend"), and exists whenever the
\* velocity does, however the shares have gaps and wherever each of them ends:
\* the code finds the two windows separately.
StalledAgainstOwnTrend ==
    \A c \in Countries : \A width \in {3, 5, 7} :
        LET features == EnergyFeatures(EnergyRows(bronze, c), width)
        IN  features # None =>
                /\ features.stalled_residual \in {None, features.momentum}
                /\ features.velocity # None => features.stalled_residual = features.momentum
=============================================================================
