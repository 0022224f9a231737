------------------------------ MODULE MCPanel ------------------------------
(* A small instance of Panel and of what reads its panel, Recency to Gates, for TLC. *)
EXTENDS Gates, TLC

CONSTANTS a, b  \* the countries

\* A year of which everything is known, or all but the population or the GDP.
\* Of its energy data a share is missing, all of them are, or the row.
Full(level) == [co2 |-> level, population_owid |-> FALSE,
                real_gdp |-> TRUE, population_wb |-> TRUE,
                energy |-> CASE level = 0 -> None
                             [] level = 1 -> Shares
                             [] level = 2 -> Shares \ {"fossil_share_elec"}]
NoPopulation == [Full(1) EXCEPT !.population_wb = FALSE,
                                !.energy = Shares \ {"low_carbon_share_elec"}]
NoGdp == [Full(1) EXCEPT !.real_gdp = FALSE, !.population_owid = TRUE, !.energy = {}]

\* Four years of country a are known at first.
MCInitial ==
    [c \in {a, b} |->
        [y \in Years |-> IF c = a /\ y <= 4 THEN Full(1) ELSE NoData]]

\* Country a gets a history long enough for every model, its years reported in
\* any order; b reports the last years only
\* and an early one without a level.  Values are revised and withdrawn.
MCReports ==
    [c \in {a, b} |->
        [y \in Years |->
            CASE c = a /\ y \in {1, 2, 4} -> {}
              [] c = a /\ y = 3 -> {Full(1), Full(0)}
              [] c = a /\ y = 6 -> {Full(1), Full(2), NoGdp}
              [] c = a /\ y = 7 -> {Full(1), NoPopulation}
              [] c = a /\ y = 8 -> {Full(1), NoGdp}
              [] c = a /\ y \notin {1, 2, 3, 4, 6, 7, 8} -> {Full(1)}
              [] c = b /\ y = 1 -> {NoGdp}
              [] c = b /\ y = 9 -> {Full(1)}
              [] c = b /\ y = 10 -> {Full(1)}
              [] OTHER -> {}]]

\* The methods like different breaks: the earliest, one in a year that three
\* leaves the most of, the latest if the values differ and else the first.  A
\* break is found in six, eight or nine values, one of high confidence in six or
\* nine.
MCFit(method, series, y) ==
    CASE method = "rolling_slope_change" -> -y
      [] method = "cusum_stability" -> y % 3
      [] OTHER -> IF Cardinality(Range(series)) > 1 THEN y ELSE 0
MCDetected(method, series, y) == Cardinality(DOMAIN series) # 7
MCConfident(levels, y) == Cardinality(DOMAIN levels) # 8

\* Weights by regime help unless there are eight levels, weights by recency only
\* if there are eight that are all the same; a break that moves does little harm
\* unless three regimes are active.
HasWeight(forecast, w) ==
    \E y \in DOMAIN forecast.weights : ToString(forecast.weights[y]) = ToString(w)
MCError(forecast, actual) ==
    LET eight  == Cardinality(DOMAIN forecast.levels) = 8
        Has(w) == HasWeight(forecast, w)
    IN  IF "weights" \notin DOMAIN forecast THEN 3
        ELSE IF ~Has("confidence") /\ ~Has("multiplier") /\ ~Has("one")
             THEN IF eight /\ 2 \notin Range(forecast.levels) THEN 2 ELSE 3
        ELSE IF eight THEN 5 ELSE IF Has("confidence") THEN 1 ELSE 2
MCCovers(forecast, actual) == actual = 1 \/ "weights" \notin DOMAIN forecast
MCStable(shifts, total) == Cardinality(DOMAIN shifts) < 12

MCCountries == {a, b}
MCSplits == {<<6, 7>>, <<6, 8>>, <<8, 9>>, <<9, 10>>, <<9, 11>>}
=============================================================================
