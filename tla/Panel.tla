------------------------------ MODULE Panel ------------------------------
(***************************************************************************)
(* The country-year panel and what is derived from its history: the panel  *)
(* itself (transforms/silver.py), the rolling-origin backtest              *)
(* (backtesting/rolling_origin.py), the two forecasting models             *)
(* (scenarios/engine.py), the components a country can be scored on        *)
(* (scoring/risk_score.py), and the model-eligible year of a release.      *)
(*                                                                         *)
(* A forecast is kept as what it is computed from.  An intensity is an     *)
(* ordinal level; 0 stands for a value that has no logarithm.              *)
(***************************************************************************)
EXTENDS Integers, FiniteSets, Functions

CONSTANTS Countries,
          FirstYear, LastYear,
          Levels,        \* carbon intensities
          Initial,       \* what the sources report when the pipeline first runs
          Reports,       \* what they may report of a country in a year later
          Splits,        \* pairs of an origin year and a target year
          ScenarioYear,  \* target year of the scenarios of `score`
          None           \* a missing value

Years == FirstYear..LastYear
Missing == Levels \cup {None}

Shares == {"coal_share_elec", "fossil_share_elec",
           "renewables_share_elec", "low_carbon_share_elec"}

\* One country-year in the accepted bronze tables: emissions and population of
\* OWID, GDP and population of the World Bank, and the row of OWID's energy data,
\* if there is one, as the shares that have a value.  With the GDP known, the
\* level of the emissions is the level of the intensity.
Cells == [co2: Missing, population_owid: BOOLEAN,
          real_gdp: BOOLEAN, population_wb: BOOLEAN,
          energy: {None} \cup SUBSET Shares]

NoData == [co2 |-> None, population_owid |-> FALSE,
           real_gdp |-> FALSE, population_wb |-> FALSE,
           energy |-> None]

\* What the three models return.
Fits == UNION {[ys -> Levels] : ys \in SUBSET Years}
Forecasts == [value: Levels] \cup [fit: Fits, target: Nat]
                             \cup [levels: Fits, horizon: Nat]

ASSUME PanelAssumption ==
    /\ Countries # {}
    /\ FirstYear \in Nat /\ LastYear \in Nat
    /\ Levels \subseteq Nat
    /\ Initial \in [Countries -> [Years -> Cells]]
    /\ \A c \in Countries : \A y \in Years : Reports[c][y] \subseteq Cells
    /\ Splits \subseteq Nat \X Nat
    /\ \A s \in Splits : s[1] < s[2]
    /\ ScenarioYear \in Nat

ASSUME NoneIsMissing == None \notin Int \cup Forecasts

\* The shortest history of the backtest, of the trend and of the decoupling
\* result; the levels that five changes take; the shortest one of the pace.
MinObservations == 5
MinLevels == 6
MinPace == 3

VARIABLES bronze,    \* what the sources report
          panel,     \* silver fact_country_year_transition
          backtest,  \* gold/backtest_country_origin.parquet
          release    \* the released manifest's model-eligible year

vars == <<bronze, panel, backtest, release>>

-----------------------------------------------------------------------------
(* build-silver.                                                           *)

Intensity(cell) == IF cell.real_gdp THEN cell.co2 ELSE None

Complete(cell) ==
    cell.co2 # None /\ cell.real_gdp /\ (cell.population_wb \/ cell.population_owid)

BuildPanel(b) ==
    [c \in Countries |->
        [y \in Years |-> [intensity |-> Intensity(b[c][y]),
                          complete  |-> Complete(b[c][y])]]]

CompleteYears(p, c) == {y \in Years : p[c][y].complete}

Latest(ys) == CHOOSE y \in ys : \A z \in ys : z <= y

CommonYears(p) == {y \in Years : \A c \in Countries : y \in CompleteYears(p, c)}

\* Seeded fault: min for max.
EligibleYearEarliest(p) ==
    IF CommonYears(p) = {} THEN None
    ELSE CHOOSE y \in CommonYears(p) : \A z \in CommonYears(p) : y <= z

\* latest_complete_common_year; None unless every country has complete years.
EligibleYear(p) ==
    IF CommonYears(p) = {} THEN None ELSE Latest(CommonYears(p))

-----------------------------------------------------------------------------
(* Forecasts from a series: intensities by year.                           *)

Series(p, c) == [y \in Years |-> p[c][y].intensity]

\* Seeded fault: the frozen data reach to the target year.
HistoryToTarget(p, c, s) == Restrict(Series(p, c), {y \in Years : y <= s[2]})

\* _history_at_or_before.
History(p, c, s) == Restrict(Series(p, c), {y \in Years : y <= s[1]})

Known(h) == {y \in DOMAIN h : h[y] # None}

\* notna and > 0.
Usable(h) == {y \in Known(h) : h[y] > 0}

NoChange(h) == [value |-> h[Latest(Known(h))]]

\* Seeded fault: the trend asks for a longer history than the bootstrap.
TrendLong(h, target) ==
    IF Cardinality(Usable(h)) <= MinLevels THEN None
    ELSE [fit |-> Restrict(h, Usable(h)), target |-> target]

Trend(h, target) ==
    IF Cardinality(Usable(h)) < MinObservations THEN None
    ELSE [fit |-> Restrict(h, Usable(h)), target |-> target]

\* Changes between successive levels are drawn for each year of the horizon.
Bootstrap(h, target) ==
    IF Cardinality(Usable(h)) < MinLevels \/ target <= Latest(Usable(h)) THEN None
    ELSE [levels |-> Restrict(h, Usable(h)), horizon |-> target - Latest(Usable(h))]

-----------------------------------------------------------------------------
(* backtest.                                                               *)

\* Seeded fault: the target year only has to be in the panel.
EligibleSplitAnyTarget(p, c, s) ==
    /\ Cardinality(Known(History(p, c, s))) >= MinObservations
    /\ s[2] \in Years

EligibleSplit(p, c, s) ==
    /\ Cardinality(Known(History(p, c, s))) >= MinObservations
    /\ s[2] \in Years
    /\ Series(p, c)[s[2]] # None

Models == {"no_change", "deterministic_trend", "empirical_bootstrap"}

Forecast(p, c, s, m) ==
    CASE m = "no_change"           -> NoChange(History(p, c, s))
      [] m = "deterministic_trend" -> Trend(History(p, c, s), s[2])
      [] m = "empirical_bootstrap" -> Bootstrap(History(p, c, s), s[2])

\* evaluate_origin for every country, split and model.
RunBacktest(p) ==
    LET rows == {r \in Countries \X Splits \X Models :
                    /\ EligibleSplit(p, r[1], r[2])
                    /\ Forecast(p, r[1], r[2], r[3]) # None}
    IN  [r \in rows |-> [forecast |-> Forecast(p, r[1], r[2], r[3]),
                         actual   |-> Series(p, r[1])[r[2][2]]]]

-----------------------------------------------------------------------------
(* score, as far as it depends on the length of the history.               *)

HasPace(p, c) == Cardinality(Usable(Series(p, c))) >= MinPace

HasDecoupling(p, c) == Cardinality(Usable(Series(p, c))) >= MinObservations

\* Seeded fault: changes are counted instead of levels.
HasVolatilityOfChanges(p, c) == Cardinality(Usable(Series(p, c))) - 1 >= MinLevels

HasVolatility(p, c) == Cardinality(Usable(Series(p, c))) >= MinLevels

\* run_country_scenario.
HasScenario(p, c) ==
    /\ Trend(Series(p, c), ScenarioYear) # None
    /\ Bootstrap(Series(p, c), ScenarioYear) # None

CanScore(p) == \E c \in Countries : HasPace(p, c) \/ HasDecoupling(p, c)

-----------------------------------------------------------------------------
(* run.                                                                    *)

\* backtest exits without results, score without a scored country.
HasResults(p) == DOMAIN RunBacktest(p) # {}
Publishes(p) == HasResults(p) /\ CanScore(p)

Init ==
    /\ bronze = Initial
    /\ panel = BuildPanel(bronze)
    /\ backtest = RunBacktest(panel)
    /\ release = IF Publishes(panel) THEN EligibleYear(panel) ELSE None

\* The sources revise one country-year, and `run` processes what they report.
Rerun(c, y) ==
    /\ \E cell \in Reports[c][y] : bronze' = [bronze EXCEPT ![c][y] = cell]
    /\ panel' = BuildPanel(bronze')
    /\ backtest' = IF HasResults(panel') THEN RunBacktest(panel') ELSE backtest
    /\ release' = IF Publishes(panel') THEN EligibleYear(panel') ELSE release

Next == \E c \in Countries : \E y \in Years : Rerun(c, y)

Spec == Init /\ [][Next]_vars

-----------------------------------------------------------------------------
(* Properties.                                                             *)

Rows == [forecast: Forecasts, actual: Levels]

\* Every table keeps its shape; a backtest row always has an actual, and what
\* a model was fitted on holds no missing level.
TypeOK ==
    /\ bronze \in [Countries -> [Years -> Cells]]
    /\ panel \in [Countries -> [Years -> [intensity: Missing, complete: BOOLEAN]]]
    /\ DOMAIN backtest \subseteq Countries \X Splits \X Models
    /\ \A r \in DOMAIN backtest : backtest[r] \in Rows
    /\ release \in Years \cup {None}

\* Nothing that becomes known of the years after an origin changes what any
\* model forecasts from that origin, however the history has gaps and whichever
\* of the target years are revised (_history_at_or_before, "no target-period
\* data reaches model fitting").
SameHistory(c, s) ==
    \A y \in Years : y <= s[1] => panel'[c][y] = panel[c][y]

NoLeakage ==
    [][ HasResults(panel) =>
          \A r \in DOMAIN backtest \cap DOMAIN backtest' :
            SameHistory(r[1], r[2]) => backtest'[r].forecast = backtest[r].forecast
      ]_vars

\* The bootstrap is never reported without the deterministic trend and the
\* naive forecast of the same split (scenarios/engine.py, "never report Monte
\* Carlo output without the baseline"), although each model decides for itself
\* whether its history is long enough.
NeverWithoutBaseline ==
    \A r \in DOMAIN backtest : r[3] = "empirical_bootstrap" =>
        \A m \in Models : <<r[1], r[2], m>> \in DOMAIN backtest

\* The components drop out in one order as a history gets shorter: whoever has
\* a scenario has a volatility, whoever has one has a decoupling result, and
\* whoever has that has a pace.  RiskScore assumes it (Metrics).
ComponentsNested ==
    \A c \in Countries :
        /\ HasScenario(panel, c) => HasVolatility(panel, c)
        /\ HasVolatility(panel, c) => HasDecoupling(panel, c)
        /\ HasDecoupling(panel, c) => HasPace(panel, c)

\* A run on a panel with everything the panel before had, and more, does not
\* fall back to an earlier model-eligible year.
Extends(p, q) ==
    \A c \in Countries : CompleteYears(p, c) \subseteq CompleteYears(q, c)

MoreDataNeverLowersYear ==
    [][ /\ Publishes(panel) /\ Publishes(panel')
        /\ Extends(panel, panel')
        /\ release # None
        => release' # None /\ release' >= release ]_vars
=============================================================================
