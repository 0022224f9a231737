---------------------------- MODULE PanelProofs ----------------------------
(***************************************************************************)
(* What TLAPS proves of Panel, for any countries, years, reports and       *)
(* splits: backtests see nothing after their origin, Monte Carlo never     *)
(* comes without its baselines, and the model-eligible year does not go    *)
(* back when data are added.                                               *)
(***************************************************************************)
EXTENDS Panel, FiniteSetTheorems, WellFoundedInduction, TLAPS

Bronzes == [Countries -> [Years -> Cells]]
Panels == [Countries -> [Years -> [intensity: Missing, complete: BOOLEAN]]]
Histories == UNION {[ys -> Missing] : ys \in SUBSET Years}

-----------------------------------------------------------------------------
(* Years.                                                                  *)

LEMMA YearsAreNat == Years \subseteq Nat /\ \A y \in Years : y <= LastYear
    BY PanelAssumption DEF Years

LEMMA SomeYears ==
    ASSUME NEW ys \in SUBSET Years
    PROVE  IsFiniteSet(ys) /\ Cardinality(ys) \in Nat
<1>1. FirstYear \in Int /\ LastYear \in Int
    BY PanelAssumption
<1>2. IsFiniteSet(Years)
    BY <1>1, FS_Interval DEF Years
<1> QED BY <1>2, FS_Subset, FS_CardinalityType

\* A set of years that counts at least one has a member.
LEMMA Counted ==
    ASSUME NEW ys \in SUBSET Years, Cardinality(ys) >= 1
    PROVE  ys # {}
    BY FS_EmptySet

\* A non-empty set of years has a latest one.
LEMMA LatestIs ==
    ASSUME NEW ys \in SUBSET Years, ys # {}
    PROVE  Latest(ys) \in ys /\ \A z \in ys : z <= Latest(ys)
<1> DEFINE mirror == {LastYear - y : y \in ys}
<1>1. \A y \in ys : y \in Nat /\ LastYear - y \in Nat
    BY YearsAreNat, PanelAssumption
<1>2. LastYear \in Nat
    BY PanelAssumption
<1>3. mirror \subseteq Nat /\ mirror # {}
    BY <1>1
<1>4. PICK m \in mirror :
        \A n \in mirror : ~(<<n, m>> \in OpToRel(<, Nat))
    <2> HIDE DEF mirror
    <2> QED BY <1>3, NatLessThanWellFounded, WFMin, Zenon
<1>5. \A n \in mirror : ~(n < m)
    <2> HIDE DEF mirror
    <2> QED BY <1>3, <1>4 DEF OpToRel
<1>6. PICK y \in ys : m = LastYear - y
    OBVIOUS
<1>7. \A z \in ys : z <= y
    <2> TAKE z \in ys
    <2>1. LastYear - z \in mirror
        OBVIOUS
    <2>2. ~(LastYear - z < LastYear - y)
        <3> HIDE DEF mirror
        <3> QED BY <2>1, <1>5, <1>6
    <2> QED BY <2>2, <1>1, <1>2
<1>8. \E x \in ys : \A z \in ys : z <= x
    BY <1>7
<1> QED BY <1>8 DEF Latest

-----------------------------------------------------------------------------
(* The panel and its histories.                                            *)

LEMMA BuildPanelType ==
    ASSUME NEW b \in Bronzes
    PROVE  BuildPanel(b) \in Panels
<1> SUFFICES ASSUME NEW c \in Countries, NEW y \in Years
             PROVE  /\ Intensity(b[c][y]) \in Missing
                    /\ Complete(b[c][y]) \in BOOLEAN
    BY DEF BuildPanel, Panels
<1>1. b[c][y] \in Cells
    BY DEF Bronzes
<1> QED BY <1>1 DEF Cells, Intensity, Complete, Missing

LEMMA SeriesType ==
    ASSUME NEW p \in Panels, NEW c \in Countries
    PROVE  Series(p, c) \in [Years -> Missing]
    BY DEF Panels, Series

LEMMA SeriesIsHistory ==
    ASSUME NEW p \in Panels, NEW c \in Countries
    PROVE  Series(p, c) \in Histories
    BY SeriesType DEF Histories

LEMMA HistoryType ==
    ASSUME NEW p \in Panels, NEW c \in Countries, NEW s \in Splits
    PROVE  History(p, c, s) \in Histories
<1> DEFINE ys == {y \in Years : y <= s[1]}
<1>1. History(p, c, s) \in [ys -> Missing]
    BY SeriesType DEF History, Restrict
<1> QED BY <1>1 DEF Histories

\* What is known and what is usable are years; what is usable is known.
LEMMA UsableYears ==
    ASSUME NEW h \in Histories
    PROVE  /\ Known(h) \in SUBSET Years
           /\ Usable(h) \in SUBSET Years
           /\ \A y \in Known(h) : h[y] \in Levels
           /\ \A y \in Usable(h) : h[y] \in Levels
           /\ Cardinality(Known(h)) \in Nat
           /\ Cardinality(Usable(h)) \in Nat
<1>1. PICK ys \in SUBSET Years : h \in [ys -> Missing]
    BY DEF Histories
<1>2. Known(h) \in SUBSET Years /\ \A y \in Known(h) : h[y] \in Levels
    BY <1>1 DEF Known, Missing
<1>3. Usable(h) \in SUBSET Years /\ \A y \in Usable(h) : h[y] \in Levels
    BY <1>2 DEF Usable
<1> QED BY <1>2, <1>3, SomeYears

LEMMA FitType ==
    ASSUME NEW h \in Histories
    PROVE  Restrict(h, Usable(h)) \in Fits
<1>1. Restrict(h, Usable(h)) \in [Usable(h) -> Levels]
    BY UsableYears DEF Restrict
<1> QED BY <1>1, UsableYears DEF Fits

LEMMA NoChangeType ==
    ASSUME NEW h \in Histories, Cardinality(Known(h)) >= MinObservations
    PROVE  NoChange(h) \in Forecasts
<1>1. Known(h) # {}
    BY UsableYears, Counted DEF MinObservations
<1>2. Latest(Known(h)) \in Known(h)
    BY <1>1, UsableYears, LatestIs
<1>3. h[Latest(Known(h))] \in Levels
    BY <1>2, UsableYears
<1> QED BY <1>3 DEF NoChange, Forecasts

LEMMA TrendType ==
    ASSUME NEW h \in Histories, NEW t \in Nat,
           Cardinality(Usable(h)) >= MinObservations
    PROVE  Trend(h, t) \in Forecasts
<1>1. ~(Cardinality(Usable(h)) < MinObservations)
    BY UsableYears DEF MinObservations
<1>2. Trend(h, t) = [fit |-> Restrict(h, Usable(h)), target |-> t]
    BY <1>1 DEF Trend
<1> HIDE DEF Restrict
<1> QED BY <1>2, FitType DEF Forecasts

LEMMA BootstrapType ==
    ASSUME NEW h \in Histories, NEW t \in Nat, Bootstrap(h, t) # None
    PROVE  /\ Cardinality(Usable(h)) >= MinLevels
           /\ Bootstrap(h, t) \in Forecasts
<1>1. ~(Cardinality(Usable(h)) < MinLevels \/ t <= Latest(Usable(h)))
    BY DEF Bootstrap
<1>2. Cardinality(Usable(h)) >= MinLevels
    BY <1>1, UsableYears DEF MinLevels
<1>3. Usable(h) # {}
    BY <1>2, UsableYears, Counted DEF MinLevels
<1>4. Latest(Usable(h)) \in Nat
    BY <1>3, UsableYears, LatestIs, YearsAreNat
<1>5. t - Latest(Usable(h)) \in Nat
    BY <1>1, <1>4
<1>6. Bootstrap(h, t) = [levels  |-> Restrict(h, Usable(h)),
                         horizon |-> t - Latest(Usable(h))]
    BY <1>1 DEF Bootstrap
<1>7. Bootstrap(h, t) \in [levels: Fits, horizon: Nat]
    BY <1>5, <1>6, FitType
<1> QED BY <1>2, <1>7 DEF Forecasts

-----------------------------------------------------------------------------
(* Backtests.                                                              *)

LEMMA SplitType ==
    ASSUME NEW s \in Splits
    PROVE  s[1] \in Nat /\ s[2] \in Nat
    BY PanelAssumption

LEMMA NotMissing == \A f \in Forecasts : f # None
    BY NoneIsMissing

LEMMA BacktestRows ==
    ASSUME NEW p
    PROVE  \A r : r \in DOMAIN RunBacktest(p) <=>
                    /\ r \in Countries \X Splits \X Models
                    /\ EligibleSplit(p, r[1], r[2])
                    /\ Forecast(p, r[1], r[2], r[3]) # None
    BY DEF RunBacktest

LEMMA BacktestRow ==
    ASSUME NEW p, NEW r \in DOMAIN RunBacktest(p)
    PROVE  RunBacktest(p)[r] = [forecast |-> Forecast(p, r[1], r[2], r[3]),
                                actual   |-> Series(p, r[1])[r[2][2]]]
    BY DEF RunBacktest

LEMMA ForecastType ==
    ASSUME NEW p \in Panels, NEW c \in Countries, NEW s \in Splits,
           NEW m \in Models, EligibleSplit(p, c, s), Forecast(p, c, s, m) # None
    PROVE  Forecast(p, c, s, m) \in Forecasts
<1> DEFINE h == History(p, c, s)
<1>1. h \in Histories /\ s[2] \in Nat
    BY HistoryType, SplitType
<1>2. CASE m = "no_change"
    <2>1. Forecast(p, c, s, m) = NoChange(h)
        BY <1>2 DEF Forecast
    <2> QED BY <2>1, <1>1, NoChangeType DEF EligibleSplit
<1>3. CASE m = "deterministic_trend"
    <2>1. Forecast(p, c, s, m) = Trend(h, s[2])
        BY <1>3 DEF Forecast
    <2>2. Cardinality(Usable(h)) >= MinObservations
        BY <2>1, <1>1, UsableYears DEF Trend, MinObservations
    <2> QED BY <2>1, <2>2, <1>1, TrendType
<1>4. CASE m = "empirical_bootstrap"
    <2>1. Forecast(p, c, s, m) = Bootstrap(h, s[2])
        BY <1>4 DEF Forecast
    <2> QED BY <2>1, <1>1, BootstrapType
<1> QED BY <1>2, <1>3, <1>4 DEF Models

LEMMA RunBacktestType ==
    ASSUME NEW p \in Panels
    PROVE  /\ DOMAIN RunBacktest(p) \subseteq Countries \X Splits \X Models
           /\ \A r \in DOMAIN RunBacktest(p) : RunBacktest(p)[r] \in Rows
<1>1. DOMAIN RunBacktest(p) \subseteq Countries \X Splits \X Models
    BY BacktestRows
<1>2. ASSUME NEW r \in DOMAIN RunBacktest(p)
      PROVE  RunBacktest(p)[r] \in Rows
    <2>1. /\ r[1] \in Countries /\ r[2] \in Splits /\ r[3] \in Models
          /\ EligibleSplit(p, r[1], r[2])
          /\ Forecast(p, r[1], r[2], r[3]) # None
        BY BacktestRows
    <2>2. Forecast(p, r[1], r[2], r[3]) \in Forecasts
        BY <2>1, ForecastType
    <2>3. Series(p, r[1])[r[2][2]] \in Levels
        BY <2>1, SeriesType DEF EligibleSplit, Missing
    <2> QED BY <2>2, <2>3, BacktestRow DEF Rows
<1> QED BY <1>1, <1>2

\* A history of six usable levels is long enough for all three models.
LEMMA BootstrapHasBaselines ==
    ASSUME NEW p \in Panels, NEW r \in DOMAIN RunBacktest(p),
           r[3] = "empirical_bootstrap", NEW m \in Models
    PROVE  <<r[1], r[2], m>> \in DOMAIN RunBacktest(p)
<1> DEFINE h == History(p, r[1], r[2])
           t == r[2][2]
<1>1. /\ r[1] \in Countries /\ r[2] \in Splits /\ r[3] \in Models
      /\ EligibleSplit(p, r[1], r[2])
      /\ Forecast(p, r[1], r[2], r[3]) # None
    BY BacktestRows
<1>2. h \in Histories /\ t \in Nat
    BY <1>1, HistoryType, SplitType
<1>3. Bootstrap(h, t) # None
    BY <1>1 DEF Forecast
<1>4. Cardinality(Usable(h)) >= MinObservations
    BY <1>2, <1>3, BootstrapType, UsableYears DEF MinObservations, MinLevels
<1>5. Trend(h, t) # None
    BY <1>2, <1>4, TrendType, NotMissing
<1>6. NoChange(h) # None
    BY <1>1, <1>2, NoChangeType, NotMissing DEF EligibleSplit
<1>7. Forecast(p, r[1], r[2], m) # None
    BY <1>3, <1>5, <1>6 DEF Forecast, Models
<1>8. <<r[1], r[2], m>> \in Countries \X Splits \X Models
    BY <1>1
<1> QED BY <1>1, <1>7, <1>8, BacktestRows

\* Two panels that agree up to the origin give the same forecasts from it.
LEMMA ForecastFromHistory ==
    ASSUME NEW p \in Panels, NEW q \in Panels, NEW c \in Countries,
           NEW s \in Splits, NEW m \in Models,
           \A y \in Years : y <= s[1] => q[c][y] = p[c][y]
    PROVE  Forecast(q, c, s, m) = Forecast(p, c, s, m)
<1>1. History(q, c, s) = History(p, c, s)
    BY DEF History, Series, Restrict
<1> QED BY <1>1 DEF Forecast

-----------------------------------------------------------------------------
(* The model-eligible year.                                                *)

LEMMA CommonYearsAreYears ==
    ASSUME NEW p
    PROVE  CommonYears(p) \in SUBSET Years
    BY DEF CommonYears

LEMMA EligibleYearIs ==
    ASSUME NEW p, EligibleYear(p) # None
    PROVE  /\ EligibleYear(p) \in CommonYears(p)
           /\ \A y \in CommonYears(p) : y <= EligibleYear(p)
<1>1. CommonYears(p) # {} /\ EligibleYear(p) = Latest(CommonYears(p))
    BY DEF EligibleYear
<1> QED BY <1>1, CommonYearsAreYears, LatestIs

LEMMA EligibleYearType ==
    ASSUME NEW p
    PROVE  EligibleYear(p) \in Years \cup {None}
    BY EligibleYearIs, CommonYearsAreYears

\* Years are not missing.
LEMMA YearIsThere == \A y \in Years : y # None
    BY YearsAreNat, NoneIsMissing

LEMMA EligibleYearGrows ==
    ASSUME NEW p, NEW q, Extends(p, q), EligibleYear(p) # None
    PROVE  EligibleYear(q) # None /\ EligibleYear(q) >= EligibleYear(p)
<1>1. CommonYears(p) \subseteq CommonYears(q)
    BY DEF CommonYears, Extends
<1>2. EligibleYear(p) \in CommonYears(q)
    BY <1>1, EligibleYearIs
<1>3. EligibleYear(q) = Latest(CommonYears(q))
    BY <1>2 DEF EligibleYear
<1>4. EligibleYear(q) \in Years /\ EligibleYear(p) <= EligibleYear(q)
    BY <1>2, <1>3, CommonYearsAreYears, LatestIs
<1> QED BY <1>2, <1>4, YearIsThere, YearsAreNat, CommonYearsAreYears

-----------------------------------------------------------------------------
(* The invariant.                                                          *)

\* What is stored is what the panel gives, whenever it gives something.
Current ==
    /\ HasResults(panel) => backtest = RunBacktest(panel)
    /\ Publishes(panel) => release = EligibleYear(panel)

Inv == TypeOK /\ Current /\ NeverWithoutBaseline

\* What RunBacktest returns can be stored.
LEMMA BacktestStored ==
    ASSUME panel' \in Panels, backtest' = RunBacktest(panel')
    PROVE  /\ DOMAIN backtest' \subseteq Countries \X Splits \X Models
           /\ \A r \in DOMAIN backtest' : backtest'[r] \in Rows
           /\ NeverWithoutBaseline'
<1>1. DOMAIN backtest' \subseteq Countries \X Splits \X Models
    BY RunBacktestType
<1>2. \A r \in DOMAIN backtest' : backtest'[r] \in Rows
    BY RunBacktestType
<1>3. NeverWithoutBaseline'
    BY BootstrapHasBaselines DEF NeverWithoutBaseline
<1> QED BY <1>1, <1>2, <1>3

LEMMA InitInv == Init => Inv
<1> SUFFICES ASSUME Init PROVE Inv
    OBVIOUS
<1>1. bronze \in Bronzes
    BY PanelAssumption DEF Init, Bronzes
<1>2. panel \in Panels
    BY <1>1, BuildPanelType DEF Init
<1>3. /\ backtest = RunBacktest(panel)
      /\ release = IF Publishes(panel) THEN EligibleYear(panel) ELSE None
    BY DEF Init
<1>4. /\ DOMAIN backtest \subseteq Countries \X Splits \X Models
      /\ \A r \in DOMAIN backtest : backtest[r] \in Rows
    BY <1>2, <1>3, RunBacktestType
<1>5. release \in Years \cup {None}
    BY <1>3, EligibleYearType
<1>6. TypeOK
    BY <1>1, <1>2, <1>4, <1>5 DEF TypeOK, Bronzes, Panels
<1>7. Current
    BY <1>3 DEF Current
<1>8. NeverWithoutBaseline
    BY <1>2, <1>3, BootstrapHasBaselines DEF NeverWithoutBaseline
<1> QED BY <1>6, <1>7, <1>8 DEF Inv

LEMMA RerunInv ==
    ASSUME Inv, NEW c \in Countries, NEW y \in Years, Rerun(c, y)
    PROVE  Inv'
<1>1. bronze' \in Bronzes
    <2>1. PICK cell \in Reports[c][y] : bronze' = [bronze EXCEPT ![c][y] = cell]
        BY DEF Rerun
    <2>2. cell \in Cells
        BY PanelAssumption
    <2> QED BY <2>1, <2>2 DEF Inv, TypeOK, Bronzes
<1>2. panel' \in Panels
    BY <1>1, BuildPanelType DEF Rerun
<1>3. /\ DOMAIN backtest' \subseteq Countries \X Splits \X Models
      /\ \A r \in DOMAIN backtest' : backtest'[r] \in Rows
      /\ NeverWithoutBaseline'
    <2>1. CASE HasResults(panel')
        BY <2>1, <1>2, BacktestStored DEF Rerun
    <2>2. CASE ~HasResults(panel')
        BY <2>2 DEF Rerun, Inv, TypeOK, NeverWithoutBaseline
    <2> QED BY <2>1, <2>2
<1>4. release' \in Years \cup {None}
    BY EligibleYearType DEF Rerun, Inv, TypeOK
<1>5. Current'
    BY DEF Current, Rerun
<1>6. TypeOK'
    BY <1>1, <1>2, <1>3, <1>4 DEF TypeOK, Bronzes, Panels
<1> QED BY <1>3, <1>5, <1>6 DEF Inv

LEMMA StutterInv == Inv /\ UNCHANGED vars => Inv'
    BY DEF Inv, vars, TypeOK, Current, NeverWithoutBaseline

LEMMA InvIsInvariant == Spec => []Inv
<1>1. Inv /\ [Next]_vars => Inv'
    BY RerunInv, StutterInv DEF Next
<1> QED BY <1>1, InitInv, PTL DEF Spec

-----------------------------------------------------------------------------
(* Theorems.                                                               *)

\* Every table keeps its shape: what build-silver, backtest and publish write
\* is well-formed for any history, and a backtest row always has an actual.
THEOREM PanelTypeCorrect == Spec => []TypeOK
    BY InvIsInvariant, PTL DEF Inv

\* A bootstrap forecast is never reported without the trend and the naive
\* forecast of its split, however long the histories are (evaluate_origin).
THEOREM WithBaseline == Spec => []NeverWithoutBaseline
    BY InvIsInvariant, PTL DEF Inv

\* The components of a score drop out in one order (the history that each of
\* _recent_trend, compute_decoupling, _volatility and run_country_scenario asks
\* for).
THEOREM Nested == Spec => []ComponentsNested
<1>1. Inv => ComponentsNested
    <2> SUFFICES ASSUME Inv, NEW c \in Countries
                 PROVE  /\ HasScenario(panel, c) => HasVolatility(panel, c)
                        /\ HasVolatility(panel, c) => HasDecoupling(panel, c)
                        /\ HasDecoupling(panel, c) => HasPace(panel, c)
        BY DEF ComponentsNested
    <2> DEFINE h == Series(panel, c)
    <2>1. h \in Histories
        BY SeriesIsHistory DEF Inv, TypeOK, Panels
    <2>2. Cardinality(Usable(h)) \in Nat
        BY <2>1, UsableYears
    <2>3. HasScenario(panel, c) => Cardinality(Usable(h)) >= MinLevels
        BY <2>1, BootstrapType, PanelAssumption DEF HasScenario
    <2> QED BY <2>2, <2>3 DEF HasVolatility, HasDecoupling, HasPace,
                              MinLevels, MinObservations, MinPace
<1> QED BY <1>1, InvIsInvariant, PTL

\* No revision of the years after an origin changes a forecast from it
\* (_history_at_or_before).
THEOREM NoLookAhead == Spec => NoLeakage
<1> DEFINE Same == HasResults(panel) =>
                     \A r \in DOMAIN backtest \cap DOMAIN backtest' :
                        SameHistory(r[1], r[2])
                            => backtest'[r].forecast = backtest[r].forecast
<1>1. ASSUME Inv, Inv', Next PROVE Same
    <2> SUFFICES ASSUME HasResults(panel),
                        NEW r \in DOMAIN backtest \cap DOMAIN backtest',
                        SameHistory(r[1], r[2])
                 PROVE  backtest'[r].forecast = backtest[r].forecast
        OBVIOUS
    <2>1. PICK c \in Countries, y \in Years : Rerun(c, y)
        BY <1>1 DEF Next
    <2>2. CASE ~HasResults(panel')
        BY <2>1, <2>2 DEF Rerun
    <2>3. CASE HasResults(panel')
        <3>1. backtest = RunBacktest(panel) /\ backtest' = RunBacktest(panel')
            BY <1>1, <2>3 DEF Inv, Current
        <3>2. /\ backtest[r].forecast = Forecast(panel, r[1], r[2], r[3])
              /\ backtest'[r].forecast = Forecast(panel', r[1], r[2], r[3])
            BY <3>1, BacktestRow
        <3>3. r[1] \in Countries /\ r[2] \in Splits /\ r[3] \in Models
            BY <3>1, BacktestRows
        <3>4. panel \in Panels /\ panel' \in Panels
            BY <1>1 DEF Inv, TypeOK, Panels
        <3>5. Forecast(panel', r[1], r[2], r[3]) = Forecast(panel, r[1], r[2], r[3])
            BY <3>3, <3>4, ForecastFromHistory DEF SameHistory
        <3> QED BY <3>2, <3>5
    <2> QED BY <2>2, <2>3
<1>2. Inv /\ Inv' /\ [Next]_vars => [Same]_vars
    BY <1>1 DEF vars
<1> QED BY <1>2, InvIsInvariant, PTL DEF Spec, NoLeakage

\* Adding data never takes the model-eligible year back
\* (latest_complete_common_year, as publish records it).
THEOREM YearNeverFalls == Spec => MoreDataNeverLowersYear
<1> DEFINE Grows == /\ Publishes(panel) /\ Publishes(panel')
                    /\ Extends(panel, panel')
                    /\ release # None
                    => release' # None /\ release' >= release
<1>1. ASSUME Inv, Inv' PROVE Grows
    <2> SUFFICES ASSUME Publishes(panel), Publishes(panel'),
                        Extends(panel, panel'), release # None
                 PROVE  release' # None /\ release' >= release
        OBVIOUS
    <2>1. release = EligibleYear(panel) /\ release' = EligibleYear(panel')
        BY <1>1 DEF Inv, Current
    <2> QED BY <2>1, EligibleYearGrows
<1>2. Inv /\ Inv' /\ [Next]_vars => [Grows]_vars
    BY <1>1
<1> QED BY <1>2, InvIsInvariant, PTL DEF Spec, MoreDataNeverLowersYear
=============================================================================
