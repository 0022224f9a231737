--------------------------- MODULE RegimesProofs ---------------------------
(***************************************************************************)
(* What TLAPS proves of Energy, Detection, Regimes and Gates: for any      *)
(* lake, thresholds, regressions, origins and countries, the features, the *)
(* breaks and the regime of an origin and the forecasts by it rest on      *)
(* nothing later than that origin; the dataset of milestone M6 has the     *)
(* rows of the backtest, and the methods of phase 3 all have the same; the *)
(* segments of a break and an active regime are long enough; methods that  *)
(* agree are as close as agreement says; the two windows of the stalled    *)
(* residual, and the two momenta, are one; the weights of phase 3 are      *)
(* those of phase 4; and what phase 3 accepts rests on active regimes.     *)
(***************************************************************************)
EXTENDS Gates, RecencyProofs

LEMMA SameRegimeInputs ==
    ASSUME NEW b1, NEW b2, NEW c \in Countries, NEW s \in Splits,
           SameUntil(b1, b2, s[1])
    PROVE  /\ History(BuildPanel(b1), c, s) = History(BuildPanel(b2), c, s)
           /\ HistoryRows(b1, c, s) = HistoryRows(b2, c, s)
           /\ RegimeAt(b1, c, s) = RegimeAt(b2, c, s)
<1>1. s[1] \in Int /\ s[1] <= s[1]
    BY SplitType
<1>2. History(BuildPanel(b1), c, s) = History(BuildPanel(b2), c, s)
    BY <1>1, SameHistories
<1>3. HistoryRows(b1, c, s) = HistoryRows(b2, c, s)
    BY SameRow DEF HistoryRows
<1> QED BY <1>2, <1>3 DEF RegimeAt

\* Detection, activation and weights of a regime see nothing that was not known
\* at the origin (_regime_evidence, break_year_sensitivity), in every state of
\* the lake.
THEOREM RegimeLookAhead == Spec => []RegimeNoLeakage
<1>1. RegimeNoLeakage
    <2> SUFFICES ASSUME NEW c \in Countries, NEW s \in Splits
                 PROVE  /\ Phase3Forecasts(KnownIn(bronze, s[1]), c, s)
                             = Phase3Forecasts(bronze, c, s)
                        /\ \A o \in Offsets : Perturbed(KnownIn(bronze, s[1]), c, s, o)
                                                = Perturbed(bronze, c, s, o)
        BY DEF RegimeNoLeakage
    <2> DEFINE then == KnownIn(bronze, s[1])
    <2>1. /\ History(BuildPanel(then), c, s) = History(BuildPanel(bronze), c, s)
          /\ HistoryRows(then, c, s) = HistoryRows(bronze, c, s)
          /\ RegimeAt(then, c, s) = RegimeAt(bronze, c, s)
        BY KnownInIsSame, SameRegimeInputs
    <2> HIDE DEF then
    <2>2. Phase3Forecasts(then, c, s) = Phase3Forecasts(bronze, c, s)
        BY <2>1 DEF Phase3Forecasts
    <2>3. \A o \in Offsets : Perturbed(then, c, s, o) = Perturbed(bronze, c, s, o)
        BY <2>1 DEF Perturbed
    <2> QED BY <2>2, <2>3 DEF then
<1> QED BY <1>1, PTL
-----------------------------------------------------------------------------
(* Energy.                                                                 *)

LEMMA SameEnergyRows ==
    ASSUME NEW b1, NEW b2, NEW c \in Countries, NEW x,
           SameUntil(b1, b2, x)
    PROVE  UpTo(EnergyRows(b1, c), x) = UpTo(EnergyRows(b2, c), x)
<1> DEFINE ys(b) == {y \in Years : b[c][y].energy # None /\ y <= x}
<1>1. \A y \in Years : y <= x => b1[c][y].energy = b2[c][y].energy
    BY DEF SameUntil
<1>2. ys(b1) = ys(b2)
    BY <1>1
<1>3. ASSUME NEW b
      PROVE  UpTo(EnergyRows(b, c), x) = [y \in ys(b) |-> b[c][y].energy]
    BY DEF UpTo, EnergyRows, Restrict
<1>4. \A y \in ys(b1) : b1[c][y].energy = b2[c][y].energy
    BY <1>1
<1> HIDE DEF ys
<1> QED BY <1>2, <1>3, <1>4

\* The dataset of milestone M6 (build_incremental_dataset) sees nothing that was
\* not known at the origin of a row, in every state of the lake.
THEOREM IncrementalLookAhead == Spec => []IncrementalNoLeakage
<1>1. IncrementalNoLeakage
    <2> SUFFICES ASSUME NEW c \in Countries, NEW s \in Splits
                 PROVE  SplitInputs(KnownIn(bronze, s[1]), c, s) = SplitInputs(bronze, c, s)
        BY DEF IncrementalNoLeakage
    <2> DEFINE then == KnownIn(bronze, s[1])
    <2>1. SameUntil(then, bronze, s[1])
        BY KnownInIsSame
    <2> HIDE DEF then
    <2>2. History(BuildPanel(then), c, s) = History(BuildPanel(bronze), c, s)
        BY <2>1, SameRegimeInputs
    <2>3. UpTo(EnergyRows(then, c), s[1]) = UpTo(EnergyRows(bronze, c), s[1])
        BY <2>1, SameEnergyRows
    <2>4. SplitInputs(then, c, s) = SplitInputs(bronze, c, s)
        BY <2>2, <2>3 DEF SplitInputs
    <2> QED BY <2>4 DEF then
<1> QED BY <1>1, PTL

\* Every row of the dataset of milestone M6 is a split of the backtest, with its
\* baseline and its actual (build_incremental_dataset, evaluate_origin).
THEOREM IncrementalOnBacktest == Spec => []IncrementalComparable
<1>1. Inv => IncrementalComparable
    <2> SUFFICES ASSUME Inv, NEW e \in DOMAIN IncrementalDataset(bronze)
                 PROVE  /\ EligibleSplit(BuildPanel(bronze), e[1], e[2])
                        /\ IncrementalDataset(bronze)[e].inputs.baseline
                             = Forecast(BuildPanel(bronze), e[1], e[2], "deterministic_trend")
                        /\ IncrementalDataset(bronze)[e].actual
                             = Series(BuildPanel(bronze), e[1])[e[2][2]]
        BY DEF IncrementalComparable
    <2> DEFINE h == History(BuildPanel(bronze), e[1], e[2])
    <2>1. /\ e[1] \in Countries /\ e[2] \in Splits /\ e = <<e[1], e[2]>>
          /\ InDataset(bronze, e[1], e[2])
          /\ IncrementalDataset(bronze)[e]
               = [inputs |-> SplitInputs(bronze, e[1], e[2]), actual |-> Actual(bronze, e)]
        BY DEF IncrementalDataset
    <2>2. /\ SplitInputs(bronze, e[1], e[2]).baseline = Trend(h, e[2][2])
          /\ Trend(h, e[2][2]) # None
          /\ HasOutcome(bronze, e)
        BY <2>1 DEF InDataset, SplitInputs
    <2>3. bronze \in Bronzes
        BY DEF Inv, TypeOK, Bronzes
    <2>4. h \in Histories
        BY <2>1, <2>3, BuildPanelType, HistoryType
    <2>5. Cardinality(Usable(h)) >= MinObservations
        BY <2>2, <2>4, UsableYears DEF Trend, MinObservations
    <2>6. Cardinality(Usable(h)) <= Cardinality(Known(h))
        BY <2>4, UsableYears, SomeYears, FS_Subset DEF Usable
    <2>7. Cardinality(Known(h)) >= MinObservations
        BY <2>4, <2>5, <2>6, UsableYears DEF MinObservations
    <2>8. /\ e[2][2] \in Years
          /\ Series(BuildPanel(bronze), e[1])[e[2][2]] # None
        BY <2>2 DEF HasOutcome, HasRow, Actual
    <2>9. EligibleSplit(BuildPanel(bronze), e[1], e[2])
        BY <2>7, <2>8 DEF EligibleSplit
    <2> QED BY <2>1, <2>2, <2>9 DEF Forecast, Actual
<1> QED BY <1>1, InvIsInvariant, PTL

\* The residual of a stalled transition is taken against the trend that the
\* momentum is the slope of, and exists with the velocity
\* (compute_energy_features), for any energy data.
THEOREM StalledWindows == Spec => []StalledAgainstOwnTrend
<1>1. StalledAgainstOwnTrend
    <2> SUFFICES ASSUME NEW c \in Countries, NEW width \in {3, 5, 7},
                        EnergyFeatures(EnergyRows(bronze, c), width) # None
                 PROVE  LET features == EnergyFeatures(EnergyRows(bronze, c), width)
                        IN  /\ features.stalled_residual \in {None, features.momentum}
                            /\ features.velocity # None =>
                                 features.stalled_residual = features.momentum
        BY DEF StalledAgainstOwnTrend
    <2> DEFINE low      == "low_carbon_share_elec"
               rows     == EnergyRows(bronze, c)
               latest   == Latest(Dated(rows))
               within   == Window(DOMAIN rows, latest, width) \cap Reporting(rows, low)
               momentum == Slope(rows, low, width)
               current  == momentum # None /\ low \in rows[latest]
               features == EnergyFeatures(rows, width)
    <2>1. /\ features.momentum = momentum
          /\ features.velocity = IF current THEN momentum ELSE None
          /\ features.stalled_residual =
               IF current /\ Cardinality(within) >= MinTrailing THEN within ELSE None
        BY DEF EnergyFeatures
    <2>2. Dated(rows) # {}
        BY DEF EnergyFeatures
    <2>3. /\ DOMAIN rows \in SUBSET Years
          /\ Dated(rows) \in SUBSET DOMAIN rows
          /\ Reporting(rows, low) \in SUBSET Dated(rows)
        BY DEF EnergyRows, Dated, Reporting
    <2> HIDE DEF rows
    <2>4. latest \in Dated(rows) /\ \A z \in Dated(rows) : z <= latest
        BY <2>2, <2>3, LatestIs
    <2>5. ASSUME current
          PROVE  within = momentum /\ Cardinality(within) >= MinTrailing
        <3>1. latest \in Reporting(rows, low)
            BY <2>3, <2>4, <2>5 DEF Reporting
        <3>2. Latest(Reporting(rows, low)) = latest
            <4>1. /\ Latest(Reporting(rows, low)) \in Reporting(rows, low)
                  /\ latest <= Latest(Reporting(rows, low))
                BY <2>3, <3>1, LatestIs
            <4>2. \A x, y \in Years : x <= y /\ y <= x => x = y
                BY YearsAreNat
            <4>3. /\ Latest(Reporting(rows, low)) <= latest
                  /\ Latest(Reporting(rows, low)) \in Years /\ latest \in Years
                BY <2>3, <2>4, <4>1
            <4> HIDE DEF latest, low
            <4> QED BY <4>1, <4>2, <4>3
        <3>3. Trailing(rows, low, width) = momentum /\ Cardinality(momentum) >= MinTrailing
            <4>1. momentum = Trailing(rows, low, width)
                BY <2>5 DEF Slope
            <4>2. Trailing(rows, low, width) \in SUBSET Years
                BY <2>3 DEF Trailing, Window
            <4> QED BY <2>5, <4>1, <4>2, SomeYears DEF Slope, MinTrailing
        <3>4. Cardinality(Reporting(rows, low)) >= MinTrailing
            <4>1. Cardinality(Reporting(rows, low)) < MinTrailing
                    => Trailing(rows, low, width) = Reporting(rows, low)
                BY DEF Trailing
            <4>2. Cardinality(Reporting(rows, low)) \in Nat
                BY <2>3, SomeYears
            <4> QED BY <3>3, <4>1, <4>2 DEF MinTrailing
        <3>5. momentum = Window(Reporting(rows, low), latest, width)
            <4>1. Cardinality(Reporting(rows, low)) \in Nat
                BY <2>3, SomeYears
            <4> QED BY <3>2, <3>3, <3>4, <4>1 DEF Trailing, MinTrailing
        <3>6. within = Window(Reporting(rows, low), latest, width)
            BY <2>3 DEF Window
        <3> QED BY <3>3, <3>5, <3>6
    <2> QED BY <2>1, <2>5 DEF rows
<1> QED BY <1>1, PTL

-----------------------------------------------------------------------------
(* Detection.                                                              *)

LEMMA CutLevels ==
    ASSUME NEW b, NEW c \in Countries, NEW o
    PROVE  \A y \in Years :
             Series(BuildPanel(KnownIn(b, o)), c)[y] =
                IF y <= o THEN Series(BuildPanel(b), c)[y] ELSE None
    BY DEF Series, BuildPanel, KnownIn, NoData, Intensity

LEMMA CutRows ==
    ASSUME NEW b, NEW c \in Countries, NEW o
    PROVE  /\ \A y \in Years : HasRow(KnownIn(b, o), c, y) <=> y <= o /\ HasRow(b, c, y)
           /\ EnergyRows(KnownIn(b, o), c) = UpTo(EnergyRows(b, c), o)
<1>1. \A y \in Years : HasRow(KnownIn(b, o), c, y) <=> y <= o /\ HasRow(b, c, y)
    <2> SUFFICES ASSUME NEW y \in Years
                 PROVE  HasRow(KnownIn(b, o), c, y) <=> y <= o /\ HasRow(b, c, y)
        OBVIOUS
    <2>1. KnownIn(b, o)[c][y] = IF y <= o THEN b[c][y] ELSE NoData
        BY DEF KnownIn
    <2>2. [NoData EXCEPT !.energy = None] = NoData
        <3>1. [NoData EXCEPT !.energy = None] \in
                [co2: {None}, population_owid: {FALSE}, real_gdp: {FALSE},
                 population_wb: {FALSE}, energy: {None}]
            BY DEF NoData
        <3>2. NoData \in
                [co2: {None}, population_owid: {FALSE}, real_gdp: {FALSE},
                 population_wb: {FALSE}, energy: {None}]
            BY DEF NoData
        <3> QED BY <3>1, <3>2
    <2> QED BY <2>1, <2>2 DEF HasRow
<1> DEFINE ys == {y \in Years : y <= o /\ b[c][y].energy # None}
<1>2. {y \in Years : KnownIn(b, o)[c][y].energy # None} = ys
    BY DEF KnownIn, NoData
<1>3. EnergyRows(KnownIn(b, o), c) = [y \in ys |-> b[c][y].energy]
    <2>1. \A y \in ys : KnownIn(b, o)[c][y].energy = b[c][y].energy
        BY DEF KnownIn
    <2> QED BY <1>2, <2>1 DEF EnergyRows
<1>4. UpTo(EnergyRows(b, c), o) = [y \in ys |-> b[c][y].energy]
    BY DEF UpTo, EnergyRows, Restrict
<1> QED BY <1>1, <1>3, <1>4
LEMMA CutUsable ==
    ASSUME NEW b, NEW c \in Countries, NEW o
    PROVE  Usable(Series(BuildPanel(KnownIn(b, o)), c))
             = {y \in Usable(Series(BuildPanel(b), c)) : y <= o}
<1>1. ASSUME NEW d
      PROVE  DOMAIN Series(BuildPanel(d), c) = Years
    BY DEF Series
<1>2. ASSUME NEW d
      PROVE  Usable(Series(BuildPanel(d), c)) =
                {y \in Years : /\ Series(BuildPanel(d), c)[y] # None
                               /\ Series(BuildPanel(d), c)[y] > 0}
    BY <1>1 DEF Usable, Known
<1>3. \A y \in Years : /\ Series(BuildPanel(KnownIn(b, o)), c)[y] # None
                         /\ Series(BuildPanel(KnownIn(b, o)), c)[y] > 0
                       <=> /\ Series(BuildPanel(b), c)[y] # None
                           /\ Series(BuildPanel(b), c)[y] > 0
                           /\ y <= o
    BY CutLevels
<1> QED BY <1>2, <1>3

LEMMA CutLevelSeries ==
    ASSUME NEW b, NEW c \in Countries, NEW o
    PROVE  CandidateSeries(KnownIn(b, o), c, "carbon_intensity_gdp")
             = UpTo(CandidateSeries(b, c, "carbon_intensity_gdp"), o)
<1> DEFINE level(d) == Series(BuildPanel(d), c)
           ys == {y \in Usable(level(b)) : y <= o}
<1>1. ASSUME NEW d
      PROVE  CandidateSeries(d, c, "carbon_intensity_gdp")
               = [y \in Usable(level(d)) |-> level(d)[y]]
    <2>1. CandidateSeries(d, c, "carbon_intensity_gdp")
            = Restrict(level(d), Usable(level(d)))
        BY DEF CandidateSeries, Shares
    <2> HIDE DEF level
    <2> QED BY <2>1 DEF Restrict
<1>2. Usable(level(KnownIn(b, o))) = ys
    BY CutUsable
<1>3. \A y \in ys : level(KnownIn(b, o))[y] = level(b)[y]
    <2>1. ys \subseteq Years
        BY DEF Usable, Known, Series
    <2> QED BY <2>1, CutLevels
<1>4. UpTo(CandidateSeries(b, c, "carbon_intensity_gdp"), o) = [y \in ys |-> level(b)[y]]
    BY <1>1 DEF UpTo, Restrict
<1> HIDE DEF level, ys
<1> QED BY <1>1, <1>2, <1>3, <1>4

LEMMA CutLogChanges ==
    ASSUME NEW b, NEW c \in Countries, NEW o \in Int
    PROVE  LogChanges(KnownIn(b, o), c) = UpTo(LogChanges(b, c), o)
<1> DEFINE then        == KnownIn(b, o)
           level(d)    == Series(BuildPanel(d), c)
           rows(d)     == {y \in Years : HasRow(d, c, y)}
           positive(d) == Usable(level(d))
           before(d,y) == {z \in rows(d) : z < y}
           last(d,y)   == Latest(before(d, y))
           ys(d)       == {z \in Changes(rows(d)) : {last(d, z), z} \subseteq positive(d)}
           change(d,y) == <<level(d)[last(d, y)], level(d)[y]>>
<1>1. ASSUME NEW d
      PROVE  LogChanges(d, c) = [y \in ys(d) |-> change(d, y)]
    <2> DEFINE previous == [y \in Changes(rows(d)) |-> last(d, y)]
    <2>1. DOMAIN previous = Changes(rows(d)) /\ \A y \in DOMAIN previous : previous[y] = last(d, y)
        OBVIOUS
    <2>2. LogChanges(d, c) = [y \in {z \in DOMAIN previous : {previous[z], z} \subseteq positive(d)}
                                |-> <<level(d)[previous[y]], level(d)[y]>>]
        BY DEF LogChanges
    <2>3. {z \in DOMAIN previous : {previous[z], z} \subseteq positive(d)} = ys(d)
        BY <2>1
    <2>4. \A y \in ys(d) : <<level(d)[previous[y]], level(d)[y]>> = change(d, y)
        BY <2>1
    <2> HIDE DEF previous, ys, change
    <2> QED BY <2>2, <2>3, <2>4
<1>2. rows(then) = {y \in rows(b) : y <= o}
    BY CutRows
<1>3. ASSUME NEW y \in Years, y <= o
      PROVE  before(then, y) = before(b, y)
    <2>1. \A z \in Years : z < y => z <= o
        BY <1>3, YearsAreNat
    <2> QED BY <1>2, <2>1
<1>4. positive(then) = {y \in positive(b) : y <= o}
    BY CutUsable
<1>5. positive(b) \subseteq Years
    BY DEF Usable, Known, Series
<1>6. \A y \in ys(then) : y <= o
    BY <1>4
<1>7. ASSUME NEW y \in Years, y <= o
      PROVE  /\ y \in Changes(rows(then)) <=> y \in Changes(rows(b))
             /\ last(then, y) = last(b, y)
    <2>1. before(then, y) = before(b, y)
        BY <1>3, <1>7
    <2>2. \A d : y \in Changes(rows(d)) <=> y \in rows(d) /\ before(d, y) # {}
        BY DEF Changes
    <2>3. y \in rows(then) <=> y \in rows(b)
        BY <1>2, <1>7
    <2> QED BY <2>1, <2>2, <2>3
<1>8. ASSUME NEW y \in Years, y <= o, y \in Changes(rows(b))
      PROVE  last(b, y) \in Years /\ last(b, y) <= o
    <2>1. before(b, y) \in SUBSET Years /\ before(b, y) # {}
        BY <1>8 DEF Changes
    <2>2. last(b, y) \in before(b, y)
        BY <2>1, LatestIs
    <2>3. last(b, y) \in Years /\ last(b, y) < y
        BY <2>2
    <2>4. \A z \in Years : z < y => z <= o
        BY <1>8, YearsAreNat
    <2> HIDE DEF last
    <2> QED BY <2>3, <2>4
<1>9. ys(then) = {y \in ys(b) : y <= o}
    <2>1. \A d : ys(d) \subseteq Years
        BY DEF Changes
    <2>2. ASSUME NEW y \in Years, y <= o
          PROVE  y \in ys(then) <=> y \in ys(b)
        <3>1. y \in ys(then) <=> /\ y \in Changes(rows(b))
                                 /\ {last(b, y), y} \subseteq positive(then)
            BY <1>7, <2>2
        <3>2. y \in ys(b) <=> /\ y \in Changes(rows(b))
                              /\ {last(b, y), y} \subseteq positive(b)
            OBVIOUS
        <3> HIDE DEF ys, last, positive, rows
        <3> QED BY <3>1, <3>2, <1>4, <1>8, <2>2
    <2> HIDE DEF ys
    <2> QED BY <1>6, <2>1, <2>2
<1>10. ASSUME NEW y \in ys(then)
       PROVE  change(then, y) = change(b, y)
    <2>1. y \in Years /\ y <= o /\ y \in Changes(rows(b))
        BY <1>6, <1>7, <1>10 DEF Changes
    <2>2. last(then, y) = last(b, y) /\ last(b, y) \in Years /\ last(b, y) <= o
        BY <1>7, <1>8, <2>1
    <2>3. \A z \in Years : z <= o => level(then)[z] = level(b)[z]
        BY CutLevels
    <2> HIDE DEF last, level
    <2> QED BY <2>1, <2>2, <2>3
<1>11. UpTo(LogChanges(b, c), o) = [y \in {z \in ys(b) : z <= o} |-> change(b, y)]
    <2> HIDE DEF ys, change
    <2> QED BY <1>1 DEF UpTo, Restrict
<1> HIDE DEF ys, change
<1> QED BY <1>1, <1>9, <1>10, <1>11
LEMMA CutShare ==
    ASSUME NEW b, NEW c \in Countries, NEW o, NEW name \in Shares
    PROVE  CandidateSeries(KnownIn(b, o), c, name)
             = UpTo(CandidateSeries(b, c, name), o)
<1> DEFINE rows(d) == EnergyRows(d, c)
<1>1. ASSUME NEW d
      PROVE  CandidateSeries(d, c, name) = [y \in Reporting(rows(d), name) |-> name]
    BY DEF CandidateSeries, Shares
<1>2. rows(KnownIn(b, o)) = UpTo(rows(b), o)
    BY CutRows
<1> HIDE DEF rows
<1>3. Reporting(rows(KnownIn(b, o)), name) = {y \in Reporting(rows(b), name) : y <= o}
    BY <1>2 DEF Reporting, UpTo, Restrict
<1> QED BY <1>1, <1>3 DEF UpTo, Restrict

LEMMA CutRollingSlope ==
    ASSUME NEW b, NEW c \in Countries, NEW o \in Int
    PROVE  RollingSlope(EnergyRows(KnownIn(b, o), c))
             = UpTo(RollingSlope(EnergyRows(b, c)), o)
<1> DEFINE low  == "low_carbon_share_elec"
           rows == EnergyRows(b, c)
           cut  == UpTo(rows, o)
           ys(r) == {z \in DOMAIN r : Cardinality(LastValues(r, low, z)) >= MinSegment}
<1>1. DOMAIN rows \subseteq Years
    BY DEF EnergyRows
<1>2. EnergyRows(KnownIn(b, o), c) = cut
    BY CutRows
<1> HIDE DEF rows
<1>3. DOMAIN cut = {y \in DOMAIN rows : y <= o} /\ \A y \in DOMAIN cut : cut[y] = rows[y]
    BY DEF UpTo, Restrict
<1>4. ASSUME NEW y \in DOMAIN cut
      PROVE  LastValues(cut, low, y) = LastValues(rows, low, y)
    <2>1. y \in Years /\ y <= o
        BY <1>1, <1>3
    <2>2. \A z \in Years : z <= y => z <= o
        BY <2>1, YearsAreNat
    <2>3. {z \in Reporting(cut, low) : z <= y} = {z \in Reporting(rows, low) : z <= y}
        BY <1>1, <1>3, <2>2 DEF Reporting
    <2> HIDE DEF cut
    <2> QED BY <2>3 DEF LastValues
<1>5. ys(cut) = {y \in ys(rows) : y <= o}
    <2> HIDE DEF cut, low
    <2> QED BY <1>3, <1>4
<1>6. \A r : RollingSlope(r) = [y \in ys(r) |-> LastValues(r, low, y)]
    BY DEF RollingSlope
<1>7. UpTo(RollingSlope(rows), o) = [y \in {z \in ys(rows) : z <= o} |-> LastValues(rows, low, y)]
    <2> HIDE DEF ys, low
    <2> QED BY <1>6 DEF UpTo, Restrict
<1>8. ys(cut) \subseteq DOMAIN cut
    OBVIOUS
<1> HIDE DEF ys, cut, low
<1> QED BY <1>2, <1>4, <1>5, <1>6, <1>7, <1>8 DEF rows

LEMMA CutSeries ==
    ASSUME NEW b, NEW c \in Countries, NEW o \in Int, NEW name \in SeriesNames
    PROVE  CandidateSeries(KnownIn(b, o), c, name)
             = UpTo(CandidateSeries(b, c, name), o)
<1>1. CASE name = "carbon_intensity_gdp"
    BY <1>1, CutLevelSeries
<1>2. CASE name \in {"carbon_intensity_log_change", "co2_gdp_decoupling_gap"}
    <2>1. \A d : CandidateSeries(d, c, name) = LogChanges(d, c)
        BY <1>2 DEF CandidateSeries, Shares
    <2> QED BY <2>1, CutLogChanges
<1>3. CASE name \in Shares
    BY <1>3, CutShare
<1>4. CASE name = "clean_power_momentum_pp_per_year"
    <2>1. \A d : CandidateSeries(d, c, name) = RollingSlope(EnergyRows(d, c))
        BY <1>4 DEF CandidateSeries, Shares
    <2> QED BY <2>1, CutRollingSlope
<1> QED BY <1>1, <1>2, <1>3, <1>4 DEF SeriesNames, Shares

\* No method of detect_breaks_by_origin sees a value of a series that was not
\* known at the origin, in every state of the lake and for any regressions.
THEOREM DetectionLookAhead == Spec => []DetectionNoLeakage
<1>1. DetectionNoLeakage
    <2> SUFFICES ASSUME NEW c \in Countries, NEW name \in SeriesNames, NEW o \in Origins
                 PROVE  BreaksAsOf(bronze, c, name, o)
                          = Breaks(CandidateSeries(KnownIn(bronze, o), c, name))
        BY DEF DetectionNoLeakage
    <2>1. o \in Int
        BY SplitType DEF Origins
    <2> QED BY <2>1, CutSeries DEF BreaksAsOf
<1> QED BY <1>1, PTL
-----------------------------------------------------------------------------
(* The best break there is.                                                *)

\* What a method maximises can be compared.
FitIsInt == \A method, series, y : Fit(method, series, y) \in Int

\* Of a non-empty set of years there is a first one of the highest score.
LEMMA FirstBestExists ==
    ASSUME NEW ys \in SUBSET Years, ys # {}, NEW score, \A y \in ys : score[y] \in Int
    PROVE  \E y \in ys : \A z \in ys :
                score[z] <= score[y] /\ (z < y => score[z] < score[y])
<1> DEFINE Better(z, y) == score[z] > score[y] \/ (score[z] = score[y] /\ z < y)
           above(y) == {z \in ys : Better(z, y)}
           counts == {Cardinality(above(y)) : y \in ys}
<1>1. \A y \in ys : above(y) \in SUBSET Years
    OBVIOUS
<1>2. counts \subseteq Nat /\ counts # {}
    <2> HIDE DEF above
    <2> QED BY <1>1, SomeYears
<1>3. PICK n \in counts : \A k \in counts : ~(<<k, n>> \in OpToRel(<, Nat))
    <2> HIDE DEF counts
    <2> QED BY <1>2, NatLessThanWellFounded, WFMin, Zenon
<1>4. \A k \in counts : ~(k < n)
    <2> HIDE DEF counts
    <2> QED BY <1>2, <1>3 DEF OpToRel
<1>5. PICK y \in ys : n = Cardinality(above(y))
    OBVIOUS
<1>6. \A w \in ys : w \in Int /\ score[w] \in Int
    BY YearsAreNat
<1>7. ASSUME NEW z \in ys, Better(z, y)
      PROVE  FALSE
    <2>1. above(z) \subseteq above(y)
        BY <1>6, <1>7
    <2>2. z \in above(y) /\ z \notin above(z)
        BY <1>6, <1>7
    <2>3. /\ Cardinality(above(z)) \in Nat /\ Cardinality(above(y)) \in Nat
          /\ Cardinality(above(z)) < Cardinality(above(y))
        <3> HIDE DEF above
        <3>1. IsFiniteSet(above(y)) /\ Cardinality(above(y)) \in Nat
              /\ Cardinality(above(z)) \in Nat
            BY <1>1, SomeYears
        <3>2. /\ Cardinality(above(z)) <= Cardinality(above(y))
              /\ Cardinality(above(y)) = Cardinality(above(z)) => above(y) = above(z)
            BY <2>1, <3>1, FS_Subset
        <3> QED BY <2>2, <3>1, <3>2
    <2>4. Cardinality(above(z)) \in counts
        OBVIOUS
    <2> QED BY <1>4, <1>5, <2>3, <2>4
<1>8. \A z \in ys : ~Better(z, y)
    BY <1>7
<1> QED BY <1>6, <1>8

LEMMA YearInt ==
    ASSUME NEW ys \in SUBSET Years
    PROVE  \A y \in ys : y \in Int
<1>1. ys \subseteq Nat
    BY YearsAreNat
<1> QED BY <1>1

\* Of a non-empty set of years there is an earliest one.
LEMMA EarliestExists ==
    ASSUME NEW ys \in SUBSET Years, ys # {}
    PROVE  \E y \in ys : \A z \in ys : y <= z
<1>1. ys \subseteq Nat
    BY YearsAreNat
<1>2. PICK y \in ys : \A z \in ys : ~(<<z, y>> \in OpToRel(<, Nat))
    BY <1>1, NatLessThanWellFounded, WFMin, Zenon
<1>3. \A z \in ys : ~(z < y)
    BY <1>1, <1>2 DEF OpToRel
<1>4. \A z \in ys : z \in Nat
    BY <1>1
<1>5. \A z \in ys : y <= z
    BY <1>3, <1>4
<1> QED BY <1>5

\* A series can be cut so that as many values as one likes are after the cut.
LEMMA CutExists ==
    ASSUME NEW series, DOMAIN series \in SUBSET Years,
           NEW k \in Nat, k >= 1, k <= Cardinality(DOMAIN series)
    PROVE  \E y \in DOMAIN series : Cardinality(Since(series, y)) = k
<1> DEFINE short == {y \in DOMAIN series : Cardinality(Since(series, y)) <= k}
<1>1. \A y : /\ Since(series, y) \in SUBSET Years /\ Before(series, y) \in SUBSET Years
             /\ IsFiniteSet(Since(series, y)) /\ Cardinality(Since(series, y)) \in Nat
    BY SomeYears DEF Since, Before
<1>0. \A z \in DOMAIN series : z \in Int
    BY YearInt
<1>2. short # {}
    <2>1. DOMAIN series # {}
        BY FS_EmptySet
    <2>2. /\ Latest(DOMAIN series) \in DOMAIN series
          /\ \A z \in DOMAIN series : z <= Latest(DOMAIN series)
        BY <2>1, LatestIs
    <2>3. Since(series, Latest(DOMAIN series)) = {Latest(DOMAIN series)}
        <3>1. \A z \in DOMAIN series : z >= Latest(DOMAIN series) <=> z = Latest(DOMAIN series)
            BY <1>0, <2>2
        <3> QED BY <2>2, <3>1 DEF Since
    <2>4. Cardinality({Latest(DOMAIN series)}) = 1
        BY FS_Singleton
    <2> QED BY <2>2, <2>3, <2>4
<1>3. PICK y \in short : \A z \in short : y <= z
    BY <1>2, EarliestExists
<1>4. ASSUME Cardinality(Since(series, y)) # k
      PROVE  FALSE
    <2>1. Cardinality(Since(series, y)) < k
        BY <1>1, <1>4
    <2>2. Before(series, y) # {}
        <3>1. ASSUME Before(series, y) = {}
              PROVE  Since(series, y) = DOMAIN series
            <4>1. \A z \in DOMAIN series : ~(z < y) <=> z >= y
                BY <1>0
            <4> QED BY <3>1, <4>1 DEF Before, Since
        <3> QED BY <1>1, <2>1, <3>1
    <2> DEFINE x == Latest(Before(series, y))
    <2>3. x \in Before(series, y) /\ \A z \in Before(series, y) : z <= x
        BY <1>1, <2>2, LatestIs
    <2> HIDE DEF x
    <2>4. /\ Since(series, x) = Since(series, y) \cup {x}
          /\ x \notin Since(series, y)
        <3>1. /\ x \in DOMAIN series /\ x < y
              /\ \A z \in DOMAIN series : z < y => z <= x
            BY <2>3 DEF Before
        <3>2. \A z \in DOMAIN series : z >= x <=> z >= y \/ z = x
            BY <1>0, <3>1
        <3> QED BY <1>0, <3>1, <3>2 DEF Since
    <2>5. Cardinality(Since(series, x)) = Cardinality(Since(series, y)) + 1
        BY <1>1, <2>4, FS_AddElement
    <2>6. x \in short /\ x < y
        BY <1>1, <2>1, <2>3, <2>5 DEF Before
    <2>7. x \in Int /\ y \in Int
        BY <1>0, <2>6
    <2>8. y <= x
        BY <1>3, <2>6
    <2> QED BY <2>6, <2>7, <2>8
<1> QED BY <1>4

\* On the two sides of a year are all the values of a series.
LEMMA TwoSides ==
    ASSUME NEW series, DOMAIN series \in SUBSET Years, NEW y \in DOMAIN series
    PROVE  /\ Cardinality(Before(series, y)) \in Nat
           /\ Cardinality(Since(series, y)) \in Nat
           /\ Cardinality(DOMAIN series)
                = Cardinality(Before(series, y)) + Cardinality(Since(series, y))
<1>1. Before(series, y) \in SUBSET Years /\ Since(series, y) \in SUBSET Years
    BY DEF Before, Since
<1>2. /\ DOMAIN series = Before(series, y) \cup Since(series, y)
      /\ Before(series, y) \cap Since(series, y) = {}
    <2>1. \A z \in DOMAIN series : z \in Int
        BY YearInt
    <2>2. \A z \in DOMAIN series : ~(z < y) <=> z >= y
        BY <2>1
    <2> QED BY <2>2 DEF Before, Since
<1>3. Cardinality(Before(series, y) \cup Since(series, y)) =
        Cardinality(Before(series, y)) + Cardinality(Since(series, y))
            - Cardinality(Before(series, y) \cap Since(series, y))
    BY <1>1, SomeYears, FS_Union
<1> QED BY <1>1, <1>2, <1>3, SomeYears, FS_EmptySet

\* Whatever the method, a break leaves segments of MIN_SEGMENT_LENGTH.
LEMMA BreakLeavesSegments ==
    ASSUME FitIsInt, NEW series, DOMAIN series \in SUBSET Years,
           NEW method, DetectBreak(series, method) # None
    PROVE  DetectBreak(series, method) \in CandidateBreaks(series)
<1> DEFINE y == DetectBreak(series, method)
<1>1. /\ ~Insufficient(series)
      /\ y = IF method = "threshold_baseline" THEN ThresholdBreak(series)
             ELSE StrongestBreak(series, method)
    BY DEF DetectBreak
<1>2. /\ MinSegment \in Nat /\ MinSegment >= 1 /\ MinTotal \in Nat
      /\ 2 * MinSegment <= MinTotal
      /\ Cardinality(DOMAIN series) \in Nat
      /\ Cardinality(DOMAIN series) >= MinTotal
    BY <1>1, DetectionAssumption, SomeYears DEF Insufficient
<1>3. PICK x \in DOMAIN series : Cardinality(Since(series, x)) = MinSegment
    BY <1>2, CutExists
<1>4. \A z \in DOMAIN series :
        Cardinality(Since(series, z)) = MinSegment => z \in CandidateBreaks(series)
    BY <1>2, TwoSides DEF CandidateBreaks
<1>5. CASE method = "threshold_baseline"
    <2>1. /\ ThresholdBreak(series) \in DOMAIN series
          /\ Cardinality(Since(series, ThresholdBreak(series))) = MinSegment
        BY <1>3 DEF ThresholdBreak
    <2> QED BY <1>1, <1>4, <1>5, <2>1
<1>6. CASE method # "threshold_baseline"
    <2>1. CandidateBreaks(series) \in SUBSET Years /\ CandidateBreaks(series) # {}
        BY <1>3, <1>4 DEF CandidateBreaks
    <2> DEFINE score == [z \in CandidateBreaks(series) |-> Fit(method, series, z)]
    <2>2. /\ \A z \in CandidateBreaks(series) : score[z] = Fit(method, series, z)
          /\ \A z \in CandidateBreaks(series) : score[z] \in Int
        BY DEF FitIsInt
    <2> HIDE DEF score
    <2>3. PICK w \in CandidateBreaks(series) : \A z \in CandidateBreaks(series) :
            score[z] <= score[w] /\ (z < w => score[z] < score[w])
        BY <2>1, <2>2, FirstBestExists
    <2>4. StrongestBreak(series, method) \in CandidateBreaks(series)
        BY <2>2, <2>3 DEF StrongestBreak
    <2> QED BY <1>1, <1>6, <2>4
<1> QED BY <1>5, <1>6

LEMMA CandidateYears ==
    ASSUME NEW b, NEW c \in Countries, NEW name \in SeriesNames
    PROVE  DOMAIN CandidateSeries(b, c, name) \in SUBSET Years
<1>1. CASE name = "carbon_intensity_gdp"
    <2>1. CandidateSeries(b, c, name)
            = Restrict(Series(BuildPanel(b), c), Usable(Series(BuildPanel(b), c)))
        BY <1>1 DEF CandidateSeries, Shares
    <2>2. Usable(Series(BuildPanel(b), c)) \in SUBSET Years
        BY DEF Usable, Known, Series
    <2> QED BY <2>1, <2>2 DEF Restrict
<1>2. CASE name \in {"carbon_intensity_log_change", "co2_gdp_decoupling_gap"}
    <2>1. CandidateSeries(b, c, name) = LogChanges(b, c)
        BY <1>2 DEF CandidateSeries, Shares
    <2>2. DOMAIN LogChanges(b, c) \in SUBSET Years
        BY DEF LogChanges, Changes
    <2> QED BY <2>1, <2>2
<1>3. CASE name \in Shares
    <2>1. CandidateSeries(b, c, name) = [y \in Reporting(EnergyRows(b, c), name) |-> name]
        BY <1>3 DEF CandidateSeries, Shares
    <2> QED BY <2>1 DEF Reporting, EnergyRows
<1>4. CASE name = "clean_power_momentum_pp_per_year"
    <2>1. CandidateSeries(b, c, name) = RollingSlope(EnergyRows(b, c))
        BY <1>4 DEF CandidateSeries, Shares
    <2>2. DOMAIN RollingSlope(EnergyRows(b, c)) \in SUBSET Years
        BY DEF RollingSlope, EnergyRows
    <2> QED BY <2>1, <2>2
<1> QED BY <1>1, <1>2, <1>3, <1>4 DEF SeriesNames, Shares

LEMMA SeriesYears ==
    ASSUME NEW b, NEW c \in Countries, NEW name \in SeriesNames, NEW o
    PROVE  DOMAIN UpTo(CandidateSeries(b, c, name), o) \in SUBSET Years
    BY CandidateYears DEF UpTo, Restrict

\* All four methods leave MIN_SEGMENT_LENGTH values on both sides of a break
\* (detect_break), in every state of the lake and whatever they like best.
THEOREM Segments ==
    ASSUME FitIsInt
    PROVE  Spec => []SegmentsLongEnough
<1>1. SegmentsLongEnough
    <2> SUFFICES ASSUME NEW c \in Countries, NEW name \in SeriesNames, NEW o \in Origins,
                        NEW y \in Range(Breaks(UpTo(CandidateSeries(bronze, c, name), o))) \ {None}
                 PROVE  LET series == UpTo(CandidateSeries(bronze, c, name), o)
                        IN  /\ Cardinality(Before(series, y)) >= MinSegment
                            /\ Cardinality(Since(series, y)) >= MinSegment
        BY DEF SegmentsLongEnough
    <2> DEFINE series == UpTo(CandidateSeries(bronze, c, name), o)
    <2>1. DOMAIN series \in SUBSET Years
        BY SeriesYears
    <2>2. PICK m \in BreakMethods : y = DetectBreak(series, m)
        BY DEF Range, Breaks
    <2> HIDE DEF series
    <2>3. y \in CandidateBreaks(series)
        BY <2>1, <2>2, BreakLeavesSegments
    <2> QED BY <2>3 DEF CandidateBreaks, series
<1> QED BY <1>1, PTL

-----------------------------------------------------------------------------
(* Agreement of the four methods.                                          *)

\* There are four of them.
LEMMA FourMethods == IsFiniteSet(BreakMethods) /\ Cardinality(BreakMethods) = 4
<1> DEFINE one   == {"threshold_baseline"}
           two   == one \cup {"rolling_slope_change"}
           three == two \cup {"cusum_stability"}
<1>1. IsFiniteSet(one) /\ Cardinality(one) = 1
    BY FS_Singleton
<1>2. IsFiniteSet(two) /\ Cardinality(two) = 2
    BY <1>1, FS_AddElement
<1>3. IsFiniteSet(three) /\ Cardinality(three) = 3
    BY <1>2, FS_AddElement
<1>4. BreakMethods = three \cup {"segmented_regression"}
    BY DEF BreakMethods
<1>5. "segmented_regression" \notin three
    OBVIOUS
<1> QED BY <1>3, <1>4, <1>5, FS_AddElement

\* An element that is not in a finite set makes it larger by one.
LEMMA OneMore ==
    ASSUME NEW S, NEW x, IsFiniteSet(S), x \notin S
    PROVE  IsFiniteSet(S \cup {x}) /\ Cardinality(S \cup {x}) = Cardinality(S) + 1
    BY FS_AddElement

\* Two elements make a set of two.
LEMMA TwoOf ==
    ASSUME NEW x, NEW y, x # y
    PROVE  IsFiniteSet({x} \cup {y}) /\ Cardinality({x} \cup {y}) = 2
<1> DEFINE R == {x}
<1>1. IsFiniteSet(R) /\ Cardinality(R) = 1
    BY FS_Singleton
<1>2. y \notin R
    OBVIOUS
<1> HIDE DEF R
<1>3. IsFiniteSet(R \cup {y}) /\ Cardinality(R \cup {y}) = 2
    BY <1>1, <1>2, OneMore
<1> QED BY <1>3 DEF R

\* Of three methods or more there are three.
LEMMA ThreeOf ==
    ASSUME NEW S, IsFiniteSet(S), Cardinality(S) >= 3
    PROVE  \E T \in kSubset(3, S) : TRUE
<1>1. PICK x : x \in S
    BY FS_EmptySet
<1>2. IsFiniteSet(S \ {x}) /\ Cardinality(S \ {x}) >= 2
    BY <1>1, FS_RemoveElement, FS_CardinalityType
<1>3. PICK y : y \in S \ {x}
    BY <1>2, FS_EmptySet
<1>4. IsFiniteSet((S \ {x}) \ {y}) /\ Cardinality((S \ {x}) \ {y}) >= 1
    <2> DEFINE R == S \ {x}
    <2>1. IsFiniteSet(R) /\ Cardinality(R) >= 2 /\ Cardinality(R) \in Nat /\ y \in R
        BY <1>2, <1>3, FS_CardinalityType
    <2> HIDE DEF R
    <2>2. IsFiniteSet(R \ {y}) /\ Cardinality(R \ {y}) = Cardinality(R) - 1
        BY <2>1, FS_RemoveElement
    <2> QED BY <2>1, <2>2 DEF R
<1>5. PICK z : z \in (S \ {x}) \ {y}
    BY <1>4, FS_EmptySet
<1>6. IsFiniteSet({x} \cup {y}) /\ Cardinality({x} \cup {y}) = 2
    BY <1>3, TwoOf
<1>7. Cardinality(({x} \cup {y}) \cup {z}) = 3
    <2> DEFINE R == {x} \cup {y}
    <2>1. IsFiniteSet(R) /\ Cardinality(R) = 2 /\ z \notin R
        BY <1>5, <1>6
    <2> HIDE DEF R
    <2>2. Cardinality(R \cup {z}) = 3
        BY <2>1, OneMore
    <2> QED BY <2>2 DEF R
<1>8. ({x} \cup {y}) \cup {z} \in SUBSET S
    BY <1>1, <1>3, <1>5
<1> QED BY <1>7, <1>8 DEF kSubset

\* What four methods may say of a series.
Verdicts == [BreakMethods -> Years \cup {None}]

LEMMA SomeMethods ==
    ASSUME NEW S \in SUBSET BreakMethods
    PROVE  IsFiniteSet(S) /\ Cardinality(S) \in Nat
    BY FourMethods, FS_Subset, FS_CardinalityType

\* The commonest year is one of a method, and no year is commoner.
LEMMA ModalYearIs ==
    ASSUME NEW breaks \in Verdicts, Detecting(breaks) # {}
    PROVE  LET mode == ModalBreakYear(breaks)
           IN  /\ mode \in Years
               /\ \E m \in Detecting(breaks) : breaks[m] = mode
               /\ \A m \in Detecting(breaks) :
                    Cardinality(Votes(breaks, breaks[m])) <= Cardinality(Votes(breaks, mode))
<1> DEFINE ys == {breaks[m] : m \in Detecting(breaks)}
           score == [y \in ys |-> Cardinality(Votes(breaks, y))]
<1>1. ys \in SUBSET Years /\ ys # {}
    BY DEF Verdicts, Detecting
<1>2. /\ \A y \in ys : score[y] = Cardinality(Votes(breaks, y))
      /\ \A y \in ys : score[y] \in Int
    <2>1. \A y : Votes(breaks, y) \in SUBSET BreakMethods
        BY DEF Verdicts, Votes
    <2> QED BY <2>1, SomeMethods
<1> HIDE DEF score
<1>3. PICK y \in ys : \A z \in ys : score[z] <= score[y] /\ (z < y => score[z] < score[y])
    <2> HIDE DEF ys
    <2> QED BY <1>1, <1>2, FirstBestExists
<1>4. /\ ModalBreakYear(breaks) \in ys
      /\ \A z \in ys :
            Cardinality(Votes(breaks, z)) <= Cardinality(Votes(breaks, ModalBreakYear(breaks)))
    <2>1. \A z \in ys :
            /\ Cardinality(Votes(breaks, z)) <= Cardinality(Votes(breaks, y))
            /\ z < y => Cardinality(Votes(breaks, z)) < Cardinality(Votes(breaks, y))
        BY <1>2, <1>3
    <2> QED BY <2>1 DEF ModalBreakYear
<1> QED BY <1>1, <1>4

\* Two of three methods that find breaks in two successive years find it in the
\* same year, and the fourth alone cannot make another year the commonest.
LEMMA CloseIsRobust ==
    ASSUME NEW breaks \in Verdicts, WithinYears(breaks, Tolerance)
    PROVE  Robust(breaks)
<1>1. PICK T \in SUBSET Detecting(breaks) :
            /\ Cardinality(T) = 3
            /\ \A l, m \in T : breaks[l] - breaks[m] <= 1
    BY DEF WithinYears, kSubset, Tolerance
<1>2. /\ Detecting(breaks) \in SUBSET BreakMethods /\ T \in SUBSET BreakMethods
      /\ \A m \in Detecting(breaks) : breaks[m] \in Years
    BY DEF Detecting, Verdicts
<1>3. T # {} /\ Detecting(breaks) # {}
    BY <1>1, FS_EmptySet
<1> DEFINE ys == {breaks[m] : m \in T}
<1>4. PICK y \in ys : \A z \in ys : y <= z
    <2>1. ys \in SUBSET Years /\ ys # {}
        BY <1>2, <1>3
    <2> HIDE DEF ys
    <2> QED BY <2>1, EarliestExists
<1>5. y \in Int /\ \A m \in T : breaks[m] \in {y, y + 1}
    <2>1. PICK k \in T : y = breaks[k]
        OBVIOUS
    <2>2. \A m \in T : breaks[m] \in Nat
        BY <1>1, <1>2, YearsAreNat
    <2>3. y \in Int /\ \A m \in T : breaks[m] \in Int /\ y <= breaks[m]
        BY <1>4, <2>1, <2>2
    <2>4. \A m \in T : breaks[m] - y <= 1
        BY <1>1, <2>1
    <2> QED BY <2>3, <2>4
<1>6. PICK l \in T, m \in T : l # m /\ breaks[l] = breaks[m]
    <2>1. IsFiniteSet({y, y + 1}) /\ Cardinality({y, y + 1}) = 2
        <3>1. PICK z : z = y + 1 /\ z # y
            BY <1>5
        <3>2. IsFiniteSet({y} \cup {z}) /\ Cardinality({y} \cup {z}) = 2
            BY <3>1, TwoOf
        <3>3. {y, y + 1} = {y} \cup {z}
            BY <3>1
        <3> QED BY <3>2, <3>3
    <2> DEFINE f == [k \in T |-> breaks[k]]
    <2>2. f \in [T -> {y, y + 1}]
        BY <1>5
    <2>3. IsFiniteSet(T) /\ Cardinality({y, y + 1}) < Cardinality(T)
        BY <1>1, <1>2, <2>1, SomeMethods
    <2> HIDE DEF f
    <2>4. \E i, k \in T : i # k /\ f[i] = f[k]
        BY <2>1, <2>2, <2>3, FS_PigeonHole
    <2> QED BY <2>4 DEF f
<1> DEFINE mode == ModalBreakYear(breaks)
<1>7. /\ mode \in Years
      /\ Cardinality(Votes(breaks, breaks[l])) <= Cardinality(Votes(breaks, mode))
    BY <1>1, <1>3, ModalYearIs
<1> HIDE DEF mode
<1>8. \A z : Votes(breaks, z) \in SUBSET BreakMethods
    BY DEF Votes, Verdicts
<1>9. Cardinality(Votes(breaks, mode)) >= 2
    <2>1. IsFiniteSet({l} \cup {m}) /\ Cardinality({l} \cup {m}) = 2
        BY <1>6, TwoOf
    <2>2. {l} \cup {m} \in SUBSET Votes(breaks, breaks[l])
        BY <1>1, <1>2, <1>6 DEF Votes, Verdicts
    <2>3. IsFiniteSet(Votes(breaks, breaks[l])) /\ Cardinality(Votes(breaks, breaks[l])) \in Nat
          /\ Cardinality(Votes(breaks, mode)) \in Nat
        BY <1>8, SomeMethods
    <2>4. Cardinality({l} \cup {m}) <= Cardinality(Votes(breaks, breaks[l]))
        BY <2>2, <2>3, FS_Subset
    <2> QED BY <1>7, <2>1, <2>3, <2>4
<1>10. mode \in {y, y + 1}
    <2> SUFFICES ASSUME mode \notin {y, y + 1} PROVE FALSE
        OBVIOUS
    <2>1. Votes(breaks, mode) \in SUBSET (BreakMethods \ T)
        BY <1>5, <1>8 DEF Votes
    <2>2. /\ IsFiniteSet(BreakMethods \ T)
          /\ Cardinality(BreakMethods \ T) = 4 - Cardinality(BreakMethods \cap T)
        BY FourMethods, FS_Difference
    <2>3. BreakMethods \cap T = T
        BY <1>2
    <2>4. Cardinality(Votes(breaks, mode)) <= 1
        <3>1. Cardinality(Votes(breaks, mode)) <= Cardinality(BreakMethods \ T)
            BY <2>1, <2>2, FS_Subset
        <3> QED BY <1>1, <2>2, <2>3, <3>1
    <2>5. Cardinality(Votes(breaks, mode)) \in Nat
        BY <1>8, SomeMethods
    <2> QED BY <1>9, <2>4, <2>5
<1>11. T \in SUBSET Agreeing(breaks)
    <2>1. \A k \in T : breaks[k] \in (mode - 1)..(mode + 1)
        BY <1>5, <1>10
    <2> QED BY <1>1, <2>1 DEF Agreeing, Tolerance, mode
<1>12. Cardinality(Detecting(breaks)) >= 3
    <2>1. Cardinality(T) <= Cardinality(Detecting(breaks))
        BY <1>1, <1>2, SomeMethods, FS_Subset
    <2> QED BY <1>1, <2>1
<1>13. Cardinality(Agreeing(breaks)) >= 3
    <2>1. Agreeing(breaks) \in SUBSET BreakMethods
        BY <1>2 DEF Agreeing
    <2>2. Cardinality(T) <= Cardinality(Agreeing(breaks))
        BY <1>11, <2>1, SomeMethods, FS_Subset
    <2> QED BY <1>1, <2>2
<1> QED BY <1>12, <1>13 DEF Robust

\* Methods that agree with the commonest year agree among themselves.
LEMMA RobustIsClose ==
    ASSUME NEW breaks \in Verdicts, Robust(breaks)
    PROVE  WithinYears(breaks, 2 * Tolerance)
<1>1. /\ Agreeing(breaks) \in SUBSET BreakMethods
      /\ Agreeing(breaks) \in SUBSET Detecting(breaks)
      /\ \A m \in Detecting(breaks) : breaks[m] \in Years
    BY DEF Agreeing, Detecting, Verdicts
<1>2. PICK T \in kSubset(3, Agreeing(breaks)) : TRUE
    BY <1>1, SomeMethods, ThreeOf DEF Robust
<1>3. T \in kSubset(3, Detecting(breaks)) /\ T \in SUBSET Agreeing(breaks)
    BY <1>1, <1>2 DEF kSubset
<1> DEFINE mode == ModalBreakYear(breaks)
<1>4. Detecting(breaks) # {}
    BY FS_EmptySet DEF Robust
<1>5. mode \in Int
    <2>1. mode \in Years
        BY <1>4, ModalYearIs
    <2> HIDE DEF mode
    <2> QED BY <2>1, YearsAreNat
<1> HIDE DEF mode
<1>6. \A m \in T : breaks[m] \in (mode - 1)..(mode + 1)
    BY <1>3 DEF Agreeing, Tolerance, mode
<1>7. \A l, m \in T : breaks[l] - breaks[m] <= 2
    BY <1>5, <1>6
<1> QED BY <1>3, <1>7 DEF WithinYears, Tolerance

\* Whatever the fourth method finds, and whatever the thresholds of the four
\* are, three that find breaks in successive years are called robust, and three
\* that are called robust are within two years (method_agreement).
THEOREM SoundAgreement ==
    ASSUME FitIsInt
    PROVE  Spec => []AgreementIsSound
<1>1. AgreementIsSound
    <2> SUFFICES ASSUME NEW c \in Countries, NEW name \in SeriesNames
                 PROVE  LET breaks == Breaks(CandidateSeries(bronze, c, name))
                        IN  /\ WithinYears(breaks, Tolerance) => Robust(breaks)
                            /\ Robust(breaks) => WithinYears(breaks, 2 * Tolerance)
        BY DEF AgreementIsSound
    <2> DEFINE series == CandidateSeries(bronze, c, name)
    <2>1. DOMAIN series \in SUBSET Years
        BY CandidateYears
    <2> HIDE DEF series
    <2>2. \A m \in BreakMethods : DetectBreak(series, m) \in Years \cup {None}
        BY <2>1, BreakLeavesSegments DEF CandidateBreaks
    <2>3. Breaks(series) \in Verdicts
        BY <2>2 DEF Breaks, Verdicts
    <2> QED BY <2>3, CloseIsRobust, RobustIsClose DEF series
<1> QED BY <1>1, PTL

-----------------------------------------------------------------------------
(* The regime of an origin.                                                *)

\* A regime that is active has MIN_POST_BREAK_OBSERVATIONS levels of its own
\* (regime_activation counts rows), in every state of the lake.
THEOREM ActiveIsObserved ==
    ASSUME FitIsInt
    PROVE  Spec => []ActiveHasObservations
<1>1. ActiveHasObservations
    <2> SUFFICES ASSUME NEW c \in Countries, NEW s \in Splits,
                        RegimeAt(bronze, c, s) # NoRegime
                 PROVE  LET h == History(BuildPanel(bronze), c, s)
                        IN  Cardinality(Since(Restrict(h, Usable(h)),
                                              RegimeAt(bronze, c, s).year)) >= MinPostBreak
        BY DEF ActiveHasObservations, Active
    <2> DEFINE h      == History(BuildPanel(bronze), c, s)
               levels == Restrict(h, Usable(h))
               y      == DetectBreak(levels, "segmented_regression")
    <2>1. y # None /\ RegimeAt(bronze, c, s).year = y
        BY DEF RegimeAt, Regime
    <2>2. DOMAIN levels \in SUBSET Years
        BY HistoryUsable DEF Restrict
    <2> HIDE DEF levels
    <2>3. y \in CandidateBreaks(levels)
        BY <2>1, <2>2, BreakLeavesSegments
    <2>4. Cardinality(Since(levels, y)) \in Nat /\ Cardinality(Since(levels, y)) >= MinSegment
        BY <2>2, <2>3, TwoSides DEF CandidateBreaks
    <2>5. Cardinality(Since(levels, y)) >= MinPostBreak
        BY <2>4, RegimesAssumption, DetectionAssumption
    <2> QED BY <2>1, <2>5 DEF levels
<1> QED BY <1>1, PTL
-----------------------------------------------------------------------------
(* What the methods of phase 3 are compared on.                            *)

LEMMA WeightedIf ==
    ASSUME NoneIsNoRecord, NEW h, NEW target, Cardinality(Usable(h)) \in Nat
    PROVE  \A rows, weights :
             Weighted(h, rows, target, weights) # None <=> LongEnough(h, target)
    BY DEF NoneIsNoRecord, Weighted, LongEnough, MinLevels

\* Where the levels since a break are enough for a bootstrap, all of them are.
LEMMA LongerIsEnough ==
    ASSUME NoneIsNoRecord, NEW h, Usable(h) \in SUBSET Years, NEW from \in Int, NEW target,
           Bootstrap(Restrict(h, {y \in DOMAIN h : y >= from}), target) # None
    PROVE  LongEnough(h, target)
<1> DEFINE part == Restrict(h, {y \in DOMAIN h : y >= from})
<1>1. Usable(part) = {y \in Usable(h) : y >= from}
    BY DEF Usable, Known, Restrict
<1> HIDE DEF part
<1>2. /\ IsFiniteSet(Usable(h)) /\ Cardinality(Usable(h)) \in Nat
      /\ Usable(part) \in SUBSET Years /\ Cardinality(Usable(part)) \in Nat
      /\ Cardinality(Usable(part)) <= Cardinality(Usable(h))
    BY <1>1, SomeYears, FS_Subset
<1>3. LongEnough(part, target)
    BY <1>2, ForecastIf DEF part
<1>4. /\ Cardinality(Usable(part)) >= 6 /\ Cardinality(Usable(h)) >= 6
      /\ Cardinality(Usable(part)) >= 1 /\ Cardinality(Usable(h)) >= 1
    BY <1>2, <1>3 DEF LongEnough, MinLevels
<1>5. /\ Latest(Usable(part)) \in Usable(part)
      /\ Latest(Usable(h)) \in Usable(h)
      /\ \A z \in Usable(part) : z <= Latest(Usable(part))
      /\ \A z \in Usable(h) : z <= Latest(Usable(h))
    BY <1>2, <1>4, Counted, LatestIs
<1>6. Latest(Usable(h)) = Latest(Usable(part))
    <2>1. /\ Latest(Usable(part)) >= from
          /\ Latest(Usable(part)) <= Latest(Usable(h))
          /\ Latest(Usable(part)) \in Int /\ Latest(Usable(h)) \in Int
        BY <1>1, <1>2, <1>5, YearInt
    <2>2. Latest(Usable(h)) \in Usable(part)
        BY <1>1, <1>5, <2>1
    <2> QED BY <1>5, <2>1, <2>2
<1> QED BY <1>3, <1>4, <1>6 DEF LongEnough, MinLevels

LEMMA RegimeYear ==
    ASSUME FitIsInt, NEW b, NEW c, NEW s, RegimeAt(b, c, s) # NoRegime
    PROVE  RegimeAt(b, c, s).year \in Int
<1> DEFINE h      == History(BuildPanel(b), c, s)
           levels == Restrict(h, Usable(h))
           y      == DetectBreak(levels, "segmented_regression")
<1>1. y # None /\ RegimeAt(b, c, s).year = y
    BY DEF RegimeAt, Regime
<1>2. DOMAIN levels \in SUBSET Years
    BY HistoryUsable DEF Restrict
<1> HIDE DEF levels
<1>3. y \in DOMAIN levels
    BY <1>1, <1>2, BreakLeavesSegments DEF CandidateBreaks
<1> QED BY <1>1, <1>2, <1>3, YearInt

LEMMA Phase3ForecastIf ==
    ASSUME NoneIsNoRecord, FitIsInt, NEW b, NEW c, NEW s
    PROVE  /\ \A m \in Phase3Bootstraps :
                Phase3Forecasts(b, c, s)[m] # None
                  <=> LongEnough(History(BuildPanel(b), c, s), s[2])
           /\ LongEnough(History(BuildPanel(b), c, s), s[2])
                => Phase3Forecasts(b, c, s)["deterministic_trend"] # None
<1> DEFINE h      == History(BuildPanel(b), c, s)
           rows   == HistoryRows(b, c, s)
           regime == RegimeAt(b, c, s)
           active == Active(h, rows, regime)
           f      == Phase3Forecasts(b, c, s)
           byConfidence == Weighted(h, rows, s[2], RegimeWeights(rows, regime, "confidence"))
           enough == LongEnough(h, s[2])
<1>1. Usable(h) \in SUBSET Years /\ Cardinality(Usable(h)) \in Nat
    BY HistoryUsable
<1>2. /\ f.deterministic_trend = Trend(h, s[2])
      /\ f.empirical_bootstrap = Bootstrap(h, s[2])
      /\ f.recency_weighted_bootstrap = Weighted(h, rows, s[2], RecencyWeights(rows))
      /\ f.current_regime_only = CurrentRegimeOnly(h, active, regime, s[2])
      /\ f.regime_weighted_bootstrap
           = Weighted(h, rows, s[2], RegimeWeights(rows, regime, "multiplier"))
      /\ f.break_confidence_weighted_bootstrap = byConfidence
      /\ f.conditional_regime_weighted_bootstrap
           = IF active THEN byConfidence ELSE Bootstrap(h, s[2])
    BY DEF Phase3Forecasts
<1>3. active => regime.year \in Int
    BY RegimeYear DEF Active
<1> HIDE DEF h, rows, regime, f
<1>4. /\ Bootstrap(h, s[2]) # None <=> enough
      /\ enough => Trend(h, s[2]) # None
      /\ \A weights : Weighted(h, rows, s[2], weights) # None <=> enough
    BY <1>1, ForecastIf, WeightedIf
<1>5. f.current_regime_only # None <=> enough
    <2> DEFINE current == Bootstrap(Restrict(h, {y \in DOMAIN h : y >= regime.year}), s[2])
    <2>1. active /\ current # None => enough
        BY <1>1, <1>3, LongerIsEnough
    <2>2. f.current_regime_only = IF active /\ current # None THEN current ELSE Bootstrap(h, s[2])
        BY <1>2 DEF CurrentRegimeOnly
    <2> HIDE DEF current, active
    <2> QED BY <1>4, <2>1, <2>2
<1> HIDE DEF active, enough
<1>6. \A m \in Phase3Bootstraps : f[m] # None <=> enough
    BY <1>2, <1>4, <1>5 DEF Phase3Bootstraps
<1> QED BY <1>2, <1>4, <1>6 DEF f, h, enough

\* The mean errors that the gates of phase 3 compare (phase3_decision) are means
\* over the same country-splits, in every state of the lake.
THEOREM GatedOnSameSplits ==
    ASSUME NoneIsNoRecord, FitIsInt
    PROVE  Spec => []RegimesComparable
<1>1. RegimesComparable
    <2>1. ASSUME NEW m \in Phase3Bootstraps
          PROVE  EvaluatedInPhase3(bronze, m) = EvaluatedInPhase3(bronze, "empirical_bootstrap")
        <3>1. \A e : Phase3Forecasts(bronze, e[1], e[2])[m] # None
                     <=> Phase3Forecasts(bronze, e[1], e[2])["empirical_bootstrap"] # None
            BY Phase3ForecastIf DEF Phase3Bootstraps
        <3> QED BY <3>1 DEF EvaluatedInPhase3
    <2>2. EvaluatedInPhase3(bronze, "empirical_bootstrap")
            \subseteq EvaluatedInPhase3(bronze, "deterministic_trend")
        <3>1. \A e : Phase3Forecasts(bronze, e[1], e[2])["empirical_bootstrap"] # None
                     => Phase3Forecasts(bronze, e[1], e[2])["deterministic_trend"] # None
            BY Phase3ForecastIf DEF Phase3Bootstraps
        <3> QED BY <3>1 DEF EvaluatedInPhase3
    <2> QED BY <2>1, <2>2 DEF RegimesComparable
<1> QED BY <1>1, PTL

\* In a history with a level in every row from the first level on, each change
\* has the weight of its own year (_weighted_bootstrap_result), in every state
\* of the lake.
THEOREM ControlIsCanonical ==
    ASSUME NoneIsNoRecord
    PROVE  Spec => []RecencyControlIsCanonical
<1>1. RecencyControlIsCanonical
    <2> SUFFICES ASSUME NEW c \in Countries, NEW s \in Splits,
                        Phase3Forecasts(bronze, c, s).recency_weighted_bootstrap # None,
                        \A r \in HistoryRows(bronze, c, s) :
                            \/ r \in Usable(History(BuildPanel(bronze), c, s))
                            \/ \A y \in Usable(History(BuildPanel(bronze), c, s)) : r < y
                 PROVE  LET h       == History(BuildPanel(bronze), c, s)
                            control == Phase3Forecasts(bronze, c, s).recency_weighted_bootstrap
                        IN  /\ RecencyForecast(h, s[2], Candidate("canonical_recency")) # None
                            /\ \A y \in DOMAIN control.weights :
                                 control.weights[y] = Latest(Usable(h)) - y
        BY DEF RecencyControlIsCanonical
    <2> DEFINE h       == History(BuildPanel(bronze), c, s)
               rows    == HistoryRows(bronze, c, s)
               ys      == Usable(h)
               control == Phase3Forecasts(bronze, c, s).recency_weighted_bootstrap
               weights == RecencyWeights(rows)
    <2>1. control = Weighted(h, rows, s[2], weights)
        BY DEF Phase3Forecasts
    <2>2. ys \in SUBSET Years /\ Cardinality(ys) \in Nat /\ rows \in SUBSET Years
        BY HistoryUsable DEF HistoryRows
    <2>3. ys \subseteq rows
        <3>1. \A y \in ys : /\ y \in Years /\ y <= s[1]
                            /\ Series(BuildPanel(bronze), c)[y] # None
            BY DEF Usable, Known, History, Restrict, Series
        <3>2. \A y \in Years : Series(BuildPanel(bronze), c)[y] # None => HasRow(bronze, c, y)
            <4> SUFFICES ASSUME NEW y \in Years,
                                Series(BuildPanel(bronze), c)[y] # None
                         PROVE  HasRow(bronze, c, y)
                OBVIOUS
            <4>1. Intensity(bronze[c][y]) # None
                BY DEF Series, BuildPanel
            <4>2. ASSUME [bronze[c][y] EXCEPT !.energy = None] = NoData
                  PROVE  bronze[c][y].real_gdp = FALSE
                <5>1. [bronze[c][y] EXCEPT !.energy = None].real_gdp = FALSE
                    BY <4>2 DEF NoData
                <5> QED BY <5>1
            <4> QED BY <4>1, <4>2 DEF HasRow, Intensity
        <3> QED BY <3>1, <3>2 DEF HistoryRows
    <2>4. \A r \in rows : r \in ys \/ \A y \in ys : r < y
        OBVIOUS
    <2>0. control # None
        OBVIOUS
    <2> HIDE DEF h, rows, control
    <2>5. LongEnough(h, s[2])
        BY <2>0, <2>1, <2>2, WeightedIf
    <2>6. control.weights = [y \in Changes(ys) |-> weights[WeightRow(rows, ys, y)]]
        BY <2>1, <2>2, <2>5 DEF Weighted, LongEnough, MinLevels
    <2>7. Latest(ys) \in ys /\ \A z \in ys : z <= Latest(ys)
        <3>1. ys # {}
            BY <2>2, <2>5, Counted DEF LongEnough, MinLevels
        <3> QED BY <2>2, <3>1, LatestIs
    <2>8. \A r \in rows : r \in Int
        BY <2>2, YearInt
    <2>9. Latest(rows) = Latest(ys)
        <3>1. Latest(rows) \in rows /\ \A r \in rows : r <= Latest(rows)
            BY <2>2, <2>3, <2>7, LatestIs
        <3>2. /\ Latest(rows) \in Int /\ Latest(ys) \in Int
              /\ Latest(ys) <= Latest(rows)
            BY <2>3, <2>7, <2>8, <3>1
        <3>3. Latest(rows) \in ys \/ Latest(rows) < Latest(ys)
            BY <2>4, <2>7, <3>1
        <3>4. Latest(rows) \in ys => Latest(rows) <= Latest(ys)
            BY <2>7
        <3> QED BY <3>2, <3>3, <3>4
    <2>10. ASSUME NEW y \in Changes(ys)
           PROVE  WeightRow(rows, ys, y) = y
        <3> DEFINE after(x) == {q \in rows : q > x}
        <3>1. y \in ys /\ y \in rows /\ y \in Int
            BY <2>3, <2>8 DEF Changes
        <3>2. \A r \in rows : r > y => r \in ys
            BY <2>4, <2>8, <3>1
        <3>3. after(y) = {q \in ys : q > y}
            BY <2>3, <3>2
        <3>4. ASSUME NEW r \in rows, Cardinality(after(r)) = Cardinality(after(y)), r # y
              PROVE  FALSE
            <4>1. \A x \in rows : /\ after(x) \in SUBSET Years /\ IsFiniteSet(after(x))
                                  /\ Cardinality(after(x)) \in Nat
                BY <2>2, SomeYears
            <4>2. CASE r < y
                <5>0. y > r /\ ~(y > y) /\ \A q \in rows : q > y => q > r
                    BY <2>8, <3>1, <4>2
                <5>1. after(y) \subseteq after(r) /\ y \in after(r) /\ y \notin after(y)
                    BY <3>1, <5>0, Zenon
                <5> HIDE DEF after
                <5> QED BY <3>1, <3>4, <4>1, <5>1, FS_Subset
            <4>3. CASE y < r
                <5>0. r > y /\ ~(r > r) /\ \A q \in rows : q > r => q > y
                    BY <2>8, <3>1, <4>3
                <5>1. after(r) \subseteq after(y) /\ r \in after(y) /\ r \notin after(r)
                    BY <5>0, Zenon
                <5> HIDE DEF after
                <5> QED BY <3>1, <3>4, <4>1, <5>1, FS_Subset
            <4> QED BY <2>8, <3>1, <3>4, <4>2, <4>3
        <3>5. WeightRow(rows, ys, y) =
                CHOOSE r \in rows : Cardinality(after(r)) = Cardinality({q \in ys : q > y})
            BY DEF WeightRow
        <3> HIDE DEF after
        <3> QED BY <3>1, <3>3, <3>4, <3>5
    <2>11. ASSUME NEW y \in DOMAIN control.weights
           PROVE  control.weights[y] = Latest(ys) - y
        <3>1. y \in Changes(ys) /\ y \in rows
            BY <2>3, <2>6 DEF Changes
        <3>2. weights[y] = Latest(rows) - y
            BY <3>1 DEF RecencyWeights
        <3> HIDE DEF weights
        <3> QED BY <2>6, <2>9, <2>10, <3>1, <3>2
    <2>12. RecencyForecast(h, s[2], Candidate("canonical_recency")) # None
        BY <2>2, <2>5, ForecastIf
    <2> QED BY <2>11, <2>12 DEF h, control
<1> QED BY <1>1, PTL
-----------------------------------------------------------------------------
(* The two momenta.                                                        *)

\* Five shares in a row are the last five.
LEMMA LastFive ==
    ASSUME NEW rows, DOMAIN rows \in SUBSET Years, NEW share, NEW y \in DOMAIN rows,
           (y - RecentWindow + 1)..y \subseteq Reporting(rows, share)
    PROVE  LastValues(rows, share, y) = (y - RecentWindow + 1)..y
<1> DEFINE ys == {z \in Reporting(rows, share) : z <= y}
           after(z) == {w \in ys : w > z}
           five == (y - 4)..y
<1>1. y \in Int /\ \A z \in ys : z \in Int
    BY YearInt DEF Reporting
<1>2. five \subseteq ys /\ (y - RecentWindow + 1)..y = five
    BY <1>1 DEF RecentWindow
<1>3. ys \in SUBSET Years
    BY DEF Reporting
<1> HIDE DEF ys
<1>4. ASSUME NEW z \in five
      PROVE  Cardinality(after(z)) < 5
    <2>1. z \in Int /\ z + 1 \in Int /\ z <= y /\ z >= y - 4
        BY <1>1
    <2>2. after(z) = (z + 1)..y
        <3>1. \A w \in ys : w \in Int /\ w <= y
            BY <1>1 DEF ys
        <3>2. \A w \in (z + 1)..y : w \in five /\ w > z
            BY <1>1, <2>1
        <3>3. \A w \in ys : w > z => w \in (z + 1)..y
            BY <1>1, <2>1, <3>1
        <3>4. after(z) \subseteq (z + 1)..y
            BY <3>3
        <3>5. (z + 1)..y \subseteq after(z)
            BY <1>2, <3>2
        <3> QED BY <3>4, <3>5
    <2>3. Cardinality((z + 1)..y) = IF z + 1 > y THEN 0 ELSE y - (z + 1) + 1
        BY <1>1, <2>1, FS_Interval
    <2> HIDE DEF after, five
    <2>4. y - (z + 1) + 1 < 5 /\ 0 < 5
        BY <1>1, <2>1
    <2> QED BY <2>2, <2>3, <2>4
<1>5. ASSUME NEW z \in ys, z \notin five
      PROVE  ~(Cardinality(after(z)) < 5)
    <2>1. z \in Int /\ z < y - 4
        <3>1. z \in Int /\ z <= y
            BY <1>1, <1>5 DEF ys
        <3> QED BY <1>1, <1>5, <3>1
    <2>2. \A w \in five : w \in ys /\ w > z
        BY <1>1, <1>2, <2>1
    <2>3. five \subseteq after(z)
        BY <2>2
    <2>4. Cardinality(five) = 5
        <3>1. Cardinality(five) = IF y - 4 > y THEN 0 ELSE y - (y - 4) + 1
            BY <1>1, FS_Interval
        <3> QED BY <1>1, <3>1
    <2>5. /\ after(z) \in SUBSET Years
          /\ IsFiniteSet(after(z)) /\ Cardinality(after(z)) \in Nat
        BY <1>3, SomeYears
    <2> HIDE DEF after, five
    <2> QED BY <2>3, <2>4, <2>5, FS_Subset
<1>6. LastValues(rows, share, y) = {z \in ys : Cardinality(after(z)) < 5}
    BY DEF LastValues, ys, RecentWindow
<1> HIDE DEF after, five
<1> QED BY <1>2, <1>4, <1>5, <1>6

\* Where there are five shares in a row, the momentum of the candidate series
\* (_rolling_slope) and that of the scored features (_trailing_slope_pp_per_year)
\* are the slope of the same values, in every state of the lake.
THEOREM OneMomentum == Spec => []MomentumIsAnalogue
<1>1. MomentumIsAnalogue
    <2> SUFFICES ASSUME NEW c \in Countries,
                        NEW y \in DOMAIN EnergyRows(bronze, c),
                        (y - RecentWindow + 1)..y
                          \subseteq Reporting(EnergyRows(bronze, c), "low_carbon_share_elec")
                 PROVE  LET rows   == EnergyRows(bronze, c)
                            series == CandidateSeries(bronze, c, "clean_power_momentum_pp_per_year")
                        IN  /\ y \in DOMAIN series
                            /\ series[y] = EnergyFeatures(UpTo(rows, y), TrailingWindow).momentum
        BY DEF MomentumIsAnalogue
    <2> DEFINE low    == "low_carbon_share_elec"
               rows   == EnergyRows(bronze, c)
               series == CandidateSeries(bronze, c, "clean_power_momentum_pp_per_year")
               five   == (y - RecentWindow + 1)..y
               cut    == UpTo(rows, y)
    <2>1. DOMAIN rows \in SUBSET Years /\ y \in DOMAIN rows
        BY DEF EnergyRows
    <2>2. series = RollingSlope(rows)
        BY DEF CandidateSeries, Shares
    <2>3. five \subseteq Reporting(rows, low)
        OBVIOUS
    <2> HIDE DEF rows, series
    <2>4. y \in Int /\ five = (y - 4)..y
        BY <2>1, YearInt DEF RecentWindow
    <2>5. IsFiniteSet(five) /\ Cardinality(five) = 5
        <3>1. /\ IsFiniteSet((y - 4)..y)
              /\ Cardinality((y - 4)..y) = IF y - 4 > y THEN 0 ELSE y - (y - 4) + 1
            BY <2>4, FS_Interval
        <3> QED BY <2>4, <3>1
    <2>6. LastValues(rows, low, y) = five
        BY <2>1, <2>3, LastFive
    <2>7. y \in DOMAIN series /\ series[y] = five
        <3>1. Cardinality(five) >= MinSegment
            BY <2>5, DetectionAssumption DEF RecentWindow
        <3> HIDE DEF five
        <3> QED BY <2>1, <2>2, <2>6, <3>1 DEF RollingSlope
    <2>8. /\ DOMAIN cut \in SUBSET Years
          /\ \A z \in DOMAIN cut : z \in Int /\ z <= y
          /\ five \subseteq Reporting(cut, low)
          /\ Reporting(cut, low) \in SUBSET Years
        <3>1. DOMAIN cut = {z \in DOMAIN rows : z <= y} /\ \A z \in DOMAIN cut : cut[z] = rows[z]
            BY DEF UpTo, Restrict
        <3>2. \A z \in five : z <= y
            BY <2>4
        <3> HIDE DEF cut, five
        <3>3. \A z \in five : z \in DOMAIN rows /\ low \in rows[z]
            BY <2>3 DEF Reporting
        <3> QED BY <2>1, <3>1, <3>2, <3>3, YearInt DEF Reporting
    <2> HIDE DEF cut
    <2>9. y \in Reporting(cut, low)
        <3>1. y \in five
            <4>1. y \in (y - 4)..y
                BY <2>4
            <4> HIDE DEF five
            <4> QED BY <2>4, <4>1
        <3> HIDE DEF five
        <3> QED BY <2>8, <3>1
    <2>10. Latest(Reporting(cut, low)) = y
        <3>1. Latest(Reporting(cut, low)) \in Reporting(cut, low)
              /\ y <= Latest(Reporting(cut, low))
            BY <2>8, <2>9, LatestIs
        <3>2. Latest(Reporting(cut, low)) \in Int /\ Latest(Reporting(cut, low)) <= y
            BY <2>8, <3>1 DEF Reporting
        <3> QED BY <2>4, <3>1, <3>2
    <2>11. Window(Reporting(cut, low), y, 5) = five
        <3>1. \A z \in Reporting(cut, low) : z \in Int /\ z <= y
            BY <2>8 DEF Reporting
        <3>2. \A z \in Reporting(cut, low) : z > y - 5 <=> z \in five
            <4>1. \A z \in Int : z <= y => (z > y - 5 <=> z \in (y - 4)..y)
                BY <2>4
            <4> HIDE DEF five
            <4> QED BY <2>4, <3>1, <4>1
        <3> HIDE DEF five
        <3> QED BY <2>8, <3>2 DEF Window
    <2>12. Trailing(cut, low, TrailingWindow) = five
        <3>1. Cardinality(five) <= Cardinality(Reporting(cut, low))
              /\ Cardinality(Reporting(cut, low)) \in Nat
            BY <2>8, SomeYears, FS_Subset
        <3>2. ~(Cardinality(Reporting(cut, low)) < MinTrailing)
            BY <2>5, <3>1 DEF MinTrailing
        <3> QED BY <2>10, <2>11, <3>2 DEF Trailing, TrailingWindow
    <2>13. Slope(cut, low, TrailingWindow) = five
        BY <2>5, <2>12 DEF Slope, MinTrailing
    <2>14. Dated(cut) # {} /\ HasSample(cut, TrailingWindow)
        BY <2>5, <2>9, <2>12 DEF Dated, HasSample, MinTrailing
    <2>15. EnergyFeatures(cut, TrailingWindow).momentum = five
        BY <2>13, <2>14 DEF EnergyFeatures
    <2> QED BY <2>7, <2>15 DEF rows, series, cut
<1> QED BY <1>1, PTL
-----------------------------------------------------------------------------
(* The decision.                                                           *)

ErrorIsInt == \A f, x : Error(f, x) \in Int

\* Where a candidate falls back, it does no better than the baseline.
LEMMA FallbackIsBaseline ==
    ASSUME ErrorIsInt, NEW b,
           NEW m \in {"current_regime_only", "conditional_regime_weighted_bootstrap"}
    PROVE  Improved(Phase3Results(b), m)
             \subseteq ActiveSplits(b) \cap EvaluatedInPhase3(b, Baseline)
<1> SUFFICES ASSUME NEW e \in Improved(Phase3Results(b), m)
             PROVE  e \in ActiveSplits(b) /\ e \in EvaluatedInPhase3(b, Baseline)
    OBVIOUS
<1> DEFINE f      == Phase3Forecasts(b, e[1], e[2])
           h      == History(BuildPanel(b), e[1], e[2])
           rows   == HistoryRows(b, e[1], e[2])
           regime == RegimeAt(b, e[1], e[2])
           active == Active(h, rows, regime)
<1>1. e \in EvaluatedInPhase3(b, Baseline) /\ e \in Countries \X Splits
    BY DEF Improved, Phase3Results, EvaluatedInPhase3
<1>2. m \in Phase3Bootstraps /\ Baseline \in Phase3Bootstraps
    BY DEF Phase3Bootstraps, Baseline
<1>3. /\ Phase3Results(b)[e][m].error = Error(f[m], Actual(b, e))
      /\ Phase3Results(b)[e][Baseline].error = Error(f[Baseline], Actual(b, e))
    BY <1>1, <1>2 DEF Phase3Results
<1>4. Error(f[m], Actual(b, e)) < Error(f[Baseline], Actual(b, e))
    BY <1>3 DEF Improved
<1>5. ASSUME ~active
      PROVE  f[m] = f[Baseline]
    <2>1. f[Baseline] = Bootstrap(h, e[2][2])
        BY DEF Phase3Forecasts, Baseline
    <2>2. CASE m = "current_regime_only"
        <3>1. f[m] = CurrentRegimeOnly(h, active, regime, e[2][2])
            BY <2>2 DEF Phase3Forecasts
        <3> HIDE DEF active, f
        <3> QED BY <1>5, <2>1, <3>1 DEF CurrentRegimeOnly
    <2>3. CASE m = "conditional_regime_weighted_bootstrap"
        <3>1. f[m] = IF active
                     THEN Weighted(h, rows, e[2][2], RegimeWeights(rows, regime, "confidence"))
                     ELSE Bootstrap(h, e[2][2])
            BY <2>3 DEF Phase3Forecasts
        <3> HIDE DEF active, f
        <3> QED BY <1>5, <2>1, <3>1
    <2> QED BY <2>2, <2>3
<1>6. active
    <2>1. Error(f[Baseline], Actual(b, e)) \in Int
        BY DEF ErrorIsInt
    <2> HIDE DEF active, f
    <2> QED BY <1>4, <1>5, <2>1
<1> QED BY <1>1, <1>6 DEF ActiveSplits

\* The larger part has the majority where the smaller one has it.
LEMMA HalfGrows ==
    ASSUME NEW rows, IsFiniteSet(rows), NEW p, NEW q, p \cap rows \subseteq q,
           ByHalf(rows, p)
    PROVE  ByHalf(rows, q)
<1> DEFINE countries == {e[1] : e \in rows}
           origins   == {e[2][1] : e \in rows}
           C(part)   == {c \in countries : MostOf(OfCountry(rows, c), part)}
           O(part)   == {o \in origins : MostOf(OfOrigin(rows, o), part)}
<1>1. ASSUME NEW group \in SUBSET rows, MostOf(group, p)
      PROVE  MostOf(group, q)
    <2>1. p \cap group \subseteq q \cap group
        OBVIOUS
    <2>2. IsFiniteSet(group) /\ IsFiniteSet(q \cap group) /\ IsFiniteSet(p \cap group)
        BY FS_Subset
    <2>3. /\ Cardinality(p \cap group) <= Cardinality(q \cap group)
          /\ Cardinality(p \cap group) \in Nat /\ Cardinality(q \cap group) \in Nat
          /\ Cardinality(group) \in Nat
        BY <2>1, <2>2, FS_Subset, FS_CardinalityType
    <2> QED BY <1>1, <2>3 DEF MostOf
<1>2. C(p) \subseteq C(q)
    <2>1. \A c : OfCountry(rows, c) \in SUBSET rows
        BY DEF OfCountry
    <2> QED BY <1>1, <2>1
<1>3. O(p) \subseteq O(q)
    <2>1. \A o : OfOrigin(rows, o) \in SUBSET rows
        BY DEF OfOrigin
    <2> QED BY <1>1, <2>1
<1>4. IsFiniteSet(countries) /\ IsFiniteSet(origins)
    <2>1. [e \in rows |-> e[1]] \in Surjection(rows, countries)
        BY DEF Surjection
    <2>2. [e \in rows |-> e[2][1]] \in Surjection(rows, origins)
        BY DEF Surjection
    <2> HIDE DEF countries, origins
    <2> QED BY <2>1, <2>2, FS_Surjection
<1>5. /\ C(q) \in SUBSET countries /\ O(q) \in SUBSET origins
      /\ C(p) \in SUBSET countries /\ O(p) \in SUBSET origins
    OBVIOUS
<1>6. /\ 2 * Cardinality(C(p)) >= Cardinality(countries)
      /\ 2 * Cardinality(O(p)) >= Cardinality(origins)
    BY DEF ByHalf
<1>7. ByHalf(rows, q) <=> /\ 2 * Cardinality(C(q)) >= Cardinality(countries)
                         /\ 2 * Cardinality(O(q)) >= Cardinality(origins)
    BY DEF ByHalf
<1> HIDE DEF C, O, countries, origins
<1>8. /\ IsFiniteSet(C(q)) /\ IsFiniteSet(O(q))
      /\ IsFiniteSet(C(p)) /\ IsFiniteSet(O(p))
    BY <1>4, <1>5, FS_Subset
<1>9. /\ Cardinality(C(p)) <= Cardinality(C(q)) /\ Cardinality(O(p)) <= Cardinality(O(q))
      /\ Cardinality(C(p)) \in Nat /\ Cardinality(C(q)) \in Nat
      /\ Cardinality(O(p)) \in Nat /\ Cardinality(O(q)) \in Nat
      /\ Cardinality(countries) \in Nat /\ Cardinality(origins) \in Nat
    BY <1>2, <1>3, <1>4, <1>8, FS_Subset, FS_CardinalityType
<1> QED BY <1>6, <1>7, <1>9

\* Regime-aware forecasts are accepted (phase3_decision) on the strength of
\* active regimes only, in every state of the lake and however the errors are
\* measured.
THEOREM AcceptedOnActive ==
    ASSUME ErrorIsInt, IsFiniteSet(Countries), IsFiniteSet(Splits)
    PROVE  Spec => []AcceptedOnActiveRegimes
<1>1. AcceptedOnActiveRegimes
    <2> DEFINE rows    == EvaluatedInPhase3(bronze, Baseline)
               outcome == Phase3Decision(bronze)
               results == Phase3Results(bronze)
    <2> SUFFICES ASSUME outcome.decision \in {"ACCEPT_REGIME_AWARE_SCENARIOS",
                                              "ACCEPT_CONDITIONAL_REGIME_AWARE_SCENARIOS"}
                 PROVE  /\ ActiveSplits(bronze) # {}
                        /\ outcome.best \in {"current_regime_only",
                                             "conditional_regime_weighted_bootstrap"}
                             => ByHalf(rows, ActiveSplits(bronze))
        BY DEF AcceptedOnActiveRegimes, RestsOnActive
    <2>1. /\ Shifts(bronze) # <<>>
          /\ ByHalf(DOMAIN results, Improved(results, outcome.best))
        BY DEF Phase3Decision, Decision, SmallShifts
    <2>2. DOMAIN results = rows
        BY DEF Phase3Results
    <2>3. IsFiniteSet(rows)
        <3>1. IsFiniteSet(Countries \X Splits)
            BY FS_Product
        <3>2. rows \subseteq Countries \X Splits
            BY DEF EvaluatedInPhase3
        <3> QED BY <3>1, <3>2, FS_Subset
    <2>4. ActiveSplits(bronze) # {}
        <3> DEFINE ds == DOMAIN Shifts(bronze)
        <3>1. ASSUME ds = {}
              PROVE  Shifts(bronze) = <<>>
            BY <3>1 DEF Shifts
        <3>2. PICK d \in Countries \X Splits \X Offsets :
                Perturbed(bronze, d[1], d[2], d[3]) # None
            BY <2>1, <3>1 DEF Shifts
        <3>3. Active(History(BuildPanel(bronze), d[1], d[2]),
                     HistoryRows(bronze, d[1], d[2]), RegimeAt(bronze, d[1], d[2]))
            BY <3>2 DEF Perturbed
        <3>4. <<d[1], d[2]>> \in ActiveSplits(bronze)
            BY <3>3 DEF ActiveSplits
        <3> QED BY <3>4
    <2>5. ASSUME outcome.best \in {"current_regime_only", "conditional_regime_weighted_bootstrap"}
          PROVE  ByHalf(rows, ActiveSplits(bronze))
        <3>1. Improved(results, outcome.best) \subseteq ActiveSplits(bronze)
            BY <2>5, FallbackIsBaseline
        <3> HIDE DEF rows, results, outcome
        <3> QED BY <2>1, <2>2, <2>3, <3>1, HalfGrows
    <2> QED BY <2>4, <2>5
<1> QED BY <1>1, PTL
=============================================================================
