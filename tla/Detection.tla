----------------------------- MODULE Detection -----------------------------
(***************************************************************************)
(* Structural breaks, research milestone M7, phases 1 and 2                *)
(* (research/m7_regimes.py): the candidate series of a country, the four   *)
(* methods that look for a break in one, from today and from historical    *)
(* origins, and how far they agree.                                        *)
(*                                                                         *)
(* A value of a series is kept as what it is computed from.  The           *)
(* regressions are constants: how well a method likes a break, and whether *)
(* it passes the thresholds.                                               *)
(***************************************************************************)
EXTENDS Energy, FiniteSetsExt

CONSTANTS MinTotal,          \* MIN_TOTAL_OBSERVATIONS
          MinSegment,        \* MIN_SEGMENT_LENGTH
          Fit(_, _, _),      \* what a method maximises, of a series and a year
          Detected(_, _, _)  \* the break of a series in a year is credible

\* RECENT_WINDOW_YEARS and BREAK_YEAR_TOLERANCE.
RecentWindow == 5
Tolerance == 1

ASSUME DetectionAssumption ==
    /\ MinTotal \in Nat /\ MinSegment \in 1..RecentWindow
    /\ 2 * MinSegment <= MinTotal

\* The years of a history that have a year before them.
Changes(ys) == {y \in ys : \E z \in ys : z < y}

-----------------------------------------------------------------------------
(* build_candidate_series_panel.                                           *)

\* HISTORICAL_ORIGINS.
Origins == {s[1] : s \in Splits}

\* Seeded fault: the change to the next row.
LogChangesForward(b, c) ==
    LET levels   == Series(BuildPanel(b), c)
        rows     == {y \in Years : HasRow(b, c, y)}
        positive == Usable(levels)
        next     == [y \in {z \in rows : \E x \in rows : z < x} |->
                        CHOOSE z \in rows : z > y /\ \A x \in rows : x > y => z <= x]
    IN  [y \in {z \in DOMAIN next : {z, next[z]} \subseteq positive} |->
            <<levels[y], levels[next[y]]>>]

\* From one row to the next, if both have a level, however far they are apart.
LogChanges(b, c) ==
    LET levels   == Series(BuildPanel(b), c)
        rows     == {y \in Years : HasRow(b, c, y)}
        positive == Usable(levels)
        previous == [y \in Changes(rows) |-> Latest({z \in rows : z < y})]
    IN  [y \in {z \in DOMAIN previous : {previous[z], z} \subseteq positive} |->
            <<levels[previous[y]], levels[y]>>]

\* The last values of a share, up to a year.
LastValues(rows, share, year) ==
    LET ys == {y \in Reporting(rows, share) : y <= year}
    IN  {y \in ys : Cardinality({z \in ys : z > y}) < RecentWindow}

\* Seeded fault: the values before a row's own.
RollingSlopeBefore(rows) ==
    [y \in {z \in DOMAIN rows :
                Cardinality(LastValues(rows, "low_carbon_share_elec", z - 1)) >= MinSegment} |->
        LastValues(rows, "low_carbon_share_elec", y - 1)]

\* _rolling_slope: a row has one whether it has a share of its own or not.
RollingSlope(rows) ==
    [y \in {z \in DOMAIN rows :
                Cardinality(LastValues(rows, "low_carbon_share_elec", z)) >= MinSegment} |->
        LastValues(rows, "low_carbon_share_elec", y)]

SeriesNames == {"carbon_intensity_gdp", "carbon_intensity_log_change",
                "co2_gdp_decoupling_gap", "low_carbon_share_elec",
                "clean_power_momentum_pp_per_year", "fossil_share_elec",
                "coal_share_elec"}

\* With the level of the emissions for the level of the intensity, the
\* decoupling gap is computed from the rows that the log change is.
CandidateSeries(b, c, name) ==
    CASE name = "carbon_intensity_gdp" ->
            LET levels == Series(BuildPanel(b), c) IN Restrict(levels, Usable(levels))
      [] name \in {"carbon_intensity_log_change", "co2_gdp_decoupling_gap"} ->
            LogChanges(b, c)
      [] name \in Shares ->
            [y \in Reporting(EnergyRows(b, c), name) |-> name]
      [] name = "clean_power_momentum_pp_per_year" ->
            RollingSlope(EnergyRows(b, c))

-----------------------------------------------------------------------------
(* detect_break.                                                           *)

Before(series, y) == {z \in DOMAIN series : z < y}
Since(series, y) == {z \in DOMAIN series : z >= y}

\* Seeded fault: the last segment may be one value short.
CandidateBreaksLate(series) ==
    {y \in DOMAIN series : /\ Cardinality(Before(series, y)) >= MinSegment
                           /\ Cardinality(Since(series, y)) >= MinSegment - 1}

CandidateBreaks(series) ==
    {y \in DOMAIN series : /\ Cardinality(Before(series, y)) >= MinSegment
                           /\ Cardinality(Since(series, y)) >= MinSegment}

\* The first of the best.
StrongestBreak(series, method) ==
    CHOOSE y \in CandidateBreaks(series) :
        \A z \in CandidateBreaks(series) :
            /\ Fit(method, series, z) <= Fit(method, series, y)
            /\ z < y => Fit(method, series, z) < Fit(method, series, y)

\* _threshold_baseline asks only where the last segment begins.
ThresholdBreak(series) ==
    CHOOSE y \in DOMAIN series : Cardinality(Since(series, y)) = MinSegment

BreakMethods == {"threshold_baseline", "rolling_slope_change",
                 "cusum_stability", "segmented_regression"}

Insufficient(series) == Cardinality(DOMAIN series) < MinTotal

\* The year of a credible break, if there is one.
DetectBreak(series, method) ==
    LET y == IF method = "threshold_baseline" THEN ThresholdBreak(series)
             ELSE StrongestBreak(series, method)
    IN  IF Insufficient(series) \/ ~Detected(method, series, y) THEN None ELSE y

Breaks(series) == [m \in BreakMethods |-> DetectBreak(series, m)]

\* detect_breaks_by_origin: the series are built once and cut off.
BreaksAsOf(b, c, name, origin) == Breaks(UpTo(CandidateSeries(b, c, name), origin))

-----------------------------------------------------------------------------
(* method_agreement.                                                       *)

Detecting(breaks) == {m \in DOMAIN breaks : breaks[m] # None}

Votes(breaks, y) == {m \in DOMAIN breaks : breaks[m] = y}

\* Seeded fault: the earliest break for the commonest.
ModalBreakYearEarliest(breaks) ==
    CHOOSE y \in {breaks[m] : m \in Detecting(breaks)} :
        \A m \in Detecting(breaks) : y <= breaks[m]

\* The earliest of the commonest.
ModalBreakYear(breaks) ==
    CHOOSE y \in {breaks[m] : m \in Detecting(breaks)} :
        \A z \in {breaks[m] : m \in Detecting(breaks)} :
            /\ Cardinality(Votes(breaks, z)) <= Cardinality(Votes(breaks, y))
            /\ z < y => Cardinality(Votes(breaks, z)) < Cardinality(Votes(breaks, y))

Agreeing(breaks) ==
    {m \in Detecting(breaks) :
        breaks[m] \in (ModalBreakYear(breaks) - Tolerance)..(ModalBreakYear(breaks) + Tolerance)}

\* ROBUST_ACROSS_METHODS.
Robust(breaks) ==
    /\ Cardinality(Detecting(breaks)) >= 3
    /\ Cardinality(Agreeing(breaks)) >= 3

-----------------------------------------------------------------------------
(* Properties.                                                             *)

\* No series, no method and no origin sees what was reported of later years,
\* although the series are derived from the whole panel before they are cut off
\* ("recompute regime evidence without future leakage").
DetectionNoLeakage ==
    \A c \in Countries : \A name \in SeriesNames : \A origin \in Origins :
        BreaksAsOf(bronze, c, name, origin)
            = Breaks(CandidateSeries(KnownIn(bronze, origin), c, name))

\* Every break of every method has MIN_SEGMENT_LENGTH values of its series on
\* both sides ("at least five observations per segment"), as of every origin.
SegmentsLongEnough ==
    \A c \in Countries : \A name \in SeriesNames : \A origin \in Origins :
        LET series == UpTo(CandidateSeries(bronze, c, name), origin)
        IN  \A y \in Range(Breaks(series)) \ {None} :
                /\ Cardinality(Before(series, y)) >= MinSegment
                /\ Cardinality(Since(series, y)) >= MinSegment

\* The methods are called robust if three of them find breaks in two successive
\* years, whatever the fourth finds, and only if three of them find breaks
\* within two years of each other.
WithinYears(breaks, n) ==
    \E methods \in kSubset(3, Detecting(breaks)) :
        \A l, m \in methods : breaks[l] - breaks[m] <= n

AgreementIsSound ==
    \A c \in Countries : \A name \in SeriesNames :
        LET breaks == Breaks(CandidateSeries(bronze, c, name))
        IN  /\ WithinYears(breaks, Tolerance) => Robust(breaks)
            /\ Robust(breaks) => WithinYears(breaks, 2 * Tolerance)

\* Where there are five shares in a row, the momentum of the candidate series is
\* that of the scored features of that year ("year-indexed analogue of the M6
\* transition-momentum input"), although one counts values and the other years.
MomentumIsAnalogue ==
    \A c \in Countries :
        LET rows   == EnergyRows(bronze, c)
            series == CandidateSeries(bronze, c, "clean_power_momentum_pp_per_year")
        IN  \A y \in DOMAIN rows :
                (y - RecentWindow + 1)..y \subseteq Reporting(rows, "low_carbon_share_elec")
                => /\ y \in DOMAIN series
                   /\ series[y] = EnergyFeatures(UpTo(rows, y), TrailingWindow).momentum
=============================================================================
