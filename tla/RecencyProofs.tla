--------------------------- MODULE RecencyProofs ---------------------------
(***************************************************************************)
(* What TLAPS proves of Recency: for any panel, origins and countries, a   *)
(* scheme and a scale rest on nothing later than the year before their     *)
(* origin, and a forecast on nothing later than its origin; and the        *)
(* bootstraps are compared on the same country-splits.                     *)
(***************************************************************************)
EXTENDS Recency, PanelProofs

\* Two lakes with the same data up to a year.
SameUntil(b1, b2, x) ==
    \A c \in Countries : \A y \in Years : y <= x => b1[c][y] = b2[c][y]

LEMMA KnownInIsSame ==
    ASSUME NEW b, NEW x
    PROVE  SameUntil(KnownIn(b, x), b, x)
    BY DEF SameUntil, KnownIn

LEMMA SameEarlier ==
    ASSUME NEW b1, NEW b2, NEW x \in Int, NEW w \in Int, w <= x,
           SameUntil(b1, b2, x)
    PROVE  SameUntil(b1, b2, w)
    BY YearsAreNat DEF SameUntil

LEMMA PriorSplit ==
    ASSUME NEW o \in Nat, NEW e \in Countries \X Prior(o)
    PROVE  /\ e[1] \in Countries /\ e[2] \in Splits
           /\ e[2][1] \in Nat /\ e[2][2] \in Nat
           /\ e[2][1] < e[2][2] /\ e[2][2] < o
    BY SplitType, PanelAssumption DEF Prior

-----------------------------------------------------------------------------
(* Histories and outcomes.                                                 *)

LEMMA SamePanel ==
    ASSUME NEW b1, NEW b2, NEW x, SameUntil(b1, b2, x),
           NEW c \in Countries, NEW y \in Years, y <= x
    PROVE  BuildPanel(b1)[c][y] = BuildPanel(b2)[c][y]
    BY DEF SameUntil, BuildPanel

LEMMA SameHistories ==
    ASSUME NEW b1, NEW b2, NEW x \in Int, SameUntil(b1, b2, x),
           NEW c \in Countries, NEW s \in Splits, s[1] <= x
    PROVE  History(BuildPanel(b1), c, s) = History(BuildPanel(b2), c, s)
<1>1. \A y \in Years : y <= s[1] => BuildPanel(b1)[c][y] = BuildPanel(b2)[c][y]
    BY SamePanel, SplitType, YearsAreNat
<1> QED BY <1>1 DEF History, Series, Restrict

LEMMA SameRow ==
    ASSUME NEW b1, NEW b2, NEW x, SameUntil(b1, b2, x),
           NEW c \in Countries, NEW y, y <= x
    PROVE  HasRow(b1, c, y) = HasRow(b2, c, y)
    BY DEF HasRow, SameUntil

LEMMA SameActual ==
    ASSUME NEW b1, NEW b2, NEW x, SameUntil(b1, b2, x),
           NEW e, e[1] \in Countries, e[2][2] <= x, HasRow(b1, e[1], e[2][2])
    PROVE  Actual(b1, e) = Actual(b2, e)
    BY SamePanel DEF Actual, Series, HasRow

-----------------------------------------------------------------------------
(* Selection and scale.                                                    *)

LEMMA SamePrior ==
    ASSUME NEW b1, NEW b2, NEW o \in Nat, SameUntil(b1, b2, o - 1),
           NEW e \in Countries \X Prior(o)
    PROVE  /\ SameUntil(b1, b2, e[2][1] - 1)
           /\ History(BuildPanel(b1), e[1], e[2]) = History(BuildPanel(b2), e[1], e[2])
           /\ HasRow(b1, e[1], e[2][2]) = HasRow(b2, e[1], e[2][2])
           /\ HasRow(b1, e[1], e[2][2]) => Actual(b1, e) = Actual(b2, e)
<1>1. /\ e[1] \in Countries /\ e[2] \in Splits
      /\ e[2][1] \in Nat /\ e[2][2] \in Nat
      /\ e[2][1] <= o - 1 /\ e[2][2] <= o - 1 /\ e[2][1] - 1 <= o - 1
    BY PriorSplit
<1>2. SameUntil(b1, b2, e[2][1] - 1)
    BY <1>1, SameEarlier
<1>3. History(BuildPanel(b1), e[1], e[2]) = History(BuildPanel(b2), e[1], e[2])
    BY <1>1, SameHistories
<1>4. HasRow(b1, e[1], e[2][2]) = HasRow(b2, e[1], e[2][2])
    BY <1>1, SameRow
<1>5. HasRow(b1, e[1], e[2][2]) => Actual(b1, e) = Actual(b2, e)
    BY <1>1, SameActual
<1> QED BY <1>2, <1>3, <1>4, <1>5

LEMMA SameEvaluated ==
    ASSUME NEW b1, NEW b2, NEW o \in Nat, SameUntil(b1, b2, o - 1), NEW candidate
    PROVE  Evaluated(b1, o, candidate) = Evaluated(b2, o, candidate)
    BY SamePrior DEF Evaluated

LEMMA EvaluatedHasRow ==
    ASSUME NEW b, NEW o, NEW candidate, NEW e \in Evaluated(b, o, candidate)
    PROVE  e \in Countries \X Prior(o) /\ HasRow(b, e[1], e[2][2])
    BY DEF Evaluated

LEMMA SameResults ==
    ASSUME NEW b1, NEW b2, NEW o \in Nat, SameUntil(b1, b2, o - 1)
    PROVE  CandidateResults(b1, o) = CandidateResults(b2, o)
<1> DEFINE rows(b) == {r \in Schemes \X Countries \X Prior(o) :
                        <<r[2], r[3]>> \in Evaluated(b, o, Candidate(r[1]))}
           result(b, r) ==
             [forecast |-> RecencyForecast(History(BuildPanel(b), r[2], r[3]),
                                           r[3][2], Candidate(r[1])),
              actual   |-> Actual(b, <<r[2], r[3]>>)]
<1>1. rows(b1) = rows(b2)
    BY SameEvaluated
<1>2. ASSUME NEW r \in rows(b1)
      PROVE  result(b1, r) = result(b2, r)
    <2> DEFINE e == <<r[2], r[3]>>
    <2>1. e \in Evaluated(b1, o, Candidate(r[1])) /\ e[1] = r[2] /\ e[2] = r[3]
        OBVIOUS
    <2>2. e \in Countries \X Prior(o) /\ HasRow(b1, e[1], e[2][2])
        BY <2>1, EvaluatedHasRow
    <2>3. /\ History(BuildPanel(b1), r[2], r[3]) = History(BuildPanel(b2), r[2], r[3])
          /\ Actual(b1, e) = Actual(b2, e)
        BY <2>1, <2>2, SamePrior
    <2> QED BY <2>3
<1>3. CandidateResults(b1, o) = [r \in rows(b1) |-> result(b1, r)]
    BY DEF CandidateResults
<1>4. CandidateResults(b2, o) = [r \in rows(b2) |-> result(b2, r)]
    BY DEF CandidateResults
<1> HIDE DEF rows, result
<1> QED BY <1>1, <1>2, <1>3, <1>4

LEMMA SameSelection ==
    ASSUME NEW b1, NEW b2, NEW o \in Nat, SameUntil(b1, b2, o - 1)
    PROVE  Selected(b1, o) = Selected(b2, o)
    BY SameResults DEF Selected

LEMMA SameScale ==
    ASSUME NEW b1, NEW b2, NEW o \in Nat, SameUntil(b1, b2, o - 1)
    PROVE  IntervalScale(b1, o) = IntervalScale(b2, o)
<1> DEFINE residuals(b) ==
             {e \in Countries \X Prior(o) :
                /\ e \in Evaluated(b, o, Selected(b, e[2][1]))
                /\ HasWidth(History(BuildPanel(b), e[1], e[2]))}
           residual(b, e) ==
             [forecast |-> RecencyForecast(History(BuildPanel(b), e[1], e[2]),
                                           e[2][2], Selected(b, e[2][1])),
              actual   |-> Actual(b, e)]
<1>1. ASSUME NEW e \in Countries \X Prior(o)
      PROVE  /\ Selected(b1, e[2][1]) = Selected(b2, e[2][1])
             /\ History(BuildPanel(b1), e[1], e[2]) = History(BuildPanel(b2), e[1], e[2])
    <2>1. e[2][1] \in Nat
        BY PriorSplit
    <2> QED BY <2>1, SamePrior, SameSelection
<1>2. residuals(b1) = residuals(b2)
    BY <1>1, SameEvaluated
<1>3. ASSUME NEW e \in residuals(b1)
      PROVE  Actual(b1, e) = Actual(b2, e) /\ residual(b1, e) = residual(b2, e)
    <2>1. Actual(b1, e) = Actual(b2, e)
        BY EvaluatedHasRow, SamePrior
    <2> QED BY <2>1, <1>1
<1>4. ASSUME NEW b
      PROVE  IntervalScale(b, o) =
                IF \/ Cardinality(residuals(b)) < MinSplits
                   \/ \E e \in residuals(b) : Actual(b, e) = None
                THEN Unscaled
                ELSE [quantile_of |-> [e \in residuals(b) |-> residual(b, e)]]
    BY DEF IntervalScale
<1>5. (\E e \in residuals(b1) : Actual(b1, e) = None)
        <=> (\E e \in residuals(b2) : Actual(b2, e) = None)
    <2> HIDE DEF residuals, residual
    <2> QED BY <1>2, <1>3
<1>6. [e \in residuals(b1) |-> residual(b1, e)] = [e \in residuals(b2) |-> residual(b2, e)]
    <2> HIDE DEF residuals, residual
    <2> QED BY <1>2, <1>3
<1> HIDE DEF residuals, residual
<1> QED BY <1>2, <1>4, <1>5, <1>6

-----------------------------------------------------------------------------
(* Forecasts.                                                              *)

LEMMA SamePhase4Forecast ==
    ASSUME NEW b1, NEW b2, NEW c \in Countries, NEW s \in Splits, NEW m \in Methods,
           SameUntil(b1, b2, s[1])
    PROVE  Phase4Forecast(b1, c, s, m) = Phase4Forecast(b2, c, s, m)
<1>1. s[1] \in Nat /\ s[1] - 1 \in Int /\ s[1] - 1 <= s[1]
    BY SplitType
<1>2. History(BuildPanel(b1), c, s) = History(BuildPanel(b2), c, s)
    BY <1>1, SameHistories
<1>3. SameUntil(b1, b2, s[1] - 1)
    BY <1>1, SameEarlier
<1>4. Selected(b1, s[1]) = Selected(b2, s[1])
    BY <1>1, <1>3, SameSelection
<1>5. IntervalScale(b1, s[1]) = IntervalScale(b2, s[1])
    BY <1>1, <1>3, SameScale
<1> QED BY <1>2, <1>4, <1>5 DEF Phase4Forecast

\* The selection of a scheme, the estimate of a scale and the forecasts see
\* nothing that was not known at their origin (run_phase4_backtest), in every
\* state of the lake.
THEOREM NestedLookAhead == Spec => []NestedNoLeakage
<1>1. NestedNoLeakage
    <2> SUFFICES ASSUME NEW s \in Splits
                 PROVE  /\ Selected(KnownIn(bronze, s[1] - 1), s[1]) = Selected(bronze, s[1])
                        /\ IntervalScale(KnownIn(bronze, s[1] - 1), s[1])
                             = IntervalScale(bronze, s[1])
                        /\ \A c \in Countries : \A m \in Methods :
                             Phase4Forecast(KnownIn(bronze, s[1]), c, s, m)
                               = Phase4Forecast(bronze, c, s, m)
        BY DEF NestedNoLeakage
    <2>1. s[1] \in Nat
        BY SplitType
    <2>2. /\ Selected(KnownIn(bronze, s[1] - 1), s[1]) = Selected(bronze, s[1])
          /\ IntervalScale(KnownIn(bronze, s[1] - 1), s[1]) = IntervalScale(bronze, s[1])
        BY <2>1, KnownInIsSame, SameSelection, SameScale
    <2>3. \A c \in Countries : \A m \in Methods :
            Phase4Forecast(KnownIn(bronze, s[1]), c, s, m) = Phase4Forecast(bronze, c, s, m)
        BY KnownInIsSame, SamePhase4Forecast
    <2> QED BY <2>2, <2>3
<1> QED BY <1>1, PTL
-----------------------------------------------------------------------------
(* What the methods are compared on.                                       *)

\* A missing value is none of the results that are records.
NoneIsNoRecord ==
    /\ \A f, t : [fit |-> f, target |-> t] # None
    /\ \A l, n : [levels |-> l, horizon |-> n] # None
    /\ \A l, n, w : [levels |-> l, horizon |-> n, weights |-> w] # None
    /\ \A f, i : [forecast |-> f, interval |-> i] # None

\* The bootstraps ask this of a history, the trend less.
LongEnough(h, target) ==
    Cardinality(Usable(h)) >= MinLevels /\ ~(target <= Latest(Usable(h)))

LEMMA HistoryUsable ==
    ASSUME NEW b, NEW c, NEW s
    PROVE  /\ Usable(History(BuildPanel(b), c, s)) \in SUBSET Years
           /\ Cardinality(Usable(History(BuildPanel(b), c, s))) \in Nat
<1>1. Usable(History(BuildPanel(b), c, s)) \in SUBSET Years
    BY DEF Usable, Known, History, Restrict
<1> QED BY <1>1, SomeYears

LEMMA ForecastIf ==
    ASSUME NoneIsNoRecord, NEW h, NEW target, Cardinality(Usable(h)) \in Nat
    PROVE  /\ Bootstrap(h, target) # None <=> LongEnough(h, target)
           /\ \A w : RecencyForecast(h, target, w) # None <=> LongEnough(h, target)
           /\ LongEnough(h, target) => Trend(h, target) # None
<1>1. Cardinality(Usable(h)) < MinLevels <=> ~(Cardinality(Usable(h)) >= MinLevels)
    BY DEF MinLevels
<1>2. Bootstrap(h, target) # None <=> LongEnough(h, target)
    BY <1>1 DEF NoneIsNoRecord, Bootstrap, LongEnough
<1>3. \A w : RecencyForecast(h, target, w) # None <=> LongEnough(h, target)
    BY <1>1 DEF NoneIsNoRecord, RecencyForecast, LongEnough
<1>4. LongEnough(h, target) => Trend(h, target) # None
    BY DEF NoneIsNoRecord, Trend, LongEnough, MinLevels, MinObservations
<1> QED BY <1>2, <1>3, <1>4

LEMMA Phase4ForecastIf ==
    ASSUME NoneIsNoRecord, NEW b, NEW c, NEW s
    PROVE  /\ \A m \in Bootstraps :
                Phase4Forecast(b, c, s, m) # None
                  <=> LongEnough(History(BuildPanel(b), c, s), s[2])
           /\ LongEnough(History(BuildPanel(b), c, s), s[2])
                => Phase4Forecast(b, c, s, "deterministic_trend") # None
<1> DEFINE h == History(BuildPanel(b), c, s)
<1>1. /\ Bootstrap(h, s[2]) # None <=> LongEnough(h, s[2])
      /\ \A w : RecencyForecast(h, s[2], w) # None <=> LongEnough(h, s[2])
      /\ LongEnough(h, s[2]) => Trend(h, s[2]) # None
    BY HistoryUsable, ForecastIf
<1>2. ASSUME NEW m \in Bootstraps
      PROVE  Phase4Forecast(b, c, s, m) # None <=> LongEnough(h, s[2])
    <2>1. m # "deterministic_trend"
        BY DEF Bootstraps
    <2>2. PICK w, i : Phase4Forecast(b, c, s, m) =
                        IF m = "empirical_bootstrap" \/ RecencyForecast(h, s[2], w) = None
                        THEN Bootstrap(h, s[2])
                        ELSE [forecast |-> RecencyForecast(h, s[2], w), interval |-> i]
        BY <2>1 DEF Phase4Forecast
    <2> HIDE DEF h
    <2> QED BY <1>1, <2>2 DEF NoneIsNoRecord
<1>3. Phase4Forecast(b, c, s, "deterministic_trend") = Trend(h, s[2])
    BY DEF Phase4Forecast
<1> QED BY <1>1, <1>2, <1>3

\* The mean errors and coverages of phase4_decision are means over the same
\* country-splits, in every state of the lake, provided that a missing value is
\* not taken for a forecast.
THEOREM ComparedOnSameSplits ==
    ASSUME NoneIsNoRecord
    PROVE  Spec => []MethodsComparable
<1>1. MethodsComparable
    <2>1. ASSUME NEW m \in Bootstraps
          PROVE  EvaluatedBy(bronze, m) = EvaluatedBy(bronze, "empirical_bootstrap")
        <3>1. \A e : Phase4Forecast(bronze, e[1], e[2], m) # None
                     <=> Phase4Forecast(bronze, e[1], e[2], "empirical_bootstrap") # None
            BY Phase4ForecastIf DEF Bootstraps
        <3> QED BY <3>1 DEF EvaluatedBy
    <2>2. EvaluatedBy(bronze, "empirical_bootstrap")
            \subseteq EvaluatedBy(bronze, "deterministic_trend")
        <3>1. \A e : Phase4Forecast(bronze, e[1], e[2], "empirical_bootstrap") # None
                     => Phase4Forecast(bronze, e[1], e[2], "deterministic_trend") # None
            BY Phase4ForecastIf DEF Bootstraps
        <3> QED BY <3>1 DEF EvaluatedBy
    <2> QED BY <2>1, <2>2 DEF MethodsComparable
<1> QED BY <1>1, PTL
=============================================================================
