----------------------------- MODULE RiskScore -----------------------------
(***************************************************************************)
(* The transition risk score: v1 (scoring/risk_score.py) and v2            *)
(* (scoring/risk_score_v2_energy.py with scoring/energy_component.py),     *)
(* recomputed by one `score` after another while the data change.          *)
(*                                                                         *)
(* Scores are exact: a percentile rank is average_rank / n, so everything  *)
(* is a multiple of 1 / (4 * Unit), and Hundred is the score 100.  A total *)
(* is kept as the pair points / weight.  The raw metrics are ordinal but   *)
(* for the probability in the forward component, which is a fraction of    *)
(* MaxValue.  Rank, band and confidence follow from total and coverage.    *)
(***************************************************************************)
EXTENDS Integers, FiniteSets

CONSTANTS Countries,
          MaxValue,  \* raw metrics range over 0..MaxValue
          Observed,  \* what may be known of a country
          Unit,      \* a common multiple of 1..Cardinality(Countries)
          None       \* a missing metric

Values == 0..MaxValue
Missing == Values \cup {None}

\* What compute_raw_metrics and the energy features know of a country.  The
\* two coupling metrics are missing together, and so are the two forward ones;
\* pace takes fewer years of the same series than the others.
Metrics ==
    {m \in [pace: Missing, coupling: Missing, volatility: Missing,
            forward: [prob: Values, width: Values] \cup {None},
            energy: [low_carbon: Missing, momentum: Missing] \cup {None}] :
        /\ m.pace = None => m.coupling = None /\ m.volatility = None
        /\ m.volatility = None => m.forward = None}

ASSUME RiskScoreAssumption ==
    /\ IsFiniteSet(Countries)
    /\ MaxValue \in Nat \ {0}
    /\ Observed \subseteq Metrics
    /\ Unit \in Nat \ {0}
    /\ \A n \in 1..Cardinality(Countries) : n * (Unit \div n) = Unit

ASSUME NoneIsMissing ==
    None \notin Int \cup [prob: Values, width: Values]
                    \cup [low_carbon: Missing, momentum: Missing]

VARIABLES panel,  \* the metrics of each country
          v1,     \* gold/country_transition_risk.parquet
          v2      \* gold/country_transition_risk_v2.parquet

vars == <<panel, v1, v2>>

-----------------------------------------------------------------------------
(* Component scores.                                                       *)

Hundred == 4 * Unit

\* rank(pct=True): average rank of ties over the countries that have a value,
\* out of 2 * Unit; c has a value.
Percentile(x, c) ==
    LET own   == x[c]
        valid == {d \in Countries : x[d] # None}
        below == {d \in valid : x[d] < own}
        equal == {d \in valid : x[d] = own}
    IN  (2 * Cardinality(below) + Cardinality(equal) + 1)
            * (Unit \div Cardinality(valid))

Column(p, f(_)) == [c \in Countries |-> f(p[c])]

Width(m) == IF m.forward = None THEN None ELSE m.forward.width

\* 0.7 times the probability and 0.3 times the percentile of the width.
Forward(p) ==
    [c \in Countries |->
        IF p[c].forward = None THEN None
        ELSE 14 * Unit * p[c].forward.prob
             + 3 * MaxValue * Percentile(Column(p, Width), c)]

Pace(m) == m.pace
Coupling(m) == m.coupling
Volatility(m) == m.volatility
LowCarbon(m) == IF m.energy = None THEN None ELSE m.energy.low_carbon
Momentum(m) == IF m.energy = None THEN None ELSE m.energy.momentum

Score(x, c) == IF x[c] = None THEN None ELSE 2 * Percentile(x, c)

\* Seeded fault: a high share of clean power is scored as a high risk.
LowerRiskUnflipped(x, c) == Percentile(x, c)

\* Higher is better: the rank is turned round.
LowerRisk(x, c) == 2 * Unit - Percentile(x, c)

\* The mean of the sub-signals that are there.
EnergyScore(p, c) ==
    LET low == Column(p, LowCarbon)
        mom == Column(p, Momentum)
    IN  CASE low[c] = None /\ mom[c] = None -> None
          [] low[c] # None /\ mom[c] = None -> 2 * LowerRisk(low, c)
          [] low[c] = None /\ mom[c] # None -> 2 * LowerRisk(mom, c)
          [] OTHER -> LowerRisk(low, c) + LowerRisk(mom, c)

EnergyOfV2(p, c) == EnergyScore(p, c)

-----------------------------------------------------------------------------
(* Totals.                                                                 *)

\* NOMINAL_WEIGHTS, in percent.
Weight == [pace |-> 25, coupling |-> 20, volatility |-> 15, energy |-> 20,
           forward_downside |-> 20]

\* A missing component has no weight.
WeightOf(k, score) == IF score = None THEN 0 ELSE Weight[k]
PointsOf(k, score) == IF score = None THEN 0 ELSE Weight[k] * score

\* weighted_sum and weight_present over the five components.
SumOf(term(_, _), s) ==
    term("pace", s.pace) + term("coupling", s.coupling)
        + term("volatility", s.volatility) + term("energy", s.energy)
        + term("forward_downside", s.forward_downside)

Core(p, c, energy) ==
    [pace             |-> Score(Column(p, Pace), c),
     coupling         |-> Score(Column(p, Coupling), c),
     volatility       |-> Score(Column(p, Volatility), c),
     energy           |-> energy,
     forward_downside |-> Score(Forward(p), c)]

\* The same country scored by the four components of v1, and by all five.
ScoresV1(p, c) == Core(p, c, None)
ScoresV2(p, c) == Core(p, c, EnergyOfV2(p, c))

\* WEIGHT_COVERAGE of v1 is one constant.
Row1(p, c) ==
    LET s == ScoresV1(p, c)
    IN  [scores   |-> s,
         points   |-> SumOf(PointsOf, s),
         weight   |-> SumOf(WeightOf, s),
         coverage |-> 80]

\* Seeded fault: the energy weight is not counted among those present.
WeightV2Old(s) == SumOf(WeightOf, [s EXCEPT !.energy = None])

WeightV2(s) == SumOf(WeightOf, s)

Row2(p, c) ==
    LET s == ScoresV2(p, c)
    IN  [scores   |-> s,
         points   |-> SumOf(PointsOf, s),
         weight   |-> WeightV2(s),
         coverage |-> WeightV2(s)]

\* Rows without a total are dropped.
Scored1(p) == {c \in Countries : Row1(p, c).weight # 0}

\* Seeded fault: an inner join with the energy component.
Scored2WithEnergy(p) ==
    {c \in Countries : Row2(p, c).weight # 0 /\ p[c].energy # None}

Scored2(p) == {c \in Countries : Row2(p, c).weight # 0}

Table1(p) == [c \in Scored1(p) |-> Row1(p, c)]
Table2(p) == [c \in Scored2(p) |-> Row2(p, c)]

-----------------------------------------------------------------------------
(* score.                                                                  *)

\* Some country has a row in the energy features.
HasEnergy(p) == \E c \in Countries : p[c].energy # None

\* Nothing is written when v1 is empty; v2 is skipped without energy features.
WritesV1(p) == Scored1(p) # {}
WritesV2(p) == WritesV1(p) /\ HasEnergy(p)

Empty == [c \in {} |-> None]

Init ==
    /\ panel \in [Countries -> Observed]
    /\ v1 = IF WritesV1(panel) THEN Table1(panel) ELSE Empty
    /\ v2 = IF WritesV2(panel) THEN Table2(panel) ELSE Empty

\* The sources report something else of one country, and score runs again.
Rescore(c) ==
    /\ \E m \in Observed : panel' = [panel EXCEPT ![c] = m]
    /\ v1' = IF WritesV1(panel') THEN Table1(panel') ELSE v1
    /\ v2' = IF WritesV2(panel') THEN Table2(panel') ELSE v2

Next == \E c \in Countries : Rescore(c)

Spec == Init /\ [][Next]_vars

-----------------------------------------------------------------------------
(* Properties.                                                             *)

\* The scores of the five components; v1 has no energy score.
Scores ==
    LET score == 0..Hundred \cup {None}
    IN  [pace: score, coupling: score, volatility: score, energy: score,
         forward_downside: score]

\* A row's total is a score between 0 and 100, and its coverage a percentage.
Rows == [scores: Scores, points: Nat, weight: 1..100, coverage: 1..100]

TypeOK ==
    /\ panel \in [Countries -> Observed]
    /\ \A table \in {v1, v2} :
        /\ DOMAIN table \subseteq Countries
        /\ \A c \in DOMAIN table :
            /\ table[c] \in Rows
            /\ table[c].points <= Hundred * table[c].weight

\* The total of row a is at least, or more than, the total of row b.
AtLeast(a, b) == a.points * b.weight >= b.points * a.weight
MoreThan(a, b) == a.points * b.weight > b.points * a.weight

\* v2 degrades to v1: whenever it is computed, it scores every country that v1
\* scores, and one without usable energy data exactly as v1 does.  Otherwise
\* the product, which starts from v2, would lose or shift countries.
DegradesToV1 ==
    WritesV2(panel) =>
        \A c \in DOMAIN v1 :
            /\ c \in DOMAIN v2
            /\ EnergyScore(panel, c) = None =>
                AtLeast(v1[c], v2[c]) /\ AtLeast(v2[c], v1[c])

\* The energy component pulls a country's total from that of v1 towards its
\* own score, and never beyond either.  So a country whose energy data go
\* missing gets a higher total exactly if its energy score was the lower one
\* (the renormalisation of risk_score_v2_energy.py).
EnergyPulls ==
    WritesV2(panel) =>
        \A c \in DOMAIN v1 \cap DOMAIN v2 :
            LET energy == [points |-> v2[c].scores.energy, weight |-> 1]
            IN  v2[c].scores.energy # None =>
                  \/ AtLeast(energy, v2[c]) /\ AtLeast(v2[c], v1[c])
                  \/ AtLeast(v1[c], v2[c]) /\ AtLeast(v2[c], energy)

\* The same metrics are known of a country, and none is better than before.
NotBetter(old, new) ==
    IF old = None THEN new = None ELSE new # None /\ new >= old

Worsens(old, new) ==
    /\ NotBetter(old.pace, new.pace)
    /\ NotBetter(old.coupling, new.coupling)
    /\ NotBetter(old.volatility, new.volatility)
    /\ (old.forward = None) <=> (new.forward = None)
    /\ old.forward # None =>
        /\ new.forward.prob >= old.forward.prob
        /\ new.forward.width >= old.forward.width
    /\ (old.energy = None) <=> (new.energy = None)
    /\ old.energy # None =>
        /\ NotBetter(new.energy.low_carbon, old.energy.low_carbon)
        /\ NotBetter(new.energy.momentum, old.energy.momentum)

\* A country whose metrics get worse, all else equal, does not get a lower
\* score, in spite of ties, missing data of others and the two directions of
\* the metrics.  Unless its forward interval widened, which shifts the forward
\* scores of the others among themselves, it also stays ahead of every country
\* that it was ahead of.
WorseningNeverHelps ==
    [][ \A c \in Countries :
          /\ Worsens(panel[c], panel'[c])
          /\ \A d \in Countries \ {c} : panel'[d] = panel[d]
          => /\ WritesV1(panel) /\ c \in DOMAIN v1 => AtLeast(v1'[c], v1[c])
             /\ WritesV2(panel) /\ c \in DOMAIN v2 => AtLeast(v2'[c], v2[c])
             /\ WritesV2(panel) /\ Width(panel'[c]) = Width(panel[c]) =>
                \A d \in DOMAIN v2 :
                    c \in DOMAIN v2 /\ MoreThan(v2[c], v2[d])
                        => MoreThan(v2'[c], v2'[d])
      ]_vars
=============================================================================
