-------------------------- MODULE RiskScoreProofs --------------------------
(***************************************************************************)
(* What TLAPS proves of RiskScore and Overview, for any finite set of      *)
(* countries and any data: totals are scores between 0 and 100; v2 falls   *)
(* back to v1, and energy data move it towards the energy score only;      *)
(* worse metrics never help; and, whatever order a sort leaves ties in,    *)
(* the tables and routes of the product show the scores that are stored.   *)
(*                                                                         *)
(* Three facts carry most of it: the stored tables are those of the        *)
(* current panel whenever this allows a table (Current); a worse value     *)
(* never moves a percentile rank down (RankGrows); and a sort by totals is *)
(* a strict order of a finite set, of which there is exactly one list.     *)
(***************************************************************************)
EXTENDS Overview, FiniteSetTheorems, SequenceTheorems, WellFoundedInduction,
        TLAPS

\* The values of one metric or component: numbers, or missing.
Columns == [Countries -> Int \cup {None}]

\* A component score: between 0 and Hundred, or missing.
IsScore(s) == s = None \/ s \in 0..Hundred

-----------------------------------------------------------------------------
(* Percentile ranks.                                                       *)

\* Multiplication by a natural number keeps an inequality.
LEMMA Monotone ==
    ASSUME NEW a \in Int, NEW b \in Int, NEW q \in Nat, a <= b
    PROVE  a * q <= b * q
    BY SMT

\* A percentile rank lies between 0 and 100 percent: fewer countries are
\* below or equal than have a value, and the country itself is equal.
LEMMA PercentileBound ==
    ASSUME NEW x \in Columns, NEW c \in Countries, x[c] # None
    PROVE  Percentile(x, c) \in 0..(2 * Unit)
<1> DEFINE valid == {d \in Countries : x[d] # None}
           below == {d \in valid : x[d] < x[c]}
           equal == {d \in valid : x[d] = x[c]}
           n == Cardinality(valid)
           b == Cardinality(below)
           e == Cardinality(equal)
           q == Unit \div n
<1>1. IsFiniteSet(Countries) /\ Unit \in Nat \ {0}
    BY RiskScoreAssumption
<1>2. IsFiniteSet(valid) /\ n \in Nat /\ n <= Cardinality(Countries)
    BY <1>1, FS_Subset, FS_CardinalityType
<1>3. IsFiniteSet(below) /\ IsFiniteSet(equal) /\ b \in Nat /\ e \in Nat
    BY <1>2, FS_Subset, FS_CardinalityType
<1>4. below \cap equal = {}
    BY NoneIsMissing DEF Columns
<1>5. b + e <= n
  <2>1. (below \cup equal) \in SUBSET valid
      OBVIOUS
  <2>2. Cardinality(below \cup equal) <= n
      BY <1>2, <2>1, FS_Subset
  <2>3. Cardinality(below \cap equal) = 0
      BY <1>4, FS_EmptySet
  <2>4. Cardinality(below \cup equal) = b + e - Cardinality(below \cap equal)
      BY <1>3, FS_Union
  <2>5. QED
      BY <1>3, <2>2, <2>3, <2>4
<1>6. e >= 1
  <2>1. equal # {}
      OBVIOUS
  <2>2. e # 0
      BY <1>3, <2>1, FS_EmptySet
  <2>3. QED
      BY <1>3, <2>2
<1>7. n \in 1..Cardinality(Countries) /\ Cardinality(Countries) \in Nat
    BY <1>1, <1>2, <1>3, <1>5, <1>6, FS_CardinalityType
<1>8. n * q = Unit /\ q \in Nat
    BY <1>1, <1>7, RiskScoreAssumption
<1>9. (2 * b + e + 1) * q <= (2 * n) * q /\ 0 * q <= (2 * b + e + 1) * q
    BY <1>2, <1>3, <1>5, <1>6, <1>8, Monotone
<1>10. (2 * n) * q = 2 * Unit
    BY <1>1, <1>2, <1>8
<1>11. Percentile(x, c) = (2 * b + e + 1) * q
    BY DEF Percentile
<1>12. QED
    BY <1>1, <1>3, <1>8, <1>9, <1>10, <1>11

-----------------------------------------------------------------------------
(* Component scores.                                                       *)

\* The score of a column is a score.
LEMMA ScoreBound ==
    ASSUME NEW x \in Columns, NEW c \in Countries
    PROVE  IsScore(Score(x, c))
<1>1. CASE x[c] = None
    BY <1>1 DEF IsScore, Score
<1>2. CASE x[c] # None
  <2>1. Percentile(x, c) \in 0..(2 * Unit) /\ Unit \in Nat
      BY <1>2, PercentileBound, RiskScoreAssumption
  <2>2. Score(x, c) = 2 * Percentile(x, c)
      BY <1>2 DEF Score
  <2>3. QED
      BY <2>1, <2>2 DEF IsScore, Hundred
<1>3. QED
    BY <1>1, <1>2

\* The columns of a panel hold numbers or nothing.
LEMMA PanelColumns ==
    ASSUME NEW p \in [Countries -> Observed]
    PROVE  /\ Column(p, Pace) \in Columns
           /\ Column(p, Coupling) \in Columns
           /\ Column(p, Volatility) \in Columns
           /\ Column(p, LowCarbon) \in Columns
           /\ Column(p, Momentum) \in Columns
           /\ Column(p, Width) \in Columns
<1>1. \A c \in Countries : p[c] \in Metrics
    BY RiskScoreAssumption
<1>2. Missing \subseteq Int \cup {None} /\ Values \subseteq Int
    BY RiskScoreAssumption DEF Missing, Values
<1>3. QED
    BY <1>1, <1>2
       DEF Metrics, Column, Columns, Pace, Coupling, Volatility, LowCarbon,
           Momentum, Width

\* The combined forward metric is a column, too.
LEMMA ForwardColumn ==
    ASSUME NEW p \in [Countries -> Observed]
    PROVE  Forward(p) \in Columns
<1> DEFINE w == Column(p, Width)
<1>1. w \in Columns /\ Unit \in Nat /\ MaxValue \in Nat
    BY PanelColumns, RiskScoreAssumption
<1>2. ASSUME NEW c \in Countries, p[c].forward # None
      PROVE  14 * Unit * p[c].forward.prob + 3 * MaxValue * Percentile(w, c) \in Int
  <2>1. p[c].forward \in [prob: Values, width: Values]
      BY <1>2, RiskScoreAssumption DEF Metrics
  <2>2. p[c].forward.prob \in Int /\ p[c].forward.width \in Int
      BY <1>1, <2>1 DEF Values
  <2>3. w[c] # None
      BY <1>2, <2>2, NoneIsMissing DEF Column, Width
  <2>4. Percentile(w, c) \in Int
      BY <1>1, <2>3, PercentileBound
  <2> HIDE DEF w
  <2>5. QED
      BY <1>1, <2>2, <2>4
<1>3. QED
    BY <1>2 DEF Forward, Columns

\* The energy component, and what v2 uses of it, is a score.
LEMMA EnergyBound ==
    ASSUME NEW p \in [Countries -> Observed], NEW c \in Countries
    PROVE  IsScore(EnergyScore(p, c)) /\ IsScore(EnergyOfV2(p, c))
<1> DEFINE low == Column(p, LowCarbon)
           mom == Column(p, Momentum)
<1>1. low \in Columns /\ mom \in Columns /\ Unit \in Nat
    BY PanelColumns, RiskScoreAssumption
<1>2. /\ low[c] # None => LowerRisk(low, c) \in 0..(2 * Unit)
      /\ mom[c] # None => LowerRisk(mom, c) \in 0..(2 * Unit)
    BY <1>1, PercentileBound DEF LowerRisk
<1>3. EnergyScore(p, c) =
        CASE low[c] = None /\ mom[c] = None -> None
          [] low[c] # None /\ mom[c] = None -> 2 * LowerRisk(low, c)
          [] low[c] = None /\ mom[c] # None -> 2 * LowerRisk(mom, c)
          [] OTHER -> LowerRisk(low, c) + LowerRisk(mom, c)
    BY DEF EnergyScore
<1> HIDE DEF low, mom
<1>4. IsScore(EnergyScore(p, c))
    BY <1>1, <1>2, <1>3 DEF IsScore, Hundred
<1>5. QED
    BY <1>4 DEF EnergyOfV2

-----------------------------------------------------------------------------
(* Rows.                                                                   *)

\* A record of five component scores.
IsScores(s) ==
    /\ s = [pace |-> s.pace, coupling |-> s.coupling,
            volatility |-> s.volatility, energy |-> s.energy,
            forward_downside |-> s.forward_downside]
    /\ IsScore(s.pace) /\ IsScore(s.coupling) /\ IsScore(s.volatility)
    /\ IsScore(s.energy) /\ IsScore(s.forward_downside)

\* It is a record of the type.
LEMMA ScoresTyped ==
    ASSUME NEW s, IsScores(s)
    PROVE  s \in Scores
    BY DEF IsScores, IsScore, Scores

\* Both versions score the components so.
LEMMA ScoresBound ==
    ASSUME NEW p \in [Countries -> Observed], NEW c \in Countries
    PROVE  IsScores(ScoresV1(p, c)) /\ IsScores(ScoresV2(p, c))
<1>1. ASSUME NEW energy, IsScore(energy)
      PROVE  IsScores(Core(p, c, energy))
  <2>1. /\ IsScore(Score(Column(p, Pace), c))
        /\ IsScore(Score(Column(p, Coupling), c))
        /\ IsScore(Score(Column(p, Volatility), c))
        /\ IsScore(Score(Forward(p), c))
      BY PanelColumns, ForwardColumn, ScoreBound
  <2>2. QED
      BY <1>1, <2>1 DEF IsScores, Core
<1>2. IsScore(None)
    BY DEF IsScore
<1>3. QED
    BY <1>1, <1>2, EnergyBound DEF ScoresV1, ScoresV2

\* One component adds at most its weight times Hundred.
LEMMA TermBound ==
    ASSUME NEW k \in DOMAIN Weight, NEW s, IsScore(s)
    PROVE  /\ WeightOf(k, s) \in {0, Weight[k]}
           /\ PointsOf(k, s) \in Nat
           /\ PointsOf(k, s) <= Hundred * WeightOf(k, s)
<1>1. Hundred \in Nat /\ Weight[k] \in Nat
    BY RiskScoreAssumption DEF Hundred, Weight
<1>2. CASE s = None
    BY <1>1, <1>2 DEF WeightOf, PointsOf
<1>3. CASE s # None
  <2>1. s \in Nat /\ s <= Hundred
      BY <1>1, <1>3 DEF IsScore
  <2>2. s * Weight[k] <= Hundred * Weight[k]
      BY <1>1, <2>1, Monotone
  <2>3. s * Weight[k] \in Nat /\ Weight[k] * s = s * Weight[k]
      BY <1>1, <2>1
  <2>4. QED
      BY <1>3, <2>2, <2>3 DEF WeightOf, PointsOf
<1>4. QED
    BY <1>2, <1>3

\* The sum of the five terms: a weight of at most 100 percent, and points of
\* at most Hundred times the weight.
LEMMA SumBound ==
    ASSUME NEW s, IsScores(s)
    PROVE  /\ SumOf(WeightOf, s) \in 0..100
           /\ SumOf(PointsOf, s) \in Nat
           /\ SumOf(PointsOf, s) <= Hundred * SumOf(WeightOf, s)
<1>1. DOMAIN Weight = {"pace", "coupling", "volatility", "energy", "forward_downside"}
    BY DEF Weight
<1> DEFINE w1 == WeightOf("pace", s.pace)
           w2 == WeightOf("coupling", s.coupling)
           w3 == WeightOf("volatility", s.volatility)
           w4 == WeightOf("energy", s.energy)
           w5 == WeightOf("forward_downside", s.forward_downside)
           p1 == PointsOf("pace", s.pace)
           p2 == PointsOf("coupling", s.coupling)
           p3 == PointsOf("volatility", s.volatility)
           p4 == PointsOf("energy", s.energy)
           p5 == PointsOf("forward_downside", s.forward_downside)
<1>2. /\ w1 \in {0, 25} /\ p1 \in Nat /\ p1 <= Hundred * w1
      /\ w2 \in {0, 20} /\ p2 \in Nat /\ p2 <= Hundred * w2
      /\ w3 \in {0, 15} /\ p3 \in Nat /\ p3 <= Hundred * w3
      /\ w4 \in {0, 20} /\ p4 \in Nat /\ p4 <= Hundred * w4
      /\ w5 \in {0, 20} /\ p5 \in Nat /\ p5 <= Hundred * w5
    BY <1>1, TermBound DEF IsScores, Weight
<1>3. /\ SumOf(WeightOf, s) = w1 + w2 + w3 + w4 + w5
      /\ SumOf(PointsOf, s) = p1 + p2 + p3 + p4 + p5
    BY DEF SumOf
<1>4. Hundred \in Nat
    BY RiskScoreAssumption DEF Hundred
<1> HIDE DEF w1, w2, w3, w4, w5, p1, p2, p3, p4, p5
<1>5. Hundred * (w1 + w2 + w3 + w4 + w5)
        = Hundred * w1 + Hundred * w2 + Hundred * w3 + Hundred * w4 + Hundred * w5
    BY <1>2, <1>4
<1>6. /\ Hundred * w1 \in Nat /\ Hundred * w2 \in Nat /\ Hundred * w3 \in Nat
      /\ Hundred * w4 \in Nat /\ Hundred * w5 \in Nat
    BY <1>2, <1>4
<1>7. w1 + w2 + w3 + w4 + w5 \in 0..100
    BY <1>2
<1>8. QED
    BY <1>2, <1>3, <1>5, <1>6, <1>7

-----------------------------------------------------------------------------
(* Tables.                                                                 *)

\* What TypeOK says of one table.
IsTable(table) ==
    /\ DOMAIN table \subseteq Countries
    /\ \A c \in DOMAIN table :
        /\ table[c] \in Rows
        /\ table[c].points <= Hundred * table[c].weight

\* A computed table, and the empty one, are tables.
LEMMA TablesAreTables ==
    ASSUME NEW p \in [Countries -> Observed]
    PROVE  IsTable(Table1(p)) /\ IsTable(Table2(p)) /\ IsTable(Empty)
<1>1. IsTable(Table1(p))
  <2>1. ASSUME NEW c \in Scored1(p)
        PROVE  /\ Row1(p, c) \in Rows
               /\ Row1(p, c).points <= Hundred * Row1(p, c).weight
    <3>1. c \in Countries /\ SumOf(WeightOf, ScoresV1(p, c)) # 0
        BY DEF Scored1, Row1
    <3>2. QED
        BY <3>1, ScoresBound, SumBound, ScoresTyped DEF Row1, Rows
  <2>2. Scored1(p) \subseteq Countries
      BY DEF Scored1
  <2>3. QED
      BY <2>1, <2>2 DEF IsTable, Table1
<1>2. IsTable(Table2(p))
  <2>1. ASSUME NEW c \in Scored2(p)
        PROVE  /\ Row2(p, c) \in Rows
               /\ Row2(p, c).points <= Hundred * Row2(p, c).weight
    <3>1. c \in Countries /\ SumOf(WeightOf, ScoresV2(p, c)) # 0
        BY DEF Scored2, Row2, WeightV2
    <3>2. QED
        BY <3>1, ScoresBound, SumBound, ScoresTyped DEF Row2, WeightV2, Rows
  <2>2. Scored2(p) \subseteq Countries
      BY DEF Scored2
  <2>3. QED
      BY <2>1, <2>2 DEF IsTable, Table2
<1>3. IsTable(Empty)
    BY DEF IsTable, Empty
<1>4. QED
    BY <1>1, <1>2, <1>3

\* The tables are those of the panel, whenever score writes them.
Current ==
    /\ WritesV1(panel) => v1 = Table1(panel)
    /\ WritesV2(panel) => v2 = Table2(panel)

Inv == TypeOK /\ Current

\* The invariant holds after the first score.
LEMMA InitInv == Init => Inv
<1> SUFFICES ASSUME Init PROVE Inv
    OBVIOUS
<1>1. panel \in [Countries -> Observed]
    BY DEF Init
<1>2. IsTable(v1) /\ IsTable(v2)
    BY <1>1, TablesAreTables DEF Init
<1>3. QED
    BY <1>1, <1>2 DEF Init, Inv, TypeOK, IsTable, Current

\* Every later score keeps it.
LEMMA NextInv == Inv /\ [Next]_vars => Inv'
<1> SUFFICES ASSUME Inv, [Next]_vars PROVE Inv'
    OBVIOUS
<1>1. CASE UNCHANGED vars
    BY <1>1 DEF Inv, TypeOK, Current, vars, WritesV1, WritesV2, Table1, Table2,
                Rows, Scores, Hundred
<1>2. ASSUME NEW c \in Countries, Rescore(c)
      PROVE  Inv'
  <2>1. PICK m \in Observed : panel' = [panel EXCEPT ![c] = m]
      BY <1>2 DEF Rescore
  <2>2. panel' \in [Countries -> Observed]
      BY <2>1 DEF Inv, TypeOK
  <2>3. IsTable(v1) /\ IsTable(v2)
      BY DEF Inv, TypeOK, IsTable
  <2>4. /\ v1' = IF WritesV1(panel') THEN Table1(panel') ELSE v1
        /\ v2' = IF WritesV2(panel') THEN Table2(panel') ELSE v2
      BY <1>2 DEF Rescore
  <2>5. IsTable(v1') /\ IsTable(v2')
      BY <2>2, <2>3, <2>4, TablesAreTables
  <2>6. QED
      BY <2>2, <2>4, <2>5 DEF Inv, TypeOK, IsTable, Current
<1>3. QED
    BY <1>1, <1>2 DEF Next

\* Every total ever written is a score between 0 and 100 (risk_score.py and
\* risk_score_v2_energy.py, and the tests of the range of their scores).
THEOREM ScoreTypeCorrect == Spec => []TypeOK
<1>1. Inv => TypeOK
    BY DEF Inv
<1>2. QED
    BY <1>1, InitInv, NextInv, PTL DEF Spec

\* v2 adds one term to the sums of v1, and nothing without an energy score.
LEMMA EnergyIsAdded ==
    ASSUME NEW p \in [Countries -> Observed], NEW c \in Countries
    PROVE  /\ Row2(p, c).weight = Row1(p, c).weight + WeightOf("energy", EnergyScore(p, c))
           /\ Row2(p, c).points = Row1(p, c).points + PointsOf("energy", EnergyScore(p, c))
           /\ Row1(p, c).weight \in Nat /\ Row1(p, c).points \in Nat
           /\ WeightOf("energy", EnergyScore(p, c)) \in Nat
<1> DEFINE e == EnergyScore(p, c)
           s == Core(p, c, None)
           t == Core(p, c, e)
<1>1. /\ Row1(p, c).weight = SumOf(WeightOf, s) /\ Row1(p, c).points = SumOf(PointsOf, s)
      /\ Row2(p, c).weight = SumOf(WeightOf, t) /\ Row2(p, c).points = SumOf(PointsOf, t)
    BY DEF Row1, Row2, WeightV2, ScoresV1, ScoresV2, EnergyOfV2
<1>2. /\ t.pace = s.pace /\ t.coupling = s.coupling /\ t.volatility = s.volatility
      /\ t.forward_downside = s.forward_downside
      /\ s.energy = None /\ t.energy = e
    BY DEF Core
<1>3. IsScores(s) /\ IsScores(t)
    BY ScoresBound DEF ScoresV1, ScoresV2, EnergyOfV2
<1>4. \A k \in DOMAIN Weight : WeightOf(k, None) = 0 /\ PointsOf(k, None) = 0
    BY DEF WeightOf, PointsOf
<1>5. DOMAIN Weight = {"pace", "coupling", "volatility", "energy", "forward_downside"}
    BY DEF Weight
<1>6. \A k \in DOMAIN Weight : \A x : IsScore(x) =>
        WeightOf(k, x) \in Nat /\ PointsOf(k, x) \in Nat
  <2>1. \A k \in DOMAIN Weight : Weight[k] \in Nat
      BY DEF Weight
  <2>2. QED
      BY <2>1, TermBound
<1> HIDE DEF s, t, e
<1>7. /\ SumOf(WeightOf, t) = SumOf(WeightOf, s) + WeightOf("energy", e)
      /\ SumOf(PointsOf, t) = SumOf(PointsOf, s) + PointsOf("energy", e)
    BY <1>2, <1>3, <1>4, <1>5, <1>6 DEF SumOf, IsScores
<1>8. SumOf(WeightOf, s) \in Nat /\ SumOf(PointsOf, s) \in Nat
    BY <1>3, SumBound
<1>9. WeightOf("energy", e) \in Nat
    BY <1>2, <1>3, <1>5, <1>6 DEF IsScores
<1>10. QED
    BY <1>1, <1>7, <1>8, <1>9 DEF e

\* A mean lies between its two parts.
LEMMA MeanBetween ==
    ASSUME NEW p \in Nat, NEW w \in Nat, NEW e \in Nat, NEW k \in Nat
    PROVE  LET whole == [points |-> p + k * e, weight |-> w + k]
               core  == [points |-> p, weight |-> w]
               part  == [points |-> e, weight |-> 1]
           IN  \/ AtLeast(part, whole) /\ AtLeast(whole, core)
               \/ AtLeast(core, whole) /\ AtLeast(whole, part)
<1> DEFINE ke == k * e
           ew == e * w
<1>1. ke \in Nat /\ ew \in Nat /\ e * (w + k) = ew + ke /\ (p + ke) * 1 = p + ke
    OBVIOUS
<1>2. (p + ke) * w = p * w + k * ew /\ p * (w + k) = p * w + k * p
    OBVIOUS
<1>3. CASE p <= ew
  <2>1. p * k <= ew * k
      BY <1>1, <1>3, Monotone
  <2>2. e * (w + k) >= (p + ke) * 1
      BY <1>1, <1>3
  <2>3. (p + ke) * w >= p * (w + k)
      BY <1>1, <1>2, <2>1
  <2>4. QED
      BY <2>2, <2>3 DEF AtLeast
<1>4. CASE p >= ew
  <2>1. ew * k <= p * k
      BY <1>1, <1>4, Monotone
  <2>2. (p + ke) * 1 >= e * (w + k)
      BY <1>1, <1>4
  <2>3. p * (w + k) >= (p + ke) * w
      BY <1>1, <1>2, <2>1
  <2>4. QED
      BY <2>2, <2>3 DEF AtLeast
<1>5. QED
    BY <1>1, <1>3, <1>4

\* v2 scores every country that v1 scores, and without energy data with the
\* same total (cli.py computes both and build_country_overview joins v1 to v2).
THEOREM Degrades == Spec => []DegradesToV1
<1>1. Inv => DegradesToV1
  <2> SUFFICES ASSUME Inv, WritesV2(panel), NEW c \in DOMAIN v1
      PROVE  /\ c \in DOMAIN v2
             /\ EnergyScore(panel, c) = None =>
                  AtLeast(v1[c], v2[c]) /\ AtLeast(v2[c], v1[c])
      BY DEF DegradesToV1
  <2>1. panel \in [Countries -> Observed]
      BY DEF Inv, TypeOK
  <2>2. v1 = Table1(panel) /\ v2 = Table2(panel)
      BY DEF Inv, Current, WritesV2
  <2>3. c \in Countries /\ v1[c] = Row1(panel, c) /\ Row1(panel, c).weight # 0
      BY <2>2 DEF Table1, Scored1
  <2>4. Row2(panel, c).weight # 0
      BY <2>1, <2>3, EnergyIsAdded
  <2>5. c \in DOMAIN v2 /\ v2[c] = Row2(panel, c)
      BY <2>2, <2>3, <2>4 DEF Table2, Scored2
  <2>6. ASSUME EnergyScore(panel, c) = None
        PROVE  v2[c].points = v1[c].points /\ v2[c].weight = v1[c].weight
      BY <2>1, <2>3, <2>5, <2>6, EnergyIsAdded DEF WeightOf, PointsOf
  <2>7. v1[c].points \in Nat /\ v1[c].weight \in Nat
      BY <2>1, <2>3, EnergyIsAdded
  <2>8. QED
      BY <2>5, <2>6, <2>7 DEF AtLeast
<1>2. QED
    BY <1>1, InitInv, NextInv, PTL DEF Spec

\* Energy data move a total towards the energy score and never beyond it
\* (compute_risk_scores_v2 renormalises the weights that are there).
THEOREM Pulls == Spec => []EnergyPulls
<1>1. Inv => EnergyPulls
  <2> SUFFICES ASSUME Inv, WritesV2(panel), NEW c \in DOMAIN v1 \cap DOMAIN v2,
                      v2[c].scores.energy # None
      PROVE  LET energy == [points |-> v2[c].scores.energy, weight |-> 1]
             IN  \/ AtLeast(energy, v2[c]) /\ AtLeast(v2[c], v1[c])
                 \/ AtLeast(v1[c], v2[c]) /\ AtLeast(v2[c], energy)
      BY DEF EnergyPulls
  <2> DEFINE e == EnergyScore(panel, c)
             p == Row1(panel, c).points
             w == Row1(panel, c).weight
  <2>1. panel \in [Countries -> Observed]
      BY DEF Inv, TypeOK
  <2>2. v1 = Table1(panel) /\ v2 = Table2(panel)
      BY DEF Inv, Current, WritesV2
  <2>3. c \in Countries /\ v1[c] = Row1(panel, c) /\ v2[c] = Row2(panel, c)
      BY <2>2 DEF Table1, Scored1, Table2, Scored2
  <2>4. v2[c].scores.energy = e
      BY <2>3 DEF Row2, ScoresV2, Core, EnergyOfV2
  <2>5. e \in Nat
      BY <2>1, <2>3, <2>4, EnergyBound, RiskScoreAssumption DEF IsScore, Hundred
  <2>6. /\ v2[c].points = p + 20 * e /\ v2[c].weight = w + 20
        /\ p \in Nat /\ w \in Nat
    <3>1. WeightOf("energy", e) = 20 /\ PointsOf("energy", e) = 20 * e
        BY <2>4 DEF WeightOf, PointsOf, Weight
    <3>2. QED
        BY <2>1, <2>3, <3>1, EnergyIsAdded
  <2> HIDE DEF e, p, w
  <2>7. LET whole == [points |-> p + 20 * e, weight |-> w + 20]
            core  == [points |-> p, weight |-> w]
            part  == [points |-> e, weight |-> 1]
        IN  \/ AtLeast(part, whole) /\ AtLeast(whole, core)
            \/ AtLeast(core, whole) /\ AtLeast(whole, part)
      BY <2>5, <2>6, MeanBetween
  <2>8. v1[c].points = p /\ v1[c].weight = w
      BY <2>3 DEF p, w
  <2>9. QED
      BY <2>4, <2>6, <2>7, <2>8 DEF AtLeast
<1>2. QED
    BY <1>1, InitInv, NextInv, PTL DEF Spec

-----------------------------------------------------------------------------
(* Worse metrics.                                                          *)

\* The same values are missing from both columns.
SameMissing(x, y) == \A d \in Countries : x[d] = None <=> y[d] = None

\* A rank does not fall when whoever was below, or not above, still is so.
LEMMA RankGrows ==
    ASSUME NEW x \in Columns, NEW y \in Columns, SameMissing(x, y),
           NEW c \in Countries, x[c] # None,
           \A d \in Countries : x[d] # None =>
                /\ x[d] < x[c] => y[d] < y[c]
                /\ x[d] <= x[c] => y[d] <= y[c]
    PROVE  Percentile(x, c) <= Percentile(y, c)
<1> DEFINE valid == {d \in Countries : x[d] # None}
           bx == {d \in valid : x[d] < x[c]}
           ex == {d \in valid : x[d] = x[c]}
           by == {d \in valid : y[d] < y[c]}
           ey == {d \in valid : y[d] = y[c]}
           n == Cardinality(valid)
           q == Unit \div n
<1>1. IsFiniteSet(Countries) /\ Unit \in Nat \ {0}
    BY RiskScoreAssumption
<1>2. IsFiniteSet(valid) /\ n \in Nat /\ n <= Cardinality(Countries)
    BY <1>1, FS_Subset, FS_CardinalityType
<1>3. /\ IsFiniteSet(bx) /\ Cardinality(bx) \in Nat
      /\ IsFiniteSet(ex) /\ Cardinality(ex) \in Nat
      /\ IsFiniteSet(by) /\ Cardinality(by) \in Nat
      /\ IsFiniteSet(ey) /\ Cardinality(ey) \in Nat
    BY <1>2, FS_Subset, FS_CardinalityType
<1>4. \A d \in valid : x[d] \in Int /\ y[d] \in Int
    BY DEF Columns, SameMissing
<1>5. c \in valid
    OBVIOUS
<1>6. bx \cap ex = {} /\ by \cap ey = {}
    BY <1>4, <1>5
<1>7. bx \subseteq by
    OBVIOUS
<1>8. bx \cup ex \subseteq by \cup ey
  <2> SUFFICES ASSUME NEW d \in bx \cup ex
               PROVE  d \in by \cup ey
      OBVIOUS
  <2>1. d \in valid /\ x[d] <= x[c]
      BY <1>4, <1>5
  <2>2. y[d] <= y[c]
      BY <2>1
  <2>3. QED
      BY <1>4, <1>5, <2>1, <2>2
<1> HIDE DEF bx, ex, by, ey
<1>9. Cardinality(bx) <= Cardinality(by)
    BY <1>3, <1>7, FS_Subset
<1>10. Cardinality(bx \cup ex) <= Cardinality(by \cup ey)
    BY <1>3, <1>8, FS_Subset, FS_Union
<1>11. Cardinality(bx \cap ex) = 0 /\ Cardinality(by \cap ey) = 0
    BY <1>6, FS_EmptySet
<1>12. /\ Cardinality(bx \cup ex) = Cardinality(bx) + Cardinality(ex)
       /\ Cardinality(by \cup ey) = Cardinality(by) + Cardinality(ey)
  <2>1. Cardinality(bx \cup ex)
            = Cardinality(bx) + Cardinality(ex) - Cardinality(bx \cap ex)
      BY <1>3, FS_Union
  <2>2. Cardinality(by \cup ey)
            = Cardinality(by) + Cardinality(ey) - Cardinality(by \cap ey)
      BY <1>3, FS_Union
  <2>3. QED
      BY <1>3, <1>11, <2>1, <2>2
<1>13. n # 0
    BY <1>2, <1>5, FS_EmptySet
<1>14. n \in 1..Cardinality(Countries)
    BY <1>1, <1>2, <1>13, FS_CardinalityType
<1>15. q \in Nat
    BY <1>1, <1>14
<1>16. (2 * Cardinality(bx) + Cardinality(ex) + 1) * q
           <= (2 * Cardinality(by) + Cardinality(ey) + 1) * q
  <2>1. 2 * Cardinality(bx) + Cardinality(ex) + 1
            <= 2 * Cardinality(by) + Cardinality(ey) + 1
      BY <1>3, <1>9, <1>10, <1>12
  <2>2. QED
      BY <1>3, <1>15, <2>1, Monotone
<1>17. Percentile(x, c) = (2 * Cardinality(bx) + Cardinality(ex) + 1) * q
    BY DEF Percentile, bx, ex
<1>18. Percentile(y, c) = (2 * Cardinality(by) + Cardinality(ey) + 1) * q
  <2>1. valid = {d \in Countries : y[d] # None}
      BY DEF SameMissing
  <2>2. QED
      BY <2>1 DEF Percentile, by, ey
<1>19. QED
    BY <1>16, <1>17, <1>18

\* From x to y the value of c does not fall, and the others do not rise.
Lifts(x, y, c) ==
    /\ SameMissing(x, y)
    /\ x[c] # None => x[c] <= y[c]
    /\ \A d \in Countries \ {c} : x[d] # None => y[d] <= x[d]

\* The others even stay what they are.
LiftsOnly(x, y, c) ==
    /\ Lifts(x, y, c)
    /\ \A d \in Countries \ {c} : y[d] = x[d]

\* The rank of c does not fall then.
LEMMA OwnRank ==
    ASSUME NEW x \in Columns, NEW y \in Columns, NEW c \in Countries,
           Lifts(x, y, c), x[c] # None
    PROVE  Percentile(x, c) <= Percentile(y, c)
<1>1. SameMissing(x, y)
    BY DEF Lifts
<1>2. \A d \in Countries : x[d] # None => x[d] \in Int /\ y[d] \in Int
    BY DEF Columns, Lifts, SameMissing
<1>3. \A d \in Countries : x[d] # None =>
            /\ x[d] < x[c] => y[d] < y[c]
            /\ x[d] <= x[c] => y[d] <= y[c]
    BY <1>2 DEF Lifts
<1>4. QED
    BY <1>1, <1>3, RankGrows

\* And no other rank rises when only c does.
LEMMA OtherRanks ==
    ASSUME NEW x \in Columns, NEW y \in Columns, NEW c \in Countries,
           LiftsOnly(x, y, c), NEW d \in Countries \ {c}, x[d] # None
    PROVE  Percentile(y, d) <= Percentile(x, d)
<1>1. SameMissing(y, x) /\ y[d] # None
    BY DEF LiftsOnly, Lifts, SameMissing
<1>2. \A e \in Countries : y[e] # None => x[e] \in Int /\ y[e] \in Int /\ x[e] <= y[e]
    BY DEF Columns, LiftsOnly, Lifts, SameMissing
<1>3. \A e \in Countries : y[e] # None =>
            /\ y[e] < y[d] => x[e] < x[d]
            /\ y[e] <= y[d] => x[e] <= x[d]
    BY <1>1, <1>2 DEF LiftsOnly
<1>4. QED
    BY <1>1, <1>3, RankGrows

\* So the score of c does not fall,
LEMMA OwnScore ==
    ASSUME NEW x \in Columns, NEW y \in Columns, NEW c \in Countries, Lifts(x, y, c)
    PROVE  NotBetter(Score(x, c), Score(y, c))
<1>1. CASE x[c] = None
    BY <1>1 DEF Lifts, SameMissing, Score, NotBetter
<1>2. CASE x[c] # None
  <2>1. y[c] # None
      BY <1>2 DEF Lifts, SameMissing
  <2>2. Percentile(x, c) \in Int /\ Percentile(y, c) \in Int
      BY <1>2, <2>1, PercentileBound, RiskScoreAssumption
  <2>3. Score(x, c) = 2 * Percentile(x, c) /\ Score(y, c) = 2 * Percentile(y, c)
      BY <1>2, <2>1 DEF Score
  <2>4. Percentile(x, c) <= Percentile(y, c)
      BY <1>2, OwnRank
  <2>5. QED
      BY <2>2, <2>3, <2>4, NoneIsMissing DEF NotBetter
<1>3. QED
    BY <1>1, <1>2

\* and no other one rises.
LEMMA OtherScores ==
    ASSUME NEW x \in Columns, NEW y \in Columns, NEW c \in Countries,
           LiftsOnly(x, y, c), NEW d \in Countries \ {c}
    PROVE  NotBetter(Score(y, d), Score(x, d))
<1>1. CASE x[d] = None
    BY <1>1 DEF LiftsOnly, Score, NotBetter
<1>2. CASE x[d] # None
  <2>1. y[d] # None
      BY <1>2 DEF LiftsOnly
  <2>2. Percentile(x, d) \in Int /\ Percentile(y, d) \in Int
      BY <1>2, <2>1, PercentileBound, RiskScoreAssumption
  <2>3. Score(x, d) = 2 * Percentile(x, d) /\ Score(y, d) = 2 * Percentile(y, d)
      BY <1>2, <2>1 DEF Score
  <2>4. Percentile(y, d) <= Percentile(x, d)
      BY <1>2, OtherRanks
  <2>5. QED
      BY <2>2, <2>3, <2>4, NoneIsMissing DEF NotBetter
<1>3. QED
    BY <1>1, <1>2

\* From the panel p to q the metrics of c get worse, all else equal.
Worse(p, q, c) ==
    /\ Worsens(p[c], q[c])
    /\ \A d \in Countries \ {c} : q[d] = p[d]

\* Then c rises alone in each column of risk, and sinks alone in the columns of
\* energy, where higher is better.
LEMMA WorseColumns ==
    ASSUME NEW p \in [Countries -> Observed], NEW q \in [Countries -> Observed],
           NEW c \in Countries, Worse(p, q, c)
    PROVE  /\ LiftsOnly(Column(p, Pace), Column(q, Pace), c)
           /\ LiftsOnly(Column(p, Coupling), Column(q, Coupling), c)
           /\ LiftsOnly(Column(p, Volatility), Column(q, Volatility), c)
           /\ LiftsOnly(Column(p, Width), Column(q, Width), c)
           /\ LiftsOnly(Column(q, LowCarbon), Column(p, LowCarbon), c)
           /\ LiftsOnly(Column(q, Momentum), Column(p, Momentum), c)
<1>1. /\ \A d \in Countries \ {c} : q[d] = p[d]
      /\ Worsens(p[c], q[c])
    BY DEF Worse
<1>2. ASSUME NEW x \in Columns, NEW y \in Columns, NotBetter(x[c], y[c]),
             \A d \in Countries \ {c} : y[d] = x[d]
      PROVE  LiftsOnly(x, y, c) 
  <2>1. x[c] \in Int \cup {None} /\ y[c] \in Int \cup {None}
      BY <1>2 DEF Columns
  <2>2. (x[c] = None <=> y[c] = None) /\ (x[c] # None => x[c] <= y[c])
      BY <1>2, <2>1 DEF NotBetter
  <2>3. \A d \in Countries \ {c} : x[d] # None => y[d] \in Int /\ y[d] <= x[d]
      BY <1>2 DEF Columns
  <2>4. QED
      BY <1>2, <2>2, <2>3 DEF LiftsOnly, Lifts, SameMissing
<1>3. /\ Column(p, Pace) \in Columns /\ Column(q, Pace) \in Columns
      /\ Column(p, Coupling) \in Columns /\ Column(q, Coupling) \in Columns
      /\ Column(p, Volatility) \in Columns /\ Column(q, Volatility) \in Columns
      /\ Column(p, Width) \in Columns /\ Column(q, Width) \in Columns
      /\ Column(p, LowCarbon) \in Columns /\ Column(q, LowCarbon) \in Columns
      /\ Column(p, Momentum) \in Columns /\ Column(q, Momentum) \in Columns
    BY PanelColumns
<1>4. \A d \in Countries \ {c} :
            /\ Column(q, Pace)[d] = Column(p, Pace)[d]
            /\ Column(q, Coupling)[d] = Column(p, Coupling)[d]
            /\ Column(q, Volatility)[d] = Column(p, Volatility)[d]
            /\ Column(q, Width)[d] = Column(p, Width)[d]
            /\ Column(q, LowCarbon)[d] = Column(p, LowCarbon)[d]
            /\ Column(q, Momentum)[d] = Column(p, Momentum)[d]
    BY <1>1 DEF Column
<1>5. /\ NotBetter(Column(p, Pace)[c], Column(q, Pace)[c])
      /\ NotBetter(Column(p, Coupling)[c], Column(q, Coupling)[c])
      /\ NotBetter(Column(p, Volatility)[c], Column(q, Volatility)[c])
    BY <1>1 DEF Column, Worsens, Pace, Coupling, Volatility
<1>6. NotBetter(Column(p, Width)[c], Column(q, Width)[c])
  <2>1. p[c] \in Metrics /\ q[c] \in Metrics
      BY RiskScoreAssumption
  <2>2. CASE p[c].forward = None
      BY <1>1, <2>2 DEF Worsens, Column, Width, NotBetter
  <2>3. CASE p[c].forward # None
    <3>1. q[c].forward # None /\ q[c].forward.width >= p[c].forward.width
        BY <1>1, <2>3 DEF Worsens
    <3>2. q[c].forward.width \in Values /\ p[c].forward.width \in Values
        BY <2>1, <2>3, <3>1 DEF Metrics
    <3>3. q[c].forward.width # None /\ p[c].forward.width # None
        BY <3>2, NoneIsMissing DEF Values
    <3>4. QED
        BY <2>3, <3>1, <3>3 DEF Column, Width, NotBetter
  <2>4. QED
      BY <2>2, <2>3
<1>7. /\ NotBetter(Column(q, LowCarbon)[c], Column(p, LowCarbon)[c])
      /\ NotBetter(Column(q, Momentum)[c], Column(p, Momentum)[c])
  <2>1. CASE p[c].energy = None
      BY <1>1, <2>1 DEF Worsens, Column, LowCarbon, Momentum, NotBetter
  <2>2. CASE p[c].energy # None
      BY <1>1, <2>2 DEF Worsens, Column, LowCarbon, Momentum
  <2>3. QED
      BY <2>1, <2>2
<1>8. QED
    BY <1>2, <1>3, <1>4, <1>5, <1>6, <1>7

\* The forward column follows its probability and its ranks of the widths: a
\* wider interval of c can lower the others.
LEMMA WorseForward ==
    ASSUME NEW p \in [Countries -> Observed], NEW q \in [Countries -> Observed],
           NEW c \in Countries, Worse(p, q, c)
    PROVE  /\ Lifts(Forward(p), Forward(q), c)
           /\ Width(q[c]) = Width(p[c]) => LiftsOnly(Forward(p), Forward(q), c)
<1> DEFINE v == Column(p, Width)
           w == Column(q, Width)
           points(m, percentile) == 14 * Unit * m.forward.prob + 3 * MaxValue * percentile
<1>1. v \in Columns /\ w \in Columns /\ LiftsOnly(v, w, c)
    BY PanelColumns, WorseColumns
<1>2. Unit \in Nat /\ MaxValue \in Nat
    BY RiskScoreAssumption
<1>3. \A d \in Countries :
        /\ Forward(p)[d] = IF p[d].forward = None THEN None ELSE points(p[d], Percentile(v, d))
        /\ Forward(q)[d] = IF q[d].forward = None THEN None ELSE points(q[d], Percentile(w, d))
    BY DEF Forward
<1>4. \A d \in Countries \ {c} : q[d] = p[d]
    BY DEF Worse
<1>5. (p[c].forward = None <=> q[c].forward = None)
    BY DEF Worse, Worsens
<1>6. ASSUME NEW d \in Countries, NEW m \in Observed, m.forward # None
      PROVE  /\ m.forward.prob \in Nat /\ Width(m) \in Nat /\ Width(m) # None
    BY <1>2, <1>6, RiskScoreAssumption, NoneIsMissing DEF Metrics, Values, Width
<1>7. \A d \in Countries :
        /\ p[d].forward # None => p[d].forward.prob \in Nat /\ v[d] # None
        /\ q[d].forward # None => q[d].forward.prob \in Nat /\ w[d] # None
    BY <1>6 DEF Column
<1>8. \A d \in Countries :
        /\ p[d].forward # None => Percentile(v, d) \in Nat
        /\ q[d].forward # None => Percentile(w, d) \in Nat
    BY <1>1, <1>2, <1>7, PercentileBound
<1>9. \A a, b \in Nat : a <= b => 3 * MaxValue * a <= 3 * MaxValue * b
  <2> SUFFICES ASSUME NEW a \in Nat, NEW b \in Nat, a <= b
               PROVE  3 * MaxValue * a <= 3 * MaxValue * b
      OBVIOUS
  <2>1. a * (3 * MaxValue) <= b * (3 * MaxValue)
      BY <1>2, Monotone
  <2>2. QED
      BY <1>2, <2>1
<1>10. \A a, b \in Nat : a <= b => 14 * Unit * a <= 14 * Unit * b
  <2> SUFFICES ASSUME NEW a \in Nat, NEW b \in Nat, a <= b
               PROVE  14 * Unit * a <= 14 * Unit * b
      OBVIOUS
  <2>1. a * (14 * Unit) <= b * (14 * Unit)
      BY <1>2, Monotone
  <2>2. QED
      BY <1>2, <2>1
<1>11. \A a, b \in Nat : 14 * Unit * a \in Nat /\ 3 * MaxValue * b \in Nat
    BY <1>2
<1>12. SameMissing(Forward(p), Forward(q))
  <2>1. \A a, b \in Nat : 14 * Unit * a + 3 * MaxValue * b \in Nat
      BY <1>11
  <2>2. \A d \in Countries : 
            /\ p[d].forward # None => points(p[d], Percentile(v, d)) \in Nat
            /\ q[d].forward # None => points(q[d], Percentile(w, d)) \in Nat
      BY <1>7, <1>8, <2>1
  <2> HIDE DEF points, v, w
  <2>3. QED
      BY <1>3, <1>4, <1>5, <2>2, NoneIsMissing DEF SameMissing
<1>13. Forward(p)[c] # None => Forward(p)[c] <= Forward(q)[c]
  <2>1. CASE p[c].forward = None
      BY <1>3, <2>1
  <2>2. CASE p[c].forward # None
    <3>1. p[c].forward.prob <= q[c].forward.prob
        BY <2>2 DEF Worse, Worsens
    <3>2. Percentile(v, c) <= Percentile(w, c)
        BY <1>1, <1>7, <2>2, OwnRank DEF LiftsOnly
    <3>3. /\ 14 * Unit * p[c].forward.prob <= 14 * Unit * q[c].forward.prob
          /\ 3 * MaxValue * Percentile(v, c) <= 3 * MaxValue * Percentile(w, c)
        BY <1>5, <1>7, <1>8, <1>9, <1>10, <2>2, <3>1, <3>2
    <3>4. /\ 14 * Unit * p[c].forward.prob \in Nat
          /\ 14 * Unit * q[c].forward.prob \in Nat
          /\ 3 * MaxValue * Percentile(v, c) \in Nat
          /\ 3 * MaxValue * Percentile(w, c) \in Nat
        BY <1>5, <1>7, <1>8, <1>11, <2>2
    <3>5. points(p[c], Percentile(v, c)) <= points(q[c], Percentile(w, c))
        BY <3>3, <3>4
    <3> HIDE DEF points, v, w
    <3>6. QED
        BY <1>3, <1>5, <2>2, <3>5
  <2>3. QED
      BY <2>1, <2>2
<1>14. \A d \in Countries \ {c} : Forward(p)[d] # None => Forward(q)[d] <= Forward(p)[d]
  <2> SUFFICES ASSUME NEW d \in Countries \ {c}, Forward(p)[d] # None
               PROVE  Forward(q)[d] <= Forward(p)[d]
      OBVIOUS
  <2>1. p[d].forward # None /\ q[d] = p[d]
      BY <1>3, <1>4
  <2>2. Percentile(w, d) <= Percentile(v, d)
      BY <1>1, <1>7, <2>1, OtherRanks
  <2>3. 3 * MaxValue * Percentile(w, d) <= 3 * MaxValue * Percentile(v, d)
      BY <1>8, <1>9, <2>1, <2>2
  <2>4. /\ 14 * Unit * p[d].forward.prob \in Nat
        /\ 3 * MaxValue * Percentile(w, d) \in Nat
        /\ 3 * MaxValue * Percentile(v, d) \in Nat
      BY <1>7, <1>8, <1>11, <2>1
  <2>5. points(p[d], Percentile(w, d)) <= points(p[d], Percentile(v, d))
      BY <2>3, <2>4
  <2> HIDE DEF points, v, w
  <2>6. QED
      BY <1>3, <2>1, <2>5
<1>15. ASSUME Width(q[c]) = Width(p[c])
       PROVE  \A d \in Countries \ {c} : Forward(q)[d] = Forward(p)[d]
  <2>1. w = v
      BY <1>4, <1>15 DEF Column
  <2>2. QED
      BY <1>3, <1>4, <2>1
<1>16. QED
    BY <1>12, <1>13, <1>14, <1>15 DEF Lifts, LiftsOnly

\* The mean of two sub-signals, where they are there.
MeanOf(low, mom, a, b) ==
    CASE low = None /\ mom = None -> None
      [] low # None /\ mom = None -> 2 * a
      [] low = None /\ mom # None -> 2 * b
      [] OTHER -> a + b

\* It follows the sub-signals.
LEMMA MeanFollows ==
    ASSUME NEW l1, NEW l2, NEW m1, NEW m2, l1 = None <=> l2 = None, m1 = None <=> m2 = None,
           NEW a1, NEW a2, NEW b1, NEW b2,
           l1 # None => a1 \in Int /\ a2 \in Int /\ a1 <= a2,
           m1 # None => b1 \in Int /\ b2 \in Int /\ b1 <= b2
    PROVE  NotBetter(MeanOf(l1, m1, a1, b1), MeanOf(l2, m2, a2, b2))
<1>1. CASE l1 = None /\ m1 = None
    BY <1>1 DEF MeanOf, NotBetter
<1>2. CASE l1 # None /\ m1 = None
    BY <1>2, NoneIsMissing DEF MeanOf, NotBetter
<1>3. CASE l1 = None /\ m1 # None
    BY <1>3, NoneIsMissing DEF MeanOf, NotBetter
<1>4. CASE l1 # None /\ m1 # None
    BY <1>4, NoneIsMissing DEF MeanOf, NotBetter
<1>5. QED
    BY <1>1, <1>2, <1>3, <1>4

\* A country with worse energy data does not get a lower energy score, and the
\* others do not get a higher one.
LEMMA WorseEnergy ==
    ASSUME NEW p \in [Countries -> Observed], NEW q \in [Countries -> Observed],
           NEW c \in Countries, Worse(p, q, c)
    PROVE  /\ NotBetter(EnergyScore(p, c), EnergyScore(q, c))
           /\ \A d \in Countries \ {c} : NotBetter(EnergyScore(q, d), EnergyScore(p, d))
<1> DEFINE l1 == Column(p, LowCarbon)
           l2 == Column(q, LowCarbon)
           m1 == Column(p, Momentum)
           m2 == Column(q, Momentum)
<1>1. /\ \A d : EnergyScore(p, d) = MeanOf(l1[d], m1[d], LowerRisk(l1, d), LowerRisk(m1, d))
      /\ \A d : EnergyScore(q, d) = MeanOf(l2[d], m2[d], LowerRisk(l2, d), LowerRisk(m2, d))
    BY DEF EnergyScore, MeanOf
<1>2. l1 \in Columns /\ l2 \in Columns /\ m1 \in Columns /\ m2 \in Columns
    BY PanelColumns
<1>3. LiftsOnly(l2, l1, c) /\ LiftsOnly(m2, m1, c)
    BY WorseColumns
<1> HIDE DEF l1, l2, m1, m2
<1>4. ASSUME NEW x \in Columns, NEW y \in Columns, LiftsOnly(y, x, c)
      PROVE  /\ \A d \in Countries : x[d] = None <=> y[d] = None
             /\ x[c] # None => /\ LowerRisk(x, c) \in Int /\ LowerRisk(y, c) \in Int
                               /\ LowerRisk(x, c) <= LowerRisk(y, c)
             /\ \A d \in Countries \ {c} : x[d] # None =>
                    /\ LowerRisk(x, d) \in Int /\ LowerRisk(y, d) \in Int
                    /\ LowerRisk(y, d) <= LowerRisk(x, d)
  <2>1. \A d \in Countries : x[d] = None <=> y[d] = None
      BY <1>4 DEF LiftsOnly, Lifts, SameMissing
  <2>2. \A d \in Countries : x[d] # None => Percentile(x, d) \in Int /\ Percentile(y, d) \in Int
      BY <1>4, <2>1, PercentileBound, RiskScoreAssumption
  <2>3. x[c] # None => Percentile(y, c) <= Percentile(x, c)
      BY <1>4, <2>1, OwnRank DEF LiftsOnly
  <2>4. \A d \in Countries \ {c} : x[d] # None => Percentile(x, d) <= Percentile(y, d)
      BY <1>4, <2>1, OtherRanks
  <2>5. Unit \in Int
      BY RiskScoreAssumption
  <2>6. QED
      BY <2>1, <2>2, <2>3, <2>4, <2>5 DEF LowerRisk
<1>5. NotBetter(EnergyScore(p, c), EnergyScore(q, c))
    BY <1>1, <1>2, <1>3, <1>4, MeanFollows
<1>6. ASSUME NEW d \in Countries \ {c}
      PROVE  NotBetter(EnergyScore(q, d), EnergyScore(p, d))
  <2>1. /\ l2[d] = None <=> l1[d] = None
        /\ m2[d] = None <=> m1[d] = None
        /\ l2[d] # None => /\ LowerRisk(l2, d) \in Int /\ LowerRisk(l1, d) \in Int
                           /\ LowerRisk(l2, d) <= LowerRisk(l1, d)
        /\ m2[d] # None => /\ LowerRisk(m2, d) \in Int /\ LowerRisk(m1, d) \in Int
                           /\ LowerRisk(m2, d) <= LowerRisk(m1, d)
      BY <1>2, <1>3, <1>4
  <2>2. NotBetter(MeanOf(l2[d], m2[d], LowerRisk(l2, d), LowerRisk(m2, d)),
                  MeanOf(l1[d], m1[d], LowerRisk(l1, d), LowerRisk(m1, d)))
      BY <2>1, MeanFollows
  <2>3. QED
      BY <1>1, <2>2
<1>7. QED
    BY <1>5, <1>6

\* The scores s and t know the same components, and none is lower in t.
NoLower(s, t) ==
    /\ NotBetter(s.pace, t.pace) /\ NotBetter(s.coupling, t.coupling)
    /\ NotBetter(s.volatility, t.volatility) /\ NotBetter(s.energy, t.energy)
    /\ NotBetter(s.forward_downside, t.forward_downside)

\* The scores of c are no lower, and while its interval keeps its width those
\* of the others are no higher.
LEMMA WorseScores ==
    ASSUME NEW p \in [Countries -> Observed], NEW q \in [Countries -> Observed],
           NEW c \in Countries, Worse(p, q, c)
    PROVE  /\ NoLower(ScoresV1(p, c), ScoresV1(q, c))
           /\ NoLower(ScoresV2(p, c), ScoresV2(q, c))
           /\ Width(q[c]) = Width(p[c]) =>
                \A d \in Countries \ {c} : NoLower(ScoresV2(q, d), ScoresV2(p, d))
<1>1. /\ Column(p, Pace) \in Columns /\ Column(q, Pace) \in Columns
      /\ Column(p, Coupling) \in Columns /\ Column(q, Coupling) \in Columns
      /\ Column(p, Volatility) \in Columns /\ Column(q, Volatility) \in Columns
      /\ Forward(p) \in Columns /\ Forward(q) \in Columns
    BY PanelColumns, ForwardColumn
<1>2. /\ LiftsOnly(Column(p, Pace), Column(q, Pace), c)
      /\ LiftsOnly(Column(p, Coupling), Column(q, Coupling), c)
      /\ LiftsOnly(Column(p, Volatility), Column(q, Volatility), c)
    BY WorseColumns
<1>3. /\ NotBetter(Score(Column(p, Pace), c), Score(Column(q, Pace), c))
      /\ NotBetter(Score(Column(p, Coupling), c), Score(Column(q, Coupling), c))
      /\ NotBetter(Score(Column(p, Volatility), c), Score(Column(q, Volatility), c))
      /\ NotBetter(Score(Forward(p), c), Score(Forward(q), c))
    BY <1>1, <1>2, WorseForward, OwnScore DEF LiftsOnly
<1>4. NotBetter(None, None)
    BY DEF NotBetter
<1>5. NotBetter(EnergyScore(p, c), EnergyScore(q, c))
    BY WorseEnergy
<1>6. ASSUME Width(q[c]) = Width(p[c]), NEW d \in Countries \ {c}
      PROVE  NoLower(ScoresV2(q, d), ScoresV2(p, d))
  <2>1. LiftsOnly(Forward(p), Forward(q), c)
      BY <1>6, WorseForward
  <2>2. /\ NotBetter(Score(Column(q, Pace), d), Score(Column(p, Pace), d))
        /\ NotBetter(Score(Column(q, Coupling), d), Score(Column(p, Coupling), d))
        /\ NotBetter(Score(Column(q, Volatility), d), Score(Column(p, Volatility), d))
        /\ NotBetter(Score(Forward(q), d), Score(Forward(p), d))
      BY <1>1, <1>2, <2>1, OtherScores
  <2>3. NotBetter(EnergyScore(q, d), EnergyScore(p, d))
      BY WorseEnergy
  <2>4. QED
      BY <2>2, <2>3 DEF NoLower, ScoresV2, Core, EnergyOfV2
<1>7. QED
    BY <1>3, <1>4, <1>5, <1>6 DEF NoLower, ScoresV1, ScoresV2, Core, EnergyOfV2

\* No total falls when no component score does.
LEMMA SumFollows ==
    ASSUME NEW s, NEW t, IsScores(s), IsScores(t), NoLower(s, t)
    PROVE  /\ SumOf(WeightOf, s) = SumOf(WeightOf, t)
           /\ SumOf(PointsOf, s) <= SumOf(PointsOf, t)
<1>1. DOMAIN Weight = {"pace", "coupling", "volatility", "energy", "forward_downside"}
    BY DEF Weight
<1>2. ASSUME NEW k \in DOMAIN Weight, NEW a, NEW b, IsScore(a), IsScore(b), NotBetter(a, b)
      PROVE  /\ WeightOf(k, a) = WeightOf(k, b)
             /\ PointsOf(k, a) \in Nat /\ PointsOf(k, b) \in Nat
             /\ WeightOf(k, a) \in Nat
             /\ PointsOf(k, a) <= PointsOf(k, b)
  <2>1. Weight[k] \in Nat
      BY DEF Weight
  <2>2. /\ PointsOf(k, a) \in Nat /\ PointsOf(k, b) \in Nat
        /\ WeightOf(k, a) \in Nat
      BY <1>2, <2>1, TermBound
  <2>3. WeightOf(k, a) = WeightOf(k, b)
      BY <1>2 DEF WeightOf, NotBetter
  <2>4. PointsOf(k, a) <= PointsOf(k, b)
    <3>1. CASE a = None
        BY <1>2, <3>1 DEF PointsOf, NotBetter
    <3>2. CASE a # None
      <4>1. a \in Nat /\ b \in Nat /\ a <= b /\ b # None
          BY <1>2, <3>2, RiskScoreAssumption DEF IsScore, NotBetter, Hundred
      <4>2. a * Weight[k] <= b * Weight[k]
          BY <2>1, <4>1, Monotone
      <4>3. a * Weight[k] = Weight[k] * a /\ b * Weight[k] = Weight[k] * b
          BY <2>1, <4>1
      <4>4. QED
          BY <3>2, <4>1, <4>2, <4>3 DEF PointsOf
    <3>3. QED
        BY <3>1, <3>2
  <2>5. QED
      BY <2>2, <2>3, <2>4
<1>4. /\ WeightOf("pace", s.pace) = WeightOf("pace", t.pace)
      /\ WeightOf("coupling", s.coupling) = WeightOf("coupling", t.coupling)
      /\ WeightOf("volatility", s.volatility) = WeightOf("volatility", t.volatility)
      /\ WeightOf("energy", s.energy) = WeightOf("energy", t.energy)
      /\ WeightOf("forward_downside", s.forward_downside)
            = WeightOf("forward_downside", t.forward_downside)
    BY <1>1, <1>2 DEF IsScores, NoLower
<1>5. /\ PointsOf("pace", s.pace) <= PointsOf("pace", t.pace)
      /\ PointsOf("coupling", s.coupling) <= PointsOf("coupling", t.coupling)
      /\ PointsOf("volatility", s.volatility) <= PointsOf("volatility", t.volatility)
      /\ PointsOf("energy", s.energy) <= PointsOf("energy", t.energy)
      /\ PointsOf("forward_downside", s.forward_downside)
            <= PointsOf("forward_downside", t.forward_downside)
    BY <1>1, <1>2 DEF IsScores, NoLower
<1>6. \A r \in {s, t} :
        /\ PointsOf("pace", r.pace) \in Nat
        /\ PointsOf("coupling", r.coupling) \in Nat
        /\ PointsOf("volatility", r.volatility) \in Nat
        /\ PointsOf("energy", r.energy) \in Nat
        /\ PointsOf("forward_downside", r.forward_downside) \in Nat
    BY <1>1, <1>2 DEF IsScores, NoLower
<1>7. QED
    BY <1>4, <1>5, <1>6 DEF SumOf

\* What is known of a country, and so the weight of its v1 row, does not change.
LEMMA WorseWeights ==
    ASSUME NEW p \in [Countries -> Observed], NEW q \in [Countries -> Observed],
           NEW c \in Countries, Worse(p, q, c), NEW d \in Countries
    PROVE  Row1(q, d).weight = Row1(p, d).weight
<1>1. ASSUME NEW x \in Columns, NEW y \in Columns, SameMissing(x, y), NEW k
      PROVE  WeightOf(k, Score(x, d)) = WeightOf(k, Score(y, d))
  <2>1. x[d] = None <=> y[d] = None
      BY <1>1 DEF SameMissing
  <2>2. x[d] # None => Percentile(x, d) \in Nat /\ Percentile(y, d) \in Nat
      BY <1>1, <2>1, PercentileBound, RiskScoreAssumption
  <2>3. Score(x, d) = None <=> Score(y, d) = None
      BY <2>1, <2>2, NoneIsMissing DEF Score
  <2>4. QED
      BY <2>3 DEF WeightOf
<1>2. /\ Column(p, Pace) \in Columns /\ Column(q, Pace) \in Columns
      /\ Column(p, Coupling) \in Columns /\ Column(q, Coupling) \in Columns
      /\ Column(p, Volatility) \in Columns /\ Column(q, Volatility) \in Columns
      /\ Forward(p) \in Columns /\ Forward(q) \in Columns
    BY PanelColumns, ForwardColumn
<1>3. /\ SameMissing(Column(p, Pace), Column(q, Pace))
      /\ SameMissing(Column(p, Coupling), Column(q, Coupling))
      /\ SameMissing(Column(p, Volatility), Column(q, Volatility))
      /\ SameMissing(Forward(p), Forward(q))
    BY WorseColumns, WorseForward DEF LiftsOnly, Lifts
<1>4. /\ WeightOf("pace", Score(Column(p, Pace), d))
            = WeightOf("pace", Score(Column(q, Pace), d))
      /\ WeightOf("coupling", Score(Column(p, Coupling), d))
            = WeightOf("coupling", Score(Column(q, Coupling), d))
      /\ WeightOf("volatility", Score(Column(p, Volatility), d))
            = WeightOf("volatility", Score(Column(q, Volatility), d))
      /\ WeightOf("forward_downside", Score(Forward(p), d))
            = WeightOf("forward_downside", Score(Forward(q), d))
    BY <1>1, <1>2, <1>3
<1>5. QED
    BY <1>4 DEF Row1, ScoresV1, Core, SumOf

\* The same tables are written from p and q.
LEMMA WorseWrites ==
    ASSUME NEW p \in [Countries -> Observed], NEW q \in [Countries -> Observed],
           NEW c \in Countries, Worse(p, q, c)
    PROVE  /\ WritesV1(p) => WritesV1(q)
           /\ WritesV2(p) => WritesV2(q)
<1>1. Scored1(q) = Scored1(p)
    BY WorseWeights DEF Scored1
<1>2. \A d \in Countries : q[d].energy = None <=> p[d].energy = None
    BY DEF Worse, Worsens
<1>3. QED
    BY <1>1, <1>2 DEF WritesV1, WritesV2, HasEnergy

\* A lead is kept by whoever gains points from whoever does not.
LEMMA LeadKept ==
    ASSUME NEW a, NEW b, NEW e, NEW f,
           a.points \in Nat, b.points \in Nat, e.points \in Nat, f.points \in Nat,
           a.weight \in Nat, b.weight \in Nat,
           e.weight = a.weight, f.weight = b.weight,
           a.points <= e.points, f.points <= b.points, MoreThan(a, b)
    PROVE  MoreThan(e, f)
<1>1. a.points * b.weight <= e.points * b.weight
    BY Monotone
<1>2. f.points * a.weight <= b.points * a.weight
    BY Monotone
<1>3. a.points * b.weight > b.points * a.weight
    BY DEF MoreThan
<1>4. /\ a.points * b.weight \in Nat /\ e.points * b.weight \in Nat
      /\ f.points * a.weight \in Nat /\ b.points * a.weight \in Nat
    OBVIOUS
<1>5. e.points * b.weight > f.points * a.weight
    BY <1>1, <1>2, <1>3, <1>4
<1>6. QED
    BY <1>5 DEF MoreThan

\* A country whose metrics get worse, all else equal, gets no lower score and
\* keeps its lead (the percentile ranks of compute_component_scores and
\* compute_energy_component, and the renormalised weights of the totals).
THEOREM WorseningIsSeen == Spec => WorseningNeverHelps
<1> DEFINE Seen ==
        \A c \in Countries :
          /\ Worsens(panel[c], panel'[c])
          /\ \A d \in Countries \ {c} : panel'[d] = panel[d]
          => /\ WritesV1(panel) /\ c \in DOMAIN v1 => AtLeast(v1'[c], v1[c])
             /\ WritesV2(panel) /\ c \in DOMAIN v2 => AtLeast(v2'[c], v2[c])
             /\ WritesV2(panel) /\ Width(panel'[c]) = Width(panel[c]) =>
                \A d \in DOMAIN v2 :
                    c \in DOMAIN v2 /\ MoreThan(v2[c], v2[d])
                        => MoreThan(v2'[c], v2'[d])
<1>1. Inv /\ Inv' => Seen
  <2> SUFFICES ASSUME Inv, Inv', NEW c \in Countries,
                      Worsens(panel[c], panel'[c]),
                      \A d \in Countries \ {c} : panel'[d] = panel[d]
      PROVE  /\ WritesV1(panel) /\ c \in DOMAIN v1 => AtLeast(v1'[c], v1[c])
             /\ WritesV2(panel) /\ c \in DOMAIN v2 => AtLeast(v2'[c], v2[c])
             /\ WritesV2(panel) /\ Width(panel'[c]) = Width(panel[c]) =>
                \A d \in DOMAIN v2 :
                    c \in DOMAIN v2 /\ MoreThan(v2[c], v2[d])
                        => MoreThan(v2'[c], v2'[d])
      OBVIOUS
  <2> DEFINE p == panel
             q == panel'
  <2>1. p \in [Countries -> Observed] /\ q \in [Countries -> Observed] /\ Worse(p, q, c)
      BY DEF Inv, TypeOK, Worse
  <2>2. /\ WritesV1(p) => v1 = Table1(p) /\ v1' = Table1(q)
        /\ WritesV2(p) => v2 = Table2(p) /\ v2' = Table2(q)
      BY <2>1, WorseWrites DEF Inv, Current
  <2>3. ASSUME WritesV1(p), c \in DOMAIN v1
        PROVE  AtLeast(v1'[c], v1[c])
    <3>1. v1[c] = Row1(p, c) /\ Row1(p, c).weight # 0
        BY <2>2, <2>3 DEF Table1, Scored1
    <3>2. v1'[c] = Row1(q, c)
        BY <2>1, <2>2, <2>3, <3>1, WorseWeights DEF Table1, Scored1
    <3>3. /\ Row1(q, c).weight = Row1(p, c).weight /\ Row1(p, c).weight \in Nat
          /\ Row1(p, c).points <= Row1(q, c).points
          /\ Row1(p, c).points \in Nat /\ Row1(q, c).points \in Nat
        BY <2>1, WorseScores, ScoresBound, SumFollows, SumBound DEF Row1
    <3>4. Row1(p, c).points * Row1(p, c).weight <= Row1(q, c).points * Row1(p, c).weight
        BY <3>3, Monotone
    <3>5. QED
        BY <3>1, <3>2, <3>3, <3>4 DEF AtLeast
  <2>4. \A d \in Countries : Row2(p, d).weight \in Nat /\ Row2(p, d).points \in Nat
                             /\ Row2(q, d).points \in Nat
      BY <2>1, ScoresBound, SumBound DEF Row2, WeightV2
  <2>5. /\ Row2(q, c).weight = Row2(p, c).weight
        /\ Row2(p, c).points <= Row2(q, c).points
      BY <2>1, WorseScores, ScoresBound, SumFollows DEF Row2, WeightV2
  <2>6. WritesV2(p) /\ c \in DOMAIN v2 => /\ c \in Countries
                                          /\ v2[c] = Row2(p, c) /\ v2'[c] = Row2(q, c)
      BY <2>2, <2>5 DEF Table2, Scored2
  <2>7. ASSUME WritesV2(p), c \in DOMAIN v2
        PROVE  AtLeast(v2'[c], v2[c])
    <3>1. Row2(p, c).points * Row2(p, c).weight <= Row2(q, c).points * Row2(p, c).weight
        BY <2>4, <2>5, Monotone
    <3>2. QED
        BY <2>4, <2>5, <2>6, <2>7, <3>1 DEF AtLeast
  <2>8. ASSUME WritesV2(p), Width(q[c]) = Width(p[c]), NEW d \in DOMAIN v2,
               c \in DOMAIN v2, MoreThan(v2[c], v2[d])
        PROVE  MoreThan(v2'[c], v2'[d])
    <3>1. d \in Countries /\ v2[d] = Row2(p, d) /\ Row2(p, d).weight # 0
        BY <2>2, <2>8 DEF Table2, Scored2
    <3>2. d # c
      <4>1. Row2(p, c).points * Row2(p, c).weight \in Nat
          BY <2>4
      <4>2. QED
          BY <2>6, <2>8, <4>1 DEF MoreThan
    <3>3. /\ Row2(q, d).weight = Row2(p, d).weight
          /\ Row2(q, d).points <= Row2(p, d).points
        BY <2>1, <2>8, <3>1, <3>2, WorseScores, ScoresBound, SumFollows DEF Row2, WeightV2
    <3>4. v2'[d] = Row2(q, d)
        BY <2>2, <2>8, <3>1, <3>3 DEF Table2, Scored2
    <3>5. MoreThan(Row2(q, c), Row2(q, d))
      <4>1. MoreThan(Row2(p, c), Row2(p, d))
          BY <2>6, <2>8, <3>1
      <4>2. QED
          BY <2>4, <2>5, <3>1, <3>3, <4>1, LeadKept
    <3>6. QED
        BY <2>6, <2>8, <3>4, <3>5
  <2>9. QED
      BY <2>3, <2>7, <2>8
<1>2. Inv /\ Inv' => [Seen]_vars
    BY <1>1
<1>3. QED
  <2>1. Spec => []Inv
      BY InitInv, NextInv, PTL DEF Spec
  <2>2. Spec => [][Seen]_vars
      BY <1>2, <2>1, PTL
  <2>3. QED
      BY <2>2 DEF WorseningNeverHelps

-----------------------------------------------------------------------------
(* The overview.                                                           *)

\* An inequality may be divided by a positive number.
LEMMA Cancel ==
    ASSUME NEW a \in Int, NEW b \in Int, NEW q \in Nat \ {0}, a * q <= b * q
    PROVE  a <= b
<1> SUFFICES ASSUME b + 1 <= a PROVE FALSE
    OBVIOUS
<1>1. (b + 1) * q <= a * q
    BY Monotone
<1>2. (b + 1) * q = b * q + q /\ a * q \in Int /\ b * q \in Int
    OBVIOUS
<1>3. QED
    BY <1>1, <1>2

\* What is known of the totals of a row.
IsTotal(row) == row.points \in Nat /\ row.weight \in Nat \ {0}

\* A row within a limit has no row beyond it below itself.
LEMMA WithinFollows ==
    ASSUME NEW a, NEW b, IsTotal(a), IsTotal(b), NEW u \in Nat, AtLeast(a, b), Within(a, u)
    PROVE  Within(b, u)
<1> DEFINE limit == u * Hundred
<1>1. limit \in Nat
    BY RiskScoreAssumption DEF Hundred
<1>2. /\ a.points \in Nat /\ a.weight \in Nat \ {0}
      /\ b.points \in Nat /\ b.weight \in Nat \ {0}
    BY DEF IsTotal
<1>3. Hundred \in Nat
    BY RiskScoreAssumption DEF Hundred
<1>4. 100 * a.points <= limit * a.weight
    BY <1>2, <1>3 DEF Within
<1>5. b.points * a.weight <= a.points * b.weight
    BY <1>2 DEF AtLeast
<1> HIDE DEF limit
<1>6. (100 * a.points) * b.weight <= (limit * a.weight) * b.weight
  <2>1. 100 * a.points \in Int /\ limit * a.weight \in Int
      BY <1>1, <1>2
  <2>2. QED
      BY <1>2, <1>4, <2>1, Monotone
<1>7. /\ (100 * b.points) * a.weight = 100 * (b.points * a.weight)
      /\ (100 * a.points) * b.weight = 100 * (a.points * b.weight)
      /\ (limit * a.weight) * b.weight = (limit * b.weight) * a.weight
    BY <1>1, <1>2
<1>8. (100 * b.points) * a.weight <= (limit * b.weight) * a.weight
  <2>1. b.points * a.weight \in Nat /\ a.points * b.weight \in Nat
        /\ (limit * b.weight) * a.weight \in Nat
      BY <1>1, <1>2
  <2>2. QED
      BY <1>5, <1>6, <1>7, <2>1
<1>9. 100 * b.points <= limit * b.weight
  <2>1. 100 * b.points \in Int /\ limit * b.weight \in Int
      BY <1>1, <1>2
  <2>2. QED
      BY <1>2, <1>8, <2>1, Cancel
<1>10. QED
    BY <1>2, <1>3, <1>9 DEF Within, limit

\* The band of a row is the first one that it is within, or the last.
LEMMA BandFirst ==
    ASSUME NEW row
    PROVE  /\ BandOf(row) \in 1..5
           /\ Within(row, Bands[BandOf(row)].upper) \/ BandOf(row) = 5
           /\ \A j \in 1..(BandOf(row) - 1) : ~Within(row, Bands[j].upper)
<1> DEFINE First(i) == /\ Within(row, Bands[i].upper) \/ i = Len(Bands)
                       /\ \A j \in 1..(i - 1) : ~Within(row, Bands[j].upper)
           In(j) == Within(row, Bands[j].upper)
<1>1. DOMAIN Bands = 1..5 /\ Len(Bands) = 5
    BY DEF Bands
<1>2. \E i \in DOMAIN Bands : First(i)
  <2> HIDE DEF In
  <2>1. \A i \in 1..5 : First(i) <=> (In(i) \/ i = 5) /\ \A j \in 1..(i - 1) : ~In(j)
      BY <1>1 DEF In
  <2> HIDE DEF First
  <2>2. CASE In(1)
    <3>1. First(1)
        BY <2>1, <2>2
    <3>2. QED
        BY <1>1, <3>1
  <2>3. CASE ~In(1) /\ In(2)
    <3>1. First(2)
        BY <2>1, <2>3
    <3>2. QED
        BY <1>1, <3>1
  <2>4. CASE ~In(1) /\ ~In(2) /\ In(3)
    <3>1. First(3)
        BY <2>1, <2>4
    <3>2. QED
        BY <1>1, <3>1
  <2>5. CASE ~In(1) /\ ~In(2) /\ ~In(3) /\ In(4)
    <3>1. First(4)
        BY <2>1, <2>5
    <3>2. QED
        BY <1>1, <3>1
  <2>6. CASE ~In(1) /\ ~In(2) /\ ~In(3) /\ ~In(4)
    <3>1. First(5)
        BY <2>1, <2>6
    <3>2. QED
        BY <1>1, <3>1
  <2>7. QED
      BY <2>2, <2>3, <2>4, <2>5, <2>6
<1>3. BandOf(row) = CHOOSE i \in DOMAIN Bands : First(i)
    BY DEF BandOf
<1>4. BandOf(row) \in DOMAIN Bands /\ First(BandOf(row))
    BY <1>2, <1>3
<1>5. QED
    BY <1>1, <1>4

\* A higher total is in no segment of lower risk.
LEMMA SegmentFollows ==
    ASSUME NEW a, NEW b, IsTotal(a), IsTotal(b), AtLeast(a, b)
    PROVE  Severity(RiskSegment(Bands[BandOf(a)].label))
             >= Severity(RiskSegment(Bands[BandOf(b)].label))
<1> DEFINE i == BandOf(a)
           j == BandOf(b)
<1>1. i \in 1..5 /\ j \in 1..5
    BY BandFirst
<1>2. \A k \in 1..5 : Bands[k].upper \in Nat
    BY DEF Bands
<1>3. j <= i
  <2>1. CASE i = 5
      BY <1>1, <2>1
  <2>2. CASE i # 5
    <3>1. Within(a, Bands[i].upper)
        BY <2>2, BandFirst
    <3>2. Within(b, Bands[i].upper)
        BY <1>1, <1>2, <3>1, WithinFollows
    <3>3. i \notin 1..(j - 1)
        BY <3>2, BandFirst
    <3>4. QED
        BY <1>1, <3>3
  <2>3. QED
      BY <2>1, <2>2
<1> HIDE DEF i, j
<1>4. /\ Severity(RiskSegment(Bands[1].label)) = 1
      /\ Severity(RiskSegment(Bands[2].label)) = 1
      /\ Severity(RiskSegment(Bands[3].label)) = 2
      /\ Severity(RiskSegment(Bands[4].label)) = 3
      /\ Severity(RiskSegment(Bands[5].label)) = 3
    BY DEF Severity, RiskSegment, Bands
<1>5. Severity(RiskSegment(Bands[i].label)) >= Severity(RiskSegment(Bands[j].label))
    BY <1>1, <1>3, <1>4
<1>6. QED
    BY <1>5 DEF i, j

\* Every row of a table has its place in each of its orders.
LEMMA EveryRowRanked ==
    ASSUME NEW table, IsFiniteSet(DOMAIN table), NEW o \in Rankings(table),
           NEW c \in DOMAIN table
    PROVE  Rank(o, c) \in DOMAIN o /\ o[Rank(o, c)] = c
<1> DEFINE n == Cardinality(DOMAIN table)
<1>1. n \in Nat
    BY FS_CardinalityType
<1>2. o \in [1..n -> DOMAIN table]
    BY DEF Rankings
<1>3. \A i, j \in 1..n : i < j => o[i] # o[j]
    BY <1>2 DEF Rankings
<1>4. o \in Injection(1..n, DOMAIN table)
  <2>1. \A i, j \in 1..n : o[i] = o[j] => i = j
      BY <1>1, <1>3
  <2>2. QED
      BY <1>2, <2>1 DEF Injection, IsInjective
<1>5. Cardinality(1..n) = n
    BY <1>1, FS_Interval
<1>6. o \in Surjection(1..n, DOMAIN table)
    BY <1>4, <1>5, FS_Injection
<1>7. \E i \in DOMAIN o : o[i] = c
    BY <1>2, <1>6 DEF Surjection
<1>8. QED
    BY <1>7 DEF Rank

\* The overview ranks no country above one in a segment of higher risk, and
\* those without energy data as v1 does (build_country_overview and the sorts
\* of compute_risk_scores and compute_risk_scores_v2).
THEOREM FollowsRisk == Spec => []OverviewFollowsRisk
<1>1. Inv => OverviewFollowsRisk
  <2> SUFFICES ASSUME Inv, NEW o1 \in Rankings(v1), NEW o2 \in Rankings(v2),
                      NEW i \in DOMAIN CountryOverview(o1, o2),
                      NEW j \in DOMAIN CountryOverview(o1, o2), i < j
      PROVE  LET rows == CountryOverview(o1, o2)
             IN  /\ Severity(rows[i].segment) >= Severity(rows[j].segment)
                 /\ /\ WritesV2(panel)
                    /\ rows[i].row.scores.energy = None /\ rows[j].row.scores.energy = None
                    /\ rows[i].rank_v1 # None /\ rows[j].rank_v1 # None
                    /\ rows[i].rank_v1 > rows[j].rank_v1
                    => ~MoreThan(rows[i].row, rows[j].row)
      BY DEF OverviewFollowsRisk
  <2> DEFINE rows == CountryOverview(o1, o2)
             c == o2[i]
             d == o2[j]
  <2>1. i \in DOMAIN o2 /\ j \in DOMAIN o2 
      BY DEF CountryOverview
  <2>2. c \in DOMAIN v2 /\ d \in DOMAIN v2 /\ AtLeast(v2[c], v2[d])
      BY <2>1 DEF Rankings
  <2>3. rows[i] = OverviewRow(c, o1, o2) /\ rows[j] = OverviewRow(d, o1, o2)
      BY <2>1 DEF CountryOverview
  <2>4. IsFiniteSet(DOMAIN v1)
      BY RiskScoreAssumption, FS_Subset DEF Inv, TypeOK
  <2>5. IsTotal(v2[c]) /\ IsTotal(v2[d])
    <3>1. v2[c] \in Rows /\ v2[d] \in Rows
        BY <2>2 DEF Inv, TypeOK
    <3>2. QED
        BY <3>1 DEF Rows, IsTotal
  <2>6. Severity(rows[i].segment) >= Severity(rows[j].segment)
      BY <2>2, <2>3, <2>5, SegmentFollows DEF OverviewRow
  <2>7. ASSUME WritesV2(panel),
               rows[i].row.scores.energy = None, rows[j].row.scores.energy = None,
               rows[i].rank_v1 # None, rows[j].rank_v1 # None,
               rows[i].rank_v1 > rows[j].rank_v1
        PROVE  ~MoreThan(rows[i].row, rows[j].row)
    <3>1. /\ c \in DOMAIN v1 /\ d \in DOMAIN v1
          /\ Rank(o1, d) < Rank(o1, c)
        BY <2>3, <2>7 DEF OverviewRow
    <3>2. AtLeast(v1[d], v1[c])
      <4>1. /\ Rank(o1, c) \in DOMAIN o1 /\ o1[Rank(o1, c)] = c
            /\ Rank(o1, d) \in DOMAIN o1 /\ o1[Rank(o1, d)] = d
          BY <2>4, <3>1, EveryRowRanked
      <4>2. QED
          BY <3>1, <4>1 DEF Rankings
    <3>3. /\ panel \in [Countries -> Observed]
          /\ v1 = Table1(panel) /\ v2 = Table2(panel)
        BY <2>7 DEF Inv, TypeOK, Current, WritesV2
    <3>4. ASSUME NEW e \in DOMAIN v1, e \in DOMAIN v2, v2[e].scores.energy = None
          PROVE  v2[e].points = v1[e].points /\ v2[e].weight = v1[e].weight
      <4>1. e \in Countries /\ v1[e] = Row1(panel, e) /\ v2[e] = Row2(panel, e)
          BY <3>3, <3>4 DEF Table1, Scored1, Table2, Scored2
      <4>2. EnergyScore(panel, e) = None
          BY <3>4, <4>1 DEF Row2, ScoresV2, Core, EnergyOfV2
      <4>3. QED
          BY <3>3, <4>1, <4>2, EnergyIsAdded DEF WeightOf, PointsOf
    <3>5. v2[c].scores.energy = None /\ v2[d].scores.energy = None
        BY <2>3, <2>7 DEF OverviewRow
    <3>6. AtLeast(v2[d], v2[c])
        BY <2>2, <3>1, <3>2, <3>4, <3>5 DEF AtLeast
    <3>7. ~MoreThan(v2[c], v2[d])
        BY <2>5, <3>6 DEF AtLeast, MoreThan, IsTotal
    <3>8. QED
        BY <2>3, <3>7 DEF OverviewRow
  <2>8. QED
      BY <2>6, <2>7
<1>2. QED
    BY <1>1, InitInv, NextInv, PTL DEF Spec

-----------------------------------------------------------------------------
(* The component rows.                                                     *)

Components == DOMAIN Weight

\* The sum of v over those of five rows that are in a set.
Term(v, e, s, k) == IF e[k] \in s THEN v[e[k]] ELSE 0

Five(v, e, s) ==
    Term(v, e, s, "pace") + Term(v, e, s, "coupling") + Term(v, e, s, "volatility")
        + Term(v, e, s, "energy") + Term(v, e, s, "forward_downside")

\* One row of its own for each component, and a set S of them with numbers.
IsTabled(v, e, S) ==
    /\ \A k, l \in Components : e[k] = e[l] => k = l
    /\ \A x \in S : v[x] \in Int /\ \E k \in Components : x = e[k]

\* A row adds its number.
LEMMA FiveStep ==
    ASSUME NEW v, NEW e, NEW S, IsTabled(v, e, S), NEW s \in SUBSET S, NEW x \in s
    PROVE  Five(v, e, s) = v[x] + Five(v, e, s \ {x})
<1>1. Components = {"pace", "coupling", "volatility", "energy", "forward_downside"}
    BY DEF Components, Weight
<1>2. PICK k \in Components : x = e[k]
    BY DEF IsTabled
<1>3. Term(v, e, s, k) = v[x] /\ Term(v, e, s \ {x}, k) = 0
    BY <1>2 DEF Term
<1>4. \A l \in Components \ {k} : Term(v, e, s \ {x}, l) = Term(v, e, s, l)
    BY <1>2 DEF Term, IsTabled
<1>5. \A l \in Components : Term(v, e, s, l) \in Int /\ Term(v, e, s \ {x}, l) \in Int
    BY DEF Term, IsTabled
<1>6. v[x] \in Int
    BY DEF IsTabled
<1>7. QED
    BY <1>1, <1>3, <1>4, <1>5, <1>6 DEF Five

\* Whatever the order in which the rows are picked, they add up to that sum.
LEMMA FiveUnique ==
    ASSUME NEW v, NEW e, NEW S, IsTabled(v, e, S), NEW h, h[{}] = 0,
           \A s \in (SUBSET S) \ {{}} : \E x \in s : h[s] = v[x] + h[s \ {x}]
    PROVE  h[S] = Five(v, e, S)
<1> DEFINE Known(n) == \A s \in SUBSET S : Cardinality(s) <= n => h[s] = Five(v, e, s)
<1>1. IsFiniteSet(S) /\ Cardinality(S) <= 5
  <2> DEFINE name == <<"pace", "coupling", "volatility", "energy", "forward_downside">>
             g == [i \in 1..5 |-> e[name[i]]]
             All == {e[k] : k \in Components}
  <2>1. Components = {"pace", "coupling", "volatility", "energy", "forward_downside"}
      BY DEF Components, Weight
  <2>2. g \in Surjection(1..5, All)
    <3>1. \A i \in 1..5 : name[i] \in Components
        BY <2>1
    <3>2. \A k \in Components : \E i \in 1..5 : name[i] = k
        BY <2>1
    <3> HIDE DEF name
    <3>3. g \in [1..5 -> All]
        BY <3>1
    <3>4. \A t \in All : \E i \in 1..5 : g[i] = t
        BY <3>2
    <3>5. QED
        BY <3>3, <3>4 DEF Surjection
  <2>3. IsFiniteSet(1..5) /\ Cardinality(1..5) = 5
    <3>1. \A n \in Nat : IsFiniteSet(1..n) /\ Cardinality(1..n) = n
        BY FS_Interval
    <3>2. QED
        BY <3>1
  <2>4. IsFiniteSet(All) /\ Cardinality(All) <= 5
      BY <2>2, <2>3, FS_Surjection
  <2>5. S \subseteq All
      BY DEF IsTabled
  <2>6. QED
      BY <2>4, <2>5, FS_Subset, FS_CardinalityType
<1>2. \A s \in SUBSET S : IsFiniteSet(s) /\ Cardinality(s) \in Nat
    BY <1>1, FS_Subset, FS_CardinalityType
<1>3. Known(0)
  <2> SUFFICES ASSUME NEW s \in SUBSET S, Cardinality(s) <= 0
               PROVE  h[s] = Five(v, e, s)
      OBVIOUS
  <2>1. s = {}
      BY <1>2, FS_EmptySet
  <2>2. Five(v, e, {}) = 0
      BY DEF Five, Term
  <2>3. QED
      BY <2>1, <2>2
<1>4. ASSUME NEW n \in Nat, Known(n)
      PROVE  Known(n + 1)
  <2> SUFFICES ASSUME NEW s \in SUBSET S, Cardinality(s) <= n + 1
               PROVE  h[s] = Five(v, e, s)
      OBVIOUS
  <2>1. CASE s = {}
      BY <1>2, <1>3, <2>1, FS_EmptySet
  <2>2. CASE s # {}
    <3>1. PICK x \in s : h[s] = v[x] + h[s \ {x}]
        BY <2>2
    <3>2. Cardinality(s \ {x}) = Cardinality(s) - 1
        BY <1>2, FS_RemoveElement
    <3>3. Cardinality(s \ {x}) <= n
        BY <1>2, <3>2
    <3>4. h[s \ {x}] = Five(v, e, s \ {x})
        BY <1>4, <3>3
    <3>5. QED
        BY <3>1, <3>4, FiveStep
  <2>3. QED
      BY <2>1, <2>2
<1> HIDE DEF Known
<1>5. Known(5)
  <2>1. Known(0 + 1)
      BY <1>3, <1>4
  <2>2. Known(1 + 1)
      BY <1>4, <2>1
  <2>3. Known(2 + 1)
      BY <1>4, <2>2
  <2>4. Known(3 + 1)
      BY <1>4, <2>3
  <2>5. Known(4 + 1)
      BY <1>4, <2>4
  <2>6. QED
      BY <2>5
<1>6. QED
    BY <1>1, <1>5 DEF Known

\* h is the recursive function that sums v over the subsets of S.
Iterates(h, v, S) ==
    h = [s \in SUBSET S |->
            IF s = {} THEN 0
            ELSE LET x == CHOOSE x \in s : TRUE
                 IN  v[x] + h[s \ {x}]]

\* There is such a function, and it computes that sum.
LEMMA FiveIterates ==
    ASSUME NEW v, NEW e, NEW S, IsTabled(v, e, S)
    PROVE  /\ \E h : Iterates(h, v, S)
           /\ \A h : Iterates(h, v, S) => h[S] = Five(v, e, S)
<1> DEFINE F == [s \in SUBSET S |-> Five(v, e, s)]
<1>1. \A s \in SUBSET S : s # {} => (CHOOSE x \in s : TRUE) \in s
    OBVIOUS
<1>2. ASSUME NEW s \in SUBSET S
      PROVE  F[s] = IF s = {} THEN 0
                    ELSE LET x == CHOOSE x \in s : TRUE
                         IN  v[x] + F[s \ {x}]
  <2>1. CASE s = {}
    <3>1. Five(v, e, {}) = 0
        BY DEF Five, Term
    <3>2. QED
        BY <2>1, <3>1
  <2>2. CASE s # {}
    <3>1. PICK x : x = CHOOSE y \in s : TRUE
        OBVIOUS
    <3>2. x \in s
        BY <1>1, <2>2, <3>1
    <3>3. Five(v, e, s) = v[x] + Five(v, e, s \ {x})
        BY <3>2, FiveStep
    <3>4. s \ {x} \in SUBSET S
        OBVIOUS
    <3>5. F[s] = v[x] + F[s \ {x}]
        BY <3>3, <3>4
    <3> HIDE DEF F
    <3>6. QED
        BY <2>2, <3>1, <3>5
  <2>3. QED
      BY <2>1, <2>2
<1>3. Iterates(F, v, S)
    BY <1>2 DEF Iterates
<1>4. ASSUME NEW h, Iterates(h, v, S)
      PROVE  h[S] = Five(v, e, S)
  <2>1. \A s \in SUBSET S : h[s] = IF s = {} THEN 0
                                   ELSE LET x == CHOOSE x \in s : TRUE
                                        IN  v[x] + h[s \ {x}]
      BY <1>4 DEF Iterates
  <2>2. h[{}] = 0
      BY <2>1
  <2>3. \A s \in (SUBSET S) \ {{}} : \E x \in s : h[s] = v[x] + h[s \ {x}]
      BY <1>1, <2>1
  <2>4. QED
      BY <2>2, <2>3, FiveUnique
<1>5. QED
    BY <1>3, <1>4

\* The sums of a set of component rows, over whichever components there are.
LEMMA SumsAreFive ==
    ASSUME NEW e, NEW S
    PROVE  /\ IsTabled([r \in S |-> r.weight], e, S) =>
                WeightSum(S) = Five([r \in S |-> r.weight], e, S)
           /\ IsTabled([r \in S |-> r.weight * r.score], e, S) =>
                PointSum(S) = Five([r \in S |-> r.weight * r.score], e, S)
<1>1. \A s \in SUBSET S : s # {} => (CHOOSE x \in s : TRUE) \in s
    OBVIOUS
<1>2. ASSUME IsTabled([r \in S |-> r.weight], e, S)
      PROVE  WeightSum(S) = Five([r \in S |-> r.weight], e, S)
  <2> DEFINE v == [r \in S |-> r.weight]
             Sums(h) == h = [s \in SUBSET S |->
                IF s = {} THEN 0
                ELSE LET x == CHOOSE x \in s : TRUE
                     IN  x.weight + h[s \ {x}]]
             iter == CHOOSE h : Sums(h)
  <2>1. WeightSum(S) = iter[S]
      BY DEF WeightSum, MapThenSumSet, MapThenFoldSet
  <2>2. \A h : Sums(h) <=> Iterates(h, v, S)
      BY <1>1 DEF Iterates
  <2> HIDE DEF v, Sums
  <2>3. IsTabled(v, e, S)
      BY <1>2 DEF v
  <2>4. Sums(iter)
      BY <2>2, <2>3, FiveIterates
  <2>5. iter[S] = Five(v, e, S)
      BY <2>2, <2>3, <2>4, FiveIterates
  <2>6. QED
      BY <2>1, <2>5 DEF v
<1>3. ASSUME IsTabled([r \in S |-> r.weight * r.score], e, S)
      PROVE  PointSum(S) = Five([r \in S |-> r.weight * r.score], e, S)
  <2> DEFINE v == [r \in S |-> r.weight * r.score]
             Sums(h) == h = [s \in SUBSET S |->
                IF s = {} THEN 0
                ELSE LET x == CHOOSE x \in s : TRUE
                     IN  x.weight * x.score + h[s \ {x}]]
             iter == CHOOSE h : Sums(h)
  <2>1. PointSum(S) = iter[S]
      BY DEF PointSum, MapThenSumSet, MapThenFoldSet
  <2>2. \A h : Sums(h) <=> Iterates(h, v, S)
      BY <1>1 DEF Iterates
  <2> HIDE DEF v, Sums
  <2>3. IsTabled(v, e, S)
      BY <1>3 DEF v
  <2>4. Sums(iter)
      BY <2>2, <2>3, FiveIterates
  <2>5. iter[S] = Five(v, e, S)
      BY <2>2, <2>3, <2>4, FiveIterates
  <2>6. QED
      BY <2>1, <2>5 DEF v
<1>4. QED
    BY <1>2, <1>3

\* The row of a component, and those of a row's components that are served.
RowOf(c, version, row) ==
    [k \in Components |->
        [country |-> c, version |-> version, component |-> k,
         score |-> row.scores[k], weight |-> EffectiveWeight(version, k)]]

ServedOf(c, version, row) ==
    {RowOf(c, version, row)[k] : k \in {l \in Components : row.scores[l] # None}}

\* A row that was computed from its component scores.
IsSum(row) ==
    /\ IsScores(row.scores)
    /\ row.points = SumOf(PointsOf, row.scores)
    /\ row.weight = SumOf(WeightOf, row.scores)
    /\ row.weight # 0

\* Served by weights in proportion to the nominal ones, they explain its total.
LEMMA ServedExplain ==
    ASSUME NEW c, NEW version, NEW row, IsSum(row), NEW f \in {80, 100},
           \A k \in Components : row.scores[k] # None =>
                EffectiveWeight(version, k) = f * Weight[k]
    PROVE  /\ Explains(ServedOf(c, version, row), row)
           /\ WeightSum(ServedOf(c, version, row)) = f * row.weight
<1> DEFINE e == RowOf(c, version, row)
           S == ServedOf(c, version, row)
           s == row.scores
           w == [r \in S |-> r.weight]
           p == [r \in S |-> r.weight * r.score]
<1>1. Components = {"pace", "coupling", "volatility", "energy", "forward_downside"}
    BY DEF Components, Weight
<1>2. \A k \in Components : Weight[k] \in Nat /\ IsScore(s[k])
    BY <1>1 DEF Weight, IsSum, IsScores
<1>3. \A k \in Components : /\ e[k].component = k /\ e[k].score = s[k]
                            /\ e[k].weight = EffectiveWeight(version, k)
    BY DEF RowOf
<1>4. \A k, l \in Components : e[k] = e[l] => k = l
  <2> HIDE DEF e
  <2>1. QED
      BY <1>3
<1>5. \A x \in S : \E k \in Components : x = e[k] /\ s[k] # None
    BY DEF ServedOf
<1>6. \A k \in Components : e[k] \in S <=> s[k] # None
  <2>1. \A k \in Components : s[k] # None => e[k] \in S
      BY DEF ServedOf
  <2> HIDE DEF e, S, s
  <2>2. QED
      BY <1>4, <1>5, <2>1
<1>7. \A k \in Components : s[k] # None =>
        /\ s[k] \in Nat
        /\ e[k].weight = f * Weight[k] /\ e[k].weight \in Nat
        /\ e[k].weight * e[k].score = f * (Weight[k] * s[k])
        /\ e[k].weight * e[k].score \in Nat
  <2> SUFFICES ASSUME NEW k \in Components, s[k] # None
               PROVE  /\ s[k] \in Nat
                      /\ e[k].weight = f * Weight[k] /\ e[k].weight \in Nat
                      /\ e[k].weight * e[k].score = f * (Weight[k] * s[k])
                      /\ e[k].weight * e[k].score \in Nat
      OBVIOUS
  <2>1. s[k] \in Nat
      BY <1>2, RiskScoreAssumption DEF IsScore, Hundred
  <2>2. e[k].weight = f * Weight[k] /\ e[k].score = s[k] /\ Weight[k] \in Nat
      BY <1>2, <1>3
  <2>3. \A a, b \in Nat : (f * a) * b = f * (a * b) /\ f * a \in Nat /\ f * (a * b) \in Nat
      OBVIOUS
  <2> HIDE DEF e, s
  <2>4. QED
      BY <2>1, <2>2, <2>3
<1> HIDE DEF e, S, s
<1>8. IsTabled(w, e, S) /\ IsTabled(p, e, S)
    BY <1>4, <1>5, <1>7 DEF IsTabled
<1>9. \A k \in Components :
        /\ Term(w, e, S, k) = f * WeightOf(k, s[k]) /\ WeightOf(k, s[k]) \in Nat
        /\ Term(p, e, S, k) = f * PointsOf(k, s[k]) /\ PointsOf(k, s[k]) \in Nat
  <2> SUFFICES ASSUME NEW k \in Components
               PROVE  /\ Term(w, e, S, k) = f * WeightOf(k, s[k]) /\ WeightOf(k, s[k]) \in Nat
                      /\ Term(p, e, S, k) = f * PointsOf(k, s[k]) /\ PointsOf(k, s[k]) \in Nat
      OBVIOUS
  <2>1. CASE s[k] = None
    <3>1. WeightOf(k, s[k]) = 0 /\ PointsOf(k, s[k]) = 0
        BY <2>1 DEF WeightOf, PointsOf
    <3>2. Term(w, e, S, k) = 0 /\ Term(p, e, S, k) = 0
        BY <1>6, <2>1 DEF Term
    <3>3. QED
        BY <3>1, <3>2
  <2>2. CASE s[k] # None
    <3>1. WeightOf(k, s[k]) = Weight[k] /\ PointsOf(k, s[k]) = Weight[k] * s[k]
        BY <2>2 DEF WeightOf, PointsOf
    <3>2. /\ Term(w, e, S, k) = e[k].weight
          /\ Term(p, e, S, k) = e[k].weight * e[k].score
        BY <1>6, <2>2 DEF Term
    <3>3. Weight[k] \in Nat /\ Weight[k] * s[k] \in Nat
        BY <1>2, <1>7, <2>2
    <3>4. QED
        BY <1>7, <2>2, <3>1, <3>2, <3>3
  <2>3. QED
      BY <2>1, <2>2
<1>10. /\ s["pace"] = s.pace /\ s["coupling"] = s.coupling
       /\ s["volatility"] = s.volatility /\ s["energy"] = s.energy
       /\ s["forward_downside"] = s.forward_downside
    OBVIOUS
<1>11. Five(w, e, S) = f * row.weight
  <2>1. /\ Term(w, e, S, "pace") = f * WeightOf("pace", s.pace)
        /\ Term(w, e, S, "coupling") = f * WeightOf("coupling", s.coupling)
        /\ Term(w, e, S, "volatility") = f * WeightOf("volatility", s.volatility)
        /\ Term(w, e, S, "energy") = f * WeightOf("energy", s.energy)
        /\ Term(w, e, S, "forward_downside")
             = f * WeightOf("forward_downside", s.forward_downside)
      BY <1>1, <1>9, <1>10
  <2>2. /\ WeightOf("pace", s.pace) \in Nat /\ WeightOf("coupling", s.coupling) \in Nat
        /\ WeightOf("volatility", s.volatility) \in Nat
        /\ WeightOf("energy", s.energy) \in Nat
        /\ WeightOf("forward_downside", s.forward_downside) \in Nat
      BY <1>1, <1>9, <1>10
  <2>3. row.weight = SumOf(WeightOf, s)
      BY DEF IsSum, s
  <2>4. QED
      BY <2>1, <2>2, <2>3 DEF Five, SumOf
<1>12. Five(p, e, S) = f * row.points
  <2>1. /\ Term(p, e, S, "pace") = f * PointsOf("pace", s.pace)
        /\ Term(p, e, S, "coupling") = f * PointsOf("coupling", s.coupling)
        /\ Term(p, e, S, "volatility") = f * PointsOf("volatility", s.volatility)
        /\ Term(p, e, S, "energy") = f * PointsOf("energy", s.energy)
        /\ Term(p, e, S, "forward_downside")
             = f * PointsOf("forward_downside", s.forward_downside)
      BY <1>1, <1>9, <1>10
  <2>2. /\ PointsOf("pace", s.pace) \in Nat /\ PointsOf("coupling", s.coupling) \in Nat
        /\ PointsOf("volatility", s.volatility) \in Nat
        /\ PointsOf("energy", s.energy) \in Nat
        /\ PointsOf("forward_downside", s.forward_downside) \in Nat
      BY <1>1, <1>9, <1>10
  <2>3. row.points = SumOf(PointsOf, s)
      BY DEF IsSum, s
  <2>4. QED
      BY <2>1, <2>2, <2>3 DEF Five, SumOf
<1>13. row.weight \in Nat \ {0} /\ row.points \in Nat
    BY SumBound DEF IsSum
<1>14. WeightSum(S) = f * row.weight /\ PointSum(S) = f * row.points
    BY <1>8, <1>11, <1>12, SumsAreFive
<1>15. S # {}
  <2>1. CASE S = {}
    <3>1. Five(w, e, S) = 0
        BY <2>1 DEF Five, Term
    <3>2. QED
        BY <1>11, <1>13, <3>1
  <2>2. QED
      BY <2>1
<1>16. (f * row.points) * row.weight = row.points * (f * row.weight)
    BY <1>13
<1>17. QED
    BY <1>14, <1>15, <1>16 DEF Explains, S

\* The tables hold such rows, from whatever panel they were computed.
AddUp ==
    /\ \A c \in DOMAIN v1 : IsSum(v1[c]) /\ v1[c].scores.energy = None
    /\ \A c \in DOMAIN v2 : IsSum(v2[c]) /\ v2[c].coverage = v2[c].weight

\* A computed table does.
LEMMA TablesAddUp ==
    ASSUME NEW p \in [Countries -> Observed]
    PROVE  /\ \A c \in DOMAIN Table1(p) :
                IsSum(Table1(p)[c]) /\ Table1(p)[c].scores.energy = None
           /\ \A c \in DOMAIN Table2(p) :
                IsSum(Table2(p)[c]) /\ Table2(p)[c].coverage = Table2(p)[c].weight
<1>1. ASSUME NEW c \in Scored1(p)
      PROVE  IsSum(Row1(p, c)) /\ Row1(p, c).scores.energy = None
  <2>1. c \in Countries /\ Row1(p, c).weight # 0
      BY DEF Scored1
  <2>2. IsScores(ScoresV1(p, c)) /\ ScoresV1(p, c).energy = None
      BY <2>1, ScoresBound DEF ScoresV1, Core
  <2>3. QED
      BY <2>1, <2>2 DEF IsSum, Row1
<1>2. ASSUME NEW c \in Scored2(p)
      PROVE  IsSum(Row2(p, c)) /\ Row2(p, c).coverage = Row2(p, c).weight
  <2>1. c \in Countries /\ Row2(p, c).weight # 0
      BY DEF Scored2
  <2>2. IsScores(ScoresV2(p, c))
      BY <2>1, ScoresBound
  <2>3. QED
      BY <2>1, <2>2 DEF IsSum, Row2, WeightV2
<1>3. QED
    BY <1>1, <1>2 DEF Table1, Table2

\* So do those of the first score,
LEMMA InitAddUp == Init => AddUp
<1> SUFFICES ASSUME Init PROVE AddUp
    OBVIOUS
<1>1. panel \in [Countries -> Observed]
    BY DEF Init
<1>2. DOMAIN Empty = {}
    BY DEF Empty
<1>3. QED
    BY <1>1, <1>2, TablesAddUp DEF Init, AddUp

\* and of every later one, which replaces a table or leaves it alone.
LEMMA NextAddUp == Inv /\ AddUp /\ [Next]_vars => AddUp'
<1> SUFFICES ASSUME Inv, AddUp, [Next]_vars PROVE AddUp'
    OBVIOUS
<1>1. CASE UNCHANGED vars
    BY <1>1 DEF AddUp, vars
<1>2. ASSUME NEW c \in Countries, Rescore(c)
      PROVE  AddUp'
  <2>1. panel' \in [Countries -> Observed]
      BY <1>2 DEF Rescore, Inv, TypeOK
  <2>2. /\ v1' = IF WritesV1(panel') THEN Table1(panel') ELSE v1
        /\ v2' = IF WritesV2(panel') THEN Table2(panel') ELSE v2
      BY <1>2 DEF Rescore
  <2>3. QED
      BY <2>1, <2>2, TablesAddUp DEF AddUp
<1>3. QED
    BY <1>1, <1>2 DEF Next

\* The component rows that a client is served add up to the total, by their
\* effective weights (build_risk_components and GET .../risk-components).
THEOREM ComponentsAddUp == Spec => []ComponentsExplainScore
<1>1. AddUp => ComponentsExplainScore
  <2> SUFFICES ASSUME AddUp, NEW c \in Countries
      PROVE  LET rows(version) == {r \in GetRiskComponents(c) : r.version = version}
             IN  /\ c \in DOMAIN v1 => Explains(rows("v1"), v1[c])
                 /\ c \in DOMAIN v2 =>
                        /\ Explains(rows("v2_energy"), v2[c])
                        /\ WeightSum(rows("v2_energy")) = 80 * v2[c].coverage
      BY DEF ComponentsExplainScore
  <2> DEFINE rows(version) == {r \in GetRiskComponents(c) : r.version = version}
  <2>1. rows("v1") = IF c \in DOMAIN v1 THEN ServedOf(c, "v1", v1[c]) ELSE {}
      BY DEF GetRiskComponents, RiskComponents, Served, ServedOf, RowOf, Components
  <2>2. rows("v2_energy") = IF c \in DOMAIN v2 THEN ServedOf(c, "v2_energy", v2[c]) ELSE {}
      BY DEF GetRiskComponents, RiskComponents, Served, ServedOf, RowOf, Components
  <2> HIDE DEF rows
  <2>3. ASSUME c \in DOMAIN v1
        PROVE  Explains(rows("v1"), v1[c])
    <3>1. IsSum(v1[c]) /\ v1[c].scores.energy = None
        BY <2>3 DEF AddUp
    <3>2. \A k \in Components : v1[c].scores[k] # None =>
                EffectiveWeight("v1", k) = 100 * Weight[k]
        BY <3>1 DEF EffectiveWeight
    <3>3. QED
        BY <2>1, <2>3, <3>1, <3>2, ServedExplain
  <2>4. ASSUME c \in DOMAIN v2
        PROVE  /\ Explains(rows("v2_energy"), v2[c])
               /\ WeightSum(rows("v2_energy")) = 80 * v2[c].coverage
    <3>1. IsSum(v2[c]) /\ v2[c].coverage = v2[c].weight
        BY <2>4 DEF AddUp
    <3>2. \A k \in Components : v2[c].scores[k] # None =>
                EffectiveWeight("v2_energy", k) = 80 * Weight[k]
        BY DEF EffectiveWeight
    <3>3. QED
        BY <2>2, <2>4, <3>1, <3>2, ServedExplain
  <2>5. QED
      BY <2>3, <2>4 DEF rows
<1>2. QED
    BY <1>1, InitInv, NextInv, InitAddUp, NextAddUp, PTL DEF Spec

-----------------------------------------------------------------------------
(* Lists in an order.                                                      *)

\* R puts the elements of S one after another.
IsOrder(R, S) ==
    /\ \A x \in S : <<x, x>> \notin R
    /\ \A x, y \in S : x = y \/ <<x, y>> \in R \/ <<y, x>> \in R
    /\ \A x, y, z \in S : <<x, y>> \in R /\ <<y, z>> \in R => <<x, z>> \in R

\* The sequence s lists the elements of S in that order.
Lists(s, R, S) ==
    /\ s \in [1..Cardinality(S) -> S]
    /\ \A i, j \in 1..Cardinality(S) : i < j => <<s[i], s[j]>> \in R

\* The place of x is the one after those of the elements before it.
Before(R, S, x) == {y \in S : <<y, x>> \in R}
Place(R, S, x) == Cardinality(Before(R, S, x)) + 1

\* Places rise with the order.
LEMMA PlacesRise ==
    ASSUME NEW S, IsFiniteSet(S), NEW R, IsOrder(R, S)
    PROVE  /\ \A x \in S : Place(R, S, x) \in 1..Cardinality(S)
           /\ \A x, y \in S : <<x, y>> \in R => Place(R, S, x) < Place(R, S, y)
<1>1. Cardinality(S) \in Nat
    BY FS_CardinalityType
<1>2. \A x \in S : IsFiniteSet(Before(R, S, x)) /\ Cardinality(Before(R, S, x)) \in Nat
  <2>1. \A x \in S : Before(R, S, x) \subseteq S
      BY DEF Before
  <2>2. QED
      BY <2>1, FS_Subset, FS_CardinalityType
<1>3. ASSUME NEW x \in S
      PROVE  Place(R, S, x) \in 1..Cardinality(S)
  <2>1. Before(R, S, x) \subseteq S \ {x}
      BY DEF Before, IsOrder
  <2>2. IsFiniteSet(S \ {x}) /\ Cardinality(S \ {x}) = Cardinality(S) - 1
      BY FS_RemoveElement
  <2>3. Cardinality(Before(R, S, x)) <= Cardinality(S) - 1
      BY <2>1, <2>2, FS_Subset
  <2>4. QED
      BY <1>1, <1>2, <2>3 DEF Place
<1>4. ASSUME NEW x \in S, NEW y \in S, <<x, y>> \in R
      PROVE  Place(R, S, x) < Place(R, S, y)
  <2>1. Before(R, S, x) \subseteq Before(R, S, y) \ {x}
      BY <1>4 DEF Before, IsOrder
  <2>2. x \in Before(R, S, y)
      BY <1>4 DEF Before
  <2>3. /\ IsFiniteSet(Before(R, S, y) \ {x})
        /\ Cardinality(Before(R, S, y) \ {x}) = Cardinality(Before(R, S, y)) - 1
      BY <1>2, <2>2, FS_RemoveElement
  <2>4. Cardinality(Before(R, S, x)) <= Cardinality(Before(R, S, y)) - 1
      BY <2>1, <2>3, FS_Subset
  <2>5. QED
      BY <1>2, <2>4 DEF Place
<1>5. QED
    BY <1>3, <1>4

\* So every finite set can be listed in an order,
LEMMA ListExists ==
    ASSUME NEW S, IsFiniteSet(S), NEW R, IsOrder(R, S)
    PROVE  \E s : Lists(s, R, S)
<1> DEFINE n == Cardinality(S)
           place == [x \in S |-> Place(R, S, x)]
           s == [i \in 1..n |-> CHOOSE x \in S : place[x] = i]
<1>1. n \in Nat /\ IsFiniteSet(1..n) /\ Cardinality(1..n) = n
    BY FS_CardinalityType, FS_Interval
<1>2. place \in [S -> 1..n]
    BY PlacesRise
<1>3. \A x, y \in S : <<x, y>> \in R => place[x] < place[y]
    BY PlacesRise
<1> HIDE DEF place
<1>4. \A x, y \in S : place[x] < place[y] => <<x, y>> \in R
  <2> SUFFICES ASSUME NEW x \in S, NEW y \in S, place[x] < place[y]
               PROVE  <<x, y>> \in R
      OBVIOUS
  <2>1. place[x] \in Int /\ place[y] \in Int
      BY <1>2
  <2>2. <<y, x>> \notin R /\ x # y
      BY <1>3, <2>1
  <2>3. QED
      BY <2>2 DEF IsOrder
<1>5. place \in Injection(S, 1..n)
  <2>1. ASSUME NEW x \in S, NEW y \in S, place[x] = place[y]
        PROVE  x = y
    <3>1. place[x] \in Int /\ place[y] \in Int
        BY <1>2
    <3>2. <<x, y>> \notin R /\ <<y, x>> \notin R
        BY <1>3, <2>1, <3>1
    <3>3. QED
        BY <3>2 DEF IsOrder
  <2>2. QED
      BY <1>2, <2>1 DEF Injection, IsInjective
<1>6. place \in Surjection(S, 1..n)
    BY <1>1, <1>5, FS_Injection
<1>7. \A i \in 1..n : s[i] \in S /\ place[s[i]] = i
  <2>1. \A i \in 1..n : \E x \in S : place[x] = i
      BY <1>6 DEF Surjection
  <2>2. QED
      BY <2>1
<1>8. s \in [1..n -> S]
    BY <1>7
<1> HIDE DEF s
<1>9. \A i, j \in 1..n : i < j => <<s[i], s[j]>> \in R
    BY <1>4, <1>7
<1>10. QED
    BY <1>8, <1>9 DEF Lists

\* and in only one way: everything is listed, at its place.
LEMMA ListPlaces ==
    ASSUME NEW S, IsFiniteSet(S), NEW R, IsOrder(R, S), NEW s, Lists(s, R, S)
    PROVE  /\ \A i \in 1..Cardinality(S) : Place(R, S, s[i]) = i
           /\ \A x \in S : s[Place(R, S, x)] = x
           /\ \A i, j \in 1..Cardinality(S) : s[i] = s[j] => i = j
<1> DEFINE n == Cardinality(S)
<1>1. n \in Nat /\ \A m \in Nat : IsFiniteSet(1..m) /\ Cardinality(1..m) = m
  <2>1. n \in Nat
      BY FS_CardinalityType
  <2>2. ASSUME NEW m \in Nat
        PROVE  IsFiniteSet(1..m) /\ Cardinality(1..m) = m
      BY FS_Interval
  <2>3. QED
      BY <2>1, <2>2
<1>2. s \in [1..n -> S] /\ \A i, j \in 1..n : i < j => <<s[i], s[j]>> \in R
    BY DEF Lists
<1>3. ASSUME NEW i \in 1..n, NEW j \in 1..n, s[i] = s[j]
      PROVE  i = j
  <2>1. s[i] \in S /\ <<s[i], s[j]>> \notin R /\ <<s[j], s[i]>> \notin R
      BY <1>2, <1>3 DEF IsOrder
  <2>2. ~(i < j) /\ ~(j < i)
      BY <1>2, <2>1
  <2>3. QED
      BY <1>1, <2>2
<1>4. s \in Surjection(1..n, S)
  <2>1. s \in Injection(1..n, S)
      BY <1>2, <1>3 DEF Injection, IsInjective
  <2>2. QED
      BY <1>1, <2>1, FS_Injection
<1>5. ASSUME NEW i \in 1..n
      PROVE  Place(R, S, s[i]) = i
  <2> DEFINE m == i - 1
             g == [j \in 1..m |-> s[j]]
             B == Before(R, S, s[i])
  <2>1. m \in Nat /\ 1..m \subseteq 1..n
      BY <1>1
  <2>2. \A j \in 1..m : s[j] \in B
      BY <1>2, <2>1 DEF Before
  <2>3. \A y \in B : \E j \in 1..m : s[j] = y
    <3> SUFFICES ASSUME NEW y \in B PROVE \E j \in 1..m : s[j] = y
        OBVIOUS
    <3>1. y \in S /\ <<y, s[i]>> \in R
        BY DEF Before
    <3>2. PICK j \in 1..n : s[j] = y
        BY <1>4, <3>1 DEF Surjection
    <3>3. ~(i < j) /\ i # j
      <4>1. s[i] \in S
          BY <1>2
      <4>2. ~(<<s[i], y>> \in R) /\ y # s[i]
          BY <3>1, <4>1 DEF IsOrder
      <4>3. QED
          BY <1>2, <3>2, <4>2
    <3>4. j \in 1..m
        BY <1>1, <3>3
    <3>5. QED
        BY <3>2, <3>4
  <2>4. g \in Surjection(1..m, B) /\ g \in Injection(1..m, B)
    <3> HIDE DEF B, m
    <3>1. g \in [1..m -> B]
        BY <2>2
    <3>2. \A a, b \in 1..m : g[a] = g[b] => a = b
        BY <1>3, <2>1
    <3>3. \A y \in B : \E j \in 1..m : g[j] = y
        BY <2>3
    <3> HIDE DEF g
    <3>4. QED
        BY <3>1, <3>2, <3>3 DEF Surjection, Injection, IsInjective
  <2>5. Cardinality(B) = m
    <3> HIDE DEF B, m, g
    <3>1. QED
        BY <1>1, <2>1, <2>4, FS_Surjection
  <2>6. QED
      BY <1>1, <2>5 DEF Place
<1>6. \A x \in S : s[Place(R, S, x)] = x
  <2> SUFFICES ASSUME NEW x \in S PROVE s[Place(R, S, x)] = x
      OBVIOUS
  <2>1. PICK i \in 1..n : s[i] = x
      BY <1>4 DEF Surjection
  <2>2. QED
      BY <1>5, <2>1
<1>7. QED
    BY <1>3, <1>5, <1>6

\* Two lists of a set in one order are the same.
LEMMA ListUnique ==
    ASSUME NEW S, IsFiniteSet(S), NEW R, IsOrder(R, S),
           NEW s, Lists(s, R, S), NEW t, Lists(t, R, S)
    PROVE  s = t
<1>1. s \in [1..Cardinality(S) -> S] /\ t \in [1..Cardinality(S) -> S]
    BY DEF Lists
<1>2. \A i \in 1..Cardinality(S) : s[i] = t[i]
  <2> SUFFICES ASSUME NEW i \in 1..Cardinality(S) PROVE s[i] = t[i]
      OBVIOUS
  <2>1. t[i] \in S /\ Place(R, S, t[i]) = i
    <3>1. t[i] \in S
        BY <1>1
    <3>2. Place(R, S, t[i]) = i
        BY ListPlaces
    <3>3. QED
        BY <3>1, <3>2
  <2>2. s[Place(R, S, t[i])] = t[i]
      BY <2>1, ListPlaces
  <2>3. QED
      BY <2>1, <2>2
<1>3. s = [i \in 1..Cardinality(S) |-> s[i]] /\ t = [i \in 1..Cardinality(S) |-> t[i]]
    BY <1>1
<1>4. QED
    BY <1>2, <1>3

-----------------------------------------------------------------------------
(* The routes.                                                             *)

\* Totals are compared as numbers are.
LEMMA TotalsCompare ==
    ASSUME NEW a, NEW b, NEW c, IsTotal(a), IsTotal(b), IsTotal(c)
    PROVE  /\ MoreThan(a, b) <=> ~AtLeast(b, a)
           /\ AtLeast(a, b) \/ AtLeast(b, a)
           /\ AtLeast(a, b) /\ AtLeast(b, c) => AtLeast(a, c)
           /\ MoreThan(a, b) => MoreThan(a, c) \/ MoreThan(c, b)
<1>1. /\ a.points \in Nat /\ a.weight \in Nat \ {0}
      /\ b.points \in Nat /\ b.weight \in Nat \ {0}
      /\ c.points \in Nat /\ c.weight \in Nat \ {0}
    BY DEF IsTotal
<1>2. \A x, y \in {a, b, c} : x.points * y.weight \in Nat
    BY <1>1
<1>3. \A x, y \in {a, b, c} : MoreThan(x, y) <=> ~AtLeast(y, x)
    BY <1>2 DEF MoreThan, AtLeast
<1>4. AtLeast(a, b) \/ AtLeast(b, a)
    BY <1>2 DEF AtLeast
<1>5. ASSUME NEW x \in {a, b, c}, NEW y \in {a, b, c}, NEW z \in {a, b, c},
             AtLeast(x, y), AtLeast(y, z)
      PROVE  AtLeast(x, z)
  <2> DEFINE xp == x.points
             xw == x.weight
             yp == y.points
             yw == y.weight
             zp == z.points
             zw == z.weight
  <2>1. /\ xp \in Nat /\ xw \in Nat \ {0} /\ yp \in Nat /\ yw \in Nat \ {0}
        /\ zp \in Nat /\ zw \in Nat \ {0}
      BY <1>1
  <2>2. yp * xw <= xp * yw /\ zp * yw <= yp * zw
      BY <1>2, <1>5 DEF AtLeast
  <2> HIDE DEF xp, xw, yp, yw, zp, zw
  <2>3. (yp * xw) * zw <= (xp * yw) * zw /\ (zp * yw) * xw <= (yp * zw) * xw
    <3>1. yp * xw \in Int /\ xp * yw \in Int /\ zp * yw \in Int /\ yp * zw \in Int
        BY <2>1
    <3>2. QED
        BY <2>1, <2>2, <3>1, Monotone
  <2>4. /\ (yp * xw) * zw = (yp * zw) * xw
        /\ (xp * yw) * zw = (xp * zw) * yw
        /\ (zp * yw) * xw = (zp * xw) * yw
      BY <2>1
  <2>5. (zp * xw) * yw <= (xp * zw) * yw
    <3>1. /\ (zp * xw) * yw \in Int /\ (xp * zw) * yw \in Int
          /\ (yp * zw) * xw \in Int
        BY <2>1
    <3>2. QED
        BY <2>3, <2>4, <3>1
  <2>6. zp * xw <= xp * zw
    <3>1. zp * xw \in Int /\ xp * zw \in Int
        BY <2>1
    <3>2. QED
        BY <2>1, <2>5, <3>1, Cancel
  <2>7. xp * zw >= zp * xw
    <3>1. zp * xw \in Int /\ xp * zw \in Int
        BY <2>1
    <3>2. QED
        BY <2>6, <3>1
  <2>8. QED
      BY <2>7 DEF AtLeast, xp, xw, zp, zw
<1>6. MoreThan(a, b) => MoreThan(a, c) \/ MoreThan(c, b)
    BY <1>3, <1>5
<1>7. QED
    BY <1>3, <1>4, <1>5, <1>6

\* The rows of v2 have totals.
LEMMA V2Totals ==
    ASSUME Inv
    PROVE  /\ IsFiniteSet(DOMAIN v2) /\ DOMAIN v2 \subseteq Countries
           /\ Cardinality(DOMAIN v2) <= Cardinality(Countries)
           /\ Cardinality(DOMAIN v2) \in Nat /\ Cardinality(Countries) \in Nat
           /\ \A c \in DOMAIN v2 : IsTotal(v2[c])
<1>1. DOMAIN v2 \subseteq Countries /\ \A c \in DOMAIN v2 : v2[c] \in Rows
    BY DEF Inv, TypeOK
<1>2. \A c \in DOMAIN v2 : IsTotal(v2[c])
    BY <1>1 DEF Rows, IsTotal
<1>3. QED
    BY <1>1, <1>2, RiskScoreAssumption, FS_Subset, FS_CardinalityType

\* A stored order is a list of the countries, by their ranks.
LEMMA StoredOrder ==
    ASSUME Inv, NEW o \in Rankings(v2)
    PROVE  /\ o \in [1..Cardinality(DOMAIN v2) -> DOMAIN v2]
           /\ \A i \in DOMAIN o : Rank(o, o[i]) = i
           /\ \A c \in DOMAIN v2 : Rank(o, c) \in DOMAIN o /\ o[Rank(o, c)] = c
<1>1. o \in [1..Cardinality(DOMAIN v2) -> DOMAIN v2]
    BY DEF Rankings
<1>2. \A i, j \in DOMAIN o : i < j => o[i] # o[j]
    BY DEF Rankings
<1>3. \A c \in DOMAIN v2 : Rank(o, c) \in DOMAIN o /\ o[Rank(o, c)] = c
    BY V2Totals, EveryRowRanked
<1>4. ASSUME NEW i \in DOMAIN o
      PROVE  Rank(o, o[i]) = i
  <2>1. PICK r : r = Rank(o, o[i])
      OBVIOUS
  <2>2. r \in DOMAIN o /\ o[r] = o[i]
      BY <1>1, <1>3, <2>1
  <2>3. r \in Int /\ i \in Int
      BY <1>1, <2>2
  <2>4. ~(r < i) /\ ~(i < r)
      BY <1>2, <2>2
  <2>5. QED
      BY <2>1, <2>3, <2>4
<1>5. QED
    BY <1>1, <1>3, <1>4

\* The order by a route's sort, in which equal totals keep the stored order.
Sooner(o, sort, x, y) ==
    \/ Precedes(sort, v2[x], v2[y])
    \/ /\ ~Precedes(sort, v2[y], v2[x])
       /\ Rank(o, x) < Rank(o, y)

SortOrder(o, sort) ==
    {xy \in (DOMAIN v2) \X (DOMAIN v2) : Sooner(o, sort, xy[1], xy[2])}

\* It puts the countries one after another.
LEMMA SortIsOrder ==
    ASSUME Inv, NEW o \in Rankings(v2), NEW sort
    PROVE  /\ IsOrder(SortOrder(o, sort), DOMAIN v2)
           /\ \A x, y \in DOMAIN v2 : <<x, y>> \in SortOrder(o, sort) <=>
                \/ Precedes(sort, v2[x], v2[y])
                \/ ~Precedes(sort, v2[y], v2[x]) /\ Rank(o, x) < Rank(o, y)
<1> DEFINE D == DOMAIN v2
           P == {xy \in D \X D : Precedes(sort, v2[xy[1]], v2[xy[2]])}
           rank == [x \in D |-> Rank(o, x)]
<1>1. \A x, y \in D : <<x, y>> \in P <=> Precedes(sort, v2[x], v2[y])
    OBVIOUS
<1>2. \A x, y \in D : ~(Precedes(sort, v2[x], v2[y]) /\ Precedes(sort, v2[y], v2[x]))
  <2>1. \A x, y \in D : ~(MoreThan(v2[x], v2[y]) /\ MoreThan(v2[y], v2[x]))
      BY V2Totals, TotalsCompare
  <2>2. QED
      BY <2>1 DEF Precedes
<1>3. \A x, y, z \in D : Precedes(sort, v2[x], v2[y]) =>
            Precedes(sort, v2[x], v2[z]) \/ Precedes(sort, v2[z], v2[y])
  <2>1. \A x, y, z \in D : MoreThan(v2[x], v2[y]) =>
            MoreThan(v2[x], v2[z]) \/ MoreThan(v2[z], v2[y])
      BY V2Totals, TotalsCompare
  <2>2. QED
      BY <2>1 DEF Precedes
<1>4. /\ \A x \in D : rank[x] \in Int
      /\ \A x, y \in D : rank[x] = rank[y] => x = y
      /\ \A x \in D : rank[x] = Rank(o, x)
  <2>1. \A x \in D : rank[x] = Rank(o, x)
      OBVIOUS
  <2> HIDE DEF rank
  <2>2. \A x \in D : rank[x] \in DOMAIN o /\ o[rank[x]] = x
      BY <2>1, StoredOrder
  <2>3. DOMAIN o = 1..Cardinality(D)
      BY StoredOrder
  <2>4. \A x \in D : rank[x] \in Int
      BY <2>2, <2>3
  <2>5. QED
      BY <2>1, <2>2, <2>4
<1>5. ASSUME NEW x \in D, NEW y \in D
      PROVE  /\ <<x, y>> \in SortOrder(o, sort) <=>
                  \/ Precedes(sort, v2[x], v2[y])
                  \/ ~Precedes(sort, v2[y], v2[x]) /\ Rank(o, x) < Rank(o, y)
             /\ <<x, y>> \in SortOrder(o, sort) <=>
                  \/ <<x, y>> \in P
                  \/ <<y, x>> \notin P /\ rank[x] < rank[y]
  <2>1. <<x, y>> \in SortOrder(o, sort) <=>
          \/ Precedes(sort, v2[x], v2[y])
          \/ ~Precedes(sort, v2[y], v2[x]) /\ Rank(o, x) < Rank(o, y)
    <3>1. <<x, y>> \in SortOrder(o, sort) <=> Sooner(o, sort, x, y)
        BY DEF SortOrder
    <3>2. QED
        BY <3>1 DEF Sooner
  <2>2. /\ rank[x] = Rank(o, x) /\ rank[y] = Rank(o, y)
        /\ <<x, y>> \in P <=> Precedes(sort, v2[x], v2[y])
        /\ <<y, x>> \in P <=> Precedes(sort, v2[y], v2[x])
      BY <1>1, <1>4
  <2> HIDE DEF P, rank
  <2>3. QED
      BY <2>1, <2>2
<1>6. /\ \A x, y \in D : ~(<<x, y>> \in P /\ <<y, x>> \in P)
      /\ \A x, y, z \in D : <<x, y>> \in P => <<x, z>> \in P \/ <<z, y>> \in P
    BY <1>1, <1>2, <1>3
<1>7. \A x, y \in D : <<x, y>> \in SortOrder(o, sort) <=>
        \/ Precedes(sort, v2[x], v2[y])
        \/ ~Precedes(sort, v2[y], v2[x]) /\ Rank(o, x) < Rank(o, y)
    BY <1>5
<1> HIDE DEF P, rank
<1>8. \A x \in D : <<x, x>> \notin SortOrder(o, sort)
    BY <1>4, <1>5, <1>6
<1>9. ASSUME NEW x \in D, NEW y \in D
      PROVE  x = y \/ <<x, y>> \in SortOrder(o, sort) \/ <<y, x>> \in SortOrder(o, sort)
  <2>1. rank[x] < rank[y] \/ rank[y] < rank[x] \/ x = y
      BY <1>4
  <2>2. QED
      BY <1>5, <2>1
<1>10. ASSUME NEW x \in D, NEW y \in D, NEW z \in D,
              <<x, y>> \in SortOrder(o, sort), <<y, z>> \in SortOrder(o, sort)
       PROVE  <<x, z>> \in SortOrder(o, sort)
  <2>1. <<y, x>> \notin P /\ <<z, y>> \notin P
      BY <1>5, <1>6, <1>10
  <2>2. <<z, x>> \notin P
      BY <1>6, <2>1
  <2>3. CASE <<x, y>> \in P \/ <<y, z>> \in P
    <3>1. <<x, z>> \in P
        BY <1>6, <2>1, <2>3
    <3>2. QED
        BY <1>5, <3>1
  <2>4. CASE <<x, y>> \notin P /\ <<y, z>> \notin P
    <3>1. rank[x] < rank[y] /\ rank[y] < rank[z]
        BY <1>5, <1>10, <2>4
    <3>2. rank[x] < rank[z]
        BY <1>4, <3>1
    <3>3. QED
        BY <1>5, <2>2, <3>2
  <2>5. QED
      BY <2>3, <2>4
<1>11. QED
    BY <1>7, <1>8, <1>9, <1>10 DEF IsOrder

\* The stable sort lists the countries in that order.
LEMMA SortLists ==
    ASSUME Inv, NEW o \in Rankings(v2), NEW sort
    PROVE  Lists(StableSort(o, sort), SortOrder(o, sort), DOMAIN v2)
<1> DEFINE D == DOMAIN v2
           n == Cardinality(D)
           R == SortOrder(o, sort)
           Sorted(s) == \A i, j \in DOMAIN o :
                i < j => /\ s[i] # s[j]
                         /\ \/ Precedes(sort, v2[s[i]], v2[s[j]])
                            \/ /\ ~Precedes(sort, v2[s[j]], v2[s[i]])
                               /\ Rank(o, s[i]) < Rank(o, s[j])
<1>1. DOMAIN o = 1..n /\ {o[i] : i \in DOMAIN o} = D
  <2>1. o \in [1..n -> D] /\ \A c \in D : \E i \in DOMAIN o : o[i] = c
      BY StoredOrder
  <2> HIDE DEF n, D
  <2>2. QED
      BY <2>1
<1>2. StableSort(o, sort) = CHOOSE s \in [1..n -> D] : Sorted(s)
    BY <1>1 DEF StableSort
<1>3. IsOrder(R, D) /\ IsFiniteSet(D)
    BY SortIsOrder, V2Totals
<1>4. \A s \in [1..n -> D] : Sorted(s) <=> Lists(s, R, D)
  <2> SUFFICES ASSUME NEW s \in [1..n -> D]
               PROVE  Sorted(s) <=> Lists(s, R, D)
      OBVIOUS
  <2>1. \A i, j \in 1..n : <<s[i], s[j]>> \in R <=>
            \/ Precedes(sort, v2[s[i]], v2[s[j]])
            \/ ~Precedes(sort, v2[s[j]], v2[s[i]]) /\ Rank(o, s[i]) < Rank(o, s[j])
      BY SortIsOrder
  <2>2. \A i, j \in 1..n : <<s[i], s[j]>> \in R => s[i] # s[j]
      BY <1>3 DEF IsOrder
  <2> HIDE DEF R
  <2>3. QED
      BY <1>1, <2>1, <2>2 DEF Lists
<1>5. \E s \in [1..n -> D] : Sorted(s)
  <2>1. PICK s : Lists(s, R, D)
      BY <1>3, ListExists
  <2>2. s \in [1..n -> D]
      BY <2>1 DEF Lists
  <2> HIDE DEF R, Sorted
  <2>3. QED
      BY <1>4, <2>1, <2>2
<1> HIDE DEF Sorted, R
<1>6. StableSort(o, sort) \in [1..n -> D] /\ Sorted(StableSort(o, sort))
    BY <1>2, <1>5
<1>7. Lists(StableSort(o, sort), R, D)
    BY <1>4, <1>6
<1>8. QED
    BY <1>7 DEF R

\* The length of a sequence, by its domain.
LEMMA LengthIs ==
    ASSUME NEW S, NEW s \in Seq(S), NEW n \in Nat, DOMAIN s = 1..n
    PROVE  Len(s) = n
<1>1. Len(s) \in Nat /\ 1..Len(s) = 1..n
    BY LenProperties
<1>2. QED
    BY <1>1

\* A slice holds the elements after the offset, up to the limit.
LEMMA SliceOf ==
    ASSUME NEW S, NEW s \in Seq(S), NEW offset \in Nat, NEW limit \in Nat
    PROVE  /\ Range(Slice(s, offset, limit))
                = {s[i] : i \in {j \in 1..Len(s) : offset < j /\ j <= offset + limit}}
           /\ \A i \in DOMAIN Slice(s, offset, limit) :
                /\ i \in Nat /\ offset + i \in 1..Len(s)
                /\ Slice(s, offset, limit)[i] = s[offset + i]
<1> DEFINE n == Len(s)
           last == IF offset + limit < n THEN offset + limit ELSE n
           m == offset + 1
           t == Slice(s, offset, limit)
           I == {j \in 1..n : offset < j /\ j <= offset + limit}
<1>1. n \in Nat /\ s \in [1..n -> S]
    BY LenProperties
<1>2. t = SubSeq(s, m, last)
    BY DEF Slice
<1> HIDE DEF n
<1>3. n = Len(s)
    BY DEF n
<1>4. m \in Int /\ last \in Int /\ \A i \in m..last : i \in 1..n /\ s[i] \in S
    BY <1>1
<1>5. /\ t \in Seq(S)
      /\ Len(t) = IF m <= last THEN last - m + 1 ELSE 0
      /\ \A i \in 1..(last - m + 1) : t[i] = s[m + i - 1]
  <2> HIDE DEF t, m, last
  <2>1. QED
      BY <1>2, <1>4, SubSeqProperties
<1>6. DOMAIN t = 1..Len(t)
  <2> HIDE DEF t
  <2>1. QED
      BY <1>5, LenProperties
<1> HIDE DEF t
<1>7. \A i \in DOMAIN t : i \in Nat /\ offset + i \in I /\ t[i] = s[offset + i]
  <2> SUFFICES ASSUME NEW i \in DOMAIN t
               PROVE  i \in Nat /\ offset + i \in I /\ t[i] = s[offset + i]
      OBVIOUS
  <2>1. i \in 1..Len(t) /\ m <= last
      BY <1>1, <1>4, <1>5, <1>6
  <2>2. i \in 1..(last - m + 1) /\ m + i - 1 = offset + i
      BY <1>5, <2>1
  <2>3. t[i] = s[offset + i]
      BY <1>5, <2>2
  <2>4. QED
      BY <1>1, <2>2, <2>3
<1>8. \A j \in I : j - offset \in DOMAIN t /\ t[j - offset] = s[j]
  <2> SUFFICES ASSUME NEW j \in I
               PROVE  j - offset \in DOMAIN t /\ t[j - offset] = s[j]
      OBVIOUS
  <2>1. j - offset \in 1..Len(t) /\ j - offset \in 1..(last - m + 1)
      BY <1>1, <1>5
  <2>2. m + (j - offset) - 1 = j
      OBVIOUS
  <2>3. t[j - offset] = s[j]
      BY <1>5, <2>1, <2>2
  <2>4. QED
      BY <1>6, <2>1, <2>3
<1>9. Range(t) = {s[i] : i \in I}
  <2> HIDE DEF I
  <2>1. \A x \in Range(t) : x \in {s[i] : i \in I}
      BY <1>7 DEF Range
  <2>2. \A x \in {s[i] : i \in I} : x \in Range(t)
      BY <1>8 DEF Range
  <2>3. QED
      BY <2>1, <2>2
<1>10. QED
    BY <1>7, <1>9 DEF t, n

\* One without an offset begins with the first element.
LEMMA FirstSlice ==
    ASSUME NEW S, NEW s \in Seq(S), NEW limit \in Nat
    PROVE  /\ Range(Slice(s, 0, limit)) = {s[i] : i \in {j \in 1..Len(s) : j <= limit}}
           /\ \A i \in DOMAIN Slice(s, 0, limit) :
                i \in 1..Len(s) /\ Slice(s, 0, limit)[i] = s[i]
<1>1. PICK zero \in Nat : zero = 0
    OBVIOUS
<1>2. /\ Range(Slice(s, zero, limit))
            = {s[i] : i \in {j \in 1..Len(s) : zero < j /\ j <= zero + limit}}
      /\ \A i \in DOMAIN Slice(s, zero, limit) :
            /\ i \in Nat /\ zero + i \in 1..Len(s)
            /\ Slice(s, zero, limit)[i] = s[zero + i]
    BY SliceOf
<1>3. {j \in 1..Len(s) : zero < j /\ j <= zero + limit} = {j \in 1..Len(s) : j <= limit}
    BY <1>1, LenProperties
<1>4. \A i \in Nat : zero + i = i
    BY <1>1
<1>5. QED
    BY <1>1, <1>2, <1>3, <1>4

\* GET /rankings lists the stored order, or the lowest countries (get_rankings
\* sorts the rows again, by the total alone).
LEMMA RankingsServe == Inv => RankingsAgree
<1> SUFFICES ASSUME Inv, NEW o \in Rankings(v2), NEW limit \in 1..Cardinality(Countries)
    PROVE  LET highest == GetRankings(o, "risk_desc", limit)
               lowest  == Range(GetRankings(o, "risk_asc", limit))
           IN  /\ \A i \in DOMAIN highest : Rank(o, highest[i]) = i
               /\ \A c \in lowest, d \in DOMAIN v2 \ lowest : AtLeast(v2[d], v2[c])
    BY DEF RankingsAgree
<1> DEFINE D == DOMAIN v2
           n == Cardinality(D)
<1>1. n \in Nat /\ IsFiniteSet(D) /\ \A c \in D : IsTotal(v2[c])
    BY V2Totals
<1>2. o \in [1..n -> D] /\ \A i \in 1..n : Rank(o, o[i]) = i
    BY StoredOrder
<1> DEFINE s == StableSort(o, "risk_asc")
<1>3. /\ o \in Seq(D) /\ Len(o) = n
      /\ s \in [1..n -> D] /\ s \in Seq(D) /\ Len(s) = n
  <2>1. s \in [1..n -> D]
      BY SortLists DEF Lists
  <2> HIDE DEF n, D, s
  <2>2. o \in Seq(D) /\ s \in Seq(D)
      BY <1>1, <1>2, <2>1, SeqDef
  <2>3. Len(o) = n /\ Len(s) = n
      BY <1>1, <1>2, <2>1, <2>2, LengthIs
  <2>4. QED
      BY <2>1, <2>2, <2>3
<1>4. StableSort(o, "risk_desc") = o
  <2> DEFINE R == SortOrder(o, "risk_desc")
  <2>1. Lists(StableSort(o, "risk_desc"), R, D) /\ IsOrder(R, D)
      BY SortLists, SortIsOrder
  <2>2. ASSUME NEW i \in 1..n, NEW j \in 1..n, i < j
        PROVE  <<o[i], o[j]>> \in R
    <3>1. o[i] \in D /\ o[j] \in D
        BY <1>2
    <3>2. AtLeast(v2[o[i]], v2[o[j]])
        BY <1>2, <2>2 DEF Rankings
    <3>3. ~MoreThan(v2[o[j]], v2[o[i]])
        BY <1>1, <3>1, <3>2, TotalsCompare
    <3>4. Precedes("risk_desc", v2[o[j]], v2[o[i]]) <=> MoreThan(v2[o[j]], v2[o[i]])
        BY DEF Precedes
    <3>5. Rank(o, o[i]) < Rank(o, o[j])
        BY <1>2, <2>2
    <3>6. QED
        BY <3>1, <3>3, <3>4, <3>5, SortIsOrder
  <2>3. Lists(o, R, D)
      BY <1>2, <2>2 DEF Lists
  <2> HIDE DEF R, D
  <2>4. QED
      BY <1>1, <2>1, <2>3, ListUnique
<1>5. ASSUME NEW i \in DOMAIN GetRankings(o, "risk_desc", limit)
      PROVE  Rank(o, GetRankings(o, "risk_desc", limit)[i]) = i
  <2>1. GetRankings(o, "risk_desc", limit) = Slice(o, 0, limit)
      BY <1>4 DEF GetRankings
  <2>2. /\ limit \in Nat /\ i \in DOMAIN Slice(o, 0, limit)
      BY <1>5, <2>1
  <2> HIDE DEF n, D
  <2>3. i \in 1..n /\ Slice(o, 0, limit)[i] = o[i]
      BY <1>3, <2>2, FirstSlice
  <2>4. i \in 1..n /\ GetRankings(o, "risk_desc", limit)[i] = o[i]
      BY <2>1, <2>3
  <2>5. QED
      BY <1>2, <2>4
<1>6. ASSUME NEW c \in Range(GetRankings(o, "risk_asc", limit)),
             NEW d \in DOMAIN v2 \ Range(GetRankings(o, "risk_asc", limit))
      PROVE  AtLeast(v2[d], v2[c])
  <2> DEFINE R == SortOrder(o, "risk_asc")
  <2>1. Lists(s, R, D) /\ IsOrder(R, D)
      BY SortLists, SortIsOrder
  <2>2. s \in [1..n -> D]
      BY <2>1 DEF Lists
  <2>3. Range(GetRankings(o, "risk_asc", limit)) = {s[i] : i \in {j \in 1..n : j <= limit}}
    <3>1. limit \in Nat
        OBVIOUS
    <3> HIDE DEF s, n, D
    <3>2. Range(Slice(s, 0, limit)) = {s[i] : i \in {j \in 1..n : j <= limit}}
        BY <1>3, <3>1, FirstSlice
    <3>3. QED
        BY <3>2 DEF GetRankings, s
  <2>4. PICK i \in 1..n : s[i] = c /\ i <= limit
      BY <2>3
  <2>5. PICK j \in 1..n : s[j] = d
    <3>1. Place(R, D, d) \in 1..n /\ s[Place(R, D, d)] = d
      <4> HIDE DEF R, s
      <4>1. QED
          BY <1>1, <2>1, ListPlaces, PlacesRise
    <3>2. QED
        BY <3>1
  <2>6. ~(j <= limit)
    <3> HIDE DEF s
    <3>1. QED
        BY <2>3, <2>5
  <2>7. i < j
      BY <2>4, <2>5, <2>6
  <2>8. <<c, d>> \in R
    <3> HIDE DEF R, s
    <3>1. <<s[i], s[j]>> \in R
        BY <2>1, <2>7 DEF Lists
    <3>2. QED
        BY <2>4, <2>5, <3>1
  <2>9. c \in D /\ d \in D
    <3> HIDE DEF s
    <3>1. QED
        BY <2>2, <2>4, <2>5
  <2>10. ~Precedes("risk_asc", v2[d], v2[c])
    <3>1. \/ Precedes("risk_asc", v2[c], v2[d])
          \/ ~Precedes("risk_asc", v2[d], v2[c])
        BY <2>8, <2>9, SortIsOrder
    <3>2. ~(MoreThan(v2[c], v2[d]) /\ MoreThan(v2[d], v2[c]))
        BY <1>1, <2>9, TotalsCompare
    <3>3. QED
        BY <3>1, <3>2 DEF Precedes
  <2>11. ~MoreThan(v2[c], v2[d])
      BY <2>10 DEF Precedes
  <2>12. QED
      BY <1>1, <2>9, <2>11, TotalsCompare
<1>7. QED
    BY <1>5, <1>6

\* GET /countries lists what passes its filters, from the highest total down.
Passing(region, least) == {c \in DOMAIN v2 : c \in region /\ AtLeast(v2[c], least)}

ListsPassing(s, region, least) ==
    /\ s \in Seq(Passing(region, least))
    /\ Len(s) <= Cardinality(Countries)
    /\ \A c \in Passing(region, least) : \E i \in 1..Len(s) : s[i] = c
    /\ \A i, j \in 1..Len(s) :
        i < j => s[i] # s[j] /\ AtLeast(v2[s[i]], v2[s[j]])

LEMMA ListedSorted ==
    ASSUME Inv, NEW o \in Rankings(v2), NEW region, NEW least
    PROVE  ListsPassing(Listed(o, region, least), region, least)
<1> DEFINE rows == Passing(region, least)
           s == Listed(o, region, least)
           n == Cardinality(rows)
           R == {xy \in rows \X rows : Rank(o, xy[1]) < Rank(o, xy[2])}
           Ranked(t) == \A i, j \in DOMAIN t : i < j => Rank(o, t[i]) < Rank(o, t[j])
<1>1. /\ rows \subseteq DOMAIN v2 /\ IsFiniteSet(rows) /\ n \in Nat
      /\ n <= Cardinality(Countries)
  <2>1. rows \subseteq DOMAIN v2 /\ DOMAIN v2 \subseteq Countries
      BY V2Totals DEF Passing
  <2>2. rows \subseteq Countries
      BY <2>1
  <2>3. QED
      BY <2>1, <2>2, RiskScoreAssumption, FS_Subset, FS_CardinalityType
<1> HIDE DEF rows
<1>2. \A x, y \in rows : <<x, y>> \in R <=> Rank(o, x) < Rank(o, y)
    OBVIOUS
<1>3. \A c \in rows : Rank(o, c) \in Int /\ Rank(o, c) \in DOMAIN o /\ o[Rank(o, c)] = c
  <2>1. DOMAIN o = 1..Cardinality(DOMAIN v2)
      BY StoredOrder
  <2>2. \A c \in rows : Rank(o, c) \in DOMAIN o /\ o[Rank(o, c)] = c
      BY <1>1, StoredOrder
  <2>3. DOMAIN o \subseteq Int
      BY <1>1, <2>1, V2Totals
  <2>4. QED
      BY <2>2, <2>3
<1> HIDE DEF R
<1>4. IsOrder(R, rows)
  <2> DEFINE rank == [x \in rows |-> Rank(o, x)]
  <2>1. /\ \A x \in rows : rank[x] \in Int /\ o[rank[x]] = x
        /\ \A x, y \in rows : <<x, y>> \in R <=> rank[x] < rank[y]
      BY <1>2, <1>3
  <2> HIDE DEF rank
  <2>2. \A x, y \in rows : rank[x] = rank[y] => x = y
      BY <2>1
  <2>3. \A x \in rows : <<x, x>> \notin R
      BY <2>1
  <2>4. ASSUME NEW x \in rows, NEW y \in rows
        PROVE  x = y \/ <<x, y>> \in R \/ <<y, x>> \in R
    <3>1. rank[x] < rank[y] \/ rank[y] < rank[x] \/ x = y
        BY <2>1, <2>2
    <3>2. QED
        BY <2>1, <3>1
  <2>5. ASSUME NEW x \in rows, NEW y \in rows, NEW z \in rows,
               <<x, y>> \in R, <<y, z>> \in R
        PROVE  <<x, z>> \in R
    <3>1. rank[x] < rank[y] /\ rank[y] < rank[z]
        BY <2>1, <2>5
    <3>2. rank[x] < rank[z]
        BY <2>1, <3>1
    <3>3. QED
        BY <2>1, <3>2
  <2>6. QED
      BY <2>3, <2>4, <2>5 DEF IsOrder
<1>5. \A t \in [1..n -> rows] : Ranked(t) <=> Lists(t, R, rows)
  <2> SUFFICES ASSUME NEW t \in [1..n -> rows]
               PROVE  Ranked(t) <=> Lists(t, R, rows)
      OBVIOUS
  <2>1. \A i, j \in 1..n : <<t[i], t[j]>> \in R <=> Rank(o, t[i]) < Rank(o, t[j])
      BY <1>2
  <2>2. DOMAIN t = 1..n
      OBVIOUS
  <2>3. QED
      BY <2>1, <2>2 DEF Lists
<1>6. s = CHOOSE t \in [1..n -> rows] : Ranked(t)
    BY DEF Listed, rows, Passing
<1>7. \E t \in [1..n -> rows] : Ranked(t)
  <2>1. PICK t : Lists(t, R, rows)
      BY <1>1, <1>4, ListExists
  <2>2. t \in [1..n -> rows]
      BY <2>1 DEF Lists
  <2> HIDE DEF Ranked, n
  <2>3. QED
      BY <1>5, <2>1, <2>2
<1> HIDE DEF Ranked, s
<1>8. s \in [1..n -> rows] /\ Ranked(s)
    BY <1>6, <1>7
<1>9. Lists(s, R, rows)
    BY <1>5, <1>8
<1>10. \A c \in rows : Place(R, rows, c) \in 1..n /\ s[Place(R, rows, c)] = c
    BY <1>1, <1>4, <1>9, ListPlaces, PlacesRise
<1> HIDE DEF n
<1>11. s \in Seq(rows)
    BY <1>1, <1>8, SeqDef
<1>12. Len(s) = n
    BY <1>1, <1>8, <1>11, LengthIs
<1>13. ASSUME NEW i \in 1..n, NEW j \in 1..n, i < j
       PROVE  s[i] # s[j] /\ AtLeast(v2[s[i]], v2[s[j]])
  <2>1. s[i] \in rows /\ s[j] \in rows
      BY <1>8
  <2>2. Rank(o, s[i]) < Rank(o, s[j])
      BY <1>8, <1>13 DEF Ranked
  <2>3. PICK a, b : a = Rank(o, s[i]) /\ b = Rank(o, s[j])
      OBVIOUS
  <2>4. /\ a \in DOMAIN o /\ o[a] = s[i] /\ b \in DOMAIN o /\ o[b] = s[j] /\ a < b
      BY <1>3, <2>1, <2>2, <2>3
  <2>5. o[a] # o[b] /\ AtLeast(v2[o[a]], v2[o[b]])
      BY <2>4 DEF Rankings
  <2>6. QED
      BY <2>4, <2>5
<1>14. QED
    BY <1>1, <1>10, <1>11, <1>12, <1>13 DEF ListsPassing, rows, s

\* Every position is on a page: the first one that does not end before it.
LEMMA PageOf ==
    ASSUME NEW i \in Nat \ {0}, NEW limit \in Nat \ {0}
    PROVE  \E k \in Nat : k < i /\ k * limit < i /\ i <= k * limit + limit
<1> DEFINE K == {k \in Nat : i <= k * limit + limit}
<1>1. i - 1 \in K
  <2>1. (i - 1) * 1 <= (i - 1) * limit
      BY SMT
  <2>2. QED
      BY <2>1
<1>2. PICK k \in K : \A l \in K : ~(<<l, k>> \in OpToRel(<, Nat))
  <2>1. K \subseteq Nat /\ K # {}
      BY <1>1
  <2> HIDE DEF K
  <2>2. QED
      BY <2>1, NatLessThanWellFounded, WFMin, Zenon
<1>3. \A l \in K : ~(l < k)
  <2>1. K \subseteq Nat
      OBVIOUS
  <2> HIDE DEF K
  <2>2. QED
      BY <1>2, <2>1 DEF OpToRel
<1>4. k \in Nat /\ i <= k * limit + limit /\ k < i
    BY <1>1, <1>3
<1>5. k * limit < i
  <2>1. CASE k = 0
      BY <2>1
  <2>2. CASE k # 0
    <3>1. k - 1 \in Nat /\ ~(k - 1 \in K)
        BY <1>3, <1>4, <2>2
    <3>2. (k - 1) * limit + limit = k * limit
        BY <1>4
    <3>3. k * limit \in Nat
        BY <1>4
    <3>4. QED
        BY <3>1, <3>2, <3>3
  <2>3. QED
      BY <2>1, <2>2
<1>6. QED
    BY <1>4, <1>5, Zenon

\* Its pages partition that list (list_countries takes offset and limit of it).
LEMMA PagesServe == Inv => PagesPartition
<1> SUFFICES ASSUME Inv, NEW o \in Rankings(v2), NEW region \in Regions,
                    NEW d \in DOMAIN v2, NEW limit \in 1..Cardinality(Countries)
    PROVE  LET listed == {c \in region \cap DOMAIN v2 : AtLeast(v2[c], v2[d])}
               page(k) == Range(ListCountries(o, region, v2[d], k * limit, limit))
               pages   == 0..Cardinality(Countries)
           IN  /\ UNION {page(k) : k \in pages} = listed
               /\ \A k, l \in pages : k < l =>
                    /\ page(k) \cap page(l) = {}
                    /\ \A c \in page(k), e \in page(l) : AtLeast(v2[c], v2[e])
    BY DEF PagesPartition
<1> DEFINE listed == {c \in region \cap DOMAIN v2 : AtLeast(v2[c], v2[d])}
           page(k) == Range(ListCountries(o, region, v2[d], k * limit, limit))
           pages == 0..Cardinality(Countries)
           s == Listed(o, region, v2[d])
           n == Len(s)
           At(k) == {j \in 1..n : k * limit < j /\ j <= k * limit + limit}
<1>1. listed = Passing(region, v2[d])
    BY DEF Passing
<1>2. /\ s \in Seq(listed) /\ n <= Cardinality(Countries)
      /\ \A c \in listed : \E i \in 1..n : s[i] = c
      /\ \A i, j \in 1..n : i < j => s[i] # s[j] /\ AtLeast(v2[s[i]], v2[s[j]])
  <2>1. ListsPassing(s, region, v2[d])
      BY ListedSorted
  <2> HIDE DEF listed, s
  <2>2. QED
      BY <1>1, <2>1 DEF ListsPassing
<1>3. Cardinality(Countries) \in Nat /\ limit \in Nat \ {0}
    BY V2Totals
<1> HIDE DEF listed, s
<1>4. n \in Nat /\ \A i \in 1..n : s[i] \in listed
    BY <1>2, LenProperties
<1>5. ASSUME NEW k \in pages
      PROVE  page(k) = {s[i] : i \in At(k)}
  <2>1. k * limit \in Nat
      BY <1>3
  <2>2. page(k) = Range(Slice(s, k * limit, limit))
      BY DEF ListCountries, s
  <2>3. QED
      BY <1>2, <1>3, <2>1, <2>2, SliceOf
<1> HIDE DEF page, n
<1>6. \A i \in 1..n : \E k \in pages : i \in At(k)
  <2> SUFFICES ASSUME NEW i \in 1..n
               PROVE  \E k \in pages : k * limit < i /\ i <= k * limit + limit
      OBVIOUS
  <2>1. i \in 1..Cardinality(Countries)
      BY <1>2, <1>3, <1>4 DEF n
  <2>2. i \in Nat \ {0} /\ limit \in Nat \ {0}
      BY <1>3, <2>1
  <2>3. PICK k \in Nat : k < i /\ k * limit < i /\ i <= k * limit + limit
      BY <2>2, PageOf, Zenon
  <2>4. k \in pages
      BY <1>3, <2>1, <2>3
  <2>5. QED
      BY <2>3, <2>4
<1>7. ASSUME NEW k \in pages, NEW l \in pages, k < l, NEW i \in At(k), NEW j \in At(l)
      PROVE  i \in 1..n /\ j \in 1..n /\ i < j
  <2>1. (k + 1) * limit <= l * limit
      BY <1>3, <1>7, Monotone
  <2>2. (k + 1) * limit = k * limit + limit /\ k * limit \in Nat /\ l * limit \in Nat
      BY <1>3
  <2>3. QED
      BY <1>3, <1>4, <2>1, <2>2
<1>8. UNION {page(k) : k \in pages} = listed
  <2>1. \A k \in pages : page(k) \subseteq listed
      BY <1>4, <1>5
  <2>2. \A c \in listed : \E k \in pages : c \in page(k)
    <3> SUFFICES ASSUME NEW c \in listed PROVE \E k \in pages : c \in page(k)
        OBVIOUS
    <3>1. PICK i \in 1..n : s[i] = c
        BY <1>2 DEF n
    <3>2. PICK k \in pages : i \in At(k)
        BY <1>6
    <3> HIDE DEF At
    <3>3. c \in page(k)
        BY <1>5, <3>1, <3>2
    <3>4. QED
        BY <3>3
  <2> HIDE DEF pages
  <2>3. QED
      BY <2>1, <2>2
<1>9. ASSUME NEW k \in pages, NEW l \in pages, k < l
      PROVE  /\ page(k) \cap page(l) = {}
             /\ \A c \in page(k), e \in page(l) : AtLeast(v2[c], v2[e])
  <2>1. ASSUME NEW c \in page(k), NEW e \in page(l)
        PROVE  c # e /\ AtLeast(v2[c], v2[e])
    <3> HIDE DEF At
    <3>1. PICK i \in At(k) : c = s[i]
        BY <1>5
    <3>2. PICK j \in At(l) : e = s[j]
        BY <1>5
    <3>3. i \in 1..n /\ j \in 1..n /\ i < j
        BY <1>7, <1>9
    <3>4. QED
        BY <1>2, <3>1, <3>2, <3>3 DEF n
  <2>2. QED
      BY <2>1
<1>10. QED
    BY <1>8, <1>9 DEF page, listed

\* The pages and rankings that clients read serve the stored catalogue, as it
\* is ordered and whatever the order of its ties (list_countries, get_rankings).
THEOREM RoutesServe == Spec => []RoutesServeCatalogue
<1>1. Inv => RoutesServeCatalogue
    BY PagesServe, RankingsServe DEF RoutesServeCatalogue
<1>2. QED
    BY <1>1, InitInv, NextInv, PTL DEF Spec
==============================================================================
