----------------------------- MODULE Overview ------------------------------
(***************************************************************************)
(* What the product shows of the score tables: ranks and bands             *)
(* (scoring/risk_score.py), the tables fact_country_overview and           *)
(* fact_risk_components (bi/publish.py), and the API routes that list,     *)
(* rank and explain them (api/routes/countries.py, rankings.py).           *)
(*                                                                         *)
(* A ranking is a sequence of countries.  The sort of the score tables is  *)
(* not stable, so every order of countries with equal totals is one that   *)
(* a run may store; the properties quantify over all of them.              *)
(***************************************************************************)
EXTENDS RiskScore, Sequences, FiniteSetsExt, Functions

-----------------------------------------------------------------------------
(* Ranks.                                                                  *)

\* The orders in which `score` may leave the rows of a table.
Rankings(table) ==
    {o \in [1..Cardinality(DOMAIN table) -> DOMAIN table] :
        \A i, j \in DOMAIN o :
            i < j => o[i] # o[j] /\ AtLeast(table[o[i]], table[o[j]])}

Rank(o, c) == CHOOSE i \in DOMAIN o : o[i] = c

\* BANDS, by their upper limits in percent; the last one has no other.
Bands == <<[upper |-> 20,  label |-> "lower"],
           [upper |-> 40,  label |-> "moderate-low"],
           [upper |-> 60,  label |-> "moderate"],
           [upper |-> 80,  label |-> "elevated"],
           [upper |-> 100, label |-> "high"]>>

\* The total of a row is at most so many percent.
Within(row, percent) == 100 * row.points <= percent * Hundred * row.weight

BandOf(row) ==
    CHOOSE i \in DOMAIN Bands :
        /\ Within(row, Bands[i].upper) \/ i = Len(Bands)
        /\ \A j \in 1..(i - 1) : ~Within(row, Bands[j].upper)

\* Seeded fault: a band has no segment of its own.
RiskSegmentOfHigh(label) ==
    CASE label = "high"     -> "High transition risk"
      [] label = "moderate" -> "Medium transition risk"
      [] OTHER              -> "Lower transition risk"

RiskSegment(label) ==
    CASE label \in {"high", "elevated"} -> "High transition risk"
      [] label = "moderate"             -> "Medium transition risk"
      [] OTHER                          -> "Lower transition risk"

-----------------------------------------------------------------------------
(* The tables of build-bi.                                                 *)

\* build_country_overview: the countries of v2, those of v1 joined to them.
OverviewRow(c, o1, o2) ==
    [country    |-> c,
     row        |-> v2[c],
     rank       |-> Rank(o2, c),
     rank_v1    |-> IF c \in DOMAIN v1 THEN Rank(o1, c) ELSE None,
     rank_delta |-> IF c \in DOMAIN v1 THEN Rank(o2, c) - Rank(o1, c) ELSE None,
     segment    |-> RiskSegment(Bands[BandOf(v2[c])].label)]

CountryOverview(o1, o2) == [i \in DOMAIN o2 |-> OverviewRow(o2[i], o1, o2)]

\* Seeded fault: `if not score` for `pd.isna(score)`.
ServedIfNonZero(score) == score # None /\ score # 0

\* A component score is a row of its own unless it is missing.
Served(score) == score # None

\* EFFECTIVE_WEIGHTS and EFFECTIVE_WEIGHTS_V2, in units of 1/8000: constants,
\* whatever is missing of a country.
EffectiveWeight(version, k) ==
    CASE version = "v1"        -> IF k = "energy" THEN None ELSE 100 * Weight[k]
      [] version = "v2_energy" -> 80 * Weight[k]

\* build_risk_components.
RiskComponents ==
    LET rows(version, table) ==
            {[country |-> c, version |-> version, component |-> k,
              score |-> table[c].scores[k],
              weight |-> EffectiveWeight(version, k)] :
                c \in DOMAIN table, k \in DOMAIN Weight}
    IN  {r \in rows("v1", v1) \cup rows("v2_energy", v2) : Served(r.score)}

-----------------------------------------------------------------------------
(* The routes.                                                             *)

\* Seeded fault: a page begins with the last row of the one before.
SliceFromOffset(s, offset, limit) ==
    SubSeq(s, IF offset = 0 THEN 1 ELSE offset,
              IF offset + limit < Len(s) THEN offset + limit ELSE Len(s))

\* rows[offset : offset + limit].
Slice(s, offset, limit) ==
    SubSeq(s, offset + 1, IF offset + limit < Len(s) THEN offset + limit ELSE Len(s))

\* A region's countries with at least the score of a row, sorted by rank.
Listed(o, region, least) ==
    LET rows == {c \in DOMAIN v2 : c \in region /\ AtLeast(v2[c], least)}
    IN  CHOOSE s \in [1..Cardinality(rows) -> rows] :
            \A i, j \in DOMAIN s : i < j => Rank(o, s[i]) < Rank(o, s[j])

\* GET /countries.

ListCountries(o, region, least, offset, limit) ==
    Slice(Listed(o, region, least), offset, limit)

\* The comparison of rows that a sort is by.
Precedes(sort, a, b) == IF sort = "risk_asc" THEN MoreThan(b, a) ELSE MoreThan(a, b)

\* The stable sort of a stored order; reverse=True keeps the order of ties.
StableSort(o, sort) ==
    CHOOSE s \in [DOMAIN o -> {o[i] : i \in DOMAIN o}] :
        \A i, j \in DOMAIN o :
            i < j => /\ s[i] # s[j]
                     /\ \/ Precedes(sort, v2[s[i]], v2[s[j]])
                        \/ /\ ~Precedes(sort, v2[s[j]], v2[s[i]])
                           /\ Rank(o, s[i]) < Rank(o, s[j])

\* Seeded fault: the ascending order turned round, and with it the ties.
GetRankingsReversed(o, sort, limit) ==
    LET ascending == StableSort(o, "risk_asc")
    IN  Slice(IF sort = "risk_asc" THEN ascending
              ELSE [i \in DOMAIN o |-> ascending[Len(o) + 1 - i]], 0, limit)

\* GET /rankings.
GetRankings(o, sort, limit) == Slice(StableSort(o, sort), 0, limit)

\* GET /countries/{iso3}/risk-components.
GetRiskComponents(c) == {r \in RiskComponents : r.country = c}

-----------------------------------------------------------------------------
(* Properties.                                                             *)

\* What a client is told of a score adds up to it: the mean of a country's
\* component rows of a version, by their effective weights, is its total, and
\* in v2 the weights add up to its weight coverage.  (They are not "the weight
\* actually applied after missing-data renormalisation" of models.py.)
WeightSum(rows) == MapThenSumSet(LAMBDA r : r.weight, rows)
PointSum(rows) == MapThenSumSet(LAMBDA r : r.weight * r.score, rows)

Explains(rows, row) ==
    /\ rows # {}
    /\ PointSum(rows) * row.weight = row.points * WeightSum(rows)

ComponentsExplainScore ==
    \A c \in Countries :
        LET rows(version) == {r \in GetRiskComponents(c) : r.version = version}
        IN  /\ c \in DOMAIN v1 => Explains(rows("v1"), v1[c])
            /\ c \in DOMAIN v2 => /\ Explains(rows("v2_energy"), v2[c])
                                  /\ WeightSum(rows("v2_energy")) = 80 * v2[c].coverage

\* Whatever the order of ties, the overview never ranks a country above one in
\* a segment of higher risk, and ranks the countries without energy data among
\* themselves as v1 does: a rank delta is the work of the energy component.
Severity(segment) ==
    CASE segment = "High transition risk"   -> 3
      [] segment = "Medium transition risk" -> 2
      [] segment = "Lower transition risk"  -> 1

OverviewFollowsRisk ==
    \A o1 \in Rankings(v1), o2 \in Rankings(v2) :
        LET rows == CountryOverview(o1, o2)
        IN  \A i, j \in DOMAIN rows : i < j =>
              /\ Severity(rows[i].segment) >= Severity(rows[j].segment)
              /\ /\ WritesV2(panel)
                 /\ rows[i].row.scores.energy = None /\ rows[j].row.scores.energy = None
                 /\ rows[i].rank_v1 # None /\ rows[j].rank_v1 # None
                 /\ rows[i].rank_v1 > rows[j].rank_v1
                 => ~MoreThan(rows[i].row, rows[j].row)

\* The pages of GET /countries hold every country of a region that scores
\* enough, once, and no page has one that scores less than one of a later page.
Regions == {Countries} \cup {Countries \ {c} : c \in Countries}

PagesPartition ==
    \A o \in Rankings(v2), region \in Regions, d \in DOMAIN v2,
       limit \in 1..Cardinality(Countries) :
        LET listed == {c \in region \cap DOMAIN v2 : AtLeast(v2[c], v2[d])}
            page(k) == Range(ListCountries(o, region, v2[d], k * limit, limit))
            pages   == 0..Cardinality(Countries)
        IN  /\ UNION {page(k) : k \in pages} = listed
            /\ \A k, l \in pages : k < l =>
                 /\ page(k) \cap page(l) = {}
                 /\ \A c \in page(k), e \in page(l) : AtLeast(v2[c], v2[e])

\* GET /rankings lists the countries in the order of the first page, with equal
\* totals, too, and ascending it lists the lowest ones.
RankingsAgree ==
    \A o \in Rankings(v2), limit \in 1..Cardinality(Countries) :
        LET highest == GetRankings(o, "risk_desc", limit)
            lowest  == Range(GetRankings(o, "risk_asc", limit))
        IN  /\ \A i \in DOMAIN highest : Rank(o, highest[i]) = i
            /\ \A c \in lowest, d \in DOMAIN v2 \ lowest : AtLeast(v2[d], v2[c])

\* Whatever the order of ties in the stored table, which each route sorts again,
\* the pages partition the catalogue and the rankings agree with them.
RoutesServeCatalogue == PagesPartition /\ RankingsAgree
=============================================================================
