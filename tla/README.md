# Climate transition risk platform: verification project

TLA+ models of the batch pipeline, product publication, ingestion, panel, backtest,
energy features, scoring, API and of the research milestones M6 and M7 of
`climate_risk`, model-checked with TLC and, where marked, proved with TLAPS.
Paths are relative to the repository; `cli.py`, `storage/…` and so on are under
`src/climate_risk/`.

## 1. The system

A weekly job (`climate-risk run`) downloads three public data sets, joins them
into a country–year panel, backtests a baseline forecast, scores 19 countries,
publishes a *release* behind a barrier, and then publishes a *product* (BI tables
and a JSON bundle) that an API and a static dashboard serve read-only. Everything
lives in one object store (local directories, or Azure Blob) with four zones:
`raw`, `bronze`, `silver`, `gold`. There is no database, no lock and no
transaction; a process sees other processes only through the store.

### 1.1 Components

| component | state it keeps | operations |
|---|---|---|
| `cli.py` commands | nothing between invocations; a run's memory inside one | `ingest`, `build-silver`, `energy-features`, `backtest`, `score`, `publish`, `publish-product`, `build-bi`, `build-web`, `run` (all of them in order), research commands |
| source adapters, HTTP retry (`ingestion/`) | loop counter, responses | `fetch`, `validate_transport`, `standardise`, `quality_checks`; four attempts per GET |
| `ingestion/pipeline.py` | `raw/source=…/run_id=…/manifest.json`, `bronze/source=…/snapshot_id=…` | `run_ingest` |
| silver transforms | `silver/table=…/snapshot_set_id=…` | `build_silver_panel`, energy table, `dim_country` |
| analytics (scoring, backtest, features, scenarios) | five gold artifacts, each at one fixed path | `backtest`, `score` (v1, then v2 best effort), `energy-features` |
| publishing barrier | `gold/manifests/<run_id>.json`, `gold/latest_successful_run.json` (the pointer) | `barrier.publish`, `read_latest_run` |
| durable-success check (`storage/runtime.py`) | none | `verify_durable_success`, in Azure only |
| storage backends | the objects | atomic single-object write, read, list with `modified_at` |
| product publication | `gold/bi/*.parquet`, `gold/web/*.json`, `gold/web/manifest.json` | `publish_product` = BI build, web build, verification |
| API | an immutable bundle in memory | `load_bundle` at startup; GET routes |
| dashboard (`web/`) | files fetched so far | fetch manifest, fetch files lazily |
| research (M6, M7), static report | files no release reads | offline statistics, decision gates |
| configuration, logging, infrastructure | – | YAML; the job's schedule, retry and timeout |

### 1.2 Interactions

All communication between processes is through stored objects. "The latest"
object of a family is the one with the greatest `modified_at`
(`storage/local.py`, `storage/azure.py`); a content-addressed path that is
written again becomes the latest again; nothing is ever deleted. Two jobs may
overlap: the container job has parallelism 1, but it is retried once after a
failure, is killed after 1800 s, and `docs/finops.md` tells operators to start it
by hand; every stage is also a command of its own. The API scales to zero, so
replicas load the bundle at arbitrary moments, also while it is being rewritten.

### 1.3 What is hard here

* Crashes between any two object writes, with no transaction to undo them.
* Artifacts at fixed paths, overwritten before `publish` decides.
* "Best effort" steps (energy table, v2 score, energy features) that leave the
  output of an earlier run behind when they fail.
* Partial failure of `ingest`: one source of three, or one indicator of two.
* Readers without locks: the API reads a manifest and nine files one by one.
* Retries mixing three kinds of failures over several URLs.
* Small-sample percentile scores, with components missing for some countries, and
  an order of ties that is sorted again by every reader.
* Research that evaluates today's code as if from earlier years: anything later that
  leaks in, or a method compared on other splits, makes its decision worthless.

`PROJECT.json` lists each hazard at the line where it bites, with the properties
that would catch it.

## 2. Modules

### 2.1 `ReleaseBarrier` – what a release barrier promises

Abstract: a set of runs whose evidence is `recorded`, a set that is past the
barrier (`retired`), and the `latest` run. `Record` stores evidence, `Promote`
moves `latest` to a recorded run and retires it, `Retire` gives up. There is no
way to name a run whose evidence is not stored, and none to move `latest` for a
run that gave up. `Pipeline` implements it (`BarrierSpec`).

### 2.2 `Pipeline` – the core pipeline

One action per storage operation of every stage; a job is one invocation.

| actions | code |
|---|---|
| `Start`, `Crash`, `EndIngest`, `StageDone`, `Exit` | `cli.py` `run` and the stage commands, exit codes |
| `Fetch`, `SourceFails`, `WriteRawManifest`, `WriteBronze` | `cli.py` `ingest`, `ingestion/pipeline.py` `run_ingest` |
| `ReadBronzeCo2`, `ReadBronzeWdi`, `WriteTransition`, `ReadBronzeEnergy`, `WriteEnergy` | `cli.py` `build-silver`, `transforms/silver.py` |
| `ComputeFeatures`, `WriteFeatures` | `cli.py` `energy-features` |
| `RunBacktest`, `WriteBacktestDetail`, `WriteBacktestSummary` | `cli.py` `backtest` |
| `ComputeScores`, `WriteScoreV1`, `ReadEnergyForV2`, `WriteScoreV2` | `cli.py` `score` |
| `CheckRaw`, `CheckSilver`, `CheckGold`, `ReadGold`, `WriteManifest` | `cli.py` `publish` |
| `Barrier` | `publishing/barrier.py` |
| `Verify`, `Durable` | `storage/runtime.py` `verify_durable_success` |

Data is reduced to provenance: a payload is a member of `Snapshots`, some of them
`Fatal` (validation finds a FATAL event) or `Thin` (accepted, too little history
to compute on); an artifact records the job that wrote it and what it was
computed from. The variables `raw`, `bronze`, `silver` hold the newest object of
each family, because nothing is deleted and nothing but the newest is read.

Left out because no modelled step reads them: `payload.bin`, `dim_country`,
`rank_stability*.json`. The FATAL rules of the silver tables (`FatalPanel`) repeat
the rules of ingestion on the same data; they are kept as in the code, as a
defence that the first line never lets anything through to. Two objects written
within one tick of the store's clock have no newest one; the model orders writes
totally.

### 2.3 `Product` and `ApiServer` – publication and its reader

`Product` has one step per file read or written by `build_bi_artifacts`,
`write_bi_artifacts`, `build_web_bundle`, `write_web_bundle` and
`verify_product_publication`, for the commands `run`, `publish-product`,
`build-bi` and `build-web`. The core stages of `run` appear by what they write: one
step per analytics file (`Compute`, in the order `WriteSeq`), then the evidence and the
pointer (`CorePublish`). What these stages read, and `publish` step by step, are in
`Pipeline`. `build_bi_artifacts` reads the analytics files one after another in an
order of its own (`ReadSeq`), so another job may write between two reads. A silver
table, which has a path per snapshot set, is one file here: only its newest version is
read.

A version is one content of an analytics file. `Compute` knows one rule about
contents: the energy table is best effort, and the features and v2 are written only
from one with enough history (`Thin`, `FromEnergy`); otherwise the files of an earlier
run stay. `publish` refuses without the tables it asks for (`PublishNeeds`), the product
stage without any of those it reads. The content of a later file is what it was
computed from: the versions of the files it shows (`Shows`), the run, or both; a hash is
modelled by the content it is of. `run_metadata` depends on the run only, because its
safelisted fields leave the silver paths out.

`ApiServer` extends it with replicas: `CheckExists`, `ReadManifest`, `ReadFile`,
`Validate` are `load_bundle`; `RestartFailed` and `Recycle` are the platform's.

`publish-product` takes the run from the pointer and the tables from whatever lies at
the fixed gold paths. So a bundle may carry the name of one run and the analytics of a
later one that was refused (`ServedIsPublished`, section 6); `ServedIsOneRelease` says
that this, after an abandoned run and by hand, is the only way.

### 2.4 `Fetch` – one source up to its verdict

`TransportError`, `Retry`, `Return` are the iterations of `get_with_retry` inside
the adapters' `fetch`; `Validate` is the rest of `run_ingest` up to the verdict.
A body is reduced to what the adapters can tell apart. The verdicts are those
`Pipeline` starts from: `accepted` is a payload (possibly `Thin`: `no_rows`, or
the World Bank without an indicator), `rejected` a `Fatal` one, `raised` is
`SourceFails`.

### 2.5 `RiskScore` – the two score tables

`Table1` and `Table2` are `compute_risk_scores` and `compute_risk_scores_v2` as
operators on what is known of each country. `Rescore` changes the data of one
country and runs `score` again: v1 is written unless empty, v2 only if some
country has energy features, and otherwise the old v2 stays. Arithmetic is exact:
a percentile rank is `average_rank / n`, so with `Unit` a common multiple of the
possible `n` every component is a whole number of `1 / (4 * Unit)`, and a total is
the pair points and weight, compared by cross-multiplication. (The code rounds
coverage to four digits, which whole percentages survive.) `Metrics` says which
metrics can be missing together: pace needs the shortest history, coupling and
volatility a longer one, the forward pair a backtest on top.

What the energy component may do to a total is `EnergyPulls`: v2 lies between v1 and
the energy score, although v2 renormalises with weights of its own. Ranks and bands
are in `Overview`; the confidence score, a function of total and coverage, is left
out, like the weight-perturbation analysis.

### 2.6 `Overview` – what a client is shown of the scores

Extends `RiskScore` with operators on the two stored tables: the order of their rows
(`Rankings`: the sort is not stable, so a run may leave any order of ties), bands,
`build_country_overview` and `build_risk_components` (`bi/publish.py`), and the routes
`GET /countries`, `/rankings` and `/countries/{iso3}/risk-components`. Every property
holds for every order of ties, those of the pages for every page size up to the number
of countries. The list of the catalogue is defined as the one that is sorted by rank,
which is what `sorted(rows, key=rank)` returns of distinct ranks; the prover has no
facts about a filter applied to a sequence. The other routes return one stored row.

### 2.7 `Panel` – the country-year panel and what its history allows

A cell is what the two sources report of a country in a year; `BuildPanel` is the
join. `Rerun` lets the sources report or revise one cell and runs the pipeline:
`RunBacktest` is `run_backtest` (a row per country, split and model), `Manifest`
is what `publish` records of the model-eligible year; both stay as they were when
the code exits early. A forecast is represented by what it is computed from: the
years and levels it was fitted on, and its horizon. So two forecasts are equal
exactly if the code was given the same inputs, which is what a statement about
leakage needs, and the numbers of the regression and of the bootstrap are left out.
The thresholds 3, 5 and 6 are the code's. `ComponentsNested` is what `Metrics` of
`RiskScore` assumes of the components that can be missing together.

### 2.8 `Recency` – nested selection and calibration (research phase M7.4)

Extends `Panel`: `m7-phase4` reads the newest panel and writes nothing the pipeline
reads, so its results are operators on the panel of each state. `Selected` is
`select_nested_recency_schemes`, `IntervalScale` is `prior_origin_interval_scales`,
`Phase4Forecast` and `EvaluatedBy` are `run_phase4_backtest`. As in `Panel`, a result
is what it is computed from: a chosen scheme the forecasts and outcomes whose mean
errors are compared, a scale the residuals it is a quantile of. What the choice then
is, and the gates of `phase4_decision`, are numbers and left out. `HasWidth` decides
when an interval has a width from the levels alone: a draw of changes that differ
gives one, but for percentiles that coincide.

### 2.9 `Energy` and `Detection` – energy features, and structural breaks (M6, M7.1, M7.2)

`Energy` extends `Recency`. A cell of `Panel` also says which shares of the electricity mix a
country reports in a year (or that the energy table has no row). `EnergyFeatures` is
`compute_energy_features`, each feature kept as the years it is computed from;
`SplitInputs` and `IncrementalDataset` are `build_incremental_dataset`, which evaluates
the features from historical origins.

`Detection` extends it with `build_candidate_series_panel` (`CandidateSeries`, a value of
a series kept as what it is computed from), `detect_break` with its four methods,
`detect_breaks_by_origin` (`BreaksAsOf`) and `method_agreement`. The regressions are
constants: how well a method likes a break of a series in a year (`Fit`) and whether
it passes the thresholds (`Detected`). What is modelled is what a series is derived
from, where a method may look for a break, which of the best it takes, and what the
methods then agree on.

### 2.10 `Regimes` – regime-aware forecasts (research phase M7.3)

Extends `Detection`. `Regime` is `detect_break` of the levels with the method
`segmented_regression`, `RegimeAt` is `_regime_evidence`, `Active` is
`regime_activation`, and `Phase3Forecasts` has what `forecast_scenario` returns for
each of the seven methods; `EvaluatedInPhase3` is `run_regime_scenario_backtest`,
`Perturbed` is `break_year_sensitivity`. Whether a break is trusted is a constant
(`Confident`); what is modelled is which history and which fallback a method uses,
and which weight each change is drawn with. Weights are made for rows and used for changes between levels, so the model
keeps both years (`WeightRow`). A weight is the age it halves by, or the name of the
multiplier.

### 2.11 `Gates` – the decision of research phase M7.3

Extends `Regimes`. `Phase3Results` are the rows that `run_regime_scenario_backtest`
writes, `Phase3Decision` is `phase3_decision` with its six gates and five outcomes,
all of which occur in the instance that TLC checks. How far a forecast is off (`Error`), whether
its interval covers the outcome (`Covers`) and whether the shifts of a moved break are
small (`Stable`) are constants, so the decision is examined for any numbers. Means are
sums, because all bootstraps have the same splits (`RegimesComparable`, proved).

### 2.12 Proof modules

`PipelineProofs` (types, durability, refinement) and `PipelineDataProofs` (quarantine
and evidence, extending it) are about `Pipeline`; `ApiServerProofs` about `Product` and
`ApiServer`; `FetchProofs` about `Fetch`; `RiskScoreProofs` about `RiskScore` and
`Overview`; `PanelProofs`, `RecencyProofs` and `RegimesProofs` about `Panel` and the
modules that extend it. See section 5. `MC*` modules only give TLC small constants.

### 2.13 Plan

Ordered by how much of the system depends on the behaviour.

| step | modules | state |
|---|---|---|
| 1 | `ReleaseBarrier`, `Pipeline` and its proofs: what a release means | done |
| 2 | `Product`, `ApiServer`: publication and a concurrent reader | done, with `ApiServerProofs` |
| 3 | `Fetch` and its proofs: verdicts under retries | done |
| 4 | `RiskScore` and its proofs | done |
| 5 | `Panel` and its proofs: common years, rolling-origin backtest, thresholds | done |
| 6 | `Recency` and its proofs: selection and calibration without leakage | done; to do: the gates of phase 4 |
| 7 | `Energy`, `Detection` and their proofs: windows, candidate series, breaks | done; to do: temporal stability |
| 8 | `Regimes`, `Gates` and their proofs: activation, fallbacks, weights, decision | done |
| 9 | `Overview`: ranks, bands, tables and routes | done, with `RiskScoreProofs` |
| 10 | the dashboard as a second reader of `Product`; the error summary of the backtest; storage configuration | to do |

Abstract specifications: `ReleaseBarrier` (done). A register of one validated bundle,
which was planned for step 2, is not what this code implements: a replica may serve
an older bundle, and under an older run's name the analytics of a later one. What it
does promise are the three properties of `ApiServer`. Theorems to come: those of
the parts of steps 6, 7 and 10 that are still to be modelled.

## 3. Runs

| run | bounds | question |
|---|---|---|
| `pipeline_serial` | 3 jobs one at a time out of `run`, `publish`, `score`; 3 payloads (good, FATAL, thin); 2 faults; liveness | is the evidence of a release true, whatever failed before it? is there a state of the lake that later runs cannot get out of? |
| `pipeline_concurrent` | 2 overlapping jobs, each any of the 7 commands; 3 payloads; 1 fault | do quarantine, durability and the barrier survive every interleaving? |
| `pipeline_stale_v2`, `pipeline_overwrite` | 2 jobs, 1 fault | counterexamples to documented claims (section 6) |
| `api_concurrent` | 2 overlapping jobs of any product command, 2 tables, 2 analytics files, 1 replica | can a torn read be served? |
| `api_serial` | 2 jobs (`run` or `publish-product`) one after the other, 3 tables, 3 analytics files in 2 versions, one of which is too thin for features, 2 faults, 1 replica recycled once; liveness | does a replica serve one release's tables, and does a clean run end up served? |
| `api_bundle_lost` | 2 jobs, 1 fault | counterexample (section 6) |
| `api_mixed_release` | 3 jobs (`run` or `publish-product`) one after the other, 1 fault, 1 replica | counterexample (section 6) |
| `fetch_verdicts` | 4 attempts as in the code; statuses 200, 401, 404, 503; nine bodies | which answers are accepted, rejected, given up on? |
| `score_totals` | 3 countries: histories of three lengths, pace, energy and forward metrics in 0..1, missing in every combination the code allows for these | do totals stay in range, does v2 fall back to v1 and never go past the energy score, does a worse metric ever help? whatever the order of ties: do the rows of a decomposition add up to the total, do ranks, segments and rank deltas follow the scores, do the pages hold every country once, do the routes agree? |
| `panel_histories` | 10 years of one country, the first four known and the others in any order, with a zero, a revision, a withdrawn GDP and a missing population; 3 years of a second one, one of them without a level; 5 splits of three generations of origins, one with a target beyond the panel; at least 2 prior splits; energy rows that are absent, empty, complete or lack the fossil or the low-carbon share; breaks in 6 values or more with 3 on each side, in different years for the four methods, found and trusted for some numbers of values and not for others; errors and intervals by rules that depend on the history and the weights | what is backtested, scored and called model-eligible? does the nested selection, the M6 dataset, a break or a regime see the future, and are the methods compared on the same splits? are active regimes long enough, is agreement what it says, are the two windows and the two momenta one? can phase 3 accept without active regimes? |
| `recency_selection` | the same | counterexample (section 6) |

Why these bounds are enough. A release mixes data of at most two histories: the
job that publishes and what earlier jobs left, so two jobs show a mixture and the
third lets one job recover from it. Two faults let a job fail twice in a row or
the repair fail; a payload of each kind gives every branch, and artifacts are told apart
by the job that wrote them. `pipeline_serial` checks what holds of one job at a time only; what holds
of any number at once is checked with two and proved. In `ApiServer` three BI tables stand for the eight of the code: one
that shows the run, one that shows the analytics, one that shows both and from
which the country index is derived. Three analytics files stand for the seven that
`run` rewrites: the energy table and the two computed from it, which may be skipped, one of
them asked for by `publish`, one not, two shown by both tables. Where jobs overlap there
are two tables and two files, so that a step of another job still falls between any
two reads or writes. Three countries give a percentile with a tie,
one without, and a rank that shifts when a third country's data come or go. Ten
years let a history pass each of the code's thresholds (3, 5 and 6 years) and leave
room for an origin, its outcome and a later origin that learns from it; the first
four years are given because only the threshold of three lies below them, and a zero
in the third reaches it. Six levels and three on each side of a break stand for the
code's twelve and five: the shortest history then has one possible break year and longer
ones several, and a regime may be long enough for a bootstrap of its own (with nine
levels) or not. The four methods like the earliest, the latest and a middle year, so that
they agree, lie one year apart, tie or differ; the rules for errors let each of the
five decisions of phase 3 occur. Within these bounds every action of every
module fires. The theorems of section 5 remove the bounds for what they cover.

Every property has a seeded fault: an operator beside the original (commented
"Seeded fault") which changes the code the way a plausible bug would, and under
which TLC reports the property violated.

## 4. Fairness

Fairness is assumed only of processes that are running: a started job keeps
executing until it stops or is killed (`WF_vars(JobStep(j))`), a replica keeps
loading and is started again after a failed startup (the container platform's
restart policy), a GET ends (its timeout of 60 s). Nothing is assumed of
`Start`, `Crash`, of the source's answers or of the operators. Faults are
bounded by `MaxFaults`; the liveness properties say what happens to a run that
meets none after it has begun.

## 5. Proofs

All theorems hold for any number of jobs, payloads, concurrent jobs, faults, years,
countries, status codes and attempts; the only assumptions are the named ones of the
modules (subsets, naturals, sequences, and that `None` is not a value), and hypotheses
that are written in the theorems that need them: `NoneIsNoRecord` (`None` is not a
forecast either), `FitIsInt` (what a method maximises can be compared), `ErrorIsInt` and
that countries and splits are finitely many (a sum of errors exists), and `Serial`:
finitely many jobs, one at a time (`MaxConcurrent = 1`; in `ApiServerProofs` also
`Commands` among `run` and `publish_product`). `Serial` is what the properties that need
it say in words; with two jobs at once they are false, since a second job may replace
the fixed artifacts between two steps of the first. Finiteness is needed because "one at
a time" is a statement about a cardinality.

* **`TypeCorrect`** (`PipelineProofs`): `Spec => []TypeOK`. The type alone is not
  inductive: a job that writes a panel must have one, and the manifest that
  `publish` stores must name three snapshots and three artifacts. The invariant
  `Control` adds, for each program counter, what the job's memory holds there
  (`HoldsAt`), that artifacts found by `CheckGold` stay found until they are read
  (`ReadsPresent`), and that it is so for all jobs (`JobsOK`). One lemma per action.
* **`Durability`** (`PipelineProofs`): `ReleaseDurable`. What exists never
  disappears (`StepGrows`); what a job has seen exists (`Seen`); an artifact, a
  panel or a bronze table exists only with what it was computed from (`Lineage`).
  At the barrier the job has seen all that the durable check asks for.
* **`RefinesBarrier`** (`PipelineProofs`): `Spec => BarrierSpec`, with the
  invariant `Recorded` (a job between the evidence write and the barrier has its
  evidence stored), and each step mapped to `Record`, `Promote`, `Retire` or a
  stutter.
* **`Quarantine`** (`PipelineDataProofs`): `QuarantineHolds`. The
  strengthening says that stored verdicts are true (`VerdictsTrue`) and that what
  a job holds past the verdict is clean (`CleanJobs`).
* **`TrueEvidence`** (`PipelineDataProofs`, under `Serial`): `RunEvidenceTraceable`. The
  invariant `Evidence` says, for each step of a `run`, what of the lake is its own by
  then (`LakeOf`): past ingestion, bronze holds whatever the newest raw manifest
  accepted (`Promoted`; this is where a stopped ingestion has to stop the run); past
  `build-silver`, the panel is the one of bronze, and so on up to the two scores; and
  that what it holds in memory is what lies in the lake (`HoldsOf`). The v2 table needs
  a clause of its own, since an earlier run's may lie there until the run writes it: if
  it is this run's, it is of the newest panel and energy table. Everything another
  command did before the run started is overwritten or compared with, and since only one
  job runs, nothing happens in between (`MovesAlone`, `OtherRuns`).
* **`ServerTypes`, `ServerOneBundle`** (`ApiServerProofs`): `TypeOK` and
  `ServedIsOneBundle`, for any number of overlapping jobs and replicas. The invariant
  `Shape` says what a job and a replica hold at each step. Nothing is said of the web
  files, which may be any mixture: a replica compares each with its manifest, so it is
  enough that every manifest, stored, in a job's memory or read by a replica, comes out
  of one `build_manifest` (`Trusts(Derived)`).
* **`ServerOneRelease`, `RunsServeTheirOwn`** (`ApiServerProofs`, under `Serial`):
  `ServedIsOneRelease`, and `ServedIsPublished` where only `run` is started. In the
  invariant `Releases` every manifest is one of tables of a single reading of the
  analytics files and a released run (`Trusts(Genuine)`), each step of a build has read
  so far what lies in the lake, or has the tables so far of what it read
  (`ProgressOf`), and the analytics in the lake are those of the run the pointer names, unless a run is between the two, or was abandoned there
  (`PointerCurrent`). Without `build-web` no job reads tables that it did not write.
* **`FetchTypeCorrect`, `Masking`, `Whole`** (`FetchProofs`): the invariant
  `Counted` connects the loop variable with the number of failures met; a GET
  that gives up has then met `MaxAttempts`. `Whole` needs no more than the
  verdict functions.
* **`ScoreTypeCorrect`, `Degrades`, `Pulls`** (`RiskScoreProofs`): totals lie between 0 and
  100, and a country without usable energy data has the v1 total in v2. The lemmas
  bound a percentile (`PercentileBound`, from the cardinalities of two disjoint
  sets) and a weighted sum by its weights (`SumBound`). `Degrades` rests on the
  invariant `Current`: when the panel allows a table to be written, the stored
  table is the one of the current panel. `Pulls`
  splits both weighted sums at the energy component: v2 is the mean of the v1 total
  and the energy score by the weights that v2 uses, and a mean lies between the two.
* **`WorseningIsSeen`** (`RiskScoreProofs`): the action property `WorseningNeverHelps`.
  A rank is a count of those below and equal, so a rank does not fall if whoever was
  not above stays so (`RankGrows`, from the cardinalities of disjoint sets). Hence the
  scores of the country do not fall, and those of the others do not rise (`OwnScore`,
  `OtherScores`, for each component `WorseColumns`, `WorseForward`, `WorseEnergy`);
  the same components are missing before and after, so the weights are the same
  (`WorseWeights`) and the sums follow (`SumFollows`, `LeadKept`).
* **`FollowsRisk`** (`RiskScoreProofs`): `OverviewFollowsRisk`. Bands are thresholds of
  the total, so who has no higher total is in no higher band (`WithinFollows`,
  `SegmentFollows`), for every order that a sort may leave.
* **`ComponentsAddUp`** (`RiskScoreProofs`): `ComponentsExplainScore`. The invariant
  `AddUp` says that each stored total is the sum of its stored scores, also in a table
  that `score` left behind. A sum over the five components is a fold over a set; that
  it has one value is shown for these five (`FiveStep`, `FiveUnique`, `FiveIterates`),
  since induction over sets is out of reach.
* **`RoutesServe`** (`RiskScoreProofs`): `RoutesServeCatalogue`. The definitions choose a
  list, so most of the proof is that there is one and what it is: a finite set in a
  strict total order has a list in that order, each element at the place that the count of
  those before it gives (`PlacesRise`, `ListExists`, `ListPlaces`), and no other
  (`ListUnique`). Totals with the stored order of ties are such an order
  (`TotalsCompare`, `SortIsOrder`). A page is a slice (`SliceOf`), every position lies
  on a page (`PageOf`) and on one only.
* **`NoLookAhead`, `WithBaseline`, `Nested`, `YearNeverFalls`, `PanelTypeCorrect`** (`PanelProofs`): the inductive invariant `Inv` adds to the
  properties that what is stored is what the panel gives (`Current`). `NoLookAhead`
  then rests on `ForecastFromHistory`, that a forecast is a function of the history
  up to its origin; `WithBaseline` on `BootstrapHasBaselines`, that the longest of
  the thresholds implies the others; the year on `LatestIs`, that a non-empty set of
  years has a latest one (from the well-foundedness of the naturals).
* **`NestedLookAhead`** (`RecencyProofs`): `NestedNoLeakage`, which holds of every
  lake, reachable or not, so it needs no invariant. Two lakes that agree up to a year
  (`SameUntil`) give the same panel and histories up to it (`SamePanel`,
  `SameHistories`), therefore the same errors of all prior splits, whose targets lie
  before the origin (`SameResults`), the same scheme (`SameSelection`), also at each
  prior origin, the same scale (`SameScale`) and the same forecasts.
* **`ComparedOnSameSplits`** (`RecencyProofs`): `MethodsComparable`. Each method of phase
  4 gives a forecast exactly if the history has `MinLevels` levels and ends before the
  target (`LongEnough`), whatever it falls back on.
* **`RegimeLookAhead`, `IncrementalLookAhead`, `DetectionLookAhead`** (`RegimesProofs`):
  `RegimeNoLeakage`, `IncrementalNoLeakage`, `DetectionNoLeakage`, in the way of
  `NestedLookAhead`: the history, the rows, the energy rows and the regime of an
  origin are the same in two lakes that agree up to it (`SameRegimeInputs`,
  `SameEnergyRows`). The candidate series are derived before they are cut off, so
  there each of them is shown to be the same cut before as after (`CutSeries`, from
  `CutLevels`, `CutRows`, `CutUsable`).
* **`IncrementalOnBacktest`** (`RegimesProofs`): `IncrementalComparable`: a baseline
  exists only over enough levels, and a level is a known value, so the test of the
  backtest is implied. It needs the invariant `Inv` of `PanelProofs`.
* **`StalledWindows`, `OneMomentum`** (`RegimesProofs`): `StalledAgainstOwnTrend`,
  `MomentumIsAnalogue`. Where the latest year has a low-carbon share it ends both
  windows; where five shares are in a row, the last five values are those of the last
  five years (`LastFive`).
* **`Segments`, `ActiveIsObserved`** (`RegimesProofs`): `SegmentsLongEnough` (a lemma of
  the second, not checked by a run of its own) and `ActiveHasObservations`. That a search which takes the first of the best returns one
  of its candidates needs that a first of the best exists (`BestExists` and
  `EarliestExists`, by well-foundedness), and that there is
  a candidate at all: a series of `MinTotal` values can be cut (`CutExists`). A break
  then leaves `MinSegment` values on both sides (`BreakLeavesSegments`), and a regime
  in which a break was found has `MinPostBreak` levels, so the rows without a level
  that `regime_activation` counts do not matter.
* **`SoundAgreement`** (`RegimesProofs`, under `FitIsInt`): `AgreementIsSound`. Of three
  methods that find breaks in two successive years, two find the same year, so the
  commonest year has two votes; the fourth method alone cannot have them, so the
  commonest year is one of the two and all three agree with it. Conversely all who
  agree lie within a year of it.
* **`GatedOnSameSplits`, `ControlIsCanonical`** (`RegimesProofs`): `RegimesComparable`,
  `RecencyControlIsCanonical`: every method of phase 3 falls back on the baseline where
  a regime is too short (`FallbackIsBaseline`, `LongerIsEnough`), and without a row
  that lacks a level the last weights are those of the levels.
* **`AcceptedOnActive`** (`RegimesProofs`): `AcceptedOnActiveRegimes`. Where no regime
  is active no break is moved, so there is no shift and the last gate closes; a
  candidate that falls back has the error of the baseline there, so what it improves
  are active splits, and half of the countries and origins of a part are half of the
  whole's (`HalfGrows`).

The theorems of `RecencyProofs` and `RegimesProofs` hold of every lake, reachable or
not, but for `IncrementalOnBacktest`.

Every invariant and action property of a passing run is proved. Not proved,
model-checked only: liveness (`Recovers`, `PublishedIsServed`, `Terminates`), which with
`ENABLED` is out of the prover's reach. So what a run shows beyond the theorems is these
three, and that the properties say something: each seeded fault breaks one.
No module that is proved about declares a recursive operator, since the prover
loses its arithmetic there; induction over data is out of its reach, too.

## 6. Where code and documentation disagree

The first five are runs that TLC ends with a counterexample; `PROJECT.json` quotes
the lines.

1. `V2ComputedByRun`: a run whose energy data is unusable publishes with the v2
   score of an earlier run, since `score` skips v2 and `publish` only asks whether
   the file exists. README and `publish` say such a run cannot publish.
2. `ReleaseUntouched`: a refused run has already overwritten the published
   release's artifacts in place.
3. `ValidBundleSurvives`: a product publication that fails between two web files
   leaves no loadable bundle where there was one.
4. `SelectedOnEnoughSplits`: `MIN_CALIBRATION_SPLITS` is compared with a table that
   has each prior split three times, once per scheme, so a scheme is selected on a
   third of the prior splits that the rules and ADR 0014 ask for. With 19 countries
   and a minimum of 30 this happens as soon as one prior origin is completed, as the
   ADR's own results show (`strong_recency` for 2016 and 2017).
5. `ServedIsPublished`: `publish-product` reads the run from the pointer and the tables
   from the fixed gold paths. After a run that recomputed the analytics and was refused
   (2), it builds a bundle of the refused analytics under the last release's name, and
   neither its verification nor the API's validation notices; `product.py` says that it
   reshapes an already-published release.

Others came up while the models were written and have no run of their own:

* `build-web` after an interrupted BI build makes a bundle of tables of two builds
  that passes the API's startup validation; ADR 0019 says there is no such window.
  (That is why `api_serial` leaves `build-web` out.)
* A World Bank that answers 401 (or any other final error) to both indicators gives
  an accepted snapshot with no rows (`world_bank.py:56`, 111); `http_utils.py:3` says
  that authorisation failures are hard failures.
* A prior split whose outcome has a row but no level makes the quantile of the
  residuals NaN, and `max(1.0, NaN)` is 1.0 (`m7_phase4.py:261-265`): one missing
  value turns the calibration off. In `run_phase4_backtest` the same split is skipped.
* The weights of phase 3 are made for the rows of a history and paired with the
  changes between its levels, from the end (`m7_scenarios.py:665`). If a row without a
  level lies between levels, earlier changes get the weight of a later year; phase 4
  makes its weights for the levels. `RecencyControlIsCanonical` therefore speaks of
  histories without such a row.
* A country with an outcome but no level up to an origin ends `m7-phase3` with a
  `KeyError`: `_agreement_evidence` groups an empty table by columns it does not have
  (`m7_regimes.py:450`), before any method could report that it has no forecast
  (`Phase3Fails`).
* Weights are renormalised over the components present (`risk_score_v2_energy.py:123`),
  so a country whose energy score is below the mean of its other components gets a
  higher v2 total when its energy data go missing; `risk_score_v2_energy.py:130` and
  `energy_component.py:56` say absence never moves the score.
* v1 rows claim a coverage of 80 % also for a country of which only the pace was
  scored (`risk_score.py:191`, against its line 41).
* The warning "No single latest common complete year" (`silver.py:204`) is raised
  only if a country has no complete year at all; with complete years that have none
  in common the model-eligible year is missing and nothing is logged.
* `engine.py:98` calls what the bootstrap draws year-over-year changes; over a gap
  it is the change of several years (line 113).
* `effective_weight` of a risk component is a constant of the score version
  (`bi/publish.py:200`); `api/models.py:95` says "Weight actually applied after
  missing-data renormalisation". `ComponentsExplainScore` shows what does hold: the
  rows add up to the total if a client renormalises over the rows it gets.
* `energy_transition.py:46` says the trends are "fit over the trailing window ending at
  latest_year"; `_trailing_slope_pp_per_year` ends it with the share's own last value
  (line 78), so the coal trend of a country that stopped reporting coal is an older
  one. `StalledAgainstOwnTrend` therefore concerns the low-carbon share.
* `compute_energy_features` promises `None` with fewer than three rows "with a non-null
  fossil/low-carbon share"; it counts rows of the coal and the low-carbon share.
* `_no_break` reports with "higher_is_higher_risk" whatever the series is
  (`m7_regimes.py:978`), so the label of a constant low-carbon share is right only
  because its slope is zero.
* `_rolling_slope` has a value in years without a share, too (`m7_regimes.py:1027`), that of
  the last five that have one.
* `compare_feature_sets` compares formulations "on equal footing"
  (`m6_incremental.py:326`), but each drops the rows that lack one of its own features
  (line 129), so the errors may be over different splits.
* `phase4_decision` promotes the calibrated candidate on the robustness of
  `recency_weighted_bootstrap` (`m7_phase4.py:126`, 444); the calibration changes
  intervals only, so this matters where the nested scheme is not the canonical one.
* In phase 3 `regime_weighted_bootstrap` and `break_confidence_weighted_bootstrap`
  weigh by regimes that `regime_activation` has turned down, and count as regime
  methods in the decision. `AcceptedOnActiveRegimes` is what keeps the decision sound.
* `docs/model_cards/model-card.md:21` ends the panel at the model-eligible year;
  scores, scenarios and decoupling use every year a country has.

The forward component contains the percentile of the interval width. A wider
interval of one country therefore moves the forward values of others and can
reorder them; `WorseningNeverHelps` compares with other countries only when the
width stays. No document says otherwise.

## 7. Not modelled, and why

| part | reason |
|---|---|
| the rest of research milestones M6 and M7: correlations and redundancy, cross-validation folds and permutations, revision stability, bootstrap and temporal stability of breaks, regime profiles, the gates of phase 4, reports | offline statistics; no release reads their output but for `regime_profiles.parquet`, which the BI shows as it is |
| API routes that return one stored row, response models | no control beyond a look-up by country |
| backtest and scenario numerics (bootstrap draws, quantiles, error metrics) | random sampling and floating point; `Panel` has their inputs and cut-offs |
| payload parsing, harmonisation of units and country codes | data conversions without control; `Fetch` keeps what they accept and reject |
| static report, BI relationships, dashboard rendering | pure functions of stored files; the dashboard fetches the files lazily and checks no hashes, so a page may mix two bundles: step 10 |
| configuration and logging | read once at the start; no protocol |
| infrastructure (Terraform, workflows) | declarative; the job's timeout and retry appear as `Crash` and a further `Start` |
| Azure and local back ends below one object | single-object writes are atomic in both; a write, a read and a listing are steps of the models. Left out: two versions within one tick of the store's clock (`azure.py:122`), and two local processes with one temporary file name (`local.py:29`) |
