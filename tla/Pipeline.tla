------------------------------ MODULE Pipeline ------------------------------
(***************************************************************************)
(* The core pipeline of climate_risk: ingest, build-silver,                *)
(* energy-features, backtest, score, publish and the durable-success check *)
(* over the four-zone lake (cli.py and everything it calls that writes).   *)
(*                                                                         *)
(* A job is one invocation of a CLI command: `run`, which executes every   *)
(* stage in order, or a single stage started by hand.  Each stored object  *)
(* a job writes is written by one atomic action (storage/local.py renames  *)
(* a temporary file, storage/azure.py puts one blob), so a crash, or       *)
(* another job, can fall between any two of them.                          *)
(*                                                                         *)
(* Data is reduced to provenance.  A payload is an opaque member of        *)
(* Snapshots; an artifact is a record of the job that wrote it and of the  *)
(* snapshots it was computed from.  "The latest" object of a family is the *)
(* one written last: the code takes the maximum of modified_at, rewriting  *)
(* the same content-addressed path refreshes it, and nothing is deleted.   *)
(***************************************************************************)
EXTENDS Naturals, FiniteSets

CONSTANTS
    Jobs,           \* invocations of the CLI; also the run_id of their publish
    Snapshots,      \* payloads a source may serve
    Fatal,          \* payloads that validation finds a FATAL event in
    Thin,           \* accepted payloads with too little history to compute on
    None,           \* absent object
    Commands,       \* the commands that may be started
    MaxConcurrent,  \* jobs that may be running at once
    MaxFaults,      \* bound on the faults of a behaviour
    InAzure         \* is_azure_container_apps_job()

CoreSources == {"owid_co2", "world_bank_wdi"}
Sources == CoreSources \cup {"owid_energy"}

AllCommands == {"run", "ingest", "build_silver", "energy_features",
                "backtest", "score", "publish"}

ASSUME PipelineAssumption ==
    /\ Fatal \subseteq Snapshots
    /\ Thin \subseteq Snapshots
    /\ Commands \subseteq AllCommands
    /\ MaxConcurrent \in Nat
    /\ MaxFaults \in Nat
    /\ InAzure \in BOOLEAN

VARIABLES
    raw,        \* newest ingestion manifest of each source
    bronze,     \* newest promoted snapshot of each source
    silver,     \* newest transition and energy tables
    gold,       \* analytical artifacts, each at one fixed path
    manifests,  \* gold/manifests/<run_id>.json
    pointer,    \* gold/latest_successful_run.json
    cmd,        \* the command each job executes
    pc,         \* what each job does next
    mem,        \* what each job holds in memory
    faults      \* faults so far, to bound the model

lake == <<raw, bronze, silver, gold, manifests, pointer>>
vars == <<raw, bronze, silver, gold, manifests, pointer, cmd, pc, mem, faults>>

-----------------------------------------------------------------------------
(* Objects of the lake.                                                    *)

Artifacts == {"backtest_country_origin", "backtest_summary",
              "country_transition_risk", "country_transition_risk_v2",
              "energy_transition_features"}

\* Seeded fault: the artifacts required before ADR 0009 made v2 mandatory.
RequiredBeforeV2 == {"backtest_summary", "country_transition_risk"}

\* The artifacts `publish` requires, besides the run's own manifest.
Required == {"backtest_summary", "country_transition_risk",
             "country_transition_risk_v2"}

\* What a transition panel was joined from: snapshot_set_id is a hash of it.
Panels == [CoreSources -> Snapshots]

Artifact == [by: Jobs, core: Panels \cup {None}, energy: Snapshots \cup {None}]

IngestManifest == [snap: Snapshots, status: {"ACCEPTED", "REJECTED"}]

RunManifest == [sources: [Sources -> Snapshots], core: Panels,
                read: [Required -> Artifact]]

\* Too little history in either core source leaves no carbon intensity to
\* backtest or to score.
ThinPanel(p) == \E s \in CoreSources : p[s] \in Thin

\* The FATAL rules of the silver tables restate those of ingestion.
FatalPanel(p) == \E s \in CoreSources : p[s] \in Fatal

\* The absent object is none of the objects.
ASSUME NoneAssumption ==
    None \notin Jobs \cup Snapshots \cup Panels \cup Artifact
                     \cup IngestManifest \cup RunManifest

-----------------------------------------------------------------------------
(* A job's memory and its control flow.                                    *)

Memory ==
    [todo: SUBSET Sources,                          \* sources still to ingest
     exit_code: {0, 1},                             \* exit_code of ingest
     item: Snapshots \cup {None},                   \* the payload being ingested
     core: [CoreSources -> Snapshots \cup {None}],  \* the panel read
     energy: Snapshots \cup {None},                 \* the energy table read
     status: {"RUNNING", "SUCCEEDED"},              \* PipelineRun.status
     sources: [Sources -> Snapshots \cup {None}],   \* source_snapshots
     read: [Required -> Artifact \cup {None}]]      \* gold artifacts read

Fresh(selected) ==
    [todo      |-> selected,
     exit_code |-> 0,
     item      |-> None,
     core      |-> [s \in CoreSources |-> None],
     energy    |-> None,
     status    |-> "RUNNING",
     sources   |-> [s \in Sources |-> None],
     read      |-> [a \in Required |-> None]]

Stopped == {"done", "exit", "crashed"}

Steps == {"idle", "fetch", "write_raw", "write_bronze",
          "silver_co2", "silver_wdi", "silver_write",
          "silver_energy", "silver_energy_write",
          "features", "features_write",
          "backtest", "backtest_write", "backtest_write_summary",
          "score", "score_write", "score_energy", "score_write_v2",
          "check_raw", "check_silver", "check_gold", "read_gold",
          "write_manifest", "barrier", "verify"} \cup Stopped

Running == {j \in Jobs : pc[j] \notin Stopped \cup {"idle"}}

Entry == [run |-> "fetch", ingest |-> "fetch", build_silver |-> "silver_co2",
          energy_features |-> "features", backtest |-> "backtest",
          score |-> "score", publish |-> "check_raw"]

\* The stage that `run` enters when a stage has returned.
Following == [ingest |-> "silver_co2", build_silver |-> "features",
              energy_features |-> "backtest", backtest |-> "score",
              score |-> "check_raw", publish |-> "verify"]

Goto(j, step) == pc' = [pc EXCEPT ![j] = step]

\* The process ends; what it held in memory is gone.
Stop(j, how) ==
    /\ Goto(j, how)
    /\ mem' = [mem EXCEPT ![j] = Fresh({})]

\* A stage returns: `run` goes on to the next one, a single command is done.
StageDone(j, stage) ==
    IF cmd[j] = "run"
    THEN /\ Goto(j, Following[stage])
         /\ mem' = [mem EXCEPT ![j] = Fresh({})]
    ELSE Stop(j, "done")

\* typer.Exit(1) or an uncaught exception: the whole command ends.
Exit(j) == Stop(j, "exit")

\* Position in the order in which the code goes through its sources, and
\* through the artifacts that publish reads.
Rank(s) == CASE s \in {"owid_co2", "backtest_summary"}             -> 1
             [] s \in {"world_bank_wdi", "country_transition_risk"} -> 2
             [] OTHER                                               -> 3

First(S) == CHOOSE s \in S : \A t \in S : Rank(s) <= Rank(t)

Fault ==
    /\ faults < MaxFaults
    /\ faults' = faults + 1

-----------------------------------------------------------------------------
(* Start and end of jobs.                                                  *)

\* The schedule, the job's retry or an operator starts a command.
Start(j) ==
    /\ pc[j] = "idle"
    /\ Cardinality(Running) < MaxConcurrent
    /\ \E c \in Commands :
        /\ cmd' = [cmd EXCEPT ![j] = c]
        /\ Goto(j, Entry[c])
        /\ \E selected \in IF c = "ingest" THEN SUBSET Sources \ {{}}
                                           ELSE {Sources} :
             mem' = [mem EXCEPT ![j] = Fresh(selected)]
    /\ UNCHANGED <<lake, faults>>

\* The replica is killed: an unhandled storage error, the 1800 s replica
\* timeout, a node failure.  Nothing a job does on the way out writes.
Crash(j) ==
    /\ j \in Running
    /\ Fault
    /\ Stop(j, "crashed")
    /\ UNCHANGED <<lake, cmd>>

-----------------------------------------------------------------------------
(* ingest: run_ingest for each source in turn.                             *)

StatusOf(c) == IF c \in Fatal THEN "REJECTED" ELSE "ACCEPTED"

\* Seeded fault: promotion to bronze without the status check.
PromotedAlways(c) == TRUE

PromotedToBronze(c) == StatusOf(c) = "ACCEPTED"

\* Seeded fault: the exit code of a failed source is forgotten.
IngestFailedNever(j) == FALSE

IngestFailed(j) == mem[j].exit_code # 0

\* Seeded fault: one manifest path per source, never overwritten.
NewestManifestKept(s, m) == IF raw[s] = None THEN m ELSE raw[s]

\* Each run has its own directory, so the newest manifest is the last written.
NewestManifest(s, m) == m

NextSource(j, code) ==
    /\ Goto(j, "fetch")
    /\ mem' = [mem EXCEPT ![j].todo = @ \ {First(mem[j].todo)},
                          ![j].item = None,
                          ![j].exit_code = code]

\* The source answers; a payload that will not be usable counts as a fault.
Fetch(j) ==
    /\ pc[j] = "fetch"
    /\ mem[j].todo # {}
    /\ \E c \in Snapshots :
        /\ mem' = [mem EXCEPT ![j].item = c]
        /\ IF c \in Fatal \cup Thin THEN Fault ELSE UNCHANGED faults
    /\ Goto(j, "write_raw")
    /\ UNCHANGED <<lake, cmd>>

\* Any exception while one source is fetched, parsed or stored is caught, and
\* ingest goes on with the next source.
SourceFails(j) ==
    /\ pc[j] \in {"fetch", "write_raw", "write_bronze"}
    /\ mem[j].todo # {}
    /\ Fault
    /\ NextSource(j, 1)
    /\ UNCHANGED <<lake, cmd>>

\* payload.bin and manifest.json, whatever the verdict is.
WriteRawManifest(j) ==
    LET s == First(mem[j].todo)
        c == mem[j].item
    IN  /\ pc[j] = "write_raw"
        /\ raw' = [raw EXCEPT ![s] =
                      NewestManifest(s, [snap |-> c, status |-> StatusOf(c)])]
        /\ IF PromotedToBronze(c)
           THEN Goto(j, "write_bronze") /\ UNCHANGED mem
           ELSE NextSource(j, mem[j].exit_code)
        /\ UNCHANGED <<bronze, silver, gold, manifests, pointer, cmd, faults>>

WriteBronze(j) ==
    /\ pc[j] = "write_bronze"
    /\ bronze' = [bronze EXCEPT ![First(mem[j].todo)] = mem[j].item]
    /\ NextSource(j, mem[j].exit_code)
    /\ UNCHANGED <<raw, silver, gold, manifests, pointer, cmd, faults>>

EndIngest(j) ==
    /\ pc[j] = "fetch"
    /\ mem[j].todo = {}
    /\ IF IngestFailed(j) THEN Exit(j) ELSE StageDone(j, "ingest")
    /\ UNCHANGED <<lake, cmd, faults>>

-----------------------------------------------------------------------------
(* build-silver.                                                           *)

\* latest_bronze_snapshot for one core source; FileNotFoundError if none.
ReadBronze(j, step, s, next) ==
    /\ pc[j] = step
    /\ IF bronze[s] = None
       THEN Exit(j)
       ELSE /\ mem' = [mem EXCEPT ![j].core[s] = bronze[s]]
            /\ Goto(j, next)
    /\ UNCHANGED <<lake, cmd, faults>>

ReadBronzeCo2(j) == ReadBronze(j, "silver_co2", "owid_co2", "silver_wdi")
ReadBronzeWdi(j) == ReadBronze(j, "silver_wdi", "world_bank_wdi", "silver_write")

WriteTransition(j) ==
    /\ pc[j] = "silver_write"
    /\ IF FatalPanel(mem[j].core)
       THEN Exit(j) /\ UNCHANGED silver
       ELSE /\ silver' = [silver EXCEPT !.transition = mem[j].core]
            /\ Goto(j, "silver_energy")
            /\ UNCHANGED mem
    /\ UNCHANGED <<raw, bronze, gold, manifests, pointer, cmd, faults>>

\* The energy table is best effort: no snapshot or a FATAL event skips it.
ReadBronzeEnergy(j) ==
    LET e == bronze["owid_energy"]
    IN  /\ pc[j] = "silver_energy"
        /\ IF e \in {None} \cup Fatal
           THEN StageDone(j, "build_silver")
           ELSE /\ mem' = [mem EXCEPT ![j].energy = e]
                /\ Goto(j, "silver_energy_write")
        /\ UNCHANGED <<lake, cmd, faults>>

WriteEnergy(j) ==
    /\ pc[j] = "silver_energy_write"
    /\ silver' = [silver EXCEPT !.energy = mem[j].energy]
    /\ StageDone(j, "build_silver")
    /\ UNCHANGED <<raw, bronze, gold, manifests, pointer, cmd, faults>>

-----------------------------------------------------------------------------
(* energy-features, backtest and score.                                    *)

WriteGold(j, a, core, energy) ==
    gold' = [gold EXCEPT ![a] = [by |-> j, core |-> core, energy |-> energy]]

\* No energy table, or no country with enough history: Exit(1), which `run`
\* swallows because the artifact is diagnostic.
ComputeFeatures(j) ==
    /\ pc[j] = "features"
    /\ IF silver.energy \in {None} \cup Thin
       THEN IF cmd[j] = "run" THEN StageDone(j, "energy_features") ELSE Exit(j)
       ELSE /\ mem' = [mem EXCEPT ![j].energy = silver.energy]
            /\ Goto(j, "features_write")
    /\ UNCHANGED <<lake, cmd, faults>>

WriteFeatures(j) ==
    /\ pc[j] = "features_write"
    /\ WriteGold(j, "energy_transition_features", None, mem[j].energy)
    /\ StageDone(j, "energy_features")
    /\ UNCHANGED <<raw, bronze, silver, manifests, pointer, cmd, faults>>

\* The latest panel is read once; without one, or with nothing to compute on
\* it, the command exits before it writes.
ReadPanel(j, step, next) ==
    /\ pc[j] = step
    /\ IF silver.transition = None
       THEN Exit(j)
       ELSE IF ThinPanel(silver.transition)
            THEN Exit(j)
            ELSE /\ mem' = [mem EXCEPT ![j].core = silver.transition]
                 /\ Goto(j, next)
    /\ UNCHANGED <<lake, cmd, faults>>

RunBacktest(j) == ReadPanel(j, "backtest", "backtest_write")

WriteBacktestDetail(j) ==
    /\ pc[j] = "backtest_write"
    /\ WriteGold(j, "backtest_country_origin", mem[j].core, None)
    /\ Goto(j, "backtest_write_summary")
    /\ UNCHANGED <<raw, bronze, silver, manifests, pointer, cmd, mem, faults>>

WriteBacktestSummary(j) ==
    /\ pc[j] = "backtest_write_summary"
    /\ WriteGold(j, "backtest_summary", mem[j].core, None)
    /\ StageDone(j, "backtest")
    /\ UNCHANGED <<raw, bronze, silver, manifests, pointer, cmd, faults>>

ComputeScores(j) == ReadPanel(j, "score", "score_write")

WriteScoreV1(j) ==
    /\ pc[j] = "score_write"
    /\ WriteGold(j, "country_transition_risk", mem[j].core, None)
    /\ Goto(j, "score_energy")
    /\ UNCHANGED <<raw, bronze, silver, manifests, pointer, cmd, mem, faults>>

\* v2 is best effort inside score: without usable energy data it is not
\* written, and the file of an earlier job stays where it is.
ReadEnergyForV2(j) ==
    /\ pc[j] = "score_energy"
    /\ IF silver.energy \in {None} \cup Thin
       THEN StageDone(j, "score")
       ELSE /\ mem' = [mem EXCEPT ![j].energy = silver.energy]
            /\ Goto(j, "score_write_v2")
    /\ UNCHANGED <<lake, cmd, faults>>

WriteScoreV2(j) ==
    /\ pc[j] = "score_write_v2"
    /\ WriteGold(j, "country_transition_risk_v2", mem[j].core, mem[j].energy)
    /\ StageDone(j, "score")
    /\ UNCHANGED <<raw, bronze, silver, manifests, pointer, cmd, faults>>

-----------------------------------------------------------------------------
(* publish and the barrier.                                                *)

\* The latest manifest of one source must exist and be ACCEPTED.
CheckRaw(j) ==
    LET s == First({t \in Sources : mem[j].sources[t] = None})
    IN  /\ pc[j] = "check_raw"
        /\ IF raw[s] = None
           THEN Exit(j)
           ELSE IF raw[s].status # "ACCEPTED"
                THEN Exit(j)
                ELSE /\ mem' = [mem EXCEPT ![j].sources[s] = raw[s].snap]
                     /\ Goto(j, IF \A t \in Sources \ {s} :
                                      mem[j].sources[t] # None
                                THEN "check_silver" ELSE "check_raw")
        /\ UNCHANGED <<lake, cmd, faults>>

CheckSilver(j) ==
    /\ pc[j] = "check_silver"
    /\ IF silver.transition = None
       THEN Exit(j)
       ELSE /\ mem' = [mem EXCEPT ![j].core = silver.transition]
            /\ Goto(j, "check_gold")
    /\ UNCHANGED <<lake, cmd, faults>>

\* Seeded fault: the existence checks are left out.
GoldPresentUnchecked == TRUE

GoldPresent == \A a \in Required : gold[a] # None

CheckGold(j) ==
    /\ pc[j] = "check_gold"
    /\ IF GoldPresent
       THEN Goto(j, "read_gold") /\ UNCHANGED mem
       ELSE Exit(j)
    /\ UNCHANGED <<lake, cmd, faults>>

\* The artifacts are read one after the other; the run then succeeds.
ReadGold(j) ==
    LET a == First({b \in Required : mem[j].read[b] = None})
    IN  /\ pc[j] = "read_gold"
        /\ IF \A b \in Required \ {a} : mem[j].read[b] # None
           THEN /\ mem' = [mem EXCEPT ![j].read[a] = gold[a],
                                      ![j].status = "SUCCEEDED"]
                /\ Goto(j, "write_manifest")
           ELSE /\ mem' = [mem EXCEPT ![j].read[a] = gold[a]]
                /\ UNCHANGED pc
        /\ UNCHANGED <<lake, cmd, faults>>

\* Seeded fault: the pointer is written before the evidence it names.
WriteManifestAfterPointer(j) ==
    /\ pc[j] = "write_manifest"
    /\ pointer' = j
    /\ Goto(j, "barrier")
    /\ UNCHANGED <<raw, bronze, silver, gold, manifests, cmd, mem, faults>>

WriteManifest(j) ==
    /\ pc[j] = "write_manifest"
    /\ manifests' = [manifests EXCEPT ![j] =
                        [sources |-> mem[j].sources,
                         core    |-> mem[j].core,
                         read    |-> mem[j].read]]
    /\ Goto(j, "barrier")
    /\ UNCHANGED <<raw, bronze, silver, gold, pointer, cmd, mem, faults>>

\* publishing/barrier.py: refuse, or write the pointer and nothing else.
Barrier(j) ==
    /\ pc[j] = "barrier"
    /\ IF /\ mem[j].status = "SUCCEEDED"
          /\ GoldPresent
          /\ manifests[j] # None
       THEN pointer' = j /\ StageDone(j, "publish")
       ELSE Exit(j) /\ UNCHANGED pointer
    /\ UNCHANGED <<raw, bronze, silver, gold, manifests, cmd, faults>>

\* verify_durable_success: every object a consumer needs can be found again,
\* and the pointer names the run that was just published.
Durable(r) ==
    /\ \E s \in Sources : raw[s] # None
    /\ \E s \in Sources : bronze[s] # None
    /\ silver.transition # None
    /\ silver.energy # None
    /\ gold["backtest_summary"] # None
    /\ gold["country_transition_risk"] # None
    /\ gold["country_transition_risk_v2"] # None
    /\ pointer = r
    /\ manifests[r] # None

Verify(j) ==
    /\ pc[j] = "verify"
    /\ IF InAzure /\ ~Durable(j) THEN Exit(j) ELSE Stop(j, "done")
    /\ UNCHANGED <<lake, cmd, faults>>

-----------------------------------------------------------------------------
Init ==
    /\ raw = [s \in Sources |-> None]
    /\ bronze = [s \in Sources |-> None]
    /\ silver = [transition |-> None, energy |-> None]
    /\ gold = [a \in Artifacts |-> None]
    /\ manifests = [j \in Jobs |-> None]
    /\ pointer = None
    /\ cmd = [j \in Jobs |-> "run"]
    /\ pc = [j \in Jobs |-> "idle"]
    /\ mem = [j \in Jobs |-> Fresh({})]
    /\ faults = 0

Ingest(j) ==
    Fetch(j) \/ SourceFails(j) \/ WriteRawManifest(j) \/ WriteBronze(j)
             \/ EndIngest(j)

BuildSilver(j) ==
    ReadBronzeCo2(j) \/ ReadBronzeWdi(j) \/ WriteTransition(j)
                     \/ ReadBronzeEnergy(j) \/ WriteEnergy(j)

EnergyFeatures(j) == ComputeFeatures(j) \/ WriteFeatures(j)

Backtest(j) == RunBacktest(j) \/ WriteBacktestDetail(j) \/ WriteBacktestSummary(j)

Score(j) ==
    ComputeScores(j) \/ WriteScoreV1(j) \/ ReadEnergyForV2(j) \/ WriteScoreV2(j)

Publish(j) ==
    CheckRaw(j) \/ CheckSilver(j) \/ CheckGold(j) \/ ReadGold(j)
                \/ WriteManifest(j) \/ Barrier(j)

\* What a job that is not killed does next.
JobStep(j) ==
    Ingest(j) \/ BuildSilver(j) \/ EnergyFeatures(j) \/ Backtest(j)
              \/ Score(j) \/ Publish(j) \/ Verify(j)

\* Every job has stopped: the model's bound on jobs, not the code's.
Finished ==
    /\ \A j \in Jobs : pc[j] \in Stopped
    /\ UNCHANGED vars

Next == (\E j \in Jobs : Start(j) \/ Crash(j) \/ JobStep(j)) \/ Finished

Spec == Init /\ [][Next]_vars

\* A started process keeps executing until it stops or is killed.
FairSpec == Spec /\ \A j \in Jobs : WF_vars(JobStep(j))

-----------------------------------------------------------------------------
(* Properties.                                                             *)

\* Every object of the lake and every job's memory keeps its shape; in
\* particular a stored release manifest always names three snapshots and
\* describes three artifacts that exist.
TypeOK ==
    /\ raw \in [Sources -> IngestManifest \cup {None}]
    /\ bronze \in [Sources -> Snapshots \cup {None}]
    /\ silver \in [transition: Panels \cup {None}, energy: Snapshots \cup {None}]
    /\ gold \in [Artifacts -> Artifact \cup {None}]
    /\ manifests \in [Jobs -> RunManifest \cup {None}]
    /\ pointer \in Jobs \cup {None}
    /\ cmd \in [Jobs -> AllCommands]
    /\ pc \in [Jobs -> Steps]
    /\ mem \in [Jobs -> Memory]
    /\ faults \in Nat

CleanPanel(p) == p # None => \A s \in CoreSources : p[s] \notin Fatal

CleanArtifact(a) == a # None => CleanPanel(a.core) /\ a.energy \notin Fatal

\* A payload with a FATAL event stays quarantined in raw/: no interleaving of
\* jobs, crashes and partial failures carries it into bronze, silver, an
\* analytical artifact or the evidence of a release (run_ingest's promotion
\* rule and publish's ACCEPTED check together).
QuarantineHolds ==
    /\ \A s \in Sources : bronze[s] \notin Fatal
    /\ CleanPanel(silver.transition)
    /\ silver.energy \notin Fatal
    /\ \A a \in Artifacts : CleanArtifact(gold[a])
    /\ \A j \in Jobs : manifests[j] # None =>
        /\ \A s \in Sources : manifests[j].sources[s] \notin Fatal
        /\ CleanPanel(manifests[j].core)
        /\ \A a \in Required : CleanArtifact(manifests[j].read[a])

\* At any moment, whatever other jobs do, the run the pointer names passes
\* every check of verify_durable_success: what publish verified before it
\* moved the pointer implies what the durable check demands after it.
ReleaseDurable == pointer # None => Durable(pointer)

\* The evidence of a release made by `run` is true: the panel it names was
\* joined from exactly the snapshots it lists, the backtest and the v1 score
\* it describes were computed by this same run from that panel, and so was
\* the v2 score unless score left an older one in place.  (One job at a time;
\* after any history of crashed, failed and hand-started commands.)
RunEvidenceTraceable ==
    \A j \in Jobs : manifests[j] # None /\ cmd[j] = "run" =>
        LET m == manifests[j]
            core == [s \in CoreSources |-> m.sources[s]]
            v2 == m.read["country_transition_risk_v2"]
        IN  /\ m.core = core
            /\ \A a \in {"backtest_summary", "country_transition_risk"} :
                m.read[a].by = j /\ m.read[a].core = core
            /\ v2.by = j => v2.core = core /\ v2.energy = m.sources["owid_energy"]

\* The barrier is what it claims to be: under the mapping below, every step of
\* every job is a step of ReleaseBarrier or leaves its state alone.
PastBarrier(j) == pc[j] \in Stopped \cup {"verify"}

Barriers == INSTANCE ReleaseBarrier WITH
    Runs     <- Jobs,
    NoRun    <- None,
    latest   <- pointer,
    recorded <- {j \in Jobs : manifests[j] # None},
    retired  <- {j \in Jobs : PastBarrier(j)}

BarrierSpec == Barriers!Spec

\* No state of the lake is poisoned: whatever crashed, failed or was rejected
\* before, a `run` that meets no further fault ends with its own release
\* published.
Begun(j, n) == cmd[j] = "run" /\ pc[j] = "fetch" /\ faults = n

Recovers ==
    \A j \in Jobs : \A n \in 0..MaxFaults :
        Begun(j, n) /\ mem[j] = Fresh(Sources)
            ~> (pc[j] = "done" /\ pointer = j) \/ faults > n

\* README.md on publish: a run "where energy ingestion or v2 scoring failed
\* upstream ... can never overwrite the previously published release", and the
\* docstring of publish: such a run "must not publish at all".  As a property:
\* the v2 score a `run` publishes is one that this run computed.
V2ComputedByRun ==
    \A j \in Jobs : manifests[j] # None /\ cmd[j] = "run" =>
        manifests[j].read["country_transition_risk_v2"].by = j

\* README.md on publish: a failed run, "including one where energy ingestion or
\* v2 scoring failed upstream", can "never overwrite the previously published
\* release", which publish repeats when it blocks.  As a property: once every
\* `run` has returned, the artifact paths of the released manifest hold the
\* data that the manifest describes.
SameData(a, b) == a.core = b.core /\ a.energy = b.energy

ReleaseUntouched ==
    pointer # None /\ (\A j \in Jobs : pc[j] \in {"idle", "done", "exit"})
        => \A a \in Required : SameData(gold[a], manifests[pointer].read[a])
=============================================================================
