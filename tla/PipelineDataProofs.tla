------------------------- MODULE PipelineDataProofs -------------------------
(***************************************************************************)
(* What TLAPS proves of the data that Pipeline carries from zone to zone:  *)
(* no payload that validation rejected leaves the raw zone, and, of one    *)
(* job at a time, the evidence of a run is of this run's own data.         *)
(***************************************************************************)
EXTENDS PipelineProofs, FiniteSetTheorems

-----------------------------------------------------------------------------
(* Quarantine.  The invariant adds to QuarantineHolds that a stored        *)
(* ingestion manifest says ACCEPTED only of a payload with no FATAL event, *)
(* and that nothing a job carries from one zone to the next has one.       *)


\* What a job at step p carries in its memory m is free of FATAL events.
Clean(p, m) ==
    /\ p = "write_bronze" => m.item \notin Fatal
    /\ \A s \in CoreSources : m.core[s] \notin Fatal
    /\ m.energy \notin Fatal
    /\ \A s \in Sources : m.sources[s] \notin Fatal
    /\ \A a \in Required : CleanArtifact(m.read[a])

CleanJobs == \A i \in Jobs : Clean(pc[i], mem[i])

VerdictsTrue ==
    \A s \in Sources :
        raw[s] # None => (raw[s].status = "ACCEPTED" => raw[s].snap \notin Fatal)

Quarantined == Control /\ QuarantineHolds /\ VerdictsTrue /\ CleanJobs

-----------------------------------------------------------------------------
\* The absent object is not a FATAL payload.
LEMMA NoneIsClean == None \notin Fatal
    BY PipelineAssumption, NoneAssumption

\* An empty memory carries nothing.
LEMMA FreshIsClean ==
    ASSUME NEW T, NEW p, p # "write_bronze"
    PROVE  Clean(p, Fresh(T))
    BY NoneIsClean DEF Clean, Fresh, CleanArtifact

\* It is enough to look at the job that moves.
LEMMA OneJobClean ==
    ASSUME Control, CleanJobs, NEW j \in Jobs,
           NEW step, NEW m, Clean(step, m),
           pc' = [pc EXCEPT ![j] = step],
           mem' = [mem EXCEPT ![j] = m]
    PROVE  CleanJobs'
    BY DEF CleanJobs, Control, JobsOK, Clean, CleanArtifact, CleanPanel

\* A job that leaves a stage holds nothing FATAL.
LEMMA LeaveClean ==
    ASSUME Control, CleanJobs, NEW j \in Jobs,
           \/ \E how \in Stopped : Stop(j, how)
           \/ \E stage \in DOMAIN Following : StageDone(j, stage)
    PROVE  CleanJobs'
<1>1. PICK step \in Stopped \cup {"silver_co2", "features", "backtest", "score",
                                  "check_raw", "verify"} :
        pc' = [pc EXCEPT ![j] = step] /\ mem' = [mem EXCEPT ![j] = Fresh({})]
    BY DEF Stop, StageDone, Goto, Following, Stopped
<1>2. Clean(step, Fresh({}))
    BY FreshIsClean DEF Stopped
<1>3. QED
    BY <1>1, <1>2, OneJobClean

\* Nor does one that turns to the next source.
LEMMA NextSourceClean ==
    ASSUME Control, CleanJobs, NEW j \in Jobs, NEW code, NextSource(j, code)
    PROVE  CleanJobs'
<1> DEFINE m == [mem[j] EXCEPT !.todo = @ \ {First(mem[j].todo)},
                               !.item = None, !.exit_code = code]
<1>1. pc' = [pc EXCEPT ![j] = "fetch"] /\ mem' = [mem EXCEPT ![j] = m]
    BY DEF NextSource, Goto, Control, JobsOK
<1>2. mem[j] \in Memory /\ Clean(pc[j], mem[j])
    BY DEF Control, JobsOK, CleanJobs
<1>3. Clean("fetch", m)
    BY <1>2 DEF Clean, Memory
<1>4. QED
    BY <1>1, <1>3, OneJobClean

-----------------------------------------------------------------------------
(* The jobs.                                                               *)

\* ingest: only what was accepted reaches bronze.
LEMMA IngestClean ==
    ASSUME Quarantined, NEW j \in Jobs, Ingest(j)
    PROVE  CleanJobs'
<1> USE DEF Quarantined
<1> DEFINE c == mem[j].item
<1>1. mem[j] \in Memory /\ Clean(pc[j], mem[j])
    BY DEF Control, JobsOK, CleanJobs
<1>2. CASE Fetch(j)
  <2>1. PICK d \in Snapshots : mem' = [mem EXCEPT ![j].item = d]
      BY <1>2 DEF Fetch
  <2> DEFINE m == [mem[j] EXCEPT !.item = d]
  <2>2. mem' = [mem EXCEPT ![j] = m] /\ pc' = [pc EXCEPT ![j] = "write_raw"]
      BY <1>2, <2>1 DEF Fetch, Goto, Control, JobsOK
  <2>3. Clean("write_raw", m)
      BY <1>1 DEF Clean, Memory
  <2>4. QED
      BY <2>2, <2>3, OneJobClean
<1>3. CASE SourceFails(j)
    BY <1>3, NextSourceClean DEF SourceFails
<1>4. CASE WriteRawManifest(j)
  <2>1. CASE PromotedToBronze(c)
    <3>1. c \notin Fatal
        BY <2>1 DEF PromotedToBronze, StatusOf
    <3>2. /\ pc' = [pc EXCEPT ![j] = "write_bronze"]
          /\ mem' = [mem EXCEPT ![j] = mem[j]]
        BY <1>4, <2>1 DEF WriteRawManifest, Goto, Control, JobsOK
    <3>3. Clean("write_bronze", mem[j])
        BY <1>1, <3>1 DEF Clean
    <3>4. QED
        BY <3>2, <3>3, OneJobClean
  <2>2. CASE ~PromotedToBronze(c)
      BY <1>4, <2>2, NextSourceClean DEF WriteRawManifest
  <2>3. QED
      BY <2>1, <2>2
<1>5. CASE WriteBronze(j)
    BY <1>5, NextSourceClean DEF WriteBronze
<1>6. CASE EndIngest(j)
    BY <1>6, LeaveClean DEF EndIngest, Exit, Stopped, Following
<1>7. QED
    BY <1>2, <1>3, <1>4, <1>5, <1>6 DEF Ingest

\* A step that loads a clean table, or only goes on, carries nothing FATAL.
LEMMA LoadClean ==
    ASSUME Quarantined, NEW j \in Jobs, NEW step, step # "write_bronze",
           NEW m \in Memory, pc' = [pc EXCEPT ![j] = step],
           mem' = [mem EXCEPT ![j] = m],
           \A s \in CoreSources : m.core[s] = mem[j].core[s] \/ m.core[s] \notin Fatal,
           m.energy = mem[j].energy \/ m.energy \notin Fatal,
           \A s \in Sources :
               m.sources[s] = mem[j].sources[s] \/ m.sources[s] \notin Fatal,
           \A a \in Required :
               m.read[a] = mem[j].read[a] \/ CleanArtifact(m.read[a])
    PROVE  CleanJobs'
<1>1. Clean(pc[j], mem[j])
    BY DEF Quarantined, CleanJobs
<1>2. Clean(step, m)
    BY <1>1 DEF Clean
<1>3. QED
    BY <1>2, OneJobClean DEF Quarantined

\* build-silver: what it read from a clean bronze is clean.
LEMMA BuildSilverClean ==
    ASSUME Quarantined, NEW j \in Jobs, BuildSilver(j)
    PROVE  CleanJobs'
<1> USE DEF Quarantined
<1>1. mem[j] \in Memory /\ mem'[j] \in Memory
    BY NextControl DEF Control, JobsOK, Next, JobStep, vars
<1>2. \A s \in Sources : bronze[s] \notin Fatal
    BY DEF QuarantineHolds
<1>3. CASE ReadBronzeCo2(j) \/ ReadBronzeWdi(j)
  <2>1. CASE Exit(j)
      BY <2>1, LeaveClean DEF Exit, Stopped
  <2>2. CASE ~Exit(j)
    <3>1. PICK s \in CoreSources, step \in {"silver_wdi", "silver_write"} :
            /\ pc' = [pc EXCEPT ![j] = step]
            /\ mem' = [mem EXCEPT ![j].core[s] = bronze[s]]
        BY <1>3, <2>2 DEF ReadBronzeCo2, ReadBronzeWdi, ReadBronze, Goto, CoreSources
    <3> DEFINE m == [mem[j] EXCEPT !.core[s] = bronze[s]]
    <3>2. mem' = [mem EXCEPT ![j] = m]
        BY <3>1 DEF Control, JobsOK
    <3>3. m \in Memory
        BY <1>1, <3>2 DEF Control, JobsOK
    <3>4. \A t \in CoreSources : m.core[t] = mem[j].core[t] \/ m.core[t] \notin Fatal
        BY <1>1, <1>2 DEF Memory, Sources
    <3>5. m.energy = mem[j].energy /\ m.sources = mem[j].sources /\ m.read = mem[j].read
        BY <1>1 DEF Memory
    <3>6. QED
        BY <3>1, <3>2, <3>3, <3>4, <3>5, LoadClean
  <2>3. QED
      BY <2>1, <2>2
<1>4. CASE WriteTransition(j)
  <2>1. CASE Exit(j)
      BY <2>1, LeaveClean DEF Exit, Stopped
  <2>2. CASE ~Exit(j)
    <3>1. /\ pc' = [pc EXCEPT ![j] = "silver_energy"]
          /\ mem' = [mem EXCEPT ![j] = mem[j]]
        BY <1>4, <2>2 DEF WriteTransition, Goto, Control, JobsOK
    <3>2. QED
        BY <1>1, <3>1, LoadClean
  <2>3. QED
      BY <2>1, <2>2
<1>5. CASE ReadBronzeEnergy(j)
  <2>1. CASE bronze["owid_energy"] \in {None} \cup Fatal
      BY <1>5, <2>1, LeaveClean DEF ReadBronzeEnergy, Following
  <2>2. CASE bronze["owid_energy"] \notin {None} \cup Fatal
    <3> DEFINE m == [mem[j] EXCEPT !.energy = bronze["owid_energy"]]
    <3>1. /\ pc' = [pc EXCEPT ![j] = "silver_energy_write"]
          /\ mem' = [mem EXCEPT ![j] = m]
        BY <1>5, <2>2 DEF ReadBronzeEnergy, Goto, Control, JobsOK
    <3>2. m \in Memory /\ m.energy = bronze["owid_energy"] /\ m.core = mem[j].core
          /\ m.sources = mem[j].sources /\ m.read = mem[j].read
        BY <1>1, <3>1 DEF Control, JobsOK, Memory
    <3>3. QED
        BY <2>2, <3>1, <3>2, LoadClean
  <2>3. QED
      BY <2>1, <2>2
<1>6. CASE WriteEnergy(j)
    BY <1>6, LeaveClean DEF WriteEnergy, Following
<1>7. QED
    BY <1>3, <1>4, <1>5, <1>6 DEF BuildSilver

\* energy-features, backtest and score: clean tables give clean artifacts.
LEMMA AnalysisClean ==
    ASSUME Quarantined, NEW j \in Jobs,
           EnergyFeatures(j) \/ Backtest(j) \/ Score(j)
    PROVE  CleanJobs'
<1> USE DEF Quarantined
<1>1. mem[j] \in Memory /\ mem'[j] \in Memory
    BY NextControl DEF Control, JobsOK, Next, JobStep, vars
<1>2. CleanPanel(silver.transition) /\ silver.energy \notin Fatal
    BY DEF QuarantineHolds
<1>3. CASE WriteFeatures(j) \/ WriteBacktestSummary(j) \/ WriteScoreV2(j)
    BY <1>3, LeaveClean DEF WriteFeatures, WriteBacktestSummary, WriteScoreV2,
                            Following
<1>4. CASE ComputeFeatures(j) \/ ReadEnergyForV2(j)
  <2>1. CASE silver.energy \in {None} \cup Thin
      BY <1>4, <2>1, LeaveClean
         DEF ComputeFeatures, ReadEnergyForV2, Following, Exit, Stopped
  <2>2. CASE silver.energy \notin {None} \cup Thin
    <3> DEFINE m == [mem[j] EXCEPT !.energy = silver.energy]
    <3>1. PICK step \in {"features_write", "score_write_v2"} :
            pc' = [pc EXCEPT ![j] = step] /\ mem' = [mem EXCEPT ![j] = m]
        BY <1>4, <2>2 DEF ComputeFeatures, ReadEnergyForV2, Goto, Control, JobsOK
    <3>2. m \in Memory /\ m.energy = silver.energy /\ m.core = mem[j].core
          /\ m.sources = mem[j].sources /\ m.read = mem[j].read
        BY <1>1, <3>1 DEF Control, JobsOK, Memory
    <3>3. QED
        BY <1>2, <3>1, <3>2, LoadClean
  <2>3. QED
      BY <2>1, <2>2
<1>5. CASE RunBacktest(j) \/ ComputeScores(j)
  <2>1. CASE Exit(j)
      BY <2>1, LeaveClean DEF Exit, Stopped
  <2>2. CASE ~Exit(j)
    <3> DEFINE m == [mem[j] EXCEPT !.core = silver.transition]
    <3>1. PICK step \in {"backtest_write", "score_write"} :
            pc' = [pc EXCEPT ![j] = step] /\ mem' = [mem EXCEPT ![j] = m]
        BY <1>5, <2>2 DEF RunBacktest, ComputeScores, ReadPanel, Goto, Control, JobsOK
    <3>2. silver.transition # None
        BY <1>5, <2>2 DEF RunBacktest, ComputeScores, ReadPanel
    <3>3. m \in Memory /\ m.core = silver.transition /\ m.energy = mem[j].energy
          /\ m.sources = mem[j].sources /\ m.read = mem[j].read
        BY <1>1, <3>1 DEF Control, JobsOK, Memory
    <3>4. QED
        BY <1>2, <3>1, <3>2, <3>3, LoadClean DEF CleanPanel
  <2>3. QED
      BY <2>1, <2>2
<1>6. CASE WriteBacktestDetail(j) \/ WriteScoreV1(j)
  <2>1. PICK step \in {"backtest_write_summary", "score_energy"} :
        pc' = [pc EXCEPT ![j] = step] /\ mem' = [mem EXCEPT ![j] = mem[j]]
      BY <1>6 DEF WriteBacktestDetail, WriteScoreV1, Goto, Control, JobsOK
  <2>2. QED
      BY <1>1, <2>1, LoadClean
<1>7. QED
    BY <1>3, <1>4, <1>5, <1>6 DEF EnergyFeatures, Backtest, Score

\* publish: what it collects as evidence is clean.
LEMMA PublishClean ==
    ASSUME Quarantined, NEW j \in Jobs, Publish(j)
    PROVE  CleanJobs'
<1> USE DEF Quarantined
<1>1. mem[j] \in Memory /\ mem'[j] \in Memory /\ HoldsAt(pc[j], mem[j])
    BY NextControl DEF Control, JobsOK, Next, JobStep, vars
<1>2. CASE Exit(j)
    BY <1>2, LeaveClean DEF Exit, Stopped
<1>3. CASE CheckRaw(j) /\ ~Exit(j)
  <2> DEFINE s == First({t \in Sources : mem[j].sources[t] = None})
             m == [mem[j] EXCEPT !.sources[s] = raw[s].snap]
  <2>1. s \in Sources
    <3>1. {t \in Sources : mem[j].sources[t] = None} # {}
        BY <1>1, <1>3 DEF HoldsAt, CheckRaw
    <3>2. QED
        BY <3>1, FirstSource
  <2>2. raw[s].snap \notin Fatal
      BY <1>3, <2>1 DEF CheckRaw, VerdictsTrue
  <2>3. PICK step \in {"check_raw", "check_silver"} :
            pc' = [pc EXCEPT ![j] = step] /\ mem' = [mem EXCEPT ![j] = m]
      BY <1>3 DEF CheckRaw, Goto, Control, JobsOK
  <2>4. m \in Memory
      BY <1>1, <2>3 DEF Control, JobsOK
  <2>5. \A t \in Sources : m.sources[t] = mem[j].sources[t] \/ m.sources[t] \notin Fatal
      BY <1>1, <2>2 DEF Memory
  <2>6. m.core = mem[j].core /\ m.energy = mem[j].energy /\ m.read = mem[j].read
      BY <1>1 DEF Memory
  <2>7. QED
      BY <2>3, <2>4, <2>5, <2>6, LoadClean
<1>4. CASE CheckSilver(j) /\ ~Exit(j)
  <2> DEFINE m == [mem[j] EXCEPT !.core = silver.transition]
  <2>1. pc' = [pc EXCEPT ![j] = "check_gold"] /\ mem' = [mem EXCEPT ![j] = m]
      BY <1>4 DEF CheckSilver, Goto, Control, JobsOK
  <2>2. m \in Memory /\ m.core = silver.transition /\ m.energy = mem[j].energy
        /\ m.sources = mem[j].sources /\ m.read = mem[j].read
      BY <1>1, <2>1 DEF Control, JobsOK, Memory
  <2>3. \A s \in CoreSources : m.core[s] \notin Fatal
      BY <1>4, <2>2 DEF CheckSilver, QuarantineHolds, CleanPanel
  <2>4. QED
      BY <2>1, <2>2, <2>3, LoadClean
<1>5. CASE CheckGold(j) /\ ~Exit(j)
  <2>1. pc' = [pc EXCEPT ![j] = "read_gold"] /\ mem' = [mem EXCEPT ![j] = mem[j]]
      BY <1>5 DEF CheckGold, Goto, Control, JobsOK
  <2>2. QED
      BY <1>1, <2>1, LoadClean
<1>6. CASE ReadGold(j)
  <2> DEFINE a == First({b \in Required : mem[j].read[b] = None})
             m == mem'[j]
  <2>1. a \in Required
    <3>1. {b \in Required : mem[j].read[b] = None} # {}
        BY <1>1, <1>6 DEF HoldsAt, ReadGold
    <3>2. QED
        BY <3>1, FirstArtifact
  <2>2. CleanArtifact(gold[a])
      BY <2>1 DEF QuarantineHolds, Required, Artifacts
  <2>3. PICK step \in {"read_gold", "write_manifest"} : pc' = [pc EXCEPT ![j] = step]
      BY <1>6 DEF ReadGold, Goto, Control, JobsOK
  <2>4. mem' = [mem EXCEPT ![j] = m]
      BY <1>6 DEF ReadGold, Control, JobsOK
  <2>5. m \in {[mem[j] EXCEPT !.read[a] = gold[a]],
               [mem[j] EXCEPT !.read[a] = gold[a], !.status = "SUCCEEDED"]}
      BY <1>6 DEF ReadGold, Control, JobsOK
  <2>6. \A b \in Required : m.read[b] = mem[j].read[b] \/ m.read[b] = gold[a]
      BY <1>1, <2>5 DEF Memory
  <2>7. m.core = mem[j].core /\ m.energy = mem[j].energy /\ m.sources = mem[j].sources
      BY <1>1, <2>5 DEF Memory
  <2>8. \A b \in Required : m.read[b] = mem[j].read[b] \/ CleanArtifact(m.read[b])
      BY <2>2, <2>6
  <2>9. m \in Memory
      BY <1>1
  <2> HIDE DEF m
  <2>10. QED
      BY <2>3, <2>4, <2>7, <2>8, <2>9, LoadClean
<1>7. CASE WriteManifest(j)
  <2>1. pc' = [pc EXCEPT ![j] = "barrier"] /\ mem' = [mem EXCEPT ![j] = mem[j]]
      BY <1>7 DEF WriteManifest, Goto, Control, JobsOK
  <2>2. QED
      BY <1>1, <2>1, LoadClean
<1>8. CASE Barrier(j)
    BY <1>8, LeaveClean DEF Barrier, Exit, Stopped, Following
<1>9. QED
    BY <1>2, <1>3, <1>4, <1>5, <1>6, <1>7, <1>8 DEF Publish

\* No step of a job makes anything unclean.
LEMMA StepClean ==
    ASSUME Quarantined, NEW j \in Jobs, Start(j) \/ Crash(j) \/ JobStep(j)
    PROVE  CleanJobs'
<1>1. CASE Start(j)
  <2>1. PICK c \in AllCommands, T \in SUBSET Sources :
            /\ pc' = [pc EXCEPT ![j] = Entry[c]]
            /\ mem' = [mem EXCEPT ![j] = Fresh(T)]
      BY <1>1, PipelineAssumption DEF Start, Goto
  <2>2. Clean(Entry[c], Fresh(T))
      BY FreshIsClean DEF Entry, AllCommands
  <2>3. QED
      BY <2>1, <2>2, OneJobClean DEF Quarantined
<1>2. CASE Crash(j) \/ Verify(j)
    BY <1>2, LeaveClean DEF Crash, Verify, Exit, Stopped, Quarantined
<1>3. QED
    BY <1>1, <1>2, IngestClean, BuildSilverClean, AnalysisClean, PublishClean
       DEF JobStep

-----------------------------------------------------------------------------
(* The lake.                                                               *)

\* No step of the system makes anything unclean.
LEMMA StepQuarantine ==
    ASSUME Quarantined, NEW j \in Jobs, Start(j) \/ Crash(j) \/ JobStep(j)
    PROVE  QuarantineHolds' /\ VerdictsTrue'
<1> USE DEF Quarantined
<1>1. CASE UNCHANGED lake
    BY <1>1 DEF lake, QuarantineHolds, VerdictsTrue, CleanPanel, CleanArtifact
<1>2. CASE WriteRawManifest(j)
  <2> DEFINE s == First(mem[j].todo)
             c == mem[j].item
  <2>1. raw' = [raw EXCEPT ![s] = [snap |-> c, status |-> StatusOf(c)]]
      BY <1>2 DEF WriteRawManifest, NewestManifest
  <2>2. StatusOf(c) = "ACCEPTED" => c \notin Fatal
      BY DEF StatusOf
  <2>3. VerdictsTrue'
      BY <2>1, <2>2 DEF VerdictsTrue, Control, TypeOK
  <2>4. QED
      BY <1>2, <2>3 DEF WriteRawManifest, QuarantineHolds, CleanPanel, CleanArtifact
<1>3. CASE WriteBronze(j)
  <2>1. mem[j].item \notin Fatal
      BY <1>3 DEF WriteBronze, CleanJobs, Clean
  <2>2. \A s \in Sources : bronze'[s] \notin Fatal
      BY <1>3, <2>1 DEF WriteBronze, QuarantineHolds, Control, TypeOK
  <2>3. QED
      BY <1>3, <2>2 DEF WriteBronze, QuarantineHolds, VerdictsTrue, CleanPanel,
                        CleanArtifact
<1>4. CASE WriteTransition(j)
  <2>1. CleanPanel(silver'.transition) /\ silver'.energy \notin Fatal
      BY <1>4 DEF WriteTransition, QuarantineHolds, CleanJobs, Clean, CleanPanel,
                  Control, TypeOK
  <2>2. QED
      BY <1>4, <2>1 DEF WriteTransition, QuarantineHolds, VerdictsTrue, CleanPanel,
                        CleanArtifact
<1>5. CASE WriteEnergy(j)
  <2>1. CleanPanel(silver'.transition) /\ silver'.energy \notin Fatal
      BY <1>5 DEF WriteEnergy, QuarantineHolds, CleanJobs, Clean, CleanPanel,
                  Control, TypeOK
  <2>2. QED
      BY <1>5, <2>1 DEF WriteEnergy, QuarantineHolds, VerdictsTrue, CleanPanel,
                        CleanArtifact
<1>6. ASSUME NEW a, NEW core, NEW energy, WriteGold(j, a, core, energy),
             CleanPanel(core), energy \notin Fatal,
             UNCHANGED <<raw, bronze, silver, manifests>>
      PROVE  QuarantineHolds' /\ VerdictsTrue'
  <2>1. CleanArtifact([by |-> j, core |-> core, energy |-> energy])
      BY <1>6 DEF CleanArtifact
  <2>2. \A b \in Artifacts : CleanArtifact(gold'[b])
      BY <1>6, <2>1 DEF WriteGold, QuarantineHolds, Control, TypeOK
  <2>3. QED
      BY <1>6, <2>2 DEF QuarantineHolds, VerdictsTrue, CleanPanel, CleanArtifact
<1>7. CleanPanel(mem[j].core) /\ CleanPanel(None) /\ mem[j].energy \notin Fatal
    BY DEF CleanJobs, Clean, CleanPanel
<1>8. CASE WriteFeatures(j)
    BY <1>6, <1>7, <1>8 DEF WriteFeatures
<1>9. CASE WriteBacktestDetail(j) \/ WriteBacktestSummary(j) \/ WriteScoreV1(j)
    BY <1>6, <1>7, <1>9, NoneIsClean
       DEF WriteBacktestDetail, WriteBacktestSummary, WriteScoreV1
<1>10. CASE WriteScoreV2(j)
    BY <1>6, <1>7, <1>10 DEF WriteScoreV2
<1>11. CASE WriteManifest(j)
  <2> DEFINE r == [sources |-> mem[j].sources, core |-> mem[j].core,
                   read |-> mem[j].read]
  <2>1. /\ \A s \in Sources : r.sources[s] \notin Fatal
        /\ CleanPanel(r.core)
        /\ \A a \in Required : CleanArtifact(r.read[a])
      BY <1>7 DEF CleanJobs, Clean
  <2> HIDE DEF r
  <2>2. manifests' = [manifests EXCEPT ![j] = r]
      BY <1>11 DEF WriteManifest, r
  <2>3. QED
      BY <1>11, <2>1, <2>2
         DEF WriteManifest, QuarantineHolds, VerdictsTrue, Control, TypeOK,
             CleanPanel, CleanArtifact
<1>12. CASE Barrier(j)
    BY <1>12 DEF Barrier, QuarantineHolds, VerdictsTrue, CleanPanel, CleanArtifact
<1>13. QED
    BY <1>1, <1>2, <1>3, <1>4, <1>5, <1>8, <1>9, <1>10, <1>11, <1>12
       DEF JobStep, Ingest, BuildSilver, EnergyFeatures, Backtest, Score,
           Publish, Start, Crash, Fetch, SourceFails, EndIngest, ReadBronzeCo2,
           ReadBronzeWdi, ReadBronze, ReadBronzeEnergy, ComputeFeatures,
           RunBacktest, ComputeScores, ReadPanel, ReadEnergyForV2, CheckRaw,
           CheckSilver, CheckGold, ReadGold, Verify

\* The invariant holds at the start, and every step preserves it.
LEMMA InitQuarantined == Init => Quarantined
<1>1. Init => QuarantineHolds /\ VerdictsTrue
    BY NoneIsClean DEF Init, QuarantineHolds, VerdictsTrue, CleanPanel,
                       CleanArtifact
<1>2. Init => CleanJobs
    BY FreshIsClean DEF Init, CleanJobs
<1>3. QED
    BY <1>1, <1>2, InitControl DEF Quarantined

LEMMA NextQuarantined == Quarantined /\ [Next]_vars => Quarantined'
<1> SUFFICES ASSUME Quarantined, [Next]_vars PROVE Quarantined'
    OBVIOUS
<1>1. Control'
    BY NextControl DEF Quarantined
<1>2. CASE UNCHANGED vars
    BY <1>1, <1>2 DEF vars, Quarantined, QuarantineHolds, VerdictsTrue,
                      CleanJobs, Clean, CleanPanel, CleanArtifact
<1>3. ASSUME NEW j \in Jobs, Start(j) \/ Crash(j) \/ JobStep(j)
      PROVE  Quarantined'
    BY <1>1, <1>3, StepClean, StepQuarantine DEF Quarantined
<1>4. QED
    BY <1>2, <1>3 DEF Next, Finished

\* A payload with a FATAL event never leaves the raw zone: it is in no bronze
\* snapshot, no silver table, no analytical artifact and no release evidence.
THEOREM Quarantine == Spec => []QuarantineHolds
<1>1. Quarantined => QuarantineHolds
    BY DEF Quarantined
<1>2. QED
    BY <1>1, InitQuarantined, NextQuarantined, PTL DEF Spec

-----------------------------------------------------------------------------
(* Evidence.  Of one job at a time, what a `run` finds in the lake at each *)
(* of its steps is what it put there itself, or left there knowingly.      *)

Serial == IsFiniteSet(Jobs) /\ MaxConcurrent = 1

OneRunning == \A i, k \in Running : i = k

Accepted(s) == raw[s] # None /\ raw[s].status = "ACCEPTED"

\* Bronze holds what the newest manifest of the source accepted.
Promoted(s) == Accepted(s) => bronze[s] = raw[s].snap

\* The panel that is joined from bronze.
BronzePanel == [s \in CoreSources |-> bronze[s]]

\* The job wrote this artifact, from the newest panel.
Own(j, a) ==
    gold[a] # None /\ gold[a].by = j /\ gold[a].core = silver.transition

\* The stages of a run, each with those that follow it up to the manifest.
Ingesting == {"fetch", "write_raw", "write_bronze"}
Checking == {"check_raw", "check_silver", "check_gold", "read_gold",
             "write_manifest"}
PastV1 == {"score_energy", "score_write_v2"} \cup Checking
PastBacktest == {"score", "score_write"} \cup PastV1
PastSilver == {"features", "features_write", "backtest", "backtest_write",
               "backtest_write_summary"} \cup PastBacktest
PastTransition == {"silver_energy", "silver_energy_write"} \cup PastSilver
PastIngest == {"silver_co2", "silver_wdi", "silver_write"} \cup PastTransition

\* Steps at which a job holds the panel that it computes from or publishes.
HoldsPanel == {"backtest_write", "backtest_write_summary", "score_write",
               "score_energy", "score_write_v2", "check_gold", "read_gold",
               "write_manifest"}

\* The lake as a run at step p finds it.
LakeOf(j, p) ==
    /\ p \in PastIngest => \A s \in Sources : Promoted(s)
    /\ p \in PastTransition => silver.transition = BronzePanel
    /\ p \in PastSilver => (Accepted("owid_energy")
                               => silver.energy = raw["owid_energy"].snap)
    /\ p \in PastBacktest => Own(j, "backtest_summary")
    /\ p \in PastV1 => Own(j, "country_transition_risk")
    /\ LET v2 == gold["country_transition_risk_v2"]
       IN  v2 # None /\ v2.by = j /\ p \notin Stopped \cup {"barrier", "verify"}
              => /\ p \in Checking
                 /\ v2.core = silver.transition /\ v2.energy = silver.energy

\* What a run at step p holds in its memory m, compared with the lake.
HoldsOf(p, m) ==
    /\ p \in Ingesting /\ m.exit_code = 0
          => \A s \in Sources \ m.todo : Promoted(s)
    /\ p = "write_bronze" => /\ raw[First(m.todo)] # None
                             /\ raw[First(m.todo)].snap = m.item
    /\ p = "silver_wdi" => m.core["owid_co2"] = bronze["owid_co2"]
    /\ p = "silver_write" => m.core = BronzePanel
    /\ p = "silver_energy_write" => m.energy = bronze["owid_energy"]
    /\ p \in HoldsPanel => m.core = silver.transition
    /\ p = "score_write_v2" => m.energy = silver.energy
    /\ p \in Checking =>
          /\ \A s \in Sources : m.sources[s] # None
                => Accepted(s) /\ m.sources[s] = raw[s].snap
          /\ \A a \in Required : m.read[a] # None => m.read[a] = gold[a]

RunOK(i) == LakeOf(i, pc[i]) /\ HoldsOf(pc[i], mem[i])

Evidence ==
    /\ OneRunning
    /\ \A i \in Jobs : pc[i] = "idle" => cmd[i] = "run"
    /\ \A i \in Jobs : cmd[i] = "run" => RunOK(i)
    /\ RunEvidenceTraceable

\* A run that steps, and what is known of the lake and of its memory.
RunTurn(j) == Quarantined /\ cmd[j] = "run" /\ pc[j] # "idle" /\ RunOK(j)

LEMMA RunTypes ==
    ASSUME NEW j \in Jobs, RunTurn(j)
    PROVE  /\ pc \in [Jobs -> Steps] /\ mem \in [Jobs -> Memory]
           /\ HoldsAt(pc[j], mem[j]) /\ mem[j] \in Memory
           /\ LakeOf(j, pc[j]) /\ HoldsOf(pc[j], mem[j])
           /\ raw \in [Sources -> IngestManifest \cup {None}]
           /\ bronze \in [Sources -> Snapshots \cup {None}]
           /\ silver \in [transition: Panels \cup {None}, energy: Snapshots \cup {None}]
           /\ gold \in [Artifacts -> Artifact \cup {None}]
    BY DEF RunTurn, RunOK, Quarantined, Control, TypeOK, JobsOK

\* A run that has ended, or stored its manifest, says nothing more.
LEMMA RunEnds ==
    ASSUME NEW j \in Jobs, pc'[j] \in Stopped \cup {"barrier", "verify"}
    PROVE  RunOK(j)'
<1>1. PICK p \in Stopped \cup {"barrier", "verify"} : p = pc'[j]
    OBVIOUS
<1>2. /\ p \notin PastIngest /\ p \notin Ingesting /\ p \notin Checking
      /\ p \notin {"write_bronze", "silver_wdi", "silver_write",
                   "silver_energy_write", "score_write_v2"}
      /\ p \notin HoldsPanel
    BY DEF Stopped, Ingesting, PastIngest, PastTransition, PastSilver,
           PastBacktest, PastV1, Checking, HoldsPanel
<1>3. p \notin PastTransition /\ p \notin PastSilver /\ p \notin PastBacktest
      /\ p \notin PastV1
    BY <1>2 DEF PastIngest, PastTransition, PastSilver, PastBacktest
<1>4. LakeOf(j, p)'
    BY <1>2, <1>3 DEF LakeOf
<1>5. ASSUME NEW m PROVE HoldsOf(p, m)'
    BY <1>2 DEF HoldsOf
<1>6. QED
    BY <1>1, <1>4, <1>5 DEF RunOK

\* It goes on at step q, holding n.
LEMMA RunGoesOn ==
    ASSUME NEW j \in Jobs, RunTurn(j), NEW q, NEW n,
           pc' = [pc EXCEPT ![j] = q], mem' = [mem EXCEPT ![j] = n],
           LakeOf(j, q)', HoldsOf(q, n)'
    PROVE  RunOK(j)'
<1>1. pc'[j] = q /\ mem'[j] = n
    BY RunTypes
<1>2. QED
    BY <1>1 DEF RunOK

\* A stage of a run begins with an empty memory.
LEMMA StageBegins ==
    ASSUME NEW j \in Jobs, Control, cmd[j] = "run",
           NEW stage \in DOMAIN Following \ {"publish"},
           StageDone(j, stage), LakeOf(j, Following[stage])'
    PROVE  RunOK(j)'
<1>1. pc'[j] = Following[stage] /\ mem'[j] = Fresh({})
    BY DEF StageDone, Goto, Control, JobsOK
<1>2. Following[stage] \in {"silver_co2", "features", "backtest", "score",
                            "check_raw"}
    BY DEF Following
<1> DEFINE p == Following[stage]
<1> HIDE DEF p
<1>3. HoldsOf(p, Fresh({}))'
    BY <1>2 DEF HoldsOf, Fresh, Ingesting, HoldsPanel, p
<1>4. QED
    BY <1>1, <1>3 DEF RunOK, p

-----------------------------------------------------------------------------
(* The stages of a run.                                                    *)

\* ingest: what is done without an error has been promoted if accepted.
LEMMA IngestRun ==
    ASSUME NEW j \in Jobs, RunTurn(j), Ingest(j)
    PROVE  RunOK(j)'
<1> DEFINE m == mem[j]
<1> PICK s : s = First(m.todo)
    OBVIOUS
<1>1. /\ pc \in [Jobs -> Steps] /\ mem \in [Jobs -> Memory] /\ m \in Memory
      /\ LakeOf(j, pc[j]) /\ HoldsOf(pc[j], m)
      /\ raw \in [Sources -> IngestManifest \cup {None}]
      /\ bronze \in [Sources -> Snapshots \cup {None}]
    BY RunTypes
<1>2. /\ pc[j] \in Ingesting
      /\ UNCHANGED <<silver, gold>>
    BY DEF Ingest, Fetch, SourceFails, WriteRawManifest, WriteBronze, EndIngest,
           Ingesting, lake
<1>3. ASSUME NEW p \in Ingesting, NEW q \in Ingesting, LakeOf(j, p)
      PROVE  LakeOf(j, q)'
  <2>1. /\ p \notin PastIngest /\ q \notin PastIngest
        /\ p \notin Checking /\ q \notin Stopped \cup {"barrier", "verify"}
        /\ p \notin Stopped \cup {"barrier", "verify"}
    BY <1>3 DEF Ingesting, PastIngest, PastTransition, PastSilver, PastBacktest,
                PastV1, Checking, Stopped
  <2>2. q \notin PastTransition /\ q \notin PastSilver /\ q \notin PastBacktest
        /\ q \notin PastV1
    BY <2>1 DEF PastIngest, PastTransition, PastSilver, PastBacktest
  <2>3. gold["country_transition_risk_v2"] # None
            => gold["country_transition_risk_v2"].by # j
    BY <1>3, <2>1 DEF LakeOf
  <2>4. QED
    BY <1>2, <2>1, <2>2, <2>3 DEF LakeOf
<1>4. ASSUME NEW q \in Ingesting, NEW n \in Memory,
             pc' = [pc EXCEPT ![j] = q], mem' = [mem EXCEPT ![j] = n],
             n.exit_code = 0 => \A t \in Sources \ n.todo : Promoted(t)',
             q = "write_bronze" => /\ raw'[First(n.todo)] # None
                                   /\ raw'[First(n.todo)].snap = n.item
      PROVE  RunOK(j)'
  <2>1. pc'[j] = q /\ mem'[j] = n
    BY <1>1, <1>4
  <2>2. LakeOf(j, q)'
    BY <1>1, <1>2, <1>3
  <2>3. HoldsOf(q, n)'
    BY <1>4 DEF HoldsOf, Ingesting, Checking, HoldsPanel
  <2>4. QED
    BY <2>1, <2>2, <2>3 DEF RunOK
<1>5. m.exit_code = 0 => \A t \in Sources \ m.todo : Promoted(t)
    BY <1>1, <1>2 DEF HoldsOf
<1>6. CASE Fetch(j)
  <2>1. PICK c \in Snapshots : mem' = [mem EXCEPT ![j].item = c]
    BY <1>6 DEF Fetch
  <2> DEFINE n == [m EXCEPT !.item = c]
  <2>2. /\ n \in Memory /\ n.exit_code = m.exit_code /\ n.todo = m.todo
        /\ mem' = [mem EXCEPT ![j] = n] /\ pc' = [pc EXCEPT ![j] = "write_raw"]
    BY <1>1, <1>6, <2>1 DEF Fetch, Goto, Memory
  <2> HIDE DEF n
  <2>3. n.exit_code = 0 => \A t \in Sources \ n.todo : Promoted(t)'
    BY <1>5, <1>6, <2>2 DEF Promoted, Accepted, Fetch, lake
  <2>4. QED
    BY <1>4, <2>2, <2>3 DEF Ingesting
<1>7. ASSUME NEW code \in {0, 1}, NextSource(j, code), s \in Sources,
             code = 0 => /\ Promoted(s)'
                         /\ \A t \in Sources \ m.todo : Promoted(t)'
      PROVE  RunOK(j)'
  <2> DEFINE n == [m EXCEPT !.todo = @ \ {s}, !.item = None, !.exit_code = code]
  <2>1. /\ n \in Memory /\ n.exit_code = code /\ n.todo = m.todo \ {s}
        /\ mem' = [mem EXCEPT ![j] = n] /\ pc' = [pc EXCEPT ![j] = "fetch"]
    BY <1>1, <1>7 DEF NextSource, Goto, Memory
  <2> HIDE DEF n
  <2>2. n.exit_code = 0 => \A t \in Sources \ n.todo : Promoted(t)'
    BY <1>7, <2>1
  <2>3. QED
    BY <1>4, <2>1, <2>2 DEF Ingesting
<1>8. CASE SourceFails(j)
  <2>1. s \in Sources
    BY <1>1, <1>8, FirstSource DEF SourceFails, Memory
  <2>2. QED
    BY <1>7, <1>8, <2>1 DEF SourceFails
<1>9. CASE WriteRawManifest(j)
  <2>1. s \in Sources /\ s \in m.todo
    BY <1>1, <1>9, FirstSource, RunTypes DEF WriteRawManifest, HoldsAt, Memory
  <2> DEFINE c == m.item
             r == [snap |-> c, status |-> StatusOf(c)]
  <2>2. raw' = [raw EXCEPT ![s] = r] /\ bronze' = bronze
    BY <1>9 DEF WriteRawManifest, NewestManifest
  <2>3. m.exit_code = 0 => \A t \in Sources \ m.todo : Promoted(t)'
    BY <1>1, <1>5, <2>1, <2>2 DEF Promoted, Accepted
  <2>4. r # None /\ r.snap = c /\ r.status = StatusOf(c)
    <3>1. c \in Snapshots
      BY <1>9, RunTypes DEF WriteRawManifest, HoldsAt
    <3>2. r \in IngestManifest
      BY <3>1 DEF IngestManifest, StatusOf
    <3>3. QED
      BY <3>2, NoneIsNoData
  <2>5. raw'[s] = r
    BY <1>1, <2>1, <2>2
  <2> HIDE DEF r
  <2>6. CASE PromotedToBronze(c)
    <3>1. pc' = [pc EXCEPT ![j] = "write_bronze"] /\ mem' = [mem EXCEPT ![j] = m]
      BY <1>1, <1>9, <2>6 DEF WriteRawManifest, Goto
    <3>2. QED
      BY <1>1, <1>4, <2>3, <2>4, <2>5, <3>1 DEF Ingesting
  <2>7. CASE ~PromotedToBronze(c)
    <3>1. NextSource(j, m.exit_code) /\ m.exit_code \in {0, 1}
      BY <1>1, <1>9, <2>7 DEF WriteRawManifest, Memory
    <3>2. Promoted(s)'
      BY <2>4, <2>5, <2>7 DEF Promoted, Accepted, PromotedToBronze
    <3>3. QED
      BY <1>7, <2>1, <2>3, <3>1, <3>2
  <2>8. QED
    BY <2>6, <2>7
<1>10. CASE WriteBronze(j)
  <2>1. s \in Sources /\ s \in m.todo
    BY <1>1, <1>10, FirstSource, RunTypes DEF WriteBronze, HoldsAt, Memory
  <2>2. /\ bronze' = [bronze EXCEPT ![s] = m.item] /\ raw' = raw
        /\ raw[s].snap = m.item
        /\ NextSource(j, m.exit_code) /\ m.exit_code \in {0, 1}
    BY <1>1, <1>10 DEF WriteBronze, HoldsOf, Memory
  <2>3. Promoted(s)'
    BY <1>1, <2>1, <2>2 DEF Promoted, Accepted
  <2>4. m.exit_code = 0 => \A t \in Sources \ m.todo : Promoted(t)'
    BY <1>1, <1>5, <2>1, <2>2 DEF Promoted, Accepted
  <2>5. QED
    BY <1>7, <2>1, <2>2, <2>3, <2>4
<1>11. CASE EndIngest(j)
  <2>1. CASE IngestFailed(j)
    BY <1>1, <1>11, <2>1, RunEnds DEF EndIngest, Exit, Stop, Goto, Stopped
  <2>2. CASE ~IngestFailed(j)
    <3>1. m.exit_code = 0 /\ m.todo = {}
      BY <1>11, <2>2 DEF EndIngest, IngestFailed
    <3>2. \A t \in Sources : Promoted(t)'
      BY <1>5, <1>11, <3>1 DEF EndIngest, lake, Promoted, Accepted
    <3>3. gold["country_transition_risk_v2"] # None
            => gold["country_transition_risk_v2"].by # j
      BY <1>1, <1>2 DEF LakeOf, Ingesting, Checking, Stopped
    <3>4. LakeOf(j, "silver_co2")'
      BY <1>2, <3>2, <3>3 DEF LakeOf, PastIngest, PastTransition, PastSilver,
                              PastBacktest, PastV1, Checking
    <3>5. StageDone(j, "ingest") /\ Following["ingest"] = "silver_co2"
          /\ "ingest" \in DOMAIN Following
      BY <1>11, <2>2 DEF EndIngest, Following
    <3>6. QED
      BY <3>4, <3>5, StageBegins DEF RunTurn, Quarantined
  <2>3. QED
    BY <2>1, <2>2
<1>12. QED
    BY <1>6, <1>8, <1>9, <1>10, <1>11 DEF Ingest

\* The v2 score is no artifact of a run that has not come to the checks.
LEMMA NoV2Yet ==
    ASSUME NEW j \in Jobs, NEW p \in PastIngest \ Checking, LakeOf(j, p)
    PROVE  gold["country_transition_risk_v2"] # None
              => gold["country_transition_risk_v2"].by # j
<1>1. p \notin Stopped \cup {"barrier", "verify"}
    BY DEF PastIngest, PastTransition, PastSilver, PastBacktest, PastV1, Stopped
<1>2. QED
    BY <1>1 DEF LakeOf

\* build-silver: the tables are those of the promoted snapshots.
LEMMA BuildSilverRun ==
    ASSUME NEW j \in Jobs, RunTurn(j), BuildSilver(j)
    PROVE  RunOK(j)'
<1> DEFINE m == mem[j]
           v2 == gold["country_transition_risk_v2"]
<1> USE DEF PastIngest, PastTransition, PastSilver, PastBacktest, PastV1, Checking
<1>1. /\ pc \in [Jobs -> Steps] /\ mem \in [Jobs -> Memory] /\ m \in Memory
      /\ LakeOf(j, pc[j]) /\ HoldsOf(pc[j], m) /\ HoldsAt(pc[j], m)
      /\ raw \in [Sources -> IngestManifest \cup {None}]
      /\ bronze \in [Sources -> Snapshots \cup {None}]
      /\ silver \in [transition: Panels \cup {None}, energy: Snapshots \cup {None}]
    BY RunTypes
<1>2. /\ pc[j] \in {"silver_co2", "silver_wdi", "silver_write", "silver_energy",
                    "silver_energy_write"}
      /\ UNCHANGED <<raw, bronze, gold>>
    BY DEF BuildSilver, ReadBronzeCo2, ReadBronzeWdi, ReadBronze,
           WriteTransition, ReadBronzeEnergy, WriteEnergy, lake
<1>3. v2 # None => v2.by # j
  <2>1. PICK p : p = pc[j]
    OBVIOUS
  <2>2. p \in PastIngest \ Checking /\ LakeOf(j, p)
    BY <1>1, <1>2, <2>1
  <2>3. QED
    BY <2>2, NoV2Yet
<1>4. \A s \in Sources : Promoted(s)
    BY <1>1, <1>2 DEF LakeOf
<1>5. \A s \in Sources : Promoted(s)'
    BY <1>2, <1>4 DEF Promoted, Accepted
<1>6. CASE pc'[j] \in Stopped
    BY <1>6, RunEnds
<1>7. CASE ReadBronzeCo2(j) /\ pc'[j] \notin Stopped
  <2> PICK n : n = [m EXCEPT !.core["owid_co2"] = bronze["owid_co2"]]
    OBVIOUS
  <2>1. pc' = [pc EXCEPT ![j] = "silver_wdi"] /\ mem' = [mem EXCEPT ![j] = n]
    BY <1>1, <1>7 DEF ReadBronzeCo2, ReadBronze, Exit, Stop, Goto, Stopped
  <2>2. n.core["owid_co2"] = bronze["owid_co2"]
    BY <1>1 DEF Memory, CoreSources
  <2>3. HoldsOf("silver_wdi", n)'
    BY <1>2, <2>2 DEF HoldsOf, Ingesting, HoldsPanel
  <2>4. LakeOf(j, "silver_wdi")'
    BY <1>2, <1>3, <1>5 DEF LakeOf
  <2>5. QED
    BY <2>1, <2>3, <2>4, RunGoesOn
<1>8. CASE ReadBronzeWdi(j) /\ pc'[j] \notin Stopped
  <2> PICK n : n = [m EXCEPT !.core["world_bank_wdi"] = bronze["world_bank_wdi"]]
    OBVIOUS
  <2>1. /\ pc' = [pc EXCEPT ![j] = "silver_write"] /\ mem' = [mem EXCEPT ![j] = n]
        /\ pc[j] = "silver_wdi"
    BY <1>1, <1>8 DEF ReadBronzeWdi, ReadBronze, Exit, Stop, Goto, Stopped
  <2>2. m.core["owid_co2"] = bronze["owid_co2"]
    BY <1>1, <2>1 DEF HoldsOf
  <2>3. n.core = BronzePanel
    BY <1>1, <2>2 DEF Memory, CoreSources, BronzePanel
  <2>4. n.core = BronzePanel'
    BY <1>2, <2>3 DEF BronzePanel
  <2>5. HoldsOf("silver_write", n)'
    BY <2>4 DEF HoldsOf, Ingesting, HoldsPanel
  <2>6. LakeOf(j, "silver_write")'
    BY <1>2, <1>3, <1>5 DEF LakeOf
  <2>7. QED
    BY <2>1, <2>5, <2>6, RunGoesOn
<1>9. CASE WriteTransition(j) /\ pc'[j] \notin Stopped
  <2> PICK n : n = m
    OBVIOUS
  <2>1. /\ pc' = [pc EXCEPT ![j] = "silver_energy"] /\ mem' = [mem EXCEPT ![j] = n]
        /\ silver'.transition = m.core /\ pc[j] = "silver_write"
    BY <1>1, <1>9 DEF WriteTransition, Exit, Stop, Goto, Stopped
  <2>2. silver'.transition = BronzePanel'
    BY <1>1, <1>2, <2>1 DEF HoldsOf, BronzePanel
  <2>3. HoldsOf("silver_energy", n)'
    BY DEF HoldsOf, Ingesting, HoldsPanel
  <2>4. LakeOf(j, "silver_energy")'
    BY <1>2, <1>3, <1>5, <2>2 DEF LakeOf
  <2>5. QED
    BY <2>1, <2>3, <2>4, RunGoesOn
<1>10. ASSUME StageDone(j, "build_silver"), silver'.transition = silver.transition,
              silver.transition = BronzePanel,
              Accepted("owid_energy") => silver'.energy = raw["owid_energy"].snap
       PROVE  RunOK(j)'
  <2>1. silver'.transition = BronzePanel'
    BY <1>2, <1>10 DEF BronzePanel
  <2>2. Accepted("owid_energy")' => silver'.energy = raw'["owid_energy"].snap
    BY <1>2, <1>10 DEF Accepted
  <2>3. LakeOf(j, "features")'
    BY <1>2, <1>3, <1>5, <2>1, <2>2 DEF LakeOf
  <2>4. "build_silver" \in DOMAIN Following \ {"publish"}
        /\ Following["build_silver"] = "features"
    BY DEF Following
  <2>5. QED
    BY <1>10, <2>3, <2>4, StageBegins DEF RunTurn, Quarantined
<1>11. CASE ReadBronzeEnergy(j)
  <2> DEFINE e == bronze["owid_energy"]
  <2>1. pc[j] = "silver_energy" /\ silver' = silver
    BY <1>11 DEF ReadBronzeEnergy, lake
  <2>2. silver.transition = BronzePanel /\ Promoted("owid_energy")
    BY <1>1, <1>4, <2>1 DEF LakeOf, Sources
  <2>3. CASE e \in {None} \cup Fatal
    <3>1. ~Accepted("owid_energy")
      <4>1. Accepted("owid_energy") =>
               /\ raw["owid_energy"].snap \in Snapshots
               /\ raw["owid_energy"].snap \notin Fatal
        BY <1>1 DEF Accepted, IngestManifest, Sources, RunTurn, Quarantined,
                    VerdictsTrue
      <4>2. QED
        BY <2>2, <2>3, <4>1, NoneIsNoData DEF Promoted
    <3>2. StageDone(j, "build_silver")
      BY <1>11, <2>3 DEF ReadBronzeEnergy
    <3>3. QED
      BY <1>10, <2>1, <2>2, <3>1, <3>2
  <2>4. CASE e \notin {None} \cup Fatal
    <3> PICK n : n = [m EXCEPT !.energy = e]
      OBVIOUS
    <3>1. /\ pc' = [pc EXCEPT ![j] = "silver_energy_write"]
          /\ mem' = [mem EXCEPT ![j] = n]
      BY <1>1, <1>11, <2>4 DEF ReadBronzeEnergy, Goto
    <3>2. n.energy = bronze'["owid_energy"]
      BY <1>1, <1>2 DEF Memory
    <3>3. HoldsOf("silver_energy_write", n)'
      BY <3>2 DEF HoldsOf, Ingesting, HoldsPanel
    <3>4. LakeOf(j, "silver_energy_write")'
      BY <1>2, <1>3, <1>5, <2>1, <2>2 DEF LakeOf, BronzePanel
    <3>5. QED
      BY <3>1, <3>3, <3>4, RunGoesOn
  <2>5. QED
    BY <2>3, <2>4
<1>12. CASE WriteEnergy(j)
  <2>1. /\ pc[j] = "silver_energy_write" /\ StageDone(j, "build_silver")
        /\ silver' = [silver EXCEPT !.energy = m.energy]
    BY <1>12 DEF WriteEnergy
  <2>2. /\ silver'.transition = silver.transition /\ silver'.energy = m.energy
        /\ m.energy = bronze["owid_energy"]
    BY <1>1, <2>1 DEF HoldsOf
  <2>3. silver.transition = BronzePanel /\ Promoted("owid_energy")
    BY <1>1, <1>4, <2>1 DEF LakeOf, Sources
  <2>4. QED
    BY <1>10, <2>1, <2>2, <2>3 DEF Promoted
<1>13. QED
    BY <1>6, <1>7, <1>8, <1>9, <1>11, <1>12 DEF BuildSilver

\* What a job writes is its own, and the other artifacts stay.
LEMMA WritesOwn ==
    ASSUME NEW j \in Jobs, RunTurn(j), NEW a \in Artifacts,
           NEW core \in Panels \cup {None}, NEW energy \in Snapshots \cup {None},
           WriteGold(j, a, core, energy)
    PROVE  /\ gold'[a] # None /\ gold'[a].by = j
           /\ gold'[a].core = core /\ gold'[a].energy = energy
           /\ \A b \in Artifacts \ {a} : gold'[b] = gold[b]
<1> DEFINE r == [by |-> j, core |-> core, energy |-> energy]
<1>1. r \in Artifact /\ r.by = j /\ r.core = core /\ r.energy = energy
    BY DEF Artifact
<1> HIDE DEF r
<1>2. gold' = [gold EXCEPT ![a] = r]
    BY DEF WriteGold, r
<1>3. r # None
    BY <1>1, NoneIsNoData
<1>4. QED
    BY <1>1, <1>2, <1>3, RunTypes

\* What a run that computes finds, it finds again at its next step.
LEMMA LakeKept ==
    ASSUME NEW j \in Jobs, NEW p \in PastSilver \ Checking, NEW q \in PastSilver,
           LakeOf(j, p), UNCHANGED <<raw, bronze, silver>>,
           q \in PastBacktest => Own(j, "backtest_summary")',
           q \in PastV1 => Own(j, "country_transition_risk")',
           gold'["country_transition_risk_v2"] = gold["country_transition_risk_v2"]
    PROVE  LakeOf(j, q)'
<1>1. p \in PastTransition /\ p \in PastIngest /\ p \in PastIngest \ Checking
    BY DEF PastIngest, PastTransition
<1>2. gold'["country_transition_risk_v2"] # None
        => gold'["country_transition_risk_v2"].by # j
    BY <1>1, NoV2Yet
<1>3. \A s \in Sources : Promoted(s)'
    BY <1>1 DEF LakeOf, Promoted, Accepted
<1>4. silver'.transition = BronzePanel'
    BY <1>1 DEF LakeOf, BronzePanel
<1>5. Accepted("owid_energy")' => silver'.energy = raw'["owid_energy"].snap
    BY DEF LakeOf, Accepted
<1>6. QED
    BY <1>2, <1>3, <1>4, <1>5 DEF LakeOf

\* energy-features, backtest and score: what a run computes is its own, and of
\* the panel and the energy table that it built.
LEMMA AnalysisRun ==
    ASSUME NEW j \in Jobs, RunTurn(j),
           EnergyFeatures(j) \/ Backtest(j) \/ Score(j)
    PROVE  RunOK(j)'
<1> PICK p, m : p = pc[j] /\ m = mem[j]
    OBVIOUS
<1>1. /\ pc \in [Jobs -> Steps] /\ mem \in [Jobs -> Memory] /\ m \in Memory
      /\ LakeOf(j, p) /\ HoldsOf(p, m) /\ HoldsAt(p, m)
      /\ silver \in [transition: Panels \cup {None}, energy: Snapshots \cup {None}]
    BY RunTypes
<1>2. p \in PastSilver \ Checking /\ UNCHANGED <<raw, bronze, silver>>
    BY DEF EnergyFeatures, Backtest, Score, ComputeFeatures, WriteFeatures,
           RunBacktest, WriteBacktestDetail, WriteBacktestSummary, ComputeScores,
           WriteScoreV1, ReadEnergyForV2, WriteScoreV2, ReadPanel, lake,
           PastSilver, PastBacktest, PastV1, Checking
<1>3. p \in PastBacktest => Own(j, "backtest_summary")
    BY <1>1 DEF LakeOf
<1>4. p \in PastV1 => Own(j, "country_transition_risk")
    BY <1>1 DEF LakeOf
<1>5. Control /\ cmd[j] = "run"
    BY DEF RunTurn, Quarantined
<1>6. {"energy_features", "backtest", "score"} \subseteq DOMAIN Following \ {"publish"}
      /\ Following["energy_features"] = "backtest" /\ Following["backtest"] = "score"
      /\ Following["score"] = "check_raw"
    BY DEF Following
<1>7. CASE pc'[j] \in Stopped
    BY <1>7, RunEnds
<1>8. CASE ComputeFeatures(j) \/ WriteFeatures(j)
  <2>1. p \notin PastBacktest /\ p \notin PastV1
    BY <1>8 DEF ComputeFeatures, WriteFeatures, PastBacktest, PastV1, Checking
  <2>2. gold'["country_transition_risk_v2"] = gold["country_transition_risk_v2"]
    BY <1>5, <1>8 DEF ComputeFeatures, WriteFeatures, WriteGold, lake, Control,
                      TypeOK, Artifacts
  <2>3. ASSUME NEW q \in {"features_write", "backtest"} PROVE LakeOf(j, q)'
    <3>1. q \in PastSilver /\ q \notin PastBacktest /\ q \notin PastV1
      BY DEF PastSilver, PastBacktest, PastV1, Checking
    <3>2. QED
      BY <1>1, <1>2, <2>2, <3>1, LakeKept
  <2>4. CASE StageDone(j, "energy_features")
    BY <1>5, <1>6, <2>3, <2>4, StageBegins
  <2>5. CASE ~StageDone(j, "energy_features")
    <3> PICK n : n = [m EXCEPT !.energy = silver.energy]
      OBVIOUS
    <3>1. pc' = [pc EXCEPT ![j] = "features_write"] /\ mem' = [mem EXCEPT ![j] = n]
      BY <1>1, <1>5, <1>8, <2>5 DEF ComputeFeatures, WriteFeatures, Goto
    <3>2. HoldsOf("features_write", n)'
      BY DEF HoldsOf, Ingesting, HoldsPanel, Checking
    <3>3. QED
      BY <2>3, <3>1, <3>2, RunGoesOn
  <2>6. QED
    BY <2>4, <2>5
<1>9. CASE RunBacktest(j) /\ pc'[j] \notin Stopped
  <2> PICK n : n = [m EXCEPT !.core = silver.transition]
    OBVIOUS
  <2>1. /\ pc' = [pc EXCEPT ![j] = "backtest_write"] /\ mem' = [mem EXCEPT ![j] = n]
        /\ UNCHANGED gold
    BY <1>1, <1>9 DEF RunBacktest, ReadPanel, Exit, Stop, Goto, Stopped, lake
  <2>2. n.core = silver'.transition
    BY <1>1, <1>2 DEF Memory
  <2>3. HoldsOf("backtest_write", n)'
    BY <2>2 DEF HoldsOf, Ingesting, Checking
  <2>4. "backtest_write" \in PastSilver \ (PastBacktest \cup PastV1)
    BY DEF PastSilver, PastBacktest, PastV1, Checking
  <2>5. LakeOf(j, "backtest_write")'
    BY <1>1, <1>2, <2>1, <2>4, LakeKept
  <2>6. QED
    BY <2>1, <2>3, <2>5, RunGoesOn
<1>10. CASE WriteBacktestDetail(j)
  <2>1. /\ pc' = [pc EXCEPT ![j] = "backtest_write_summary"]
        /\ mem' = [mem EXCEPT ![j] = m] /\ p = "backtest_write"
        /\ gold'["country_transition_risk_v2"] = gold["country_transition_risk_v2"]
    BY <1>1, <1>10 DEF WriteBacktestDetail, Goto, WriteGold
  <2>2. m.core = silver'.transition
    BY <1>1, <1>2, <2>1 DEF HoldsOf, HoldsPanel
  <2>3. HoldsOf("backtest_write_summary", m)'
    BY <2>2 DEF HoldsOf, Ingesting, Checking
  <2>4. "backtest_write_summary" \in PastSilver \ (PastBacktest \cup PastV1)
    BY DEF PastSilver, PastBacktest, PastV1, Checking
  <2>5. LakeOf(j, "backtest_write_summary")'
    BY <1>1, <1>2, <2>1, <2>4, LakeKept
  <2>6. QED
    BY <2>1, <2>3, <2>5, RunGoesOn
<1>11. CASE WriteBacktestSummary(j)
  <2>1. /\ StageDone(j, "backtest") /\ p = "backtest_write_summary"
        /\ WriteGold(j, "backtest_summary", m.core, None)
    BY <1>11 DEF WriteBacktestSummary
  <2>2. m.core \in Panels /\ m.core = silver.transition
    BY <1>1, <2>1 DEF HoldsAt, HoldsOf, HoldsPanel
  <2>3. Own(j, "backtest_summary")'
    BY <1>2, <2>1, <2>2, WritesOwn DEF Own, Artifacts
  <2>4. gold'["country_transition_risk_v2"] = gold["country_transition_risk_v2"]
    BY <2>1, <2>2, WritesOwn DEF Artifacts
  <2>5. "score" \in PastSilver \ PastV1
    BY DEF PastSilver, PastBacktest, PastV1, Checking
  <2>6. LakeOf(j, "score")'
    BY <1>1, <1>2, <2>3, <2>4, <2>5, LakeKept
  <2>7. QED
    BY <1>5, <1>6, <2>1, <2>6, StageBegins
<1>12. CASE ComputeScores(j) /\ pc'[j] \notin Stopped
  <2> PICK n : n = [m EXCEPT !.core = silver.transition]
    OBVIOUS
  <2>1. /\ pc' = [pc EXCEPT ![j] = "score_write"] /\ mem' = [mem EXCEPT ![j] = n]
        /\ UNCHANGED gold /\ p = "score"
    BY <1>1, <1>12 DEF ComputeScores, ReadPanel, Exit, Stop, Goto, Stopped, lake
  <2>2. n.core = silver'.transition
    BY <1>1, <1>2 DEF Memory
  <2>3. HoldsOf("score_write", n)'
    BY <2>2 DEF HoldsOf, Ingesting, Checking
  <2>4. "score_write" \in PastSilver \ PastV1 /\ p \in PastBacktest
    BY <2>1 DEF PastSilver, PastBacktest, PastV1, Checking
  <2>5. Own(j, "backtest_summary")'
    BY <1>2, <1>3, <2>1, <2>4 DEF Own
  <2>6. LakeOf(j, "score_write")'
    BY <1>1, <1>2, <2>1, <2>4, <2>5, LakeKept
  <2>7. QED
    BY <2>1, <2>3, <2>6, RunGoesOn
<1>13. CASE WriteScoreV1(j)
  <2>1. /\ pc' = [pc EXCEPT ![j] = "score_energy"] /\ mem' = [mem EXCEPT ![j] = m]
        /\ p = "score_write"
        /\ WriteGold(j, "country_transition_risk", m.core, None)
    BY <1>1, <1>13 DEF WriteScoreV1, Goto
  <2>2. m.core \in Panels /\ m.core = silver.transition
    BY <1>1, <2>1 DEF HoldsAt, HoldsOf, HoldsPanel
  <2>3. Own(j, "country_transition_risk")'
    BY <1>2, <2>1, <2>2, WritesOwn DEF Own, Artifacts
  <2>4. /\ gold'["country_transition_risk_v2"] = gold["country_transition_risk_v2"]
        /\ gold'["backtest_summary"] = gold["backtest_summary"]
    BY <2>1, <2>2, WritesOwn DEF Artifacts
  <2>5. "score_energy" \in PastSilver /\ p \in PastBacktest
    BY <2>1 DEF PastSilver, PastBacktest, PastV1, Checking
  <2>6. Own(j, "backtest_summary")'
    BY <1>2, <1>3, <2>4, <2>5 DEF Own
  <2>7. LakeOf(j, "score_energy")'
    BY <1>1, <1>2, <2>3, <2>4, <2>5, <2>6, LakeKept
  <2>8. HoldsOf("score_energy", m)'
    BY <1>2, <2>2 DEF HoldsOf, Ingesting, Checking
  <2>9. QED
    BY <2>1, <2>7, <2>8, RunGoesOn
<1>14. CASE ReadEnergyForV2(j)
  <2>1. p = "score_energy" /\ UNCHANGED gold
    BY <1>14 DEF ReadEnergyForV2, lake
  <2>2. p \in PastBacktest /\ p \in PastV1
    BY <2>1 DEF PastBacktest, PastV1
  <2>3. Own(j, "backtest_summary")' /\ Own(j, "country_transition_risk")'
    BY <1>2, <1>3, <1>4, <2>1, <2>2 DEF Own
  <2>4. ASSUME NEW q \in {"score_write_v2", "check_raw"} PROVE LakeOf(j, q)'
    <3>1. q \in PastSilver
      BY DEF PastSilver, PastBacktest, PastV1, Checking
    <3>2. QED
      BY <1>1, <1>2, <2>1, <2>3, <3>1, LakeKept
  <2>5. CASE StageDone(j, "score")
    BY <1>5, <1>6, <2>4, <2>5, StageBegins
  <2>6. CASE ~StageDone(j, "score")
    <3> PICK n : n = [m EXCEPT !.energy = silver.energy]
      OBVIOUS
    <3>1. pc' = [pc EXCEPT ![j] = "score_write_v2"] /\ mem' = [mem EXCEPT ![j] = n]
      BY <1>1, <1>14, <2>6 DEF ReadEnergyForV2, Goto
    <3>2. m.core = silver.transition
      BY <1>1, <2>1 DEF HoldsOf, HoldsPanel
    <3>3. n.energy = silver'.energy /\ n.core = silver'.transition
      BY <1>1, <1>2, <3>2 DEF Memory
    <3>4. HoldsOf("score_write_v2", n)'
      BY <3>3 DEF HoldsOf, Ingesting, Checking
    <3>5. QED
      BY <2>4, <3>1, <3>4, RunGoesOn
  <2>7. QED
    BY <2>5, <2>6
<1>15. CASE WriteScoreV2(j)
  <2>1. /\ StageDone(j, "score") /\ p = "score_write_v2"
        /\ WriteGold(j, "country_transition_risk_v2", m.core, m.energy)
    BY <1>15 DEF WriteScoreV2
  <2>2. /\ m.core \in Panels /\ m.core = silver.transition
        /\ m.energy \in Snapshots /\ m.energy = silver.energy
    BY <1>1, <2>1 DEF HoldsAt, HoldsOf, HoldsPanel
  <2>3. /\ gold'["country_transition_risk_v2"].core = silver'.transition
        /\ gold'["country_transition_risk_v2"].energy = silver'.energy
        /\ gold'["country_transition_risk"] = gold["country_transition_risk"]
        /\ gold'["backtest_summary"] = gold["backtest_summary"]
    BY <1>2, <2>1, <2>2, WritesOwn DEF Artifacts
  <2>4. /\ p \in PastBacktest /\ p \in PastV1
        /\ p \in PastTransition /\ p \in PastIngest /\ p \in PastSilver
    BY <2>1 DEF PastBacktest, PastV1, PastSilver, PastTransition, PastIngest
  <2>5. Own(j, "backtest_summary")' /\ Own(j, "country_transition_risk")'
    BY <1>2, <1>3, <1>4, <2>3, <2>4 DEF Own
  <2>6. /\ \A s \in Sources : Promoted(s)'
        /\ silver'.transition = BronzePanel'
        /\ Accepted("owid_energy")' => silver'.energy = raw'["owid_energy"].snap
    BY <1>1, <1>2, <2>4 DEF LakeOf, Promoted, Accepted, BronzePanel
  <2>7. "check_raw" \in Checking
    BY DEF Checking
  <2>8. LakeOf(j, "check_raw")'
    BY <2>3, <2>5, <2>6, <2>7 DEF LakeOf
  <2>9. QED
    BY <1>5, <1>6, <2>1, <2>8, StageBegins
<1>16. QED
    BY <1>7, <1>8, <1>9, <1>10, <1>11, <1>12, <1>13, <1>14, <1>15
       DEF EnergyFeatures, Backtest, Score

\* publish: what a run collects as evidence is what the lake holds.
LEMMA PublishRun ==
    ASSUME NEW j \in Jobs, RunTurn(j), Publish(j)
    PROVE  RunOK(j)'
<1> PICK p, m : p = pc[j] /\ m = mem[j]
    OBVIOUS
<1>1. /\ pc \in [Jobs -> Steps] /\ mem \in [Jobs -> Memory] /\ m \in Memory
      /\ LakeOf(j, p) /\ HoldsOf(p, m) /\ HoldsAt(p, m)
    BY RunTypes
<1>2. UNCHANGED <<raw, bronze, silver, gold>>
    BY DEF Publish, CheckRaw, CheckSilver, CheckGold, ReadGold, WriteManifest,
           Barrier, lake
<1>3. CASE pc'[j] \in Stopped \cup {"barrier", "verify"}
    BY <1>3, RunEnds
<1>4. ASSUME pc'[j] \notin Stopped \cup {"barrier", "verify"}
      PROVE  RunOK(j)'
  <2>1. p \in Checking
    BY <1>1, <1>4 DEF Publish, CheckRaw, CheckSilver, CheckGold, ReadGold,
                      WriteManifest, Barrier, Checking, StageDone, Stop, Exit,
                      Goto, Following, Stopped
  <2>2. \A s \in Sources : m.sources[s] # None
           => Accepted(s)' /\ m.sources[s] = raw'[s].snap
    BY <1>1, <1>2, <2>1 DEF HoldsOf, Accepted
  <2>3. \A a \in Required : m.read[a] # None => m.read[a] = gold'[a]
    BY <1>1, <1>2, <2>1 DEF HoldsOf
  <2>4. ASSUME NEW q \in Checking, NEW n,
               pc' = [pc EXCEPT ![j] = q], mem' = [mem EXCEPT ![j] = n],
               q \in HoldsPanel => n.core = silver'.transition,
               \A s \in Sources : n.sources[s] # None
                  => Accepted(s)' /\ n.sources[s] = raw'[s].snap,
               \A a \in Required : n.read[a] # None => n.read[a] = gold'[a]
        PROVE  RunOK(j)'
    <3>1. /\ q \notin Ingesting
          /\ q \notin {"write_bronze", "silver_wdi", "silver_write",
                       "silver_energy_write", "score_write_v2"}
      BY <2>4 DEF Checking, Ingesting
    <3>2. HoldsOf(q, n)'
      BY <2>4, <3>1 DEF HoldsOf
    <3>3. p \in PastIngest /\ p \in PastTransition /\ p \in PastSilver
          /\ p \in PastBacktest /\ p \in PastV1
          /\ p \notin Stopped \cup {"barrier", "verify"}
      BY <2>1 DEF PastIngest, PastTransition, PastSilver, PastBacktest, PastV1,
                  Checking, Stopped
    <3>4. /\ \A s \in Sources : Promoted(s)'
          /\ silver'.transition = BronzePanel'
          /\ Accepted("owid_energy")' => silver'.energy = raw'["owid_energy"].snap
          /\ Own(j, "backtest_summary")' /\ Own(j, "country_transition_risk")'
      BY <1>1, <1>2, <3>3 DEF LakeOf, Promoted, Accepted, BronzePanel, Own
    <3>5. gold'["country_transition_risk_v2"] # None
            /\ gold'["country_transition_risk_v2"].by = j
             => /\ gold'["country_transition_risk_v2"].core = silver'.transition
                /\ gold'["country_transition_risk_v2"].energy = silver'.energy
      BY <1>1, <1>2, <3>3 DEF LakeOf
    <3>6. LakeOf(j, q)'
      BY <3>4, <3>5 DEF LakeOf
    <3>7. QED
      BY <2>4, <3>2, <3>6, RunGoesOn
  <2>5. CASE CheckRaw(j)
    <3> PICK s : s = First({t \in Sources : m.sources[t] = None})
      OBVIOUS
    <3> PICK n : n = [m EXCEPT !.sources[s] = raw[s].snap]
      OBVIOUS
    <3>1. s \in Sources
      <4>1. {t \in Sources : m.sources[t] = None} # {}
        BY <1>1, <2>5 DEF CheckRaw, HoldsAt
      <4>2. QED
        BY <4>1, FirstSource
    <3>2. Accepted(s)' /\ mem' = [mem EXCEPT ![j] = n]
      BY <1>1, <1>2, <1>4, <2>5
         DEF CheckRaw, Accepted, Exit, Stop, Goto, Stopped
    <3>3. PICK q \in {"check_raw", "check_silver"} : pc' = [pc EXCEPT ![j] = q]
      BY <1>1, <1>4, <2>5 DEF CheckRaw, Exit, Stop, Goto, Stopped
    <3>4. /\ n.sources[s] = raw'[s].snap /\ n.read = m.read
          /\ \A t \in Sources \ {s} : n.sources[t] = m.sources[t]
      BY <1>1, <1>2, <3>1 DEF Memory
    <3>5. q \in Checking /\ q \notin HoldsPanel
      BY DEF Checking, HoldsPanel
    <3>6. /\ \A t \in Sources : n.sources[t] # None
               => Accepted(t)' /\ n.sources[t] = raw'[t].snap
          /\ \A b \in Required : n.read[b] # None => n.read[b] = gold'[b]
      BY <2>2, <2>3, <3>1, <3>2, <3>4
    <3>7. QED
      BY <2>4, <3>2, <3>3, <3>5, <3>6
  <2>6. CASE CheckSilver(j)
    <3> PICK n : n = [m EXCEPT !.core = silver.transition]
      OBVIOUS
    <3>1. pc' = [pc EXCEPT ![j] = "check_gold"] /\ mem' = [mem EXCEPT ![j] = n]
      BY <1>1, <1>4, <2>6 DEF CheckSilver, Exit, Stop, Goto, Stopped
    <3>2. n.core = silver'.transition /\ n.sources = m.sources /\ n.read = m.read
      BY <1>1, <1>2 DEF Memory
    <3>3. "check_gold" \in Checking
      BY DEF Checking
    <3>4. /\ \A s \in Sources : n.sources[s] # None
               => Accepted(s)' /\ n.sources[s] = raw'[s].snap
          /\ \A a \in Required : n.read[a] # None => n.read[a] = gold'[a]
      BY <2>2, <2>3, <3>2
    <3>5. QED
      BY <2>4, <3>1, <3>2, <3>3, <3>4
  <2>7. CASE CheckGold(j)
    <3>1. pc' = [pc EXCEPT ![j] = "read_gold"] /\ mem' = [mem EXCEPT ![j] = m]
          /\ p = "check_gold"
      BY <1>1, <1>4, <2>7 DEF CheckGold, Exit, Stop, Goto, Stopped
    <3>2. m.core = silver'.transition
      BY <1>1, <1>2, <3>1 DEF HoldsOf, HoldsPanel
    <3>3. "read_gold" \in Checking
      BY DEF Checking
    <3>4. QED
      BY <2>2, <2>3, <2>4, <3>1, <3>2, <3>3
  <2>8. CASE ReadGold(j)
    <3> PICK a : a = First({b \in Required : m.read[b] = None})
      OBVIOUS
    <3>1. a \in Required /\ p = "read_gold"
      <4>1. {b \in Required : m.read[b] = None} # {}
        BY <1>1, <2>8 DEF ReadGold, HoldsAt
      <4>2. QED
        BY <2>8, <4>1, FirstArtifact DEF ReadGold
    <3>2. PICK q \in {"read_gold", "write_manifest"} : pc' = [pc EXCEPT ![j] = q]
      BY <1>1, <2>8 DEF ReadGold, Goto
    <3>3. PICK n \in {[m EXCEPT !.read[a] = gold[a]],
                      [m EXCEPT !.read[a] = gold[a], !.status = "SUCCEEDED"]} :
             mem' = [mem EXCEPT ![j] = n]
      BY <2>8 DEF ReadGold
    <3>4. /\ n.core = m.core /\ n.sources = m.sources
          /\ n.read = [m.read EXCEPT ![a] = gold'[a]]
      BY <1>1, <1>2, <3>3 DEF Memory
    <3>5. \A b \in Required : n.read[b] # None => n.read[b] = gold'[b]
      BY <1>1, <2>3, <3>1, <3>4 DEF Memory
    <3>6. n.core = silver'.transition
      BY <1>1, <1>2, <3>1, <3>4 DEF HoldsOf, HoldsPanel
    <3>7. \A s \in Sources : n.sources[s] # None
            => Accepted(s)' /\ n.sources[s] = raw'[s].snap
      BY <2>2, <3>4
    <3>8. q \in Checking
      BY DEF Checking
    <3>9. QED
      BY <2>4, <3>2, <3>3, <3>5, <3>6, <3>7, <3>8
  <2>9. QED
    BY <1>1, <1>4, <2>5, <2>6, <2>7, <2>8
       DEF Publish, WriteManifest, Barrier, StageDone, Stop, Exit, Goto,
           Following, Stopped
<1>5. QED
    BY <1>3, <1>4

\* The evidence that a run stores is true of the run.
LEMMA TrueManifest ==
    ASSUME NEW j \in Jobs, RunTurn(j), pc[j] = "write_manifest"
    PROVE  LET m == mem[j]
               core == [s \in CoreSources |-> m.sources[s]]
               v2 == m.read["country_transition_risk_v2"]
           IN  /\ m.core = core
               /\ \A a \in {"backtest_summary", "country_transition_risk"} :
                   m.read[a].by = j /\ m.read[a].core = core
               /\ v2.by = j => v2.core = core /\ v2.energy = m.sources["owid_energy"]
<1> PICK p, m : p = "write_manifest" /\ m = mem[j]
    OBVIOUS
<1> DEFINE core == [s \in CoreSources |-> m.sources[s]]
<1>1. LakeOf(j, p) /\ HoldsOf(p, m) /\ HoldsAt(p, m)
    BY RunTypes
<1>2. p \in PastIngest /\ p \in PastTransition /\ p \in PastSilver
      /\ p \in PastBacktest /\ p \in PastV1 /\ p \in Checking /\ p \in HoldsPanel
      /\ p \notin Stopped \cup {"barrier", "verify"}
    BY DEF PastIngest, PastTransition, PastSilver, PastBacktest, PastV1,
           Checking, Stopped, HoldsPanel
<1>3. \A s \in Sources : Accepted(s) /\ m.sources[s] = raw[s].snap
    BY <1>1, <1>2, NoneIsNoData DEF HoldsAt, HoldsOf
<1>4. \A s \in Sources : bronze[s] = m.sources[s]
    BY <1>1, <1>2, <1>3 DEF LakeOf, Promoted
<1>5. silver.transition = core
    BY <1>1, <1>2, <1>4 DEF LakeOf, BronzePanel, Sources
<1>6. m.core = core
    BY <1>1, <1>2, <1>5 DEF HoldsOf
<1>7. silver.energy = m.sources["owid_energy"]
    BY <1>1, <1>2, <1>3 DEF LakeOf, Sources
<1>8. \A a \in Required : m.read[a] = gold[a] /\ gold[a] # None
    BY <1>1, <1>2, NoneIsNoData DEF HoldsAt, HoldsOf
<1>9. \A a \in {"backtest_summary", "country_transition_risk"} :
          gold[a].by = j /\ gold[a].core = core
    BY <1>1, <1>2, <1>5 DEF LakeOf, Own
<1>10. gold["country_transition_risk_v2"].by = j =>
          /\ gold["country_transition_risk_v2"].core = core
          /\ gold["country_transition_risk_v2"].energy = m.sources["owid_energy"]
    BY <1>1, <1>2, <1>5, <1>7, <1>8 DEF LakeOf, Required
<1> HIDE DEF core
<1>11. QED
    BY <1>6, <1>8, <1>9, <1>10 DEF Required, core

\* No step of a run, and no crash, leaves it with anything untrue.
LEMMA StepRun ==
    ASSUME NEW j \in Jobs, RunTurn(j), Crash(j) \/ JobStep(j)
    PROVE  RunOK(j)'
<1>1. CASE Crash(j) \/ Verify(j)
  <2>1. pc'[j] \in Stopped
    BY <1>1, RunTypes DEF Crash, Verify, Exit, Stop, Goto, Stopped
  <2>2. QED
    BY <2>1, RunEnds
<1>2. QED
    BY <1>1, IngestRun, BuildSilverRun, AnalysisRun, PublishRun DEF JobStep

-----------------------------------------------------------------------------
(* One job at a time.                                                      *)

Alone(j) == \A i \in Jobs \ {j} : pc[i] \in Stopped \cup {"idle"}

\* A job that is started or moves is the only one that runs.
LEMMA MovesAlone ==
    ASSUME Serial, Control, OneRunning,
           NEW j \in Jobs, Start(j) \/ Crash(j) \/ JobStep(j)
    PROVE  /\ Alone(j)
           /\ ~Start(j) => pc[j] \notin Stopped \cup {"idle"}
<1>1. CASE Start(j)
  <2>1. IsFiniteSet(Running) /\ Running \subseteq Jobs
    BY FS_Subset DEF Serial, Running
  <2>2. Cardinality(Running) = 0
    BY <1>1, <2>1, FS_CardinalityType DEF Start, Serial
  <2>3. Running = {}
    BY <2>1, <2>2, FS_EmptySet
  <2>4. QED
    BY <1>1, <2>3 DEF Running, Alone
<1>2. CASE ~Start(j)
  <2>1. pc[j] \notin Stopped \cup {"idle"}
    BY <1>2 DEF Crash, Running, JobStep, Ingest, BuildSilver, EnergyFeatures,
           Backtest, Score, Publish, Verify, Fetch, SourceFails, WriteRawManifest,
           WriteBronze, EndIngest, ReadBronzeCo2, ReadBronzeWdi, ReadBronze,
           WriteTransition, ReadBronzeEnergy, WriteEnergy, ComputeFeatures,
           WriteFeatures, RunBacktest, WriteBacktestDetail, WriteBacktestSummary,
           ComputeScores, ReadPanel, WriteScoreV1, ReadEnergyForV2, WriteScoreV2,
           CheckRaw, CheckSilver, CheckGold, ReadGold, WriteManifest, Barrier,
           Stopped
  <2>2. j \in Running
    BY <2>1 DEF Running
  <2>3. QED
    BY <2>1, <2>2 DEF OneRunning, Running, Alone
<1>3. QED
    BY <1>1, <1>2

\* No step leads back to where a job has not been started.
LEMMA NeverIdle ==
    ASSUME Control, NEW j \in Jobs, Start(j) \/ Crash(j) \/ JobStep(j)
    PROVE  /\ pc'[j] # "idle"
           /\ \A i \in Jobs \ {j} : cmd'[i] = cmd[i]
           /\ ~Start(j) => cmd' = cmd
<1> USE DEF Control, TypeOK, JobsOK, Goto, Stop, StageDone, Exit, Stopped,
            Following, NextSource
<1>1. CASE Start(j)
  <2>1. PICK c \in AllCommands :
            /\ pc' = [pc EXCEPT ![j] = Entry[c]] /\ cmd' = [cmd EXCEPT ![j] = c]
    BY <1>1, PipelineAssumption DEF Start
  <2>2. Entry[c] # "idle"
    BY DEF Entry, AllCommands
  <2>3. QED
    BY <1>1, <2>1, <2>2
<1>2. CASE Crash(j) \/ Verify(j)
    BY <1>2 DEF Crash, Verify
<1>3. CASE Ingest(j)
    BY <1>3 DEF Ingest, Fetch, SourceFails, WriteRawManifest, WriteBronze,
                EndIngest
<1>4. CASE BuildSilver(j)
    BY <1>4 DEF BuildSilver, ReadBronzeCo2, ReadBronzeWdi, ReadBronze,
                WriteTransition, ReadBronzeEnergy, WriteEnergy
<1>5. CASE EnergyFeatures(j) \/ Backtest(j) \/ Score(j)
    BY <1>5 DEF EnergyFeatures, Backtest, Score, ComputeFeatures, WriteFeatures,
                RunBacktest, WriteBacktestDetail, WriteBacktestSummary,
                ComputeScores, ReadPanel, WriteScoreV1, ReadEnergyForV2,
                WriteScoreV2
<1>6. CASE Publish(j)
    BY <1>6 DEF Publish, CheckRaw, CheckSilver, CheckGold, ReadGold,
                WriteManifest, Barrier
<1>7. QED
    BY <1>1, <1>2, <1>3, <1>4, <1>5, <1>6 DEF JobStep

\* The v2 score is the one there was, or the one of the job that moves.
LEMMA V2Writer ==
    ASSUME Control, NEW j \in Jobs, Start(j) \/ Crash(j) \/ JobStep(j)
    PROVE  \/ gold'["country_transition_risk_v2"]
                 = gold["country_transition_risk_v2"]
           \/ gold'["country_transition_risk_v2"].by = j
<1>1. CASE UNCHANGED gold
    BY <1>1
<1>2. CASE WriteFeatures(j) \/ WriteBacktestDetail(j) \/ WriteBacktestSummary(j)
           \/ WriteScoreV1(j) \/ WriteScoreV2(j)
    BY <1>2 DEF WriteFeatures, WriteBacktestDetail, WriteBacktestSummary,
                WriteScoreV1, WriteScoreV2, WriteGold, Control, TypeOK, Artifacts
<1>3. QED
    BY <1>1, <1>2 DEF JobStep, Ingest, BuildSilver, EnergyFeatures, Backtest,
           Score, Publish, Start, Crash, Fetch, SourceFails, WriteRawManifest,
           WriteBronze, EndIngest, ReadBronzeCo2, ReadBronzeWdi, ReadBronze,
           WriteTransition, ReadBronzeEnergy, WriteEnergy, ComputeFeatures,
           RunBacktest, ComputeScores, ReadPanel, ReadEnergyForV2, CheckRaw,
           CheckSilver, CheckGold, ReadGold, WriteManifest, Barrier, Verify, lake

\* A run that does not move keeps what is true of it.
LEMMA OtherRuns ==
    ASSUME Control, NEW j \in Jobs, Start(j) \/ Crash(j) \/ JobStep(j),
           Alone(j), NEW i \in Jobs \ {j}, RunOK(i)
    PROVE  RunOK(i)'
<1>1. pc'[i] = pc[i] /\ pc[i] \in Stopped \cup {"idle"}
    BY OnlyOneMoves DEF Alone
<1>2. CASE pc[i] \in Stopped
    BY <1>1, <1>2, RunEnds
<1>3. CASE pc[i] = "idle"
  <2> PICK p : p = "idle"
    OBVIOUS
  <2>1. /\ p \notin PastIngest /\ p \notin Ingesting /\ p \notin Checking
        /\ p \notin {"write_bronze", "silver_wdi", "silver_write",
                     "silver_energy_write", "score_write_v2"}
        /\ p \notin HoldsPanel /\ p \notin Stopped \cup {"barrier", "verify"}
    BY DEF Stopped, Ingesting, PastIngest, PastTransition, PastSilver,
           PastBacktest, PastV1, Checking, HoldsPanel
  <2>2. p \notin PastTransition /\ p \notin PastSilver /\ p \notin PastBacktest
        /\ p \notin PastV1
    BY <2>1 DEF PastIngest, PastTransition, PastSilver, PastBacktest
  <2>3. gold["country_transition_risk_v2"] # None
           => gold["country_transition_risk_v2"].by # i
    BY <1>3, <2>1 DEF RunOK, LakeOf
  <2>4. gold'["country_transition_risk_v2"] # None
           => gold'["country_transition_risk_v2"].by # i
    BY <2>3, V2Writer
  <2>5. LakeOf(i, p)'
    BY <2>1, <2>2, <2>4 DEF LakeOf
  <2>6. ASSUME NEW m PROVE HoldsOf(p, m)'
    BY <2>1 DEF HoldsOf
  <2>7. QED
    BY <1>1, <1>3, <2>5, <2>6 DEF RunOK
<1>4. QED
    BY <1>1, <1>2, <1>3

\* A run starts knowing nothing, and has written nothing.
LEMMA StartRun ==
    ASSUME Control, NEW j \in Jobs, Start(j), cmd'[j] = "run", RunOK(j)
    PROVE  RunOK(j)'
<1>1. pc[j] = "idle" /\ UNCHANGED gold
    BY DEF Start, lake
<1>2. pc'[j] = "fetch" /\ mem'[j] = Fresh(Sources)
    BY DEF Start, Goto, Entry, Control, TypeOK
<1>3. gold["country_transition_risk_v2"] # None
         => gold["country_transition_risk_v2"].by # j
    BY <1>1 DEF RunOK, LakeOf, Checking, Stopped
<1>4. LakeOf(j, "fetch")'
    BY <1>1, <1>3 DEF LakeOf, PastIngest, PastTransition, PastSilver,
                      PastBacktest, PastV1, Checking
<1> PICK n : n = Fresh(Sources)
    OBVIOUS
<1>5. n.todo = Sources
    BY DEF Fresh
<1>6. HoldsOf("fetch", n)'
    BY <1>5 DEF HoldsOf, HoldsPanel, Checking
<1>7. QED
    BY <1>2, <1>4, <1>6 DEF RunOK

-----------------------------------------------------------------------------
LEMMA StepEvidence ==
    ASSUME Serial, Quarantined, Recorded, Evidence,
           NEW j \in Jobs, Start(j) \/ Crash(j) \/ JobStep(j)
    PROVE  Evidence'
<1>1. Control /\ Control'
    BY NextControl DEF Quarantined, Next
<1>2. Alone(j) /\ (~Start(j) => pc[j] \notin Stopped \cup {"idle"})
    BY <1>1, MovesAlone DEF Evidence
<1>3. /\ \A i \in Jobs \ {j} : pc'[i] = pc[i] /\ cmd'[i] = cmd[i]
      /\ pc'[j] # "idle" /\ (~Start(j) => cmd' = cmd)
    BY <1>1, OnlyOneMoves, NeverIdle
<1>4. OneRunning'
    BY <1>2, <1>3 DEF OneRunning, Running, Alone
<1>5. \A i \in Jobs : pc'[i] = "idle" => cmd'[i] = "run"
    BY <1>3 DEF Evidence
<1>6. ASSUME NEW i \in Jobs, cmd'[i] = "run" PROVE RunOK(i)'
  <2>1. CASE i # j
    BY <1>1, <1>2, <1>3, <1>6, <2>1, OtherRuns DEF Evidence
  <2>2. CASE i = j /\ Start(j)
    <3>1. RunOK(j)
      BY <2>2 DEF Evidence, Start
    <3>2. QED
      BY <1>1, <1>6, <2>2, <3>1, StartRun
  <2>3. CASE i = j /\ ~Start(j)
    BY <1>2, <1>3, <1>6, <2>3, StepRun DEF Evidence, RunTurn
  <2>4. QED
    BY <2>1, <2>2, <2>3
<1>7. RunEvidenceTraceable'
  <2> DEFINE TrueOf(i, m) ==
        LET core == [s \in CoreSources |-> m.sources[s]]
            v2 == m.read["country_transition_risk_v2"]
        IN  /\ m.core = core
            /\ \A a \in {"backtest_summary", "country_transition_risk"} :
                m.read[a].by = i /\ m.read[a].core = core
            /\ v2.by = i => v2.core = core /\ v2.energy = m.sources["owid_energy"]
  <2>1. \A i \in Jobs : manifests[i] # None /\ cmd[i] = "run"
                           => TrueOf(i, manifests[i])
    BY DEF Evidence, RunEvidenceTraceable
  <2>2. CASE WriteManifest(j)
    <3>1. cmd' = cmd
      BY <2>2 DEF WriteManifest
    <3>2. cmd[j] = "run" => TrueOf(j, mem[j])
      BY <2>2, TrueManifest DEF WriteManifest, RunTurn, Evidence
    <3> DEFINE r == [sources |-> mem[j].sources, core |-> mem[j].core,
                     read |-> mem[j].read]
    <3>3. TrueOf(j, mem[j]) => TrueOf(j, r)
      OBVIOUS
    <3>4. manifests' = [manifests EXCEPT ![j] = r]
      BY <2>2 DEF WriteManifest
    <3> HIDE DEF r, TrueOf
    <3>5. \A i \in Jobs : manifests'[i] # None /\ cmd'[i] = "run"
                             => TrueOf(i, manifests'[i])
      BY <1>1, <2>1, <3>1, <3>2, <3>3, <3>4 DEF Control, TypeOK
    <3>6. QED
      BY <3>5 DEF TrueOf, RunEvidenceTraceable
  <2>3. CASE ~WriteManifest(j)
    <3>1. manifests' = manifests
      BY <1>1, <2>3, BarrierStep
    <3>2. \A i \in Jobs : manifests[i] # None => cmd'[i] = cmd[i]
      BY <1>3 DEF Recorded, PastBarrier, Stopped, Start
    <3> HIDE DEF TrueOf
    <3>3. \A i \in Jobs : manifests'[i] # None /\ cmd'[i] = "run"
                             => TrueOf(i, manifests'[i])
      BY <2>1, <3>1, <3>2
    <3>4. QED
      BY <3>3 DEF TrueOf, RunEvidenceTraceable
  <2>4. QED
    BY <2>2, <2>3
<1>8. QED
    BY <1>4, <1>5, <1>6, <1>7 DEF Evidence

\* Of one job at a time, whatever commands were started, crashed or failed
\* before: the release manifest that a `run` stores tells the truth about the
\* snapshots, the panel and the scores of this run.
THEOREM TrueEvidence == Serial => (Spec => []RunEvidenceTraceable)
<1> SUFFICES ASSUME Serial PROVE Spec => []RunEvidenceTraceable
    OBVIOUS
<1>1. Init => Evidence
  <2> SUFFICES ASSUME Init PROVE Evidence
    OBVIOUS
  <2>1. OneRunning
    BY DEF Init, OneRunning, Running
  <2>2. \A i \in Jobs : RunOK(i)
    BY DEF Init, RunOK, LakeOf, HoldsOf, PastIngest, PastTransition, PastSilver,
           PastBacktest, PastV1, Checking, Ingesting, HoldsPanel, Artifacts
  <2>3. QED
    BY <2>1, <2>2 DEF Init, Evidence, RunEvidenceTraceable
<1>2. Init => Recorded
    BY DEF Init, Recorded
<1>3. Quarantined /\ Recorded /\ Evidence /\ [Next]_vars
         => Recorded' /\ Evidence'
  <2> SUFFICES ASSUME Quarantined, Recorded, Evidence, [Next]_vars
               PROVE  Recorded' /\ Evidence'
    OBVIOUS
  <2>1. CASE UNCHANGED vars
    BY <2>1 DEF vars, Recorded, PastBarrier, Evidence, OneRunning, Running,
           RunOK, LakeOf, HoldsOf, Promoted, Accepted, BronzePanel, Own,
           RunEvidenceTraceable
  <2>2. ASSUME NEW j \in Jobs, Start(j) \/ Crash(j) \/ JobStep(j)
        PROVE  Recorded' /\ Evidence'
    BY <2>2, StepRecorded, StepEvidence DEF Quarantined
  <2>3. QED
    BY <2>1, <2>2 DEF Next, Finished
<1>4. Evidence => RunEvidenceTraceable
    BY DEF Evidence
<1>5. QED
    BY <1>1, <1>2, <1>3, <1>4, InitQuarantined, NextQuarantined, PTL DEF Spec
==============================================================================
