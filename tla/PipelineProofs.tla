--------------------------- MODULE PipelineProofs ---------------------------
(***************************************************************************)
(* What TLAPS proves of Pipeline, for every set of jobs, snapshots and     *)
(* commands, any number of concurrent jobs and any number of faults.       *)
(*                                                                         *)
(* The inductive invariant says three things that no single action shows:  *)
(* what a job must be holding in memory when it reaches a step (HoldsAt),  *)
(* what the presence of one object of the lake says about the presence of  *)
(* the ones it was made from (Lineage), and which steps a run may be at    *)
(* once its evidence is stored (Recorded).                                 *)
(***************************************************************************)
EXTENDS Pipeline, TLAPS

\* What a job at step p must hold in its memory m.
HoldsAt(p, m) ==
    /\ p \in {"write_raw", "write_bronze"} => m.todo # {} /\ m.item \in Snapshots
    /\ p = "silver_wdi" => m.core["owid_co2"] \in Snapshots
    /\ p \in {"silver_write", "silver_energy", "silver_energy_write",
              "backtest_write", "backtest_write_summary",
              "score_write", "score_energy", "score_write_v2",
              "check_gold", "read_gold", "write_manifest", "barrier"}
          => m.core \in Panels
    /\ p \in {"silver_energy_write", "features_write", "score_write_v2"}
          => m.energy \in Snapshots
    /\ p = "check_raw" => \E s \in Sources : m.sources[s] = None
    /\ p \in {"check_silver", "check_gold", "read_gold", "write_manifest"}
          => m.sources \in [Sources -> Snapshots]
    /\ p \in {"check_raw", "check_silver", "check_gold", "read_gold"}
          => \E a \in Required : m.read[a] = None
    /\ p = "write_manifest" => m.read \in [Required -> Artifact]

\* The jobs half of the invariant: types, and HoldsAt for every job.
JobsOK ==
    /\ pc \in [Jobs -> Steps]
    /\ mem \in [Jobs -> Memory]
    /\ \A i \in Jobs : HoldsAt(pc[i], mem[i])

\* A job reads the gold artifacts only after it has seen all of them.
ReadsPresent == \A i \in Jobs : pc[i] = "read_gold" => GoldPresent

Control == TypeOK /\ JobsOK /\ ReadsPresent

-----------------------------------------------------------------------------
(* Operators.                                                              *)

\* First picks a member of any nonempty set of sources.
LEMMA FirstSource ==
    ASSUME NEW S \in SUBSET Sources, S # {}
    PROVE  First(S) \in S
<1>1. \E s \in S : \A t \in S : Rank(s) <= Rank(t)
  <2>1. CASE "owid_co2" \in S
    BY <2>1 DEF Sources, CoreSources, Rank
  <2>2. CASE "owid_co2" \notin S /\ "world_bank_wdi" \in S
    BY <2>2 DEF Sources, CoreSources, Rank
  <2>3. CASE "owid_co2" \notin S /\ "world_bank_wdi" \notin S
    BY <2>3 DEF Sources, CoreSources, Rank
  <2>4. QED
    BY <2>1, <2>2, <2>3
<1>2. QED
    BY <1>1 DEF First

\* First picks a member of any nonempty set of required artifacts.
LEMMA FirstArtifact ==
    ASSUME NEW S \in SUBSET Required, S # {}
    PROVE  First(S) \in S
<1>1. \E s \in S : \A t \in S : Rank(s) <= Rank(t)
  <2>1. CASE "backtest_summary" \in S
    BY <2>1 DEF Required, Rank
  <2>2. CASE "backtest_summary" \notin S /\ "country_transition_risk" \in S
    BY <2>2 DEF Required, Rank
  <2>3. CASE "backtest_summary" \notin S /\ "country_transition_risk" \notin S
    BY <2>3 DEF Required, Rank
  <2>4. QED
    BY <2>1, <2>2, <2>3
<1>2. QED
    BY <1>1 DEF First

\* A fresh memory is a memory.
LEMMA FreshIsMemory ==
    ASSUME NEW T \in SUBSET Sources
    PROVE  Fresh(T) \in Memory
    BY DEF Fresh, Memory

\* Loading an energy table disturbs nothing else that a job holds.
LEMMA SetEnergy ==
    ASSUME NEW m \in Memory, NEW e \in Snapshots
    PROVE  LET n == [m EXCEPT !.energy = e]
           IN  n \in Memory /\ n.energy = e /\ n.core = m.core
    BY DEF Memory

-----------------------------------------------------------------------------
(* What a step does to the job that takes it.                              *)

\* It is enough to look at the job that moves.
LEMMA OneJob ==
    ASSUME JobsOK, NEW j \in Jobs, NEW step \in Steps, NEW m \in Memory,
           HoldsAt(step, m),
           pc' = [pc EXCEPT ![j] = step],
           mem' = [mem EXCEPT ![j] = m]
    PROVE  JobsOK'
    BY DEF JobsOK

\* Stopping is always allowed.
LEMMA StopOK ==
    ASSUME JobsOK, NEW j \in Jobs, NEW how \in Stopped, Stop(j, how)
    PROVE  JobsOK'
<1>1. Fresh({}) \in Memory /\ how \in Steps
    BY FreshIsMemory DEF Steps
<1>2. HoldsAt(how, Fresh({}))
    BY DEF HoldsAt, Stopped
<1>3. QED
    BY <1>1, <1>2, OneJob DEF Stop, Goto

\* So is returning from a stage.
LEMMA StageDoneOK ==
    ASSUME JobsOK, NEW j \in Jobs, NEW stage \in DOMAIN Following,
           StageDone(j, stage)
    PROVE  JobsOK'
<1>1. CASE cmd[j] = "run"
  <2>1. Fresh({}) \in Memory /\ Following[stage] \in Steps
    BY FreshIsMemory DEF Steps, Following
  <2>2. Following[stage] \in {"silver_co2", "features", "backtest", "score",
                              "check_raw", "verify"}
    BY DEF Following
  <2>3. HoldsAt(Following[stage], Fresh({}))
    BY <2>2 DEF HoldsAt, Fresh, Sources, Required
  <2>4. QED
    BY <1>1, <2>1, <2>3, OneJob DEF StageDone, Goto
<1>2. CASE ~(cmd[j] = "run")
    BY <1>2, StopOK DEF StageDone, Stopped
<1>3. QED
    BY <1>1, <1>2

\* And going on to the next source of an ingestion.
LEMMA NextSourceOK ==
    ASSUME JobsOK, NEW j \in Jobs, NEW code \in {0, 1}, NextSource(j, code)
    PROVE  JobsOK'
<1> DEFINE m == [mem[j] EXCEPT !.todo = @ \ {First(mem[j].todo)},
                               !.item = None, !.exit_code = code]
<1>1. m \in Memory /\ "fetch" \in Steps
  <2>1. mem[j] \in Memory /\ "fetch" \in Steps
      BY DEF JobsOK, Steps
  <2>2. QED
      BY <2>1 DEF Memory
<1>2. HoldsAt("fetch", m)
    BY DEF HoldsAt
<1>3. pc' = [pc EXCEPT ![j] = "fetch"] /\ mem' = [mem EXCEPT ![j] = m]
    BY DEF NextSource, Goto, JobsOK
<1>4. QED
    BY <1>1, <1>2, <1>3, OneJob

-----------------------------------------------------------------------------
(* One step of one job preserves Control.                                  *)

\* A step that only moves the job leaves the rest of the invariant alone.
LEMMA LakeUntouched ==
    ASSUME Control, JobsOK', UNCHANGED lake, cmd' = cmd, faults' \in Nat,
           \A i \in Jobs : pc'[i] = "read_gold" => pc[i] = "read_gold"
    PROVE  Control'
    BY DEF Control, TypeOK, JobsOK, ReadsPresent, GoldPresent, lake

\* The fault counter stays a number.
LEMMA FaultType == ASSUME TypeOK, Fault PROVE faults' \in Nat
    BY DEF TypeOK, Fault

\* A started job holds what the first step of its command needs.
LEMMA StartControl ==
    ASSUME Control, NEW j \in Jobs, Start(j)
    PROVE  Control'
<1>1. PICK c \in Commands, selected \in SUBSET Sources :
        /\ pc[j] = "idle"
        /\ cmd' = [cmd EXCEPT ![j] = c]
        /\ pc' = [pc EXCEPT ![j] = Entry[c]]
        /\ mem' = [mem EXCEPT ![j] = Fresh(selected)]
        /\ UNCHANGED <<lake, faults>>
    BY DEF Start, Goto
<1>2. c \in AllCommands
    BY PipelineAssumption
<1>3. Fresh(selected) \in Memory /\ Entry[c] \in Steps
    BY <1>2, FreshIsMemory DEF AllCommands, Entry, Steps
<1>4. Entry[c] \in {"fetch", "silver_co2", "features", "backtest", "score",
                    "check_raw"}
    BY <1>2 DEF AllCommands, Entry
<1>5. HoldsAt(Entry[c], Fresh(selected))
    BY <1>4 DEF HoldsAt, Fresh, Sources, Required
<1>6. JobsOK'
    BY <1>1, <1>3, <1>5, OneJob DEF Control
<1>7. cmd' \in [Jobs -> AllCommands]
    BY <1>1, <1>2 DEF Control, TypeOK
<1>8. TypeOK'
    BY <1>1, <1>6, <1>7 DEF Control, TypeOK, JobsOK, lake
<1>9. \A i \in Jobs : pc'[i] = "read_gold" => pc[i] = "read_gold"
    BY <1>1, <1>4 DEF Control, TypeOK
<1>10. ReadsPresent'
    BY <1>1, <1>9 DEF Control, ReadsPresent, GoldPresent, lake
<1>11. QED
    BY <1>6, <1>8, <1>10 DEF Control

\* A crash leaves a job that holds nothing, as its step allows.
LEMMA CrashControl ==
    ASSUME Control, NEW j \in Jobs, Crash(j)
    PROVE  Control'
<1>1. JobsOK'
    BY StopOK DEF Control, Crash, Stopped
<1>2. \A i \in Jobs : pc'[i] = "read_gold" => pc[i] = "read_gold"
    BY DEF Control, TypeOK, Crash, Stop, Goto
<1>3. QED
    BY <1>1, <1>2, LakeUntouched, FaultType DEF Crash, Control

\* A fetched payload is in memory, and its source still to do.
LEMMA FetchControl ==
    ASSUME Control, NEW j \in Jobs, Fetch(j)
    PROVE  Control'
<1>1. PICK c \in Snapshots : mem' = [mem EXCEPT ![j].item = c]
    BY DEF Fetch
<1> DEFINE m == [mem[j] EXCEPT !.item = c]
<1>2. m \in Memory /\ "write_raw" \in Steps
  <2>1. mem[j] \in Memory /\ "write_raw" \in Steps
      BY DEF Control, JobsOK, Steps
  <2>2. QED
      BY <2>1 DEF Memory
<1>3. HoldsAt("write_raw", m)
    BY <1>2 DEF HoldsAt, Fetch, Control, JobsOK, Memory
<1>4. mem' = [mem EXCEPT ![j] = m]
    BY <1>1 DEF Control, JobsOK
<1>5. JobsOK'
    BY <1>2, <1>3, <1>4, OneJob DEF Control, Fetch, Goto
<1>6. faults' \in Nat
    BY FaultType DEF Fetch, Control, TypeOK
<1>7. \A i \in Jobs : pc'[i] = "read_gold" => pc[i] = "read_gold"
    BY DEF Control, TypeOK, Fetch, Goto
<1>8. QED
    BY <1>5, <1>6, <1>7, LakeUntouched DEF Fetch

\* Giving up one source leads back to the fetch step.
LEMMA SourceFailsControl ==
    ASSUME Control, NEW j \in Jobs, SourceFails(j)
    PROVE  Control'
<1>1. JobsOK'
    BY NextSourceOK DEF Control, SourceFails
<1>2. \A i \in Jobs : pc'[i] = "read_gold" => pc[i] = "read_gold"
    BY DEF Control, TypeOK, SourceFails, NextSource, Goto
<1>3. QED
    BY <1>1, <1>2, LakeUntouched, FaultType DEF SourceFails, Control

\* The raw manifest keeps its shape; an accepted payload is kept for bronze.
LEMMA WriteRawManifestControl ==
    ASSUME Control, NEW j \in Jobs, WriteRawManifest(j)
    PROVE  Control'
<1> DEFINE s == First(mem[j].todo)
           c == mem[j].item
<1>1. mem[j].todo \in SUBSET Sources /\ s \in Sources /\ c \in Snapshots
    BY FirstSource DEF Control, JobsOK, HoldsAt, WriteRawManifest, Memory
<1>2. raw' \in [Sources -> IngestManifest \cup {None}]
    BY <1>1 DEF Control, TypeOK, WriteRawManifest, NewestManifest, StatusOf,
                IngestManifest
<1>3. JobsOK'
  <2>1. CASE PromotedToBronze(c)
    <3>1. HoldsAt("write_bronze", mem[j])
        BY DEF HoldsAt, Control, JobsOK, WriteRawManifest
    <3>2. mem' = [mem EXCEPT ![j] = mem[j]]
        BY <2>1 DEF WriteRawManifest, Control, JobsOK
    <3>3. QED
        BY <2>1, <3>1, <3>2, OneJob
           DEF WriteRawManifest, Goto, Control, JobsOK, Steps
  <2>2. CASE ~PromotedToBronze(c)
      BY <2>2, NextSourceOK DEF WriteRawManifest, Control, JobsOK, Memory
  <2>3. QED
      BY <2>1, <2>2
<1>4. \A i \in Jobs : pc'[i] = "read_gold" => pc[i] = "read_gold"
    BY DEF Control, TypeOK, WriteRawManifest, NextSource, Goto
<1>5. QED
    BY <1>2, <1>3, <1>4
       DEF Control, TypeOK, JobsOK, ReadsPresent, GoldPresent, WriteRawManifest

\* Bronze keeps its shape, and the next source is taken.
LEMMA WriteBronzeControl ==
    ASSUME Control, NEW j \in Jobs, WriteBronze(j)
    PROVE  Control'
<1>1. First(mem[j].todo) \in Sources /\ mem[j].item \in Snapshots
    BY FirstSource DEF Control, JobsOK, HoldsAt, WriteBronze, Memory
<1>2. bronze' \in [Sources -> Snapshots \cup {None}]
    BY <1>1 DEF Control, TypeOK, WriteBronze
<1>3. JobsOK'
    BY NextSourceOK DEF WriteBronze, Control, JobsOK, Memory
<1>4. \A i \in Jobs : pc'[i] = "read_gold" => pc[i] = "read_gold"
    BY DEF Control, TypeOK, WriteBronze, NextSource, Goto
<1>5. QED
    BY <1>2, <1>3, <1>4
       DEF Control, TypeOK, JobsOK, ReadsPresent, GoldPresent, WriteBronze

\* Neither way out of a stage leads a job to reading the gold artifacts.
LEMMA NotReading ==
    ASSUME TypeOK, NEW j \in Jobs,
           \/ Exit(j)
           \/ \E stage \in DOMAIN Following : StageDone(j, stage)
    PROVE  \A i \in Jobs : pc'[i] = "read_gold" => pc[i] = "read_gold"
<1>1. CASE Exit(j)
    BY <1>1 DEF TypeOK, Exit, Stop, Goto
<1>2. CASE \E stage \in DOMAIN Following : StageDone(j, stage)
    BY <1>2 DEF TypeOK, StageDone, Stop, Goto, Following
<1>3. QED
    BY <1>1, <1>2

\* A step that only ends a stage, or the command.
LEMMA LeaveControl ==
    ASSUME Control, NEW j \in Jobs, UNCHANGED <<lake, cmd, faults>>,
           \/ Exit(j)
           \/ \E stage \in DOMAIN Following : StageDone(j, stage)
    PROVE  Control'
<1>1. JobsOK'
    BY StopOK, StageDoneOK DEF Control, Exit, Stopped
<1>2. faults' \in Nat /\ TypeOK
    BY DEF Control, TypeOK
<1>3. QED
    BY <1>1, <1>2, NotReading, LakeUntouched

\* A step that only takes the job to its next step, with what it then holds.
LEMMA MoveControl ==
    ASSUME Control, NEW j \in Jobs, UNCHANGED <<lake, cmd, faults>>,
           NEW step \in Steps, NEW m \in Memory, HoldsAt(step, m),
           step # "read_gold" \/ pc[j] = "read_gold",
           pc' = [pc EXCEPT ![j] = step],
           mem' = [mem EXCEPT ![j] = m]
    PROVE  Control'
<1>1. JobsOK'
    BY OneJob DEF Control
<1>2. \A i \in Jobs : pc'[i] = "read_gold" => pc[i] = "read_gold"
    BY DEF Control, TypeOK
<1>3. faults' \in Nat
    BY DEF Control, TypeOK
<1>4. QED
    BY <1>1, <1>2, <1>3, LakeUntouched

\* ingest returns with nothing in memory.
LEMMA EndIngestControl ==
    ASSUME Control, NEW j \in Jobs, EndIngest(j)
    PROVE  Control'
<1>1. "ingest" \in DOMAIN Following
    BY DEF Following
<1>2. QED
    BY <1>1, LeaveControl DEF EndIngest

\* A snapshot read from bronze is in memory for the next step.
LEMMA ReadBronzeControl ==
    ASSUME Control, NEW j \in Jobs, ReadBronzeCo2(j) \/ ReadBronzeWdi(j)
    PROVE  Control'
<1>1. CASE Exit(j)
    BY <1>1, LeaveControl DEF ReadBronzeCo2, ReadBronzeWdi, ReadBronze
<1>2. CASE ReadBronzeCo2(j) /\ ~Exit(j)
  <2> DEFINE m == [mem[j] EXCEPT !.core["owid_co2"] = bronze["owid_co2"]]
  <2>1. m \in Memory /\ HoldsAt("silver_wdi", m)
    <3>1. bronze["owid_co2"] \in Snapshots
        BY <1>2 DEF ReadBronzeCo2, ReadBronze, Control, TypeOK, Sources, CoreSources
    <3>2. mem[j] \in Memory
        BY DEF Control, JobsOK
    <3>3. m \in Memory /\ m.core["owid_co2"] \in Snapshots
        BY <3>1, <3>2 DEF Memory, CoreSources
    <3>4. QED
        BY <3>3 DEF HoldsAt
  <2>2. mem' = [mem EXCEPT ![j] = m] /\ pc' = [pc EXCEPT ![j] = "silver_wdi"]
      BY <1>2 DEF ReadBronzeCo2, ReadBronze, Goto, Control, JobsOK
  <2>3. QED
      BY <1>2, <2>1, <2>2, MoveControl DEF ReadBronzeCo2, ReadBronze, Steps
<1>3. CASE ReadBronzeWdi(j) /\ ~Exit(j)
  <2> DEFINE m == [mem[j] EXCEPT !.core["world_bank_wdi"] =
                                     bronze["world_bank_wdi"]]
  <2>1. bronze["world_bank_wdi"] \in Snapshots
      BY <1>3 DEF ReadBronzeWdi, ReadBronze, Control, TypeOK, Sources, CoreSources
  <2>2. m \in Memory
      BY <2>1 DEF Control, JobsOK, Memory, CoreSources
  <2>3. m.core \in Panels
      BY <1>3, <2>1, <2>2 DEF ReadBronzeWdi, ReadBronze, Control, JobsOK, Memory,
                              HoldsAt, CoreSources, Panels
  <2>4. HoldsAt("silver_write", m)
      BY <2>3 DEF HoldsAt
  <2>5. mem' = [mem EXCEPT ![j] = m] /\ pc' = [pc EXCEPT ![j] = "silver_write"]
      BY <1>3 DEF ReadBronzeWdi, ReadBronze, Goto, Control, JobsOK
  <2>6. QED
      BY <1>3, <2>2, <2>4, <2>5, MoveControl DEF ReadBronzeWdi, ReadBronze, Steps
<1>4. QED
    BY <1>1, <1>2, <1>3

\* The panel written is a complete one.
LEMMA WriteTransitionControl ==
    ASSUME Control, NEW j \in Jobs, WriteTransition(j)
    PROVE  Control'
<1>1. CASE Exit(j) /\ UNCHANGED silver
    BY <1>1, LeaveControl DEF WriteTransition, lake
<1>2. CASE ~(Exit(j) /\ UNCHANGED silver)
  <2>1. mem[j].core \in Panels
      BY DEF Control, JobsOK, HoldsAt, WriteTransition
  <2>2. silver' \in [transition: Panels \cup {None}, energy: Snapshots \cup {None}]
      BY <1>2, <2>1 DEF WriteTransition, Control, TypeOK
  <2>3. HoldsAt("silver_energy", mem[j]) /\ "silver_energy" \in Steps
      BY <2>1 DEF HoldsAt, Steps
  <2>4. mem' = [mem EXCEPT ![j] = mem[j]] /\ mem[j] \in Memory
      BY <1>2 DEF WriteTransition, Control, JobsOK
  <2>5. pc' = [pc EXCEPT ![j] = "silver_energy"]
      BY <1>2 DEF WriteTransition, Goto
  <2>6. JobsOK'
      BY <2>3, <2>4, <2>5, OneJob DEF Control
  <2>7. \A i \in Jobs : pc'[i] = "read_gold" => pc[i] = "read_gold"
      BY <2>5 DEF Control, TypeOK
  <2>8. QED
      BY <2>2, <2>6, <2>7 DEF WriteTransition, Control, TypeOK, JobsOK,
                              ReadsPresent, GoldPresent
<1>3. QED
    BY <1>1, <1>2

\* Skipping the energy table is a return; else a snapshot is in memory.
LEMMA ReadBronzeEnergyControl ==
    ASSUME Control, NEW j \in Jobs, ReadBronzeEnergy(j)
    PROVE  Control'
<1> DEFINE e == bronze["owid_energy"]
           m == [mem[j] EXCEPT !.energy = e]
<1>1. CASE e \in {None} \cup Fatal
    BY <1>1, LeaveControl DEF ReadBronzeEnergy, Following
<1>2. CASE e \notin {None} \cup Fatal
  <2>1. e \in Snapshots
      BY <1>2 DEF Control, TypeOK, Sources
  <2>2. m \in Memory /\ HoldsAt("silver_energy_write", m)
    <3>1. mem[j] \in Memory /\ HoldsAt(pc[j], mem[j])
        BY DEF Control, JobsOK
    <3>2. m \in Memory /\ m.energy \in Snapshots /\ m.core = mem[j].core
        BY <2>1, <3>1, SetEnergy
    <3>3. QED
        BY <3>1, <3>2 DEF HoldsAt, ReadBronzeEnergy
  <2>3. mem' = [mem EXCEPT ![j] = m] /\ pc' = [pc EXCEPT ![j] = "silver_energy_write"]
      BY <1>2 DEF ReadBronzeEnergy, Goto, Control, JobsOK
  <2>4. QED
      BY <2>2, <2>3, MoveControl DEF ReadBronzeEnergy, Steps
<1>3. QED
    BY <1>1, <1>2

\* The energy table written is a snapshot.
LEMMA WriteEnergyControl ==
    ASSUME Control, NEW j \in Jobs, WriteEnergy(j)
    PROVE  Control'
<1>1. mem[j].energy \in Snapshots
    BY DEF Control, JobsOK, HoldsAt, WriteEnergy
<1>2. silver' \in [transition: Panels \cup {None}, energy: Snapshots \cup {None}]
    BY <1>1 DEF WriteEnergy, Control, TypeOK
<1>3. JobsOK'
    BY StageDoneOK DEF WriteEnergy, Control, Following
<1>4. \A i \in Jobs : pc'[i] = "read_gold" => pc[i] = "read_gold"
    BY NotReading DEF WriteEnergy, Control, Following
<1>5. QED
    BY <1>2, <1>3, <1>4 DEF WriteEnergy, Control, TypeOK, JobsOK,
                            ReadsPresent, GoldPresent

\* Features are written only from a snapshot that was read.
LEMMA ComputeFeaturesControl ==
    ASSUME Control, NEW j \in Jobs, ComputeFeatures(j)
    PROVE  Control'
<1> DEFINE m == [mem[j] EXCEPT !.energy = silver.energy]
<1>1. CASE silver.energy \in {None} \cup Thin
    BY <1>1, LeaveControl DEF ComputeFeatures, Following
<1>2. CASE silver.energy \notin {None} \cup Thin
  <2>1. silver.energy \in Snapshots
      BY <1>2 DEF Control, TypeOK
  <2>2. m \in Memory /\ HoldsAt("features_write", m)
    <3>1. mem[j] \in Memory /\ HoldsAt(pc[j], mem[j])
        BY DEF Control, JobsOK
    <3>2. m \in Memory /\ m.energy \in Snapshots /\ m.core = mem[j].core
        BY <2>1, <3>1, SetEnergy
    <3>3. QED
        BY <3>1, <3>2 DEF HoldsAt
  <2>3. mem' = [mem EXCEPT ![j] = m] /\ pc' = [pc EXCEPT ![j] = "features_write"]
      BY <1>2 DEF ComputeFeatures, Goto, Control, JobsOK
  <2>4. QED
      BY <2>2, <2>3, MoveControl DEF ComputeFeatures, Steps
<1>3. QED
    BY <1>1, <1>2

\* Writing a gold artifact keeps the shape of gold and everything present.
LEMMA WriteGoldType ==
    ASSUME TypeOK, NEW j \in Jobs, NEW a \in Artifacts,
           NEW core \in Panels \cup {None}, NEW energy \in Snapshots \cup {None},
           WriteGold(j, a, core, energy)
    PROVE  /\ gold' \in [Artifacts -> Artifact \cup {None}]
           /\ \A b \in Artifacts : gold[b] # None => gold'[b] # None
<1>1. [by |-> j, core |-> core, energy |-> energy] \in Artifact
    BY DEF Artifact
<1>2. [by |-> j, core |-> core, energy |-> energy] # None
    BY <1>1, NoneAssumption
<1>3. QED
    BY <1>1, <1>2 DEF TypeOK, WriteGold

\* So a step that writes one and moves its job accordingly preserves Control.
LEMMA WriteGoldControl ==
    ASSUME Control, NEW j \in Jobs, NEW a \in Artifacts,
           NEW core \in Panels \cup {None}, NEW energy \in Snapshots \cup {None},
           WriteGold(j, a, core, energy), JobsOK',
           UNCHANGED <<raw, bronze, silver, manifests, pointer, cmd, faults>>,
           \A i \in Jobs : pc'[i] = "read_gold" => pc[i] = "read_gold"
    PROVE  Control'
<1>1. /\ gold' \in [Artifacts -> Artifact \cup {None}]
      /\ \A b \in Artifacts : gold[b] # None => gold'[b] # None
    BY WriteGoldType DEF Control
<1>2. Required \subseteq Artifacts
    BY DEF Required, Artifacts
<1>3. ReadsPresent'
    BY <1>1, <1>2 DEF Control, ReadsPresent, GoldPresent
<1>4. QED
    BY <1>1, <1>3 DEF Control, TypeOK, JobsOK

\* The features written form an artifact.
LEMMA WriteFeaturesControl ==
    ASSUME Control, NEW j \in Jobs, WriteFeatures(j)
    PROVE  Control'
<1>1. mem[j].energy \in Snapshots
    BY DEF Control, JobsOK, HoldsAt, WriteFeatures
<1>2. JobsOK' /\ \A i \in Jobs : pc'[i] = "read_gold" => pc[i] = "read_gold"
    BY StageDoneOK, NotReading DEF WriteFeatures, Control, Following
<1>3. QED
    BY <1>1, <1>2, WriteGoldControl DEF WriteFeatures, Artifacts

\* A panel is in memory when something is computed from it.
LEMMA ReadPanelControl ==
    ASSUME Control, NEW j \in Jobs, RunBacktest(j) \/ ComputeScores(j)
    PROVE  Control'
<1> DEFINE m == [mem[j] EXCEPT !.core = silver.transition]
<1>1. CASE Exit(j)
    BY <1>1, LeaveControl DEF RunBacktest, ComputeScores, ReadPanel
<1>2. CASE ~Exit(j)
  <2>1. silver.transition \in Panels
      BY <1>2 DEF RunBacktest, ComputeScores, ReadPanel, Control, TypeOK
  <2>2. m \in Memory
    <3>1. mem[j] \in Memory
        BY DEF Control, JobsOK
    <3>2. QED
        BY <2>1, <3>1 DEF Memory, Panels
  <2>3. HoldsAt("backtest_write", m) /\ HoldsAt("score_write", m)
      BY <2>1, <2>2 DEF HoldsAt, Memory
  <2>4. PICK step \in {"backtest_write", "score_write"} :
            pc' = [pc EXCEPT ![j] = step] /\ mem' = [mem EXCEPT ![j] = m]
      BY <1>2 DEF RunBacktest, ComputeScores, ReadPanel, Goto, Control, JobsOK
  <2>5. QED
      BY <2>2, <2>3, <2>4, MoveControl
         DEF RunBacktest, ComputeScores, ReadPanel, Steps
<1>3. QED
    BY <1>1, <1>2

\* The gold writes between which a job keeps its memory.
LEMMA WriteAndKeepControl ==
    ASSUME Control, NEW j \in Jobs, WriteBacktestDetail(j) \/ WriteScoreV1(j)
    PROVE  Control'
<1>1. mem[j] \in Memory /\ mem[j].core \in Panels
    BY DEF Control, JobsOK, HoldsAt, WriteBacktestDetail, WriteScoreV1
<1>2. PICK step \in {"backtest_write_summary", "score_energy"} :
        pc' = [pc EXCEPT ![j] = step] /\ mem' = [mem EXCEPT ![j] = mem[j]]
    BY DEF WriteBacktestDetail, WriteScoreV1, Goto, Control, JobsOK
<1>3. HoldsAt(step, mem[j]) /\ step \in Steps
    BY <1>1 DEF HoldsAt, Steps
<1>4. JobsOK'
    BY <1>1, <1>2, <1>3, OneJob DEF Control
<1>5. \A i \in Jobs : pc'[i] = "read_gold" => pc[i] = "read_gold"
    BY <1>2 DEF Control, TypeOK
<1>6. QED
    BY <1>1, <1>4, <1>5, WriteGoldControl
       DEF WriteBacktestDetail, WriteScoreV1, Artifacts

\* The summary written forms an artifact.
LEMMA WriteBacktestSummaryControl ==
    ASSUME Control, NEW j \in Jobs, WriteBacktestSummary(j)
    PROVE  Control'
<1>1. mem[j].core \in Panels
    BY DEF Control, JobsOK, HoldsAt, WriteBacktestSummary
<1>2. JobsOK' /\ \A i \in Jobs : pc'[i] = "read_gold" => pc[i] = "read_gold"
    BY StageDoneOK, NotReading DEF WriteBacktestSummary, Control, Following
<1>3. QED
    BY <1>1, <1>2, WriteGoldControl DEF WriteBacktestSummary, Artifacts

\* v2 is written only from a panel and a snapshot that were read.
LEMMA ReadEnergyForV2Control ==
    ASSUME Control, NEW j \in Jobs, ReadEnergyForV2(j)
    PROVE  Control'
<1> DEFINE m == [mem[j] EXCEPT !.energy = silver.energy]
<1>1. CASE silver.energy \in {None} \cup Thin
    BY <1>1, LeaveControl DEF ReadEnergyForV2, Following
<1>2. CASE silver.energy \notin {None} \cup Thin
  <2>1. silver.energy \in Snapshots
      BY <1>2 DEF Control, TypeOK
  <2>2. m \in Memory /\ HoldsAt("score_write_v2", m)
    <3>1. mem[j] \in Memory /\ HoldsAt(pc[j], mem[j])
        BY DEF Control, JobsOK
    <3>2. m \in Memory /\ m.energy \in Snapshots /\ m.core = mem[j].core
        BY <2>1, <3>1, SetEnergy
    <3>3. QED
        BY <3>1, <3>2 DEF HoldsAt, ReadEnergyForV2
  <2>3. mem' = [mem EXCEPT ![j] = m] /\ pc' = [pc EXCEPT ![j] = "score_write_v2"]
      BY <1>2 DEF ReadEnergyForV2, Goto, Control, JobsOK
  <2>4. QED
      BY <2>2, <2>3, MoveControl DEF ReadEnergyForV2, Steps
<1>3. QED
    BY <1>1, <1>2

\* The v2 score written forms an artifact.
LEMMA WriteScoreV2Control ==
    ASSUME Control, NEW j \in Jobs, WriteScoreV2(j)
    PROVE  Control'
<1>1. mem[j].core \in Panels /\ mem[j].energy \in Snapshots
    BY DEF Control, JobsOK, HoldsAt, WriteScoreV2
<1>2. JobsOK' /\ \A i \in Jobs : pc'[i] = "read_gold" => pc[i] = "read_gold"
    BY StageDoneOK, NotReading DEF WriteScoreV2, Control, Following
<1>3. QED
    BY <1>1, <1>2, WriteGoldControl DEF WriteScoreV2, Artifacts

\* The raw check goes on while a source is unchecked, and then all are in memory.
LEMMA CheckRawControl ==
    ASSUME Control, NEW j \in Jobs, CheckRaw(j)
    PROVE  Control'
<1> DEFINE s == First({t \in Sources : mem[j].sources[t] = None})
           m == [mem[j] EXCEPT !.sources[s] = raw[s].snap]
           left == ~ \A t \in Sources \ {s} : mem[j].sources[t] # None
<1>1. mem[j] \in Memory /\ HoldsAt("check_raw", mem[j])
    BY DEF Control, JobsOK, CheckRaw
<1>2. s \in Sources
  <2>1. {t \in Sources : mem[j].sources[t] = None} # {}
      BY <1>1 DEF HoldsAt
  <2>2. QED
      BY <2>1, FirstSource
<1>3. CASE Exit(j)
    BY <1>3, LeaveControl DEF CheckRaw
<1>4. CASE ~Exit(j)
  <2>1. raw[s].snap \in Snapshots
      BY <1>2, <1>4 DEF CheckRaw, Control, TypeOK, IngestManifest
  <2>2. m \in Memory
      BY <1>1, <2>1 DEF Memory
  <2>3. \A t \in Sources : m.sources[t] = IF t = s THEN raw[s].snap
                                                   ELSE mem[j].sources[t]
      BY <1>1, <1>2 DEF Memory
  <2>4. /\ mem' = [mem EXCEPT ![j] = m]
        /\ \E a \in Required : m.read[a] = None
      BY <1>1, <1>4 DEF CheckRaw, Control, JobsOK, HoldsAt, Memory
  <2>5. CASE left
    <3>1. HoldsAt("check_raw", m) /\ "check_raw" \in Steps
        BY <2>3, <2>4, <2>5 DEF HoldsAt, Steps
    <3>2. pc' = [pc EXCEPT ![j] = "check_raw"]
        BY <1>4, <2>5 DEF CheckRaw, Goto
    <3>3. QED
        BY <2>2, <2>4, <3>1, <3>2, MoveControl DEF CheckRaw
  <2>6. CASE ~left
    <3>1. \A t \in Sources : m.sources[t] \in Snapshots
        BY <1>1, <2>1, <2>3, <2>6 DEF Memory
    <3>2. m.sources \in [Sources -> Snapshots]
        BY <2>2, <3>1 DEF Memory
    <3>3. HoldsAt("check_silver", m) /\ "check_silver" \in Steps
        BY <2>4, <3>2 DEF HoldsAt, Steps
    <3>4. pc' = [pc EXCEPT ![j] = "check_silver"]
        BY <1>4, <2>6 DEF CheckRaw, Goto
    <3>5. QED
        BY <2>2, <2>4, <3>3, <3>4, MoveControl DEF CheckRaw
  <2>7. QED
      BY <2>5, <2>6
<1>5. QED
    BY <1>3, <1>4

\* The panel that publish found is in memory from here on.
LEMMA CheckSilverControl ==
    ASSUME Control, NEW j \in Jobs, CheckSilver(j)
    PROVE  Control'
<1> DEFINE m == [mem[j] EXCEPT !.core = silver.transition]
<1>1. CASE Exit(j)
    BY <1>1, LeaveControl DEF CheckSilver
<1>2. CASE ~Exit(j)
  <2>1. /\ mem[j] \in Memory
        /\ mem[j].sources \in [Sources -> Snapshots]
        /\ \E a \in Required : mem[j].read[a] = None
      BY DEF Control, JobsOK, HoldsAt, CheckSilver
  <2>2. silver.transition \in Panels
      BY <1>2 DEF CheckSilver, Control, TypeOK
  <2>3. /\ m \in Memory /\ m.core \in Panels
        /\ m.sources = mem[j].sources /\ m.read = mem[j].read
      BY <2>1, <2>2 DEF Memory, Panels
  <2>4. HoldsAt("check_gold", m) /\ "check_gold" \in Steps
      BY <2>1, <2>3 DEF HoldsAt, Steps
  <2>5. mem' = [mem EXCEPT ![j] = m] /\ pc' = [pc EXCEPT ![j] = "check_gold"]
      BY <1>2 DEF CheckSilver, Goto, Control, JobsOK
  <2>6. QED
      BY <2>3, <2>4, <2>5, MoveControl DEF CheckSilver
<1>3. QED
    BY <1>1, <1>2

\* Past the gold check every required artifact exists.
LEMMA CheckGoldControl ==
    ASSUME Control, NEW j \in Jobs, CheckGold(j)
    PROVE  Control'
<1>1. CASE Exit(j)
    BY <1>1, LeaveControl DEF CheckGold
<1>2. CASE ~Exit(j)
  <2>1. /\ mem[j] \in Memory
        /\ mem[j].sources \in [Sources -> Snapshots]
        /\ mem[j].core \in Panels
      BY DEF Control, JobsOK, HoldsAt, CheckGold
  <2>2. GoldPresent /\ pc' = [pc EXCEPT ![j] = "read_gold"] /\ UNCHANGED mem
      BY <1>2 DEF CheckGold, Goto
  <2>3. HoldsAt("read_gold", mem[j]) /\ "read_gold" \in Steps
    <3>1. \E a \in Required : mem[j].read[a] = None
        BY DEF Control, JobsOK, HoldsAt, CheckGold
    <3>2. QED
        BY <2>1, <3>1 DEF HoldsAt, Steps
  <2>4. mem' = [mem EXCEPT ![j] = mem[j]]
      BY <2>2 DEF Control, JobsOK
  <2>5. JobsOK'
      BY <2>1, <2>2, <2>3, <2>4, OneJob DEF Control
  <2>6. GoldPresent'
      BY <2>2 DEF GoldPresent, CheckGold, lake
  <2>7. QED
      BY <2>5, <2>6 DEF CheckGold, lake, Control, TypeOK, JobsOK, ReadsPresent
<1>3. QED
    BY <1>1, <1>2

\* When the run succeeds, all three artifacts are in memory.
LEMMA ReadGoldControl ==
    ASSUME Control, NEW j \in Jobs, ReadGold(j)
    PROVE  Control'
<1> DEFINE a == First({b \in Required : mem[j].read[b] = None})
           last == \A b \in Required \ {a} : mem[j].read[b] # None
           m == [mem[j] EXCEPT !.read[a] = gold[a]]
           n == [mem[j] EXCEPT !.read[a] = gold[a], !.status = "SUCCEEDED"]
<1>1. mem[j] \in Memory /\ HoldsAt("read_gold", mem[j]) /\ GoldPresent
    BY DEF Control, JobsOK, ReadsPresent, ReadGold
<1>2. a \in Required
  <2>1. {b \in Required : mem[j].read[b] = None} # {}
      BY <1>1 DEF HoldsAt
  <2>2. QED
      BY <2>1, FirstArtifact
<1>3. gold[a] \in Artifact
    BY <1>1, <1>2 DEF GoldPresent, Control, TypeOK, Required, Artifacts
<1>4. m \in Memory /\ n \in Memory
    BY <1>1, <1>3 DEF Memory
<1>5. \A b \in Required : /\ m.read[b] = IF b = a THEN gold[a] ELSE mem[j].read[b]
                          /\ n.read[b] = IF b = a THEN gold[a] ELSE mem[j].read[b]
    BY <1>1, <1>2 DEF Memory
<1>6. CASE last
  <2>1. \A b \in Required : n.read[b] \in Artifact
      BY <1>1, <1>3, <1>5, <1>6 DEF Memory
  <2>2. n.read \in [Required -> Artifact]
      BY <1>4, <2>1 DEF Memory
  <2>3. n.core \in Panels /\ n.sources \in [Sources -> Snapshots]
      BY <1>1 DEF HoldsAt, Memory
  <2>4. HoldsAt("write_manifest", n) /\ "write_manifest" \in Steps
      BY <2>2, <2>3 DEF HoldsAt, Steps
  <2>5. mem' = [mem EXCEPT ![j] = n] /\ pc' = [pc EXCEPT ![j] = "write_manifest"]
      BY <1>6 DEF ReadGold, Goto, Control, JobsOK
  <2>6. QED
      BY <1>4, <2>4, <2>5, MoveControl DEF ReadGold
<1>7. CASE ~last
  <2>1. m.core \in Panels /\ m.sources \in [Sources -> Snapshots]
      BY <1>1 DEF HoldsAt, Memory
  <2>2. HoldsAt("read_gold", m) /\ "read_gold" \in Steps
      BY <1>5, <1>7, <2>1 DEF HoldsAt, Steps
  <2>3. mem' = [mem EXCEPT ![j] = m] /\ pc' = [pc EXCEPT ![j] = "read_gold"]
      BY <1>7 DEF ReadGold, Control, JobsOK
  <2>4. QED
      BY <1>4, <2>2, <2>3, MoveControl DEF ReadGold
<1>8. QED
    BY <1>6, <1>7

\* The manifest written has all its parts.
LEMMA WriteManifestControl ==
    ASSUME Control, NEW j \in Jobs, WriteManifest(j)
    PROVE  Control'
<1>1. mem[j] \in Memory /\ HoldsAt("write_manifest", mem[j])
    BY DEF Control, JobsOK, WriteManifest
<1>2. manifests' \in [Jobs -> RunManifest \cup {None}]
    BY <1>1 DEF HoldsAt, WriteManifest, RunManifest, Control, TypeOK
<1>3. pc' = [pc EXCEPT ![j] = "barrier"] /\ mem' = [mem EXCEPT ![j] = mem[j]]
    BY DEF WriteManifest, Goto, Control, JobsOK
<1>4. HoldsAt("barrier", mem[j]) /\ "barrier" \in Steps
    BY <1>1 DEF HoldsAt, Steps
<1>5. JobsOK'
    BY <1>1, <1>3, <1>4, OneJob DEF Control
<1>6. \A i \in Jobs : pc'[i] = "read_gold" => pc[i] = "read_gold"
    BY <1>3 DEF Control, TypeOK
<1>7. QED
    BY <1>2, <1>5, <1>6 DEF WriteManifest, Control, TypeOK, JobsOK,
                            ReadsPresent, GoldPresent

\* The pointer only ever names a job.
LEMMA BarrierControl ==
    ASSUME Control, NEW j \in Jobs, Barrier(j)
    PROVE  Control'
<1>1. JobsOK'
    BY StopOK, StageDoneOK DEF Barrier, Exit, Stopped, Control, Following
<1>2. \A i \in Jobs : pc'[i] = "read_gold" => pc[i] = "read_gold"
    BY NotReading DEF Barrier, Control, Following
<1>3. pointer' \in Jobs \cup {None}
    BY DEF Barrier, Control, TypeOK
<1>4. QED
    BY <1>1, <1>2, <1>3 DEF Barrier, Control, TypeOK, JobsOK,
                            ReadsPresent, GoldPresent

\* The durable check changes no object.
LEMMA VerifyControl ==
    ASSUME Control, NEW j \in Jobs, Verify(j)
    PROVE  Control'
<1>1. JobsOK'
    BY StopOK DEF Verify, Exit, Stopped, Control
<1>2. \A i \in Jobs : pc'[i] = "read_gold" => pc[i] = "read_gold"
    BY DEF Verify, Exit, Stop, Goto, Control, TypeOK
<1>3. faults' \in Nat
    BY DEF Verify, Control, TypeOK
<1>4. QED
    BY <1>1, <1>2, <1>3, LakeUntouched DEF Verify

-----------------------------------------------------------------------------
(* Type correctness.                                                       *)

\* Initially every part holds.
LEMMA InitControl == Init => Control
<1> SUFFICES ASSUME Init PROVE Control
    OBVIOUS
<1>1. JobsOK
  <2>1. pc \in [Jobs -> Steps] /\ mem \in [Jobs -> Memory]
      BY FreshIsMemory DEF Init, Steps
  <2>2. \A i \in Jobs : HoldsAt(pc[i], mem[i])
      BY DEF Init, HoldsAt
  <2>3. QED
      BY <2>1, <2>2 DEF JobsOK
<1>2. TypeOK
    BY <1>1 DEF Init, TypeOK, JobsOK, AllCommands
<1>3. ReadsPresent
    BY DEF Init, ReadsPresent
<1>4. QED
    BY <1>1, <1>2, <1>3 DEF Control

\* Every step preserves all of it.
LEMMA NextControl == Control /\ [Next]_vars => Control'
<1> SUFFICES ASSUME Control, [Next]_vars PROVE Control'
    OBVIOUS
<1>1. ASSUME NEW j \in Jobs, Start(j) PROVE Control'
    BY <1>1, StartControl
<1>2. ASSUME NEW j \in Jobs, Crash(j) PROVE Control'
    BY <1>2, CrashControl
<1>3. ASSUME NEW j \in Jobs, Ingest(j) PROVE Control'
    BY <1>3, FetchControl, SourceFailsControl, WriteRawManifestControl,
       WriteBronzeControl, EndIngestControl DEF Ingest
<1>4. ASSUME NEW j \in Jobs, BuildSilver(j) PROVE Control'
    BY <1>4, ReadBronzeControl, WriteTransitionControl, ReadBronzeEnergyControl,
       WriteEnergyControl DEF BuildSilver
<1>5. ASSUME NEW j \in Jobs, EnergyFeatures(j) PROVE Control'
    BY <1>5, ComputeFeaturesControl, WriteFeaturesControl DEF EnergyFeatures
<1>6. ASSUME NEW j \in Jobs, Backtest(j) PROVE Control'
    BY <1>6, ReadPanelControl, WriteAndKeepControl, WriteBacktestSummaryControl
       DEF Backtest
<1>7. ASSUME NEW j \in Jobs, Score(j) PROVE Control'
    BY <1>7, ReadPanelControl, WriteAndKeepControl, ReadEnergyForV2Control,
       WriteScoreV2Control DEF Score
<1>8. ASSUME NEW j \in Jobs, Publish(j) PROVE Control'
    BY <1>8, CheckRawControl, CheckSilverControl, CheckGoldControl,
       ReadGoldControl, WriteManifestControl, BarrierControl DEF Publish
<1>9. ASSUME NEW j \in Jobs, Verify(j) PROVE Control'
    BY <1>9, VerifyControl
<1>10. CASE UNCHANGED vars
    BY <1>10 DEF vars, Control, TypeOK, JobsOK, ReadsPresent, GoldPresent
<1>11. QED
    BY <1>1, <1>2, <1>3, <1>4, <1>5, <1>6, <1>7, <1>8, <1>9, <1>10
       DEF Next, JobStep, Finished

\* Whatever the jobs, the payloads and the faults, every object of the lake
\* and every job's memory keeps its shape; in particular a stored release
\* manifest always names three snapshots and describes artifacts that exist.
THEOREM TypeCorrect == Spec => []TypeOK
<1>1. Control => TypeOK
    BY DEF Control
<1>2. QED
    BY InitControl, NextControl, <1>1, PTL DEF Spec

-----------------------------------------------------------------------------
(* Releases.                                                               *)

\* An object of the lake is there only if what it was made from is there.
Lineage ==
    /\ \A s \in Sources : bronze[s] # None => raw[s] # None
    /\ silver.transition # None => bronze["owid_co2"] # None
    /\ gold["backtest_summary"] # None => silver.transition # None
    /\ gold["country_transition_risk_v2"] # None => silver.energy # None
    /\ pointer # None => GoldPresent /\ manifests[pointer] # None

\* What a job at step p with memory m has already found in the lake.
Seen(p, m) ==
    /\ p = "write_bronze" => raw[First(m.todo)] # None
    /\ p \in {"silver_wdi", "silver_write"} => bronze["owid_co2"] # None
    /\ p \in {"backtest_write", "backtest_write_summary"}
          => silver.transition # None
    /\ p = "score_write_v2" => silver.energy # None

SeenOK == \A i \in Jobs : Seen(pc[i], mem[i])

SeenSteps == {"write_bronze", "silver_wdi", "silver_write", "backtest_write",
              "backtest_write_summary", "score_write_v2"}

Lasting == Control /\ Lineage /\ SeenOK

\* Nothing that is in the lake ever goes away.
Grows ==
    /\ \A s \in Sources : raw[s] # None => raw'[s] # None
    /\ \A s \in Sources : bronze[s] # None => bronze'[s] # None
    /\ silver.transition # None => silver.transition' # None
    /\ silver.energy # None => silver.energy' # None
    /\ \A a \in Artifacts : gold[a] # None => gold'[a] # None
    /\ \A i \in Jobs : manifests[i] # None => manifests'[i] # None

-----------------------------------------------------------------------------
(* Durability.                                                             *)

\* First(todo) of a job about to write bronze is a source.
LEMMA ItemSource ==
    ASSUME Control, NEW i \in Jobs, pc[i] \in {"write_raw", "write_bronze"}
    PROVE  First(mem[i].todo) \in Sources /\ mem[i].item \in Snapshots
    BY FirstSource DEF Control, JobsOK, HoldsAt, Memory

\* The absent object is neither a panel nor a snapshot.
LEMMA NoneIsNoData ==
    /\ None \notin Snapshots
    /\ None \notin Panels
    /\ None \notin Artifact
    /\ None \notin IngestManifest
    /\ None \notin RunManifest
    /\ None \notin Jobs
    BY NoneAssumption

\* No action removes an object.
LEMMA StepGrows ==
    ASSUME Control, [Next]_vars
    PROVE  Grows
<1>1. CASE UNCHANGED lake
    BY <1>1 DEF lake, Grows
<1>2. ASSUME NEW j \in Jobs, WriteRawManifest(j) PROVE Grows
  <2>1. [snap |-> mem[j].item, status |-> StatusOf(mem[j].item)] \in IngestManifest
      BY <1>2, ItemSource DEF WriteRawManifest, IngestManifest, StatusOf
  <2>2. QED
      BY <1>2, <2>1, NoneIsNoData, ItemSource
         DEF WriteRawManifest, NewestManifest, Grows, Control, TypeOK
<1>3. ASSUME NEW j \in Jobs, WriteBronze(j) PROVE Grows
    BY <1>3, NoneIsNoData, ItemSource DEF WriteBronze, Grows, Control, TypeOK
<1>4. ASSUME NEW j \in Jobs, WriteTransition(j) PROVE Grows
    BY <1>4, NoneIsNoData
       DEF WriteTransition, Grows, Control, TypeOK, JobsOK, HoldsAt
<1>5. ASSUME NEW j \in Jobs, WriteEnergy(j) PROVE Grows
    BY <1>5, NoneIsNoData
       DEF WriteEnergy, Grows, Control, TypeOK, JobsOK, HoldsAt
<1>6. ASSUME NEW j \in Jobs, NEW a \in Artifacts,
             NEW core \in Panels \cup {None}, NEW energy \in Snapshots \cup {None},
             WriteGold(j, a, core, energy),
             UNCHANGED <<raw, bronze, silver, manifests, pointer>>
      PROVE  Grows
    BY <1>6, WriteGoldType DEF Grows, Control
<1>7. ASSUME NEW j \in Jobs, WriteFeatures(j) PROVE Grows
    BY <1>6, <1>7 DEF WriteFeatures, Control, JobsOK, HoldsAt, Artifacts
<1>8. ASSUME NEW j \in Jobs, WriteBacktestDetail(j) \/ WriteBacktestSummary(j)
      PROVE  Grows
    BY <1>6, <1>8 DEF WriteBacktestDetail, WriteBacktestSummary, Control, JobsOK,
                      HoldsAt, Artifacts
<1>9. ASSUME NEW j \in Jobs, WriteScoreV1(j) \/ WriteScoreV2(j) PROVE Grows
    BY <1>6, <1>9 DEF WriteScoreV1, WriteScoreV2, Control, JobsOK, HoldsAt,
                      Artifacts
<1>10. ASSUME NEW j \in Jobs, WriteManifest(j) PROVE Grows
  <2>1. [sources |-> mem[j].sources, core |-> mem[j].core,
         read |-> mem[j].read] \in RunManifest
      BY <1>10 DEF WriteManifest, RunManifest, Control, JobsOK, HoldsAt
  <2>2. QED
      BY <1>10, <2>1, NoneIsNoData DEF WriteManifest, Grows, Control, TypeOK
<1>11. ASSUME NEW j \in Jobs, Barrier(j) PROVE Grows
    BY <1>11 DEF Barrier, Grows
<1>12. CASE UNCHANGED vars
    BY <1>1, <1>12 DEF vars, lake
<1>13. QED
    BY <1>1, <1>2, <1>3, <1>4, <1>5, <1>7, <1>8, <1>9, <1>10, <1>11, <1>12
       DEF Next, JobStep, Ingest, BuildSilver, EnergyFeatures, Backtest, Score,
           Publish, Start, Crash, Fetch, SourceFails, EndIngest, ReadBronzeCo2,
           ReadBronzeWdi, ReadBronze, ReadBronzeEnergy, ComputeFeatures,
           RunBacktest, ComputeScores, ReadPanel, ReadEnergyForV2, CheckRaw,
           CheckSilver, CheckGold, ReadGold, Verify, Finished

\* A step of one job leaves the position and the memory of the others alone.
LEMMA OnlyOneMoves ==
    ASSUME Control, NEW j \in Jobs, Start(j) \/ Crash(j) \/ JobStep(j)
    PROVE  \A i \in Jobs : i # j => pc'[i] = pc[i] /\ mem'[i] = mem[i]
<1> USE DEF Control, JobsOK, Goto, Stop, StageDone, Exit
<1>1. CASE Start(j) \/ Crash(j)
    BY <1>1 DEF Start, Crash
<1>2. CASE Ingest(j)
    BY <1>2 DEF Ingest, Fetch, SourceFails, WriteRawManifest, WriteBronze,
                EndIngest, NextSource
<1>3. CASE BuildSilver(j) \/ EnergyFeatures(j)
    BY <1>3 DEF BuildSilver, ReadBronzeCo2, ReadBronzeWdi, ReadBronze,
                WriteTransition, ReadBronzeEnergy, WriteEnergy, EnergyFeatures,
                ComputeFeatures, WriteFeatures
<1>4. CASE Backtest(j) \/ Score(j)
    BY <1>4 DEF Backtest, Score, RunBacktest, ComputeScores, ReadPanel,
                WriteBacktestDetail, WriteBacktestSummary, WriteScoreV1,
                ReadEnergyForV2, WriteScoreV2
<1>5. CASE Publish(j) \/ Verify(j)
    BY <1>5 DEF Publish, CheckRaw, CheckSilver, CheckGold, ReadGold,
                WriteManifest, Barrier, Verify
<1>6. QED
    BY <1>1, <1>2, <1>3, <1>4, <1>5 DEF JobStep

\* Where a job gets to in one step, among SeenSteps, and by which action.
LEMMA EntersSeenSteps ==
    ASSUME Control, NEW j \in Jobs, Start(j) \/ Crash(j) \/ JobStep(j),
           pc'[j] \in SeenSteps
    PROVE  \/ WriteRawManifest(j) /\ pc'[j] = "write_bronze" /\ mem' = mem
           \/ ReadBronzeCo2(j) /\ pc'[j] = "silver_wdi"
           \/ ReadBronzeWdi(j) /\ pc'[j] = "silver_write"
           \/ RunBacktest(j) /\ pc'[j] = "backtest_write"
           \/ WriteBacktestDetail(j) /\ pc'[j] = "backtest_write_summary"
           \/ ReadEnergyForV2(j) /\ pc'[j] = "score_write_v2"
<1> USE DEF Control, JobsOK, Goto, Stop, StageDone, Exit, SeenSteps, Following,
            Stopped
<1>1. CASE Start(j) \/ Crash(j)
    BY <1>1, PipelineAssumption DEF Start, Crash, Entry, AllCommands
<1>2. CASE Ingest(j)
    BY <1>2 DEF Ingest, Fetch, SourceFails, WriteRawManifest, WriteBronze,
                EndIngest, NextSource
<1>3. CASE BuildSilver(j) \/ EnergyFeatures(j)
    BY <1>3 DEF BuildSilver, ReadBronzeCo2, ReadBronzeWdi, ReadBronze,
                WriteTransition, ReadBronzeEnergy, WriteEnergy, EnergyFeatures,
                ComputeFeatures, WriteFeatures
<1>4. CASE Backtest(j) \/ Score(j)
    BY <1>4 DEF Backtest, Score, RunBacktest, ComputeScores, ReadPanel,
                WriteBacktestDetail, WriteBacktestSummary, WriteScoreV1,
                ReadEnergyForV2, WriteScoreV2
<1>5. CASE Publish(j) \/ Verify(j)
    BY <1>5 DEF Publish, CheckRaw, CheckSilver, CheckGold, ReadGold,
                WriteManifest, Barrier, Verify
<1>6. QED
    BY <1>1, <1>2, <1>3, <1>4, <1>5 DEF JobStep

\* What a job has found stays found.
LEMMA SeenStays ==
    ASSUME Lasting, Grows, NEW i \in Jobs, pc'[i] = pc[i], mem'[i] = mem[i]
    PROVE  Seen(pc[i], mem[i])'
<1>1. Seen(pc[i], mem[i])
    BY DEF Lasting, SeenOK
<1>2. pc[i] = "write_bronze" => First(mem[i].todo) \in Sources
    BY ItemSource DEF Lasting
<1>3. QED
    BY <1>1, <1>2 DEF Seen, Grows, Sources, CoreSources

\* Every step preserves what the running jobs have seen.
LEMMA StepSeen ==
    ASSUME Lasting, Grows, NEW j \in Jobs, Start(j) \/ Crash(j) \/ JobStep(j)
    PROVE  SeenOK'
<1>1. pc'[j] \notin SeenSteps => Seen(pc[j], mem[j])'
    BY DEF Seen, SeenSteps
<1>2. ASSUME WriteRawManifest(j), pc'[j] = "write_bronze", mem' = mem
      PROVE  raw'[First(mem'[j].todo)] # None
  <2>1. [snap |-> mem[j].item, status |-> StatusOf(mem[j].item)] \in IngestManifest
      BY <1>2, ItemSource DEF WriteRawManifest, IngestManifest, StatusOf, Lasting
  <2>2. QED
      BY <1>2, <2>1, NoneIsNoData, ItemSource
         DEF WriteRawManifest, NewestManifest, Lasting, Control, TypeOK
<1>3. ASSUME ReadBronzeCo2(j), pc'[j] = "silver_wdi"
      PROVE  bronze'["owid_co2"] # None
    BY <1>3 DEF ReadBronzeCo2, ReadBronze, Exit, Stop, Goto, lake, Stopped,
                Lasting, Control, JobsOK
<1>4. ASSUME ReadBronzeWdi(j) PROVE bronze'["owid_co2"] # None
    BY <1>4 DEF ReadBronzeWdi, ReadBronze, Lasting, SeenOK, Seen, lake
<1>5. ASSUME RunBacktest(j), pc'[j] = "backtest_write"
      PROVE  silver'.transition # None
    BY <1>5 DEF RunBacktest, ReadPanel, Exit, Stop, Goto, lake, Lasting, Control,
                JobsOK
<1>6. ASSUME WriteBacktestDetail(j) PROVE silver'.transition # None
    BY <1>6 DEF WriteBacktestDetail, Lasting, SeenOK, Seen
<1>7. ASSUME ReadEnergyForV2(j), pc'[j] = "score_write_v2"
      PROVE  silver'.energy # None
    BY <1>7 DEF ReadEnergyForV2, StageDone, Stop, Goto, Following, lake, Lasting,
                Control, JobsOK
<1>8. Seen(pc[j], mem[j])'
    BY EntersSeenSteps, <1>1, <1>2, <1>3, <1>4, <1>5, <1>6, <1>7
       DEF Seen, SeenSteps, Lasting
<1>9. ASSUME NEW i \in Jobs, i # j PROVE Seen(pc[i], mem[i])'
    BY <1>9, OnlyOneMoves, SeenStays DEF Lasting
<1>10. QED
    BY <1>8, <1>9 DEF SeenOK

\* Each object appears after what it was made from.
LEMMA StepLineage ==
    ASSUME Lasting, Grows, NEW j \in Jobs, Start(j) \/ Crash(j) \/ JobStep(j)
    PROVE  Lineage'
<1> USE DEF Lasting
<1>1. CASE UNCHANGED lake
    BY <1>1 DEF Lineage, GoldPresent, lake
<1>2. CASE WriteRawManifest(j)
    BY <1>2 DEF WriteRawManifest, Lineage, Grows, GoldPresent
<1>3. CASE WriteBronze(j)
  <2>1. raw[First(mem[j].todo)] # None
      BY <1>3 DEF WriteBronze, SeenOK, Seen
  <2>2. \A s \in Sources : bronze'[s] # None => raw'[s] # None
      BY <1>3, <2>1 DEF WriteBronze, Lineage, Control, TypeOK
  <2>3. QED
      BY <1>3, <2>2 DEF WriteBronze, Lineage, Grows, GoldPresent, Sources,
                        CoreSources
<1>4. CASE WriteTransition(j)
  <2>1. bronze["owid_co2"] # None
      BY <1>4 DEF WriteTransition, SeenOK, Seen
  <2>2. silver'.energy = silver.energy
      BY <1>4 DEF WriteTransition, Control, TypeOK
  <2>3. QED
      BY <1>4, <2>1, <2>2 DEF WriteTransition, Lineage, Grows, GoldPresent
<1>5. CASE WriteEnergy(j)
  <2>1. silver'.transition = silver.transition
      BY <1>5 DEF WriteEnergy, Control, TypeOK
  <2>2. QED
      BY <1>5, <2>1 DEF WriteEnergy, Lineage, Grows, GoldPresent
<1>6. ASSUME NEW a \in Artifacts, NEW core, NEW energy,
             WriteGold(j, a, core, energy),
             UNCHANGED <<raw, bronze, silver, manifests, pointer>>,
             a = "backtest_summary" => silver.transition # None,
             a = "country_transition_risk_v2" => silver.energy # None
      PROVE  Lineage'
  <2>1. \A b \in Artifacts : b # a => gold'[b] = gold[b]
      BY <1>6 DEF WriteGold, Control, TypeOK
  <2>2. pointer' # None => GoldPresent'
      BY <1>6 DEF Lineage, Grows, GoldPresent, Required, Artifacts
  <2>3. QED
      BY <1>6, <2>1, <2>2 DEF Lineage, Artifacts
<1>7. CASE WriteFeatures(j)
    BY <1>6, <1>7 DEF WriteFeatures, Artifacts
<1>8. CASE WriteBacktestDetail(j)
    BY <1>6, <1>8 DEF WriteBacktestDetail, Artifacts
<1>9. CASE WriteBacktestSummary(j)
  <2>1. silver.transition # None
      BY <1>9 DEF WriteBacktestSummary, SeenOK, Seen
  <2>2. QED
      BY <1>6, <1>9, <2>1 DEF WriteBacktestSummary, Artifacts
<1>10. CASE WriteScoreV1(j)
    BY <1>6, <1>10 DEF WriteScoreV1, Artifacts
<1>11. CASE WriteScoreV2(j)
  <2>1. silver.energy # None
      BY <1>11 DEF WriteScoreV2, SeenOK, Seen
  <2>2. QED
      BY <1>6, <1>11, <2>1 DEF WriteScoreV2, Artifacts
<1>12. CASE WriteManifest(j)
    BY <1>12 DEF WriteManifest, Lineage, Grows, GoldPresent, Control, TypeOK
<1>13. CASE Barrier(j)
  <2>1. CASE UNCHANGED pointer
      BY <1>13, <2>1 DEF Barrier, Lineage, GoldPresent
  <2>2. CASE pointer' = j /\ GoldPresent /\ manifests[j] # None
      BY <1>13, <2>2 DEF Barrier, Lineage, GoldPresent
  <2>3. QED
      BY <1>13, <2>1, <2>2 DEF Barrier
<1>14. QED
    BY <1>1, <1>2, <1>3, <1>4, <1>5, <1>7, <1>8, <1>9, <1>10, <1>11, <1>12, <1>13
       DEF JobStep, Ingest, BuildSilver, EnergyFeatures, Backtest, Score,
           Publish, Start, Crash, Fetch, SourceFails, EndIngest, ReadBronzeCo2,
           ReadBronzeWdi, ReadBronze, ReadBronzeEnergy, ComputeFeatures,
           RunBacktest, ComputeScores, ReadPanel, ReadEnergyForV2, CheckRaw,
           CheckSilver, CheckGold, ReadGold, Verify

\* At any moment, whatever other jobs do, the run the pointer names passes
\* every check of verify_durable_success.
THEOREM Durability == Spec => []ReleaseDurable
<1>1. Init => Lasting
  <2>1. Init => Lineage /\ SeenOK
      BY DEF Init, Lineage, SeenOK, Seen, Sources, Artifacts, CoreSources
  <2>2. QED
      BY <2>1, InitControl DEF Lasting
<1>2. Lasting /\ [Next]_vars => Lasting'
  <2> SUFFICES ASSUME Lasting, [Next]_vars PROVE Lasting'
      OBVIOUS
  <2>1. Control' /\ Grows
      BY NextControl, StepGrows DEF Lasting
  <2>2. CASE UNCHANGED vars
      BY <2>1, <2>2 DEF vars, Lasting, Lineage, SeenOK, Seen, GoldPresent
  <2>3. ASSUME NEW j \in Jobs, Start(j) \/ Crash(j) \/ JobStep(j) PROVE Lasting'
      BY <2>1, <2>3, StepSeen, StepLineage DEF Lasting
  <2>4. QED
      BY <2>2, <2>3 DEF Next, Finished
<1>3. Lasting => ReleaseDurable
  <2> SUFFICES ASSUME Lasting, pointer # None PROVE Durable(pointer)
      BY DEF ReleaseDurable
  <2>1. GoldPresent /\ manifests[pointer] # None
      BY DEF Lasting, Lineage
  <2>2. silver.transition # None /\ silver.energy # None
      BY <2>1 DEF Lasting, Lineage, GoldPresent, Required
  <2>3. bronze["owid_co2"] # None /\ raw["owid_co2"] # None
      BY <2>2 DEF Lasting, Lineage, Sources, CoreSources
  <2>4. QED
      BY <2>1, <2>2, <2>3 DEF Durable, GoldPresent, Required, Sources, CoreSources
<1>4. QED
    BY <1>1, <1>2, <1>3, PTL DEF Spec

-----------------------------------------------------------------------------
(* Refinement of ReleaseBarrier.                                           *)

\* A run whose evidence is stored is at the barrier or past it.
Recorded == \A i \in Jobs : manifests[i] # None => pc[i] = "barrier" \/ PastBarrier(i)

\* A run past the barrier never comes back to it, and only Barrier, an exit
\* or a crash takes a run past it.
LEMMA BarrierStep ==
    ASSUME Control, Recorded, NEW j \in Jobs, Start(j) \/ Crash(j) \/ JobStep(j)
    PROVE  /\ PastBarrier(j) => PastBarrier(j)'
           /\ WriteManifest(j) => ~PastBarrier(j) /\ ~PastBarrier(j)' /\ pc'[j] = "barrier"
           /\ Barrier(j) => PastBarrier(j)' /\ ~PastBarrier(j)
           /\ ~WriteManifest(j) => manifests' = manifests
           /\ ~Barrier(j) => pointer' = pointer
           /\ pc[j] = "barrier" => Barrier(j) \/ Crash(j)
           /\ Crash(j) => PastBarrier(j)'
<1> USE DEF Control, JobsOK, Goto, Stop, StageDone, Exit, Stopped, PastBarrier,
            Following, lake
<1>1. CASE Start(j) \/ Crash(j)
    BY <1>1, PipelineAssumption DEF Start, Crash, Entry, AllCommands, Running,
       WriteManifest, Barrier
<1>2. CASE Ingest(j)
    BY <1>2 DEF Ingest, Fetch, SourceFails, WriteRawManifest, WriteBronze,
                EndIngest, NextSource, WriteManifest, Barrier, Crash, Running
<1>3. CASE BuildSilver(j) \/ EnergyFeatures(j)
    BY <1>3 DEF BuildSilver, ReadBronzeCo2, ReadBronzeWdi, ReadBronze,
                WriteTransition, ReadBronzeEnergy, WriteEnergy, EnergyFeatures,
                ComputeFeatures, WriteFeatures, WriteManifest, Barrier, Crash
<1>4. CASE Backtest(j) \/ Score(j)
    BY <1>4 DEF Backtest, Score, RunBacktest, ComputeScores, ReadPanel,
                WriteBacktestDetail, WriteBacktestSummary, WriteScoreV1,
                ReadEnergyForV2, WriteScoreV2, WriteManifest, Barrier, Crash
<1>5. CASE Publish(j) \/ Verify(j)
    BY <1>5 DEF Publish, CheckRaw, CheckSilver, CheckGold, ReadGold,
                WriteManifest, Barrier, Verify, Crash
<1>6. QED
    BY <1>1, <1>2, <1>3, <1>4, <1>5 DEF JobStep

\* Evidence is stored only for runs at the barrier or past it.
LEMMA StepRecorded ==
    ASSUME Control, Recorded, NEW j \in Jobs, Start(j) \/ Crash(j) \/ JobStep(j)
    PROVE  Recorded'
<1>1. ASSUME NEW i \in Jobs, i # j, manifests'[i] # None
      PROVE  (pc[i] = "barrier" \/ PastBarrier(i))'
  <2>1. manifests[i] # None
      BY <1>1, BarrierStep DEF WriteManifest, Control, TypeOK
  <2>2. QED
      BY <1>1, <2>1, OnlyOneMoves DEF Recorded, PastBarrier
<1>2. ASSUME manifests'[j] # None PROVE (pc[j] = "barrier" \/ PastBarrier(j))'
  <2>1. CASE WriteManifest(j)
      BY <2>1, BarrierStep
  <2>2. CASE ~WriteManifest(j)
      BY <1>2, <2>2, BarrierStep DEF Recorded
  <2>3. QED
      BY <2>1, <2>2
<1>3. QED
    BY <1>1, <1>2 DEF Recorded

\* Every step of a job is a step of the barrier or invisible to it.
LEMMA StepRefines ==
    ASSUME Control, Recorded, NEW j \in Jobs, Start(j) \/ Crash(j) \/ JobStep(j)
    PROVE  [Barriers!Next]_Barriers!vars
<1> DEFINE recorded == {i \in Jobs : manifests[i] # None}
           retired == {i \in Jobs : PastBarrier(i)}
<1>1. \A i \in Jobs : i # j => (PastBarrier(i)' <=> PastBarrier(i))
    BY OnlyOneMoves DEF PastBarrier
<1>2. CASE WriteManifest(j)
  <2>1. j \notin recorded \cup retired
      BY <1>2, BarrierStep DEF Recorded, WriteManifest, PastBarrier, Stopped
  <2>2. recorded' = recorded \cup {j}
    <3>1. [sources |-> mem[j].sources, core |-> mem[j].core,
           read |-> mem[j].read] # None
      <4>1. [sources |-> mem[j].sources, core |-> mem[j].core,
             read |-> mem[j].read] \in RunManifest
          BY <1>2 DEF WriteManifest, RunManifest, Control, JobsOK, HoldsAt
      <4>2. QED
          BY <4>1, NoneIsNoData
    <3>2. QED
        BY <1>2, <3>1 DEF WriteManifest, Control, TypeOK
  <2>3. retired' = retired
      BY <1>1, <1>2, BarrierStep
  <2>4. pointer' = pointer
      BY <1>2 DEF WriteManifest
  <2>5. QED
      BY <2>1, <2>2, <2>3, <2>4 DEF Barriers!Next, Barriers!Record
<1>3. CASE ~WriteManifest(j) /\ pointer' # pointer
  <2>1. Barrier(j) /\ pointer' = j /\ manifests[j] # None
      BY <1>3, BarrierStep DEF Barrier
  <2>2. manifests' = manifests
      BY <1>3, BarrierStep
  <2>3. retired' = retired \cup {j} /\ j \notin retired
      BY <1>1, <2>1, BarrierStep
  <2>4. QED
      BY <2>1, <2>2, <2>3 DEF Barriers!Next, Barriers!Promote
<1>4. CASE ~WriteManifest(j) /\ pointer' = pointer
  <2>1. manifests' = manifests
      BY <1>4, BarrierStep
  <2>2. CASE PastBarrier(j)' /\ ~PastBarrier(j)
    <3>1. retired' = retired \cup {j} /\ j \notin retired
        BY <1>1, <2>2
    <3>2. QED
        BY <1>4, <2>1, <3>1 DEF Barriers!Next, Barriers!Retire
  <2>3. CASE ~(PastBarrier(j)' /\ ~PastBarrier(j))
    <3>1. retired' = retired
        BY <1>1, <2>3, BarrierStep
    <3>2. QED
        BY <1>4, <2>1, <3>1 DEF Barriers!vars
  <2>4. QED
      BY <2>2, <2>3
<1>5. QED
    BY <1>2, <1>3, <1>4

\* The pipeline implements the barrier's specification: evidence before the
\* pointer, each run promoted at most once, retired runs never promoted.
THEOREM RefinesBarrier == Spec => BarrierSpec
<1>1. Init => Recorded /\ Barriers!Init
    BY DEF Init, Recorded, Barriers!Init, PastBarrier, Stopped
<1>2. Control /\ Recorded /\ [Next]_vars => Recorded' /\ [Barriers!Next]_Barriers!vars
  <2> SUFFICES ASSUME Control, Recorded, [Next]_vars
               PROVE  Recorded' /\ [Barriers!Next]_Barriers!vars
      OBVIOUS
  <2>1. CASE UNCHANGED vars
      BY <2>1 DEF vars, Recorded, PastBarrier, Barriers!vars
  <2>2. ASSUME NEW j \in Jobs, Start(j) \/ Crash(j) \/ JobStep(j)
        PROVE  Recorded' /\ [Barriers!Next]_Barriers!vars
      BY <2>2, StepRecorded, StepRefines
  <2>3. QED
      BY <2>1, <2>2 DEF Next, Finished
<1>3. QED
    BY <1>1, <1>2, InitControl, NextControl, PTL DEF Spec, BarrierSpec, Barriers!Spec
==============================================================================
