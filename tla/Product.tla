------------------------------ MODULE Product ------------------------------
(***************************************************************************)
(* Product publication: gold/bi and gold/web, downstream of a core release *)
(* (publishing/product.py, bi/publish.py, bi/web_publish.py and their      *)
(* commands in cli.py).                                                    *)
(*                                                                         *)
(* A job is one invocation of `run`, `publish_product`, `build_bi` or      *)
(* `build_web`.  Of the core stages of `run` only what they write is seen  *)
(* from here, the analytics files (silver and gold tables) one by one and  *)
(* then, as one step, the evidence and the pointer.  Each looks at its     *)
(* inputs in the step that writes; their reads as steps of their own, and  *)
(* publish step by step, are in Pipeline.  From there on each parquet and  *)
(* JSON file is written whole by one action and read by one action, so     *)
(* other jobs and crashes fall between any two of them.                    *)
(*                                                                         *)
(* The content of a file is what it was computed from: the versions of the *)
(* analytics files that it shows, the run that the pointer named, or both. *)
(* A hash is modelled by the content it is of.                             *)
(***************************************************************************)
EXTENDS Naturals, FiniteSets, Sequences, SequencesExt

CONSTANTS
    Jobs,           \* invocations; also the run_id of the core publish of `run`
    Gens,           \* versions of an analytics file
    Thin,           \* those of the energy table with too little history
    WriteSeq,       \* the analytics files, in the order `run` writes them
    ReadSeq,        \* and in the order build_bi_artifacts reads them
    TableSeq,       \* the BI tables, in the order they are written and read
    None,           \* absent object, absent value
    Commands,       \* the commands that may be started
    MaxConcurrent,  \* jobs that may be running at once
    MaxFaults       \* bound on the faults of a behaviour

ProductCommands == {"run", "publish_product", "build_bi", "build_web"}

Tables == ToSet(TableSeq)

\* The silver and gold tables.
Inputs == ToSet(ReadSeq)

EnergyTable == "fact_country_year_energy"

\* Computed from the energy table, and only from one with enough history.
FromEnergy == {"energy_transition_features", "country_transition_risk_v2"}

\* The tables that publish insists on.
PublishNeeds ==
    Inputs \cap {"fact_country_year_transition", "backtest_summary",
                 "country_transition_risk", "country_transition_risk_v2"}

\* Which analytics files each BI table is built from and shows.  The paths of
\* the silver tables in run_metadata are dropped by the web bundle's list of
\* safe fields; regime_diagnostics shows a research file, which `run` never
\* writes.
Shows ==
    [country_overview   |-> FromEnergy \cup {"fact_country_year_transition",
                                             "country_transition_risk"},
     country_timeseries |-> {"fact_country_year_transition", EnergyTable},
     risk_components    |-> {"country_transition_risk", "country_transition_risk_v2"},
     scenario_quantiles |-> {"fact_country_year_transition"},
     backtest_metrics   |-> {"backtest_country_origin", "backtest_summary"},
     energy_indicators  |-> {EnergyTable, "energy_transition_features"},
     regime_diagnostics |-> {},
     run_metadata       |-> {}]

ASSUME ProductAssumption ==
    /\ ReadSeq \in Seq(Inputs) /\ WriteSeq \in Seq(Inputs)
    /\ EnergyTable \in Inputs /\ ToSet(WriteSeq) = Inputs
    /\ Tables \subseteq DOMAIN Shows
    /\ Thin \subseteq Gens
    /\ TableSeq \in Seq(Tables)
    /\ {"country_overview", "run_metadata"} \subseteq Tables
    /\ "countries" \notin Tables
    /\ Commands \subseteq ProductCommands
    /\ None \notin Jobs \cup Gens
    /\ MaxConcurrent \in Nat
    /\ MaxFaults \in Nat

VARIABLES
    analytics,  \* version of each silver and gold table
    released,   \* the versions when each run published
    pointer,    \* gold/latest_successful_run.json
    bi,         \* gold/bi/<table>.parquet
    web,        \* gold/web/<file>.json
    manifest,   \* gold/web/manifest.json
    cmd, pc, mem,
    faults

coreVars == <<analytics, released, pointer>>
productVars == <<analytics, released, pointer, bi, web, manifest,
                 cmd, pc, mem, faults>>

-----------------------------------------------------------------------------
(* Contents.                                                               *)

Versions == [Inputs -> Gens \cup {None}]

Content == [of: Versions, run: Jobs \cup {None}]

\* A BI table: the files it shows, as they were read, and for run_metadata and
\* country_overview the run.
TableOf(t, read, run) ==
    [of  |-> [i \in Inputs |-> IF i \in Shows[t] THEN read[i] ELSE None],
     run |-> IF t \in {"run_metadata", "country_overview"} THEN run ELSE None]

\* The web files, in the order of write_web_bundle: one for each table, then
\* the country index.
FileSeq == Append(TableSeq, "countries")
Files == ToSet(FileSeq)

\* Seeded fault: the index is not derived from the bundle's own overview.
BundleOfStaleIndex(tables) ==
    [f \in Files |-> IF f = "countries"
                     THEN IF web["countries"] # None THEN web["countries"]
                          ELSE [of |-> tables["country_overview"].of, run |-> None]
                     ELSE tables[f]]

\* build_web_bundle: the tables, and the index derived from the overview.
BundleOf(tables) ==
    [f \in Files |-> IF f = "countries"
                     THEN [of |-> tables["country_overview"].of, run |-> None]
                     ELSE tables[f]]

Manifest == [files: [Files -> Content \cup {None}], run: Jobs \cup {None}]

\* The absent object is none of the objects.
ASSUME NoneIsNoObject == None \notin Content \cup Manifest \cup Versions

\* Seeded fault: the manifest is built before the index is added.
ManifestOfTables(bundle) ==
    [files |-> [f \in Files |-> IF f = "countries" THEN None ELSE bundle[f]],
     run |-> bundle["run_metadata"].run]

\* build_manifest: the hash of every file, and the run of run-metadata.
ManifestOf(bundle) == [files |-> bundle, run |-> bundle["run_metadata"].run]

-----------------------------------------------------------------------------
(* Jobs.                                                                   *)

JobMemory ==
    [k: Nat,                                    \* files written or read so far
     expected: Jobs \cup {None},                \* expected_run_id
     read: Versions,                            \* analytics files read
     tables: [Tables -> Content \cup {None}],   \* the BI tables held
     manifest: Manifest \cup {None},            \* the manifest built or read
     left: SUBSET Files,                        \* files still to verify
     missing: SUBSET Files]                     \* what verification found wrong

Blank(expected) ==
    [k |-> 0, expected |-> expected, read |-> [i \in Inputs |-> None],
     tables |-> [t \in Tables |-> None], manifest |-> None,
     left |-> {}, missing |-> {}]

ProductStopped == {"done", "exit", "crashed"}

ProductSteps == {"idle", "compute", "publish", "require", "read_analytics",
                 "read_pointer", "write_bi", "read_bi", "write_web",
                 "write_web_manifest", "verify", "verify_files"}
                \cup ProductStopped

ProductRunning == {j \in Jobs : pc[j] \notin ProductStopped \cup {"idle"}}

FirstStep == [run |-> "compute", publish_product |-> "require",
              build_bi |-> "read_analytics", build_web |-> "read_bi"]

\* A job goes on holding m.
Proceed(j, step, m) ==
    /\ pc' = [pc EXCEPT ![j] = step]
    /\ mem' = [mem EXCEPT ![j] = m]

End(j, how) == Proceed(j, how, Blank(None))

ProductFault ==
    /\ faults < MaxFaults
    /\ faults' = faults + 1

Begin(j) ==
    /\ pc[j] = "idle"
    /\ Cardinality(ProductRunning) < MaxConcurrent
    /\ \E c \in Commands :
        /\ cmd' = [cmd EXCEPT ![j] = c]
        /\ Proceed(j, FirstStep[c], Blank(None))
    /\ UNCHANGED <<coreVars, bi, web, manifest, faults>>

\* An exception between two storage operations; publish_product turns it into
\* a ProductPublicationError, the other commands let it end the process.
Fails(j) ==
    /\ j \in ProductRunning
    /\ ProductFault
    /\ End(j, "exit")
    /\ UNCHANGED <<coreVars, bi, web, manifest, cmd>>

\* The process is killed.
Killed(j) ==
    /\ j \in ProductRunning
    /\ ProductFault
    /\ End(j, "crashed")
    /\ UNCHANGED <<coreVars, bi, web, manifest, cmd>>

EnergyUsable == analytics[EnergyTable] \notin {None} \cup Thin

\* The core stages of `run` up to publish: they rewrite the analytics files in
\* place, one after another.  The energy table is best effort (no bronze
\* snapshot, or a FATAL event), and what is computed from it is left as it was
\* when there is none with enough history.
Compute(j) ==
    LET k == mem[j].k + 1
        i == WriteSeq[k]
    IN  /\ pc[j] = "compute"
        /\ \/ /\ i \in FromEnergy => EnergyUsable
              /\ \E g \in Gens : analytics' = [analytics EXCEPT ![i] = g]
           \/ /\ i = EnergyTable \/ (i \in FromEnergy /\ ~EnergyUsable)
              /\ UNCHANGED analytics
        /\ IF k < Len(WriteSeq)
           THEN Proceed(j, "compute", [mem[j] EXCEPT !.k = k])
           ELSE Proceed(j, "publish", Blank(None))
        /\ UNCHANGED <<released, pointer, bi, web, manifest, cmd, faults>>

\* publish: refused without its tables, else the run's manifest and the pointer.
CorePublish(j) ==
    /\ pc[j] = "publish"
    /\ IF \E i \in PublishNeeds : analytics[i] = None
       THEN End(j, "exit") /\ UNCHANGED <<released, pointer>>
       ELSE /\ released' = [released EXCEPT ![j] = analytics]
            /\ pointer' = j
            /\ Proceed(j, "require", mem[j])
    /\ UNCHANGED <<analytics, bi, web, manifest, cmd, faults>>

\* _require_core_release.
RequireCoreRelease(j) ==
    /\ pc[j] = "require"
    /\ IF pointer = None
       THEN End(j, "exit")
       ELSE Proceed(j, "read_analytics", Blank(pointer))
    /\ UNCHANGED <<coreVars, bi, web, manifest, cmd, faults>>

-----------------------------------------------------------------------------
(* build_bi_artifacts and write_bi_artifacts.                              *)

\* Every silver and gold table must be there when its turn comes.
ReadAnalytics(j) ==
    LET k == mem[j].k + 1
        i == ReadSeq[k]
        read == [mem[j].read EXCEPT ![i] = analytics[i]]
    IN  /\ pc[j] = "read_analytics"
        /\ IF analytics[i] = None
           THEN End(j, "exit")
           ELSE IF k < Len(ReadSeq)
                THEN Proceed(j, "read_analytics",
                             [mem[j] EXCEPT !.k = k, !.read = read])
                ELSE Proceed(j, "read_pointer",
                             [mem[j] EXCEPT !.k = 0, !.read = read])
        /\ UNCHANGED <<coreVars, bi, web, manifest, cmd, faults>>

\* The pointer is read last, and is optional here.  (The manifest of the run it
\* names is never written again, so it is part of the run.)
ReadPointer(j) ==
    LET tables == [t \in Tables |-> TableOf(t, mem[j].read, pointer)]
    IN  /\ pc[j] = "read_pointer"
        /\ Proceed(j, "write_bi", [Blank(mem[j].expected) EXCEPT !.tables = tables])
        /\ UNCHANGED <<coreVars, bi, web, manifest, cmd, faults>>

WriteBi(j) ==
    LET k == mem[j].k + 1
        t == TableSeq[k]
    IN  /\ pc[j] = "write_bi"
        /\ bi' = [bi EXCEPT ![t] = mem[j].tables[t]]
        /\ IF k < Len(TableSeq)
           THEN Proceed(j, "write_bi", [mem[j] EXCEPT !.k = k])
           ELSE IF cmd[j] = "build_bi"
                THEN End(j, "done")
                ELSE Proceed(j, "read_bi", Blank(mem[j].expected))
        /\ UNCHANGED <<coreVars, web, manifest, cmd, faults>>

-----------------------------------------------------------------------------
(* build_web_bundle, build_manifest and write_web_bundle.                  *)

ReadBi(j) ==
    LET k == mem[j].k + 1
        t == TableSeq[k]
        tables == [mem[j].tables EXCEPT ![t] = bi[t]]
    IN  /\ pc[j] = "read_bi"
        /\ IF bi[t] = None
           THEN End(j, "exit")
           ELSE IF k < Len(TableSeq)
                THEN Proceed(j, "read_bi",
                             [mem[j] EXCEPT !.k = k, !.tables = tables])
                ELSE Proceed(j, "write_web",
                             [Blank(mem[j].expected) EXCEPT
                                 !.manifest = ManifestOf(BundleOf(tables)),
                                 !.tables = tables])
        /\ UNCHANGED <<coreVars, bi, web, manifest, cmd, faults>>

WriteWeb(j) ==
    LET k == mem[j].k + 1
        f == FileSeq[k]
    IN  /\ pc[j] = "write_web"
        /\ web' = [web EXCEPT ![f] = BundleOf(mem[j].tables)[f]]
        /\ IF k < Len(FileSeq)
           THEN Proceed(j, "write_web", [mem[j] EXCEPT !.k = k])
           ELSE Proceed(j, "write_web_manifest",
                        [Blank(mem[j].expected) EXCEPT !.manifest = mem[j].manifest])
        /\ UNCHANGED <<coreVars, bi, manifest, cmd, faults>>

\* The manifest is written last.
WriteWebManifest(j) ==
    /\ pc[j] = "write_web_manifest"
    /\ manifest' = mem[j].manifest
    /\ IF cmd[j] = "build_web"
       THEN End(j, "done")
       ELSE Proceed(j, "verify", Blank(mem[j].expected))
    /\ UNCHANGED <<coreVars, bi, web, cmd, faults>>

-----------------------------------------------------------------------------
(* verify_product_publication.                                             *)

\* The manifest is read once.  A wrong run fails the verification whatever
\* the files are.  What else is checked cannot fail in this model: files are
\* never deleted, and one build of the code writes one version everywhere.
VerifyManifest(j) ==
    /\ pc[j] = "verify"
    /\ IF manifest = None
       THEN End(j, "exit")
       ELSE IF manifest.run # mem[j].expected
            THEN End(j, "exit")
            ELSE Proceed(j, "verify_files",
                         [mem[j] EXCEPT !.manifest = manifest, !.left = Files])
    /\ UNCHANGED <<coreVars, bi, web, manifest, cmd, faults>>

\* A file whose hash is not the manifest's.
Wrong(j, f) == web[f] # mem[j].manifest.files[f]

\* The files are gone through in the order of a Python set: any order.
VerifyFile(j) ==
    /\ pc[j] = "verify_files"
    /\ \E f \in mem[j].left :
        LET left == mem[j].left \ {f}
            missing == mem[j].missing \cup (IF Wrong(j, f) THEN {f} ELSE {})
        IN  IF left # {}
            THEN Proceed(j, "verify_files",
                         [mem[j] EXCEPT !.left = left, !.missing = missing])
            ELSE End(j, IF missing = {} THEN "done" ELSE "exit")
    /\ UNCHANGED <<coreVars, bi, web, manifest, cmd, faults>>

-----------------------------------------------------------------------------
ProductInit ==
    /\ analytics = [i \in Inputs |-> None]
    /\ released = [j \in Jobs |-> None]
    /\ pointer = None
    /\ bi = [t \in Tables |-> None]
    /\ web = [f \in Files |-> None]
    /\ manifest = None
    /\ cmd = [j \in Jobs |-> "run"]
    /\ pc = [j \in Jobs |-> "idle"]
    /\ mem = [j \in Jobs |-> Blank(None)]
    /\ faults = 0

\* What a job that meets no fault does next.
ProductStep(j) ==
    \/ Compute(j) \/ CorePublish(j) \/ RequireCoreRelease(j)
    \/ ReadAnalytics(j) \/ ReadPointer(j) \/ WriteBi(j)
    \/ ReadBi(j) \/ WriteWeb(j) \/ WriteWebManifest(j)
    \/ VerifyManifest(j) \/ VerifyFile(j)

ProductNext ==
    \E j \in Jobs : Begin(j) \/ Fails(j) \/ Killed(j) \/ ProductStep(j)

ProductTypeOK ==
    /\ analytics \in Versions
    /\ released \in [Jobs -> Versions \cup {None}]
    /\ pointer \in Jobs \cup {None}
    /\ bi \in [Tables -> Content \cup {None}]
    /\ web \in [Files -> Content \cup {None}]
    /\ manifest \in Manifest \cup {None}
    /\ cmd \in [Jobs -> ProductCommands]
    /\ pc \in [Jobs -> ProductSteps]
    /\ mem \in [Jobs -> JobMemory]
    /\ faults \in Nat
=============================================================================
