----------------------------- MODULE ApiServer -----------------------------
(***************************************************************************)
(* The API process: load_bundle at startup (api/repository.py), then       *)
(* serving from memory (api/app.py), while Product's jobs rewrite the      *)
(* bundle it loads.                                                        *)
(*                                                                         *)
(* A replica reads the manifest first and then each file, with no lock and *)
(* no version; what protects it is that it compares every file with the    *)
(* manifest afterwards and refuses to start on a mismatch.                 *)
(***************************************************************************)
EXTENDS Product

CONSTANTS Replicas,   \* API processes
          MaxRecycles \* bound on restarts of replicas that serve

VARIABLES up,       \* what each replica does
          got,      \* what each replica has read
          recycles  \* restarts of serving replicas so far

apiVars == <<up, got, recycles>>
vars == <<productVars, apiVars>>

\* WEB_FILES without the manifest.
ApiSeq == <<"countries">> \o TableSeq

ReplicaSteps == {"starting", "reading_manifest", "reading", "validating",
                 "serving", "failed"}

NothingRead == [k |-> 0, manifest |-> None, files |-> [f \in Files |-> None]]

ReplicaMemory == [k: 0..Len(ApiSeq), manifest: Manifest \cup {None},
                  files: [Files -> Content \cup {None}]]

ReplicaTo(r, step, g) ==
    /\ up' = [up EXCEPT ![r] = step]
    /\ got' = [got EXCEPT ![r] = g]

\* Seeded fault: WEB_FILES without the manifest.
CheckExistsButManifest(r) ==
    /\ up[r] = "starting"
    /\ ReplicaTo(r, IF \A f \in Files : web[f] # None THEN "reading_manifest"
                                                     ELSE "failed", NothingRead)
    /\ UNCHANGED <<productVars, recycles>>

\* Every file must exist; files are never deleted, so one look is as good as
\* one look per file.
CheckExists(r) ==
    /\ up[r] = "starting"
    /\ IF manifest # None /\ \A f \in Files : web[f] # None
       THEN ReplicaTo(r, "reading_manifest", NothingRead)
       ELSE ReplicaTo(r, "failed", NothingRead)
    /\ UNCHANGED <<productVars, recycles>>

ReadManifest(r) ==
    /\ up[r] = "reading_manifest"
    /\ ReplicaTo(r, "reading", [got[r] EXCEPT !.manifest = manifest])
    /\ UNCHANGED <<productVars, recycles>>

ReadFile(r) ==
    LET k == got[r].k + 1
        f == ApiSeq[k]
        g == [got[r] EXCEPT !.k = k, !.files[f] = web[f]]
    IN  /\ up[r] = "reading"
        /\ ReplicaTo(r, IF k < Len(ApiSeq) THEN "reading" ELSE "validating", g)
        /\ UNCHANGED <<productVars, recycles>>

\* Seeded fault: the SHA-256 comparison is left out.
HashesUnchecked(g) == TRUE

HashesMatch(g) == \A f \in Files : g.files[f] = g.manifest.files[f]

\* Start serving, or StartupValidationError.
Validate(r) ==
    /\ up[r] = "validating"
    /\ IF HashesMatch(got[r])
       THEN ReplicaTo(r, "serving", [got[r] EXCEPT !.k = 0])
       ELSE ReplicaTo(r, "failed", NothingRead)
    /\ UNCHANGED <<productVars, recycles>>

\* The container is started again after a failed startup.
RestartFailed(r) ==
    /\ up[r] = "failed"
    /\ ReplicaTo(r, "starting", NothingRead)
    /\ UNCHANGED <<productVars, recycles>>

\* A serving replica is replaced: a new revision, scaling, a node failure.
\* Only then does a new bundle get loaded.
Recycle(r) ==
    /\ up[r] = "serving"
    /\ recycles < MaxRecycles
    /\ recycles' = recycles + 1
    /\ ReplicaTo(r, "starting", NothingRead)
    /\ UNCHANGED productVars

Init ==
    /\ ProductInit
    /\ up = [r \in Replicas |-> "starting"]
    /\ got = [r \in Replicas |-> NothingRead]
    /\ recycles = 0

LoadStep(r) ==
    CheckExists(r) \/ ReadManifest(r) \/ ReadFile(r) \/ Validate(r)
                   \/ RestartFailed(r)

\* Every job has stopped: the model's bound on jobs, not the code's.
Finished ==
    /\ \A j \in Jobs : pc[j] \in ProductStopped
    /\ UNCHANGED vars

Next ==
    \/ ProductNext /\ UNCHANGED apiVars
    \/ \E r \in Replicas : LoadStep(r) \/ Recycle(r)
    \/ Finished

Spec == Init /\ [][Next]_vars

\* A started job keeps executing until it stops; a replica keeps loading and
\* is started again whenever its startup fails.
FairSpec ==
    /\ Spec
    /\ \A j \in Jobs : WF_vars(ProductStep(j) /\ UNCHANGED apiVars)
    /\ \A r \in Replicas : WF_vars(LoadStep(r))

-----------------------------------------------------------------------------
(* Properties.                                                             *)

\* Every object, every job's and every replica's memory keeps its shape; in
\* particular a replica past the existence check has read a manifest, and a
\* serving one every file.
TypeOK ==
    /\ ProductTypeOK
    /\ up \in [Replicas -> ReplicaSteps]
    /\ got \in [Replicas -> ReplicaMemory]
    /\ recycles \in Nat
    /\ \A r \in Replicas :
        /\ up[r] \in {"reading", "validating", "serving"} => got[r].manifest # None
        /\ up[r] = "serving" => got[r].files \in [Files -> Content]

\* What a replica serves came out of one call of build_web_bundle, although it
\* read the files one by one while other jobs were rewriting them: the country
\* index is the one derived from the overview it serves, and the run that the
\* manifest claims is the run of the run-metadata it serves.
ServedIsOneBundle ==
    \A r \in Replicas : up[r] = "serving" =>
        LET files == got[r].files
        IN  /\ files["countries"].of = files["country_overview"].of
            /\ got[r].manifest.run = files["run_metadata"].run

\* Files that may all come from one build_bi_artifacts call: where two tables
\* show the same analytics file they show the same version of it.
OneBuild(files) ==
    /\ \A t, u \in Tables : \A i \in Inputs \cap Shows[t] \cap Shows[u] :
            files[t].of[i] = files[u].of[i]
    /\ files["countries"].of = files["country_overview"].of
    /\ files["run_metadata"].run = files["country_overview"].run

\* Tables that show what a run published, under its name.
PublishedBy(files, run) ==
    \A t \in Tables : files[t] = TableOf(t, released[run], run)

\* A run that computed, or may have, and ended before it published.
Abandoned(j) ==
    cmd[j] = "run" /\ pc[j] \in {"exit", "crashed"} /\ released[j] = None

\* As long as releases and products are only made by `run` and
\* `publish-product`, one at a time, a replica serves the tables of one build,
\* labelled with a run that was released, whatever failed or was killed half-way
\* before and whenever the replica was started.  Every table shows the very
\* versions that this run published, unless a later run was refused or stopped
\* after it had replaced some of the analytics files and publish-product was then
\* started by hand.
ServedIsOneRelease ==
    \A r \in Replicas : up[r] = "serving" =>
        LET files == got[r].files
            run == files["run_metadata"].run
        IN  /\ OneBuild(files)
            /\ run # None /\ released[run] # None
            /\ \/ PublishedBy(files, run)
               \/ /\ \E j \in Jobs : Abandoned(j)
                  /\ \E j \in Jobs : cmd[j] = "publish_product"

\* publishing/product.py and publish_product: the product layer reshapes "an
\* already-published core release" and is built "from it".  As a property: what
\* a replica serves under the name of a run is what that run published.
ServedIsPublished ==
    \A r \in Replicas : up[r] = "serving" =>
        PublishedBy(got[r].files, got[r].files["run_metadata"].run)

\* A bundle in the lake that an API process can start on.
Loadable ==
    /\ manifest # None
    /\ \A f \in Files : web[f] # None /\ web[f] = manifest.files[f]

\* A `run` that meets no further fault, and after which no other job starts,
\* ends with its product published and every replica serving; whatever was
\* left half-written before is overwritten, and replicas that fail to start
\* while it is being written recover.  It is only refused where publish misses
\* a table, since there never were energy data to compute on: having published,
\* it finds every table that the product needs.
Starts(j, n) == cmd[j] = "run" /\ pc[j] = "compute" /\ faults = n

PublishedIsServed ==
    \A j \in Jobs : \A r \in Replicas : \A n \in 0..MaxFaults :
        Starts(j, n) ~> \/ pc[j] = "done" /\ up[r] = "serving"
                        \/ pc[j] = "exit" /\ released[j] = None
                                         /\ \E i \in PublishNeeds : analytics[i] = None
                        \/ faults > n
                        \/ \E i \in Jobs \ {j} : i \in ProductRunning

\* ADR 0019: a product-publication failure "leaves the previously valid core
\* release, and any previously valid gold/bi/gold/web bundle, completely
\* untouched".  As a property: a job that fails while it publishes the product
\* does not leave an unloadable bundle where a loadable one was verified.
NobodyKilled == \A j \in Jobs : pc[j] \in {"idle", "done", "exit"}

ValidBundleSurvives ==
    NobodyKilled /\ (\E j \in Jobs : pc[j] = "done" /\ cmd[j] = "run") => Loadable
=============================================================================
