---------------------------- MODULE MCApiServer ----------------------------
(* Small instances of ApiServer for TLC. *)
EXTENDS ApiServer

\* Three of the eight tables: the run's, one that shows analytics only, and the
\* overview, which shows both and gives the country index.
MCTables == <<"country_overview", "energy_indicators", "run_metadata">>

\* Three of the seven files: the energy table and what is computed from it, one
\* shown by both tables and one that publish insists on.
MCWrites == <<"fact_country_year_energy", "energy_transition_features",
              "country_transition_risk_v2">>
MCReads == <<"fact_country_year_energy", "country_transition_risk_v2",
             "energy_transition_features">>

\* Fewer tables and files, where jobs overlap.
MCFewTables == <<"country_overview", "run_metadata">>
MCFewWrites == <<"fact_country_year_energy", "country_transition_risk_v2">>
MCFewReads == MCFewWrites

\* Jobs are interchangeable, and so are versions where none is thin; not used
\* with liveness.
Symmetry == Permutations(Jobs) \cup Permutations(Gens)
=============================================================================
