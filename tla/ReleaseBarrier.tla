--------------------------- MODULE ReleaseBarrier ---------------------------
(***************************************************************************)
(* What the publishing barrier promises to everything downstream of it,    *)
(* with no lake, no stages and no files: the docstring of                  *)
(* publishing/barrier.py as a state machine.                               *)
(*                                                                         *)
(* A run records its evidence, and then either becomes the latest release  *)
(* or is retired without ever having been it.  Only a run whose evidence   *)
(* is recorded can be promoted, a run is promoted at most once, and a run  *)
(* that was retired (failed, blocked or crashed) never comes back.         *)
(***************************************************************************)

CONSTANTS Runs,     \* identifiers of pipeline runs
          NoRun     \* the pointer before the first release

VARIABLES latest,     \* the run the pointer names, or NoRun
          recorded,   \* runs whose evidence manifest is stored
          retired     \* runs that can no longer change the pointer

vars == <<latest, recorded, retired>>

TypeOK ==
    /\ latest \in Runs \cup {NoRun}
    /\ recorded \subseteq Runs
    /\ retired \subseteq Runs

Init ==
    /\ latest = NoRun
    /\ recorded = {}
    /\ retired = {}

\* Evidence is written once and never rewritten or withdrawn.
Record(r) ==
    /\ r \notin recorded \cup retired
    /\ recorded' = recorded \cup {r}
    /\ UNCHANGED <<latest, retired>>

\* The pointer moves, to a run that can then not be promoted again.
Promote(r) ==
    /\ r \in recorded \ retired
    /\ latest' = r
    /\ retired' = retired \cup {r}
    /\ UNCHANGED recorded

\* A run ends without touching the pointer.
Retire(r) ==
    /\ r \notin retired
    /\ retired' = retired \cup {r}
    /\ UNCHANGED <<latest, recorded>>

Next == \E r \in Runs : Record(r) \/ Promote(r) \/ Retire(r)

Spec == Init /\ [][Next]_vars
=============================================================================
