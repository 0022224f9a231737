------------------------------ MODULE MCFetch ------------------------------
(* Small instances of Fetch for TLC. *)
EXTENDS Fetch

\* One code of each kind: success, two hard failures, a retryable one, and one
\* that is neither.
MCStatuses == {200, 401, 404, 503}
=============================================================================
