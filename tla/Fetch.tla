------------------------------- MODULE Fetch -------------------------------
(***************************************************************************)
(* One source through run_ingest up to its verdict: the bounded retry of   *)
(* every GET (ingestion/http_utils.py), what each adapter makes of the     *)
(* answers (base.py, owid.py, owid_energy.py, world_bank.py) and whether   *)
(* the snapshot is accepted, quarantined, or the source fails.             *)
(*                                                                         *)
(* The verdict is what Pipeline's Fetch and SourceFails choose from: an    *)
(* accepted payload, one with too little in it (Thin), a rejected one      *)
(* (Fatal), or an exception.  A body is reduced to what the adapters can   *)
(* tell apart.                                                             *)
(***************************************************************************)
EXTENDS Naturals

CONSTANTS Statuses,     \* status codes the upstream may answer with
          MaxAttempts,  \* max_attempts of get_with_retry
          None          \* no response

RETRYABLE_STATUS == {429, 500, 502, 503, 504}

ASSUME FetchAssumption ==
    /\ Statuses \subseteq Nat
    /\ MaxAttempts \in Nat \ {0}

\* Bodies: one that httpx itself raises on (a redirect loop, an encoding it
\* cannot undo); nothing; an HTML page; text that does not parse as what was
\* asked for; a well-formed error message; data with no row for our countries;
\* with all of them; with a row twice; with a column missing.
Bodies == {"unreadable", "empty", "html", "garbage", "error",
           "no_rows", "rows", "duplicates", "column_missing"}

Responses == [status: Statuses, body: Bodies]

ASSUME NoneIsNoResponse == None \notin Responses

VARIABLES source,      \* the source being ingested
          url,         \* which of its URLs is being fetched
          attempt,     \* the loop variable of get_with_retry
          got,         \* the response returned for each URL
          state,       \* where run_ingest is, and then the verdict
          failures     \* history: transient failures that each URL met

vars == <<source, url, attempt, got, state, failures>>

-----------------------------------------------------------------------------
(* What the adapters do with the responses.                                *)

Owid == {"owid_co2", "owid_energy"}
Sources == Owid \cup {"world_bank_wdi"}

\* INDICATORS: the World Bank is asked for GDP and for population.
Urls(s) == IF s \in Owid THEN {1} ELSE {1, 2}

\* HttpSourceAdapter.validate_transport.
TransportFatal(r) == r.status # 200 \/ r.body \in {"empty", "html"}

\* OWID: no iso_code column to filter on raises, another missing column or a
\* duplicate row is FATAL, and a panel without our countries is a warning.
OwidVerdict(r) ==
    IF TransportFatal(r) THEN "rejected"
    ELSE CASE r.body \in {"unreadable", "garbage", "error"} -> "raised"
           [] r.body \in {"column_missing", "duplicates"}   -> "rejected"
           [] OTHER                                         -> "accepted"

\* WorldBankAdapter.fetch: rows of one indicator, none unless the status is 200.
HasRows(r) == r.status = 200 /\ r.body \in {"rows", "duplicates", "column_missing"}

\* No response for the caller, or response.json() raises.
Raises(s, r) ==
    \/ r.body = "unreadable"
    \/ s \notin Owid /\ r.status = 200 /\ r.body \in {"empty", "html", "garbage"}

\* Seeded fault: only the GDP column is required.
MissingColumnsGdp(rows) == rows # {} /\ 1 \notin rows

\* A frame of one indicator lacks the column of the other; a frame of none has
\* both columns, and no row.
MissingColumns(rows) == rows # {} /\ rows # Urls("world_bank_wdi")

\* standardise raises on rows without the keys it selects, and joins what
\* there is; quality_checks looks at columns and duplicates.
WorldBankVerdict(g) ==
    LET rows == {u \in Urls("world_bank_wdi") : HasRows(g[u])}
        bodies == {g[u].body : u \in rows}
    IN  IF "column_missing" \in bodies THEN "raised"
        ELSE IF MissingColumns(rows) \/ "duplicates" \in bodies THEN "rejected"
        ELSE "accepted"

-----------------------------------------------------------------------------
(* get_with_retry.                                                         *)

Transient(r) == r.status \in RETRYABLE_STATUS /\ r.body # "unreadable"

\* Seeded fault: gives up one attempt early.
LastAttemptEarly(n) == n >= MaxAttempts - 1

LastAttempt(n) == n = MaxAttempts

\* Seeded fault: a connection error starts the count again.
AfterErrorReset(n) == 1

AfterError(n) == n + 1

\* Seeded fault: attempts are counted from zero.
FirstAttemptZero == 0

FirstAttempt == 1

\* Counted up to MaxAttempts, which is all that the properties ask.
Fail ==
    failures' = IF failures[url] < MaxAttempts
                THEN [failures EXCEPT ![url] = @ + 1] ELSE failures

\* A timeout or a connection error: back off and try again, or raise.
TransportError ==
    /\ state = "get"
    /\ Fail
    /\ IF LastAttempt(attempt)
       THEN state' = "raised" /\ UNCHANGED attempt
       ELSE attempt' = AfterError(attempt) /\ UNCHANGED state
    /\ UNCHANGED <<source, url, got>>

\* A retryable status, with attempts left.
Retry ==
    /\ state = "get"
    /\ ~LastAttempt(attempt)
    /\ \E r \in Responses : Transient(r)
    /\ Fail
    /\ attempt' = attempt + 1
    /\ UNCHANGED <<source, url, got, state>>

\* Any other response, and a retryable one at the last attempt, is returned.
\* The World Bank adapter parses it and turns to its next indicator.
Return ==
    /\ state = "get"
    /\ \E r \in Responses :
        /\ Transient(r) => LastAttempt(attempt)
        /\ got' = [got EXCEPT ![url] = r]
        /\ IF Transient(r) THEN Fail ELSE UNCHANGED failures
        /\ IF Raises(source, r)
           THEN state' = "raised" /\ UNCHANGED <<url, attempt>>
           ELSE IF url + 1 \in Urls(source)
                THEN url' = url + 1 /\ attempt' = FirstAttempt /\ UNCHANGED state
                ELSE state' = "validate" /\ UNCHANGED <<url, attempt>>
    /\ UNCHANGED source

\* Transport and dataset checks, and _resolve_status.
Validate ==
    /\ state = "validate"
    /\ state' = IF source \in Owid THEN OwidVerdict(got[1])
                                  ELSE WorldBankVerdict(got)
    /\ UNCHANGED <<source, url, attempt, got, failures>>

-----------------------------------------------------------------------------
Init ==
    /\ source \in Sources
    /\ url = 1
    /\ attempt = FirstAttempt
    /\ got = [u \in {1, 2} |-> None]
    /\ state = "get"
    /\ failures = [u \in {1, 2} |-> 0]

Ended == {"accepted", "rejected", "raised"}

\* One source per behaviour: ingest handles them one after the other, and
\* they share nothing.
Finished == state \in Ended /\ UNCHANGED vars

Step == TransportError \/ Retry \/ Return \/ Validate

Next == Step \/ Finished

Spec == Init /\ [][Next]_vars

\* The process keeps running; every request ends, by its timeout at the latest.
FairSpec == Spec /\ WF_vars(Step)

-----------------------------------------------------------------------------
(* Properties.                                                             *)

\* The shape of the state; at most MaxAttempts requests are made for a URL, and
\* what is validated has a response for every URL.
TypeOK ==
    /\ source \in Sources
    /\ url \in Urls(source)
    /\ attempt \in 1..MaxAttempts
    /\ got \in [{1, 2} -> Responses \cup {None}]
    /\ state \in {"get", "validate"} \cup Ended
    /\ failures \in [{1, 2} -> 0..MaxAttempts]
    /\ state = "validate" => \A u \in Urls(source) : got[u] # None

\* Fewer transient failures than attempts are invisible: a source that answers
\* every URL properly in the end is accepted, and is never given up on or
\* rejected, however the failures were spread over its URLs.
Good(r) == r # None /\ r.status = 200 /\ r.body = "rows"

TransientsMasked ==
    state \in {"rejected", "raised"} =>
        \E u \in Urls(source) :
            failures[u] = MaxAttempts \/ (got[u] # None /\ ~Good(got[u]))

\* No source is accepted on part of what was asked for: an accepted OWID
\* snapshot was answered with 200 and has its columns, and an accepted World
\* Bank snapshot has both indicators, from two 200 answers, or no row at all.
NoPartialSnapshot ==
    state = "accepted" =>
        IF source \in Owid
        THEN got[1].status = 200 /\ got[1].body \in {"rows", "no_rows"}
        ELSE \/ \A u \in {1, 2} : Good(got[u])
             \/ \A u \in {1, 2} : ~HasRows(got[u])

\* http_utils.py: "repeated timeouts ... hard failures that should not retry
\* forever".  Every ingest of a source ends, whatever the upstream does.
Terminates == <>(state \in Ended)
=============================================================================
