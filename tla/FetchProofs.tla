---------------------------- MODULE FetchProofs ----------------------------
(***************************************************************************)
(* What TLAPS proves of Fetch, for every set of status codes and every     *)
(* number of attempts.                                                     *)
(*                                                                         *)
(* The invariant adds to the type what connects the loop variable with the *)
(* history: while a GET is in progress, exactly the earlier attempts       *)
(* failed, so a GET that gives up has met MaxAttempts failures.            *)
(***************************************************************************)
EXTENDS Fetch, TLAPS

\* Earlier attempts failed, earlier URLs are answered, later ones untouched.
Counted ==
    /\ state = "get" => failures[url] = attempt - 1
    /\ state = "get" => \A u \in {1, 2} : u > url => failures[u] = 0
    /\ \A u \in {1, 2} : u < url => got[u] # None

Inv == TypeOK /\ Counted /\ TransientsMasked

-----------------------------------------------------------------------------
\* Both URLs of the World Bank, the only one of OWID.
LEMMA UrlsAre ==
    ASSUME NEW s \in Sources
    PROVE  /\ s \in Owid => Urls(s) = {1}
           /\ s \notin Owid => Urls(s) = {1, 2} /\ s = "world_bank_wdi"
    BY DEF Urls, Sources, Owid

\* An OWID answer that is as it should be is accepted.
LEMMA GoodOwid ==
    ASSUME NEW r \in Responses, Good(r)
    PROVE  OwidVerdict(r) = "accepted"
    BY DEF Good, OwidVerdict, TransportFatal

\* So are two World Bank answers that are as they should be.
LEMMA GoodWorldBank ==
    ASSUME NEW g \in [{1, 2} -> Responses], \A u \in {1, 2} : Good(g[u])
    PROVE  WorldBankVerdict(g) = "accepted"
<1> DEFINE rows == {u \in Urls("world_bank_wdi") : HasRows(g[u])}
<1> DEFINE bodies == {g[u].body : u \in rows}
<1>1. rows = {1, 2} /\ Urls("world_bank_wdi") = {1, 2}
    BY DEF Good, HasRows, Urls, Owid
<1>2. bodies = {"rows"}
    BY <1>1 DEF Good
<1>3. QED
    BY <1>1, <1>2 DEF WorldBankVerdict, MissingColumns

\* A verdict is one of the three ends.
LEMMA VerdictEnds ==
    ASSUME NEW r, NEW g
    PROVE  OwidVerdict(r) \in Ended /\ WorldBankVerdict(g) \in Ended
    BY DEF OwidVerdict, WorldBankVerdict, Ended

-----------------------------------------------------------------------------
\* The invariant holds when an ingest starts.
LEMMA InitInv == Init => Inv
    BY FetchAssumption
       DEF Init, Inv, TypeOK, Counted, TransientsMasked, FirstAttempt, Urls,
           Sources, Owid, Ended

\* A GET meets one transient failure more.
LEMMA FailCounts ==
    ASSUME Inv, state = "get", Fail
    PROVE  /\ failures' \in [{1, 2} -> 0..MaxAttempts]
           /\ failures'[url] = attempt
           /\ \A u \in {1, 2} : u # url => failures'[u] = failures[u]
<1>1. url \in {1, 2} /\ attempt \in 1..MaxAttempts /\ failures[url] = attempt - 1
    BY UrlsAre DEF Inv, TypeOK, Counted
<1>2. failures[url] < MaxAttempts
    BY <1>1, FetchAssumption
<1>3. QED
    BY <1>1, <1>2, FetchAssumption DEF Inv, TypeOK, Fail

\* A transport error keeps the invariant, whether it is the last one or not.
LEMMA TransportErrorInv ==
    ASSUME Inv, TransportError
    PROVE  Inv'
<1> USE FetchAssumption DEF TransportError
<1>1. url \in Urls(source) /\ url \in {1, 2}
    BY UrlsAre DEF Inv, TypeOK
<1>2. CASE LastAttempt(attempt)
  <2>1. state' = "raised" /\ failures'[url] = MaxAttempts
      BY <1>2, FailCounts DEF LastAttempt
  <2>2. QED
      BY <1>1, <1>2, <2>1, FailCounts
         DEF Inv, TypeOK, Counted, TransientsMasked, Ended
<1>3. CASE ~LastAttempt(attempt)
  <2>1. state' = "get" /\ attempt' = attempt + 1 /\ attempt' \in 1..MaxAttempts
      BY <1>3 DEF LastAttempt, AfterError, Inv, TypeOK
  <2>2. QED
      BY <1>1, <2>1, FailCounts DEF Inv, TypeOK, Counted, TransientsMasked
<1>4. QED
    BY <1>2, <1>3

\* So does a retry.
LEMMA RetryInv ==
    ASSUME Inv, Retry
    PROVE  Inv'
<1> USE FetchAssumption DEF Retry
<1>1. url \in Urls(source) /\ url \in {1, 2}
    BY UrlsAre DEF Inv, TypeOK
<1>2. state' = "get" /\ attempt' = attempt + 1 /\ attempt' \in 1..MaxAttempts
    BY DEF LastAttempt, Inv, TypeOK
<1>3. QED
    BY <1>1, <1>2, FailCounts DEF Inv, TypeOK, Counted, TransientsMasked

\* So does a response, which leads to the next URL, to validation or, for a
\* body that is not JSON, to an exception.
LEMMA ReturnInv ==
    ASSUME Inv, Return
    PROVE  Inv'
<1>1. PICK r \in Responses :
        /\ Transient(r) => LastAttempt(attempt)
        /\ got' = [got EXCEPT ![url] = r]
        /\ IF Transient(r) THEN Fail ELSE UNCHANGED failures
        /\ IF Raises(source, r)
           THEN state' = "raised" /\ UNCHANGED <<url, attempt>>
           ELSE IF url + 1 \in Urls(source)
                THEN url' = url + 1 /\ attempt' = FirstAttempt /\ UNCHANGED state
                ELSE state' = "validate" /\ UNCHANGED <<url, attempt>>
    BY DEF Return
<1>2. state = "get" /\ source' = source
    BY DEF Return
<1>3. url \in Urls(source) /\ url \in {1, 2}
    BY UrlsAre DEF Inv, TypeOK
<1>4. /\ failures' \in [{1, 2} -> 0..MaxAttempts]
      /\ \A u \in {1, 2} : u # url => failures'[u] = failures[u]
    BY <1>1, <1>2, FailCounts DEF Inv, TypeOK
<1>5. /\ got' \in [{1, 2} -> Responses \cup {None}]
      /\ got'[url] = r /\ r # None
      /\ \A u \in {1, 2} : u # url => got'[u] = got[u]
    BY <1>1, <1>3, NoneIsNoResponse DEF Inv, TypeOK
<1>6. CASE Raises(source, r)
  <2>1. ~Good(got'[url])
      BY <1>5, <1>6 DEF Raises, Good
  <2>2. QED
      BY <1>1, <1>2, <1>3, <1>4, <1>5, <1>6, <2>1
         DEF Inv, TypeOK, Counted, TransientsMasked, Ended
<1>7. CASE ~(Raises(source, r)) /\ url + 1 \in Urls(source)
  <2>1. url = 1 /\ url' = 2 /\ attempt' = 1 /\ state' = "get" /\ source \notin Owid
      BY <1>1, <1>2, <1>3, <1>7, UrlsAre DEF FirstAttempt, Inv, TypeOK
  <2>2. failures'[2] = 0
      BY <1>2, <1>4, <2>1 DEF Inv, Counted
  <2>3. QED
      BY <1>2, <1>3, <1>4, <1>5, <1>7, <2>1, <2>2, UrlsAre, FetchAssumption
         DEF Inv, TypeOK, Counted, TransientsMasked, Ended
<1>8. CASE ~(Raises(source, r)) /\ url + 1 \notin Urls(source)
  <2>1. state' = "validate" /\ url' = url /\ attempt' = attempt
      BY <1>1, <1>8
  <2>2. \A u \in Urls(source) : u # url => u < url
      BY <1>3, <1>8, UrlsAre DEF Inv, TypeOK
  <2>3. \A u \in Urls(source) : got'[u] # None
      BY <1>3, <1>5, <2>2, UrlsAre DEF Inv, TypeOK, Counted
  <2>4. QED
      BY <1>2, <1>3, <1>4, <1>5, <2>1, <2>3
         DEF Inv, TypeOK, Counted, TransientsMasked, Ended
<1>9. QED
    BY <1>6, <1>7, <1>8

\* Validation rejects nothing that is as it should be.
LEMMA ValidateInv ==
    ASSUME Inv, Validate
    PROVE  Inv'
<1>1. /\ state = "validate"
      /\ source' = source /\ url' = url /\ attempt' = attempt
      /\ got' = got /\ failures' = failures
    BY DEF Validate
<1>2. state' \in Ended /\ state' # "get" /\ state' # "validate"
    BY VerdictEnds DEF Validate, Ended
<1>3. ASSUME \A u \in Urls(source) : Good(got[u])
      PROVE  state' = "accepted"
  <2>1. CASE source \in Owid
    <3>1. got[1] \in Responses /\ Good(got[1])
        BY <1>1, <1>3, <2>1, UrlsAre DEF Inv, TypeOK
    <3>2. QED
        BY <2>1, <3>1, GoodOwid DEF Validate
  <2>2. CASE source \notin Owid
    <3>1. got \in [{1, 2} -> Responses] /\ \A u \in {1, 2} : Good(got[u])
        BY <1>1, <1>3, <2>2, UrlsAre DEF Inv, TypeOK
    <3>2. QED
        BY <2>2, <3>1, GoodWorldBank DEF Validate
  <2>3. QED
      BY <2>1, <2>2
<1>4. TransientsMasked'
    BY <1>1, <1>2, <1>3 DEF TransientsMasked, Inv, TypeOK
<1>5. QED
    BY <1>1, <1>2, <1>4 DEF Inv, TypeOK, Counted

\* Every step keeps the invariant.
LEMMA NextInv == Inv /\ [Next]_vars => Inv'
<1>1. ASSUME Inv, UNCHANGED vars PROVE Inv'
    BY <1>1 DEF Inv, TypeOK, Counted, TransientsMasked, vars, Good
<1>2. QED
    BY <1>1, TransportErrorInv, RetryInv, ReturnInv, ValidateInv
       DEF Next, Step, Finished

\* get_with_retry makes at most MaxAttempts requests for a URL, and nothing is
\* validated that was not fetched.
THEOREM FetchTypeCorrect == Spec => []TypeOK
<1>1. Inv => TypeOK
    BY DEF Inv
<1>2. QED
    BY <1>1, InitInv, NextInv, PTL DEF Spec

\* Fewer than MaxAttempts transient failures per URL never show in the verdict.
THEOREM Masking == Spec => []TransientsMasked
<1>1. Inv => TransientsMasked
    BY DEF Inv
<1>2. QED
    BY <1>1, InitInv, NextInv, PTL DEF Spec

-----------------------------------------------------------------------------
\* An accepted OWID answer came with 200 and with its columns.
LEMMA AcceptedOwid ==
    ASSUME NEW r \in Responses, OwidVerdict(r) = "accepted"
    PROVE  r.status = 200 /\ r.body \in {"rows", "no_rows"}
    BY DEF OwidVerdict, TransportFatal, Responses, Bodies

\* Accepted World Bank answers both have rows, or neither has.
LEMMA AcceptedWorldBank ==
    ASSUME NEW g \in [{1, 2} -> Responses], WorldBankVerdict(g) = "accepted"
    PROVE  \/ \A u \in {1, 2} : Good(g[u])
           \/ \A u \in {1, 2} : ~HasRows(g[u])
<1> DEFINE rows == {u \in Urls("world_bank_wdi") : HasRows(g[u])}
<1> DEFINE bodies == {g[u].body : u \in rows}
<1>1. Urls("world_bank_wdi") = {1, 2}
    BY DEF Urls, Owid
<1>2. "column_missing" \notin bodies /\ ~MissingColumns(rows)
          /\ "duplicates" \notin bodies
    BY DEF WorldBankVerdict
<1>3. rows = {} \/ rows = {1, 2}
    BY <1>1, <1>2 DEF MissingColumns
<1>4. CASE rows = {}
    BY <1>1, <1>4
<1>5. CASE rows = {1, 2}
  <2>1. ASSUME NEW u \in {1, 2} PROVE Good(g[u])
    <3>1. HasRows(g[u]) /\ g[u].body \in bodies
        BY <1>5
    <3>2. g[u].status = 200 /\ g[u].body = "rows"
        BY <1>2, <3>1 DEF HasRows
    <3>3. QED
        BY <3>2, NoneIsNoResponse DEF Good
  <2>2. QED
      BY <2>1
<1>6. QED
    BY <1>3, <1>4, <1>5

\* No accepted snapshot is part of what was asked for.
THEOREM Whole == Spec => []NoPartialSnapshot
<1>1. Init => NoPartialSnapshot
    BY DEF Init, NoPartialSnapshot
<1>2. Inv /\ NoPartialSnapshot /\ [Next]_vars => NoPartialSnapshot'
  <2> SUFFICES ASSUME Inv, NoPartialSnapshot, [Next]_vars PROVE NoPartialSnapshot'
      OBVIOUS
  <2>1. CASE Validate
    <3>1. got' = got /\ source' = source /\ state = "validate"
        BY <2>1 DEF Validate
    <3>2. CASE source \in Owid
      <4>1. got[1] \in Responses
          BY <3>1, <3>2, UrlsAre DEF Inv, TypeOK
      <4>2. QED
          BY <2>1, <3>1, <3>2, <4>1, AcceptedOwid DEF Validate, NoPartialSnapshot
    <3>3. CASE source \notin Owid
      <4>1. got \in [{1, 2} -> Responses]
          BY <3>1, <3>3, UrlsAre DEF Inv, TypeOK
      <4>2. state' = "accepted" => WorldBankVerdict(got) = "accepted"
          BY <2>1, <3>3 DEF Validate
      <4>3. state' = "accepted" => \/ \A u \in {1, 2} : Good(got[u])
                                  \/ \A u \in {1, 2} : ~HasRows(got[u])
          BY <4>1, <4>2, AcceptedWorldBank
      <4>4. QED
          BY <3>1, <3>3, <4>3 DEF NoPartialSnapshot, Good, HasRows
    <3>4. QED
        BY <3>2, <3>3
  <2>2. CASE TransportError \/ Retry \/ Return
      BY <2>2 DEF TransportError, Retry, Return, NoPartialSnapshot
  <2>3. CASE UNCHANGED vars
      BY <2>3 DEF vars, NoPartialSnapshot, Good, HasRows
  <2>4. QED
      BY <2>1, <2>2, <2>3 DEF Next, Step, Finished
<1>3. QED
    BY <1>1, <1>2, InitInv, NextInv, PTL DEF Spec
=============================================================================
