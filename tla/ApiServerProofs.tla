--------------------------- MODULE ApiServerProofs ---------------------------
(***************************************************************************)
(* What TLAPS proves of Product and ApiServer, for every set of jobs,      *)
(* versions and replicas, every list of analytics files and of BI tables   *)
(* and any number of faults and restarts.                                  *)
(*                                                                         *)
(* The types and ServedIsOneBundle hold however many jobs overlap;         *)
(* ServedIsOneRelease of one job at a time.  Nothing is ever assumed of    *)
(* the web files: what protects a replica is that it compares them with a  *)
(* manifest, so the invariants are about manifests, the stored one, those  *)
(* in the memory of jobs, and those that replicas have read.               *)
(***************************************************************************)
EXTENDS ApiServer, FiniteSetTheorems, SequenceTheorems, TLAPS

\* What build_manifest returns: every file has a content.
Built == [files: [Files -> Content], run: Jobs \cup {None}]

\* What a job at step p must hold in its memory m.
HoldsAt(p, m) ==
    /\ p = "compute" => m.k < Len(WriteSeq)
    /\ p = "read_analytics" => m.k < Len(ReadSeq)
    /\ p \in {"write_bi", "read_bi"} => m.k < Len(TableSeq)
    /\ p = "write_web" => m.k < Len(FileSeq)
    /\ p \in {"write_bi", "write_web"} => m.tables \in [Tables -> Content]
    /\ p = "read_bi" => \A i \in 1..m.k : m.tables[TableSeq[i]] \in Content
    /\ p \in {"write_web", "write_web_manifest", "verify_files"}
          => m.manifest \in Built

\* What a replica that does u must have read.
HasRead(u, g) ==
    /\ u \in {"starting", "reading_manifest"} => g.k = 0
    /\ u = "reading" => g.k < Len(ApiSeq)
    /\ u \in {"reading", "validating", "serving"} => g.manifest \in Built
    /\ u = "serving" => g.files = g.manifest.files

JobsOK ==
    /\ pc \in [Jobs -> ProductSteps]
    /\ mem \in [Jobs -> JobMemory]
    /\ \A i \in Jobs : HoldsAt(pc[i], mem[i])

ReplicasOK ==
    /\ up \in [Replicas -> ReplicaSteps]
    /\ got \in [Replicas -> ReplicaMemory]
    /\ \A r \in Replicas : HasRead(up[r], got[r])

\* A manifest is only read after it was found, and none is ever removed.
ManifestSeen == \A r \in Replicas : up[r] = "reading_manifest" => manifest # None

\* The stored objects, and the commands.
Stores ==
    /\ analytics \in Versions
    /\ released \in [Jobs -> Versions \cup {None}]
    /\ pointer \in Jobs \cup {None}
    /\ bi \in [Tables -> Content \cup {None}]
    /\ web \in [Files -> Content \cup {None}]
    /\ manifest # None => manifest \in Built
    /\ cmd \in [Jobs -> ProductCommands]
    /\ faults \in Nat

Shape == Stores /\ JobsOK /\ ReplicasOK /\ ManifestSeen /\ recycles \in Nat

-----------------------------------------------------------------------------
(* The lists of tables and files.                                          *)

\* The tables are what TableSeq lists.
LEMMA TableAt ==
    /\ Len(TableSeq) \in Nat
    /\ \A i \in 1..Len(TableSeq) : TableSeq[i] \in Tables
    /\ \A t \in Tables : \E i \in 1..Len(TableSeq) : t = TableSeq[i]
    BY ProductAssumption DEF Tables, ToSet

\* The analytics files are what ReadSeq lists; `run` writes no other.
LEMMA InputAt ==
    /\ Len(ReadSeq) \in Nat /\ Len(ReadSeq) > 0
    /\ Len(WriteSeq) \in Nat /\ Len(WriteSeq) > 0
    /\ \A k \in 1..Len(ReadSeq) : ReadSeq[k] \in Inputs
    /\ \A k \in 1..Len(WriteSeq) : WriteSeq[k] \in Inputs
    /\ \A i \in Inputs : \E k \in 1..Len(ReadSeq) : i = ReadSeq[k]
<1>1. ReadSeq \in Seq(Inputs) /\ WriteSeq \in Seq(Inputs)
    BY ProductAssumption
<1>2. \A i \in Inputs : \E k \in 1..Len(ReadSeq) : i = ReadSeq[k]
    BY DEF Inputs, ToSet
<1>3. \A i \in Inputs : \E k \in 1..Len(WriteSeq) : i = WriteSeq[k]
    BY ProductAssumption DEF ToSet
<1>4. /\ \E k \in 1..Len(ReadSeq) : EnergyTable = ReadSeq[k]
      /\ \E k \in 1..Len(WriteSeq) : EnergyTable = WriteSeq[k]
    BY <1>2, <1>3, ProductAssumption
<1>5. Len(ReadSeq) \in Nat /\ Len(WriteSeq) \in Nat
    BY <1>1
<1>6. Len(ReadSeq) > 0 /\ Len(WriteSeq) > 0
    BY <1>4, <1>5
<1>7. \A k \in 1..Len(ReadSeq) : ReadSeq[k] \in Inputs
    BY <1>1
<1>8. \A k \in 1..Len(WriteSeq) : WriteSeq[k] \in Inputs
    BY <1>1
<1>9. QED
    BY <1>2, <1>5, <1>6, <1>7, <1>8

\* The files are the tables and the country index.
LEMMA FileAt ==
    /\ Files = Tables \cup {"countries"}
    /\ Len(FileSeq) = Len(TableSeq) + 1
    /\ \A i \in 1..Len(FileSeq) : FileSeq[i] \in Files
<1> DEFINE S == Tables \cup {"countries"}
<1>1. /\ FileSeq \in Seq(S)
      /\ Len(FileSeq) = Len(TableSeq) + 1
      /\ \A i \in 1..Len(TableSeq) : FileSeq[i] = TableSeq[i]
      /\ FileSeq[Len(TableSeq) + 1] = "countries"
  <2>1. TableSeq \in Seq(S) /\ "countries" \in S
    BY ProductAssumption
  <2>2. QED
    BY <2>1, AppendProperties DEF FileSeq
<1>2. Files = {FileSeq[i] : i \in 1..Len(FileSeq)}
    BY <1>1 DEF Files, ToSet
<1>3. Tables = {TableSeq[i] : i \in 1..Len(TableSeq)}
    BY ProductAssumption DEF Tables, ToSet
<1>4. Len(TableSeq) \in Nat
    BY TableAt
<1>5. Files \subseteq Tables \cup {"countries"}
  <2>1. \A i \in 1..Len(FileSeq) : i \in 1..Len(TableSeq) \/ i = Len(TableSeq) + 1
    BY <1>1, <1>4
  <2>2. QED
    BY <1>1, <1>2, <1>3, <2>1
<1>6. Tables \cup {"countries"} \subseteq Files
  <2>1. \A i \in 1..Len(TableSeq) : i \in 1..Len(FileSeq)
    BY <1>1, <1>4
  <2>2. Len(TableSeq) + 1 \in 1..Len(FileSeq)
    BY <1>1, <1>4
  <2>3. QED
    BY <1>1, <1>2, <1>3, <2>1, <2>2
<1>7. QED
    BY <1>1, <1>2, <1>5, <1>6

\* A replica reads the country index and then the tables.
LEMMA ApiFileAt ==
    /\ Len(ApiSeq) = Len(TableSeq) + 1
    /\ \A i \in 1..Len(ApiSeq) : ApiSeq[i] \in Files
<1> DEFINE S == Tables \cup {"countries"}
<1>1. /\ Len(ApiSeq) = Len(TableSeq) + 1
      /\ \A i \in 1..Len(ApiSeq) :
            ApiSeq[i] = IF i = 1 THEN "countries" ELSE TableSeq[i - 1]
  <2>1. TableSeq \in Seq(S) /\ <<"countries">> \in Seq(S)
    BY ProductAssumption
  <2>2. Len(<<"countries">>) = 1 /\ <<"countries">>[1] = "countries"
    OBVIOUS
  <2>3. QED
    BY <2>1, <2>2, TableAt, ConcatProperties DEF ApiSeq
<1>2. \A i \in 1..Len(ApiSeq) : i # 1 => i - 1 \in 1..Len(TableSeq)
    BY <1>1, TableAt
<1>3. QED
    BY <1>1, <1>2, TableAt, FileAt

-----------------------------------------------------------------------------
(* Contents.                                                               *)

\* A built manifest is a manifest, and no absent object.
LEMMA BuiltIsManifest ==
    /\ Built \subseteq Manifest
    /\ None \notin Content /\ None \notin Built
    BY NoneIsNoObject DEF Built, Manifest

\* What a table shows of the files read and of a run is a content.
LEMMA TableContent ==
    ASSUME NEW t, NEW read \in Versions, NEW run \in Jobs \cup {None}
    PROVE  TableOf(t, read, run) \in Content
<1>1. [i \in Inputs |-> IF i \in Shows[t] THEN read[i] ELSE None] \in Versions
    BY DEF Versions
<1>2. QED
    BY <1>1 DEF TableOf, Content

\* A bundle of tables gives every file a content.
LEMMA BundleContent ==
    ASSUME NEW tables \in [Tables -> Content]
    PROVE  BundleOf(tables) \in [Files -> Content]
<1>1. "country_overview" \in Tables
    BY ProductAssumption
<1>2. [of |-> tables["country_overview"].of, run |-> None] \in Content
    BY <1>1 DEF Content
<1>3. \A f \in Files : f = "countries" \/ f \in Tables
    BY FileAt
<1>4. QED
    BY <1>2, <1>3 DEF BundleOf

\* And its manifest names the run of its own run metadata.
LEMMA ManifestBuilt ==
    ASSUME NEW tables \in [Tables -> Content]
    PROVE  /\ ManifestOf(BundleOf(tables)) \in Built
           /\ ManifestOf(BundleOf(tables)).files = BundleOf(tables)
<1> DEFINE b == BundleOf(tables)
<1>1. b \in [Files -> Content]
    BY BundleContent
<1> HIDE DEF b
<1>2. "run_metadata" \in Files
    BY ProductAssumption, FileAt
<1>3. b["run_metadata"].run \in Jobs \cup {None}
    BY <1>1, <1>2 DEF Content
<1>4. ManifestOf(b) \in Built /\ ManifestOf(b).files = b
    BY <1>1, <1>3 DEF ManifestOf, Built
<1>5. QED
    BY <1>4 DEF b

\* A job that holds nothing holds what every other step needs.
LEMMA BlankMemory ==
    ASSUME NEW e \in Jobs \cup {None}
    PROVE  /\ Blank(e) \in JobMemory
           /\ Blank(e).k = 0
           /\ Blank(e).expected = e
    BY DEF Blank, JobMemory, Versions

-----------------------------------------------------------------------------
(* One step of one job preserves the shape of everything.                  *)

\* It is enough to look at the job that moves.
LEMMA OneJob ==
    ASSUME JobsOK, NEW j \in Jobs, NEW step \in ProductSteps,
           NEW m \in JobMemory, HoldsAt(step, m), Proceed(j, step, m)
    PROVE  JobsOK'
    BY DEF JobsOK, Proceed

\* A command may always end.
LEMMA EndOK ==
    ASSUME JobsOK, NEW j \in Jobs, NEW how \in ProductStopped, End(j, how)
    PROVE  JobsOK'
<1>1. Blank(None) \in JobMemory /\ how \in ProductSteps
    BY BlankMemory DEF ProductSteps
<1>2. HoldsAt(how, Blank(None))
    BY DEF HoldsAt, ProductStopped
<1>3. QED
    BY <1>1, <1>2, OneJob DEF End

\* The steps that write no object and no command.
LEMMA OnlyMoves ==
    ASSUME Stores, faults' \in Nat,
           UNCHANGED <<coreVars, bi, web, manifest, cmd>>
    PROVE  Stores'
    BY DEF Stores, coreVars

\* A command begins with nothing read or written.
LEMMA BeginShape ==
    ASSUME Stores, JobsOK, NEW j \in Jobs, Begin(j)
    PROVE  Stores' /\ JobsOK'
<1>1. PICK c \in Commands :
        /\ cmd' = [cmd EXCEPT ![j] = c]
        /\ Proceed(j, FirstStep[c], Blank(None))
        /\ UNCHANGED <<coreVars, bi, web, manifest, faults>>
    BY DEF Begin
<1>2. c \in ProductCommands
    BY ProductAssumption
<1>3. FirstStep[c] \in {"compute", "require", "read_analytics", "read_bi"}
    BY <1>2 DEF ProductCommands, FirstStep
<1>4. Blank(None) \in JobMemory /\ Blank(None).k = 0
    BY BlankMemory
<1>5. Len(TableSeq) > 0
    BY ProductAssumption, TableAt
<1>6. HoldsAt(FirstStep[c], Blank(None))
    BY <1>3, <1>4, <1>5, InputAt DEF HoldsAt
<1>7. JobsOK'
    BY <1>1, <1>3, <1>4, <1>6, OneJob DEF ProductSteps
<1>8. Stores'
    BY <1>1, <1>2 DEF Stores, coreVars
<1>9. QED
    BY <1>7, <1>8

\* An exception or the end of the process leaves a job that holds nothing.
LEMMA FailShape ==
    ASSUME Stores, JobsOK, NEW j \in Jobs, Fails(j) \/ Killed(j)
    PROVE  Stores' /\ JobsOK'
<1>1. JobsOK'
    BY EndOK DEF Fails, Killed, ProductStopped
<1>2. faults' \in Nat
    BY DEF Fails, Killed, ProductFault, Stores
<1>3. QED
    BY <1>1, <1>2, OnlyMoves DEF Fails, Killed

\* The core stages and publish: analytics, evidence and pointer.
LEMMA CoreShape ==
    ASSUME Stores, JobsOK, NEW j \in Jobs,
           Compute(j) \/ CorePublish(j) \/ RequireCoreRelease(j)
    PROVE  Stores' /\ JobsOK'
<1>1. mem[j] \in JobMemory
    BY DEF JobsOK
<1>2. CASE Compute(j)
  <2> DEFINE k == mem[j].k + 1
             m == [mem[j] EXCEPT !.k = k]
  <2>1. mem[j].k \in Nat /\ mem[j].k < Len(WriteSeq)
    BY <1>1, <1>2 DEF Compute, JobsOK, HoldsAt, JobMemory
  <2>2. \/ analytics' = analytics
        \/ \E g \in Gens : analytics' = [analytics EXCEPT ![WriteSeq[k]] = g]
    BY <1>2 DEF Compute
  <2>3. Stores'
    BY <1>2, <2>2 DEF Compute, Stores, Versions
  <2>4. CASE k < Len(WriteSeq)
    <3>1. m \in JobMemory /\ m.k = k
      BY <1>1, <2>1 DEF JobMemory
    <3>2. Proceed(j, "compute", m)
      BY <1>2, <2>4 DEF Compute
    <3> HIDE DEF m
    <3>3. HoldsAt("compute", m)
      BY <2>4, <3>1 DEF HoldsAt
    <3>4. QED
      BY <2>3, <3>1, <3>2, <3>3, OneJob DEF ProductSteps
  <2>5. CASE ~(k < Len(WriteSeq))
    <3>1. Proceed(j, "publish", Blank(None))
      BY <1>2, <2>5 DEF Compute
    <3>2. Blank(None) \in JobMemory /\ HoldsAt("publish", Blank(None))
      BY BlankMemory DEF HoldsAt
    <3>3. QED
      BY <2>3, <3>1, <3>2, OneJob DEF ProductSteps
  <2>6. QED
    BY <2>4, <2>5
<1>3. CASE CorePublish(j)
  <2>1. CASE End(j, "exit") /\ UNCHANGED <<released, pointer>>
    BY <1>3, <2>1, EndOK DEF CorePublish, ProductStopped, Stores
  <2>2. CASE /\ released' = [released EXCEPT ![j] = analytics]
             /\ pointer' = j
             /\ Proceed(j, "require", mem[j])
    <3>1. HoldsAt("require", mem[j]) /\ "require" \in ProductSteps
      BY DEF HoldsAt, ProductSteps
    <3>2. JobsOK'
      BY <1>1, <2>2, <3>1, OneJob
    <3>3. Stores'
      BY <1>3, <2>2 DEF CorePublish, Stores
    <3>4. QED
      BY <3>2, <3>3
  <2>3. QED
    BY <1>3, <2>1, <2>2 DEF CorePublish
<1>4. CASE RequireCoreRelease(j)
  <2>1. CASE pointer = None
    BY <1>4, <2>1, EndOK, OnlyMoves
       DEF RequireCoreRelease, ProductStopped, Stores
  <2>2. CASE pointer # None
    <3>1. Blank(pointer) \in JobMemory /\ Blank(pointer).k = 0
      BY BlankMemory DEF Stores
    <3>2. HoldsAt("read_analytics", Blank(pointer))
      BY <3>1, InputAt DEF HoldsAt
    <3>3. JobsOK'
      BY <1>4, <2>2, <3>1, <3>2, OneJob DEF RequireCoreRelease, ProductSteps
    <3>4. QED
      BY <1>4, <3>3, OnlyMoves DEF RequireCoreRelease, Stores
  <2>3. QED
    BY <2>1, <2>2
<1>5. QED
    BY <1>2, <1>3, <1>4

\* build_bi_artifacts reads; write_bi_artifacts writes the tables it holds.
LEMMA BiShape ==
    ASSUME Stores, JobsOK, NEW j \in Jobs,
           ReadAnalytics(j) \/ ReadPointer(j) \/ WriteBi(j)
    PROVE  Stores' /\ JobsOK'
<1>1. mem[j] \in JobMemory /\ HoldsAt(pc[j], mem[j])
    BY DEF JobsOK
<1>2. Len(TableSeq) > 0 /\ Len(TableSeq) \in Nat
    BY ProductAssumption, TableAt
<1>3. CASE ReadAnalytics(j)
  <2> DEFINE k == mem[j].k + 1
             i == ReadSeq[k]
             read == [mem[j].read EXCEPT ![i] = analytics[i]]
             m == [mem[j] EXCEPT !.k = k, !.read = read]
             n == [mem[j] EXCEPT !.k = 0, !.read = read]
  <2>1. mem[j].k \in Nat /\ mem[j].k < Len(ReadSeq)
    BY <1>1, <1>3 DEF ReadAnalytics, HoldsAt, JobMemory
  <2>2. i \in Inputs
    BY <2>1, InputAt
  <2>3. read \in Versions
    BY <1>1, <2>2 DEF JobMemory, Stores, Versions
  <2>4. Stores'
    BY <1>3, OnlyMoves DEF ReadAnalytics, Stores
  <2>5. \/ End(j, "exit")
        \/ k < Len(ReadSeq) /\ Proceed(j, "read_analytics", m)
        \/ Proceed(j, "read_pointer", n)
    BY <1>3 DEF ReadAnalytics
  <2> HIDE DEF read
  <2>6. CASE End(j, "exit")
    BY <2>4, <2>6, EndOK DEF ProductStopped
  <2>7. CASE k < Len(ReadSeq) /\ Proceed(j, "read_analytics", m)
    <3>0. k \in Nat
      BY <2>1
    <3> HIDE DEF k
    <3>1. m \in JobMemory /\ m.k = k
      BY <1>1, <2>3, <3>0 DEF JobMemory
    <3> HIDE DEF m
    <3>2. HoldsAt("read_analytics", m)
      BY <2>7, <3>1 DEF HoldsAt
    <3>3. QED
      BY <2>4, <2>7, <3>1, <3>2, OneJob DEF ProductSteps
  <2>8. CASE Proceed(j, "read_pointer", n)
    <3>1. n \in JobMemory
      BY <1>1, <2>3 DEF JobMemory
    <3> HIDE DEF n
    <3>2. HoldsAt("read_pointer", n)
      BY DEF HoldsAt
    <3>3. QED
      BY <2>4, <2>8, <3>1, <3>2, OneJob DEF ProductSteps
  <2>9. QED
    BY <2>5, <2>6, <2>7, <2>8
<1>4. CASE ReadPointer(j)
  <2> DEFINE tables == [t \in Tables |-> TableOf(t, mem[j].read, pointer)]
             b == Blank(mem[j].expected)
             m == [b EXCEPT !.tables = tables]
  <2>1. /\ mem[j].read \in Versions /\ pointer \in Jobs \cup {None}
        /\ b \in JobMemory /\ b.k = 0
    BY <1>1, BlankMemory DEF JobMemory, Stores
  <2>2. tables \in [Tables -> Content]
    BY <2>1, TableContent
  <2>3. Proceed(j, "write_bi", m)
    BY <1>4 DEF ReadPointer
  <2> HIDE DEF tables, b
  <2>4. m \in JobMemory /\ m.k = 0 /\ m.tables = tables
    BY <2>1, <2>2 DEF JobMemory
  <2> HIDE DEF m
  <2>5. HoldsAt("write_bi", m)
    BY <1>2, <2>2, <2>4 DEF HoldsAt
  <2>6. JobsOK'
    BY <2>3, <2>4, <2>5, OneJob DEF ProductSteps
  <2>7. QED
    BY <1>4, <2>6, OnlyMoves DEF ReadPointer, Stores
<1>5. CASE WriteBi(j)
  <2> DEFINE k == mem[j].k + 1
             m == [mem[j] EXCEPT !.k = k]
  <2>1. mem[j].k \in Nat /\ mem[j].k < Len(TableSeq)
    BY <1>1, <1>5 DEF WriteBi, JobMemory, HoldsAt
  <2>2. mem[j].tables \in [Tables -> Content]
    BY <1>1, <1>5 DEF WriteBi, HoldsAt
  <2>3. TableSeq[k] \in Tables
    BY <1>2, <2>1, TableAt
  <2>4. bi' = [bi EXCEPT ![TableSeq[k]] = mem[j].tables[TableSeq[k]]]
    BY <1>5 DEF WriteBi
  <2>5. Stores'
    BY <1>5, <2>2, <2>3, <2>4 DEF WriteBi, Stores, coreVars
  <2>6. CASE k < Len(TableSeq)
    <3>1. m \in JobMemory /\ m.k = k /\ m.tables = mem[j].tables
      BY <1>1, <2>1 DEF JobMemory
    <3>2. Proceed(j, "write_bi", m)
      BY <1>5, <2>6 DEF WriteBi
    <3> HIDE DEF m
    <3>3. HoldsAt("write_bi", m)
      BY <2>2, <2>6, <3>1 DEF HoldsAt
    <3>4. QED
      BY <2>5, <3>1, <3>2, <3>3, OneJob DEF ProductSteps
  <2>7. CASE ~(k < Len(TableSeq)) /\ cmd[j] = "build_bi"
    <3>1. End(j, "done")
      BY <1>5, <2>7 DEF WriteBi
    <3>2. QED
      BY <2>5, <3>1, EndOK DEF ProductStopped
  <2>8. CASE ~(k < Len(TableSeq)) /\ cmd[j] # "build_bi"
    <3>1. Blank(mem[j].expected) \in JobMemory /\ Blank(mem[j].expected).k = 0
      BY <1>1, BlankMemory DEF JobMemory
    <3>2. HoldsAt("read_bi", Blank(mem[j].expected))
      BY <1>2, <3>1 DEF HoldsAt
    <3>3. Proceed(j, "read_bi", Blank(mem[j].expected))
      BY <1>5, <2>8 DEF WriteBi
    <3>4. QED
      BY <2>5, <3>1, <3>2, <3>3, OneJob DEF ProductSteps
  <2>9. QED
    BY <2>6, <2>7, <2>8
<1>6. QED
    BY <1>3, <1>4, <1>5

\* build_web_bundle reads every table and, after the last, holds a bundle and
\* its manifest.
LEMMA ReadBiShape ==
    ASSUME Stores, JobsOK, NEW j \in Jobs, ReadBi(j)
    PROVE  Stores' /\ JobsOK'
<1> DEFINE k == mem[j].k + 1
           t == TableSeq[k]
           tables == [mem[j].tables EXCEPT ![t] = bi[t]]
<1>1. mem[j] \in JobMemory /\ HoldsAt("read_bi", mem[j])
    BY DEF JobsOK, ReadBi
<1>2. mem[j].k \in Nat /\ mem[j].k < Len(TableSeq) /\ Len(TableSeq) \in Nat
    BY <1>1, TableAt DEF JobMemory, HoldsAt
<1>3. t \in Tables
    BY <1>2, TableAt
<1>4. Stores'
    BY OnlyMoves DEF ReadBi, Stores
<1>5. CASE bi[t] = None
  <2>1. End(j, "exit")
    BY <1>5 DEF ReadBi
  <2>2. QED
    BY <1>4, <2>1, EndOK DEF ProductStopped
<1>6. ASSUME bi[t] # None
      PROVE  /\ tables \in [Tables -> Content \cup {None}]
             /\ \A i \in 1..k : tables[TableSeq[i]] \in Content
  <2>1. mem[j].tables \in [Tables -> Content \cup {None}]
    BY <1>1 DEF JobMemory
  <2>2. bi[t] \in Content
    BY <1>3, <1>6 DEF Stores
  <2>3. \A i \in 1..(k - 1) : mem[j].tables[TableSeq[i]] \in Content
    BY <1>1, <1>2 DEF HoldsAt
  <2>4. ASSUME NEW i \in 1..k
        PROVE  tables[TableSeq[i]] \in Content
    <3>1. TableSeq[i] \in Tables
      BY <1>2, TableAt
    <3>2. CASE TableSeq[i] = t
      BY <2>1, <2>2, <3>1, <3>2
    <3>3. CASE TableSeq[i] # t
      <4>1. i \in 1..(k - 1)
        BY <1>2, <3>3
      <4>2. QED
        BY <2>1, <2>3, <3>1, <3>3, <4>1
    <3>4. QED
      BY <3>2, <3>3
  <2>5. QED
    BY <1>3, <2>1, <2>2, <2>4
<1>7. CASE bi[t] # None /\ k < Len(TableSeq)
  <2> DEFINE m == [mem[j] EXCEPT !.k = k, !.tables = tables]
  <2>1. Proceed(j, "read_bi", m)
    BY <1>7 DEF ReadBi
  <2>2. tables \in [Tables -> Content \cup {None}] /\ k \in Nat
    BY <1>2, <1>6, <1>7
  <2> HIDE DEF tables, k
  <2>3. m \in JobMemory /\ m.k = k /\ m.tables = tables
    BY <1>1, <2>2 DEF JobMemory
  <2> HIDE DEF m
  <2>4. HoldsAt("read_bi", m)
    BY <1>6, <1>7, <2>3 DEF HoldsAt
  <2>5. QED
    BY <1>4, <2>1, <2>3, <2>4, OneJob DEF ProductSteps
<1>8. CASE bi[t] # None /\ ~(k < Len(TableSeq))
  <2> DEFINE made == ManifestOf(BundleOf(tables))
             b == Blank(mem[j].expected)
             m == [b EXCEPT !.manifest = made, !.tables = tables]
  <2>1. Proceed(j, "write_web", m)
    BY <1>8 DEF ReadBi
  <2>2. k = Len(TableSeq)
    BY <1>2, <1>8
  <2>3. tables \in [Tables -> Content]
    BY <1>6, <1>8, <2>2, TableAt
  <2> HIDE DEF tables
  <2>4. made \in Built /\ made \in Manifest
    BY <2>3, ManifestBuilt, BuiltIsManifest
  <2>5. b \in JobMemory /\ b.k = 0
    BY <1>1, BlankMemory DEF JobMemory
  <2> HIDE DEF made, b
  <2>6. m \in JobMemory /\ m.k = 0 /\ m.tables = tables /\ m.manifest = made
    BY <2>3, <2>4, <2>5 DEF JobMemory
  <2> HIDE DEF m
  <2>7. HoldsAt("write_web", m)
    BY <1>2, <2>3, <2>4, <2>6, FileAt DEF HoldsAt
  <2>8. QED
    BY <1>4, <2>1, <2>6, <2>7, OneJob DEF ProductSteps
<1>9. QED
    BY <1>5, <1>7, <1>8

\* write_web_bundle writes the files of the bundle it holds, then the manifest.
LEMMA WriteWebShape ==
    ASSUME Stores, JobsOK, NEW j \in Jobs, WriteWeb(j)
    PROVE  Stores' /\ JobsOK'
<1> DEFINE k == mem[j].k + 1
           f == FileSeq[k]
<1>1. mem[j] \in JobMemory /\ HoldsAt("write_web", mem[j])
    BY DEF JobsOK, WriteWeb
<1>2. mem[j].k \in Nat /\ mem[j].k < Len(FileSeq) /\ Len(FileSeq) \in Nat
    BY <1>1, TableAt, FileAt DEF JobMemory, HoldsAt
<1>3. f \in Files
    BY <1>2, FileAt
<1>4. mem[j].tables \in [Tables -> Content] /\ mem[j].manifest \in Built
    BY <1>1 DEF HoldsAt
<1>5. BundleOf(mem[j].tables)[f] \in Content
    BY <1>3, <1>4, BundleContent
<1>6. Stores'
    BY <1>3, <1>5 DEF WriteWeb, Stores, coreVars
<1>7. CASE k < Len(FileSeq)
  <2> DEFINE m == [mem[j] EXCEPT !.k = k]
  <2>1. Proceed(j, "write_web", m)
    BY <1>7 DEF WriteWeb
  <2>2. /\ m \in JobMemory /\ m.k = k
        /\ m.tables = mem[j].tables /\ m.manifest = mem[j].manifest
    BY <1>1, <1>2 DEF JobMemory
  <2> HIDE DEF m
  <2>3. HoldsAt("write_web", m)
    BY <1>4, <1>7, <2>2 DEF HoldsAt
  <2>4. QED
    BY <1>6, <2>1, <2>2, <2>3, OneJob DEF ProductSteps
<1>8. CASE ~(k < Len(FileSeq))
  <2> DEFINE b == Blank(mem[j].expected)
             m == [b EXCEPT !.manifest = mem[j].manifest]
  <2>1. Proceed(j, "write_web_manifest", m)
    BY <1>8 DEF WriteWeb
  <2>2. b \in JobMemory
    BY <1>1, BlankMemory DEF JobMemory
  <2> HIDE DEF b
  <2>3. m \in JobMemory /\ m.manifest = mem[j].manifest
    BY <1>4, <2>2, BuiltIsManifest DEF JobMemory
  <2> HIDE DEF m
  <2>4. HoldsAt("write_web_manifest", m)
    BY <1>4, <2>3 DEF HoldsAt
  <2>5. QED
    BY <1>6, <2>1, <2>3, <2>4, OneJob DEF ProductSteps
<1>9. QED
    BY <1>7, <1>8

LEMMA WriteManifestShape ==
    ASSUME Stores, JobsOK, NEW j \in Jobs, WriteWebManifest(j)
    PROVE  Stores' /\ JobsOK'
<1>1. mem[j] \in JobMemory /\ mem[j].manifest \in Built
    BY DEF JobsOK, HoldsAt, WriteWebManifest
<1>2. Stores'
    BY <1>1 DEF WriteWebManifest, Stores, coreVars
<1>3. CASE cmd[j] = "build_web"
    BY <1>2, <1>3, EndOK DEF WriteWebManifest, ProductStopped
<1>4. CASE cmd[j] # "build_web"
  <2>1. Blank(mem[j].expected) \in JobMemory
    BY <1>1, BlankMemory DEF JobMemory
  <2>2. HoldsAt("verify", Blank(mem[j].expected))
    BY DEF HoldsAt
  <2>3. QED
    BY <1>2, <1>4, <2>1, <2>2, OneJob DEF WriteWebManifest, ProductSteps
<1>5. QED
    BY <1>3, <1>4

\* verify_product_publication writes nothing.
LEMMA VerifyShape ==
    ASSUME Stores, JobsOK, NEW j \in Jobs, VerifyManifest(j) \/ VerifyFile(j)
    PROVE  Stores' /\ JobsOK'
<1>1. mem[j] \in JobMemory /\ HoldsAt(pc[j], mem[j])
    BY DEF JobsOK
<1>2. Stores'
    BY OnlyMoves DEF VerifyManifest, VerifyFile, Stores
<1>3. CASE VerifyManifest(j)
  <2> DEFINE m == [mem[j] EXCEPT !.manifest = manifest, !.left = Files]
  <2>1. CASE End(j, "exit")
    BY <1>2, <2>1, EndOK DEF ProductStopped
  <2>2. CASE manifest # None /\ Proceed(j, "verify_files", m)
    <3>1. manifest \in Built /\ manifest \in Manifest
      BY <2>2, BuiltIsManifest DEF Stores
    <3>2. m \in JobMemory /\ m.manifest = manifest
      BY <1>1, <3>1 DEF JobMemory
    <3> HIDE DEF m
    <3>3. HoldsAt("verify_files", m)
      BY <3>1, <3>2 DEF HoldsAt
    <3>4. QED
      BY <1>2, <2>2, <3>2, <3>3, OneJob DEF ProductSteps
  <2>3. QED
    BY <1>3, <2>1, <2>2 DEF VerifyManifest
<1>4. CASE VerifyFile(j)
  <2>1. PICK f \in mem[j].left :
          LET left == mem[j].left \ {f}
              missing == mem[j].missing \cup (IF Wrong(j, f) THEN {f} ELSE {})
          IN  IF left # {}
              THEN Proceed(j, "verify_files",
                           [mem[j] EXCEPT !.left = left, !.missing = missing])
              ELSE End(j, IF missing = {} THEN "done" ELSE "exit")
    BY <1>4 DEF VerifyFile
  <2> DEFINE left == mem[j].left \ {f}
             missing == mem[j].missing \cup (IF Wrong(j, f) THEN {f} ELSE {})
             m == [mem[j] EXCEPT !.left = left, !.missing = missing]
  <2>2. left \in SUBSET Files /\ missing \in SUBSET Files
    BY <1>1, <2>1 DEF JobMemory
  <2>3. CASE left # {}
    <3>1. Proceed(j, "verify_files", m)
      BY <2>1, <2>3
    <3> HIDE DEF left, missing
    <3>2. m \in JobMemory /\ m.manifest = mem[j].manifest
      BY <1>1, <2>2 DEF JobMemory
    <3> HIDE DEF m
    <3>3. HoldsAt("verify_files", m)
      BY <1>1, <1>4, <3>2 DEF HoldsAt, VerifyFile
    <3>4. QED
      BY <1>2, <3>1, <3>2, <3>3, OneJob DEF ProductSteps
  <2>4. CASE left = {}
    <3>1. End(j, IF missing = {} THEN "done" ELSE "exit")
      BY <2>1, <2>4
    <3>2. QED
      BY <1>2, <3>1, EndOK DEF ProductStopped
  <2>5. QED
    BY <2>3, <2>4
<1>5. QED
    BY <1>3, <1>4

\* No step of a job removes the manifest.
LEMMA ManifestStays ==
    ASSUME Stores, JobsOK, ProductNext, manifest # None
    PROVE  manifest' # None
<1>1. \A j \in Jobs : pc[j] = "write_web_manifest" => mem[j].manifest # None
    BY BuiltIsManifest DEF JobsOK, HoldsAt
<1>2. \A j \in Jobs : ~WriteWebManifest(j) =>
        (Begin(j) \/ Fails(j) \/ Killed(j) \/ ProductStep(j) => manifest' = manifest)
    BY DEF Begin, Fails, Killed, ProductStep, Compute, CorePublish,
           RequireCoreRelease, ReadAnalytics, ReadPointer, WriteBi, ReadBi,
           WriteWeb, VerifyManifest, VerifyFile
<1>3. QED
    BY <1>1, <1>2 DEF ProductNext, WriteWebManifest

\* Together: the step of a job.
LEMMA ProductShape ==
    ASSUME Stores, JobsOK, ProductNext
    PROVE  Stores' /\ JobsOK'
<1>1. PICK j \in Jobs : Begin(j) \/ Fails(j) \/ Killed(j) \/ ProductStep(j)
    BY DEF ProductNext
<1>2. CASE Begin(j)
    BY <1>2, BeginShape
<1>3. CASE Fails(j) \/ Killed(j)
    BY <1>3, FailShape
<1>4. CASE ProductStep(j)
    BY <1>4, CoreShape, BiShape, ReadBiShape, WriteWebShape,
       WriteManifestShape, VerifyShape DEF ProductStep
<1>5. QED
    BY <1>1, <1>2, <1>3, <1>4

-----------------------------------------------------------------------------
(* One step of one replica.                                                *)

\* It is enough to look at the replica that moves.
LEMMA OneReplica ==
    ASSUME ReplicasOK, ManifestSeen, NEW r \in Replicas,
           NEW step \in ReplicaSteps, NEW g \in ReplicaMemory,
           HasRead(step, g), step = "reading_manifest" => manifest # None,
           ReplicaTo(r, step, g), manifest' = manifest
    PROVE  ReplicasOK' /\ ManifestSeen'
    BY DEF ReplicasOK, ManifestSeen, ReplicaTo

LEMMA NothingReadShape ==
    /\ NothingRead \in ReplicaMemory
    /\ HasRead("starting", NothingRead) /\ HasRead("failed", NothingRead)
    /\ HasRead("reading_manifest", NothingRead)
    BY TableAt, ApiFileAt DEF NothingRead, ReplicaMemory, HasRead

\* Loading, and being replaced.
LEMMA ReplicaShape ==
    ASSUME Stores, ReplicasOK, ManifestSeen, NEW r \in Replicas,
           LoadStep(r) \/ Recycle(r)
    PROVE  ReplicasOK' /\ ManifestSeen'
<1>1. got[r] \in ReplicaMemory /\ HasRead(up[r], got[r])
    BY DEF ReplicasOK
<1>2. manifest' = manifest
    BY DEF LoadStep, CheckExists, ReadManifest, ReadFile, Validate,
           RestartFailed, Recycle, productVars
<1>3. CASE CheckExists(r) \/ RestartFailed(r) \/ Recycle(r)
  <2>1. \/ ReplicaTo(r, "reading_manifest", NothingRead) /\ manifest # None
        \/ ReplicaTo(r, "failed", NothingRead)
        \/ ReplicaTo(r, "starting", NothingRead)
    BY <1>3 DEF CheckExists, RestartFailed, Recycle
  <2>2. QED
    BY <1>2, <2>1, NothingReadShape, OneReplica DEF ReplicaSteps
<1>4. CASE ReadManifest(r)
  <2> DEFINE g == [got[r] EXCEPT !.manifest = manifest]
  <2>1. manifest \in Built /\ manifest \in Manifest
    BY <1>4, BuiltIsManifest DEF ReadManifest, ManifestSeen, Stores
  <2>2. g \in ReplicaMemory /\ g.k = got[r].k /\ g.manifest = manifest
    BY <1>1, <2>1 DEF ReplicaMemory
  <2>3. ReplicaTo(r, "reading", g)
    BY <1>4 DEF ReadManifest
  <2> HIDE DEF g
  <2>4. HasRead("reading", g)
    BY <1>1, <1>4, <2>1, <2>2, TableAt, ApiFileAt DEF HasRead, ReadManifest
  <2>5. QED
    BY <1>2, <2>2, <2>3, <2>4, OneReplica DEF ReplicaSteps
<1>5. CASE ReadFile(r)
  <2> DEFINE k == got[r].k + 1
             f == ApiSeq[k]
             g == [got[r] EXCEPT !.k = k, !.files[f] = web[f]]
             step == IF k < Len(ApiSeq) THEN "reading" ELSE "validating"
  <2>1. /\ got[r].k \in Nat /\ got[r].k < Len(ApiSeq) /\ Len(ApiSeq) \in Nat
        /\ got[r].manifest \in Built
    BY <1>1, <1>5, TableAt, ApiFileAt DEF ReadFile, HasRead, ReplicaMemory
  <2>2. f \in Files /\ k \in 0..Len(ApiSeq)
    BY <2>1, ApiFileAt
  <2>3. web[f] \in Content \cup {None}
    BY <2>2 DEF Stores
  <2>4. ReplicaTo(r, step, g)
    BY <1>5 DEF ReadFile
  <2> HIDE DEF f
  <2>5. g \in ReplicaMemory /\ g.k = k /\ g.manifest = got[r].manifest
    BY <1>1, <2>2, <2>3 DEF ReplicaMemory
  <2> HIDE DEF g
  <2>6. HasRead(step, g)
    BY <2>1, <2>5 DEF HasRead
  <2>7. QED
    BY <1>2, <2>4, <2>5, <2>6, OneReplica DEF ReplicaSteps
<1>6. CASE Validate(r)
  <2> DEFINE g == [got[r] EXCEPT !.k = 0]
  <2>1. CASE HashesMatch(got[r])
    <3>1. got[r].manifest \in Built
      BY <1>1, <1>6 DEF Validate, HasRead
    <3>2. got[r].files = got[r].manifest.files
      BY <1>1, <2>1, <3>1 DEF HashesMatch, ReplicaMemory, Built
    <3>3. /\ g \in ReplicaMemory
          /\ g.manifest = got[r].manifest /\ g.files = got[r].files
      BY <1>1, TableAt, ApiFileAt DEF ReplicaMemory
    <3>4. ReplicaTo(r, "serving", g)
      BY <1>6, <2>1 DEF Validate
    <3> HIDE DEF g
    <3>5. HasRead("serving", g)
      BY <3>1, <3>2, <3>3 DEF HasRead
    <3>6. QED
      BY <1>2, <3>3, <3>4, <3>5, OneReplica DEF ReplicaSteps
  <2>2. CASE ~HashesMatch(got[r])
    BY <1>2, <1>6, <2>2, NothingReadShape, OneReplica DEF Validate, ReplicaSteps
  <2>3. QED
    BY <2>1, <2>2
<1>7. QED
    BY <1>3, <1>4, <1>5, <1>6 DEF LoadStep

-----------------------------------------------------------------------------
(* The shape is an invariant.                                              *)

LEMMA InitShape == Init => Shape
<1> SUFFICES ASSUME Init PROVE Shape
    OBVIOUS
<1>1. Stores
    BY DEF Init, ProductInit, Stores, ProductCommands, Versions
<1>2. Blank(None) \in JobMemory
    BY BlankMemory
<1>3. HoldsAt("idle", Blank(None))
    BY DEF HoldsAt
<1>4. JobsOK
    BY <1>2, <1>3 DEF Init, ProductInit, JobsOK, ProductSteps
<1>5. ReplicasOK /\ ManifestSeen
    BY NothingReadShape DEF Init, ReplicasOK, ManifestSeen, ReplicaSteps
<1>6. recycles \in Nat
    BY DEF Init
<1>7. QED
    BY <1>1, <1>4, <1>5, <1>6 DEF Shape

LEMMA StepShape == Shape /\ [Next]_vars => Shape'
<1> SUFFICES ASSUME Shape, [Next]_vars PROVE Shape'
    OBVIOUS
<1> USE DEF Shape
<1>1. CASE ProductNext /\ UNCHANGED apiVars
  <2>1. Stores' /\ JobsOK'
    BY <1>1, ProductShape
  <2>2. ReplicasOK' /\ ManifestSeen'
    BY <1>1, ManifestStays DEF ReplicasOK, ManifestSeen, apiVars
  <2>3. QED
    BY <1>1, <2>1, <2>2 DEF apiVars
<1>2. ASSUME NEW r \in Replicas, LoadStep(r) \/ Recycle(r)
      PROVE  Shape'
  <2>1. UNCHANGED productVars /\ recycles' \in Nat
    BY <1>2 DEF LoadStep, CheckExists, ReadManifest, ReadFile, Validate,
                RestartFailed, Recycle
  <2>2. Stores' /\ JobsOK'
    BY <2>1 DEF productVars, coreVars, Stores, JobsOK
  <2>3. ReplicasOK' /\ ManifestSeen'
    BY <1>2, ReplicaShape
  <2>4. QED
    BY <2>1, <2>2, <2>3
<1>3. CASE UNCHANGED vars
    BY <1>3 DEF vars, productVars, apiVars, coreVars, Stores, JobsOK,
                ReplicasOK, ManifestSeen
<1>4. QED
    BY <1>1, <1>2, <1>3 DEF Next, Finished

LEMMA ShapeAlways == Spec => []Shape
    BY InitShape, StepShape, PTL DEF Spec

\* Every object and every memory keeps its shape; a replica past the existence
\* check has a manifest and a serving one has every file, whatever jobs
\* overlap with it.
THEOREM ServerTypes == Spec => []TypeOK
<1>1. Shape => TypeOK
  <2> SUFFICES ASSUME Shape PROVE TypeOK
      OBVIOUS
  <2>1. ProductTypeOK
    BY BuiltIsManifest DEF Shape, Stores, JobsOK, ProductTypeOK
  <2>2. ASSUME NEW r \in Replicas
        PROVE  /\ up[r] \in {"reading", "validating", "serving"}
                      => got[r].manifest # None
               /\ up[r] = "serving" => got[r].files \in [Files -> Content]
    BY BuiltIsManifest DEF Shape, ReplicasOK, HasRead, Built
  <2>3. QED
    BY <2>1, <2>2 DEF Shape, ReplicasOK, TypeOK
<1>2. QED
    BY <1>1, ShapeAlways, PTL

-----------------------------------------------------------------------------
(* Which manifests there are.                                              *)

\* Every manifest that counts, stored, about to be stored or read, is in S.
\* (A job past the writing holds one only to verify it.)
Trusts(S) ==
    /\ manifest \in S \cup {None}
    /\ \A j \in Jobs : pc[j] \in {"write_web", "write_web_manifest"}
          => mem[j].manifest \in S
    /\ \A r \in Replicas : up[r] \in {"reading", "validating", "serving"}
          => got[r].manifest \in S

\* Manifests are only made by build_manifest, at the end of ReadBi.
LEMMA TrustKept ==
    ASSUME Shape, [Next]_vars, NEW S, Trusts(S),
           \A j \in Jobs : ReadBi(j) /\ pc'[j] = "write_web"
               => mem'[j].manifest \in S
    PROVE  Trusts(S)'
<1>1. pc \in [Jobs -> ProductSteps] /\ mem \in [Jobs -> JobMemory]
    BY DEF Shape, JobsOK
<1>2. up \in [Replicas -> ReplicaSteps] /\ got \in [Replicas -> ReplicaMemory]
    BY DEF Shape, ReplicasOK
<1>3. CASE ProductNext /\ UNCHANGED apiVars
  <2>1. PICK j \in Jobs : Begin(j) \/ Fails(j) \/ Killed(j) \/ ProductStep(j)
    BY <1>3 DEF ProductNext
  <2>2. \A i \in Jobs \ {j} : pc'[i] = pc[i] /\ mem'[i] = mem[i]
    BY <1>1, <2>1 DEF Begin, Fails, Killed, ProductStep, Compute, CorePublish,
           RequireCoreRelease, ReadAnalytics, ReadPointer, WriteBi, ReadBi,
           WriteWeb, WriteWebManifest, VerifyManifest, VerifyFile, End, Proceed
  <2>3. manifest' \in S \cup {None}
    <3>1. CASE WriteWebManifest(j)
      BY <3>1 DEF WriteWebManifest, Trusts
    <3>2. CASE ~WriteWebManifest(j)
      <4>1. manifest' = manifest
        BY <2>1, <3>2 DEF Begin, Fails, Killed, ProductStep, Compute,
           CorePublish, RequireCoreRelease, ReadAnalytics, ReadPointer,
           WriteBi, ReadBi, WriteWeb, VerifyManifest, VerifyFile
      <4>2. QED
        BY <4>1 DEF Trusts
    <3>3. QED
      BY <3>1, <3>2
  <2>4. pc'[j] \in {"write_web", "write_web_manifest"} => mem'[j].manifest \in S
    <3>1. CASE WriteWeb(j)
      <4> DEFINE k == mem[j].k + 1
                 b == Blank(mem[j].expected)
      <4>1. mem[j].manifest \in S
        BY <3>1 DEF WriteWeb, Trusts
      <4>2. mem'[j] \in {[mem[j] EXCEPT !.k = k],
                         [b EXCEPT !.manifest = mem[j].manifest]}
        BY <1>1, <3>1 DEF WriteWeb, Proceed
      <4>3. b \in JobMemory /\ mem[j] \in JobMemory
        BY <1>1, BlankMemory DEF JobMemory
      <4> HIDE DEF b, k
      <4>4. mem'[j].manifest = mem[j].manifest
        BY <4>2, <4>3 DEF JobMemory
      <4>5. QED
        BY <4>1, <4>4
    <3>2. CASE ReadBi(j)
      <4>1. pc'[j] # "write_web_manifest"
        BY <1>1, <3>2 DEF ReadBi, End, Proceed
      <4>2. QED
        BY <3>2, <4>1
    <3>3. CASE Begin(j)
      <4>1. PICK c \in Commands : Proceed(j, FirstStep[c], Blank(None))
        BY <3>3 DEF Begin
      <4>2. FirstStep[c] \in {"compute", "require", "read_analytics", "read_bi"}
        BY ProductAssumption DEF ProductCommands, FirstStep
      <4>3. QED
        BY <1>1, <4>1, <4>2 DEF Proceed
    <3>4. CASE ~WriteWeb(j) /\ ~ReadBi(j) /\ ~Begin(j)
      <4>1. pc'[j] \notin {"write_web", "write_web_manifest"}
        BY <1>1, <2>1, <3>4 DEF Fails, Killed, ProductStep, Compute,
           CorePublish, RequireCoreRelease, ReadAnalytics, ReadPointer,
           WriteBi, WriteWebManifest, VerifyManifest, VerifyFile, End, Proceed
      <4>2. QED
        BY <4>1
    <3>5. QED
      BY <3>1, <3>2, <3>3, <3>4
  <2>5. QED
    BY <1>3, <2>2, <2>3, <2>4 DEF Trusts, apiVars
<1>4. ASSUME NEW r \in Replicas, LoadStep(r) \/ Recycle(r)
      PROVE  Trusts(S)'
  <2>1. UNCHANGED productVars
    BY <1>4 DEF LoadStep, CheckExists, ReadManifest, ReadFile, Validate,
                RestartFailed, Recycle
  <2>2. \A q \in Replicas \ {r} : up'[q] = up[q] /\ got'[q] = got[q]
    BY <1>2, <1>4 DEF LoadStep, CheckExists, ReadManifest, ReadFile, Validate,
                      RestartFailed, Recycle, ReplicaTo
  <2>3. up'[r] \in {"reading", "validating", "serving"} => got'[r].manifest \in S
    <3>1. CASE CheckExists(r) \/ RestartFailed(r) \/ Recycle(r)
      BY <1>2, <3>1 DEF CheckExists, RestartFailed, Recycle, ReplicaTo
    <3>2. CASE ReadManifest(r)
      <4>1. manifest # None
        BY <3>2 DEF ReadManifest, Shape, ManifestSeen
      <4>2. got'[r].manifest = manifest
        BY <1>2, <3>2 DEF ReadManifest, ReplicaTo, ReplicaMemory
      <4>3. QED
        BY <4>1, <4>2 DEF Trusts
    <3>3. CASE ReadFile(r) \/ Validate(r)
      <4>1. got[r].manifest \in S
        BY <3>3 DEF ReadFile, Validate, Trusts
      <4>2. up'[r] # "failed" => got'[r].manifest = got[r].manifest
        BY <1>2, <3>3 DEF ReadFile, Validate, ReplicaTo, ReplicaMemory
      <4>3. QED
        BY <4>1, <4>2
    <3>4. QED
      BY <1>4, <3>1, <3>2, <3>3 DEF LoadStep
  <2>4. QED
    BY <2>1, <2>2, <2>3 DEF Trusts, productVars
<1>5. CASE UNCHANGED vars
    BY <1>5 DEF vars, productVars, apiVars, Trusts
<1>6. QED
    BY <1>3, <1>4, <1>5 DEF Next, Finished

\* The manifest that ReadBi makes describes the tables that the job then holds.
LEMMA ReadBiMakes ==
    ASSUME Stores, JobsOK, NEW j \in Jobs, ReadBi(j), pc'[j] = "write_web"
    PROVE  LET k == mem[j].k + 1
               t == TableSeq[k]
           IN  /\ k = Len(TableSeq)
               /\ mem'[j].tables = [mem[j].tables EXCEPT ![t] = bi[t]]
               /\ mem'[j].tables \in [Tables -> Content]
               /\ mem'[j].manifest = ManifestOf(BundleOf(mem'[j].tables))
<1> DEFINE k == mem[j].k + 1
           t == TableSeq[k]
           tables == [mem[j].tables EXCEPT ![t] = bi[t]]
           b == Blank(mem[j].expected)
           made == ManifestOf(BundleOf(tables))
           m == [b EXCEPT !.manifest = made, !.tables = tables]
<1>1. mem[j] \in JobMemory /\ HoldsAt("read_bi", mem[j])
    BY DEF JobsOK, ReadBi
<1>2. mem[j].k \in Nat /\ mem[j].k < Len(TableSeq) /\ Len(TableSeq) \in Nat
    BY <1>1, TableAt DEF JobMemory, HoldsAt
<1>3. bi[t] # None /\ ~(k < Len(TableSeq)) /\ Proceed(j, "write_web", m)
    BY DEF ReadBi, JobsOK, Proceed, End
<1>4. mem'[j] = m
    BY <1>3 DEF Proceed, JobsOK
<1>5. pc' \in [Jobs -> ProductSteps] /\ mem'[j] \in JobMemory
      /\ HoldsAt("write_web", mem'[j])
    BY ReadBiShape DEF JobsOK
<1>6. b \in JobMemory
    BY <1>1, BlankMemory DEF JobMemory
<1>7. k = Len(TableSeq)
    BY <1>2, <1>3
<1> HIDE DEF b, tables, made
<1>8. mem'[j].tables = tables /\ mem'[j].manifest = made
    BY <1>4, <1>6 DEF JobMemory
<1>9. QED
    BY <1>5, <1>7, <1>8 DEF HoldsAt, tables, made

-----------------------------------------------------------------------------
(* What is served was assembled by one build.                              *)

\* The index is that of the overview, the run that of the run metadata.
Derived == {m \in Built : /\ m.files["countries"].of = m.files["country_overview"].of
                          /\ m.run = m.files["run_metadata"].run}

LEMMA BundleDerived ==
    ASSUME NEW tables \in [Tables -> Content]
    PROVE  ManifestOf(BundleOf(tables)) \in Derived
<1> DEFINE b == BundleOf(tables)
<1>1. ManifestOf(b) \in Built /\ ManifestOf(b).files = b
    BY ManifestBuilt
<1>2. /\ "countries" \in Files /\ "country_overview" \in Files
      /\ "country_overview" # "countries"
    BY ProductAssumption, FileAt
<1>3. b["countries"].of = b["country_overview"].of
    BY <1>2 DEF BundleOf
<1>4. ManifestOf(b).run = b["run_metadata"].run
    BY DEF ManifestOf
<1>5. QED
    BY <1>1, <1>3, <1>4 DEF Derived

LEMMA InitTrusts == \A S : Init => Trusts(S)
    BY DEF Init, ProductInit, Trusts

LEMMA StepDerived ==
    ASSUME Shape, Trusts(Derived), [Next]_vars
    PROVE  Trusts(Derived)'
<1>1. ASSUME NEW j \in Jobs, ReadBi(j), pc'[j] = "write_web"
      PROVE  mem'[j].manifest \in Derived
  <2>1. /\ mem'[j].tables \in [Tables -> Content]
        /\ mem'[j].manifest = ManifestOf(BundleOf(mem'[j].tables))
    BY <1>1, ReadBiMakes DEF Shape
  <2> DEFINE tables == mem'[j].tables
  <2>2. tables \in [Tables -> Content] => ManifestOf(BundleOf(tables)) \in Derived
    <3> HIDE DEF tables
    <3>1. QED
      BY BundleDerived
  <2>3. QED
    BY <2>1, <2>2
<1>2. QED
    BY <1>1, TrustKept

\* What a replica serves came out of one call of build_web_bundle, although it
\* read the files one by one while any number of jobs were rewriting them.
THEOREM ServerOneBundle == Spec => []ServedIsOneBundle
<1>1. Init => Shape /\ Trusts(Derived)
    BY InitShape, InitTrusts
<1>2. Shape /\ Trusts(Derived) /\ [Next]_vars => (Shape /\ Trusts(Derived))'
    BY StepShape, StepDerived
<1>3. Shape /\ Trusts(Derived) => ServedIsOneBundle
    BY DEF Shape, ReplicasOK, HasRead, Trusts, Derived, ServedIsOneBundle
<1>4. QED
    BY <1>1, <1>2, <1>3, PTL DEF Spec

-----------------------------------------------------------------------------
(* One release at a time.                                                  *)

\* The hypotheses of ServedIsOneRelease.
Serial ==
    /\ IsFiniteSet(Jobs)
    /\ MaxConcurrent = 1
    /\ Commands \subseteq {"run", "publish_product"}

\* The tables of one build.
TablesOf(read, run) == [t \in Tables |-> TableOf(t, read, run)]

\* A run was refused after it had replaced the analytics, and publish-product
\* was started by hand.
Excused ==
    /\ \E i \in Jobs : Abandoned(i)
    /\ \E i \in Jobs : cmd[i] = "publish_product"

\* A build may show these versions under the name of this run.
Names(run, read) ==
    /\ run \in Jobs /\ released[run] # None
    /\ read = released[run] \/ Excused

\* The manifests that such builds have.
Genuine == {m \in Built : \E read \in Versions, run \in Jobs :
                /\ m = ManifestOf(BundleOf(TablesOf(read, run)))
                /\ Names(run, read)}

\* A job that is building or verifying a product, and one that has released
\* and is about to.
Building(j) == pc[j] \in {"read_analytics", "read_pointer", "write_bi",
                          "read_bi", "write_web", "write_web_manifest",
                          "verify", "verify_files"}

OneAtATime == \A i, j \in ProductRunning : i = j

\* How far a job has come, by the step it is at.
ProgressOf(j) ==
    /\ cmd[j] \in {"run", "publish_product"}
    /\ pc[j] \in {"idle", "compute", "publish"} => cmd[j] = "run" /\ released[j] = None
    /\ Building(j) \/ (pc[j] = "require" /\ cmd[j] = "run")
          => Names(pointer, analytics)
    /\ pc[j] = "read_analytics" =>
          \A i \in 1..mem[j].k : mem[j].read[ReadSeq[i]] = analytics[ReadSeq[i]]
    /\ pc[j] = "read_pointer" => mem[j].read = analytics
    /\ pc[j] = "write_bi" =>
          /\ mem[j].tables = TablesOf(analytics, pointer)
          /\ \A i \in 1..mem[j].k :
                bi[TableSeq[i]] = TableOf(TableSeq[i], analytics, pointer)
    /\ pc[j] = "read_bi" =>
          /\ bi = TablesOf(analytics, pointer)
          /\ \A i \in 1..mem[j].k :
                mem[j].tables[TableSeq[i]] = TableOf(TableSeq[i], analytics, pointer)

\* The pointer names a released run; unless that run's analytics were replaced
\* by a run that was given up, they are still there while nothing is computed.
PointerCurrent ==
    pointer # None =>
        /\ released[pointer] # None
        /\ \/ \E j \in Jobs : pc[j] \in {"compute", "publish"}
           \/ released[pointer] = analytics
           \/ \E i \in Jobs : Abandoned(i)

Releases ==
    /\ OneAtATime
    /\ \A j \in Jobs : ProgressOf(j)
    /\ PointerCurrent
    /\ Trusts(Genuine)

\* What a step of one job leaves alone.
Moves(j) ==
    /\ \A i \in Jobs \ {j} : /\ pc'[i] = pc[i] /\ mem'[i] = mem[i]
                             /\ cmd'[i] = cmd[i] /\ released'[i] = released[i]
    /\ pc[j] # "idle" => cmd'[j] = cmd[j]
    /\ pc[j] # "publish" => released'[j] = released[j]
    /\ pc[j] \notin ProductStopped

LEMMA JobMoves ==
    ASSUME Shape, NEW j \in Jobs,
           Begin(j) \/ Fails(j) \/ Killed(j) \/ ProductStep(j)
    PROVE  Moves(j)
<1>1. /\ pc \in [Jobs -> ProductSteps] /\ mem \in [Jobs -> JobMemory]
      /\ cmd \in [Jobs -> ProductCommands]
      /\ released \in [Jobs -> Versions \cup {None}]
    BY DEF Shape, JobsOK, Stores
<1>2. \A i \in Jobs \ {j} : pc'[i] = pc[i] /\ mem'[i] = mem[i]
    BY <1>1 DEF Begin, Fails, Killed, ProductStep, Compute, CorePublish,
           RequireCoreRelease, ReadAnalytics, ReadPointer, WriteBi, ReadBi,
           WriteWeb, WriteWebManifest, VerifyManifest, VerifyFile, End, Proceed
<1>3. cmd' = cmd \/ (pc[j] = "idle" /\ \A i \in Jobs \ {j} : cmd'[i] = cmd[i])
    BY <1>1 DEF Begin, Fails, Killed, ProductStep, Compute, CorePublish,
           RequireCoreRelease, ReadAnalytics, ReadPointer, WriteBi, ReadBi,
           WriteWeb, WriteWebManifest, VerifyManifest, VerifyFile
<1>4. \/ released' = released
      \/ pc[j] = "publish" /\ \A i \in Jobs \ {j} : released'[i] = released[i]
    BY <1>1 DEF Begin, Fails, Killed, ProductStep, Compute, CorePublish,
           RequireCoreRelease, ReadAnalytics, ReadPointer, WriteBi, ReadBi,
           WriteWeb, WriteWebManifest, VerifyManifest, VerifyFile, coreVars
<1>5. pc[j] \notin ProductStopped
    BY DEF Begin, Fails, Killed, ProductStep, Compute, CorePublish,
           RequireCoreRelease, ReadAnalytics, ReadPointer, WriteBi, ReadBi,
           WriteWeb, WriteWebManifest, VerifyManifest, VerifyFile,
           ProductStopped, ProductRunning
<1>6. QED
    BY <1>2, <1>3, <1>4, <1>5 DEF Moves

\* What excuses a build goes on excusing it, and a released run is never
\* released again.
LEMMA NamesKept ==
    ASSUME Shape, \A i \in Jobs : ProgressOf(i), NEW j \in Jobs, Moves(j)
    PROVE  /\ \A i \in Jobs : Abandoned(i) => Abandoned(i)'
           /\ \A i \in Jobs : released[i] # None => released'[i] = released[i]
           /\ Excused => Excused'
           /\ \A run, read : Names(run, read) => Names(run, read)'
<1>1. \A i \in Jobs : Abandoned(i) => Abandoned(i)'
    BY DEF Moves, Abandoned, ProductStopped
<1>2. \A i \in Jobs : released[i] # None => released'[i] = released[i]
    BY DEF Moves, ProgressOf
<1>3. \A i \in Jobs : cmd[i] = "publish_product" => cmd'[i] = cmd[i]
    BY DEF Moves, ProgressOf
<1>4. Excused => Excused'
    BY <1>1, <1>3 DEF Excused
<1>5. QED
    BY <1>1, <1>2, <1>4 DEF Names

LEMMA GenuineKept ==
    ASSUME \A run, read : Names(run, read) => Names(run, read)'
    PROVE  Genuine \subseteq Genuine'
    BY DEF Genuine

\* No other job runs.
Alone(j) == \A i \in Jobs \ {j} : pc[i] \in ProductStopped \cup {"idle"}

\* A job that runs is the only one, and one that begins becomes it.
LEMMA OnlyJob ==
    ASSUME Serial, Shape, OneAtATime, NEW j \in Jobs,
           Begin(j) \/ Fails(j) \/ Killed(j) \/ ProductStep(j)
    PROVE  Alone(j)
<1>1. CASE Begin(j)
  <2>1. ProductRunning \subseteq Jobs
    BY DEF ProductRunning
  <2>2. IsFiniteSet(ProductRunning)
    BY <2>1, FS_Subset DEF Serial
  <2>3. Cardinality(ProductRunning) = 0
    BY <1>1, <2>2, FS_CardinalityType DEF Begin, Serial
  <2>4. ProductRunning = {}
    BY <2>2, <2>3, FS_EmptySet
  <2>5. QED
    BY <2>4 DEF ProductRunning, Alone
<1>2. CASE ~Begin(j)
  <2>1. j \in ProductRunning
    BY <1>2 DEF Fails, Killed, ProductStep, Compute, CorePublish,
           RequireCoreRelease, ReadAnalytics, ReadPointer, WriteBi, ReadBi,
           WriteWeb, WriteWebManifest, VerifyManifest, VerifyFile,
           ProductStopped, ProductRunning
  <2>2. QED
    BY <2>1 DEF OneAtATime, ProductRunning, Alone
<1>3. QED
    BY <1>1, <1>2

\* It is then enough to look at this job.
LEMMA OneProgress ==
    ASSUME \A i \in Jobs : ProgressOf(i), NEW j \in Jobs, Moves(j),
           Alone(j),
           ProgressOf(j)'
    PROVE  OneAtATime' /\ \A i \in Jobs : ProgressOf(i)'
<1>1. OneAtATime'
    BY DEF Moves, OneAtATime, ProductRunning, Alone
<1>2. ASSUME NEW i \in Jobs \ {j}
      PROVE  ProgressOf(i)'
  <2>1. /\ pc'[i] \in {"idle", "done", "exit", "crashed"}
        /\ pc'[i] = pc[i] /\ cmd'[i] = cmd[i] /\ released'[i] = released[i]
    BY DEF Moves, ProductStopped, Alone
  <2>2. ProgressOf(i)
    OBVIOUS
  <2>3. QED
    BY <2>1, <2>2 DEF ProgressOf, Building
<1>3. QED
    BY <1>1, <1>2

\* The state before a step of the only job that runs.
Turn(j) ==
    /\ Shape /\ Alone(j) /\ Moves(j)
    /\ \A i \in Jobs : ProgressOf(i)
    /\ PointerCurrent

\* A step that leaves the core release alone leaves it current.
LEMMA PointerQuiet ==
    ASSUME NEW j \in Jobs, Turn(j), UNCHANGED coreVars,
           pc[j] \notin {"compute", "publish"}
    PROVE  PointerCurrent'
<1>1. \A i \in Jobs : Abandoned(i) => Abandoned(i)'
    BY NamesKept DEF Turn
<1>2. \A i \in Jobs : pc[i] \in {"compute", "publish"} => pc'[i] = pc[i]
    BY DEF Turn, Moves
<1>3. QED
    BY <1>1, <1>2 DEF Turn, PointerCurrent, coreVars

LEMMA BeginReleases ==
    ASSUME Serial, NEW j \in Jobs, Turn(j), Begin(j)
    PROVE  ProgressOf(j)' /\ PointerCurrent'
<1>1. PICK c \in Commands : /\ cmd' = [cmd EXCEPT ![j] = c]
                            /\ Proceed(j, FirstStep[c], Blank(None))
    BY DEF Begin
<1>2. c \in {"run", "publish_product"}
    BY DEF Serial
<1>3. cmd'[j] = c /\ pc'[j] = FirstStep[c]
    BY <1>1 DEF Turn, Shape, JobsOK, Stores, Proceed
<1>4. pc'[j] = IF c = "run" THEN "compute" ELSE "require"
    BY <1>2, <1>3 DEF FirstStep
<1>5. pc[j] = "idle" /\ released[j] = None /\ released' = released
    BY DEF Begin, Turn, ProgressOf, coreVars
<1>6. ProgressOf(j)'
    BY <1>2, <1>3, <1>4, <1>5 DEF ProgressOf, Building
<1>7. PointerCurrent'
    BY <1>5, PointerQuiet DEF Begin
<1>8. QED
    BY <1>6, <1>7

\* A run that is given up before it has published is what excuses the pointer
\* from being current.
LEMMA FailReleases ==
    ASSUME NEW j \in Jobs, Turn(j), Fails(j) \/ Killed(j)
    PROVE  ProgressOf(j)' /\ PointerCurrent'
<1>1. /\ pc'[j] \in {"exit", "crashed"}
      /\ cmd' = cmd /\ UNCHANGED coreVars
    BY DEF Fails, Killed, End, Proceed, Turn, Shape, JobsOK
<1>2. ProgressOf(j)'
    BY <1>1 DEF Turn, ProgressOf, Building
<1>3. CASE pc[j] \in {"compute", "publish"}
  <2>1. Abandoned(j)'
    BY <1>1, <1>3 DEF Turn, ProgressOf, Abandoned, coreVars
  <2>2. QED
    BY <1>1, <1>2, <2>1 DEF Turn, PointerCurrent, coreVars
<1>4. CASE pc[j] \notin {"compute", "publish"}
    BY <1>1, <1>2, <1>4, PointerQuiet
<1>5. QED
    BY <1>3, <1>4

\* So does what the pointer may be said to name.
LEMMA StillNamed ==
    ASSUME NEW j \in Jobs, Turn(j), UNCHANGED coreVars, Names(pointer, analytics)
    PROVE  Names(pointer, analytics)'
<1>1. \A run, read : Names(run, read) => Names(run, read)'
    BY NamesKept DEF Turn
<1>2. PICK run, read : run = pointer /\ read = analytics
    OBVIOUS
<1>3. Names(run, read)'
    BY <1>1, <1>2
<1>4. QED
    BY <1>2, <1>3 DEF coreVars

LEMMA CoreReleases ==
    ASSUME NEW j \in Jobs, Turn(j),
           Compute(j) \/ CorePublish(j) \/ RequireCoreRelease(j)
    PROVE  ProgressOf(j)' /\ PointerCurrent'
<1>1. /\ pc \in [Jobs -> ProductSteps] /\ released \in [Jobs -> Versions \cup {None}]
      /\ pointer \in Jobs \cup {None} /\ analytics \in Versions
    BY DEF Turn, Shape, JobsOK, Stores
<1>2. ProgressOf(j)
    BY DEF Turn
<1>3. CASE Compute(j)
  <2>1. /\ pc[j] = "compute" /\ pc'[j] \in {"compute", "publish"}
        /\ UNCHANGED <<released, pointer, cmd>>
    BY <1>1, <1>3 DEF Compute, Proceed
  <2>2. ProgressOf(j)'
    BY <1>2, <2>1 DEF ProgressOf, Building
  <2>3. PointerCurrent'
    BY <2>1 DEF Turn, PointerCurrent
  <2>4. QED
    BY <2>2, <2>3
<1>4. CASE CorePublish(j)
  <2>1. pc[j] = "publish" /\ cmd[j] = "run" /\ UNCHANGED <<analytics, cmd>>
    BY <1>2, <1>4 DEF CorePublish, ProgressOf
  <2>2. CASE End(j, "exit") /\ UNCHANGED <<released, pointer>>
    <3>1. pc'[j] = "exit"
      BY <1>1, <2>2 DEF End, Proceed
    <3>2. ProgressOf(j)'
      BY <2>1, <3>1 DEF ProgressOf, Building
    <3>3. Abandoned(j)'
      BY <1>2, <2>1, <2>2, <3>1 DEF ProgressOf, Abandoned
    <3>4. PointerCurrent'
      BY <2>1, <2>2, <3>3 DEF Turn, PointerCurrent
    <3>5. QED
      BY <3>2, <3>4
  <2>3. CASE /\ released' = [released EXCEPT ![j] = analytics]
             /\ pointer' = j
             /\ Proceed(j, "require", mem[j])
    <3>1. pc'[j] = "require" /\ pointer' = j /\ released'[j] = analytics
      BY <1>1, <2>3 DEF Proceed
    <3>2. released'[j] # None
      BY <1>1, <3>1, NoneIsNoObject
    <3>3. Names(pointer, analytics)'
      BY <2>1, <3>1, <3>2 DEF Names
    <3>4. ProgressOf(j)'
      BY <2>1, <3>1, <3>3 DEF ProgressOf, Building
    <3>5. PointerCurrent'
      BY <2>1, <3>1, <3>2 DEF PointerCurrent
    <3>6. QED
      BY <3>4, <3>5
  <2>4. QED
    BY <1>4, <2>2, <2>3 DEF CorePublish
<1>5. CASE RequireCoreRelease(j)
  <2>1. pc[j] = "require" /\ UNCHANGED <<coreVars, cmd>>
    BY <1>5 DEF RequireCoreRelease
  <2>2. PointerCurrent'
    BY <2>1, PointerQuiet
  <2>3. CASE pointer = None
    <3>1. pc'[j] = "exit"
      BY <1>1, <1>5, <2>3 DEF RequireCoreRelease, End, Proceed
    <3>2. QED
      BY <1>2, <2>1, <2>2, <3>1 DEF ProgressOf, Building
  <2>4. CASE pointer # None
    <3>1. pc'[j] = "read_analytics" /\ mem'[j].k = 0
      BY <1>1, <1>5, <2>4 DEF RequireCoreRelease, Proceed, Blank, Turn, Shape, JobsOK
    <3>2. Names(pointer, analytics)
      <4>1. CASE cmd[j] = "run"
        BY <1>2, <2>1, <4>1 DEF ProgressOf
      <4>2. CASE cmd[j] = "publish_product"
        <5>1. \A i \in Jobs : pc[i] \notin {"compute", "publish"}
          BY <2>1 DEF Turn, Alone, ProductStopped
        <5>2. QED
          BY <1>1, <2>4, <4>2, <5>1 DEF Turn, PointerCurrent, Names, Excused
      <4>3. QED
        BY <1>2, <4>1, <4>2 DEF ProgressOf
    <3>3. Names(pointer, analytics)'
      BY <2>1, <3>2, StillNamed
    <3>4. ProgressOf(j)'
      BY <1>2, <2>1, <3>1, <3>3 DEF ProgressOf, Building
    <3>5. QED
      BY <2>2, <3>4
  <2>5. QED
    BY <2>3, <2>4
<1>6. QED
    BY <1>3, <1>4, <1>5

\* A step of a build: what it must show is what the job holds next.
LEMMA BuildQuiet ==
    ASSUME NEW j \in Jobs, Turn(j), Building(j), UNCHANGED <<coreVars, cmd>>,
           pc'[j] \notin {"idle", "compute", "publish"},
           pc'[j] = "read_analytics" => \A i \in 1..mem'[j].k :
              mem'[j].read[ReadSeq[i]] = analytics[ReadSeq[i]],
           pc'[j] = "read_pointer" => mem'[j].read = analytics,
           pc'[j] = "write_bi" =>
              /\ mem'[j].tables = TablesOf(analytics, pointer)
              /\ \A i \in 1..mem'[j].k :
                    bi'[TableSeq[i]] = TableOf(TableSeq[i], analytics, pointer),
           pc'[j] = "read_bi" =>
              /\ bi' = TablesOf(analytics, pointer)
              /\ \A i \in 1..mem'[j].k : mem'[j].tables[TableSeq[i]]
                                          = TableOf(TableSeq[i], analytics, pointer)
    PROVE  ProgressOf(j)' /\ PointerCurrent'
<1>1. ProgressOf(j) /\ Names(pointer, analytics)
    BY DEF Turn, ProgressOf
<1>2. Names(pointer, analytics)'
    BY <1>1, StillNamed
<1>3. analytics' = analytics /\ pointer' = pointer /\ cmd' = cmd
    BY DEF coreVars
<1>4. ProgressOf(j)'
    BY <1>1, <1>2, <1>3 DEF ProgressOf
<1>5. PointerCurrent'
    BY PointerQuiet DEF Building
<1>6. QED
    BY <1>4, <1>5

\* Reading the inputs and writing the BI tables.
LEMMA BiReleases ==
    ASSUME NEW j \in Jobs, Turn(j), Serial,
           ReadAnalytics(j) \/ ReadPointer(j) \/ WriteBi(j)
    PROVE  ProgressOf(j)' /\ PointerCurrent'
<1>1. /\ pc \in [Jobs -> ProductSteps] /\ mem \in [Jobs -> JobMemory]
      /\ HoldsAt(pc[j], mem[j]) /\ ProgressOf(j)
      /\ analytics \in Versions
      /\ bi \in [Tables -> Content \cup {None}]
    BY DEF Turn, Shape, JobsOK, Stores
<1>2. Building(j) /\ UNCHANGED <<coreVars, cmd>>
    BY DEF ReadAnalytics, ReadPointer, WriteBi, Building
<1>3. CASE ReadAnalytics(j)
  <2> DEFINE k == mem[j].k + 1
             read == [mem[j].read EXCEPT ![ReadSeq[k]] = analytics[ReadSeq[k]]]
  <2>1. /\ mem[j].k \in Nat /\ mem[j].k < Len(ReadSeq) /\ Len(ReadSeq) \in Nat
        /\ mem[j].read \in Versions
        /\ \A i \in 1..mem[j].k : mem[j].read[ReadSeq[i]] = analytics[ReadSeq[i]]
    BY <1>1, <1>3, InputAt DEF ReadAnalytics, HoldsAt, JobMemory, ProgressOf
  <2>2. \A i \in 1..k : ReadSeq[i] \in Inputs
    BY <2>1, InputAt
  <2>3. \A i \in 1..k : read[ReadSeq[i]] = analytics[ReadSeq[i]]
    <3>1. \A i \in 1..k : i \in 1..mem[j].k \/ i = k
      BY <2>1
    <3>2. QED
      BY <1>1, <2>1, <2>2, <3>1 DEF Versions
  <2>4. \/ pc'[j] = "exit"
        \/ /\ pc'[j] = "read_analytics"
           /\ mem'[j] = [mem[j] EXCEPT !.k = k, !.read = read]
        \/ /\ pc'[j] = "read_pointer" /\ ~(k < Len(ReadSeq))
           /\ mem'[j] = [mem[j] EXCEPT !.k = 0, !.read = read]
    BY <1>1, <1>3 DEF ReadAnalytics, End, Proceed
  <2>5. read \in Versions
    BY <1>1, <2>1, <2>2 DEF Versions
  <2>6. CASE pc'[j] = "exit"
    BY <1>2, <2>6, BuildQuiet DEF Building
  <2>7. CASE /\ pc'[j] = "read_analytics"
             /\ mem'[j] = [mem[j] EXCEPT !.k = k, !.read = read]
    <3> HIDE DEF k, read
    <3>1. mem'[j].k = k /\ mem'[j].read = read
      BY <1>1, <2>7 DEF JobMemory
    <3>2. QED
      BY <1>2, <2>3, <2>7, <3>1, BuildQuiet
  <2>8. CASE /\ pc'[j] = "read_pointer" /\ ~(k < Len(ReadSeq))
             /\ mem'[j] = [mem[j] EXCEPT !.k = 0, !.read = read]
    <3>1. k = Len(ReadSeq)
      BY <2>1, <2>8
    <3>2. \A i \in Inputs : read[i] = analytics[i]
      BY <2>3, <3>1, InputAt
    <3> HIDE DEF k, read
    <3>3. read = analytics
      BY <1>1, <2>5, <3>2 DEF Versions
    <3>4. mem'[j].read = read
      BY <1>1, <2>8 DEF JobMemory
    <3>5. QED
      BY <1>2, <2>8, <3>3, <3>4, BuildQuiet
  <2>9. QED
    BY <2>4, <2>6, <2>7, <2>8
<1>4. CASE ReadPointer(j)
  <2> DEFINE tables == [t \in Tables |-> TableOf(t, mem[j].read, pointer)]
  <2>1. /\ pc'[j] = "write_bi"
        /\ mem'[j] = [Blank(mem[j].expected) EXCEPT !.tables = tables]
    BY <1>1, <1>4 DEF ReadPointer, Proceed
  <2>2. mem[j].read = analytics
    BY <1>1, <1>4 DEF ReadPointer, ProgressOf
  <2>3. tables = TablesOf(analytics, pointer)
    BY <2>2 DEF TablesOf
  <2> HIDE DEF tables
  <2>4. mem'[j].tables = tables /\ mem'[j].k = 0
    BY <2>1 DEF Blank
  <2>5. 1..mem'[j].k = {}
    BY <2>4
  <2>6. QED
    BY <1>2, <2>1, <2>3, <2>4, <2>5, BuildQuiet
<1>5. CASE WriteBi(j)
  <2> DEFINE k == mem[j].k + 1
             t == TableSeq[k]
  <2>1. /\ mem[j].k \in Nat /\ mem[j].k < Len(TableSeq) /\ Len(TableSeq) \in Nat
        /\ mem[j].tables = TablesOf(analytics, pointer)
        /\ \A i \in 1..mem[j].k :
              bi[TableSeq[i]] = TableOf(TableSeq[i], analytics, pointer)
    BY <1>1, <1>2, <1>5, TableAt DEF WriteBi, JobMemory, HoldsAt, ProgressOf
  <2>2. \A i \in 1..k : TableSeq[i] \in Tables
    BY <2>1, TableAt
  <2>3. mem[j].tables[t] = TableOf(t, analytics, pointer)
    BY <2>1, <2>2 DEF TablesOf
  <2>4. bi' = [bi EXCEPT ![t] = TableOf(t, analytics, pointer)]
    BY <1>5, <2>3 DEF WriteBi
  <2>5. \A i \in 1..k : bi'[TableSeq[i]] = TableOf(TableSeq[i], analytics, pointer)
    <3>1. \A i \in 1..k : i \in 1..mem[j].k \/ i = k
      BY <2>1
    <3>2. QED
      BY <1>1, <2>1, <2>2, <2>4, <3>1
  <2>6. CASE k < Len(TableSeq)
    <3>1. pc'[j] = "write_bi" /\ mem'[j] = [mem[j] EXCEPT !.k = k]
      BY <1>1, <1>5, <2>6 DEF WriteBi, Proceed
    <3>2. mem'[j].tables = mem[j].tables /\ mem'[j].k = k
      BY <1>1, <3>1 DEF JobMemory
    <3>3. QED
      BY <1>2, <2>1, <2>5, <3>1, <3>2, BuildQuiet
  <2>7. CASE ~(k < Len(TableSeq))
    <3>1. pc'[j] = "read_bi" /\ mem'[j] = Blank(mem[j].expected)
      BY <1>1, <1>5, <2>7 DEF WriteBi, Proceed, ProgressOf
    <3>2. mem'[j].k = 0
      BY <3>1 DEF Blank
    <3>3. k = Len(TableSeq)
      BY <2>1, <2>7
    <3>4. \A u \in Tables : bi'[u] = TableOf(u, analytics, pointer)
      BY <2>5, <3>3, TableAt
    <3>5. bi' = TablesOf(analytics, pointer)
      BY <1>1, <2>4, <3>4 DEF TablesOf
    <3>6. QED
      BY <1>2, <2>1, <3>1, <3>2, <3>5, BuildQuiet
  <2>8. QED
    BY <2>6, <2>7
<1>6. QED
    BY <1>3, <1>4, <1>5

\* Reading the BI tables; after the last, the manifest is that of a build whose
\* analytics the run that the pointer names may be named for.
LEMMA ReadBiReleases ==
    ASSUME NEW j \in Jobs, Turn(j), ReadBi(j)
    PROVE  /\ ProgressOf(j)' /\ PointerCurrent'
           /\ pc'[j] = "write_web" => mem'[j].manifest \in Genuine
<1> DEFINE k == mem[j].k + 1
           t == TableSeq[k]
           tables == [mem[j].tables EXCEPT ![t] = bi[t]]
<1>1. /\ pc \in [Jobs -> ProductSteps] /\ mem \in [Jobs -> JobMemory]
      /\ HoldsAt("read_bi", mem[j]) /\ ProgressOf(j) /\ pc[j] = "read_bi"
    BY DEF Turn, Shape, JobsOK, ReadBi
<1>2. Building(j) /\ UNCHANGED <<coreVars, bi, cmd>>
    BY DEF ReadBi, Building
<1>3. /\ bi = TablesOf(analytics, pointer) /\ analytics \in Versions
      /\ Names(pointer, analytics)
      /\ \A i \in 1..mem[j].k :
            mem[j].tables[TableSeq[i]] = TableOf(TableSeq[i], analytics, pointer)
    BY <1>1, <1>2 DEF ProgressOf, Turn, Shape, Stores
<1>4. /\ mem[j].k \in Nat /\ mem[j].k < Len(TableSeq) /\ Len(TableSeq) \in Nat
      /\ mem[j].tables \in [Tables -> Content \cup {None}]
    BY <1>1, TableAt DEF JobMemory, HoldsAt
<1>5. \A i \in 1..k : TableSeq[i] \in Tables
    BY <1>4, TableAt
<1>6. bi[t] = TableOf(t, analytics, pointer)
    BY <1>3, <1>4, <1>5 DEF TablesOf
<1>7. \A i \in 1..k : tables[TableSeq[i]] = TableOf(TableSeq[i], analytics, pointer)
  <2>1. \A i \in 1..k : i \in 1..mem[j].k \/ i = k
    BY <1>4
  <2>2. QED
    BY <1>3, <1>4, <1>5, <1>6, <2>1
<1>8. CASE pc'[j] = "write_web"
  <2>1. /\ k = Len(TableSeq)
        /\ mem'[j].tables = tables
        /\ mem'[j].manifest = ManifestOf(BundleOf(mem'[j].tables))
        /\ tables \in [Tables -> Content]
    BY <1>8, ReadBiMakes DEF Turn, Shape
  <2>2. \A u \in Tables : tables[u] = TableOf(u, analytics, pointer)
    BY <1>7, <2>1, TableAt
  <2>3. tables = TablesOf(analytics, pointer)
    BY <2>1, <2>2 DEF TablesOf
  <2> HIDE DEF tables
  <2>4. mem'[j].manifest = ManifestOf(BundleOf(TablesOf(analytics, pointer)))
    BY <2>1, <2>3
  <2>5. mem'[j].manifest \in Built
    BY <2>1, ManifestBuilt
  <2>6. mem'[j].manifest \in Genuine
    BY <1>3, <2>4, <2>5 DEF Genuine, Names
  <2>7. QED
    BY <1>2, <1>3, <1>8, <2>6, BuildQuiet
<1>9. CASE pc'[j] # "write_web"
  <2>1. \/ pc'[j] = "exit"
        \/ /\ pc'[j] = "read_bi"
           /\ mem'[j] = [mem[j] EXCEPT !.k = k, !.tables = tables]
    BY <1>1, <1>9 DEF ReadBi, End, Proceed
  <2>2. CASE pc'[j] = "exit"
    BY <1>2, <1>9, <2>2, BuildQuiet DEF Building
  <2>3. CASE pc'[j] = "read_bi" /\ mem'[j] = [mem[j] EXCEPT !.k = k, !.tables = tables]
    <3> HIDE DEF tables, k
    <3>1. mem'[j].tables = tables /\ mem'[j].k = k
      BY <1>1, <2>3 DEF JobMemory
    <3>2. QED
      BY <1>2, <1>3, <1>7, <2>3, <3>1, BuildQuiet
  <2>4. QED
    BY <2>1, <2>2, <2>3
<1>10. QED
    BY <1>8, <1>9

\* Writing the web files and verifying them.
LEMMA WebReleases ==
    ASSUME NEW j \in Jobs, Turn(j),
           \/ WriteWeb(j) \/ WriteWebManifest(j)
           \/ VerifyManifest(j) \/ VerifyFile(j)
    PROVE  ProgressOf(j)' /\ PointerCurrent'
<1>1. pc \in [Jobs -> ProductSteps] /\ ProgressOf(j)
    BY DEF Turn, Shape, JobsOK
<1>2. Building(j) /\ UNCHANGED <<coreVars, cmd>>
    BY DEF WriteWeb, WriteWebManifest, VerifyManifest, VerifyFile, Building
<1>3. pc'[j] \in {"write_web", "write_web_manifest", "verify", "verify_files",
                  "done", "exit"}
    BY <1>1 DEF WriteWeb, WriteWebManifest, VerifyManifest, VerifyFile, End, Proceed
<1>4. QED
    BY <1>2, <1>3, BuildQuiet

\* One step of one job.
LEMMA JobReleases ==
    ASSUME Serial, Shape, Releases, NEW j \in Jobs,
           Begin(j) \/ Fails(j) \/ Killed(j) \/ ProductStep(j)
    PROVE  /\ OneAtATime' /\ (\A i \in Jobs : ProgressOf(i))' /\ PointerCurrent'
           /\ ReadBi(j) /\ pc'[j] = "write_web" => mem'[j].manifest \in Genuine
           /\ Genuine \subseteq Genuine'
<1>1. Turn(j)
    BY JobMoves, OnlyJob DEF Turn, Releases
<1>2. ProgressOf(j)' /\ PointerCurrent'
  <2>1. CASE Begin(j)
    BY <1>1, <2>1, BeginReleases
  <2>2. CASE Fails(j) \/ Killed(j)
    BY <1>1, <2>2, FailReleases
  <2>3. CASE ProductStep(j)
    BY <1>1, <2>3, CoreReleases, BiReleases, ReadBiReleases, WebReleases
       DEF ProductStep
  <2>4. QED
    BY <2>1, <2>2, <2>3
<1>3. OneAtATime' /\ \A i \in Jobs : ProgressOf(i)'
    BY <1>1, <1>2, OneProgress DEF Turn
<1>4. Genuine \subseteq Genuine'
    BY <1>1, NamesKept, GenuineKept DEF Turn
<1>5. QED
    BY <1>1, <1>2, <1>3, <1>4, ReadBiReleases

LEMMA InitReleases == Init => Releases
<1> SUFFICES ASSUME Init PROVE Releases
    OBVIOUS
<1>1. OneAtATime
    BY DEF Init, ProductInit, OneAtATime, ProductRunning
<1>2. \A j \in Jobs : ProgressOf(j)
    BY DEF Init, ProductInit, ProgressOf, Building
<1>3. PointerCurrent
    BY DEF Init, ProductInit, PointerCurrent
<1>4. Trusts(Genuine)
    BY InitTrusts
<1>5. QED
    BY <1>1, <1>2, <1>3, <1>4 DEF Releases

LEMMA StepReleases ==
    ASSUME Serial, Shape, Releases, [Next]_vars
    PROVE  Releases'
<1>1. PICK S : S = Genuine
    OBVIOUS
<1>2. CASE ProductNext /\ UNCHANGED apiVars
  <2>1. PICK j \in Jobs : Begin(j) \/ Fails(j) \/ Killed(j) \/ ProductStep(j)
    BY <1>2 DEF ProductNext
  <2>2. /\ OneAtATime' /\ (\A i \in Jobs : ProgressOf(i))' /\ PointerCurrent'
        /\ Genuine \subseteq Genuine'
    BY <2>1, JobReleases
  <2>3. \A i \in Jobs : ReadBi(i) /\ pc'[i] = "write_web" => mem'[i].manifest \in S
    BY <1>1, JobReleases DEF ProductStep
  <2>4. Trusts(S)
    BY <1>1 DEF Releases
  <2>5. Trusts(S)'
    BY <2>3, <2>4, TrustKept
  <2>6. S \subseteq Genuine'
    BY <1>1, <2>2
  <2>7. Trusts(Genuine)'
    BY <2>5, <2>6 DEF Trusts
  <2>8. QED
    BY <2>2, <2>7 DEF Releases
<1>3. CASE UNCHANGED productVars
  <2>1. /\ OneAtATime' /\ (\A i \in Jobs : ProgressOf(i))' /\ PointerCurrent'
        /\ Genuine' = Genuine
    BY <1>3 DEF Releases, productVars, coreVars, OneAtATime, ProductRunning,
                ProgressOf, Building, PointerCurrent, Genuine, Names, Excused,
                Abandoned
  <2>2. \A i \in Jobs : ~(ReadBi(i) /\ pc'[i] = "write_web")
    BY <1>3 DEF ReadBi, productVars
  <2>3. Trusts(S)'
    BY <1>1, <2>2, TrustKept DEF Releases
  <2>4. Trusts(Genuine)'
    BY <1>1, <2>1, <2>3 DEF Trusts
  <2>5. QED
    BY <2>1, <2>4 DEF Releases
<1>4. QED
    BY <1>2, <1>3 DEF Next, Finished, vars, LoadStep, CheckExists, ReadManifest,
                      ReadFile, Validate, RestartFailed, Recycle

\* A bundle of genuine tables is one build's, and names a run it may be named
\* for.
LEMMA GenuineServed ==
    ASSUME NEW read \in Versions, NEW run \in Jobs
    PROVE  LET files == BundleOf(TablesOf(read, run))
           IN  /\ OneBuild(files)
               /\ files["run_metadata"].run = run
               /\ \A t \in Tables : files[t] = TableOf(t, read, run)
<1> DEFINE files == BundleOf(TablesOf(read, run))
<1>1. /\ "country_overview" \in Tables /\ "run_metadata" \in Tables
      /\ "countries" \notin Tables /\ Files = Tables \cup {"countries"}
    BY ProductAssumption, FileAt
<1>2. \A t \in Tables : files[t] = TableOf(t, read, run)
    BY <1>1 DEF BundleOf, TablesOf
<1>3. files["countries"].of = files["country_overview"].of
    BY <1>1 DEF BundleOf
<1> HIDE DEF files
<1>4. ASSUME NEW t \in Tables, NEW u \in Tables,
             NEW i \in Inputs \cap Shows[t] \cap Shows[u]
      PROVE  files[t].of[i] = files[u].of[i]
  <2>1. TableOf(t, read, run).of[i] = read[i] /\ TableOf(u, read, run).of[i] = read[i]
    BY DEF TableOf
  <2>2. QED
    BY <1>2, <2>1
<1>5. files["run_metadata"].run = run /\ files["country_overview"].run = run
  <2>1. \A t \in {"run_metadata", "country_overview"} : TableOf(t, read, run).run = run
    BY DEF TableOf
  <2>2. QED
    BY <1>1, <1>2, <2>1
<1>6. OneBuild(files)
    BY <1>3, <1>4, <1>5 DEF OneBuild
<1>7. QED
    BY <1>2, <1>5, <1>6 DEF files

LEMMA GenuineIsOneRelease ==
    ASSUME Shape, Releases
    PROVE  ServedIsOneRelease
<1> SUFFICES ASSUME NEW r \in Replicas, up[r] = "serving"
             PROVE  LET files == got[r].files
                        run == files["run_metadata"].run
                    IN  /\ OneBuild(files)
                        /\ run # None /\ released[run] # None
                        /\ PublishedBy(files, run) \/ Excused
    BY DEF ServedIsOneRelease, Excused
<1>1. /\ got[r].files = got[r].manifest.files
      /\ got[r].manifest \in Genuine
    BY DEF Shape, ReplicasOK, HasRead, Releases, Trusts
<1>2. PICK read \in Versions, run \in Jobs :
        /\ got[r].manifest = ManifestOf(BundleOf(TablesOf(read, run)))
        /\ Names(run, read)
    BY <1>1 DEF Genuine
<1>3. got[r].files = BundleOf(TablesOf(read, run))
    BY <1>1, <1>2 DEF ManifestOf
<1>4. /\ OneBuild(got[r].files)
      /\ got[r].files["run_metadata"].run = run
      /\ \A t \in Tables : got[r].files[t] = TableOf(t, read, run)
    BY <1>3, GenuineServed
<1>5. run # None
    BY ProductAssumption
<1>6. PublishedBy(got[r].files, run) \/ Excused
    BY <1>2, <1>4 DEF Names, PublishedBy
<1>7. QED
    BY <1>2, <1>4, <1>5, <1>6 DEF Names

\* Of one job at a time, and releases and products made by `run` and
\* publish-product only: a replica serves the tables of one build, under the
\* name of a released run, and these show what that run published unless a
\* later run was refused between computing and publishing.
THEOREM ServerOneRelease == Serial => (Spec => []ServedIsOneRelease)
<1> SUFFICES ASSUME Serial PROVE Spec => []ServedIsOneRelease
    OBVIOUS
<1>1. Init => Shape /\ Releases
    BY InitShape, InitReleases
<1>2. Shape /\ Releases /\ [Next]_vars => (Shape /\ Releases)'
    BY StepShape, StepReleases
<1>3. Shape /\ Releases => ServedIsOneRelease
    BY GenuineIsOneRelease
<1>4. QED
    BY <1>1, <1>2, <1>3, PTL DEF Spec

\* Where only `run` is ever started, one at a time, there is no such excuse:
\* what a replica serves under the name of a run is what that run published.
THEOREM RunsServeTheirOwn ==
    Serial /\ Commands \subseteq {"run"} => (Spec => []ServedIsPublished)
<1> SUFFICES ASSUME Serial, Commands \subseteq {"run"}
             PROVE  Spec => []ServedIsPublished
    OBVIOUS
<1> DEFINE OnlyRuns == \A j \in Jobs : cmd[j] = "run"
<1>1. Init => Shape /\ Releases /\ OnlyRuns
    BY InitShape, InitReleases DEF Init, ProductInit
<1>2. Shape /\ Releases /\ OnlyRuns /\ [Next]_vars => (Shape /\ Releases /\ OnlyRuns)'
  <2> SUFFICES ASSUME Shape, Releases, OnlyRuns, [Next]_vars
               PROVE  (Shape /\ Releases)' /\ OnlyRuns'
      OBVIOUS
  <2>1. (Shape /\ Releases)'
    BY StepShape, StepReleases
  <2>2. CASE ProductNext
    <3>1. PICK j \in Jobs : Begin(j) \/ Fails(j) \/ Killed(j) \/ ProductStep(j)
      BY <2>2 DEF ProductNext
    <3>2. cmd' = cmd \/ \E c \in Commands : cmd' = [cmd EXCEPT ![j] = c]
      BY <3>1 DEF Begin, Fails, Killed, ProductStep, Compute, CorePublish,
         RequireCoreRelease, ReadAnalytics, ReadPointer, WriteBi, ReadBi,
         WriteWeb, WriteWebManifest, VerifyManifest, VerifyFile
    <3>3. OnlyRuns'
      BY <3>2 DEF Shape, Stores
    <3>4. QED
      BY <2>1, <3>3
  <2>3. CASE UNCHANGED productVars
    BY <2>1, <2>3 DEF productVars
  <2>4. QED
    BY <2>2, <2>3 DEF Next, Finished, vars, LoadStep, CheckExists, ReadManifest,
                      ReadFile, Validate, RestartFailed, Recycle
<1>3. Shape /\ Releases /\ OnlyRuns => ServedIsPublished
    BY GenuineIsOneRelease DEF ServedIsOneRelease, ServedIsPublished
<1>4. QED
    BY <1>1, <1>2, <1>3, PTL DEF Spec
==============================================================================
