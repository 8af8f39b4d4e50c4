---------------------------- MODULE CorpusProofs ----------------------------
(***************************************************************************)
(* Proofs about Corpus, for any number of processes, commands, sources,    *)
(* contents and failures.                                                  *)
(***************************************************************************)
EXTENDS Corpus, SequenceTheorems, TLAPS

\* A file of the raw store is complete and under its own hash, or missing.
RawIsContent == \A c \in Contents : raw[c] \in {None, c}

\* A version is of a source on record.
VersionHasSource ==
  \A v \in DOMAIN versions : sources[versions[v].source] # None

\* What the command of p can rely on from its earlier steps, whatever the other
\* processes did in between.
ImportOK(p) ==
  LET a == process[p]
  IN  a.job.command = "ingest" =>
        /\ a.phase \in {"called", "adding"} => a.meta \in Metas
        /\ a.phase \in {"storing", "staged", "stored", "new"} => sources[a.job.source] # None
        /\ a.phase = "staged" => a.bytes = a.job.content
        /\ a.phase \in {"staged", "stored", "new"} => a.digest = a.job.content
        /\ a.phase \in {"stored", "new"} => raw[a.job.content] = a.job.content
        /\ a.phase = "done" => a.answer \in Holding(a.job.source, a.job.content)

ParseOK(p) ==
  LET a == process[p]
  IN  a.job.command = "parse" =>
        /\ a.job.version \in DOMAIN versions
        /\ a.phase = "parsing" => a.digest = versions[a.job.version].sha256
        /\ a.phase \in {"stored", "new"} => a.bytes = versions[a.job.version].sha256
        /\ a.phase = "done" => a.answer \in ParsedAs(a.job.version, a.job.config)

IInv ==
  /\ TypeOK
  /\ RawIsContent
  /\ VersionHasSource
  /\ VersionHasBytes
  /\ TextHasProvenance
  /\ \A p \in Processes : ImportOK(p) /\ ParseOK(p)

-----------------------------------------------------------------------------
(* What the helpers do to the processes *)

LEMMA GotoShape ==
  ASSUME TypeOK, NEW p \in Processes, NEW phase \in Phases, Goto(p, phase)
  PROVE  /\ process' \in [Processes -> Activity]
         /\ process'[p].phase = phase
         /\ process'[p].job = process[p].job
         /\ process'[p].meta = process[p].meta
         /\ process'[p].bytes = process[p].bytes
         /\ process'[p].digest = process[p].digest
         /\ \A q \in Processes \ {p} : process'[q] = process[q]
BY DEF Goto, TypeOK, Activity

LEMMA AnswerShape ==
  ASSUME TypeOK, NEW p \in Processes, NEW row \in Nat, Answer(p, row)
  PROVE  /\ process' \in [Processes -> Activity]
         /\ process'[p].phase = "done"
         /\ process'[p].job = process[p].job
         /\ process'[p].answer = row
         /\ \A q \in Processes \ {p} : process'[q] = process[q]
<1>1. process \in [Processes -> Activity] /\ process[p] \in Activity
  BY DEF TypeOK
<1>2. [process[p] EXCEPT !.phase = "done", !.answer = row] \in Activity
  BY <1>1 DEF Activity, Phases
<1>3. process' = [process EXCEPT ![p] = [process[p] EXCEPT !.phase = "done", !.answer = row]]
  BY DEF Answer
<1> QED
  BY <1>1, <1>2, <1>3 DEF Activity

LEMMA FailShape ==
  ASSUME TypeOK, NEW p \in Processes, Fail(p)
  PROVE  /\ process' \in [Processes -> Activity]
         /\ process'[p].phase = "failed"
         /\ process'[p].job = process[p].job
         /\ \A q \in Processes \ {p} : process'[q] = process[q]
<1>1. process \in [Processes -> Activity] /\ process[p] \in Activity
  BY DEF TypeOK
<1>2. [Begin(process[p].job) EXCEPT !.phase = "failed"] \in Activity
  BY <1>1 DEF Activity, Phases, Begin, Idle
<1> QED
  BY <1>1, <1>2 DEF Fail, Activity, Begin, Idle

-----------------------------------------------------------------------------
(* What a step must show *)

LEMMA InitIInv == Init => IInv
<1> SUFFICES ASSUME Init PROVE IInv OBVIOUS
<1>1. TypeOK
  BY CorpusAssumption, EmptySeq DEF Init, TypeOK, Activity, Idle, Phases
<1>2. \A p \in Processes : process[p].job.command = "none"
  BY DEF Init, Idle, NoJob
<1>3. DOMAIN versions = {} /\ DOMAIN parsed = {}
  BY DEF Init
<1>4. RawIsContent
  BY DEF Init, RawIsContent
<1> QED
  BY <1>1, <1>2, <1>3, <1>4
  DEF IInv, VersionHasSource, VersionHasBytes, TextHasProvenance, ImportOK, ParseOK

\* What is on record is typed.
LEMMA OnRecord ==
  ASSUME TypeOK
  PROVE  /\ versions \in Seq(Version) /\ DOMAIN versions = 1..Len(versions) /\ Len(versions) \in Nat
         /\ parsed \in Seq(Parsed) /\ DOMAIN parsed = 1..Len(parsed) /\ Len(parsed) \in Nat
         /\ \A v \in DOMAIN versions :
              /\ v \in Nat
              /\ versions[v].source \in Sources
              /\ versions[v].sha256 \in Contents
         /\ \A d \in DOMAIN parsed : d \in Nat /\ parsed[d].version \in Nat
<1>1. /\ versions \in [1..Len(versions) -> Version] /\ DOMAIN versions = 1..Len(versions)
      /\ parsed \in [1..Len(parsed) -> Parsed] /\ DOMAIN parsed = 1..Len(parsed)
      /\ Len(versions) \in Nat /\ Len(parsed) \in Nat
  BY LenProperties DEF TypeOK
<1> QED
  BY <1>1 DEF TypeOK, Version, Parsed

\* A process that imports or parses has the job of its command.
LEMMA JobOf ==
  ASSUME TypeOK, NEW p \in Processes
  PROVE  /\ process[p].job.command = "ingest" =>
              process[p].job.source \in Sources /\ process[p].job.content \in Contents
         /\ process[p].job.command = "parse" =>
              process[p].job.version \in Nat /\ process[p].job.config \in Configs
         /\ process[p].meta \in Metas \cup {None}
         /\ process[p].bytes \in Contents \cup {None}
         /\ process[p].digest \in Contents \cup {None}
<1>1. process[p].job \in ImportJob \cup ParseJob \cup {NoJob}
  BY DEF TypeOK, Activity
<1>2. process[p].job.command = "ingest" => process[p].job \in ImportJob
  BY <1>1 DEF ParseJob, NoJob
<1>3. process[p].job.command = "parse" => process[p].job \in ParseJob
  BY <1>1 DEF ImportJob, NoJob
<1> QED
  BY <1>2, <1>3 DEF TypeOK, Activity, ImportJob, ParseJob

\* What a process relies on is not disturbed by records that are only added.
LEMMA OthersRely ==
  ASSUME IInv, RecordsKept, NEW q \in Processes, process'[q] = process[q]
  PROVE  ImportOK(q)' /\ ParseOK(q)'
<1> DEFINE a == process[q]
<1>1. TypeOK /\ ImportOK(q) /\ ParseOK(q)
  BY DEF IInv
<1>2. ImportOK(q)'
  <2> SUFFICES ASSUME a.job.command = "ingest" PROVE ImportOK(q)'
    BY DEF ImportOK
  <2>1. a.job.source \in Sources /\ a.job.content \in Contents
    BY <1>1, JobOf
  <2>2. a.phase \in {"storing", "staged", "stored", "new"} => sources'[a.job.source] # None
    BY <1>1, <2>1 DEF ImportOK, RecordsKept
  <2>3. a.phase \in {"stored", "new"} => raw'[a.job.content] = a.job.content
    BY <1>1, <2>1, CorpusAssumption DEF ImportOK, RecordsKept
  <2>4. a.phase = "done" => a.answer \in Holding(a.job.source, a.job.content)'
    BY <1>1 DEF ImportOK, Holding, RecordsKept
  <2> QED
    BY <1>1, <2>2, <2>3, <2>4 DEF ImportOK
<1>3. ParseOK(q)'
  <2> SUFFICES ASSUME a.job.command = "parse" PROVE ParseOK(q)'
    BY DEF ParseOK
  <2>1. /\ a.job.version \in DOMAIN versions
        /\ a.job.version \in DOMAIN versions'
        /\ versions'[a.job.version] = versions[a.job.version]
    BY <1>1 DEF ParseOK, RecordsKept
  <2>2. a.phase = "done" => a.answer \in ParsedAs(a.job.version, a.job.config)'
    BY <1>1 DEF ParseOK, ParsedAs, RecordsKept
  <2> QED
    BY <1>1, <2>1, <2>2 DEF ParseOK
<1> QED
  BY <1>2, <1>3

\* A step of one process that leaves the records alone has to show only what the
\* process itself relies on.
LEMMA QuietStep ==
  ASSUME IInv, NEW p \in Processes,
         process' \in [Processes -> Activity],
         \A q \in Processes \ {p} : process'[q] = process[q],
         UNCHANGED store,
         commands' \in 0..MaxCommands, failures' \in 0..MaxFailures,
         ImportOK(p)', ParseOK(p)'
  PROVE  IInv' /\ RecordsKept
<1>1. UNCHANGED <<sources, raw, versions, parsed>>
  BY DEF store
<1>2. RecordsKept
  BY <1>1 DEF RecordsKept
<1>3. \A q \in Processes : ImportOK(q)' /\ ParseOK(q)'
  BY <1>2, OthersRely
<1>4. TypeOK'
  BY <1>1 DEF IInv, TypeOK
<1>5. RawIsContent' /\ VersionHasSource' /\ VersionHasBytes' /\ TextHasProvenance'
  BY <1>1 DEF IInv, RawIsContent, VersionHasSource, VersionHasBytes, TextHasProvenance
<1> QED
  BY <1>2, <1>3, <1>4, <1>5 DEF IInv

\* A command that ends with an error relies on nothing but its arguments.
LEMMA FailStep ==
  ASSUME IInv, NEW p \in Processes, Fail(p), UNCHANGED store,
         commands' \in 0..MaxCommands, failures' \in 0..MaxFailures
  PROVE  IInv' /\ RecordsKept
<1>1. /\ TypeOK /\ ParseOK(p)
      /\ UNCHANGED versions
  BY DEF IInv, store
<1>2. /\ process' \in [Processes -> Activity]
      /\ process'[p].phase = "failed"
      /\ process'[p].job = process[p].job
      /\ \A q \in Processes \ {p} : process'[q] = process[q]
  BY <1>1, FailShape
<1>3. ImportOK(p)'
  BY <1>2 DEF ImportOK
<1>4. ParseOK(p)'
  BY <1>1, <1>2 DEF ParseOK
<1> QED
  BY <1>2, <1>3, <1>4, QuietStep

\* A counter that is left alone, or counts a failure, stays within its bound.
LEMMA CountersOK ==
  ASSUME TypeOK
  PROVE  /\ UNCHANGED commands => commands' \in 0..MaxCommands
         /\ UNCHANGED failures => failures' \in 0..MaxFailures
         /\ failures < MaxFailures /\ failures' = failures + 1 => failures' \in 0..MaxFailures
BY CorpusAssumption DEF TypeOK

\* So does a command that an I/O error ends, if the error changed nothing.
LEMMA IOErrorStep ==
  ASSUME IInv, NEW p \in Processes, IOError(p), UNCHANGED <<store, commands>>
  PROVE  IInv' /\ RecordsKept
<1>1. commands' \in 0..MaxCommands /\ failures' \in 0..MaxFailures
  BY CountersOK DEF IInv, IOError
<1> QED
  BY <1>1, FailStep DEF IOError

-----------------------------------------------------------------------------
(* catchain ingest local *)

LEMMA IngestStartKeeps ==
  ASSUME IInv, NEW p \in Processes, IngestStart(p)
  PROVE  IInv' /\ RecordsKept
<1>1. TypeOK /\ process \in [Processes -> Activity] /\ process[p] \in Activity
  BY DEF IInv, TypeOK
<1>2. PICK meta \in Metas :
        process' = [process EXCEPT ![p] = [process[p] EXCEPT !.phase = "called", !.meta = meta]]
  BY DEF IngestStart
<1>3. [process[p] EXCEPT !.phase = "called", !.meta = meta] \in Activity
  BY <1>1 DEF Activity, Phases
<1>4. /\ process' \in [Processes -> Activity]
      /\ process'[p].phase = "called"
      /\ process'[p].meta = meta
      /\ process'[p].job = process[p].job
      /\ process[p].job.command = "ingest"
      /\ \A q \in Processes \ {p} : process'[q] = process[q]
  BY <1>1, <1>2, <1>3 DEF Activity, IngestStart, At
<1>5. ImportOK(p)' /\ ParseOK(p)'
  BY <1>4 DEF ImportOK, ParseOK
<1> QED
  BY <1>1, <1>4, <1>5, CountersOK, QuietStep DEF IngestStart

LEMMA GetSourceKeeps ==
  ASSUME IInv, NEW p \in Processes, GetSource(p)
  PROVE  IInv' /\ RecordsKept
<1> DEFINE s == process[p].job.source
<1>1. /\ TypeOK /\ ImportOK(p)
      /\ process[p].phase = "called" /\ process[p].job.command = "ingest"
      /\ UNCHANGED <<store, commands, failures>>
      /\ commands' \in 0..MaxCommands /\ failures' \in 0..MaxFailures
  BY CountersOK DEF IInv, GetSource, At
<1>2. /\ process[p].meta \in Metas
      /\ UNCHANGED sources
  BY <1>1 DEF ImportOK, store
<1>3. CASE \/ sources[s] = None /\ Goto(p, "adding")
           \/ sources[s] = process[p].meta /\ Goto(p, "storing")
  <2>1. PICK phase \in {"adding", "storing"} :
          /\ Goto(p, phase)
          /\ phase = "storing" => sources[s] = process[p].meta
    BY <1>3
  <2>2. /\ process' \in [Processes -> Activity]
        /\ process'[p].phase = phase
        /\ process'[p].job = process[p].job
        /\ process'[p].meta = process[p].meta
        /\ \A q \in Processes \ {p} : process'[q] = process[q]
    BY <1>1, <2>1, GotoShape DEF Phases
  <2>3. ImportOK(p)' /\ ParseOK(p)'
    BY <1>1, <1>2, <2>1, <2>2, CorpusAssumption DEF ImportOK, ParseOK
  <2> QED
    BY <1>1, <2>2, <2>3, QuietStep
<1>4. CASE Fail(p)
  BY <1>1, <1>4, FailStep
<1> QED
  BY <1>3, <1>4 DEF GetSource

LEMMA AddSourceKeeps ==
  ASSUME IInv, NEW p \in Processes, AddSource(p)
  PROVE  IInv' /\ RecordsKept
<1> DEFINE s == process[p].job.source
           meta == process[p].meta
<1>1. /\ TypeOK /\ ImportOK(p)
      /\ process[p].phase = "adding" /\ process[p].job.command = "ingest"
      /\ UNCHANGED <<raw, versions, parsed, commands, failures>>
      /\ commands' \in 0..MaxCommands /\ failures' \in 0..MaxFailures
  BY CountersOK DEF IInv, AddSource, At
<1>2. meta \in Metas /\ s \in Sources
  BY <1>1, JobOf DEF ImportOK
<1>3. CASE /\ sources[s] = None
           /\ sources' = [sources EXCEPT ![s] = meta]
           /\ Goto(p, "storing")
  <2>1. /\ process' \in [Processes -> Activity]
        /\ process'[p].phase = "storing"
        /\ process'[p].job = process[p].job
        /\ \A q \in Processes \ {p} : process'[q] = process[q]
    BY <1>1, <1>3, GotoShape DEF Phases
  <2>2. /\ sources' \in [Sources -> Metas \cup {None}]
        /\ sources'[s] = meta
        /\ \A t \in Sources : sources[t] # None => sources'[t] = sources[t]
    BY <1>1, <1>2, <1>3 DEF TypeOK
  <2>3. RecordsKept
    BY <1>1, <2>2 DEF RecordsKept
  <2>4. TypeOK'
    BY <1>1, <2>1, <2>2 DEF TypeOK
  <2>5. VersionHasSource' /\ TextHasProvenance'
    <3>1. \A v \in DOMAIN versions : versions[v].source \in Sources
      BY <1>1, OnRecord
    <3> QED
      BY <1>1, <2>2, <3>1 DEF IInv, VersionHasSource, TextHasProvenance
  <2>6. RawIsContent' /\ VersionHasBytes'
    BY <1>1 DEF IInv, RawIsContent, VersionHasBytes
  <2>7. ImportOK(p)' /\ ParseOK(p)'
    BY <1>1, <1>2, <2>1, <2>2, CorpusAssumption DEF ImportOK, ParseOK
  <2>8. \A q \in Processes : ImportOK(q)' /\ ParseOK(q)'
    BY <2>1, <2>3, <2>7, OthersRely
  <2> QED
    BY <2>3, <2>4, <2>5, <2>6, <2>8 DEF IInv
<1>4. CASE Fail(p) /\ UNCHANGED sources
  BY <1>1, <1>4, FailStep DEF store
<1> QED
  BY <1>3, <1>4 DEF AddSource

LEMMA CopyKeeps ==
  ASSUME IInv, NEW p \in Processes, Copy(p)
  PROVE  IInv' /\ RecordsKept
<1> DEFINE c == process[p].job.content
           new == [process[p] EXCEPT !.phase = "staged", !.bytes = c, !.digest = c]
<1>1. /\ TypeOK /\ ImportOK(p)
      /\ process \in [Processes -> Activity] /\ process[p] \in Activity
      /\ process[p].phase = "storing" /\ process[p].job.command = "ingest"
      /\ UNCHANGED <<store, commands>>
  BY DEF IInv, TypeOK, Copy, At
<1>2. c \in Contents
  BY <1>1, JobOf
<1>3. CASE process' = [process EXCEPT ![p] = new] /\ UNCHANGED failures
  <2>1. new \in Activity
    BY <1>1, <1>2 DEF Activity, Phases
  <2>2. /\ process' \in [Processes -> Activity]
        /\ process'[p].phase = "staged"
        /\ process'[p].bytes = c
        /\ process'[p].digest = c
        /\ process'[p].job = process[p].job
        /\ \A q \in Processes \ {p} : process'[q] = process[q]
    BY <1>1, <1>3, <2>1 DEF Activity
  <2>3. UNCHANGED sources
    BY <1>1 DEF store
  <2>4. ImportOK(p)' /\ ParseOK(p)'
    BY <1>1, <2>2, <2>3 DEF ImportOK, ParseOK
  <2> QED
    BY <1>1, <1>3, <2>2, <2>4, CountersOK, QuietStep
<1>4. CASE IOError(p)
  BY <1>1, <1>4, IOErrorStep
<1> QED
  BY <1>3, <1>4 DEF Copy

\* The raw store gets the staged file under the hash of its bytes.
LEMMA LinkKeeps ==
  ASSUME IInv, NEW p \in Processes, Link(p)
  PROVE  IInv' /\ RecordsKept
<1> DEFINE c == process[p].job.content
           linked == [raw EXCEPT ![c] = IF @ = None THEN c ELSE @]
<1>1. /\ TypeOK /\ ImportOK(p) /\ ParseOK(p) /\ RawIsContent
      /\ process[p].phase = "staged" /\ process[p].job.command = "ingest"
      /\ process[p].bytes = c /\ process[p].digest = c
      /\ UNCHANGED <<sources, versions, parsed, commands>>
      /\ commands' \in 0..MaxCommands
  BY CountersOK DEF IInv, Link, At, ImportOK
<1>2. c \in Contents
  BY <1>1, JobOf
<1>3. /\ linked \in [Contents -> Contents \cup {None}]
      /\ linked[c] = c
      /\ \A d \in Contents : linked[d] \in {raw[d], d}
      /\ \A d \in Contents : raw[d] # None => linked[d] = raw[d]
      /\ \A d \in Contents : linked[d] \in {None, d}
  BY <1>1, <1>2 DEF TypeOK, RawIsContent
<1>4. /\ raw' \in {raw, linked}
      /\ \/ raw' = linked /\ Goto(p, "stored") /\ UNCHANGED failures
         \/ IOError(p)
  BY <1>1 DEF Link
<1>5. /\ raw' \in [Contents -> Contents \cup {None}]
      /\ \A d \in Contents : raw[d] # None => raw'[d] = raw[d]
      /\ RawIsContent'
  BY <1>1, <1>3, <1>4 DEF TypeOK, RawIsContent
<1>6. RecordsKept
  BY <1>1, <1>5 DEF RecordsKept
<1>7. /\ process' \in [Processes -> Activity]
      /\ process'[p].job = process[p].job
      /\ \A q \in Processes \ {p} : process'[q] = process[q]
      /\ \/ process'[p].phase = "failed"
         \/ process'[p].phase = "stored" /\ process'[p].digest = c /\ raw' = linked
  <2>1. CASE raw' = linked /\ Goto(p, "stored")
    BY <1>1, <2>1, GotoShape DEF Phases
  <2>2. CASE IOError(p)
    BY <1>1, <2>2, FailShape DEF IOError
  <2> QED
    BY <1>4, <2>1, <2>2
<1>8. failures' \in 0..MaxFailures
  BY <1>1, <1>4, CountersOK DEF IOError
<1>9. TypeOK'
  BY <1>1, <1>5, <1>7, <1>8 DEF TypeOK
<1>10. VersionHasBytes' /\ VersionHasSource' /\ TextHasProvenance'
  <2>1. \A v \in DOMAIN versions :
          /\ versions[v].sha256 \in Contents
          /\ raw[versions[v].sha256] = versions[v].sha256
    BY <1>1, OnRecord DEF IInv, VersionHasBytes
  <2>2. VersionHasBytes'
    BY <1>1, <1>5, <2>1, CorpusAssumption DEF VersionHasBytes
  <2> QED
    BY <1>1, <2>2 DEF IInv, VersionHasSource, TextHasProvenance
<1>11. ImportOK(p)' /\ ParseOK(p)'
  BY <1>1, <1>3, <1>7 DEF ImportOK, ParseOK
<1>12. \A q \in Processes : ImportOK(q)' /\ ParseOK(q)'
  BY <1>6, <1>7, <1>11, OthersRely
<1> QED
  BY <1>5, <1>6, <1>9, <1>10, <1>12 DEF IInv

LEMMA FindVersionKeeps ==
  ASSUME IInv, NEW p \in Processes, FindVersion(p)
  PROVE  IInv' /\ RecordsKept
<1> DEFINE s == process[p].job.source
           c == process[p].job.content
<1>1. /\ TypeOK /\ ImportOK(p)
      /\ process[p].phase = "stored" /\ process[p].job.command = "ingest"
      /\ process[p].digest = c
      /\ UNCHANGED <<store, commands, failures>>
      /\ commands' \in 0..MaxCommands /\ failures' \in 0..MaxFailures
  BY CountersOK DEF IInv, FindVersion, At, ImportOK
<1>2. UNCHANGED <<sources, raw, versions>>
  BY <1>1 DEF store
<1>3. CASE \E v \in Holding(s, c) : Answer(p, v)
  <2>1. PICK v \in Holding(s, c) : Answer(p, v)
    BY <1>3
  <2>2. v \in Nat
    BY <1>1, OnRecord DEF Holding
  <2>3. /\ process' \in [Processes -> Activity]
        /\ process'[p].phase = "done"
        /\ process'[p].job = process[p].job
        /\ process'[p].answer = v
        /\ \A q \in Processes \ {p} : process'[q] = process[q]
    BY <1>1, <2>1, <2>2, AnswerShape
  <2>4. Holding(s, c)' = Holding(s, c)
    BY <1>2, <2>3 DEF Holding
  <2>5. ImportOK(p)' /\ ParseOK(p)'
    BY <1>1, <2>1, <2>3, <2>4 DEF ImportOK, ParseOK
  <2> QED
    BY <1>1, <2>3, <2>5, QuietStep
<1>4. CASE Goto(p, "new")
  <2>1. /\ process' \in [Processes -> Activity]
        /\ process'[p].phase = "new"
        /\ process'[p].job = process[p].job
        /\ process'[p].digest = process[p].digest
        /\ \A q \in Processes \ {p} : process'[q] = process[q]
    BY <1>1, <1>4, GotoShape DEF Phases
  <2>2. ImportOK(p)' /\ ParseOK(p)'
    BY <1>1, <1>2, <2>1 DEF ImportOK, ParseOK
  <2> QED
    BY <1>1, <2>1, <2>2, QuietStep
<1> QED
  BY <1>1, <1>3, <1>4 DEF FindVersion

\* The row is written only after the bytes are in the raw store, for a source
\* that is on record.
LEMMA AddVersionKeeps ==
  ASSUME IInv, NEW p \in Processes, AddVersion(p)
  PROVE  IInv' /\ RecordsKept
<1> DEFINE s == process[p].job.source
           c == process[p].job.content
           n == Len(versions) + 1
           row == [source |-> s, sha256 |-> c]
<1>1. /\ TypeOK /\ ImportOK(p)
      /\ process[p].phase = "new" /\ process[p].job.command = "ingest"
      /\ process[p].digest = c
      /\ raw[c] = c /\ sources[s] # None
      /\ UNCHANGED <<sources, raw, parsed, commands, failures>>
      /\ commands' \in 0..MaxCommands /\ failures' \in 0..MaxFailures
  BY CountersOK DEF IInv, AddVersion, At, ImportOK
<1>2. /\ s \in Sources /\ c \in Contents
      /\ versions \in Seq(Version) /\ Len(versions) \in Nat /\ DOMAIN versions = 1..Len(versions)
  BY <1>1, JobOf, OnRecord
<1>3. CASE /\ versions' = Append(versions, row)
           /\ Answer(p, Len(versions'))
  <2>1. row \in Version
    BY <1>2 DEF Version
  <2>2. /\ versions' \in Seq(Version)
        /\ Len(versions') = n /\ n \in Nat
        /\ DOMAIN versions' = DOMAIN versions \cup {n}
        /\ versions'[n] = row
        /\ \A v \in DOMAIN versions : versions'[v] = versions[v]
    BY <1>2, <1>3, <2>1, AppendProperties
  <2>3. /\ process' \in [Processes -> Activity]
        /\ process'[p].phase = "done"
        /\ process'[p].job = process[p].job
        /\ process'[p].answer = n
        /\ \A q \in Processes \ {p} : process'[q] = process[q]
    <3>1. Answer(p, n)
      BY <1>3, <2>2
    <3> QED
      BY <1>1, <2>2, <3>1, AnswerShape
  <2>4. RecordsKept
    BY <1>1, <2>2 DEF RecordsKept
  <2>5. TypeOK'
    BY <1>1, <2>2, <2>3 DEF TypeOK
  <2>6. RawIsContent' /\ VersionHasSource' /\ VersionHasBytes' /\ TextHasProvenance'
    BY <1>1, <2>2 DEF IInv, RawIsContent, VersionHasSource, VersionHasBytes, TextHasProvenance
  <2>7. n \in Holding(s, c)'
    BY <2>2, <2>3 DEF Holding
  <2>8. ImportOK(p)' /\ ParseOK(p)'
    BY <1>1, <2>3, <2>7 DEF ImportOK, ParseOK, Holding
  <2>9. \A q \in Processes : ImportOK(q)' /\ ParseOK(q)'
    BY <2>3, <2>4, <2>8, OthersRely
  <2> QED
    BY <2>4, <2>5, <2>6, <2>9 DEF IInv
<1>4. CASE Fail(p) /\ UNCHANGED versions
  BY <1>1, <1>4, FailStep DEF store
<1> QED
  BY <1>1, <1>3, <1>4 DEF AddVersion

-----------------------------------------------------------------------------
(* catchain parse raw *)

LEMMA ParseStartKeeps ==
  ASSUME IInv, NEW p \in Processes, ParseStart(p)
  PROVE  IInv' /\ RecordsKept
<1> DEFINE digest == versions[process[p].job.version].sha256
           new == [process[p] EXCEPT !.phase = "parsing", !.digest = digest]
<1>1. /\ TypeOK /\ ParseOK(p)
      /\ process \in [Processes -> Activity] /\ process[p] \in Activity
      /\ process[p].job.command = "parse"
      /\ UNCHANGED <<store, commands, failures>>
      /\ commands' \in 0..MaxCommands /\ failures' \in 0..MaxFailures
      /\ UNCHANGED versions
  BY CountersOK DEF IInv, TypeOK, ParseStart, At, store
<1>2. process[p].job.version \in DOMAIN versions /\ digest \in Contents
  BY <1>1, OnRecord DEF ParseOK
<1>3. CASE process' = [process EXCEPT ![p] = new]
  <2>1. new \in Activity
    BY <1>1, <1>2 DEF Activity, Phases
  <2>2. /\ process' \in [Processes -> Activity]
        /\ process'[p].phase = "parsing"
        /\ process'[p].digest = digest
        /\ process'[p].job = process[p].job
        /\ \A q \in Processes \ {p} : process'[q] = process[q]
    BY <1>1, <1>3, <2>1 DEF Activity
  <2>3. ImportOK(p)' /\ ParseOK(p)'
    BY <1>1, <1>2, <2>2 DEF ImportOK, ParseOK
  <2> QED
    BY <1>1, <2>2, <2>3, QuietStep
<1>4. CASE Fail(p)
  BY <1>1, <1>4, FailStep
<1> QED
  BY <1>3, <1>4 DEF ParseStart

\* Parsing reads the bytes that the version names.
LEMMA ParseKeeps ==
  ASSUME IInv, NEW p \in Processes, Parse(p)
  PROVE  IInv' /\ RecordsKept
<1> DEFINE v == process[p].job.version
           bytes == raw[process[p].digest]
           new == [process[p] EXCEPT !.phase = "stored", !.bytes = bytes]
<1>1. /\ TypeOK /\ ParseOK(p)
      /\ process \in [Processes -> Activity] /\ process[p] \in Activity
      /\ process[p].phase = "parsing" /\ process[p].job.command = "parse"
      /\ UNCHANGED <<store, commands>>
      /\ UNCHANGED versions
  BY DEF IInv, TypeOK, Parse, At, store
<1>2. /\ v \in DOMAIN versions
      /\ process[p].digest = versions[v].sha256
      /\ versions[v].sha256 \in Contents
      /\ bytes = versions[v].sha256
  BY <1>1, OnRecord DEF IInv, ParseOK, VersionHasBytes
<1>3. CASE process' = [process EXCEPT ![p] = new] /\ UNCHANGED failures
  <2>1. new \in Activity
    BY <1>1, <1>2 DEF Activity, Phases
  <2>2. /\ process' \in [Processes -> Activity]
        /\ process'[p].phase = "stored"
        /\ process'[p].bytes = bytes
        /\ process'[p].job = process[p].job
        /\ \A q \in Processes \ {p} : process'[q] = process[q]
    BY <1>1, <1>3, <2>1 DEF Activity
  <2>3. ImportOK(p)' /\ ParseOK(p)'
    BY <1>1, <1>2, <2>2 DEF ImportOK, ParseOK
  <2> QED
    BY <1>1, <1>3, <2>2, <2>3, CountersOK, QuietStep
<1>4. CASE IOError(p)
  BY <1>1, <1>4, IOErrorStep
<1> QED
  BY <1>3, <1>4 DEF Parse

LEMMA FindParsedKeeps ==
  ASSUME IInv, NEW p \in Processes, FindParsed(p)
  PROVE  IInv' /\ RecordsKept
<1> DEFINE v == process[p].job.version
           config == process[p].job.config
<1>1. /\ TypeOK /\ ParseOK(p)
      /\ process[p].phase = "stored" /\ process[p].job.command = "parse"
      /\ UNCHANGED <<store, commands, failures>>
      /\ commands' \in 0..MaxCommands /\ failures' \in 0..MaxFailures
  BY CountersOK DEF IInv, FindParsed, At
<1>2. UNCHANGED <<versions, parsed>>
  BY <1>1 DEF store
<1>3. CASE \E d \in ParsedAs(v, config) : Answer(p, d)
  <2>1. PICK d \in ParsedAs(v, config) : Answer(p, d)
    BY <1>3
  <2>2. d \in Nat
    BY <1>1, OnRecord DEF ParsedAs
  <2>3. /\ process' \in [Processes -> Activity]
        /\ process'[p].phase = "done"
        /\ process'[p].job = process[p].job
        /\ process'[p].answer = d
        /\ \A q \in Processes \ {p} : process'[q] = process[q]
    BY <1>1, <2>1, <2>2, AnswerShape
  <2>4. ParsedAs(v, config)' = ParsedAs(v, config)
    BY <1>2, <2>3 DEF ParsedAs
  <2>5. ImportOK(p)' /\ ParseOK(p)'
    BY <1>1, <1>2, <2>1, <2>3, <2>4 DEF ImportOK, ParseOK
  <2> QED
    BY <1>1, <2>3, <2>5, QuietStep
<1>4. CASE Goto(p, "new")
  <2>1. /\ process' \in [Processes -> Activity]
        /\ process'[p].phase = "new"
        /\ process'[p].job = process[p].job
        /\ process'[p].bytes = process[p].bytes
        /\ \A q \in Processes \ {p} : process'[q] = process[q]
    BY <1>1, <1>4, GotoShape DEF Phases
  <2>2. ImportOK(p)' /\ ParseOK(p)'
    BY <1>1, <1>2, <2>1 DEF ImportOK, ParseOK
  <2> QED
    BY <1>1, <2>1, <2>2, QuietStep
<1> QED
  BY <1>1, <1>3, <1>4 DEF FindParsed

LEMMA AddParsedKeeps ==
  ASSUME IInv, NEW p \in Processes, AddParsed(p)
  PROVE  IInv' /\ RecordsKept
<1> DEFINE v == process[p].job.version
           config == process[p].job.config
           n == Len(parsed) + 1
           row == [version |-> v, config |-> config, text |-> process[p].bytes]
<1>1. /\ TypeOK /\ ParseOK(p)
      /\ process[p].phase = "new" /\ process[p].job.command = "parse"
      /\ UNCHANGED <<sources, raw, versions, commands, failures>>
      /\ commands' \in 0..MaxCommands /\ failures' \in 0..MaxFailures
  BY CountersOK DEF IInv, AddParsed, At
<1>2. /\ v \in DOMAIN versions /\ v \in Nat /\ config \in Configs
      /\ process[p].bytes = versions[v].sha256
      /\ versions[v].sha256 \in Contents
      /\ sources[versions[v].source] # None
      /\ parsed \in Seq(Parsed) /\ Len(parsed) \in Nat /\ DOMAIN parsed = 1..Len(parsed)
  BY <1>1, JobOf, OnRecord DEF IInv, ParseOK, VersionHasSource
<1>3. CASE /\ parsed' = Append(parsed, row)
           /\ Answer(p, Len(parsed'))
  <2>1. row \in Parsed
    BY <1>2 DEF Parsed
  <2>2. /\ parsed' \in Seq(Parsed)
        /\ Len(parsed') = n /\ n \in Nat
        /\ DOMAIN parsed' = DOMAIN parsed \cup {n}
        /\ parsed'[n] = row
        /\ \A d \in DOMAIN parsed : parsed'[d] = parsed[d]
    BY <1>2, <1>3, <2>1, AppendProperties
  <2>3. /\ process' \in [Processes -> Activity]
        /\ process'[p].phase = "done"
        /\ process'[p].job = process[p].job
        /\ process'[p].answer = n
        /\ \A q \in Processes \ {p} : process'[q] = process[q]
    <3>1. Answer(p, n)
      BY <1>3, <2>2
    <3> QED
      BY <1>1, <2>2, <3>1, AnswerShape
  <2>4. RecordsKept
    BY <1>1, <2>2 DEF RecordsKept
  <2>5. TypeOK'
    BY <1>1, <2>2, <2>3 DEF TypeOK
  <2>6. RawIsContent' /\ VersionHasSource' /\ VersionHasBytes' /\ TextHasProvenance'
    BY <1>1, <1>2, <2>2
    DEF IInv, RawIsContent, VersionHasSource, VersionHasBytes, TextHasProvenance
  <2>7. n \in ParsedAs(v, config)'
    BY <2>2, <2>3 DEF ParsedAs
  <2>8. ImportOK(p)' /\ ParseOK(p)'
    BY <1>1, <1>2, <2>3, <2>7 DEF ImportOK, ParseOK, ParsedAs
  <2>9. \A q \in Processes : ImportOK(q)' /\ ParseOK(q)'
    BY <2>3, <2>4, <2>8, OthersRely
  <2> QED
    BY <2>4, <2>5, <2>6, <2>9 DEF IInv
<1>4. CASE Fail(p) /\ UNCHANGED parsed
  BY <1>1, <1>4, FailStep DEF store
<1> QED
  BY <1>1, <1>3, <1>4 DEF AddParsed

-----------------------------------------------------------------------------
(* The operator *)

\* A command that begins, or begins again, knows its arguments only.
LEMMA BeginStep ==
  ASSUME IInv, NEW p \in Processes,
         NEW job \in ImportJob \cup ParseJob \cup {NoJob},
         job.command = "parse" => job.version \in DOMAIN versions,
         process' = [process EXCEPT ![p] = Begin(job)],
         UNCHANGED store, commands' \in 0..MaxCommands, failures' \in 0..MaxFailures
  PROVE  IInv' /\ RecordsKept
<1>1. process \in [Processes -> Activity] /\ UNCHANGED versions
  BY DEF IInv, TypeOK, store
<1>2. Begin(job) \in Activity /\ Begin(job).phase = "start" /\ Begin(job).job = job
  BY DEF Begin, Idle, Activity, Phases
<1>3. /\ process' \in [Processes -> Activity]
      /\ process'[p].phase = "start"
      /\ process'[p].job = job
      /\ \A q \in Processes \ {p} : process'[q] = process[q]
  BY <1>1, <1>2
<1>4. ImportOK(p)' /\ ParseOK(p)'
  BY <1>1, <1>3 DEF ImportOK, ParseOK
<1> QED
  BY <1>3, <1>4, QuietStep

LEMMA IssueKeeps ==
  ASSUME IInv, NEW p \in Processes, Issue(p)
  PROVE  IInv' /\ RecordsKept
<1>1. /\ TypeOK /\ UNCHANGED <<store, failures>>
      /\ commands' \in 0..MaxCommands /\ failures' \in 0..MaxFailures
  <2>1. commands' = commands + 1 /\ commands < MaxCommands
    BY DEF Issue
  <2> QED
    BY <2>1, CorpusAssumption, CountersOK DEF IInv, Issue, TypeOK
<1>2. CASE \E file \in Files :
             process' = [process EXCEPT ![p] =
               Begin([command |-> "ingest", source |-> file[1], content |-> file[2]])]
  <2>1. PICK file \in Files :
          process' = [process EXCEPT ![p] =
            Begin([command |-> "ingest", source |-> file[1], content |-> file[2]])]
    BY <1>2
  <2> DEFINE job == [command |-> "ingest", source |-> file[1], content |-> file[2]]
  <2>2. job \in ImportJob /\ job.command = "ingest"
    BY CorpusAssumption DEF ImportJob
  <2> QED
    BY <1>1, <2>1, <2>2, BeginStep
<1>3. CASE \E v \in DOMAIN versions, config \in Configs :
             process' = [process EXCEPT ![p] =
               Begin([command |-> "parse", version |-> v, config |-> config])]
  <2>1. PICK v \in DOMAIN versions, config \in Configs :
          process' = [process EXCEPT ![p] =
            Begin([command |-> "parse", version |-> v, config |-> config])]
    BY <1>3
  <2> DEFINE job == [command |-> "parse", version |-> v, config |-> config]
  <2>2. job \in ParseJob /\ job.version \in DOMAIN versions
    BY <1>1, OnRecord DEF ParseJob
  <2> QED
    BY <1>1, <2>1, <2>2, BeginStep
<1> QED
  BY <1>2, <1>3 DEF Issue

LEMMA RerunKeeps ==
  ASSUME IInv, NEW p \in Processes, Rerun(p)
  PROVE  IInv' /\ RecordsKept
<1> DEFINE job == process[p].job
<1>1. /\ TypeOK /\ ParseOK(p)
      /\ UNCHANGED <<store, commands, failures>>
      /\ commands' \in 0..MaxCommands /\ failures' \in 0..MaxFailures
      /\ process' = [process EXCEPT ![p] = Begin(job)]
  BY CountersOK DEF IInv, Rerun
<1>2. /\ job \in ImportJob \cup ParseJob \cup {NoJob}
      /\ job.command = "parse" => job.version \in DOMAIN versions
      /\ process \in [Processes -> Activity] /\ UNCHANGED versions
  BY <1>1 DEF TypeOK, Activity, ParseOK, store
<1>3. Begin(job) \in Activity /\ Begin(job).phase = "start" /\ Begin(job).job = job
  BY <1>2 DEF Begin, Idle, Activity, Phases
<1>4. /\ process' \in [Processes -> Activity]
      /\ process'[p].phase = "start"
      /\ process'[p].job = job
      /\ \A q \in Processes \ {p} : process'[q] = process[q]
  BY <1>1, <1>2, <1>3
<1>5. ImportOK(p)' /\ ParseOK(p)'
  BY <1>2, <1>4 DEF ImportOK, ParseOK
<1> QED
  BY <1>1, <1>4, <1>5, QuietStep

LEMMA FinishKeeps ==
  ASSUME IInv, NEW p \in Processes, Finish(p)
  PROVE  IInv' /\ RecordsKept
<1>1. /\ TypeOK /\ process \in [Processes -> Activity]
      /\ UNCHANGED <<store, commands, failures>>
      /\ commands' \in 0..MaxCommands /\ failures' \in 0..MaxFailures
      /\ process' = [process EXCEPT ![p] = Idle]
  BY CountersOK DEF IInv, TypeOK, Finish
<1>2. Idle \in Activity /\ Idle.job.command = "none"
  BY DEF Idle, Activity, Phases, NoJob
<1>3. /\ process' \in [Processes -> Activity]
      /\ process'[p].job.command = "none"
      /\ \A q \in Processes \ {p} : process'[q] = process[q]
  BY <1>1, <1>2
<1>4. ImportOK(p)' /\ ParseOK(p)'
  BY <1>3 DEF ImportOK, ParseOK
<1> QED
  BY <1>1, <1>3, <1>4, QuietStep

LEMMA CrashKeeps ==
  ASSUME IInv, NEW p \in Processes, Crash(p)
  PROVE  IInv' /\ RecordsKept
<1>1. /\ UNCHANGED <<store, commands>> /\ Fail(p)
      /\ commands' \in 0..MaxCommands /\ failures' \in 0..MaxFailures
  BY CountersOK DEF IInv, Crash
<1> QED
  BY <1>1, FailStep

LEMMA NextKeeps == IInv /\ Next => IInv' /\ RecordsKept
<1> SUFFICES ASSUME IInv, Next PROVE IInv' /\ RecordsKept OBVIOUS
<1>1. PICK p \in Processes : Issue(p) \/ Command(p) \/ Finish(p) \/ Crash(p)
  BY DEF Next
<1>2. CASE Command(p)
  BY <1>2, IngestStartKeeps, GetSourceKeeps, AddSourceKeeps, CopyKeeps, LinkKeeps,
    FindVersionKeeps, AddVersionKeeps, ParseStartKeeps, ParseKeeps, FindParsedKeeps,
    AddParsedKeeps, RerunKeeps DEF Command
<1> QED
  BY <1>1, <1>2, IssueKeeps, FinishKeeps, CrashKeeps

LEMMA StutterKeeps == IInv /\ UNCHANGED vars => IInv'
BY DEF vars, IInv, TypeOK, RawIsContent, VersionHasSource, VersionHasBytes, TextHasProvenance,
  ImportOK, ParseOK, Holding, ParsedAs

-----------------------------------------------------------------------------
(* The theorems *)

\* The invariant that the theorems below are read off holds in every behaviour.
THEOREM Inductive == Spec => []IInv
<1>1. IInv /\ [Next]_vars => IInv'
  BY NextKeeps, StutterKeeps
<1> QED
  BY <1>1, InitIInv, PTL DEF Spec

\* Every table, file and process keeps its type: digests name contents, answers
\* name rows (document_repository.py, ingestion/service.py).
THEOREM TypeCorrect == Spec => []TypeOK
<1>1. IInv => TypeOK
  BY DEF IInv
<1> QED
  BY <1>1, Inductive, PTL

\* However many imports race, fail or die, a version on record has its bytes in
\* the raw store (service.py:60-80, raw_store.py:47-65).
THEOREM VersionsHaveBytes == Spec => []VersionHasBytes
<1>1. IInv => VersionHasBytes
  BY DEF IInv
<1> QED
  BY <1>1, Inductive, PTL

\* A parsed document has the text of its version's bytes, and a source
\* (cli.py:652-687).
THEOREM TextIsProven == Spec => []TextHasProvenance
<1>1. IInv => TextHasProvenance
  BY DEF IInv
<1> QED
  BY <1>1, Inductive, PTL

\* There is one row about a source and its bytes, and one about a version and a
\* configuration: the unique constraints refuse the insert of a command that looked
\* before another one inserted (document_repository.py:57-65, 94-121).
NoDuplicates ==
  /\ \A v, w \in DOMAIN versions :
       versions[v].source = versions[w].source /\ versions[v].sha256 = versions[w].sha256
         => v = w
  /\ \A d, e \in DOMAIN parsed :
       parsed[d].version = parsed[e].version /\ parsed[d].config = parsed[e].config
         => d = e

LEMMA AddVersionUnique ==
  ASSUME IInv, NoDuplicates, NEW p \in Processes, AddVersion(p)
  PROVE  NoDuplicates'
<1> DEFINE s == process[p].job.source
           digest == process[p].digest
           n == Len(versions) + 1
           row == [source |-> s, sha256 |-> digest]
<1>1. UNCHANGED parsed
  BY DEF AddVersion
<1>2. CASE UNCHANGED versions
  BY <1>1, <1>2 DEF NoDuplicates
<1>3. CASE Holding(s, digest) = {} /\ versions' = Append(versions, row)
  <2>1. versions \in Seq(Version) /\ Len(versions) \in Nat
        /\ DOMAIN versions = 1..Len(versions)
    BY OnRecord DEF IInv
  <2>2. row \in Version
    <3>1. digest \in Contents /\ s \in Sources
      BY JobOf DEF IInv, AddVersion, At, ImportOK
    <3> QED
      BY <3>1 DEF Version
  <2>3. /\ DOMAIN versions' = DOMAIN versions \cup {n}
        /\ versions'[n] = row
        /\ \A v \in DOMAIN versions : versions'[v] = versions[v]
    BY <1>3, <2>1, <2>2, AppendProperties
  <2>4. \A v \in DOMAIN versions : ~(versions[v].source = s /\ versions[v].sha256 = digest)
    BY <1>3 DEF Holding
  <2> QED
    BY <1>1, <2>3, <2>4 DEF NoDuplicates
<1> QED
  BY <1>2, <1>3 DEF AddVersion

LEMMA AddParsedUnique ==
  ASSUME IInv, NoDuplicates, NEW p \in Processes, AddParsed(p)
  PROVE  NoDuplicates'
<1> DEFINE v == process[p].job.version
           config == process[p].job.config
           n == Len(parsed) + 1
           row == [version |-> v, config |-> config, text |-> process[p].bytes]
<1>1. UNCHANGED versions
  BY DEF AddParsed
<1>2. CASE UNCHANGED parsed
  BY <1>1, <1>2 DEF NoDuplicates
<1>3. CASE ParsedAs(v, config) = {} /\ parsed' = Append(parsed, row)
  <2>1. parsed \in Seq(Parsed) /\ Len(parsed) \in Nat /\ DOMAIN parsed = 1..Len(parsed)
    BY OnRecord DEF IInv
  <2>2. row \in Parsed
    <3>1. process[p].phase = "new" /\ process[p].job.command = "parse" /\ ParseOK(p)
      BY DEF AddParsed, At, IInv
    <3>2. v \in DOMAIN versions /\ process[p].bytes = versions[v].sha256
      BY <3>1 DEF ParseOK
    <3>3. versions[v].sha256 \in Contents /\ v \in Nat /\ config \in Configs
      BY <3>1, <3>2, JobOf, OnRecord DEF IInv
    <3> QED
      BY <3>2, <3>3 DEF Parsed
  <2>3. /\ DOMAIN parsed' = DOMAIN parsed \cup {n}
        /\ parsed'[n] = row
        /\ \A d \in DOMAIN parsed : parsed'[d] = parsed[d]
    BY <1>3, <2>1, <2>2, AppendProperties
  <2>4. \A d \in DOMAIN parsed : ~(parsed[d].version = v /\ parsed[d].config = config)
    BY <1>3 DEF ParsedAs
  <2> QED
    BY <1>1, <2>3, <2>4 DEF NoDuplicates
<1> QED
  BY <1>2, <1>3 DEF AddParsed

LEMMA RowsAreUnique == Spec => []NoDuplicates
<1>1. Init => NoDuplicates
  BY DEF Init, NoDuplicates
<1>2. IInv /\ NoDuplicates /\ [Next]_vars => NoDuplicates'
  <2> SUFFICES ASSUME IInv, NoDuplicates, [Next]_vars PROVE NoDuplicates'
    OBVIOUS
  <2>1. CASE UNCHANGED <<versions, parsed>>
    BY <2>1 DEF NoDuplicates
  <2>2. ASSUME NEW p \in Processes, Issue(p) \/ Command(p) \/ Finish(p) \/ Crash(p)
        PROVE  NoDuplicates'
    <3>1. CASE AddVersion(p) \/ AddParsed(p)
      BY <3>1, AddVersionUnique, AddParsedUnique
    <3>2. CASE ~(AddVersion(p) \/ AddParsed(p))
      BY <2>1, <2>2, <3>2
      DEF Issue, Finish, Crash, Command, IngestStart, GetSource, AddSource, Copy, Link,
        FindVersion, ParseStart, Parse, FindParsed, Rerun, store
    <3> QED
      BY <3>1, <3>2
  <2> QED
    BY <2>1, <2>2 DEF Next, vars
<1> QED
  BY <1>1, <1>2, Inductive, PTL DEF Spec

\* A command that reports success names the one row about its own arguments
\* (service.py:61-69, cli.py:680-687).
THEOREM AnswersAreOwn == Spec => []AnswerIsOwn
<1>1. IInv /\ NoDuplicates => AnswerIsOwn
  <2> SUFFICES ASSUME IInv, NoDuplicates, NEW p \in Processes
               PROVE  /\ At(p, "done", "ingest") =>
                           Holding(process[p].job.source, process[p].job.content)
                             = {process[p].answer}
                      /\ At(p, "done", "parse") =>
                           ParsedAs(process[p].job.version, process[p].job.config)
                             = {process[p].answer}
    BY DEF AnswerIsOwn
  <2>1. ImportOK(p) /\ ParseOK(p)
    BY DEF IInv
  <2>2. At(p, "done", "ingest") =>
          process[p].answer \in Holding(process[p].job.source, process[p].job.content)
    BY <2>1 DEF ImportOK, At
  <2>3. At(p, "done", "parse") =>
          process[p].answer \in ParsedAs(process[p].job.version, process[p].job.config)
    BY <2>1 DEF ParseOK, At
  <2> QED
    BY <2>2, <2>3 DEF NoDuplicates, Holding, ParsedAs
<1> QED
  BY <1>1, Inductive, RowsAreUnique, PTL

\* No step changes or removes what is on record
\* (document_repository.py:44-47, raw_store.py:61-65).
THEOREM RecordsAreImmutable == Spec => ImmutableRecords
<1>1. IInv /\ [Next]_vars => [RecordsKept]_vars
  BY NextKeeps
<1> QED
  BY <1>1, Inductive, PTL DEF Spec, ImmutableRecords
=============================================================================
