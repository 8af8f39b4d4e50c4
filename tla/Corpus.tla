------------------------------- MODULE Corpus -------------------------------
(***************************************************************************)
(* The document corpus: local ingestion (src/src/catchain/ingestion), the  *)
(* parsing command and the tables and raw files they share                 *)
(* (storage/document_repository.py, ingestion/raw_store.py).               *)
(*                                                                         *)
(* Each command is its own process and reads and writes the database in    *)
(* one transaction per call, with no lock around the whole command.  A     *)
(* process that fails or dies is run again by the operator.                *)
(*                                                                         *)
(* A version and a parsed document are their positions in versions and     *)
(* parsed, the order of their inserts.  A content is its own SHA-256: the  *)
(* digest of bytes c is c.  A staging file is private to one call and is   *)
(* kept in the process that made it.                                       *)
(***************************************************************************)
EXTENDS Naturals, Sequences

CONSTANTS
  Processes,    \* processes that run commands
  Sources,      \* values of source_document_id
  Metas,        \* the rest of a SourceDocument: two look-ups may make two different ones
  Contents,     \* the bytes a local file may hold
  Configs,      \* values of configuration_hash
  Files,        \* the files to import: pairs of a source and the bytes of the local file
  MaxCommands,  \* bound on the commands issued
  MaxFailures,  \* bound on crashes and I/O errors
  None

ASSUME CorpusAssumption ==
  /\ MaxFailures \in Nat /\ MaxCommands \in Nat
  /\ Files \subseteq Sources \X Contents
  /\ None \notin Metas \cup Contents

VARIABLES
  sources,   \* source_documents: the metadata recorded of each source
  raw,       \* the raw store: the bytes of the file named by each digest
  versions,  \* document_versions
  parsed,    \* parsed_documents with parsed_pages
  process,   \* what each process is doing
  commands,  \* number of commands issued so far
  failures   \* number of crashes and I/O errors so far

vars == <<sources, raw, versions, parsed, process, commands, failures>>

Version == [source: Sources, sha256: Contents]
Parsed  == [version: Nat, config: Configs, text: Contents]

ImportJob == [command: {"ingest"}, source: Sources, content: Contents]
ParseJob  == [command: {"parse"}, version: Nat, config: Configs]
NoJob     == [command |-> "none"]

\* meta is the SourceDocument an import was called with, bytes what the command
\* has read, digest the name it will be stored under, answer the row it returned.
Idle == [phase |-> "idle", job |-> NoJob, meta |-> None, bytes |-> None,
         digest |-> None, answer |-> 0]

Begin(job) == [Idle EXCEPT !.phase = "start", !.job = job]

Phases == {"idle", "start", "called", "adding", "storing", "staged", "stored",
           "parsing", "new", "failed", "done"}

Activity ==
  [phase: Phases, job: ImportJob \cup ParseJob \cup {NoJob}, meta: Metas \cup {None},
   bytes: Contents \cup {None}, digest: Contents \cup {None}, answer: Nat]

TypeOK ==
  /\ sources \in [Sources -> Metas \cup {None}]
  /\ raw \in [Contents -> Contents \cup {None}]
  /\ versions \in Seq(Version)
  /\ parsed \in Seq(Parsed)
  /\ process \in [Processes -> Activity]
  /\ commands \in 0..MaxCommands
  /\ failures \in 0..MaxFailures

Init ==
  /\ sources = [s \in Sources |-> None]
  /\ raw = [c \in Contents |-> None]
  /\ versions = <<>>
  /\ parsed = <<>>
  /\ process = [p \in Processes |-> Idle]
  /\ commands = 0
  /\ failures = 0

store == <<sources, raw, versions, parsed>>

At(p, phase, command) ==
  process[p].phase = phase /\ process[p].job.command = command

Goto(p, phase) == process' = [process EXCEPT ![p].phase = phase]

Answer(p, row) ==
  process' = [process EXCEPT ![p] = [@ EXCEPT !.phase = "done", !.answer = row]]

\* The command ends with an error and keeps nothing but its arguments.
Fail(p) == process' = [process EXCEPT ![p] = [Begin(@.job) EXCEPT !.phase = "failed"]]

\* An I/O error ends the command.  It counts against the bound.
IOError(p) ==
  /\ failures < MaxFailures
  /\ failures' = failures + 1
  /\ Fail(p)

-----------------------------------------------------------------------------
(* catchain ingest local *)

\* Bug: the command always builds a new SourceDocument.
IngestStartFresh(p) ==
  /\ At(p, "start", "ingest")
  /\ \E meta \in Metas :
       process' = [process EXCEPT ![p] = [@ EXCEPT !.phase = "called", !.meta = meta]]
  /\ UNCHANGED <<store, commands, failures>>

\* The command reads the source it names, or builds it with the current time.
IngestStart(p) ==
  LET s == process[p].job.source
  IN  /\ At(p, "start", "ingest")
      /\ \E meta \in Metas :
           /\ sources[s] # None => meta = sources[s]
           /\ process' = [process EXCEPT ![p] = [@ EXCEPT !.phase = "called", !.meta = meta]]
      /\ UNCHANGED <<store, commands, failures>>

\* get_source of ingest_local_document, and its conflict error.
GetSource(p) ==
  LET s == process[p].job.source
  IN  /\ At(p, "called", "ingest")
      /\ \/ sources[s] = None /\ Goto(p, "adding")
         \/ sources[s] = process[p].meta /\ Goto(p, "storing")
         \/ sources[s] \notin {None, process[p].meta} /\ Fail(p)
      /\ UNCHANGED <<store, commands, failures>>

\* Bug: INSERT OR REPLACE.
AddSourceReplacing(p) ==
  LET s == process[p].job.source
  IN  /\ At(p, "adding", "ingest")
      /\ sources' = [sources EXCEPT ![s] = process[p].meta]
      /\ Goto(p, "storing")
      /\ UNCHANGED <<raw, versions, parsed, commands, failures>>

\* add_source: the primary key refuses a second row.
AddSource(p) ==
  LET s == process[p].job.source
  IN  /\ At(p, "adding", "ingest")
      /\ \/ /\ sources[s] = None
            /\ sources' = [sources EXCEPT ![s] = process[p].meta]
            /\ Goto(p, "storing")
         \/ /\ sources[s] # None
            /\ Fail(p)
            /\ UNCHANGED sources
      /\ UNCHANGED <<raw, versions, parsed, commands, failures>>

\* Bug: the file is hashed first and read again for the copy; it may have
\* changed in between.
CopyAfterHashing(p) ==
  /\ At(p, "storing", "ingest")
  /\ \E bytes \in Contents :
       process' = [process EXCEPT ![p] = [@ EXCEPT
         !.phase = "staged", !.bytes = bytes, !.digest = process[p].job.content]]
  /\ UNCHANGED <<store, commands, failures>>

\* Bug: an empty file is stored, under no content's hash.
CopyEmpty(p) ==
  LET c == process[p].job.content
  IN  /\ At(p, "storing", "ingest")
      /\ \E bytes \in {c, None} :
           process' = [process EXCEPT ![p] = [@ EXCEPT
             !.phase = "staged", !.bytes = bytes, !.digest = bytes]]
      /\ UNCHANGED <<store, commands, failures>>

\* store_file copies the local file to a staging file and hashes what it copies.
\* A missing, unreadable or empty file ends the command.
Copy(p) ==
  LET c == process[p].job.content
  IN  /\ At(p, "storing", "ingest")
      /\ \/ /\ process' = [process EXCEPT ![p] = [@ EXCEPT
                 !.phase = "staged", !.bytes = c, !.digest = c]]
            /\ UNCHANGED failures
         \/ IOError(p)
      /\ UNCHANGED <<store, commands>>

\* Bug: every OSError of os.link is taken for FileExistsError.
LinkBestEffort(p) ==
  LET digest == process[p].digest
  IN  /\ At(p, "staged", "ingest")
      /\ \/ /\ raw' = [raw EXCEPT ![digest] = IF @ = None THEN process[p].bytes ELSE @]
            /\ Goto(p, "stored")
            /\ UNCHANGED failures
         \/ /\ failures < MaxFailures
            /\ failures' = failures + 1
            /\ Goto(p, "stored")
            /\ UNCHANGED raw
      /\ UNCHANGED <<sources, versions, parsed, commands>>

\* os.link of the staging file to its content address: an existing file is kept.
\* (The staging file is removed; that can fail too, after the link.)
Link(p) ==
  LET digest == process[p].digest
      linked == [raw EXCEPT ![digest] = IF @ = None THEN process[p].bytes ELSE @]
  IN  /\ At(p, "staged", "ingest")
      /\ \/ raw' = linked /\ Goto(p, "stored") /\ UNCHANGED failures
         \/ raw' \in {raw, linked} /\ IOError(p)
      /\ UNCHANGED <<sources, versions, parsed, commands>>

Holding(s, digest) ==
  {v \in DOMAIN versions : versions[v].source = s /\ versions[v].sha256 = digest}

\* find_version_by_hash: known content is answered with its version.
FindVersion(p) ==
  LET found == Holding(process[p].job.source, process[p].digest)
  IN  /\ At(p, "stored", "ingest")
      /\ \/ \E v \in found : Answer(p, v)
         \/ found = {} /\ Goto(p, "new")
      /\ UNCHANGED <<store, commands, failures>>

\* Bug: document_versions has no unique constraint.
AddVersionAnyway(p) ==
  /\ At(p, "new", "ingest")
  /\ versions' = Append(versions, [source |-> process[p].job.source,
                                   sha256 |-> process[p].digest])
  /\ Answer(p, Len(versions'))
  /\ UNCHANGED <<sources, raw, parsed, commands, failures>>

\* add_version: the unique constraint refuses a second row for the same bytes.
AddVersion(p) ==
  LET s      == process[p].job.source
      digest == process[p].digest
  IN  /\ At(p, "new", "ingest")
      /\ \/ /\ Holding(s, digest) = {}
            /\ versions' = Append(versions, [source |-> s, sha256 |-> digest])
            /\ Answer(p, Len(versions'))
         \/ /\ Holding(s, digest) # {}
            /\ Fail(p)
            /\ UNCHANGED versions
      /\ UNCHANGED <<sources, raw, parsed, commands, failures>>

-----------------------------------------------------------------------------
(* catchain parse raw *)

ParsedAs(v, config) ==
  {d \in DOMAIN parsed : parsed[d].version = v /\ parsed[d].config = config}

\* The command looks up the version and its raw file.  (Versions are never
\* removed, so DOCUMENT_VERSION_NOT_FOUND needs a wrong argument.)
ParseStart(p) ==
  /\ At(p, "start", "parse")
  /\ LET digest == versions[process[p].job.version].sha256
     IN  \/ /\ raw[digest] # None
            /\ process' = [process EXCEPT ![p] = [@ EXCEPT !.phase = "parsing", !.digest = digest]]
         \/ /\ raw[digest] = None
            /\ Fail(p)
  /\ UNCHANGED <<store, commands, failures>>

\* Parsing and OCR read the raw file, and may fail.
Parse(p) ==
  /\ At(p, "parsing", "parse")
  /\ \/ /\ process' = [process EXCEPT ![p] = [@ EXCEPT
             !.phase = "stored", !.bytes = raw[process[p].digest]]]
        /\ UNCHANGED failures
     \/ IOError(p)
  /\ UNCHANGED <<store, commands>>

FindParsed(p) ==
  LET found == ParsedAs(process[p].job.version, process[p].job.config)
  IN  /\ At(p, "stored", "parse")
      /\ \/ \E d \in found : Answer(p, d)
         \/ found = {} /\ Goto(p, "new")
      /\ UNCHANGED <<store, commands, failures>>

\* add_parsed writes the document and its pages in one transaction.
AddParsed(p) ==
  LET job == process[p].job
  IN  /\ At(p, "new", "parse")
      /\ \/ /\ ParsedAs(job.version, job.config) = {}
            /\ parsed' = Append(parsed, [version |-> job.version, config |-> job.config,
                                         text |-> process[p].bytes])
            /\ Answer(p, Len(parsed'))
         \/ /\ ParsedAs(job.version, job.config) # {}
            /\ Fail(p)
            /\ UNCHANGED parsed
      /\ UNCHANGED <<sources, raw, versions, commands, failures>>

-----------------------------------------------------------------------------
(* The operator *)

Issue(p) ==
  /\ process[p].phase = "idle"
  /\ commands < MaxCommands
  /\ commands' = commands + 1
  /\ \/ \E file \in Files :
          process' = [process EXCEPT ![p] =
            Begin([command |-> "ingest", source |-> file[1], content |-> file[2]])]
     \/ \E v \in DOMAIN versions, config \in Configs :
          process' = [process EXCEPT ![p] =
            Begin([command |-> "parse", version |-> v, config |-> config])]
  /\ UNCHANGED <<store, failures>>

\* A command that failed is run again with the same arguments.
Rerun(p) ==
  /\ process[p].phase = "failed"
  /\ process' = [process EXCEPT ![p] = Begin(@.job)]
  /\ UNCHANGED <<store, commands, failures>>

\* The operator has read the answer.
Finish(p) ==
  /\ process[p].phase = "done"
  /\ process' = [process EXCEPT ![p] = Idle]
  /\ UNCHANGED <<store, commands, failures>>

\* The process dies between two steps; what it has stored stays.
Crash(p) ==
  /\ failures < MaxFailures
  /\ process[p].phase \notin {"idle", "failed", "done"}
  /\ failures' = failures + 1
  /\ Fail(p)
  /\ UNCHANGED <<store, commands>>

Command(p) ==
  \/ IngestStart(p) \/ GetSource(p) \/ AddSource(p) \/ Copy(p) \/ Link(p)
  \/ FindVersion(p) \/ AddVersion(p)
  \/ ParseStart(p) \/ Parse(p) \/ FindParsed(p) \/ AddParsed(p)
  \/ Rerun(p)

Next == \E p \in Processes : Issue(p) \/ Command(p) \/ Finish(p) \/ Crash(p)

Spec == Init /\ [][Next]_vars

\* A command that was started runs to its end, and is run again until it succeeds.
FairSpec == Spec /\ \A p \in Processes : WF_vars(Command(p))

-----------------------------------------------------------------------------
(* Properties *)

\* Every recorded version can be reproduced: the raw store holds, under the hash
\* of its row, exactly the bytes that hash to it, whatever crashed or raced
\* (service.py:60-80, raw_store.py:47-65).
VersionHasBytes ==
  \A v \in DOMAIN versions : raw[versions[v].sha256] = versions[v].sha256

\* The text that extraction will read is the text of the bytes its version
\* names, for a source that is on record (cli.py:652-687, service.py:52-80).
TextHasProvenance ==
  \A d \in DOMAIN parsed :
    /\ parsed[d].version \in DOMAIN versions
    /\ parsed[d].text = versions[parsed[d].version].sha256
    /\ sources[versions[parsed[d].version].source] # None

\* A command that reports success names the one row there is about its own source
\* and file, or its own version and configuration, whether it wrote the row or found
\* it, and however many commands with the same arguments passed their look-ups
\* before one of them inserted (service.py:61-69, cli.py:680-687,
\* document_repository.py:57-65, 94-121).
AnswerIsOwn ==
  \A p \in Processes :
    LET job == process[p].job
    IN  /\ At(p, "done", "ingest") =>
             Holding(job.source, job.content) = {process[p].answer}
        /\ At(p, "done", "parse") =>
             ParsedAs(job.version, job.config) = {process[p].answer}

RecordsKept ==
  /\ \A s \in Sources : sources[s] # None => sources'[s] = sources[s]
  /\ \A c \in Contents : raw[c] # None => raw'[c] = raw[c]
  /\ \A v \in DOMAIN versions : v \in DOMAIN versions' /\ versions'[v] = versions[v]
  /\ \A d \in DOMAIN parsed : d \in DOMAIN parsed' /\ parsed'[d] = parsed[d]

\* No command changes what another one recorded, the time of discovery of a
\* source included (document_repository.py:44-47, raw_store.py:61-65).
ImmutableRecords == [][RecordsKept]_vars

\* Nothing that a crash, an error or a race leaves behind blocks a command for
\* good: run again, it succeeds (ingestion/service.py:50,
\* docs/learning/02-raw-ingestion-versioning.md:50).
RerunsSucceed ==
  \A p \in Processes : process[p].phase = "start" ~> process[p].phase = "done"
=============================================================================
