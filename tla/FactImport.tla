----------------------------- MODULE FactImport -----------------------------
(***************************************************************************)
(* Validation import, src/src/catchain/storage/fact_repository.py:         *)
(* import_validation() as the command `store validation` calls it.         *)
(*                                                                         *)
(* The look-ups come before the first INSERT and hold no lock (the SQLite  *)
(* driver opens the transaction at the first INSERT); all INSERTs are one  *)
(* transaction, which a primary key that is taken rolls back as a whole.   *)
(*                                                                         *)
(* A report stands for the validation report with its run and the original *)
(* extraction, which name their run ids; the row of the extraction run is  *)
(* apart, because reports of several validation runs share it.             *)
(***************************************************************************)
EXTENDS Naturals

CONSTANTS
  Importers,    \* processes, each one run of `store validation`
  Runs,         \* values of pipeline_run_id
  Contents,     \* validation reports, as stored
  RunRows,      \* rows an extraction run may be stored with
  RunOf,        \* the validation run of a report
  SourceOf,     \* the extraction run a report is about
  Sound,        \* <<report, row>> pairs whose identities agree and whose evidence is
                \* found in the parsed document
  None

ASSUME ImportAssumption ==
  /\ RunOf \in [Contents -> Runs]
  /\ SourceOf \in [Contents -> Runs]
  /\ \A a, b \in Contents : RunOf[a] # SourceOf[b]   \* a run has one stage
  /\ Sound \subseteq Contents \X RunRows
  /\ None \notin Contents \cup RunRows

VARIABLES
  runs,      \* processing_runs
  reports,   \* validation_reports with fact_candidates and candidate_evidence
  importer   \* what each process is doing

importVars == <<runs, reports, importer>>

NoImport == [phase |-> "idle", report |-> None, row |-> None, known |-> FALSE]
Phases   == {"idle", "searched", "ready", "stored", "reused", "refused", "failed", "killed"}

ImportTypeOK ==
  /\ DOMAIN runs \subseteq Runs
  /\ \A v \in DOMAIN runs : runs[v] \in Contents \cup RunRows
  /\ DOMAIN reports \subseteq Runs
  /\ \A v \in DOMAIN reports : reports[v] \in Contents
  /\ importer \in [Importers ->
       [phase: Phases, report: Contents \cup {None}, row: RunRows \cup {None}, known: BOOLEAN]]

ImportInit ==
  /\ runs = [v \in {} |-> None]
  /\ reports = [v \in {} |-> None]
  /\ importer = [i \in Importers |-> NoImport]

\* The table with rows added, or replaced.
Merge(table, rows) ==
  [k \in DOMAIN table \cup DOMAIN rows |-> IF k \in DOMAIN rows THEN rows[k] ELSE table[k]]

-----------------------------------------------------------------------------

\* Bug: a report on record is reused without looking at its extraction run.
FindIgnoringSource(i, report, row) ==
  /\ importer[i].phase = "idle"
  /\ <<report, row>> \in Sound
  /\ importer' = [importer EXCEPT ![i] =
       [phase |-> IF RunOf[report] \notin DOMAIN reports THEN "searched"
                  ELSE IF reports[RunOf[report]] = report THEN "reused" ELSE "refused",
        report |-> report, row |-> row, known |-> FALSE]]
  /\ UNCHANGED <<runs, reports>>

\* The first SELECT.  A report on record answers the call: all four stored texts
\* have to be those of the call.
Find(i, report, row) ==
  LET v == RunOf[report]
      same == reports[v] = report /\ runs[SourceOf[report]] = row
  IN  /\ importer[i].phase = "idle"
      /\ <<report, row>> \in Sound
      /\ importer' = [importer EXCEPT ![i] =
           [phase |-> IF v \notin DOMAIN reports THEN "searched"
                      ELSE IF same THEN "reused" ELSE "refused",
            report |-> report, row |-> row, known |-> FALSE]]
      /\ UNCHANGED <<runs, reports>>

\* The SELECT of the extraction run, which an earlier import may have stored.
FindSource(i) ==
  LET e == SourceOf[importer[i].report]
  IN  /\ importer[i].phase = "searched"
      /\ importer' = [importer EXCEPT
           ![i].known = e \in DOMAIN runs,
           ![i].phase = IF e \in DOMAIN runs /\ runs[e] # importer[i].row
                        THEN "refused" ELSE "ready"]
      /\ UNCHANGED <<runs, reports>>

NewRuns(i) ==
  LET v == RunOf[importer[i].report]
      e == SourceOf[importer[i].report]
  IN  IF importer[i].known
      THEN [x \in {v} |-> importer[i].report]
      ELSE [x \in {v, e} |-> IF x = v THEN importer[i].report ELSE importer[i].row]

\* Bug: INSERT OR REPLACE.
WriteReplacing(i) ==
  /\ importer[i].phase = "ready"
  /\ runs' = Merge(runs, NewRuns(i))
  /\ reports' = Merge(reports, [v \in {RunOf[importer[i].report]} |-> importer[i].report])
  /\ importer' = [importer EXCEPT ![i].phase = "stored"]

\* The transaction of all INSERTs.
Write(i) ==
  /\ importer[i].phase = "ready"
  /\ \/ /\ DOMAIN NewRuns(i) \cap DOMAIN runs = {}
        /\ runs' = Merge(runs, NewRuns(i))
        /\ reports' = Merge(reports, [v \in {RunOf[importer[i].report]} |-> importer[i].report])
        /\ importer' = [importer EXCEPT ![i].phase = "stored"]
     \/ /\ DOMAIN NewRuns(i) \cap DOMAIN runs # {}
        /\ importer' = [importer EXCEPT ![i].phase = "failed"]
        /\ UNCHANGED <<runs, reports>>

\* The process is killed; its transaction, if any, is rolled back.
Kill(i) ==
  /\ importer[i].phase \in {"searched", "ready"}
  /\ importer' = [importer EXCEPT ![i] = [NoImport EXCEPT !.phase = "killed"]]
  /\ UNCHANGED <<runs, reports>>

ImportNext ==
  \E i \in Importers :
    \/ \E report \in Contents, row \in RunRows : Find(i, report, row)
    \/ FindSource(i)
    \/ Write(i)
    \/ Kill(i)

ImportSpec == ImportInit /\ [][ImportNext]_importVars

-----------------------------------------------------------------------------
(* Properties *)

\* Everything an import brings is on record, unaltered.
OnRecord(report, row) ==
  /\ RunOf[report] \in DOMAIN reports /\ reports[RunOf[report]] = report
  /\ RunOf[report] \in DOMAIN runs /\ runs[RunOf[report]] = report
  /\ SourceOf[report] \in DOMAIN runs /\ runs[SourceOf[report]] = row

\* One of its two run ids is on record with something else.
Contradicted(report, row) ==
  \/ RunOf[report] \in DOMAIN reports /\ reports[RunOf[report]] # report
  \/ SourceOf[report] \in DOMAIN runs /\ runs[SourceOf[report]] # row

\* The answer an importer gave is true of the record.
AnswerHolds(i) ==
  LET report == importer[i].report
      row    == importer[i].row
  IN  /\ importer[i].phase \in {"stored", "reused"} => OnRecord(report, row)
      /\ importer[i].phase = "refused" => Contradicted(report, row)
      /\ importer[i].phase = "failed" =>
           \/ RunOf[report] \in DOMAIN reports
           \/ SourceOf[report] \in DOMAIN runs

\* However imports of one validation run, or of two runs over one extraction run,
\* interleave: an import that answered "stored" or "reused" has exactly its own
\* report and its own extraction run on record, ever after; one that was refused
\* contradicts the record; and one that ran into a taken key can be run again and
\* will be answered, because what it lost to is complete
\* (fact_repository.py:82-169).
AnswersHold == \A i \in Importers : AnswerHolds(i)
=============================================================================
