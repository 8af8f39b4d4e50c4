------------------------------ MODULE Scoring ------------------------------
(***************************************************************************)
(* The scoring commands of src/src/catchain/cli.py, `score readiness`,     *)
(* `score checks` and `score judgments`, over the canonical ledger, a      *)
(* directory of content-addressed artifacts and the evaluation_results.    *)
(*                                                                         *)
(* A readiness report reads the current facts of a project in one SELECT.  *)
(* The other two commands take a stored readiness report, read the facts   *)
(* again and refuse the report if it is not what they would report now.    *)
(* Then the artifact is stored (a look, and a link that fails if somebody  *)
(* else was faster), and a judgment gets its row after its artifact.       *)
(* Reviewers go on promoting facts all the while.                          *)
(*                                                                         *)
(* pipeline_run_id is drawn afresh by every command and is not part of an  *)
(* artifact's identity: here it is a number that is new among the runs of  *)
(* one content.  Readers of facts follow their fact_id, which fixes their  *)
(* value, unit, evidence and documents.                                    *)
(***************************************************************************)
EXTENDS Naturals, FiniteSets

CONSTANTS
  Fields,         \* field names of one project
  Facts,          \* values of fact_id
  FieldOf,        \* the field of a fact
  Initial,        \* facts that may be current when the model starts
  Acm0002,        \* facts whose value is "ACM0002"
  Worded,         \* facts whose value is text that is not blank
  Measured,       \* facts with a finite number >= 0 in tCO2e
  Dimensions,     \* the dimensions of the readiness policy and of the rubric
  InputFields,    \* the input fields of a dimension
  PeriodFields,   \* PERIOD_DIMENSIONS: the fields of a dimension a period binds
  ErFields,       \* ER_FIELDS
  CriteriaOf,     \* the criteria of a dimension of the rubric
  Contexts,       \* assessment contexts, and None
  Judgments,      \* judgment requests
  Processes,
  MaxFailures,    \* bound on commands that fail or are killed
  None

Name    == "methodology_name"
Version == "methodology_version"

Unresolved == {"insufficient", "conflicting"}

\* What the models of a context and of a request accept.  A quote of theirs is the
\* set of the facts in whose document it is found.
ValidContext(context) ==
  /\ DOMAIN context.period \subseteq Fields \ {Name, Version}
  /\ \A f, g \in DOMAIN context.period : context.period[f] = context.period[g] => f = g
  /\ context.quotes # {}
  /\ None \notin {context.name, context.version}
       \cup {context.period[f] : f \in DOMAIN context.period}

ValidRequest(request) ==
  /\ \A j, k \in request : j.criterion = k.criterion => j = k
  /\ \A j \in request : j.outcome \notin Unresolved => j.facts # {} /\ j.quotes # {}

ASSUME ScoringAssumption ==
  /\ None \notin Facts
  /\ FieldOf \in [Facts -> Fields]
  /\ {Name, Version} \subseteq Fields
  /\ ErFields \subseteq Fields
  /\ Measured \subseteq Facts
  /\ PeriodFields \in [Dimensions -> SUBSET Fields]
  /\ Initial \subseteq [Fields -> Facts \cup {None}]
  /\ \A context \in Contexts \ {None} : ValidContext(context)
  /\ \A request \in Judgments : ValidRequest(request)
  /\ MaxFailures \in Nat

VARIABLES
  current,     \* canonical_heads of the project
  replaced,    \* the fact each promoted one replaced
  artifacts,   \* the run each stored content carries
  rows,        \* evaluation_results, with their processing_runs: content and run
  process,     \* the command each process runs
  failures     \* number of failures so far

ledgerVars == <<current, replaced>>
storeVars  == <<artifacts, rows>>
vars == <<current, replaced, artifacts, rows, process, failures>>

Ledger == INSTANCE CanonicalLedger WITH Scopes <- Fields

Snapshots == [Fields -> Facts \cup {None}]

\* Enough for every command that is running, and for the one that was stored.
RunIds == 1..(Cardinality(Processes) + 1)

\* What an artifact is stored under.  A report on top of a readiness report carries
\* that report, with its run, and the context or the judgments it was given.
Readiness(facts) == [kind |-> "readiness", facts |-> facts, run |-> 0, input |-> None]

\* Bug: the report that is passed on is the one without its run (`stable`).
ChecksWithoutRun(report, run, context) ==
  [kind |-> "checks", facts |-> report.facts, run |-> 0, input |-> context]

Checks(report, run, context) ==
  [kind |-> "checks", facts |-> report.facts, run |-> run, input |-> context]

Evaluation(report, run, request) ==
  [kind |-> "judgments", facts |-> report.facts, run |-> run, input |-> [request |-> request]]

Contents ==
  [kind: {"readiness"}, facts: Snapshots, run: {0}, input: {None}]
    \cup [kind: {"checks"}, facts: Snapshots, run: RunIds, input: Contexts]
    \cup [kind: {"judgments"}, facts: Snapshots, run: RunIds, input: [request: Judgments]]

Phases == {"idle", "computed", "absent", "kept", "answered", "failed"}

\* run is the run the command made, then the run of the artifact it ended up with.
Idle == [phase |-> "idle", content |-> None, run |-> 0]

TypeOK ==
  /\ current \in Snapshots
  /\ DOMAIN replaced \subseteq Facts
  /\ \A f \in DOMAIN replaced : replaced[f] \in Facts \cup {None}
  /\ DOMAIN artifacts \subseteq Contents
  /\ \A c \in DOMAIN artifacts : artifacts[c] \in RunIds
  /\ rows \subseteq Contents \X RunIds
  /\ process \in [Processes ->
       [phase: Phases, content: Contents \cup {None}, run: RunIds \cup {0}]]
  /\ failures \in 0..MaxFailures

Init ==
  /\ current \in Initial
  /\ replaced = [f \in {} |-> None]
  /\ artifacts = [c \in {} |-> 0]
  /\ rows = {}
  /\ process = [p \in Processes |-> Idle]
  /\ failures = 0

\* The directory with an artifact added, or replaced.
Stored(content, run) ==
  [c \in DOMAIN artifacts \cup {content} |-> IF c = content THEN run ELSE artifacts[c]]

-----------------------------------------------------------------------------
(* The checks *)

\* The codes check_business_inputs blocks with.
Gates(facts, context) ==
  LET Code(code, holds) == IF holds THEN {code} ELSE {}
      given == context # None
  IN  UNION {
        Code("methodology_scope_unconfirmed", facts[Name] \notin Acm0002),
        Code("methodology_version_missing", facts[Version] \notin Worded),
        Code("assessment_context_missing", ~given),
        Code("authority_not_confirmed", given /\ ~context.authority),
        Code("context_fact_identity_mismatch",
             given /\ \/ facts[Name] # context.name
                      \/ facts[Version] # context.version
                      \/ \E f \in DOMAIN context.period : facts[f] # context.period[f]),
        Code("context_evidence_not_grounded",
             given /\ \E quote \in context.quotes : \A f \in Fields : facts[f] \notin quote) }

Missing(facts, d) == {f \in InputFields[d] : facts[f] = None}

Unbound(context, fields) == {f \in fields : context = None \/ f \notin DOMAIN context.period}

\* The deterministic status of a dimension is "inputs_checked", not "blocked".
InputsChecked(facts, context, d) ==
  /\ Gates(facts, context) = {}
  /\ Missing(facts, d) = {}
  /\ Unbound(context, PeriodFields[d]) = {}

\* The emission reduction is recomputed from the facts.
Computed(facts, context) ==
  /\ Gates(facts, context) = {}
  /\ Unbound(context, ErFields) = {}
  /\ \A f \in ErFields : facts[f] \in Measured

\* The fields a criterion of a dimension may cite.
Citable(d) ==
  InputFields[d] \cup {Name, Version}
    \cup (IF d = "D08" THEN {"pe_value_tco2e", "le_value_tco2e"} ELSE {})

\* Every fact of a request is current and of a field its criterion may cite, and each
\* of its quotes is in the document of a fact it cites.
Grounded(facts, request) ==
  \A j \in request : \E d \in Dimensions :
    /\ j.criterion \in CriteriaOf[d]
    /\ \A x \in j.facts : \E f \in Citable(d) : facts[f] = x
    /\ \A quote \in j.quotes : j.facts \cap quote # {}

\* The report on a dimension.
Summary(request, d) ==
  LET reviewed == {c \in CriteriaOf[d] : \E j \in request : j.criterion = c}
      judged   == {j \in request : j.criterion \in reviewed}
  IN  [reviewed |-> reviewed, unreviewed |-> CriteriaOf[d] \ reviewed, judged |-> judged,
       status |-> IF reviewed = {} THEN "unreviewed"
                  ELSE IF reviewed # CriteriaOf[d] THEN "partially_reviewed"
                  ELSE IF \E j \in judged : j.outcome \in Unresolved THEN "unresolved"
                  ELSE "reviewed_pending_policy"]

\* What the model of an evaluation checks of the reports on its dimensions.
Validates(request) ==
  \A d \in Dimensions :
    LET summary == Summary(request, d)
    IN  /\ summary.reviewed \cap summary.unreviewed = {}
        /\ summary.reviewed \cup summary.unreviewed = CriteriaOf[d]
        /\ {j.criterion : j \in summary.judged} = summary.reviewed
        /\ summary.status =
             IF summary.judged = {} THEN "unreviewed"
             ELSE IF summary.unreviewed # {} THEN "partially_reviewed"
             ELSE IF {j.outcome : j \in summary.judged} \cap Unresolved # {}
                  THEN "unresolved"
             ELSE "reviewed_pending_policy"

-----------------------------------------------------------------------------
(* Commands *)

Used(content) ==
  {artifacts[c] : c \in DOMAIN artifacts \cap {content}}
    \cup {process[p].run : p \in {q \in Processes : process[q].content = content}}

\* The command of p has computed a report and made a run for it.
Compute(p, content) ==
  \E run \in RunIds \ Used(content) :
    /\ 1..(run - 1) \subseteq Used(content)
    /\ process' = [process EXCEPT ![p] =
         [phase |-> "computed", content |-> content, run |-> run]]

\* The readiness report is what project_readiness would report now.
IsCurrent(report) == report.facts = current

MayStart(p) == process[p].phase \in {"idle", "answered"}

\* score readiness
ReportReadiness(p) ==
  /\ MayStart(p)
  /\ Compute(p, Readiness(current))
  /\ UNCHANGED <<ledgerVars, storeVars, failures>>

\* Bug: a readiness report is taken as it was stored, current or not.
CheckInputsUnchecked(p, report, context) ==
  /\ MayStart(p)
  /\ report \in DOMAIN artifacts /\ report.kind = "readiness"
  /\ Compute(p, Checks(report, artifacts[report], context))
  /\ UNCHANGED <<ledgerVars, storeVars, failures>>

\* score checks, on a stored readiness report
CheckInputs(p, report, context) ==
  /\ MayStart(p)
  /\ report \in DOMAIN artifacts /\ report.kind = "readiness"
  /\ IsCurrent(report)
  /\ Compute(p, Checks(report, artifacts[report], context))
  /\ UNCHANGED <<ledgerVars, storeVars, failures>>

\* score judgments, on a stored readiness report
Judge(p, report, request) ==
  /\ MayStart(p)
  /\ report \in DOMAIN artifacts /\ report.kind = "readiness"
  /\ IsCurrent(report)
  /\ Grounded(report.facts, request)
  /\ Validates(request)
  /\ Compute(p, Evaluation(report, artifacts[report], request))
  /\ UNCHANGED <<ledgerVars, storeVars, failures>>

AfterArtifact(content) == IF content.kind = "judgments" THEN "kept" ELSE "answered"

\* Bug: an artifact that is there is taken for a finished evaluation.
ReuseAsAnswer(p) ==
  process' = [process EXCEPT ![p].phase = "answered",
                             ![p].run   = artifacts[process[p].content]]

\* Reuse of the artifact that is there.
Reuse(p) ==
  process' = [process EXCEPT
    ![p].phase = AfterArtifact(process[p].content),
    ![p].run   = artifacts[process[p].content]]

\* store_baseline_artifact looks for the artifact.
Look(p) ==
  /\ process[p].phase = "computed"
  /\ \/ process[p].content \in DOMAIN artifacts /\ Reuse(p)
     \/ /\ process[p].content \notin DOMAIN artifacts
        /\ process' = [process EXCEPT ![p].phase = "absent"]
  /\ UNCHANGED <<ledgerVars, storeVars, failures>>

\* Bug: os.replace for os.link.
LinkReplacing(p) ==
  /\ process[p].phase = "absent"
  /\ artifacts' = Stored(process[p].content, process[p].run)
  /\ process' = [process EXCEPT ![p].phase = AfterArtifact(process[p].content)]
  /\ UNCHANGED <<ledgerVars, rows, failures>>

\* Bug: the command that was slower goes on with its own bundle.
LinkKeepingOwn(p) ==
  /\ process[p].phase = "absent"
  /\ artifacts' = IF process[p].content \in DOMAIN artifacts
                  THEN artifacts
                  ELSE Stored(process[p].content, process[p].run)
  /\ process' = [process EXCEPT ![p].phase = AfterArtifact(process[p].content)]
  /\ UNCHANGED <<ledgerVars, rows, failures>>

\* It links the file it has written, or reuses the one that was faster.
Link(p) ==
  LET content == process[p].content
  IN  /\ process[p].phase = "absent"
      /\ \/ /\ content \notin DOMAIN artifacts
            /\ artifacts' = Stored(content, process[p].run)
            /\ process' = [process EXCEPT ![p].phase = AfterArtifact(content)]
         \/ /\ content \in DOMAIN artifacts
            /\ Reuse(p)
            /\ UNCHANGED artifacts
      /\ UNCHANGED <<ledgerVars, rows, failures>>

\* store_evaluation_result, under the writer lock of SQLite: a row that is there is
\* reused.
StoreRow(p) ==
  /\ process[p].phase = "kept"
  /\ rows' = rows \cup {<<process[p].content, process[p].run>>}
  /\ process' = [process EXCEPT ![p].phase = "answered"]
  /\ UNCHANGED <<ledgerVars, artifacts, failures>>

-----------------------------------------------------------------------------
(* Environment *)

\* A command is killed, or a file or database operation fails.
Fail(p) ==
  /\ failures < MaxFailures
  /\ process[p].phase \in {"computed", "absent", "kept"}
  /\ failures' = failures + 1
  /\ process' = [process EXCEPT ![p].phase = "failed"]
  /\ UNCHANGED <<ledgerVars, storeVars>>

\* The operator runs the failed command again; on a report that is stale by now it
\* is refused.
Rerun(p) ==
  LET content == process[p].content
  IN  /\ process[p].phase = "failed"
      /\ \/ content.kind = "readiness" /\ Compute(p, Readiness(current))
         \/ content.kind # "readiness" /\ IsCurrent(content) /\ Compute(p, content)
         \/ /\ content.kind # "readiness" /\ ~IsCurrent(content)
            /\ process' = [process EXCEPT ![p] = Idle]
      /\ UNCHANGED <<ledgerVars, storeVars, failures>>

\* A reviewer's approval.
Approve(new) ==
  /\ Ledger!Promote(FieldOf[new], current[FieldOf[new]], new)
  /\ UNCHANGED <<storeVars, process, failures>>

Reports == {c \in DOMAIN artifacts : c.kind = "readiness"}

Start(p) ==
  \/ ReportReadiness(p)
  \/ \E report \in Reports :
       \/ \E context \in Contexts : CheckInputs(p, report, context)
       \/ \E request \in Judgments : Judge(p, report, request)

GoOn(p) == Look(p) \/ Link(p) \/ StoreRow(p) \/ Rerun(p)

Next ==
  \/ \E p \in Processes : Start(p) \/ GoOn(p) \/ Fail(p)
  \/ \E new \in Facts : Approve(new)

Spec == Init /\ [][Next]_vars

\* A command that has started goes on, and the operator repeats one that failed.
FairSpec == Spec /\ \A p \in Processes : WF_vars(GoOn(p))

-----------------------------------------------------------------------------
(* Properties *)

\* Evaluation rows and artifacts name the same run: whichever of two commands with
\* the same judgments links the artifact first and whichever of them dies, there
\* is one row for one evaluation and it is the index of the artifact on disk
\* (cli.py:355-360, baseline_artifacts.py:65-70).
OneEvaluation ==
  \A row \in rows : row[1] \in DOMAIN artifacts /\ artifacts[row[1]] = row[2]

\* A command that answered has its artifact on record under the run it answered,
\* and a judgment its row under that run, however many commands with the same
\* inputs run at once (baseline_artifacts.py:51-70, evaluation_repository.py:20-51).
AnswerIsStored ==
  \A p \in Processes :
    LET content == process[p].content
    IN  process[p].phase = "answered" =>
          /\ content \in DOMAIN artifacts
          /\ artifacts[content] = process[p].run
          /\ content.kind = "judgments" => <<content, process[p].run>> \in rows

\* The fact the context attests for a field is the current one.
Attests(context, f) == current[f] # None /\ current[f] = context.period[f]

\* p has just computed a check of business inputs.
Checked(p) ==
  /\ process[p].phase # "computed" /\ process'[p].phase = "computed"
  /\ process'[p].content.kind = "checks"

ChecksAttested ==
  \A p \in Processes : Checked(p) =>
    LET facts    == process'[p].content.facts
        context  == process'[p].content.input
        computed == Computed(facts, context)
        passed   == {d \in Dimensions : InputsChecked(facts, context, d)}
    IN  /\ computed \/ passed # {} =>
             current[Name] = context.name /\ current[Version] = context.version
        /\ computed => \A f \in ErFields : Attests(context, f)
        /\ \A d \in passed : \A f \in PeriodFields[d] : Attests(context, f)

\* When a check reads the ledger, all that it passes is current: the measurements of
\* a dimension with inputs_checked and of the recomputed reduction, and the
\* methodology, are at that moment the very facts that the context attests.  A
\* readiness report stored before a fact was replaced passes nothing, and neither
\* does a context written before (cli.py:276-288, business_checks.py:26-44, 67-95).
AttestedWhenChecked == [][ChecksAttested]_vars

\* An evaluation on facts that are current has no row.
Unindexed ==
  \E c \in DOMAIN artifacts :
    /\ c.kind = "judgments" /\ IsCurrent(c)
    /\ <<c, artifacts[c]>> \notin rows

\* A judgment that was killed between its artifact and its row gets the row when
\* the command is run again: it finds the artifact and indexes that one.  Only
\* newer facts, for which the command is refused, may leave it without
\* (cli.py:355-360).
JudgmentsCompleted == []<>~Unindexed
=============================================================================
