--------------------------- MODULE ScoringProofs ---------------------------
(***************************************************************************)
(* Proofs about Scoring: its type invariant, that evaluations and          *)
(* artifacts agree whatever the number of processes and failures, and what *)
(* a check or a summary that was stored can rely on.                       *)
(***************************************************************************)
EXTENDS Scoring, TLAPS

\* The types of the ledger's history.
ReplacedOK ==
  /\ DOMAIN replaced \subseteq Facts
  /\ \A f \in DOMAIN replaced : replaced[f] \in Facts \cup {None}

\* A command that is under way, or done, has a content and a run.
CommandOK ==
  \A p \in Processes :
    process[p].phase # "idle" =>
      process[p].content \in Contents /\ process[p].run \in RunIds

\* A command that goes on after its artifact holds the run the artifact carries.
HoldsArtifact ==
  \A p \in Processes :
    process[p].phase = "kept" =>
      /\ process[p].content \in DOMAIN artifacts
      /\ artifacts[process[p].content] = process[p].run
      /\ process[p].content.kind = "judgments"

IInv == TypeOK /\ CommandOK /\ HoldsArtifact /\ OneEvaluation /\ AnswerIsStored

-----------------------------------------------------------------------------

\* A readiness report has the type of its kind (cli.py:228-233).
LEMMA ReadinessType ==
  ASSUME NEW facts \in Snapshots
  PROVE  Readiness(facts) \in Contents
BY DEF Readiness, Contents

\* So has a report on a readiness report and a context (cli.py:296-305).
LEMMA ChecksType ==
  ASSUME NEW report \in Contents, NEW run \in RunIds, NEW context \in Contexts
  PROVE  Checks(report, run, context) \in Contents
<1>1. report.facts \in Snapshots
  BY DEF Contents
<1> QED
  BY <1>1 DEF Checks, Contents

\* And an evaluation (cli.py:345-354).
LEMMA EvaluationType ==
  ASSUME NEW report \in Contents, NEW run \in RunIds, NEW request \in Judgments
  PROVE  Evaluation(report, run, request) \in Contents
<1>1. report.facts \in Snapshots
  BY DEF Contents
<1>2. [request |-> request] \in [request: Judgments]
  OBVIOUS
<1> QED
  BY <1>1, <1>2 DEF Evaluation, Contents

\* What the processes hold stays in place when the stores do not change and the
\* step gives one process a command that has only just been computed, failed or
\* been given up.
LEMMA QuietStep ==
  ASSUME IInv, NEW p \in Processes, NEW new,
         new \in [phase: Phases, content: Contents \cup {None}, run: RunIds \cup {0}],
         new.phase \in {"idle", "computed", "absent", "failed"},
         new.phase # "idle" => new.content \in Contents /\ new.run \in RunIds,
         process' = [process EXCEPT ![p] = new],
         current' \in Snapshots, ReplacedOK',
         failures' \in 0..MaxFailures,
         UNCHANGED storeVars
  PROVE  IInv'
<1> USE DEF IInv, storeVars
<1>1. \A q \in Processes : process'[q] = IF q = p THEN new ELSE process[q]
  BY DEF TypeOK
<1>2. TypeOK'
  BY <1>1 DEF TypeOK, ReplacedOK
<1>3. CommandOK'
  BY <1>1 DEF CommandOK
<1>4. HoldsArtifact'
  BY <1>1 DEF HoldsArtifact
<1>5. OneEvaluation'
  BY DEF OneEvaluation
<1>6. AnswerIsStored'
  BY <1>1 DEF AnswerIsStored
<1> QED
  BY <1>2, <1>3, <1>4, <1>5, <1>6

\* Computing a report disturbs nothing.
LEMMA ComputeStep ==
  ASSUME IInv, NEW p \in Processes, NEW content \in Contents, Compute(p, content),
         UNCHANGED <<ledgerVars, storeVars, failures>>
  PROVE  IInv'
<1>1. PICK run \in RunIds :
        process' = [process EXCEPT ![p] =
                      [phase |-> "computed", content |-> content, run |-> run]]
  BY DEF Compute
<1>2. /\ current' \in Snapshots
      /\ ReplacedOK'
      /\ failures' \in 0..MaxFailures
  BY DEF IInv, TypeOK, ledgerVars, ReplacedOK
<1> DEFINE new == [phase |-> "computed", content |-> content, run |-> run]
<1>3. /\ new \in [phase: Phases, content: Contents \cup {None}, run: RunIds \cup {0}]
      /\ new.phase = "computed" /\ new.content \in Contents /\ new.run \in RunIds
  BY DEF Phases
<1> QED
  BY <1>1, <1>2, <1>3, QuietStep

\* What setting the phase of one process does.
LEMMA PhaseShape ==
  ASSUME TypeOK, NEW p \in Processes, NEW phase,
         process' = [process EXCEPT ![p].phase = phase]
  PROVE  process' = [process EXCEPT ![p] =
           [phase |-> phase, content |-> process[p].content, run |-> process[p].run]]
<1>1. /\ DOMAIN process' = Processes
      /\ process' = [q \in Processes |-> process'[q]]
      /\ \A q \in Processes \ {p} : process'[q] = process[q]
      /\ process'[p] = [phase |-> phase, content |-> process[p].content,
                        run |-> process[p].run]
  BY DEF TypeOK
<1>2. DOMAIN process = Processes
  BY DEF TypeOK
<1> QED
  BY <1>1, <1>2

\* What Reuse does.
LEMMA ReuseShape ==
  ASSUME TypeOK, NEW p \in Processes, Reuse(p)
  PROVE  process' = [process EXCEPT ![p] =
           [phase |-> AfterArtifact(process[p].content), content |-> process[p].content,
            run |-> artifacts[process[p].content]]]
<1>1. /\ DOMAIN process' = Processes
      /\ process' = [q \in Processes |-> process'[q]]
      /\ \A q \in Processes \ {p} : process'[q] = process[q]
      /\ process'[p] = [phase |-> AfterArtifact(process[p].content),
                        content |-> process[p].content,
                        run |-> artifacts[process[p].content]]
  BY DEF TypeOK, Reuse
<1>2. DOMAIN process = Processes
  BY DEF TypeOK
<1> QED
  BY <1>1, <1>2

\* The artifact of a content is on record, and the process takes its run.
LEMMA HoldStep ==
  ASSUME IInv, NEW p \in Processes, NEW run \in RunIds,
         process[p].phase \in {"computed", "absent"},
         process' = [process EXCEPT ![p] =
           [phase |-> AfterArtifact(process[p].content),
            content |-> process[p].content, run |-> run]],
         process[p].content \in DOMAIN artifacts',
         artifacts'[process[p].content] = run,
         \A c \in DOMAIN artifacts : c \in DOMAIN artifacts' /\ artifacts'[c] = artifacts[c],
         DOMAIN artifacts' \subseteq Contents,
         \A c \in DOMAIN artifacts' : artifacts'[c] \in RunIds,
         UNCHANGED <<ledgerVars, rows, failures>>
  PROVE  IInv'
<1> USE DEF IInv
<1> DEFINE content == process[p].content
<1>1. content \in Contents
  BY DEF CommandOK
<1>2. content.kind \in {"readiness", "checks", "judgments"}
  BY <1>1 DEF Contents
<1>3. AfterArtifact(content) =
        IF content.kind = "judgments" THEN "kept" ELSE "answered"
  BY DEF AfterArtifact
<1>4. \A q \in Processes :
        process'[q] = IF q = p THEN [phase |-> AfterArtifact(content),
                                     content |-> content, run |-> run]
                               ELSE process[q]
  BY DEF TypeOK
<1>5. TypeOK'
  BY <1>1, <1>3, <1>4 DEF TypeOK, ledgerVars, Phases
<1>6. CommandOK'
  BY <1>1, <1>4 DEF CommandOK
<1>7. HoldsArtifact'
  BY <1>3, <1>4 DEF HoldsArtifact
<1>8. OneEvaluation'
  BY DEF OneEvaluation
<1>9. AnswerIsStored'
  BY <1>3, <1>4 DEF AnswerIsStored
<1> QED
  BY <1>5, <1>6, <1>7, <1>8, <1>9

\* Reuse of an artifact, by the look and by the link.
LEMMA ReuseStep ==
  ASSUME IInv, NEW p \in Processes, process[p].phase \in {"computed", "absent"},
         process[p].content \in DOMAIN artifacts, Reuse(p),
         UNCHANGED <<ledgerVars, storeVars, failures>>
  PROVE  IInv'
<1> DEFINE run == artifacts[process[p].content]
<1>1. run \in RunIds
  BY DEF IInv, TypeOK
<1>2. process' = [process EXCEPT ![p] =
         [phase |-> AfterArtifact(process[p].content),
          content |-> process[p].content, run |-> run]]
  BY ReuseShape DEF IInv
<1>3. /\ DOMAIN artifacts' \subseteq Contents
      /\ \A c \in DOMAIN artifacts' : artifacts'[c] \in RunIds
      /\ artifacts' = artifacts
      /\ UNCHANGED <<ledgerVars, rows, failures>>
  BY DEF IInv, TypeOK, storeVars
<1> QED
  BY <1>1, <1>2, <1>3, HoldStep

-----------------------------------------------------------------------------
(* The steps *)

LEMMA LookStep ==
  ASSUME IInv, NEW p \in Processes, Look(p)
  PROVE  IInv'
<1>1. CASE process[p].content \in DOMAIN artifacts /\ Reuse(p)
  BY <1>1, ReuseStep DEF Look
<1>2. CASE process' = [process EXCEPT ![p].phase = "absent"]
  <2> DEFINE new == [phase |-> "absent", content |-> process[p].content,
                     run |-> process[p].run]
  <2>1. process' = [process EXCEPT ![p] = new]
    BY <1>2, PhaseShape DEF IInv
  <2>2. new.content \in Contents /\ new.run \in RunIds
    BY DEF Look, IInv, CommandOK
  <2>3. /\ current' \in Snapshots
        /\ ReplacedOK'
        /\ failures' \in 0..MaxFailures
        /\ UNCHANGED storeVars
    BY DEF IInv, TypeOK, Look, ledgerVars, ReplacedOK
  <2>4. new \in [phase: Phases, content: Contents \cup {None}, run: RunIds \cup {0}]
    BY <2>2 DEF Phases
  <2> QED
    BY <2>1, <2>2, <2>3, <2>4, QuietStep
<1> QED
  BY <1>1, <1>2 DEF Look

LEMMA LinkStep ==
  ASSUME IInv, NEW p \in Processes, Link(p)
  PROVE  IInv'
<1> DEFINE content == process[p].content
           run     == process[p].run
<1>1. process[p].phase = "absent"
  BY DEF Link
<1>2. content \in Contents /\ run \in RunIds
  BY <1>1 DEF IInv, CommandOK
<1>3. CASE /\ content \notin DOMAIN artifacts
           /\ artifacts' = Stored(content, run)
           /\ process' = [process EXCEPT ![p].phase = AfterArtifact(content)]
  <2>1. process' = [process EXCEPT ![p] =
           [phase |-> AfterArtifact(content), content |-> content, run |-> run]]
    BY <1>3, PhaseShape DEF IInv
  <2>2. /\ DOMAIN artifacts' = DOMAIN artifacts \cup {content}
        /\ \A c \in DOMAIN artifacts' : artifacts'[c] = IF c = content THEN run ELSE artifacts[c]
    BY <1>3 DEF Stored
  <2>3. /\ content \in DOMAIN artifacts'
        /\ artifacts'[content] = run
        /\ \A c \in DOMAIN artifacts :
             c \in DOMAIN artifacts' /\ artifacts'[c] = artifacts[c]
    BY <1>3, <2>2
  <2>4. /\ DOMAIN artifacts' \subseteq Contents
        /\ \A c \in DOMAIN artifacts' : artifacts'[c] \in RunIds
    BY <1>2, <2>2 DEF IInv, TypeOK
  <2>5. UNCHANGED <<ledgerVars, rows, failures>>
    BY DEF Link
  <2> QED
    BY <1>1, <1>2, <2>1, <2>3, <2>4, <2>5, HoldStep
<1>4. CASE content \in DOMAIN artifacts /\ Reuse(p) /\ UNCHANGED artifacts
  <2>1. UNCHANGED <<ledgerVars, storeVars, failures>>
    BY <1>4 DEF Link, storeVars
  <2> QED
    BY <1>1, <1>4, <2>1, ReuseStep
<1> QED
  BY <1>3, <1>4 DEF Link

LEMMA StoreRowStep ==
  ASSUME IInv, NEW p \in Processes, StoreRow(p)
  PROVE  IInv'
<1> USE DEF IInv
<1> DEFINE content == process[p].content
           run     == process[p].run
<1>1. /\ process[p].phase = "kept"
      /\ rows' = rows \cup {<<content, run>>}
      /\ UNCHANGED <<ledgerVars, artifacts, failures>>
  BY DEF StoreRow
<1>2. /\ content \in Contents
      /\ run \in RunIds
      /\ content \in DOMAIN artifacts
      /\ artifacts[content] = run
  BY <1>1 DEF CommandOK, HoldsArtifact
<1>3. process' = [process EXCEPT ![p] =
         [phase |-> "answered", content |-> content, run |-> run]]
  BY PhaseShape DEF StoreRow
<1>4. \A q \in Processes :
        process'[q] = IF q = p THEN [phase |-> "answered", content |-> content, run |-> run]
                               ELSE process[q]
  BY <1>3 DEF TypeOK
<1>5. TypeOK'
  BY <1>1, <1>2, <1>3 DEF TypeOK, ledgerVars, Phases
<1>6. CommandOK'
  BY <1>2, <1>4 DEF CommandOK
<1>7. HoldsArtifact'
  BY <1>1, <1>4 DEF HoldsArtifact
<1>8. OneEvaluation'
  BY <1>1, <1>2 DEF OneEvaluation
<1>9. AnswerIsStored'
  BY <1>1, <1>2, <1>4 DEF AnswerIsStored
<1> QED
  BY <1>5, <1>6, <1>7, <1>8, <1>9

LEMMA FailStep ==
  ASSUME IInv, NEW p \in Processes, Fail(p)
  PROVE  IInv'
<1> DEFINE new == [phase |-> "failed", content |-> process[p].content,
                   run |-> process[p].run]
<1>1. process' = [process EXCEPT ![p] = new]
  BY PhaseShape DEF Fail, IInv
<1>2. new.content \in Contents /\ new.run \in RunIds
  BY DEF Fail, IInv, CommandOK
<1>3. /\ current' \in Snapshots
      /\ ReplacedOK'
      /\ failures' \in 0..MaxFailures
      /\ UNCHANGED storeVars
  BY ScoringAssumption DEF ScoringAssumption, IInv, TypeOK, Fail, ledgerVars, ReplacedOK
<1>4. new \in [phase: Phases, content: Contents \cup {None}, run: RunIds \cup {0}]
  BY <1>2 DEF Phases
<1> QED
  BY <1>1, <1>2, <1>3, <1>4, QuietStep

LEMMA RerunStep ==
  ASSUME IInv, NEW p \in Processes, Rerun(p)
  PROVE  IInv'
<1> DEFINE content == process[p].content
<1>1. UNCHANGED <<ledgerVars, storeVars, failures>>
  BY DEF Rerun
<1>2. content \in Contents
  BY DEF Rerun, IInv, CommandOK
<1>3. CASE Compute(p, Readiness(current))
  <2>1. Readiness(current) \in Contents
    BY ReadinessType DEF IInv, TypeOK
  <2> QED
    BY <1>1, <1>3, <2>1, ComputeStep
<1>4. CASE Compute(p, content)
  BY <1>1, <1>2, <1>4, ComputeStep
<1>5. CASE process' = [process EXCEPT ![p] = Idle]
  <2>1. /\ current' \in Snapshots
        /\ ReplacedOK'
        /\ failures' \in 0..MaxFailures
        /\ UNCHANGED storeVars
    BY <1>1 DEF IInv, TypeOK, ledgerVars, ReplacedOK
  <2>2. /\ Idle \in [phase: Phases, content: Contents \cup {None}, run: RunIds \cup {0}]
        /\ Idle.phase = "idle"
    BY DEF Idle, Phases
  <2> QED
    BY <1>5, <2>1, <2>2, QuietStep
<1> QED
  BY <1>3, <1>4, <1>5 DEF Rerun

LEMMA StartStep ==
  ASSUME IInv, NEW p \in Processes, Start(p)
  PROVE  IInv'
<1>1. CASE ReportReadiness(p)
  <2>1. Readiness(current) \in Contents
    BY ReadinessType DEF IInv, TypeOK
  <2> QED
    BY <1>1, <2>1, ComputeStep DEF ReportReadiness
<1>2. ASSUME NEW report \in Reports, NEW context \in Contexts,
             CheckInputs(p, report, context)
      PROVE  IInv'
  <2>1. report \in Contents /\ artifacts[report] \in RunIds
    BY <1>2 DEF CheckInputs, IInv, TypeOK
  <2>2. Checks(report, artifacts[report], context) \in Contents
    BY <2>1, ChecksType
  <2> QED
    BY <1>2, <2>2, ComputeStep DEF CheckInputs
<1>3. ASSUME NEW report \in Reports, NEW request \in Judgments,
             Judge(p, report, request)
      PROVE  IInv'
  <2>1. report \in Contents /\ artifacts[report] \in RunIds
    BY <1>3 DEF Judge, IInv, TypeOK
  <2>2. Evaluation(report, artifacts[report], request) \in Contents
    BY <2>1, EvaluationType
  <2> QED
    BY <1>3, <2>2, ComputeStep DEF Judge
<1> QED
  BY <1>1, <1>2, <1>3 DEF Start

LEMMA ApproveStep ==
  ASSUME IInv, NEW new \in Facts, Approve(new)
  PROVE  IInv'
<1> USE DEF IInv
<1>1. /\ current' = [current EXCEPT ![FieldOf[new]] = new]
      /\ replaced' = [f \in DOMAIN replaced \cup {new} |->
                        IF f = new THEN current[FieldOf[new]] ELSE replaced[f]]
      /\ UNCHANGED <<artifacts, rows, process, failures>>
  BY DEF Approve, Ledger!Promote, storeVars
<1>2. FieldOf[new] \in Fields
  BY ScoringAssumption DEF ScoringAssumption
<1>3. TypeOK'
  BY <1>1, <1>2 DEF TypeOK, Snapshots
<1>4. (CommandOK /\ HoldsArtifact /\ OneEvaluation /\ AnswerIsStored)'
  BY <1>1 DEF CommandOK, HoldsArtifact, OneEvaluation, AnswerIsStored
<1> QED
  BY <1>3, <1>4

LEMMA InitIInv == Init => IInv
<1> SUFFICES ASSUME Init PROVE IInv
  OBVIOUS
<1>1. TypeOK
  BY ScoringAssumption DEF ScoringAssumption, Init, TypeOK, Snapshots, Idle, Phases
<1>2. \A p \in Processes : process[p].phase = "idle"
  BY DEF Init, Idle
<1>3. OneEvaluation
  BY DEF Init, OneEvaluation
<1> QED
  BY <1>1, <1>2, <1>3 DEF IInv, CommandOK, HoldsArtifact, AnswerIsStored

\* The inductive invariant.
THEOREM Inductive == Spec => []IInv
<1>1. IInv /\ [Next]_vars => IInv'
  <2> SUFFICES ASSUME IInv, [Next]_vars PROVE IInv'
    OBVIOUS
  <2>1. ASSUME NEW p \in Processes, Start(p) \/ GoOn(p) \/ Fail(p) PROVE IInv'
    BY <2>1, StartStep, LookStep, LinkStep, StoreRowStep, RerunStep, FailStep DEF GoOn
  <2>2. CASE UNCHANGED vars
    BY <2>2 DEF vars, IInv, TypeOK, CommandOK, HoldsArtifact, OneEvaluation, AnswerIsStored
  <2> QED
    BY <2>1, <2>2, ApproveStep DEF Next
<1> QED
  BY InitIInv, <1>1, PTL DEF Spec

-----------------------------------------------------------------------------
(* What the steps establish *)

\* Every record has its type: in particular a report on a readiness report carries
\* the run of the one it was given (cli.py:292, business_checks.py:123).
THEOREM TypeCorrect == Spec => []TypeOK
BY Inductive, PTL DEF IInv

\* For any number of concurrent and dying commands, each row of evaluation_results
\* is the index of the artifact on disk: one run, one row per evaluation.
THEOREM EvaluationsAreOne == Spec => []OneEvaluation
BY Inductive, PTL DEF IInv

\* A command that answered answered with what is on record.
THEOREM AnswersAreStored == Spec => []AnswerIsStored
BY Inductive, PTL DEF IInv

\* A check of a snapshot passes measurements only if the context names each of them:
\* the gates close on the first fact that is not the one attested.
LEMMA GatesAttest ==
  ASSUME NEW facts \in Snapshots, NEW context \in Contexts, Gates(facts, context) = {},
         NEW fields, Unbound(context, fields) = {}
  PROVE  \A f \in fields : facts[f] = context.period[f]
<1>1. context # None
  BY DEF Gates
<1>2. \A f \in DOMAIN context.period : facts[f] = context.period[f]
  BY <1>1 DEF Gates
<1>3. \A f \in fields : f \in DOMAIN context.period
  BY <1>1 DEF Unbound
<1> QED
  BY <1>2, <1>3

\* A check that passes anything is of a context with the methodology of its snapshot,
\* and of one that attests the measurements.
LEMMA PassedIsAttested ==
  ASSUME NEW facts \in Snapshots, NEW context \in Contexts
  PROVE  /\ Computed(facts, context) \/ (\E d \in Dimensions : InputsChecked(facts, context, d))
              => facts[Name] = context.name /\ facts[Version] = context.version
         /\ Computed(facts, context) =>
              \A f \in ErFields : facts[f] # None /\ facts[f] = context.period[f]
         /\ \A d \in Dimensions : InputsChecked(facts, context, d) =>
              \A f \in PeriodFields[d] : facts[f] # None /\ facts[f] = context.period[f]
<1>1. ASSUME Gates(facts, context) = {}
      PROVE  /\ context # None
             /\ facts[Name] = context.name /\ facts[Version] = context.version
  <2>1. context # None
    BY <1>1 DEF Gates
  <2> QED
    BY <1>1, <2>1 DEF Gates
<1>2. Computed(facts, context) =>
        \A f \in ErFields : facts[f] # None /\ facts[f] = context.period[f]
  <2>1. None \notin Measured
    BY ScoringAssumption DEF ScoringAssumption
  <2> QED
    BY <2>1, GatesAttest DEF Computed
<1>3. ASSUME NEW d \in Dimensions, InputsChecked(facts, context, d), NEW f \in PeriodFields[d]
      PROVE  facts[f] # None /\ facts[f] = context.period[f]
  <2>1. Gates(facts, context) = {} /\ Unbound(context, PeriodFields[d]) = {}
    BY <1>3 DEF InputsChecked
  <2>2. facts[f] = context.period[f] /\ f \in DOMAIN context.period
    BY <1>1, <2>1, GatesAttest DEF Unbound
  <2>3. context.period[f] # None
    BY <1>1, <2>1, <2>2, ScoringAssumption DEF ScoringAssumption, ValidContext
  <2> QED
    BY <2>2, <2>3
<1> QED
  BY <1>1, <1>2, <1>3 DEF Computed, InputsChecked

\* A check is computed on the facts that are current in the step that computes it.
LEMMA ChecksReadCurrent ==
  ASSUME IInv, Next, NEW p \in Processes, Checked(p)
  PROVE  /\ process'[p].content.facts = current
         /\ process'[p].content.input \in Contexts
<1>1. /\ process[p].phase # "computed"
      /\ process'[p].phase = "computed"
      /\ process'[p].content.kind = "checks"
  BY DEF Checked
<1>2. DOMAIN process = Processes /\ process \in [Processes ->
       [phase: Phases, content: Contents \cup {None}, run: RunIds \cup {0}]]
  BY DEF IInv, TypeOK
<1>3. ASSUME NEW q \in Processes, NEW content, Compute(q, content)
      PROVE  \A s \in Processes :
               IF s = q THEN process'[s].content = content ELSE process'[s] = process[s]
  BY <1>2, <1>3 DEF Compute
<1>4. ASSUME NEW q \in Processes, Start(q)
      PROVE  /\ process'[p].content.facts = current
             /\ process'[p].content.input \in Contexts
  <2>1. CASE ReportReadiness(q)
    <3>1. Compute(q, Readiness(current)) /\ Readiness(current).kind = "readiness"
      BY <2>1 DEF ReportReadiness, Readiness
    <3> QED
      BY <1>1, <1>3, <3>1
  <2>2. ASSUME NEW report \in Reports, NEW context \in Contexts, CheckInputs(q, report, context)
        PROVE  /\ process'[p].content.facts = current
               /\ process'[p].content.input \in Contexts
    <3> DEFINE content == Checks(report, artifacts[report], context)
    <3>1. /\ Compute(q, content)
          /\ content.facts = current
          /\ content.input \in Contexts
      BY <2>2 DEF CheckInputs, IsCurrent, Checks
    <3> HIDE DEF content
    <3> QED
      BY <1>1, <1>3, <3>1
  <2>3. ASSUME NEW report \in Reports, NEW request \in Judgments, Judge(q, report, request)
        PROVE  FALSE
    <3> DEFINE content == Evaluation(report, artifacts[report], request)
    <3>1. Compute(q, content) /\ content.kind = "judgments"
      BY <2>3 DEF Judge, Evaluation
    <3> HIDE DEF content
    <3> QED
      BY <1>1, <1>3, <3>1
  <2> QED
    BY <1>4, <2>1, <2>2, <2>3 DEF Start
<1>5. ASSUME NEW q \in Processes, Rerun(q)
      PROVE  /\ process'[p].content.facts = current
             /\ process'[p].content.input \in Contexts
  <2> DEFINE content == process[q].content
  <2>1. content \in Contents
    BY <1>5 DEF Rerun, IInv, CommandOK
  <2>2. CASE Compute(q, Readiness(current))
    <3>1. Readiness(current).kind = "readiness"
      BY DEF Readiness
    <3> QED
      BY <1>1, <1>3, <2>2, <3>1
  <2>3. CASE IsCurrent(content) /\ Compute(q, content)
    <3>1. process'[p].content = content
      BY <1>1, <1>3, <2>3
    <3>2. content.kind = "checks" => content.input \in Contexts
      BY <2>1 DEF Contents
    <3> QED
      BY <1>1, <2>3, <3>1, <3>2 DEF IsCurrent
  <2>4. CASE process' = [process EXCEPT ![q] = Idle]
    BY <1>1, <1>2, <2>4 DEF Idle
  <2> QED
    BY <1>5, <2>2, <2>3, <2>4 DEF Rerun
<1>6. ASSUME NEW q \in Processes, Look(q) \/ Link(q) \/ StoreRow(q) \/ Fail(q)
      PROVE  FALSE
  <2>1. process'[q].phase # "computed"
    BY <1>2, <1>6 DEF Look, Link, StoreRow, Fail, Reuse, AfterArtifact
  <2>2. \A s \in Processes : s # q => process'[s] = process[s]
    BY <1>2, <1>6 DEF Look, Link, StoreRow, Fail, Reuse
  <2> QED
    BY <1>1, <2>1, <2>2
<1>7. ASSUME NEW new \in Facts, Approve(new)
      PROVE  FALSE
  BY <1>1, <1>7 DEF Approve
<1> QED
  BY <1>4, <1>5, <1>6, <1>7 DEF Next, GoOn

\* For every ledger, context and interleaving of promotions: what a check passes is
\* current, and attested, at the moment the check reads the ledger.
THEOREM ChecksAreAttested == Spec => AttestedWhenChecked
<1>1. IInv /\ [Next]_vars => [ChecksAttested]_vars
  <2> SUFFICES ASSUME IInv, Next, NEW p \in Processes, Checked(p),
                      NEW facts, facts = process'[p].content.facts,
                      NEW context, context = process'[p].content.input
               PROVE  /\ Computed(facts, context)
                           \/ {d \in Dimensions : InputsChecked(facts, context, d)} # {} =>
                           current[Name] = context.name /\ current[Version] = context.version
                      /\ Computed(facts, context) => \A f \in ErFields : Attests(context, f)
                      /\ \A d \in {e \in Dimensions : InputsChecked(facts, context, e)} :
                           \A f \in PeriodFields[d] : Attests(context, f)
    BY DEF ChecksAttested
  <2>1. facts = current /\ context \in Contexts
    BY ChecksReadCurrent
  <2>2. current \in Snapshots
    BY DEF IInv, TypeOK
  <2> QED
    BY <2>1, <2>2, PassedIsAttested DEF Attests
<1> QED
  BY <1>1, Inductive, PTL DEF Spec, AttestedWhenChecked

\* The two computations of a dimension's status agree on every request: the report
\* judgments.py makes of it is never refused by the model of evaluation.py.
THEOREM SummariesValidate ==
  ASSUME NEW request
  PROVE  Validates(request)
<1> SUFFICES ASSUME NEW d \in Dimensions, NEW summary, summary = Summary(request, d)
             PROVE  /\ summary.reviewed \cap summary.unreviewed = {}
                    /\ summary.reviewed \cup summary.unreviewed = CriteriaOf[d]
                    /\ {j.criterion : j \in summary.judged} = summary.reviewed
                    /\ summary.status =
                         IF summary.judged = {} THEN "unreviewed"
                         ELSE IF summary.unreviewed # {} THEN "partially_reviewed"
                         ELSE IF {j.outcome : j \in summary.judged} \cap Unresolved # {}
                              THEN "unresolved"
                         ELSE "reviewed_pending_policy"
  BY DEF Validates
<1> DEFINE reviewed == {c \in CriteriaOf[d] : \E j \in request : j.criterion = c}
           judged   == {j \in request : j.criterion \in reviewed}
<1>1. /\ summary.reviewed = reviewed
      /\ summary.unreviewed = CriteriaOf[d] \ reviewed
      /\ summary.judged = judged
  BY DEF Summary
<1>2. {j.criterion : j \in judged} = reviewed
  OBVIOUS
<1>3. judged = {} <=> reviewed = {}
  BY <1>2
<1>4. CriteriaOf[d] \ reviewed # {} <=> reviewed # CriteriaOf[d]
  OBVIOUS
<1>5. {j.outcome : j \in judged} \cap Unresolved # {}
        <=> \E j \in judged : j.outcome \in Unresolved
  OBVIOUS
<1>6. summary.status = IF reviewed = {} THEN "unreviewed"
                       ELSE IF reviewed # CriteriaOf[d] THEN "partially_reviewed"
                       ELSE IF \E j \in judged : j.outcome \in Unresolved THEN "unresolved"
                       ELSE "reviewed_pending_policy"
  BY DEF Summary
<1> HIDE DEF reviewed, judged
<1>7. summary.status =
        IF judged = {} THEN "unreviewed"
        ELSE IF CriteriaOf[d] \ reviewed # {} THEN "partially_reviewed"
        ELSE IF {j.outcome : j \in judged} \cap Unresolved # {} THEN "unresolved"
        ELSE "reviewed_pending_policy"
  BY <1>3, <1>4, <1>5, <1>6
<1> USE DEF reviewed
<1> QED
  BY <1>1, <1>2, <1>7
=============================================================================
