-------------------------- MODULE ReviewDeskProofs --------------------------
(***************************************************************************)
(* Imports by themselves, and the desk that is composed of them and of     *)
(* Review.                                                                 *)
(*                                                                         *)
(* What an import answers is true of the record and stays true.            *)
(* AnswersHold is not inductive.  It needs that a report on record comes   *)
(* with both its runs (RecordIsWhole: one transaction wrote all three) and *)
(* that what an importer found in its look-ups has not changed when it     *)
(* writes (WhatWasFound).  Both rest on the tables only growing, which the *)
(* primary keys give.                                                      *)
(*                                                                         *)
(* The desk implements Review: its queue and its imports only do to the    *)
(* review tables what Review allows.  The inductive invariant of the       *)
(* imports is what makes the candidates of a new report new: their ids     *)
(* belong to its run, and that run had no report.  What reviewers see and  *)
(* decide on then follows from the invariant of Review and what each desk  *)
(* has read.                                                               *)
(***************************************************************************)
EXTENDS ReviewDesk, TLAPS

-----------------------------------------------------------------------------
(* Imports *)

\* A report on record is stored under its run, with the rows of both its runs, and
\* no validation run is on record without its report.
RecordIsWhole ==
  /\ \A v \in DOMAIN reports :
       /\ RunOf[reports[v]] = v
       /\ v \in DOMAIN runs /\ runs[v] = reports[v]
       /\ SourceOf[reports[v]] \in DOMAIN runs
  /\ \A a \in Contents : RunOf[a] \in DOMAIN runs => RunOf[a] \in DOMAIN reports

\* Working importers have arguments, and the extraction run one of them found is
\* on record as it found it.
WhatWasFound ==
  \A i \in Importers :
    /\ importer[i].phase \notin {"idle", "killed"} =>
         importer[i].report \in Contents /\ importer[i].row \in RunRows
    /\ importer[i].phase = "ready" /\ importer[i].known =>
         /\ SourceOf[importer[i].report] \in DOMAIN runs
         /\ runs[SourceOf[importer[i].report]] = importer[i].row

IInv == ImportTypeOK /\ RecordIsWhole /\ WhatWasFound /\ AnswersHold

\* Rows on record stay as they are.
Grows(table, table2) ==
  \A k \in DOMAIN table : k \in DOMAIN table2 /\ table2[k] = table[k]

-----------------------------------------------------------------------------

LEMMA InitIInv == ImportInit => IInv
<1> SUFFICES ASSUME ImportInit PROVE IInv OBVIOUS
<1>1. ImportTypeOK BY DEF ImportInit, ImportTypeOK, NoImport, Phases
<1>2. QED BY <1>1 DEF ImportInit, IInv, RecordIsWhole, WhatWasFound, AnswersHold, AnswerHolds, NoImport

\* A step that leaves the tables alone and gives importer i a new state only has
\* to account for that state.
LEMMA OneImporter ==
  ASSUME IInv, NEW i \in Importers,
         NEW new \in [phase: Phases, report: Contents \cup {None},
                      row: RunRows \cup {None}, known: BOOLEAN],
         importer' = [importer EXCEPT ![i] = new],
         UNCHANGED <<runs, reports>>,
         new.phase \notin {"idle", "killed"} =>
           new.report \in Contents /\ new.row \in RunRows,
         new.phase = "ready" /\ new.known =>
           SourceOf[new.report] \in DOMAIN runs /\ runs[SourceOf[new.report]] = new.row,
         new.phase \in {"stored", "reused"} => OnRecord(new.report, new.row),
         new.phase = "refused" => Contradicted(new.report, new.row),
         new.phase = "failed" =>
           \/ RunOf[new.report] \in DOMAIN reports
           \/ SourceOf[new.report] \in DOMAIN runs
  PROVE  IInv'
<1>1. importer'[i] = new /\ \A j \in Importers : j # i => importer'[j] = importer[j]
  BY DEF IInv, ImportTypeOK
<1>2. ImportTypeOK' BY DEF IInv, ImportTypeOK
<1>3. RecordIsWhole' BY DEF IInv, RecordIsWhole
<1>4. WhatWasFound' BY <1>1 DEF IInv, WhatWasFound
<1>5. AnswersHold' BY <1>1 DEF IInv, AnswersHold, AnswerHolds, OnRecord, Contradicted
<1>6. QED BY <1>2, <1>3, <1>4, <1>5 DEF IInv

LEMMA FindKeepsIInv ==
  ASSUME IInv, NEW i \in Importers, NEW report \in Contents, NEW row \in RunRows,
         Find(i, report, row)
  PROVE  IInv'
<1> DEFINE v == RunOf[report]
           same == reports[v] = report /\ runs[SourceOf[report]] = row
           new == [phase |-> IF v \notin DOMAIN reports THEN "searched"
                             ELSE IF same THEN "reused" ELSE "refused",
                   report |-> report, row |-> row, known |-> FALSE]
<1>1. importer' = [importer EXCEPT ![i] = new] /\ UNCHANGED <<runs, reports>>
  BY DEF Find
<1>2. new \in [phase: Phases, report: Contents \cup {None},
               row: RunRows \cup {None}, known: BOOLEAN]
  BY DEF Phases
<1>3. new.phase = "reused" => OnRecord(report, row)
  <2>1. new.phase = "reused" => v \in DOMAIN reports /\ same OBVIOUS
  <2>2. v \in DOMAIN reports /\ same => OnRecord(report, row)
    BY DEF IInv, RecordIsWhole, OnRecord
  <2>3. QED BY <2>1, <2>2
<1>4. new.phase = "refused" => Contradicted(report, row)
  <2>1. new.phase = "refused" => v \in DOMAIN reports /\ ~same OBVIOUS
  <2>2. v \in DOMAIN reports /\ ~same => Contradicted(report, row)
    BY DEF IInv, RecordIsWhole, Contradicted
  <2>3. QED BY <2>1, <2>2
<1>5. /\ new.phase \in {"searched", "reused", "refused"}
      /\ new.report = report /\ new.row = row /\ new.known = FALSE
  OBVIOUS
<1> HIDE DEF new
<1>6. QED BY <1>1, <1>2, <1>3, <1>4, <1>5, OneImporter

LEMMA FindSourceKeepsIInv ==
  ASSUME IInv, NEW i \in Importers, FindSource(i)
  PROVE  IInv'
<1> DEFINE e == SourceOf[importer[i].report]
           new == [importer[i] EXCEPT
                     !.known = e \in DOMAIN runs,
                     !.phase = IF e \in DOMAIN runs /\ runs[e] # importer[i].row
                               THEN "refused" ELSE "ready"]
<1>1. importer' = [importer EXCEPT ![i] = new] /\ UNCHANGED <<runs, reports>>
  BY DEF FindSource, IInv, ImportTypeOK
<1>2. /\ importer[i] \in [phase: Phases, report: Contents \cup {None},
                          row: RunRows \cup {None}, known: BOOLEAN]
      /\ importer[i].report \in Contents /\ importer[i].row \in RunRows
  BY DEF FindSource, IInv, ImportTypeOK, WhatWasFound
<1>3. new \in [phase: Phases, report: Contents \cup {None},
               row: RunRows \cup {None}, known: BOOLEAN]
  <2>1. (e \in DOMAIN runs) \in BOOLEAN OBVIOUS
  <2>2. (IF e \in DOMAIN runs /\ runs[e] # importer[i].row THEN "refused" ELSE "ready")
          \in Phases
    BY DEF Phases
  <2>3. QED BY <1>2, <2>1, <2>2
<1>4. /\ new.report = importer[i].report /\ new.row = importer[i].row
      /\ new.known = (e \in DOMAIN runs)
      /\ new.phase \in {"refused", "ready"}
      /\ new.phase = "refused" <=> e \in DOMAIN runs /\ runs[e] # importer[i].row
  BY <1>2
<1> HIDE DEF new
<1>5. new.phase = "refused" => Contradicted(new.report, new.row)
  BY <1>4 DEF Contradicted
<1>6. new.phase = "ready" /\ new.known =>
        SourceOf[new.report] \in DOMAIN runs /\ runs[SourceOf[new.report]] = new.row
  BY <1>4
<1>7. QED BY <1>1, <1>2, <1>3, <1>4, <1>5, <1>6, OneImporter

\* The keys of the transaction were all free: the tables grow.
LEMMA WriteGrows ==
  ASSUME IInv, NEW i \in Importers, Write(i), DOMAIN NewRuns(i) \cap DOMAIN runs = {}
  PROVE  LET report == importer[i].report
         IN  /\ Grows(runs, runs') /\ Grows(reports, reports')
             /\ DOMAIN runs' = DOMAIN runs \cup DOMAIN NewRuns(i)
             /\ DOMAIN reports' = DOMAIN reports \cup {RunOf[report]}
             /\ reports'[RunOf[report]] = report
             /\ OnRecord(importer[i].report, importer[i].row)'
             /\ importer'[i] = [importer[i] EXCEPT !.phase = "stored"]
             /\ \A k \in DOMAIN runs' : k \in DOMAIN runs \/ runs'[k] = NewRuns(i)[k]
<1> DEFINE report == importer[i].report
           row == importer[i].row
           v == RunOf[report]
           e == SourceOf[report]
<1>1. /\ importer[i].phase = "ready"
      /\ runs' = Merge(runs, NewRuns(i))
      /\ reports' = Merge(reports, [x \in {v} |-> report])
      /\ importer' = [importer EXCEPT ![i].phase = "stored"]
  BY DEF Write
<1>2. report \in Contents /\ row \in RunRows /\ v # e
  BY <1>1, ImportAssumption DEF IInv, WhatWasFound
<1>3. /\ DOMAIN NewRuns(i) = IF importer[i].known THEN {v} ELSE {v, e}
      /\ NewRuns(i)[v] = report
      /\ ~importer[i].known => NewRuns(i)[e] = row
  BY <1>2 DEF NewRuns
<1>4. v \notin DOMAIN runs BY <1>3
<1>5. v \notin DOMAIN reports BY <1>4 DEF IInv, RecordIsWhole
<1>6. /\ DOMAIN runs' = DOMAIN runs \cup DOMAIN NewRuns(i)
      /\ \A k \in DOMAIN NewRuns(i) : runs'[k] = NewRuns(i)[k]
      /\ \A k \in DOMAIN runs : runs'[k] = runs[k]
  BY <1>1 DEF Merge
<1>7. /\ DOMAIN reports' = DOMAIN reports \cup {v}
      /\ reports'[v] = report
      /\ \A k \in DOMAIN reports : reports'[k] = reports[k]
  BY <1>1, <1>5 DEF Merge
<1>8. importer'[i] = [importer[i] EXCEPT !.phase = "stored"]
  BY <1>1 DEF IInv, ImportTypeOK
<1>9. e \in DOMAIN runs' /\ runs'[e] = row
  BY <1>1, <1>3, <1>6 DEF IInv, WhatWasFound
<1>10. OnRecord(importer[i].report, importer[i].row)'
  <2>1. importer'[i].report = report /\ importer'[i].row = row
    BY <1>8 DEF IInv, ImportTypeOK
  <2>2. v \in DOMAIN runs' /\ runs'[v] = report BY <1>3, <1>6
  <2>3. QED BY <1>7, <1>9, <2>1, <2>2 DEF OnRecord
<1>11. QED BY <1>6, <1>7, <1>8, <1>10 DEF Grows

LEMMA WriteKeepsIInv ==
  ASSUME IInv, NEW i \in Importers, Write(i)
  PROVE  IInv'
<1> DEFINE report == importer[i].report
           row == importer[i].row
<1>1. /\ importer[i] \in [phase: Phases, report: Contents \cup {None},
                          row: RunRows \cup {None}, known: BOOLEAN]
      /\ report \in Contents /\ row \in RunRows
      /\ importer[i].phase = "ready"
  BY DEF Write, IInv, ImportTypeOK, WhatWasFound
<1>2. CASE DOMAIN NewRuns(i) \cap DOMAIN runs # {}
  <2> DEFINE new == [importer[i] EXCEPT !.phase = "failed"]
  <2>1. importer' = [importer EXCEPT ![i] = new] /\ UNCHANGED <<runs, reports>>
    BY <1>2 DEF Write, IInv, ImportTypeOK
  <2>2. /\ new \in [phase: Phases, report: Contents \cup {None},
                    row: RunRows \cup {None}, known: BOOLEAN]
        /\ new.phase = "failed" /\ new.report = report /\ new.row = row
    BY <1>1 DEF Phases
  <2>3. \/ RunOf[report] \in DOMAIN reports
        \/ SourceOf[report] \in DOMAIN runs
    <3>1. DOMAIN NewRuns(i) \subseteq {RunOf[report], SourceOf[report]} BY DEF NewRuns
    <3>2. QED BY <1>1, <1>2, <3>1 DEF IInv, RecordIsWhole
  <2> HIDE DEF new
  <2>4. QED BY <1>1, <2>1, <2>2, <2>3, OneImporter
<1>3. CASE DOMAIN NewRuns(i) \cap DOMAIN runs = {}
  <2>1. /\ Grows(runs, runs') /\ Grows(reports, reports')
        /\ DOMAIN runs' = DOMAIN runs \cup DOMAIN NewRuns(i)
        /\ DOMAIN reports' = DOMAIN reports \cup {RunOf[report]}
        /\ reports'[RunOf[report]] = report
        /\ OnRecord(importer[i].report, importer[i].row)'
        /\ importer'[i] = [importer[i] EXCEPT !.phase = "stored"]
        /\ \A k \in DOMAIN runs' : k \in DOMAIN runs \/ runs'[k] = NewRuns(i)[k]
    BY <1>3, WriteGrows
  <2>2. /\ importer'[i].phase = "stored"
        /\ importer'[i].report = report /\ importer'[i].row = row
        /\ \A j \in Importers : j # i => importer'[j] = importer[j]
    BY <1>1, <2>1 DEF Write, IInv, ImportTypeOK
  <2>3. /\ DOMAIN NewRuns(i) \subseteq {RunOf[report], SourceOf[report]}
        /\ \A k \in DOMAIN NewRuns(i) : NewRuns(i)[k] \in {report, row}
    BY DEF NewRuns
  <2>4. ImportTypeOK'
    <3>1. DOMAIN runs' \subseteq Runs
      BY <1>1, <2>1, <2>3, ImportAssumption DEF IInv, ImportTypeOK
    <3>2. \A k \in DOMAIN runs' : runs'[k] \in Contents \cup RunRows
      BY <1>1, <2>1, <2>3 DEF IInv, ImportTypeOK, Grows
    <3>3. /\ DOMAIN reports' \subseteq Runs
          /\ \A v \in DOMAIN reports' : reports'[v] \in Contents
      BY <1>1, <2>1, ImportAssumption DEF IInv, ImportTypeOK, Grows
    <3>4. importer' \in [Importers ->
            [phase: Phases, report: Contents \cup {None}, row: RunRows \cup {None}, known: BOOLEAN]]
      BY <1>1 DEF Write, IInv, ImportTypeOK, Phases
    <3>5. QED BY <3>1, <3>2, <3>3, <3>4 DEF ImportTypeOK
  <2>5. RecordIsWhole'
    <3>1. ASSUME NEW v \in DOMAIN reports'
          PROVE  /\ RunOf[reports'[v]] = v
                 /\ v \in DOMAIN runs' /\ runs'[v] = reports'[v]
                 /\ SourceOf[reports'[v]] \in DOMAIN runs'
      <4>1. CASE v \in DOMAIN reports
        BY <2>1, <4>1 DEF IInv, RecordIsWhole, Grows
      <4>2. CASE v = RunOf[report]
        BY <2>1, <2>2, <4>2 DEF OnRecord
      <4>3. QED BY <2>1, <4>1, <4>2
    <3>2. ASSUME NEW a \in Contents, RunOf[a] \in DOMAIN runs'
          PROVE  RunOf[a] \in DOMAIN reports'
      BY <1>1, <2>1, <2>3, <3>2, ImportAssumption DEF IInv, RecordIsWhole
    <3>3. QED BY <3>1, <3>2 DEF RecordIsWhole
  <2>6. WhatWasFound'
    BY <1>1, <2>1, <2>2 DEF IInv, WhatWasFound, Grows
  <2>7. ASSUME NEW j \in Importers
        PROVE  AnswerHolds(j)'
    <3>1. CASE j = i
      <4>1. OnRecord(importer[j].report, importer[j].row)' BY <2>1, <2>2, <3>1
      <4>2. QED BY <2>2, <3>1, <4>1 DEF AnswerHolds
    <3>2. CASE j # i
      BY <2>1, <2>2, <3>2
      DEF IInv, AnswersHold, AnswerHolds, OnRecord, Contradicted, Grows
    <3>3. QED BY <3>1, <3>2
  <2>8. AnswersHold' BY <2>7 DEF AnswersHold
  <2>9. QED BY <2>4, <2>5, <2>6, <2>8 DEF IInv
<1>4. QED BY <1>2, <1>3

LEMMA KillKeepsIInv ==
  ASSUME IInv, NEW i \in Importers, Kill(i)
  PROVE  IInv'
<1> DEFINE new == [NoImport EXCEPT !.phase = "killed"]
<1>1. importer' = [importer EXCEPT ![i] = new] /\ UNCHANGED <<runs, reports>>
  BY DEF Kill
<1>2. new \in [phase: Phases, report: Contents \cup {None}, row: RunRows \cup {None},
               known: BOOLEAN]
      /\ new.phase = "killed"
  BY DEF NoImport, Phases
<1> HIDE DEF new
<1>3. QED BY <1>1, <1>2, OneImporter

LEMMA NextKeepsIInv == IInv /\ [ImportNext]_importVars => IInv'
<1> SUFFICES ASSUME IInv, [ImportNext]_importVars PROVE IInv' OBVIOUS
<1>1. CASE UNCHANGED importVars
  BY <1>1
  DEF IInv, ImportTypeOK, RecordIsWhole, WhatWasFound, AnswersHold, AnswerHolds, OnRecord,
    Contradicted, importVars
<1>2. ASSUME NEW i \in Importers, NEW report \in Contents, NEW row \in RunRows,
             Find(i, report, row)
      PROVE  IInv'
  BY <1>2, FindKeepsIInv
<1>3. ASSUME NEW i \in Importers, FindSource(i) PROVE IInv' BY <1>3, FindSourceKeepsIInv
<1>4. ASSUME NEW i \in Importers, Write(i) PROVE IInv' BY <1>4, WriteKeepsIInv
<1>5. ASSUME NEW i \in Importers, Kill(i) PROVE IInv' BY <1>5, KillKeepsIInv
<1>6. QED BY <1>1, <1>2, <1>3, <1>4, <1>5 DEF ImportNext

-----------------------------------------------------------------------------

LEMMA Inductive == ImportSpec => []IInv
<1>1. QED BY InitIInv, NextKeepsIInv, PTL DEF ImportSpec

\* However imports interleave and die, the tables and the importers stay well typed.
THEOREM ImportTypeCorrect == ImportSpec => []ImportTypeOK
<1>1. IInv => ImportTypeOK BY DEF IInv
<1>2. QED BY <1>1, Inductive, PTL

\* An import's answer is true of the record when it is given and stays true, for
\* any number of imports of any reports (fact_repository.py:82-169).
THEOREM AnswersAreTrue == ImportSpec => []AnswersHold
<1>1. IInv => AnswersHold BY DEF IInv
<1>2. QED BY <1>1, Inductive, PTL

\* No import changes or removes what another one stored.
THEOREM RecordOnlyGrows == ImportSpec => [][Grows(runs, runs') /\ Grows(reports, reports')]_importVars
<1>1. ASSUME IInv, ImportNext PROVE Grows(runs, runs') /\ Grows(reports, reports')
  <2>1. ASSUME NEW i \in Importers, Write(i) PROVE Grows(runs, runs') /\ Grows(reports, reports')
    <3>1. CASE DOMAIN NewRuns(i) \cap DOMAIN runs = {} BY <1>1, <2>1, <3>1, WriteGrows
    <3>2. CASE DOMAIN NewRuns(i) \cap DOMAIN runs # {} BY <2>1, <3>2 DEF Write, Grows
    <3>3. QED BY <3>1, <3>2
  <2>2. CASE UNCHANGED <<runs, reports>> BY <2>2 DEF Grows
  <2>3. QED BY <1>1, <2>1, <2>2 DEF ImportNext, Find, FindSource, Kill
<1>2. QED BY <1>1, Inductive, PTL DEF ImportSpec

-----------------------------------------------------------------------------
(* The desk implements Review *)

LEMMA DeskKeepsIInv == Spec => []IInv
<1>1. Init => IInv BY InitIInv DEF Init
<1>2. IInv /\ [Next]_vars => IInv'
  <2>1. [Next]_vars => [ImportNext]_importVars
    BY DEF Next, vars, importVars, ImportStep, Pick, ReadDecisions, ReadHead,
      ReadHeadOnly, DecideOnItem, LeaveItem, CountCandidates, CountDecisions, ReportMetrics
  <2>2. QED BY <2>1, NextKeepsIInv
<1>3. QED BY <1>1, <1>2, PTL DEF Spec

\* The transaction of an import lists the candidates of its report and no other.
LEMMA WriteLists ==
  ASSUME IInv, NEW i \in Importers, Write(i), DOMAIN NewRuns(i) \cap DOMAIN runs = {}
  PROVE  /\ CandidatesOf[importer[i].report] \cap Listed = {}
         /\ Listed' = Listed \cup CandidatesOf[importer[i].report]
<1> DEFINE a == importer[i].report
<1>1. /\ Grows(reports, reports')
      /\ DOMAIN reports' = DOMAIN reports \cup {RunOf[a]}
      /\ reports'[RunOf[a]] = a
  BY WriteGrows
<1>2. a \in Contents BY DEF Write, IInv, WhatWasFound
<1>3. RunOf[a] \notin DOMAIN reports
  BY DEF NewRuns, IInv, RecordIsWhole
<1>4. \A v \in DOMAIN reports : reports[v] \in Contents /\ RunOf[reports[v]] = v
  BY DEF IInv, ImportTypeOK, RecordIsWhole
<1>5. \A v \in DOMAIN reports : CandidatesOf[reports[v]] \cap CandidatesOf[a] = {}
  BY <1>2, <1>3, <1>4, DeskAssumption
<1>6. CandidatesOf[a] \cap Listed = {} BY <1>5 DEF Listed
<1>7. Listed' = Listed \cup CandidatesOf[a]
  <2>1. \A v \in DOMAIN reports : reports'[v] = reports[v] BY <1>1 DEF Grows
  <2>2. {CandidatesOf[reports'[v]] : v \in DOMAIN reports'}
          = {CandidatesOf[reports[v]] : v \in DOMAIN reports} \cup {CandidatesOf[a]}
    BY <1>1, <2>1
  <2>3. QED BY <2>2 DEF Listed
<1>8. QED BY <1>6, <1>7

LEMMA ImportIsReview ==
  ASSUME IInv, ImportStep
  PROVE  [Review!Next]_<<Listed, decisions, facts, heads, clock>>
<1>1. UNCHANGED <<decisions, facts, heads, clock>> BY DEF ImportStep, reviewVars
<1>2. ASSUME NEW i \in Importers, Write(i), DOMAIN NewRuns(i) \cap DOMAIN runs = {}
      PROVE  Review!Next
  <2>1. importer[i].report \in Contents BY <1>2 DEF Write, IInv, WhatWasFound
  <2>2. Review!ImportReport(CandidatesOf[importer[i].report])
    BY <1>1, <1>2, WriteLists DEF Review!ImportReport
  <2>3. QED BY <2>1, <2>2 DEF Review!Next
<1>3. CASE UNCHANGED reports
  BY <1>1, <1>3 DEF Listed
<1>4. QED BY <1>2, <1>3 DEF ImportStep, ImportNext, Find, FindSource, Write, Kill

\* Composed with the imports and the queue, decide() and the arrival of candidates
\* are still those of Review, so that every property of Review holds at the desk.
THEOREM DeskImplementsReview == Spec => ImplementsReview
<1>1. Init => Review!Init
  <2>1. ASSUME Init PROVE Listed = {}
    BY <2>1 DEF Init, ImportInit, Listed
  <2>2. QED BY <2>1 DEF Init, Review!Init
<1>2. IInv /\ [Next]_vars => [Review!Next]_(Review!vars)
  <2> SUFFICES ASSUME IInv, [Next]_vars
               PROVE  [Review!Next]_<<Listed, decisions, facts, heads, clock>>
    BY DEF Review!vars
  <2>1. CASE ImportStep BY <2>1, ImportIsReview
  <2>2. ASSUME NEW k \in Desks, DecideOnItem(k) PROVE Review!Next
    BY <2>2 DEF DecideOnItem, Review!Next
  <2>3. CASE UNCHANGED <<reports, decisions, facts, heads, clock>>
    BY <2>3 DEF Listed
  <2>4. QED
    BY <2>1, <2>2, <2>3
    DEF Next, vars, importVars, reviewVars, Pick, ReadDecisions, ReadHead,
      ReadHeadOnly, LeaveItem, CountCandidates, CountDecisions, ReportMetrics
<1>3. QED BY <1>1, <1>2, DeskKeepsIInv, PTL DEF Spec, ImplementsReview, Review!Spec

-----------------------------------------------------------------------------
(***************************************************************************)
(* What the reviewers see.  The invariant of ReviewProofs holds at the     *)
(* desk, because the desk implements Review.  ItemIsRecent and             *)
(* NoUnseenApproval need in addition that the fact of an item was current  *)
(* when the item was completed, which no later decision changes            *)
(* (PastIsFixed).                                                          *)
(***************************************************************************)
RP == INSTANCE ReviewProofs WITH
  candidates <- Listed,
  Reports    <- {CandidatesOf[a] : a \in Contents}

\* The constants of the desk are as Review assumes them.
LEMMA ConstantsOfReview == RP!ReviewAssumption
BY DeskAssumption DEF RP!ReviewAssumption, RP!Scopes, RP!Start, RP!End

\* The two instances of Review say the same.
LEMMA SameDecide ==
  ASSUME NEW r
  PROVE  Review!Decide(r) <=> RP!Decide(r)
BY DEF Review!Decide, RP!Decide, Review!Verdict, RP!Verdict, Review!With, RP!With,
  Review!HeadValue, RP!HeadValue, Review!Reversed, RP!Reversed, Review!Sibling, RP!Sibling,
  Review!Start, RP!Start, Review!End, RP!End

LEMMA SameRequests == Review!Requests = RP!Requests
BY DEF Review!Requests, RP!Requests, Review!Approvals, RP!Approvals, Review!Refusals, RP!Refusals

LEMMA SameNext == Review!Next <=> RP!Next
BY SameDecide, SameRequests DEF Review!Next, RP!Next, Review!ImportReport, RP!ImportReport

LEMMA SameHistory ==
  ASSUME NEW f, NEW s, NEW moment
  PROVE  /\ Review!WasCurrent(f, s, moment) <=> RP!WasCurrent(f, s, moment)
         /\ Review!WasCurrent(f, s, moment)' <=> RP!WasCurrent(f, s, moment)'
BY DEF Review!WasCurrent, RP!WasCurrent, Review!ApprovedBefore, RP!ApprovedBefore

LEMMA ReviewInvariant == Spec => []RP!IInv
<1>1. Review!Init => RP!Init
  BY DEF Review!Init, RP!Init, Review!Scopes, RP!Scopes
<1>2. [Review!Next]_(Review!vars) => [RP!Next]_(RP!vars)
  BY SameNext DEF Review!vars, RP!vars
<1>3. RP!Init => RP!IInv
  BY RP!InitIInv, ConstantsOfReview
<1>4. RP!IInv /\ [RP!Next]_(RP!vars) => RP!IInv'
  BY RP!NextKeepsIInv, ConstantsOfReview
<1> QED
  BY <1>1, <1>2, <1>3, <1>4, DeskImplementsReview, PTL DEF ImplementsReview, Review!Spec

\* What a desk has read was so when it was read.
ItemOK(k) ==
  LET item == desk[k]
  IN  /\ item.phase \in {"picked", "judged", "shown"} => item.candidate \in Candidates
      /\ item.phase = "picked" => item.latest = None
      /\ item.phase \in {"judged", "shown"} =>
           /\ item.listed \in 0..clock
           /\ item.latest # None =>
                item.latest \in DOMAIN decisions /\ decisions[item.latest].at < item.listed
      /\ item.phase = "shown" =>
           /\ item.shown \in item.listed..clock
           /\ RP!WasCurrent(item.fact, CandidateScope[item.candidate], item.shown)

DeskTypeOK ==
  /\ desk \in [Desks -> Item \cup Tally]
  /\ DOMAIN basis = DOMAIN decisions
  /\ \A d \in DOMAIN basis : basis[d] \in Item

DInv ==
  /\ DeskTypeOK
  /\ \A k \in Desks : ItemOK(k)
  /\ NoUnseenApproval

LEMMA InitDInv == Init => DInv
<1> SUFFICES ASSUME Init PROVE DInv OBVIOUS
<1>1. Idle \in Item
  BY DEF Idle, Item
<1>2. DOMAIN basis = {} /\ DOMAIN decisions = {} /\ DOMAIN facts = {}
  BY DEF Init
<1>3. \A k \in Desks : desk[k].phase = "idle"
  BY DEF Init, Idle
<1> QED
  BY <1>1, <1>2, <1>3 DEF Init, DInv, DeskTypeOK, ItemOK, NoUnseenApproval

\* A step that writes no decision has to account for one desk.
LEMMA ReaderStep ==
  ASSUME DInv, NEW k \in Desks, UNCHANGED <<decisions, facts, clock, basis>>,
         desk' \in [Desks -> Item \cup Tally],
         \A l \in Desks \ {k} : desk'[l] = desk[l],
         ItemOK(k)'
  PROVE  DInv'
<1>1. DeskTypeOK'
  BY DEF DInv, DeskTypeOK
<1>2. ASSUME NEW l \in Desks, l # k PROVE ItemOK(l)'
  <2>1. ItemOK(l) /\ desk'[l] = desk[l]
    BY <1>2 DEF DInv
  <2> QED
    BY <2>1 DEF ItemOK, RP!WasCurrent, RP!ApprovedBefore
<1>3. NoUnseenApproval'
  BY DEF DInv, NoUnseenApproval, Review!ScopeOf
<1> QED
  BY <1>1, <1>2, <1>3 DEF DInv

LEMMA PickKeeps ==
  ASSUME DInv, NEW k \in Desks, NEW c \in Candidates, Pick(k, c)
  PROVE  DInv'
<1> DEFINE new == [Idle EXCEPT !.phase = "picked", !.candidate = c]
<1>1. new \in Item /\ new.phase = "picked" /\ new.candidate = c /\ new.latest = None
  BY DEF Idle, Item
<1>2. /\ desk' \in [Desks -> Item \cup Tally]
      /\ desk'[k] = new
      /\ \A l \in Desks \ {k} : desk'[l] = desk[l]
      /\ UNCHANGED <<decisions, facts, clock, basis>>
  BY <1>1 DEF Pick, DInv, DeskTypeOK, reviewVars
<1>3. ItemOK(k)'
  BY <1>1, <1>2 DEF ItemOK
<1> QED
  BY <1>2, <1>3, ReaderStep

LEMMA IdleKeeps ==
  ASSUME DInv, NEW k \in Desks, desk' = [desk EXCEPT ![k] = Idle],
         UNCHANGED <<decisions, facts, clock, basis>>
  PROVE  DInv'
<1>1. Idle \in Item /\ Idle.phase = "idle"
  BY DEF Idle, Item
<1>2. /\ desk' \in [Desks -> Item \cup Tally]
      /\ desk'[k] = Idle
      /\ \A l \in Desks \ {k} : desk'[l] = desk[l]
  BY <1>1 DEF DInv, DeskTypeOK
<1>3. ItemOK(k)'
  BY <1>1, <1>2 DEF ItemOK
<1> QED
  BY <1>2, <1>3, ReaderStep

\* What is known of the record of the review.
LEMMA OnTheRecord ==
  ASSUME RP!IInv
  PROVE  /\ clock \in Nat
         /\ \A d \in DOMAIN decisions :
              /\ d \in Decisions
              /\ decisions[d].at \in Nat
              /\ decisions[d].at < clock
              /\ decisions[d].request.candidate \in Candidates
         /\ \A f \in DOMAIN facts :
              /\ f \in DOMAIN decisions
              /\ facts[f].scope = Review!ScopeOf(f)
         /\ \A c \in Candidates :
              /\ heads[CandidateScope[c]] \in Decisions \cup {None}
              /\ RP!WasCurrent(heads[CandidateScope[c]], CandidateScope[c], clock)
<1>1. /\ RP!TypeOK /\ RP!FactsAreApprovals /\ RP!DecisionsArePast /\ RP!HeadIsLatest
  BY DEF RP!IInv
<1>2. \A c \in Candidates : CandidateScope[c] \in RP!Scopes
  BY DeskAssumption DEF RP!Scopes
<1>3. \A d \in DOMAIN decisions : decisions[d].request.candidate \in Candidates
  <2> SUFFICES ASSUME NEW d \in DOMAIN decisions
               PROVE  decisions[d].request.candidate \in Candidates
    OBVIOUS
  <2>1. decisions[d].request \in RP!Requests
    BY <1>1 DEF RP!TypeOK, RP!DecisionRow
  <2> QED
    BY <2>1 DEF RP!Requests, RP!Approvals, RP!Refusals
<1>4. /\ clock \in Nat
      /\ \A d \in DOMAIN decisions : d \in Decisions /\ decisions[d].at \in Nat
      /\ heads \in [RP!Scopes -> Decisions \cup {None}]
  BY <1>1 DEF RP!TypeOK, RP!DecisionRow
<1> QED
  BY <1>1, <1>2, <1>3, <1>4
  DEF RP!FactsAreApprovals, RP!DecisionsArePast, RP!HeadIsLatest, RP!ScopeOf, Review!ScopeOf

LEMMA ReadDecisionsKeeps ==
  ASSUME DInv, RP!IInv, NEW k \in Desks, ReadDecisions(k)
  PROVE  DInv'
<1>1. PICK d \in Decisions \cup {None} :
        /\ IsLatest(d, desk[k].candidate)
        /\ \/ desk' = [desk EXCEPT ![k].phase = "judged", ![k].latest = d, ![k].listed = clock]
           \/ desk' = [desk EXCEPT ![k] = Idle]
  BY DEF ReadDecisions
<1>2. UNCHANGED <<decisions, facts, clock, basis>> /\ desk[k].phase = "picked"
  BY DEF ReadDecisions, reviewVars
<1>3. CASE desk' = [desk EXCEPT ![k].phase = "judged", ![k].latest = d, ![k].listed = clock]
  <2> DEFINE item == desk[k]
             new  == [phase |-> "judged", candidate |-> item.candidate, latest |-> d,
                      fact |-> item.fact, listed |-> clock, shown |-> item.shown]
  <2>1. item \in Item /\ desk \in [Desks -> Item \cup Tally] /\ item.candidate \in Candidates
    BY <1>2 DEF DInv, DeskTypeOK, Item, Tally, ItemOK
  <2>2. new \in Item
    BY <2>1, OnTheRecord DEF Item
  <2>3. /\ DOMAIN desk' = Desks
        /\ desk' = [l \in Desks |-> desk'[l]]
        /\ desk'[k] = new
        /\ \A l \in Desks \ {k} : desk'[l] = desk[l]
    BY <1>3, <2>1 DEF Item
  <2>4. desk' \in [Desks -> Item \cup Tally]
    BY <2>1, <2>2, <2>3
  <2>5. d # None => d \in DOMAIN decisions /\ decisions[d].at < clock
    BY <1>1, OnTheRecord DEF IsLatest, About
  <2>6. ItemOK(k)'
    BY <1>2, <2>1, <2>3, <2>5, OnTheRecord DEF ItemOK
  <2> QED
    BY <1>2, <2>3, <2>4, <2>6, ReaderStep
<1>4. CASE desk' = [desk EXCEPT ![k] = Idle]
  BY <1>2, <1>4, IdleKeeps
<1> QED
  BY <1>1, <1>3, <1>4

\* The item is completed with the fact that is current at that moment.
LEMMA ReadHeadKeeps ==
  ASSUME DInv, RP!IInv, NEW k \in Desks, ReadHead(k) \/ ReadHeadOnly(k)
  PROVE  DInv'
<1> DEFINE item == desk[k]
           s    == CandidateScope[item.candidate]
           listed == IF ReadHead(k) THEN item.listed ELSE clock
           new  == [phase |-> "shown", candidate |-> item.candidate, latest |-> item.latest,
                    fact |-> heads[s], listed |-> listed, shown |-> clock]
<1>1. /\ UNCHANGED <<decisions, facts, clock, basis>>
      /\ item.phase \in {"picked", "judged"}
  BY DEF ReadHead, ReadHeadOnly, reviewVars
<1>2. /\ item \in Item /\ desk \in [Desks -> Item \cup Tally]
      /\ item.candidate \in Candidates /\ ItemOK(k)
  BY <1>1 DEF DInv, DeskTypeOK, Item, Tally, ItemOK
<1>3. listed \in 0..clock /\ clock \in Nat
  BY <1>2, OnTheRecord DEF ReadHead, ItemOK
<1>4. new \in Item
  BY <1>2, <1>3, OnTheRecord DEF Item
<1> HIDE DEF s
<1>5. /\ DOMAIN desk' = Desks
      /\ desk' = [l \in Desks |-> desk'[l]]
      /\ desk'[k] = new
      /\ \A l \in Desks \ {k} : desk'[l] = desk[l]
  <2>1. CASE ReadHead(k)
    BY <1>2, <2>1 DEF ReadHead, Item, s
  <2>2. CASE ReadHeadOnly(k) /\ ~ReadHead(k)
    BY <1>2, <2>2 DEF ReadHeadOnly, Item, s
  <2> QED
    BY <2>1, <2>2
<1>6. desk' \in [Desks -> Item \cup Tally]
  BY <1>2, <1>4, <1>5
<1>7. RP!WasCurrent(heads[s], s, clock)
  BY <1>2, OnTheRecord DEF s
<1>8. RP!WasCurrent(desk[k].fact, CandidateScope[desk[k].candidate], desk[k].shown)'
  BY <1>1, <1>5, <1>7 DEF RP!WasCurrent, RP!ApprovedBefore, s
<1>9. item.latest # None =>
        item.latest \in DOMAIN decisions /\ decisions[item.latest].at < listed
  BY <1>1, <1>2 DEF ReadHead, ReadHeadOnly, ItemOK
<1>10. ItemOK(k)'
  BY <1>1, <1>2, <1>3, <1>5, <1>8, <1>9 DEF ItemOK
<1> QED
  BY <1>1, <1>5, <1>6, <1>10, ReaderStep

\* A desk that is at the metrics has no item.
LEMMA MetricsKeep ==
  ASSUME DInv, RP!IInv, NEW k \in Desks,
         CountCandidates(k) \/ CountDecisions(k) \/ ReportMetrics(k)
  PROVE  DInv'
<1>1. UNCHANGED <<decisions, facts, clock, basis>>
  BY DEF CountCandidates, CountDecisions, ReportMetrics, reviewVars
<1>2. desk \in [Desks -> Item \cup Tally]
  BY DEF DInv, DeskTypeOK
<1>3. CASE CountCandidates(k)
  <2> DEFINE new == [phase |-> "rows", rows |-> Listed, decided |-> {}]
  <2>1. Listed \subseteq Candidates
    BY DEF RP!IInv, RP!TypeOK
  <2>2. new \in Tally
    BY <2>1 DEF Tally
  <2>3. /\ desk' \in [Desks -> Item \cup Tally]
        /\ desk'[k] = new
        /\ \A l \in Desks \ {k} : desk'[l] = desk[l]
    BY <1>2, <1>3, <2>2 DEF CountCandidates
  <2>4. ItemOK(k)'
    BY <2>3 DEF ItemOK
  <2> QED
    BY <1>1, <2>3, <2>4, ReaderStep
<1>4. CASE CountDecisions(k)
  <2> DEFINE decided == {decisions[d].request.candidate : d \in DOMAIN decisions}
             new == [phase |-> "counted", rows |-> desk[k].rows, decided |-> decided]
  <2>1. desk[k] \in Tally
    BY <1>2, <1>4 DEF CountDecisions, Item
  <2>2. decided \subseteq Candidates
    BY OnTheRecord
  <2>3. new \in Tally
    BY <2>1, <2>2 DEF Tally
  <2> HIDE DEF decided
  <2>4. /\ DOMAIN desk' = Desks
        /\ desk' = [l \in Desks |-> desk'[l]]
        /\ desk'[k] = new
        /\ \A l \in Desks \ {k} : desk'[l] = desk[l]
    BY <1>2, <1>4, <2>1 DEF CountDecisions, Tally, decided
  <2>5. desk' \in [Desks -> Item \cup Tally]
    BY <1>2, <2>3, <2>4
  <2>6. ItemOK(k)'
    BY <2>4 DEF ItemOK
  <2> QED
    BY <1>1, <2>4, <2>5, <2>6, ReaderStep
<1>5. CASE ReportMetrics(k) /\ desk' = [desk EXCEPT ![k] = Idle]
  BY <1>1, <1>5, IdleKeeps
<1>6. CASE ReportMetrics(k) /\ desk' = [desk EXCEPT ![k] = [@ EXCEPT !.phase = "failed"]]
  <2> DEFINE new == [desk[k] EXCEPT !.phase = "failed"]
  <2>1. desk[k] \in Tally
    BY <1>2, <1>6 DEF ReportMetrics, Item
  <2>2. new \in Tally /\ new.phase = "failed"
    BY <2>1 DEF Tally
  <2>3. /\ desk' \in [Desks -> Item \cup Tally]
        /\ desk'[k] = new
        /\ \A l \in Desks \ {k} : desk'[l] = desk[l]
    BY <1>2, <1>6, <2>2
  <2>4. ItemOK(k)'
    BY <2>2, <2>3 DEF ItemOK
  <2> QED
    BY <1>1, <2>3, <2>4, ReaderStep
<1> QED
  BY <1>3, <1>4, <1>5, <1>6 DEF CountCandidates, CountDecisions, ReportMetrics

\* What was current at a moment of the past still was.
LEMMA PastStays ==
  ASSUME RP!IInv, NEW r \in RP!Requests, RP!Decide(r)
  PROVE  \A f, s, moment :
           s \in RP!Scopes /\ moment \in Nat /\ moment <= clock /\ RP!WasCurrent(f, s, moment)
             => RP!WasCurrent(f, s, moment)'
BY RP!PastIsFixed, ConstantsOfReview

\* A decision keeps the items as they are, and is made on the latest fact.
LEMMA DecideOnItemKeeps ==
  ASSUME DInv, RP!IInv, RP!IInv', NEW k \in Desks, DecideOnItem(k)
  PROVE  DInv'
<1> DEFINE item == desk[k]
<1>1. PICK r \in Review!Requests :
        /\ r.candidate = item.candidate
        /\ r.expected = item.fact
        /\ Review!Decide(r)
        /\ basis' = [d \in DOMAIN basis \cup {r.decision} |->
                       IF d = r.decision THEN item ELSE basis[d]]
  BY DEF DecideOnItem
<1> DEFINE s == CandidateScope[item.candidate]
           n == r.decision
<1>2. /\ item.phase = "shown" /\ UNCHANGED desk
      /\ r \in RP!Requests /\ RP!Decide(r)
      /\ RP!Verdict(r) = "accepted"
  BY <1>1, SameDecide, SameRequests DEF DecideOnItem, RP!Decide
<1>3. /\ item \in Item
      /\ item.candidate \in Candidates
      /\ item.listed \in 0..clock
      /\ item.shown \in item.listed..clock
      /\ RP!WasCurrent(item.fact, s, item.shown)
  BY <1>2 DEF DInv, DeskTypeOK, Item, Tally, ItemOK
<1>4. /\ n \notin DOMAIN decisions
      /\ heads[s] = item.fact
  BY <1>1, <1>2 DEF RP!Verdict
<1>5. /\ DOMAIN decisions' = DOMAIN decisions \cup {n}
      /\ decisions'[n].at = clock
      /\ decisions'[n].request = r
      /\ \A d \in DOMAIN decisions : decisions'[d] = decisions[d]
      /\ clock' = clock + 1
      /\ DOMAIN facts \subseteq DOMAIN facts' /\ DOMAIN facts' \subseteq DOMAIN facts \cup {n}
      /\ \A f \in DOMAIN facts : f # n => facts'[f] = facts[f]
  BY <1>2, <1>4 DEF RP!Decide, RP!With
<1>6. DeskTypeOK'
  <2>1. /\ DOMAIN basis = DOMAIN decisions
        /\ \A d \in DOMAIN basis : basis[d] \in Item
    BY DEF DInv, DeskTypeOK
  <2>2. desk' \in [Desks -> Item \cup Tally]
    BY <1>2 DEF DInv, DeskTypeOK
  <2>3. DOMAIN basis' = DOMAIN decisions'
    BY <1>1, <1>5, <2>1
  <2>4. \A d \in DOMAIN basis' : basis'[d] \in Item
    BY <1>1, <1>3, <2>1
  <2> QED
    BY <2>2, <2>3, <2>4 DEF DeskTypeOK
<1>7. ASSUME NEW l \in Desks PROVE ItemOK(l)'
  <2> DEFINE other == desk[l]
  <2>1. ItemOK(l) /\ desk'[l] = other /\ clock \in Nat
    BY <1>2, OnTheRecord DEF DInv
  <2>2. other.latest # None /\ other.phase \in {"judged", "shown"} =>
          other.latest \in DOMAIN decisions' /\ decisions'[other.latest].at < other.listed
    BY <1>5, <2>1 DEF ItemOK
  <2>3. CASE other.phase = "shown"
    <3>1. other.candidate \in Candidates /\ other.listed \in 0..clock
          /\ other.shown \in other.listed..clock
          /\ RP!WasCurrent(other.fact, CandidateScope[other.candidate], other.shown)
      BY <2>1, <2>3 DEF ItemOK
    <3>2. CandidateScope[other.candidate] \in RP!Scopes
      BY <3>1, DeskAssumption DEF RP!Scopes
    <3>3. other.shown \in Nat /\ other.shown <= clock
      BY <2>1, <3>1
    <3>4. RP!WasCurrent(desk[l].fact, CandidateScope[desk[l].candidate], desk[l].shown)'
      <4>1. PICK f, t, m : f = other.fact /\ t = CandidateScope[other.candidate] /\ m = other.shown
        OBVIOUS
      <4>2. RP!WasCurrent(f, t, m)'
        BY <1>2, <3>1, <3>2, <3>3, <4>1, PastStays
      <4>3. f = desk'[l].fact /\ t = CandidateScope[desk'[l].candidate] /\ m = desk'[l].shown
        BY <2>1, <4>1
      <4> QED
        BY <4>2, <4>3 DEF RP!WasCurrent, RP!ApprovedBefore
    <3>5. /\ other.listed \in 0..clock'
          /\ other.shown \in other.listed..clock'
      BY <1>5, <2>1, <3>1
    <3> QED
      BY <2>1, <2>2, <2>3, <3>1, <3>4, <3>5 DEF ItemOK
  <2>4. CASE other.phase # "shown"
    BY <1>5, <2>1, <2>2, <2>4 DEF ItemOK
  <2> QED
    BY <2>3, <2>4
<1>8. NoUnseenApproval'
  <2> SUFFICES ASSUME NEW d \in DOMAIN basis', NEW e \in DOMAIN facts',
                      Review!ScopeOf(e)' = Review!ScopeOf(d)',
                      decisions'[e].at >= basis'[d].shown
               PROVE  decisions'[e].at >= decisions'[d].at
    BY DEF NoUnseenApproval
  <2>1. d \in DOMAIN decisions' /\ e \in DOMAIN decisions'
    BY <1>6, OnTheRecord DEF DeskTypeOK, RP!IInv, RP!FactsAreApprovals
  <2>2. CASE e = n
    BY <1>5, <2>1, <2>2, OnTheRecord
  <2>3. CASE e # n /\ d # n
    <3>1. d \in DOMAIN basis /\ e \in DOMAIN facts /\ basis'[d] = basis[d]
          /\ decisions'[d] = decisions[d] /\ decisions'[e] = decisions[e]
      BY <1>1, <1>5, <2>1, <2>3, OnTheRecord
    <3>2. Review!ScopeOf(e) = Review!ScopeOf(d)
      BY <3>1 DEF Review!ScopeOf
    <3> QED
      BY <3>1, <3>2 DEF DInv, NoUnseenApproval
  <2>4. CASE e # n /\ d = n
    <3>1. /\ e \in DOMAIN facts /\ decisions'[e] = decisions[e]
          /\ decisions[e].at \in Nat /\ decisions[e].at < clock
          /\ basis'[d] = item
      BY <1>1, <1>5, <2>4, OnTheRecord
    <3>2. facts[e].scope = s
      <4>1. Review!ScopeOf(d)' = s
        BY <1>1, <1>5, <2>4 DEF Review!ScopeOf
      <4>2. Review!ScopeOf(e)' = Review!ScopeOf(e)
        BY <3>1 DEF Review!ScopeOf
      <4> QED
        BY <3>1, <4>1, <4>2, OnTheRecord
    <3>4. RP!WasCurrent(item.fact, s, clock)
      BY <1>3, <1>4, OnTheRecord
    <3>5. item.fact # None /\ item.fact \in DOMAIN facts
          /\ decisions[item.fact].at < item.shown
          /\ decisions[e].at <= decisions[item.fact].at
      BY <1>3, <3>1, <3>2, <3>4 DEF RP!WasCurrent, RP!ApprovedBefore
    <3>6. decisions[e].at < item.shown
      BY <1>3, <3>1, <3>5, OnTheRecord
    <3> QED
      BY <1>3, <3>1, <3>6, OnTheRecord
  <2> QED
    BY <2>2, <2>3, <2>4
<1> QED
  BY <1>6, <1>7, <1>8 DEF DInv

\* An import touches neither the record of the review nor what the desks show.
LEMMA ImportKeeps ==
  ASSUME DInv, ImportStep
  PROVE  DInv'
<1>1. UNCHANGED <<decisions, facts, clock, basis, desk>>
  BY DEF ImportStep, reviewVars
<1> QED
  BY <1>1 DEF DInv, DeskTypeOK, ItemOK, NoUnseenApproval, Review!ScopeOf,
    RP!WasCurrent, RP!ApprovedBefore

LEMMA NextKeepsDInv ==
  ASSUME DInv, RP!IInv, RP!IInv', [Next]_vars
  PROVE  DInv'
<1>1. CASE ImportStep
  BY <1>1, ImportKeeps
<1>2. ASSUME NEW k \in Desks, NEW c \in Candidates, Pick(k, c) PROVE DInv'
  BY <1>2, PickKeeps
<1>3. ASSUME NEW k \in Desks, ReadDecisions(k) PROVE DInv'
  BY <1>3, ReadDecisionsKeeps
<1>4. ASSUME NEW k \in Desks, ReadHead(k) \/ ReadHeadOnly(k) PROVE DInv'
  BY <1>4, ReadHeadKeeps
<1>5. ASSUME NEW k \in Desks, DecideOnItem(k) PROVE DInv'
  BY <1>5, DecideOnItemKeeps
<1>6. ASSUME NEW k \in Desks, LeaveItem(k) PROVE DInv'
  BY <1>6, IdleKeeps DEF LeaveItem, reviewVars
<1>7. ASSUME NEW k \in Desks, CountCandidates(k) \/ CountDecisions(k) \/ ReportMetrics(k)
      PROVE  DInv'
  BY <1>7, MetricsKeep
<1>8. CASE UNCHANGED vars
  BY <1>8 DEF vars, reviewVars, DInv, DeskTypeOK, ItemOK, NoUnseenApproval, Review!ScopeOf,
    RP!WasCurrent, RP!ApprovedBefore
<1> QED
  BY <1>1, <1>2, <1>3, <1>4, <1>5, <1>6, <1>7, <1>8 DEF Next

LEMMA DeskInvariant == Spec => []DInv
<1>1. Init => DInv
  BY InitDInv
<1>2. RP!IInv /\ RP!IInv' /\ DInv /\ [Next]_vars => DInv'
  BY NextKeepsDInv
<1> QED
  BY <1>1, <1>2, ReviewInvariant, PTL DEF Spec

-----------------------------------------------------------------------------
\* The tables of the imports and of the review, the desks and the history of items
\* always have their types.
THEOREM TypeCorrect == Spec => []TypeOK
<1>1. IInv /\ RP!IInv /\ DInv => TypeOK
  <2> SUFFICES ASSUME IInv, RP!IInv, DInv PROVE TypeOK OBVIOUS
  <2>1. ImportTypeOK
    BY DEF IInv
  <2>2. Review!TypeOK
    BY SameRequests DEF RP!IInv, RP!TypeOK, Review!TypeOK, RP!Scopes, Review!Scopes,
      RP!DecisionRow, Review!DecisionRow, RP!FactRow, Review!FactRow
  <2> QED
    BY <2>1, <2>2 DEF DInv, DeskTypeOK, TypeOK
<1> QED
  BY <1>1, DeskKeepsIInv, ReviewInvariant, DeskInvariant, PTL

\* An item put together from separate reads never shows an approved candidate next
\* to a fact older than that approval (review_queue.py:94, 121).
THEOREM ItemsAreRecent == Spec => []ItemIsRecent
<1>1. RP!IInv /\ DInv => ItemIsRecent
  <2> SUFFICES ASSUME RP!IInv, DInv, NEW k \in Desks, desk[k].phase = "shown"
               PROVE  \E moment \in desk[k].listed..desk[k].shown :
                        /\ Review!WasCurrent(desk[k].fact, CandidateScope[desk[k].candidate], moment)
                        /\ desk[k].latest # None =>
                             \/ decisions[desk[k].latest].request.status # "approved"
                             \/ decisions[desk[k].latest].at < moment
    BY DEF ItemIsRecent
  <2>1. /\ desk[k].listed \in 0..clock
        /\ desk[k].shown \in desk[k].listed..clock
        /\ desk[k].latest # None =>
             desk[k].latest \in DOMAIN decisions /\ decisions[desk[k].latest].at < desk[k].listed
        /\ RP!WasCurrent(desk[k].fact, CandidateScope[desk[k].candidate], desk[k].shown)
    BY DEF DInv, ItemOK
  <2>2. Review!WasCurrent(desk[k].fact, CandidateScope[desk[k].candidate], desk[k].shown)
    BY <2>1, SameHistory
  <2>3. desk[k].latest # None => decisions[desk[k].latest].at < desk[k].shown
    BY <2>1, OnTheRecord
  <2>4. desk[k].shown \in desk[k].listed..desk[k].shown
    BY <2>1, OnTheRecord
  <2> QED
    BY <2>2, <2>3, <2>4
<1> QED
  BY <1>1, ReviewInvariant, DeskInvariant, PTL

\* Nobody decides on an item after another approval in its field that the item did
\* not show yet (review_queue.py:121-147, review_repository.py:90).
THEOREM ApprovalsAreSeen == Spec => []NoUnseenApproval
<1>1. DInv => NoUnseenApproval
  BY DEF DInv
<1> QED
  BY <1>1, DeskInvariant, PTL

\* A report that the importer names is on record under its run, also while
\* reviewers are at work (fact_repository.py:77-95).
THEOREM AnswersStayHeld == Spec => []AnswersHold
<1>1. IInv => AnswersHold
  BY DEF IInv
<1> QED
  BY <1>1, DeskKeepsIInv, PTL

-----------------------------------------------------------------------------
(* What Review promises holds at the desk *)

LEMMA DeskIsReview == Spec => RP!Spec
<1>1. Review!Init => RP!Init
  BY DEF Review!Init, RP!Init, Review!Scopes, RP!Scopes
<1>2. [Review!Next]_(Review!vars) => [RP!Next]_(RP!vars)
  BY SameNext DEF Review!vars, RP!vars
<1> QED
  BY <1>1, <1>2, DeskImplementsReview, PTL DEF ImplementsReview, Review!Spec, RP!Spec

\* With candidates that arrive by imports and requests that come from what the queue
\* has shown, the current facts are still those of the latest approvals, one approval
\* replaces the fact it expected, and no crediting period runs backwards
\* (review_repository.py:89-220).
THEOREM DeskKeepsReview ==
  Spec => /\ [](RP!HeadIsLatest /\ RP!ChainedHistory /\ RP!CreditingPeriodOrdered)
          /\ RP!ImmutableHistory
BY DeskIsReview, RP!HeadsAreLatest, RP!PeriodsOrdered, RP!NoLostUpdate, RP!HistoryImmutable,
   ConstantsOfReview, PTL

\* The desk implements the ledger: refinement composes.
THEOREM DeskImplementsLedger == Spec => RP!ImplementsLedger
BY DeskIsReview, RP!LedgerImplemented, ConstantsOfReview, PTL

-----------------------------------------------------------------------------
(***************************************************************************)
(* The metrics.  Their two reads can disagree only because an import       *)
(* commits between them: without one they are answered, whatever the       *)
(* reviewers decide meanwhile.                                             *)
(***************************************************************************)

\* No import commits while the metrics are between reading the candidates, of which
\* there are some, and reading the decisions.
NoImportMeanwhile ==
  [][(\E k \in Desks : desk[k].phase = "rows" /\ desk[k].rows # {}) => Listed' = Listed]_vars

DecidedAreListed == \A d \in DOMAIN decisions : decisions[d].request.candidate \in Listed

TallyOK(k) ==
  /\ desk[k].phase = "rows" => desk[k].rows = {} \/ desk[k].rows = Listed
  /\ desk[k].phase = "counted" => desk[k].rows = {} \/ desk[k].decided \subseteq desk[k].rows
  /\ desk[k].phase # "failed"

\* Only what an import has brought is ever decided on, and no import takes it away.
LEMMA DecisionsAreOnListed == Spec => []DecidedAreListed
<1>1. RP!Init => DecidedAreListed
  BY DEF RP!Init, DecidedAreListed
<1>2. ASSUME DecidedAreListed, [RP!Next]_(RP!vars) PROVE DecidedAreListed'
  <2>1. ASSUME NEW r \in RP!Requests, RP!Decide(r) PROVE DecidedAreListed'
    <3>1. r.candidate \in Listed /\ Listed' = Listed
      BY <2>1 DEF RP!Decide, RP!Verdict
    <3>2. decisions' = RP!With(decisions, r.decision,
                         [request |-> r, before |-> RP!HeadValue(CandidateScope[r.candidate]),
                          at |-> clock])
      BY <2>1 DEF RP!Decide
    <3> QED
      BY <1>2, <3>1, <3>2 DEF RP!With, DecidedAreListed
  <2>2. ASSUME NEW new, RP!ImportReport(new) PROVE DecidedAreListed'
    BY <1>2, <2>2 DEF RP!ImportReport, DecidedAreListed
  <2>3. CASE UNCHANGED RP!vars
    BY <1>2, <2>3 DEF RP!vars, DecidedAreListed
  <2> QED
    BY <1>2, <2>1, <2>2, <2>3 DEF RP!Next
<1> QED
  BY <1>1, <1>2, DeskIsReview, PTL DEF RP!Spec

LEMMA TallyStep ==
  ASSUME DInv, DecidedAreListed, \A k \in Desks : TallyOK(k), [Next]_vars,
         (\E k \in Desks : desk[k].phase = "rows" /\ desk[k].rows # {}) => Listed' = Listed
  PROVE  \A k \in Desks : TallyOK(k)'
<1> SUFFICES ASSUME NEW k \in Desks PROVE TallyOK(k)'
  OBVIOUS
<1>1. TallyOK(k) /\ desk[k] \in Item \cup Tally /\ desk \in [Desks -> Item \cup Tally]
  BY DEF DInv, DeskTypeOK
<1>2. CASE desk'[k] = desk[k]
  BY <1>1, <1>2 DEF TallyOK
<1>3. CASE desk'[k] # desk[k]
  <2>1. PICK l \in Desks :
          \/ \E c \in Candidates : Pick(l, c)
          \/ ReadDecisions(l) \/ ReadHead(l) \/ ReadHeadOnly(l) \/ LeaveItem(l)
          \/ CountCandidates(l) \/ CountDecisions(l) \/ ReportMetrics(l)
    BY <1>3 DEF Next, vars, ImportStep, DecideOnItem
  <2>2. l = k /\ UNCHANGED <<reports, decisions>>
    <3>1. UNCHANGED <<reports, decisions>>
      BY <2>1 DEF Pick, ReadDecisions, ReadHead, ReadHeadOnly, LeaveItem,
        CountCandidates, CountDecisions, ReportMetrics, importVars, reviewVars
    <3>2. l # k => desk'[k] = desk[k]
      BY <2>1, <1>1 DEF Pick, ReadDecisions, ReadHead, ReadHeadOnly, LeaveItem,
        CountCandidates, CountDecisions, ReportMetrics
    <3> QED
      BY <1>3, <3>1, <3>2
  <2>3. CASE desk'[k].phase \in {"idle", "picked", "judged", "shown"}
    BY <2>3 DEF TallyOK
  <2>4. CASE CountCandidates(k)
    BY <1>1, <2>2, <2>4 DEF CountCandidates, TallyOK, Listed
  <2>5. CASE CountDecisions(k)
    <3> DEFINE decided == {decisions[d].request.candidate : d \in DOMAIN decisions}
    <3>1. desk[k] \in Tally /\ desk[k].phase = "rows"
      BY <1>1, <2>5 DEF CountDecisions, Item
    <3>2. decided \subseteq Listed
      BY DEF DecidedAreListed
    <3> HIDE DEF decided
    <3>3. desk'[k] = [desk[k] EXCEPT !.phase = "counted", !.decided = decided]
      BY <1>1, <2>5 DEF CountDecisions, decided
    <3>4. desk'[k].phase = "counted" /\ desk'[k].rows = desk[k].rows /\ desk'[k].decided = decided
      BY <3>1, <3>3 DEF Tally
    <3> QED
      BY <1>1, <3>1, <3>2, <3>4 DEF TallyOK
  <2>6. CASE ReportMetrics(k)
    <3>1. desk'[k] = Idle
      BY <1>1, <2>6 DEF ReportMetrics, TallyOK
    <3> QED
      BY <3>1 DEF TallyOK, Idle
  <2>7. ASSUME NEW c \in Candidates, Pick(k, c) PROVE TallyOK(k)'
    <3> DEFINE item == [Idle EXCEPT !.phase = "picked", !.candidate = c]
    <3>1. item.phase = "picked"
      BY DEF Idle
    <3> HIDE DEF item
    <3>2. desk'[k] = item
      BY <1>1, <2>7 DEF Pick, item
    <3> QED
      BY <2>3, <3>1, <3>2
  <2>9. CASE LeaveItem(k)
    <3>1. desk'[k] = Idle
      BY <1>1, <2>9 DEF LeaveItem
    <3> QED
      BY <2>3, <3>1 DEF Idle
  <2>8. CASE ReadDecisions(k) \/ ReadHead(k) \/ ReadHeadOnly(k)
    <3>1. desk[k] \in Item
      BY <1>1, <2>8 DEF ReadDecisions, ReadHead, ReadHeadOnly, Tally
    <3>2. CASE ReadDecisions(k)
      <4>1. PICK d :
              \/ desk' = [desk EXCEPT ![k].phase = "judged", ![k].latest = d, ![k].listed = clock]
              \/ desk' = [desk EXCEPT ![k] = Idle]
        BY <3>2 DEF ReadDecisions
      <4>2. desk'[k].phase = "judged" \/ desk'[k] = Idle
        BY <1>1, <3>1, <4>1 DEF Item
      <4> QED
        BY <2>3, <4>2 DEF Idle
    <3> DEFINE fact == heads[CandidateScope[desk[k].candidate]]
    <3> HIDE DEF fact
    <3>3. CASE ReadHead(k)
      <4>1. desk' = [desk EXCEPT ![k].phase = "shown", ![k].fact = fact, ![k].shown = clock]
        BY <3>3 DEF ReadHead, fact
      <4>2. desk'[k].phase = "shown"
        BY <1>1, <3>1, <4>1 DEF Item
      <4> QED
        BY <2>3, <4>2
    <3>4. CASE ReadHeadOnly(k)
      <4>1. desk' = [desk EXCEPT ![k].phase = "shown", ![k].fact = fact, ![k].listed = clock,
                                 ![k].shown = clock]
        BY <3>4 DEF ReadHeadOnly, fact
      <4>2. desk'[k].phase = "shown"
        BY <1>1, <3>1, <4>1 DEF Item
      <4> QED
        BY <2>3, <4>2
    <3> QED
      BY <2>8, <3>2, <3>3, <3>4
  <2> QED
    BY <2>1, <2>2, <2>4, <2>5, <2>6, <2>7, <2>8, <2>9
<1> QED
  BY <1>2, <1>3

\* Asking for the metrics is always answered unless an import commits between their
\* two reads (review_queue.py:201-267): the import is what makes them fail, the
\* decisions that are committed meanwhile never do.
THEOREM MetricsAnswerUnlessImported == Spec /\ NoImportMeanwhile => []MetricsAnswer
<1>1. Init => \A k \in Desks : TallyOK(k)
  BY DEF Init, Idle, TallyOK
<1>2. DInv /\ DecidedAreListed /\ (\A k \in Desks : TallyOK(k)) /\ [Next]_vars
      /\ [(\E k \in Desks : desk[k].phase = "rows" /\ desk[k].rows # {}) => Listed' = Listed]_vars
      => (\A k \in Desks : TallyOK(k))'
  <2>1. CASE UNCHANGED vars
    BY <2>1 DEF vars, TallyOK, Listed
  <2>2. CASE ~UNCHANGED vars
    BY <2>2, TallyStep
  <2> QED
    BY <2>1, <2>2
<1>3. (\A k \in Desks : TallyOK(k)) => MetricsAnswer
  BY DEF TallyOK, MetricsAnswer
<1> QED
  BY <1>1, <1>2, <1>3, DeskInvariant, DecisionsAreOnListed, PTL DEF Spec, NoImportMeanwhile
=============================================================================
