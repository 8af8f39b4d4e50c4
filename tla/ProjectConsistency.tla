------------------------- MODULE ProjectConsistency -------------------------
(***************************************************************************)
(* The consistency report of a project,                                    *)
(* src/src/catchain/validation/consistency.py, over the validation reports *)
(* of ValidationRules.                                                     *)
(*                                                                         *)
(* The rules are functions of the extractions they are given.  The state   *)
(* is one such input, extended one observation at a time: every state is   *)
(* an input a user may pass, and a step is the difference that one more    *)
(* observation makes.                                                      *)
(*                                                                         *)
(* The rules compare the observations of a run as sets and use their index *)
(* as a name only; here an observation is its own name and a run the set   *)
(* of its observations.                                                    *)
(***************************************************************************)
EXTENDS ValidationRules, FiniteSets

CONSTANTS
  Runs,             \* validation runs of one project
  SourceOf,         \* the source document each run is about
  VersionOf,        \* the document version each run is about, numbered by retrieval
  Observations,     \* observations the extractors may make
  MaxObservations   \* bound on their number

ASSUME ConsistencyAssumption ==
  /\ DOMAIN SourceOf = Runs
  /\ DOMAIN VersionOf = Runs
  /\ \A r, q \in Runs : VersionOf[r] = VersionOf[q] => SourceOf[r] = SourceOf[q]
  /\ \A o \in Observations : IsObservation(o)
  /\ MaxObservations \in Nat

VARIABLE extraction   \* the observations of each run; a run without any is no input

Init == extraction = [r \in Runs |-> {}]

Inputs == {r \in Runs : extraction[r] # {}}

Codes(r, o) == Issues(o, extraction[r])

StatusAt(r, o) == Status(Codes(r, o))

-----------------------------------------------------------------------------
(* validate_project *)

\* Bug: rejected candidates take part.
ActiveOrRejected(r, field) ==
  {o \in extraction[r] : o.field = field /\ o.missing = None}

\* The candidates that take part in the comparison.
Active(r, field) ==
  {o \in extraction[r] : /\ o.field = field
                         /\ o.missing = None
                         /\ StatusAt(r, o) # "rejected"}

Signatures(r, field) == {Signature(o) : o \in Active(r, field)}

Links(r, fields) == {<<r, o>> : o \in UNION {Active(r, f) : f \in fields}}

\* unique(): the candidates agree, and x is the value and y the unit they agree on.
Agree(r, field) == Cardinality(Signatures(r, field)) = 1

Agreed(r, field) == CHOOSE s \in Signatures(r, field) : TRUE

Value(r, field) == Agreed(r, field)[1]
Unit(r, field)  == Agreed(r, field)[2]

Issue(code, fields, links) == [code |-> code, fields |-> fields, links |-> links]

DatePairs ==
  {<<"crediting_period_start", "crediting_period_end">>,
   <<"verification_period_start", "verification_period_end">>}

DateCode(r, start, end) ==
  IF ~Agree(r, start) \/ ~Agree(r, end)
  THEN "date_pair_incomplete_or_conflicting"
  ELSE IF Value(r, start).form # "date" \/ Value(r, end).form # "date"
  THEN "date_pair_not_evaluable"
  ELSE IF Value(r, start).of > Value(r, end).of
  THEN "date_order_reversed"
  ELSE "none"

DateIssues ==
  UNION {LET fields == {pair[1], pair[2]}
             code   == DateCode(r, pair[1], pair[2])
         IN  IF Links(r, fields) = {} \/ code = "none" THEN {}
             ELSE {Issue(code, fields, Links(r, fields))}
         : r \in Inputs, pair \in DatePairs}

ApplicabilityIssues ==
  {Issue("applicability_value_difference", {pair[2], pair[3]}, Links(pair[1], {pair[2], pair[3]}))
   : pair \in {p \in Inputs \X {"pe_applicable_flag", "le_applicable_flag"}
                     \X {"pe_value_tco2e", "le_value_tco2e"} :
                 /\ (p[2] = "pe_applicable_flag") = (p[3] = "pe_value_tco2e")
                 /\ Agree(p[1], p[2]) /\ Agree(p[1], p[3])
                 /\ Value(p[1], p[2]) = Bool(0)
                 /\ Value(p[1], p[3]).type \in {"int", "float"}
                 /\ Value(p[1], p[3]).of # 0}}

EnergyIssues ==
  {Issue("energy_unit_difference", EnergyFields, Links(r, EnergyFields))
   : r \in {q \in Inputs : /\ \A f \in EnergyFields : Agree(q, f)
                           /\ Cardinality({Unit(q, f) : f \in EnergyFields}) > 1}}

MethodologyIssues ==
  LET rows == UNION {Links(r, {"methodology_name"}) : r \in Inputs}
  IN  IF rows # {} /\ \A row \in rows : row[2].value = Acm0002
      THEN {}
      ELSE {Issue("methodology_scope_unconfirmed", {"methodology_name"}, rows)}

\* PROJECT_LEVEL_FIELDS: measurements of a period are not compared.
ProjectLevelFields ==
  {"project_id", "project_name", "country", "installed_capacity_mw", "technology_type",
   "methodology_name", "methodology_version", "registered_date", "listed_date",
   "project_owner", "project_developer", "project_operator", "project_participant",
   "crediting_period_start", "crediting_period_end"}

\* Bug: the latest version is taken to be authoritative.
GroupsOfLatest(field) ==
  {r \in Inputs : /\ Active(r, field) # {}
                  /\ \A q \in Inputs : Active(q, field) # {} => VersionOf[q] <= VersionOf[r]}

Groups(field) == {r \in Inputs : Active(r, field) # {}}

DifferenceCode(field) ==
  IF Cardinality({SourceOf[r] : r \in Groups(field)}) > 1 THEN "cross_document_difference"
  ELSE IF Cardinality({VersionOf[r] : r \in Groups(field)}) > 1 THEN "cross_version_difference"
  ELSE "extractor_difference"

DifferenceIssues ==
  {Issue(DifferenceCode(field), {field}, UNION {Links(r, {field}) : r \in Groups(field)})
   : field \in {f \in ProjectLevelFields :
                  Cardinality({Signatures(r, f) : r \in Groups(f)}) > 1}}

Report ==
  DateIssues \cup ApplicabilityIssues \cup EnergyIssues \cup MethodologyIssues
    \cup DifferenceIssues

-----------------------------------------------------------------------------

Observed == UNION {{r} \X extraction[r] : r \in Runs}

\* An extractor reports one more observation of the document of run r.
Observe(r, o) ==
  /\ Cardinality(Observed) < MaxObservations
  /\ o \notin extraction[r]
  /\ extraction' = [extraction EXCEPT ![r] = @ \cup {o}]

Next == \E r \in Runs, o \in Observations : Observe(r, o)

Spec == Init /\ [][Next]_extraction

-----------------------------------------------------------------------------
(* Properties *)

TypeOK == extraction \in [Runs -> SUBSET Observations]

\* The rules build only reports that the domain models admit: what is "missing" is
\* an abstention (domain/validation.py:25-32), and every link of an issue leads to a
\* candidate of one of its fields (domain/consistency.py:48-63).  The validators
\* would otherwise abort the command that builds the report.  That linked candidates
\* need review is more than the validators check: no rule may compare what the rules
\* within a document have rejected (active(), validation/consistency.py:63-76).
ReportsAreValid ==
  /\ TypeOK
  /\ \A row \in Observed :
       StatusAt(row[1], row[2]) = "missing" => row[2].missing # None
  /\ \A issue \in Report : \A row \in issue.links :
       /\ row \in Observed
       /\ row[2].field \in issue.fields
       /\ StatusAt(row[1], row[2]) = "needs_review"

Contested(row) == "candidate_conflict" \in Codes(row[1], row[2])

\* Two usable candidates for the same fact about the project that differ, in one
\* report or in two, are never both silent: an issue links them, or they carry
\* candidate_conflict in their own reports.  Neither rule alone sees every
\* disagreement (validation/extraction.py:93-98, :189; consistency.py:162-192).
DisagreementSurfaces ==
  LET report == Report IN
  \A field \in ProjectLevelFields :
    LET rows == UNION {Links(r, {field}) : r \in Inputs}
    IN  \A a, b \in rows :
          a[2].value # b[2].value \/ a[2].unit # b[2].unit =>
            \/ \E issue \in report : issue.fields = {field} /\ {a, b} \subseteq issue.links
            \/ Contested(a) /\ Contested(b)

\* A finding that more observations of the missing kind may settle.
Incomplete(issue) ==
  \/ issue.links = {}
  \/ issue.code = "date_pair_incomplete_or_conflicting" /\ ~\E row \in issue.links : Contested(row)

TraceLeft ==
  LET next == Report' IN
  \A issue \in Report :
    ~Incomplete(issue) =>
      \/ \E later \in next : later.fields = issue.fields /\ issue.links \subseteq later.links
      \/ \E row \in issue.links : Contested(row)'

\* One more observation never makes a finding disappear without a trace: the
\* fields stay reported, or a candidate that was linked becomes contested
\* (consistency.py:78-82: unique() gives up on rival candidates).
NothingSilenced == [][TraceLeft]_extraction

PriorityAt(row) == Priority(StatusAt(row[1], row[2]), Codes(row[1], row[2]))

\* One more observation never makes a candidate less urgent to review
\* (review_queue.py:46-71, validation/extraction.py:189).
UrgencyKept == [][\A row \in Observed : PriorityAt(row)' >= PriorityAt(row)]_extraction

\* decide() validates the approved value by itself, with a list of codes of its own:
\* of all that the report and the queue hold against a candidate, a conflict with
\* its rivals is the one thing that an unchanged approval gets past.  Such a
\* candidate is approvable although the queue files it at 100; whatever else is
\* approvable is routine, at 40 (review_repository.py:109-118, review_queue.py:46-71).
OnlyConflictEscapes ==
  \A row \in Observed :
    Approvable(row[2]) =>
      /\ StatusAt(row[1], row[2]) = "needs_review"
      /\ Codes(row[1], row[2]) \ NormalCodes \subseteq {"candidate_conflict"}
      /\ PriorityAt(row) = IF Contested(row) THEN 100 ELSE 40
=============================================================================
