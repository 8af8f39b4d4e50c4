--------------------------- MODULE ValidationRules ---------------------------
(***************************************************************************)
(* The mechanical rules one candidate has to meet                          *)
(* (src/src/catchain/validation/extraction.py), the urgency the review     *)
(* queue gives it (review_queue.py) and the codes an approval may carry    *)
(* (storage/review_repository.py).                                         *)
(*                                                                         *)
(* A value is a record: its Python type; for text, whether it is a         *)
(* calendar date, has the form of one, is blank or is anything else; and a *)
(* number, the value itself, the day or which text it is.  A reference to  *)
(* the document is the outcome of looking its quote up there.              *)
(***************************************************************************)
EXTENDS Integers

CONSTANT None   \* no unit, no value, no missing_reason

DateFields ==
  {"crediting_period_start", "crediting_period_end", "verification_period_start",
   "verification_period_end", "registered_date", "listed_date"}

IntegerFields ==
  {"ef_vintage_year", "archiving_period_years", "verification_cycle_count",
   "issuance_cycle_count", "crediting_period_years"}

BooleanFields == {"baseline_formula_present", "pe_applicable_flag", "le_applicable_flag"}

TonneFields ==
  {"pe_value_tco2e", "le_value_tco2e", "be_value_tco2e", "er_reported_tco2e",
   "er_recalculated_tco2e"}

EnergyFields == {"electricity_generated_mwh", "electricity_exported_mwh"}

NumberFields ==
  TonneFields \cup EnergyFields
    \cup {"installed_capacity_mw", "ef_value", "er_recalc_error_pct"}

\* TEXT_FIELDS and the fields whose name ends in _text.
TextFields ==
  {"project_id", "project_name", "country", "grid_connection_status", "technology_type",
   "renewable_resource_type", "ef_unit", "ef_source_reference", "data_frequency",
   "validator_name", "verifier_name", "methodology_name", "methodology_version",
   "version_change_note", "project_participant", "project_owner", "project_developer",
   "project_operator", "project_boundary_text", "baseline_scenario_text", "pe_method_text",
   "le_justification_text", "qa_qc_procedure_text", "data_gap_procedure_text"}

\* The fields whose business type is still to be defined.
OpenFields ==
  {"baseline_assumptions_table", "meter_calibration_status", "additionality_tool_used",
   "investment_analysis_result", "barrier_analysis_result", "common_practice_result",
   "monitoring_parameters_listed"}

FieldName ==
  DateFields \cup IntegerFields \cup BooleanFields \cup NumberFields \cup TextFields
    \cup OpenFields

\* EXPECTED_UNITS; None where any unit will do.
ExpectedUnit(field) ==
  CASE field \in TonneFields              -> "tCO2e"
    [] field \in EnergyFields             -> "MWh"
    [] field = "installed_capacity_mw"    -> "MW"
    [] OTHER                              -> None

Text(form, n) == [type |-> "str", form |-> form, of |-> n]
Whole(n)      == [type |-> "int", form |-> "number", of |-> n]
Bool(n)       == [type |-> "bool", form |-> "number", of |-> n]

Acm0002 == Text("other", 2)

EvidenceCodes ==
  {"evidence_version_invalid", "evidence_page_invalid", "evidence_quote_missing",
   "evidence_offsets_missing", "evidence_offsets_invalid"}

\* A candidate has a value and evidence; an abstention has a reason and no value.
IsObservation(o) ==
  /\ o.field \in FieldName
  /\ o.evidence \subseteq EvidenceCodes \cup {"exact"}
  /\ o.confidence \in {"unknown", "low", "high"}
  /\ \/ o.missing = None /\ o.value # None /\ o.evidence # {}
     \/ o.missing \in {"not_found", "unsupported_by_baseline", "ambiguous"} /\ o.value = None

-----------------------------------------------------------------------------
(* validate_extraction *)

IsText(field) == field \in DateFields \cup TextFields

ValidType(field, v) ==
  CASE field \in BooleanFields -> v.type = "bool"
    [] field \in IntegerFields -> v.type = "int"
    [] field \in NumberFields  -> v.type \in {"int", "float"}
    [] IsText(field)           -> v.type = "str" /\ v.form # "blank"
    [] OTHER                   -> TRUE

\* Bug: a candidate's unit does not count.
SignatureWithoutUnit(o) == <<o.value, None>>

\* What makes two candidates of a field different.
Signature(o) == <<o.value, o.unit>>

\* The different candidates of a field; os is the set of all observations.
Rivals(field, os) ==
  {Signature(o) : o \in {p \in os : p.field = field /\ p.missing = None}}

\* Bug: two candidates are a conflict, three are not.
ConflictOfTwo(field, os) ==
  \E a, b \in Rivals(field, os) : a # b /\ Rivals(field, os) = {a, b}

Conflict(field, os) == \E a, b \in Rivals(field, os) : a # b

If(condition, code) == IF condition THEN {code} ELSE {}

OutOfRange(field, v) ==
  \/ field \in IntegerFields /\ v.of < 0
  \/ field = "installed_capacity_mw" /\ v.of <= 0

ValueIssues(field, v) ==
  IF ~ValidType(field, v)
  THEN {"field_type_invalid"}
  ELSE IF field \in IntegerFields \cup NumberFields
  THEN If(OutOfRange(field, v), "numeric_range_invalid")
         \cup If(~OutOfRange(field, v) /\ v.of < 0, "negative_value_requires_domain_rule")
  ELSE IF field \in DateFields
  THEN If(v.form = "other", "date_format_unresolved")
         \cup If(v.form = "impossible", "date_calendar_invalid")
  ELSE {}

\* Bug: a candidate of high confidence needs no semantic review.
CandidateIssuesTrusting(o, os) ==
  If(o.field \in OpenFields, "field_contract_pending")
    \cup ValueIssues(o.field, o.value)
    \cup If(ExpectedUnit(o.field) # None /\ o.unit # ExpectedUnit(o.field), "unit_unverified")
    \cup If(o.confidence = "unknown", "confidence_unknown")
    \cup If(o.confidence = "low", "confidence_below_threshold")
    \cup If(Conflict(o.field, os), "candidate_conflict")
    \cup If(o.confidence # "high", "semantic_support_pending")

\* The issues of a candidate apart from its evidence.
CandidateIssues(o, os) ==
  If(o.field \in OpenFields, "field_contract_pending")
    \cup ValueIssues(o.field, o.value)
    \cup If(ExpectedUnit(o.field) # None /\ o.unit # ExpectedUnit(o.field), "unit_unverified")
    \cup If(o.confidence = "unknown", "confidence_unknown")
    \cup If(o.confidence = "low", "confidence_below_threshold")
    \cup If(Conflict(o.field, os), "candidate_conflict")
    \cup {"semantic_support_pending"}

\* The codes validate_extraction reports for observation o among os.
Issues(o, os) ==
  (o.evidence \ {"exact"})
    \cup (IF o.missing = None
          THEN CandidateIssues(o, os)
          ELSE If(o.missing = "ambiguous", "ambiguous_abstention"))

ErrorCodes ==
  (EvidenceCodes \ {"evidence_offsets_missing"})
    \cup {"field_type_invalid", "numeric_range_invalid", "date_calendar_invalid"}

Status(codes) ==
  IF codes \cap ErrorCodes # {} THEN "rejected"
  ELSE IF codes # {} THEN "needs_review" ELSE "missing"

-----------------------------------------------------------------------------
(* The urgency of a candidate: _priority of review_queue.py. *)

CriticalCodes ==
  {"candidate_conflict", "evidence_page_invalid", "evidence_quote_missing",
   "evidence_version_invalid", "evidence_offsets_invalid", "field_type_invalid",
   "numeric_range_invalid"}

\* The codes that start with one of _HIGH_PREFIXES.
HighCodes ==
  {"date_format_unresolved", "date_calendar_invalid", "evidence_offsets_missing",
   "evidence_offsets_invalid", "numeric_range_invalid", "unit_unverified",
   "field_type_invalid"}

NormalCodes ==
  {"confidence_below_threshold", "confidence_unknown", "field_contract_pending",
   "semantic_support_pending", "ambiguous_abstention"}

Priority(status, codes) ==
  IF status \in {"rejected", "missing"} \/ codes \cap CriticalCodes # {} THEN 100
  ELSE IF codes \cap HighCodes # {} THEN 70
  ELSE IF codes \cap NormalCodes # {} THEN 40
  ELSE 20

-----------------------------------------------------------------------------
(* The check decide() makes of the value a reviewer approves. *)

\* Bug: the reviewer's word is taken for the unit as well.
AllowedWithUnit ==
  {"semantic_support_pending", "confidence_unknown", "confidence_below_threshold",
   "unit_unverified"}

Allowed == {"semantic_support_pending", "confidence_unknown", "confidence_below_threshold"}

\* The value is checked by itself, without its rivals.
Approvable(o) == o.missing = None /\ Issues(o, {o}) \subseteq Allowed
=============================================================================
