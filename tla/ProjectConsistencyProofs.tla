---------------------- MODULE ProjectConsistencyProofs ----------------------
(***************************************************************************)
(* Proofs about the rules, for any runs and any observations.              *)
(*                                                                         *)
(* All of them rest on one fact: an observation that is added to a run     *)
(* changes what is said of the others by candidate_conflict and nothing    *)
(* else (OnlyConflictGrows).  So no candidate is ever rejected by it, the  *)
(* candidates that take part in a comparison only become more, and where   *)
(* they agreed and agree no more, all of them are contested.               *)
(***************************************************************************)
EXTENDS ProjectConsistency, FiniteSetTheorems, TLAPS

-----------------------------------------------------------------------------
(* What the rules of one candidate do *)

\* More observations, more rivals (extraction.py:93-98).
LEMMA MoreRivals ==
  ASSUME NEW field, NEW os, NEW more, os \subseteq more
  PROVE  /\ Rivals(field, os) \subseteq Rivals(field, more)
         /\ Conflict(field, os) => Conflict(field, more)
<1>1. Rivals(field, os) \subseteq Rivals(field, more)
  BY DEF Rivals
<1> QED
  BY <1>1 DEF Conflict

\* Of the codes of a candidate only candidate_conflict depends on the others.
LEMMA OnlyConflictGrows ==
  ASSUME NEW o, NEW os, NEW more, os \subseteq more
  PROVE  /\ Issues(o, os) \subseteq Issues(o, more)
         /\ Issues(o, more) \subseteq Issues(o, os) \cup {"candidate_conflict"}
<1>1. Conflict(o.field, os) => Conflict(o.field, more)
  BY MoreRivals
<1>2. /\ CandidateIssues(o, os) \subseteq CandidateIssues(o, more)
      /\ CandidateIssues(o, more) \subseteq CandidateIssues(o, os) \cup {"candidate_conflict"}
  BY <1>1 DEF CandidateIssues, If
<1> QED
  BY <1>2 DEF Issues

\* Every candidate is left to human semantic review (extraction.py:193).
LEMMA CandidateIsPending ==
  ASSUME NEW o, NEW os, o.missing = None
  PROVE  /\ "semantic_support_pending" \in Issues(o, os)
         /\ Status(Issues(o, os)) \in {"rejected", "needs_review"}
         /\ Conflict(o.field, os) => "candidate_conflict" \in Issues(o, os)
<1>1. "semantic_support_pending" \in CandidateIssues(o, os)
  BY DEF CandidateIssues
<1>2. Conflict(o.field, os) => "candidate_conflict" \in CandidateIssues(o, os)
  BY DEF CandidateIssues, If
<1>3. CandidateIssues(o, os) \subseteq Issues(o, os)
  BY DEF Issues
<1>4. Issues(o, os) # {}
  BY <1>1, <1>3
<1> QED
  BY <1>1, <1>2, <1>3, <1>4 DEF Status

\* No observation gets another one rejected.
LEMMA RejectionStays ==
  ASSUME NEW o, NEW os, NEW more, os \subseteq more
  PROVE  Status(Issues(o, more)) = "rejected" <=> Status(Issues(o, os)) = "rejected"
<1>1. "candidate_conflict" \notin ErrorCodes
  BY DEF ErrorCodes, EvidenceCodes
<1>2. Issues(o, more) \cap ErrorCodes = Issues(o, os) \cap ErrorCodes
  BY <1>1, OnlyConflictGrows
<1> QED
  BY <1>2 DEF Status

-----------------------------------------------------------------------------
(* Counting.  unique() and the comparison of reports count different things, *)
(* of which there are finitely many.                                         *)

LEMMA CountsMoreThanOne ==
  ASSUME NEW S, IsFiniteSet(S)
  PROVE  Cardinality(S) > 1 <=> \E a, b \in S : a # b
<1>1. Cardinality(S) \in Nat
  BY FS_CardinalityType
<1>2. Cardinality(S) = 0 <=> S = {}
  BY FS_EmptySet
<1>3. Cardinality(S) = 1 <=> \E a : S = {a}
  BY FS_Singleton
<1>4. CASE S = {}
  BY <1>1, <1>2, <1>4
<1>5. ASSUME NEW a \in S, \A b \in S : a = b
      PROVE  Cardinality(S) = 1
  <2>1. S = {a}
    BY <1>5
  <2> QED
    BY <1>3, <2>1
<1>6. ASSUME NEW a \in S, NEW b \in S, a # b
      PROVE  Cardinality(S) > 1
  <2>1. S # {} /\ ~\E c : S = {c}
    BY <1>6
  <2>2. Cardinality(S) # 0 /\ Cardinality(S) # 1
    BY <1>2, <1>3, <2>1, Zenon
  <2> QED
    BY <1>1, <2>2
<1> QED
  BY <1>1, <1>4, <1>5, <1>6

\* Every run has finitely many observations, and finitely many runs have any.
Finite ==
  /\ IsFiniteSet(Inputs)
  /\ \A r \in Runs : IsFiniteSet(extraction[r])

IInv == TypeOK /\ Finite

LEMMA InitIInv == Init => IInv
<1> SUFFICES ASSUME Init PROVE IInv
  OBVIOUS
<1>1. Inputs = {} /\ \A r \in Runs : extraction[r] = {}
  BY DEF Init, Inputs
<1> QED
  BY <1>1, FS_EmptySet DEF Init, IInv, TypeOK, Finite

\* One run has one observation more.
Extended(r, o) ==
  /\ extraction'[r] = extraction[r] \cup {o}
  /\ \A q \in Runs \ {r} : extraction'[q] = extraction[q]

LEMMA ObserveExtends ==
  ASSUME IInv, NEW r \in Runs, NEW o \in Observations, Observe(r, o)
  PROVE  Extended(r, o)
BY DEF Observe, Extended, IInv, TypeOK

LEMMA NextKeepsIInv ==
  ASSUME IInv, [Next]_extraction
  PROVE  IInv'
<1>1. CASE UNCHANGED extraction
  BY <1>1 DEF IInv, TypeOK, Finite, Inputs
<1>2. ASSUME NEW r \in Runs, NEW o \in Observations, Observe(r, o)
      PROVE  IInv'
  <2>1. Extended(r, o)
    BY <1>2, ObserveExtends
  <2>2. TypeOK'
    BY <1>2 DEF Observe, IInv, TypeOK
  <2>3. Inputs' = Inputs \cup {r}
    BY <2>1 DEF Inputs, Extended
  <2>4. IsFiniteSet(Inputs')
    BY <2>3, FS_AddElement DEF IInv, Finite
  <2>5. ASSUME NEW q \in Runs PROVE IsFiniteSet(extraction'[q])
    BY <2>1, FS_AddElement DEF Extended, IInv, Finite
  <2> QED
    BY <2>2, <2>4, <2>5 DEF IInv, Finite
<1> QED
  BY <1>1, <1>2 DEF Next

LEMMA Inductive == Spec => []IInv
BY InitIInv, NextKeepsIInv, PTL DEF Spec

\* What a comparison counts is finite.
LEMMA FiniteSignatures ==
  ASSUME IInv, NEW r \in Runs, NEW field
  PROVE  IsFiniteSet(Signatures(r, field))
<1> DEFINE f == [o \in Active(r, field) |-> Signature(o)]
<1>1. IsFiniteSet(Active(r, field))
  <2>1. Active(r, field) \in SUBSET extraction[r]
    BY DEF Active
  <2> QED
    BY <2>1, FS_Subset DEF IInv, Finite
<1>2. f \in Surjection(Active(r, field), Signatures(r, field))
  BY DEF Surjection, Signatures
<1> QED
  BY <1>1, <1>2, FS_Surjection

LEMMA FiniteGroups ==
  ASSUME IInv, NEW field
  PROVE  IsFiniteSet({Signatures(r, field) : r \in Groups(field)})
<1> DEFINE S == {Signatures(r, field) : r \in Groups(field)}
           f == [r \in Groups(field) |-> Signatures(r, field)]
<1>1. IsFiniteSet(Groups(field))
  <2>1. Groups(field) \in SUBSET Inputs
    BY DEF Groups
  <2> QED
    BY <2>1, FS_Subset DEF IInv, Finite
<1>2. f \in Surjection(Groups(field), S)
  BY DEF Surjection
<1> QED
  BY <1>1, <1>2, FS_Surjection

-----------------------------------------------------------------------------
(* One more observation *)

\* What is on record stays, and is contested if it was.
LEMMA ObservedStays ==
  ASSUME IInv, NEW r \in Runs, NEW o \in Observations, Extended(r, o)
  PROVE  \A q \in Runs :
           /\ extraction[q] \subseteq extraction'[q]
           /\ \A x : Contested(<<q, x>>) => Contested(<<q, x>>)'
<1> SUFFICES ASSUME NEW q \in Runs
             PROVE  /\ extraction[q] \subseteq extraction'[q]
                    /\ \A x : Contested(<<q, x>>) => Contested(<<q, x>>)'
  OBVIOUS
<1>1. extraction[q] \subseteq extraction'[q]
  BY DEF Extended
<1>2. \A x : Issues(x, extraction[q]) \subseteq Issues(x, extraction'[q])
  BY <1>1, OnlyConflictGrows
<1> QED
  BY <1>1, <1>2 DEF Contested, Codes

\* The candidates that take part in the comparison only become more.
LEMMA ActiveGrows ==
  ASSUME IInv, NEW r \in Runs, NEW o \in Observations, Extended(r, o),
         NEW q \in Runs, NEW field
  PROVE  /\ Active(q, field) \subseteq Active(q, field)'
         /\ Signatures(q, field) \subseteq Signatures(q, field)'
<1>1. extraction[q] \subseteq extraction'[q]
  BY ObservedStays
<1>2. \A x : Status(Issues(x, extraction'[q])) = "rejected"
               <=> Status(Issues(x, extraction[q])) = "rejected"
  BY <1>1, RejectionStays
<1>3. Active(q, field) \subseteq Active(q, field)'
  BY <1>1, <1>2 DEF Active, StatusAt, Codes
<1> QED
  BY <1>3 DEF Signatures

\* Nothing changes in the other runs.
LEMMA OthersStay ==
  ASSUME IInv, NEW r \in Runs, NEW o \in Observations, Extended(r, o),
         NEW q \in Runs \ {r}, NEW field
  PROVE  /\ Active(q, field)' = Active(q, field)
         /\ Signatures(q, field)' = Signatures(q, field)
<1>1. extraction'[q] = extraction[q]
  BY DEF Extended
<1> QED
  BY <1>1 DEF Active, Signatures, StatusAt, Codes

\* Rivals that take part in the comparison are contested, all of them.
RivalsContested ==
  \A r \in Runs : \A field : \A s, t \in Signatures(r, field) :
    s # t => \A x \in Active(r, field) : Contested(<<r, x>>)

LEMMA RivalsAreContested == RivalsContested
<1> SUFFICES ASSUME NEW r \in Runs, NEW field,
                    NEW s \in Signatures(r, field), NEW t \in Signatures(r, field), s # t,
                    NEW x \in Active(r, field)
             PROVE  Contested(<<r, x>>)
  BY DEF RivalsContested
<1>1. s \in Rivals(field, extraction[r]) /\ t \in Rivals(field, extraction[r])
  BY DEF Signatures, Active, Rivals
<1>2. Conflict(field, extraction[r])
  BY <1>1 DEF Conflict
<1>3. x.field = field /\ x.missing = None
  BY DEF Active
<1>4. "candidate_conflict" \in Issues(x, extraction[r])
  BY <1>2, <1>3, CandidateIsPending
<1> QED
  BY <1>4 DEF Contested, Codes

\* What it means that a run's candidates agree.
AgreeOnOne ==
  \A r \in Runs : \A field :
    /\ Agree(r, field) <=> \E s : Signatures(r, field) = {s}
    /\ Agree(r, field) => Active(r, field) # {} /\ Signatures(r, field) = {Agreed(r, field)}

LEMMA Agreement == IInv => AgreeOnOne
<1> SUFFICES ASSUME IInv, NEW r \in Runs, NEW field
             PROVE  /\ Agree(r, field) <=> \E s : Signatures(r, field) = {s}
                    /\ Agree(r, field) =>
                         /\ Active(r, field) # {}
                         /\ Signatures(r, field) = {Agreed(r, field)}
  BY DEF AgreeOnOne
<1>1. Agree(r, field) <=> \E s : Signatures(r, field) = {s}
  BY FiniteSignatures, FS_Singleton DEF Agree
<1>2. \A s : Signatures(r, field) = {s} => Agreed(r, field) = s
  BY DEF Agreed
<1>3. Active(r, field) = {} => Signatures(r, field) = {}
  BY DEF Signatures
<1> QED
  BY <1>1, <1>2, <1>3

\* Candidates that agreed agree still, on the same, or are contested.
LEMMA AgreementKept ==
  ASSUME IInv, IInv', NEW r \in Runs, NEW o \in Observations, Extended(r, o),
         NEW q \in Runs, NEW field, Agree(q, field)
  PROVE  \/ Agree(q, field)' /\ Agreed(q, field)' = Agreed(q, field)
         \/ \A x \in Active(q, field) : Contested(<<q, x>>)'
<1> DEFINE s == Agreed(q, field)
<1>1. Signatures(q, field) = {s}
  BY Agreement DEF AgreeOnOne
<1>2. /\ Active(q, field) \subseteq Active(q, field)'
      /\ s \in Signatures(q, field)'
  BY <1>1, ActiveGrows
<1>3. AgreeOnOne' /\ RivalsContested'
  BY Agreement, RivalsAreContested, PTL
<1> HIDE DEF s
<1>4. CASE Signatures(q, field)' = {s}
  BY <1>3, <1>4 DEF AgreeOnOne, s
<1>5. ASSUME NEW t \in Signatures(q, field)', t # s, NEW x \in Active(q, field)
      PROVE  Contested(<<q, x>>)'
  BY <1>2, <1>3, <1>5 DEF RivalsContested
<1> QED
  BY <1>2, <1>4, <1>5 DEF s

-----------------------------------------------------------------------------
(* What each rule reports *)

LEMMA IssueParts ==
  \A code, fields, links :
    /\ Issue(code, fields, links).code = code
    /\ Issue(code, fields, links).fields = fields
    /\ Issue(code, fields, links).links = links
BY DEF Issue

DateOf(r, start, end) ==
  Issue(DateCode(r, start, end), {start, end}, Links(r, {start, end}))

LEMMA DateIssue ==
  \A issue : issue \in DateIssues <=>
    \E r \in Inputs, pair \in DatePairs :
      /\ Links(r, {pair[1], pair[2]}) # {}
      /\ DateCode(r, pair[1], pair[2]) # "none"
      /\ issue = DateOf(r, pair[1], pair[2])
<1> DEFINE Of(r, pair) ==
      IF \/ Links(r, {pair[1], pair[2]}) = {}
         \/ DateCode(r, pair[1], pair[2]) = "none"
      THEN {} ELSE {DateOf(r, pair[1], pair[2])}
<1>1. DateIssues = UNION {Of(r, pair) : r \in Inputs, pair \in DatePairs}
  BY DEF DateIssues, DateOf
<1> HIDE DEF Of
<1>2. \A issue : issue \in DateIssues <=>
        \E r \in Inputs, pair \in DatePairs : issue \in Of(r, pair)
  BY <1>1
<1> QED
  BY <1>2 DEF Of

ApplicabilityFlags == {"pe_applicable_flag", "le_applicable_flag"}

ApplicabilityValues == {"pe_value_tco2e", "le_value_tco2e"}

\* A flag says that the value of its pair is not applicable, and the value is not 0.
ApplicabilityDiffers(r, flag, value) ==
  /\ (flag = "pe_applicable_flag") = (value = "pe_value_tco2e")
  /\ Agree(r, flag) /\ Agree(r, value)
  /\ Value(r, flag) = Bool(0)
  /\ Value(r, value).type \in {"int", "float"}
  /\ Value(r, value).of # 0

ApplicabilityOf(r, flag, value) ==
  Issue("applicability_value_difference", {flag, value}, Links(r, {flag, value}))

LEMMA ApplicabilityIssue ==
  \A issue : issue \in ApplicabilityIssues <=>
    \E r \in Inputs, flag \in ApplicabilityFlags, value \in ApplicabilityValues :
      ApplicabilityDiffers(r, flag, value) /\ issue = ApplicabilityOf(r, flag, value)
<1> DEFINE Differing == {p \in Inputs \X ApplicabilityFlags \X ApplicabilityValues :
                           ApplicabilityDiffers(p[1], p[2], p[3])}
<1>1. ApplicabilityIssues = {ApplicabilityOf(p[1], p[2], p[3]) : p \in Differing}
  BY DEF ApplicabilityIssues, ApplicabilityDiffers, ApplicabilityOf, ApplicabilityFlags,
         ApplicabilityValues
<1>2. ASSUME NEW p \in Differing
      PROVE  /\ p[1] \in Inputs /\ p[2] \in ApplicabilityFlags /\ p[3] \in ApplicabilityValues
             /\ ApplicabilityDiffers(p[1], p[2], p[3])
  OBVIOUS
<1>3. ASSUME NEW r \in Inputs, NEW flag \in ApplicabilityFlags, NEW value \in ApplicabilityValues,
             ApplicabilityDiffers(r, flag, value)
      PROVE  ApplicabilityOf(r, flag, value) \in ApplicabilityIssues
  <2> DEFINE p == <<r, flag, value>>
  <2>1. p \in Differing /\ p[1] = r /\ p[2] = flag /\ p[3] = value
    BY <1>3
  <2> HIDE DEF p, Differing
  <2> QED
    BY <1>1, <2>1
<1> HIDE DEF Differing
<1>4. ASSUME NEW issue \in ApplicabilityIssues
      PROVE  \E r \in Inputs, flag \in ApplicabilityFlags, value \in ApplicabilityValues :
               ApplicabilityDiffers(r, flag, value) /\ issue = ApplicabilityOf(r, flag, value)
  BY <1>1, <1>2
<1> QED
  BY <1>3, <1>4

EnergyOf(r) == Issue("energy_unit_difference", EnergyFields, Links(r, EnergyFields))

LEMMA EnergyIssue ==
  \A issue : issue \in EnergyIssues <=>
    \E r \in Inputs :
      /\ \A f \in EnergyFields : Agree(r, f)
      /\ Cardinality({Unit(r, f) : f \in EnergyFields}) > 1
      /\ issue = EnergyOf(r)
BY DEF EnergyIssues, EnergyOf

\* The candidates for the methodology's name.
MethodologyRows == UNION {Links(r, {"methodology_name"}) : r \in Inputs}

LEMMA MethodologyIssue ==
  \A issue : issue \in MethodologyIssues <=>
    /\ MethodologyRows = {} \/ \E row \in MethodologyRows : row[2].value # Acm0002
    /\ issue = Issue("methodology_scope_unconfirmed", {"methodology_name"}, MethodologyRows)
BY DEF MethodologyIssues, MethodologyRows

\* The candidates of a field that are compared across the reports.
Compared(field) == UNION {Links(r, {field}) : r \in Groups(field)}

DifferenceOf(field) == Issue(DifferenceCode(field), {field}, Compared(field))

LEMMA DifferenceIssue ==
  ASSUME IInv
  PROVE  \A issue : issue \in DifferenceIssues <=>
           \E field \in ProjectLevelFields :
             /\ \E q, r \in Groups(field) : Signatures(q, field) # Signatures(r, field)
             /\ issue = DifferenceOf(field)
<1> DEFINE Kinds(field) == {Signatures(r, field) : r \in Groups(field)}
<1>1. ASSUME NEW field
      PROVE  Cardinality(Kinds(field)) > 1
               <=> \E q, r \in Groups(field) : Signatures(q, field) # Signatures(r, field)
  <2>1. IsFiniteSet(Kinds(field))
    BY FiniteGroups
  <2> HIDE DEF Kinds
  <2>2. Cardinality(Kinds(field)) > 1 <=> \E a, b \in Kinds(field) : a # b
    BY <2>1, CountsMoreThanOne
  <2> QED
    BY <2>2 DEF Kinds
<1>2. DifferenceIssues =
        {DifferenceOf(field) : field \in {f \in ProjectLevelFields : Cardinality(Kinds(f)) > 1}}
  BY DEF DifferenceIssues, DifferenceOf, Compared
<1> HIDE DEF Kinds
<1> QED
  BY <1>1, <1>2

\* A row that is linked is a candidate that takes part in the comparison.
LEMMA Linked ==
  \A r, fields, row : row \in Links(r, fields) <=>
    \E field \in fields : \E o \in Active(r, field) : row = <<r, o>>
BY DEF Links

\* The links of every issue are those of its fields in one report or in several.
LEMMA IssueLinks ==
  ASSUME IInv, NEW issue \in Report, NEW row \in issue.links
  PROVE  \E r \in Inputs : row \in Links(r, issue.fields)
<1>1. CASE issue \in DateIssues
  <2>1. PICK r \in Inputs, pair \in DatePairs : issue = DateOf(r, pair[1], pair[2])
    BY <1>1, DateIssue
  <2> QED
    BY <2>1, IssueParts DEF DateOf
<1>2. CASE issue \in ApplicabilityIssues
  <2>1. PICK r \in Inputs, flag \in ApplicabilityFlags, value \in ApplicabilityValues :
          issue = ApplicabilityOf(r, flag, value)
    BY <1>2, ApplicabilityIssue
  <2> QED
    BY <2>1, IssueParts DEF ApplicabilityOf
<1>3. CASE issue \in EnergyIssues
  <2>1. PICK r \in Inputs : issue = EnergyOf(r)
    BY <1>3, EnergyIssue
  <2> QED
    BY <2>1, IssueParts DEF EnergyOf
<1>4. CASE issue \in MethodologyIssues
  <2>1. issue.fields = {"methodology_name"} /\ issue.links = MethodologyRows
    BY <1>4, MethodologyIssue, IssueParts
  <2> QED
    BY <2>1 DEF MethodologyRows
<1>5. CASE issue \in DifferenceIssues
  <2>1. PICK field : issue = DifferenceOf(field)
    BY <1>5, DifferenceIssue
  <2>2. issue.fields = {field} /\ issue.links = Compared(field)
    BY <2>1, IssueParts DEF DifferenceOf
  <2> QED
    BY <2>2 DEF Compared, Groups
<1> QED
  BY <1>1, <1>2, <1>3, <1>4, <1>5 DEF Report

-----------------------------------------------------------------------------
(* What the reports of one input say *)

LEMMA LinkIsValid ==
  ASSUME NEW r \in Inputs, NEW fields, NEW row \in Links(r, fields)
  PROVE  /\ row \in Observed
         /\ row[2].field \in fields
         /\ StatusAt(row[1], row[2]) = "needs_review"
<1> PICK field \in fields : \E o \in Active(r, field) : row = <<r, o>>
  BY Linked
<1> PICK o \in Active(r, field) : row = <<r, o>>
  OBVIOUS
<1>1. o \in extraction[r] /\ o.field = field /\ o.missing = None /\ StatusAt(r, o) # "rejected"
  BY DEF Active
<1>2. StatusAt(r, o) = "needs_review"
  BY <1>1, CandidateIsPending DEF StatusAt, Codes
<1> QED
  BY <1>1, <1>2 DEF Observed, Inputs

\* Only an abstention is reported missing: a candidate always has a code.
LEMMA CandidateIsNotMissing ==
  ASSUME NEW row, StatusAt(row[1], row[2]) = "missing"
  PROVE  row[2].missing # None
BY CandidateIsPending DEF StatusAt, Codes

\* The rules build only reports that the domain models admit
\* (domain/validation.py:25-32, domain/consistency.py:48-63).
THEOREM ValidReports == Spec => []ReportsAreValid
<1>1. IInv => ReportsAreValid
  <2> SUFFICES ASSUME IInv, NEW issue \in Report, NEW row \in issue.links
               PROVE  /\ row \in Observed
                      /\ row[2].field \in issue.fields
                      /\ StatusAt(row[1], row[2]) = "needs_review"
    BY CandidateIsNotMissing DEF IInv, ReportsAreValid
  <2>1. PICK r \in Inputs : row \in Links(r, issue.fields)
    BY IssueLinks
  <2> QED
    BY <2>1, LinkIsValid
<1> QED
  BY <1>1, Inductive, PTL

\* A candidate that stands alone as it would be approved has no urgent code, and
\* among others it has none but candidate_conflict.
LEMMA ApprovableCodes ==
  ASSUME NEW o, NEW os, o \in os, Approvable(o)
  PROVE  /\ Issues(o, os) \subseteq Allowed \cup {"candidate_conflict"}
         /\ "semantic_support_pending" \in Issues(o, os)
<1>1. Issues(o, os) \subseteq Issues(o, {o}) \cup {"candidate_conflict"}
  BY OnlyConflictGrows
<1> QED
  BY <1>1, CandidateIsPending DEF Approvable

\* For every list of observations: an approval of a candidate as it stands gets past
\* no code but candidate_conflict, the one that shows among its rivals only
\* (review_repository.py:109-118, review_queue.py:46-71).
THEOREM ApprovalEscapes == Spec => []OnlyConflictEscapes
<1>1. OnlyConflictEscapes
  <2> SUFFICES ASSUME NEW row \in Observed, Approvable(row[2])
               PROVE  /\ StatusAt(row[1], row[2]) = "needs_review"
                      /\ Codes(row[1], row[2]) \ NormalCodes \subseteq {"candidate_conflict"}
                      /\ PriorityAt(row) = IF Contested(row) THEN 100 ELSE 40
    BY DEF OnlyConflictEscapes
  <2> DEFINE codes == Codes(row[1], row[2])
  <2>1. row[2] \in extraction[row[1]]
    BY DEF Observed
  <2>2. /\ codes \subseteq Allowed \cup {"candidate_conflict"}
        /\ "semantic_support_pending" \in codes
    BY <2>1, ApprovableCodes DEF Codes
  <2>3. Contested(row) <=> "candidate_conflict" \in codes
    BY DEF Contested
  <2> HIDE DEF codes
  <2>4. codes \cap ErrorCodes = {} /\ codes # {}
    BY <2>2 DEF Allowed, ErrorCodes, EvidenceCodes
  <2>5. Status(codes) = "needs_review"
    BY <2>4 DEF Status
  <2>6. Priority("needs_review", codes) = IF Contested(row) THEN 100 ELSE 40
    <3>1. codes \cap CriticalCodes # {} <=> Contested(row)
      BY <2>2, <2>3 DEF Allowed, CriticalCodes
    <3>2. codes \cap HighCodes = {} /\ codes \cap NormalCodes # {}
      BY <2>2 DEF Allowed, HighCodes, NormalCodes
    <3> QED
      BY <3>1, <3>2 DEF Priority
  <2>7. codes \ NormalCodes \subseteq {"candidate_conflict"}
    BY <2>2 DEF Allowed, NormalCodes
  <2> QED
    BY <2>5, <2>6, <2>7 DEF codes, StatusAt, PriorityAt
<1> QED
  BY <1>1, PTL

\* More codes of the one kind that can be added are no less urgent.
LEMMA MoreUrgent ==
  ASSUME NEW codes, NEW more, codes \subseteq more, more \subseteq codes \cup {"candidate_conflict"}
  PROVE  Priority(Status(more), more) >= Priority(Status(codes), codes)
<1>1. CASE more = codes
  BY <1>1 DEF Priority
<1>2. CASE "candidate_conflict" \in more
  <2>1. Priority(Status(more), more) = 100
    BY <1>2 DEF Priority, CriticalCodes
  <2>2. Priority(Status(codes), codes) \in {20, 40, 70, 100}
    BY DEF Priority
  <2> QED
    BY <2>1, <2>2
<1> QED
  BY <1>1, <1>2

\* One more observation never makes a candidate less urgent to review
\* (review_queue.py:46-71).
THEOREM UrgencyIsKept == Spec => UrgencyKept
<1>1. ASSUME IInv, [Next]_extraction
      PROVE  \A row \in Observed : PriorityAt(row)' >= PriorityAt(row)
  <2> SUFFICES ASSUME NEW row \in Observed
               PROVE  PriorityAt(row)' >= PriorityAt(row)
    OBVIOUS
  <2>1. row[1] \in Runs
    BY DEF Observed
  <2>2. extraction[row[1]] \subseteq extraction'[row[1]]
    BY <1>1, <2>1, ObserveExtends, ObservedStays DEF Next
  <2>3. /\ Codes(row[1], row[2]) \subseteq Codes(row[1], row[2])'
        /\ Codes(row[1], row[2])' \subseteq Codes(row[1], row[2]) \cup {"candidate_conflict"}
    BY <2>2, OnlyConflictGrows DEF Codes
  <2> QED
    BY <2>3, MoreUrgent DEF PriorityAt, StatusAt
<1> QED
  BY <1>1, Inductive, PTL DEF Spec, UrgencyKept

\* Two candidates for the same fact about the project that differ are linked by an
\* issue, or contested, both: where the reports do not differ from each other,
\* each holds both values (validation/extraction.py:93-98, consistency.py:162-192).
THEOREM DisagreementIsSurfaced == Spec => []DisagreementSurfaces
<1>1. IInv => DisagreementSurfaces
  <2> SUFFICES ASSUME IInv, NEW field \in ProjectLevelFields,
                      NEW a \in UNION {Links(r, {field}) : r \in Inputs},
                      NEW b \in UNION {Links(r, {field}) : r \in Inputs},
                      a[2].value # b[2].value \/ a[2].unit # b[2].unit
               PROVE  \/ \E issue \in Report : issue.fields = {field} /\ {a, b} \subseteq issue.links
                      \/ Contested(a) /\ Contested(b)
    BY Zenon DEF DisagreementSurfaces
  <2> PICK q \in Inputs : a \in Links(q, {field})
    OBVIOUS
  <2> PICK r \in Inputs : b \in Links(r, {field})
    OBVIOUS
  <2>1. PICK x \in Active(q, field) : a = <<q, x>>
    BY Linked
  <2>2. PICK y \in Active(r, field) : b = <<r, y>>
    BY Linked
  <2>3. Signature(x) # Signature(y)
    BY <2>1, <2>2 DEF Signature
  <2>4. Signature(x) \in Signatures(q, field) /\ Signature(y) \in Signatures(r, field)
    BY DEF Signatures
  <2>5. q \in Groups(field) /\ r \in Groups(field)
    BY <2>1, <2>2 DEF Groups
  <2>6. CASE Signatures(q, field) # Signatures(r, field)
    <3>1. DifferenceOf(field) \in Report
      BY <2>5, <2>6, DifferenceIssue DEF Report
    <3>2. /\ DifferenceOf(field).fields = {field}
          /\ DifferenceOf(field).links = Compared(field)
      BY IssueParts DEF DifferenceOf
    <3>3. {a, b} \subseteq Compared(field)
      BY <2>5 DEF Compared
    <3> QED
      BY <3>1, <3>2, <3>3
  <2>7. CASE Signatures(q, field) = Signatures(r, field)
    <3>1. q \in Runs /\ r \in Runs
      BY DEF Inputs
    <3> QED
      BY <2>1, <2>2, <2>3, <2>4, <2>7, <3>1, RivalsAreContested DEF RivalsContested
  <2> QED
    BY <2>6, <2>7
<1> QED
  BY <1>1, Inductive, PTL

-----------------------------------------------------------------------------
(* What one more observation does to the report *)

\* What the report contains.
Reporting ==
  /\ \A r \in Inputs, pair \in DatePairs :
       Links(r, {pair[1], pair[2]}) # {} /\ DateCode(r, pair[1], pair[2]) # "none" =>
         DateOf(r, pair[1], pair[2]) \in Report
  /\ \A r \in Inputs, flag \in ApplicabilityFlags, value \in ApplicabilityValues :
       ApplicabilityDiffers(r, flag, value) => ApplicabilityOf(r, flag, value) \in Report
  /\ \A r \in Inputs :
       /\ \A f \in EnergyFields : Agree(r, f)
       /\ Cardinality({Unit(r, f) : f \in EnergyFields}) > 1
       => EnergyOf(r) \in Report
  /\ (\E row \in MethodologyRows : row[2].value # Acm0002) =>
       Issue("methodology_scope_unconfirmed", {"methodology_name"}, MethodologyRows) \in Report
  /\ \A field \in ProjectLevelFields :
       (\E q, r \in Groups(field) : Signatures(q, field) # Signatures(r, field)) =>
         DifferenceOf(field) \in Report

LEMMA Reports == IInv => Reporting
BY DateIssue, ApplicabilityIssue, EnergyIssue, MethodologyIssue, DifferenceIssue
   DEF Reporting, Report

\* The rows that are linked only become more.
LEMMA LinksGrow ==
  ASSUME IInv, NEW r \in Runs, NEW o \in Observations, Extended(r, o)
  PROVE  /\ Inputs \subseteq Inputs'
         /\ \A q \in Runs : \A fields : Links(q, fields) \subseteq Links(q, fields)'
         /\ \A field : Groups(field) \subseteq Groups(field)'
<1>1. Inputs \subseteq Inputs'
  BY ObservedStays DEF Inputs
<1>2. ASSUME NEW q \in Runs, NEW fields
      PROVE  Links(q, fields) \subseteq Links(q, fields)'
  <2>1. \A field : Active(q, field) \subseteq Active(q, field)'
    BY ActiveGrows
  <2> QED
    BY <2>1 DEF Links
<1>3. ASSUME NEW field
      PROVE  Groups(field) \subseteq Groups(field)'
  <2>1. \A q \in Runs : Active(q, field) \subseteq Active(q, field)'
    BY ActiveGrows
  <2> QED
    BY <1>1, <2>1 DEF Groups, Inputs
<1> QED
  BY <1>1, <1>2, <1>3

\* An issue over more links for the same fields is reported, or a link is contested.
Traced(issue) ==
  \/ \E later \in Report' : later.fields = issue.fields /\ issue.links \subseteq later.links
  \/ \E row \in issue.links : Contested(row)'

\* A run that agreed on field does so still, on the same, or a linked row is contested.
LEMMA AgreedOrTraced ==
  ASSUME IInv, IInv', NEW r \in Runs, NEW o \in Observations, Extended(r, o),
         NEW q \in Inputs, NEW fields, NEW field \in fields, Agree(q, field),
         NEW issue, issue.links = Links(q, fields),
         ~Traced(issue)
  PROVE  Agree(q, field)' /\ Agreed(q, field)' = Agreed(q, field)
<1>1. q \in Runs
  BY DEF Inputs
<1>2. Active(q, field) # {}
  BY <1>1, Agreement DEF AgreeOnOne
<1>3. \A x \in Active(q, field) : <<q, x>> \in Links(q, fields)
  BY Linked
<1>4. ~\A x \in Active(q, field) : Contested(<<q, x>>)'
  BY <1>2, <1>3 DEF Traced
<1> QED
  BY <1>1, <1>4, AgreementKept

LEMMA EnergyTraced ==
  ASSUME IInv, IInv', NEW r \in Runs, NEW o \in Observations, Extended(r, o),
         NEW issue \in EnergyIssues
  PROVE  Traced(issue)
<1> SUFFICES ASSUME ~Traced(issue) PROVE FALSE
  OBVIOUS
<1>1. PICK q \in Inputs : /\ \A f \in EnergyFields : Agree(q, f)
                          /\ Cardinality({Unit(q, f) : f \in EnergyFields}) > 1
                          /\ issue = EnergyOf(q)
  BY EnergyIssue
<1>2. issue.fields = EnergyFields /\ issue.links = Links(q, EnergyFields)
  BY <1>1, IssueParts DEF EnergyOf
<1>3. \A f \in EnergyFields : Agree(q, f)' /\ Agreed(q, f)' = Agreed(q, f)
  BY <1>1, <1>2, AgreedOrTraced
<1>4. \A f \in EnergyFields : Unit(q, f)' = Unit(q, f)
  BY <1>3 DEF Unit
<1>5. {Unit(q, f) : f \in EnergyFields}' = {Unit(q, f) : f \in EnergyFields}
  BY <1>4
<1>6. Reporting'
  BY Reports, PTL
<1>7. q \in Inputs' /\ Links(q, EnergyFields) \subseteq Links(q, EnergyFields)'
  BY LinksGrow DEF Inputs
<1>8. EnergyOf(q)' \in Report'
  BY <1>1, <1>3, <1>5, <1>6, <1>7 DEF Reporting
<1>9. EnergyOf(q)'.fields = EnergyFields /\ EnergyOf(q)'.links = Links(q, EnergyFields)'
  BY IssueParts DEF EnergyOf
<1> QED
  BY <1>2, <1>7, <1>8, <1>9 DEF Traced

LEMMA ApplicabilityTraced ==
  ASSUME IInv, IInv', NEW r \in Runs, NEW o \in Observations, Extended(r, o),
         NEW issue \in ApplicabilityIssues
  PROVE  Traced(issue)
<1> SUFFICES ASSUME ~Traced(issue) PROVE FALSE
  OBVIOUS
<1>1. PICK q \in Inputs, flag \in ApplicabilityFlags, value \in ApplicabilityValues :
        ApplicabilityDiffers(q, flag, value) /\ issue = ApplicabilityOf(q, flag, value)
  BY ApplicabilityIssue
<1>2. issue.fields = {flag, value} /\ issue.links = Links(q, {flag, value})
  BY <1>1, IssueParts DEF ApplicabilityOf
<1>3. \A f \in {flag, value} : Agree(q, f)' /\ Agreed(q, f)' = Agreed(q, f)
  BY <1>1, <1>2, AgreedOrTraced DEF ApplicabilityDiffers
<1>4. ApplicabilityDiffers(q, flag, value)'
  BY <1>1, <1>3 DEF ApplicabilityDiffers, Value
<1>5. Reporting'
  BY Reports, PTL
<1>6. q \in Inputs' /\ Links(q, {flag, value}) \subseteq Links(q, {flag, value})'
  BY LinksGrow DEF Inputs
<1>7. ApplicabilityOf(q, flag, value)' \in Report'
  BY <1>4, <1>5, <1>6 DEF Reporting
<1>8. /\ ApplicabilityOf(q, flag, value)'.fields = {flag, value}
      /\ ApplicabilityOf(q, flag, value)'.links = Links(q, {flag, value})'
  BY IssueParts DEF ApplicabilityOf
<1> QED
  BY <1>2, <1>6, <1>7, <1>8 DEF Traced

LEMMA DateTraced ==
  ASSUME IInv, IInv', NEW r \in Runs, NEW o \in Observations, Extended(r, o),
         NEW issue \in DateIssues, ~Incomplete(issue)
  PROVE  Traced(issue)
<1> SUFFICES ASSUME ~Traced(issue) PROVE FALSE
  OBVIOUS
<1>1. PICK q \in Inputs, pair \in DatePairs :
        /\ Links(q, {pair[1], pair[2]}) # {}
        /\ DateCode(q, pair[1], pair[2]) # "none"
        /\ issue = DateOf(q, pair[1], pair[2])
  BY DateIssue
<1> DEFINE start == pair[1]
           end   == pair[2]
<1>2. /\ issue.code = DateCode(q, start, end)
      /\ issue.fields = {start, end}
      /\ issue.links = Links(q, {start, end})
  BY <1>1, IssueParts DEF DateOf
<1>3. Reporting'
  BY Reports, PTL
<1>4. q \in Runs /\ q \in Inputs' /\ Links(q, {start, end}) \subseteq Links(q, {start, end})'
  BY LinksGrow DEF Inputs
<1>5. /\ DateOf(q, start, end)'.fields = {start, end}
      /\ DateOf(q, start, end)'.links = Links(q, {start, end})'
  BY IssueParts DEF DateOf
<1>6. DateCode(q, start, end)' = "none"
  <2>1. DateOf(q, start, end)' \notin Report'
    BY <1>2, <1>4, <1>5 DEF Traced
  <2> QED
    BY <1>1, <1>3, <1>4, <2>1 DEF Reporting
<1>7. CASE Agree(q, start) /\ Agree(q, end)
  <2>1. \A f \in {start, end} : Agree(q, f)' /\ Agreed(q, f)' = Agreed(q, f)
    BY <1>2, <1>7, AgreedOrTraced
  <2>2. Value(q, start)' = Value(q, start) /\ Value(q, end)' = Value(q, end)
    BY <2>1 DEF Value
  <2>3. DateCode(q, start, end)' = DateCode(q, start, end)
    BY <1>7, <2>1, <2>2 DEF DateCode
  <2> QED
    BY <1>1, <1>6, <2>3
<1>8. CASE ~(Agree(q, start) /\ Agree(q, end))
  <2>1. PICK row \in issue.links : Contested(row)
    BY <1>2, <1>8 DEF DateCode, Incomplete
  <2>2. PICK x : row = <<q, x>>
    BY <1>2, Linked
  <2>3. Contested(row)'
    BY <1>4, <2>1, <2>2, ObservedStays
  <2> QED
    BY <2>1, <2>3 DEF Traced
<1> QED
  BY <1>7, <1>8

LEMMA MethodologyTraced ==
  ASSUME IInv, IInv', NEW r \in Runs, NEW o \in Observations, Extended(r, o),
         NEW issue \in MethodologyIssues, ~Incomplete(issue)
  PROVE  Traced(issue)
<1>1. issue.fields = {"methodology_name"} /\ issue.links = MethodologyRows
  BY MethodologyIssue, IssueParts
<1>2. PICK row \in MethodologyRows : row[2].value # Acm0002
  BY <1>1, MethodologyIssue DEF Incomplete
<1>3. MethodologyRows \subseteq MethodologyRows'
  BY LinksGrow DEF MethodologyRows, Inputs
<1>4. Reporting'
  BY Reports, PTL
<1> DEFINE later == Issue("methodology_scope_unconfirmed", {"methodology_name"}, MethodologyRows')
<1>5. later \in Report'
  BY <1>2, <1>3, <1>4 DEF Reporting
<1>6. later.fields = {"methodology_name"} /\ later.links = MethodologyRows'
  BY IssueParts
<1> HIDE DEF later
<1> QED
  BY <1>1, <1>3, <1>5, <1>6 DEF Traced

LEMMA DifferenceTraced ==
  ASSUME IInv, IInv', NEW r \in Runs, NEW o \in Observations, Extended(r, o),
         NEW issue \in DifferenceIssues
  PROVE  Traced(issue)
<1>1. PICK field \in ProjectLevelFields :
        /\ \E p, q \in Groups(field) : Signatures(p, field) # Signatures(q, field)
        /\ issue = DifferenceOf(field)
  BY DifferenceIssue
<1>2. issue.fields = {field} /\ issue.links = Compared(field)
  BY <1>1, IssueParts DEF DifferenceOf
<1>3. Reporting' /\ RivalsContested'
  BY Reports, RivalsAreContested, PTL
<1>4. Groups(field) \subseteq Groups(field)' /\ Groups(field) \subseteq Runs
  BY LinksGrow DEF Groups, Inputs
<1>5. Compared(field) \subseteq Compared(field)'
  <2>1. \A q \in Groups(field) : Links(q, {field}) \subseteq Links(q, {field})'
    BY <1>4, LinksGrow
  <2> QED
    BY <1>4, <2>1 DEF Compared
\* Where the signatures still differ, the issue is there again.
<1>6. ASSUME NEW p \in Groups(field), NEW q \in Groups(field),
             Signatures(p, field)' # Signatures(q, field)'
      PROVE  Traced(issue)
  <2>1. DifferenceOf(field)' \in Report'
    BY <1>3, <1>4, <1>6 DEF Reporting
  <2>2. DifferenceOf(field)'.fields = {field} /\ DifferenceOf(field)'.links = Compared(field)'
    BY IssueParts DEF DifferenceOf
  <2> QED
    BY <1>2, <1>5, <2>1, <2>2 DEF Traced
\* Where they do not, the run that was extended holds rivals.
<1>7. ASSUME NEW q \in Groups(field), Signatures(r, field) # Signatures(q, field),
             r \in Groups(field), Signatures(r, field)' = Signatures(q, field)'
      PROVE  Traced(issue)
  <2>1. Signatures(q, field)' = Signatures(q, field)
    BY <1>4, <1>7, OthersStay
  <2>2. Signatures(r, field) \subseteq Signatures(r, field)' /\ Active(r, field) \subseteq Active(r, field)'
    BY ActiveGrows
  <2>3. PICK x : x \in Active(r, field)
    BY <1>7 DEF Groups
  <2>4. Signature(x) \in Signatures(r, field)
    BY <2>3 DEF Signatures
  <2>5. PICK t \in Signatures(r, field)' : t \notin Signatures(r, field)
    BY <1>7, <2>1, <2>2
  <2>6. Contested(<<r, x>>)'
    BY <1>3, <2>2, <2>3, <2>4, <2>5 DEF RivalsContested
  <2>7. <<r, x>> \in issue.links
    BY <1>2, <1>7, <2>3, Linked DEF Compared
  <2> QED
    BY <2>6, <2>7 DEF Traced
<1>8. PICK p \in Groups(field), q \in Groups(field) : Signatures(p, field) # Signatures(q, field)
  BY <1>1
<1>9. CASE p # r /\ q # r
  <2>1. /\ Signatures(p, field)' = Signatures(p, field)
        /\ Signatures(q, field)' = Signatures(q, field)
    BY <1>4, <1>9, OthersStay
  <2> QED
    BY <1>6, <1>8, <2>1
<1> QED
  BY <1>6, <1>7, <1>8, <1>9

\* One more observation never makes a finding disappear without a trace: where the
\* comparison gives up, it is because rivals have become contested
\* (consistency.py:78-82, validation/extraction.py:93-98).
THEOREM NothingIsSilenced == Spec => NothingSilenced
<1>1. ASSUME IInv, IInv', [Next]_extraction
      PROVE  TraceLeft \/ UNCHANGED extraction
  <2>1. ASSUME NEW r \in Runs, NEW o \in Observations, Observe(r, o),
               NEW issue \in Report, ~Incomplete(issue)
        PROVE  Traced(issue)
    <3>1. Extended(r, o)
      BY <1>1, <2>1, ObserveExtends
    <3> QED
      BY <1>1, <2>1, <3>1, DateTraced, ApplicabilityTraced, EnergyTraced, MethodologyTraced,
         DifferenceTraced DEF Report
  <2>2. ASSUME Next, NEW issue \in Report, ~Incomplete(issue)
        PROVE  Traced(issue)
    BY <2>1, <2>2 DEF Next
  <2>3. Next => TraceLeft
    BY <2>2 DEF TraceLeft, Traced
  <2> QED
    BY <1>1, <2>3
<1> QED
  BY <1>1, Inductive, PTL DEF Spec, NothingSilenced
=============================================================================
