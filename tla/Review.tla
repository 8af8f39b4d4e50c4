------------------------------- MODULE Review -------------------------------
(***************************************************************************)
(* Human review, src/src/catchain/storage/review_repository.py: decide()   *)
(* and the tables it keeps.                                                *)
(*                                                                         *)
(* decide() runs inside BEGIN IMMEDIATE, SQLite's writer lock, and rolls   *)
(* back on any exception: one call is one step, and a refused or failed    *)
(* call changes nothing.  Requests come from the HTTP API and from the     *)
(* command line; a client may resend a request, change it, or send it long *)
(* after it read the queue, so any request may arrive in any state.        *)
(*                                                                         *)
(* fact_id is a hash of decision_id, so a fact is named by the decision    *)
(* that made it.  created_at is kept as the position in commit order.      *)
(***************************************************************************)
EXTENDS Naturals

CONSTANTS
  Projects,        \* values of <<registry, project_id>>
  Fields,          \* field names
  Values,          \* normalized values; dates where the field is a date
  Decisions,       \* values of decision_id
  Candidates,      \* values of candidate_id
  CandidateScope,  \* the scope each candidate is about
  Reports,         \* the sets of candidates that one validation run can bring
  Grounded,        \* pairs <<candidate, value>> whose parsed document exists and
                   \* that validate_extraction passes but for the allowed codes
  None             \* SQL NULL

Scopes == [project: Projects, field: Fields]

Start == "crediting_period_start"
End   == "crediting_period_end"

ASSUME ReviewAssumption ==
  /\ Values \subseteq Nat
  /\ None \notin Decisions /\ None \notin Values /\ None \notin Fields
  /\ CandidateScope \in [Candidates -> Scopes]
  /\ Reports \subseteq SUBSET Candidates
  /\ Grounded \subseteq Candidates \X Values
  /\ {Start, End} \subseteq Fields

\* ReviewRequest, as its validator admits it: a value comes with an approval and
\* with nothing else.
Approvals ==
  [decision: Decisions, candidate: Candidates, expected: Decisions \cup {None},
   status: {"approved"}, field: Fields, value: Values]

Refusals ==
  [decision: Decisions, candidate: Candidates, expected: Decisions \cup {None},
   status: {"rejected", "unresolved"}, field: {None}, value: {None}]

Requests == Approvals \cup Refusals

VARIABLES
  candidates,  \* fact_candidates, grown by importing validation runs
  decisions,   \* review_decisions with review_requests, keyed by decision_id
  facts,       \* canonical_facts, keyed by the decision that made them
  heads,       \* canonical_heads
  clock        \* number of decisions committed

vars == <<candidates, decisions, facts, heads, clock>>

DecisionRow == [request: Requests, before: Values \cup {None}, at: Nat]
FactRow     == [scope: Scopes, value: Values]

TypeOK ==
  /\ candidates \subseteq Candidates
  /\ DOMAIN decisions \subseteq Decisions
  /\ \A d \in DOMAIN decisions : decisions[d] \in DecisionRow
  /\ DOMAIN facts \subseteq Decisions
  /\ \A d \in DOMAIN facts : facts[d] \in FactRow
  /\ heads \in [Scopes -> Decisions \cup {None}]
  /\ clock \in Nat

Init ==
  /\ candidates = {}
  /\ decisions = [d \in {} |-> None]
  /\ facts = [d \in {} |-> None]
  /\ heads = [s \in Scopes |-> None]
  /\ clock = 0

\* The table with a row added, or replaced.
With(table, key, row) ==
  [k \in DOMAIN table \cup {key} |-> IF k = key THEN row ELSE table[k]]

-----------------------------------------------------------------------------
(* The checks of decide(), in the order in which it makes them. *)

HeadValue(s) == IF heads[s] = None THEN None ELSE facts[heads[s]].value

Sibling(s, field) == [s EXCEPT !.field = field]

\* Bug: only a new start date is compared with its counterpart.
ReversedStartOnly(s, value) ==
  LET end == HeadValue(Sibling(s, End))
  IN  s.field = Start /\ end # None /\ value > end

\* The new value would put the start of the crediting period after its end.
Reversed(s, value) ==
  LET start == HeadValue(Sibling(s, Start))
      end   == HeadValue(Sibling(s, End))
  IN  \/ s.field = Start /\ end # None /\ value > end
      \/ s.field = End /\ start # None /\ start > value

\* Bug: the current head is not compared with the expected one.
VerdictIgnoringHead(r) ==
  LET s == CandidateScope[r.candidate]
  IN  IF r.decision \in DOMAIN decisions THEN "reused"
      ELSE IF r.candidate \notin candidates THEN "candidate_not_found"
      ELSE IF r.status # "approved" THEN "accepted"
      ELSE IF r.field # s.field THEN "replacement_field_mismatch"
      ELSE IF <<r.candidate, r.value>> \notin Grounded THEN "mechanical_rejection"
      ELSE IF Reversed(s, r.value) THEN "date_order_reversed"
      ELSE "accepted"

\* Bug: a decision_id that is already on record is not looked up.
VerdictIgnoringRecord(r) ==
  LET s == CandidateScope[r.candidate]
  IN  IF r.candidate \notin candidates THEN "candidate_not_found"
      ELSE IF heads[s] # r.expected THEN "stale_current_fact"
      ELSE IF r.status = "approved" /\ r.field # s.field THEN "replacement_field_mismatch"
      ELSE "accepted"

\* The outcome of decide(): what it returns, or the code it is blocked with.
Verdict(r) ==
  LET s == CandidateScope[r.candidate]
  IN  IF r.decision \in DOMAIN decisions
      THEN IF decisions[r.decision].request = r THEN "reused" ELSE "decision_id_conflict"
      ELSE IF r.candidate \notin candidates THEN "candidate_not_found"
      ELSE IF heads[s] # r.expected THEN "stale_current_fact"
      ELSE IF r.status # "approved" THEN "accepted"
      ELSE IF r.field # s.field THEN "replacement_field_mismatch"
      ELSE IF <<r.candidate, r.value>> \notin Grounded THEN "mechanical_rejection"
      ELSE IF Reversed(s, r.value) THEN "date_order_reversed"
      ELSE "accepted"

-----------------------------------------------------------------------------
(* Actions *)

\* Bug: the head row is only inserted, never updated.
DecideKeepsOldHead(r) ==
  LET s == CandidateScope[r.candidate]
  IN  /\ Verdict(r) = "accepted"
      /\ decisions' = With(decisions, r.decision,
                           [request |-> r, before |-> HeadValue(s), at |-> clock])
      /\ clock' = clock + 1
      /\ facts' = IF r.status = "approved"
                  THEN With(facts, r.decision, [scope |-> s, value |-> r.value])
                  ELSE facts
      /\ heads' = IF r.status = "approved" /\ heads[s] = None
                  THEN [heads EXCEPT ![s] = r.decision]
                  ELSE heads
      /\ UNCHANGED candidates

\* Bug: a fact is made for every decision, not for approvals only.
DecideMakesFact(r) ==
  LET s == CandidateScope[r.candidate]
  IN  /\ Verdict(r) = "accepted"
      /\ decisions' = With(decisions, r.decision,
                           [request |-> r, before |-> HeadValue(s), at |-> clock])
      /\ clock' = clock + 1
      /\ facts' = With(facts, r.decision, [scope |-> s, value |-> r.value])
      /\ heads' = [heads EXCEPT ![s] = r.decision]
      /\ UNCHANGED candidates

\* A call of decide() that commits.
Decide(r) ==
  LET s == CandidateScope[r.candidate]
  IN  /\ Verdict(r) = "accepted"
      /\ decisions' = With(decisions, r.decision,
                           [request |-> r, before |-> HeadValue(s), at |-> clock])
      /\ clock' = clock + 1
      /\ \/ /\ r.status = "approved"
            /\ facts' = With(facts, r.decision, [scope |-> s, value |-> r.value])
            /\ heads' = [heads EXCEPT ![s] = r.decision]
         \/ /\ r.status # "approved"
            /\ UNCHANGED <<facts, heads>>
      /\ UNCHANGED candidates

\* Importing a validation run adds all its candidates, whose ids are derived from
\* the run, in one transaction.
ImportReport(new) ==
  /\ new \cap candidates = {}
  /\ candidates' = candidates \cup new
  /\ UNCHANGED <<decisions, facts, heads, clock>>

Next ==
  \/ \E r \in Requests : Decide(r)
  \/ \E new \in Reports : ImportReport(new)

Spec == Init /\ [][Next]_vars

-----------------------------------------------------------------------------
(* Properties *)

ScopeOf(d) == CandidateScope[decisions[d].request.candidate]

\* Fact f was approved in scope s before a moment.
ApprovedBefore(f, s, moment) ==
  f \in DOMAIN facts /\ facts[f].scope = s /\ decisions[f].at < moment

\* d is the fact that was current in s at that moment.
WasCurrent(d, s, moment) ==
  /\ d = None => \A f \in DOMAIN facts : ~ApprovedBefore(f, s, moment)
  /\ d # None =>
       /\ ApprovedBefore(d, s, moment)
       /\ \A f \in DOMAIN facts :
            ApprovedBefore(f, s, moment) => decisions[f].at <= decisions[d].at

\* The head of a scope is the fact of its latest approval, and there is none
\* only if nothing was approved: the update and the insert of canonical_heads
\* (review_repository.py:182-187) never lose an approval.
HeadIsLatest == \A s \in Scopes : WasCurrent(heads[s], s, clock)

\* Every decision, refusals included, was made by someone who knew the fact that
\* was current when it was committed, and its before_value is that fact's value:
\* the history of a scope is one chain without lost updates
\* (review_repository.py:84-98).
ChainedHistory ==
  \A d \in DOMAIN decisions :
    LET expected == decisions[d].request.expected
    IN  /\ WasCurrent(expected, ScopeOf(d), decisions[d].at)
        /\ decisions[d].before = IF expected = None THEN None ELSE facts[expected].value

\* No sequence of approvals, on either side and in any order, makes the current
\* start of a crediting period later than its current end
\* (review_repository.py:119-142).
CreditingPeriodOrdered ==
  \A p \in Projects :
    LET start == HeadValue([project |-> p, field |-> Start])
        end   == HeadValue([project |-> p, field |-> End])
    IN  start # None /\ end # None => start <= end

HistoryKept ==
  /\ \A d \in DOMAIN decisions : d \in DOMAIN decisions' /\ decisions'[d] = decisions[d]
  /\ \A d \in DOMAIN facts : d \in DOMAIN facts' /\ facts'[d] = facts[d]

\* Nothing ever changes or removes a decision or a fact: resending a request,
\* or sending another one under its decision_id, writes nothing
\* (review_repository.py:39-53).
ImmutableHistory == [][HistoryKept]_vars

\* The ledger this module implements: a fact replaces what the request of its
\* decision expected.
Ledger == INSTANCE CanonicalLedger WITH
  Facts    <- Decisions,
  current  <- heads,
  replaced <- [d \in DOMAIN facts |-> decisions[d].request.expected]

\* decide() implements the canonical ledger: it moves a head only from the fact
\* that the request names, whenever the request was written
\* (review_repository.py:79-91, 171-187).
ImplementsLedger == Ledger!Spec
=============================================================================
