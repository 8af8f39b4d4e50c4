---------------------------- MODULE ReviewProofs ----------------------------
(***************************************************************************)
(* Proofs about Review, for any set of projects, fields, values,           *)
(* candidates and decisions.                                               *)
(***************************************************************************)
EXTENDS Review, TLAPS

(***************************************************************************)
(* The inductive invariant.  A head is only known to be the latest approval *)
(* if it is a fact of its own scope, facts are the approvals on record, and *)
(* every decision on record is older than the clock.                        *)
(***************************************************************************)
FactsAreApprovals ==
  \A f \in DOMAIN facts :
    /\ f \in DOMAIN decisions
    /\ facts[f].scope = ScopeOf(f)

HeadsAreFacts ==
  \A s \in Scopes : heads[s] # None =>
    /\ heads[s] \in DOMAIN facts
    /\ facts[heads[s]].scope = s

DecisionsArePast == \A d \in DOMAIN decisions : decisions[d].at < clock

IInv ==
  /\ TypeOK
  /\ FactsAreApprovals
  /\ HeadsAreFacts
  /\ DecisionsArePast
  /\ HeadIsLatest
  /\ ChainedHistory
  /\ CreditingPeriodOrdered

-----------------------------------------------------------------------------

\* The scope of a candidate is a scope.
LEMMA ScopeType == \A c \in Candidates : CandidateScope[c] \in Scopes
  BY ReviewAssumption

\* What is known when decide() accepts.
LEMMA Accepted ==
  ASSUME IInv, NEW r \in Requests, Decide(r)
  PROVE  LET s == CandidateScope[r.candidate]
         IN  /\ r.decision \in Decisions
             /\ r.decision \notin DOMAIN decisions
             /\ r.decision \notin DOMAIN facts
             /\ s \in Scopes
             /\ heads[s] = r.expected
             /\ r.status = "approved" =>
                  /\ r \in Approvals
                  /\ r.value \in Values
                  /\ ~Reversed(s, r.value)
<1> DEFINE s == CandidateScope[r.candidate]
<1>1. /\ r.decision \in Decisions
      /\ r.candidate \in Candidates
      /\ r.status = "approved" => r \in Approvals /\ r.value \in Values
  BY DEF Requests, Approvals, Refusals
<1>2. /\ r.decision \notin DOMAIN decisions
      /\ heads[s] = r.expected
      /\ r.status = "approved" => ~Reversed(s, r.value)
  BY DEF Decide, Verdict
<1>3. r.decision \notin DOMAIN facts BY <1>2 DEF IInv, FactsAreApprovals
<1>4. QED BY <1>1, <1>2, <1>3, ScopeType

\* The value of a head is the value of a fact.
LEMMA HeadValueType ==
  ASSUME IInv, NEW s \in Scopes
  PROVE  /\ HeadValue(s) \in Values \cup {None}
         /\ heads[s] # None => HeadValue(s) = facts[heads[s]].value
  BY ReviewAssumption DEF HeadValue, IInv, TypeOK, HeadsAreFacts, FactRow

\* What accepting a request does to the tables.
Effect(r, s, d) ==
  /\ DOMAIN decisions' = DOMAIN decisions \cup {d}
  /\ decisions'[d] = [request |-> r, before |-> HeadValue(s), at |-> clock]
  /\ \A e \in DOMAIN decisions : e # d /\ decisions'[e] = decisions[e]
  /\ clock' = clock + 1
  /\ candidates' = candidates
  /\ \A e \in DOMAIN facts : e # d /\ e \in DOMAIN facts' /\ facts'[e] = facts[e]
  /\ \/ /\ r.status = "approved"
        /\ DOMAIN facts' = DOMAIN facts \cup {d}
        /\ facts'[d] = [scope |-> s, value |-> r.value]
        /\ heads' = [heads EXCEPT ![s] = d]
     \/ /\ r.status # "approved"
        /\ facts' = facts
        /\ heads' = heads

LEMMA DecideEffect ==
  ASSUME IInv, NEW r \in Requests, Decide(r)
  PROVE  Effect(r, CandidateScope[r.candidate], r.decision)
<1> DEFINE s == CandidateScope[r.candidate]
           d == r.decision
           row == [request |-> r, before |-> HeadValue(s), at |-> clock]
           fact == [scope |-> s, value |-> r.value]
<1>1. d \notin DOMAIN decisions /\ d \notin DOMAIN facts BY Accepted
<1>2. /\ decisions' = With(decisions, d, row)
      /\ clock' = clock + 1
      /\ candidates' = candidates
      /\ \/ /\ r.status = "approved"
            /\ facts' = With(facts, d, fact)
            /\ heads' = [heads EXCEPT ![s] = d]
         \/ /\ r.status # "approved"
            /\ facts' = facts
            /\ heads' = heads
  BY DEF Decide
<1> HIDE DEF s, d, row, fact
<1>3. /\ DOMAIN decisions' = DOMAIN decisions \cup {d}
      /\ decisions'[d] = row
      /\ \A e \in DOMAIN decisions : e # d /\ decisions'[e] = decisions[e]
  <2>1. /\ DOMAIN With(decisions, d, row) = DOMAIN decisions \cup {d}
        /\ With(decisions, d, row)[d] = row
        /\ \A e \in DOMAIN decisions : e # d => With(decisions, d, row)[e] = decisions[e]
    BY DEF With
  <2>2. QED BY <1>1, <1>2, <2>1
<1>4. CASE r.status = "approved"
  <2>1. /\ DOMAIN With(facts, d, fact) = DOMAIN facts \cup {d}
        /\ With(facts, d, fact)[d] = fact
        /\ \A e \in DOMAIN facts : e # d => With(facts, d, fact)[e] = facts[e]
    BY DEF With
  <2>2. /\ DOMAIN facts' = DOMAIN facts \cup {d}
        /\ facts'[d] = fact
        /\ \A e \in DOMAIN facts : e # d /\ facts'[e] = facts[e]
    BY <1>1, <1>2, <1>4, <2>1
  <2>3. QED BY <1>2, <1>3, <1>4, <2>2 DEF Effect, s, d, row, fact
<1>5. CASE r.status # "approved"
  BY <1>1, <1>2, <1>3, <1>5 DEF Effect, s, d, row, fact
<1>6. QED BY <1>4, <1>5

-----------------------------------------------------------------------------

LEMMA InitIInv == Init => IInv
<1> SUFFICES ASSUME Init PROVE IInv OBVIOUS
<1>1. DOMAIN decisions = {} /\ DOMAIN facts = {} BY DEF Init
<1>2. TypeOK BY <1>1 DEF Init, TypeOK
<1>3. HeadIsLatest
  BY <1>1 DEF Init, HeadIsLatest, WasCurrent, ApprovedBefore
<1>4. CreditingPeriodOrdered
  BY ReviewAssumption DEF Init, CreditingPeriodOrdered, HeadValue, Scopes
<1>5. QED
  BY <1>1, <1>2, <1>3, <1>4
  DEF Init, IInv, FactsAreApprovals, HeadsAreFacts, DecisionsArePast, ChainedHistory

LEMMA DecideKeepsTypes ==
  ASSUME IInv, NEW r \in Requests, Decide(r)
  PROVE  /\ TypeOK'
         /\ FactsAreApprovals'
         /\ HeadsAreFacts'
         /\ DecisionsArePast'
<1> DEFINE s == CandidateScope[r.candidate]
           d == r.decision
<1>1. /\ d \in Decisions
      /\ d \notin DOMAIN decisions
      /\ d \notin DOMAIN facts
      /\ s \in Scopes
      /\ d # None
  BY Accepted, ReviewAssumption
<1>2. Effect(r, s, d) BY DecideEffect
<1>3. clock \in Nat BY DEF IInv, TypeOK
<1>4. [request |-> r, before |-> HeadValue(s), at |-> clock] \in DecisionRow
  BY <1>1, <1>3, HeadValueType DEF DecisionRow
<1>5. r.status = "approved" => [scope |-> s, value |-> r.value] \in FactRow
  BY <1>1, Accepted DEF FactRow
<1>6. ScopeOf(d)' = s /\ decisions'[d].at = clock BY <1>2 DEF Effect, ScopeOf
<1>7. \A e \in DOMAIN decisions : ScopeOf(e)' = ScopeOf(e) BY <1>2 DEF Effect, ScopeOf
<1> HIDE DEF s, d
<1> USE DEF Effect
<1>8. heads \in [Scopes -> Decisions \cup {None}] BY DEF IInv, TypeOK
<1>9. TypeOK'
  <2>1. heads' \in [Scopes -> Decisions \cup {None}] BY <1>1, <1>2, <1>8
  <2>2. /\ DOMAIN decisions' \subseteq Decisions
        /\ \A e \in DOMAIN decisions' : decisions'[e] \in DecisionRow
    BY <1>1, <1>2, <1>4 DEF IInv, TypeOK
  <2>3. /\ DOMAIN facts' \subseteq Decisions
        /\ \A e \in DOMAIN facts' : facts'[e] \in FactRow
    BY <1>1, <1>2, <1>5 DEF IInv, TypeOK
  <2>4. QED BY <1>2, <1>3, <2>1, <2>2, <2>3 DEF IInv, TypeOK
<1>10. FactsAreApprovals'
  <2>1. facts'[d].scope = s \/ d \notin DOMAIN facts' BY <1>1, <1>2
  <2>2. \A f \in DOMAIN facts : f \in DOMAIN decisions /\ facts'[f].scope = ScopeOf(f)'
    BY <1>2, <1>7 DEF IInv, FactsAreApprovals
  <2>3. QED BY <1>2, <1>6, <2>1, <2>2 DEF FactsAreApprovals
<1>11. HeadsAreFacts'
  BY <1>1, <1>2, <1>8 DEF IInv, HeadsAreFacts
<1>12. DecisionsArePast'
  <2>1. \A e \in DOMAIN decisions : decisions[e].at \in Nat /\ decisions[e].at < clock
    BY DEF IInv, TypeOK, DecisionRow, DecisionsArePast
  <2>2. QED BY <1>2, <1>3, <1>6, <2>1 DEF DecisionsArePast
<1>13. QED BY <1>9, <1>10, <1>11, <1>12

\* A decision leaves the past alone: what was current at any moment up to now.
LEMMA PastIsFixed ==
  ASSUME IInv, NEW r \in Requests, Decide(r),
         NEW f, NEW s \in Scopes, NEW moment \in Nat, moment <= clock,
         WasCurrent(f, s, moment)
  PROVE  WasCurrent(f, s, moment)'
<1> DEFINE d == r.decision
<1>1. Effect(r, CandidateScope[r.candidate], d) BY DecideEffect
<1>2. /\ d \in DOMAIN decisions'
      /\ decisions'[d].at = clock
      /\ d \notin DOMAIN facts
      /\ DOMAIN facts \subseteq DOMAIN facts'
      /\ DOMAIN facts' \subseteq DOMAIN facts \cup {d}
  BY <1>1, Accepted DEF Effect
<1>3. clock \in Nat BY DEF IInv, TypeOK
<1>4. \A e \in DOMAIN facts : facts'[e] = facts[e] /\ decisions'[e] = decisions[e]
  BY <1>1 DEF Effect, IInv, FactsAreApprovals
<1> HIDE DEF d
<1>5. ~ApprovedBefore(d, s, moment)' BY <1>2, <1>3 DEF ApprovedBefore
<1>6. \A e \in DOMAIN facts : ApprovedBefore(e, s, moment)' <=> ApprovedBefore(e, s, moment)
  BY <1>2, <1>4 DEF ApprovedBefore
<1>7. f # None => f \in DOMAIN facts BY DEF WasCurrent, ApprovedBefore
<1>8. QED BY <1>2, <1>4, <1>5, <1>6, <1>7 DEF WasCurrent

LEMMA DecideKeepsHeads ==
  ASSUME IInv, NEW r \in Requests, Decide(r)
  PROVE  HeadIsLatest'
<1> DEFINE s == CandidateScope[r.candidate]
           d == r.decision
<1>1. Effect(r, s, d) BY DecideEffect
<1>2. /\ d # None
      /\ s \in Scopes
      /\ decisions'[d].at = clock
      /\ clock \in Nat
      /\ clock' = clock + 1
      /\ heads \in [Scopes -> Decisions \cup {None}]
  BY <1>1, Accepted, ReviewAssumption DEF Effect, IInv, TypeOK
<1>3. \A e \in DOMAIN facts : /\ e \in DOMAIN decisions
                              /\ e # d
                              /\ e \in DOMAIN facts'
                              /\ facts'[e] = facts[e]
                              /\ decisions'[e] = decisions[e]
                              /\ decisions[e].at \in Nat
                              /\ decisions[e].at < clock
  BY <1>1 DEF Effect, IInv, TypeOK, DecisionRow, DecisionsArePast, FactsAreApprovals
<1>4. \/ /\ DOMAIN facts' = DOMAIN facts \cup {d}
         /\ facts'[d].scope = s
         /\ heads' = [heads EXCEPT ![s] = d]
      \/ /\ facts' = facts
         /\ heads' = heads
  BY <1>1 DEF Effect
<1> HIDE DEF s, d
<1> SUFFICES ASSUME NEW t \in Scopes
             PROVE  WasCurrent(heads[t], t, clock)'
  BY DEF HeadIsLatest
<1>5. WasCurrent(heads[t], t, clock) BY DEF IInv, HeadIsLatest
<1>6. CASE t = s /\ heads'[t] = d /\ DOMAIN facts' = DOMAIN facts \cup {d} /\ facts'[d].scope = s
  BY <1>2, <1>3, <1>6 DEF WasCurrent, ApprovedBefore
<1>7. CASE heads'[t] = heads[t] /\ DOMAIN facts' = DOMAIN facts
  BY <1>2, <1>3, <1>5, <1>7 DEF WasCurrent, ApprovedBefore
<1>8. CASE /\ heads'[t] = heads[t]
           /\ DOMAIN facts' = DOMAIN facts \cup {d}
           /\ facts'[d].scope # t
  BY <1>2, <1>3, <1>5, <1>8 DEF WasCurrent, ApprovedBefore
<1>9. QED BY <1>2, <1>4, <1>6, <1>7, <1>8

LEMMA DecideKeepsChain ==
  ASSUME IInv, NEW r \in Requests, Decide(r)
  PROVE  ChainedHistory'
<1> DEFINE s == CandidateScope[r.candidate]
           d == r.decision
<1>1. Effect(r, s, d) BY DecideEffect
<1>2. s \in Scopes /\ heads[s] = r.expected /\ clock \in Nat
  BY Accepted DEF IInv, TypeOK
<1>3. ASSUME NEW e \in DOMAIN decisions
      PROVE  LET expected == decisions[e].request.expected
             IN  /\ WasCurrent(expected, ScopeOf(e), decisions[e].at)'
                 /\ decisions'[e].before = IF expected' = None THEN None ELSE facts'[expected'].value
  <2>1. PICK expected, scope, at : /\ expected = decisions[e].request.expected
                                   /\ scope = ScopeOf(e)
                                   /\ at = decisions[e].at
    OBVIOUS
  <2>2. /\ WasCurrent(expected, scope, at)
        /\ decisions[e].before = IF expected = None THEN None ELSE facts[expected].value
    BY <2>1 DEF IInv, ChainedHistory
  <2>3. scope \in Scopes /\ at \in Nat /\ at <= clock
    <3>1. decisions[e] \in DecisionRow /\ decisions[e].at < clock
      BY DEF IInv, TypeOK, DecisionsArePast
    <3>2. decisions[e].request.candidate \in Candidates
      BY <3>1 DEF DecisionRow, Requests, Approvals, Refusals
    <3>3. QED BY <1>2, <2>1, <3>1, <3>2, ScopeType DEF ScopeOf, DecisionRow
  <2>4. WasCurrent(expected, scope, at)' BY <2>2, <2>3, PastIsFixed
  <2>5. decisions'[e] = decisions[e] BY <1>1 DEF Effect
  <2>6. expected # None => expected \in DOMAIN facts /\ facts'[expected] = facts[expected]
    BY <1>1, <2>2 DEF Effect, WasCurrent, ApprovedBefore
  <2>7. /\ decisions'[e].request.expected = expected
        /\ ScopeOf(e)' = scope
        /\ decisions'[e].at = at
    BY <2>1, <2>5 DEF ScopeOf
  <2>8. WasCurrent(decisions[e].request.expected, ScopeOf(e), decisions[e].at)'
    BY <2>4, <2>7 DEF WasCurrent, ApprovedBefore
  <2>9. QED BY <2>2, <2>5, <2>6, <2>7, <2>8
<1>4. LET expected == decisions[d].request.expected
      IN  /\ WasCurrent(expected, ScopeOf(d), decisions[d].at)'
          /\ decisions'[d].before = IF expected' = None THEN None ELSE facts'[expected'].value
  <2>1. PICK expected, scope, at : expected = heads[s] /\ scope = s /\ at = clock OBVIOUS
  <2>2. /\ decisions'[d].request.expected = expected
        /\ ScopeOf(d)' = scope
        /\ decisions'[d].at = at
        /\ decisions'[d].before = HeadValue(s)
    BY <1>1, <1>2, <2>1 DEF Effect, ScopeOf
  <2>3. WasCurrent(expected, scope, at)
    BY <1>2, <2>1 DEF IInv, HeadIsLatest
  <2>4. WasCurrent(expected, scope, at)'
    BY <1>2, <2>1, <2>3, PastIsFixed
  <2>5. WasCurrent(decisions[d].request.expected, ScopeOf(d), decisions[d].at)'
    BY <2>2, <2>4 DEF WasCurrent, ApprovedBefore
  <2>6. expected # None => facts'[expected] = facts[expected]
    BY <1>1, <1>2, <2>1 DEF Effect, IInv, HeadsAreFacts
  <2>7. QED BY <2>1, <2>2, <2>5, <2>6 DEF HeadValue
<1>5. DOMAIN decisions' = DOMAIN decisions \cup {d} BY <1>1 DEF Effect
<1>6. QED BY <1>3, <1>4, <1>5 DEF ChainedHistory

\* The values that are current after a decision.
LEMMA HeadValuesAfter ==
  ASSUME IInv, NEW r \in Requests, Decide(r), NEW t \in Scopes
  PROVE  HeadValue(t)' = IF r.status = "approved" /\ t = CandidateScope[r.candidate]
                         THEN r.value
                         ELSE HeadValue(t)
<1> DEFINE s == CandidateScope[r.candidate]
           d == r.decision
<1>1. Effect(r, s, d) BY DecideEffect
<1>2. /\ d # None
      /\ heads \in [Scopes -> Decisions \cup {None}]
      /\ heads[t] # None => heads[t] \in DOMAIN facts
  BY Accepted, ReviewAssumption DEF IInv, TypeOK, HeadsAreFacts
<1> HIDE DEF s, d
<1>3. CASE r.status = "approved" /\ t = s
  BY <1>1, <1>2, <1>3 DEF Effect, HeadValue, s
<1>4. CASE ~(r.status = "approved" /\ t = s)
  <2>1. heads'[t] = heads[t] BY <1>1, <1>2, <1>4 DEF Effect
  <2>2. heads[t] # None => facts'[heads[t]] = facts[heads[t]] BY <1>1, <1>2 DEF Effect
  <2>3. QED BY <1>4, <2>1, <2>2 DEF HeadValue, s
<1>5. QED BY <1>3, <1>4

LEMMA DecideKeepsPeriod ==
  ASSUME IInv, NEW r \in Requests, Decide(r)
  PROVE  CreditingPeriodOrdered'
<1> SUFFICES ASSUME NEW p \in Projects
             PROVE  LET start == HeadValue([project |-> p, field |-> Start])
                        end   == HeadValue([project |-> p, field |-> End])
                    IN  start' # None /\ end' # None => start' <= end'
  BY DEF CreditingPeriodOrdered
<1> DEFINE s == CandidateScope[r.candidate]
           st == [project |-> p, field |-> Start]
           en == [project |-> p, field |-> End]
<1>1. /\ st \in Scopes
      /\ en \in Scopes
      /\ st # en
      /\ st.field = Start /\ en.field = End
      /\ Sibling(st, End) = en
      /\ Sibling(en, Start) = st
  BY ReviewAssumption DEF Scopes, Start, End, Sibling
<1>2. r.status = "approved" => r.value \in Values /\ ~Reversed(s, r.value)
  BY Accepted
<1>3. HeadValue(st) # None /\ HeadValue(en) # None => HeadValue(st) <= HeadValue(en)
  BY DEF IInv, CreditingPeriodOrdered
<1>4. /\ HeadValue(st)' = IF r.status = "approved" /\ st = s THEN r.value ELSE HeadValue(st)
      /\ HeadValue(en)' = IF r.status = "approved" /\ en = s THEN r.value ELSE HeadValue(en)
  BY <1>1, HeadValuesAfter
<1>5. HeadValue(st) \in Values \cup {None} /\ HeadValue(en) \in Values \cup {None}
  BY <1>1, HeadValueType
<1>6. Values \subseteq Nat BY ReviewAssumption
<1> HIDE DEF s, st, en
<1>7. CASE r.status = "approved" /\ s = st
  <2>1. HeadValue(en) # None => ~(r.value > HeadValue(en))
    BY <1>1, <1>2, <1>7 DEF Reversed
  <2>2. HeadValue(en)' # None => HeadValue(st)' <= HeadValue(en)'
    <3>1. HeadValue(st)' = r.value /\ HeadValue(en)' = HeadValue(en)
      BY <1>1, <1>4, <1>7
    <3>2. HeadValue(en) # None => HeadValue(en) \in Nat /\ r.value \in Nat
      BY <1>2, <1>5, <1>6, <1>7
    <3>3. HeadValue(en) # None => r.value <= HeadValue(en) BY <2>1, <3>2
    <3>4. QED BY <3>1, <3>3
  <2>3. QED BY <2>2 DEF st, en
<1>8. CASE r.status = "approved" /\ s = en
  <2>1. HeadValue(st) # None => ~(HeadValue(st) > r.value)
    BY <1>1, <1>2, <1>8 DEF Reversed
  <2>2. HeadValue(st)' # None => HeadValue(st)' <= HeadValue(en)'
    <3>1. HeadValue(en)' = r.value /\ HeadValue(st)' = HeadValue(st)
      BY <1>1, <1>4, <1>8
    <3>2. HeadValue(st) # None => HeadValue(st) \in Nat /\ r.value \in Nat
      BY <1>2, <1>5, <1>6, <1>8
    <3>3. HeadValue(st) # None => HeadValue(st) <= r.value BY <2>1, <3>2
    <3>4. QED BY <3>1, <3>3
  <2>3. QED BY <2>2 DEF st, en
<1>9. CASE r.status # "approved" \/ (s # st /\ s # en)
  <2>1. HeadValue(st)' = HeadValue(st) /\ HeadValue(en)' = HeadValue(en) BY <1>4, <1>9
  <2>2. QED BY <1>3, <2>1 DEF st, en
<1>10. QED BY <1>7, <1>8, <1>9

-----------------------------------------------------------------------------

LEMMA ImportKeepsIInv ==
  ASSUME IInv, NEW new \in Reports, ImportReport(new)
  PROVE  IInv'
<1>1. /\ candidates' \subseteq Candidates
      /\ UNCHANGED <<decisions, facts, heads, clock>>
  BY ReviewAssumption DEF IInv, TypeOK, ImportReport
<1>2. QED
  BY <1>1
  DEF IInv, TypeOK, FactsAreApprovals, HeadsAreFacts, DecisionsArePast, HeadIsLatest,
    ChainedHistory, CreditingPeriodOrdered, WasCurrent, ApprovedBefore, ScopeOf, HeadValue

LEMMA NextKeepsIInv == IInv /\ [Next]_vars => IInv'
<1> SUFFICES ASSUME IInv, [Next]_vars PROVE IInv' OBVIOUS
<1>1. CASE \E r \in Requests : Decide(r)
  BY <1>1, DecideKeepsTypes, DecideKeepsHeads, DecideKeepsChain, DecideKeepsPeriod DEF IInv
<1>2. CASE \E new \in Reports : ImportReport(new) BY <1>2, ImportKeepsIInv
<1>3. CASE UNCHANGED vars
  BY <1>3
  DEF vars, IInv, TypeOK, FactsAreApprovals, HeadsAreFacts, DecisionsArePast, HeadIsLatest,
    ChainedHistory, CreditingPeriodOrdered, WasCurrent, ApprovedBefore, ScopeOf, HeadValue
<1>4. QED BY <1>1, <1>2, <1>3 DEF Next

LEMMA Inductive == Spec => []IInv
<1>1. QED BY InitIInv, NextKeepsIInv, PTL DEF Spec

\* The tables of the review always have their types.
THEOREM TypeCorrect == Spec => []TypeOK
<1>1. IInv => TypeOK BY DEF IInv
<1>2. QED BY <1>1, Inductive, PTL

\* The head of every scope is the fact of its latest approval.
THEOREM HeadsAreLatest == Spec => []HeadIsLatest
<1>1. IInv => HeadIsLatest BY DEF IInv
<1>2. QED BY <1>1, Inductive, PTL

\* The decisions of a scope form one chain: no approval is ever lost or overlooked.
THEOREM NoLostUpdate == Spec => []ChainedHistory
<1>1. IInv => ChainedHistory BY DEF IInv
<1>2. QED BY <1>1, Inductive, PTL

\* A current crediting period never starts after it ends.
THEOREM PeriodsOrdered == Spec => []CreditingPeriodOrdered
<1>1. IInv => CreditingPeriodOrdered BY DEF IInv
<1>2. QED BY <1>1, Inductive, PTL

\* No decision and no fact is ever changed or removed.
THEOREM HistoryImmutable == Spec => ImmutableHistory
<1>1. IInv /\ [Next]_vars => [HistoryKept]_vars
  <2> SUFFICES ASSUME IInv, Next PROVE HistoryKept
    BY DEF vars
  <2>1. CASE \E r \in Requests : Decide(r)
    <3>1. PICK r \in Requests : Decide(r) BY <2>1
    <3>2. Effect(r, CandidateScope[r.candidate], r.decision) BY <3>1, DecideEffect
    <3>3. QED BY <3>2 DEF Effect, HistoryKept
  <2>2. CASE \E new \in Reports : ImportReport(new)
    BY <2>2 DEF ImportReport, HistoryKept
  <2>3. QED BY <2>1, <2>2 DEF Next
<1>2. QED BY <1>1, Inductive, PTL DEF Spec, ImmutableHistory

-----------------------------------------------------------------------------

\* What the author of every current fact's decision named, by fact: the ledger's
\* own history, read from the tables.
ReplacedFacts == [d \in DOMAIN facts |-> decisions[d].request.expected]

\* A decision is a promotion of the ledger over the fact that its request names, or
\* leaves it alone.
LEMMA DecideIsPromotion ==
  ASSUME IInv, NEW r \in Requests, Decide(r)
  PROVE  Ledger!Next \/ UNCHANGED <<heads, ReplacedFacts>>
<1> DEFINE s == CandidateScope[r.candidate]
           n == r.decision
<1>1. Effect(r, s, n) BY DecideEffect
<1>2. /\ n \in Decisions
      /\ n # None
      /\ n \notin DOMAIN facts
      /\ n \notin DOMAIN decisions
      /\ s \in Scopes
      /\ heads[s] = r.expected
      /\ r.expected \in Decisions \cup {None}
  BY Accepted, ReviewAssumption DEF IInv, TypeOK
<1>3. \A t \in Scopes : heads[t] # None => heads[t] \in DOMAIN facts
  BY DEF IInv, HeadsAreFacts
<1>4. \A d \in DOMAIN facts : d \in DOMAIN decisions
  BY DEF IInv, FactsAreApprovals
<1>5. \A d \in DOMAIN decisions :
        decisions[d].request.expected # None => decisions[d].request.expected \in DOMAIN facts
  BY DEF IInv, ChainedHistory, WasCurrent, ApprovedBefore
<1>6. /\ \A d \in DOMAIN decisions : decisions'[d] = decisions[d]
      /\ decisions'[n].request = r
  BY <1>1 DEF Effect
<1>7. CASE r.status # "approved"
  <2>1. heads' = heads /\ facts' = facts BY <1>1, <1>7 DEF Effect
  <2>2. QED BY <1>4, <1>6, <2>1 DEF ReplacedFacts
<1>8. CASE r.status = "approved"
  <2>1. /\ DOMAIN facts' = DOMAIN facts \cup {n}
        /\ heads' = [heads EXCEPT ![s] = n]
    BY <1>1, <1>8 DEF Effect
  <2> HIDE DEF s, n
  <2>2. n \notin DOMAIN ReplacedFacts
    BY <1>2 DEF ReplacedFacts
  <2>3. \A d \in DOMAIN ReplacedFacts : ReplacedFacts[d] # n
    BY <1>2, <1>4, <1>5 DEF ReplacedFacts
  <2>4. \A t \in Scopes : heads[t] # n
    BY <1>2, <1>3
  <2>5. ReplacedFacts' = [f \in DOMAIN ReplacedFacts \cup {n} |->
                            IF f = n THEN r.expected ELSE ReplacedFacts[f]]
    BY <1>2, <1>4, <1>6, <2>1 DEF ReplacedFacts
  <2>6. Ledger!Promote(s, r.expected, n)
    BY <1>2, <2>1, <2>2, <2>3, <2>4, <2>5
    DEF Ledger!Promote, Ledger!Replaced, ReplacedFacts
  <2>7. QED BY <1>2, <2>6 DEF Ledger!Next
<1>9. QED BY <1>7, <1>8

\* decide() implements the canonical ledger: a fact becomes current only by replacing
\* the fact that its own request names, which is current when it commits, and none
\* comes back.
THEOREM LedgerImplemented == Spec => ImplementsLedger
<1>1. Init => Ledger!Init
  BY DEF Init, Ledger!Init
<1>2. IInv /\ [Next]_vars => [Ledger!Next]_<<heads, ReplacedFacts>>
  <2> SUFFICES ASSUME IInv, [Next]_vars
               PROVE  Ledger!Next \/ UNCHANGED <<heads, ReplacedFacts>>
    OBVIOUS
  <2>1. CASE \E r \in Requests : Decide(r) BY <2>1, DecideIsPromotion
  <2>2. CASE \E new \in Reports : ImportReport(new) BY <2>2 DEF ImportReport, ReplacedFacts
  <2>3. CASE UNCHANGED vars BY <2>3 DEF vars, ReplacedFacts
  <2>4. QED BY <2>1, <2>2, <2>3 DEF Next
<1>3. QED
  BY <1>1, <1>2, Inductive, PTL DEF Spec, ImplementsLedger, Ledger!Spec, ReplacedFacts

=============================================================================
