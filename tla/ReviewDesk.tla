----------------------------- MODULE ReviewDesk -----------------------------
(***************************************************************************)
(* The review desk: validation runs are imported, the queue shows their    *)
(* candidates to reviewers, reviewers decide on what they were shown, and  *)
(* the review metrics count it all, at the same time.  FactImport and      *)
(* Review over one database, with the readers of                           *)
(* src/src/catchain/review_queue.py and `review candidates` between them.  *)
(*                                                                         *)
(* A reader's connection is not in a transaction, so each of its SELECTs   *)
(* sees the database of its own moment.  The queue builds one item per     *)
(* candidate and one after another; a desk here follows one of them.       *)
(* Evidence, priority and texts are as immutable as the candidate row.     *)
(***************************************************************************)
EXTENDS FactImport

CONSTANTS
  Projects, Fields, Values, Decisions, Candidates, CandidateScope, Grounded,
  CandidatesOf,  \* the candidates of a report
  Desks          \* reviewers, at each desk one command at a time

\* What Review assumes of its constants, and that the ids of candidates are derived
\* from the validation run that brings them.
ASSUME DeskAssumption ==
  /\ Values \subseteq Nat
  /\ None \notin Decisions /\ None \notin Values /\ None \notin Fields
  /\ CandidateScope \in [Candidates -> [project: Projects, field: Fields]]
  /\ Grounded \subseteq Candidates \X Values
  /\ {"crediting_period_start", "crediting_period_end"} \subseteq Fields
  /\ CandidatesOf \in [Contents -> SUBSET Candidates]
  /\ \A a, b \in Contents : RunOf[a] # RunOf[b] => CandidatesOf[a] \cap CandidatesOf[b] = {}

VARIABLES
  decisions, facts, heads, clock,   \* Review
  desk,    \* what the command at each desk has read so far
  basis    \* history: the item each decision was made on

reviewVars == <<decisions, facts, heads, clock>>
vars == <<runs, reports, importer, decisions, facts, heads, clock, desk, basis>>

Listed == UNION {CandidatesOf[reports[v]] : v \in DOMAIN reports}

Review == INSTANCE Review WITH
  candidates <- Listed,
  Reports    <- {CandidatesOf[a] : a \in Contents}

\* listed and shown are the values of clock at two of the reads.
Item ==
  [phase: {"idle", "picked", "judged", "shown"}, candidate: Candidates \cup {None},
   latest: Decisions \cup {None}, fact: Decisions \cup {None}, listed: Nat, shown: Nat]

Idle == [phase |-> "idle", candidate |-> None, latest |-> None, fact |-> None,
         listed |-> 0, shown |-> 0]

Tally == [phase: {"rows", "counted", "failed"},
          rows: SUBSET Candidates, decided: SUBSET Candidates]

TypeOK ==
  /\ ImportTypeOK
  /\ Review!TypeOK
  /\ desk \in [Desks -> Item \cup Tally]
  /\ DOMAIN basis = DOMAIN decisions
  /\ \A d \in DOMAIN basis : basis[d] \in Item

Init ==
  /\ ImportInit
  /\ decisions = [d \in {} |-> None]
  /\ facts = [d \in {} |-> None]
  /\ heads = [s \in Review!Scopes |-> None]
  /\ clock = 0
  /\ desk = [k \in Desks |-> Idle]
  /\ basis = [d \in {} |-> Idle]

-----------------------------------------------------------------------------
(* Imports *)

ImportStep ==
  /\ ImportNext
  /\ UNCHANGED <<reviewVars, desk, basis>>

-----------------------------------------------------------------------------
(* The queue and the reviewers *)

About(c) == {d \in DOMAIN decisions : decisions[d].request.candidate = c}

\* d is the first of the decisions on c ordered by created_at, latest first.
IsLatest(d, c) ==
  \/ d = None /\ About(c) = {}
  \/ d \in About(c) /\ \A e \in About(c) : decisions[e].at <= decisions[d].at

\* The SELECT of the candidates; the item followed is that of candidate c.
Pick(k, c) ==
  /\ desk[k].phase = "idle"
  /\ c \in Listed
  /\ desk' = [desk EXCEPT ![k] = [Idle EXCEPT !.phase = "picked", !.candidate = c]]
  /\ UNCHANGED <<importVars, reviewVars, basis>>

\* The SELECT of the candidate's decisions.  An approved candidate is left out
\* unless the queue was asked to include it.
ReadDecisions(k) ==
  /\ desk[k].phase = "picked"
  /\ \E d \in Decisions \cup {None} :
       /\ IsLatest(d, desk[k].candidate)
       /\ \/ desk' = [desk EXCEPT ![k].phase = "judged", ![k].latest = d, ![k].listed = clock]
          \/ /\ d # None
             /\ decisions[d].request.status = "approved"
             /\ desk' = [desk EXCEPT ![k] = Idle]
  /\ UNCHANGED <<importVars, reviewVars, basis>>

\* The SELECT of the canonical head completes the item.
ReadHead(k) ==
  /\ desk[k].phase = "judged"
  /\ desk' = [desk EXCEPT
       ![k].phase = "shown",
       ![k].fact  = heads[CandidateScope[desk[k].candidate]],
       ![k].shown = clock]
  /\ UNCHANGED <<importVars, reviewVars, basis>>

\* `review candidates` goes from its list straight to the heads.
ReadHeadOnly(k) ==
  /\ desk[k].phase = "picked"
  /\ desk' = [desk EXCEPT
       ![k].phase  = "shown",
       ![k].fact   = heads[CandidateScope[desk[k].candidate]],
       ![k].listed = clock,
       ![k].shown  = clock]
  /\ UNCHANGED <<importVars, reviewVars, basis>>

\* The reviewer decides on the item shown, possibly again.
DecideOnItem(k) ==
  /\ desk[k].phase = "shown"
  /\ UNCHANGED <<importVars, desk>>
  /\ \E r \in Review!Requests :
       /\ r.candidate = desk[k].candidate
       /\ r.expected = desk[k].fact
       /\ Review!Decide(r)
       /\ basis' = [d \in DOMAIN basis \cup {r.decision} |->
                      IF d = r.decision THEN desk[k] ELSE basis[d]]

\* The reviewer goes on to another item, or starts again after an error.
LeaveItem(k) ==
  /\ desk[k].phase \in {"shown", "failed"}
  /\ desk' = [desk EXCEPT ![k] = Idle]
  /\ UNCHANGED <<importVars, reviewVars, basis>>

-----------------------------------------------------------------------------
(* The metrics *)

\* The SELECT of the candidates.
CountCandidates(k) ==
  /\ desk[k].phase = "idle"
  /\ desk' = [desk EXCEPT ![k] = [phase |-> "rows", rows |-> Listed, decided |-> {}]]
  /\ UNCHANGED <<importVars, reviewVars, basis>>

\* The SELECT of the decisions.
CountDecisions(k) ==
  /\ desk[k].phase = "rows"
  /\ desk' = [desk EXCEPT
       ![k].phase   = "counted",
       ![k].decided = {decisions[d].request.candidate : d \in DOMAIN decisions}]
  /\ UNCHANGED <<importVars, reviewVars, basis>>

\* field_by_candidate holds the rows that were read and is looked up for every
\* candidate with a decision: a candidate that is missing there is a KeyError,
\* which no caller catches.
ReportMetrics(k) ==
  /\ desk[k].phase = "counted"
  /\ desk' = [desk EXCEPT ![k] =
       IF desk[k].rows = {} \/ desk[k].decided \subseteq desk[k].rows
       THEN Idle ELSE [@ EXCEPT !.phase = "failed"]]
  /\ UNCHANGED <<importVars, reviewVars, basis>>

Next ==
  \/ ImportStep
  \/ \E k \in Desks :
       \/ \E c \in Candidates : Pick(k, c)
       \/ ReadDecisions(k)
       \/ ReadHead(k)
       \/ ReadHeadOnly(k)
       \/ DecideOnItem(k)
       \/ LeaveItem(k)
       \/ CountCandidates(k)
       \/ CountDecisions(k)
       \/ ReportMetrics(k)

Spec == Init /\ [][Next]_vars

-----------------------------------------------------------------------------
(* Properties *)

\* The fact an item shows was current in its field at a moment after the
\* candidate's decisions were read, although both come from separate reads with
\* decisions in between: an item never shows a candidate as approved next to a
\* fact older than that approval (review_queue.py:94, 121).
ItemIsRecent ==
  \A k \in Desks :
    LET item == desk[k]
    IN  item.phase = "shown" =>
          \E moment \in item.listed..item.shown :
            /\ Review!WasCurrent(item.fact, CandidateScope[item.candidate], moment)
            /\ item.latest # None =>
                 \/ decisions[item.latest].request.status # "approved"
                 \/ decisions[item.latest].at < moment

\* No decision is accepted from a reviewer in whose field another approval was
\* committed since the item was read (review_queue.py:121-147,
\* review_repository.py:90).  Refusals committed since then are not noticed.
NoUnseenApproval ==
  \A d \in DOMAIN basis, e \in DOMAIN facts :
    /\ Review!ScopeOf(e) = Review!ScopeOf(d)
    /\ decisions[e].at >= basis[d].shown
    => decisions[e].at >= decisions[d].at

\* The desk implements the review of Review: an import, however it interleaves
\* with others, brings the candidates of one report all at once and never takes
\* one away, and reviewers who decide on items are some of the reviewers there.
ImplementsReview == Review!Spec

\* review_queue.py:1 and slice-8-review-queue.md:9 say that the metrics are
\* deterministic counts over the records: asking for them is answered.
MetricsAnswer == \A k \in Desks : desk[k].phase # "failed"
=============================================================================
