# Catchain: formal models, checks and proofs

Catchain extracts facts from the documents of carbon-credit projects, checks
them, puts them before human reviewers and keeps the approved facts. It is a set
of short-lived commands and an HTTP API over one relational database and a few
write-once file stores. Little of it is concurrent inside one process; what is
hard is what several processes do to the shared tables and files: two workers
and one job, two reviewers and one fact, two commands and one paid model call, a
process that dies between two writes.

Paths below are relative to `src/src/catchain/` unless they start with `src/`.
The models were written from the code; line numbers are in `PROJECT.json`, which
maps every definition to the lines it stands for.

Contents: [inventory](#1-inventory) · [modules](#2-modules-and-how-they-correspond-to-the-code) ·
[runs](#3-runs) · [bounds and fairness](#4-bounds-fairness-and-deadlock) ·
[proofs](#5-proofs) · [divergences](#6-where-code-and-documentation-disagree) ·
[not modelled](#7-what-is-not-modelled) · [plan](#8-plan)

## 1. Inventory

| Component | Code | State it keeps | Operations | What is hard |
|---|---|---|---|---|
| Job queue | `jobs/` | table `processing_jobs` | `enqueue`, `claim_next`, `mark_succeeded`, `mark_failed` | SELECT and write are separate; stale snapshots; a worker dies with a job |
| Review decisions | `storage/review_repository.py`, `domain/review.py` | `review_decisions`, `review_requests`, `canonical_facts`, `canonical_heads`, `canonical_fact_sources` | `decide` | resent, changed and stale requests; a rule over two fields that are decided separately |
| Single-call extraction | `extraction/llm/` | `cache/`, `.locks/`, `runs/` under an output directory | `extract_one_call` | at most one charge per input in spite of races, kills and failing file operations |
| Registry sync | `sync/`, `storage/sync_repository.py` | `registry_sync_runs`, `registry_sync_checkpoints` | `load_checkpoint`, `SyncService.run`, `record_run`, `latest_run` | overlapping syncs, partial pages, an unconditional checkpoint update |
| Ingestion and corpus | `ingestion/`, `storage/document_repository.py`, commands of `cli.py` | `source_documents`, `document_versions`, `parsed_documents`, `parsed_pages`; raw files by digest | `ingest local`, `parse raw` | three separate writes per import; look-up before insert; a failed command is run again |
| Validation and consistency rules | `validation/` | none (pure) | `validate_extraction`, `validate_project` | two rule sets that look at the same rival candidates from two sides |
| Validation import | `storage/fact_repository.py` | `processing_runs`, `validation_reports`, `fact_candidates`, `candidate_evidence` | `import_validation` | look-up before insert; runs that share an extraction run; many tables in one transaction |
| Review queue and metrics | `review_queue.py`, `domain/review_queue.py` | none; reads the tables above | build, `build_review_metrics`, `write_snapshot` | an item and the metrics are read with several SELECTs, each of its own moment |
| Content-addressed artifacts | `storage/object_store.py`, `storage/baseline_artifacts.py`, `storage/evaluation_repository.py` | files by key, `evaluation_results` | `put_immutable`, `open`, `store_baseline_artifact`, `store_evaluation_result` | write-once under races; an artifact and its row are two writes |
| Scoring | `scoring/`, the `score` commands of `cli.py` | none; reads canonical facts | readiness, business checks, judgments, baseline score | reports and contexts that age while facts move on |
| Gold data, comparison, sampling | `extraction/gold_evaluation.py`, `extraction/comparison.py`, `evaluation/`, `dataset/` | files | aggregation, diff, sampling | numeric edges |
| Baseline extraction | `extraction/baseline/`, `extraction/production_run.py` | files | regex candidates, abstention | text patterns |
| Parsing and OCR | `parsing/` | none | page text, quality signals | I/O |
| Registry adapters | `registries/` | none | `discover_projects`, `list_documents`, probes | response formats |
| API, CLI, configuration | `api/`, `cli.py`, `config.py`, `storage/postgres.py`, … | none | wiring | argument checks |
| Domain models | `domain/` | none | validators | – |

How they interact. All of them meet in the database and in file stores, never by
messages. `ingest local` writes the raw store and the source and version tables;
`parse raw` reads a version's bytes and adds the parsed document. Extraction
reads parsed pages and writes its own directory; `validate_extraction` checks an
extraction against the parsed text and `import_validation` turns the result into
candidates. The review queue reads candidates, decisions and heads and ranks the
candidates; `decide` reads the parsed document again, re-validates the value under
review and moves the canonical head. The metrics count candidates and decisions.
Scoring reads canonical facts into a readiness report, builds checks and judgments
on a stored report, and keeps each result as an artifact under the hash of its
content; a judgment also gets a row. The job queue and the sync are independent of
that line; the job queue's worker loop is not in the repository.

What makes each component correct (the properties of section 3):

* **Jobs**: one input never runs twice at once, the retry budget is neither
  overdrawn in the row nor cut short, a settled outcome stays, every input settles
  unless a worker died with it.
* **Review**: no approval overwrites a fact its author did not know, the current
  fact is the latest approval, history is immutable, periods never run backwards.
* **Extraction**: calls for one input do not overlap, an input is charged again only
  after calls that raised or were killed and never over a lock that was left behind,
  locks are given back.
* **Sync**: the checkpoint never passes a page that was not completely discovered,
  and only a page that succeeded moves it on unless syncs of one registry overlap.
* **Corpus**: a version on record has its bytes, nothing on record is changed,
  parsed text is the text of its version, an import or parse is recorded once and
  answered about that record, reruns succeed.
* **Import**: what an import answers is true of the record, ever after; a report
  comes with all its candidates at once.
* **Queue and desk**: an item made of several reads shows a fact at least as new as
  the decision next to it; nobody decides over an approval they were not shown.
* **Scoring**: artifact and row name one run per evaluation, also when processes
  race or die; a rerun completes what was interrupted; when a check begins, all that it
  passes is attested fact by fact and current at that moment.
* **Rules**: no disagreement and no finding goes silent when a candidate is added; a
  conflict with its rivals is all that an unchanged approval of a candidate gets past.

`PROJECT.json` lists the hazards behind these properties, each at its line,
including those no property covers yet.

## 2. Modules and how they correspond to the code

| Module | Models | Checked by | Proofs |
|---|---|---|---|
| `JobQueue` | `jobs/worker.py`, `jobs/retry.py` | `MCJobQueue` | `JobQueueProofs` |
| `WorkQueue` | abstract: what the job store promises of an input | as a property of `JobQueue` | `JobQueueProofs` |
| `CanonicalLedger` | abstract: one current fact per scope | as a property of `Review`; its actions in `Scoring` | `ReviewProofs`, `ReviewDeskProofs` |
| `Review` | `storage/review_repository.py`; abstractly, the arrival of candidates | `MCReview`; as a property of `ReviewDesk` | `ReviewProofs` |
| `FactImport` | `storage/fact_repository.py` | with `ReviewDesk` | `ReviewDeskProofs` |
| `ReviewDesk` | `review_queue.py`, `review candidates`; composes `FactImport` and `Review` | `MCReviewDesk` | `ReviewDeskProofs` |
| `ExtractOnce` | `extraction/llm/workflow.py` | `MCExtractOnce` | `ExtractOnceProofs` |
| `SyncCheckpoint` | `sync/service.py`, `storage/sync_repository.py` | `MCSyncCheckpoint` | `SyncCheckpointProofs` |
| `Corpus` | `ingestion/`, `storage/document_repository.py`, the two commands of `cli.py` | `MCCorpus` | `CorpusProofs` |
| `Scoring` | `scoring/`, the `score` commands of `cli.py`, `storage/baseline_artifacts.py`, `storage/evaluation_repository.py`; over `CanonicalLedger` | `MCScoring` | `ScoringProofs` |
| `ValidationRules` | `validation/extraction.py`, priority of `review_queue.py`, codes allowed by `decide` | with the next | `ProjectConsistencyProofs` |
| `ProjectConsistency` | `validation/consistency.py`, extends `ValidationRules` | `MCProjectConsistency` | `ProjectConsistencyProofs` |

Three layers hang together: `CanonicalLedger` is implemented by `Review`, and
`Review` by `ReviewDesk`, in which candidates come from `FactImport` and requests
from what the queue showed. `Scoring` takes the promotions of the ledger for the
reviewers, so that it depends on nothing but what the ledger promises. Beside them,
`JobQueue` implements `WorkQueue`.

Some modules also hold operators commented as "Bug:". They are plausible wrong
versions of the definition after them; they are no part of any specification.
Each property was confirmed to fail when its definition is replaced by one of
these, so that a passing run says something about the code.

### JobQueue and WorkQueue

`jobs` is the table, in insertion order; `next_retry_at` is kept as the time
left (`wait`), which `Tick` runs down. `enqueue` is `EnqueueSelect` (a row is
found, or the identity is remembered as missing) and `EnqueueInsert` (the
insert, which the unique constraint refuses if another producer was faster; that
caller gets an error and the table is unchanged). `claim_next` is
`ClaimSelect` and `ClaimUpdate`: the SELECT takes the oldest due row with its
attempt count, the UPDATE succeeds if the row is *still queued* and otherwise the claim
returns nothing. The split is real: the SELECT is not in the UPDATE's
transaction. `MarkSucceeded` and `MarkFailed` finish the job; the latter writes
the attempt count it *remembers* plus one, as the code does. `Crash` kills a
worker anywhere. `executions` is a history variable. Workers follow the protocol
of the repository's test: claim, run, mark.

`WorkQueue` is what is left of this for somebody who hands in inputs: an input is
new, queued, started, done, refused or exhausted; `Submit`, `Start`, `Report` and
`Lose` are all that happens to it; one worker runs it at a time, no worker runs two,
and it is exhausted after enough runs only. `JobQueue` implements it with the state
of an input read off its row (`InputState`), its runners off the workers, and
its runs as `executions`. Retries, delays, snapshots and lost claims are stutters or
part of a `Report`. It promises neither an upper bound on runs nor that a lost input
comes back, as the code does not (section 6).

### Review and CanonicalLedger

`decide` takes SQLite's writer lock first and rolls back on any exception, so one
call is one step, `Decide(r)`, of any request in any state. Its guard `Verdict`
goes through the checks in the code's order: a decision id on record answers the
recorded decision if the request is the same and is refused otherwise; unknown
candidates, a field that is not the candidate's, a stale `expected_current_fact_id`, a
value that the parsed evidence does not carry, and a crediting period whose start
would be after its end, are refused. Facts are named by the decision that made
them, because their ids are a hash of the decision id. That a parsed document
exists and that `validate_extraction` accepts a value are the constant relation
`Grounded`. `CanonicalLedger` is what the store promises its readers: a scope has
at most one current fact, replaced only by a promotion whose author *named* it, and
a replaced fact never comes back. `Review` implements it with `current` as the heads
and, as `replaced`, the `expected_current_fact_id` of the request that made each fact:
what the author named, not what the head happened to be, so a `decide` that overlooks
a stale expectation is no implementation. Candidates arrive by `ImportReport`: those
of one report, all at once.

### FactImport

`import_validation` as `store validation` calls it: `Find` (a report on record
answers the call if all stored texts agree, and is a conflict otherwise),
`FindSource` (the extraction run, which another validation run may have brought),
`Write` (all inserts, in one transaction, which a taken primary key rolls back),
`Kill`. The look-ups hold no lock. What is compared before the first look-up is
the constant relation `Sound`.

### ReviewDesk

The desk is one database with importers and desks. At a desk either an item of the
queue is put together, `Pick`, `ReadDecisions`, `ReadHead`, one action per SELECT
(`review candidates` skips one: `ReadHeadOnly`), and decided on (`DecideOnItem`,
which is `Decide` of `Review` with the fact the item showed), or the metrics are
counted, `CountCandidates`, `CountDecisions`, `ReportMetrics`. None of these reads
are in a transaction, so imports and decisions of other desks fall between any two.
`basis` remembers the item each decision was made on; `listed` and `shown` are the
moments of two reads and serve the properties only.

### ExtractOnce

One action per write or check of `extract_one_call` between the first look at the
cache and the `finally`: `MissCache`, `Acquire` (mkdir), `MakeRun` (before the
`try`), `Recheck`, `Call`, `WriteResponse`, `Ground`, `WriteResult`, `Publish`
(`_write_once`: link, then unlink the temporary file), `RecordFailure` (the
`except`), `Release` (the `finally`). Every file operation can fail; `Interrupt`
is an exception the `except` does not name; `Crash` runs no clause at all. The lock
of a process that is killed stays, and only `ClearLock`, the operator, removes it.
One that raises or is interrupted gives its lock back in the `finally`, whether or
not the call was charged (section 6 on what the documents say of that). The
`orphaned` flag remembers which locks were left behind.

### SyncCheckpoint

Pages are numbered; cursor 0 is `None`, both the start and what the last page
answers. `Load`, `DiscoverFails` or `DiscoverPage` (all documents listed, or
not), `RecordRun` (run and checkpoint in one transaction, without comparing the
checkpoint with the loaded one), `Abandon` (a kill or a failing transaction). Any
number of syncs of one registry may overlap. `base`, a history field, is the run
whose checkpoint a sync has loaded: it tells the syncs that another one overtook.

### Corpus

`ingest local`: `IngestStart` (the command's own look-up or a new source with its
own discovery time), `GetSource` (equal metadata is reused, different metadata
refused) and `AddSource`, `Copy` (bytes to a staging file while they are hashed),
`Link` (hard link to the digest's name; an existing file is kept), `FindVersion`
and `AddVersion`. `parse raw`: `ParseStart` (the version and its raw file exist),
`Parse`, `FindParsed`, `AddParsed`. Each
look-up and insert is a transaction of its own, protected by unique constraints
only. A command that raised is in phase `failed`; `Rerun` is the operator running
it again; `Crash` kills it, and the same rerun follows.

### Scoring

`ReportReadiness` reads the current facts. `CheckInputs` and `Judge` take a stored
readiness report and are refused unless the facts are still the same
(`IsCurrent`); the gates, the missing and unbound fields, the grounding of a
judgment and the summary of a dimension are operators, rule by rule. All three then
store an artifact: `Look`, and `Link`, which a faster process makes fail and which
then goes on with *that* process's run. A judgment gets its row after that,
`StoreRow`. `pipeline_run_id` is drawn per command and no part of an artifact's
identity; which of two runs wins is what `OneEvaluation` is about. `Approve` is a
promotion of `CanonicalLedger`, at any moment. `Fail` is a kill or a failing
operation, `Rerun` the operator, who is refused if the report is stale by then.

### ValidationRules and ProjectConsistency

`validate_extraction` as `CandidateIssues`, `Conflict`, `Issues` and `Status`; the
queue's `Priority`; the codes with which `decide` approves a value that is
validated on its own, `Approvable`. Values are typed as the code tells them apart
(text that is a date, a methodology, another text; integers; numbers; Booleans),
and looking up a quote in the parsed text is abstracted to its outcomes.
`ProjectConsistency` is `validate_project` over all runs of a project: date pairs,
applicability flags against values, energy balance, methodology, and differences
between documents. The rules are pure, but the properties are about what happens
to their reports when an extractor reports *one more* observation, so the state
is what each run has reported and `Observe` adds one observation.

## 3. Runs

| Run | Question | Properties |
|---|---|---|
| `job_queue` | two workers, two producers, two inputs, transient and permanent errors, a crash, under fairness | `TypeOK`, `SingleExecution`, `DeadLetterEarned`, `ImplementsQueue`, `SettledIsFinal`, `SettledOrStranded` |
| `job_queue_crash` | does every input settle in spite of one crash? (violation) | `EventuallySettled` |
| `job_queue_retry` | is an input run at most `max_attempts` times? (violation) | `BoundedExecutions` |
| `review` | every order of four decisions over three fields | `TypeOK`, `HeadIsLatest`, `ChainedHistory`, `CreditingPeriodOrdered`, `ImmutableHistory`, `ImplementsLedger` |
| `review_desk` | two importers and two desks at once: imports, queue items, decisions, metrics | `TypeOK`, `AnswersHold`, `ItemIsRecent`, `NoUnseenApproval`, `ImplementsReview` |
| `review_metrics` | do the metrics always answer? (violation) | `MetricsAnswer` |
| `extract_once` | three processes and one input, a kill, two faults | `TypeOK`, `OneAtATime`, `LockHasOwner`, `RepeatNeedsFailure` |
| `extract_once_failed` | does a failed call leave no success result? (violation) | `FailedRunHasNoResult` |
| `sync` | two overlapping syncs, two registries, three pages, four runs | `TypeOK`, `CursorEarned`, `OnlySuccessAdvances` |
| `corpus` | two processes, four commands, two failures anywhere | `TypeOK`, `VersionHasBytes`, `TextHasProvenance`, `AnswerIsOwn`, `ImmutableRecords`, `RerunsSucceed` |
| `scoring` | two processes run readiness, checks and judgments while a fact is replaced and one of them fails | `TypeOK`, `OneEvaluation`, `AnswerIsStored`, `AttestedWhenChecked`, `JudgmentsCompleted` |
| `rules` | every set of up to four of fourteen observations in three runs of two documents | `ReportsAreValid` (includes `TypeOK`), `DisagreementSurfaces`, `OnlyConflictEscapes`, `NothingSilenced`, `UrgencyKept` |

What they show beyond the obvious:

* **`job_queue`**: claims lose updates of the attempt count (see section 6), and
  still the loss is one-sided. A job is never given up early: a dead letter for a
  transient error stands for at least `max_attempts` real executions. And although
  counts can be set back, every input settles; only a crash strands one, and it
  strands no more than the one job the worker ran (`SettledOrStranded`). What remains
  is a work queue (`ImplementsQueue`): two producers that insert at once make one
  input of it, and a claim that lost its race is no step of the queue at all.
* **`review`**: the optimistic check on `expected_current_fact_id` is enough for a linear
  history per scope, also for resent requests and requests prepared long ago; the
  crediting-period rule holds although start and end are approved separately.
* **`review_desk`**: the reads of an item need no transaction. The decisions are
  read *before* the head, so an approval that falls in between makes the item show
  a newer fact with an older decision, never the reverse; and whoever then decides is
  caught by the check on the expected fact. That two validation runs over one
  extraction race for its row costs one of them an error, never half a report.
* **`extract_once`**: the second look at the cache is what prevents the second
  charge of an input that succeeded, and the lock that stays after a kill is what
  prevents it there. An input *is* charged again after calls that raised, by an
  interrupt too, and once an operator has cleared the lock of a killed one;
  `RepeatNeedsFailure` says that nothing else leads to a second charge.
* **`sync`**: an overlapping sync can move the checkpoint *back*, and that is
  safe: pages are replayed. What it can never do is jump over a page. That only a
  page that succeeded moves the checkpoint, as the runbook has it, holds of every
  sync that was not overtaken (`OnlySuccessAdvances`).
* **`corpus`**: `VersionHasBytes` rests on the order raw file, then version row;
  `RerunsSucceed` on every step accepting what an earlier try has already done;
  `AnswerIsOwn` on the unique constraints, which leave one row to answer with.
* **`scoring`**: a judgment killed between artifact and row is not lost: the rerun
  draws another run id, finds the artifact and indexes *its* run. A context that
  attests a fact which has been replaced since passes nothing, because the gates
  compare it with the facts of the report and the command the report with the
  current ones: `AttestedWhenChecked` needs both.
* **`rules`**: a reported difference can disappear when a candidate is added,
  because two documents with the same two rivals compare as equal, and a date pair
  is withdrawn when one of its dates gets a rival. `NothingSilenced` and
  `DisagreementSurfaces` show that `candidate_conflict` then takes over in the
  report of each document: neither rule set would do alone. A pair that was
  reported as incomplete may be completed, and is excepted. `OnlyConflictEscapes`
  compares the lists of codes that `decide` and the queue keep apart: a contested
  candidate, at 100 in the queue, can be approved as it stands, and no other
  candidate above 40 can.

## 4. Bounds, fairness and deadlock

Every bound is a constant or an operator named in the guard it limits:
`MaxCrashes`, `MaxRuns`, `MaxFaults`, `MaxCommands`, `MaxFailures`,
`MaxObservations`, and in `Review` the number of decision ids.

* *Jobs*: three attempts let a stale count be one or two behind; a maximal delay
  of 2 with base 1 cuts the exponential off; the second input is there to tell
  jobs from identities. One crash is enough, as a crashed worker leaves nothing in
  memory. There is no symmetry, which would be unsound for liveness.
* *Review*: four decisions are a start, an end, one replacement and one stale or
  resent request; a third field shows that scopes do not interfere. One project,
  since no check of `decide` reads two projects.
* *Desk*: two reports over one extraction run, with one candidate each in one
  field, and a third report that is one of them altered; two rows the extraction run
  may be stored with; two importers, so that each look-up can be overtaken; two desks, so
  that one can decide between two reads of the other; two decisions, the one that
  intervenes and the one it affects. One value, since which one is approved is
  the matter of `review`.
* *Extraction*: one key, as nothing is shared between keys; three processes so
  that one can complete and a second fail while a third waits on its first look.
* *Sync*: three pages are the least in which a cursor can skip a page and wrap
  around; four runs let the fast sync wrap while the slow one holds its cursor.
* *Corpus*: one source with two contents, one content under two sources, two
  metadata values; four commands on two processes let every pair overlap.
* *Scoring*: six fields with one fact each, of which the reported reduction can be
  replaced once: what a report, a context or a judgment then disagrees with. One
  context and one request (a judgment of two criteria, in a dimension that is
  completed and one that is not), as commands with different inputs share nothing;
  two processes and one failure, so that one links between the look and the link
  of the other or dies between its artifact and its row.
* *Rules*: an issue links at most a few candidates; four observations are a pair
  in each of two documents. The sample has a value for each rule and each way of
  disagreeing.

The specifications themselves have no bound on processes, inputs or values, and
the proofs hold for all of them.

**Fairness.** `JobQueue!Fairness` is weak fairness of each worker's own steps (it
polls, its handler ends, it reports), of a producer that has begun to insert and
of the clock. The repository has no worker loop, so this is what it must provide;
nothing is assumed about which job a claim finds, beyond the code's order.
`Corpus!FairSpec` and `Scoring!FairSpec` are weak fairness of each process's
current command: a process runs on, and a command that failed or died is run again.
Nobody is assumed to start a command or to approve anything. Failures are finitely
many by `MaxFailures`; with unboundedly many, nothing could be promised.

**Deadlock** is checked in `scoring`, where a command can always be started or go on.
Elsewhere it is not: queues with nothing enqueued, processes without a further
command and bounds that are used up are legitimate ends.

## 5. Proofs

All proofs are checked by TLAPS to the last leaf. They hold for every value of
the constants that the module's assumption admits: any number of workers,
reviewers, syncs, importers, processes, inputs, pages, attempts, crashes, and any
observations. Each follows one plan: an inductive invariant `IInv` of named parts, one
lemma per action, and theorems that read the properties off. Every property of a
passing run that is not liveness is proved.

**JobQueueProofs**, from `PolicyAssumption` (positive `max_attempts`, delays are
naturals, the null value is no identity or error code). The inductive invariant
adds to the properties
`OneRowPerIdentity` (the unique constraint, without which two rows of one input
could run), `ActiveOnARow` (a claim is about an existing row with an attempt
left), `RunningIsMarked` (a worker that runs a job has it in status running, so
the conditional update fails for all others), `OneRunner`, and
`AttemptsWereExecuted`: every attempt count, in a row *or in a worker's snapshot*,
is at most the number of real executions. That last one is why stale counts are
harmless in one direction. `QueueImplemented` is the refinement of `WorkQueue`.
Every input has the state of its only row (`InputStates`), so a step that
changes one row moves one input (`OneRowMoves`) and a step that changes none moves
none (`OthersStutter`); each action then maps to one abstract action or to a stutter,
the conditional update to a stutter whenever the row is no longer queued. An
exhausted input has run often enough by `AttemptsWereExecuted`. `CrashesStrand`
counts: by `OneRunner` a step strands one job at most, and only a crash strands one.
`BoundedUnlessStale` and `BoundedForOneWorker` say when the number of executions is
bounded after all: if every claim is made on the count it has read, each execution
is in the count of its row (`EveryRunCounts`, the converse of `AttemptsWereExecuted`);
with one worker nobody else writes between its SELECT and its UPDATE. Theorems: `TypeCorrect`, `MutualExclusion`, `BudgetKept` (no queued row has used up
its attempts), `DeadLettersEarned`, `SettledForGood`, `QueueImplemented`,
`CrashesStrand`, `BoundedUnlessStale`, `BoundedForOneWorker`.

**ReviewProofs**, from `ReviewAssumption` (values are ordered like dates, the null
value is no id). A head is only known to be the latest approval if facts are the
approvals on record (`FactsAreApprovals`), heads are facts of their own scope
(`HeadsAreFacts`) and all decisions lie before the clock (`DecisionsArePast`).
`DecideEffect` states once what an accepted request changes; the lemmas on heads,
chain and period follow from it. Theorems: `TypeCorrect`, `HeadsAreLatest`,
`NoLostUpdate`, `PeriodsOrdered`, `HistoryImmutable`, and `LedgerImplemented`, the
refinement of `CanonicalLedger`: initial states map to initial states, each
decision to one promotion or to a stutter. The promotion is over the fact that the
request names (`DecideIsPromotion`), and that this one is current is what `decide`'s
check of it has to give; that no fact comes back rests on `ChainedHistory`: what an
author named was on record, and the new fact is not.

**SyncCheckpointProofs**, from `SyncAssumption` (natural bounds). The checkpoint is
written from what a sync remembers, so the invariant needs `CarriedIsEarned`: the
cursor a sync *carries* is also one that recorded runs have earned, and stays so
as runs are only added; and `CarriedAsLoaded`: as long as no other run was recorded
for its registry, the cursor a sync carries is the checkpoint's. Theorems:
`TypeCorrect`, `ReplaySafe`, `SuccessAdvances`.

**ReviewDeskProofs** has two parts. The import, from `ImportAssumption` (an id names
one run of one stage, the null value is no content): that answers stay true needs
`RecordIsWhole` (a report on record has both its runs: one transaction wrote all three)
and `WhatWasFound` (what an importer saw in a look-up has not changed when it writes);
both rest on rows never being changed. Theorems: `ImportTypeCorrect`,
`AnswersAreTrue`, `RecordOnlyGrows`.

The desk, from `DeskAssumption` (what `Review` assumes, and that candidate ids are
derived from their run), builds on both neighbours.
`DeskImplementsReview` is the refinement of `Review`: an import is the arrival of
candidates that were not there, since by `RecordIsWhole` its run had no report. So
the invariant of `ReviewProofs` holds at the desk (`ReviewInvariant`), and so do the
properties of `Review` (`DeskKeepsReview`) and the refinement of `CanonicalLedger`
(`DeskImplementsLedger`), all by instantiation of the theorems of `ReviewProofs`.
`ItemsAreRecent` and `ApprovalsAreSeen` follow from `DInv`: an item's
fact was current when the item was completed (`ItemOK`), which later decisions
cannot change (`PastStays`), and a decision is only accepted on the current fact.
`MetricsAnswerUnlessImported`: decisions are on candidates that were imported
(`DecisionsAreOnListed`), so the rows which the metrics have read are complete unless
an import commits between their reads. Also `TypeCorrect` and `AnswersStayHeld`.

**ExtractOnceProofs**, from `BoundsAssumption`. `OneAtATime` and `LockHasOwner` are
inductive together with `OrphanIsLock`, `OwnRun` (a process under way records in a run
directory of its own key that has no call yet when it calls) and `NoEntryYet` (from
the second look at the cache to the publication the entry stays empty). What the
records of a run say rests on two more: processes under way record in different run
directories (`RunsApart`), and a process has written exactly what the steps behind
it write (`RecordsInOrder`). `RepeatsNeedFailure` adds what an outcome says
(`OutcomesTell`: a success has left an entry, a reuse has paid nothing): when a
process calls, there is no entry, so an earlier charge was for no success, and it is
the only one past the lock, so it was for none under way.
`EntriesAreResults`: an entry names a complete run, since result and response come
before it and no file is removed; `EntriesStay`; `OneOutcomeIfPublished`: a run gets a
failure after its result only if its publication failed. Theorems: `TypeCorrect`,
`CallsExclude`, `LocksAreOwned`, `RepeatsNeedFailure`, `EntriesAreResults`,
`EntriesStay`, `OneOutcomeIfPublished`.

**CorpusProofs**, from `CorpusAssumption`. A raw file is whole and under its own hash
(`RawIsContent`), a version belongs to a source on record (`VersionHasSource`), and
`ImportOK` and `ParseOK` say for each phase of a command what it can rely on of its
earlier steps, whatever ran in between. That an answer names the only row of its kind
needs `NoDuplicates`, which the unique constraints keep when two commands insert at
once (`RowsAreUnique`). Theorems: `TypeCorrect`,
`VersionsHaveBytes`, `TextIsProven`, `AnswersAreOwn`, `RecordsAreImmutable`.

**ScoringProofs**, from `ScoringAssumption`. `HoldsArtifact`: a judgment between its
artifact and its row holds the run *of the artifact*, its own or that of a faster
process. `ChecksAreAttested` joins what the command compares (`ChecksReadCurrent`: the
report it reads is of the current facts) to what the gates compare
(`PassedIsAttested`: the facts of the report and those of the context). Theorems:
`TypeCorrect`, `EvaluationsAreOne`, `AnswersAreStored`, `ChecksAreAttested` and `SummariesValidate`: every summary of a dimension passes the
validators of its model, for every rubric and every request.

**ProjectConsistencyProofs**, from `ConsistencyAssumption` (observations as the rules
read them, a document version belongs to one source). The state is small and the
invariant says only that it is well typed and finite; the work is in the rules. One
fact carries most of it: an observation that is added changes what is said of the
others by `candidate_conflict` and nothing else (`OnlyConflictGrows`). So no candidate
is rejected by it (`RejectionStays`), the candidates that a rule compares only become
more (`ActiveGrows`), and priorities do not sink (`UrgencyIsKept`).
`DisagreementIsSurfaced`: if the reports do not differ from each other, each holds
both values (`CountsMoreThanOne` gives two members of a set that counts two), and
`RivalsAreContested`. For `NothingIsSilenced` each of the five rules has a lemma
(`DateTraced`, `ApplicabilityTraced`, `EnergyTraced`, `MethodologyTraced`,
`DifferenceTraced`): an issue is reported again, with the links it had, or the rule
gave up because a run that held one value of a field now holds two, and then all
of them are contested (`AgreedOrTraced`). Also `ValidReports` and `ApprovalEscapes`.

**Only model-checked** is liveness under fairness, which TLAPS does not prove:
`SettledOrStranded`, `RerunsSucceed`, `JudgmentsCompleted`. (The safety part of the
first, the count of stranded jobs, is proved.) Facts that need induction over data
(say, that the delays add up) are outside the prover's reach as well. No module uses
RECURSIVE operators.

## 6. Where code and documentation disagree

Four runs are expected to end in a violation. Each shows something a document or
comment says and the code does not do. The theorem named with each says that the
cause described is the only one: without it the statement holds (of the second,
the safety part; that all other inputs settle is model-checked as `SettledOrStranded`).

1. **`job_queue_retry`**, `jobs/worker.py:107`. `mark_failed` writes the attempt
   count read at the claim's SELECT plus one, and the claim's UPDATE tests only
   the status. If another worker claims and fails the job between SELECT and
   UPDATE, its attempt is overwritten and the input runs more often than
   `max_attempts`. `jobs/retry.py:1` promises "Finite retry decisions",
   `jobs/__init__.py:1` "bounded retry policy". Without a stale claim, or with one
   worker, it is bounded (`BoundedUnlessStale`, `BoundedForOneWorker`).
2. **`job_queue_crash`**, `jobs/worker.py:81`. No operation leads out of status
   running but the worker's own report. A worker that dies after its claim strands
   the job, and `enqueue` keeps answering with the stranded row.
   `jobs/worker.py:1` and `src/migrations/versions/0007_processing_jobs.py:1` speak
   of durable jobs for resumable workers. Nothing else strands a job
   (`CrashesStrand`).
3. **`extract_once_failed`**, `extraction/llm/workflow.py:296`. `result.json` is
   written before the cache entry is published; if publishing fails, `failed.json`
   joins it in the same run directory.
   `src/docs/validation/2026-09-17-slice-5-first-real-call.md:31` says that a failed
   call has no success result. No other failure and no kill leaves both
   (`OneOutcomeIfPublished`).
4. **`review_metrics`**, `review_queue.py:267`. The metrics read the candidates and
   then the decisions, not in one transaction. If a validation run is imported and one
   of its candidates decided on in between, the decision's candidate is not among
   those read and the look-up raises `KeyError`, which the command does not turn into
   an answer (`cli.py:187` catches `ValueError` and `OSError`). Line 229 of the same
   function expects such a decision and skips it, and
   `src/docs/learning/slice-8-review-queue.md:9` describes the command as plain counts.
   Decisions alone never do this (`MetricsAnswerUnlessImported`).

Two more statements of the documents do not hold of every step of the code. They have
no run of their own; the properties named say what holds instead.

* `src/docs/validation/2026-09-17-slice-5-first-real-call.md:51` says that an abnormal
  exit leaves the lock of its key, so that nothing is charged twice, until somebody has
  looked into it, and `src/docs/learning/05-llm-extraction-boundary.md:56` says the
  same of an abnormal interruption. That is so of a killed process. An exception that
  the `except` does not catch, such as a keyboard interrupt during the paid call,
  passes through the `finally` (`extraction/llm/workflow.py:315`), which removes the
  lock: there is neither a lock nor a failure record, and the next call is charged.
  `RepeatNeedsFailure` therefore counts an interrupted call among the failed ones.
* `src/docs/production/2026-09-18-registry-sync-runbook.md:18-19` says that only a page
  that succeeded advances the cursor. A sync that was overtaken writes back the cursor
  it loaded, so its failed page can move the checkpoint, back or, after the listing
  has started over, forth (`storage/sync_repository.py:58-63`). `OnlySuccessAdvances`
  excepts it, and `CursorEarned` shows that it passes no page that nobody completed.

## 7. What is not modelled

Parts of modelled components:

* The grounding of model replies, prompt assembly and HTTP transport: their
  outcome (accepted or refused) is a choice of `Call` and `Ground`.
* `write_snapshot` of the queue and the metrics, which is the look and the link of
  `Scoring` once more; the queue's sorting and limit and the metrics' arithmetic,
  which are pure.
* `latest_run` of the sync, which only reads. It takes the latest by time, which of two
  overlapping runs need not be the one that wrote the checkpoint last.
* `storage/object_store.py`, which no command uses, and
  `validation/production_gates.py`, which nothing calls.
* The keyword baseline and the policy loader of `scoring/`, which neither read nor
  write shared state.
* Decisions with one `created_at`, or a clock that is set back: the queue orders by
  that time and the code states no order beyond it.
* The second pooled connection that `decide` takes inside its transaction
  (`storage/review_repository.py:106`): whether there is one is decided by pool size
  and time-out, defaults of a library that appear nowhere in the code.
* The tables of one transaction are changed in one step; that they all change or
  none does is the database's promise.
* `decide` on PostgreSQL: `BEGIN IMMEDIATE` is SQLite syntax. The model is of
  SQLite, which the tests use.

Modelled without a property: an evaluation can be stored on facts that were
replaced after the command's comparison (`cli.py:345`). It names those facts and
nothing in the repository promises more.

Whole components:

* Gold data, comparison and sampling: offline evaluation of fixed files by pure
  functions; there is no state to relate and nothing runs beside them.
* The regular-expression baseline: what it matches is decided character by
  character, which no model over a few values tells apart.
* Parsing and OCR: I/O and image measurements around one loop.
* Registry adapters: response formats. Their paging contract is in `SyncCheckpoint`.
* API, argument parsing, configuration, schema export: wiring. The commands whose
  order of steps matters are modelled with the component they drive.
* Domain models: their validators are the sets of admissible inputs.

## 8. Plan

Done, in this order: `JobQueue`, `Review` with `CanonicalLedger`, `ExtractOnce`,
`SyncCheckpoint`, `Corpus`, `ValidationRules` with `ProjectConsistency`,
`FactImport`, `ReviewDesk`, `Scoring`, `WorkQueue`; proofs of all of them.

What is left, and would be next:

1. **A write-once store** as an abstract specification that the extraction cache, the
   raw store and the artifacts implement: all three use the look and the link.
2. **Two policies**: workers whose `max_attempts` differ
   (`jobs/worker.py:108`), should the repository come to say which one counts.
3. **Evaluation**: gold aggregation and comparison as operators checked against
   reference definitions.

## Running it

```
tlc -workers 2 -config MCReview.cfg MCReview
tlapm ReviewProofs.tla
```

Passing runs take from a few seconds to under three minutes each; the longest are
`rules`, `job_queue` and `scoring`. The proofs of a module take from a few
seconds to three minutes.
