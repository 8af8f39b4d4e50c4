------------------------------ MODULE JobQueue ------------------------------
(***************************************************************************)
(* The durable job store, src/src/catchain/jobs: JobStore over the table   *)
(* processing_jobs, and RetryPolicy.                                       *)
(*                                                                         *)
(* enqueue and claim_next both read before they write, and the read is not *)
(* in the transaction of the write (the SQLite driver opens one at the     *)
(* first INSERT or UPDATE; PostgreSQL's default isolation gives the same   *)
(* interleavings), so each is two steps here.  The worker loop is not in   *)
(* the repository: workers follow the protocol of its test and runbook,    *)
(* claim_next, then mark_succeeded or mark_failed on the claimed job.      *)
(*                                                                         *)
(* A job is its index in jobs, the order in which rows were created.       *)
(* next_retry_at is kept as the time left until it.                        *)
(***************************************************************************)
EXTENDS Naturals, Sequences, FiniteSets

CONSTANTS
  Workers,      \* processes that claim and run jobs
  Producers,    \* processes that enqueue
  Identities,   \* values of <<kind, input_identity>>
  ErrorCodes,   \* codes a failing handler may report
  MaxAttempts,  \* RetryPolicy.max_attempts
  BaseDelay,    \* RetryPolicy.base_delay_seconds, in clock ticks
  MaxDelay,     \* RetryPolicy.max_delay_seconds, in clock ticks
  MaxCrashes,   \* bound on worker crashes
  None          \* no identity, no error

Delay(attempt) ==
  LET exponential == BaseDelay * 2^attempt
  IN  IF exponential < MaxDelay THEN exponential ELSE MaxDelay

ASSUME PolicyAssumption ==
  /\ MaxAttempts \in Nat \ {0}
  /\ MaxCrashes \in Nat
  /\ None \notin Identities \cup ErrorCodes
  /\ \A attempt \in 1..MaxAttempts : Delay(attempt) \in Nat

VARIABLES
  jobs,        \* the rows of processing_jobs
  worker,      \* what each worker is doing, and the row as it read it
  producer,    \* the identity each producer found missing and will insert
  crashes,     \* number of crashes so far
  executions   \* history: how often work on each identity has been started

vars == <<jobs, worker, producer, crashes, executions>>

Queued  == {"pending", "retry"}
Settled == {"succeeded", "dead_letter"}
Status  == Queued \cup Settled \cup {"running"}

Row == [identity: Identities, status: Status, attempts: 0..MaxAttempts,
        wait: Nat, lastError: ErrorCodes \cup {None}]

\* job is 0 and attempts is 0 for an idle worker.
Idle == [phase |-> "idle", job |-> 0, attempts |-> 0]

Activity == [phase: {"idle", "selected", "running"}, job: Nat, attempts: 0..MaxAttempts]

TypeOK ==
  /\ jobs \in Seq(Row)
  /\ worker \in [Workers -> Activity]
  /\ producer \in [Producers -> Identities \cup {None}]
  /\ crashes \in 0..MaxCrashes
  /\ executions \in [Identities -> Nat]

Init ==
  /\ jobs = <<>>
  /\ worker = [w \in Workers |-> Idle]
  /\ producer = [p \in Producers |-> None]
  /\ crashes = 0
  /\ executions = [i \in Identities |-> 0]

-----------------------------------------------------------------------------
(* Enqueue *)

Known(i) == \E j \in DOMAIN jobs : jobs[j].identity = i

\* The SELECT of enqueue finds no row.  (When it finds one, that job is
\* returned and nothing changes.)
EnqueueSelect(p, i) ==
  /\ producer[p] = None
  /\ ~Known(i)
  /\ producer' = [producer EXCEPT ![p] = i]
  /\ UNCHANGED <<jobs, worker, crashes, executions>>

\* Bug: no UNIQUE (kind, input_identity), the insert always succeeds.
EnqueueInsertNoUnique(p) ==
  /\ producer[p] # None
  /\ producer' = [producer EXCEPT ![p] = None]
  /\ jobs' = Append(jobs, [identity |-> producer[p], status |-> "pending",
                           attempts |-> 0, wait |-> 0, lastError |-> None])
  /\ UNCHANGED <<worker, crashes, executions>>

\* The INSERT.  The unique constraint refuses a second row: the caller gets an
\* IntegrityError and the table is unchanged.
EnqueueInsert(p) ==
  /\ producer[p] # None
  /\ producer' = [producer EXCEPT ![p] = None]
  /\ jobs' = IF Known(producer[p])
             THEN jobs
             ELSE Append(jobs, [identity |-> producer[p], status |-> "pending",
                                attempts |-> 0, wait |-> 0, lastError |-> None])
  /\ UNCHANGED <<worker, crashes, executions>>

-----------------------------------------------------------------------------
(* Claim *)

Due == {j \in DOMAIN jobs : jobs[j].status \in Queued /\ jobs[j].wait = 0}

\* The SELECT of claim_next: the oldest queued job whose retry time has come.
ClaimSelect(w) ==
  /\ worker[w].phase = "idle"
  /\ \E j \in Due :
       /\ \A k \in Due : j <= k
       /\ worker' = [worker EXCEPT ![w] = [phase |-> "selected", job |-> j,
                                           attempts |-> jobs[j].attempts]]
  /\ UNCHANGED <<jobs, producer, crashes, executions>>

\* Bug: UPDATE ... WHERE job_id = ? without the status condition.
ClaimUpdateUnconditional(w) ==
  LET j == worker[w].job
  IN  /\ worker[w].phase = "selected"
      /\ jobs' = [jobs EXCEPT ![j].status = "running"]
      /\ worker' = [worker EXCEPT ![w].phase = "running"]
      /\ executions' = [executions EXCEPT ![jobs[j].identity] = @ + 1]
      /\ UNCHANGED <<producer, crashes>>

\* The conditional UPDATE of claim_next.  It tests the status and nothing else
\* of the row read before; the worker keeps attempts as it read it.
ClaimUpdate(w) ==
  LET j == worker[w].job
  IN  /\ worker[w].phase = "selected"
      /\ \/ /\ jobs[j].status \in Queued
            /\ jobs' = [jobs EXCEPT ![j].status = "running"]
            /\ worker' = [worker EXCEPT ![w].phase = "running"]
            /\ executions' = [executions EXCEPT ![jobs[j].identity] = @ + 1]
         \/ /\ jobs[j].status \notin Queued
            /\ worker' = [worker EXCEPT ![w] = Idle]
            /\ UNCHANGED <<jobs, executions>>
      /\ UNCHANGED <<producer, crashes>>

-----------------------------------------------------------------------------
(* Completion *)

PermanentErrors == {"invalid_pdf", "schema_invalid", "evidence_missing", "permission_denied"}

\* Bug: > for >=, one attempt too many.
RetriesOffByOne(attempt, code) == attempt <= MaxAttempts /\ code \notin PermanentErrors

\* Bug: gives up one attempt early.
RetriesTooFew(attempt, code) == attempt + 1 < MaxAttempts /\ code \notin PermanentErrors

\* RetryPolicy.next_attempt: whether the failure that completes this attempt is retried.
Retries(attempt, code) == attempt < MaxAttempts /\ code \notin PermanentErrors

MarkSucceeded(w) ==
  /\ worker[w].phase = "running"
  /\ jobs' = [jobs EXCEPT ![worker[w].job] =
                [@ EXCEPT !.status = "succeeded", !.lastError = None]]
  /\ worker' = [worker EXCEPT ![w] = Idle]
  /\ UNCHANGED <<producer, crashes, executions>>

\* Bug: a failure that is not retried is left in status running.
MarkFailedNoDeadLetter(w, code) ==
  LET attempt == worker[w].attempts + 1
  IN  /\ worker[w].phase = "running"
      /\ jobs' = IF Retries(attempt, code)
                 THEN [jobs EXCEPT ![worker[w].job] =
                        [@ EXCEPT !.status = "retry", !.attempts = attempt,
                                  !.wait = Delay(attempt), !.lastError = code]]
                 ELSE [jobs EXCEPT ![worker[w].job].lastError = code]
      /\ worker' = [worker EXCEPT ![w] = Idle]
      /\ UNCHANGED <<producer, crashes, executions>>

\* attempts is written from the worker's snapshot, not from the row.
MarkFailed(w, code) ==
  LET attempt == worker[w].attempts + 1
      retry   == Retries(attempt, code)
  IN  /\ worker[w].phase = "running"
      /\ jobs' = [jobs EXCEPT ![worker[w].job] =
                    [@ EXCEPT !.status    = IF retry THEN "retry" ELSE "dead_letter",
                              !.attempts  = attempt,
                              !.wait      = IF retry THEN Delay(attempt) ELSE 0,
                              !.lastError = code]]
      /\ worker' = [worker EXCEPT ![w] = Idle]
      /\ UNCHANGED <<producer, crashes, executions>>

-----------------------------------------------------------------------------
(* Environment *)

\* A worker process dies and comes back.  Nothing returns its job to the queue.
Crash(w) ==
  /\ crashes < MaxCrashes
  /\ worker[w] # Idle
  /\ crashes' = crashes + 1
  /\ worker' = [worker EXCEPT ![w] = Idle]
  /\ UNCHANGED <<jobs, producer, executions>>

Tick ==
  /\ \E j \in DOMAIN jobs : jobs[j].wait > 0
  /\ jobs' = [j \in DOMAIN jobs |->
                [jobs[j] EXCEPT !.wait = IF @ > 0 THEN @ - 1 ELSE 0]]
  /\ UNCHANGED <<worker, producer, crashes, executions>>

Work(w) ==
  \/ ClaimSelect(w)
  \/ ClaimUpdate(w)
  \/ MarkSucceeded(w)
  \/ \E code \in ErrorCodes : MarkFailed(w, code)

Next ==
  \/ \E p \in Producers, i \in Identities : EnqueueSelect(p, i)
  \/ \E p \in Producers : EnqueueInsert(p)
  \/ \E w \in Workers : Work(w) \/ Crash(w)
  \/ Tick

Spec == Init /\ [][Next]_vars

\* A worker loop keeps polling and every handler ends, a producer that has read
\* goes on to insert, and the clock runs.
Fairness ==
  /\ \A w \in Workers : WF_vars(Work(w))
  /\ \A p \in Producers : WF_vars(EnqueueInsert(p))
  /\ WF_vars(Tick)

FairSpec == Spec /\ Fairness

-----------------------------------------------------------------------------
(* Properties *)

Running(w, j) == worker[w].phase = "running" /\ worker[w].job = j

Executing(w, i) ==
  worker[w].phase = "running" /\ jobs[worker[w].job].identity = i

\* Two workers never run the same input at once, whatever the interleaving of
\* the reads and writes of enqueue (worker.py:33-54) and claim_next (:63-84).
SingleExecution ==
  \A v, w \in Workers, i \in Identities : Executing(v, i) /\ Executing(w, i) => v = w

\* An input is dead-lettered for a transient error only after it really was
\* executed max_attempts times: lost updates of attempts never shorten the
\* budget (worker.py:107-119, retry.py:22).
DeadLetterEarned ==
  \A j \in DOMAIN jobs :
    /\ jobs[j].status = "dead_letter"
    /\ jobs[j].lastError \notin PermanentErrors
    => executions[jobs[j].identity] >= MaxAttempts

KeepsSettled ==
  \A j \in DOMAIN jobs :
    jobs[j].status \in Settled =>
      /\ [jobs'[j] EXCEPT !.wait = 0] = [jobs[j] EXCEPT !.wait = 0]
      /\ executions'[jobs[j].identity] = executions[jobs[j].identity]

\* Once an input has succeeded or been dead-lettered no worker starts it again
\* and its outcome never changes: re-enqueueing reuses the finished job
\* (worker.py:39) and a late conditional update misses it (worker.py:79).  (The
\* time left until a leftover next_retry_at still runs down.)
SettledIsFinal == [][KeepsSettled]_vars

\* Jobs in status running that nobody runs.
Stranded == {j \in DOMAIN jobs : jobs[j].status = "running" /\ ~\E w \in Workers : Running(w, j)}

\* A worker that dies strands the job it runs, and nothing else strands one: every
\* other enqueued input is settled in the end, also when stale claims set its
\* attempt count back (worker.py:63-119).
SettledOrStranded ==
  \A i \in Identities :
    Known(i) ~> \E j \in DOMAIN jobs :
                  /\ jobs[j].identity = i
                  /\ \/ jobs[j].status \in Settled
                     \/ j \in Stranded /\ Cardinality(Stranded) <= crashes

\* Every enqueued job is eventually settled.
EventuallySettled ==
  \A i \in Identities :
    Known(i) ~> \E j \in DOMAIN jobs : jobs[j].identity = i /\ jobs[j].status \in Settled

\* retry.py:1 and jobs/__init__.py:1 promise bounded retry: an input is run
\* max_attempts times at most.
BoundedExecutions == \A i \in Identities : executions[i] <= MaxAttempts

-----------------------------------------------------------------------------
(* The promise of the store, and how the rows and the workers keep it *)

RowOf(i) == CHOOSE j \in DOMAIN jobs : jobs[j].identity = i

\* Where an input is, from its row.
StateOf(row) ==
  CASE row.status \in Queued      -> "queued"
    [] row.status = "running"     -> "started"
    [] row.status = "succeeded"   -> "done"
    [] row.status = "dead_letter" ->
         IF row.lastError \in PermanentErrors THEN "refused" ELSE "exhausted"

InputState(i) == IF Known(i) THEN StateOf(jobs[RowOf(i)]) ELSE "new"

\* The workers that run an input.
Runners(i) == {w \in Workers : Executing(w, i)}

Queue == INSTANCE WorkQueue WITH
  Items   <- Identities,
  Enough  <- MaxAttempts,
  state   <- [i \in Identities |-> InputState(i)],
  runners <- [i \in Identities |-> Runners(i)],
  runs    <- executions

\* Producers and workers that read before they write, and stale snapshots that are
\* written back, still make a work queue: one worker to an input, no outcome is
\* undone, and nothing is given up too early (worker.py:32-119, retry.py:22).
ImplementsQueue == Queue!Spec
=============================================================================
