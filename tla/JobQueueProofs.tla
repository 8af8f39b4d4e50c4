--------------------------- MODULE JobQueueProofs ---------------------------
(***************************************************************************)
(* Proofs about JobQueue, for any number of workers, producers, inputs and *)
(* crashes and any retry policy.                                           *)
(***************************************************************************)
EXTENDS JobQueue, SequenceTheorems, FiniteSetTheorems, TLAPS

(***************************************************************************)
(* The inductive invariant.  SingleExecution needs one row per identity    *)
(* and the status running of every job somebody runs; DeadLetterEarned     *)
(* needs every recorded attempt, in a row or in a worker's snapshot, to    *)
(* stand for an execution of its own.                                      *)
(***************************************************************************)
OneRowPerIdentity ==
  \A j, k \in DOMAIN jobs : jobs[j].identity = jobs[k].identity => j = k

ActiveOnARow ==
  \A w \in Workers : worker[w].phase # "idle" =>
    /\ worker[w].job \in DOMAIN jobs
    /\ worker[w].attempts < MaxAttempts

RunningIsMarked ==
  \A w \in Workers : worker[w].phase = "running" => jobs[worker[w].job].status = "running"

OneRunner ==
  \A v, w \in Workers :
    /\ worker[v].phase = "running"
    /\ worker[w].phase = "running"
    /\ worker[v].job = worker[w].job
    => v = w

\* Whatever a stale snapshot writes back, a queued job still has an attempt left
\* (worker.py:107-109).
RetryBudget ==
  \A j \in DOMAIN jobs : jobs[j].status \in Queued => jobs[j].attempts < MaxAttempts

AttemptsWereExecuted ==
  /\ \A j \in DOMAIN jobs : jobs[j].attempts <= executions[jobs[j].identity]
  /\ \A w \in Workers :
       /\ worker[w].phase = "selected" =>
            worker[w].attempts <= executions[jobs[worker[w].job].identity]
       /\ worker[w].phase = "running" =>
            worker[w].attempts + 1 <= executions[jobs[worker[w].job].identity]

IInv ==
  /\ TypeOK
  /\ OneRowPerIdentity
  /\ ActiveOnARow
  /\ RunningIsMarked
  /\ OneRunner
  /\ RetryBudget
  /\ AttemptsWereExecuted
  /\ DeadLetterEarned

-----------------------------------------------------------------------------

\* What replacing one row does to the table.
LEMMA RowUpdate ==
  ASSUME NEW rows \in Seq(Row), NEW j \in DOMAIN rows, NEW r \in Row
  PROVE  LET new == [rows EXCEPT ![j] = r]
         IN  /\ new \in Seq(Row)
             /\ DOMAIN new = DOMAIN rows
             /\ new[j] = r
             /\ \A k \in DOMAIN rows : k # j => new[k] = rows[k]
<1>1. DOMAIN rows = 1..Len(rows) BY LenProperties
<1>2. [rows EXCEPT ![j] = r] \in Seq(Row) BY <1>1, ExceptSeq
<1>3. QED BY <1>2

\* What inserting a row does to the table.
LEMMA RowInsert ==
  ASSUME NEW rows \in Seq(Row), NEW r \in Row
  PROVE  LET new == Append(rows, r)
         IN  /\ new \in Seq(Row)
             /\ DOMAIN new = DOMAIN rows \cup {Len(rows) + 1}
             /\ new[Len(rows) + 1] = r
             /\ \A k \in DOMAIN rows : new[k] = rows[k]
<1>1. QED OBVIOUS

\* A failed attempt that is retried waits a natural number of ticks.
LEMMA DelayType == \A attempt \in 1..MaxAttempts : Delay(attempt) \in Nat
  BY PolicyAssumption

-----------------------------------------------------------------------------

LEMMA InitIInv == Init => IInv
<1> SUFFICES ASSUME Init PROVE IInv OBVIOUS
<1> USE DEF Init
<1>1. TypeOK
  BY PolicyAssumption, EmptySeq DEF TypeOK, Activity, Idle
<1>2. DOMAIN jobs = {} OBVIOUS
<1>3. QED
  BY <1>1, <1>2 DEF IInv, OneRowPerIdentity, ActiveOnARow, RunningIsMarked, OneRunner,
    RetryBudget, AttemptsWereExecuted, DeadLetterEarned, Idle

LEMMA EnqueueKeepsIInv ==
  ASSUME IInv, NEW p \in Producers,
         \/ \E i \in Identities : EnqueueSelect(p, i)
         \/ EnqueueInsert(p)
  PROVE  IInv'
<1> USE DEF IInv
<1>1. CASE \E i \in Identities : EnqueueSelect(p, i)
  BY <1>1 DEF EnqueueSelect, TypeOK, OneRowPerIdentity, ActiveOnARow, RunningIsMarked, OneRunner,
    RetryBudget, AttemptsWereExecuted, DeadLetterEarned
<1>2. CASE EnqueueInsert(p) /\ Known(producer[p])
  BY <1>2 DEF EnqueueInsert, TypeOK, OneRowPerIdentity, ActiveOnARow, RunningIsMarked, OneRunner,
    RetryBudget, AttemptsWereExecuted, DeadLetterEarned
<1>3. CASE EnqueueInsert(p) /\ ~Known(producer[p])
  <2> DEFINE r == [identity |-> producer[p], status |-> "pending",
                   attempts |-> 0, wait |-> 0, lastError |-> None]
             n == Len(jobs) + 1
  <2>1. /\ r \in Row
        /\ jobs' = Append(jobs, r)
        /\ jobs \in Seq(Row)
        /\ producer[p] \in Identities
    BY <1>3, PolicyAssumption DEF EnqueueInsert, TypeOK, Row, Status, Queued
  <2>2. /\ jobs' \in Seq(Row)
        /\ DOMAIN jobs' = DOMAIN jobs \cup {n}
        /\ jobs'[n] = r
        /\ \A k \in DOMAIN jobs : jobs'[k] = jobs[k]
    BY <2>1, RowInsert
  <2>3. n \notin DOMAIN jobs BY <2>1, LenProperties
  <2> HIDE DEF n
  <2>4. TypeOK'
    BY <1>3, <2>2 DEF TypeOK, EnqueueInsert
  <2>5. OneRowPerIdentity'
    BY <1>3, <2>2 DEF OneRowPerIdentity, Known
  <2>6. ActiveOnARow' /\ RunningIsMarked' /\ OneRunner'
    BY <1>3, <2>2 DEF ActiveOnARow, RunningIsMarked, OneRunner, EnqueueInsert
  <2>7. RetryBudget' /\ DeadLetterEarned'
    BY <1>3, <2>2, PolicyAssumption DEF RetryBudget, DeadLetterEarned, EnqueueInsert
  <2>8. AttemptsWereExecuted'
    <3>1. executions[producer[p]] \in Nat BY <2>1 DEF TypeOK
    <3>2. QED BY <1>3, <2>2, <3>1 DEF AttemptsWereExecuted, ActiveOnARow, EnqueueInsert
  <2>9. QED BY <2>4, <2>5, <2>6, <2>7, <2>8
<1>4. QED BY <1>1, <1>2, <1>3 DEF EnqueueInsert

LEMMA ClaimKeepsIInv ==
  ASSUME IInv, NEW w \in Workers, ClaimSelect(w) \/ ClaimUpdate(w)
  PROVE  IInv'
<1> USE DEF IInv
<1>0. /\ jobs \in Seq(Row)
      /\ worker \in [Workers -> Activity]
      /\ executions \in [Identities -> Nat]
      /\ DOMAIN jobs \subseteq Nat
      /\ \A j \in DOMAIN jobs : jobs[j] \in Row
  BY LenProperties DEF TypeOK
<1>1. CASE ClaimSelect(w)
  <2>1. PICK j \in Due : worker' = [worker EXCEPT ![w] =
          [phase |-> "selected", job |-> j, attempts |-> jobs[j].attempts]]
    BY <1>1 DEF ClaimSelect
  <2>2. /\ j \in DOMAIN jobs
        /\ jobs[j].status \in Queued
        /\ jobs[j].attempts \in 0..MaxAttempts
        /\ jobs[j].attempts < MaxAttempts
    BY <1>0, <2>1 DEF Due, Row, RetryBudget
  <2>3. TypeOK'
    BY <1>0, <1>1, <2>1, <2>2 DEF TypeOK, ClaimSelect, Activity
  <2>4. ActiveOnARow' /\ RunningIsMarked' /\ OneRunner'
    BY <1>0, <1>1, <2>1, <2>2 DEF ActiveOnARow, RunningIsMarked, OneRunner, ClaimSelect
  <2>5. AttemptsWereExecuted'
    BY <1>0, <1>1, <2>1, <2>2 DEF AttemptsWereExecuted, ClaimSelect
  <2>6. QED
    BY <1>1, <2>3, <2>4, <2>5
    DEF ClaimSelect, OneRowPerIdentity, RetryBudget, DeadLetterEarned
<1>2. CASE ClaimUpdate(w) /\ jobs[worker[w].job].status \in Queued
  <2> DEFINE j == worker[w].job
             i == jobs[j].identity
             r == [jobs[j] EXCEPT !.status = "running"]
  <2>1. /\ worker[w].phase = "selected"
        /\ j \in DOMAIN jobs
        /\ worker[w].attempts \in 0..MaxAttempts
        /\ i \in Identities
        /\ executions[i] \in Nat
        /\ jobs' = [jobs EXCEPT ![j] = r]
        /\ worker' = [worker EXCEPT ![w].phase = "running"]
        /\ executions' = [executions EXCEPT ![i] = executions[i] + 1]
        /\ UNCHANGED <<producer, crashes>>
    BY <1>0, <1>2 DEF ClaimUpdate, ActiveOnARow, Activity, Row
  <2>2. r \in Row BY <1>0, <2>1 DEF Row, Status
  <2>3. /\ jobs' \in Seq(Row)
        /\ DOMAIN jobs' = DOMAIN jobs
        /\ jobs'[j] = r
        /\ \A k \in DOMAIN jobs : k # j => jobs'[k] = jobs[k]
    BY <1>0, <2>1, <2>2, RowUpdate
  <2>4. /\ jobs'[j].identity = i
        /\ jobs'[j].status = "running"
        /\ jobs'[j].attempts = jobs[j].attempts
        /\ \A k \in DOMAIN jobs : jobs'[k].identity = jobs[k].identity
        /\ \A k \in DOMAIN jobs : jobs'[k].attempts = jobs[k].attempts
        /\ \A k \in Identities : executions'[k] >= executions[k]
        /\ executions'[i] = executions[i] + 1
    <3>1. /\ r.identity = i
          /\ r.status = "running"
          /\ r.attempts = jobs[j].attempts
      BY <1>0, <2>1 DEF Row
    <3>2. \A k \in Identities : executions[k] \in Nat BY <1>0
    <3>3. /\ \A k \in Identities : executions'[k] >= executions[k]
          /\ executions'[i] = executions[i] + 1
      BY <1>0, <2>1, <3>2
    <3> HIDE DEF r, i
    <3>4. QED BY <2>1, <2>3, <3>1, <3>3 DEF i
  <2>5. /\ worker'[w].job = j
        /\ worker'[w].phase = "running"
        /\ worker'[w].attempts = worker[w].attempts
        /\ \A v \in Workers : v # w => worker'[v] = worker[v]
        /\ worker' \in [Workers -> Activity]
    BY <1>0, <2>1 DEF Activity
  <2> HIDE DEF j, i, r
  <2>6. TypeOK'
    BY <1>0, <2>1, <2>3, <2>5 DEF TypeOK
  <2>7. OneRowPerIdentity'
    BY <2>3, <2>4 DEF OneRowPerIdentity
  <2>8. ActiveOnARow'
    BY <2>1, <2>3, <2>5 DEF ActiveOnARow, j
  <2>9. RunningIsMarked'
    BY <2>3, <2>4, <2>5 DEF RunningIsMarked, ActiveOnARow
  <2>10. OneRunner'
    <3>1. \A v \in Workers : worker[v].phase = "running" => worker[v].job # j
      BY <1>2 DEF RunningIsMarked, Queued, j
    <3>2. QED BY <2>5, <3>1 DEF OneRunner
  <2>11. RetryBudget'
    BY <2>3, <2>4 DEF RetryBudget, Queued
  <2>12. AttemptsWereExecuted'
    <3>1. \A k \in DOMAIN jobs : /\ jobs[k].attempts \in Nat
                                 /\ jobs[k].identity \in Identities
      BY <1>0, PolicyAssumption DEF Row
    <3>2. \A k \in Identities : executions[k] \in Nat /\ executions'[k] \in Nat
      BY <1>0, <2>6 DEF TypeOK
    <3>3. \A v \in Workers : worker[v].attempts \in Nat
      BY <1>0, PolicyAssumption DEF Activity
    <3>4. \A k \in DOMAIN jobs' : jobs'[k].attempts <= executions'[jobs'[k].identity]
      BY <2>3, <2>4, <3>1, <3>2 DEF AttemptsWereExecuted
    <3>5. worker'[w].attempts + 1 <= executions'[jobs'[worker'[w].job].identity]
      BY <2>1, <2>4, <2>5, <3>2, <3>3 DEF AttemptsWereExecuted, i, j
    <3>6. ASSUME NEW v \in Workers, v # w
          PROVE  /\ worker'[v].phase = "selected" =>
                      worker'[v].attempts <= executions'[jobs'[worker'[v].job].identity]
                 /\ worker'[v].phase = "running" =>
                      worker'[v].attempts + 1 <= executions'[jobs'[worker'[v].job].identity]
      <4> SUFFICES ASSUME worker[v].phase # "idle"
                   PROVE  /\ worker[v].phase = "selected" =>
                               worker[v].attempts <= executions'[jobs'[worker[v].job].identity]
                          /\ worker[v].phase = "running" =>
                               worker[v].attempts + 1 <= executions'[jobs'[worker[v].job].identity]
        BY <2>5, <3>6
      <4>1. worker[v].job \in DOMAIN jobs BY DEF ActiveOnARow
      <4>2. QED BY <2>4, <3>1, <3>2, <3>3, <4>1 DEF AttemptsWereExecuted
    <3>7. QED BY <2>5, <3>4, <3>5, <3>6 DEF AttemptsWereExecuted
  <2>13. DeadLetterEarned'
    <3>1. \A k \in DOMAIN jobs : jobs[k].identity \in Identities BY <1>0 DEF Row
    <3>2. \A k \in Identities : executions[k] \in Nat /\ executions'[k] \in Nat
      BY <1>0, <2>6 DEF TypeOK
    <3>3. QED
      BY <2>3, <2>4, <3>1, <3>2, PolicyAssumption DEF DeadLetterEarned
  <2>14. QED BY <2>6, <2>7, <2>8, <2>9, <2>10, <2>11, <2>12, <2>13
<1>3. CASE ClaimUpdate(w) /\ jobs[worker[w].job].status \notin Queued
  <2>1. /\ worker' = [worker EXCEPT ![w] = Idle]
        /\ UNCHANGED <<jobs, executions, producer, crashes>>
    BY <1>3 DEF ClaimUpdate
  <2>2. worker' \in [Workers -> Activity]
    BY <1>0, <2>1, PolicyAssumption DEF Activity, Idle
  <2>3. QED
    BY <1>0, <2>1, <2>2
    DEF TypeOK, OneRowPerIdentity, ActiveOnARow, RunningIsMarked, OneRunner, RetryBudget,
      AttemptsWereExecuted, DeadLetterEarned, Idle
<1>4. QED BY <1>1, <1>2, <1>3

\* What a worker leaves behind when it reports: its row rewritten, with attempts
\* either untouched or counting the execution that just ended.
LEMMA ReportKeepsIInv ==
  ASSUME IInv, NEW w \in Workers, NEW r \in Row,
         worker[w].phase = "running",
         r.identity = jobs[worker[w].job].identity,
         r.status # "running",
         r.status \in Queued => r.attempts < MaxAttempts,
         r.attempts \in {jobs[worker[w].job].attempts, worker[w].attempts + 1},
         r.status = "dead_letter" /\ r.lastError \notin PermanentErrors =>
           r.attempts = worker[w].attempts + 1 /\ r.attempts >= MaxAttempts,
         jobs' = [jobs EXCEPT ![worker[w].job] = r],
         worker' = [worker EXCEPT ![w] = Idle],
         UNCHANGED <<producer, crashes, executions>>
  PROVE  IInv'
<1> USE DEF IInv
<1> DEFINE j == worker[w].job
<1>1. /\ jobs \in Seq(Row)
      /\ worker \in [Workers -> Activity]
      /\ executions \in [Identities -> Nat]
      /\ j \in DOMAIN jobs
  BY DEF TypeOK, ActiveOnARow
<1>2. /\ jobs' \in Seq(Row)
      /\ DOMAIN jobs' = DOMAIN jobs
      /\ jobs'[j] = r
      /\ \A k \in DOMAIN jobs : k # j => jobs'[k] = jobs[k]
      /\ \A k \in DOMAIN jobs : jobs'[k].identity = jobs[k].identity
  BY <1>1, RowUpdate
<1>3. \A k \in DOMAIN jobs : jobs[k] \in Row BY <1>1, LenProperties
<1>4. /\ worker' \in [Workers -> Activity]
      /\ worker'[w] = Idle
      /\ \A v \in Workers : v # w => worker'[v] = worker[v]
  BY <1>1, PolicyAssumption DEF Activity, Idle
<1>5. \A v \in Workers : v # w /\ worker[v].phase = "running" => worker[v].job # j
  BY DEF OneRunner
<1>6. /\ worker[w].attempts + 1 <= executions[r.identity]
      /\ worker[w].attempts \in Nat
      /\ executions[r.identity] \in Nat
  <2>1. worker[w].attempts + 1 <= executions[r.identity]
    BY DEF AttemptsWereExecuted
  <2>2. worker[w].attempts \in Nat
    BY <1>1, PolicyAssumption DEF Activity
  <2>3. r.identity \in Identities
    BY DEF Row
  <2>4. QED BY <1>1, <2>1, <2>2, <2>3
<1> HIDE DEF j
<1>7. TypeOK' BY <1>2, <1>4 DEF TypeOK
<1>8. OneRowPerIdentity' BY <1>2 DEF OneRowPerIdentity
<1>9. ActiveOnARow' BY <1>2, <1>4 DEF ActiveOnARow, Idle
<1>10. RunningIsMarked'
  BY <1>2, <1>4, <1>5 DEF RunningIsMarked, ActiveOnARow, Idle
<1>11. OneRunner' BY <1>4 DEF OneRunner, Idle
<1>12. RetryBudget' BY <1>2 DEF RetryBudget
<1>13. AttemptsWereExecuted'
  <2>1. \A k \in DOMAIN jobs' : jobs'[k].attempts <= executions'[jobs'[k].identity]
    BY <1>2, <1>6, <1>1 DEF AttemptsWereExecuted, j
  <2>2. ASSUME NEW v \in Workers, worker'[v].phase # "idle"
        PROVE  /\ v # w
               /\ worker'[v] = worker[v]
               /\ jobs'[worker[v].job].identity = jobs[worker[v].job].identity
    BY <1>2, <1>4, <2>2 DEF Idle, ActiveOnARow
  <2>3. QED BY <2>1, <2>2 DEF AttemptsWereExecuted
<1>14. DeadLetterEarned'
  <2>1. executions[r.identity] >= MaxAttempts \/ r.status # "dead_letter"
          \/ r.lastError \in PermanentErrors
    BY <1>6, PolicyAssumption
  <2>2. QED BY <1>2, <2>1 DEF DeadLetterEarned
<1>15. QED BY <1>7, <1>8, <1>9, <1>10, <1>11, <1>12, <1>13, <1>14

LEMMA MarkKeepsIInv ==
  ASSUME IInv, NEW w \in Workers,
         MarkSucceeded(w) \/ \E code \in ErrorCodes : MarkFailed(w, code)
  PROVE  IInv'
<1> DEFINE j == worker[w].job
<1>1. /\ worker[w].phase = "running"
      /\ j \in DOMAIN jobs
      /\ jobs[j] \in Row
      /\ worker[w].attempts \in 0..MaxAttempts
      /\ worker[w].attempts < MaxAttempts
  <2>1. worker[w].phase = "running" BY DEF MarkSucceeded, MarkFailed
  <2>2. j \in DOMAIN jobs /\ worker[w].attempts < MaxAttempts
    BY <2>1 DEF IInv, ActiveOnARow
  <2>3. jobs[j] \in Row BY <2>2, LenProperties DEF IInv, TypeOK
  <2>4. worker[w].attempts \in 0..MaxAttempts BY DEF IInv, TypeOK, Activity
  <2>5. QED BY <2>1, <2>2, <2>3, <2>4
<1>2. CASE MarkSucceeded(w)
  <2> DEFINE r == [jobs[j] EXCEPT !.status = "succeeded", !.lastError = None]
  <2>1. /\ r \in Row
        /\ r.identity = jobs[j].identity
        /\ r.status = "succeeded"
        /\ r.attempts = jobs[j].attempts
    BY <1>1 DEF Row, Status, Settled
  <2>2. /\ jobs' = [jobs EXCEPT ![j] = r]
        /\ worker' = [worker EXCEPT ![w] = Idle]
        /\ UNCHANGED <<producer, crashes, executions>>
    BY <1>2 DEF MarkSucceeded
  <2> HIDE DEF r
  <2>3. QED BY <1>1, <2>1, <2>2, ReportKeepsIInv DEF Queued
<1>3. ASSUME NEW code \in ErrorCodes, MarkFailed(w, code)
      PROVE  IInv'
  <2> DEFINE attempt == worker[w].attempts + 1
             retry == Retries(attempt, code)
             r == [jobs[j] EXCEPT !.status = IF retry THEN "retry" ELSE "dead_letter",
                                  !.attempts = attempt,
                                  !.wait = IF retry THEN Delay(attempt) ELSE 0,
                                  !.lastError = code]
  <2>1. attempt \in 1..MaxAttempts BY <1>1, PolicyAssumption
  <2>2. Delay(attempt) \in Nat BY <2>1, DelayType
  <2>3. /\ r \in Row
        /\ r.identity = jobs[j].identity
        /\ r.status = IF retry THEN "retry" ELSE "dead_letter"
        /\ r.attempts = attempt
        /\ r.lastError = code
    <3> HIDE DEF retry, attempt
    <3>1. attempt \in 0..MaxAttempts BY <2>1
    <3>2. QED BY <1>1, <2>2, <3>1 DEF Row, Status, Settled, Queued
  <2>4. /\ jobs' = [jobs EXCEPT ![j] = r]
        /\ worker' = [worker EXCEPT ![w] = Idle]
        /\ UNCHANGED <<producer, crashes, executions>>
    BY <1>3 DEF MarkFailed
  <2>5. /\ retry => attempt < MaxAttempts
        /\ ~retry /\ code \notin PermanentErrors => attempt >= MaxAttempts
    BY <2>1, PolicyAssumption DEF Retries
  <2> HIDE DEF r, retry
  <2>6. QED BY <1>1, <2>3, <2>4, <2>5, ReportKeepsIInv DEF Queued
<1>4. QED BY <1>2, <1>3

LEMMA CrashKeepsIInv ==
  ASSUME IInv, NEW w \in Workers, Crash(w)
  PROVE  IInv'
<1>1. /\ worker \in [Workers -> Activity]
      /\ worker' = [worker EXCEPT ![w] = Idle]
      /\ crashes' \in 0..MaxCrashes
      /\ UNCHANGED <<jobs, producer, executions>>
  BY PolicyAssumption DEF IInv, TypeOK, Crash
<1>2. worker' \in [Workers -> Activity]
  BY <1>1, PolicyAssumption DEF Activity, Idle
<1>3. QED
  BY <1>1, <1>2
  DEF IInv, TypeOK, OneRowPerIdentity, ActiveOnARow, RunningIsMarked, OneRunner, RetryBudget,
    AttemptsWereExecuted, DeadLetterEarned, Idle

LEMMA TickKeepsIInv ==
  ASSUME IInv, Tick
  PROVE  IInv'
<1>1. /\ jobs \in Seq(Row)
      /\ DOMAIN jobs = 1..Len(jobs)
      /\ Len(jobs) \in Nat
      /\ \A j \in DOMAIN jobs : jobs[j] \in Row
  BY LenProperties DEF IInv, TypeOK
<1> DEFINE ticked(j) == [jobs[j] EXCEPT !.wait = IF jobs[j].wait > 0 THEN jobs[j].wait - 1 ELSE 0]
<1>2. \A j \in DOMAIN jobs :
        /\ ticked(j) \in Row
        /\ ticked(j).identity = jobs[j].identity
        /\ ticked(j).status = jobs[j].status
        /\ ticked(j).attempts = jobs[j].attempts
        /\ ticked(j).lastError = jobs[j].lastError
  <2> TAKE j \in DOMAIN jobs
  <2> DEFINE left == IF jobs[j].wait > 0 THEN jobs[j].wait - 1 ELSE 0
  <2>1. jobs[j] \in Row BY <1>1
  <2>2. left \in Nat BY <2>1 DEF Row
  <2> HIDE DEF left
  <2>3. [jobs[j] EXCEPT !.wait = left] \in Row BY <2>1, <2>2 DEF Row
  <2>4. QED BY <2>1, <2>3 DEF Row, left
<1>3. jobs' = [j \in 1..Len(jobs) |-> ticked(j)] BY <1>1 DEF Tick
<1> HIDE DEF ticked
<1>4. /\ jobs' \in Seq(Row)
      /\ DOMAIN jobs' = DOMAIN jobs
      /\ \A j \in DOMAIN jobs : jobs'[j] = ticked(j)
  BY <1>1, <1>2, <1>3
<1>5. /\ DOMAIN jobs' = DOMAIN jobs
      /\ \A j \in DOMAIN jobs : /\ jobs'[j].identity = jobs[j].identity
                               /\ jobs'[j].status = jobs[j].status
                               /\ jobs'[j].attempts = jobs[j].attempts
                               /\ jobs'[j].lastError = jobs[j].lastError
      /\ UNCHANGED <<worker, producer, crashes, executions>>
  BY <1>2, <1>4 DEF Tick
<1>6. TypeOK' BY <1>4, <1>5 DEF IInv, TypeOK
<1>7. /\ OneRowPerIdentity'
      /\ ActiveOnARow'
      /\ RunningIsMarked'
      /\ OneRunner'
      /\ RetryBudget'
      /\ DeadLetterEarned'
  BY <1>5
  DEF IInv, OneRowPerIdentity, ActiveOnARow, RunningIsMarked, OneRunner, RetryBudget,
    DeadLetterEarned
<1>8. AttemptsWereExecuted'
  BY <1>5 DEF IInv, AttemptsWereExecuted, ActiveOnARow
<1>9. QED BY <1>6, <1>7, <1>8 DEF IInv

-----------------------------------------------------------------------------

LEMMA NextKeepsIInv == IInv /\ [Next]_vars => IInv'
<1> SUFFICES ASSUME IInv, [Next]_vars PROVE IInv' OBVIOUS
<1>1. CASE \E p \in Producers, i \in Identities : EnqueueSelect(p, i)
  BY <1>1, EnqueueKeepsIInv
<1>2. CASE \E p \in Producers : EnqueueInsert(p) BY <1>2, EnqueueKeepsIInv
<1>3. CASE \E w \in Workers : Work(w)
  BY <1>3, ClaimKeepsIInv, MarkKeepsIInv DEF Work
<1>4. CASE \E w \in Workers : Crash(w) BY <1>4, CrashKeepsIInv
<1>5. CASE Tick BY <1>5, TickKeepsIInv
<1>6. CASE UNCHANGED vars
  BY <1>6
  DEF vars, IInv, TypeOK, OneRowPerIdentity, ActiveOnARow, RunningIsMarked, OneRunner,
    RetryBudget, AttemptsWereExecuted, DeadLetterEarned
<1>7. QED BY <1>1, <1>2, <1>3, <1>4, <1>5, <1>6 DEF Next

LEMMA Inductive == Spec => []IInv
<1>1. QED BY InitIInv, NextKeepsIInv, PTL DEF Spec

\* The state of the job store and of its workers always has its type.
THEOREM TypeCorrect == Spec => []TypeOK
<1>1. IInv => TypeOK BY DEF IInv
<1>2. QED BY <1>1, Inductive, PTL

\* claim_next and enqueue never let two workers run one input at a time.
THEOREM MutualExclusion == Spec => []SingleExecution
<1>1. IInv => SingleExecution
  BY DEF IInv, SingleExecution, Executing, OneRunner, ActiveOnARow, OneRowPerIdentity
<1>2. QED BY <1>1, Inductive, PTL

\* A queued job always has an attempt left.
THEOREM BudgetKept == Spec => []RetryBudget
<1>1. IInv => RetryBudget BY DEF IInv
<1>2. QED BY <1>1, Inductive, PTL

\* A job is dead-lettered for a transient error only after max_attempts executions.
THEOREM DeadLettersEarned == Spec => []DeadLetterEarned
<1>1. IInv => DeadLetterEarned BY DEF IInv
<1>2. QED BY <1>1, Inductive, PTL

\* What a step does to a settled job, under the invariant.
LEMMA SettledStep ==
  ASSUME IInv, Next, NEW j \in DOMAIN jobs, jobs[j].status \in Settled
  PROVE  /\ [jobs'[j] EXCEPT !.wait = 0] = [jobs[j] EXCEPT !.wait = 0]
         /\ executions'[jobs[j].identity] = executions[jobs[j].identity]
<1>1. /\ jobs \in Seq(Row)
      /\ jobs[j] \in Row
      /\ jobs[j].status \notin Queued \cup {"running"}
  BY LenProperties DEF IInv, TypeOK, Settled, Queued
<1>2. CASE \E p \in Producers, i \in Identities : EnqueueSelect(p, i)
  BY <1>2 DEF EnqueueSelect
<1>3. CASE \E p \in Producers : EnqueueInsert(p)
  <2>1. PICK p \in Producers : EnqueueInsert(p) BY <1>3
  <2>2. executions' = executions BY <2>1 DEF EnqueueInsert
  <2>3. jobs'[j] = jobs[j]
    <3> DEFINE r == [identity |-> producer[p], status |-> "pending",
                     attempts |-> 0, wait |-> 0, lastError |-> None]
    <3>1. r \in Row
      BY <2>1, PolicyAssumption DEF EnqueueInsert, IInv, TypeOK, Row, Status, Queued
    <3>2. jobs' = jobs \/ jobs' = Append(jobs, r) BY <2>1 DEF EnqueueInsert
    <3> HIDE DEF r
    <3>3. QED BY <1>1, <3>1, <3>2, RowInsert
  <2>4. QED BY <2>2, <2>3
<1>4. CASE \E w \in Workers : ClaimSelect(w) \/ Crash(w)
  BY <1>4 DEF ClaimSelect, Crash
<1>5. CASE \E w \in Workers : ClaimUpdate(w)
  <2>1. PICK w \in Workers : ClaimUpdate(w) BY <1>5
  <2>2. CASE jobs[worker[w].job].status \in Queued
    <3>1. /\ worker[w].job \in DOMAIN jobs
          /\ worker[w].job # j
      BY <1>1, <2>1, <2>2 DEF ClaimUpdate, IInv, ActiveOnARow
    <3>2. jobs[worker[w].job].identity # jobs[j].identity
      BY <3>1 DEF IInv, OneRowPerIdentity
    <3>3. jobs'[j] = jobs[j] BY <1>1, <2>1, <2>2, <3>1 DEF ClaimUpdate
    <3>4. jobs[j].identity \in Identities /\ executions \in [Identities -> Nat]
      BY <1>1 DEF IInv, TypeOK, Row
    <3>5. executions'[jobs[j].identity] = executions[jobs[j].identity]
      BY <2>1, <2>2, <3>2, <3>4 DEF ClaimUpdate
    <3>6. QED BY <3>3, <3>5
  <2>3. CASE jobs[worker[w].job].status \notin Queued BY <2>1, <2>3 DEF ClaimUpdate
  <2>4. QED BY <2>2, <2>3
<1>6. CASE \E w \in Workers : MarkSucceeded(w) \/ \E code \in ErrorCodes : MarkFailed(w, code)
  <2>1. PICK w \in Workers : MarkSucceeded(w) \/ \E code \in ErrorCodes : MarkFailed(w, code)
    BY <1>6
  <2>2. worker[w].job # j
    BY <1>1, <2>1 DEF MarkSucceeded, MarkFailed, IInv, RunningIsMarked
  <2>3. QED BY <2>1, <2>2 DEF MarkSucceeded, MarkFailed
<1>7. CASE Tick
  <2>1. jobs'[j] = [jobs[j] EXCEPT !.wait = IF jobs[j].wait > 0 THEN jobs[j].wait - 1 ELSE 0]
    BY <1>7 DEF Tick
  <2>2. QED BY <1>1, <1>7, <2>1 DEF Tick, Row
<1>8. QED BY <1>2, <1>3, <1>4, <1>5, <1>6, <1>7 DEF Next, Work

\* A finished job is never started again and its outcome never changes.
THEOREM SettledForGood == Spec => SettledIsFinal
<1>1. IInv /\ [Next]_vars => [KeepsSettled]_vars
  BY SettledStep DEF KeepsSettled
<1>2. QED BY <1>1, Inductive, PTL DEF Spec, SettledIsFinal


-----------------------------------------------------------------------------
(* The job store implements WorkQueue *)

\* An input is where its row says, and new without one.
InputsAreRows ==
  /\ \A j \in DOMAIN jobs : InputState(jobs[j].identity) = StateOf(jobs[j])
  /\ \A i \in Identities : ~Known(i) => InputState(i) = "new"

LEMMA InputStates == IInv => InputsAreRows
<1> SUFFICES ASSUME IInv, NEW j \in DOMAIN jobs
             PROVE  InputState(jobs[j].identity) = StateOf(jobs[j])
  BY DEF InputsAreRows, InputState
<1>1. RowOf(jobs[j].identity) \in DOMAIN jobs
        /\ jobs[RowOf(jobs[j].identity)].identity = jobs[j].identity
  BY DEF RowOf
<1>2. RowOf(jobs[j].identity) = j
  BY <1>1 DEF IInv, OneRowPerIdentity
<1> QED
  BY <1>2 DEF InputState, Known

\* Rows that are rewritten with the status and error they had leave an input where it was.
LEMMA SameRows ==
  ASSUME IInv, IInv', DOMAIN jobs' = DOMAIN jobs,
         \A j \in DOMAIN jobs : /\ jobs'[j].identity = jobs[j].identity
                                /\ jobs'[j].status = jobs[j].status
                                /\ jobs'[j].lastError = jobs[j].lastError
  PROVE  \A i \in Identities : InputState(i)' = InputState(i)
<1> SUFFICES ASSUME NEW i \in Identities PROVE InputState(i)' = InputState(i)
  OBVIOUS
<1>1. InputsAreRows /\ InputsAreRows'
  BY InputStates, PTL
<1>2. CASE Known(i)
  <2>1. PICK j \in DOMAIN jobs : jobs[j].identity = i
    BY <1>2 DEF Known
  <2>2. InputState(i) = StateOf(jobs[j]) /\ InputState(i)' = StateOf(jobs'[j])
    BY <1>1, <2>1 DEF InputsAreRows
  <2> QED
    BY <2>1, <2>2 DEF StateOf
<1>3. CASE ~Known(i)
  BY <1>1, <1>3 DEF InputsAreRows, Known
<1> QED
  BY <1>2, <1>3

\* One row is rewritten, that of input i; the others stay where they are.
LEMMA OneRowMoves ==
  ASSUME IInv, IInv', NEW j \in DOMAIN jobs, NEW r \in Row, NEW i \in Identities,
         r.identity = i, jobs[j].identity = i, jobs' = [jobs EXCEPT ![j] = r]
  PROVE  /\ InputState(i) = StateOf(jobs[j])
         /\ InputState(i)' = StateOf(r)
         /\ \A k \in Identities \ {i} : InputState(k)' = InputState(k)
         /\ \A n \in DOMAIN jobs : jobs'[n].identity = jobs[n].identity
<1>1. InputsAreRows /\ InputsAreRows'
  BY InputStates, PTL
<1>2. /\ DOMAIN jobs' = DOMAIN jobs
      /\ jobs'[j] = r
      /\ \A n \in DOMAIN jobs : n # j => jobs'[n] = jobs[n]
  BY RowUpdate DEF IInv, TypeOK
<1>3. InputState(i) = StateOf(jobs[j]) /\ InputState(i)' = StateOf(r)
  BY <1>1, <1>2 DEF InputsAreRows
<1>4. ASSUME NEW k \in Identities \ {i}
      PROVE  InputState(k)' = InputState(k)
  <2>1. CASE Known(k)
    <3>1. PICK n \in DOMAIN jobs : jobs[n].identity = k
      BY <2>1 DEF Known
    <3>2. n # j /\ jobs'[n] = jobs[n]
      BY <1>2, <3>1
    <3> QED
      BY <1>1, <1>2, <3>1, <3>2 DEF InputsAreRows
  <2>2. CASE ~Known(k)
    <3>1. ~Known(k)'
      BY <1>2, <2>2 DEF Known
    <3> QED
      BY <1>1, <2>2, <3>1 DEF InputsAreRows
  <2> QED
    BY <2>1, <2>2
<1> QED
  BY <1>2, <1>3, <1>4

\* What one input's move does to the functions of the work queue.
LEMMA OneMoves ==
  ASSUME NEW i \in Identities, NEW state, NEW runners,
         InputState(i)' = state, Runners(i)' = runners,
         \A k \in Identities \ {i} : InputState(k)' = InputState(k),
         \A k \in Identities \ {i} : Runners(k)' = Runners(k)
  PROVE  /\ [k \in Identities |-> InputState(k)]' =
              [[k \in Identities |-> InputState(k)] EXCEPT ![i] = state]
         /\ [k \in Identities |-> Runners(k)]' =
              [[k \in Identities |-> Runners(k)] EXCEPT ![i] = runners]
OBVIOUS

\* Steps of which the work queue sees nothing.
LEMMA Stutters ==
  ASSUME \A i \in Identities : InputState(i)' = InputState(i) /\ Runners(i)' = Runners(i),
         executions' = executions
  PROVE  UNCHANGED Queue!vars
BY DEF Queue!vars

\* Nobody runs an input unless its row says so, and then one worker does.
LEMMA RunnersOfRow ==
  ASSUME IInv, NEW w \in Workers, worker[w].phase = "running"
  PROVE  /\ Runners(jobs[worker[w].job].identity) = {w}
         /\ \A k \in Identities : w \in Runners(k) => k = jobs[worker[w].job].identity
<1>1. SingleExecution
  BY DEF IInv, SingleExecution, Executing, OneRunner, ActiveOnARow, OneRowPerIdentity
<1>2. worker[w].job \in DOMAIN jobs /\ jobs \in Seq(Row)
  BY DEF IInv, TypeOK, ActiveOnARow
<1>3. jobs[worker[w].job] \in Row
  BY <1>2, LenProperties
<1>4. jobs[worker[w].job].identity \in Identities
  BY <1>3 DEF Row
<1> QED
  BY <1>1, <1>4 DEF Runners, Executing, SingleExecution

LEMMA EnqueueIsSubmit ==
  ASSUME IInv, IInv', NEW p \in Producers, EnqueueInsert(p)
  PROVE  [Queue!Next]_Queue!vars
<1>1. CASE Known(producer[p])
  <2>1. UNCHANGED <<jobs, worker, executions>>
    BY <1>1 DEF EnqueueInsert
  <2> QED
    BY <2>1, Stutters DEF InputState, Known, RowOf, StateOf, Runners, Executing
<1>2. CASE ~Known(producer[p])
  <2> PICK i \in Identities : i = producer[p]
    BY DEF EnqueueInsert, IInv, TypeOK
  <2> DEFINE r == [identity |-> i, status |-> "pending",
                   attempts |-> 0, wait |-> 0, lastError |-> None]
             n == Len(jobs) + 1
  <2>1. /\ r \in Row
        /\ jobs \in Seq(Row)
        /\ jobs' = Append(jobs, r)
        /\ UNCHANGED <<worker, executions>>
    BY <1>2, PolicyAssumption DEF EnqueueInsert, IInv, TypeOK, Row, Status, Queued
  <2>2. /\ DOMAIN jobs' = DOMAIN jobs \cup {n}
        /\ jobs'[n] = r
        /\ \A k \in DOMAIN jobs : jobs'[k] = jobs[k]
    BY <2>1, RowInsert
  <2>3. r.identity = i /\ r.status = "pending"
    OBVIOUS
  <2>4. InputsAreRows /\ InputsAreRows'
    BY InputStates, PTL
  <2>5. StateOf(r) = "queued"
    BY <2>3 DEF StateOf, Queued
  <2> HIDE DEF n, r
  <2>6. InputState(i) = "new" /\ InputState(i)' = "queued"
    BY <1>2, <2>1, <2>2, <2>3, <2>4, <2>5 DEF InputsAreRows
  <2>7. ASSUME NEW k \in Identities \ {i}
        PROVE  InputState(k)' = InputState(k)
    <3>1. CASE Known(k)
      <4>1. PICK m \in DOMAIN jobs : jobs[m].identity = k
        BY <3>1 DEF Known
      <4> QED
        BY <2>2, <2>4, <4>1 DEF InputsAreRows
    <3>2. CASE ~Known(k)
      <4>1. ~Known(k)'
        BY <2>2, <2>3, <3>2 DEF Known
      <4> QED
        BY <2>4, <3>2, <4>1 DEF InputsAreRows
    <3> QED
      BY <3>1, <3>2
  <2>8. \A k \in Identities : Runners(k)' = Runners(k)
    <3>1. \A w \in Workers : worker[w].phase = "running" => worker[w].job \in DOMAIN jobs
      BY DEF IInv, ActiveOnARow
    <3> QED
      BY <2>1, <2>2, <3>1 DEF Runners, Executing
  <2>9. /\ [k \in Identities |-> InputState(k)]' =
              [[k \in Identities |-> InputState(k)] EXCEPT ![i] = "queued"]
        /\ [k \in Identities |-> Runners(k)]' = [k \in Identities |-> Runners(k)]
    BY <2>6, <2>7, <2>8
  <2>10. Queue!Submit(i)
    BY <2>1, <2>6, <2>9 DEF Queue!Submit
  <2> QED
    BY <2>10 DEF Queue!Next
<1> QED
  BY <1>1, <1>2

\* A worker's step matters to the runners of one input at most.
LEMMA OneWorkerMoves ==
  ASSUME IInv, NEW w \in Workers, NEW i,
         \A v \in Workers \ {w} : worker'[v] = worker[v],
         \A j \in DOMAIN jobs : jobs'[j].identity = jobs[j].identity,
         worker[w].phase = "running" => jobs[worker[w].job].identity = i,
         worker'[w].phase = "running" => jobs'[worker'[w].job].identity = i
  PROVE  \A k \in Identities \ {i} : Runners(k)' = Runners(k)
<1>1. \A v \in Workers : worker[v].phase = "running" => worker[v].job \in DOMAIN jobs
  BY DEF IInv, ActiveOnARow
<1>2. \A v \in Workers \ {w}, k \in Identities : Executing(v, k)' <=> Executing(v, k)
  BY <1>1 DEF Executing
<1>3. \A k \in Identities \ {i} : ~Executing(w, k) /\ ~Executing(w, k)'
  BY DEF Executing
<1> QED
  BY <1>2, <1>3 DEF Runners

LEMMA Exclusion == IInv => SingleExecution
BY DEF IInv, SingleExecution, Executing, OneRunner, ActiveOnARow, OneRowPerIdentity

LEMMA ClaimIsStart ==
  ASSUME IInv, IInv', NEW w \in Workers, ClaimUpdate(w)
  PROVE  [Queue!Next]_Queue!vars
<1> PICK j : j = worker[w].job
  OBVIOUS
<1>1. /\ worker[w].phase = "selected"
      /\ jobs \in Seq(Row) /\ j \in DOMAIN jobs /\ jobs[j] \in Row
      /\ worker \in [Workers -> Activity]
      /\ executions \in [Identities -> Nat]
  BY LenProperties DEF ClaimUpdate, IInv, TypeOK, ActiveOnARow
<1>2. CASE jobs[j].status \in Queued
  <2> PICK i \in Identities : i = jobs[j].identity
    BY <1>1 DEF Row
  <2>0. PICK r \in Row : r = [jobs[j] EXCEPT !.status = "running"]
    BY <1>1 DEF Row, Status
  <2>1. /\ jobs' = [jobs EXCEPT ![j] = r]
        /\ worker' = [worker EXCEPT ![w].phase = "running"]
        /\ executions' = [executions EXCEPT ![i] = @ + 1]
    BY <1>1, <1>2, <2>0 DEF ClaimUpdate
  <2>2. r.identity = i /\ r.status = "running"
    BY <1>1, <2>0 DEF Row
  <2>3. /\ InputState(i) = "queued" /\ InputState(i)' = "started"
        /\ \A k \in Identities \ {i} : InputState(k)' = InputState(k)
        /\ \A n \in DOMAIN jobs : jobs'[n].identity = jobs[n].identity
    <3>1. StateOf(jobs[j]) = "queued" /\ StateOf(r) = "started"
      BY <1>2, <2>2 DEF StateOf, Queued
    <3>2. /\ InputState(i) = StateOf(jobs[j]) /\ InputState(i)' = StateOf(r)
          /\ \A k \in Identities \ {i} : InputState(k)' = InputState(k)
          /\ \A n \in DOMAIN jobs : jobs'[n].identity = jobs[n].identity
      BY <1>1, <2>1, <2>2, OneRowMoves
    <3> QED
      BY <3>1, <3>2
  <2>4. /\ worker'[w].phase = "running" /\ worker'[w].job = j
        /\ \A v \in Workers \ {w} : worker'[v] = worker[v]
    BY <1>1, <2>1 DEF Activity
  <2>5. \A k \in Identities : w \notin Runners(k)
    BY <1>1 DEF Runners, Executing
  <2>6. Runners(i)' = {w}
    <3>1. SingleExecution'
      BY Exclusion, PTL
    <3>2. Executing(w, i)'
      BY <1>1, <2>3, <2>4 DEF Executing
    <3> QED
      BY <3>1, <3>2 DEF Runners, SingleExecution
  <2>7. \A k \in Identities \ {i} : Runners(k)' = Runners(k)
    <3>1. worker[w].phase # "running" /\ jobs'[worker'[w].job].identity = i
      BY <1>1, <2>3, <2>4
    <3> QED
      BY <2>3, <2>4, <3>1, OneWorkerMoves
  <2>8. Queue!Start(w, i)
    BY <2>1, <2>3, <2>5, <2>6, <2>7, OneMoves DEF Queue!Start
  <2> QED
    BY <2>8 DEF Queue!Next
<1>3. CASE jobs[j].status \notin Queued
  <2>1. UNCHANGED <<jobs, executions>> /\ worker' = [worker EXCEPT ![w] = Idle]
    BY <1>3 DEF ClaimUpdate
  <2>2. \A v \in Workers, k \in Identities : Executing(v, k)' <=> Executing(v, k)
    BY <1>1, <2>1 DEF Executing, Idle
  <2> QED
    BY <2>1, <2>2, Stutters DEF InputState, Known, RowOf, StateOf, Runners
<1> QED
  BY <1>2, <1>3

\* A worker that runs an input stops: its row may be rewritten, and nobody runs it.
LEMMA StopsRunning ==
  ASSUME IInv, IInv', NEW w \in Workers, NEW j, NEW i,
         worker[w].phase = "running", j = worker[w].job, i = jobs[j].identity,
         worker' = [worker EXCEPT ![w] = Idle],
         \A n \in DOMAIN jobs : jobs'[n].identity = jobs[n].identity
  PROVE  /\ i \in Identities /\ Runners(i) = {w} /\ Runners(i)' = {}
         /\ InputState(i) = "started"
         /\ \A k \in Identities \ {i} : Runners(k)' = Runners(k)
<1>1. /\ jobs \in Seq(Row) /\ j \in DOMAIN jobs /\ jobs[j] \in Row
      /\ worker \in [Workers -> Activity]
  BY LenProperties DEF IInv, TypeOK, ActiveOnARow
<1>2. i \in Identities
  BY <1>1 DEF Row
<1>3. Runners(i) = {w}
  BY RunnersOfRow
<1>4. worker'[w] = Idle /\ \A v \in Workers \ {w} : worker'[v] = worker[v]
  BY <1>1
<1>5. \A v \in Workers : ~Executing(v, i)'
  <2>1. \A v \in Workers : worker[v].phase = "running" => worker[v].job \in DOMAIN jobs
    BY DEF IInv, ActiveOnARow
  <2> QED
    BY <1>3, <1>4, <2>1 DEF Runners, Executing, Idle
<1>6. InputState(i) = "started"
  <2>1. InputState(i) = StateOf(jobs[j])
    BY <1>1, InputStates DEF InputsAreRows
  <2>2. jobs[j].status = "running"
    BY DEF IInv, RunningIsMarked
  <2> QED
    BY <2>1, <2>2 DEF StateOf, Queued
<1>7. \A k \in Identities \ {i} : Runners(k)' = Runners(k)
  BY <1>4, OneWorkerMoves DEF Idle
<1> QED
  BY <1>2, <1>3, <1>5, <1>6, <1>7 DEF Runners

\* The row a worker writes when it reports: the outcome, and an input that is given
\* up for an error that might pass has been run often enough.
LEMMA MarkWrites ==
  ASSUME IInv, NEW w \in Workers,
         MarkSucceeded(w) \/ \E code \in ErrorCodes : MarkFailed(w, code)
  PROVE  \E r \in Row :
           /\ r.identity = jobs[worker[w].job].identity
           /\ jobs' = [jobs EXCEPT ![worker[w].job] = r]
           /\ r.status # "running"
           /\ StateOf(r) \in {"done", "queued", "refused", "exhausted"}
           /\ StateOf(r) = "exhausted" => executions[r.identity] >= MaxAttempts
           /\ r.status \in Queued => r.attempts = worker[w].attempts + 1
<1> PICK j : j = worker[w].job
  OBVIOUS
<1>1. worker[w].phase = "running"
  BY DEF MarkSucceeded, MarkFailed
<1>2. /\ jobs \in Seq(Row) /\ j \in DOMAIN jobs /\ jobs[j] \in Row
      /\ worker[w].attempts \in 0..MaxAttempts /\ worker[w].attempts < MaxAttempts
  BY <1>1, LenProperties DEF IInv, TypeOK, ActiveOnARow, Activity
<1> PICK i \in Identities : i = jobs[j].identity
  BY <1>2 DEF Row
<1> SUFFICES \E r \in Row :
               /\ r.identity = i
               /\ jobs' = [jobs EXCEPT ![j] = r]
               /\ r.status # "running"
               /\ StateOf(r) \in {"done", "queued", "refused", "exhausted"}
               /\ StateOf(r) = "exhausted" => executions[i] >= MaxAttempts
               /\ r.status \in Queued => r.attempts = worker[w].attempts + 1
  OBVIOUS
<1>3. CASE MarkSucceeded(w)
  <2>1. PICK r : r = [jobs[j] EXCEPT !.status = "succeeded", !.lastError = None]
    OBVIOUS
  <2>2. r \in Row /\ r.identity = i /\ r.status = "succeeded"
    BY <1>2, <2>1 DEF Row, Status, Settled
  <2>3. jobs' = [jobs EXCEPT ![j] = r]
    BY <1>3, <2>1 DEF MarkSucceeded
  <2>4. StateOf(r) = "done"
    BY <2>2 DEF StateOf, Queued
  <2> QED
    BY <2>2, <2>3, <2>4 DEF Queued
<1>4. ASSUME NEW code \in ErrorCodes, MarkFailed(w, code)
      PROVE  \E r \in Row :
               /\ r.identity = i
               /\ jobs' = [jobs EXCEPT ![j] = r]
               /\ r.status # "running"
               /\ StateOf(r) \in {"done", "queued", "refused", "exhausted"}
               /\ StateOf(r) = "exhausted" => executions[i] >= MaxAttempts
               /\ r.status \in Queued => r.attempts = worker[w].attempts + 1
  <2> DEFINE attempt == worker[w].attempts + 1
             retry == Retries(attempt, code)
  <2>1. PICK r : r = [jobs[j] EXCEPT !.status = IF retry THEN "retry" ELSE "dead_letter",
                                     !.attempts = attempt,
                                     !.wait = IF retry THEN Delay(attempt) ELSE 0,
                                     !.lastError = code]
    OBVIOUS
  <2>2. attempt \in 1..MaxAttempts /\ attempt \in 0..MaxAttempts
    BY <1>2, PolicyAssumption
  <2>3. Delay(attempt) \in Nat
    BY <2>2, DelayType
  <2>4. jobs' = [jobs EXCEPT ![j] = r]
    BY <1>4, <2>1 DEF MarkFailed
  <2>5. attempt <= executions[i]
    BY <1>1 DEF IInv, AttemptsWereExecuted
  <2>6. ~retry /\ code \notin PermanentErrors => attempt >= MaxAttempts
    BY <2>2, PolicyAssumption DEF Retries
  <2>7. executions[i] \in Nat
    BY DEF IInv, TypeOK
  <2> HIDE DEF retry, attempt
  <2>8. /\ r \in Row /\ r.identity = i
        /\ r.status = IF retry THEN "retry" ELSE "dead_letter"
        /\ r.lastError = code
        /\ r.attempts = attempt
    BY <1>2, <2>1, <2>2, <2>3 DEF Row, Status, Settled, Queued
  <2>9. StateOf(r) = IF retry THEN "queued"
                     ELSE IF code \in PermanentErrors THEN "refused" ELSE "exhausted"
    BY <2>8 DEF StateOf, Queued
  <2>10. StateOf(r) = "exhausted" => executions[i] >= MaxAttempts
    BY <2>2, <2>5, <2>6, <2>7, <2>9, PolicyAssumption
  <2> QED
    BY <2>4, <2>8, <2>9, <2>10 DEF attempt
<1> QED
  BY <1>3, <1>4

LEMMA MarkIsReport ==
  ASSUME IInv, IInv', NEW w \in Workers,
         MarkSucceeded(w) \/ \E code \in ErrorCodes : MarkFailed(w, code)
  PROVE  Queue!Next
<1> PICK j : j = worker[w].job
  OBVIOUS
<1>1. /\ worker[w].phase = "running"
      /\ worker' = [worker EXCEPT ![w] = Idle]
      /\ executions' = executions
  BY DEF MarkSucceeded, MarkFailed
<1>2. j \in DOMAIN jobs
  BY <1>1 DEF IInv, ActiveOnARow
<1>3. PICK r \in Row :
        /\ r.identity = jobs[j].identity
        /\ jobs' = [jobs EXCEPT ![j] = r]
        /\ StateOf(r) \in {"done", "queued", "refused", "exhausted"}
        /\ StateOf(r) = "exhausted" => executions[r.identity] >= MaxAttempts
  BY MarkWrites
<1> PICK i \in Identities : i = r.identity
  BY DEF Row
<1>4. /\ InputState(i)' = StateOf(r)
      /\ \A k \in Identities \ {i} : InputState(k)' = InputState(k)
      /\ \A n \in DOMAIN jobs : jobs'[n].identity = jobs[n].identity
  BY <1>2, <1>3, OneRowMoves
<1>5. /\ Runners(i) = {w} /\ Runners(i)' = {} /\ InputState(i) = "started"
      /\ \A k \in Identities \ {i} : Runners(k)' = Runners(k)
  BY <1>1, <1>3, <1>4, StopsRunning
<1>6. /\ [k \in Identities |-> InputState(k)]' =
            [[k \in Identities |-> InputState(k)] EXCEPT ![i] = StateOf(r)]
      /\ [k \in Identities |-> Runners(k)]' =
            [[k \in Identities |-> Runners(k)] EXCEPT ![i] = {}]
  BY <1>4, <1>5, OneMoves
<1>7. Queue!Report(w, i)
  BY <1>1, <1>3, <1>5, <1>6 DEF Queue!Report
<1> QED
  BY <1>7 DEF Queue!Next

LEMMA CrashIsLose ==
  ASSUME IInv, IInv', NEW w \in Workers, Crash(w)
  PROVE  [Queue!Next]_Queue!vars
<1>1. /\ worker \in [Workers -> Activity]
      /\ worker' = [worker EXCEPT ![w] = Idle]
      /\ jobs' = jobs /\ executions' = executions
  BY DEF Crash, IInv, TypeOK
<1>2. \A k \in Identities : InputState(k)' = InputState(k)
  BY <1>1 DEF InputState, Known, RowOf, StateOf
<1>3. CASE worker[w].phase = "running"
  <2> PICK j : j = worker[w].job
    OBVIOUS
  <2> PICK i : i = jobs[j].identity
    OBVIOUS
  <2>1. /\ i \in Identities /\ Runners(i) = {w} /\ Runners(i)' = {}
        /\ InputState(i) = "started"
        /\ \A k \in Identities \ {i} : Runners(k)' = Runners(k)
    BY <1>1, <1>3, StopsRunning
  <2>2. /\ [k \in Identities |-> InputState(k)]' = [k \in Identities |-> InputState(k)]
        /\ [k \in Identities |-> Runners(k)]' =
              [[k \in Identities |-> Runners(k)] EXCEPT ![i] = {}]
    BY <1>2, <2>1
  <2>3. Queue!Lose(w, i)
    BY <1>1, <2>1, <2>2 DEF Queue!Lose
  <2> QED
    BY <2>1, <2>3 DEF Queue!Next
<1>4. CASE worker[w].phase # "running"
  <2>1. \A v \in Workers, k \in Identities : Executing(v, k)' <=> Executing(v, k)
    BY <1>1, <1>4 DEF Executing, Idle
  <2> QED
    BY <1>1, <1>2, <2>1, Stutters DEF Runners
<1> QED
  BY <1>3, <1>4

LEMMA OthersStutter ==
  ASSUME IInv, IInv',
         \/ \E p \in Producers, i \in Identities : EnqueueSelect(p, i)
         \/ \E w \in Workers : ClaimSelect(w)
         \/ Tick
         \/ UNCHANGED vars
  PROVE  UNCHANGED Queue!vars
<1>1. CASE \/ \E p \in Producers, i \in Identities : EnqueueSelect(p, i)
           \/ UNCHANGED vars
  <2>1. UNCHANGED <<jobs, worker, executions>>
    BY <1>1 DEF EnqueueSelect, vars
  <2> QED
    BY <2>1, Stutters DEF InputState, Known, RowOf, StateOf, Runners, Executing
<1>2. ASSUME NEW w \in Workers, ClaimSelect(w)
      PROVE  UNCHANGED Queue!vars
  <2>1. /\ UNCHANGED <<jobs, executions>>
        /\ worker[w].phase = "idle" /\ worker'[w].phase = "selected"
        /\ \A v \in Workers \ {w} : worker'[v] = worker[v]
    BY <1>2 DEF ClaimSelect, IInv, TypeOK
  <2>2. \A v \in Workers, k \in Identities : Executing(v, k)' <=> Executing(v, k)
    BY <2>1 DEF Executing
  <2> QED
    BY <2>1, <2>2, Stutters DEF InputState, Known, RowOf, StateOf, Runners
<1>3. CASE Tick
  <2>1. \A j \in DOMAIN jobs : jobs[j] \in Row
    BY LenProperties DEF IInv, TypeOK
  <2>2. /\ DOMAIN jobs' = DOMAIN jobs
        /\ UNCHANGED <<worker, executions>>
        /\ \A j \in DOMAIN jobs : /\ jobs'[j].identity = jobs[j].identity
                                 /\ jobs'[j].status = jobs[j].status
                                 /\ jobs'[j].lastError = jobs[j].lastError
    BY <1>3, <2>1 DEF Tick, Row
  <2>3. \A k \in Identities : InputState(k)' = InputState(k)
    BY <2>2, SameRows
  <2>4. \A k \in Identities : Runners(k)' = Runners(k)
    <3>1. \A w \in Workers : worker[w].phase = "running" => worker[w].job \in DOMAIN jobs
      BY DEF IInv, ActiveOnARow
    <3> QED
      BY <2>2, <3>1 DEF Runners, Executing
  <2> QED
    BY <2>2, <2>3, <2>4, Stutters
<1> QED
  BY <1>1, <1>2, <1>3

\* Select and write apart, and snapshots written back, still make a work queue: one
\* worker to an input, no outcome undone, nothing given up too early
\* (worker.py:32-119, retry.py:22).
THEOREM QueueImplemented == Spec => ImplementsQueue
<1>1. Init => Queue!Init
  BY DEF Init, Queue!Init, InputState, Known, Runners, Executing, Idle
<1>2. IInv /\ IInv' /\ [Next]_vars => [Queue!Next]_Queue!vars
  BY EnqueueIsSubmit, ClaimIsStart, MarkIsReport, CrashIsLose, OthersStutter DEF Next, Work
<1> QED
  BY <1>1, <1>2, Inductive, PTL DEF Spec, ImplementsQueue, Queue!Spec

-----------------------------------------------------------------------------
(* What a crash costs *)

StrandedByCrashes == IsFiniteSet(Stranded) /\ Cardinality(Stranded) <= crashes

\* Only a crash strands a job, and it strands one at most.
LEMMA NextStrands ==
  ASSUME IInv, IInv', [Next]_vars
  PROVE  \/ crashes' = crashes /\ Stranded' \subseteq Stranded
         \/ crashes' = crashes + 1 /\ \E j : Stranded' \subseteq Stranded \cup {j}
<1>1. /\ jobs \in Seq(Row) /\ jobs' \in Seq(Row)
      /\ \A j \in DOMAIN jobs : jobs[j] \in Row
      /\ worker \in [Workers -> Activity]
      /\ \A w \in Workers : worker[w].phase = "running" => worker[w].job \in DOMAIN jobs
  BY LenProperties DEF IInv, TypeOK, ActiveOnARow
<1>2. CASE \/ \E p \in Producers, i \in Identities : EnqueueSelect(p, i)
           \/ UNCHANGED vars
  BY <1>2 DEF EnqueueSelect, vars, Stranded, Running
<1>3. ASSUME NEW p \in Producers, EnqueueInsert(p)
      PROVE  crashes' = crashes /\ Stranded' \subseteq Stranded
  <2>1. CASE Known(producer[p])
    BY <1>3, <2>1 DEF EnqueueInsert, Stranded, Running
  <2>2. CASE ~Known(producer[p])
    <3> PICK r : r = [identity |-> producer[p], status |-> "pending",
                      attempts |-> 0, wait |-> 0, lastError |-> None]
      OBVIOUS
    <3>1. r \in Row /\ r.status = "pending" /\ jobs' = Append(jobs, r)
          /\ UNCHANGED <<worker, crashes>>
      BY <1>3, <2>2, PolicyAssumption DEF EnqueueInsert, IInv, TypeOK, Row, Status, Queued
    <3>2. \A j \in DOMAIN jobs' :
            \/ jobs'[j].status = "pending"
            \/ j \in DOMAIN jobs /\ jobs'[j] = jobs[j]
      BY <1>1, <3>1, RowInsert
    <3> QED
      BY <3>1, <3>2 DEF Stranded, Running
  <2> QED
    BY <2>1, <2>2
<1>4. ASSUME NEW w \in Workers, ClaimSelect(w)
      PROVE  crashes' = crashes /\ Stranded' \subseteq Stranded
  BY <1>1, <1>4 DEF ClaimSelect, Stranded, Running
<1>5. ASSUME NEW w \in Workers, ClaimUpdate(w)
      PROVE  crashes' = crashes /\ Stranded' \subseteq Stranded
  <2>1. /\ DOMAIN jobs' = DOMAIN jobs
        /\ \A j \in DOMAIN jobs : jobs'[j].status = "running" =>
             jobs[j].status = "running" \/ (j = worker[w].job /\ worker'[w].phase = "running"
                                              /\ worker'[w].job = j)
        /\ \A v \in Workers : worker[v].phase = "running" => worker'[v] = worker[v]
        /\ crashes' = crashes
    BY <1>1, <1>5 DEF ClaimUpdate, Activity
  <2> QED
    BY <2>1 DEF Stranded, Running
<1>6. ASSUME NEW w \in Workers,
             MarkSucceeded(w) \/ \E code \in ErrorCodes : MarkFailed(w, code)
      PROVE  crashes' = crashes /\ Stranded' \subseteq Stranded
  <2>1. /\ DOMAIN jobs' = DOMAIN jobs
        /\ jobs'[worker[w].job].status # "running"
        /\ \A j \in DOMAIN jobs : j # worker[w].job => jobs'[j] = jobs[j]
        /\ \A v \in Workers \ {w} : worker'[v] = worker[v]
        /\ crashes' = crashes
    <3>1. /\ worker' = [worker EXCEPT ![w] = Idle]
          /\ worker[w].job \in DOMAIN jobs
          /\ crashes' = crashes
      BY <1>1, <1>6 DEF MarkSucceeded, MarkFailed
    <3>2. PICK r \in Row : jobs' = [jobs EXCEPT ![worker[w].job] = r] /\ r.status # "running"
      BY <1>6, MarkWrites
    <3> QED
      BY <1>1, <3>1, <3>2
  <2> QED
    BY <2>1 DEF Stranded, Running
<1>7. ASSUME NEW w \in Workers, Crash(w)
      PROVE  crashes' = crashes + 1 /\ \E j : Stranded' \subseteq Stranded \cup {j}
  <2>1. /\ crashes' = crashes + 1
        /\ jobs' = jobs
        /\ \A v \in Workers \ {w} : worker'[v] = worker[v]
    BY <1>1, <1>7 DEF Crash
  <2> PICK j : j = worker[w].job
    OBVIOUS
  <2>2. Stranded' \subseteq Stranded \cup {j}
    BY <2>1 DEF Stranded, Running
  <2> QED
    BY <2>1, <2>2
<1>8. CASE Tick
  <2>1. /\ DOMAIN jobs' = DOMAIN jobs
        /\ \A j \in DOMAIN jobs : jobs'[j].status = jobs[j].status
        /\ UNCHANGED <<worker, crashes>>
    BY <1>1, <1>8 DEF Tick, Row
  <2> QED
    BY <2>1 DEF Stranded, Running
<1> QED
  BY <1>2, <1>3, <1>4, <1>5, <1>6, <1>7, <1>8 DEF Next, Work

\* The jobs that no operation leads out of status running are no more than the
\* workers that died (worker.py:63-119): the safety half of SettledOrStranded.
THEOREM CrashesStrand == Spec => [](Cardinality(Stranded) <= crashes)
<1>1. Init => StrandedByCrashes
  <2> SUFFICES ASSUME Init PROVE StrandedByCrashes
    OBVIOUS
  <2>1. Stranded = {} /\ crashes = 0
    BY DEF Init, Stranded
  <2> QED
    BY <2>1, FS_EmptySet DEF StrandedByCrashes
<1>2. IInv /\ IInv' /\ [Next]_vars /\ StrandedByCrashes => StrandedByCrashes'
  <2> SUFFICES ASSUME IInv, IInv', [Next]_vars, StrandedByCrashes
               PROVE  StrandedByCrashes'
    OBVIOUS
  <2>1. /\ IsFiniteSet(Stranded) /\ Cardinality(Stranded) \in Nat
        /\ Cardinality(Stranded) <= crashes /\ crashes \in Nat
    BY FS_CardinalityType, PolicyAssumption DEF StrandedByCrashes, IInv, TypeOK
  <2>2. CASE crashes' = crashes /\ Stranded' \subseteq Stranded
    <3>1. /\ IsFiniteSet(Stranded') /\ Cardinality(Stranded') \in Nat
          /\ Cardinality(Stranded') <= Cardinality(Stranded)
      BY <2>1, <2>2, FS_Subset, FS_CardinalityType
    <3> QED
      BY <2>1, <2>2, <3>1 DEF StrandedByCrashes
  <2>3. ASSUME NEW j, crashes' = crashes + 1, Stranded' \subseteq Stranded \cup {j}
        PROVE  StrandedByCrashes'
    <3>1. /\ IsFiniteSet(Stranded \cup {j})
          /\ Cardinality(Stranded \cup {j}) \in Nat
          /\ Cardinality(Stranded \cup {j}) <= Cardinality(Stranded) + 1
      BY <2>1, FS_AddElement, FS_CardinalityType
    <3>2. /\ IsFiniteSet(Stranded') /\ Cardinality(Stranded') \in Nat
          /\ Cardinality(Stranded') <= Cardinality(Stranded \cup {j})
      BY <2>3, <3>1, FS_Subset, FS_CardinalityType
    <3> QED
      BY <2>1, <2>3, <3>1, <3>2 DEF StrandedByCrashes
  <2> QED
    BY <2>2, <2>3, NextStrands
<1>3. StrandedByCrashes => Cardinality(Stranded) <= crashes
  BY DEF StrandedByCrashes
<1> QED
  BY <1>1, <1>2, <1>3, Inductive, PTL DEF Spec

-----------------------------------------------------------------------------
(* What a stale claim costs: without one the budget is kept *)

\* The row that a worker claims still has the attempts the worker read.
FreshClaim(w) ==
  worker[w].phase = "selected" /\ worker'[w].phase = "running" =>
    jobs[worker[w].job].attempts = worker[w].attempts

ClaimsAreFresh == [][\A w \in Workers : FreshClaim(w)]_worker

\* Every execution has been, or will be, counted in the row.
EveryRunCounts ==
  /\ \A i \in Identities : ~Known(i) => executions[i] = 0
  /\ \A j \in DOMAIN jobs :
       jobs[j].status \in Queued => executions[jobs[j].identity] = jobs[j].attempts
  /\ \A w \in Workers :
       worker[w].phase = "running" =>
         executions[jobs[worker[w].job].identity] = worker[w].attempts + 1
  /\ BoundedExecutions

\* An insert makes an input known that has not run.
LEMMA EnqueueCounts ==
  ASSUME IInv, EveryRunCounts, NEW p \in Producers, EnqueueInsert(p)
  PROVE  EveryRunCounts'
<1>1. \A w \in Workers : worker[w].phase = "running" => worker[w].job \in DOMAIN jobs
  BY DEF IInv, ActiveOnARow
<1>2. CASE Known(producer[p])
  BY <1>2 DEF EnqueueInsert, EveryRunCounts, BoundedExecutions, Known
<1>3. CASE ~Known(producer[p])
  <2> PICK i \in Identities : i = producer[p]
    BY DEF EnqueueInsert, IInv, TypeOK
  <2> PICK r : r = [identity |-> i, status |-> "pending",
                    attempts |-> 0, wait |-> 0, lastError |-> None]
    OBVIOUS
  <2>1. /\ r \in Row /\ r.identity = i /\ r.attempts = 0
        /\ jobs \in Seq(Row)
        /\ jobs' = Append(jobs, r)
        /\ UNCHANGED <<worker, executions>>
    BY <1>3, PolicyAssumption DEF EnqueueInsert, IInv, TypeOK, Row, Status, Queued
  <2>2. /\ DOMAIN jobs' = DOMAIN jobs \cup {Len(jobs) + 1}
        /\ jobs'[Len(jobs) + 1] = r
        /\ \A k \in DOMAIN jobs : jobs'[k] = jobs[k]
    BY <2>1, RowInsert
  <2>3. executions[i] = 0
    BY <1>3 DEF EveryRunCounts
  <2>4. \A k \in Identities : ~Known(k)' => ~Known(k)
    BY <2>2 DEF Known
  <2>5. \A j \in DOMAIN jobs' :
          jobs'[j].status \in Queued => executions[jobs'[j].identity] = jobs'[j].attempts
    BY <2>1, <2>2, <2>3 DEF EveryRunCounts
  <2>6. \A w \in Workers :
          worker[w].phase = "running" =>
            executions[jobs'[worker[w].job].identity] = worker[w].attempts + 1
    BY <1>1, <2>2 DEF EveryRunCounts
  <2> QED
    BY <2>1, <2>4, <2>5, <2>6 DEF EveryRunCounts, BoundedExecutions
<1> QED
  BY <1>2, <1>3

\* A fresh claim takes the next attempt of the row, and there is one left.
LEMMA ClaimCounts ==
  ASSUME IInv, IInv', EveryRunCounts, NEW w \in Workers, ClaimUpdate(w), FreshClaim(w)
  PROVE  EveryRunCounts'
<1> PICK j : j = worker[w].job
  OBVIOUS
<1>1. /\ worker[w].phase = "selected" /\ j \in DOMAIN jobs
      /\ jobs \in Seq(Row) /\ \A k \in DOMAIN jobs : jobs[k] \in Row
      /\ worker \in [Workers -> Activity]
      /\ executions \in [Identities -> Nat]
      /\ \A v \in Workers : worker[v].phase = "running" => worker[v].job \in DOMAIN jobs
  BY LenProperties DEF ClaimUpdate, IInv, TypeOK, ActiveOnARow
<1>2. CASE jobs[j].status \notin Queued
  <2>1. worker' = [worker EXCEPT ![w] = Idle] /\ UNCHANGED <<jobs, executions>>
    BY <1>2 DEF ClaimUpdate
  <2> QED
    BY <1>1, <2>1 DEF EveryRunCounts, BoundedExecutions, Known, Idle
<1>3. CASE jobs[j].status \in Queued
  <2> PICK i \in Identities : i = jobs[j].identity
    BY <1>1 DEF Row
  <2> PICK r : r = [jobs[j] EXCEPT !.status = "running"]
    OBVIOUS
  <2>1. r \in Row /\ r.status = "running" /\ r.identity = i
    BY <1>1 DEF Row, Status
  <2>2. /\ jobs' = [jobs EXCEPT ![j] = r]
        /\ worker' = [worker EXCEPT ![w].phase = "running"]
        /\ executions' = [executions EXCEPT ![i] = @ + 1]
    BY <1>3 DEF ClaimUpdate, Queued
  <2>3. /\ DOMAIN jobs' = DOMAIN jobs
        /\ jobs'[j] = r
        /\ \A k \in DOMAIN jobs : k # j => jobs'[k] = jobs[k]
        /\ \A k \in DOMAIN jobs : jobs'[k].identity = jobs[k].identity
    BY <1>1, <2>1, <2>2, RowUpdate
  <2>4. /\ worker'[w].phase = "running" /\ worker'[w].job = j
        /\ worker'[w].attempts = worker[w].attempts
        /\ \A v \in Workers \ {w} : worker'[v] = worker[v]
    BY <1>1, <2>2 DEF Activity
  <2>5. worker[w].attempts = jobs[j].attempts
    BY <1>1, <2>4 DEF FreshClaim
  <2>6. /\ executions[i] = worker[w].attempts
        /\ worker[w].attempts < MaxAttempts
        /\ worker[w].attempts \in Nat
    BY <1>1, <1>3, <2>5, PolicyAssumption
    DEF EveryRunCounts, IInv, RetryBudget, Row
  <2>7. /\ executions'[i] = worker[w].attempts + 1
        /\ executions'[i] <= MaxAttempts
        /\ \A k \in Identities \ {i} : executions'[k] = executions[k]
    BY <1>1, <2>2, <2>6, PolicyAssumption
  <2>8. \A k \in DOMAIN jobs : k # j => jobs[k].identity # i /\ jobs[k].identity \in Identities
    BY <1>1 DEF IInv, OneRowPerIdentity, Row
  <2>9. \A v \in Workers \ {w} : worker[v].phase = "running" => worker[v].job # j
    BY <1>3 DEF IInv, RunningIsMarked, Queued
  <2>10. \A k \in Identities : ~Known(k)' => ~Known(k) /\ k # i
    BY <1>1, <2>3 DEF Known
  <2>11. \A k \in Identities : ~Known(k)' => executions'[k] = 0
    BY <2>7, <2>10 DEF EveryRunCounts
  <2>12. \A k \in DOMAIN jobs' :
           jobs'[k].status \in Queued => executions'[jobs'[k].identity] = jobs'[k].attempts
    <3>1. ASSUME NEW k \in DOMAIN jobs, k # j, jobs[k].status \in Queued
          PROVE  executions'[jobs[k].identity] = jobs[k].attempts
      <4>1. executions[jobs[k].identity] = jobs[k].attempts
        BY <3>1 DEF EveryRunCounts
      <4>2. executions'[jobs[k].identity] = executions[jobs[k].identity]
        BY <2>7, <2>8, <3>1
      <4> QED
        BY <4>1, <4>2
    <3>2. jobs'[j].status \notin Queued
      BY <2>1, <2>3 DEF Queued
    <3> QED
      BY <2>3, <3>1, <3>2
  <2>13. ASSUME NEW v \in Workers, worker'[v].phase = "running"
         PROVE  executions'[jobs'[worker'[v].job].identity] = worker'[v].attempts + 1
    <3>1. CASE v = w
      BY <2>1, <2>3, <2>4, <2>7, <3>1
    <3>2. CASE v # w
      <4>1. worker'[v] = worker[v] /\ worker[v].job \in DOMAIN jobs /\ worker[v].job # j
        BY <1>1, <2>4, <2>9, <2>13, <3>2
      <4> QED
        BY <2>3, <2>7, <2>8, <2>13, <4>1 DEF EveryRunCounts
    <3> QED
      BY <3>1, <3>2
  <2>14. BoundedExecutions'
    BY <2>7 DEF EveryRunCounts, BoundedExecutions
  <2> QED
    BY <2>11, <2>12, <2>13, <2>14 DEF EveryRunCounts
<1> QED
  BY <1>2, <1>3

\* A report writes the count of the execution that it ends.
LEMMA MarkCounts ==
  ASSUME IInv, EveryRunCounts, NEW w \in Workers,
         MarkSucceeded(w) \/ \E code \in ErrorCodes : MarkFailed(w, code)
  PROVE  EveryRunCounts'
<1> PICK j : j = worker[w].job
  OBVIOUS
<1>1. /\ worker[w].phase = "running" /\ j \in DOMAIN jobs
      /\ jobs \in Seq(Row)
      /\ worker \in [Workers -> Activity]
      /\ worker' = [worker EXCEPT ![w] = Idle]
      /\ executions' = executions
      /\ \A v \in Workers : worker[v].phase = "running" => worker[v].job \in DOMAIN jobs
  BY DEF MarkSucceeded, MarkFailed, IInv, TypeOK, ActiveOnARow
<1>2. PICK r \in Row :
        /\ r.identity = jobs[j].identity
        /\ jobs' = [jobs EXCEPT ![j] = r]
        /\ r.status \in Queued => r.attempts = worker[w].attempts + 1
  BY MarkWrites
<1>3. /\ DOMAIN jobs' = DOMAIN jobs
      /\ jobs'[j] = r
      /\ \A k \in DOMAIN jobs : k # j => jobs'[k] = jobs[k]
      /\ \A k \in DOMAIN jobs : jobs'[k].identity = jobs[k].identity
  BY <1>1, <1>2, RowUpdate
<1>4. executions[r.identity] = worker[w].attempts + 1
  BY <1>1, <1>2 DEF EveryRunCounts
<1>5. \A k \in DOMAIN jobs' :
        jobs'[k].status \in Queued => executions'[jobs'[k].identity] = jobs'[k].attempts
  BY <1>1, <1>2, <1>3, <1>4 DEF EveryRunCounts
<1>6. \A v \in Workers :
        worker'[v].phase = "running" =>
          executions'[jobs'[worker'[v].job].identity] = worker'[v].attempts + 1
  BY <1>1, <1>3 DEF EveryRunCounts, Idle
<1>7. \A k \in Identities : ~Known(k)' => ~Known(k)
  BY <1>3 DEF Known
<1> QED
  BY <1>1, <1>5, <1>6, <1>7 DEF EveryRunCounts, BoundedExecutions

LEMMA NextCounts ==
  ASSUME IInv, IInv', EveryRunCounts, [Next]_vars, [\A w \in Workers : FreshClaim(w)]_worker
  PROVE  EveryRunCounts'
<1>1. /\ jobs \in Seq(Row) /\ \A j \in DOMAIN jobs : jobs[j] \in Row
      /\ worker \in [Workers -> Activity]
      /\ \A w \in Workers : worker[w].phase = "running" => worker[w].job \in DOMAIN jobs
  BY LenProperties DEF IInv, TypeOK, ActiveOnARow
<1>2. CASE \/ \E p \in Producers, i \in Identities : EnqueueSelect(p, i)
           \/ UNCHANGED vars
  BY <1>2 DEF EnqueueSelect, vars, EveryRunCounts, BoundedExecutions, Known
<1>3. ASSUME NEW w \in Workers, ClaimSelect(w)
      PROVE  EveryRunCounts'
  <2>1. /\ worker'[w].phase = "selected"
        /\ \A v \in Workers \ {w} : worker'[v] = worker[v]
        /\ UNCHANGED <<jobs, executions>>
    BY <1>1, <1>3 DEF ClaimSelect
  <2> QED
    BY <2>1 DEF EveryRunCounts, BoundedExecutions, Known
<1>4. ASSUME NEW w \in Workers, ClaimUpdate(w)
      PROVE  EveryRunCounts'
  <2>1. FreshClaim(w)
    BY DEF FreshClaim
  <2> QED
    BY <1>4, <2>1, ClaimCounts
<1>5. ASSUME NEW w \in Workers, Crash(w)
      PROVE  EveryRunCounts'
  <2>1. /\ worker'[w].phase = "idle"
        /\ \A v \in Workers \ {w} : worker'[v] = worker[v]
        /\ UNCHANGED <<jobs, executions>>
    BY <1>1, <1>5 DEF Crash, Idle
  <2> QED
    BY <2>1 DEF EveryRunCounts, BoundedExecutions, Known
<1>6. CASE Tick
  <2>1. /\ DOMAIN jobs' = DOMAIN jobs
        /\ \A j \in DOMAIN jobs : /\ jobs'[j].status = jobs[j].status
                                  /\ jobs'[j].identity = jobs[j].identity
                                  /\ jobs'[j].attempts = jobs[j].attempts
        /\ UNCHANGED <<worker, executions>>
    BY <1>1, <1>6 DEF Tick, Row
  <2> QED
    BY <1>1, <2>1 DEF EveryRunCounts, BoundedExecutions, Known
<1> QED
  BY <1>2, <1>3, <1>4, <1>5, <1>6, EnqueueCounts, MarkCounts DEF Next, Work

LEMMA InitCounts == Init => EveryRunCounts
BY PolicyAssumption DEF Init, EveryRunCounts, BoundedExecutions, Known, Idle

\* An input is run max_attempts times at most as long as no worker claims a row that
\* was failed and put back since the worker read it: a stale claim (worker.py:79,
\* :107) is the only way past the budget that retry.py:1 promises.
THEOREM BoundedUnlessStale == Spec /\ ClaimsAreFresh => []BoundedExecutions
<1>1. EveryRunCounts => BoundedExecutions
  BY DEF EveryRunCounts
<1>2. IInv /\ IInv' /\ EveryRunCounts /\ [Next]_vars /\ [\A w \in Workers : FreshClaim(w)]_worker
        => EveryRunCounts'
  BY NextCounts
<1> QED
  BY <1>1, <1>2, InitCounts, Inductive, PTL DEF Spec, ClaimsAreFresh

\* What a worker read is still so.
SnapshotsHold ==
  \A w \in Workers :
    worker[w].phase = "selected" => jobs[worker[w].job].attempts = worker[w].attempts

\* With one worker nobody can come between its SELECT and its UPDATE: the promise of
\* retry.py:1 is kept.
THEOREM BoundedForOneWorker ==
  ASSUME \A v, w \in Workers : v = w
  PROVE  Spec => []BoundedExecutions
<1>1. Init => SnapshotsHold
  BY DEF Init, SnapshotsHold, Idle
<1>2. IInv /\ [Next]_vars /\ SnapshotsHold => SnapshotsHold'
  <2> SUFFICES ASSUME IInv, [Next]_vars, SnapshotsHold
               PROVE  SnapshotsHold'
    OBVIOUS
  <2>1. /\ jobs \in Seq(Row) /\ \A j \in DOMAIN jobs : jobs[j] \in Row
        /\ worker \in [Workers -> Activity]
        /\ \A w \in Workers : worker[w].phase = "selected" => worker[w].job \in DOMAIN jobs
    BY LenProperties DEF IInv, TypeOK, ActiveOnARow
  <2>2. CASE \/ \E p \in Producers, i \in Identities : EnqueueSelect(p, i)
             \/ UNCHANGED vars
    BY <2>2 DEF EnqueueSelect, vars, SnapshotsHold
  <2>3. ASSUME NEW p \in Producers, EnqueueInsert(p)
        PROVE  SnapshotsHold'
    <3>1. CASE Known(producer[p])
      BY <2>3, <3>1 DEF EnqueueInsert, SnapshotsHold
    <3>2. CASE ~Known(producer[p])
      <4> PICK r : r = [identity |-> producer[p], status |-> "pending",
                        attempts |-> 0, wait |-> 0, lastError |-> None]
        OBVIOUS
      <4>1. r \in Row /\ jobs' = Append(jobs, r) /\ worker' = worker
        BY <2>3, <3>2, PolicyAssumption DEF EnqueueInsert, IInv, TypeOK, Row, Status, Queued
      <4>2. \A k \in DOMAIN jobs : jobs'[k] = jobs[k]
        BY <2>1, <4>1, RowInsert
      <4> QED
        BY <2>1, <4>1, <4>2 DEF SnapshotsHold
    <3> QED
      BY <3>1, <3>2
  <2>4. ASSUME NEW w \in Workers, ClaimSelect(w)
        PROVE  SnapshotsHold'
    BY <2>1, <2>4 DEF ClaimSelect, SnapshotsHold, Due
  <2>5. ASSUME NEW w \in Workers,
               \/ ClaimUpdate(w)
               \/ MarkSucceeded(w)
               \/ \E code \in ErrorCodes : MarkFailed(w, code)
               \/ Crash(w)
        PROVE  SnapshotsHold'
    <3>1. worker'[w].phase # "selected"
      <4>1. CASE ClaimUpdate(w)
        BY <2>1, <4>1 DEF ClaimUpdate, Idle, Activity
      <4>2. CASE MarkSucceeded(w) \/ \E code \in ErrorCodes : MarkFailed(w, code)
        <5>1. worker' = [worker EXCEPT ![w] = Idle]
          BY <4>2 DEF MarkSucceeded, MarkFailed
        <5> QED
          BY <2>1, <5>1 DEF Idle
      <4>3. CASE Crash(w)
        BY <2>1, <4>3 DEF Crash, Idle
      <4> QED
        BY <2>5, <4>1, <4>2, <4>3
    <3> QED
      BY <3>1 DEF SnapshotsHold
  <2>6. CASE Tick
    <3>1. /\ \A j \in DOMAIN jobs : jobs'[j].attempts = jobs[j].attempts
          /\ worker' = worker
      BY <2>1, <2>6 DEF Tick, Row
    <3> QED
      BY <2>1, <3>1 DEF SnapshotsHold
  <2> QED
    BY <2>2, <2>3, <2>4, <2>5, <2>6 DEF Next, Work
<1>3. SnapshotsHold => [\A w \in Workers : FreshClaim(w)]_worker
  BY DEF SnapshotsHold, FreshClaim
<1> QED
  BY <1>1, <1>2, <1>3, Inductive, BoundedUnlessStale, PTL DEF Spec, ClaimsAreFresh
=============================================================================
