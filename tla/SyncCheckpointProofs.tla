------------------------ MODULE SyncCheckpointProofs ------------------------
(***************************************************************************)
(* Proofs about SyncCheckpoint, for any number of syncs, registries, pages *)
(* and runs.                                                               *)
(***************************************************************************)
EXTENDS SyncCheckpoint, TLAPS

Passed(r, cursor) == \A page \in 0..cursor - 1 : Covered(r, page)

(***************************************************************************)
(* The inductive invariant.  A sync carries a checkpoint it loaded earlier *)
(* and may write it back: that one has to be earned too.                   *)
(***************************************************************************)
CarriedIsEarned ==
  \A s \in Syncers :
    /\ syncer[s].phase # "idle" => Passed(syncer[s].registry, syncer[s].before)
    /\ syncer[s].phase = "reported" /\ syncer[s].status = "succeeded"
         => syncer[s].next = NextCursor(syncer[s].before)

\* And it is the checkpoint itself, as long as no other run of the registry has
\* replaced it: runs that come later have greater numbers.
CarriedAsLoaded ==
  \A s \in Syncers : syncer[s].phase # "idle" =>
    /\ syncer[s].base <= Len(runs)
    /\ syncer[s].base = checkpoint[syncer[s].registry].run
         => syncer[s].before = checkpoint[syncer[s].registry].cursor

IInv == TypeOK /\ CursorEarned /\ CarriedIsEarned /\ CarriedAsLoaded

LEMMA NextCursorType == \A page \in Cursor : NextCursor(page) \in Cursor
  BY SyncAssumption DEF Cursor, NextCursor

LEMMA IdleType == \A r \in Registries : Idle(r) \in Activity
  BY SyncAssumption DEF Idle, Activity, Cursor, Status

-----------------------------------------------------------------------------

LEMMA InitIInv == Init => IInv
<1> SUFFICES ASSUME Init PROVE IInv OBVIOUS
<1>1. \A s \in Syncers : syncer[s] \in Activity /\ syncer[s].phase = "idle"
  BY IdleType DEF Init, Idle
<1>2. TypeOK
  <2>1. runs \in Seq(SyncRun) /\ Len(runs) = 0 /\ DOMAIN runs = {}
    BY DEF Init
  <2>2. checkpoint \in [Registries -> [cursor: Cursor, run: 0..Len(runs), status: Status]]
    BY <2>1, SyncAssumption DEF Init, Cursor, Status
  <2>3. syncer \in [Syncers -> Activity]
    <3>1. \A r \in Registries : Idle(r) \in Activity BY IdleType
    <3>2. QED BY <3>1 DEF Init
  <2>4. QED BY <2>1, <2>2, <2>3, SyncAssumption DEF TypeOK
<1>3. CursorEarned BY DEF Init, CursorEarned
<1>4. CarriedIsEarned BY <1>1 DEF CarriedIsEarned
<1>5. CarriedAsLoaded BY <1>1 DEF CarriedAsLoaded
<1>6. QED BY <1>2, <1>3, <1>4, <1>5 DEF IInv

\* A step of one syncer that stores nothing keeps what is said of the tables.
LEMMA TablesKept ==
  ASSUME IInv, UNCHANGED <<runs, checkpoint>>
  PROVE  CursorEarned'
  BY DEF IInv, CursorEarned, Covered

\* Such a step keeps the invariant if the new activity of the syncer is well
\* typed and carries an earned checkpoint.
LEMMA OneSyncer ==
  ASSUME IInv, UNCHANGED <<runs, checkpoint>>,
         NEW s \in Syncers, NEW a \in Activity,
         syncer' = [syncer EXCEPT ![s] = a],
         a.phase # "idle" => Passed(a.registry, a.before),
         a.phase = "reported" /\ a.status = "succeeded" => a.next = NextCursor(a.before),
         a.phase # "idle" =>
           /\ a.base <= Len(runs)
           /\ a.base = checkpoint[a.registry].run => a.before = checkpoint[a.registry].cursor
  PROVE  IInv'
<1>1. TypeOK' BY DEF IInv, TypeOK
<1>2. CarriedIsEarned'
  <2>1. \A r, cursor : Passed(r, cursor)' <=> Passed(r, cursor) BY DEF Passed, Covered
  <2>2. \A t \in Syncers : syncer'[t] = IF t = s THEN a ELSE syncer[t]
    BY DEF IInv, TypeOK
  <2>3. QED BY <2>1, <2>2 DEF IInv, CarriedIsEarned, Passed, Covered, NextCursor
<1>3. CarriedAsLoaded'
  <2>1. \A t \in Syncers : syncer'[t] = IF t = s THEN a ELSE syncer[t]
    BY DEF IInv, TypeOK
  <2>2. QED BY <2>1 DEF IInv, CarriedAsLoaded
<1>4. QED BY <1>1, <1>2, <1>3, TablesKept DEF IInv

LEMMA LoadIInv ==
  ASSUME IInv, NEW s \in Syncers, NEW r \in Registries, Load(s, r)
  PROVE  IInv'
<1> DEFINE a == [phase |-> "loaded", registry |-> r, before |-> checkpoint[r].cursor,
                 base |-> checkpoint[r].run, status |-> "failed", next |-> 0]
<1>0. checkpoint[r].run \in 0..Len(runs) /\ Len(runs) \in Nat /\ Len(runs) <= MaxRuns
  BY DEF IInv, TypeOK
<1>1. /\ a \in Activity /\ a.phase = "loaded" /\ a.registry = r
      /\ a.before = checkpoint[r].cursor /\ a.base = checkpoint[r].run
  <2>1. checkpoint[r].cursor \in Cursor /\ 0 \in Cursor /\ checkpoint[r].run \in 0..MaxRuns
    BY <1>0, SyncAssumption DEF IInv, TypeOK, Cursor
  <2>2. QED BY <2>1 DEF Activity, Status
<1>2. Passed(r, checkpoint[r].cursor) BY DEF IInv, CursorEarned, Passed
<1>3. syncer' = [syncer EXCEPT ![s] = a] /\ UNCHANGED <<runs, checkpoint>> BY DEF Load
<1> HIDE DEF a
<1>4. Passed(a.registry, a.before) BY <1>1, <1>2
<1>5. a.phase # "reported" BY <1>1
<1>6. a.base <= Len(runs) BY <1>0, <1>1
<1>7. a.base = checkpoint[a.registry].run => a.before = checkpoint[a.registry].cursor BY <1>1
<1>8. a \in Activity BY <1>1
<1>9. QED BY <1>3, <1>4, <1>5, <1>6, <1>7, <1>8, OneSyncer

LEMMA DiscoverIInv ==
  ASSUME IInv, NEW s \in Syncers,
         DiscoverFails(s) \/ \E status \in {"succeeded", "partial"} : DiscoverPage(s, status)
  PROVE  IInv'
<1>1. syncer[s] \in Activity /\ Passed(syncer[s].registry, syncer[s].before)
  BY DEF IInv, TypeOK, CarriedIsEarned, DiscoverFails, DiscoverPage
<1>2. PICK status \in Status, next \in Cursor :
        /\ syncer' = [syncer EXCEPT ![s] = [@ EXCEPT !.phase = "reported",
                                                      !.status = status, !.next = next]]
        /\ status = "succeeded" => next = NextCursor(syncer[s].before)
  <2>1. syncer \in [Syncers -> Activity] /\ syncer[s].before \in Cursor
    BY <1>1 DEF IInv, TypeOK, Activity
  <2>2. CASE DiscoverFails(s) BY <2>1, <2>2 DEF DiscoverFails, Status
  <2>3. ASSUME NEW status \in {"succeeded", "partial"}, DiscoverPage(s, status)
        PROVE  \E st \in Status, next \in Cursor :
                 /\ syncer' = [syncer EXCEPT ![s] = [@ EXCEPT !.phase = "reported",
                                                               !.status = st, !.next = next]]
                 /\ st = "succeeded" => next = NextCursor(syncer[s].before)
    <3>1. status \in Status /\ NextCursor(syncer[s].before) \in Cursor
      BY <2>1, NextCursorType DEF Status
    <3>2. syncer' = [syncer EXCEPT ![s] = [@ EXCEPT !.phase = "reported", !.status = status,
                                             !.next = NextCursor(syncer[s].before)]]
      BY <2>1, <2>3 DEF DiscoverPage
    <3>3. QED BY <3>1, <3>2
  <2>4. QED BY <2>2, <2>3
<1> DEFINE a == [syncer[s] EXCEPT !.phase = "reported", !.status = status, !.next = next]
<1>3. /\ a \in Activity
      /\ a.phase = "reported" /\ a.status = status /\ a.next = next
      /\ a.registry = syncer[s].registry /\ a.before = syncer[s].before
      /\ a.base = syncer[s].base
  BY <1>1 DEF Activity
<1>4. syncer' = [syncer EXCEPT ![s] = a] /\ UNCHANGED <<runs, checkpoint>>
  BY <1>2 DEF DiscoverFails, DiscoverPage
<1> HIDE DEF a
<1>5. Passed(a.registry, a.before) BY <1>1, <1>3
<1>6. a.phase = "reported" /\ a.status = "succeeded" => a.next = NextCursor(a.before)
  BY <1>2, <1>3
<1>7. a \in Activity BY <1>3
<1>8. /\ a.base <= Len(runs)
      /\ a.base = checkpoint[a.registry].run => a.before = checkpoint[a.registry].cursor
  BY <1>3 DEF IInv, CarriedAsLoaded, DiscoverFails, DiscoverPage
<1>9. QED BY <1>4, <1>5, <1>6, <1>7, <1>8, OneSyncer

LEMMA AbandonIInv ==
  ASSUME IInv, NEW s \in Syncers, Abandon(s)
  PROVE  IInv'
<1> DEFINE a == Idle(syncer[s].registry)
<1>1. a \in Activity /\ a.phase = "idle"
  BY IdleType DEF IInv, TypeOK, Activity, Idle
<1>2. syncer' = [syncer EXCEPT ![s] = a] /\ UNCHANGED <<runs, checkpoint>> BY DEF Abandon
<1> HIDE DEF a
<1>3. QED BY <1>1, <1>2, OneSyncer

-----------------------------------------------------------------------------

\* The row that record_run adds.
RunOf(a) == [registry |-> a.registry, before |-> a.before, after |-> CursorAfter(a),
             status |-> a.status]

LEMMA RecordRunIInv ==
  ASSUME IInv, NEW s \in Syncers, RecordRun(s)
  PROVE  IInv'
<1> DEFINE a == syncer[s]
           n == Len(runs) + 1
<1>1. /\ a \in Activity /\ a.phase = "reported" /\ a.registry \in Registries
      /\ a.before \in Cursor /\ a.next \in Cursor /\ a.status \in Status
      /\ runs \in Seq(SyncRun) /\ n <= MaxRuns
  <2>1. a \in Activity BY DEF IInv, TypeOK
  <2>2. a.phase = "reported" /\ Len(runs) < MaxRuns BY DEF RecordRun
  <2>3. runs \in Seq(SyncRun) BY DEF IInv, TypeOK
  <2>4. n <= MaxRuns BY <2>2, <2>3, SyncAssumption
  <2> HIDE DEF a
  <2>5. QED BY <2>1, <2>2, <2>3, <2>4 DEF Activity
<1>2. CursorAfter(a) \in Cursor /\ RunOf(a) \in SyncRun
  BY <1>1 DEF CursorAfter, SyncRun, RunOf
<1>3. /\ runs' = Append(runs, RunOf(a))
      /\ runs' \in Seq(SyncRun) /\ Len(runs') = n /\ n \in Nat
      /\ DOMAIN runs' = DOMAIN runs \cup {n} /\ n \notin DOMAIN runs
      /\ runs'[n] = RunOf(a)
      /\ \A m \in DOMAIN runs : runs'[m] = runs[m] /\ m <= n
  <2>1. runs' = Append(runs, RunOf(a)) BY DEF RecordRun, RunOf
  <2> HIDE DEF a
  <2>2. QED BY <1>1, <1>2, <2>1
<1>4. \A r \in Registries :
        checkpoint'[r] = IF r = a.registry
                         THEN [cursor |-> CursorAfter(a), run |-> n, status |-> a.status]
                         ELSE checkpoint[r]
  BY <1>1 DEF RecordRun, IInv, TypeOK
<1>5. syncer' \in [Syncers -> Activity]
      /\ \A t \in Syncers : syncer'[t] = IF t = s THEN Idle(a.registry) ELSE syncer[t]
  BY <1>1, IdleType DEF RecordRun, IInv, TypeOK
<1>6. \A r, page : Covered(r, page) => Covered(r, page)'
  BY <1>3 DEF Covered
<1>7. ASSUME NEW r, NEW cursor, r = a.registry, cursor = CursorAfter(a)
      PROVE  Passed(r, cursor)'
  <2>1. PICK before \in Cursor : before = a.before BY <1>1
  <2>2. Passed(r, before) BY <1>1, <1>7, <2>1 DEF IInv, CarriedIsEarned
  <2>3. CASE a.status # "succeeded"
    BY <1>6, <1>7, <2>1, <2>2, <2>3 DEF CursorAfter, Passed
  <2>4. CASE a.status = "succeeded"
    <3>1. cursor = NextCursor(before)
      BY <1>1, <1>7, <2>1, <2>4 DEF IInv, CarriedIsEarned, CursorAfter
    <3>2. Covered(r, before)'
      <4>1. runs'[n].registry = r /\ runs'[n].before = before /\ runs'[n].status = "succeeded"
        BY <1>3, <1>7, <2>1, <2>4 DEF RunOf
      <4>2. n \in DOMAIN runs' BY <1>3
      <4>3. QED BY <4>1, <4>2 DEF Covered
    <3>3. \A page \in 0..cursor - 1 : page = before \/ page \in 0..before - 1
      BY <2>1, <3>1, SyncAssumption DEF NextCursor, Cursor
    <3>4. QED BY <1>6, <2>2, <3>2, <3>3 DEF Passed
  <2>5. QED BY <2>3, <2>4
<1>8. TypeOK'
  <2>1. checkpoint' \in [Registries -> [cursor: Cursor, run: 0..n, status: Status]]
    <3>1. checkpoint' = [checkpoint EXCEPT ![a.registry] =
                           [cursor |-> CursorAfter(a), run |-> n, status |-> a.status]]
      BY DEF RecordRun
    <3>2. checkpoint \in [Registries -> [cursor: Cursor, run: 0..n, status: Status]]
      BY <1>1 DEF IInv, TypeOK
    <3>3. [cursor |-> CursorAfter(a), run |-> n, status |-> a.status]
            \in [cursor: Cursor, run: 0..n, status: Status]
      BY <1>1, <1>2, <1>3
    <3> HIDE DEF a, n
    <3>4. QED BY <3>1, <3>2, <3>3
  <2>2. QED BY <1>1, <1>3, <1>5, <2>1 DEF TypeOK
<1>9. CursorEarned'
  <2> SUFFICES ASSUME NEW r \in Registries, NEW page \in 0..checkpoint'[r].cursor - 1
               PROVE  Covered(r, page)'
    BY DEF CursorEarned
  <2>1. CASE r = a.registry
    <3>1. PICK cursor : cursor = CursorAfter(a) OBVIOUS
    <3>2. Passed(r, cursor)' BY <1>7, <2>1, <3>1
    <3>3. page \in 0..cursor - 1 BY <1>4, <2>1, <3>1
    <3>4. QED BY <3>2, <3>3 DEF Passed
  <2>2. CASE r # a.registry
    BY <1>4, <1>6, <2>2 DEF IInv, CursorEarned
  <2>3. QED BY <2>1, <2>2
<1>10. CarriedIsEarned'
  BY <1>5, <1>6 DEF IInv, CarriedIsEarned, Passed, Idle, NextCursor
<1>11. CarriedAsLoaded'
  <2> SUFFICES ASSUME NEW t \in Syncers, syncer'[t].phase # "idle"
               PROVE  /\ syncer'[t].base <= Len(runs')
                      /\ syncer'[t].base = checkpoint'[syncer'[t].registry].run
                           => syncer'[t].before = checkpoint'[syncer'[t].registry].cursor
    BY DEF CarriedAsLoaded
  <2>1. t # s /\ syncer'[t] = syncer[t]
    BY <1>5 DEF Idle
  <2>2. /\ syncer[t].base <= Len(runs) /\ syncer[t].base \in Nat /\ Len(runs) \in Nat
        /\ syncer[t].registry \in Registries
    BY <1>1, <2>1 DEF IInv, TypeOK, CarriedAsLoaded, Activity
  <2>3. CASE syncer[t].registry = a.registry
    <3>1. checkpoint'[syncer[t].registry].run = n
      BY <1>4, <2>2, <2>3
    <3> QED
      BY <1>3, <2>1, <2>2, <3>1
  <2>4. CASE syncer[t].registry # a.registry
    <3>1. checkpoint'[syncer[t].registry] = checkpoint[syncer[t].registry]
      BY <1>4, <2>2, <2>4
    <3> QED
      BY <1>3, <2>1, <2>2, <3>1 DEF IInv, CarriedAsLoaded
  <2> QED
    BY <2>3, <2>4
<1>12. QED BY <1>8, <1>9, <1>10, <1>11 DEF IInv

-----------------------------------------------------------------------------

LEMMA NextIInv == IInv /\ [Next]_vars => IInv'
<1> SUFFICES ASSUME IInv, [Next]_vars PROVE IInv' OBVIOUS
<1>1. CASE Next
  <2>1. PICK s \in Syncers :
          \/ \E r \in Registries : Load(s, r)
          \/ DiscoverFails(s)
          \/ \E status \in {"succeeded", "partial"} : DiscoverPage(s, status)
          \/ RecordRun(s)
          \/ Abandon(s)
    BY <1>1 DEF Next
  <2>2. QED BY <2>1, LoadIInv, DiscoverIInv, RecordRunIInv, AbandonIInv
<1>2. CASE UNCHANGED vars
  BY <1>2 DEF vars, IInv, TypeOK, CursorEarned, CarriedIsEarned, CarriedAsLoaded,
              Passed, Covered
<1>3. QED BY <1>1, <1>2

\* The inductive invariant holds throughout.
THEOREM Inductive == Spec => []IInv
  BY InitIInv, NextIInv, PTL DEF Spec

\* The tables and the syncers stay well typed, and cursors inside the listing.
THEOREM TypeCorrect == Spec => []TypeOK
<1>1. IInv => TypeOK BY DEF IInv
<1>2. QED BY <1>1, Inductive, PTL

\* The checkpoint never passes a page that no run covered without a failure,
\* however many syncs overlap (sync_repository.py:58-63).
THEOREM ReplaySafe == Spec => []CursorEarned
<1>1. IInv => CursorEarned BY DEF IInv
<1>2. QED BY <1>1, Inductive, PTL

\* A sync that no other one overtook advances the checkpoint by its page if the page
\* succeeded, and leaves it alone if it did not.
THEOREM SuccessAdvances == Spec => OnlySuccessAdvances
<1>1. ASSUME IInv, Next, NEW s \in Syncers, Recorded(s), ~Overtaken(s),
             NEW r, r = syncer[s].registry
      PROVE  checkpoint'[r].cursor = IF syncer[s].status = "succeeded"
                                     THEN NextCursor(checkpoint[r].cursor)
                                     ELSE checkpoint[r].cursor
  <2>1. RecordRun(s)
    <3>1. PICK t \in Syncers :
            \/ \E q \in Registries : Load(t, q)
            \/ DiscoverFails(t)
            \/ \E status \in {"succeeded", "partial"} : DiscoverPage(t, status)
            \/ RecordRun(t)
            \/ Abandon(t)
      BY <1>1 DEF Next
    <3>2. RecordRun(t)
      BY <1>1, <3>1 DEF Recorded, Load, DiscoverFails, DiscoverPage, Abandon
    <3>3. t = s
      BY <1>1, <3>2 DEF Recorded, RecordRun, IInv, TypeOK
    <3> QED
      BY <3>2, <3>3
  <2> DEFINE a == syncer[s]
  <2>2. a \in Activity /\ r \in Registries
    BY <1>1 DEF IInv, TypeOK, Activity
  <2>3. checkpoint'[r].cursor = CursorAfter(a)
    BY <1>1, <2>1, <2>2 DEF RecordRun, IInv, TypeOK
  <2>4. a.phase = "reported" /\ a.before = checkpoint[r].cursor
    BY <1>1 DEF Recorded, Overtaken, IInv, CarriedAsLoaded
  <2>5. a.status = "succeeded" => a.next = NextCursor(a.before)
    BY <1>1, <2>4 DEF IInv, CarriedIsEarned
  <2> QED
    BY <2>3, <2>4, <2>5 DEF CursorAfter
<1>2. IInv /\ [Next]_vars => [AdvancesOnSuccess]_vars
  BY <1>1 DEF AdvancesOnSuccess
<1> QED
  BY <1>2, Inductive, PTL DEF Spec, OnlySuccessAdvances
=============================================================================
