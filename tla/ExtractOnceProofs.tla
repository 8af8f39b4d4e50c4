------------------------- MODULE ExtractOnceProofs -------------------------
(***************************************************************************)
(* Proofs about ExtractOnce, for any number of processes, keys, run        *)
(* directories, killed processes and failing file operations.              *)
(***************************************************************************)
EXTENDS ExtractOnce, SequenceTheorems, TLAPS

(***************************************************************************)
(* The inductive invariant.  OneAtATime and LockHasOwner are inductive     *)
(* together.  That a key is charged again after a failure only needs two   *)
(* more facts: a process under way records in a run of its own key, and    *)
(* from the second look at the cache to the publication the cache entry    *)
(* stays empty.  What an outcome says of its run is added below.           *)
(***************************************************************************)
BeforeEntry == {"calling", "replied", "responded", "grounded", "resulted"}

OwnRun ==
  \A p \in Processes : process[p].pc \in InLock \ {"locked"} =>
    /\ process[p].run \in DOMAIN runs
    /\ runs[process[p].run].key = process[p].key
    /\ process[p].pc \in {"started", "calling"} => runs[process[p].run].calls = 0

NoEntryYet ==
  \A p \in Processes : process[p].pc \in BeforeEntry => cache[process[p].key] = 0

OrphanIsLock == \A k \in Keys : orphaned[k] => lock[k]

IInv == TypeOK /\ OneAtATime /\ LockHasOwner /\ OrphanIsLock /\ OwnRun /\ NoEntryYet

-----------------------------------------------------------------------------
(* What the helpers do *)

LEMMA InitIInv == Init => IInv
<1> SUFFICES ASSUME Init PROVE IInv OBVIOUS
<1>1. TypeOK
  BY BoundsAssumption, EmptySeq DEF Init, TypeOK, Place, InLock
<1>2. \A p \in Processes : process[p].pc = "idle"
  BY DEF Init
<1>3. /\ OneAtATime
      /\ LockHasOwner
      /\ OrphanIsLock
      /\ OwnRun
      /\ NoEntryYet
  BY <1>2 DEF Init, OneAtATime, LockHasOwner, OrphanIsLock, OwnRun, NoEntryYet, Holds, InLock, BeforeEntry
<1> QED
  BY <1>1, <1>3 DEF IInv

\* What moving one process does.
LEMMA GotoShape ==
  ASSUME TypeOK, NEW p \in Processes,
         NEW pc \in {"idle", "missed"} \cup InLock, Goto(p, pc)
  PROVE  /\ process' \in [Processes -> Place]
         /\ process'[p].pc = pc
         /\ process'[p].key = process[p].key
         /\ process'[p].run = process[p].run
         /\ process[p].key \in Keys
         /\ process[p].run \in Nat
         /\ \A q \in Processes \ {p} : process'[q] = process[q]
<1>1. /\ process \in [Processes -> Place]
      /\ process[p] \in Place
  BY DEF TypeOK
<1>2. [process[p] EXCEPT !.pc = pc] \in Place
  BY <1>1 DEF Place
<1>3. process' = [process EXCEPT ![p] = [process[p] EXCEPT !.pc = pc]]
  BY DEF Goto
<1> QED
  BY <1>1, <1>2, <1>3 DEF Place

\* What rewriting one run directory does.
LEMMA RunUpdate ==
  ASSUME TypeOK, NEW r \in DOMAIN runs, NEW new \in Run,
         runs' = [runs EXCEPT ![r] = new]
  PROVE  /\ runs' \in Seq(Run)
         /\ Len(runs') = Len(runs)
         /\ DOMAIN runs' = DOMAIN runs
         /\ runs'[r] = new
         /\ \A s \in DOMAIN runs \ {r} : runs'[s] = runs[s]
<1>1. runs \in Seq(Run) /\ r \in 1..Len(runs)
  BY LenProperties DEF TypeOK
<1>2. /\ runs' \in Seq(Run)
      /\ Len(runs') = Len(runs)
  BY <1>1, ExceptSeq
<1> QED
  BY <1>1, <1>2

\* A step of the process that holds a lock, after it has made its run: it stays
\* inside, it may rewrite its own run and give its own key a cache entry.
LEMMA InsideStep ==
  ASSUME IInv, NEW p \in Processes,
         process[p].pc \in InLock \ {"locked"},
         NEW pc \in InLock \ {"locked", "started"}, Goto(p, pc),
         runs' \in Seq(Run), Len(runs') = Len(runs), DOMAIN runs' = DOMAIN runs,
         runs'[process[p].run].key = process[p].key,
         \A r \in DOMAIN runs \ {process[p].run} : runs'[r] = runs[r],
         pc = "calling" => runs'[process[p].run].calls = 0,
         pc \in BeforeEntry => cache'[process[p].key] = 0,
         cache' \in [Keys -> 0..MaxRuns],
         \A k \in Keys \ {process[p].key} : cache'[k] = cache[k],
         faults' \in 0..MaxFaults,
         UNCHANGED <<lock, orphaned, crashes>>
  PROVE  IInv'
<1> USE DEF IInv
<1>1. /\ process' \in [Processes -> Place]
      /\ process'[p].pc = pc
      /\ process'[p].key = process[p].key
      /\ process'[p].run = process[p].run
      /\ process[p].key \in Keys
      /\ \A q \in Processes \ {p} : process'[q] = process[q]
  BY GotoShape
<1>2. TypeOK'
  BY <1>1 DEF TypeOK
<1>3. \A q \in Processes, k \in Keys : Holds(q, k)' <=> Holds(q, k)
  BY <1>1 DEF Holds
<1>4. OneAtATime'
  BY <1>3 DEF OneAtATime
<1>5. LockHasOwner' /\ OrphanIsLock'
  BY <1>3 DEF LockHasOwner, OrphanIsLock
<1>6. \A q \in Processes \ {p} :
        process[q].pc \in InLock =>
          /\ process[q].key \in Keys
          /\ process[q].key # process[p].key
  <2> SUFFICES ASSUME NEW q \in Processes \ {p}, process[q].pc \in InLock,
                      process[q].key = process[p].key
               PROVE  FALSE
    BY DEF TypeOK, Place
  <2> QED
    BY <1>1 DEF OneAtATime, Holds
<1>7. OwnRun'
  <2> SUFFICES ASSUME NEW q \in Processes, process'[q].pc \in InLock \ {"locked"}
               PROVE  /\ process'[q].run \in DOMAIN runs'
                      /\ runs'[process'[q].run].key = process'[q].key
                      /\ process'[q].pc \in {"started", "calling"} =>
                           runs'[process'[q].run].calls = 0
    BY DEF OwnRun
  <2>1. CASE q = p
    BY <1>1, <2>1 DEF OwnRun
  <2>2. CASE q # p
    <3>1. process'[q] = process[q]
      BY <1>1, <2>2
    <3>2. /\ process[q].run \in DOMAIN runs
          /\ runs[process[q].run].key = process[q].key
          /\ process[q].pc \in {"started", "calling"} => runs[process[q].run].calls = 0
          /\ runs[process[p].run].key = process[p].key
      BY <3>1 DEF OwnRun
    <3>3. process[q].run # process[p].run
      BY <1>6, <2>2, <3>1, <3>2
    <3> QED
      BY <3>1, <3>2, <3>3
  <2> QED
    BY <2>1, <2>2
<1>8. NoEntryYet'
  <2> SUFFICES ASSUME NEW q \in Processes, process'[q].pc \in BeforeEntry
               PROVE  cache'[process'[q].key] = 0
    BY DEF NoEntryYet
  <2>1. CASE q = p
    BY <1>1, <2>1
  <2>2. CASE q # p
    <3>1. process'[q] = process[q]
      BY <1>1, <2>2
    <3>2. process[q].pc \in InLock
      BY <3>1 DEF BeforeEntry, InLock
    <3>3. cache[process[q].key] = 0
      BY <3>1 DEF NoEntryYet
    <3> QED
      BY <1>6, <2>2, <3>1, <3>2, <3>3
  <2> QED
    BY <2>1, <2>2
<1> QED
  BY <1>2, <1>4, <1>5, <1>7, <1>8

-----------------------------------------------------------------------------
(* The steps *)

\* A process that has no lock looks at the cache.
LEMMA MissCacheKeeps ==
  ASSUME IInv, NEW p \in Processes, NEW k \in Keys, MissCache(p, k)
  PROVE  IInv'
<1> USE DEF IInv
<1> DEFINE new == [pc |-> "missed", key |-> k, run |-> 0]
<1>1. new \in Place
  BY DEF Place
<1>2. /\ process' \in [Processes -> Place]
      /\ process'[p] = new
      /\ \A q \in Processes \ {p} : process'[q] = process[q]
      /\ process[p].pc = "idle"
      /\ UNCHANGED <<cache, lock, orphaned, runs, crashes, faults>>
  BY <1>1 DEF MissCache, TypeOK, At
<1>3. TypeOK'
  BY <1>2 DEF TypeOK
<1>4. \A q \in Processes, l \in Keys : Holds(q, l)' <=> Holds(q, l)
  BY <1>2 DEF Holds, InLock
<1>5. OneAtATime' /\ LockHasOwner' /\ OrphanIsLock'
  BY <1>2, <1>4 DEF OneAtATime, LockHasOwner, OrphanIsLock
<1>6. OwnRun' /\ NoEntryYet'
  BY <1>2 DEF OwnRun, NoEntryYet, InLock, BeforeEntry
<1> QED
  BY <1>3, <1>5, <1>6

\* It gets the lock, or gives up.
LEMMA AcquireKeeps ==
  ASSUME IInv, NEW p \in Processes, Acquire(p)
  PROVE  IInv'
<1> USE DEF IInv
<1> DEFINE k == process[p].key
<1>1. /\ process[p].pc = "missed"
      /\ UNCHANGED <<cache, orphaned, runs, crashes, faults>>
  BY DEF Acquire, At
<1>2. CASE /\ ~lock[k]
           /\ lock' = [lock EXCEPT ![k] = TRUE]
           /\ Goto(p, "locked")
  <2>1. /\ process' \in [Processes -> Place]
        /\ process'[p].pc = "locked"
        /\ process'[p].key = k
        /\ k \in Keys
        /\ \A q \in Processes \ {p} : process'[q] = process[q]
    BY <1>2, GotoShape DEF InLock
  <2>2. /\ lock' \in [Keys -> BOOLEAN]
        /\ lock'[k]
        /\ \A l \in Keys \ {k} : lock'[l] = lock[l]
    BY <1>2, <2>1 DEF TypeOK
  <2>3. TypeOK'
    BY <1>1, <2>1, <2>2 DEF TypeOK
  <2>4. /\ \A q \in Processes \ {p}, l \in Keys : Holds(q, l)' <=> Holds(q, l)
        /\ \A l \in Keys : Holds(p, l)' <=> l = k
        /\ \A l \in Keys : ~Holds(p, l)
    BY <1>1, <2>1 DEF Holds, InLock
  <2>5. /\ \A q \in Processes : ~Holds(q, k)
        /\ ~orphaned[k]
    BY <1>2, <2>1 DEF OneAtATime, OrphanIsLock
  <2>6. OneAtATime'
    BY <1>1, <2>1, <2>2, <2>4, <2>5 DEF OneAtATime
  <2>7. LockHasOwner' /\ OrphanIsLock'
    BY <1>1, <2>1, <2>2, <2>4 DEF LockHasOwner, OrphanIsLock
  <2>8. OwnRun' /\ NoEntryYet'
    BY <1>1, <2>1 DEF OwnRun, NoEntryYet, InLock, BeforeEntry
  <2> QED
    BY <2>3, <2>6, <2>7, <2>8
<1>3. CASE lock[k] /\ Goto(p, "idle") /\ UNCHANGED lock
  <2>1. /\ process' \in [Processes -> Place]
        /\ process'[p].pc = "idle"
        /\ \A q \in Processes \ {p} : process'[q] = process[q]
    BY <1>3, GotoShape
  <2>2. TypeOK'
    BY <1>1, <1>3, <2>1 DEF TypeOK
  <2>3. \A q \in Processes, l \in Keys : Holds(q, l)' <=> Holds(q, l)
    BY <1>1, <2>1 DEF Holds, InLock
  <2>4. OneAtATime' /\ LockHasOwner' /\ OrphanIsLock'
    BY <1>1, <1>3, <2>3 DEF OneAtATime, LockHasOwner, OrphanIsLock
  <2>5. OwnRun' /\ NoEntryYet'
    BY <1>1, <2>1 DEF OwnRun, NoEntryYet, InLock, BeforeEntry
  <2> QED
    BY <2>2, <2>4, <2>5
<1> QED
  BY <1>2, <1>3 DEF Acquire

\* It makes its run, or the lock is left behind.
LEMMA MakeRunKeeps ==
  ASSUME IInv, NEW p \in Processes, MakeRun(p)
  PROVE  IInv'
<1> USE DEF IInv
<1> DEFINE k == process[p].key
           n == Len(runs) + 1
           new == [key |-> k, files |-> {"started"}, calls |-> 0, outcome |-> "open"]
<1>1. /\ process[p].pc = "locked"
      /\ Len(runs) < MaxRuns
      /\ UNCHANGED <<cache, lock, crashes>>
      /\ k \in Keys
      /\ Holds(p, k)
  BY DEF MakeRun, At, TypeOK, Place, Holds, InLock
<1>2. runs \in Seq(Run) /\ DOMAIN runs = 1..Len(runs) /\ Len(runs) \in Nat
  BY LenProperties DEF TypeOK
<1>3. CASE /\ NoFault
           /\ runs' = Append(runs, new)
           /\ process' = [process EXCEPT ![p].pc = "started", ![p].run = n]
           /\ UNCHANGED orphaned
  <2>1. new \in Run
    BY <1>1 DEF Run, Files
  <2>2. /\ runs' \in Seq(Run)
        /\ Len(runs') = n
        /\ DOMAIN runs' = 1..n
        /\ runs'[n] = new
        /\ \A r \in DOMAIN runs : r \in DOMAIN runs' /\ runs'[r] = runs[r]
    BY <1>2, <1>3, <2>1, AppendProperties
  <2>3. /\ process' \in [Processes -> Place]
        /\ process'[p].pc = "started"
        /\ process'[p].key = k
        /\ process'[p].run = n
        /\ \A q \in Processes \ {p} : process'[q] = process[q]
    <3>1. process \in [Processes -> Place] /\ process[p] \in Place
      BY DEF TypeOK
    <3>2. /\ DOMAIN process' = Processes
          /\ process' = [q \in Processes |-> process'[q]]
          /\ process'[p] = [pc |-> "started", key |-> k, run |-> n]
          /\ \A q \in Processes \ {p} : process'[q] = process[q]
      BY <1>3, <3>1 DEF Place
    <3>3. process'[p] \in Place
      BY <1>1, <1>2, <3>2 DEF Place, InLock
    <3> QED
      BY <3>1, <3>2, <3>3
  <2>4. TypeOK'
    <3>1. Len(runs') <= MaxRuns
      BY <1>1, <1>2, <2>2, BoundsAssumption
    <3>2. UNCHANGED <<cache, lock, orphaned, crashes, faults>>
      BY <1>1, <1>3 DEF NoFault
    <3> QED
      BY <2>2, <2>3, <3>1, <3>2 DEF TypeOK
  <2>5. \A q \in Processes, l \in Keys : Holds(q, l)' <=> Holds(q, l)
    BY <1>1, <2>3 DEF Holds, InLock
  <2>6. OneAtATime' /\ LockHasOwner' /\ OrphanIsLock'
    BY <1>1, <1>3, <2>5 DEF OneAtATime, LockHasOwner, OrphanIsLock
  <2>7. OwnRun'
    BY <2>2, <2>3 DEF OwnRun
  <2>8. NoEntryYet'
    BY <1>1, <2>3 DEF NoEntryYet, BeforeEntry
  <2> QED
    BY <2>4, <2>6, <2>7, <2>8
<1>4. CASE /\ Fault
           /\ Goto(p, "idle")
           /\ orphaned' = [orphaned EXCEPT ![k] = TRUE]
           /\ UNCHANGED runs
  <2>1. /\ process' \in [Processes -> Place]
        /\ process'[p].pc = "idle"
        /\ \A q \in Processes \ {p} : process'[q] = process[q]
    BY <1>4, GotoShape
  <2>2. /\ orphaned' \in [Keys -> BOOLEAN]
        /\ orphaned'[k]
        /\ \A l \in Keys \ {k} : orphaned'[l] = orphaned[l]
    BY <1>1, <1>4 DEF TypeOK
  <2>3. TypeOK'
    <3>1. faults' \in 0..MaxFaults
      BY <1>4, BoundsAssumption DEF TypeOK, Fault
    <3>2. UNCHANGED <<cache, lock, runs, crashes>>
      BY <1>1, <1>4
    <3> QED
      BY <2>1, <2>2, <3>1, <3>2 DEF TypeOK
  <2>4. /\ \A q \in Processes \ {p}, l \in Keys : Holds(q, l)' <=> Holds(q, l)
        /\ \A l \in Keys : ~Holds(p, l)'
        /\ \A l \in Keys : Holds(p, l) => l = k
    BY <1>1, <2>1 DEF Holds, InLock
  <2>5. \A q \in Processes \ {p} : ~Holds(q, k)
    BY <1>1 DEF OneAtATime
  <2>6. lock[k]
    BY <1>1 DEF OneAtATime
  <2>7. OneAtATime'
    <3> SUFFICES ASSUME NEW q \in Processes, NEW l \in Keys, Holds(q, l)'
                 PROVE  /\ lock[l]
                        /\ ~orphaned'[l]
                        /\ \A s \in Processes : Holds(s, l)' => s = q
      BY <1>1 DEF OneAtATime
    <3>1. q # p /\ l # k /\ Holds(q, l)
      BY <2>4, <2>5
    <3> QED
      BY <2>2, <2>4, <3>1 DEF OneAtATime
  <2>8. LockHasOwner' /\ OrphanIsLock'
    BY <1>1, <2>2, <2>4, <2>6 DEF LockHasOwner, OrphanIsLock
  <2>9. OwnRun' /\ NoEntryYet'
    BY <1>1, <1>4, <2>1 DEF OwnRun, NoEntryYet, InLock, BeforeEntry
  <2> QED
    BY <2>3, <2>7, <2>8, <2>9
<1> QED
  BY <1>3, <1>4 DEF MakeRun

\* What rewriting the files, the calls or the outcome of a run makes of it.
LEMMA RewriteShape ==
  ASSUME IInv, NEW p \in Processes, process[p].pc \in InLock \ {"locked"},
         NEW new \in Run, new.key = process[p].key,
         runs' = [runs EXCEPT ![process[p].run] = new]
  PROVE  /\ runs' \in Seq(Run)
         /\ Len(runs') = Len(runs)
         /\ DOMAIN runs' = DOMAIN runs
         /\ runs'[process[p].run] = new
         /\ runs'[process[p].run].key = process[p].key
         /\ \A r \in DOMAIN runs \ {process[p].run} : runs'[r] = runs[r]
<1>1. process[p].run \in DOMAIN runs /\ TypeOK
  BY DEF IInv, OwnRun
<1> QED
  BY <1>1, RunUpdate

\* What is in the run of a process that has one.
LEMMA RunOf ==
  ASSUME IInv, NEW p \in Processes, process[p].pc \in InLock \ {"locked"}
  PROVE  /\ process[p].run \in DOMAIN runs
         /\ runs[process[p].run] \in Run
         /\ runs[process[p].run].key = process[p].key
         /\ process[p].key \in Keys
<1>1. /\ process[p].run \in DOMAIN runs
      /\ runs[process[p].run].key = process[p].key
      /\ process[p].key \in Keys
  BY DEF IInv, OwnRun, TypeOK, Place
<1>2. runs \in [1..Len(runs) -> Run] /\ DOMAIN runs = 1..Len(runs)
  BY LenProperties DEF IInv, TypeOK
<1> QED
  BY <1>1, <1>2

\* The runs keep their shape when p adds a file to its run or settles it.
LEMMA RecordShape ==
  ASSUME IInv, NEW p \in Processes, process[p].pc \in InLock \ {"locked"},
         \/ UNCHANGED runs
         \/ \E file \in Files : Record(p, file)
         \/ \E outcome \in {"open", "reused", "fresh", "raised"} : Outcome(p, outcome)
         \/ runs' = [runs EXCEPT ![process[p].run].files = @ \cup {"failed"},
                                 ![process[p].run].outcome = "raised"]
  PROVE  /\ runs' \in Seq(Run)
         /\ Len(runs') = Len(runs)
         /\ DOMAIN runs' = DOMAIN runs
         /\ runs'[process[p].run].key = process[p].key
         /\ \A r \in DOMAIN runs \ {process[p].run} : runs'[r] = runs[r]
         /\ \A r \in DOMAIN runs : runs'[r].key = runs[r].key /\ runs'[r].calls = runs[r].calls
<1> DEFINE r == process[p].run
           old == runs[r]
<1>1. /\ r \in DOMAIN runs
      /\ old \in Run
      /\ old.key = process[p].key
  BY RunOf
<1>2. CASE UNCHANGED runs
  BY <1>1, <1>2 DEF IInv, TypeOK
<1>3. ASSUME NEW new \in Run, new.key = old.key, new.calls = old.calls,
             runs' = [runs EXCEPT ![r] = new]
      PROVE  /\ runs' \in Seq(Run)
             /\ Len(runs') = Len(runs)
             /\ DOMAIN runs' = DOMAIN runs
             /\ runs'[r].key = process[p].key
             /\ \A s \in DOMAIN runs \ {r} : runs'[s] = runs[s]
             /\ \A s \in DOMAIN runs : runs'[s].key = runs[s].key /\ runs'[s].calls = runs[s].calls
  <2>1. /\ runs' \in Seq(Run)
        /\ Len(runs') = Len(runs)
        /\ DOMAIN runs' = DOMAIN runs
        /\ runs'[r] = new
        /\ \A s \in DOMAIN runs \ {r} : runs'[s] = runs[s]
    BY <1>1, <1>3, RewriteShape
  <2> QED
    BY <1>1, <1>3, <2>1
<1>4. CASE \E file \in Files : Record(p, file)
  <2>1. PICK file \in Files : Record(p, file)
    BY <1>4
  <2> DEFINE new == [old EXCEPT !.files = @ \cup {file}]
  <2>2. runs' = [runs EXCEPT ![r] = new]
    BY <2>1 DEF Record
  <2>3. new \in Run /\ new.key = old.key /\ new.calls = old.calls
    BY <1>1 DEF Run
  <2> QED
    BY <1>3, <2>2, <2>3
<1>5. CASE \E outcome \in {"open", "reused", "fresh", "raised"} : Outcome(p, outcome)
  <2>1. PICK outcome \in {"open", "reused", "fresh", "raised"} : Outcome(p, outcome)
    BY <1>5
  <2> DEFINE new == [old EXCEPT !.outcome = outcome]
  <2>2. runs' = [runs EXCEPT ![r] = new]
    BY <2>1 DEF Outcome
  <2>3. new \in Run /\ new.key = old.key /\ new.calls = old.calls
    BY <1>1 DEF Run
  <2> QED
    BY <1>3, <2>2, <2>3
<1>6. CASE runs' = [runs EXCEPT ![r].files = @ \cup {"failed"}, ![r].outcome = "raised"]
  <2> DEFINE new == [key |-> old.key, files |-> old.files \cup {"failed"},
                     calls |-> old.calls, outcome |-> "raised"]
  <2>1. new \in Run /\ new.key = old.key /\ new.calls = old.calls
    BY <1>1 DEF Run, Files
  <2>2. runs \in [1..Len(runs) -> Run] /\ DOMAIN runs = 1..Len(runs)
    BY LenProperties DEF IInv, TypeOK
  <2>3. /\ DOMAIN runs' = DOMAIN runs
        /\ runs' = [s \in DOMAIN runs |-> runs'[s]]
        /\ runs'[r] = new
        /\ \A s \in DOMAIN runs \ {r} : runs'[s] = runs[s]
    BY <1>1, <1>6, <2>2 DEF Run
  <2>4. runs' = [runs EXCEPT ![r] = new]
    BY <1>1, <2>2, <2>3
  <2> QED
    BY <1>3, <2>1, <2>4
<1> QED
  BY <1>2, <1>4, <1>5, <1>6

\* A failing operation stays within the bound, and so does one that does not fail.
LEMMA FaultType ==
  ASSUME TypeOK, Fault \/ NoFault
  PROVE  faults' \in 0..MaxFaults
BY BoundsAssumption DEF TypeOK, Fault, NoFault

\* A step of the holder that does not touch the cache, the lock or the calls.
LEMMA QuietInside ==
  ASSUME IInv, NEW p \in Processes,
         process[p].pc \in InLock \ {"locked"},
         NEW pc \in InLock \ {"locked", "started"}, Goto(p, pc),
         pc = "calling" => process[p].pc = "started",
         pc \in BeforeEntry => cache[process[p].key] = 0,
         \/ UNCHANGED runs
         \/ \E file \in Files : Record(p, file)
         \/ \E outcome \in {"open", "reused", "fresh", "raised"} : Outcome(p, outcome)
         \/ runs' = [runs EXCEPT ![process[p].run].files = @ \cup {"failed"},
                                 ![process[p].run].outcome = "raised"],
         Fault \/ NoFault,
         UNCHANGED <<cache, lock, orphaned, crashes>>
  PROVE  IInv'
<1>1. /\ runs' \in Seq(Run)
      /\ Len(runs') = Len(runs)
      /\ DOMAIN runs' = DOMAIN runs
      /\ runs'[process[p].run].key = process[p].key
      /\ \A r \in DOMAIN runs \ {process[p].run} : runs'[r] = runs[r]
      /\ \A r \in DOMAIN runs : runs'[r].key = runs[r].key /\ runs'[r].calls = runs[r].calls
  BY RecordShape
<1>2. pc = "calling" => runs'[process[p].run].calls = 0
  <2> SUFFICES ASSUME process[p].pc = "started"
               PROVE  runs'[process[p].run].calls = 0
    OBVIOUS
  <2>1. /\ process[p].run \in DOMAIN runs
        /\ runs[process[p].run].calls = 0
    BY DEF IInv, OwnRun
  <2> QED
    BY <1>1, <2>1
<1>3. /\ faults' \in 0..MaxFaults
      /\ cache' \in [Keys -> 0..MaxRuns]
      /\ cache' = cache
  BY FaultType DEF IInv, TypeOK
<1> QED
  BY <1>1, <1>2, <1>3, InsideStep

LEMMA RecheckKeeps ==
  ASSUME IInv, NEW p \in Processes, Recheck(p)
  PROVE  IInv'
<1>1. /\ process[p].pc = "started"
      /\ UNCHANGED <<cache, lock, orphaned, crashes>>
      /\ process[p].pc \in InLock \ {"locked"}
      /\ {"calling", "unlocking", "failing"} \subseteq InLock \ {"locked", "started"}
      /\ "unlocking" \notin BeforeEntry /\ "failing" \notin BeforeEntry
  BY DEF Recheck, At, InLock, BeforeEntry
<1>2. CASE cache[process[p].key] = 0 /\ NoFault /\ Goto(p, "calling") /\ UNCHANGED runs
  BY <1>1, <1>2, QuietInside
<1>3. CASE NoFault /\ Goto(p, "unlocking") /\ Outcome(p, "reused")
  BY <1>1, <1>3, QuietInside
<1>4. CASE Fault /\ Goto(p, "failing") /\ UNCHANGED runs
  BY <1>1, <1>4, QuietInside
<1> QED
  BY <1>2, <1>3, <1>4 DEF Recheck

\* The paid call, charged to the run of p.
LEMMA CallShape ==
  ASSUME IInv, NEW p \in Processes, Call(p)
  PROVE  /\ process[p].pc = "calling"
         /\ process[p].run \in DOMAIN runs
         /\ runs' \in Seq(Run)
         /\ Len(runs') = Len(runs)
         /\ DOMAIN runs' = DOMAIN runs
         /\ runs'[process[p].run].key = process[p].key
         /\ runs[process[p].run].key = process[p].key
         /\ \A r \in DOMAIN runs \ {process[p].run} : runs'[r] = runs[r]
<1> DEFINE r == process[p].run
           old == runs[r]
           new == [old EXCEPT !.calls = @ + 1]
<1>1. process[p].pc = "calling" /\ process[p].pc \in InLock \ {"locked"}
  BY DEF Call, At, InLock
<1>2. /\ r \in DOMAIN runs
      /\ old \in Run
      /\ old.key = process[p].key
  BY <1>1, RunOf
<1>3. old.calls = 0
  BY <1>1 DEF IInv, OwnRun
<1>4. new \in Run /\ new.key = process[p].key
  BY <1>2, <1>3 DEF Run
<1>5. runs' = [runs EXCEPT ![r] = new]
  BY DEF Call
<1> QED
  BY <1>1, <1>2, <1>4, <1>5, RewriteShape

LEMMA CallKeeps ==
  ASSUME IInv, NEW p \in Processes, Call(p)
  PROVE  IInv'
<1>1. /\ process[p].pc = "calling"
      /\ runs' \in Seq(Run)
      /\ Len(runs') = Len(runs)
      /\ DOMAIN runs' = DOMAIN runs
      /\ runs'[process[p].run].key = process[p].key
      /\ \A r \in DOMAIN runs \ {process[p].run} : runs'[r] = runs[r]
  BY CallShape
<1>2. /\ process[p].pc \in InLock \ {"locked"}
      /\ cache[process[p].key] = 0
  BY <1>1 DEF IInv, NoEntryYet, InLock, BeforeEntry
<1>3. /\ UNCHANGED <<cache, lock, orphaned, crashes>>
      /\ faults' \in 0..MaxFaults
      /\ cache' \in [Keys -> 0..MaxRuns]
      /\ cache' = cache
  BY DEF Call, IInv, TypeOK
<1>4. PICK pc \in {"replied", "failing"} : Goto(p, pc)
  BY DEF Call
<1>5. pc \in InLock \ {"locked", "started"} /\ pc # "calling"
  BY <1>4 DEF InLock
<1> QED
  BY <1>1, <1>2, <1>3, <1>4, <1>5, InsideStep

LEMMA WriteKeeps ==
  ASSUME IInv, NEW p \in Processes,
         WriteResponse(p) \/ Ground(p) \/ WriteResult(p)
  PROVE  IInv'
<1>1. /\ process[p].pc \in BeforeEntry \ {"calling", "resulted"}
      /\ process[p].pc \in InLock \ {"locked"}
      /\ cache[process[p].key] = 0
      /\ UNCHANGED <<cache, lock, orphaned, crashes>>
  BY DEF WriteResponse, Ground, WriteResult, At, IInv, NoEntryYet, InLock, BeforeEntry
<1>2. /\ {"responded", "grounded", "resulted", "failing"} \subseteq InLock \ {"locked", "started"}
      /\ {"response", "result"} \subseteq Files
  BY DEF InLock, Files
<1>3. CASE WriteResponse(p)
  <2>1. CASE NoFault /\ Record(p, "response") /\ Goto(p, "responded")
    BY <1>1, <1>2, <2>1, QuietInside
  <2>2. CASE Fault /\ Goto(p, "failing") /\ UNCHANGED runs
    BY <1>1, <1>2, <2>2, QuietInside
  <2> QED
    BY <1>3, <2>1, <2>2 DEF WriteResponse
<1>4. CASE Ground(p)
  <2>1. UNCHANGED runs /\ NoFault
    BY <1>4 DEF Ground, NoFault
  <2>2. PICK pc \in {"grounded", "failing"} : Goto(p, pc)
    BY <1>4 DEF Ground
  <2> QED
    BY <1>1, <1>2, <2>1, <2>2, QuietInside
<1>5. CASE WriteResult(p)
  <2>1. CASE NoFault /\ Record(p, "result") /\ Goto(p, "resulted")
    BY <1>1, <1>2, <2>1, QuietInside
  <2>2. CASE Fault /\ Goto(p, "failing") /\ UNCHANGED runs
    BY <1>1, <1>2, <2>2, QuietInside
  <2> QED
    BY <1>5, <2>1, <2>2 DEF WriteResult
<1> QED
  BY <1>3, <1>4, <1>5

LEMMA PublishKeeps ==
  ASSUME IInv, NEW p \in Processes, Publish(p)
  PROVE  IInv'
<1> DEFINE k == process[p].key
<1>1. /\ process[p].pc = "resulted"
      /\ process[p].pc \in InLock \ {"locked"}
      /\ UNCHANGED <<lock, orphaned, crashes>>
  BY DEF Publish, At, InLock
<1>2. /\ process[p].run \in DOMAIN runs
      /\ k \in Keys
  BY <1>1, RunOf
<1>3. /\ {"unlocking", "failing"} \subseteq InLock \ {"locked", "started"}
      /\ "unlocking" \notin BeforeEntry /\ "failing" \notin BeforeEntry
  BY DEF InLock, BeforeEntry
<1>4. CASE /\ cache' = [cache EXCEPT ![k] = process[p].run]
           /\ \/ NoFault /\ Outcome(p, "fresh") /\ Goto(p, "unlocking")
              \/ Fault /\ Goto(p, "failing") /\ UNCHANGED runs
  <2>1. /\ runs' \in Seq(Run)
        /\ Len(runs') = Len(runs)
        /\ DOMAIN runs' = DOMAIN runs
        /\ runs'[process[p].run].key = process[p].key
        /\ \A r \in DOMAIN runs \ {process[p].run} : runs'[r] = runs[r]
    BY <1>1, <1>4, RecordShape
  <2>2. process[p].run \in 0..MaxRuns
    <3>1. runs \in Seq(Run) /\ Len(runs) <= MaxRuns
      BY DEF IInv, TypeOK
    <3> QED
      BY <1>2, <3>1, BoundsAssumption, LenProperties
  <2>3. /\ cache' \in [Keys -> 0..MaxRuns]
        /\ \A l \in Keys \ {k} : cache'[l] = cache[l]
    BY <1>2, <1>4, <2>2 DEF IInv, TypeOK
  <2>4. faults' \in 0..MaxFaults
    BY <1>4, FaultType DEF IInv
  <2>5. PICK pc \in {"unlocking", "failing"} : Goto(p, pc)
    BY <1>4
  <2>6. pc # "calling" /\ pc \notin BeforeEntry /\ pc \in InLock \ {"locked", "started"}
    BY <1>3, <2>5
  <2> QED
    BY <1>1, <2>1, <2>3, <2>4, <2>5, <2>6, InsideStep
<1>5. CASE Fault /\ Goto(p, "failing") /\ UNCHANGED <<cache, runs>>
  BY <1>1, <1>3, <1>5, QuietInside
<1> QED
  BY <1>4, <1>5 DEF Publish

LEMMA LeaveTryKeeps ==
  ASSUME IInv, NEW p \in Processes, RecordFailure(p) \/ Interrupt(p)
  PROVE  IInv'
<1>1. /\ process[p].pc \in InLock \ {"locked"}
      /\ Goto(p, "unlocking")
      /\ Fault \/ NoFault
      /\ UNCHANGED <<cache, lock, orphaned, crashes>>
      /\ \/ \E outcome \in {"open", "reused", "fresh", "raised"} : Outcome(p, outcome)
         \/ runs' = [runs EXCEPT ![process[p].run].files = @ \cup {"failed"},
                                 ![process[p].run].outcome = "raised"]
  BY DEF RecordFailure, Interrupt, At, InLock
<1>2. /\ "unlocking" \in InLock \ {"locked", "started"}
      /\ "unlocking" \notin BeforeEntry
  BY DEF InLock, BeforeEntry
<1> QED
  BY <1>1, <1>2, QuietInside

\* A process that stops, by the finally clause or because it is killed: its lock
\* goes or is left behind.
LEMMA StopStep ==
  ASSUME IInv, NEW p \in Processes, process[p].pc # "idle", Goto(p, "idle"),
         lock' \in [Keys -> BOOLEAN], orphaned' \in [Keys -> BOOLEAN],
         \A k \in Keys \ {process[p].key} : lock'[k] = lock[k] /\ orphaned'[k] = orphaned[k],
         process[p].pc \notin InLock => UNCHANGED <<lock, orphaned>>,
         process[p].pc \in InLock => orphaned'[process[p].key] = lock'[process[p].key],
         crashes' \in 0..MaxCrashes, faults' \in 0..MaxFaults,
         UNCHANGED <<cache, runs>>
  PROVE  IInv'
<1> USE DEF IInv
<1> DEFINE k == process[p].key
<1>1. /\ process' \in [Processes -> Place]
      /\ process'[p].pc = "idle"
      /\ k \in Keys
      /\ \A q \in Processes \ {p} : process'[q] = process[q]
  BY GotoShape
<1>2. TypeOK'
  BY <1>1 DEF TypeOK
<1>3. /\ \A q \in Processes \ {p}, l \in Keys : Holds(q, l)' <=> Holds(q, l)
      /\ \A l \in Keys : ~Holds(p, l)'
      /\ \A l \in Keys : Holds(p, l) <=> process[p].pc \in InLock /\ l = k
  BY <1>1 DEF Holds, InLock
<1>4. OneAtATime' /\ LockHasOwner' /\ OrphanIsLock'
  <2>1. CASE process[p].pc \notin InLock
    BY <1>1, <1>3, <2>1 DEF OneAtATime, LockHasOwner, OrphanIsLock
  <2>2. CASE process[p].pc \in InLock
    <3>1. \A q \in Processes \ {p} : ~Holds(q, k)
      BY <1>1, <1>3, <2>2 DEF OneAtATime
    <3>2. OneAtATime'
      <4> SUFFICES ASSUME NEW q \in Processes, NEW l \in Keys, Holds(q, l)'
                   PROVE  /\ lock'[l]
                          /\ ~orphaned'[l]
                          /\ \A s \in Processes : Holds(s, l)' => s = q
        BY DEF OneAtATime
      <4>1. q # p /\ l # k /\ Holds(q, l)
        BY <1>3, <3>1
      <4> QED
        BY <1>3, <4>1 DEF OneAtATime
    <3>3. LockHasOwner' /\ OrphanIsLock'
      BY <1>1, <1>3, <2>2 DEF LockHasOwner, OrphanIsLock
    <3> QED
      BY <3>2, <3>3
  <2> QED
    BY <2>1, <2>2
<1>5. OwnRun' /\ NoEntryYet'
  BY <1>1 DEF OwnRun, NoEntryYet, InLock, BeforeEntry
<1> QED
  BY <1>2, <1>4, <1>5

LEMMA ReleaseKeeps ==
  ASSUME IInv, NEW p \in Processes, Release(p)
  PROVE  IInv'
<1> DEFINE k == process[p].key
<1>1. /\ process[p].pc = "unlocking"
      /\ process[p].pc \in InLock
      /\ Goto(p, "idle")
      /\ UNCHANGED <<cache, runs, crashes>>
      /\ TypeOK /\ k \in Keys
  BY DEF Release, At, InLock, IInv, TypeOK, Place
<1>2. lock[k] /\ ~orphaned[k]
  BY <1>1 DEF IInv, OneAtATime, Holds
<1>3. CASE NoFault /\ lock' = [lock EXCEPT ![k] = FALSE] /\ UNCHANGED orphaned
  <2>1. /\ lock' \in [Keys -> BOOLEAN] /\ orphaned' \in [Keys -> BOOLEAN]
        /\ \A l \in Keys \ {k} : lock'[l] = lock[l] /\ orphaned'[l] = orphaned[l]
        /\ lock'[k] = FALSE /\ orphaned'[k] = FALSE
    BY <1>1, <1>2, <1>3 DEF TypeOK
  <2>2. faults' \in 0..MaxFaults /\ crashes' \in 0..MaxCrashes
    BY <1>1, <1>3, FaultType DEF TypeOK
  <2> QED
    BY <1>1, <2>1, <2>2, StopStep
<1>4. CASE Fault /\ orphaned' = [orphaned EXCEPT ![k] = TRUE] /\ UNCHANGED lock
  <2>1. /\ lock' \in [Keys -> BOOLEAN] /\ orphaned' \in [Keys -> BOOLEAN]
        /\ \A l \in Keys \ {k} : lock'[l] = lock[l] /\ orphaned'[l] = orphaned[l]
        /\ lock'[k] = TRUE /\ orphaned'[k] = TRUE
    BY <1>1, <1>2, <1>4 DEF TypeOK
  <2>2. faults' \in 0..MaxFaults /\ crashes' \in 0..MaxCrashes
    BY <1>1, <1>4, FaultType DEF TypeOK
  <2> QED
    BY <1>1, <2>1, <2>2, StopStep
<1> QED
  BY <1>3, <1>4 DEF Release

LEMMA CrashKeeps ==
  ASSUME IInv, NEW p \in Processes, Crash(p)
  PROVE  IInv'
<1> DEFINE k == process[p].key
<1>1. /\ process[p].pc # "idle"
      /\ Goto(p, "idle")
      /\ UNCHANGED <<cache, lock, runs, faults>>
      /\ orphaned' = [orphaned EXCEPT ![k] = orphaned[k] \/ process[p].pc \in InLock]
      /\ TypeOK /\ k \in Keys
  BY DEF Crash, At, IInv, TypeOK, Place
<1>2. crashes' \in 0..MaxCrashes /\ faults' \in 0..MaxFaults
  BY BoundsAssumption DEF Crash, IInv, TypeOK
<1>3. /\ lock' \in [Keys -> BOOLEAN] /\ orphaned' \in [Keys -> BOOLEAN]
      /\ \A l \in Keys \ {k} : lock'[l] = lock[l] /\ orphaned'[l] = orphaned[l]
      /\ orphaned'[k] = (orphaned[k] \/ process[p].pc \in InLock)
  BY <1>1 DEF TypeOK
<1>4. process[p].pc \notin InLock => UNCHANGED <<lock, orphaned>>
  <2> SUFFICES ASSUME process[p].pc \notin InLock PROVE orphaned' = orphaned
    BY <1>1
  <2>1. \A l \in Keys : orphaned'[l] = orphaned[l]
    BY <1>1, <1>3 DEF TypeOK
  <2> QED
    BY <1>1, <1>3, <2>1 DEF TypeOK
<1>5. process[p].pc \in InLock => lock'[k] = TRUE /\ orphaned'[k] = TRUE
  <2> SUFFICES ASSUME process[p].pc \in InLock PROVE lock[k] = TRUE /\ orphaned'[k] = TRUE
    BY <1>1
  <2>1. lock[k]
    BY <1>1 DEF IInv, OneAtATime, Holds
  <2>2. lock[k] \in BOOLEAN
    BY <1>1 DEF TypeOK
  <2> QED
    BY <1>3, <2>1, <2>2
<1> QED
  BY <1>1, <1>2, <1>3, <1>4, <1>5, StopStep

LEMMA ClearLockKeeps ==
  ASSUME IInv, NEW k \in Keys, ClearLock(k)
  PROVE  IInv'
<1> USE DEF IInv
<1>1. /\ lock' \in [Keys -> BOOLEAN] /\ orphaned' \in [Keys -> BOOLEAN]
      /\ ~lock'[k] /\ ~orphaned'[k] /\ orphaned[k]
      /\ \A l \in Keys \ {k} : lock'[l] = lock[l] /\ orphaned'[l] = orphaned[l]
      /\ UNCHANGED <<cache, runs, process, crashes, faults>>
  BY DEF ClearLock, TypeOK
<1>2. TypeOK'
  BY <1>1 DEF TypeOK
<1>3. \A q \in Processes, l \in Keys : Holds(q, l)' <=> Holds(q, l)
  BY <1>1 DEF Holds
<1>4. \A q \in Processes : ~Holds(q, k)
  BY <1>1 DEF OneAtATime
<1>5. OneAtATime' /\ LockHasOwner' /\ OrphanIsLock'
  BY <1>1, <1>3, <1>4 DEF OneAtATime, LockHasOwner, OrphanIsLock
<1>6. OwnRun' /\ NoEntryYet'
  BY <1>1 DEF OwnRun, NoEntryYet
<1> QED
  BY <1>2, <1>5, <1>6

LEMMA NextIInv == IInv /\ [Next]_vars => IInv'
<1> SUFFICES ASSUME IInv, [Next]_vars PROVE IInv' OBVIOUS
<1>1. CASE \E p \in Processes, k \in Keys : MissCache(p, k)
  BY <1>1, MissCacheKeeps
<1>2. CASE \E p \in Processes : Step(p) \/ Crash(p)
  BY <1>2, AcquireKeeps, MakeRunKeeps, RecheckKeeps, CallKeeps, WriteKeeps, PublishKeeps,
    LeaveTryKeeps, ReleaseKeeps, CrashKeeps DEF Step
<1>3. CASE \E k \in Keys : ClearLock(k)
  BY <1>3, ClearLockKeeps
<1>4. CASE UNCHANGED vars
  BY <1>4 DEF vars, IInv, TypeOK, OneAtATime, LockHasOwner, OrphanIsLock, OwnRun, NoEntryYet, Holds
<1> QED
  BY <1>1, <1>2, <1>3, <1>4 DEF Next

-----------------------------------------------------------------------------
(* The theorems *)

\* The invariant that the theorems below are read off holds in every behaviour.
THEOREM Inductive == Spec => []IInv
BY InitIInv, NextIInv, PTL DEF Spec

\* Every variable keeps its type: a run has at most one call, and a cache entry
\* names a run (workflow.py: extract_one_call).
THEOREM TypeCorrect == Spec => []TypeOK
<1>1. IInv => TypeOK
  BY DEF IInv
<1> QED
  BY <1>1, Inductive, PTL

\* However many processes ask for a key, at most one is past its lock, and never
\* on a lock that was left behind (workflow.py:225-228).
THEOREM CallsExclude == Spec => []OneAtATime
<1>1. IInv => OneAtATime
  BY DEF IInv
<1> QED
  BY <1>1, Inductive, PTL

\* A lock is somebody's, or was left behind by a kill, a failure before the try
\* or a failing rmdir (workflow.py:229-249, 315-316).
THEOREM LocksAreOwned == Spec => []LockHasOwner
<1>1. IInv => LockHasOwner
  BY DEF IInv
<1> QED
  BY <1>1, Inductive, PTL

-----------------------------------------------------------------------------
(* What a cache entry stands for *)

Unfinished == {"started", "calling", "replied", "responded", "grounded"}

\* What the run of a process holds when the process is at pc.
Written(pc, run) ==
  /\ pc \in {"replied", "responded", "grounded", "resulted"} => run.calls = 1
  /\ pc \in {"responded", "grounded", "resulted"} => "response" \in run.files
  /\ pc = "resulted" => "result" \in run.files
  /\ pc \in Unfinished => "result" \notin run.files
  /\ pc \in Unfinished \cup {"resulted"} => "failed" \notin run.files
  /\ pc # "unlocking" => run.outcome = "open"

RecordsInOrder ==
  \A p \in Processes :
    process[p].pc \in InLock \ {"locked"} => Written(process[p].pc, runs[process[p].run])

\* A cache entry is the result of a run for its key that was charged, and whose
\* response and result are on disk.
EntryIsComplete ==
  \A k \in Keys :
    cache[k] # 0 =>
      /\ cache[k] \in DOMAIN runs
      /\ runs[cache[k]].key = k
      /\ runs[cache[k]].calls = 1
      /\ {"response", "result"} \subseteq runs[cache[k]].files

\* A run that succeeded has left an entry, and one that reused an entry has paid
\* nothing.
OutcomesTell ==
  \A r \in DOMAIN runs :
    /\ runs[r].outcome = "fresh" => cache[runs[r].key] # 0
    /\ runs[r].outcome = "reused" => runs[r].calls = 0

\* Two processes under way do not share a run.
LEMMA RunsApart ==
  ASSUME IInv, NEW p \in Processes, NEW q \in Processes, p # q,
         process[p].pc \in InLock \ {"locked"}, process[q].pc \in InLock \ {"locked"}
  PROVE  process[p].run # process[q].run
<1> SUFFICES ASSUME process[p].run = process[q].run
             PROVE  FALSE
  OBVIOUS
<1>1. process[p].key = process[q].key /\ process[p].key \in Keys
  BY RunOf
<1>2. Holds(p, process[p].key) /\ Holds(q, process[p].key)
  BY <1>1 DEF Holds
<1> QED
  BY <1>1, <1>2 DEF IInv, OneAtATime

\* What a step between the lock and the finally clause adds to the run of p, and when
\* it gives the key an entry.
Adds(p, pc, new) ==
  LET old == runs[process[p].run]
  IN  /\ new.key = process[p].key
      /\ old.files \subseteq new.files
      /\ old.calls <= new.calls
      /\ Written(pc, new)
      /\ "failed" \in new.files => "failed" \in old.files \/ process[p].pc = "failing"
      /\ "result" \in new.files => "result" \in old.files \/ process[p].pc = "grounded"
      /\ pc = "failing" => process[p].pc = "resulted" \/ "result" \notin new.files
      /\ new.outcome = "fresh" => cache'[process[p].key] # 0
      /\ new.outcome = "reused" => new.calls = 0
      /\ \A k \in Keys :
           \/ cache'[k] = cache[k]
           \/ /\ k = process[p].key
              /\ cache[k] = 0
              /\ cache'[k] = process[p].run
              /\ new.calls = 1
              /\ {"response", "result"} \subseteq new.files

LEMMA TryAdds ==
  ASSUME IInv, RecordsInOrder, NEW p \in Processes,
         \/ Recheck(p) \/ Call(p) \/ WriteResponse(p) \/ Ground(p) \/ WriteResult(p)
         \/ Publish(p) \/ RecordFailure(p) \/ Interrupt(p)
  PROVE  \E pc \in InLock \ {"locked", "started"}, new \in Run :
           /\ Goto(p, pc)
           /\ runs' = [runs EXCEPT ![process[p].run] = new]
           /\ Adds(p, pc, new)
<1> PICK r : r = process[p].run
  OBVIOUS
<1> PICK old : old = runs[r]
  OBVIOUS
<1>1. process[p].pc \in InLock \ {"locked"}
  BY DEF Recheck, Call, WriteResponse, Ground, WriteResult, Publish, RecordFailure, Interrupt,
         At, InLock
<1>2. /\ r \in DOMAIN runs
      /\ old \in Run
      /\ old.key = process[p].key
      /\ process[p].key \in Keys
      /\ old.calls \in 0..1
      /\ runs = [runs EXCEPT ![r] = old]
  <2>1. r \in DOMAIN runs /\ old \in Run /\ old.key = process[p].key /\ process[p].key \in Keys
    BY <1>1, RunOf
  <2>2. runs = [runs EXCEPT ![r] = old]
    BY <2>1, LenProperties DEF IInv, TypeOK
  <2> QED
    BY <2>1, <2>2 DEF Run
<1>3. Written(process[p].pc, old) /\ old.outcome = "open"
  <2>1. Written(process[p].pc, old)
    BY <1>1 DEF RecordsInOrder
  <2>2. process[p].pc # "unlocking"
    BY DEF Recheck, Call, WriteResponse, Ground, WriteResult, Publish, RecordFailure, Interrupt, At
  <2> QED
    BY <2>1, <2>2 DEF Written
<1>4. cache \in [Keys -> 0..MaxRuns]
  BY DEF IInv, TypeOK
<1> DEFINE Done == \E to \in InLock \ {"locked", "started"}, run \in Run :
                     /\ Goto(p, to)
                     /\ runs' = [runs EXCEPT ![r] = run]
                     /\ Adds(p, to, run)
<1> SUFFICES Done
  OBVIOUS
<1>5. ASSUME NEW pc \in InLock \ {"locked", "started"}, NEW new \in Run,
             Goto(p, pc), runs' = [runs EXCEPT ![r] = new], Adds(p, pc, new)
      PROVE  Done
  BY <1>5
<1> HIDE DEF Done
<1>6. \* Nothing is written, and p goes on, fails or is done.
      ASSUME NEW pc \in InLock \ {"locked", "started"}, Goto(p, pc), UNCHANGED <<runs, cache>>,
             Written(pc, old), pc = "failing" => "result" \notin old.files \/ process[p].pc = "resulted"
      PROVE  Done
  <2>1. Adds(p, pc, old)
    BY <1>2, <1>3, <1>6 DEF Adds
  <2> QED
    BY <1>2, <1>5, <1>6, <2>1
<1>7. \* A failure before the result is written.
      ASSUME process[p].pc \in Unfinished, Goto(p, "failing"), UNCHANGED <<runs, cache>>
      PROVE  Done
  <2>1. Written("failing", old) /\ "result" \notin old.files
    BY <1>3, <1>7 DEF Written, Unfinished
  <2>2. "failing" \in InLock \ {"locked", "started"}
    BY DEF InLock
  <2> QED
    BY <1>6, <1>7, <2>1, <2>2
<1>8. \* The outcome is written.
      ASSUME NEW outcome \in {"reused", "raised"}, Outcome(p, outcome),
             Goto(p, "unlocking"), UNCHANGED cache, outcome = "reused" => old.calls = 0
      PROVE  Done
  <2> PICK new : new = [old EXCEPT !.outcome = outcome]
    OBVIOUS
  <2>1. /\ new \in Run /\ new.key = old.key /\ new.files = old.files
        /\ new.calls = old.calls /\ new.outcome = outcome
    BY <1>2 DEF Run
  <2>2. runs' = [runs EXCEPT ![r] = new]
    BY <1>8 DEF Outcome
  <2>3. Adds(p, "unlocking", new)
    BY <1>2, <1>8, <2>1 DEF Adds, Written, Unfinished
  <2> QED
    BY <1>5, <1>8, <2>1, <2>2, <2>3 DEF InLock
<1>9. \* A file is written.
      ASSUME NEW pc \in {"responded", "resulted"}, NEW file \in {"response", "result"},
             Record(p, file), Goto(p, pc), UNCHANGED cache,
             file = "result" => process[p].pc = "grounded",
             \A run : /\ run.files = old.files \cup {file}
                       /\ run.calls = old.calls
                       /\ run.outcome = old.outcome
                       => Written(pc, run)
      PROVE  Done
  <2> PICK new : new = [old EXCEPT !.files = @ \cup {file}]
    OBVIOUS
  <2>1. /\ new \in Run /\ new.key = old.key /\ new.files = old.files \cup {file}
        /\ new.calls = old.calls /\ new.outcome = old.outcome
    BY <1>2 DEF Run, Files
  <2>2. runs' = [runs EXCEPT ![r] = new]
    BY <1>9 DEF Record
  <2>3. Written(pc, new)
    BY <1>9, <2>1
  <2>4. Adds(p, pc, new)
    BY <1>2, <1>3, <1>9, <2>1, <2>3 DEF Adds
  <2> QED
    BY <1>5, <1>9, <2>1, <2>2, <2>4 DEF InLock
<1>11. /\ {"calling", "replied", "responded", "grounded", "resulted", "failing", "unlocking"}
            \subseteq InLock \ {"locked", "started"}
       /\ old.outcome \in {"open", "reused", "fresh", "raised"}
       /\ {"response", "result", "failed"} \subseteq Files
  BY <1>2 DEF InLock, Run, Files
<1>12. CASE Recheck(p)
  <2>1. process[p].pc = "started" /\ UNCHANGED cache
    BY <1>12 DEF Recheck, At
  <2>2. CASE Goto(p, "calling") /\ UNCHANGED runs
    <3>1. Written("calling", old)
      BY <1>3, <2>1 DEF Written, Unfinished
    <3> QED
      BY <1>6, <1>11, <2>1, <2>2, <3>1
  <2>3. CASE Goto(p, "unlocking") /\ Outcome(p, "reused")
    <3>1. old.calls = 0
      BY <2>1 DEF IInv, OwnRun, InLock
    <3> QED
      BY <1>8, <2>1, <2>3, <3>1
  <2>4. CASE Goto(p, "failing") /\ UNCHANGED runs
    BY <1>7, <2>1, <2>4 DEF Unfinished
  <2> QED
    BY <1>12, <2>2, <2>3, <2>4 DEF Recheck
<1>13. CASE Call(p)
  <2> PICK new : new = [old EXCEPT !.calls = @ + 1]
    OBVIOUS
  <2>1. process[p].pc = "calling" /\ UNCHANGED cache /\ runs' = [runs EXCEPT ![r] = new]
    BY <1>13 DEF Call, At
  <2>2. PICK pc \in {"replied", "failing"} : Goto(p, pc)
    BY <1>13 DEF Call
  <2>3. old.calls = 0
    BY <2>1 DEF IInv, OwnRun, InLock
  <2>4. /\ new \in Run /\ new.calls = 1 /\ new.files = old.files /\ new.key = old.key
        /\ new.outcome = "open"
    BY <1>2, <1>3, <2>3 DEF Run
  <2>5. "result" \notin old.files /\ "failed" \notin old.files
    BY <1>3, <2>1 DEF Written, Unfinished
  <2>6. Adds(p, pc, new)
    BY <1>2, <2>1, <2>2, <2>3, <2>4, <2>5 DEF Adds, Written, Unfinished
  <2> QED
    BY <1>5, <1>11, <2>1, <2>2, <2>4, <2>6
<1>14. CASE WriteResponse(p)
  <2>1. process[p].pc = "replied" /\ UNCHANGED cache
    BY <1>14 DEF WriteResponse, At
  <2>2. CASE Goto(p, "responded") /\ Record(p, "response")
    <3>1. \A run : /\ run.files = old.files \cup {"response"}
                    /\ run.calls = old.calls
                    /\ run.outcome = old.outcome
                    => Written("responded", run)
      BY <1>3, <2>1 DEF Written, Unfinished
    <3> QED
      BY <1>9, <2>1, <2>2, <3>1
  <2>3. CASE Goto(p, "failing") /\ UNCHANGED runs
    BY <1>7, <2>1, <2>3 DEF Unfinished
  <2> QED
    BY <1>14, <2>2, <2>3 DEF WriteResponse
<1>15. CASE Ground(p)
  <2>1. process[p].pc = "responded" /\ UNCHANGED <<runs, cache>>
    BY <1>15 DEF Ground, At
  <2>2. CASE Goto(p, "grounded")
    <3>1. Written("grounded", old)
      BY <1>3, <2>1 DEF Written, Unfinished
    <3> QED
      BY <1>6, <1>11, <2>1, <2>2, <3>1
  <2>3. CASE Goto(p, "failing")
    BY <1>7, <2>1, <2>3 DEF Unfinished
  <2> QED
    BY <1>15, <2>2, <2>3 DEF Ground
<1>16. CASE WriteResult(p)
  <2>1. process[p].pc = "grounded" /\ UNCHANGED cache
    BY <1>16 DEF WriteResult, At
  <2>2. CASE Goto(p, "resulted") /\ Record(p, "result")
    <3>1. \A run : /\ run.files = old.files \cup {"result"}
                    /\ run.calls = old.calls
                    /\ run.outcome = old.outcome
                    => Written("resulted", run)
      BY <1>3, <2>1 DEF Written, Unfinished
    <3> QED
      BY <1>9, <2>1, <2>2, <3>1
  <2>3. CASE Goto(p, "failing") /\ UNCHANGED runs
    BY <1>7, <2>1, <2>3 DEF Unfinished
  <2> QED
    BY <1>16, <2>2, <2>3 DEF WriteResult
<1>17. CASE Publish(p)
  <2>1. process[p].pc = "resulted"
    BY <1>17 DEF Publish, At
  <2>2. /\ old.calls = 1
        /\ {"response", "result"} \subseteq old.files
        /\ "failed" \notin old.files
    BY <1>3, <2>1 DEF Written, Unfinished
  <2>3. CASE Goto(p, "failing") /\ UNCHANGED <<cache, runs>>
    <3>1. Written("failing", old)
      BY <1>3 DEF Written, Unfinished
    <3> QED
      BY <1>6, <1>11, <2>1, <2>3, <3>1
  <2>4. CASE cache[process[p].key] = 0 /\ cache' = [cache EXCEPT ![process[p].key] = r]
    <3>0. cache'[process[p].key] # 0
      <4>1. DOMAIN runs = 1..Len(runs)
        BY LenProperties DEF IInv, TypeOK
      <4> QED
        BY <1>2, <1>4, <2>4, <4>1
    <3>1. \A k \in Keys : \/ cache'[k] = cache[k]
                          \/ k = process[p].key /\ cache[k] = 0 /\ cache'[k] = r
      BY <1>2, <1>4, <2>4
    <3>2. CASE Goto(p, "failing") /\ UNCHANGED runs
      <4>1. Adds(p, "failing", old)
        BY <1>2, <1>3, <2>1, <2>2, <3>1 DEF Adds, Written, Unfinished
      <4> QED
        BY <1>2, <1>5, <1>11, <3>2, <4>1
    <3>3. CASE Goto(p, "unlocking") /\ Outcome(p, "fresh")
      <4> PICK new : new = [old EXCEPT !.outcome = "fresh"]
        OBVIOUS
      <4>1. /\ new \in Run /\ new.key = old.key /\ new.files = old.files
            /\ new.calls = old.calls /\ new.outcome = "fresh"
        BY <1>2 DEF Run
      <4>2. runs' = [runs EXCEPT ![r] = new]
        BY <3>3 DEF Outcome
      <4>3. Adds(p, "unlocking", new)
        BY <1>2, <2>1, <2>2, <3>0, <3>1, <4>1 DEF Adds, Written, Unfinished
      <4> QED
        BY <1>5, <1>11, <3>3, <4>1, <4>2, <4>3
    <3> QED
      BY <1>17, <2>4, <3>2, <3>3, <2>3 DEF Publish
  <2> QED
    BY <1>17, <2>3, <2>4 DEF Publish
<1>18. CASE RecordFailure(p)
  <2>1. process[p].pc = "failing" /\ UNCHANGED cache /\ Goto(p, "unlocking")
    BY <1>18 DEF RecordFailure, At
  <2>2. CASE Outcome(p, "raised")
    <3>1. "raised" # "reused"
      OBVIOUS
    <3> QED
      BY <1>8, <2>1, <2>2, <3>1
  <2>3. CASE runs' = [runs EXCEPT ![r].files = @ \cup {"failed"}, ![r].outcome = "raised"]
    <3> PICK wrote : wrote = [old EXCEPT !.files = @ \cup {"failed"}]
      OBVIOUS
    <3> PICK new : new = [wrote EXCEPT !.outcome = "raised"]
      OBVIOUS
    <3>1. /\ new \in Run /\ new.key = old.key /\ new.files = old.files \cup {"failed"}
          /\ new.calls = old.calls /\ new.outcome = "raised"
      <4>1. /\ wrote \in Run /\ wrote.key = old.key
            /\ wrote.files = old.files \cup {"failed"} /\ wrote.calls = old.calls
        BY <1>2 DEF Run, Files
      <4> QED
        BY <4>1 DEF Run
    <3>3. runs' = [runs EXCEPT ![r] = new]
      <4>1. /\ runs' = [[runs EXCEPT ![r].files = @ \cup {"failed"}] EXCEPT ![r].outcome = "raised"]
            /\ runs \in [1..Len(runs) -> Run] /\ r \in 1..Len(runs)
        BY <1>2, <2>3, LenProperties DEF IInv, TypeOK
      <4> QED
        BY <4>1
    <3>4. Adds(p, "unlocking", new)
      BY <1>2, <2>1, <3>1 DEF Adds, Written, Unfinished
    <3> QED
      BY <1>5, <1>11, <2>1, <3>1, <3>3, <3>4
  <2> QED
    BY <1>18, <2>2, <2>3 DEF RecordFailure
<1>19. CASE Interrupt(p)
  <2>1. Outcome(p, "raised") /\ UNCHANGED cache /\ Goto(p, "unlocking")
    BY <1>19 DEF Interrupt
  <2> QED
    BY <1>8, <2>1
<1> QED
  BY <1>12, <1>13, <1>14, <1>15, <1>16, <1>17, <1>18, <1>19

\* A process that is not between its run and the end of the finally clause neither
\* writes to a run nor to the cache.
LEMMA OutsideTry ==
  ASSUME IInv, NEW p \in Processes, NEW k \in Keys,
         MissCache(p, k) \/ Acquire(p) \/ Release(p) \/ Crash(p)
  PROVE  /\ process'[p].pc \in {"idle", "missed", "locked"}
         /\ \A q \in Processes \ {p} : process'[q] = process[q]
         /\ UNCHANGED <<runs, cache>>
<1>1. process \in [Processes -> Place]
  BY DEF IInv, TypeOK
<1>2. UNCHANGED <<runs, cache>>
  BY DEF MissCache, Acquire, Release, Crash
<1>3. CASE MissCache(p, k)
  BY <1>1, <1>2, <1>3 DEF MissCache
<1>4. CASE ~MissCache(p, k)
  <2>1. PICK pc \in {"idle", "locked"} : Goto(p, pc)
    BY <1>4 DEF Acquire, Release, Crash
  <2> QED
    BY <1>1, <1>2, <2>1 DEF Goto, Place
<1> QED
  BY <1>3, <1>4

\* A run that is made is empty, and its process the only one that has it.
LEMMA MakeRunAdds ==
  ASSUME IInv, NEW p \in Processes, MakeRun(p)
  PROVE  /\ cache' = cache
         /\ \A q \in Processes \ {p} : process'[q] = process[q]
         /\ DOMAIN runs \subseteq DOMAIN runs'
         /\ \A r \in DOMAIN runs : runs'[r] = runs[r]
         /\ \/ process'[p].pc = "idle" /\ DOMAIN runs' = DOMAIN runs
            \/ /\ process'[p].pc = "started"
               /\ process'[p].run \notin DOMAIN runs
               /\ DOMAIN runs' = DOMAIN runs \cup {process'[p].run}
               /\ runs'[process'[p].run].files = {"started"}
               /\ runs'[process'[p].run].outcome = "open"
<1>1. /\ runs \in Seq(Run) /\ DOMAIN runs = 1..Len(runs) /\ Len(runs) \in Nat
      /\ process \in [Processes -> Place]
      /\ process[p].key \in Keys
  BY LenProperties DEF IInv, TypeOK, Place
<1>2. cache' = cache
  BY DEF MakeRun
<1>3. CASE Goto(p, "idle") /\ UNCHANGED runs
  BY <1>1, <1>2, <1>3 DEF Goto, Place
<1>4. CASE /\ runs' = Append(runs, [key |-> process[p].key, files |-> {"started"}, calls |-> 0,
                                    outcome |-> "open"])
           /\ process' = [process EXCEPT ![p].pc = "started", ![p].run = Len(runs) + 1]
  <2> PICK new : new = [key |-> process[p].key, files |-> {"started"}, calls |-> 0,
                        outcome |-> "open"]
    OBVIOUS
  <2>1. /\ new \in Run /\ new.files = {"started"} /\ new.outcome = "open"
        /\ runs' = Append(runs, new)
    BY <1>1, <1>4 DEF Run, Files
  <2>2. /\ DOMAIN runs' = DOMAIN runs \cup {Len(runs) + 1}
        /\ runs'[Len(runs) + 1] = new
        /\ \A r \in DOMAIN runs : runs'[r] = runs[r]
    BY <1>1, <2>1, AppendProperties
  <2>3. /\ process'[p].pc = "started" /\ process'[p].run = Len(runs) + 1
        /\ \A q \in Processes \ {p} : process'[q] = process[q]
    BY <1>1, <1>4 DEF Place
  <2> QED
    BY <1>1, <1>2, <2>1, <2>2, <2>3
<1> QED
  BY <1>3, <1>4 DEF MakeRun

\* One step of p, in its own run.
LEMMA AddsKeep ==
  ASSUME IInv, RecordsInOrder, EntryIsComplete, OutcomesTell, NEW p \in Processes,
         process[p].pc \in InLock \ {"locked"},
         NEW pc \in InLock \ {"locked", "started"}, NEW new \in Run,
         Goto(p, pc), runs' = [runs EXCEPT ![process[p].run] = new], Adds(p, pc, new)
  PROVE  RecordsInOrder' /\ EntryIsComplete' /\ OutcomesTell'
<1> PICK r : r = process[p].run
  OBVIOUS
<1>1. /\ r \in DOMAIN runs /\ runs[r] \in Run /\ runs[r].key = process[p].key
  BY RunOf
<1>2. /\ DOMAIN runs' = DOMAIN runs
      /\ runs'[r] = new
      /\ \A s \in DOMAIN runs \ {r} : runs'[s] = runs[s]
  <2>1. new.key = process[p].key
    BY DEF Adds
  <2>2. /\ DOMAIN runs' = DOMAIN runs
        /\ runs'[process[p].run] = new
        /\ \A s \in DOMAIN runs \ {process[p].run} : runs'[s] = runs[s]
    BY <2>1, RewriteShape
  <2> QED
    BY <2>2
<1>3. /\ process'[p].pc = pc
      /\ process'[p].run = r
      /\ \A q \in Processes \ {p} : process'[q] = process[q]
  BY GotoShape DEF IInv
<1>4. RecordsInOrder'
  <2> SUFFICES ASSUME NEW q \in Processes, process'[q].pc \in InLock \ {"locked"}
               PROVE  Written(process'[q].pc, runs'[process'[q].run])
    BY DEF RecordsInOrder
  <2>1. CASE q = p
    BY <1>2, <1>3, <2>1 DEF Adds
  <2>2. CASE q # p
    <3>1. process'[q] = process[q] /\ process[q].run \in DOMAIN runs \ {r}
      BY <1>3, <2>2, RunsApart, RunOf
    <3> QED
      BY <1>2, <3>1 DEF RecordsInOrder
  <2> QED
    BY <2>1, <2>2
<1>5. EntryIsComplete'
  <2> SUFFICES ASSUME NEW k \in Keys, cache'[k] # 0
               PROVE  /\ cache'[k] \in DOMAIN runs'
                      /\ runs'[cache'[k]].key = k
                      /\ runs'[cache'[k]].calls = 1
                      /\ {"response", "result"} \subseteq runs'[cache'[k]].files
    BY DEF EntryIsComplete
  <2>1. CASE cache'[k] = cache[k]
    <3>1. /\ cache[k] \in DOMAIN runs
          /\ runs[cache[k]].key = k
          /\ runs[cache[k]].calls = 1
          /\ {"response", "result"} \subseteq runs[cache[k]].files
      BY <2>1 DEF EntryIsComplete
    <3>2. CASE cache[k] = r
      <4>1. new.calls = 1
        BY <3>1, <3>2 DEF Adds, Run
      <4> QED
        BY <1>1, <1>2, <2>1, <3>1, <3>2, <4>1 DEF Adds
    <3>3. CASE cache[k] # r
      BY <1>2, <2>1, <3>1, <3>3
    <3> QED
      BY <3>2, <3>3
  <2>2. CASE cache'[k] # cache[k]
    BY <1>1, <1>2, <2>2 DEF Adds
  <2> QED
    BY <2>1, <2>2
<1>6. OutcomesTell'
  <2> SUFFICES ASSUME NEW s \in DOMAIN runs'
               PROVE  /\ runs'[s].outcome = "fresh" => cache'[runs'[s].key] # 0
                      /\ runs'[s].outcome = "reused" => runs'[s].calls = 0
    BY DEF OutcomesTell
  <2>1. CASE s = r
    BY <1>1, <1>2, <2>1 DEF Adds
  <2>2. CASE s # r
    <3>1. s \in DOMAIN runs /\ runs'[s] = runs[s]
      BY <1>2, <2>2
    <3>2. runs[s].key \in Keys
      <4>1. runs \in [1..Len(runs) -> Run] /\ DOMAIN runs = 1..Len(runs)
        BY LenProperties DEF IInv, TypeOK
      <4> QED
        BY <3>1, <4>1 DEF Run
    <3>3. cache[runs[s].key] # 0 => cache'[runs[s].key] # 0
      BY <3>2 DEF Adds
    <3> QED
      BY <3>1, <3>3 DEF OutcomesTell
  <2> QED
    BY <2>1, <2>2
<1> QED
  BY <1>4, <1>5, <1>6

LEMMA NextKeepsRecords ==
  IInv /\ RecordsInOrder /\ EntryIsComplete /\ OutcomesTell /\ [Next]_vars
    => RecordsInOrder' /\ EntryIsComplete' /\ OutcomesTell'
<1> SUFFICES ASSUME IInv, RecordsInOrder, EntryIsComplete, OutcomesTell, [Next]_vars
             PROVE  RecordsInOrder' /\ EntryIsComplete' /\ OutcomesTell'
  OBVIOUS
<1>1. ASSUME NEW p \in Processes, NEW k \in Keys,
             MissCache(p, k) \/ Acquire(p) \/ Release(p) \/ Crash(p)
      PROVE  RecordsInOrder' /\ EntryIsComplete' /\ OutcomesTell'
  <2>1. /\ process'[p].pc \in {"idle", "missed", "locked"}
        /\ \A q \in Processes \ {p} : process'[q] = process[q]
        /\ UNCHANGED <<runs, cache>>
    BY <1>1, OutsideTry
  <2> QED
    BY <2>1 DEF RecordsInOrder, EntryIsComplete, OutcomesTell, InLock
<1>2. ASSUME NEW p \in Processes, MakeRun(p)
      PROVE  RecordsInOrder' /\ EntryIsComplete' /\ OutcomesTell'
  <2>0. /\ cache' = cache
        /\ \A q \in Processes \ {p} : process'[q] = process[q]
        /\ DOMAIN runs \subseteq DOMAIN runs'
        /\ \A r \in DOMAIN runs : runs'[r] = runs[r]
        /\ \/ process'[p].pc = "idle" /\ DOMAIN runs' = DOMAIN runs
           \/ /\ process'[p].pc = "started"
              /\ process'[p].run \notin DOMAIN runs
              /\ DOMAIN runs' = DOMAIN runs \cup {process'[p].run}
              /\ runs'[process'[p].run].files = {"started"}
              /\ runs'[process'[p].run].outcome = "open"
    BY <1>2, MakeRunAdds
  <2>1. \A q \in Processes : process[q].pc \in InLock \ {"locked"} => process[q].run \in DOMAIN runs
    BY DEF IInv, OwnRun
  <2>2. RecordsInOrder'
    <3> SUFFICES ASSUME NEW q \in Processes, process'[q].pc \in InLock \ {"locked"}
                 PROVE  Written(process'[q].pc, runs'[process'[q].run])
      BY DEF RecordsInOrder
    <3>1. CASE q = p
      <4>1. /\ process'[p].pc = "started"
            /\ runs'[process'[p].run].files = {"started"}
            /\ runs'[process'[p].run].outcome = "open"
        BY <2>0, <3>1 DEF InLock
      <4> QED
        BY <3>1, <4>1 DEF Written, Unfinished
    <3>2. CASE q # p
      BY <2>0, <2>1, <3>2 DEF RecordsInOrder
    <3> QED
      BY <3>1, <3>2
  <2>3. EntryIsComplete'
    <3> SUFFICES ASSUME NEW k \in Keys, cache'[k] # 0
                 PROVE  /\ cache'[k] \in DOMAIN runs'
                        /\ runs'[cache'[k]].key = k
                        /\ runs'[cache'[k]].calls = 1
                        /\ {"response", "result"} \subseteq runs'[cache'[k]].files
      BY DEF EntryIsComplete
    <3>1. cache'[k] = cache[k] /\ cache[k] \in DOMAIN runs
      BY <2>0 DEF EntryIsComplete
    <3> QED
      BY <2>0, <3>1 DEF EntryIsComplete
  <2>4. OutcomesTell'
    <3> SUFFICES ASSUME NEW r \in DOMAIN runs'
                 PROVE  /\ runs'[r].outcome = "fresh" => cache'[runs'[r].key] # 0
                        /\ runs'[r].outcome = "reused" => runs'[r].calls = 0
      BY DEF OutcomesTell
    <3>1. \/ r \in DOMAIN runs /\ runs'[r] = runs[r]
          \/ runs'[r].outcome = "open"
      BY <2>0
    <3> QED
      BY <2>0, <3>1 DEF OutcomesTell
  <2> QED
    BY <2>2, <2>3, <2>4
<1>3. ASSUME NEW p \in Processes,
             \/ Recheck(p) \/ Call(p) \/ WriteResponse(p) \/ Ground(p) \/ WriteResult(p)
             \/ Publish(p) \/ RecordFailure(p) \/ Interrupt(p)
      PROVE  RecordsInOrder' /\ EntryIsComplete' /\ OutcomesTell'
  <2>1. process[p].pc \in InLock \ {"locked"}
    BY <1>3 DEF Recheck, Call, WriteResponse, Ground, WriteResult, Publish, RecordFailure,
                Interrupt, At, InLock
  <2> QED
    BY <1>3, <2>1, TryAdds, AddsKeep
<1>4. CASE (\E k \in Keys : ClearLock(k)) \/ UNCHANGED vars
  BY <1>4 DEF ClearLock, vars, RecordsInOrder, EntryIsComplete, OutcomesTell
<1>5. \A p \in Processes : process[p].key \in Keys
  BY DEF IInv, TypeOK, Place
<1> QED
  BY <1>1, <1>2, <1>3, <1>4, <1>5 DEF Next, Step

LEMMA Records == Spec => [](RecordsInOrder /\ EntryIsComplete /\ OutcomesTell)
<1>1. Init => RecordsInOrder /\ EntryIsComplete /\ OutcomesTell
  BY DEF Init, RecordsInOrder, EntryIsComplete, OutcomesTell, InLock
<1> QED
  BY <1>1, NextKeepsRecords, Inductive, PTL DEF Spec

\* Whatever fails, dies or runs at once, a cache entry is the result of a charged and
\* completely recorded run for its own key: what a later call reuses has been paid for
\* and grounded (workflow.py:218-221, 252-313).
THEOREM EntriesAreResults == Spec => []EntryIsComplete
BY Records, PTL

\* And an entry stays: the link of _write_once replaces none, and nothing else
\* writes to the cache (workflow.py:297-313).
THEOREM EntriesStay == Spec => [][\A k \in Keys : cache[k] # 0 => cache'[k] = cache[k]]_cache
<1>1. IInv /\ RecordsInOrder /\ [Next]_vars => [\A k \in Keys : cache[k] # 0 => cache'[k] = cache[k]]_cache
  <2> SUFFICES ASSUME IInv, RecordsInOrder, Next
               PROVE  \A k \in Keys : cache[k] # 0 => cache'[k] = cache[k]
    BY DEF vars
  <2>1. ASSUME NEW p \in Processes,
               \/ Recheck(p) \/ Call(p) \/ WriteResponse(p) \/ Ground(p) \/ WriteResult(p)
               \/ Publish(p) \/ RecordFailure(p) \/ Interrupt(p)
        PROVE  \A k \in Keys : cache[k] # 0 => cache'[k] = cache[k]
    BY <2>1, TryAdds DEF Adds
  <2>2. CASE \/ \E p \in Processes, k \in Keys : MissCache(p, k)
             \/ \E p \in Processes : Acquire(p) \/ MakeRun(p) \/ Release(p) \/ Crash(p)
             \/ \E k \in Keys : ClearLock(k)
    BY <2>2 DEF MissCache, Acquire, MakeRun, Release, Crash, ClearLock
  <2> QED
    BY <2>1, <2>2 DEF Next, Step
<1> QED
  BY <1>1, Inductive, Records, PTL DEF Spec

-----------------------------------------------------------------------------
(* When a key is charged again *)

\* Only a call charges a run, and only the run of its process.
LEMMA CallCharges ==
  ASSUME IInv, Next, NEW r \in DOMAIN runs, runs'[r].calls > runs[r].calls
  PROVE  \E p \in Processes : Call(p) /\ r = process[p].run
<1>1. runs' # runs /\ runs'[r].calls # runs[r].calls
  <2>1. runs \in [1..Len(runs) -> Run] /\ DOMAIN runs = 1..Len(runs)
    BY LenProperties DEF IInv, TypeOK
  <2>2. runs[r] \in Run
    BY <2>1
  <2>3. runs[r].calls \in Int
    BY <2>2 DEF Run
  <2> QED
    BY <2>3
<1>2. ASSUME NEW p \in Processes, MakeRun(p)
      PROVE  FALSE
  BY <1>1, <1>2, MakeRunAdds
<1>3. ASSUME NEW p \in Processes,
             \/ Recheck(p) \/ WriteResponse(p) \/ Ground(p) \/ WriteResult(p)
             \/ Publish(p) \/ RecordFailure(p) \/ Interrupt(p)
      PROVE  FALSE
  <2>1. process[p].pc \in InLock \ {"locked"}
    BY <1>3 DEF Recheck, WriteResponse, Ground, WriteResult, Publish, RecordFailure, Interrupt,
                At, InLock
  <2>2. \/ UNCHANGED runs
        \/ \E file \in Files : Record(p, file)
        \/ \E outcome \in {"open", "reused", "fresh", "raised"} : Outcome(p, outcome)
        \/ runs' = [runs EXCEPT ![process[p].run].files = @ \cup {"failed"},
                                ![process[p].run].outcome = "raised"]
    BY <1>3 DEF Recheck, WriteResponse, Ground, WriteResult, Publish, RecordFailure, Interrupt,
                Files
  <2> QED
    BY <1>1, <2>1, <2>2, RecordShape
<1>4. ASSUME NEW p \in Processes, Call(p)
      PROVE  r = process[p].run
  BY <1>1, <1>4, CallShape
<1>5. CASE \/ \E p \in Processes, k \in Keys : MissCache(p, k)
           \/ \E p \in Processes : Acquire(p) \/ Release(p) \/ Crash(p)
           \/ \E k \in Keys : ClearLock(k)
  BY <1>1, <1>5 DEF MissCache, Acquire, Release, Crash, ClearLock
<1> QED
  BY <1>2, <1>3, <1>4, <1>5 DEF Next, Step

\* However processes interleave, die and fail, a key is charged again only after calls
\* that raised or were killed, never beside a call under way, after one that succeeded
\* or over a lock that was left behind (workflow.py:218, 225-228, 252-255, 315-316).
THEOREM RepeatsNeedFailure == Spec => RepeatNeedsFailure
<1>1. IInv /\ RecordsInOrder /\ OutcomesTell /\ [Next]_vars => [ChargesAfterFailure]_vars
  <2> SUFFICES ASSUME IInv, RecordsInOrder, OutcomesTell, Next, NEW r \in DOMAIN runs,
                      runs'[r].calls > runs[r].calls
               PROVE  /\ cache[runs[r].key] = 0
                      /\ ~orphaned[runs[r].key]
                      /\ \A q \in Charged(runs[r].key) : Failed(q)
    BY DEF ChargesAfterFailure
  <2>1. PICK p \in Processes : Call(p) /\ r = process[p].run
    BY CallCharges
  <2>2. /\ process[p].pc = "calling"
        /\ process[p].pc \in InLock \ {"locked"}
    BY <2>1 DEF Call, At, InLock
  <2>3. /\ runs[r].key = process[p].key
        /\ process[p].key \in Keys
        /\ runs[r].calls = 0
    BY <2>1, <2>2, RunOf DEF IInv, OwnRun
  <2>4. cache[runs[r].key] = 0
    BY <2>2, <2>3 DEF IInv, NoEntryYet, BeforeEntry
  <2>5. Holds(p, runs[r].key)
    BY <2>2, <2>3 DEF Holds
  <2>6. ~orphaned[runs[r].key]
    BY <2>3, <2>5 DEF IInv, OneAtATime
  <2>7. ASSUME NEW q \in Charged(runs[r].key)
        PROVE  Failed(q)
    <3>1. q \in DOMAIN runs /\ runs[q].key = runs[r].key /\ runs[q].calls > 0 /\ q # r
      BY <2>3 DEF Charged
    <3>2. runs[q].outcome \in {"open", "raised"}
      <4>1. runs[q] \in Run
        BY <3>1, LenProperties DEF IInv, TypeOK
      <4>2. runs[q].outcome # "fresh" /\ runs[q].outcome # "reused"
        BY <2>4, <3>1 DEF OutcomesTell
      <4> QED
        BY <4>1, <4>2 DEF Run
    <3>3. ASSUME NEW s \in Processes, process[s].pc \in InLock \ {"locked"}, process[s].run = q
          PROVE  FALSE
      <4>1. Holds(s, runs[r].key)
        BY <3>1, <3>3, RunOf DEF Holds
      <4>2. s = p
        BY <2>3, <2>5, <4>1 DEF IInv, OneAtATime
      <4> QED
        BY <2>1, <3>1, <3>3, <4>2
    <3> QED
      BY <3>2, <3>3 DEF Failed
  <2> QED
    BY <2>4, <2>6, <2>7
<1> QED
  BY <1>1, Inductive, Records, PTL DEF Spec, RepeatNeedsFailure

-----------------------------------------------------------------------------
(* When a failed run has a result *)

\* Publishing a result does not fail.
PublishingSucceeds ==
  [][\A p \in Processes : process[p].pc = "resulted" => process'[p].pc # "failing"]_process

\* A run that fails has no result yet.
FailingIsUnfinished ==
  \A p \in Processes : process[p].pc = "failing" => "result" \notin runs[process[p].run].files

LEMMA AddsOneOutcome ==
  ASSUME IInv, RecordsInOrder, FailedRunHasNoResult, FailingIsUnfinished, NEW p \in Processes,
         process[p].pc \in InLock \ {"locked"},
         NEW pc \in InLock \ {"locked", "started"}, NEW new \in Run,
         Goto(p, pc), runs' = [runs EXCEPT ![process[p].run] = new], Adds(p, pc, new),
         process[p].pc = "resulted" => pc # "failing"
  PROVE  FailedRunHasNoResult' /\ FailingIsUnfinished'
<1> PICK r : r = process[p].run
  OBVIOUS
<1>1. r \in DOMAIN runs
  BY RunOf
<1>2. /\ DOMAIN runs' = DOMAIN runs
      /\ runs'[r] = new
      /\ \A s \in DOMAIN runs \ {r} : runs'[s] = runs[s]
  <2>1. new.key = process[p].key
    BY DEF Adds
  <2>2. /\ DOMAIN runs' = DOMAIN runs
        /\ runs'[process[p].run] = new
        /\ \A s \in DOMAIN runs \ {process[p].run} : runs'[s] = runs[s]
    BY <2>1, RewriteShape
  <2> QED
    BY <2>2
<1>3. /\ process'[p].pc = pc
      /\ process'[p].run = r
      /\ \A q \in Processes \ {p} : process'[q] = process[q]
  BY GotoShape DEF IInv
<1>4. FailingIsUnfinished'
  <2> SUFFICES ASSUME NEW q \in Processes, process'[q].pc = "failing"
               PROVE  "result" \notin runs'[process'[q].run].files
    BY DEF FailingIsUnfinished
  <2>1. CASE q = p
    BY <1>2, <1>3, <2>1 DEF Adds
  <2>2. CASE q # p
    <3>1. process'[q] = process[q] /\ process[q].pc \in InLock \ {"locked"}
      BY <1>3, <2>2 DEF InLock
    <3>2. process[q].run \in DOMAIN runs \ {r}
      BY <2>2, <3>1, RunsApart, RunOf
    <3> QED
      BY <1>2, <3>1, <3>2 DEF FailingIsUnfinished
  <2> QED
    BY <2>1, <2>2
<1>5. ~({"result", "failed"} \subseteq new.files)
  <2>1. ~({"result", "failed"} \subseteq runs[r].files)
    BY <1>1 DEF FailedRunHasNoResult
  <2>2. process[p].pc = "failing" => "result" \notin runs[r].files
    BY DEF FailingIsUnfinished
  <2>3. process[p].pc = "grounded" => "failed" \notin runs[r].files
    BY DEF RecordsInOrder, Written, Unfinished
  <2> QED
    BY <2>1, <2>2, <2>3 DEF Adds
<1>6. FailedRunHasNoResult'
  BY <1>2, <1>5 DEF FailedRunHasNoResult
<1> QED
  BY <1>4, <1>6

\* A failed call leaves no result unless publishing it failed: the contradiction to
\* docs/validation/2026-09-17-slice-5-first-real-call.md:31 has no other way in
\* (workflow.py:296-313).
THEOREM OneOutcomeIfPublished == Spec /\ PublishingSucceeds => []FailedRunHasNoResult
<1>1. Init => FailedRunHasNoResult /\ FailingIsUnfinished
  BY DEF Init, FailedRunHasNoResult, FailingIsUnfinished
<1>2. /\ IInv /\ RecordsInOrder /\ [Next]_vars
      /\ [\A p \in Processes : process[p].pc = "resulted" => process'[p].pc # "failing"]_process
      /\ FailedRunHasNoResult /\ FailingIsUnfinished
      => FailedRunHasNoResult' /\ FailingIsUnfinished'
  <2> SUFFICES ASSUME IInv, RecordsInOrder, [Next]_vars,
                      [\A p \in Processes : process[p].pc = "resulted"
                                              => process'[p].pc # "failing"]_process,
                      FailedRunHasNoResult, FailingIsUnfinished
               PROVE  FailedRunHasNoResult' /\ FailingIsUnfinished'
    OBVIOUS
  <2>1. ASSUME NEW p \in Processes, NEW k \in Keys,
               MissCache(p, k) \/ Acquire(p) \/ Release(p) \/ Crash(p)
        PROVE  FailedRunHasNoResult' /\ FailingIsUnfinished'
    BY <2>1, OutsideTry DEF FailedRunHasNoResult, FailingIsUnfinished
  <2>2. ASSUME NEW p \in Processes, MakeRun(p)
        PROVE  FailedRunHasNoResult' /\ FailingIsUnfinished'
    <3>0. /\ cache' = cache
          /\ \A q \in Processes \ {p} : process'[q] = process[q]
          /\ DOMAIN runs \subseteq DOMAIN runs'
          /\ \A r \in DOMAIN runs : runs'[r] = runs[r]
          /\ \/ process'[p].pc = "idle" /\ DOMAIN runs' = DOMAIN runs
             \/ /\ process'[p].pc = "started"
                /\ process'[p].run \notin DOMAIN runs
                /\ DOMAIN runs' = DOMAIN runs \cup {process'[p].run}
                /\ runs'[process'[p].run].files = {"started"}
      BY <2>2, MakeRunAdds
    <3>1. \A q \in Processes : process[q].pc = "failing" => process[q].run \in DOMAIN runs
      BY DEF IInv, OwnRun, InLock
    <3>2. FailedRunHasNoResult'
      <4> SUFFICES ASSUME NEW r \in DOMAIN runs'
                   PROVE  ~({"result", "failed"} \subseteq runs'[r].files)
        BY DEF FailedRunHasNoResult
      <4>1. \/ r \in DOMAIN runs /\ runs'[r] = runs[r]
            \/ runs'[r].files = {"started"}
        BY <3>0
      <4> QED
        BY <4>1 DEF FailedRunHasNoResult
    <3>3. FailingIsUnfinished'
      BY <3>0, <3>1 DEF FailingIsUnfinished
    <3> QED
      BY <3>2, <3>3
  <2>3. ASSUME NEW p \in Processes,
               \/ Recheck(p) \/ Call(p) \/ WriteResponse(p) \/ Ground(p) \/ WriteResult(p)
               \/ Publish(p) \/ RecordFailure(p) \/ Interrupt(p)
        PROVE  FailedRunHasNoResult' /\ FailingIsUnfinished'
    <3>1. process[p].pc \in InLock \ {"locked"}
      BY <2>3 DEF Recheck, Call, WriteResponse, Ground, WriteResult, Publish, RecordFailure,
                  Interrupt, At, InLock
    <3>2. PICK pc \in InLock \ {"locked", "started"}, new \in Run :
            /\ Goto(p, pc)
            /\ runs' = [runs EXCEPT ![process[p].run] = new]
            /\ Adds(p, pc, new)
      BY <2>3, TryAdds
    <3>3. process[p].pc = "resulted" => pc # "failing"
      <4>1. process'[p].pc = pc
        BY <3>2, GotoShape DEF IInv
      <4> QED
        BY <4>1
    <3> QED
      BY <3>1, <3>2, <3>3, AddsOneOutcome
  <2>4. CASE (\E k \in Keys : ClearLock(k)) \/ UNCHANGED vars
    BY <2>4 DEF ClearLock, vars, FailedRunHasNoResult, FailingIsUnfinished
  <2>5. \A p \in Processes : process[p].key \in Keys
    BY DEF IInv, TypeOK, Place
  <2> QED
    BY <2>1, <2>2, <2>3, <2>4, <2>5 DEF Next, Step
<1> QED
  BY <1>1, <1>2, Inductive, Records, PTL DEF Spec, PublishingSucceeds
============================================================================
