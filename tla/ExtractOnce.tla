----------------------------- MODULE ExtractOnce -----------------------------
(***************************************************************************)
(* One paid model call per input, src/src/catchain/extraction/llm/         *)
(* workflow.py: extract_one_call() and _write_once().                      *)
(*                                                                         *)
(* Processes share an output directory: cache/<key>.json holds the result  *)
(* of a completed key, .locks/<key> is a lock made by mkdir, and every     *)
(* attempt that gets the lock has a directory runs/<id> of records.  A     *)
(* process can be killed or interrupted anywhere, any file operation can   *)
(* fail, the provider can fail, and its reply can be refused, empty or not *)
(* grounded.                                                               *)
(*                                                                         *)
(* The checks of the arguments before the cache is looked at touch no      *)
(* state and are left out; a key stands for inputs that passed them.       *)
(***************************************************************************)
EXTENDS Naturals, Sequences

CONSTANTS
  Processes,
  Keys,        \* cache keys
  MaxRuns,     \* bound on run directories
  MaxCrashes,  \* bound on killed processes
  MaxFaults    \* bound on failed file operations and interrupts

ASSUME BoundsAssumption == MaxRuns \in Nat /\ MaxCrashes \in Nat /\ MaxFaults \in Nat

VARIABLES
  cache,     \* the run whose result each key's cache entry holds, 0 for no entry
  lock,      \* whether the lock directory of a key exists
  orphaned,  \* history: whether the lock was left behind
  runs,      \* the run directories, with the records written to the end
  process,   \* where each process is, on which key and run
  crashes,
  faults

vars == <<cache, lock, orphaned, runs, process, crashes, faults>>

Files == {"started", "response", "result", "failed"}

Run == [key: Keys, files: SUBSET Files, calls: 0..1, outcome: {"open", "reused", "fresh", "raised"}]

\* Lines 214-221 and 222-228; 229-249; 252-255; 256; 259; 264; 282; 296; 297-313; 316.
InLock == {"locked", "started", "calling", "replied", "responded", "grounded", "resulted",
           "failing", "unlocking"}

Place == [pc: {"idle", "missed"} \cup InLock, key: Keys, run: Nat]

TypeOK ==
  /\ cache \in [Keys -> 0..MaxRuns]
  /\ lock \in [Keys -> BOOLEAN]
  /\ orphaned \in [Keys -> BOOLEAN]
  /\ runs \in Seq(Run) /\ Len(runs) <= MaxRuns
  /\ process \in [Processes -> Place]
  /\ crashes \in 0..MaxCrashes
  /\ faults \in 0..MaxFaults

Init ==
  /\ cache = [k \in Keys |-> 0]
  /\ lock = [k \in Keys |-> FALSE]
  /\ orphaned = [k \in Keys |-> FALSE]
  /\ runs = <<>>
  /\ process \in [Processes -> [pc: {"idle"}, key: Keys, run: {0}]]
  /\ crashes = 0
  /\ faults = 0

At(p, pc) == process[p].pc = pc

Goto(p, pc) == process' = [process EXCEPT ![p].pc = pc]

\* A file operation raises OSError, or the call is interrupted.
Fault ==
  /\ faults < MaxFaults
  /\ faults' = faults + 1

NoFault == UNCHANGED faults

\* A file is added to the run of p.
Record(p, file) ==
  runs' = [runs EXCEPT ![process[p].run].files = @ \cup {file}]

Outcome(p, outcome) ==
  runs' = [runs EXCEPT ![process[p].run].outcome = outcome]

-----------------------------------------------------------------------------
(* Before the lock *)

\* The cache has no entry.  (When it has one, the call returns it, or raises if
\* it cannot be read, and nothing changes.)
MissCache(p, k) ==
  /\ At(p, "idle")
  /\ cache[k] = 0
  /\ process' = [process EXCEPT ![p] = [pc |-> "missed", key |-> k, run |-> 0]]
  /\ UNCHANGED <<cache, lock, orphaned, runs, crashes, faults>>

\* Bug: mkdir(exist_ok=True).
AcquireAnyway(p) ==
  LET k == process[p].key
  IN  /\ At(p, "missed")
      /\ lock' = [lock EXCEPT ![k] = TRUE]
      /\ Goto(p, "locked")
      /\ UNCHANGED <<cache, orphaned, runs, crashes, faults>>

\* mkdir of the lock; if it exists the call raises "already in progress".
Acquire(p) ==
  LET k == process[p].key
  IN  /\ At(p, "missed")
      /\ \/ /\ ~lock[k]
            /\ lock' = [lock EXCEPT ![k] = TRUE]
            /\ Goto(p, "locked")
         \/ /\ lock[k]
            /\ Goto(p, "idle")
            /\ UNCHANGED lock
      /\ UNCHANGED <<cache, orphaned, runs, crashes, faults>>

-----------------------------------------------------------------------------
(* With the lock *)

\* The run directory and started.json.  This is before the try: if it fails the
\* call raises and the lock stays.
MakeRun(p) ==
  LET k == process[p].key
  IN  /\ At(p, "locked")
      /\ Len(runs) < MaxRuns
      /\ \/ /\ NoFault
            /\ runs' = Append(runs, [key |-> k, files |-> {"started"}, calls |-> 0,
                                     outcome |-> "open"])
            /\ process' = [process EXCEPT ![p].pc = "started", ![p].run = Len(runs) + 1]
            /\ UNCHANGED orphaned
         \/ /\ Fault
            /\ Goto(p, "idle")
            /\ orphaned' = [orphaned EXCEPT ![k] = TRUE]
            /\ UNCHANGED runs
      /\ UNCHANGED <<cache, lock, crashes>>

\* Bug: the cache is not looked at again under the lock.
NoRecheck(p) ==
  /\ At(p, "started")
  /\ Goto(p, "calling")
  /\ UNCHANGED <<cache, lock, orphaned, runs, crashes, faults>>

\* The second look at the cache: another process may have completed the key
\* between the first look and the lock.
Recheck(p) ==
  LET hit == cache[process[p].key] # 0
  IN  /\ At(p, "started")
      /\ \/ ~hit /\ NoFault /\ Goto(p, "calling") /\ UNCHANGED runs
         \/ hit /\ NoFault /\ Goto(p, "unlocking") /\ Outcome(p, "reused")
         \/ hit /\ Fault /\ Goto(p, "failing") /\ UNCHANGED runs
      /\ UNCHANGED <<cache, lock, orphaned, crashes>>

\* Bug: a failed call is retried in place.
CallAgain(p) ==
  /\ At(p, "calling")
  /\ runs' = [runs EXCEPT ![process[p].run].calls = @ + 1]
  /\ Goto(p, "replied") \/ UNCHANGED process
  /\ UNCHANGED <<cache, lock, orphaned, crashes, faults>>

\* The paid call.  It may fail after it was charged.
Call(p) ==
  /\ At(p, "calling")
  /\ runs' = [runs EXCEPT ![process[p].run].calls = @ + 1]
  /\ Goto(p, "replied") \/ Goto(p, "failing")
  /\ UNCHANGED <<cache, lock, orphaned, crashes, faults>>

WriteResponse(p) ==
  /\ At(p, "replied")
  /\ \/ NoFault /\ Record(p, "response") /\ Goto(p, "responded")
     \/ Fault /\ Goto(p, "failing") /\ UNCHANGED runs
  /\ UNCHANGED <<cache, lock, orphaned, crashes>>

\* The reply is finished, not empty and grounded in the selected pages, or not.
Ground(p) ==
  /\ At(p, "responded")
  /\ Goto(p, "grounded") \/ Goto(p, "failing")
  /\ UNCHANGED <<cache, lock, orphaned, runs, crashes, faults>>

WriteResult(p) ==
  /\ At(p, "grounded")
  /\ \/ NoFault /\ Record(p, "result") /\ Goto(p, "resulted")
     \/ Fault /\ Goto(p, "failing") /\ UNCHANGED runs
  /\ UNCHANGED <<cache, lock, orphaned, crashes>>

\* _write_once: the cache entry appears complete, by a link that replaces none.
\* It can fail before the link or, unlinking the temporary file, after it.
Publish(p) ==
  LET k == process[p].key
  IN  /\ At(p, "resulted")
      /\ \/ /\ cache[k] = 0
            /\ cache' = [cache EXCEPT ![k] = process[p].run]
            /\ \/ NoFault /\ Outcome(p, "fresh") /\ Goto(p, "unlocking")
               \/ Fault /\ Goto(p, "failing") /\ UNCHANGED runs
         \/ /\ Fault
            /\ Goto(p, "failing")
            /\ UNCHANGED <<cache, runs>>
      /\ UNCHANGED <<lock, orphaned, crashes>>

\* The except clause.  If failed.json cannot be written either, that error is
\* raised instead; the finally clause runs all the same.
RecordFailure(p) ==
  /\ At(p, "failing")
  /\ \/ /\ NoFault
        /\ runs' = [runs EXCEPT ![process[p].run].files = @ \cup {"failed"},
                                ![process[p].run].outcome = "raised"]
     \/ /\ Fault
        /\ Outcome(p, "raised")
  /\ Goto(p, "unlocking")
  /\ UNCHANGED <<cache, lock, orphaned, crashes>>

\* Bug: the lock is released on success only.
ReleaseOnSuccess(p) ==
  LET k == process[p].key
  IN  /\ At(p, "unlocking")
      /\ lock' = [lock EXCEPT ![k] = runs[process[p].run].outcome = "raised"]
      /\ Goto(p, "idle")
      /\ UNCHANGED <<cache, orphaned, runs, crashes, faults>>

\* The finally clause.
Release(p) ==
  LET k == process[p].key
  IN  /\ At(p, "unlocking")
      /\ \/ NoFault /\ lock' = [lock EXCEPT ![k] = FALSE] /\ UNCHANGED orphaned
         \/ Fault /\ orphaned' = [orphaned EXCEPT ![k] = TRUE] /\ UNCHANGED lock
      /\ Goto(p, "idle")
      /\ UNCHANGED <<cache, runs, crashes>>

\* An exception that the except clause does not catch, such as a keyboard
\* interrupt, leaves the try: only the finally clause runs.
Interrupt(p) ==
  /\ process[p].pc \in InLock \ {"locked", "unlocking"}
  /\ Fault
  /\ Outcome(p, "raised")
  /\ Goto(p, "unlocking")
  /\ UNCHANGED <<cache, lock, orphaned, crashes>>

-----------------------------------------------------------------------------
(* Environment *)

\* The process is killed; no clause runs.
Crash(p) ==
  LET k == process[p].key
  IN  /\ crashes < MaxCrashes
      /\ ~At(p, "idle")
      /\ crashes' = crashes + 1
      /\ Goto(p, "idle")
      /\ orphaned' = [orphaned EXCEPT ![k] = @ \/ process[p].pc \in InLock]
      /\ UNCHANGED <<cache, lock, runs, faults>>

\* An operator removes a lock that was left behind.
ClearLock(k) ==
  /\ orphaned[k]
  /\ lock' = [lock EXCEPT ![k] = FALSE]
  /\ orphaned' = [orphaned EXCEPT ![k] = FALSE]
  /\ UNCHANGED <<cache, runs, process, crashes, faults>>

Step(p) ==
  \/ Acquire(p)
  \/ MakeRun(p)
  \/ Recheck(p)
  \/ Call(p)
  \/ WriteResponse(p)
  \/ Ground(p)
  \/ WriteResult(p)
  \/ Publish(p)
  \/ RecordFailure(p)
  \/ Release(p)
  \/ Interrupt(p)

Next ==
  \/ \E p \in Processes, k \in Keys : MissCache(p, k)
  \/ \E p \in Processes : Step(p) \/ Crash(p)
  \/ \E k \in Keys : ClearLock(k)

Spec == Init /\ [][Next]_vars

-----------------------------------------------------------------------------
(* Properties *)

Holds(p, k) == process[p].pc \in InLock /\ process[p].key = k

\* Two calls for one key are never in progress together (workflow.py:225-228),
\* and a lock left behind is not shared with a new holder.
OneAtATime ==
  \A p \in Processes, k \in Keys :
    Holds(p, k) =>
      /\ lock[k]
      /\ ~orphaned[k]
      /\ \A q \in Processes : Holds(q, k) => q = p

\* However a call ends, by result, reuse, failure or interrupt, its lock goes:
\* only a killed process, a failure before the try or a failing rmdir leaves one
\* (workflow.py:229-249, 315-316).
LockHasOwner ==
  \A k \in Keys : lock[k] => orphaned[k] \/ \E p \in Processes : Holds(p, k)

Charged(k) == {r \in DOMAIN runs : runs[r].key = k /\ runs[r].calls > 0}

\* The call of r raised, or it was killed.
Failed(r) ==
  \/ runs[r].outcome = "raised"
  \/ /\ runs[r].outcome = "open"
     /\ ~\E p \in Processes : process[p].pc \in InLock \ {"locked"} /\ process[p].run = r

ChargesAfterFailure ==
  \A r \in DOMAIN runs :
    LET k == runs[r].key
    IN  runs'[r].calls > runs[r].calls =>
          /\ cache[k] = 0
          /\ ~orphaned[k]
          /\ \A q \in Charged(k) : Failed(q)

\* A key is charged again only if each earlier charge was for a call that raised or
\* was killed: not when one succeeded, however late a process that saw no cache entry
\* gets the lock, and not while one is under way (workflow.py:218, 225-228, 252); and not
\* over the lock of a killed process or the entry of a call that failed after
\* linking it (:118).  A call that raises, by an interrupt too, gives its lock back
\* in the finally clause (:315-316), and the key may then be charged again.
RepeatNeedsFailure == [][ChargesAfterFailure]_vars

\* docs/validation/2026-09-17-slice-5-first-real-call.md:31 says of a failed call
\* that it has no successful result.
FailedRunHasNoResult ==
  \A r \in DOMAIN runs : ~({"result", "failed"} \subseteq runs[r].files)
=============================================================================
