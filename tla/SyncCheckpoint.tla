---------------------------- MODULE SyncCheckpoint ----------------------------
(***************************************************************************)
(* Registry discovery, src/src/catchain/sync/service.py, SyncService.run,  *)
(* and src/src/catchain/storage/sync_repository.py, SyncRepository.        *)
(*                                                                         *)
(* A sync loads the checkpoint of a registry, discovers one page of        *)
(* projects, lists the documents of each, and records the run together     *)
(* with the new checkpoint in one transaction.  The checkpoint is not      *)
(* compared with the one that was loaded, so syncs may overlap.            *)
(*                                                                         *)
(* Pages are numbered; the cursor of a page is its number, and 0 is the    *)
(* cursor None: the first page, and what the last page answers as its next.*)
(***************************************************************************)
EXTENDS Naturals, Sequences

CONSTANTS
  Syncers,     \* processes that sync
  Registries,
  LastPage,    \* the last page of every registry's listing
  MaxRuns      \* bound on recorded runs

ASSUME SyncAssumption == LastPage \in Nat /\ MaxRuns \in Nat

VARIABLES
  runs,        \* registry_sync_runs, in commit order
  checkpoint,  \* registry_sync_checkpoints; run 0 where there is no row
  syncer       \* what each process is doing

vars == <<runs, checkpoint, syncer>>

Cursor == 0..LastPage

Status == {"succeeded", "partial", "failed"}

SyncRun == [registry: Registries, before: Cursor, after: Cursor, status: Status]

\* before is the cursor of the checkpoint the sync started from, and base the run that
\* wrote it (history only: the code keeps no more than the cursor); status and next
\* are those of its report.
Activity == [phase: {"idle", "loaded", "reported"}, registry: Registries,
             before: Cursor, base: 0..MaxRuns, status: Status, next: Cursor]

TypeOK ==
  /\ runs \in Seq(SyncRun) /\ Len(runs) <= MaxRuns
  /\ checkpoint \in [Registries -> [cursor: Cursor, run: 0..Len(runs), status: Status]]
  /\ syncer \in [Syncers -> Activity]

Idle(r) == [phase |-> "idle", registry |-> r, before |-> 0, base |-> 0, status |-> "failed",
            next |-> 0]

Init ==
  /\ runs = <<>>
  /\ checkpoint = [r \in Registries |-> [cursor |-> 0, run |-> 0, status |-> "failed"]]
  /\ syncer \in [Syncers -> {Idle(r) : r \in Registries}]

\* Bug: the end of the listing is not recognised.
NextCursorUnbounded(page) == page + 1

\* The next_cursor of a page.
NextCursor(page) == IF page = LastPage THEN 0 ELSE page + 1

-----------------------------------------------------------------------------

\* load_checkpoint.
Load(s, r) ==
  /\ syncer[s].phase = "idle"
  /\ syncer' = [syncer EXCEPT ![s] =
       [phase |-> "loaded", registry |-> r, before |-> checkpoint[r].cursor,
        base |-> checkpoint[r].run, status |-> "failed", next |-> 0]]
  /\ UNCHANGED <<runs, checkpoint>>

\* Discovery fails: the report keeps the checkpoint.
DiscoverFails(s) ==
  /\ syncer[s].phase = "loaded"
  /\ syncer' = [syncer EXCEPT ![s].phase = "reported", ![s].status = "failed",
                              ![s].next = syncer[s].before]
  /\ UNCHANGED <<runs, checkpoint>>

\* A page is discovered; the documents of all its projects, or not of all, can
\* be listed.
DiscoverPage(s, status) ==
  /\ syncer[s].phase = "loaded"
  /\ syncer' = [syncer EXCEPT ![s].phase = "reported", ![s].status = status,
                              ![s].next = NextCursor(syncer[s].before)]
  /\ UNCHANGED <<runs, checkpoint>>

\* Bug: a page with failed projects is passed.
CursorAfterPartial(activity) ==
  IF activity.status = "failed" THEN activity.before ELSE activity.next

\* Bug: a page with failures is replayed from the start of the listing.
CursorAfterRestart(activity) ==
  IF activity.status = "succeeded" THEN activity.next ELSE 0

\* A page with failures is replayed from its previous cursor.
CursorAfter(activity) ==
  IF activity.status = "succeeded" THEN activity.next ELSE activity.before

\* record_run commits.
RecordRun(s) ==
  LET a == syncer[s]
  IN  /\ a.phase = "reported"
      /\ Len(runs) < MaxRuns
      /\ runs' = Append(runs, [registry |-> a.registry, before |-> a.before,
                               after |-> CursorAfter(a), status |-> a.status])
      /\ checkpoint' = [checkpoint EXCEPT ![a.registry] =
                          [cursor |-> CursorAfter(a), run |-> Len(runs) + 1,
                           status |-> a.status]]
      /\ syncer' = [syncer EXCEPT ![s] = Idle(a.registry)]

\* The process is killed, or the transaction of record_run fails: a busy
\* database, or two first checkpoints of one registry.  Nothing is stored.
Abandon(s) ==
  /\ syncer[s].phase # "idle"
  /\ syncer' = [syncer EXCEPT ![s] = Idle(syncer[s].registry)]
  /\ UNCHANGED <<runs, checkpoint>>

Next ==
  \E s \in Syncers :
    \/ \E r \in Registries : Load(s, r)
    \/ DiscoverFails(s)
    \/ \E status \in {"succeeded", "partial"} : DiscoverPage(s, status)
    \/ RecordRun(s)
    \/ Abandon(s)

Spec == Init /\ [][Next]_vars

-----------------------------------------------------------------------------
(* Properties *)

\* Every project of the page was covered by one recorded run.
Covered(r, page) ==
  \E n \in DOMAIN runs :
    runs[n].registry = r /\ runs[n].before = page /\ runs[n].status = "succeeded"

\* Replay safety: however syncs overlap, fail and die, the checkpoint of a
\* registry has passed only pages that a run on record covered without a single
\* failure; a stale sync can move it back, or on, but never past a page nobody
\* completed (sync_repository.py:58-63).
CursorEarned ==
  \A r \in Registries : \A page \in 0..checkpoint[r].cursor - 1 : Covered(r, page)

\* Another sync of its registry has recorded a run since s loaded the checkpoint.
Overtaken(s) == checkpoint[syncer[s].registry].run # syncer[s].base

\* s has just recorded its run.
Recorded(s) ==
  syncer[s].phase = "reported" /\ syncer'[s].phase = "idle" /\ runs' # runs

AdvancesOnSuccess ==
  \A s \in Syncers : Recorded(s) /\ ~Overtaken(s) =>
    LET r == syncer[s].registry
    IN  checkpoint'[r].cursor = IF syncer[s].status = "succeeded"
                                THEN NextCursor(checkpoint[r].cursor)
                                ELSE checkpoint[r].cursor

\* A page with a failure leaves the checkpoint where it was before the run, and only
\* a page that succeeded advances it, by that page
\* (docs/production/2026-09-18-registry-sync-runbook.md:18-19,
\* sync_repository.py:58-63): so it is for every sync that no other one of its
\* registry overtook, whatever it met on its page.  One that was overtaken writes
\* back a cursor that is no longer the checkpoint's: it may move the checkpoint,
\* forth or back, although its page failed.
OnlySuccessAdvances == [][AdvancesOnSuccess]_vars
=============================================================================
