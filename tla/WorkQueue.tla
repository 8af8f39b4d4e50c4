------------------------------ MODULE WorkQueue ------------------------------
(***************************************************************************)
(* What the job store promises of the inputs handed to it: each is worked  *)
(* on by one worker at a time, no worker has two, the outcome of an input  *)
(* is final, and an input is only given up for errors that might pass      *)
(* after it has been run often enough.                                     *)
(*                                                                         *)
(* It does not promise that an input is run no more often than that, nor   *)
(* that an input comes back when its worker dies: see BoundedExecutions    *)
(* and EventuallySettled of JobQueue.                                      *)
(***************************************************************************)
EXTENDS Naturals

CONSTANTS Items, Workers, Enough

VARIABLES
  state,     \* where each item is on its way
  runners,   \* the workers that run it
  runs       \* how often it was started

vars == <<state, runners, runs>>

Init ==
  /\ state = [i \in Items |-> "new"]
  /\ runners = [i \in Items |-> {}]
  /\ runs = [i \in Items |-> 0]

Submit(i) ==
  /\ state[i] = "new"
  /\ state' = [state EXCEPT ![i] = "queued"]
  /\ UNCHANGED <<runners, runs>>

Start(w, i) ==
  /\ state[i] = "queued"
  /\ \A k \in Items : w \notin runners[k]
  /\ state' = [state EXCEPT ![i] = "started"]
  /\ runners' = [runners EXCEPT ![i] = {w}]
  /\ runs' = [runs EXCEPT ![i] = @ + 1]

\* The worker reports: the item is done, comes back, or is given up.
Report(w, i) ==
  /\ state[i] = "started"
  /\ runners[i] = {w}
  /\ \E s \in {"done", "queued", "refused", "exhausted"} :
       /\ s = "exhausted" => runs[i] >= Enough
       /\ state' = [state EXCEPT ![i] = s]
  /\ runners' = [runners EXCEPT ![i] = {}]
  /\ UNCHANGED runs

\* The worker dies; the item stays as it is, and nobody runs it.
Lose(w, i) ==
  /\ state[i] = "started"
  /\ runners[i] = {w}
  /\ runners' = [runners EXCEPT ![i] = {}]
  /\ UNCHANGED <<state, runs>>

Next ==
  \E i \in Items :
    \/ Submit(i)
    \/ \E w \in Workers : Start(w, i) \/ Report(w, i) \/ Lose(w, i)

Spec == Init /\ [][Next]_vars
=============================================================================
