--------------------------- MODULE CanonicalLedger ---------------------------
(***************************************************************************)
(* What the review repository promises of canonical facts: every scope has *)
(* at most one current fact; a fact becomes current only by replacing the  *)
(* fact its author named, which must be the current one at that moment; a  *)
(* fact is promoted once, in one scope, and never becomes current again    *)
(* after it was replaced.                                                  *)
(***************************************************************************)
CONSTANTS Scopes, Facts, None

VARIABLES
  current,   \* the current fact of every scope
  replaced   \* what the author of each promoted fact named as current

Replaced == {replaced[f] : f \in DOMAIN replaced}

Init ==
  /\ current = [s \in Scopes |-> None]
  /\ replaced = [f \in {} |-> None]

Promote(s, named, new) ==
  /\ current[s] = named
  /\ new \notin DOMAIN replaced \cup Replaced
  /\ \A t \in Scopes : current[t] # new
  /\ current' = [current EXCEPT ![s] = new]
  /\ replaced' = [f \in DOMAIN replaced \cup {new} |->
                    IF f = new THEN named ELSE replaced[f]]

Next == \E s \in Scopes, named \in Facts \cup {None}, new \in Facts : Promote(s, named, new)

Spec == Init /\ [][Next]_<<current, replaced>>
=============================================================================
