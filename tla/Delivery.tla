------------------------------- MODULE Delivery -------------------------------
(***************************************************************************)
(* What an export of an audience promises to its caller, whatever pages it *)
(* is made of: the destination gets batches of members, no id in two of    *)
(* them, while the audience changes.  An export that ends well has         *)
(* delivered everyone who was a member all along and says how many ids it  *)
(* delivered; one that fails has delivered some.                           *)
(***************************************************************************)
EXTENDS Naturals, FiniteSets

CONSTANTS
  Id,     \* canonical ids
  Limit   \* how many of them one batch can hold

VARIABLES
  members,  \* the audience
  stayed,   \* who has been in it since the export began
  got,      \* the ids that the destination has received
  count,    \* how many ids the export has delivered
  outcome   \* "running", "done" or "failed"

vars == <<members, stayed, got, count, outcome>>

Init ==
  /\ members \in SUBSET Id /\ stayed = members
  /\ got = {} /\ count = 0 /\ outcome = "running"

Batch == {B \in SUBSET Id : Cardinality(B) <= Limit /\ B \cap got = {}}

Change ==
  /\ members' \in SUBSET Id
  /\ stayed' = stayed \cap members'
  /\ UNCHANGED <<got, count, outcome>>

Deliver ==
  /\ outcome = "running"
  /\ \E B \in Batch : got' = got \cup B /\ count' = count + Cardinality(B)
  /\ outcome' \in {"running", "done"}
  /\ outcome' = "done" => stayed \subseteq got'
  /\ UNCHANGED <<members, stayed>>

\* A batch that was received may be followed by a failure nevertheless.
Fail ==
  /\ outcome = "running"
  /\ \E B \in Batch : got' \in {got, got \cup B}
  /\ outcome' = "failed"
  /\ UNCHANGED <<members, stayed, count>>

Next == Change \/ Deliver \/ Fail

Spec == Init /\ [][Next]_vars
=============================================================================
