-------------------------------- MODULE Export --------------------------------
(***************************************************************************)
(* internal/export and the member list of internal/audience: one call of   *)
(* Exporter.Export walks through cdp_audience_members page by page, in the *)
(* order of the canonical ids, and POSTs each page to the destination,     *)
(* while consumers add and remove members.  Nothing is read in one         *)
(* snapshot: each page is a SELECT of its own.  A client that follows the  *)
(* next_cursor of GET /v1/audiences/{id}/members makes the same walk.      *)
(*                                                                         *)
(* Canonical ids are numbers from 1 on, the cursor "" is 0.                *)
(*                                                                         *)
(* Faults selects what may go wrong:                                       *)
(*   "db"     a SELECT fails, or the caller of the export has gone;        *)
(*   "http"   a POST fails, received or not.                               *)
(***************************************************************************)
EXTENDS Naturals, FiniteSets

CONSTANTS
  Id,            \* canonical ids
  Requested,     \* the limit given to ListMembers (batchSize, or the client's)
  MaxLimit,      \* the largest limit that ListMembers accepts
  DefaultLimit,  \* the one it takes instead
  Faults         \* SUBSET {"db", "http"}

ASSUME ExportAssumption ==
  /\ Id \subseteq Nat \ {0} /\ IsFiniteSet(Id)
  /\ Requested \in Nat /\ MaxLimit \in Nat /\ DefaultLimit \in Nat \ {0}

VARIABLES
  members,   \* the rows of cdp_audience_members of this audience
  pc,        \* of the export
  cursor,    \* where its next page begins
  page,      \* the members it has read and not yet sent
  next,      \* nextCursor of that page
  exported,  \* its counter
  got,       \* the ids that the destination has received
  stayed     \* history: who has been a member since the export began

vars == <<members, pc, cursor, page, next, exported, got, stayed>>

ExportTypeOK ==
  /\ members \in SUBSET Id
  /\ pc \in {"list", "send", "done", "failed"}
  /\ cursor \in Id \cup {0}
  /\ page \in SUBSET Id
  /\ next \in Id \cup {0}
  /\ exported \in Nat
  /\ got \in SUBSET Id
  /\ stayed \in SUBSET Id

\* A call may begin with any membership.
ExportInit ==
  /\ members \in SUBSET Id
  /\ stayed = members
  /\ pc = "list" /\ cursor = 0 /\ page = {} /\ next = 0 /\ exported = 0
  /\ got = {}

-----------------------------------------------------------------------------
\* ListMembers: the limit that it applies.
Limit ==
  IF Requested = 0 \/ Requested > MaxLimit THEN DefaultLimit ELSE Requested

\* The rows beyond the cursor.
Beyond(c) == {i \in members : i > c}

\* Mutant: the SELECT has no ORDER BY.
IsPageUnordered(P, c) ==
  /\ P \subseteq Beyond(c)
  /\ Cardinality(P) <= Limit
  /\ Cardinality(P) < Limit => P = Beyond(c)

\* ... WHERE canonical_id > cursor ORDER BY canonical_id LIMIT limit
IsPage(P, c) ==
  /\ P \subseteq Beyond(c)
  /\ Cardinality(P) <= Limit
  /\ Cardinality(P) < Limit => P = Beyond(c)
  /\ \A i \in P, j \in Beyond(c) \ P : i < j

\* Mutant: a full page is taken for the last one.
IsLastOffByOne(P) == Cardinality(P) <= Limit

\* A page with room left is the last one.
IsLast(P) == Cardinality(P) < Limit

\* Mutant: the next page begins with the last row of this one.
NextCursorsInclusive(P) ==
  IF IsLast(P) THEN {0} ELSE {i - 1 : i \in {i \in P : \A j \in P : j <= i}}

\* Mutant: the next page begins one row late.
NextCursorsLate(P) ==
  IF IsLast(P) THEN {0} ELSE {i + 1 : i \in {i \in P : \A j \in P : j <= i}}

\* The nextCursor after page P, as a set of one.
NextCursors(P) ==
  IF IsLast(P) THEN {0} ELSE {i \in P : \A j \in P : j <= i}

-----------------------------------------------------------------------------
\* Export, ListMembers: an empty page, which has no next one, ends the export.
ListPage ==
  /\ pc = "list"
  /\ \E P \in SUBSET members :
       /\ IsPage(P, cursor)
       /\ page' = P
       /\ next' \in NextCursors(P)
       /\ pc' = IF P = {} THEN "done" ELSE "send"
  /\ UNCHANGED <<members, cursor, exported, got, stayed>>

\* Export, ListMembers returns an error.
ListFails ==
  /\ pc = "list" /\ "db" \in Faults
  /\ pc' = "failed"
  /\ UNCHANGED <<members, cursor, page, next, exported, got, stayed>>

\* Export, sendBatch is answered with a status below 400: on to the next page.
SendPage ==
  /\ pc = "send"
  /\ got' = got \cup page
  /\ exported' = exported + Cardinality(page)
  /\ IF next = 0 THEN pc' = "done" /\ UNCHANGED cursor
                 ELSE pc' = "list" /\ cursor' = next
  /\ UNCHANGED <<members, page, next, stayed>>

\* Mutant: a page that could not be sent is skipped.
SendFailsGoesOn ==
  /\ pc = "send" /\ "http" \in Faults
  /\ got' \in {got, got \cup page}
  /\ IF next = 0 THEN pc' = "done" /\ UNCHANGED cursor
                 ELSE pc' = "list" /\ cursor' = next
  /\ UNCHANGED <<members, page, next, exported, stayed>>

\* Mutant: a page that could not be sent is listed and sent again.
SendFailsRetries ==
  /\ pc = "send" /\ "http" \in Faults
  /\ got' \in {got, got \cup page}
  /\ pc' = "list"
  /\ UNCHANGED <<members, cursor, page, next, exported, stayed>>

\* Export, sendBatch returns an error, whatever the destination has done.
SendFails ==
  /\ pc = "send" /\ "http" \in Faults
  /\ got' \in {got, got \cup page}
  /\ pc' = "failed"
  /\ UNCHANGED <<members, cursor, page, next, exported, stayed>>

\* INSERT ... ON CONFLICT DO NOTHING.
AddMember(i) ==
  /\ members' = members \cup {i}
  /\ UNCHANGED <<pc, cursor, page, next, exported, got, stayed>>

\* DELETE of the member, if it is one.
RemoveMember(i) ==
  /\ members' = members \ {i}
  /\ stayed' = stayed \ {i}
  /\ UNCHANGED <<pc, cursor, page, next, exported, got>>

-----------------------------------------------------------------------------
ExportStep == ListPage \/ ListFails \/ SendPage \/ SendFails

ExportNext == ExportStep \/ \E i \in Id : AddMember(i) \/ RemoveMember(i)

ExportSpec == ExportInit /\ [][ExportNext]_vars

\* The export's statements and requests are answered or time out.
FairExportSpec == ExportSpec /\ WF_vars(ExportStep)

-----------------------------------------------------------------------------
\* Who stays in the audience while it is exported is exported, however many
\* others come and go between the pages (destination.go, Export).
StayersDelivered == pc = "done" => stayed \subseteq got

\* At any time, after a failure too, the destination has everyone who stayed up
\* to the last id it has received: a page is sent before the next one is read
\* (destination.go, Export).
PrefixDelivered ==
  \A i \in stayed, j \in got : i < j => i \in got

\* A successful export reports the number of different ids that the destination
\* has received, so none was sent twice (destination.go, ExportResult).
CountIsExact == pc = "done" => exported = Cardinality(got)

\* An export comes to an end although the audience keeps changing under it
\* (destination.go, the loop of Export).
ExportEnds == <>(pc \in {"done", "failed"})

\* An export keeps what Delivery promises (destination.go, Export).
Outcome == IF pc \in {"list", "send"} THEN "running" ELSE pc

Promise == INSTANCE Delivery WITH count <- exported, outcome <- Outcome

KeepsPromise == Promise!Spec

=============================================================================
