----------------------------- MODULE ExportProofs -----------------------------
(* Theorems about Export, for every audience, every limit and every fault. *)
EXTENDS Export, FiniteSetTheorems, TLAPS

\* ListMembers never applies a limit of 0.
LEMMA LimitType == Limit \in Nat \ {0}
  BY ExportAssumption DEF Limit

\* Sets of ids have a number of elements, and disjoint ones add up.
LEMMA IdSets ==
  ASSUME NEW S \in SUBSET Id
  PROVE  /\ Cardinality(S) \in Nat
         /\ \A T \in SUBSET Id :
              S \cap T = {} => Cardinality(S \cup T) = Cardinality(S) + Cardinality(T)
  <1>1. \A T \in SUBSET Id : IsFiniteSet(T) /\ Cardinality(T) \in Nat
    BY ExportAssumption, FS_Subset, FS_CardinalityType
  <1>2. ASSUME NEW T \in SUBSET Id, S \cap T = {}
        PROVE  Cardinality(S \cup T) = Cardinality(S) + Cardinality(T)
    <2>1. /\ Cardinality(S \cup T)
             = Cardinality(S) + Cardinality(T) - Cardinality(S \cap T)
      BY <1>1, FS_Union
    <2>2. Cardinality(S \cap T) = 0
      BY <1>2, FS_EmptySet
    <2> QED BY <1>1, <2>1, <2>2
  <1> QED BY <1>1, <1>2

-----------------------------------------------------------------------------
(* The inductive invariant: the destination has nothing beyond the cursor and *)
(* all the stayers up to it; the page in hand begins right after the cursor   *)
(* and leaves no stayer out up to its last id, or at all if it is the last.   *)

UpToCursor ==
  /\ \A i \in got : i <= cursor
  /\ \A i \in stayed : i <= cursor => i \in got

InHand ==
  /\ Cardinality(page) <= Limit
  /\ \A i \in page : cursor < i
  /\ \A i \in stayed, j \in page : cursor < i /\ i <= j => i \in page
  /\ next = 0 => \A i \in stayed : cursor < i => i \in page
  /\ next # 0 => next \in page /\ \A j \in page : j <= next

ExportInv ==
  /\ ExportTypeOK
  /\ pc # "failed" => exported = Cardinality(got)
  /\ pc \in {"list", "send"} => UpToCursor
  /\ pc = "send" => InHand
  /\ pc = "done" => stayed \subseteq got
  /\ pc = "failed" => PrefixDelivered

\* What is in hand when a page has been read.
LEMMA PageInHand ==
  ASSUME ExportTypeOK, NEW P \in SUBSET members, IsPage(P, cursor), stayed \subseteq members,
         page' = P, next' \in NextCursors(P), UNCHANGED <<cursor, stayed>>
  PROVE  next' \in Id \cup {0} /\ InHand'
  <1>1. /\ P \subseteq Id /\ stayed \subseteq Id /\ Id \subseteq Nat \ {0}
        /\ cursor \in Nat
    BY ExportAssumption DEF ExportTypeOK
  <1>2. Cardinality(P) \in Nat /\ Limit \in Nat
    BY <1>1, IdSets, LimitType
  <1>3. \A i \in stayed : cursor < i => i \in Beyond(cursor)
    BY <1>1 DEF Beyond
  <1>4. /\ Cardinality(P) <= Limit /\ \A i \in P : cursor < i
        /\ \A i \in stayed, j \in P : cursor < i /\ i <= j => i \in P
    BY <1>1, <1>3 DEF IsPage, Beyond
  <1>5. CASE IsLast(P)
    <2>1. next' = 0 /\ P = Beyond(cursor)
      BY <1>5 DEF NextCursors, IsPage, IsLast
    <2> QED BY <1>3, <1>4, <2>1 DEF InHand
  <1>6. CASE ~IsLast(P)
    <2>1. next' \in P /\ \A j \in P : j <= next'
      BY <1>6 DEF NextCursors
    <2> QED BY <1>1, <1>4, <2>1 DEF InHand
  <1> QED BY <1>5, <1>6

\* What the destination has once the page in hand is sent.
LEMMA PageSent ==
  ASSUME ExportInv, pc = "send"
  PROVE  /\ page \cap got = {}
         /\ Cardinality(got \cup page) = Cardinality(got) + Cardinality(page)
         /\ next = 0 => stayed \subseteq got \cup page
         /\ next # 0 => /\ \A i \in got \cup page : i <= next
                        /\ \A i \in stayed : i <= next => i \in got \cup page
         /\ \A i \in stayed, j \in got \cup page : i < j => i \in got \cup page
         /\ PrefixDelivered
  <1>1. /\ got \subseteq Nat /\ page \subseteq Nat /\ stayed \subseteq Nat
        /\ got \in SUBSET Id /\ page \in SUBSET Id /\ cursor \in Nat /\ next \in Nat
    BY ExportAssumption DEF ExportInv, ExportTypeOK
  <1>2. UpToCursor /\ InHand
    BY DEF ExportInv
  <1>3. page \cap got = {}
    BY <1>1, <1>2 DEF UpToCursor, InHand
  <1>4. Cardinality(got \cup page) = Cardinality(got) + Cardinality(page)
    BY <1>1, <1>3, IdSets
  <1>5. \A i \in stayed : i <= cursor \/ cursor < i
    BY <1>1
  <1>6. next = 0 => stayed \subseteq got \cup page
    BY <1>2, <1>5 DEF UpToCursor, InHand
  <1>7. next # 0 => /\ \A i \in got \cup page : i <= next
                    /\ \A i \in stayed : i <= next => i \in got \cup page
    BY <1>1, <1>2, <1>5 DEF UpToCursor, InHand
  <1>8. \A i \in stayed, j \in got \cup page : i < j => i \in got \cup page
    BY <1>1, <1>2, <1>5 DEF UpToCursor, InHand
  <1>9. PrefixDelivered
    BY <1>1, <1>2 DEF UpToCursor, PrefixDelivered
  <1> QED BY <1>3, <1>4, <1>6, <1>7, <1>8, <1>9

LEMMA ExportStart == ExportInit => ExportInv /\ stayed \subseteq members
  <1> SUFFICES ASSUME ExportInit PROVE ExportInv /\ stayed \subseteq members
    OBVIOUS
  <1>1. Cardinality({}) = 0
    BY FS_EmptySet
  <1>2. ExportTypeOK
    BY DEF ExportInit, ExportTypeOK
  <1>3. UpToCursor
    BY ExportAssumption DEF ExportInit, UpToCursor
  <1> QED BY <1>1, <1>2, <1>3 DEF ExportInit, ExportInv

LEMMA ExportStays ==
  ASSUME ExportInv, stayed \subseteq members, [ExportNext]_vars
  PROVE  ExportInv' /\ (stayed \subseteq members)'
  <1>0. ExportTypeOK /\ Id \subseteq Nat \ {0}
    BY ExportAssumption DEF ExportInv
  <1>1. CASE ListPage
    <2>1. PICK P \in SUBSET members : /\ IsPage(P, cursor) /\ page' = P
                                      /\ next' \in NextCursors(P)
                                      /\ pc' = IF P = {} THEN "done" ELSE "send"
      BY <1>1 DEF ListPage
    <2>2. next' \in Id \cup {0} /\ InHand'
      BY <1>0, <1>1, <2>1, PageInHand DEF ListPage
    <2>3. ExportTypeOK'
      BY <1>0, <1>1, <2>1, <2>2 DEF ListPage, ExportTypeOK
    <2>4. UpToCursor /\ UpToCursor'
      BY <1>1 DEF ListPage, ExportInv, UpToCursor
    <2>5. pc' = "done" => stayed' \subseteq got'
      <3>1. SUFFICES ASSUME P = {} PROVE stayed \subseteq got
        BY <1>1, <2>1 DEF ListPage
      <3>2. Cardinality(P) = 0 /\ Limit \in Nat \ {0}
        BY <3>1, FS_EmptySet, LimitType
      <3>3. Beyond(cursor) = {}
        BY <2>1, <3>1, <3>2 DEF IsPage
      <3>4. \A i \in stayed : i <= cursor
        BY <1>0, <3>3 DEF Beyond, ExportTypeOK
      <3> QED BY <2>4, <3>4 DEF UpToCursor
    <2> QED BY <1>1, <2>1, <2>2, <2>3, <2>4, <2>5 DEF ListPage, ExportInv
  <1>2. CASE ListFails
    <2>1. ExportTypeOK'
      BY <1>0, <1>2 DEF ListFails, ExportTypeOK
    <2>2. PrefixDelivered'
      <3>1. UpToCursor /\ stayed \subseteq Nat /\ got \subseteq Nat /\ cursor \in Nat
        BY <1>0, <1>2 DEF ListFails, ExportInv, ExportTypeOK
      <3> QED BY <1>2, <3>1 DEF ListFails, UpToCursor, PrefixDelivered
    <2> QED BY <1>2, <2>1, <2>2 DEF ListFails, ExportInv
  <1>3. CASE SendPage
    <2>1. Cardinality(page) \in Nat /\ exported = Cardinality(got)
      BY <1>0, <1>3, IdSets DEF SendPage, ExportInv, ExportTypeOK
    <2>2. ExportTypeOK'
      BY <1>0, <1>3, <2>1 DEF SendPage, ExportTypeOK
    <2>3. exported' = Cardinality(got')
      BY <1>3, <2>1, PageSent DEF SendPage
    <2>4. CASE next = 0
      <3>1. pc' = "done" /\ stayed' \subseteq got'
        BY <1>3, <2>4, PageSent DEF SendPage
      <3> QED BY <1>3, <2>2, <2>3, <3>1 DEF SendPage, ExportInv
    <2>5. CASE next # 0
      <3>1. pc' = "list" /\ UpToCursor'
        BY <1>3, <2>5, PageSent DEF SendPage, UpToCursor
      <3> QED BY <1>3, <2>2, <2>3, <3>1 DEF SendPage, ExportInv
    <2> QED BY <2>4, <2>5
  <1>4. CASE SendFails
    <2>1. ExportTypeOK'
      BY <1>0, <1>4 DEF SendFails, ExportTypeOK
    <2>2. PrefixDelivered'
      BY <1>4, PageSent DEF SendFails, PrefixDelivered
    <2> QED BY <1>4, <2>1, <2>2 DEF SendFails, ExportInv
  <1>5. ASSUME NEW i \in Id, AddMember(i) \/ RemoveMember(i)
        PROVE  ExportInv' /\ (stayed \subseteq members)'
    <2>1. /\ stayed' \subseteq stayed /\ members' \in SUBSET Id
          /\ stayed' \subseteq members'
          /\ UNCHANGED <<pc, cursor, page, next, exported, got>>
      BY <1>0, <1>5 DEF AddMember, RemoveMember, ExportTypeOK
    <2>2. ExportTypeOK'
      BY <1>0, <2>1 DEF ExportTypeOK
    <2>3. pc \in {"list", "send"} => UpToCursor'
      BY <2>1 DEF ExportInv, UpToCursor
    <2>4. pc = "send" => InHand'
      BY <2>1 DEF ExportInv, InHand
    <2>5. pc = "failed" => PrefixDelivered'
      BY <2>1 DEF ExportInv, PrefixDelivered
    <2> QED BY <2>1, <2>2, <2>3, <2>4, <2>5 DEF ExportInv
  <1>6. CASE UNCHANGED vars
    BY <1>6 DEF vars, ExportInv, ExportTypeOK, UpToCursor, InHand, PrefixDelivered
  <1> QED BY <1>1, <1>2, <1>3, <1>4, <1>5, <1>6 DEF ExportNext, ExportStep

LEMMA ExportInvariant == ExportSpec => [](ExportInv /\ stayed \subseteq members)
  BY ExportStart, ExportStays, PTL DEF ExportSpec

LEMMA PrefixAlways ==
  ASSUME ExportInv
  PROVE  PrefixDelivered
  <1>0. stayed \subseteq Nat /\ got \subseteq Nat /\ cursor \in Nat
    BY ExportAssumption DEF ExportInv, ExportTypeOK
  <1>1. CASE pc \in {"list", "send"}
    BY <1>0, <1>1 DEF ExportInv, UpToCursor, PrefixDelivered
  <1>2. CASE pc \in {"done", "failed"}
    BY <1>2 DEF ExportInv, PrefixDelivered
  <1> QED BY <1>1, <1>2 DEF ExportInv, ExportTypeOK

-----------------------------------------------------------------------------
\* The cursor and the page in hand always name members' ids (destination.go, Export).
THEOREM ExportTypeCorrect == ExportSpec => []ExportTypeOK
  BY ExportInvariant, PTL DEF ExportInv

\* Whoever stays in the audience is exported by every export that succeeds, for
\* every audience, limit and interleaving (destination.go, Export).
THEOREM ExportDeliversStayers == ExportSpec => []StayersDelivered
  BY ExportInvariant, PTL DEF ExportInv, StayersDelivered

\* The destination always has all the stayers up to the last id that it has
\* received, whether the export goes on, ends or fails (destination.go, Export).
THEOREM ExportDeliversPrefix == ExportSpec => []PrefixDelivered
  BY ExportInvariant, PrefixAlways, PTL

\* The number that a successful export reports is that of the ids received: none
\* is sent twice (destination.go, ExportResult).
THEOREM ExportCounts == ExportSpec => []CountIsExact
  <1>1. ExportInv => CountIsExact
    BY DEF ExportInv, CountIsExact
  <1> QED BY <1>1, ExportInvariant, PTL

-----------------------------------------------------------------------------
(* Export implements Delivery. *)

\* Delivery counts as Export does.
LEMMA SameCardinality == ASSUME NEW S PROVE Promise!Cardinality(S) = Cardinality(S)
  BY DEF Promise!Cardinality, Cardinality

LEMMA PromiseStart == ExportInit => Promise!Init
  BY DEF ExportInit, Promise!Init, Outcome

LEMMA PromiseStep ==
  ASSUME ExportInv, ExportInv', stayed \subseteq members, [ExportNext]_vars
  PROVE  [Promise!Next]_(Promise!vars)
  <1>0. /\ members \in SUBSET Id /\ page \in SUBSET Id /\ got \in SUBSET Id
        /\ exported \in Nat
    BY DEF ExportInv, ExportTypeOK
  <1>1. CASE ListPage
    <2>1. PICK P \in SUBSET members : pc' = IF P = {} THEN "done" ELSE "send"
      BY <1>1 DEF ListPage
    <2>2. CASE P = {}
      <3>1. {} \in Promise!Batch /\ got' = got \cup {} /\ Cardinality({}) = 0
        BY <1>0, <1>1, LimitType, FS_EmptySet, SameCardinality
           DEF ListPage, Promise!Batch
      <3>2. exported' = exported + Cardinality({})
        BY <1>0, <1>1, <3>1 DEF ListPage
      <3>3. Outcome = "running" /\ Outcome' = "done" /\ stayed' \subseteq got'
        BY <1>1, <2>1, <2>2 DEF ListPage, Outcome, ExportInv
      <3>4. Promise!Deliver
        BY <1>1, <3>1, <3>2, <3>3, SameCardinality DEF ListPage, Promise!Deliver
      <3> QED BY <3>4 DEF Promise!Next
    <2>3. CASE P # {}
      BY <1>1, <2>1, <2>3 DEF ListPage, Outcome, Promise!vars
    <2> QED BY <2>2, <2>3
  <1>2. CASE ListFails
    <2>1. {} \in Promise!Batch /\ got' \in {got, got \cup {}}
      BY <1>0, <1>2, LimitType, FS_EmptySet, SameCardinality
         DEF ListFails, Promise!Batch
    <2>2. Promise!Fail
      BY <1>2, <2>1 DEF ListFails, Outcome, Promise!Fail
    <2> QED BY <2>2 DEF Promise!Next
  <1>3. CASE SendPage \/ SendFails
    <2>1. page \in Promise!Batch
      <3>1. pc = "send"
        BY <1>3 DEF SendPage, SendFails
      <3>2. page \cap got = {} /\ Cardinality(page) <= Limit
        BY <3>1, PageSent DEF ExportInv, InHand
      <3> QED BY <1>0, <3>2, SameCardinality DEF Promise!Batch
    <2>2. CASE SendPage
      <3>1. Outcome = "running" /\ Outcome' \in {"running", "done"}
        BY <2>2 DEF SendPage, Outcome
      <3>2. Outcome' = "done" => stayed \subseteq got'
        BY <2>2 DEF SendPage, Outcome, ExportInv
      <3>3. Promise!Deliver
        BY <2>1, <2>2, <3>1, <3>2, SameCardinality DEF SendPage, Promise!Deliver
      <3> QED BY <3>3 DEF Promise!Next
    <2>3. CASE SendFails
      <3>1. Promise!Fail
        BY <2>1, <2>3 DEF SendFails, Outcome, Promise!Fail
      <3> QED BY <3>1 DEF Promise!Next
    <2> QED BY <1>3, <2>2, <2>3
  <1>4. ASSUME NEW i \in Id, AddMember(i) \/ RemoveMember(i)
        PROVE  Promise!Change
    <2>1. members' \in SUBSET Id /\ stayed' = stayed \cap members'
      BY <1>0, <1>4 DEF AddMember, RemoveMember
    <2> QED BY <1>4, <2>1 DEF AddMember, RemoveMember, Outcome, Promise!Change
  <1>5. CASE UNCHANGED vars
    BY <1>5 DEF vars, Outcome, Promise!vars
  <1> QED BY <1>1, <1>2, <1>3, <1>4, <1>5 DEF ExportNext, ExportStep, Promise!Next

\* An export keeps what Delivery promises, for every audience, limit, fault and
\* interleaving with the consumers that change the audience (destination.go,
\* Export).
THEOREM ExportKeepsPromise == ExportSpec => KeepsPromise
  BY ExportInvariant, PromiseStart, PromiseStep, PTL
     DEF ExportSpec, KeepsPromise, Promise!Spec
=============================================================================
