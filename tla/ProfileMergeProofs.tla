-------------------------- MODULE ProfileMergeProofs --------------------------
(* Theorems about ProfileMerge, for every value of its constants. *)
EXTENDS ProfileMerge, ProfileStoreProofs

-----------------------------------------------------------------------------
(* The store keeps its invariant under merges. *)

CallsOK == StoreInv /\ MergeTypeOK /\ \A c \in Client : merge[c].pc # "idle" =>
             merge[c].primary \in Id /\ merge[c].secondary \in Id

\* What Merge asks for is a request.
LEMMA MergeRequestType == ASSUME NEW p \in Profile PROVE MergeRequest(p) \in Request
  <1>1. p.docs \in [Field -> GoMap] /\ p.tags \in SUBSET Tag
    BY DEF Profile
  <1>2. [kind |-> "map", map |-> p.docs[ExternalIDs].map] \in GoMap
    BY <1>1, MergeAssumption DEF GoMap
  <1>3. MergeRequest(p).docs \in [Field -> GoMap]
    BY <1>1, <1>2 DEF MergeRequest
  <1> QED BY <1>1, <1>3 DEF MergeRequest, Request

\* Every step of a merge or of another client keeps the store's invariant.
LEMMA MergeStoreStep == CallsOK /\ [MergeNext]_vars => StoreInv'
  <1> SUFFICES ASSUME CallsOK, [MergeNext]_vars PROVE StoreInv'
    OBVIOUS
  <1> USE DEF CallsOK
  <1>1. ASSUME NEW c \in Client, UpsertPrimary(c)
        PROVE  StoreInv'
    <2>1. call[c].p \in Profile /\ merge[c].primary \in Id
      BY <1>1 DEF UpsertPrimary, Reached, StoreInv, TypeOK, Calls
    <2>2. MergeRequest(call[c].p) \in Request
      BY <2>1, MergeRequestType
    <2> QED BY <1>1, <2>1, <2>2, UpsertRowInv, UpsertFailsInv DEF UpsertPrimary
  <1>2. ASSUME NEW c \in Client, DeleteSecondary(c)
        PROVE  StoreInv'
    <2>1. call' \in [Client -> Calls] /\ CallsNameIds' /\ merge[c].secondary \in Id
      BY <1>2 DEF DeleteSecondary, StoreInv, TypeOK, CallsNameIds
    <2>2. CASE CommitUnseen(merge[c].secondary, None)
      BY <1>2, <2>1, <2>2, CommitUnseenInv DEF DeleteSecondary
    <2>3. CASE UNCHANGED storeVars
      BY <2>3, StoreStep
    <2> QED BY <1>2, <2>2, <2>3 DEF DeleteSecondary, storeVars
  <1>3. ASSUME StoreNext \/ UNCHANGED storeVars
        PROVE  StoreInv'
    BY <1>3, StoreStep
  <1>4. ASSUME NEW c \in Client, Serve(c) PROVE StoreNext
    BY <1>4, MergeAssumption DEF Serve, StoreNext, StartCall
  <1>5. ASSUME NEW c \in Client, NEW pair \in MergePairs, BeginMerge(c, pair[1], pair[2])
        PROVE  StoreNext
    BY <1>5, MergeAssumption DEF BeginMerge, StoreNext, StartCall
  <1>6. ASSUME NEW c \in Client,
               GetFails(c) \/ RedirectEvents(c) \/ ContinueAny(c) \/ Abandon(c)
        PROVE  StoreNext \/ UNCHANGED storeVars
    BY <1>6 DEF GetFails, RedirectEvents, ContinueAny, Abandon, StoreNext
  <1>7. ASSUME NEW c \in Client, NEW e \in Event, NEW id \in Written, WriteEvent(c, e, id)
        PROVE  UNCHANGED storeVars
    BY <1>7 DEF WriteEvent
  <1>8. ASSUME NEW id \in Id, ExpireAny(id) PROVE StoreNext
    BY <1>8 DEF ExpireAny, StoreNext
  <1>9. CASE UNCHANGED vars
    BY <1>3, <1>9 DEF vars, storeVars
  <1>10. CASE MergeNext
    BY <1>1, <1>2, <1>3, <1>4, <1>5, <1>6, <1>7, <1>8, <1>10 DEF MergeNext, MergeStep
  <1> QED BY <1>9, <1>10

\* How a step may move the merge of one client, and the events.
LEMMA MergeMoves ==
  ASSUME CallsOK, [MergeNext]_vars
  PROVE  /\ \/ UNCHANGED merge
            \/ \E c \in Client : Stop(c)
            \/ \E c \in Client : merge[c].pc # "idle" /\ \E pc \in {"upsert", "redirect"} : Proceed(c, pc)
            \/ \E c \in Client, pair \in MergePairs :
                 merge' = [merge EXCEPT ![c] =
                             [pc |-> "get", primary |-> pair[1], secondary |-> pair[2]]]
         /\ \/ UNCHANGED events
            \/ \E e \in Event, id \in Id : events' = [events EXCEPT ![e] = id]
            \/ \E c \in Client :
                 /\ merge[c].pc = "upsert"
                 /\ events' = [e \in Event |-> IF events[e] = merge[c].secondary
                                               THEN merge[c].primary ELSE events[e]]
  BY MergeAssumption DEF CallsOK, vars, MergeNext, MergeStep, BeginMerge, GetFails, UpsertPrimary, Reached,
         RedirectEvents, DeleteSecondary, ContinueAny, Abandon, Serve, WriteEvent, ExpireAny,
         mergeVars

\* Every step keeps the merges and the events typed.
LEMMA MergeTypesStep == CallsOK /\ [MergeNext]_vars => CallsOK'
  <1> SUFFICES ASSUME CallsOK, [MergeNext]_vars PROVE CallsOK'
    OBVIOUS
  <1> DEFINE Typed(m) == /\ m \in Merges
                         /\ m.pc # "idle" => m.primary \in Id /\ m.secondary \in Id
  <1>1. StoreInv'
    BY MergeStoreStep
  <1>2. \A c \in Client : Typed(merge[c])
    BY DEF CallsOK, MergeTypeOK
  <1>3. merge' \in [Client -> Merges] /\ \A c \in Client : Typed(merge'[c])
    <2>1. CASE UNCHANGED merge
      BY <1>2, <2>1 DEF CallsOK, MergeTypeOK
    <2>2. CASE \E c \in Client : Stop(c)
      <3>1. Typed(Idle)
        BY DEF Idle, Merges
      <3> QED BY <1>2, <2>2, <3>1 DEF CallsOK, MergeTypeOK, Stop
    <2>3. ASSUME NEW c \in Client, merge[c].pc # "idle",
                 NEW pc \in {"upsert", "redirect"}, Proceed(c, pc)
          PROVE  merge' \in [Client -> Merges] /\ \A d \in Client : Typed(merge'[d])
      <3>1. merge'[c] = [merge[c] EXCEPT !.pc = pc]
        BY <2>3 DEF Proceed, CallsOK, MergeTypeOK
      <3>2. Typed(merge'[c])
        BY <1>2, <2>3, <3>1 DEF Merges
      <3> QED BY <1>2, <2>3, <3>2 DEF Proceed, CallsOK, MergeTypeOK
    <2>4. ASSUME NEW c \in Client, NEW pair \in MergePairs,
                 merge' = [merge EXCEPT ![c] =
                             [pc |-> "get", primary |-> pair[1], secondary |-> pair[2]]]
          PROVE  merge' \in [Client -> Merges] /\ \A d \in Client : Typed(merge'[d])
      <3>1. pair[1] \in Id /\ pair[2] \in Id
        BY MergeAssumption
      <3>2. Typed([pc |-> "get", primary |-> pair[1], secondary |-> pair[2]])
        BY <3>1 DEF Merges
      <3> QED BY <1>2, <2>4, <3>2 DEF CallsOK, MergeTypeOK
    <2> QED BY <2>1, <2>2, <2>3, <2>4, MergeMoves
  <1>4. events' \in [Event -> Id \cup {None}]
    BY <1>2, MergeMoves DEF CallsOK, MergeTypeOK
  <1> QED BY <1>1, <1>3, <1>4 DEF CallsOK, MergeTypeOK, StoreInv

LEMMA MergeTypesStart == MergeInit => CallsOK
  BY StoreStart, MergeAssumption DEF MergeInit, CallsOK, MergeTypeOK, StoreInv, Merges, Idle

\* The tables, the cache, the calls and the merges keep to their types.
THEOREM MergeTypeCorrect == MergeSpec => []MergeTypeOK
  BY MergeTypesStart, MergeTypesStep, PTL DEF MergeSpec, CallsOK

\* Merges keep the store's promise: a DELETE that leaves its entry in the cache is
\* one more fault that spoils it, until the entry is evicted (merger.go, Merge).
THEOREM CacheCoherentUnderMerges == MergeSpec => []CoherentUnlessRaced
  BY MergeTypesStart, MergeTypesStep, PTL DEF MergeSpec, CallsOK, StoreInv

-----------------------------------------------------------------------------
(* Fan-in: no profile is both merged away and merged into, and the profiles   *)
(* that are merged away are no longer written.  Then Merge loses nothing,     *)
(* although it is neither atomic nor ordered with anything.                   *)

Secondary(id) == \E pair \in MergePairs : pair[2] = id

OneWay ==
  /\ \A m, n \in MergePairs : m[1] # n[2]
  /\ \A id \in Written : ~Secondary(id)

\* No client sends a nil map: OnlyNilLosesKeys says what one can do.
NilFree == \A req \in Requests : AllMaps(req)

FanIn ==
  /\ NilFree
  /\ \A id \in Id : AllObjects(Stored[id])
  /\ OneWay

\* What anyone can have read of a secondary.
AsStored(id, p) == p \in {None, Scan(Stored[id])}

Frozen(id) ==
  /\ rows[id] \in {None, Stored[id]}
  /\ AsStored(id, cache[id])
  /\ \A c \in Client : call[c].id = id /\ call[c].pc # "ready" =>
       /\ call[c].pc \in {"load", "fill"}
       /\ call[c].pc = "fill" => AsStored(id, call[c].p)

\* How far the merge of client c has got.
Carried(c) ==
  /\ merge[c].pc # "idle" => <<merge[c].primary, merge[c].secondary>> \in MergePairs
  /\ merge[c].pc = "get" =>
       \/ call[c].pc \in {"load", "fill"} /\ call[c].id = merge[c].secondary
       \/ call[c].pc = "ready" /\ AsStored(merge[c].secondary, call[c].p)
  /\ merge[c].pc \in {"upsert", "redirect"} =>
       /\ \A f \in Field : Keys(Stored[merge[c].secondary], f)
                             \subseteq Keys(rows[merge[c].primary], f)
       /\ TagsOf(Stored[merge[c].secondary]) \cap Lasting \subseteq TagsOf(rows[merge[c].primary])

FanInInv ==
  /\ CallsOK
  /\ \A id \in Id : AllObjects(rows[id])
  /\ \A id \in Id : Secondary(id) => Frozen(id)
  /\ \A c \in Client : Carried(c)

\* Merge asks for the maps as it read them.
LEMMA MergeRequestMaps ==
  ASSUME NEW p \in Profile, NEW f \in Field, p.docs[f].kind = "map"
  PROVE  /\ MergeRequest(p).docs[f].kind = "map"
         /\ MergeRequest(p).docs[f].map = p.docs[f].map
  <1>1. p.docs \in [Field -> GoMap]
    BY DEF Profile
  <1>2. MergeRequest(p).docs
          = [p.docs EXCEPT ![ExternalIDs] = [kind |-> "map", map |-> p.docs[ExternalIDs].map]]
    BY DEF MergeRequest
  <1> QED BY <1>1, <1>2

\* The request that Merge makes of a secondary, as it is stored, has its keys and tags.
LEMMA MergeRequestKeys ==
  ASSUME NEW row \in Row, AllObjects(row)
  PROVE  /\ MergeRequest(Scan(row)) \in Request
         /\ AllMaps(MergeRequest(Scan(row)))
         /\ \A f \in Field : Keys(row, f) = DOMAIN MergeRequest(Scan(row)).docs[f].map
         /\ TagsOf(row) = MergeRequest(Scan(row)).tags
  <1>1. Scan(row) \in Profile /\ row # None
    BY ScanType, NoneAssumption
  <1>2. ASSUME NEW f \in Field
        PROVE  /\ Scan(row).docs[f].kind = "map"
               /\ Scan(row).docs[f].map = row.docs[f].map
               /\ Keys(row, f) = DOMAIN row.docs[f].map
    BY <1>1, <1>2 DEF Scan, Unmarshal, AllObjects, Keys
  <1>3. TagsOf(row) = MergeRequest(Scan(row)).tags
    BY <1>1 DEF TagsOf, MergeRequest, Scan
  <1> QED BY <1>1, <1>2, <1>3, MergeRequestType, MergeRequestMaps DEF AllMaps

-----------------------------------------------------------------------------
\* A row that has the keys and the lasting tags of id, and may have more.
Grows(id, row) ==
  /\ ~Secondary(id) /\ row \in Row /\ AllObjects(row)
  /\ \A f \in Field : Keys(rows[id], f) \subseteq Keys(row, f)
  /\ TagsOf(rows[id]) \cap Lasting \subseteq TagsOf(row)

\* The profile that a merge has read, and its request.
LEMMA ReadSecondary ==
  ASSUME FanIn, FanInInv, NEW c \in Client, Reached(c, "get"), call[c].p # None
  PROVE  LET req == MergeRequest(call[c].p) IN
         /\ merge[c].primary \in Id /\ ~Secondary(merge[c].primary)
         /\ req \in Request /\ AllMaps(req)
         /\ \A f \in Field : Keys(Stored[merge[c].secondary], f) = DOMAIN req.docs[f].map
         /\ TagsOf(Stored[merge[c].secondary]) = req.tags
  <1>1. <<merge[c].primary, merge[c].secondary>> \in MergePairs
    BY DEF FanInInv, Carried, Reached
  <1>2. /\ merge[c].primary \in Id /\ merge[c].secondary \in Id
        /\ ~Secondary(merge[c].primary)
    BY <1>1, MergeAssumption DEF FanIn, OneWay, Secondary
  <1>3. call[c].p = Scan(Stored[merge[c].secondary])
    BY DEF FanInInv, Carried, Reached, AsStored
  <1>4. Stored[merge[c].secondary] \in Row
    BY <1>2, <1>3, ScanType, StoreAssumption
  <1> QED BY <1>2, <1>3, <1>4, MergeRequestKeys DEF FanIn, OneWay

\* An accepted or an unseen upsert leaves a row that grows.
LEMMA UpsertGrows ==
  ASSUME FanInInv, NEW id \in Id, ~Secondary(id), NEW req \in Request, AllMaps(req)
  PROVE  /\ Grows(id, Upserted(rows[id], req))
         /\ \A f \in Field : DOMAIN req.docs[f].map \subseteq Keys(Upserted(rows[id], req), f)
         /\ req.tags \subseteq TagsOf(Upserted(rows[id], req))
  <1>1. rows[id] \in Row \cup {None} /\ AllObjects(rows[id])
    BY DEF FanInInv, CallsOK, StoreInv, TypeOK
  <1>2. Upserted(rows[id], req) \in Row /\ Upserted(rows[id], req) # None
    BY <1>1, UpsertedType, NoneAssumption
  <1>3. TagsOf(rows[id]) \cup req.tags \subseteq TagsOf(Upserted(rows[id], req))
    BY <1>2 DEF TagsOf, Upserted
  <1> QED BY <1>1, <1>2, <1>3, UpsertKeepsKeys DEF Grows

\* So does a change of tags.
LEMMA TagGrows ==
  ASSUME FanInInv, NEW id \in Id, ~Secondary(id), rows[id] # None, NEW tags \in TagSets
  PROVE  Grows(id, Tagged(rows[id], tags))
  <1>1. rows[id] \in Row /\ AllObjects(rows[id])
    BY DEF FanInInv, CallsOK, StoreInv, TypeOK
  <1>2. Tagged(rows[id], tags) \in Row /\ Tagged(rows[id], tags).docs = rows[id].docs
    BY <1>1, TaggedType DEF Tagged, Row
  <1>3. Tagged(rows[id], tags) # None
    BY <1>2, NoneAssumption
  <1>4. Lasting \subseteq TagsOf(Tagged(rows[id], tags))
    BY <1>1, <1>3 DEF Lasting, TagsOf, Tagged, Row
  <1> QED BY <1>1, <1>2, <1>3, <1>4 DEF Grows, AllObjects, Keys

\* What a step makes of the table.
LEMMA RowsMove ==
  ASSUME FanIn, FanInInv, [MergeNext]_vars
  PROVE  \/ UNCHANGED rows
         \/ \E id \in Id, row \in Row : Grows(id, row) /\ rows' = [rows EXCEPT ![id] = row]
         \/ \E c \in Client : /\ merge[c].pc = "redirect"
                              /\ rows' = [rows EXCEPT ![merge[c].secondary] = None]
  <1> DEFINE Moved == \E id \in Id, row \in Row :
                        Grows(id, row) /\ rows' = [rows EXCEPT ![id] = row]
  <1>1. ASSUME NEW id \in Id, NEW row, Grows(id, row), rows' = [rows EXCEPT ![id] = row]
        PROVE  Moved
    BY <1>1 DEF Grows
  <1> HIDE DEF Moved
  <1>2. ASSUME NEW c \in Client, NEW id \in Id, ~Secondary(id), NEW req \in Request,
               AllMaps(req), UpsertRow(c, id, req) \/ UpsertFails(c, id, req)
        PROVE  UNCHANGED rows \/ Moved
    BY <1>1, <1>2, UpsertGrows DEF UpsertRow, UpsertFails, Commit, CommitUnseen
  <1>3. ASSUME NEW c \in Client, Serve(c) PROVE UNCHANGED rows \/ Moved
    <2>1. \A id \in Written : id \in Id /\ ~Secondary(id)
      BY MergeAssumption DEF FanIn, OneWay
    <2>2. \A req \in Requests : req \in Request /\ AllMaps(req)
      BY StoreAssumption DEF FanIn, OneWay, NilFree
    <2>3. ASSUME NEW id \in Id, GetCached(c, id) PROVE UNCHANGED rows
      BY <2>3 DEF GetCached
    <2>4. ASSUME NEW id \in Written, NEW tags \in TagSets, TagRow(c, id, tags)
          PROVE  UNCHANGED rows \/ Moved
      BY <1>1, <2>1, <2>4, TagGrows DEF TagRow, Commit
    <2> QED BY <1>2, <1>3, <2>1, <2>2, <2>3, <2>4 DEF Serve
  <1>4. ASSUME NEW c \in Client, UpsertPrimary(c) PROVE UNCHANGED rows \/ Moved
    BY <1>2, <1>4, ReadSecondary DEF UpsertPrimary
  <1>5. ASSUME NEW c \in Client, DeleteSecondary(c)
        PROVE  \/ UNCHANGED rows
               \/ /\ merge[c].pc = "redirect"
                  /\ rows' = [rows EXCEPT ![merge[c].secondary] = None]
    BY <1>5 DEF DeleteSecondary, CommitUnseen
  <1>6. ASSUME NEW c \in Client,
               \/ GetFails(c) \/ RedirectEvents(c) \/ ContinueAny(c) \/ Abandon(c)
               \/ \E pair \in MergePairs : BeginMerge(c, pair[1], pair[2])
               \/ \E e \in Event, id \in Written : WriteEvent(c, e, id)
        PROVE  UNCHANGED rows
    BY <1>6 DEF GetFails, RedirectEvents, ContinueAny, ContinueCall, LoadRow, SetCache,
                DropCache, Abandon, AbandonCall, BeginMerge, GetCached, WriteEvent, storeVars
  <1>7. ASSUME NEW id \in Id, ExpireAny(id) PROVE UNCHANGED rows
    BY <1>7 DEF ExpireAny, Expire
  <1>8. CASE UNCHANGED vars
    BY <1>8 DEF vars
  <1>9. ASSUME MergeNext
        PROVE  \/ UNCHANGED rows
               \/ Moved
               \/ \E c \in Client : /\ merge[c].pc = "redirect"
                                    /\ rows' = [rows EXCEPT ![merge[c].secondary] = None]
    BY <1>3, <1>4, <1>5, <1>6, <1>7, <1>9 DEF MergeNext, MergeStep
  <1> QED BY <1>8, <1>9 DEF Moved

\* The row of id has the keys and the lasting tags that it had.
Kept(id) ==
  /\ \A f \in Field : Keys(rows[id], f) \subseteq Keys(rows'[id], f)
  /\ TagsOf(rows[id]) \cap Lasting \subseteq TagsOf(rows'[id])

\* The rows of primaries and of other profiles only grow, those of secondaries
\* stay as they were stored until they are deleted.
LEMMA RowsStay ==
  ASSUME FanIn, FanInInv, [MergeNext]_vars, NEW id \in Id
  PROVE  /\ AllObjects(rows'[id])
         /\ Secondary(id) => rows'[id] \in {None, Stored[id]}
         /\ ~Secondary(id) => Kept(id)
         /\ \/ Kept(id)
            \/ \E c \in Client : merge[c].pc = "redirect" /\ merge[c].secondary = id
  <1>1. rows \in [Id -> Row \cup {None}] /\ AllObjects(rows[id])
    BY DEF FanInInv, CallsOK, StoreInv, TypeOK
  <1>2. Secondary(id) => rows[id] \in {None, Stored[id]}
    BY DEF FanInInv, Frozen
  <1>3. CASE UNCHANGED rows
    BY <1>1, <1>2, <1>3 DEF Kept
  <1>4. ASSUME NEW i \in Id, NEW row \in Row, Grows(i, row), rows' = [rows EXCEPT ![i] = row]
        PROVE  /\ AllObjects(rows'[id])
               /\ Secondary(id) => rows'[id] \in {None, Stored[id]}
               /\ Kept(id)
    <2>1. CASE i = id
      BY <1>1, <1>4, <2>1 DEF Grows, Kept
    <2>2. CASE i # id
      BY <1>1, <1>2, <1>4, <2>2 DEF Kept
    <2> QED BY <2>1, <2>2
  <1>5. ASSUME NEW c \in Client, merge[c].pc = "redirect",
               rows' = [rows EXCEPT ![merge[c].secondary] = None]
        PROVE  /\ AllObjects(rows'[id])
               /\ Secondary(id) => rows'[id] \in {None, Stored[id]}
               /\ merge[c].secondary # id => Kept(id)
               /\ Secondary(merge[c].secondary)
    <2>1. <<merge[c].primary, merge[c].secondary>> \in MergePairs
      BY <1>5 DEF FanInInv, Carried
    <2>2. Secondary(merge[c].secondary)
      BY <2>1 DEF Secondary
    <2>3. CASE merge[c].secondary = id
      BY <1>1, <1>5, <2>2, <2>3 DEF AllObjects
    <2>4. CASE merge[c].secondary # id
      BY <1>1, <1>2, <1>5, <2>2, <2>4 DEF Kept
    <2> QED BY <2>2, <2>3, <2>4
  <1>6. CASE \E i \in Id, row \in Row : Grows(i, row) /\ rows' = [rows EXCEPT ![i] = row]
    BY <1>4, <1>6
  <1>7. CASE \E c \in Client : /\ merge[c].pc = "redirect"
                               /\ rows' = [rows EXCEPT ![merge[c].secondary] = None]
    BY <1>5, <1>7
  <1> QED BY <1>3, <1>6, <1>7, RowsMove

-----------------------------------------------------------------------------
\* What a call may know of a secondary.
KnowsStored(s, k) ==
  k.id = s /\ k.pc # "ready" =>
    /\ k.pc \in {"load", "fill"}
    /\ k.pc = "fill" => AsStored(s, k.p)

\* What a step may do to the cache entry of a secondary, and to the calls.
LEMMA FrozenMove ==
  ASSUME FanIn, FanInInv, NEW s \in Id, Secondary(s), NEW c \in Client,
         NEW pc, NEW id, NEW p, Goto(c, pc, id, p),
         KnowsStored(s, [pc |-> pc, id |-> id, p |-> p]),
         cache'[s] \in {cache[s], None} \/ AsStored(s, cache'[s])
  PROVE  AsStored(s, cache'[s]) /\ \A d \in Client : KnowsStored(s, call'[d])
  <1>1. AsStored(s, cache[s]) /\ \A d \in Client : KnowsStored(s, call[d])
    BY DEF FanInInv, Frozen, KnowsStored
  <1>2. \A d \in Client : call'[d] = IF d = c THEN [pc |-> pc, id |-> id, p |-> p] ELSE call[d]
    BY DEF Goto, FanInInv, CallsOK, StoreInv, TypeOK
  <1> QED BY <1>1, <1>2 DEF AsStored

\* A store call keeps what is known of a secondary to what is stored.
LEMMA FrozenCall ==
  ASSUME FanIn, FanInInv, NEW s \in Id, Secondary(s), NEW c \in Client,
         \/ \E id \in Id : GetCached(c, id)
         \/ \E id \in Id, req \in Request :
              ~Secondary(id) /\ (UpsertRow(c, id, req) \/ UpsertFails(c, id, req))
         \/ \E id \in Id, tags \in TagSets : ~Secondary(id) /\ TagRow(c, id, tags)
         \/ ContinueCall(c)
         \/ AbandonCall(c)
  PROVE  AsStored(s, cache'[s]) /\ \A d \in Client : KnowsStored(s, call'[d])
  <1>0. /\ AsStored(s, cache[s]) /\ \A d \in Client : KnowsStored(s, call[d])
        /\ rows[s] \in {None, Stored[s]}
        /\ cache \in [Id -> Profile \cup {None}]
    BY DEF FanInInv, Frozen, KnowsStored, CallsOK, StoreInv, TypeOK
  <1>1. ASSUME NEW id \in Id, GetCached(c, id)
        PROVE  AsStored(s, cache'[s]) /\ \A d \in Client : KnowsStored(s, call'[d])
    BY <1>1, FrozenMove DEF GetCached, Return, KnowsStored
  <1>2. ASSUME NEW id \in Id, NEW req \in Request, ~Secondary(id),
               UpsertRow(c, id, req) \/ UpsertFails(c, id, req)
        PROVE  AsStored(s, cache'[s]) /\ \A d \in Client : KnowsStored(s, call'[d])
    BY <1>2, FrozenMove DEF UpsertRow, UpsertFails, Return, KnowsStored
  <1>3. ASSUME NEW id \in Id, NEW tags \in TagSets, ~Secondary(id), TagRow(c, id, tags)
        PROVE  AsStored(s, cache'[s]) /\ \A d \in Client : KnowsStored(s, call'[d])
    BY <1>3, FrozenMove DEF TagRow, KnowsStored
  <1>4. CASE LoadRow(c)
    <2>1. AsStored(s, Scan(rows[s]))
      BY <1>0, ScanType DEF AsStored
    <2> QED BY <1>4, <2>1, FrozenMove DEF LoadRow, Return, KnowsStored
  <1>5. CASE SetCache(c)
    <2>1. cache'[s] = cache[s] \/ (call[c].id = s /\ cache'[s] = call[c].p)
      BY <1>0, <1>5 DEF SetCache
    <2>2. call[c].id = s => AsStored(s, call[c].p)
      BY <1>0, <1>5 DEF SetCache, KnowsStored
    <2> QED BY <1>5, <2>1, <2>2, FrozenMove DEF SetCache, Return, KnowsStored
  <1>6. CASE DropCache(c)
    <2>1. cache'[s] \in {cache[s], None}
      BY <1>0, <1>6 DEF DropCache, Evict
    <2> QED BY <1>6, <2>1, FrozenMove DEF DropCache, Return, KnowsStored
  <1>7. CASE AbandonCall(c)
    BY <1>7, FrozenMove DEF AbandonCall, Return, KnowsStored
  <1> QED BY <1>1, <1>2, <1>3, <1>4, <1>5, <1>6, <1>7 DEF ContinueCall

\* Every step keeps what is known of a secondary to what is stored.
LEMMA FrozenStep ==
  ASSUME FanIn, FanInInv, [MergeNext]_vars, NEW s \in Id, Secondary(s)
  PROVE  Frozen(s)'
  <1> SUFFICES AsStored(s, cache'[s]) /\ \A d \in Client : KnowsStored(s, call'[d])
    BY RowsStay DEF Frozen, KnowsStored, AsStored
  <1>0. AsStored(s, cache[s]) /\ \A d \in Client : KnowsStored(s, call[d])
    BY DEF FanInInv, Frozen, KnowsStored
  <1>1. ASSUME NEW c \in Client, Serve(c)
        PROVE  AsStored(s, cache'[s]) /\ \A d \in Client : KnowsStored(s, call'[d])
    <2>1. \A id \in Written : id \in Id /\ ~Secondary(id)
      BY MergeAssumption DEF FanIn, OneWay
    <2> QED BY <1>1, <2>1, StoreAssumption, FrozenCall DEF Serve
  <1>2. ASSUME NEW c \in Client, UpsertPrimary(c)
        PROVE  AsStored(s, cache'[s]) /\ \A d \in Client : KnowsStored(s, call'[d])
    BY <1>2, ReadSecondary, FrozenCall DEF UpsertPrimary
  <1>3. ASSUME NEW c \in Client, NEW pair \in MergePairs, BeginMerge(c, pair[1], pair[2])
        PROVE  AsStored(s, cache'[s]) /\ \A d \in Client : KnowsStored(s, call'[d])
    BY <1>3, MergeAssumption, FrozenCall DEF BeginMerge
  <1>4. ASSUME NEW c \in Client, ContinueAny(c) \/ Abandon(c)
        PROVE  AsStored(s, cache'[s]) /\ \A d \in Client : KnowsStored(s, call'[d])
    BY <1>0, <1>4, FrozenCall DEF ContinueAny, Abandon, storeVars
  <1>5. CASE UNCHANGED <<cache, call>>
    BY <1>0, <1>5
  <1>6. ASSUME NEW c \in Client,
               \/ GetFails(c) \/ RedirectEvents(c) \/ DeleteSecondary(c)
               \/ \E e \in Event, id \in Written : WriteEvent(c, e, id)
        PROVE  UNCHANGED <<cache, call>>
    BY <1>6 DEF GetFails, RedirectEvents, DeleteSecondary, WriteEvent, storeVars
  <1>7. ASSUME NEW id \in Id, ExpireAny(id)
        PROVE  AsStored(s, cache'[s]) /\ \A d \in Client : KnowsStored(s, call'[d])
    BY <1>0, <1>7 DEF ExpireAny, Expire, Evict, AsStored, FanInInv, CallsOK, StoreInv, TypeOK
  <1>8. CASE UNCHANGED vars
    BY <1>5, <1>8 DEF vars
  <1> QED BY <1>1, <1>2, <1>3, <1>4, <1>5, <1>6, <1>7, <1>8 DEF MergeNext, MergeStep

-----------------------------------------------------------------------------
\* A merge that does not move keeps what it has carried over.
LEMMA CarriedStays ==
  ASSUME FanIn, FanInInv, [MergeNext]_vars, NEW d \in Client, merge'[d] = merge[d],
         call'[d] = call[d] \/ merge[d].pc # "get"
  PROVE  Carried(d)'
  <1>1. Carried(d)
    BY DEF FanInInv
  <1>2. ASSUME merge[d].pc \in {"upsert", "redirect"}
        PROVE  Kept(merge[d].primary)
    <2>1. <<merge[d].primary, merge[d].secondary>> \in MergePairs
      BY <1>1, <1>2 DEF Carried
    <2>2. merge[d].primary \in Id /\ ~Secondary(merge[d].primary)
      BY <2>1, MergeAssumption DEF FanIn, OneWay, Secondary
    <2> QED BY <2>2, RowsStay
  <1>3. ASSUME merge[d].pc \in {"upsert", "redirect"}
        PROVE  /\ \A f \in Field : Keys(Stored[merge[d].secondary], f)
                                      \subseteq Keys(rows'[merge[d].primary], f)
               /\ TagsOf(Stored[merge[d].secondary]) \cap Lasting
                    \subseteq TagsOf(rows'[merge[d].primary])
    BY <1>1, <1>2, <1>3 DEF Carried, Kept
  <1> QED BY <1>1, <1>3 DEF Carried, AsStored

\* A merge that gives up carries nothing.
LEMMA CarriedNothing ==
  ASSUME FanInInv, NEW c \in Client, Stop(c) PROVE Carried(c)'
  BY DEF Stop, Idle, Carried, FanInInv, CallsOK, MergeTypeOK

\* Every step keeps what the merges have carried over.
LEMMA CarriedStep ==
  ASSUME FanIn, FanInInv, [MergeNext]_vars, NEW d \in Client
  PROVE  Carried(d)'
  <1>0. /\ merge \in [Client -> Merges] /\ call \in [Client -> Calls] /\ CallsOK
        /\ Carried(d)
    BY DEF FanInInv, CallsOK, MergeTypeOK, StoreInv, TypeOK
  <1>1. ASSUME NEW c \in Client, (Stop(c) /\ UNCHANGED call) \/ UNCHANGED <<merge, call>>
        PROVE  Carried(d)'
    BY <1>0, <1>1, CarriedStays, CarriedNothing DEF Stop
  <1>2. ASSUME NEW c \in Client, Serve(c) PROVE Carried(d)'
    <2>1. UNCHANGED merge /\ merge[c].pc # "get"
      BY <1>2 DEF Serve, mergeVars, Idle
    <2>2. c # d => call'[d] = call[d]
      BY <1>0, <1>2 DEF Serve, GetCached, UpsertRow, UpsertFails, TagRow, Return, Goto
    <2> QED BY <2>1, <2>2, CarriedStays
  <1>3. ASSUME NEW c \in Client, NEW pair \in MergePairs, BeginMerge(c, pair[1], pair[2])
        PROVE  Carried(d)'
    <2>1. CASE c # d
      BY <1>0, <1>3, <2>1, CarriedStays DEF BeginMerge, GetCached, Return, Goto
    <2>2. CASE c = d
      <3>1. pair[2] \in Id /\ Secondary(pair[2]) /\ <<pair[1], pair[2]>> \in MergePairs
        BY MergeAssumption DEF Secondary
      <3>2. AsStored(pair[2], cache[pair[2]])
        BY <3>1 DEF FanInInv, Frozen
      <3>3. merge'[d] = [pc |-> "get", primary |-> pair[1], secondary |-> pair[2]]
        BY <1>0, <1>3, <2>2 DEF BeginMerge
      <3>4. \/ call'[d].pc = "ready" /\ AsStored(pair[2], call'[d].p)
            \/ call'[d].pc = "load" /\ call'[d].id = pair[2]
        BY <1>0, <1>3, <2>2, <3>2 DEF BeginMerge, GetCached, Return, Goto
      <3> QED BY <3>1, <3>3, <3>4 DEF Carried, AsStored
    <2> QED BY <2>1, <2>2
  <1>4. ASSUME NEW c \in Client, ContinueAny(c) PROVE Carried(d)'
    <2>1. UNCHANGED merge
      BY <1>4 DEF ContinueAny, mergeVars
    <2>2. CASE c # d \/ merge[d].pc # "get"
      BY <1>0, <1>4, <2>1, <2>2, CarriedStays
         DEF ContinueAny, ContinueCall, LoadRow, SetCache, DropCache, Return, Goto
    <2>3. CASE c = d /\ merge[d].pc = "get"
      <3> DEFINE s == merge[d].secondary
      <3>1. s \in Id /\ Secondary(s) /\ <<merge[d].primary, s>> \in MergePairs
        BY <1>0, <2>3, MergeAssumption DEF Carried, Secondary
      <3>2. /\ rows[s] \in {None, Stored[s]}
            /\ call[d].pc = "fill" /\ call[d].id = s => AsStored(s, call[d].p)
        BY <3>1 DEF FanInInv, Frozen
      <3>3. call[d].pc \in {"load", "fill"} /\ call[d].id = s
        BY <1>0, <1>4, <2>3 DEF Carried, ContinueAny, ContinueCall, LoadRow, SetCache, DropCache
      <3>4. \/ call'[d].pc = "fill" /\ call'[d].id = s
            \/ call'[d].pc = "ready" /\ AsStored(s, call'[d].p)
        BY <1>0, <1>4, <2>3, <3>2, <3>3
           DEF ContinueAny, ContinueCall, LoadRow, SetCache, DropCache, Return, Goto, AsStored
      <3> QED BY <2>1, <2>3, <3>1, <3>4 DEF Carried, AsStored
    <2> QED BY <2>2, <2>3
  <1>5. ASSUME NEW c \in Client, UpsertPrimary(c) PROVE Carried(d)'
    <2>1. CASE c # d
      BY <1>0, <1>5, <2>1, CarriedStays
         DEF UpsertPrimary, UpsertRow, UpsertFails, Return, Goto, Proceed, Stop
    <2>2. CASE c = d /\ Stop(d)
      BY <2>2, CarriedNothing
    <2>3. CASE /\ c = d /\ Proceed(d, "upsert")
               /\ UpsertRow(d, merge[d].primary, MergeRequest(call[d].p))
      <3> DEFINE req     == MergeRequest(call[d].p)
                 primary == merge[d].primary
      <3>1. /\ primary \in Id /\ ~Secondary(primary) /\ req \in Request /\ AllMaps(req)
            /\ \A f \in Field : Keys(Stored[merge[d].secondary], f) = DOMAIN req.docs[f].map
            /\ TagsOf(Stored[merge[d].secondary]) = req.tags
        BY <1>5, <2>3, ReadSecondary DEF UpsertPrimary
      <3>2. rows'[primary] = Upserted(rows[primary], req)
        BY <1>0, <2>3, <3>1 DEF UpsertRow, Commit, CallsOK, StoreInv, TypeOK
      <3>3. /\ \A f \in Field : Keys(Stored[merge[d].secondary], f)
                                   \subseteq Keys(rows'[primary], f)
            /\ TagsOf(Stored[merge[d].secondary]) \subseteq TagsOf(rows'[primary])
        BY <3>1, <3>2, UpsertGrows
      <3>4. /\ merge[d].pc = "get" /\ merge'[d].pc = "upsert"
            /\ merge'[d].primary = primary /\ merge'[d].secondary = merge[d].secondary
        BY <1>0, <1>5, <2>3 DEF UpsertPrimary, Reached, Proceed, Merges
      <3> QED BY <1>0, <3>3, <3>4 DEF Carried
    <2> QED BY <1>5, <2>1, <2>2, <2>3 DEF UpsertPrimary
  <1>6. ASSUME NEW c \in Client, RedirectEvents(c) PROVE Carried(d)'
    <2>1. UNCHANGED <<rows, call>>
      BY <1>6 DEF RedirectEvents, storeVars
    <2>2. CASE Stop(c)
      BY <1>1, <2>1, <2>2
    <2>3. CASE Proceed(c, "redirect") /\ c # d
      BY <1>0, <2>1, <2>3, CarriedStays DEF Proceed
    <2>4. CASE Proceed(c, "redirect") /\ c = d
      <3>1. /\ merge[d].pc = "upsert" /\ merge'[d].pc = "redirect"
            /\ merge'[d].primary = merge[d].primary
            /\ merge'[d].secondary = merge[d].secondary
        BY <1>0, <1>6, <2>4 DEF RedirectEvents, Reached, Proceed, Merges
      <3> QED BY <1>0, <2>1, <3>1 DEF Carried
    <2> QED BY <1>6, <2>2, <2>3, <2>4 DEF RedirectEvents
  <1>7. ASSUME NEW c \in Client, GetFails(c) \/ DeleteSecondary(c) PROVE Carried(d)'
    BY <1>1, <1>7 DEF GetFails, DeleteSecondary, storeVars
  <1>8. ASSUME NEW c \in Client, Abandon(c) PROVE Carried(d)'
    <2>1. CASE c # d
      BY <1>0, <1>8, <2>1, CarriedStays DEF Abandon, AbandonCall, storeVars, Return, Goto, Stop
    <2>2. CASE c = d
      BY <1>8, <2>2, CarriedNothing DEF Abandon
    <2> QED BY <2>1, <2>2
  <1>9. ASSUME NEW c \in Client, NEW e \in Event, NEW id \in Written, WriteEvent(c, e, id)
        PROVE  Carried(d)'
    BY <1>1, <1>9 DEF WriteEvent, storeVars
  <1>10. ASSUME NEW id \in Id, ExpireAny(id) PROVE Carried(d)'
    BY <1>10, CarriedStays DEF ExpireAny, Expire, mergeVars
  <1>11. CASE UNCHANGED vars
    BY <1>11, CarriedStays DEF vars
  <1> QED BY <1>2, <1>3, <1>4, <1>5, <1>6, <1>7, <1>8, <1>9, <1>10, <1>11
          DEF MergeNext, MergeStep

-----------------------------------------------------------------------------
LEMMA FanInStart == FanIn /\ MergeInit => FanInInv
  <1> SUFFICES ASSUME FanIn, MergeInit PROVE FanInInv
    OBVIOUS
  <1>1. \A id \in Id : AllObjects(rows[id]) /\ Frozen(id)
    BY DEF FanIn, OneWay, MergeInit, StoreInit, Frozen, AsStored
  <1>2. \A c \in Client : Carried(c)
    BY DEF MergeInit, Idle, Carried
  <1> QED BY <1>1, <1>2, MergeTypesStart DEF FanInInv

LEMMA FanInStep == FanIn /\ FanInInv /\ [MergeNext]_vars => FanInInv'
  <1> SUFFICES ASSUME FanIn, FanInInv, [MergeNext]_vars PROVE FanInInv'
    OBVIOUS
  <1>1. CallsOK'
    BY MergeTypesStep DEF FanInInv
  <1>2. \A id \in Id : AllObjects(rows'[id])
    BY RowsStay
  <1>3. \A id \in Id : Secondary(id) => Frozen(id)'
    BY FrozenStep
  <1>4. \A c \in Client : Carried(c)'
    BY CarriedStep
  <1> QED BY <1>1, <1>2, <1>3, <1>4 DEF FanInInv, Secondary

\* What a row had before a step is there after it: in the same row or, when that is
\* deleted, in the row that it was merged into.
LEMMA NothingGoes ==
  ASSUME FanIn, FanInInv, [MergeNext]_vars, NEW id \in Id
  PROVE  \E to \in Id :
           /\ \A f \in Field : Keys(rows[id], f) \subseteq Keys(rows'[to], f)
           /\ TagsOf(rows[id]) \cap Lasting \subseteq TagsOf(rows'[to])
  <1>1. CASE Kept(id)
    BY <1>1 DEF Kept
  <1>2. ASSUME NEW c \in Client, merge[c].pc = "redirect", merge[c].secondary = id
        PROVE  /\ merge[c].primary \in Id
               /\ \A f \in Field : Keys(rows[id], f) \subseteq Keys(rows'[merge[c].primary], f)
               /\ TagsOf(rows[id]) \cap Lasting \subseteq TagsOf(rows'[merge[c].primary])
    <2>1. <<merge[c].primary, id>> \in MergePairs
      BY <1>2 DEF FanInInv, Carried
    <2>2. merge[c].primary \in Id /\ ~Secondary(merge[c].primary) /\ Secondary(id)
      BY <2>1, MergeAssumption DEF FanIn, OneWay, Secondary
    <2>3. rows[id] \in {None, Stored[id]}
      BY <2>2 DEF FanInInv, Frozen
    <2>4. /\ \A f \in Field : Keys(rows[id], f) \subseteq Keys(Stored[id], f)
          /\ TagsOf(rows[id]) \subseteq TagsOf(Stored[id])
      BY <2>3 DEF Keys, TagsOf
    <2>5. /\ \A f \in Field : Keys(rows[id], f) \subseteq Keys(rows[merge[c].primary], f)
          /\ TagsOf(rows[id]) \cap Lasting \subseteq TagsOf(rows[merge[c].primary])
      BY <1>2, <2>4 DEF FanInInv, Carried
    <2>6. Kept(merge[c].primary)
      BY <2>2, RowsStay
    <2> QED BY <2>2, <2>5, <2>6 DEF Kept
  <1> QED BY <1>1, <1>2, RowsStay

\* Merges into profiles that are never merged away themselves, of profiles that
\* are no longer written, lose nothing: not when they interleave with each other
\* and with every other store call, not when statements fail or apply unseen, and
\* not when the process stops between two steps (merger.go, Merge).
THEOREM FanInKeepsIdentity == ASSUME FanIn PROVE MergeSpec => IdentityKept
  <1>1. ASSUME FanInInv, [MergeNext]_vars, NEW f \in Field, NEW k \in Key, Known(f, k)
        PROVE  Known(f, k)'
    BY <1>1, NothingGoes DEF Known
  <1>2. FanInInv /\ [MergeNext]_vars
          => [\A f \in Field, k \in Key : Known(f, k) => Known(f, k)']_vars
    BY <1>1
  <1>3. MergeInit => FanInInv
    BY FanInStart
  <1>4. FanInInv /\ [MergeNext]_vars => FanInInv'
    BY FanInStep
  <1> QED BY <1>2, <1>3, <1>4, PTL DEF MergeSpec, IdentityKept

\* Nor do such merges lose a tag: the only way to lose one is an UpdateTags
\* (merger.go, Merge; store.go, UpdateTags).
THEOREM FanInKeepsTags == ASSUME FanIn PROVE MergeSpec => TagsKept
  <1>1. ASSUME FanInInv, [MergeNext]_vars, NEW t \in Lasting, TagKnown(t)
        PROVE  TagKnown(t)'
    BY <1>1, NothingGoes DEF TagKnown
  <1>2. FanInInv /\ [MergeNext]_vars
          => [\A t \in Lasting : TagKnown(t) => TagKnown(t)']_vars
    BY <1>1
  <1>3. MergeInit => FanInInv
    BY FanInStart
  <1>4. FanInInv /\ [MergeNext]_vars => FanInInv'
    BY FanInStep
  <1> QED BY <1>2, <1>3, <1>4, PTL DEF MergeSpec, TagsKept

-----------------------------------------------------------------------------
(* The events under merges in one direction, with any requests and any rows.   *)

\* A merge that has redirected its secondary's events has left none behind.
Emptied(c) ==
  /\ merge[c].pc # "idle" => <<merge[c].primary, merge[c].secondary>> \in MergePairs
  /\ merge[c].pc = "redirect" => \A e \in Event : events[e] # merge[c].secondary

OrphanInv == CallsOK /\ \A c \in Client : Emptied(c)

\* An event can only come to a profile that is not merged away.
LEMMA EventsMove ==
  ASSUME OneWay, OrphanInv, [MergeNext]_vars, NEW e \in Event
  PROVE  events'[e] = events[e] \/ (events'[e] \in Id /\ ~Secondary(events'[e]))
  <1>0. events \in [Event -> Id \cup {None}]
    BY DEF OrphanInv, CallsOK, MergeTypeOK
  <1>1. ASSUME NEW c \in Client, NEW d \in Event, NEW id \in Written, WriteEvent(c, d, id)
        PROVE  events'[e] = events[e] \/ (events'[e] \in Id /\ ~Secondary(events'[e]))
    BY <1>0, <1>1, MergeAssumption DEF WriteEvent, OneWay
  <1>2. ASSUME NEW c \in Client, RedirectEvents(c)
        PROVE  events'[e] = events[e] \/ (events'[e] \in Id /\ ~Secondary(events'[e]))
    <2>1. <<merge[c].primary, merge[c].secondary>> \in MergePairs
      BY <1>2 DEF OrphanInv, Emptied, RedirectEvents, Reached
    <2>2. merge[c].primary \in Id /\ ~Secondary(merge[c].primary)
      BY <2>1, MergeAssumption DEF OneWay, Secondary
    <2> QED BY <1>0, <1>2, <2>2 DEF RedirectEvents
  <1>3. ASSUME NEW c \in Client,
               \/ GetFails(c) \/ UpsertPrimary(c) \/ DeleteSecondary(c) \/ ContinueAny(c)
               \/ Abandon(c) \/ Serve(c)
               \/ \E pair \in MergePairs : BeginMerge(c, pair[1], pair[2])
        PROVE  UNCHANGED events
    BY <1>3 DEF GetFails, UpsertPrimary, DeleteSecondary, ContinueAny, Abandon, Serve,
                BeginMerge, mergeVars
  <1>4. ASSUME NEW id \in Id, ExpireAny(id) PROVE UNCHANGED events
    BY <1>4 DEF ExpireAny, mergeVars
  <1>5. CASE UNCHANGED vars
    BY <1>5 DEF vars
  <1> QED BY <1>1, <1>2, <1>3, <1>4, <1>5 DEF MergeNext, MergeStep

\* How a merge comes to its next step.
LEMMA EmptiedMove ==
  ASSUME OrphanInv, [MergeNext]_vars, NEW c \in Client
  PROVE  \/ merge'[c] = merge[c] \/ merge'[c] = Idle
         \/ /\ merge'[c].primary = merge[c].primary
            /\ merge'[c].secondary = merge[c].secondary
            /\ merge[c].pc = "get" /\ merge'[c].pc = "upsert"
         \/ /\ merge'[c].primary = merge[c].primary
            /\ merge'[c].secondary = merge[c].secondary
            /\ merge[c].pc = "upsert" /\ merge'[c].pc = "redirect"
            /\ events' = [e \in Event |-> IF events[e] = merge[c].secondary
                                          THEN merge[c].primary ELSE events[e]]
         \/ \E pair \in MergePairs :
              merge'[c] = [pc |-> "get", primary |-> pair[1], secondary |-> pair[2]]
  <1>0. merge \in [Client -> Merges]
    BY DEF OrphanInv, CallsOK, MergeTypeOK
  <1>1. ASSUME NEW d \in Client, Stop(d) PROVE merge'[c] = merge[c] \/ merge'[c] = Idle
    BY <1>0, <1>1 DEF Stop
  <1>2. ASSUME NEW d \in Client, NEW pair \in MergePairs, BeginMerge(d, pair[1], pair[2])
        PROVE  \/ merge'[c] = merge[c]
               \/ merge'[c] = [pc |-> "get", primary |-> pair[1], secondary |-> pair[2]]
    BY <1>0, <1>2 DEF BeginMerge
  <1>3. ASSUME NEW d \in Client, NEW pc \in {"upsert", "redirect"}, Proceed(d, pc)
        PROVE  \/ merge'[c] = merge[c]
               \/ c = d /\ merge'[c].pc = pc /\ merge'[c].primary = merge[c].primary
                  /\ merge'[c].secondary = merge[c].secondary
    BY <1>0, <1>3 DEF Proceed, Merges
  <1>4. ASSUME NEW d \in Client, UpsertPrimary(d)
        PROVE  Stop(d) \/ (merge[d].pc = "get" /\ Proceed(d, "upsert"))
    BY <1>4 DEF UpsertPrimary, Reached
  <1>5. ASSUME NEW d \in Client, RedirectEvents(d)
        PROVE  \/ Stop(d)
               \/ /\ merge[d].pc = "upsert" /\ Proceed(d, "redirect")
                  /\ events' = [e \in Event |-> IF events[e] = merge[d].secondary
                                                THEN merge[d].primary ELSE events[e]]
    BY <1>5 DEF RedirectEvents, Reached
  <1>6. ASSUME NEW d \in Client, GetFails(d) \/ DeleteSecondary(d) \/ Abandon(d)
        PROVE  Stop(d)
    BY <1>6 DEF GetFails, DeleteSecondary, Abandon
  <1>7. ASSUME NEW d \in Client,
               \/ ContinueAny(d) \/ Serve(d)
               \/ \E e \in Event, id \in Written : WriteEvent(d, e, id)
        PROVE  UNCHANGED merge
    BY <1>7 DEF ContinueAny, Serve, WriteEvent, mergeVars
  <1>8. ASSUME NEW id \in Id, ExpireAny(id) PROVE UNCHANGED merge
    BY <1>8 DEF ExpireAny, mergeVars
  <1>9. CASE UNCHANGED vars
    BY <1>9 DEF vars
  <1>10. ASSUME NEW d \in Client, UpsertPrimary(d)
         PROVE  \/ merge'[c] = merge[c] \/ merge'[c] = Idle
                \/ /\ merge'[c].primary = merge[c].primary
                   /\ merge'[c].secondary = merge[c].secondary
                   /\ merge[c].pc = "get" /\ merge'[c].pc = "upsert"
    BY <1>1, <1>3, <1>4, <1>10
  <1>11. ASSUME NEW d \in Client, RedirectEvents(d)
         PROVE  \/ merge'[c] = merge[c] \/ merge'[c] = Idle
                \/ /\ merge'[c].primary = merge[c].primary
                   /\ merge'[c].secondary = merge[c].secondary
                   /\ merge[c].pc = "upsert" /\ merge'[c].pc = "redirect"
                   /\ events' = [e \in Event |-> IF events[e] = merge[c].secondary
                                                 THEN merge[c].primary ELSE events[e]]
    BY <1>1, <1>3, <1>5, <1>11
  <1> QED BY <1>1, <1>2, <1>6, <1>7, <1>8, <1>9, <1>10, <1>11 DEF MergeNext, MergeStep

LEMMA OrphanStep == OneWay /\ OrphanInv /\ [MergeNext]_vars => OrphanInv'
  <1> SUFFICES ASSUME OneWay, OrphanInv, [MergeNext]_vars PROVE OrphanInv'
    OBVIOUS
  <1>1. CallsOK'
    BY MergeTypesStep DEF OrphanInv
  <1>2. ASSUME NEW c \in Client PROVE Emptied(c)'
    <2>1. Emptied(c) /\ events \in [Event -> Id \cup {None}]
      BY DEF OrphanInv, CallsOK, MergeTypeOK
    <2>2. CASE merge'[c] = merge[c]
      <3>1. ASSUME merge[c].pc = "redirect", NEW e \in Event
            PROVE  events'[e] # merge[c].secondary
        BY <2>1, <3>1, EventsMove DEF Emptied, Secondary
      <3> QED BY <2>1, <2>2, <3>1 DEF Emptied
    <2>3. CASE merge'[c] = Idle
      BY <2>3 DEF Emptied, Idle
    <2>4. CASE /\ merge'[c].primary = merge[c].primary
               /\ merge'[c].secondary = merge[c].secondary
               /\ merge[c].pc = "get" /\ merge'[c].pc = "upsert"
      BY <2>1, <2>4 DEF Emptied
    <2>5. CASE /\ merge'[c].primary = merge[c].primary
               /\ merge'[c].secondary = merge[c].secondary
               /\ merge[c].pc = "upsert" /\ merge'[c].pc = "redirect"
               /\ events' = [e \in Event |-> IF events[e] = merge[c].secondary
                                             THEN merge[c].primary ELSE events[e]]
      <3>1. merge[c].primary # merge[c].secondary
        BY <2>1, <2>5 DEF Emptied, OneWay
      <3> QED BY <2>1, <2>5, <3>1 DEF Emptied
    <2>6. ASSUME NEW pair \in MergePairs,
                 merge'[c] = [pc |-> "get", primary |-> pair[1], secondary |-> pair[2]]
          PROVE  Emptied(c)'
      BY <2>6, MergeAssumption DEF Emptied
    <2> QED BY <2>2, <2>3, <2>4, <2>5, <2>6, EmptiedMove
  <1> QED BY <1>1, <1>2 DEF OrphanInv

\* Only the DELETE of a merge takes a row away.
LEMMA RowsDeleted ==
  ASSUME OrphanInv, [MergeNext]_vars, NEW id \in Id, rows[id] # None, rows'[id] = None
  PROVE  \E c \in Client : merge[c].pc = "redirect" /\ merge[c].secondary = id
  <1>0. rows \in [Id -> Row \cup {None}] /\ None \notin Row
    BY NoneAssumption DEF OrphanInv, CallsOK, StoreInv, TypeOK
  <1>1. ASSUME NEW c \in Client, NEW i \in Id, NEW req \in Request,
               UpsertRow(c, i, req) \/ UpsertFails(c, i, req)
        PROVE  FALSE
    <2>1. Upserted(rows[i], req) \in Row
      BY <1>0, UpsertedType
    <2> QED BY <1>0, <1>1, <2>1 DEF UpsertRow, UpsertFails, Commit, CommitUnseen
  <1>2. ASSUME NEW c \in Client, NEW i \in Id, NEW tags \in TagSets, TagRow(c, i, tags)
        PROVE  FALSE
    <2>1. rows[i] # None => Tagged(rows[i], tags) \in Row
      BY <1>0, TaggedType
    <2> QED BY <1>0, <1>2, <2>1 DEF TagRow, Commit
  <1>3. ASSUME NEW c \in Client, Serve(c) PROVE FALSE
    BY <1>1, <1>2, <1>3, StoreAssumption, MergeAssumption DEF Serve, GetCached
  <1>4. ASSUME NEW c \in Client, UpsertPrimary(c) PROVE FALSE
    <2>1. call[c].p \in Profile /\ merge[c].primary \in Id
      BY <1>4 DEF UpsertPrimary, Reached, OrphanInv, CallsOK, StoreInv, TypeOK, Calls
    <2>2. MergeRequest(call[c].p) \in Request
      BY <2>1, MergeRequestType
    <2> QED BY <1>1, <1>4, <2>1, <2>2 DEF UpsertPrimary
  <1>5. ASSUME NEW c \in Client, DeleteSecondary(c)
        PROVE  merge[c].pc = "redirect" /\ merge[c].secondary = id
    BY <1>0, <1>5 DEF DeleteSecondary, CommitUnseen
  <1>6. ASSUME NEW c \in Client,
               \/ GetFails(c) \/ RedirectEvents(c) \/ ContinueAny(c) \/ Abandon(c)
               \/ \E pair \in MergePairs : BeginMerge(c, pair[1], pair[2])
               \/ \E e \in Event, i \in Written : WriteEvent(c, e, i)
        PROVE  UNCHANGED rows
    BY <1>6 DEF GetFails, RedirectEvents, ContinueAny, ContinueCall, LoadRow, SetCache,
                DropCache, Abandon, AbandonCall, BeginMerge, GetCached, WriteEvent, storeVars
  <1>7. ASSUME NEW i \in Id, ExpireAny(i) PROVE UNCHANGED rows
    BY <1>7 DEF ExpireAny, Expire
  <1>8. CASE UNCHANGED vars
    BY <1>8 DEF vars
  <1> QED BY <1>3, <1>4, <1>5, <1>6, <1>7, <1>8 DEF MergeNext, MergeStep

\* When profiles are merged in one direction only and nothing more is written for
\* those that are merged away, no event is left with a deleted profile, whatever
\* overlaps, fails or stops half-way (merger.go, redirectEvents and the DELETE).
THEOREM MergesOrphanNothing == ASSUME OneWay PROVE MergeSpec => NoEventOrphaned
  <1>1. ASSUME OrphanInv, [MergeNext]_vars, NEW id \in Id, NEW e \in Event,
               rows[id] # None /\ events[e] = id
        PROVE  rows'[id] # None
    BY <1>1, RowsDeleted DEF OrphanInv, Emptied
  <1>2. OrphanInv /\ [MergeNext]_vars
          => [\A id \in Id, e \in Event :
                rows[id] # None /\ events[e] = id => rows'[id] # None]_vars
    BY <1>1
  <1>3. MergeInit => OrphanInv
    BY MergeTypesStart DEF MergeInit, Idle, OrphanInv, Emptied
  <1>4. OrphanInv /\ [MergeNext]_vars => OrphanInv'
    BY OrphanStep
  <1> QED BY <1>2, <1>3, <1>4, PTL DEF MergeSpec, NoEventOrphaned
=============================================================================
