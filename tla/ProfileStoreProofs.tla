-------------------------- MODULE ProfileStoreProofs --------------------------
(* Theorems about ProfileStore, for every value of its constants. *)
EXTENDS ProfileStore, DataLemmas, TLAPS

-----------------------------------------------------------------------------
(* The inductive invariant: a call in progress names a profile, what a client *)
(* is about to cache is fresh, and so is the cache when nobody is writing.    *)

CallsNameIds == \A c \in Client : call[c].pc # "ready" => call[c].id \in Id

StoreInv == TypeOK /\ CallsNameIds /\ HeldFreshUnlessRaced /\ CoherentUnlessRaced

\* How a step may move the call of one client.
LEMMA GotoType ==
  ASSUME TypeOK, CallsNameIds, NEW c \in Client, NEW pc \in CallState,
         NEW id \in Id \cup {None}, NEW p \in Profile \cup {None},
         Goto(c, pc, id, p), pc # "ready" => id \in Id
  PROVE  /\ call' \in [Client -> Calls]
         /\ call'[c] = [pc |-> pc, id |-> id, p |-> p]
         /\ \A d \in Client \ {c} : call'[d] = call[d]
         /\ CallsNameIds'
  BY DEF TypeOK, CallsNameIds, Goto, Calls

\* A row that a statement writes is typed, and so is the history it leaves.
LEMMA CommitType ==
  ASSUME TypeOK, NEW id \in Id, NEW row \in Row \cup {None}, NEW c \in Client,
         Commit(c, id, row)
  PROVE  rows' \in [Id -> Row \cup {None}] /\ raced' \subseteq Id
  BY DEF TypeOK, Commit

\* Evicting an entry keeps the cache and the history typed.
LEMMA EvictType ==
  ASSUME TypeOK, NEW id \in Id, Evict(id)
  PROVE  cache' \in [Id -> Profile \cup {None}] /\ raced' \subseteq Id
  BY DEF TypeOK, Evict

\* The statement of a client: it was at rest and now holds, or has to drop, id.
LEMMA CommitInv ==
  ASSUME StoreInv, NEW c \in Client, NEW id \in Id, NEW row \in Row \cup {None},
         NEW pc \in {"publish", "drop"}, NEW q \in Profile \cup {None},
         call[c].pc = "ready", Commit(c, id, row), Goto(c, pc, id, q),
         pc = "publish" => q = Scan(row), UNCHANGED cache
  PROVE  StoreInv'
  <1>1. /\ call' \in [Client -> Calls]
        /\ call'[c] = [pc |-> pc, id |-> id, p |-> q]
        /\ \A d \in Client \ {c} : call'[d] = call[d]
        /\ CallsNameIds'
    BY GotoType DEF StoreInv, CallState
  <1>2. TypeOK'
    BY <1>1, CommitType DEF StoreInv, TypeOK
  <1>3. HeldFreshUnlessRaced'
    <2> SUFFICES ASSUME NEW d \in Client, NEW i \in Id, i \notin raced', Holds(d, i)'
                 PROVE  call'[d].p = Scan(rows'[i])
      BY DEF HeldFreshUnlessRaced
    <2>1. CASE d = c
      BY <1>1, <2>1 DEF Holds, At, Commit, StoreInv, TypeOK
    <2>2. CASE d # c
      <3>1. call'[d] = call[d] /\ Holds(d, i)
        BY <1>1, <2>2 DEF Holds, At
      <3>2. i \notin raced /\ rows'[i] = rows[i]
        BY <2>2, <3>1 DEF Commit, StoreInv, TypeOK
      <3> QED BY <3>1, <3>2 DEF StoreInv, HeldFreshUnlessRaced
    <2> QED BY <2>1, <2>2
  <1>4. CoherentUnlessRaced'
    <2> SUFFICES ASSUME NEW i \in Id, i \notin raced', AtRest(i)'
                 PROVE  Coherent(i)'
      BY DEF CoherentUnlessRaced
    <2>1. i # id
      BY <1>1 DEF AtRest, Writing, At
    <2>2. i \notin raced /\ rows'[i] = rows[i] /\ cache'[i] = cache[i]
      BY <2>1 DEF Commit, StoreInv, TypeOK
    <2>3. AtRest(i)
      BY <1>1, <2>1 DEF AtRest, Writing, At
    <2> QED BY <2>2, <2>3 DEF StoreInv, CoherentUnlessRaced, Coherent
  <1> QED BY <1>1, <1>2, <1>3, <1>4 DEF StoreInv

\* A step that leaves rows and the cache alone, and whose client neither was nor
\* is writing, unless it gives its profile up.
LEMMA ReadInv ==
  ASSUME StoreInv, NEW c \in Client, NEW pc \in {"ready", "load", "fill"},
         NEW id \in Id \cup {None}, NEW p \in Profile \cup {None},
         pc # "ready" => id \in Id, Goto(c, pc, id, p),
         pc = "fill" => p = Scan(rows[id]),
         UNCHANGED <<rows, cache>>,
         raced' = raced \cup {i \in Id : Writing(c, i)}
  PROVE  StoreInv'
  <1>1. /\ call' \in [Client -> Calls]
        /\ call'[c] = [pc |-> pc, id |-> id, p |-> p]
        /\ \A d \in Client \ {c} : call'[d] = call[d]
        /\ CallsNameIds'
    BY GotoType DEF StoreInv, CallState
  <1>2. TypeOK'
    BY <1>1 DEF StoreInv, TypeOK
  <1>3. HeldFreshUnlessRaced'
    BY <1>1 DEF StoreInv, HeldFreshUnlessRaced, Holds, At
  <1>4. CoherentUnlessRaced'
    BY <1>1 DEF StoreInv, CoherentUnlessRaced, Coherent, AtRest, Writing, At
  <1> QED BY <1>1, <1>2, <1>3, <1>4 DEF StoreInv

\* A row replaced, or deleted, behind the cache's back, by a statement whose
\* caller does nothing more about it.
LEMMA CommitUnseenInv ==
  ASSUME StoreInv, NEW id \in Id, NEW row \in Row \cup {None}, CommitUnseen(id, row),
         UNCHANGED cache, call' \in [Client -> Calls], CallsNameIds',
         \A d \in Client : call'[d] = call[d] \/ (call[d].pc = "ready" /\ call'[d].pc = "ready")
  PROVE  StoreInv'
  <1>1. TypeOK'
    <2>1. rows' \in [Id -> Row \cup {None}] /\ raced' \subseteq Id
      BY DEF StoreInv, TypeOK, CommitUnseen
    <2> QED BY <2>1 DEF StoreInv, TypeOK
  <1>2. \A i \in Id : i \notin raced' => i \notin raced /\ rows'[i] = rows[i]
    BY DEF CommitUnseen, StoreInv, TypeOK
  <1>3. HeldFreshUnlessRaced'
    BY <1>2 DEF StoreInv, HeldFreshUnlessRaced, Holds, At
  <1>4. CoherentUnlessRaced'
    BY <1>2 DEF StoreInv, CoherentUnlessRaced, Coherent, AtRest, Writing, At
  <1> QED BY <1>1, <1>3, <1>4 DEF StoreInv

\* The entry of a profile goes, by DropCache or Expire; the calls of the others
\* stay as they were, and nobody comes to hold or to write a profile.
LEMMA EvictInv ==
  ASSUME StoreInv, NEW id \in Id, Evict(id), UNCHANGED rows,
         call' \in [Client -> Calls], CallsNameIds',
         \A d \in Client : call'[d] = call[d]
                             \/ (At(d, "drop", id) /\ call'[d].pc = "ready")
  PROVE  StoreInv'
  <1>1. TypeOK'
    BY EvictType DEF StoreInv, TypeOK
  <1>2. \A d \in Client, i \in Id : Holds(d, i)' => Holds(d, i) /\ call'[d] = call[d]
    BY DEF Holds, At
  <1>3. \A i \in Id : i # id => (i \in raced' <=> i \in raced) /\ cache'[i] = cache[i]
    BY DEF Evict, StoreInv, TypeOK
  <1>4. cache'[id] = None
    BY DEF Evict, StoreInv, TypeOK
  <1>5. HeldFreshUnlessRaced'
    <2> SUFFICES ASSUME NEW d \in Client, NEW i \in Id, i \notin raced', Holds(d, i)'
                 PROVE  call'[d].p = Scan(rows'[i])
      BY DEF HeldFreshUnlessRaced
    <2>1. Holds(d, i) /\ call'[d] = call[d]
      BY <1>2
    <2>2. i \notin raced
      BY <1>3, <2>1 DEF Evict
    <2> QED BY <2>1, <2>2 DEF StoreInv, HeldFreshUnlessRaced
  <1>6. CoherentUnlessRaced'
    <2> SUFFICES ASSUME NEW i \in Id, i \notin raced', AtRest(i)'
                 PROVE  Coherent(i)'
      BY DEF CoherentUnlessRaced
    <2>1. CASE i = id
      BY <1>4, <2>1 DEF Coherent
    <2>2. CASE i # id
      <3>1. AtRest(i)
        BY <2>2 DEF AtRest, Writing, At
      <3> QED BY <1>3, <2>2, <3>1 DEF StoreInv, CoherentUnlessRaced, Coherent
    <2> QED BY <2>1, <2>2
  <1> QED BY <1>1, <1>5, <1>6 DEF StoreInv

\* A profile that is still fresh reaches the cache.
LEMMA SetInv ==
  ASSUME StoreInv, NEW c \in Client, call[c].pc \in {"fill", "publish"},
         cache' = [cache EXCEPT ![call[c].id] = call[c].p],
         Return(c, call[c].p), UNCHANGED <<rows, raced>>
  PROVE  StoreInv'
  <1>1. call[c].id \in Id /\ call[c].p \in Profile \cup {None}
    BY DEF StoreInv, CallsNameIds, TypeOK, Calls
  <1>2. /\ call' \in [Client -> Calls]
        /\ call'[c] = [pc |-> "ready", id |-> None, p |-> call[c].p]
        /\ \A d \in Client \ {c} : call'[d] = call[d]
        /\ CallsNameIds'
    BY <1>1, GotoType DEF StoreInv, CallState, Return
  <1>3. TypeOK'
    BY <1>1, <1>2 DEF StoreInv, TypeOK
  <1>4. HeldFreshUnlessRaced'
    BY <1>2 DEF StoreInv, HeldFreshUnlessRaced, Holds, At
  <1>5. CoherentUnlessRaced'
    <2> SUFFICES ASSUME NEW i \in Id, i \notin raced, AtRest(i)'
                 PROVE  Coherent(i)'
      BY DEF CoherentUnlessRaced
    <2>1. CASE i = call[c].id
      <3>1. call[c].p = Scan(rows[i])
        BY <2>1 DEF StoreInv, HeldFreshUnlessRaced, Holds, At
      <3>2. cache'[i] = call[c].p
        BY <1>1, <2>1 DEF StoreInv, TypeOK
      <3> QED BY <3>1, <3>2 DEF Coherent
    <2>2. CASE i # call[c].id
      <3>1. AtRest(i)
        BY <1>2, <2>2 DEF AtRest, Writing, At
      <3>2. cache'[i] = cache[i]
        BY <2>2 DEF StoreInv, TypeOK
      <3> QED BY <3>1, <3>2 DEF StoreInv, CoherentUnlessRaced, Coherent
    <2> QED BY <2>1, <2>2
  <1> QED BY <1>2, <1>3, <1>4, <1>5 DEF StoreInv

-----------------------------------------------------------------------------
\* What the statements of Upsert and UpdateTags leave is a row.
LEMMA TaggedType ==
  ASSUME NEW row \in Row, NEW tags \in TagSets
  PROVE  Tagged(row, tags) \in Row
  BY StoreAssumption DEF Row, Tagged

\* The statement of Upsert keeps the inductive invariant, for any request.
LEMMA UpsertRowInv ==
  ASSUME StoreInv, NEW c \in Client, NEW id \in Id, NEW req \in Request,
         UpsertRow(c, id, req)
  PROVE  StoreInv'
  <1>1. Upserted(rows[id], req) \in Row
    BY UpsertedType DEF StoreInv, TypeOK
  <1> QED BY <1>1, ScanType, CommitInv DEF UpsertRow

\* So does an Upsert that fails, applied or not.
LEMMA UpsertFailsInv ==
  ASSUME StoreInv, NEW c \in Client, NEW id \in Id, NEW req \in Request,
         UpsertFails(c, id, req)
  PROVE  StoreInv'
  <1>1. Upserted(rows[id], req) \in Row
    BY UpsertedType DEF StoreInv, TypeOK
  <1>2. CASE UNCHANGED <<rows, raced>>
    BY <1>2, ReadInv DEF UpsertFails, Return, Writing, At
  <1>3. CASE CommitUnseen(id, Upserted(rows[id], req))
    <2>1. /\ call' \in [Client -> Calls]
          /\ call'[c] = [pc |-> "ready", id |-> None, p |-> None]
          /\ \A d \in Client \ {c} : call'[d] = call[d]
          /\ CallsNameIds'
      BY GotoType DEF UpsertFails, Return, StoreInv, CallState
    <2> QED BY <1>1, <1>3, <2>1, CommitUnseenInv DEF UpsertFails
  <1> QED BY <1>2, <1>3 DEF UpsertFails

\* Every step of the store keeps the inductive invariant.
LEMMA StoreStep == StoreInv /\ [StoreNext]_storeVars => StoreInv'
  <1> SUFFICES ASSUME StoreInv, [StoreNext]_storeVars PROVE StoreInv'
    OBVIOUS
  <1> USE DEF CallState
  <1>1. ASSUME NEW c \in Client, NEW id \in Id, NEW req \in Requests,
               UpsertRow(c, id, req)
        PROVE  StoreInv'
    BY <1>1, UpsertRowInv, StoreAssumption
  <1>2. ASSUME NEW c \in Client, NEW id \in Id, NEW req \in Requests,
               UpsertFails(c, id, req)
        PROVE  StoreInv'
    BY <1>2, UpsertFailsInv, StoreAssumption
  <1>3. ASSUME NEW c \in Client, NEW id \in Id, GetCached(c, id)
        PROVE  StoreInv'
    <2>1. cache[id] \in Profile \cup {None}
      BY DEF StoreInv, TypeOK
    <2> QED BY <1>3, <2>1, ReadInv DEF GetCached, Return, Writing, At
  <1>4. ASSUME NEW c \in Client, LoadRow(c)
        PROVE  StoreInv'
    <2>1. call[c].id \in Id
      BY <1>4 DEF LoadRow, StoreInv, CallsNameIds
    <2>2. Scan(rows[call[c].id]) \in Profile \cup {None}
      BY <2>1, ScanType DEF StoreInv, TypeOK
    <2> QED BY <1>4, <2>1, <2>2, ReadInv DEF LoadRow, Return, Writing, At
  <1>5. ASSUME NEW c \in Client, SetCache(c)
        PROVE  StoreInv'
    <2>1. call[c].id \in Id /\ call[c].p \in Profile \cup {None}
      BY <1>5 DEF SetCache, StoreInv, CallsNameIds, TypeOK, Calls
    <2>2. CASE /\ cache' = [cache EXCEPT ![call[c].id] = call[c].p]
               /\ UNCHANGED raced
      BY <1>5, <2>2, SetInv DEF SetCache
    <2>3. CASE /\ raced' = IF call[c].pc = "publish" THEN raced \cup {call[c].id}
                                                     ELSE raced
               /\ UNCHANGED cache
      <3>1. call[c].pc \in {"fill", "publish"} /\ Return(c, call[c].p) /\ UNCHANGED rows
        BY <1>5 DEF SetCache
      <3>2. raced' = raced \cup {i \in Id : Writing(c, i)}
        BY <2>1, <2>3, <3>1 DEF Writing, At
      <3> QED BY <2>1, <2>3, <3>1, <3>2, ReadInv DEF Return
    <2> QED BY <1>5, <2>2, <2>3 DEF SetCache
  <1>6. ASSUME NEW c \in Client, NEW id \in Id, NEW tags \in TagSets,
               TagRow(c, id, tags)
        PROVE  StoreInv'
    <2>1. CASE rows[id] # None /\ Commit(c, id, Tagged(rows[id], tags))
      <3>1. Tagged(rows[id], tags) \in Row
        BY <2>1, TaggedType DEF StoreInv, TypeOK
      <3> QED BY <1>6, <2>1, <3>1, CommitInv DEF TagRow
    <2>2. CASE UNCHANGED <<rows, raced>>
      <3>1. Commit(c, id, rows[id])
        BY <2>2 DEF Commit, StoreInv, TypeOK
      <3>2. rows[id] \in Row \cup {None}
        BY DEF StoreInv, TypeOK
      <3> QED BY <1>6, <3>1, <3>2, CommitInv DEF TagRow
    <2> QED BY <1>6, <2>1, <2>2 DEF TagRow
  <1>7. ASSUME NEW c \in Client, DropCache(c)
        PROVE  StoreInv'
    <2>1. call[c].id \in Id
      BY <1>7 DEF DropCache, StoreInv, CallsNameIds
    <2>2. CASE Evict(call[c].id)
      <3>1. /\ call' \in [Client -> Calls]
            /\ call'[c] = [pc |-> "ready", id |-> None, p |-> None]
            /\ \A d \in Client \ {c} : call'[d] = call[d]
            /\ CallsNameIds'
        BY <1>7, GotoType DEF DropCache, Return, StoreInv
      <3>2. At(c, "drop", call[c].id)
        BY <1>7 DEF DropCache, At
      <3> QED BY <1>7, <2>1, <2>2, <3>1, <3>2, EvictInv DEF DropCache
    <2>3. CASE raced' = raced \cup {call[c].id} /\ UNCHANGED cache
      BY <1>7, <2>1, <2>3, ReadInv DEF DropCache, Return, Writing, At
    <2> QED BY <1>7, <2>2, <2>3 DEF DropCache
  <1>8. ASSUME NEW id \in Id, Expire(id)
        PROVE  StoreInv'
    BY <1>8, EvictInv DEF Expire, StoreInv, TypeOK, CallsNameIds
  <1>9. ASSUME NEW c \in Client, AbandonCall(c)
        PROVE  StoreInv'
    BY <1>9, ReadInv DEF AbandonCall, Return
  <1>10. CASE UNCHANGED storeVars
    BY <1>10 DEF storeVars, StoreInv, TypeOK, CallsNameIds, HeldFreshUnlessRaced,
                 CoherentUnlessRaced, Coherent, AtRest, Writing, Holds, At
  <1> QED BY <1>1, <1>2, <1>3, <1>4, <1>5, <1>6, <1>7, <1>8, <1>9, <1>10
          DEF StoreNext, StartCall, ContinueCall

LEMMA StoreStart == StoreInit => StoreInv
  <1> SUFFICES ASSUME StoreInit PROVE StoreInv
    OBVIOUS
  <1>1. TypeOK /\ CallsNameIds
    BY StoreAssumption DEF StoreInit, TypeOK, CallsNameIds, Calls, CallState
  <1>2. HeldFreshUnlessRaced /\ CoherentUnlessRaced
    BY DEF StoreInit, HeldFreshUnlessRaced, CoherentUnlessRaced, Coherent,
           Holds, At
  <1> QED BY <1>1, <1>2 DEF StoreInv

\* The inductive invariant holds throughout.
LEMMA StoreInvariant == StoreSpec => []StoreInv
  BY StoreStart, StoreStep, PTL DEF StoreSpec

\* The tables, the cache and the calls keep to their types.
THEOREM StoreTypeCorrect == StoreSpec => []TypeOK
  BY StoreInvariant, PTL DEF StoreInv

\* The cache agrees with the table once the writes of a profile have reached it,
\* unless a race or a fault spoiled the entry: any number of clients, profiles and
\* requests, either PostgreSQL, all faults (store.go, Upsert to UpdateTags).
THEOREM CacheCoherent == StoreSpec => []CoherentUnlessRaced
  BY StoreInvariant, PTL DEF StoreInv

\* What a goroutine has read and is about to cache is the row, under the same exception
\* (store.go, Upsert and GetByCanonicalID).
THEOREM HeldIsFresh == StoreSpec => []HeldFreshUnlessRaced
  BY StoreInvariant, PTL DEF StoreInv

-----------------------------------------------------------------------------
(* What jsonb || makes of a column, and with it the one way to lose a key.    *)

AllObjects(row) == row # None => \A f \in Field : row.docs[f].kind = "object"

AllMaps(req) == \A f \in Field : req.docs[f].kind = "map"

\* A request's map and a column that is an object: the keys of both are in the
\* object that an upsert leaves, whatever the other columns and maps are.
LEMMA UpsertMergesColumn ==
  ASSUME NEW row \in Row, NEW req \in Request, NEW f \in Field,
         row.docs[f].kind = "object", req.docs[f].kind = "map"
  PROVE  /\ Upserted(row, req).docs[f].kind = "object"
         /\ Keys(row, f) \cup DOMAIN req.docs[f].map \subseteq Keys(Upserted(row, req), f)
  <1> DEFINE new == Upserted(row, req)
  <1>1. row # None /\ new # None
    BY UpsertedType, NoneAssumption
  <1>2. Marshal(req.docs[f]).kind = "object" /\ Marshal(req.docs[f]).map = req.docs[f].map
    BY DEF Marshal
  <1>3. new.docs[f] = Concat(row.docs[f], Marshal(req.docs[f]))
    BY <1>1 DEF Upserted
  <1>4. /\ Keys(row, f) = DOMAIN row.docs[f].map
        /\ new.docs[f].kind = "object" => Keys(new, f) = DOMAIN new.docs[f].map
    BY <1>1 DEF Keys, Unmarshal
  <1> HIDE DEF new
  <1>5. /\ new.docs[f].kind = "object"
        /\ new.docs[f].map = Overlay(req.docs[f].map, row.docs[f].map)
    BY <1>2, <1>3 DEF Concat
  <1>6. DOMAIN new.docs[f].map = DOMAIN req.docs[f].map \cup DOMAIN row.docs[f].map
    BY <1>5 DEF Overlay
  <1> QED BY <1>4, <1>5, <1>6 DEF new

\* An upsert whose maps are all set keeps a row of objects one, with the keys of
\* the row and of the request in it; an insert does as well.
LEMMA UpsertKeepsKeys ==
  ASSUME NEW row \in Row \cup {None}, AllObjects(row), NEW req \in Request, AllMaps(req)
  PROVE  /\ AllObjects(Upserted(row, req))
         /\ \A f \in Field :
              Keys(row, f) \cup DOMAIN req.docs[f].map \subseteq Keys(Upserted(row, req), f)
  <1> DEFINE new == Upserted(row, req)
  <1>1. new # None
    BY UpsertedType, NoneAssumption
  <1>2. CASE row = None
    <2>1. ASSUME NEW f \in Field
          PROVE  /\ new.docs[f].kind = "object"
                 /\ new.docs[f].map = req.docs[f].map
      BY <1>2, <2>1 DEF Upserted, AllMaps, Marshal
    <2> QED BY <1>1, <1>2, <2>1 DEF AllObjects, Keys, Unmarshal
  <1>3. CASE row # None
    BY <1>3, UpsertMergesColumn DEF AllObjects, AllMaps
  <1> QED BY <1>2, <1>3

\* Row after row, a step of the store leaves a row alone, lets a request be
\* merged into it or inserted, or retags it.
LEMMA RowsStep ==
  ASSUME StoreInv, [StoreNext]_storeVars, NEW id \in Id
  PROVE  \/ rows'[id] = rows[id]
         \/ \E req \in Requests : /\ UpsertAccepted(rows[id], req)
                                  /\ rows'[id] = Upserted(rows[id], req)
         \/ rows[id] # None /\ \E tags \in TagSets : rows'[id] = Tagged(rows[id], tags)
  <1>1. CASE UNCHANGED rows
    BY <1>1
  <1>2. ASSUME NEW i \in Id, NEW row, rows' = [rows EXCEPT ![i] = row]
        PROVE  rows'[id] = IF i = id THEN row ELSE rows[id]
    BY <1>2 DEF StoreInv, TypeOK
  <1>3. CASE \E i \in Id, req \in Requests :
               /\ UpsertAccepted(rows[i], req)
               /\ rows' = [rows EXCEPT ![i] = Upserted(rows[i], req)]
    BY <1>2, <1>3
  <1>4. CASE \E i \in Id, tags \in TagSets :
               rows[i] # None /\ rows' = [rows EXCEPT ![i] = Tagged(rows[i], tags)]
    BY <1>2, <1>4
  <1> QED BY <1>1, <1>3, <1>4
          DEF StoreNext, StartCall, ContinueCall, UpsertRow, UpsertFails, GetCached,
              LoadRow, SetCache, TagRow, DropCache, Expire, AbandonCall, Commit,
              CommitUnseen, storeVars

\* A stored key disappears only from a column that a nil map is written to, and
\* only where PostgreSQL accepts object || null: whatever the requests are, and
\* whatever interleaves, fails and crashes (store.go, upsertSQL and UpdateTags).
THEOREM OnlyNilLosesKeys == StoreSpec => KeysLostToNil
  <1>1. ASSUME StoreInv, [StoreNext]_storeVars, NEW id \in Id, NEW f \in Field
        PROVE  \/ Keys(rows[id], f) \subseteq Keys(rows'[id], f)
               \/ ScalarConcat /\ \E req \in Requests :
                    req.docs[f].kind = "nil" /\ rows'[id] = Upserted(rows[id], req)
    <2> USE <1>1
    <2>1. CASE rows'[id] = rows[id]
      BY <2>1
    <2>2. CASE Keys(rows[id], f) = {}
      BY <2>2
    <2>3. ASSUME Keys(rows[id], f) # {}
          PROVE  rows[id] \in Row /\ rows[id].docs[f].kind = "object"
      BY <2>3 DEF Keys, Unmarshal, NoKeys, StoreInv, TypeOK
    <2>4. ASSUME NEW req \in Requests, UpsertAccepted(rows[id], req),
                 rows'[id] = Upserted(rows[id], req), Keys(rows[id], f) # {}
          PROVE  \/ Keys(rows[id], f) \subseteq Keys(rows'[id], f)
                 \/ ScalarConcat /\ req.docs[f].kind = "nil"
      <3>1. req \in Request /\ rows[id] \in Row /\ rows[id].docs[f].kind = "object"
        BY <2>3, <2>4, StoreAssumption
      <3>2. CASE req.docs[f].kind = "map"
        BY <2>4, <3>1, <3>2, UpsertMergesColumn
      <3>3. CASE req.docs[f].kind # "map"
        <4>1. req.docs[f].kind = "nil"
          BY <3>1, <3>3 DEF Request, GoMap
        <4>2. Marshal(req.docs[f]).kind = "null"
          BY <4>1 DEF Marshal
        <4>3. Concatenable(rows[id].docs[f], Marshal(req.docs[f]))
          BY <2>4, <3>1, NoneAssumption DEF UpsertAccepted
        <4> QED BY <3>1, <4>1, <4>2, <4>3 DEF Concatenable
      <3> QED BY <3>2, <3>3
    <2>5. ASSUME NEW tags \in TagSets, rows[id] # None, rows'[id] = Tagged(rows[id], tags)
          PROVE  Keys(rows'[id], f) = Keys(rows[id], f)
      <3>1. rows[id] \in Row
        BY <2>5 DEF StoreInv, TypeOK
      <3>2. rows'[id].docs = rows[id].docs /\ rows'[id] # None
        BY <2>5, <3>1, TaggedType, NoneAssumption DEF Tagged, Row
      <3> QED BY <2>5, <3>2 DEF Keys
    <2> QED BY <2>1, <2>2, <2>4, <2>5, RowsStep
  <1>2. StoreInv /\ [StoreNext]_storeVars
          => [\A id \in Id, f \in Field :
                \/ Keys(rows[id], f) \subseteq Keys(rows'[id], f)
                \/ ScalarConcat /\ \E req \in Requests :
                     req.docs[f].kind = "nil"
                       /\ rows'[id] = Upserted(rows[id], req)]_storeVars
    BY <1>1
  <1> QED BY <1>2, StoreInvariant, PTL DEF StoreSpec, KeysLostToNil
=============================================================================
