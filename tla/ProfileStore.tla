----------------------------- MODULE ProfileStore -----------------------------
(***************************************************************************)
(* internal/profile: pgStore with its PostgreSQL table cdp_profiles and    *)
(* its Redis cache.  A client is a goroutine (an HTTP handler, a Kafka     *)
(* consumer, a journey) that makes one store call at a time.  Each SQL     *)
(* statement and each Redis command is one atomic step, and the steps of   *)
(* different clients interleave; nothing in the code orders a client's     *)
(* statement with its own later cache command.                             *)
(*                                                                         *)
(* Faults selects what may go wrong:                                       *)
(*   "db"     a statement fails, applied or not (a lost answer, ctx done); *)
(*   "redis"  a cache command fails; the code ignores its error;           *)
(*   "crash"  the client's process stops, or its request is abandoned,     *)
(*            between two steps.                                           *)
(***************************************************************************)
EXTENDS ProfileData

CONSTANTS
  Client,    \* goroutines that use the store
  Id,        \* canonical ids
  Stored,    \* the rows that earlier runs left in the table
  Requests,  \* the upsert requests the clients make
  TagSets,   \* the tag lists given to UpdateTags
  Faults     \* SUBSET {"db", "redis", "crash"}

ASSUME StoreAssumption ==
  /\ Stored \in [Id -> Row \cup {None}]
  /\ Requests \subseteq Request
  /\ TagSets \subseteq SUBSET Tag

VARIABLES
  rows,   \* cdp_profiles: canonical id -> row or None
  cache,  \* redis "cdp:profile:<id>": canonical id -> profile or None
  call,   \* client -> where its store call stands
  raced   \* history: ids whose cache entry a race or a fault may have spoiled

storeVars == <<rows, cache, call, raced>>

(***************************************************************************)
(* A call is "ready" (returned; p is its result), or is about to run       *)
(*   "load"     the SELECT of GetByCanonicalID, after a cache miss;        *)
(*   "fill"     the SET of the row that the SELECT read;                   *)
(*   "publish"  the SET of the row that Upsert wrote;                      *)
(*   "drop"     the DEL of UpdateTags.                                     *)
(***************************************************************************)
CallState == {"ready", "load", "fill", "publish", "drop"}

Calls == [pc : CallState, id : Id \cup {None}, p : Profile \cup {None}]

At(c, pc, id) == call[c].pc = pc /\ call[c].id = id

Goto(c, pc, id, p) == call' = [call EXCEPT ![c] = [pc |-> pc, id |-> id, p |-> p]]

Return(c, p) == Goto(c, "ready", None, p)

\* Client c holds a profile of id that it has read but not yet cached.
Holds(c, id) == At(c, "fill", id) \/ At(c, "publish", id)

\* Client c has changed the row of id but not yet the cache.
Writing(c, id) == At(c, "publish", id) \/ At(c, "drop", id)

TypeOK ==
  /\ rows \in [Id -> Row \cup {None}]
  /\ cache \in [Id -> Profile \cup {None}]
  /\ call \in [Client -> Calls]
  /\ raced \subseteq Id

StoreInit ==
  /\ rows = Stored
  /\ cache = [id \in Id |-> None]
  /\ call = [c \in Client |-> [pc |-> "ready", id |-> None, p |-> None]]
  /\ raced = {}

-----------------------------------------------------------------------------
\* Client c's statement leaves row in place of id's: a race if another client
\* is about to cache what it replaces.
Commit(c, id, row) ==
  /\ rows' = [rows EXCEPT ![id] = row]
  /\ raced' = IF row # rows[id] /\ \E d \in Client \ {c} : Holds(d, id)
              THEN raced \cup {id}
              ELSE raced

\* A statement applied although its caller got an error and stops there.
CommitUnseen(id, row) ==
  /\ rows' = [rows EXCEPT ![id] = row]
  /\ raced' = IF row # rows[id] THEN raced \cup {id} ELSE raced

\* The entry of id goes; what was spoiled is gone, unless someone can refill
\* it from an older read.
Evict(id) ==
  /\ cache' = [cache EXCEPT ![id] = None]
  /\ raced' = IF \E d \in Client : Holds(d, id) THEN raced ELSE raced \ {id}

-----------------------------------------------------------------------------
\* Mutant: Upsert hands out the row as it was before.
UpsertRowReturnsOld(c, id, req) ==
  /\ call[c].pc = "ready"
  /\ UpsertAccepted(rows[id], req)
  /\ Commit(c, id, Upserted(rows[id], req))
  /\ Goto(c, "publish", id, Scan(rows[id]))
  /\ UNCHANGED cache

\* Mutant: Upsert leaves the cache alone.
UpsertRowUncached(c, id, req) ==
  /\ call[c].pc = "ready"
  /\ UpsertAccepted(rows[id], req)
  /\ Commit(c, id, Upserted(rows[id], req))
  /\ Return(c, Scan(Upserted(rows[id], req)))
  /\ UNCHANGED cache

\* Upsert, the INSERT ... ON CONFLICT ... RETURNING statement.
UpsertRow(c, id, req) ==
  /\ call[c].pc = "ready"
  /\ UpsertAccepted(rows[id], req)
  /\ Commit(c, id, Upserted(rows[id], req))
  /\ Goto(c, "publish", id, Scan(Upserted(rows[id], req)))
  /\ UNCHANGED cache

\* Upsert returns an error: the statement is rejected, or it fails.
UpsertFails(c, id, req) ==
  /\ call[c].pc = "ready"
  /\ \/ /\ ~UpsertAccepted(rows[id], req) \/ "db" \in Faults
        /\ UNCHANGED <<rows, raced>>
     \/ /\ "db" \in Faults /\ UpsertAccepted(rows[id], req)
        /\ CommitUnseen(id, Upserted(rows[id], req))
  /\ Return(c, None)
  /\ UNCHANGED cache

\* GetByCanonicalID, the cache lookup: a hit returns, anything else reads on.
GetCached(c, id) ==
  /\ call[c].pc = "ready"
  /\ \/ cache[id] # None /\ Return(c, cache[id])
     \/ /\ cache[id] = None \/ "redis" \in Faults
        /\ Goto(c, "load", id, None)
  /\ UNCHANGED <<rows, cache, raced>>

\* GetByCanonicalID, the SELECT: ErrNotFound and other errors return no profile.
LoadRow(c) ==
  /\ call[c].pc = "load"
  /\ LET id == call[c].id IN
     \/ rows[id] # None /\ Goto(c, "fill", id, Scan(rows[id]))
     \/ (rows[id] = None \/ "db" \in Faults) /\ Return(c, None)
  /\ UNCHANGED <<rows, cache, raced>>

\* cache.set at the end of GetByCanonicalID and Upsert, its error ignored.
SetCache(c) ==
  /\ call[c].pc \in {"fill", "publish"}
  /\ LET id == call[c].id IN
     \/ /\ cache' = [cache EXCEPT ![id] = call[c].p]
        /\ UNCHANGED raced
     \/ /\ "redis" \in Faults
        /\ raced' = IF call[c].pc = "publish" THEN raced \cup {id} ELSE raced
        /\ UNCHANGED cache
  /\ Return(c, call[c].p)
  /\ UNCHANGED rows

\* Mutant: UpdateTags forgets cache.del.
TagRowKeepsCache(c, id, tags) ==
  /\ call[c].pc = "ready"
  /\ \/ /\ rows[id] # None
        /\ Commit(c, id, Tagged(rows[id], tags))
     \/ /\ rows[id] = None \/ "db" \in Faults
        /\ UNCHANGED <<rows, raced>>
  /\ Return(c, None)
  /\ UNCHANGED cache

\* UpdateTags, the UPDATE: no row, no effect; an error does not stop the call.
TagRow(c, id, tags) ==
  /\ call[c].pc = "ready"
  /\ \/ /\ rows[id] # None
        /\ Commit(c, id, Tagged(rows[id], tags))
     \/ /\ rows[id] = None \/ "db" \in Faults
        /\ UNCHANGED <<rows, raced>>
  /\ Goto(c, "drop", id, None)
  /\ UNCHANGED cache

\* UpdateTags, cache.del: run whether or not the UPDATE failed, error ignored.
DropCache(c) ==
  /\ call[c].pc = "drop"
  /\ LET id == call[c].id IN
     \/ Evict(id)
     \/ /\ "redis" \in Faults
        /\ raced' = raced \cup {id}
        /\ UNCHANGED cache
  /\ Return(c, None)
  /\ UNCHANGED rows

\* Mutant: entries are set without a TTL.
ExpireNever(id) == FALSE /\ Evict(id) /\ UNCHANGED <<rows, call>>

\* The entry's ten minutes are over.
Expire(id) ==
  /\ cache[id] # None
  /\ Evict(id)
  /\ UNCHANGED <<rows, call>>

\* The process of c stops, or its request is cancelled, in the middle of a call.
AbandonCall(c) ==
  /\ "crash" \in Faults
  /\ call[c].pc # "ready"
  /\ raced' = raced \cup {id \in Id : Writing(c, id)}
  /\ Return(c, None)
  /\ UNCHANGED <<rows, cache>>

-----------------------------------------------------------------------------
StartCall(c) ==
  \E id \in Id :
    \/ \E req \in Requests : UpsertRow(c, id, req) \/ UpsertFails(c, id, req)
    \/ GetCached(c, id)
    \/ \E tags \in TagSets : TagRow(c, id, tags)

ContinueCall(c) == LoadRow(c) \/ SetCache(c) \/ DropCache(c)

StoreNext ==
  \/ \E c \in Client : StartCall(c) \/ ContinueCall(c) \/ AbandonCall(c)
  \/ \E id \in Id : Expire(id)

StoreSpec == StoreInit /\ [][StoreNext]_storeVars

\* A goroutine that has started a call goes on with it, the driver's time-outs
\* see to that; Redis expires every entry.  Nobody has to start a call.
FairStoreSpec ==
  /\ StoreSpec
  /\ \A c \in Client : WF_storeVars(ContinueCall(c))
  /\ \A id \in Id : WF_storeVars(Expire(id))

-----------------------------------------------------------------------------
\* The cache has nothing of id, or what the table has.
Coherent(id) == cache[id] \in {None, Scan(rows[id])}

AtRest(id) == \A c \in Client : ~ Writing(c, id)

\* What a client is about to cache is what the table has, unless the row was
\* changed behind its back (the p of store.go, Upsert and GetByCanonicalID).
HeldFreshUnlessRaced ==
  \A c \in Client, id \in Id :
    id \notin raced /\ Holds(c, id) => call[c].p = Scan(rows[id])

\* Once every write of a profile has reached the cache too, the cache agrees
\* with the table, unless since the entry was last evicted a row changed under
\* a client that was about to cache an older read of it, a cache command of a
\* writer failed, or a writer was cut off before it (store.go, Upsert,
\* GetByCanonicalID, UpdateTags).
CoherentUnlessRaced == \A id \in Id : id \notin raced /\ AtRest(id) => Coherent(id)

\* No store call makes a key of a stored map disappear: the maps of an
\* UpsertRequest are merged into the stored ones (store.go, UpsertRequest).
KeysKept ==
  [][\A id \in Id, f \in Field :
       rows'[id] # None => Keys(rows[id], f) \subseteq Keys(rows'[id], f)]_storeVars

\* A key of a stored map is lost only where PostgreSQL takes object || null, and
\* then only from a column whose map is nil in the request that writes it; no
\* interleaving, failure or crash of Upsert and UpdateTags loses one otherwise
\* (store.go, upsertSQL: each column is merged on its own).
KeysLostToNil ==
  [][\A id \in Id, f \in Field :
       \/ Keys(rows[id], f) \subseteq Keys(rows'[id], f)
       \/ ScalarConcat /\ \E req \in Requests :
            req.docs[f].kind = "nil" /\ rows'[id] = Upserted(rows[id], req)]_storeVars

\* If the rows stop changing, readers get the current profiles from some time
\* on, whatever races and faults came before: nothing refreshes an entry's TTL.
EventuallyCoherent ==
  \A id \in Id : <>[][rows'[id] = rows[id]]_storeVars => <>[]Coherent(id)

=============================================================================
