----------------------------- MODULE ProfileMerge -----------------------------
(***************************************************************************)
(* internal/profile/merger.go on top of ProfileStore: Merger.Merge runs    *)
(* GetByCanonicalID, Upsert, an UPDATE of cdp_events and a DELETE of       *)
(* cdp_profiles, one after the other and in no transaction, while other    *)
(* clients read, upsert and tag profiles and write events.                 *)
(*                                                                         *)
(* Merge of a profile with itself is GetByCanonicalID and nothing else, so *)
(* it is the GetCached that every client may start.                        *)
(***************************************************************************)
EXTENDS ProfileStore

CONSTANTS
  ExternalIDs,  \* the field external_ids, which Merge copies into a new map
  MergePairs,   \* <<primary, secondary>>: the merges that clients ask for
  Written,      \* the ids that clients upsert, tag and write events for
  Event,        \* rows of cdp_events
  StoredEvents  \* their canonical_id at the start, None for a row written later

ASSUME MergeAssumption ==
  /\ ExternalIDs \in Field
  /\ MergePairs \subseteq Id \X Id
  /\ Written \subseteq Id
  /\ StoredEvents \in [Event -> Id \cup {None}]

VARIABLES
  merge,  \* client -> the merge it is running
  events  \* event -> the canonical_id it carries, None before it is written

mergeVars == <<merge, events>>
vars == <<rows, cache, call, raced, merge, events>>

(***************************************************************************)
(* A merge is in the step that it has entered and, except for "redirect",  *)
(* that its store call completes: "get" reads the secondary, "upsert" adds *)
(* it to the primary, "redirect" has moved the secondary's events.         *)
(***************************************************************************)
Merges == [pc : {"idle", "get", "upsert", "redirect"},
           primary : Id \cup {None}, secondary : Id \cup {None}]

Idle == [pc |-> "idle", primary |-> None, secondary |-> None]

MergeTypeOK ==
  /\ TypeOK
  /\ merge \in [Client -> Merges]
  /\ events \in [Event -> Id \cup {None}]

MergeInit ==
  /\ StoreInit
  /\ merge = [c \in Client |-> Idle]
  /\ events = StoredEvents

Proceed(c, pc) == merge' = [merge EXCEPT ![c].pc = pc]
Stop(c)        == merge' = [merge EXCEPT ![c] = Idle]

\* Merge is in this step and waits for nothing.
Reached(c, pc) == merge[c].pc = pc /\ call[c].pc = "ready"

\* Mutant: the tags are left out.
MergeRequestUntagged(p) ==
  [docs |-> [p.docs EXCEPT ![ExternalIDs] = [kind |-> "map", map |-> @.map]], tags |-> {}]

\* The request that Merge makes of the secondary: external_ids in a map of its
\* own, never nil; the other maps and the tags as they were read.
MergeRequest(p) ==
  [docs |-> [p.docs EXCEPT ![ExternalIDs] = [kind |-> "map", map |-> @.map]],
   tags |-> p.tags]

-----------------------------------------------------------------------------
\* Merge starts: the cache lookup of its GetByCanonicalID.
BeginMerge(c, primary, secondary) ==
  /\ merge[c] = Idle
  /\ primary # secondary
  /\ GetCached(c, secondary)
  /\ merge' = [merge EXCEPT ![c] =
                 [pc |-> "get", primary |-> primary, secondary |-> secondary]]
  /\ UNCHANGED events

\* "get secondary" failed: not found, or an error.
GetFails(c) ==
  /\ Reached(c, "get")
  /\ call[c].p = None
  /\ Stop(c)
  /\ UNCHANGED <<storeVars, events>>

\* Mutant: Merge goes on although its Upsert failed.
UpsertPrimaryRegardless(c) ==
  /\ Reached(c, "get")
  /\ call[c].p # None
  /\ LET req == MergeRequest(call[c].p) IN
     \/ UpsertRow(c, merge[c].primary, req)
     \/ UpsertFails(c, merge[c].primary, req)
  /\ Proceed(c, "upsert")
  /\ UNCHANGED events

\* Upsert of the secondary's data into the primary.
UpsertPrimary(c) ==
  /\ Reached(c, "get")
  /\ call[c].p # None
  /\ LET req == MergeRequest(call[c].p) IN
     \/ UpsertRow(c, merge[c].primary, req) /\ Proceed(c, "upsert")
     \/ UpsertFails(c, merge[c].primary, req) /\ Stop(c)
  /\ UNCHANGED events

\* Mutant: the events stay with the secondary.
RedirectNothing(c) ==
  Reached(c, "upsert") /\ Proceed(c, "redirect") /\ UNCHANGED <<storeVars, events>>

\* redirectEvents: one UPDATE, which may fail, applied or not.
RedirectEvents(c) ==
  /\ Reached(c, "upsert")
  /\ LET redirected == [e \in Event |-> IF events[e] = merge[c].secondary
                                        THEN merge[c].primary ELSE events[e]] IN
     \/ events' = redirected /\ Proceed(c, "redirect")
     \/ "db" \in Faults /\ events' \in {events, redirected} /\ Stop(c)
  /\ UNCHANGED storeVars

\* DELETE of the secondary: the cache is not told.  No step follows, so a DELETE
\* applied behind an error leaves the same state.
DeleteSecondary(c) ==
  /\ merge[c].pc = "redirect"
  /\ \/ CommitUnseen(merge[c].secondary, None)
     \/ "db" \in Faults /\ UNCHANGED <<rows, raced>>
  /\ Stop(c)
  /\ UNCHANGED <<cache, call, events>>

\* The store call that a client is in goes on.
ContinueAny(c) == ContinueCall(c) /\ UNCHANGED mergeVars

\* A client stops for good between two steps of a call or of a merge.
Abandon(c) ==
  /\ "crash" \in Faults
  /\ \/ AbandonCall(c)
     \/ merge[c] # Idle /\ call[c].pc = "ready" /\ UNCHANGED storeVars
  /\ Stop(c)
  /\ UNCHANGED events

\* A client that does not merge uses the store.
Serve(c) ==
  /\ merge[c] = Idle
  /\ \/ \E id \in Id : GetCached(c, id)
     \/ \E id \in Written :
          \/ \E req \in Requests : UpsertRow(c, id, req) \/ UpsertFails(c, id, req)
          \/ \E tags \in TagSets : TagRow(c, id, tags)
  /\ UNCHANGED mergeVars

\* WriteEvent: one INSERT, whether the canonical id is known or not; the failed one
\* that is not applied changes nothing.
WriteEvent(c, e, id) ==
  /\ merge[c] = Idle /\ call[c].pc = "ready"
  /\ events[e] = None
  /\ events' = [events EXCEPT ![e] = id]
  /\ UNCHANGED <<storeVars, merge>>

ExpireAny(id) == Expire(id) /\ UNCHANGED mergeVars

-----------------------------------------------------------------------------
MergeStep(c) ==
  \/ \E pair \in MergePairs : BeginMerge(c, pair[1], pair[2])
  \/ GetFails(c) \/ UpsertPrimary(c) \/ RedirectEvents(c) \/ DeleteSecondary(c)

MergeNext ==
  \/ \E c \in Client :
       \/ MergeStep(c) \/ ContinueAny(c) \/ Abandon(c) \/ Serve(c)
       \/ \E e \in Event, id \in Written : WriteEvent(c, e, id)
  \/ \E id \in Id : ExpireAny(id)

MergeSpec == MergeInit /\ [][MergeNext]_vars

-----------------------------------------------------------------------------
\* Key k of column f is in some profile.
Known(f, k) == \E id \in Id : k \in Keys(rows[id], f)

\* A merge moves data and loses none: whatever is known of a user stays in some
\* profile, although the secondary's is deleted (merger.go, Merge).
IdentityKept ==
  [][\A f \in Field, k \in Key : Known(f, k) => Known(f, k)']_vars

\* The tags that no UpdateTags takes away.
Lasting == {t \in Tag : \A tags \in TagSets : t \in tags}

\* A profile that is there has the tag.
TagKnown(t) == \E id \in Id : t \in TagsOf(rows[id])

\* Only UpdateTags, which overwrites the list, ever takes a tag away from a user:
\* upserts add, and a merge carries the secondary's tags over before it deletes it
\* (merger.go, Merge; store.go, upsertSQL and UpdateTags).
TagsKept == [][\A t \in Lasting : TagKnown(t) => TagKnown(t)']_vars

\* A profile is deleted only once every event it had belongs to another one, also
\* when a redirect fails half-way or two merges overlap (merger.go, redirectEvents
\* before the DELETE).
NoEventOrphaned ==
  [][\A id \in Id, e \in Event :
       rows[id] # None /\ events[e] = id => rows'[id] # None]_vars

=============================================================================
