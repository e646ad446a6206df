----------------------------- MODULE ProfileData -----------------------------
(***************************************************************************)
(* A profile in the forms the service gives it: the Go request and struct  *)
(* (maps that may be nil), the PostgreSQL row (jsonb columns) and what     *)
(* upsertSQL makes of a row and a request.                                 *)
(*                                                                         *)
(* A JSON column is abstracted to its kind and, for an object, its keys    *)
(* and values.  Arrays appear only because jsonb || jsonb builds them from *)
(* operands that are not both objects; what they hold is never read back,  *)
(* so all of them are one value.                                           *)
(*                                                                         *)
(* A nil and an empty tag list are the same set here: SQL NULL keeps the   *)
(* row's tags and '{}' adds nothing to them.                               *)
(***************************************************************************)
CONSTANTS
  Field,         \* the jsonb columns: external_ids, attributes, traits
  Key, Val,      \* the keys and values of the maps
  Tag,           \* tags
  ScalarConcat,  \* jsonb || accepts an object with a null (PostgreSQL 14 on)
  None           \* no row, no cache entry, no result

Object == UNION {[S -> Val] : S \in SUBSET Key}
NoKeys == [k \in {} |-> k]

GoMap == [kind : {"map", "nil"}, map : Object]
Json  == [kind : {"object", "null", "array"}, map : Object]

\* UpsertRequest, and the Profile struct (the same maps and tags).
Request == [docs : [Field -> GoMap], tags : SUBSET Tag]
Profile == [docs : [Field -> GoMap], tags : SUBSET Tag]

\* A row of cdp_profiles.
Row == [docs : [Field -> Json], tags : SUBSET Tag]

ASSUME ScalarConcatAssumption == ScalarConcat \in BOOLEAN
ASSUME NoneAssumption == None \notin Row /\ None \notin Profile

-----------------------------------------------------------------------------
\* json.Marshal of a map: a nil map becomes the JSON value null.
Marshal(g) ==
  IF g.kind = "nil" THEN [kind |-> "null",   map |-> NoKeys]
                    ELSE [kind |-> "object", map |-> g.map]

\* Mutant: the raw column is taken as it is.
UnmarshalRaw(j) == j

\* json.Unmarshal into a map, its error ignored: only an object is read back.
Unmarshal(j) ==
  IF j.kind = "object" THEN [kind |-> "map", map |-> j.map]
                       ELSE [kind |-> "nil", map |-> NoKeys]

\* PostgreSQL before 14 rejects object || scalar and scalar || object.
Concatenable(old, new) ==
  \/ ScalarConcat
  \/ old.kind = "array"
  \/ (old.kind = "object") <=> (new.kind = "object")

\* The union of two objects, the values of m winning.
Overlay(m, n) ==
  [k \in DOMAIN m \cup DOMAIN n |-> IF k \in DOMAIN m THEN m[k] ELSE n[k]]

\* Mutant: the column is overwritten, not merged.
ConcatReplaces(old, new) == new

\* jsonb || jsonb: the union of two objects, the right one winning; any other
\* pair of operands is turned into arrays and appended.
Concat(old, new) ==
  IF old.kind = "object" /\ new.kind = "object"
  THEN [kind |-> "object", map |-> Overlay(new.map, old.map)]
  ELSE [kind |-> "array",  map |-> NoKeys]

-----------------------------------------------------------------------------
\* The conflict arm of upsertSQL can be evaluated.
UpsertAccepted(row, req) ==
  row # None => \A f \in Field : Concatenable(row.docs[f], Marshal(req.docs[f]))

\* The row that upsertSQL leaves: inserted, or merged into the existing one.
Upserted(row, req) ==
  IF row = None
  THEN [docs |-> [f \in Field |-> Marshal(req.docs[f])],
        tags |-> req.tags]
  ELSE [docs |-> [f \in Field |-> Concat(row.docs[f], Marshal(req.docs[f]))],
        tags |-> row.tags \cup req.tags]

\* The row that the UPDATE of UpdateTags leaves.
Tagged(row, tags) == [row EXCEPT !.tags = tags]

\* scanProfile, on no row as well.
Scan(row) ==
  IF row = None
  THEN None
  ELSE [docs |-> [f \in Field |-> Unmarshal(row.docs[f])], tags |-> row.tags]

\* The keys of column f that a reader of the row sees.
Keys(row, f) == IF row = None THEN {} ELSE DOMAIN Unmarshal(row.docs[f]).map

\* And the tags.
TagsOf(row) == IF row = None THEN {} ELSE row.tags

=============================================================================
