-------------------------------- MODULE Mapper --------------------------------
(***************************************************************************)
(* internal/ingestion/mapper.go and profile.GenerateCanonicalID: what the  *)
(* mapper of each topic takes out of a message, and the canonical id that  *)
(* its external ids get.                                                   *)
(*                                                                         *)
(* A message that is JSON is its external ids, as far as the fields are    *)
(* there, its source, its event type and its tags.  Times are left out.    *)
(* SHA-256 is taken to be injective: a canonical id is the text hashed.    *)
(***************************************************************************)
EXTENDS ProfileData, Naturals, Sequences

CONSTANTS
  ExternalIDs, Attributes, Traits,           \* fields
  Uid, Idfa, Gaid,                           \* keys of external_ids
  KeyOrder,                                  \* the keys, as sort.Strings orders them
  LastAdSource, InstallSource, HasPurchase,  \* keys of attributes and of traits
  Spelling,                                  \* the values that are strings -> their characters
  True, Empty                                \* the values true and ""

\* One for each mapper; a topic has one of them.
Kinds == {"events", "installs", "billing", "tags"}

ASSUME MapperAssumption ==
  /\ {ExternalIDs, Attributes, Traits} \subseteq Field
  /\ KeyOrder \in Seq(Key)
  /\ \A i, j \in DOMAIN KeyOrder : KeyOrder[i] = KeyOrder[j] => i = j
  /\ {Uid, Idfa, Gaid} \subseteq {KeyOrder[i] : i \in DOMAIN KeyOrder}
  /\ DOMAIN Spelling \subseteq Val /\ {True, Empty} \subseteq Val
  /\ Empty \in DOMAIN Spelling /\ True \notin DOMAIN Spelling
  /\ Spelling \in [DOMAIN Spelling -> Seq(STRING)]
  /\ \A v, w \in DOMAIN Spelling : Spelling[v] = Spelling[w] => v = w

\* Mutant: the values without their keys.
GenerateCanonicalIDOfValues(ids) ==
  LET joined[i \in 0 .. Len(KeyOrder)] ==
        IF i = 0 THEN <<>>
        ELSE LET k == KeyOrder[i] IN
             IF k \notin DOMAIN ids THEN joined[i - 1]
             ELSE (IF joined[i - 1] = <<>> THEN <<>> ELSE joined[i - 1] \o <<"&">>)
                    \o Spelling[ids[k]]
  IN joined[Len(KeyOrder)]

\* GenerateCanonicalID: key=value of every external id, in the order of the keys and
\* joined with &.  Nobody escapes an = or & in a value.
GenerateCanonicalID(ids) ==
  LET joined[i \in 0 .. Len(KeyOrder)] ==
        IF i = 0 THEN <<>>
        ELSE LET k == KeyOrder[i] IN
             IF k \notin DOMAIN ids THEN joined[i - 1]
             ELSE (IF joined[i - 1] = <<>> THEN <<>> ELSE joined[i - 1] \o <<"&">>)
                    \o <<k, "=">> \o Spelling[ids[k]]
  IN joined[Len(KeyOrder)]

-----------------------------------------------------------------------------
\* strField: what is not a string reads as empty.
Text(v) == IF v \in DOMAIN Spelling THEN v ELSE Empty

\* The external ids among the keys ks that the message has.
IdsIn(raw, ks) ==
  LET given == {k \in ks \cap DOMAIN raw.ids : Text(raw.ids[k]) # Empty} IN
  [k \in given |-> raw.ids[k]]

GoMapOf(m) == [kind |-> "map", map |-> m]
NilMap     == [kind |-> "nil", map |-> NoKeys]

Entry(k, v) == [key \in {k} |-> v]

\* A request that sets external_ids and the column f; the other maps stay nil.
RequestFor(ids, f, m, tags) ==
  [docs |-> [g \in Field |-> IF g = ExternalIDs THEN GoMapOf(ids)
                             ELSE IF g = f THEN GoMapOf(m) ELSE NilMap],
   tags |-> tags]

Mapped(ids, req, event) == [id |-> GenerateCanonicalID(ids), req |-> req, event |-> event]

mapAdEvent(raw) ==
  LET ids == IdsIn(raw, {Uid, Idfa, Gaid}) IN
  Mapped(ids, RequestFor(ids, Attributes, Entry(LastAdSource, Text(raw.source)), {}),
         raw.type)

mapMMPInstall(raw) ==
  LET ids == IdsIn(raw, {Idfa, Gaid}) IN
  Mapped(ids, RequestFor(ids, Traits, Entry(InstallSource, Text(raw.source)), {}),
         "install")

mapBillingTx(raw) ==
  LET ids == IdsIn(raw, {Uid}) IN
  Mapped(ids, RequestFor(ids, Traits, Entry(HasPurchase, True), {}), "purchase")

\* No event.
mapDMPTags(raw) ==
  LET ids == IdsIn(raw, {Uid}) IN
  Mapped(ids, RequestFor(ids, None, NoKeys, raw.tags), None)

Map(kind, raw) ==
  CASE kind = "events"   -> mapAdEvent(raw)
    [] kind = "installs" -> mapMMPInstall(raw)
    [] kind = "billing"  -> mapBillingTx(raw)
    [] kind = "tags"     -> mapDMPTags(raw)

=============================================================================
