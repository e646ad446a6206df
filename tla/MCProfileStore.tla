--------------------------- MODULE MCProfileStore ---------------------------
(* Small instances of ProfileStore: the requests that its callers build. *)
EXTENDS ProfileStore, TLC

GoMapOf(m) == [kind |-> "map", map |-> m]
NilMap     == [kind |-> "nil", map |-> NoKeys]

\* The topic mappers: one map is set and the others stay nil (mapAdEvent sets
\* attributes, mapMMPInstall and mapBillingTx traits), or only tags (mapDMPTags).
OneMap(f, k, v) ==
  [docs |-> [g \in Field |-> IF g = f THEN GoMapOf(k :> v) ELSE NilMap], tags |-> {}]
OnlyTags(ts) == [docs |-> [g \in Field |-> NilMap], tags |-> ts]

MapperRequests == {OneMap(f, k, v) : f \in Field, k \in Key, v \in Val}
                    \cup {OnlyTags({t}) : t \in Tag}

\* Requests without a nil map, as an HTTP body may spell them out.
FullRequests ==
  {[docs |-> [g \in Field |-> GoMapOf(m)], tags |-> ts] :
     m \in {NoKeys} \cup {k :> v : k \in Key, v \in Val}, ts \in SUBSET Tag}

AllRequests == MapperRequests \cup FullRequests

\* What executeTag and the enricher hand to UpdateTags.
OneTag == {{t} : t \in Tag}

NoRows == [id \in Id |-> None]

NoFaults  == {}
AllFaults == {"db", "redis", "crash"}
=============================================================================
