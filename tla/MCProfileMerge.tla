--------------------------- MODULE MCProfileMerge ---------------------------
(* Small instances of ProfileMerge. *)
EXTENDS MCProfileStore, ProfileMerge

CONSTANTS a, b, c, k1, k2, v1, e1, e2  \* profiles, keys, a value and events

Object1(m) == [kind |-> "object", map |-> m]
Tagged1(m) == [docs |-> [f \in Field |-> Object1(m)], tags |-> Tag]
RowOf(m)   == [docs |-> [f \in Field |-> Object1(m)], tags |-> {}]

\* a is a bare profile, b and c know something of the same user, b's tags as well.
ThreeDevices == a :> RowOf(NoKeys) @@ b :> Tagged1(k1 :> v1) @@ c :> RowOf(k2 :> v1)
TwoDevices   == a :> RowOf(k1 :> v1) @@ b :> RowOf(k2 :> v1)

\* Both devices are merged into a; or any profile into any other.
FanIn    == {<<a, b>>, <<a, c>>}
AllPairs == {<<p, s>> \in Id \X Id : p # s}

OnlyA == {a}

\* What clients upsert while merges run.
SetKey(k) == {[docs |-> [f \in Field |-> GoMapOf(k :> v1)], tags |-> Tag]}
SetK1     == SetKey(k1)
NoTags    == {}

\* b has an event; another one is written later.
OldEvent == e1 :> b @@ e2 :> None
NoEvents == [e \in Event |-> None]
=============================================================================
