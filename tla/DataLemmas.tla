------------------------------ MODULE DataLemmas ------------------------------
(***************************************************************************)
(* Lemmas that the other proof modules share: least elements, functions    *)
(* defined by recursion on a rank, and the conversions of ProfileData.     *)
(***************************************************************************)
EXTENDS ProfileData, Naturals, WellFoundedInduction, TLAPS

\* A set of natural numbers has a least element.
LEMMA Least ==
  ASSUME NEW S, S \subseteq Nat, S # {}
  PROVE  \E n \in S : \A m \in S : n <= m
  <1> DEFINE R == {ss \in Nat \X Nat : ss[1] < ss[2]}
  <1>1. IsWellFoundedOn(OpToRel(<, Nat), Nat)
    BY NatLessThanWellFounded
  <1>2. IsWellFoundedOn(R, Nat)
    BY <1>1 DEF OpToRel
  <1>3. \A m, n \in Nat : m < n => <<m, n>> \in R
    OBVIOUS
  <1> HIDE DEF R
  <1>4. PICK n \in S : \A m \in S : <<m, n>> \notin R
    BY <1>2, WFMin
  <1>5. \A m \in S : m \in Nat /\ n \in Nat /\ ~ (m < n)
    BY <1>3, <1>4
  <1> QED BY <1>5

\* What has a rank has an element of least rank: induction, for the provers at hand.
LEMMA LeastOfRank ==
  ASSUME NEW S, NEW rank \in [S -> Nat], NEW B, B \subseteq S, B # {}
  PROVE  \E x \in B : \A y \in S : rank[y] < rank[x] => y \notin B
  <1> DEFINE N == {n \in Nat : \E x \in B : rank[x] = n}
  <1>1. N \subseteq Nat /\ N # {} /\ \A x \in B : rank[x] \in N
    OBVIOUS
  <1>2. PICK n \in N : \A m \in N : n <= m
    <2> HIDE DEF N
    <2> QED BY <1>1, Least
  <1>3. PICK x \in B : rank[x] = n
    OBVIOUS
  <1>4. ASSUME NEW y \in S, rank[y] < rank[x] PROVE y \notin B
    <2>1. rank[y] \in Nat /\ n \in Nat /\ ~ (n <= rank[y])
      BY <1>3, <1>4
    <2> HIDE DEF N
    <2> QED BY <1>1, <1>2, <2>1
  <1> QED BY <1>4

\* D turns a function from S to V into the one that the right-hand side of a recursive
\* definition gives, which at x looks at what has a lower rank only.
Descends(D, S, V, rank) ==
  /\ D \in [[S -> V] -> [S -> V]] /\ rank \in [S -> Nat]
  /\ \A g, h \in [S -> V], x \in S :
       (\A y \in S : rank[y] < rank[x] => g[y] = h[y]) => D[g][x] = D[h][x]

\* A definition by recursion on a rank has a solution.
LEMMA Recursion ==
  ASSUME NEW S, NEW V, NEW v0 \in V, NEW rank, NEW D, Descends(D, S, V, rank)
  PROVE  \E f \in [S -> V] : f = D[f]
  <1>0. /\ D \in [[S -> V] -> [S -> V]] /\ rank \in [S -> Nat]
        /\ \A g, h \in [S -> V], x \in S :
             (\A y \in S : rank[y] < rank[x] => g[y] = h[y]) => D[g][x] = D[h][x]
    BY DEF Descends
  <1> DEFINE Upto(n, g) == \A x \in S : rank[x] < n => g[x] = D[g][x]
  <1>1. \A n \in Nat : \E g \in [S -> V] : Upto(n, g)
    <2> DEFINE Bad == {n \in Nat : ~ \E g \in [S -> V] : Upto(n, g)}
    <2>1. SUFFICES ASSUME Bad # {} PROVE FALSE
      OBVIOUS
    <2>2. PICK n \in Bad : \A m \in Bad : n <= m
      <3>1. Bad \subseteq Nat
        OBVIOUS
      <3> HIDE DEF Bad
      <3> QED BY <2>1, <3>1, Least
    <2>3. n # 0
      <3>1. [x \in S |-> v0] \in [S -> V] /\ Upto(0, [x \in S |-> v0])
        BY <1>0
      <3>2. n \in Nat /\ ~ \E g \in [S -> V] : Upto(n, g)
        OBVIOUS
      <3> HIDE DEF Upto
      <3> QED BY <3>1, <3>2
    <2>4. n - 1 \in Nat /\ n - 1 \notin Bad
      BY <2>2, <2>3
    <2>5. PICK g \in [S -> V] : Upto(n - 1, g)
      BY <2>4
    <2>6. D[g] \in [S -> V]
      BY <1>0
    <2>7. ASSUME NEW x \in S, rank[x] < n PROVE D[g][x] = D[D[g]][x]
      <3>1. \A y \in S : rank[y] < rank[x] => g[y] = D[g][y]
        BY <1>0, <2>2, <2>5, <2>7
      <3> QED BY <1>0, <2>6, <3>1
    <2> QED BY <2>2, <2>6, <2>7
  \* Below its bound, such a function is unique.
  <1>2. ASSUME NEW n \in Nat, NEW g \in [S -> V], NEW h \in [S -> V], Upto(n, g), Upto(n, h)
        PROVE  \A x \in S : rank[x] < n => g[x] = h[x]
    <2> DEFINE Bad == {x \in S : rank[x] < n /\ g[x] # h[x]}
    <2>1. SUFFICES ASSUME Bad # {} PROVE FALSE
      OBVIOUS
    <2>2. PICK x \in Bad : \A y \in S : rank[y] < rank[x] => y \notin Bad
      <3>1. Bad \subseteq S
        OBVIOUS
      <3> HIDE DEF Bad
      <3> QED BY <1>0, <2>1, <3>1, LeastOfRank
    <2>3. \A y \in S : rank[y] < rank[x] => g[y] = h[y]
      BY <1>0, <2>2
    <2> QED BY <1>0, <1>2, <2>2, <2>3
  <1> DEFINE G(n) == CHOOSE g \in [S -> V] : Upto(n, g)
             f == [x \in S |-> G(rank[x] + 1)[x]]
  <1>3. \A n \in Nat : G(n) \in [S -> V] /\ Upto(n, G(n))
    <2> HIDE DEF Upto
    <2> QED BY <1>1
  <1>4. f \in [S -> V]
    <2> HIDE DEF G
    <2> QED BY <1>0, <1>3
  <1>5. ASSUME NEW x \in S PROVE f[x] = D[f][x]
    <2>1. PICK g \in [S -> V] : g = G(rank[x] + 1) /\ Upto(rank[x] + 1, g)
      <3> HIDE DEF G, Upto
      <3> QED BY <1>0, <1>3
    <2>2. g[x] = D[g][x]
      BY <1>0, <2>1
    <2>3. ASSUME NEW y \in S, rank[y] < rank[x] PROVE f[y] = g[y]
      <3>1. PICK h \in [S -> V] : h = G(rank[y] + 1) /\ Upto(rank[y] + 1, h)
        <4> HIDE DEF G, Upto
        <4> QED BY <1>0, <1>3
      <3>2. Upto(rank[y] + 1, g)
        BY <1>0, <2>1, <2>3
      <3>3. h[y] = g[y]
        <4> HIDE DEF Upto
        <4> QED BY <1>0, <1>2, <3>1, <3>2
      <3>4. f[y] = h[y]
        <4> HIDE DEF G
        <4> QED BY <3>1
      <3> QED BY <3>3, <3>4
    <2>4. f[x] = g[x]
      <3> HIDE DEF G
      <3> QED BY <2>1
    <2>5. D[f][x] = D[g][x]
      <3> HIDE DEF f
      <3> QED BY <1>0, <1>4, <2>3
    <2> HIDE DEF f
    <2> QED BY <2>2, <2>4, <2>5
  <1> HIDE DEF f
  <1> QED BY <1>0, <1>4, <1>5

-----------------------------------------------------------------------------
\* json.Marshal of a request's map is a JSON column.
LEMMA MarshalType == ASSUME NEW g \in GoMap PROVE Marshal(g) \in Json
  <1>1. NoKeys \in Object
    BY DEF NoKeys, Object
  <1> QED BY <1>1 DEF Marshal, GoMap, Json

\* json.Unmarshal of a JSON column is a Go map, perhaps nil.
LEMMA UnmarshalType == ASSUME NEW j \in Json PROVE Unmarshal(j) \in GoMap
  <1>1. NoKeys \in Object
    BY DEF NoKeys, Object
  <1> QED BY <1>1 DEF Unmarshal, GoMap, Json

\* The union of two objects is an object, with the keys of both.
LEMMA OverlayType ==
  ASSUME NEW m \in Object, NEW n \in Object
  PROVE  /\ Overlay(m, n) \in Object
         /\ DOMAIN (Overlay(m, n)) = DOMAIN m \cup DOMAIN n
  <1>1. PICK S \in SUBSET Key, T \in SUBSET Key : m \in [S -> Val] /\ n \in [T -> Val]
    BY DEF Object
  <1>2. Overlay(m, n) \in [S \cup T -> Val]
    BY <1>1 DEF Overlay
  <1>3. S \cup T \in SUBSET Key
    OBVIOUS
  <1> QED BY <1>1, <1>2, <1>3 DEF Object

\* jsonb || jsonb is a JSON column.
LEMMA ConcatType ==
  ASSUME NEW old \in Json, NEW new \in Json PROVE Concat(old, new) \in Json
  <1>1. NoKeys \in Object
    BY DEF NoKeys, Object
  <1>2. Overlay(new.map, old.map) \in Object
    BY OverlayType DEF Json
  <1> QED BY <1>1, <1>2 DEF Concat, Json

\* upsertSQL leaves a row.
LEMMA UpsertedType ==
  ASSUME NEW row \in Row \cup {None}, NEW req \in Request
  PROVE  Upserted(row, req) \in Row
  <1>1. \A f \in Field : Marshal(req.docs[f]) \in Json
    BY MarshalType DEF Request
  <1>2. CASE row = None
    BY <1>1, <1>2 DEF Upserted, Row, Request
  <1>3. CASE row # None
    <2>1. \A f \in Field : Concat(row.docs[f], Marshal(req.docs[f])) \in Json
      BY <1>1, <1>3, ConcatType DEF Row
    <2>2. row.tags \cup req.tags \in SUBSET Tag
      BY <1>3 DEF Row, Request
    <2> QED BY <1>3, <2>1, <2>2 DEF Upserted, Row
  <1> QED BY <1>2, <1>3

\* scanProfile gives a profile for a row, and nothing for no row.
LEMMA ScanType ==
  /\ Scan(None) = None
  /\ \A row \in Row : Scan(row) \in Profile
  <1>1. ASSUME NEW row \in Row PROVE Scan(row) \in Profile
    <2>1. row # None
      BY NoneAssumption
    <2>2. \A f \in Field : Unmarshal(row.docs[f]) \in GoMap
      BY UnmarshalType DEF Row
    <2> QED BY <2>1, <2>2 DEF Scan, Row, Profile
  <1> QED BY <1>1 DEF Scan

\* A column that the same map is concatenated to twice reads as after the first time.
LEMMA ConcatAgain ==
  ASSUME NEW old \in Json, NEW g \in GoMap
  PROVE  /\ Unmarshal(Concat(Concat(old, Marshal(g)), Marshal(g)))
              = Unmarshal(Concat(old, Marshal(g)))
         /\ Unmarshal(Concat(Marshal(g), Marshal(g))) = Unmarshal(Marshal(g))
         /\ Concatenable(old, Marshal(g)) => Concatenable(Concat(old, Marshal(g)), Marshal(g))
         /\ Concatenable(Marshal(g), Marshal(g))
  <1>1. CASE g.kind = "nil"
    <2>1. Marshal(g).kind = "null" /\ Marshal(g).kind # "object"
      BY <1>1 DEF Marshal
    <2>2. \A j : Concat(j, Marshal(g)) = [kind |-> "array", map |-> NoKeys]
      BY <2>1 DEF Concat
    <2> QED BY <2>1, <2>2 DEF Unmarshal, Concatenable
  <1>2. CASE g.kind # "nil"
    <2> DEFINE m == g.map
               new == [kind |-> "object", map |-> m]
    <2>1. Marshal(g) = new
      BY <1>2 DEF Marshal
    <2>2. m = [k \in DOMAIN m |-> m[k]]
      BY DEF GoMap, Object
    <2>3. Overlay(m, m) = m
      BY <2>2 DEF Overlay
    <2>4. \A n : Overlay(m, Overlay(m, n)) = Overlay(m, n)
      <3> SUFFICES ASSUME NEW n PROVE Overlay(m, Overlay(m, n)) = Overlay(m, n)
        OBVIOUS
      <3>1. DOMAIN (Overlay(m, n)) = DOMAIN m \cup DOMAIN n
        BY DEF Overlay
      <3>2. DOMAIN (Overlay(m, Overlay(m, n))) = DOMAIN m \cup DOMAIN n
        BY <3>1 DEF Overlay
      <3>3. \A k \in DOMAIN m \cup DOMAIN n : Overlay(m, Overlay(m, n))[k] = Overlay(m, n)[k]
        BY <3>1 DEF Overlay
      <3>4. \A p, q : Overlay(p, q) = [k \in DOMAIN (Overlay(p, q)) |-> Overlay(p, q)[k]]
        BY DEF Overlay
      <3> QED BY <3>1, <3>2, <3>3, <3>4
    <2> HIDE DEF m
    <2>5. Concat(new, new) = new
      BY <2>3 DEF Concat
    <2>6. CASE old.kind = "object"
      <3>1. Concat(old, new) = [kind |-> "object", map |-> Overlay(m, old.map)]
        BY <2>6 DEF Concat
      <3>2. Concat(Concat(old, new), new) = Concat(old, new)
        BY <2>4, <3>1 DEF Concat
      <3> QED BY <2>1, <2>5, <2>6, <3>1, <3>2 DEF Concatenable
    <2>7. CASE old.kind # "object"
      <3>1. Concat(old, new) = [kind |-> "array", map |-> NoKeys]
        BY <2>7 DEF Concat
      <3>2. Concat(Concat(old, new), new) = Concat(old, new)
        BY <3>1 DEF Concat
      <3> QED BY <2>1, <2>5, <2>7, <3>1, <3>2 DEF Concatenable
    <2> QED BY <2>6, <2>7
  <1> QED BY <1>1, <1>2

\* A request that is applied again, because its message is delivered again or a merge is
\* asked for again, is accepted again and leaves the profile as it reads, although not
\* always the row: null || null is an array (store.go, upsertSQL and scanProfile;
\* docs/architecture.md 2.2 calls the upsert idempotent).
THEOREM UpsertAgain ==
  ASSUME NEW row \in Row \cup {None}, NEW req \in Request
  PROVE  /\ Scan(Upserted(Upserted(row, req), req)) = Scan(Upserted(row, req))
         /\ UpsertAccepted(row, req) => UpsertAccepted(Upserted(row, req), req)
  <1> DEFINE once == Upserted(row, req)
             twice == Upserted(once, req)
             m == [f \in Field |-> Marshal(req.docs[f])]
  <1>1. once \in Row /\ twice \in Row /\ once # None /\ twice # None
    BY UpsertedType, NoneAssumption
  <1>2. /\ twice.docs = [f \in Field |-> Concat(once.docs[f], m[f])]
        /\ twice.tags = once.tags \cup req.tags
    BY <1>1 DEF Upserted
  <1>3. \A f \in Field : req.docs[f] \in GoMap
    BY DEF Request
  <1>4. CASE row = None
    <2>1. once.docs = m /\ once.tags = req.tags
      BY <1>4 DEF Upserted
    <2> HIDE DEF once, twice
    <2>2. \A f \in Field : Unmarshal(twice.docs[f]) = Unmarshal(once.docs[f])
      <3> SUFFICES ASSUME NEW f \in Field
                   PROVE  Unmarshal(twice.docs[f]) = Unmarshal(once.docs[f])
        OBVIOUS
      <3>1. req.docs[f] \in GoMap /\ Marshal(req.docs[f]) \in Json
        BY <1>3, MarshalType
      <3>2. /\ once.docs[f] = Marshal(req.docs[f])
            /\ twice.docs[f] = Concat(Marshal(req.docs[f]), Marshal(req.docs[f]))
        BY <1>2, <2>1
      <3> QED BY <3>1, <3>2, ConcatAgain
    <2>3. \A f \in Field : Concatenable(once.docs[f], m[f])
      BY <1>3, <2>1, MarshalType, ConcatAgain
    <2>4. twice.tags = once.tags
      BY <1>2, <2>1
    <2>5. Scan(twice) = Scan(once)
      BY <1>1, <2>2, <2>4 DEF Scan
    <2> QED BY <2>3, <2>5 DEF UpsertAccepted, once, twice
  <1>5. CASE row # None
    <2>1. /\ once.docs = [f \in Field |-> Concat(row.docs[f], m[f])]
          /\ once.tags = row.tags \cup req.tags
      BY <1>5 DEF Upserted
    <2>2. \A f \in Field : row.docs[f] \in Json
      BY <1>5 DEF Row
    <2> HIDE DEF once, twice
    <2>3. \A f \in Field : Unmarshal(twice.docs[f]) = Unmarshal(once.docs[f])
      <3> SUFFICES ASSUME NEW f \in Field
                   PROVE  Unmarshal(twice.docs[f]) = Unmarshal(once.docs[f])
        OBVIOUS
      <3>1. req.docs[f] \in GoMap /\ row.docs[f] \in Json
        BY <1>3, <2>2
      <3>2. /\ once.docs[f] = Concat(row.docs[f], Marshal(req.docs[f]))
            /\ twice.docs[f] = Concat(Concat(row.docs[f], Marshal(req.docs[f])),
                                      Marshal(req.docs[f]))
        BY <1>2, <2>1
      <3> QED BY <3>1, <3>2, ConcatAgain
    <2>4. \A f \in Field :
            Concatenable(row.docs[f], m[f]) => Concatenable(once.docs[f], m[f])
      BY <1>3, <2>1, <2>2, ConcatAgain
    <2>5. twice.tags = once.tags
      BY <1>2, <2>1
    <2>6. Scan(twice) = Scan(once)
      BY <1>1, <2>3, <2>5 DEF Scan
    <2> QED BY <1>5, <2>4, <2>6 DEF UpsertAccepted, once, twice
  <1> QED BY <1>4, <1>5
=============================================================================
