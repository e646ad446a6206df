----------------------------- MODULE MapperProofs -----------------------------
(***************************************************************************)
(* When a canonical id names the external ids that it was made of: for any *)
(* number of keys and values, as long as no value spells a key and an =.   *)
(***************************************************************************)
EXTENDS Mapper, DataLemmas, TLAPS

IdKey == {KeyOrder[i] : i \in DOMAIN KeyOrder}

\* What the mappers give GenerateCanonicalID: texts under known keys.
Spelled(ids) ==
  /\ ids = [k \in DOMAIN ids |-> ids[k]]
  /\ DOMAIN ids \subseteq IdKey
  /\ \A k \in DOMAIN ids : ids[k] \in DOMAIN Spelling

\* No value reads as if a part of the id began inside of it; an = in it does no harm.
NoKeySpelled ==
  /\ "=" \notin IdKey
  /\ \A v \in DOMAIN Spelling : \A i \in DOMAIN Spelling[v] :
       i > 1 /\ Spelling[v][i] = "=" => Spelling[v][i - 1] \notin IdKey

\* The characters of what is hashed; a key counts as one.
Hashed == Seq(Key \cup STRING \cup {"=", "&"})

Pair(p, k, v) == p \o <<k, "=">> \o Spelling[v]

\* What there is at each place of x, if it is such a text.
IsPair(x, p, k, v) ==
  /\ Len(x) = Len(p) + 2 + Len(Spelling[v])
  /\ \A i \in 1 .. Len(p) : x[i] = p[i]
  /\ x[Len(p) + 1] = k /\ x[Len(p) + 2] = "="
  /\ \A i \in 1 .. Len(Spelling[v]) : x[Len(p) + 2 + i] = Spelling[v][i]
  /\ Len(p) \in Nat /\ Len(Spelling[v]) \in Nat

\* Where the parts of a concatenation are.
LEMMA ConcatIs ==
  ASSUME NEW T, NEW s \in Seq(T), NEW t \in Seq(T)
  PROVE  /\ s \o t \in Seq(T) /\ Len(s \o t) = Len(s) + Len(t)
         /\ Len(s) \in Nat /\ Len(t) \in Nat
         /\ \A i \in 1 .. Len(s) : (s \o t)[i] = s[i]
         /\ \A i \in 1 .. Len(t) : (s \o t)[Len(s) + i] = t[i]
  OBVIOUS

LEMMA PairIs ==
  ASSUME NEW p \in Hashed, NEW k \in Key, NEW v \in DOMAIN Spelling
  PROVE  Pair(p, k, v) \in Hashed /\ IsPair(Pair(p, k, v), p, k, v)
  <1> DEFINE e == <<k, "=">>
             q == p \o e
             s == Spelling[v]
  <1>1. s \in Hashed /\ Len(s) \in Nat
    BY MapperAssumption DEF Hashed
  <1>2. e \in Hashed /\ Len(e) = 2 /\ e[1] = k /\ e[2] = "="
    <2>1. "=" \in Key \cup STRING \cup {"=", "&"}
      OBVIOUS
    <2>2. \A c, d \in Key \cup STRING \cup {"=", "&"} : <<c, d>> \in Seq(Key \cup STRING \cup {"=", "&"})
      OBVIOUS
    <2>3. Len(<<k, "=">>) = 2 /\ <<k, "=">>[1] = k /\ <<k, "=">>[2] = "="
      OBVIOUS
    <2> QED BY <2>1, <2>2, <2>3 DEF Hashed
  <1> HIDE DEF e
  <1>3. /\ q \in Hashed /\ Len(q) = Len(p) + 2 /\ Len(p) \in Nat
        /\ \A i \in 1 .. Len(p) : q[i] = p[i]
        /\ q[Len(p) + 1] = k /\ q[Len(p) + 2] = "="
    <2>1. /\ q \in Hashed /\ Len(q) = Len(p) + Len(e) /\ Len(p) \in Nat
          /\ \A i \in 1 .. Len(p) : q[i] = p[i]
          /\ \A i \in 1 .. Len(e) : q[Len(p) + i] = e[i]
      BY <1>2, ConcatIs DEF Hashed
    <2>2. 1 \in 1 .. Len(e) /\ 2 \in 1 .. Len(e)
      BY <1>2
    <2> HIDE DEF q
    <2> QED BY <1>2, <2>1, <2>2
  <1> HIDE DEF q, s
  <1>4. /\ q \o s \in Hashed /\ Len(q \o s) = Len(q) + Len(s)
        /\ \A i \in 1 .. Len(q) : (q \o s)[i] = q[i]
        /\ \A i \in 1 .. Len(s) : (q \o s)[Len(q) + i] = s[i]
    <2>1. q \in Hashed /\ s \in Hashed
      BY <1>1, <1>3
    <2> QED BY <2>1, ConcatIs DEF Hashed
  <1>5. Pair(p, k, v) = q \o s
    BY DEF Pair, q, s, e
  <1> QED BY <1>1, <1>3, <1>4, <1>5 DEF s, IsPair

\* What ends in a key, = and a value that spells no key does so in one way only.
LEMMA PairSplits ==
  ASSUME NoKeySpelled, NEW p \in Hashed, NEW q \in Hashed, NEW k \in IdKey, NEW l \in IdKey,
         NEW v \in DOMAIN Spelling, NEW w \in DOMAIN Spelling, Pair(p, k, v) = Pair(q, l, w)
  PROVE  p = q /\ k = l /\ v = w
  <1> DEFINE s == Spelling[v]
             r == Spelling[w]
             x == Pair(p, k, v)
  <1>0. /\ s \in Seq(STRING) /\ r \in Seq(STRING)
        /\ \A i \in 1 .. Len(s) : i > 1 /\ s[i] = "=" => s[i - 1] \notin IdKey
        /\ \A i \in 1 .. Len(r) : i > 1 /\ r[i] = "=" => r[i - 1] \notin IdKey
        /\ k # "=" /\ l # "=" /\ k \in Key /\ l \in Key
    BY MapperAssumption DEF NoKeySpelled, IdKey
  <1>00. IsPair(x, p, k, v) /\ IsPair(x, q, l, w)
    BY <1>0, PairIs
  <1> HIDE DEF x
  <1>1. /\ Len(x) = Len(p) + 2 + Len(s)
        /\ \A i \in 1 .. Len(p) : x[i] = p[i]
        /\ x[Len(p) + 1] = k /\ x[Len(p) + 2] = "="
        /\ \A i \in 1 .. Len(s) : x[Len(p) + 2 + i] = s[i]
        /\ Len(p) \in Nat /\ Len(s) \in Nat
    BY <1>00 DEF IsPair
  <1>2. /\ Len(x) = Len(q) + 2 + Len(r)
        /\ \A i \in 1 .. Len(q) : x[i] = q[i]
        /\ x[Len(q) + 1] = l /\ x[Len(q) + 2] = "="
        /\ \A i \in 1 .. Len(r) : x[Len(q) + 2 + i] = r[i]
        /\ Len(q) \in Nat /\ Len(r) \in Nat
    BY <1>00 DEF IsPair
  <1> HIDE DEF s, r
  <1>3. ~(Len(p) < Len(q))
    <2> SUFFICES ASSUME Len(p) < Len(q) PROVE FALSE
      OBVIOUS
    <2>1. Len(q) - Len(p) \in 1 .. Len(s) /\ Len(p) + 2 + (Len(q) - Len(p)) = Len(q) + 2
      BY <1>1, <1>2
    <2>2. s[Len(q) - Len(p)] = "="
      BY <1>1, <1>2, <2>1
    <2>3. CASE Len(q) = Len(p) + 1
      BY <1>0, <1>1, <1>2, <2>3
    <2>4. CASE Len(q) > Len(p) + 1
      <3>1. /\ Len(q) - Len(p) - 1 \in 1 .. Len(s)
            /\ Len(p) + 2 + (Len(q) - Len(p) - 1) = Len(q) + 1
        BY <1>1, <1>2, <2>1, <2>4
      <3>2. s[Len(q) - Len(p) - 1] = l
        BY <1>1, <1>2, <3>1
      <3> QED BY <1>0, <2>1, <2>2, <3>1, <3>2
    <2> QED BY <1>1, <1>2, <2>3, <2>4
  <1>4. ~(Len(q) < Len(p))
    <2> SUFFICES ASSUME Len(q) < Len(p) PROVE FALSE
      OBVIOUS
    <2>1. Len(p) - Len(q) \in 1 .. Len(r) /\ Len(q) + 2 + (Len(p) - Len(q)) = Len(p) + 2
      BY <1>1, <1>2
    <2>2. r[Len(p) - Len(q)] = "="
      BY <1>1, <1>2, <2>1
    <2>3. CASE Len(p) = Len(q) + 1
      BY <1>0, <1>1, <1>2, <2>3
    <2>4. CASE Len(p) > Len(q) + 1
      <3>1. /\ Len(p) - Len(q) - 1 \in 1 .. Len(r)
            /\ Len(q) + 2 + (Len(p) - Len(q) - 1) = Len(p) + 1
        BY <1>1, <1>2, <2>1, <2>4
      <3>2. r[Len(p) - Len(q) - 1] = k
        BY <1>1, <1>2, <3>1
      <3> QED BY <1>0, <2>1, <2>2, <3>1, <3>2
    <2> QED BY <1>1, <1>2, <2>3, <2>4
  <1>5. Len(p) = Len(q) /\ Len(s) = Len(r)
    BY <1>1, <1>2, <1>3, <1>4
  <1>6. p = q
    <2>1. p \in Seq(Key \cup STRING \cup {"=", "&"}) /\ q \in Seq(Key \cup STRING \cup {"=", "&"})
      BY DEF Hashed
    <2>2. \A i \in 1 .. Len(p) : p[i] = q[i]
      BY <1>1, <1>2, <1>5
    <2> QED BY <1>5, <2>1, <2>2
  <1>7. k = l
    BY <1>1, <1>2, <1>5
  <1>8. s = r
    BY <1>0, <1>1, <1>2, <1>5
  <1> QED BY <1>6, <1>7, <1>8, MapperAssumption DEF s, r

-----------------------------------------------------------------------------
\* One round of the loop that joins the parts, f being what it has so far.
Before(s) == IF s = <<>> THEN <<>> ELSE s \o <<"&">>

JoinStep(ids, f, i) ==
  IF i = 0 THEN <<>>
  ELSE IF KeyOrder[i] \notin DOMAIN ids THEN f[i - 1]
       ELSE Pair(Before(f[i - 1]), KeyOrder[i], ids[KeyOrder[i]])

LEMMA BeforeIs ==
  ASSUME NEW s \in Hashed
  PROVE  /\ Before(s) \in Hashed
         /\ \A t \in Hashed : Before(s) = Before(t) => s = t
  <1>1. \A t \in Hashed : /\ t \o <<"&">> \in Hashed /\ Len(t \o <<"&">>) = Len(t) + 1
                          /\ Len(t) \in Nat /\ (t = <<>> \/ Len(t) > 0)
                          /\ \A i \in 1 .. Len(t) : (t \o <<"&">>)[i] = t[i]
    <2> SUFFICES ASSUME NEW t \in Hashed
                 PROVE  /\ t \o <<"&">> \in Hashed /\ Len(t \o <<"&">>) = Len(t) + 1
                        /\ Len(t) \in Nat /\ (t = <<>> \/ Len(t) > 0)
                        /\ \A i \in 1 .. Len(t) : (t \o <<"&">>)[i] = t[i]
      OBVIOUS
    <2>1. <<"&">> \in Hashed /\ Len(<<"&">>) = 1
      BY DEF Hashed
    <2>2. Len(t) \in Nat /\ (t = <<>> \/ Len(t) > 0)
      BY DEF Hashed
    <2> QED BY <2>1, <2>2, ConcatIs DEF Hashed
  <1>2. <<>> \in Hashed /\ Len(<<>>) = 0
    BY DEF Hashed
  <1>3. ASSUME NEW t \in Hashed, s \o <<"&">> = t \o <<"&">> PROVE s = t
    <2>1. Len(s) = Len(t)
      BY <1>1, <1>3
    <2>2. \A i \in 1 .. Len(s) : s[i] = t[i]
      BY <1>1, <1>3, <2>1
    <2> QED BY <2>1, <2>2 DEF Hashed
  <1>4. ASSUME NEW t \in Hashed, t # <<>> PROVE t \o <<"&">> # <<>>
    BY <1>1, <1>2, <1>4
  <1> QED BY <1>1, <1>2, <1>3, <1>4 DEF Before

\* GenerateCanonicalID is the last of the loop's texts.
LEMMA JoinedIs ==
  ASSUME NEW ids, Spelled(ids)
  PROVE  \E f \in [0 .. Len(KeyOrder) -> Hashed] :
           /\ GenerateCanonicalID(ids) = f[Len(KeyOrder)]
           /\ \A i \in 0 .. Len(KeyOrder) : f[i] = JoinStep(ids, f, i)
  <1> DEFINE S == 0 .. Len(KeyOrder)
             rank == [i \in S |-> i]
             Is(f) == f = [i \in S |-> JoinStep(ids, f, i)]
             D == [g \in [S -> Hashed] |-> [i \in S |-> JoinStep(ids, g, i)]]
             f == CHOOSE f : Is(f)
  <1>0. /\ Len(KeyOrder) \in Nat /\ \A i \in S : i # 0 => i - 1 \in S /\ KeyOrder[i] \in Key
        /\ Len(KeyOrder) \in S /\ S \subseteq Nat
    BY MapperAssumption
  <1>1. <<>> \in Hashed /\ rank \in [S -> Nat]
    BY <1>0 DEF Hashed
  <1>2. ASSUME NEW g \in [S -> Hashed], NEW i \in S PROVE JoinStep(ids, g, i) \in Hashed
    <2>1. i # 0 => g[i - 1] \in Hashed /\ KeyOrder[i] \in Key
      BY <1>0
    <2>2. KeyOrder[i] \in DOMAIN ids => ids[KeyOrder[i]] \in DOMAIN Spelling
      BY DEF Spelled
    <2> QED BY <1>1, <2>1, <2>2, BeforeIs, PairIs DEF JoinStep
  <1>3. D \in [[S -> Hashed] -> [S -> Hashed]]
    BY <1>2
  <1>4. \A g, h \in [S -> Hashed], i \in S :
          (\A j \in S : rank[j] < rank[i] => g[j] = h[j]) => D[g][i] = D[h][i]
    <2>1. ASSUME NEW g, NEW h, NEW i \in S, \A j \in S : rank[j] < rank[i] => g[j] = h[j]
          PROVE  JoinStep(ids, g, i) = JoinStep(ids, h, i)
      <3>1. i # 0 => g[i - 1] = h[i - 1]
        BY <1>0, <2>1
      <3> QED BY <3>1 DEF JoinStep
    <2>2. \A g \in [S -> Hashed], i \in S : D[g][i] = JoinStep(ids, g, i)
      OBVIOUS
    <2> HIDE DEF D, S, rank
    <2> QED BY <2>1, <2>2
  <1>5. \E g \in [S -> Hashed] : g = D[g]
    <2> HIDE DEF D, S, rank
    <2>1. Descends(D, S, Hashed, rank)
      BY <1>1, <1>3, <1>4 DEF Descends
    <2> QED BY <1>1, <2>1, Recursion
  <1>6. Is(f)
    <2>1. \E g : Is(g)
      BY <1>5
    <2> HIDE DEF Is
    <2> QED BY <2>1
  <1>7. GenerateCanonicalID(ids) = f[Len(KeyOrder)]
    BY DEF GenerateCanonicalID, JoinStep, Before, Pair
  <1> HIDE DEF f
  <1>8. \A i \in S : f[i] \in Hashed
    <2> DEFINE Bad == {i \in S : f[i] \notin Hashed}
    <2>1. SUFFICES ASSUME Bad # {} PROVE FALSE
      OBVIOUS
    <2>2. PICK i \in Bad : \A j \in Bad : i <= j
      <3>1. Bad \subseteq Nat
        BY <1>0
      <3> HIDE DEF Bad
      <3> QED BY <2>1, <3>1, Least
    <2>3. i # 0 => f[i - 1] \in Hashed /\ KeyOrder[i] \in Key
      BY <1>0, <2>2
    <2>4. KeyOrder[i] \in DOMAIN ids => ids[KeyOrder[i]] \in DOMAIN Spelling
      BY DEF Spelled
    <2>5. f[i] = JoinStep(ids, f, i)
      BY <1>6
    <2> QED BY <1>1, <2>2, <2>3, <2>4, <2>5, BeforeIs, PairIs DEF JoinStep
  <1>9. f \in [S -> Hashed] /\ \A i \in S : f[i] = JoinStep(ids, f, i)
    BY <1>6, <1>8
  <1> HIDE DEF S, Is
  <1> QED BY <1>7, <1>9 DEF S

\* A text that is not empty ends in a key that it was made of.
LEMMA LastKey ==
  ASSUME NEW ids, Spelled(ids), NEW f \in [0 .. Len(KeyOrder) -> Hashed],
         \A i \in 0 .. Len(KeyOrder) : f[i] = JoinStep(ids, f, i)
  PROVE  \A i \in 0 .. Len(KeyOrder) : f[i] = <<>> \/
           \E j \in 1 .. i : \E p \in Hashed :
             KeyOrder[j] \in DOMAIN ids /\ f[i] = Pair(p, KeyOrder[j], ids[KeyOrder[j]])
  <1> DEFINE Ends(i, j) ==
               \E p \in Hashed :
                 KeyOrder[j] \in DOMAIN ids /\ f[i] = Pair(p, KeyOrder[j], ids[KeyOrder[j]])
             Good(i) == f[i] = <<>> \/ \E j \in 1 .. i : Ends(i, j)
             Bad == {i \in 0 .. Len(KeyOrder) : ~Good(i)}
  <1>1. SUFFICES ASSUME Bad # {} PROVE FALSE
    OBVIOUS
  <1>2. PICK i \in Bad : \A j \in Bad : i <= j
    <2>1. Bad \subseteq Nat
      BY MapperAssumption
    <2> HIDE DEF Bad
    <2> QED BY <1>1, <2>1, Least
  <1>3. i # 0
    BY <1>2 DEF JoinStep
  <1>4. i \in 1 .. Len(KeyOrder) /\ i - 1 \in 0 .. Len(KeyOrder) /\ ~(i <= i - 1)
    BY <1>2, <1>3, MapperAssumption
  <1>5. Good(i - 1)
    <2> HIDE DEF Good
    <2> QED BY <1>2, <1>4
  <1>6. CASE KeyOrder[i] \in DOMAIN ids
    <2>1. f[i] = Pair(Before(f[i - 1]), KeyOrder[i], ids[KeyOrder[i]])
      BY <1>3, <1>4, <1>6 DEF JoinStep
    <2>2. Before(f[i - 1]) \in Hashed
      BY <1>4, BeforeIs
    <2>3. i \in 1 .. i /\ Ends(i, i)
      BY <1>4, <1>6, <2>1, <2>2
    <2> HIDE DEF Ends
    <2> QED BY <1>2, <2>3
  <1>7. CASE KeyOrder[i] \notin DOMAIN ids
    <2>1. f[i] = f[i - 1]
      BY <1>3, <1>4, <1>7 DEF JoinStep
    <2>2. \A j \in 1 .. i - 1 : j \in 1 .. i /\ (Ends(i - 1, j) => Ends(i, j))
      BY <1>4, <2>1
    <2> HIDE DEF Ends
    <2> QED BY <1>2, <1>5, <2>1, <2>2
  <1> QED BY <1>6, <1>7

\* One of two texts that are the same cannot have a key that the other does not have.
LEMMA NoKeyMore ==
  ASSUME NoKeySpelled, NEW a, Spelled(a), NEW b, Spelled(b),
         NEW f \in [0 .. Len(KeyOrder) -> Hashed], NEW g \in [0 .. Len(KeyOrder) -> Hashed],
         \A i \in 0 .. Len(KeyOrder) : f[i] = JoinStep(a, f, i),
         \A i \in 0 .. Len(KeyOrder) : g[i] = JoinStep(b, g, i),
         NEW i \in 1 .. Len(KeyOrder), f[i] = g[i],
         KeyOrder[i] \in DOMAIN a
  PROVE  KeyOrder[i] \in DOMAIN b
  <1> SUFFICES ASSUME KeyOrder[i] \notin DOMAIN b PROVE FALSE
    OBVIOUS
  <1>1. /\ Len(KeyOrder) \in Nat /\ i \in 0 .. Len(KeyOrder) /\ i - 1 \in 0 .. Len(KeyOrder)
        /\ i # 0 /\ KeyOrder[i] \in Key /\ KeyOrder[i] \in IdKey
        /\ \A j \in 1 .. i - 1 : j # i /\ j \in 1 .. Len(KeyOrder) /\ KeyOrder[j] \in IdKey
        /\ \A j \in 1 .. i - 1 : KeyOrder[j] # KeyOrder[i]
    BY MapperAssumption DEF IdKey
  <1>2. a[KeyOrder[i]] \in DOMAIN Spelling
    BY DEF Spelled
  <1> DEFINE p == Before(f[i - 1])
  <1>3. p \in Hashed /\ f[i] = Pair(p, KeyOrder[i], a[KeyOrder[i]])
    BY <1>1, BeforeIs DEF JoinStep
  <1>4. g[i - 1] = Pair(p, KeyOrder[i], a[KeyOrder[i]])
    BY <1>1, <1>3 DEF JoinStep
  <1> HIDE DEF p
  <1>5. g[i - 1] # <<>>
    <2>1. Len(Pair(p, KeyOrder[i], a[KeyOrder[i]])) > 0
      <3>1. IsPair(Pair(p, KeyOrder[i], a[KeyOrder[i]]), p, KeyOrder[i], a[KeyOrder[i]])
        BY <1>1, <1>2, <1>3, PairIs
      <3>2. /\ Len(Pair(p, KeyOrder[i], a[KeyOrder[i]])) = Len(p) + 2 + Len(Spelling[a[KeyOrder[i]]])
            /\ Len(p) \in Nat /\ Len(Spelling[a[KeyOrder[i]]]) \in Nat
        BY <3>1 DEF IsPair
      <3> QED BY <3>2
    <2> QED BY <1>4, <2>1
  <1>6. PICK j \in 1 .. i - 1 : \E q \in Hashed :
          KeyOrder[j] \in DOMAIN b /\ g[i - 1] = Pair(q, KeyOrder[j], b[KeyOrder[j]])
    BY <1>1, <1>5, LastKey
  <1>7. PICK q \in Hashed :
          KeyOrder[j] \in DOMAIN b /\ g[i - 1] = Pair(q, KeyOrder[j], b[KeyOrder[j]])
    BY <1>6
  <1>8. b[KeyOrder[j]] \in DOMAIN Spelling
    BY <1>7 DEF Spelled
  <1>9. KeyOrder[i] = KeyOrder[j]
    <2>1. Pair(p, KeyOrder[i], a[KeyOrder[i]]) = Pair(q, KeyOrder[j], b[KeyOrder[j]])
      BY <1>4, <1>7
    <2>2. KeyOrder[i] \in IdKey /\ KeyOrder[j] \in IdKey /\ p \in Hashed /\ q \in Hashed
      BY <1>1, <1>3, <1>7
    <2> QED BY <1>2, <1>8, <2>1, <2>2, PairSplits
  <1> QED BY <1>1, <1>9

\* The canonical id names the external ids: two maps of them that are not the same never
\* get the same, for any keys and values none of which spells one of the keys and an =
\* (merger.go, GenerateCanonicalID, which escapes nothing and relies on the order).
THEOREM CanonicalIdNames ==
  ASSUME NoKeySpelled, NEW a, Spelled(a), NEW b, Spelled(b),
         GenerateCanonicalID(a) = GenerateCanonicalID(b)
  PROVE  a = b
  <1>1. PICK f \in [0 .. Len(KeyOrder) -> Hashed] :
          /\ GenerateCanonicalID(a) = f[Len(KeyOrder)]
          /\ \A i \in 0 .. Len(KeyOrder) : f[i] = JoinStep(a, f, i)
    BY JoinedIs
  <1>2. PICK g \in [0 .. Len(KeyOrder) -> Hashed] :
          /\ GenerateCanonicalID(b) = g[Len(KeyOrder)]
          /\ \A i \in 0 .. Len(KeyOrder) : g[i] = JoinStep(b, g, i)
    BY JoinedIs
  <1> DEFINE Agree(k) == /\ k \in DOMAIN a <=> k \in DOMAIN b
                         /\ k \in DOMAIN a => a[k] = b[k]
             Good(i) == f[i] = g[i] => \A j \in 1 .. i : Agree(KeyOrder[j])
             Bad == {i \in 0 .. Len(KeyOrder) : ~Good(i)}
  <1>3. Bad = {}
    <2>1. SUFFICES ASSUME Bad # {} PROVE FALSE
      OBVIOUS
    <2>2. PICK i \in Bad : \A j \in Bad : i <= j
      <3>1. Bad \subseteq Nat
        BY MapperAssumption
      <3> HIDE DEF Bad
      <3> QED BY <2>1, <3>1, Least
    <2>3. f[i] = g[i] /\ i \in Nat /\ i # 0
      BY <2>2, MapperAssumption
    <2>4. /\ i \in 1 .. Len(KeyOrder) /\ i \in 0 .. Len(KeyOrder) /\ i - 1 \in 0 .. Len(KeyOrder)
          /\ ~(i <= i - 1) /\ KeyOrder[i] \in IdKey
          /\ \A j \in 1 .. i : j = i \/ j \in 1 .. i - 1
      BY <2>2, <2>3, MapperAssumption DEF IdKey
    <2>5. Good(i - 1)
      <3> HIDE DEF Good
      <3> QED BY <2>2, <2>4
    <2> DEFINE k == KeyOrder[i]
    <2>6. k \in DOMAIN a <=> k \in DOMAIN b
      BY <1>1, <1>2, <2>3, <2>4, NoKeyMore
    <2>7. f[i - 1] \in Hashed /\ g[i - 1] \in Hashed
      BY <2>4
    <2>8. f[i - 1] = g[i - 1] /\ (k \in DOMAIN a => a[k] = b[k])
      <3>1. CASE k \notin DOMAIN a
        <4>1. f[i] = f[i - 1] /\ g[i] = g[i - 1]
          BY <1>1, <1>2, <2>3, <2>4, <2>6, <3>1 DEF JoinStep
        <4> QED BY <2>3, <3>1, <4>1
      <3>2. CASE k \in DOMAIN a
        <4>1. f[i] = Pair(Before(f[i - 1]), k, a[k]) /\ g[i] = Pair(Before(g[i - 1]), k, b[k])
          BY <1>1, <1>2, <2>3, <2>4, <2>6, <3>2 DEF JoinStep
        <4>2. a[k] \in DOMAIN Spelling /\ b[k] \in DOMAIN Spelling
          BY <2>6, <3>2 DEF Spelled
        <4>3. Before(f[i - 1]) \in Hashed /\ Before(g[i - 1]) \in Hashed
          BY <2>7, BeforeIs
        <4>4. Before(f[i - 1]) = Before(g[i - 1]) /\ a[k] = b[k]
          BY <2>3, <2>4, <4>1, <4>2, <4>3, PairSplits
        <4> QED BY <2>7, <4>4, BeforeIs
      <3> QED BY <3>1, <3>2
    <2>9. \A j \in 1 .. i : Agree(KeyOrder[j])
      <3> HIDE DEF Agree
      <3>1. Agree(KeyOrder[i])
        BY <2>6, <2>8 DEF Agree
      <3> QED BY <2>4, <2>5, <2>8, <3>1
    <2> QED BY <2>2, <2>9
  <1>4. \A k \in IdKey : Agree(k)
    <2>1. Len(KeyOrder) \in 0 .. Len(KeyOrder) /\ DOMAIN KeyOrder = 1 .. Len(KeyOrder)
      BY MapperAssumption
    <2>2. Good(Len(KeyOrder))
      <3> HIDE DEF Good
      <3> QED BY <1>3, <2>1
    <2>3. f[Len(KeyOrder)] = g[Len(KeyOrder)]
      BY <1>1, <1>2
    <2> HIDE DEF Agree
    <2> QED BY <2>1, <2>2, <2>3 DEF IdKey
  <1>5. DOMAIN a = DOMAIN b /\ \A k \in DOMAIN a : a[k] = b[k]
    BY <1>4 DEF Spelled
  <1>6. a = [k \in DOMAIN a |-> a[k]] /\ b = [k \in DOMAIN b |-> b[k]]
    BY DEF Spelled
  <1> QED BY <1>5, <1>6
=============================================================================
