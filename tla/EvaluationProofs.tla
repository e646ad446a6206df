--------------------------- MODULE EvaluationProofs ---------------------------
(***************************************************************************)
(* What Conditions and Evaluation promise, for every set of trees, every   *)
(* profile and every history.  The operators on trees are defined by       *)
(* recursion; the first part shows that they satisfy their equations, the  *)
(* second part goes by induction on the height of a tree.                  *)
(***************************************************************************)
EXTENDS Evaluation, DataLemmas, TLAPS

\* A child is a tree, and lower.
LEMMA ChildType ==
  ASSUME NEW c \in Condition
  PROVE  /\ \A i \in DOMAIN c.and : c.and[i] \in Condition /\ Height[c.and[i]] < Height[c]
         /\ \A i \in DOMAIN c.or : c.or[i] \in Condition /\ Height[c.or[i]] < Height[c]
         /\ \A d \in Children(c) : d \in Condition /\ Height[d] < Height[c]
         /\ DOMAIN c.and = 1 .. Len(c.and) /\ Len(c.and) \in Nat
         /\ DOMAIN c.or = 1 .. Len(c.or) /\ Len(c.or) \in Nat
  <1>1. c.and \in Seq(Condition) /\ c.or \in Seq(Condition)
    BY ConditionAssumption
  <1>2. /\ \A i \in DOMAIN c.and : c.and[i] \in Condition /\ c.and[i] \in Children(c)
        /\ \A i \in DOMAIN c.or : c.or[i] \in Condition /\ c.or[i] \in Children(c)
        /\ DOMAIN c.and = 1 .. Len(c.and) /\ Len(c.and) \in Nat
        /\ DOMAIN c.or = 1 .. Len(c.or) /\ Len(c.or) \in Nat
    BY <1>1 DEF Children
  <1>3. \A d \in Children(c) : Height[d] < Height[c]
    BY ConditionAssumption
  <1>4. \A d \in Children(c) : d \in Condition
    BY <1>2 DEF Children
  <1> QED BY <1>2, <1>3, <1>4

\* A node without children has both lists empty.
LEMMA NoChildren ==
  ASSUME NEW c \in Condition
  PROVE  Children(c) = {} <=> (c.and = <<>> /\ c.or = <<>>)
  <1>1. c.and \in Seq(Condition) /\ c.or \in Seq(Condition)
    BY ConditionAssumption
  <1>2. /\ c.and # <<>> => 1 \in DOMAIN c.and
        /\ c.or # <<>> => 1 \in DOMAIN c.or
    BY <1>1
  <1>3. /\ c.and = <<>> => DOMAIN c.and = {}
        /\ c.or = <<>> => DOMAIN c.or = {}
    OBVIOUS
  <1>4. Children(c) = {} <=> (DOMAIN c.and = {} /\ DOMAIN c.or = {})
    BY DEF Children
  <1> QED BY <1>2, <1>3, <1>4

-----------------------------------------------------------------------------
\* The loops of Matches stop at the first child that is not r.
LEMMA FirstOtherIs ==
  ASSUME NEW n \in Nat, NEW rs, DOMAIN rs = 1 .. n, NEW r
  PROVE  \/ FirstOther(rs, r) = r /\ \A i \in 1 .. n : rs[i] = r
         \/ \E i \in 1 .. n : /\ FirstOther(rs, r) = rs[i] /\ rs[i] # r
                              /\ \A j \in 1 .. i - 1 : rs[j] = r
  <1>1. CASE \A i \in 1 .. n : rs[i] = r
    BY <1>1 DEF FirstOther
  <1>2. CASE ~ \A i \in 1 .. n : rs[i] = r
    <2> DEFINE Others == {i \in 1 .. n : rs[i] # r}
               Good(i) == rs[i] # r /\ \A j \in 1 .. i - 1 : rs[j] = r
    <2>1. Others \subseteq Nat /\ Others # {}
      BY <1>2
    <2>2. PICK k \in Others : \A m \in Others : k <= m
      <3> HIDE DEF Others
      <3> QED BY <2>1, Least
    <2>3. k \in 1 .. n /\ Good(k)
      BY <2>2
    <2>4. PICK i \in 1 .. n : i = (CHOOSE l \in 1 .. n : Good(l)) /\ Good(i)
      <3> HIDE DEF Good
      <3> QED BY <2>3
    <2>5. FirstOther(rs, r) = rs[i]
      BY <1>2, <2>4 DEF FirstOther
    <2> QED BY <2>4, <2>5
  <1> QED BY <1>1, <1>2

\* What a leaf and a list of verdicts give is a verdict.
LEMMA LeafType == \A p, history, c : MatchLeaf(p, history, c) \in Verdict
  <1>1. \A b : Answer(b) \in Verdict
    BY DEF Answer, Verdict
  <1>2. \A x, op, y : Compare(x, op, y) \in Verdict
    BY <1>1 DEF Compare, Verdict
  <1>3. \A doc, key, c : CompareKey(doc, key, c) \in Verdict
    BY <1>2 DEF CompareKey, Verdict
  <1>4. \A k, c : CountMatches(k, c) \in Verdict
    BY <1>1 DEF CountMatches
  <1> QED BY <1>1, <1>3, <1>4 DEF MatchLeaf, Verdict

LEMMA FirstOtherType ==
  ASSUME NEW n \in Nat, NEW rs \in [1 .. n -> Verdict], NEW r \in Verdict
  PROVE  FirstOther(rs, r) \in Verdict
  <1>1. DOMAIN rs = 1 .. n /\ \A i \in 1 .. n : rs[i] \in Verdict
    OBVIOUS
  <1> QED BY <1>1, FirstOtherIs

-----------------------------------------------------------------------------
\* One call of Matches, f being the calls for the children.
MatchStep(p, history, f, c) ==
  CASE c.and # <<>> -> FirstOther([i \in DOMAIN c.and |-> f[c.and[i]]], "yes")
    [] c.and = <<>> /\ c.or # <<>> ->
         FirstOther([i \in DOMAIN c.or |-> f[c.or[i]]], "no")
    [] OTHER -> MatchLeaf(p, history, c)

LEMMA MatchStepType ==
  ASSUME NEW p, NEW history, NEW c \in Condition, NEW f,
         \A d \in Children(c) : f[d] \in Verdict
  PROVE  MatchStep(p, history, f, c) \in Verdict
  <1>1. /\ [i \in DOMAIN c.and |-> f[c.and[i]]] \in [1 .. Len(c.and) -> Verdict]
        /\ [i \in DOMAIN c.or |-> f[c.or[i]]] \in [1 .. Len(c.or) -> Verdict]
        /\ Len(c.and) \in Nat /\ Len(c.or) \in Nat
    BY ChildType DEF Children
  <1>2. "yes" \in Verdict /\ "no" \in Verdict
    BY DEF Verdict
  <1>3. /\ FirstOther([i \in DOMAIN c.and |-> f[c.and[i]]], "yes") \in Verdict
        /\ FirstOther([i \in DOMAIN c.or |-> f[c.or[i]]], "no") \in Verdict
    BY <1>1, <1>2, FirstOtherType
  <1> QED BY <1>3, LeafType DEF MatchStep

LEMMA MatchStepLocal ==
  ASSUME NEW p, NEW history, NEW c \in Condition, NEW g, NEW h,
         \A d \in Children(c) : g[d] = h[d]
  PROVE  MatchStep(p, history, g, c) = MatchStep(p, history, h, c)
  <1>1. /\ [i \in DOMAIN c.and |-> g[c.and[i]]] = [i \in DOMAIN c.and |-> h[c.and[i]]]
        /\ [i \in DOMAIN c.or |-> g[c.or[i]]] = [i \in DOMAIN c.or |-> h[c.or[i]]]
    BY DEF Children
  <1> QED BY <1>1 DEF MatchStep

\* Matches is the verdict of its loops over the children, and always one of the three.
LEMMA MatchesIs ==
  ASSUME NEW p, NEW history
  PROVE  \E f \in [Condition -> Verdict] : \A c \in Condition :
           Matches(p, history, c) = f[c] /\ f[c] = MatchStep(p, history, f, c)
  <1> DEFINE Is(f) == f = [c \in Condition |-> MatchStep(p, history, f, c)]
             D == [g \in [Condition -> Verdict] |->
                     [c \in Condition |-> MatchStep(p, history, g, c)]]
             f == CHOOSE f : Is(f)
  <1>1. "no" \in Verdict /\ Height \in [Condition -> Nat]
    BY ConditionAssumption DEF Verdict
  <1>2. D \in [[Condition -> Verdict] -> [Condition -> Verdict]]
    BY ChildType, MatchStepType
  <1>3. \A g, h \in [Condition -> Verdict], c \in Condition :
          (\A d \in Condition : Height[d] < Height[c] => g[d] = h[d]) => D[g][c] = D[h][c]
    BY ChildType, MatchStepLocal
  <1>4. \E g \in [Condition -> Verdict] : g = D[g]
    <2> HIDE DEF D
    <2>1. Descends(D, Condition, Verdict, Height)
      BY <1>1, <1>2, <1>3 DEF Descends
    <2> QED BY <1>1, <2>1, Recursion
  <1>5. Is(f)
    <2>1. \E g : Is(g)
      BY <1>4
    <2> HIDE DEF Is
    <2> QED BY <2>1
  <1>6. \A c \in Condition : Matches(p, history, c) = f[c]
    BY DEF Matches, MatchStep
  <1> HIDE DEF f
  <1>7. \A c \in Condition : f[c] = MatchStep(p, history, f, c)
    BY <1>5
  <1>8. \A c \in Condition : f[c] \in Verdict
    <2> DEFINE Bad == {c \in Condition : f[c] \notin Verdict}
    <2>1. SUFFICES ASSUME Bad # {} PROVE FALSE
      OBVIOUS
    <2>2. PICK c \in Bad : \A d \in Condition : Height[d] < Height[c] => d \notin Bad
      <3>1. Bad \subseteq Condition
        OBVIOUS
      <3> HIDE DEF Bad
      <3> QED BY <1>1, <2>1, <3>1, LeastOfRank
    <2>3. \A d \in Children(c) : f[d] \in Verdict
      BY <2>2, ChildType
    <2> QED BY <1>7, <2>2, <2>3, MatchStepType
  <1>9. f \in [Condition -> Verdict]
    BY <1>5, <1>8
  <1> QED BY <1>6, <1>7, <1>9

\* validateCondition is what it says of the node and of the children one level deeper.
ValidStep(f, c) ==
  [n \in Nat |-> /\ n <= MaxDepth
                 /\ IsBranch(c) # IsLeaf(c)
                 /\ \A d \in Children(c) : f[d][n + 1]
                 /\ IsLeaf(c) /\ c.tag = None => c.op # ""]

LEMMA ValidIs ==
  ASSUME NEW c \in Condition, NEW n \in Nat, Valid(c, n)
  PROVE  /\ n <= MaxDepth
         /\ IsBranch(c) # IsLeaf(c)
         /\ \A d \in Children(c) : Valid(d, n + 1)
  <1> DEFINE V == [Nat -> BOOLEAN]
             Is(f) == f = [d \in Condition |-> ValidStep(f, d)]
             D == [g \in [Condition -> V] |-> [d \in Condition |-> ValidStep(g, d)]]
             f == CHOOSE f : Is(f)
  <1>1. [k \in Nat |-> TRUE] \in V /\ Height \in [Condition -> Nat]
    BY ConditionAssumption
  <1>2. D \in [[Condition -> V] -> [Condition -> V]]
    BY DEF ValidStep
  <1>3. \A g, h \in [Condition -> V], d \in Condition :
          (\A e \in Condition : Height[e] < Height[d] => g[e] = h[e]) => D[g][d] = D[h][d]
    <2> SUFFICES ASSUME NEW g \in [Condition -> V], NEW h \in [Condition -> V],
                        NEW d \in Condition,
                        \A e \in Condition : Height[e] < Height[d] => g[e] = h[e]
                 PROVE  ValidStep(g, d) = ValidStep(h, d)
      OBVIOUS
    <2>1. \A e \in Children(d) : g[e] = h[e]
      BY ChildType
    <2> QED BY <2>1 DEF ValidStep
  <1>4. \E g \in [Condition -> V] : g = D[g]
    <2> HIDE DEF D, V
    <2>1. Descends(D, Condition, V, Height)
      BY <1>1, <1>2, <1>3 DEF Descends
    <2> QED BY <1>1, <2>1, Recursion
  <1>5. Is(f)
    <2>1. \E g : Is(g)
      BY <1>4
    <2> HIDE DEF Is
    <2> QED BY <2>1
  <1>6. \A d, k : Valid(d, k) = f[d][k]
    BY DEF Valid, ValidStep
  <1> HIDE DEF f
  <1>7. \A d \in Condition : f[d] = ValidStep(f, d)
    BY <1>5
  <1>8. ValidStep(f, c)[n]
    BY <1>6, <1>7
  <1> HIDE DEF Is
  <1> QED BY <1>6, <1>8 DEF ValidStep

\* A leaf is its only leaf, and a child's leaves are among the parent's.
LEMMA LeavesIs ==
  ASSUME NEW c \in Condition
  PROVE  /\ Children(c) = {} => Leaves(c) = {c}
         /\ \A d \in Children(c) : Leaves(d) \subseteq Leaves(c)
  <1> DEFINE V == SUBSET Condition
             LeavesStep(f, d) == IF Children(d) = {} THEN {d}
                                 ELSE UNION {f[e] : e \in Children(d)}
             Is(f) == f = [d \in Condition |-> LeavesStep(f, d)]
             D == [g \in [Condition -> V] |-> [d \in Condition |-> LeavesStep(g, d)]]
             f == CHOOSE f : Is(f)
  <1>1. {} \in V /\ Height \in [Condition -> Nat]
    BY ConditionAssumption
  <1>2. D \in [[Condition -> V] -> [Condition -> V]]
    BY ChildType
  <1>3. \A g, h \in [Condition -> V], d \in Condition :
          (\A e \in Condition : Height[e] < Height[d] => g[e] = h[e]) => D[g][d] = D[h][d]
    <2>1. ASSUME NEW g, NEW h, NEW d \in Condition,
                 \A e \in Condition : Height[e] < Height[d] => g[e] = h[e]
          PROVE  LeavesStep(g, d) = LeavesStep(h, d)
      <3>1. \A e \in Children(d) : g[e] = h[e]
        BY <2>1, ChildType
      <3>2. {g[e] : e \in Children(d)} = {h[e] : e \in Children(d)}
        BY <3>1
      <3> QED BY <3>2
    <2>2. \A g \in [Condition -> V], d \in Condition : D[g][d] = LeavesStep(g, d)
      OBVIOUS
    <2> HIDE DEF D, V, LeavesStep
    <2> QED BY <2>1, <2>2
  <1>4. \E g \in [Condition -> V] : g = D[g]
    <2> HIDE DEF D, V
    <2>1. Descends(D, Condition, V, Height)
      BY <1>1, <1>2, <1>3 DEF Descends
    <2> QED BY <1>1, <2>1, Recursion
  <1>5. Is(f)
    <2>1. \E g : Is(g)
      BY <1>4
    <2> HIDE DEF Is
    <2> QED BY <2>1
  <1>6. \A d : Leaves(d) = f[d]
    BY DEF Leaves
  <1> HIDE DEF f
  <1>7. f[c] = LeavesStep(f, c)
    BY <1>5
  <1> QED BY <1>6, <1>7

\* A plain tree has one list at each node, and plain children.
LEMMA PlainIs ==
  ASSUME NEW c \in Condition, Plain(c)
  PROVE  (c.and = <<>> \/ c.or = <<>>) /\ \A d \in Children(c) : Plain(d)
  <1> DEFINE V == BOOLEAN
             PlainStep(f, d) ==
               (d.and = <<>> \/ d.or = <<>>) /\ \A e \in Children(d) : f[e]
             Is(f) == f = [d \in Condition |-> PlainStep(f, d)]
             D == [g \in [Condition -> V] |-> [d \in Condition |-> PlainStep(g, d)]]
             f == CHOOSE f : Is(f)
  <1>1. PICK v0 : v0 \in V /\ Height \in [Condition -> Nat]
    BY ConditionAssumption
  <1>2. D \in [[Condition -> V] -> [Condition -> V]]
    OBVIOUS
  <1>3. \A g, h \in [Condition -> V], d \in Condition :
          (\A e \in Condition : Height[e] < Height[d] => g[e] = h[e]) => D[g][d] = D[h][d]
    BY ChildType
  <1>4. \E g \in [Condition -> V] : g = D[g]
    <2> HIDE DEF D, V
    <2>1. Descends(D, Condition, V, Height)
      BY <1>1, <1>2, <1>3 DEF Descends
    <2> QED BY <1>1, <2>1, Recursion
  <1>5. Is(f)
    <2>1. \E g : Is(g)
      BY <1>4
    <2> HIDE DEF Is
    <2> QED BY <2>1
  <1>6. \A d : Plain(d) = f[d]
    BY DEF Plain
  <1> HIDE DEF f
  <1>7. f[c] = PlainStep(f, c)
    BY <1>5
  <1> QED BY <1>6, <1>7

\* The formula of a node is that of its kind.
LEMMA TruthIs ==
  ASSUME NEW p, NEW history, NEW assumed, NEW c \in Condition
  PROVE  /\ c.and # <<>> =>
              (Truth(p, history, c, assumed)
                 <=> \A i \in DOMAIN c.and : Truth(p, history, c.and[i], assumed))
         /\ c.and = <<>> /\ c.or # <<>> =>
              (Truth(p, history, c, assumed)
                 <=> \E i \in DOMAIN c.or : Truth(p, history, c.or[i], assumed))
         /\ c.and = <<>> /\ c.or = <<>> =>
              (Truth(p, history, c, assumed)
                 <=> \/ MatchLeaf(p, history, c) = "yes"
                     \/ MatchLeaf(p, history, c) = "error" /\ c \in assumed)
  <1> DEFINE V == BOOLEAN
             TruthStep(f, d) ==
               CASE d.and # <<>> -> \A i \in DOMAIN d.and : f[d.and[i]]
                 [] d.and = <<>> /\ d.or # <<>> -> \E i \in DOMAIN d.or : f[d.or[i]]
                 [] OTHER -> \/ MatchLeaf(p, history, d) = "yes"
                             \/ MatchLeaf(p, history, d) = "error" /\ d \in assumed
             Is(f) == f = [d \in Condition |-> TruthStep(f, d)]
             D == [g \in [Condition -> V] |-> [d \in Condition |-> TruthStep(g, d)]]
             f == CHOOSE f : Is(f)
  <1>1. PICK v0 : v0 \in V /\ Height \in [Condition -> Nat]
    BY ConditionAssumption
  <1>2. D \in [[Condition -> V] -> [Condition -> V]]
    OBVIOUS
  <1>3. \A g, h \in [Condition -> V], d \in Condition :
          (\A e \in Condition : Height[e] < Height[d] => g[e] = h[e]) => D[g][d] = D[h][d]
    BY ChildType
  <1>4. \E g \in [Condition -> V] : g = D[g]
    <2> HIDE DEF D, V
    <2>1. Descends(D, Condition, V, Height)
      BY <1>1, <1>2, <1>3 DEF Descends
    <2> QED BY <1>1, <2>1, Recursion
  <1>5. Is(f)
    <2>1. \E g : Is(g)
      BY <1>4
    <2> HIDE DEF Is
    <2> QED BY <2>1
  <1>6. \A d : Truth(p, history, d, assumed) = f[d]
    BY DEF Truth
  <1> HIDE DEF f
  <1>7. f[c] = TruthStep(f, c)
    BY <1>5
  <1> QED BY <1>6, <1>7

-----------------------------------------------------------------------------
\* What VerdictIsTruth says, of one tree and one set of assumed leaves.
Decided(p, history, c, assumed) ==
  IF Matches(p, history, c) = "error"
  THEN \E d \in Leaves(c) : IsLeaf(d) /\ MatchLeaf(p, history, d) = "error"
  ELSE Truth(p, history, c, assumed) <=> Matches(p, history, c) = "yes"

\* An and-node: every child before the first that is not "yes" is true, and that child
\* is false or fails.
LEMMA AndDecided ==
  ASSUME NEW p, NEW history, NEW assumed, NEW c \in Condition, c.and # <<>>,
         \A d \in Children(c) : Decided(p, history, d, assumed)
  PROVE  Decided(p, history, c, assumed)
  <1>1. PICK f \in [Condition -> Verdict] : \A d \in Condition :
          Matches(p, history, d) = f[d] /\ f[d] = MatchStep(p, history, f, d)
    BY MatchesIs
  <1> DEFINE rs == [i \in DOMAIN c.and |-> f[c.and[i]]]
             n == Len(c.and)
  <1>2. /\ n \in Nat /\ DOMAIN rs = 1 .. n /\ DOMAIN c.and = 1 .. n
        /\ \A i \in 1 .. n : rs[i] = Matches(p, history, c.and[i]) /\ c.and[i] \in Children(c)
        /\ \A i \in 1 .. n : rs[i] \in Verdict
    BY <1>1, ChildType DEF Children
  <1>3. Matches(p, history, c) = FirstOther(rs, "yes")
    BY <1>1 DEF MatchStep
  <1>4. Truth(p, history, c, assumed)
          <=> \A i \in DOMAIN c.and : Truth(p, history, c.and[i], assumed)
    BY TruthIs
  <1> HIDE DEF rs, n
  <1>5. CASE FirstOther(rs, "yes") = "yes" /\ \A i \in 1 .. n : rs[i] = "yes"
    BY <1>2, <1>3, <1>4, <1>5 DEF Decided
  <1>6. CASE \E i \in 1 .. n : FirstOther(rs, "yes") = rs[i] /\ rs[i] # "yes"
    <2>1. PICK i \in 1 .. n : FirstOther(rs, "yes") = rs[i] /\ rs[i] # "yes"
      BY <1>6
    <2>2. c.and[i] \in Children(c) /\ Decided(p, history, c.and[i], assumed)
      BY <1>2
    <2>3. Matches(p, history, c) = Matches(p, history, c.and[i])
      BY <1>2, <1>3, <2>1
    <2>4. CASE rs[i] = "error"
      BY <1>2, <2>2, <2>3, <2>4, LeavesIs DEF Decided
    <2>5. CASE rs[i] # "error"
      BY <1>2, <1>4, <2>1, <2>2, <2>3, <2>5 DEF Decided
    <2> QED BY <2>4, <2>5
  <1> QED BY <1>2, <1>5, <1>6, FirstOtherIs

\* An or-node: every child before the first that is not "no" is false, and that child is
\* true or fails.
LEMMA OrDecided ==
  ASSUME NEW p, NEW history, NEW assumed, NEW c \in Condition, c.and = <<>>, c.or # <<>>,
         \A d \in Children(c) : Decided(p, history, d, assumed)
  PROVE  Decided(p, history, c, assumed)
  <1>1. PICK f \in [Condition -> Verdict] : \A d \in Condition :
          Matches(p, history, d) = f[d] /\ f[d] = MatchStep(p, history, f, d)
    BY MatchesIs
  <1> DEFINE rs == [i \in DOMAIN c.or |-> f[c.or[i]]]
             n == Len(c.or)
  <1>2. /\ n \in Nat /\ DOMAIN rs = 1 .. n /\ DOMAIN c.or = 1 .. n
        /\ \A i \in 1 .. n : rs[i] = Matches(p, history, c.or[i]) /\ c.or[i] \in Children(c)
        /\ \A i \in 1 .. n : rs[i] \in Verdict
    BY <1>1, ChildType DEF Children
  <1>3. Matches(p, history, c) = FirstOther(rs, "no")
    BY <1>1 DEF MatchStep
  <1>4. Truth(p, history, c, assumed)
          <=> \E i \in DOMAIN c.or : Truth(p, history, c.or[i], assumed)
    BY TruthIs
  <1> HIDE DEF rs, n
  <1>5. CASE FirstOther(rs, "no") = "no" /\ \A i \in 1 .. n : rs[i] = "no"
    BY <1>2, <1>3, <1>4, <1>5 DEF Decided
  <1>6. CASE \E i \in 1 .. n : FirstOther(rs, "no") = rs[i] /\ rs[i] # "no"
    <2>1. PICK i \in 1 .. n : FirstOther(rs, "no") = rs[i] /\ rs[i] # "no"
      BY <1>6
    <2>2. c.or[i] \in Children(c) /\ Decided(p, history, c.or[i], assumed)
      BY <1>2
    <2>3. Matches(p, history, c) = Matches(p, history, c.or[i])
      BY <1>2, <1>3, <2>1
    <2>4. CASE rs[i] = "error"
      BY <1>2, <2>2, <2>3, <2>4, LeavesIs DEF Decided
    <2>5. CASE rs[i] # "error"
      <3>1. rs[i] = "yes"
        BY <1>2, <2>1, <2>5 DEF Verdict
      <3> QED BY <1>2, <1>4, <2>2, <2>3, <3>1 DEF Decided
    <2> QED BY <2>4, <2>5
  <1> QED BY <1>2, <1>5, <1>6, FirstOtherIs

\* A node without children that is recognised.
LEMMA LeafDecided ==
  ASSUME NEW p, NEW history, NEW assumed, NEW c \in Condition,
         c.and = <<>>, c.or = <<>>, IsLeaf(c)
  PROVE  Decided(p, history, c, assumed)
  <1>1. Matches(p, history, c) = MatchLeaf(p, history, c)
    BY MatchesIs DEF MatchStep
  <1>2. c \in Leaves(c)
    BY NoChildren, LeavesIs
  <1>3. CASE MatchLeaf(p, history, c) = "error"
    BY <1>1, <1>2, <1>3 DEF Decided
  <1>4. CASE MatchLeaf(p, history, c) # "error"
    BY <1>1, <1>4, TruthIs DEF Decided
  <1> QED BY <1>3, <1>4

\* Every plain tree that validateCondition lets through is decided by its formula.
LEMMA PlainIsDecided ==
  ASSUME NEW p, NEW history, NEW assumed
  PROVE  \A c \in Condition, n \in Nat : Valid(c, n) /\ Plain(c) => Decided(p, history, c, assumed)
  <1> DEFINE Bad == {c \in Condition : /\ \E n \in Nat : Valid(c, n)
                                       /\ Plain(c) /\ ~ Decided(p, history, c, assumed)}
  <1>1. SUFFICES ASSUME Bad # {} PROVE FALSE
    OBVIOUS
  <1>2. PICK c \in Bad : \A d \in Condition : Height[d] < Height[c] => d \notin Bad
    <2>1. Bad \subseteq Condition /\ Height \in [Condition -> Nat]
      BY ConditionAssumption
    <2> HIDE DEF Bad
    <2> QED BY <1>1, <2>1, LeastOfRank
  <1>3. PICK n \in Nat : Valid(c, n)
    BY <1>2
  <1>4. ASSUME NEW d \in Children(c) PROVE Decided(p, history, d, assumed)
    <2>1. d \in Condition /\ Height[d] < Height[c] /\ Valid(d, n + 1) /\ Plain(d) /\ n + 1 \in Nat
      BY <1>2, <1>3, ChildType, ValidIs, PlainIs
    <2> QED BY <1>2, <2>1
  <1>5. c.and = <<>> /\ c.or = <<>> => IsLeaf(c)
    BY <1>3, ValidIs DEF IsBranch, IsLeaf
  <1>6. Decided(p, history, c, assumed)
    BY <1>4, <1>5, AndDecided, OrDecided, LeafDecided
  <1> QED BY <1>2, <1>6

-----------------------------------------------------------------------------
\* What is accepted is valid, and what is decided is what Matches says.
EvalInv ==
  /\ cond \in Condition
  /\ accepted => Valid(cond, 0)
  /\ verdict # None => accepted /\ verdict = Matches(who, events, cond)

\* ParseCondition is the only way to the evaluation (query_parser.go, evaluator.go).
THEOREM EvalInvariant == CondSpec => []EvalInv
  <1>1. CondInit => EvalInv
    BY DEF CondInit, EvalInv
  <1>2. EvalInv /\ [CondNext]_vars => EvalInv'
    BY DEF EvalInv, CondNext, Parse, Evaluate, vars
  <1> QED BY <1>1, <1>2, PTL DEF CondSpec

\* VerdictIsTruth, for every set of trees, profile and history: a tree that passed
\* ParseCondition is evaluated to the truth of its formula, whatever the leaves that fail
\* would have been (evaluator.go, Matches; query_parser.go, validateCondition).
THEOREM TruthOfVerdicts == CondSpec => []VerdictIsTruth
  <1>1. ASSUME EvalInv PROVE VerdictIsTruth
    <2> SUFFICES ASSUME verdict # None, Plain(cond) PROVE VerdictIsTruth
      BY DEF VerdictIsTruth
    <2>1. cond \in Condition /\ Valid(cond, 0) /\ verdict = Matches(who, events, cond)
      BY <1>1 DEF EvalInv
    <2>2. \A assumed : Decided(who, events, cond, assumed)
      BY <2>1, PlainIsDecided
    <2> QED BY <2>1, <2>2 DEF VerdictIsTruth, Decided
  <1> QED BY <1>1, EvalInvariant, PTL

=============================================================================
