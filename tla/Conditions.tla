------------------------------ MODULE Conditions ------------------------------
(***************************************************************************)
(* The condition trees of internal/audience: validateCondition, which      *)
(* CreateAudience applies before it stores a tree, and Evaluator.Matches,  *)
(* which the consumers run on profiles.                                    *)
(*                                                                         *)
(* A node is the Go struct with None for an empty field; a tree is its     *)
(* root.  Values are typed as json.Unmarshal types them: numbers, lists    *)
(* and others.  The spellings of an operator ("=", "eq") are one.  Events  *)
(* are what is in cdp_events of the profile, their types and their ages in *)
(* days, or None if the count fails.                                       *)
(***************************************************************************)
EXTENDS ProfileData, Naturals, Sequences, FiniteSets

CONSTANTS
  Condition,           \* the trees that JSON texts spell out, with their subtrees
  Height,              \* tree -> its height, as a text is finite
  Traits, Attributes,  \* two of the fields
  MaxDepth,            \* maxDepth
  DefaultDays          \* the window of an event condition that names none, or 0 or less

Verdict == {"yes", "no", "error"}

IsBranch(c) == c.and # <<>> \/ c.or # <<>>
IsLeaf(c)   == \E f \in {"trait", "attr", "tag", "event"} : c[f] # None
Children(c) == {c.and[i] : i \in DOMAIN c.and} \cup {c.or[i] : i \in DOMAIN c.or}

ASSUME ConditionAssumption ==
  /\ MaxDepth \in Nat
  /\ Height \in [Condition -> Nat]
  /\ \A c \in Condition :
       /\ c.and \in Seq(Condition) /\ c.or \in Seq(Condition)
       /\ \A d \in Children(c) : Height[d] < Height[c]

\* validateCondition of a node at a depth returns no error.
Valid(c, depth) ==
  LET valid[d \in Condition] == [n \in Nat |->
        /\ n <= MaxDepth
        /\ IsBranch(d) # IsLeaf(d)
        /\ \A e \in Children(d) : valid[e][n + 1]
        /\ IsLeaf(d) /\ d.tag = None => d.op # ""]
  IN valid[c][depth]

-----------------------------------------------------------------------------
Answer(b) == IF b THEN "yes" ELSE "no"

Contains(list, v) == list.kind = "list" /\ v \in list.v

\* compare: numbers only where an order is asked for.
Compare(actual, op, expected) ==
  CASE op = "eq"     -> Answer(actual = expected)
    [] op = "ne"     -> Answer(actual # expected)
    [] op = "in"     -> Answer(Contains(expected, actual))
    [] op = "not_in" -> Answer(~ Contains(expected, actual))
    [] op \in {"gt", "lt", "gte", "lte"} ->
         IF actual.kind # "num" \/ expected.kind # "num" THEN "error"
         ELSE Answer(CASE op = "gt"  -> actual.v > expected.v
                       [] op = "lt"  -> actual.v < expected.v
                       [] op = "gte" -> actual.v >= expected.v
                       [] op = "lte" -> actual.v <= expected.v)
    [] OTHER -> "error"

\* A key that the map does not have matches nothing, not even "ne".
CompareKey(doc, key, c) ==
  IF key \in DOMAIN doc.map THEN Compare(doc.map[key], c.op, c.value) ELSE "no"

\* CountEvents in the window of c.
CountOf(events, c) ==
  Cardinality({e \in events : e.type = c.event
                              /\ e.age <= IF c.days <= 0 THEN DefaultDays ELSE c.days})

\* Without bounds every count is good, 0 as well.
CountMatches(n, c) ==
  Answer((c.gte = None \/ n >= c.gte) /\ (c.lte = None \/ n <= c.lte))

\* Matches of a leaf: the first field that is set decides.  The count may fail.
MatchLeaf(p, events, c) ==
  CASE c.tag # None   -> Answer(c.tag \in p.tags)
    [] c.trait # None -> CompareKey(p.docs[Traits], c.trait, c)
    [] c.attr # None  -> CompareKey(p.docs[Attributes], c.attr, c)
    [] c.event # None -> IF events = None THEN "error"
                         ELSE CountMatches(CountOf(events, c), c)
    [] OTHER          -> "error"

\* Mutant: children that fail are passed over.
FirstOtherLenient(rs, r) ==
  IF \A i \in DOMAIN rs : rs[i] \in {r, "error"} THEN r
  ELSE CHOOSE v \in {"yes", "no"} : v # r

\* The first of the verdicts that is not r, or r: the loops of Matches, which
\* stop at the first child that decides or fails.
FirstOther(rs, r) ==
  IF \A i \in DOMAIN rs : rs[i] = r THEN r
  ELSE rs[CHOOSE i \in DOMAIN rs : rs[i] # r /\ \A j \in 1 .. i - 1 : rs[j] = r]

\* Evaluator.Matches: "and" before "or" before the leaf's fields.
Matches(p, events, c) ==
  LET matches[d \in Condition] ==
        CASE d.and # <<>> -> FirstOther([i \in DOMAIN d.and |-> matches[d.and[i]]], "yes")
          [] d.and = <<>> /\ d.or # <<>> ->
               FirstOther([i \in DOMAIN d.or |-> matches[d.or[i]]], "no")
          [] OTHER -> MatchLeaf(p, events, d)
  IN matches[c]

=============================================================================
