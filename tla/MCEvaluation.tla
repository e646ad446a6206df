----------------------------- MODULE MCEvaluation -----------------------------
(* Small trees and profiles for Evaluation. *)
EXTENDS Evaluation, TLC

CONSTANTS age, vip, purchase

Num(n)  == [kind |-> "num", v |-> n]
Text(s) == [kind |-> "text", v |-> s]
List(S) == [kind |-> "list", v |-> S]

Values == {Num(17), Num(18), Text("18")}

Node == [and |-> <<>>, or |-> <<>>, trait |-> None, attr |-> None, tag |-> None,
         event |-> None, days |-> 0, op |-> "", value |-> Text(""), gte |-> None,
         lte |-> None]

And(s) == [Node EXCEPT !.and = s]
Or(s)  == [Node EXCEPT !.or = s]

TagLeaf    == [Node EXCEPT !.tag = vip]
Adult      == [Node EXCEPT !.attr = age, !.op = "gte", !.value = Num(18)]
NotAge17   == [Node EXCEPT !.trait = age, !.op = "ne", !.value = Num(17)]
OneOf      == [Node EXCEPT !.attr = age, !.op = "in", !.value = List({Num(17), Text("18")})]
Bought     == [Node EXCEPT !.event = purchase, !.op = "count"]
BoughtOnce == [Bought EXCEPT !.gte = 1, !.lte = 1, !.days = 7]
NoOp       == [Node EXCEPT !.attr = age]
BadOp      == [Node EXCEPT !.attr = age, !.op = "like"]
Mixed      == [And(<<TagLeaf>>) EXCEPT !.tag = vip]

Leaf == {TagLeaf, Adult, NotAge17, OneOf, Bought, BoughtOnce, NoOp, BadOp, Mixed, Node}

\* The leaves that two-level trees are built from.
Core == {TagLeaf, Adult, BoughtOnce}

Lists(S) == {<<x>> : x \in S} \cup (S \X S)

Flat == {And(s) : s \in Lists(Leaf)} \cup {Or(s) : s \in Lists(Leaf)}
CoreFlat == {And(s) : s \in Core \X Core} \cup {Or(s) : s \in Core \X Core}
Deep == {And(s) : s \in Lists(CoreFlat \cup {Adult})}
          \cup {Or(s) : s \in Lists(CoreFlat \cup {Adult})}
TooDeep == {And(<<Or(<<c>>)>>) : c \in CoreFlat}

Both == [And(<<Adult>>) EXCEPT !.or = <<TagLeaf>>]

AllTrees == {t : t \in Leaf \cup Flat \cup Deep \cup TooDeep \cup {Both}}

\* TLC evaluates what a constant is replaced by again and again, AllTrees but once.
Trees == AllTrees

\* Their heights.
HeightOf[c \in Trees] ==
  IF Children(c) = {} THEN 0
  ELSE 1 + CHOOSE h \in {HeightOf[d] : d \in Children(c)} :
             \A d \in Children(c) : HeightOf[d] <= h

Map(m)   == [kind |-> "map", map |-> m]
Nil      == [kind |-> "nil", map |-> NoKeys]
People   == {[docs |-> (Traits :> d @@ Attributes :> d), tags |-> t] :
               d \in {Nil} \cup {Map(age :> v) : v \in Values}, t \in {{}, {vip}}}
Buys(n)  == [type |-> purchase, age |-> n]
Pasts    == {None, {}, {Buys(3)}, {Buys(3), Buys(20)}, {Buys(40)}}
=============================================================================
