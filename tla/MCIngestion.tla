----------------------------- MODULE MCIngestion -----------------------------
(* Small topics and audiences for Ingestion; their conditions are real trees. *)
EXTENDS Ingestion, TLC

CONSTANTS
  external_ids, attributes, traits,      \* fields
  uid, idfa, gaid,                       \* keys of external_ids
  last_ad_source, install_source, has_purchase,
  vip,                                   \* a tag
  ads, installs, bills, tags,            \* topics
  fromA, tagged, buyers, hand, broken    \* audiences

Str(s) == [kind |-> "text", v |-> s]
a == Str(<<"a">>)
b == Str(<<"b">>)
x == Str(<<"x">>)
none == Str(<<>>)
yes  == [kind |-> "bool", v |-> <<>>]
Values    == {a, b, x, none, yes}
Spellings == [v \in Values \ {yes} |-> v.v]
SortedKeys == <<gaid, idfa, uid>>

Leaf == [and |-> <<>>, or |-> <<>>, trait |-> None, attr |-> None, tag |-> None,
         event |-> None, days |-> 0, op |-> "", value |-> a, gte |-> None, lte |-> None]

Tree ==
  fromA :> [Leaf EXCEPT !.attr = last_ad_source, !.op = "eq"]
    @@ tagged :> [Leaf EXCEPT !.tag = vip]
    @@ buyers :> [Leaf EXCEPT !.event = "purchase", !.op = "count", !.gte = 2]
    @@ hand   :> [Leaf EXCEPT !.tag = vip]
    \* asks for an order, which texts do not have
    @@ broken :> [Leaf EXCEPT !.attr = last_ad_source, !.op = "gt"]

Trees == {Tree[aud] : aud \in DOMAIN Tree}

C == INSTANCE Conditions WITH MaxDepth <- 10, DefaultDays <- 30,
                              Condition <- Trees, Height <- [c \in Trees |-> 0]

\* n different events, a day old.
Bought(n) == {[type |-> "purchase", age |-> 1, no |-> i] : i \in 1 .. n}

\* What the trees look at: one attribute, the tags and the events.
Seen == [attrs : {NoKeys} \cup {last_ad_source :> v : v \in {a, b}}, tags : SUBSET Tag]

Verdicts ==
  [aud \in Audience |-> [s \in Seen |-> [n \in 0 .. MaxEvents |->
     C!Matches([docs |-> [f \in Field |-> GoMapOf(IF f = attributes THEN s.attrs ELSE NoKeys)],
                tags |-> s.tags], Bought(n), Tree[aud])]]]

TreeMatch(aud, p, n) == Verdicts[aud][[attrs |-> p.docs[attributes].map, tags |-> p.tags]][n]

-----------------------------------------------------------------------------
\* The messages of the topics, and one that is not JSON.
Ad(ids, source, type) ==
  [bad |-> FALSE, ids |-> ids, source |-> source, type |-> type, tags |-> {}]
Buy(ids, source) == Ad(ids, source, "purchase")
View(ids)        == Ad(ids, a, "view")
Install(ids, s)  == Ad(ids, s, None)
Bill(ids)        == Ad(ids, none, None)
Tagging(ids)     == [Bill(ids) EXCEPT !.tags = {vip}]
NoJson           == [Bill(uid :> x) EXCEPT !.bad = TRUE]

\* The same text as a uid and as a device id.
X1 == uid :> x
X2 == idfa :> x

AdsAndBill == ads :> <<Buy(X1, a), Buy(X1, b)>> @@ bills :> <<Bill(X1)>>
AdsAndTag  == ads :> <<View(X1), View(X1)>> @@ tags :> <<Tagging(X1)>>
OnlyAds    == ads :> <<Buy(X1, a), View(X2), NoJson, Buy(X1, b)>>
OneInstall == installs :> <<Install(X2, a)>>

KindOf  == ads :> "events" @@ installs :> "installs" @@ bills :> "billing" @@ tags :> "tags"
KindsOf == [t \in Topic |-> KindOf[t]]

\* What they are about.
IdsOfLog == {Map(KindOf[t], Log[t][n]).id : <<t, n>> \in
               {y \in Topic \X (1 .. 9) : y[2] <= Len(Log[y[1]])}}

NoOne     == {}
NoFaults  == {}
AllFaults == {"db", "crash", "stop"}
AllOthers == {"upsert", "event", "tag", "merge", "age"}

\* An attribute set through HTTP, with every map spelled out; the tag lists of a journey.
Touch   == {[docs |-> [f \in Field |->
                         GoMapOf(IF f = attributes THEN last_ad_source :> b ELSE NoKeys)],
             tags |-> {}]}
Retag   == {{}, {vip}}
=============================================================================
