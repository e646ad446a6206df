------------------------------ MODULE Evaluation ------------------------------
(***************************************************************************)
(* A condition tree on its way through the service: ParseCondition accepts *)
(* or rejects it, then Evaluator.Matches is run on a profile.              *)
(***************************************************************************)
EXTENDS Conditions

CONSTANTS
  Profiles,    \* the profiles that the trees are tried on
  Histories    \* with these events

VARIABLES
  cond, who, events,  \* a tree, a profile and its events
  accepted,           \* the tree has passed ParseCondition
  verdict             \* of the evaluation, None before it

vars == <<cond, who, events, accepted, verdict>>

CondInit ==
  /\ cond \in Condition /\ who \in Profiles /\ events \in Histories
  /\ accepted = FALSE /\ verdict = None

\* ParseCondition.
Parse ==
  /\ verdict = None /\ ~accepted
  /\ Valid(cond, 0) /\ accepted' = TRUE
  /\ UNCHANGED <<cond, who, events, verdict>>

Evaluate ==
  /\ accepted /\ verdict = None
  /\ verdict' = Matches(who, events, cond)
  /\ UNCHANGED <<cond, who, events, accepted>>

CondNext == Parse \/ Evaluate

CondSpec == CondInit /\ [][CondNext]_vars

-----------------------------------------------------------------------------
\* The leaves of a tree.
Leaves(c) ==
  LET leaves[d \in Condition] ==
        IF Children(d) = {} THEN {d} ELSE UNION {leaves[e] : e \in Children(d)}
  IN leaves[c]

\* No node of the tree has both lists.
Plain(c) ==
  LET plain[d \in Condition] ==
        (d.and = <<>> \/ d.or = <<>>) /\ \A e \in Children(d) : plain[e]
  IN plain[c]

\* The meaning of a plain tree as a formula; of the leaves that cannot be evaluated,
\* those in assumed hold.
Truth(p, history, c, assumed) ==
  LET truth[d \in Condition] ==
        CASE d.and # <<>> -> \A i \in DOMAIN d.and : truth[d.and[i]]
          [] d.and = <<>> /\ d.or # <<>> -> \E i \in DOMAIN d.or : truth[d.or[i]]
          [] OTHER -> LET r == MatchLeaf(p, history, d) IN
                      r = "yes" \/ (r = "error" /\ d \in assumed)
  IN truth[c]

\* A tree that passed ParseCondition is evaluated to the truth of its formula,
\* whatever the leaves that could not be evaluated would have been; it fails only
\* because of such a leaf, never because a node is not recognised
\* (evaluator.go, Matches; query_parser.go, validateCondition).
VerdictIsTruth ==
  verdict # None /\ Plain(cond) =>
    LET unknown == {c \in Leaves(cond) : MatchLeaf(who, events, c) = "error"} IN
    IF verdict = "error" THEN \E c \in unknown : IsLeaf(c)
    ELSE \A assumed \in SUBSET unknown :
           Truth(who, events, cond, assumed) <=> (verdict = "yes")

=============================================================================
