------------------------------ MODULE MCJourney ------------------------------
(* Small journeys for Journey. *)
EXTENDS Journey, TLC

CONSTANTS
  j1, j2, j3, j4,                              \* journeys
  tag, cond, hook, bad, turn, nap, msg, gone   \* step ids

StepOf(type, action, next, long) ==
  [type |-> type, action |-> action, next |-> next, long |-> long]

\* j1 is tag, cond; tag has a second successor, which is never taken.  j2 is hook,
\* whose successor is not there.  j3 is bad and then turn, a short wait that is its own
\* successor.
SmallSteps ==
  tag :> StepOf("action", "tag", <<cond, gone>>, FALSE)
    @@ cond :> StepOf("condition", "none", <<>>, FALSE)
    @@ hook :> StepOf("action", "webhook", <<gone>>, FALSE)
    @@ bad :> StepOf("action", "invalid", <<turn>>, FALSE)
    @@ turn :> StepOf("wait", "none", <<turn>>, FALSE)

Starts == j1 :> tag @@ j2 :> hook @@ j3 :> bad

\* bound: only j1 is entered twice.
EntriesOf == j1 :> 2 @@ j2 :> 1 @@ j3 :> 1

\* j4 is tag, nap, a wait longer than the deadline, and msg.
WaitSteps ==
  tag :> StepOf("action", "tag", <<nap>>, FALSE)
    @@ nap :> StepOf("wait", "none", <<msg>>, TRUE)
    @@ msg :> StepOf("action", "message", <<>>, FALSE)

WaitStart   == j4 :> tag
WaitEntries == j4 :> 1

NoFaults  == {}
AllFaults == {"db", "hook", "deadline", "crash"}
=============================================================================
