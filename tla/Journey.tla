------------------------------- MODULE Journey -------------------------------
(***************************************************************************)
(* internal/journey: journeys, their instances in cdp_journey_instances    *)
(* and the goroutines that drive them.  Orchestrator.Enter upserts the     *)
(* user's instance and starts a goroutine, which alternates between        *)
(* "advance" (run the current step) and "move" (write the next step or the *)
(* completion), until it returns.  Nothing else ever resumes an instance:  *)
(* a goroutine that stops leaves it where it is.                           *)
(*                                                                         *)
(* A step id belongs to one journey.  A member is a user in a journey, the *)
(* key of an instance.                                                     *)
(*                                                                         *)
(* Faults selects what may go wrong:                                       *)
(*   "db"        a statement fails, applied or not;                        *)
(*   "hook"      the receiver of a webhook does not answer well;           *)
(*   "deadline"  the 30 seconds of a goroutine's context run out;          *)
(*   "crash"     the process stops, and with it every goroutine.           *)
(***************************************************************************)
EXTENDS Naturals, Sequences, FiniteSets

CONSTANTS
  Journey,   \* journeys
  User,      \* canonical ids
  Runner,    \* goroutines that may run at the same time
  Step,      \* step ids that the journeys define
  StepId,    \* those and the ids that are only referred to
  Steps,     \* buildStepMap: step -> its type, its successors, its duration and its
             \* action; the branches of a condition are read by nothing
  Start,     \* journey -> the id of its first step, outside Step if it has none
  Entries,   \* bound: journey -> how often a user is entered into it
  Faults,    \* SUBSET {"db", "hook", "deadline", "crash"}
  None       \* no instance, no member, no step

StepType == {"action", "wait", "condition"}

\* Action.Kind: "invalid" is any other, and a tag or a webhook whose payload has not
\* what it needs; "none" is a step without an action.
ActionKind == {"tag", "webhook", "message", "invalid", "none"}

ASSUME JourneyAssumption ==
  /\ Step \subseteq StepId
  /\ Start \in [Journey -> StepId]
  /\ Steps \in [Step -> [type : StepType, next : Seq(StepId), long : BOOLEAN,
                        action : ActionKind]]
  /\ Entries \in [Journey -> Nat]
  /\ None \notin [step : StepId, completed : BOOLEAN]

Member == Journey \X User

\* The first step of the member's journey.
First(m) == Start[m[1]]

VARIABLES
  status,     \* cdp_journeys: journey -> "absent", "active" or "draft", any other status
  instances,  \* member -> row of cdp_journey_instances or None
  run,        \* runner -> the goroutine
  entries,    \* member -> how often it was entered, up to Entries
  visited,    \* history: member -> the steps that some goroutine has run
  sent,       \* history: member -> step -> how often its action took effect
  failed,     \* history: member -> the steps whose action returned an error
  lost        \* history: members for whom a goroutine was cut short, or not started,
              \* since they were entered last

vars == <<status, instances, run, entries, visited, sent, failed, lost>>

Instance == [step : StepId, completed : BOOLEAN]

\* late: its context is done.  trail is history: the steps it has reached.
Run == [pc : {"idle", "advance", "move"}, member : Member \cup {None},
        step : StepId \cup {None}, late : BOOLEAN, trail : SUBSET StepId]

Stopped == [pc |-> "idle", member |-> None, step |-> None, late |-> FALSE, trail |-> {}]

JourneyTypeOK ==
  /\ status \in [Journey -> {"absent", "draft", "active"}]
  /\ instances \in [Member -> Instance \cup {None}]
  /\ run \in [Runner -> Run]
  /\ entries \in [Member -> Nat]
  /\ visited \in [Member -> SUBSET StepId]
  /\ sent \in [Member -> [Step -> Nat]]
  /\ failed \in [Member -> SUBSET Step]
  /\ lost \subseteq Member

JourneyInit ==
  /\ status = [j \in Journey |-> "absent"]
  /\ instances = [m \in Member |-> None]
  /\ run = [r \in Runner |-> Stopped]
  /\ entries = [m \in Member |-> 0]
  /\ visited = [m \in Member |-> {}]
  /\ sent = [m \in Member |-> [s \in Step |-> 0]]
  /\ failed = [m \in Member |-> {}]
  /\ lost = {}

\* moveToNext looks at the first successor only.
HasNext(s) == Steps[s].next # <<>>
NextOf(s)  == Head(Steps[s].next)

\* Mutant: the INSERT leaves current_step out.
AtStepNull(inst, s) ==
  IF inst = None THEN [step |-> None, completed |-> FALSE] ELSE [inst EXCEPT !.step = s]

\* UpsertInstance of an instance at step s: completed_at is left as it is.
AtStep(inst, s) ==
  IF inst = None THEN [step |-> s, completed |-> FALSE] ELSE [inst EXCEPT !.step = s]

-----------------------------------------------------------------------------
\* CreateJourney, with the status of the request.
CreateJourney(j) ==
  /\ status[j] = "absent"
  /\ \E new \in {"draft", "active"} : status' = [status EXCEPT ![j] = new]
  /\ UNCHANGED <<instances, run, entries, visited, sent, failed, lost>>

\* ActivateJourney, whatever the status was; of a journey that is not there it changes
\* no row, and says that it did.
Activate(j) ==
  /\ status[j] # "absent"
  /\ status' = [status EXCEPT ![j] = "active"]
  /\ UNCHANGED <<instances, run, entries, visited, sent, failed, lost>>

\* Enter: the journey is active, the instance is upserted at the first step and a
\* goroutine starts.  With a failed upsert, applied or not, none does.
Enter(r, m) ==
  /\ status[m[1]] = "active"
  /\ entries[m] < Entries[m[1]]
  /\ entries' = [entries EXCEPT ![m] = @ + 1]
  /\ run[r].pc = "idle"
  /\ \/ /\ instances' = [instances EXCEPT ![m] = AtStep(@, First(m))]
        /\ run' = [run EXCEPT ![r] = [pc |-> "advance", member |-> m, step |-> First(m),
                                      late |-> FALSE, trail |-> {First(m)}]]
        /\ lost' = lost \ {m}
     \/ /\ "db" \in Faults
        /\ \/ UNCHANGED <<instances, lost>>
           \/ /\ instances' = [instances EXCEPT ![m] = AtStep(@, First(m))]
              /\ lost' = lost \cup {m}
        /\ UNCHANGED run
  /\ UNCHANGED <<status, visited, sent, failed>>

\* Goroutine r returns before its journey's end.
Lose(r) ==
  /\ run' = [run EXCEPT ![r] = Stopped]
  /\ lost' = lost \cup {run[r].member}

\* A step that executes something.
Acts(s) == Steps[s].type = "action" /\ Steps[s].action # "none"

\* The fault that makes a well-formed action of the step fail, done or not.
FaultOf(s) == IF Steps[s].action = "tag" THEN "db" ELSE "hook"

\* Execute: whether the action takes effect and whether it returns an error.  Of those
\* with a context nothing is sent when it is done; a message is only logged.
Execute(s, late) ==
  IF Steps[s].action = "message" THEN {[acts |-> TRUE, fails |-> FALSE]}
  ELSE IF Steps[s].action = "invalid" \/ late THEN {[acts |-> FALSE, fails |-> TRUE]}
  ELSE {[acts |-> TRUE, fails |-> FALSE]} \cup
       (IF FaultOf(s) \in Faults THEN [acts : BOOLEAN, fails : {TRUE}] ELSE {})

\* A wait that sleeps past the deadline.
LongWait(s) == Steps[s].type = "wait" /\ Steps[s].long

\* advance after what the step does: the goroutine goes on to moveToNext.
Proceed(r) == run' = [run EXCEPT ![r].pc = "move", ![r].late = @ \/ LongWait(run[r].step)]

\* Mutant: the goroutine returns at a condition, whose branch nobody evaluates.
PassConditionStops(r) ==
  /\ run[r].pc = "advance" /\ run[r].step \in Step /\ ~Acts(run[r].step)
  /\ visited' = [visited EXCEPT ![run[r].member] = @ \cup {run[r].step}]
  /\ IF Steps[run[r].step].type = "condition"
     THEN run' = [run EXCEPT ![r] = Stopped] ELSE Proceed(r)
  /\ UNCHANGED <<status, instances, entries, sent, failed, lost>>

\* advance, a wait or a condition, whose branch is not looked at, or no action.
Pass(r) ==
  /\ run[r].pc = "advance" /\ run[r].step \in Step /\ ~Acts(run[r].step)
  /\ visited' = [visited EXCEPT ![run[r].member] = @ \cup {run[r].step}]
  /\ Proceed(r)
  /\ UNCHANGED <<status, instances, entries, sent, failed, lost>>

\* advance, an action: its error is logged and ignored.
Act(r) ==
  /\ run[r].pc = "advance" /\ run[r].step \in Step /\ Acts(run[r].step)
  /\ LET m == run[r].member
         s == run[r].step IN
     \E o \in Execute(s, run[r].late) :
       /\ sent' = IF o.acts /\ sent[m][s] <= Entries[m[1]]
                  THEN [sent EXCEPT ![m][s] = @ + 1] ELSE sent
       /\ failed' = IF o.fails THEN [failed EXCEPT ![m] = @ \cup {s}] ELSE failed
       /\ visited' = [visited EXCEPT ![m] = @ \cup {s}]
  /\ Proceed(r)
  /\ UNCHANGED <<status, instances, entries, lost>>

\* advance, no such step: "already at the end", and nothing is completed.
RunOff(r) ==
  /\ run[r].pc = "advance" /\ run[r].step \notin Step
  /\ Lose(r)
  /\ UNCHANGED <<status, instances, entries, visited, sent, failed>>

\* Mutant: the last successor is taken.
MovedToLast(inst, s) ==
  IF HasNext(s) THEN AtStep(inst, Steps[s].next[Len(Steps[s].next)])
  ELSE [inst EXCEPT !.completed = TRUE]

\* What moveToNext writes for the goroutine's step.
Moved(inst, s) ==
  IF HasNext(s) THEN AtStep(inst, NextOf(s)) ELSE [inst EXCEPT !.completed = TRUE]

\* moveToNext: the next step is written and run, or the instance is completed.
MoveToNext(r) ==
  /\ run[r].pc = "move" /\ ~run[r].late
  /\ LET s == run[r].step IN
     /\ instances' = [instances EXCEPT ![run[r].member] = Moved(@, s)]
     /\ run' = IF HasNext(s)
               THEN [run EXCEPT ![r].pc = "advance", ![r].step = NextOf(s),
                                ![r].trail = @ \cup {NextOf(s)}]
               ELSE [run EXCEPT ![r] = Stopped]
  /\ UNCHANGED <<status, entries, visited, sent, failed, lost>>

\* Mutant: a goroutine that fails to move runs the step again.
MoveFailsRetry(r) ==
  /\ run[r].pc = "move" /\ "db" \in Faults
  /\ run' = [run EXCEPT ![r].pc = "advance"]
  /\ UNCHANGED <<status, instances, entries, visited, sent, failed, lost>>

\* Mutant: a goroutine that ends completes the instance, however it ended.
MoveFailsCompletes(r) ==
  /\ run[r].pc = "move" /\ (run[r].late \/ "db" \in Faults)
  /\ instances' = [instances EXCEPT ![run[r].member].completed = TRUE]
  /\ Lose(r)
  /\ UNCHANGED <<status, entries, visited, sent, failed>>

\* moveToNext, its statement fails (it is not even sent when the context is done):
\* advance returns the error, the goroutine logs it and ends.
MoveFails(r) ==
  /\ run[r].pc = "move"
  /\ \/ run[r].late /\ UNCHANGED instances
     \/ /\ "db" \in Faults /\ ~run[r].late
        /\ instances' \in {instances,
                           [instances EXCEPT ![run[r].member] = Moved(@, run[r].step)]}
  /\ Lose(r)
  /\ UNCHANGED <<status, entries, visited, sent, failed>>

\* The context of a goroutine is done.
TimeOut(r) ==
  /\ "deadline" \in Faults
  /\ run[r].pc # "idle" /\ ~run[r].late
  /\ run' = [run EXCEPT ![r].late = TRUE]
  /\ UNCHANGED <<status, instances, entries, visited, sent, failed, lost>>

\* The process stops and is started again: no goroutine is resumed.
Crash ==
  /\ "crash" \in Faults
  /\ \E r \in Runner : run[r].pc # "idle"
  /\ run' = [r \in Runner |-> Stopped]
  /\ lost' = lost \cup {run[r].member : r \in {q \in Runner : run[q].pc # "idle"}}
  /\ UNCHANGED <<status, instances, entries, visited, sent, failed>>

-----------------------------------------------------------------------------
Drive(r) == Pass(r) \/ Act(r) \/ RunOff(r) \/ MoveToNext(r) \/ MoveFails(r)

JourneyNext ==
  \/ \E j \in Journey : CreateJourney(j) \/ Activate(j)
  \/ \E r \in Runner : (\E m \in Member : Enter(r, m)) \/ Drive(r) \/ TimeOut(r)
  \/ Crash

JourneySpec == JourneyInit /\ [][JourneyNext]_vars

\* A goroutine is scheduled, its statements return, well or with an error, and its
\* sleeps end.  One that does not return has its context done after 30 seconds, if
\* these are among the faults.
FairJourneySpec ==
  /\ JourneySpec
  /\ \A r \in Runner : WF_vars(Drive(r)) /\ WF_vars(TimeOut(r))

-----------------------------------------------------------------------------
Completed(m) == instances[m] # None /\ instances[m].completed

\* S has the successor of each of its steps.
Closed(S) == \A s \in S \cap Step : HasNext(s) => NextOf(s) \in S

\* Every step from the first to the last has been run for the user, and each action
\* among them has taken effect or its error was logged.
Done(m) ==
  \E S \in SUBSET visited[m] :
    /\ First(m) \in S /\ Closed(S)
    /\ \A s \in S \cap Step : Acts(s) => sent[m][s] > 0 \/ s \in failed[m]

\* A journey is completed for a user only when all of it has been done for that user,
\* whatever goroutines were lost on the way and however often the user was entered
\* (orchestrator.go, advance and moveToNext; action.go, Execute).
CompletedMeansDone == \A m \in Member : Completed(m) => Done(m)

\* The instance of a user who is entered once moves only from a step to its first
\* successor, whatever fails: no step is skipped or gone back to, unless the journey
\* has a cycle (orchestrator.go, moveToNext).
StepsForward ==
  [][\A m \in Member :
       entries'[m] <= 1 /\ instances[m] # None /\ instances'[m].step # instances[m].step =>
         LET s == instances[m].step IN
         s \in Step /\ HasNext(s) /\ instances'[m].step = NextOf(s)]_vars

\* Each entry of a user into a journey whose actions lie on no cycle makes each take effect
\* at most once: what fails is not tried again (orchestrator.go, advance).
ActionsPerEntry == \A m \in Member, s \in Step : sent[m][s] <= entries[m]

\* A user who has entered a journey gets to its end, unless a goroutine was cut
\* short by an error, its deadline, a crash or a step that is not there; one that
\* goes round a cycle is cut short by its deadline (orchestrator.go, Enter and
\* advance).  Instances are never deleted, so that it is enough to be there again and
\* again.
EnteredCompletes ==
  \A m \in Member : []<>(instances[m] # None => Completed(m) \/ m \in lost)

\* A user who has entered a journey gets to its end, whatever its waits: the journey
\* goes on after them (docs/architecture.md, section 3.1 and the 24 hours of section
\* 3.2).  Without faults this fails at a wait longer than the 30 seconds of the
\* goroutine: the statement behind it is refused, and nothing resumes the instance
\* (orchestrator.go, Enter and advance).
WaitsArePassed == \A m \in Member : []<>(instances[m] # None => Completed(m))

=============================================================================
