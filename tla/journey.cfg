SPECIFICATION FairJourneySpec
CONSTANTS
  j1 = j1
  j2 = j2
  j3 = j3
  j4 = j4
  tag = tag
  cond = cond
  hook = hook
  bad = bad
  turn = turn
  nap = nap
  msg = msg
  gone = gone
  Journey = {j1, j2, j3}
  User = {u1}
  Runner = {r1, r2}
  Step = {tag, cond, hook, bad, turn}
  StepId = {tag, cond, hook, bad, turn, gone}
  Steps <- SmallSteps
  Start <- Starts
  Entries <- EntriesOf
  Faults <- AllFaults
  None = None
INVARIANTS JourneyTypeOK ActionsPerEntry CompletedMeansDone
PROPERTIES StepsForward EnteredCompletes
