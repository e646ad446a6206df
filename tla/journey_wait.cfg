SPECIFICATION FairJourneySpec
CONSTANTS
  j1 = j1
  j2 = j2
  j3 = j3
  j4 = j4
  tag = tag
  cond = cond
  hook = hook
  bad = bad
  turn = turn
  nap = nap
  msg = msg
  gone = gone
  Journey = {j4}
  User = {u1}
  Runner = {r1}
  Step = {tag, nap, msg}
  StepId = {tag, nap, msg}
  Steps <- WaitSteps
  Start <- WaitStart
  Entries <- WaitEntries
  Faults <- NoFaults
  None = None
PROPERTIES WaitsArePassed
