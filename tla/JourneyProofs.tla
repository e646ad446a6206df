---------------------------- MODULE JourneyProofs ----------------------------
(* Theorems about Journey, for whatever the journeys, the users and the faults. *)
EXTENDS Journey, FiniteSetTheorems, TLAPS

\* A successor of a step is a step id.
LEMMA NextType == ASSUME NEW s \in Step, HasNext(s) PROVE NextOf(s) \in StepId
  <1>1. Steps[s].next \in Seq(StepId) /\ Steps[s].next # <<>>
    BY JourneyAssumption DEF HasNext
  <1> QED BY <1>1 DEF NextOf

\* What Enter and moveToNext write is an instance.
LEMMA AtStepType ==
  ASSUME NEW inst \in Instance \cup {None}, NEW s \in StepId
  PROVE  /\ AtStep(inst, s) \in Instance /\ AtStep(inst, s) # None
         /\ AtStep(inst, s).completed => inst # None /\ inst.completed
  <1>1. ASSUME NEW i \in Instance PROVE i # None
    BY JourneyAssumption DEF Instance
  <1>2. CASE inst = None
    <2>1. AtStep(inst, s) = [step |-> s, completed |-> FALSE]
      BY <1>2 DEF AtStep
    <2>2. AtStep(inst, s) \in Instance
      BY <2>1 DEF Instance
    <2>3. AtStep(inst, s).completed = FALSE
      BY <2>1
    <2> QED BY <1>1, <2>2, <2>3
  <1>3. CASE inst # None
    <2>1. AtStep(inst, s) = [inst EXCEPT !.step = s] /\ inst \in Instance
      BY <1>3 DEF AtStep
    <2>2. AtStep(inst, s) \in Instance /\ AtStep(inst, s).completed = inst.completed
      BY <2>1 DEF Instance
    <2> QED BY <1>1, <1>3, <2>2
  <1> QED BY <1>2, <1>3

LEMMA MovedType ==
  ASSUME NEW inst \in Instance, NEW s \in Step
  PROVE  /\ Moved(inst, s) \in Instance /\ Moved(inst, s) # None
         /\ Moved(inst, s).completed => inst.completed \/ ~HasNext(s)
  <1>0. inst # None
    BY JourneyAssumption DEF Instance
  <1>1. CASE HasNext(s)
    BY <1>0, <1>1, AtStepType, NextType DEF Moved
  <1>2. CASE ~HasNext(s)
    BY <1>2, JourneyAssumption DEF Moved, Instance
  <1> QED BY <1>1, <1>2

-----------------------------------------------------------------------------
(* The inductive invariant: a goroutine has run every step of its trail but   *)
(* the current one, and the trail holds their successors.                     *)

OnTrail(r) ==
  run[r].pc # "idle" =>
    /\ run[r].member \in Member /\ instances[run[r].member] # None
    /\ First(run[r].member) \in run[r].trail /\ run[r].step \in run[r].trail
    /\ run[r].trail \ {run[r].step} \subseteq visited[run[r].member]
    /\ \A s \in run[r].trail \cap Step :
         s # run[r].step /\ HasNext(s) => NextOf(s) \in run[r].trail
    /\ run[r].pc = "move" => run[r].step \in Step \cap visited[run[r].member]

\* What has been run has acted, or failed.
ActedFor(m) ==
  \A s \in visited[m] \cap Step : Acts(s) => sent[m][s] > 0 \/ s \in failed[m]

JourneyInv ==
  /\ JourneyTypeOK
  /\ \A r \in Runner : OnTrail(r)
  /\ \A m \in Member : ActedFor(m)
  /\ CompletedMeansDone

\* At the end of its journey a goroutine has done all of it.
LEMMA EndOfPath ==
  ASSUME JourneyInv, NEW r \in Runner, run[r].pc = "move", ~HasNext(run[r].step)
  PROVE  Done(run[r].member)
  <1>1. First(run[r].member) \in run[r].trail /\ Closed(run[r].trail)
    BY DEF JourneyInv, OnTrail, Closed
  <1>2. run[r].trail \in SUBSET visited[run[r].member] /\ run[r].member \in Member
    BY DEF JourneyInv, OnTrail
  <1>3. \A s \in run[r].trail \cap Step :
          Acts(s) => sent[run[r].member][s] > 0 \/ s \in failed[run[r].member]
    BY <1>2 DEF JourneyInv, ActedFor
  <1> QED BY <1>1, <1>2, <1>3 DEF Done

\* What is done stays done.
LEMMA DoneKept ==
  ASSUME NEW m \in Member, Done(m), visited[m] \subseteq visited'[m],
         failed[m] \subseteq failed'[m],
         \A s \in Step : sent[m][s] > 0 => sent'[m][s] > 0
  PROVE  Done(m)'
  <1>1. PICK S \in SUBSET visited[m] :
          /\ First(m) \in S /\ Closed(S)
          /\ \A s \in S \cap Step : Acts(s) => sent[m][s] > 0 \/ s \in failed[m]
    BY DEF Done
  <1>2. S \in SUBSET visited'[m]
    BY <1>1
  <1>3. \A s \in S \cap Step : Acts(s) => sent'[m][s] > 0 \/ s \in failed'[m]
    BY <1>1
  <1> QED BY <1>1, <1>2, <1>3 DEF Done

\* The first step of a member's journey is a step id.
LEMMA FirstType == ASSUME NEW m \in Member PROVE First(m) \in StepId
  BY JourneyAssumption DEF Member, First

LEMMA JourneyStart == JourneyInit => JourneyInv
  <1> SUFFICES ASSUME JourneyInit PROVE JourneyInv
    OBVIOUS
  <1>1. JourneyTypeOK
    BY JourneyAssumption DEF JourneyInit, JourneyTypeOK, Stopped, Run
  <1>2. \A r \in Runner : OnTrail(r)
    BY DEF JourneyInit, Stopped, OnTrail
  <1>3. CompletedMeansDone
    BY DEF JourneyInit, CompletedMeansDone, Completed
  <1>4. \A m \in Member : ActedFor(m)
    BY DEF JourneyInit, ActedFor
  <1> QED BY <1>1, <1>2, <1>3, <1>4 DEF JourneyInv

\* The steps that write no instance and only stop goroutines or make them late.
LEMMA Stops ==
  ASSUME JourneyInv, UNCHANGED <<instances, entries, visited, sent, failed>>,
         status' \in [Journey -> {"absent", "draft", "active"}],
         lost' \subseteq Member, run' \in [Runner -> Run],
         \A r \in Runner : \/ run'[r] = Stopped
                           \/ /\ run'[r].pc = run[r].pc /\ run'[r].member = run[r].member
                              /\ run'[r].step = run[r].step /\ run'[r].trail = run[r].trail
                              /\ run[r].late => run'[r].late
  PROVE  JourneyInv'
  <1>1. JourneyTypeOK'
    BY DEF JourneyInv, JourneyTypeOK
  <1>2. CompletedMeansDone' /\ \A m \in Member : ActedFor(m)'
    BY DEF JourneyInv, CompletedMeansDone, Completed, Done, ActedFor
  <1>3. ASSUME NEW r \in Runner, run'[r] = Stopped PROVE OnTrail(r)'
    BY <1>3 DEF OnTrail, Stopped
  <1>4. ASSUME NEW r \in Runner,
               /\ run'[r].pc = run[r].pc /\ run'[r].member = run[r].member
               /\ run'[r].step = run[r].step /\ run'[r].trail = run[r].trail
               /\ run[r].late => run'[r].late
        PROVE  OnTrail(r)'
    <2>1. OnTrail(r)
      BY DEF JourneyInv
    <2> QED BY <1>4, <2>1 DEF OnTrail
  <1> QED BY <1>1, <1>2, <1>3, <1>4 DEF JourneyInv

\* A goroutine that does not move stays on its trail while others do.
LEMMA TrailKept ==
  ASSUME NEW r \in Runner, OnTrail(r), run'[r] = run[r],
         \A m \in Member : visited[m] \subseteq visited'[m],
         \A m \in Member : instances[m] # None => instances'[m] # None
  PROVE  OnTrail(r)'
  BY DEF OnTrail

\* A write to the instance of one user that completes it only when all is done.
LEMMA Writes ==
  ASSUME JourneyInv, NEW m \in Member, NEW inst \in Instance, inst # None,
         instances' \in {instances, [instances EXCEPT ![m] = inst]},
         inst.completed => (instances[m] # None /\ instances[m].completed) \/ Done(m),
         UNCHANGED <<visited, sent, failed>>
  PROVE  /\ instances' \in [Member -> Instance \cup {None}]
         /\ \A v \in Member : instances[v] # None => instances'[v] # None
         /\ CompletedMeansDone' /\ \A v \in Member : ActedFor(v)'
  <1>1. instances \in [Member -> Instance \cup {None}]
    BY DEF JourneyInv, JourneyTypeOK
  <1>2. \A v \in Member : Done(v)' <=> Done(v)
    BY DEF Done
  <1>3. \A v \in Member : ActedFor(v)'
    BY DEF JourneyInv, ActedFor
  <1>4. CASE instances' = instances
    BY <1>1, <1>2, <1>3, <1>4 DEF JourneyInv, CompletedMeansDone, Completed
  <1>5. CASE instances' = [instances EXCEPT ![m] = inst]
    BY <1>1, <1>2, <1>3, <1>5 DEF JourneyInv, CompletedMeansDone, Completed
  <1> QED BY <1>4, <1>5

\* Entering a user.
LEMMA EnterStep ==
  ASSUME JourneyInv, NEW r \in Runner, NEW m \in Member, Enter(r, m)
  PROVE  JourneyInv'
  <1> DEFINE new == [pc |-> "advance", member |-> m, step |-> First(m), late |-> FALSE,
                     trail |-> {First(m)}]
  <1>0. /\ instances \in [Member -> Instance \cup {None}] /\ run \in [Runner -> Run]
        /\ entries \in [Member -> Nat] /\ \A q \in Runner : OnTrail(q)
    BY DEF JourneyInv, JourneyTypeOK
  <1> PICK inst : inst = AtStep(instances[m], First(m))
    OBVIOUS
  <1>1. /\ inst \in Instance /\ inst # None
        /\ inst.completed => instances[m] # None /\ instances[m].completed
    BY <1>0, AtStepType, FirstType
  <1>2. /\ instances' \in {instances, [instances EXCEPT ![m] = inst]}
        /\ UNCHANGED <<status, visited, sent, failed>>
    BY DEF Enter
  <1>3. /\ instances' \in [Member -> Instance \cup {None}]
        /\ \A v \in Member : instances[v] # None => instances'[v] # None
        /\ CompletedMeansDone' /\ \A v \in Member : ActedFor(v)'
    BY <1>1, <1>2, Writes
  <1>4. entries' \in [Member -> Nat] /\ lost' \subseteq Member
    BY <1>0 DEF Enter, JourneyInv, JourneyTypeOK
  <1>5. CASE UNCHANGED run
    <2>1. JourneyTypeOK'
      BY <1>2, <1>3, <1>4, <1>5 DEF JourneyInv, JourneyTypeOK
    <2>2. \A q \in Runner : OnTrail(q)'
      BY <1>0, <1>2, <1>3, <1>5, TrailKept
    <2> QED BY <1>3, <2>1, <2>2 DEF JourneyInv
  <1>6. CASE /\ instances' = [instances EXCEPT ![m] = inst]
             /\ run' = [run EXCEPT ![r] = new]
    <2>1. new \in Run
      BY FirstType DEF Run
    <2>2. /\ run' \in [Runner -> Run] /\ run'[r] = new
          /\ \A q \in Runner \ {r} : run'[q] = run[q]
      BY <1>0, <1>6, <2>1
    <2>3. JourneyTypeOK'
      BY <1>2, <1>3, <1>4, <2>2 DEF JourneyInv, JourneyTypeOK
    <2>4. instances'[m] # None
      BY <1>0, <1>1, <1>6
    <2>5. OnTrail(r)'
      BY <2>2, <2>4 DEF OnTrail
    <2>6. \A q \in Runner \ {r} : OnTrail(q)'
      BY <1>0, <1>2, <1>3, <2>2, TrailKept
    <2> QED BY <1>3, <2>3, <2>5, <2>6 DEF JourneyInv
  <1> QED BY <1>5, <1>6 DEF Enter

\* A step of the journey is run: a wait, a condition or an action.
LEMMA AdvanceStep ==
  ASSUME JourneyInv, NEW r \in Runner, Pass(r) \/ Act(r)
  PROVE  JourneyInv'
  <1>0. /\ instances \in [Member -> Instance \cup {None}] /\ run \in [Runner -> Run]
        /\ visited \in [Member -> SUBSET StepId] /\ sent \in [Member -> [Step -> Nat]]
        /\ failed \in [Member -> SUBSET Step] /\ \A q \in Runner : OnTrail(q)
    BY DEF JourneyInv, JourneyTypeOK
  <1> PICK m, s : m = run[r].member /\ s = run[r].step
    OBVIOUS
  <1>1. m \in Member /\ s \in Step /\ s \in StepId /\ run[r].pc = "advance"
    BY <1>0, JourneyAssumption DEF Pass, Act, OnTrail
  <1>2. /\ visited' = [visited EXCEPT ![m] = @ \cup {s}] /\ Proceed(r)
        /\ UNCHANGED <<status, instances, entries, lost>>
    BY DEF Pass, Act
  <1>3. /\ visited' \in [Member -> SUBSET StepId] /\ visited'[m] = visited[m] \cup {s}
        /\ \A v \in Member \ {m} : visited'[v] = visited[v]
        /\ \A v \in Member : visited[v] \subseteq visited'[v]
    BY <1>0, <1>1, <1>2
  <1>4. /\ run' \in [Runner -> Run]
        /\ run'[r].pc = "move" /\ run'[r].member = m /\ run'[r].step = s
        /\ run'[r].trail = run[r].trail
        /\ \A q \in Runner \ {r} : run'[q] = run[q]
    <2> DEFINE to == [run[r] EXCEPT !.pc = "move", !.late = @ \/ LongWait(s)]
    <2>1. run[r] \in Run /\ LongWait(s) \in BOOLEAN
      BY <1>0 DEF LongWait
    <2>2. run' = [run EXCEPT ![r] = to]
      BY <1>0, <1>2 DEF Proceed
    <2>3. /\ to \in Run /\ to.pc = "move" /\ to.member = m /\ to.step = s
          /\ to.trail = run[r].trail
      BY <2>1 DEF Run
    <2> HIDE DEF to
    <2> QED BY <1>0, <2>2, <2>3
  \* What the action leaves in the history.
  <1>5. /\ sent' \in [Member -> [Step -> Nat]] /\ failed' \in [Member -> SUBSET Step]
        /\ \A v \in Member, p \in Step : sent[v][p] > 0 => sent'[v][p] > 0
        /\ \A v \in Member : failed[v] \subseteq failed'[v]
        /\ Acts(s) => sent'[m][s] > 0 \/ s \in failed'[m]
    <2>1. CASE Pass(r)
      BY <1>0, <2>1 DEF Pass
    <2>2. CASE Act(r)
      <3>1. PICK o \in Execute(s, run[r].late) :
              /\ sent' = IF o.acts /\ sent[m][s] <= Entries[m[1]]
                         THEN [sent EXCEPT ![m][s] = @ + 1] ELSE sent
              /\ failed' = IF o.fails THEN [failed EXCEPT ![m] = @ \cup {s}] ELSE failed
        BY <2>2 DEF Act
      <3>2. o.acts \/ o.fails
        <4>1. o \in {[acts |-> TRUE, fails |-> FALSE], [acts |-> FALSE, fails |-> TRUE]}
                     \cup [acts : BOOLEAN, fails : {TRUE}]
          BY DEF Execute
        <4>2. CASE o \in [acts : BOOLEAN, fails : {TRUE}]
          <5>1. o.fails \in {TRUE}
            BY <4>2
          <5>2. o.fails = TRUE
            BY <5>1
          <5> QED BY <5>2
        <4>3. CASE o = [acts |-> TRUE, fails |-> FALSE]
          <5>1. o.acts = TRUE
            BY <4>3
          <5> QED BY <5>1
        <4>4. CASE o = [acts |-> FALSE, fails |-> TRUE]
          <5>1. o.fails = TRUE
            BY <4>4
          <5> QED BY <5>1
        <4> QED BY <4>1, <4>2, <4>3, <4>4
      <3>3. sent[m][s] \in Nat /\ Entries[m[1]] \in Nat
        BY <1>0, <1>1, JourneyAssumption DEF Member
      <3>4. /\ sent' \in [Member -> [Step -> Nat]]
            /\ \A v \in Member, p \in Step : sent[v][p] > 0 => sent'[v][p] > 0
            /\ o.acts => sent'[m][s] > 0
        <4>1. CASE o.acts /\ sent[m][s] <= Entries[m[1]]
          <5>1. sent' = [sent EXCEPT ![m][s] = @ + 1]
            BY <3>1, <4>1
          <5> QED BY <1>0, <1>1, <3>3, <5>1
        <4>2. CASE ~(o.acts /\ sent[m][s] <= Entries[m[1]])
          BY <1>0, <3>1, <3>3, <4>2
        <4> QED BY <4>1, <4>2
      <3>5. /\ failed' \in [Member -> SUBSET Step]
            /\ \A v \in Member : failed[v] \subseteq failed'[v]
            /\ o.fails => s \in failed'[m]
        BY <1>0, <1>1, <3>1
      <3> QED BY <3>2, <3>4, <3>5
    <2> QED BY <2>1, <2>2
  <1>6. JourneyTypeOK'
    BY <1>2, <1>3, <1>4, <1>5 DEF JourneyInv, JourneyTypeOK
  <1>7. OnTrail(r)'
    BY <1>0, <1>1, <1>2, <1>3, <1>4 DEF OnTrail
  <1>8. \A q \in Runner \ {r} : OnTrail(q)'
    BY <1>0, <1>2, <1>3, <1>4, TrailKept
  <1>9. ASSUME NEW v \in Member, NEW p \in visited'[v] \cap Step, Acts(p)
        PROVE  sent'[v][p] > 0 \/ p \in failed'[v]
    <2>1. CASE p \in visited[v]
      <3>1. sent[v][p] > 0 \/ p \in failed[v]
        BY <1>9, <2>1 DEF JourneyInv, ActedFor
      <3> QED BY <1>5, <3>1
    <2>2. CASE p \notin visited[v]
      <3>1. v = m /\ p = s
        BY <1>3, <2>2
      <3> QED BY <1>5, <1>9, <3>1
    <2> QED BY <2>1, <2>2
  <1>10. CompletedMeansDone'
    BY <1>2, <1>3, <1>5, DoneKept DEF JourneyInv, CompletedMeansDone, Completed
  <1> QED BY <1>6, <1>7, <1>8, <1>9, <1>10 DEF JourneyInv, ActedFor

\* The next step or the completion is written, or should be.
LEMMA MoveStep ==
  ASSUME JourneyInv, NEW r \in Runner, MoveToNext(r) \/ MoveFails(r)
  PROVE  JourneyInv'
  <1>0. /\ instances \in [Member -> Instance \cup {None}] /\ run \in [Runner -> Run]
        /\ \A q \in Runner : OnTrail(q)
    BY DEF JourneyInv, JourneyTypeOK
  <1>s. Stopped \in Run /\ Stopped.pc = "idle"
    BY DEF Stopped, Run
  <1> PICK m, s : m = run[r].member /\ s = run[r].step
    OBVIOUS
  <1>1. /\ m \in Member /\ s \in Step /\ s \in visited[m] /\ run[r].pc = "move"
        /\ instances[m] \in Instance
    BY <1>0 DEF MoveToNext, MoveFails, OnTrail
  <1> PICK inst : inst = Moved(instances[m], s)
    OBVIOUS
  <1>2. /\ inst \in Instance /\ inst # None
        /\ inst.completed => (instances[m] # None /\ instances[m].completed) \/ Done(m)
    BY <1>0, <1>1, MovedType, EndOfPath DEF OnTrail
  <1>3. /\ instances' \in {instances, [instances EXCEPT ![m] = inst]}
        /\ UNCHANGED <<status, entries, visited, sent, failed>>
    BY DEF MoveToNext, MoveFails
  <1>4. /\ instances' \in [Member -> Instance \cup {None}]
        /\ \A v \in Member : instances[v] # None => instances'[v] # None
        /\ CompletedMeansDone' /\ \A v \in Member : ActedFor(v)'
    BY <1>1, <1>2, <1>3, Writes
  <1>5. lost' \subseteq Member
    BY <1>1 DEF MoveToNext, MoveFails, Lose, JourneyInv, JourneyTypeOK
  <1>6. ASSUME run' \in [Runner -> Run], OnTrail(r)', \A q \in Runner \ {r} : run'[q] = run[q]
        PROVE  JourneyInv'
    <2>1. JourneyTypeOK'
      BY <1>3, <1>4, <1>5, <1>6 DEF JourneyInv, JourneyTypeOK
    <2>2. \A q \in Runner \ {r} : OnTrail(q)'
      BY <1>0, <1>3, <1>4, <1>6, TrailKept
    <2> QED BY <1>4, <1>6, <2>1, <2>2 DEF JourneyInv
  <1>7. CASE run' = [run EXCEPT ![r] = Stopped]
    <2>1. run' \in [Runner -> Run] /\ run'[r] = Stopped /\ \A q \in Runner \ {r} : run'[q] = run[q]
      BY <1>0, <1>s, <1>7
    <2>2. OnTrail(r)'
      BY <1>s, <2>1 DEF OnTrail
    <2> QED BY <1>6, <2>1, <2>2
  <1>8. CASE /\ HasNext(s) /\ MoveToNext(r)
             /\ run' = [run EXCEPT ![r].pc = "advance", ![r].step = NextOf(s),
                                   ![r].trail = @ \cup {NextOf(s)}]
    <2>1. NextOf(s) \in StepId
      BY <1>1, <1>8, NextType
    <2>2. /\ run' \in [Runner -> Run]
          /\ run'[r].pc = "advance" /\ run'[r].member = m /\ run'[r].step = NextOf(s)
          /\ run'[r].trail = run[r].trail \cup {NextOf(s)}
          /\ \A q \in Runner \ {r} : run'[q] = run[q]
      <3>1. PICK n \in StepId : n = NextOf(s)
        BY <2>1
      <3>2. run[r] \in Run /\ run[r].trail \cup {n} \in SUBSET StepId
        BY <1>0 DEF Run
      <3>3. PICK h \in Run : h = [run[r] EXCEPT !.pc = "advance", !.step = n,
                                               !.trail = run[r].trail \cup {n}]
        BY <3>2 DEF Run
      <3>4. run' = [run EXCEPT ![r] = h]
        BY <1>0, <1>8, <3>1, <3>3
      <3>5. /\ h.pc = "advance" /\ h.member = m /\ h.step = n
            /\ h.trail = run[r].trail \cup {n}
        BY <3>2, <3>3 DEF Run
      <3> QED BY <1>0, <3>1, <3>4, <3>5
    <2>3. OnTrail(r)'
      BY <1>0, <1>1, <1>3, <1>4, <1>8, <2>2 DEF OnTrail
    <2> QED BY <1>6, <2>2, <2>3
  <1>9. CASE MoveToNext(r)
    <2>1. CASE HasNext(s)
      BY <1>8, <1>9, <2>1 DEF MoveToNext
    <2>2. CASE ~HasNext(s)
      BY <1>7, <1>9, <2>2 DEF MoveToNext
    <2> QED BY <2>1, <2>2
  <1>10. CASE MoveFails(r)
    BY <1>7, <1>10 DEF MoveFails, Lose
  <1> QED BY <1>9, <1>10

\* Every step keeps the inductive invariant.
LEMMA JourneyStep == JourneyInv /\ [JourneyNext]_vars => JourneyInv'
  <1> SUFFICES ASSUME JourneyInv, [JourneyNext]_vars PROVE JourneyInv'
    OBVIOUS
  <1>0. /\ status \in [Journey -> {"absent", "draft", "active"}] /\ run \in [Runner -> Run]
        /\ lost \subseteq Member /\ \A r \in Runner : OnTrail(r)
    BY DEF JourneyInv, JourneyTypeOK
  <1>s. Stopped \in Run
    BY DEF Stopped, Run
  <1>1. ASSUME NEW j \in Journey, CreateJourney(j) \/ Activate(j) PROVE JourneyInv'
    BY <1>0, <1>1, Stops DEF CreateJourney, Activate
  <1>2. ASSUME NEW r \in Runner, RunOff(r) PROVE JourneyInv'
    BY <1>0, <1>2, <1>s, Stops DEF RunOff, Lose, OnTrail
  <1>3. ASSUME NEW r \in Runner, TimeOut(r) PROVE JourneyInv'
    <2>1. /\ run' \in [Runner -> Run]
          /\ \A q \in Runner : /\ run'[q].pc = run[q].pc /\ run'[q].member = run[q].member
                               /\ run'[q].step = run[q].step /\ run'[q].trail = run[q].trail
                               /\ run[q].late => run'[q].late
      BY <1>0, <1>3 DEF TimeOut, Run
    <2> QED BY <1>0, <1>3, <2>1, Stops DEF TimeOut
  <1>4. CASE Crash
    BY <1>0, <1>4, <1>s, Stops DEF Crash, OnTrail
  <1>5. CASE UNCHANGED vars
    BY <1>0, <1>5, Stops DEF vars
  <1> QED BY <1>1, <1>2, <1>3, <1>4, <1>5, EnterStep, AdvanceStep, MoveStep
          DEF JourneyNext, Drive

LEMMA JourneyInvariant == JourneySpec => []JourneyInv
  BY JourneyStart, JourneyStep, PTL DEF JourneySpec

\* The journey's tables and goroutines keep to their types.
THEOREM JourneyTypeCorrect == JourneySpec => []JourneyTypeOK
  BY JourneyInvariant, PTL DEF JourneyInv

\* Whatever the shape of a journey, however often its users are entered, and
\* whatever fails in between: it is completed for a user only after every step on
\* its path has been run for that user and its actions have acted, or their errors
\* were logged (orchestrator.go, advance and moveToNext; action.go, Execute).
THEOREM JourneyCompletedMeansDone == JourneySpec => []CompletedMeansDone
  BY JourneyInvariant, PTL DEF JourneyInv

-----------------------------------------------------------------------------
(* A user who is entered once has one goroutine, which is where the instance *)
(* says.                                                                      *)

Drives(r, m) == run[r].pc # "idle" /\ run[r].member = m

Sole(m) ==
  /\ entries[m] = 0 => instances[m] = None /\ \A r \in Runner : ~Drives(r, m)
  /\ entries[m] <= 1 =>
       \A r \in Runner : Drives(r, m) =>
         /\ instances[m].step = run[r].step
         /\ \A q \in Runner : Drives(q, m) => q = r

AllSole == \A m \in Member : Sole(m)

\* A user about whom nothing is written, while goroutines only stop or move on within
\* their step.
LEMMA SoleKept ==
  ASSUME NEW m \in Member, Sole(m), entries'[m] = entries[m], instances'[m] = instances[m],
         \A r \in Runner : Drives(r, m)' => Drives(r, m) /\ run'[r].step = run[r].step
  PROVE  Sole(m)'
  BY DEF Sole

LEMMA SoleStep ==
  ASSUME JourneyInv, \A m \in Member : Sole(m), [JourneyNext]_vars, NEW m \in Member
  PROVE  Sole(m)'
  <1>0. /\ instances \in [Member -> Instance \cup {None}] /\ run \in [Runner -> Run]
        /\ entries \in [Member -> Nat] /\ \A q \in Runner : OnTrail(q)
    BY DEF JourneyInv, JourneyTypeOK
  <1>s. Stopped.pc = "idle"
    BY DEF Stopped
  <1>1. ASSUME NEW r \in Runner, NEW v \in Member, Enter(r, v) PROVE Sole(m)'
    <2>1. \A q \in Runner \ {r} : run'[q] = run[q]
      BY <1>0, <1>1 DEF Enter
    <2>2. run[r].pc = "idle"
      BY <1>1 DEF Enter
    <2>3. CASE m # v
      <3>1. entries'[m] = entries[m] /\ instances'[m] = instances[m]
        BY <1>0, <1>1, <2>3 DEF Enter
      <3>2. ~Drives(r, m)'
        <4>1. run'[r] = run[r] \/ run'[r].member = v
          BY <1>0, <1>1 DEF Enter
        <4> QED BY <2>2, <2>3, <4>1 DEF Drives
      <3> QED BY <2>1, <3>1, <3>2, SoleKept DEF Drives
    <2>4. CASE m = v /\ entries[m] = 0
      <3>1. entries'[m] = 1 /\ \A q \in Runner : ~Drives(q, m)
        BY <1>0, <1>1, <2>4 DEF Enter, Sole
      <3>2. \A q \in Runner : Drives(q, m)' => q = r
        BY <2>1, <3>1 DEF Drives
      <3>3. Drives(r, m)' => instances'[m].step = run'[r].step
        <4>1. CASE UNCHANGED run
          BY <3>1, <4>1 DEF Drives
        <4>2. CASE run' # run
          <5>1. /\ instances' = [instances EXCEPT ![m] = AtStep(@, First(m))]
                /\ run' = [run EXCEPT ![r] = [pc |-> "advance", member |-> m,
                             step |-> First(m), late |-> FALSE, trail |-> {First(m)}]]
            BY <1>1, <2>4, <4>2 DEF Enter
          <5>2. instances[m] = None
            BY <2>4 DEF Sole
          <5>3. instances'[m] = [step |-> First(m), completed |-> FALSE]
            BY <1>0, <5>1, <5>2 DEF AtStep
          <5> QED BY <1>0, <5>1, <5>3
        <4> QED BY <4>1, <4>2
      <3> QED BY <3>1, <3>2, <3>3 DEF Sole
    <2>5. CASE m = v /\ entries[m] # 0
      <3>1. entries'[m] = entries[m] + 1 /\ entries[m] \in Nat
        BY <1>0, <1>1, <2>5 DEF Enter
      <3>2. ~(entries'[m] <= 1) /\ entries'[m] # 0
        BY <2>5, <3>1
      <3> QED BY <3>2 DEF Sole
    <2> QED BY <2>3, <2>4, <2>5
  <1>2. ASSUME NEW r \in Runner, MoveToNext(r) \/ MoveFails(r) PROVE Sole(m)'
    <2> PICK v, s : v = run[r].member /\ s = run[r].step
      OBVIOUS
    <2>1. /\ v \in Member /\ Drives(r, v) /\ s \in Step /\ instances[v] \in Instance
          /\ UNCHANGED entries
      BY <1>0, <1>2 DEF MoveToNext, MoveFails, OnTrail, Drives
    <2>2. \A q \in Runner \ {r} : run'[q] = run[q]
      BY <1>0, <1>2 DEF MoveToNext, MoveFails, Lose
    <2>3. instances' \in {instances, [instances EXCEPT ![v] = Moved(@, s)]}
      BY <1>2 DEF MoveToNext, MoveFails
    <2>4. Drives(r, m)' => /\ m = v /\ HasNext(s) /\ run'[r].step = NextOf(s)
                           /\ instances' = [instances EXCEPT ![v] = Moved(@, s)]
      <3>1. CASE run'[r] = Stopped
        BY <1>s, <3>1 DEF Drives
      <3>2. CASE run'[r] # Stopped
        <4>1. MoveToNext(r) /\ HasNext(s)
          BY <1>0, <1>2, <3>2 DEF MoveToNext, MoveFails, Lose
        <4>2. /\ run' = [run EXCEPT ![r].pc = "advance", ![r].step = NextOf(s),
                                    ![r].trail = @ \cup {NextOf(s)}]
              /\ instances' = [instances EXCEPT ![v] = Moved(@, s)]
          BY <4>1 DEF MoveToNext
        <4>3. run'[r].member = v /\ run'[r].step = NextOf(s)
          BY <1>0, <4>2 DEF Run
        <4> QED BY <4>1, <4>2, <4>3 DEF Drives
      <3> QED BY <3>1, <3>2
    <2>5. CASE m # v
      <3>1. instances'[m] = instances[m]
        BY <1>0, <2>1, <2>3, <2>5
      <3> QED BY <2>1, <2>2, <2>4, <2>5, <3>1, SoleKept DEF Drives
    <2>6. CASE m = v /\ entries[m] <= 1
      <3>1. \A q \in Runner : Drives(q, m) => q = r
        BY <2>1, <2>6 DEF Sole
      <3>2. \A q \in Runner : Drives(q, m)' => q = r
        BY <2>2, <3>1 DEF Drives
      <3>3. entries[m] # 0
        BY <2>1, <2>6 DEF Sole
      <3>4. Drives(r, m)' => instances'[m].step = run'[r].step
        <4>1. ASSUME Drives(r, m)' PROVE instances'[m] = [instances[m] EXCEPT !.step = NextOf(s)]
          <5>1. instances[m] # None
            BY <2>1, <2>6, JourneyAssumption DEF Instance
          <5>2. instances'[m] = Moved(instances[m], s) /\ HasNext(s)
            BY <1>0, <2>1, <2>4, <2>6, <4>1
          <5> QED BY <5>1, <5>2 DEF Moved, AtStep
        <4> QED BY <2>1, <2>4, <2>6, <4>1 DEF Instance
      <3> QED BY <2>1, <3>2, <3>3, <3>4 DEF Sole
    <2>7. CASE m = v /\ ~(entries[m] <= 1)
      <3>1. UNCHANGED entries /\ entries[m] \in Nat
        BY <1>0, <2>1
      <3>2. ~(entries'[m] <= 1) /\ entries'[m] # 0
        BY <2>7, <3>1
      <3> QED BY <3>2 DEF Sole
    <2> QED BY <2>5, <2>6, <2>7
  <1>3. CASE ~(\E r \in Runner : MoveToNext(r) \/ MoveFails(r) \/ \E v \in Member : Enter(r, v))
    <2>1. UNCHANGED <<instances, entries>>
      BY <1>3 DEF JourneyNext, CreateJourney, Activate, Drive, Pass, Act, RunOff, TimeOut, Crash,
                  vars
    <2>2. ASSUME NEW r \in Runner, Pass(r) \/ Act(r) \/ RunOff(r) \/ TimeOut(r)
          PROVE  \A q \in Runner : Drives(q, m)' => Drives(q, m) /\ run'[q].step = run[q].step
      <3>1. \A q \in Runner \ {r} : run'[q] = run[q]
        BY <1>0, <2>2 DEF Pass, Act, Proceed, RunOff, Lose, TimeOut
      <3>2. run[r].pc # "idle"
        BY <2>2 DEF Pass, Act, RunOff, TimeOut
      <3>3. run'[r] = Stopped \/ (run'[r].member = run[r].member /\ run'[r].step = run[r].step)
        BY <1>0, <2>2 DEF Pass, Act, Proceed, RunOff, Lose, TimeOut, Run
      <3> QED BY <1>s, <3>1, <3>2, <3>3 DEF Drives
    <2>3. CASE Crash
      BY <1>s, <2>1, <2>3, SoleKept DEF Crash, Drives
    <2>4. CASE UNCHANGED run
      BY <2>1, <2>4, SoleKept DEF Drives
    <2> QED BY <1>3, <2>1, <2>2, <2>3, <2>4, SoleKept
            DEF JourneyNext, CreateJourney, Activate, Drive, vars
  <1> QED BY <1>1, <1>2, <1>3

\* What StepsForward says of one step.
LEMMA ForwardStep ==
  ASSUME JourneyInv, \A m \in Member : Sole(m), [JourneyNext]_vars, NEW m \in Member,
         entries'[m] <= 1, instances[m] # None, instances'[m].step # instances[m].step
  PROVE  /\ instances[m].step \in Step /\ HasNext(instances[m].step)
         /\ instances'[m].step = NextOf(instances[m].step)
  <1>0. /\ instances \in [Member -> Instance \cup {None}] /\ entries \in [Member -> Nat]
        /\ \A q \in Runner : OnTrail(q)
    BY DEF JourneyInv, JourneyTypeOK
  <1>1. ASSUME NEW r \in Runner, NEW v \in Member, Enter(r, v) PROVE FALSE
    <2>1. m = v
      BY <1>0, <1>1 DEF Enter
    <2>2. entries[m] = 0
      BY <1>0, <1>1, <2>1 DEF Enter
    <2> QED BY <2>2 DEF Sole
  <1>2. PICK r \in Runner : MoveToNext(r) \/ MoveFails(r)
    BY <1>1 DEF JourneyNext, CreateJourney, Activate, Drive, Pass, Act, RunOff, TimeOut, Crash,
                vars
  <1> PICK v, s : v = run[r].member /\ s = run[r].step
    OBVIOUS
  <1>3. /\ v \in Member /\ Drives(r, v) /\ s \in Step /\ UNCHANGED entries
        /\ instances' \in {instances, [instances EXCEPT ![v] = Moved(@, s)]}
    BY <1>0, <1>2 DEF MoveToNext, MoveFails, OnTrail, Drives
  <1>4. m = v /\ instances'[m] = Moved(instances[m], s)
    BY <1>0, <1>3
  <1>5. instances[m].step = s /\ instances[m] \in Instance
    BY <1>0, <1>3, <1>4 DEF Sole
  <1>6. HasNext(s)
    BY <1>4, <1>5 DEF Moved, Instance
  <1>7. instances'[m] = [instances[m] EXCEPT !.step = NextOf(s)]
    BY <1>4, <1>6 DEF Moved, AtStep
  <1> QED BY <1>3, <1>5, <1>6, <1>7 DEF Instance

\* The instance of a user who is entered once goes from a step to its first successor
\* and nowhere else, whatever fails (orchestrator.go, moveToNext).
THEOREM JourneyGoesForward == JourneySpec => StepsForward
  <1>1. JourneyInit => AllSole
    BY DEF JourneyInit, AllSole, Sole, Drives, Stopped
  <1>2. JourneyInv /\ AllSole /\ [JourneyNext]_vars => AllSole'
    BY SoleStep DEF AllSole
  <1>3. JourneyInv /\ AllSole /\ [JourneyNext]_vars =>
          [\A m \in Member :
             entries'[m] <= 1 /\ instances[m] # None /\ instances'[m].step # instances[m].step =>
               LET s == instances[m].step IN
               s \in Step /\ HasNext(s) /\ instances'[m].step = NextOf(s)]_vars
    BY ForwardStep DEF AllSole
  <1> QED BY <1>1, <1>2, <1>3, JourneyInvariant, PTL DEF JourneySpec, StepsForward

-----------------------------------------------------------------------------
(* Actions per entry: rank orders the steps of journeys, where only steps     *)
(* that execute nothing may lie on a cycle, and every action is either        *)
(* executed already or still before some goroutine, or will not be executed.  *)

Ranks(rank) ==
  /\ rank \in [StepId -> Nat]
  /\ \A s \in Step : HasNext(s) =>
       IF Acts(s) THEN rank[s] < rank[NextOf(s)] ELSE rank[s] <= rank[NextOf(s)]

\* The goroutines that may still execute s for m.
Ahead(rank, m, s) ==
  {r \in Runner :
     /\ run[r].member = m
     /\ \/ run[r].pc = "advance" /\ rank[run[r].step] <= rank[s]
        \/ /\ run[r].pc = "move"
           /\ IF Acts(run[r].step) THEN rank[run[r].step] < rank[s]
              ELSE rank[run[r].step] <= rank[s]}

EntriesCount(rank) ==
  \A m \in Member, s \in Step : sent[m][s] + Cardinality(Ahead(rank, m, s)) <= entries[m]

LEMMA AheadFinite ==
  ASSUME IsFiniteSet(Runner), NEW rank, NEW m, NEW s
  PROVE  IsFiniteSet(Ahead(rank, m, s)) /\ Cardinality(Ahead(rank, m, s)) \in Nat
  <1>1. Ahead(rank, m, s) \subseteq Runner
    BY DEF Ahead
  <1>2. IsFiniteSet(Ahead(rank, m, s))
    BY <1>1, FS_Subset
  <1> QED BY <1>2, FS_CardinalityType

\* Nobody is ahead who was not, except for r, for whom the user is entered.
LEMMA CountKept ==
  ASSUME IsFiniteSet(Runner), NEW rank, NEW m \in Member, NEW s \in Step, NEW r,
         sent[m][s] \in Nat, entries[m] \in Nat, entries'[m] \in Nat,
         sent'[m][s] = sent[m][s],
         sent[m][s] + Cardinality(Ahead(rank, m, s)) <= entries[m],
         \/ Ahead(rank, m, s)' \subseteq Ahead(rank, m, s) /\ entries'[m] >= entries[m]
         \/ Ahead(rank, m, s)' \subseteq Ahead(rank, m, s) \cup {r} /\ entries'[m] = entries[m] + 1
  PROVE  sent'[m][s] + Cardinality(Ahead(rank, m, s)') <= entries'[m]
  <1> PICK A, B : A = Ahead(rank, m, s) /\ B = Ahead(rank, m, s)'
    OBVIOUS
  <1>1. IsFiniteSet(A) /\ Cardinality(A) \in Nat
    BY AheadFinite
  <1>2. CASE B \subseteq A /\ entries'[m] >= entries[m]
    <2>1. IsFiniteSet(B) /\ Cardinality(B) <= Cardinality(A)
      BY <1>1, <1>2, FS_Subset
    <2>2. Cardinality(B) \in Nat
      BY <2>1, FS_CardinalityType
    <2> QED BY <1>1, <1>2, <2>1, <2>2
  <1>3. CASE B \subseteq A \cup {r} /\ entries'[m] = entries[m] + 1
    <2>1. IsFiniteSet(A \cup {r})
          /\ Cardinality(A \cup {r}) = IF r \in A THEN Cardinality(A) ELSE Cardinality(A) + 1
      BY <1>1, FS_AddElement
    <2>2. IsFiniteSet(B) /\ Cardinality(B) <= Cardinality(A \cup {r})
      BY <1>3, <2>1, FS_Subset
    <2>3. Cardinality(B) \in Nat /\ Cardinality(A \cup {r}) <= Cardinality(A) + 1
      BY <1>1, <2>1, <2>2, FS_CardinalityType
    <2> QED BY <1>1, <1>3, <2>1, <2>2, <2>3
  <1> QED BY <1>2, <1>3

LEMMA CountStep ==
  ASSUME IsFiniteSet(Runner), NEW rank, Ranks(rank), JourneyInv, JourneyInv',
         EntriesCount(rank), [JourneyNext]_vars
  PROVE  EntriesCount(rank)'
  <1> SUFFICES ASSUME NEW m \in Member, NEW s \in Step
               PROVE  sent'[m][s] + Cardinality(Ahead(rank, m, s)') <= entries'[m]
    BY DEF EntriesCount
  <1>0. /\ run \in [Runner -> Run] /\ entries \in [Member -> Nat] /\ entries[m] \in Nat
        /\ entries'[m] \in Nat /\ sent \in [Member -> [Step -> Nat]] /\ sent[m][s] \in Nat
        /\ sent[m][s] + Cardinality(Ahead(rank, m, s)) <= entries[m]
        /\ rank[s] \in Nat /\ \A q \in Runner : OnTrail(q)
    BY JourneyAssumption DEF JourneyInv, JourneyTypeOK, EntriesCount, Ranks
  <1>s. Stopped.pc = "idle"
    BY DEF Stopped
  \* The goroutine of one user moves, the others stay where they are.
  <1>1. ASSUME NEW r \in Runner, Pass(r) \/ Act(r) \/ RunOff(r) \/ TimeOut(r) \/ MoveToNext(r)
                                 \/ MoveFails(r)
        PROVE  sent'[m][s] + Cardinality(Ahead(rank, m, s)') <= entries'[m]
    <2> PICK v, p : v = run[r].member /\ p = run[r].step
      OBVIOUS
    <2>1. /\ \A q \in Runner \ {r} : run'[q] = run[q]
          /\ run[r].pc # "idle" /\ v \in Member /\ p \in StepId /\ UNCHANGED entries
      <3>1. run[r].pc # "idle" /\ UNCHANGED entries
        BY <1>1 DEF Pass, Act, RunOff, TimeOut, MoveToNext, MoveFails
      <3>2. \A q \in Runner \ {r} : run'[q] = run[q]
        BY <1>0, <1>1 DEF Pass, Act, Proceed, RunOff, Lose, TimeOut, MoveToNext, MoveFails
      <3>3. v \in Member /\ p \in StepId
        BY <1>0, <3>1 DEF OnTrail, Run
      <3> QED BY <3>1, <3>2, <3>3
    <2>2. rank[p] \in Nat
      BY <2>1 DEF Ranks
    <2>3. r \in Ahead(rank, m, s)' => r \in Ahead(rank, m, s)
      <3>1. CASE run'[r] = Stopped
        BY <1>s, <3>1 DEF Ahead
      <3>2. CASE Pass(r) \/ Act(r)
        <4>1. run[r].pc = "advance" /\ run'[r].member = v /\ run'[r].step = p /\ run'[r].pc = "move"
          BY <1>0, <3>2 DEF Pass, Act, Proceed, Run
        <4> QED BY <1>0, <2>2, <4>1 DEF Ahead
      <3>3. CASE TimeOut(r)
        <4>1. run'[r].pc = run[r].pc /\ run'[r].member = v /\ run'[r].step = p
          BY <1>0, <3>3 DEF TimeOut, Run
        <4> QED BY <4>1 DEF Ahead
      <3>4. CASE MoveToNext(r) /\ HasNext(p)
        <4>1. /\ run[r].pc = "move" /\ p \in Step
              /\ run' = [run EXCEPT ![r].pc = "advance", ![r].step = NextOf(p),
                                    ![r].trail = @ \cup {NextOf(p)}]
          BY <1>0, <3>4 DEF MoveToNext, OnTrail
        <4>2. run'[r].pc = "advance" /\ run'[r].member = v /\ run'[r].step = NextOf(p)
          BY <1>0, <4>1 DEF Run
        <4>3. /\ rank[NextOf(p)] \in Nat
              /\ IF Acts(p) THEN rank[p] < rank[NextOf(p)] ELSE rank[p] <= rank[NextOf(p)]
          BY <3>4, <4>1, NextType DEF Ranks
        <4> QED BY <1>0, <2>2, <4>1, <4>2, <4>3 DEF Ahead
      <3>5. RunOff(r) \/ MoveFails(r) \/ (MoveToNext(r) /\ ~HasNext(p)) => run'[r] = Stopped
        BY <1>0 DEF RunOff, MoveFails, Lose, MoveToNext
      <3> QED BY <1>1, <3>1, <3>2, <3>3, <3>4, <3>5
    <2>4. Ahead(rank, m, s)' \subseteq Ahead(rank, m, s)
      BY <2>1, <2>3 DEF Ahead
    <2>5. CASE sent'[m][s] = sent[m][s]
      <3>1. entries'[m] >= entries[m]
        BY <1>0, <2>1
      <3> QED BY <1>0, <2>4, <2>5, <3>1, CountKept
    <2>6. CASE sent'[m][s] # sent[m][s]
      <3>1. Act(r)
        BY <1>1, <2>6 DEF Pass, RunOff, TimeOut, MoveToNext, MoveFails
      <3>2. sent' = [sent EXCEPT ![v][p] = @ + 1]
        BY <2>6, <3>1 DEF Act
      <3>3. m = v /\ s = p /\ sent'[m][s] = sent[m][s] + 1
        <4>1. p \in Step
          BY <3>1 DEF Act
        <4> QED BY <1>0, <2>1, <2>6, <3>2, <4>1
      <3>4. r \in Ahead(rank, m, s)
        BY <1>0, <3>1, <3>3 DEF Ahead, Act
      <3>5. r \notin Ahead(rank, m, s)'
        <4>1. run'[r].step = p /\ run'[r].pc = "move" /\ Acts(p)
          BY <1>0, <3>1 DEF Act, Proceed, Run
        <4> QED BY <1>0, <3>3, <4>1 DEF Ahead
      <3> PICK A, B : A = Ahead(rank, m, s) /\ B = Ahead(rank, m, s)'
        OBVIOUS
      <3>6. /\ IsFiniteSet(A) /\ Cardinality(A) \in Nat /\ B \subseteq A \ {r}
        BY <2>4, <3>5, AheadFinite
      <3>7. IsFiniteSet(A \ {r}) /\ Cardinality(A \ {r}) = Cardinality(A) - 1
        BY <3>4, <3>6, FS_RemoveElement
      <3>8. IsFiniteSet(B) /\ Cardinality(B) <= Cardinality(A) - 1
        BY <3>6, <3>7, FS_Subset
      <3>9. Cardinality(B) \in Nat
        BY <3>8, FS_CardinalityType
      <3> QED BY <1>0, <2>1, <3>3, <3>6, <3>8, <3>9
    <2> QED BY <2>5, <2>6
  <1>2. ASSUME NEW r \in Runner, NEW v \in Member, Enter(r, v)
        PROVE  sent'[m][s] + Cardinality(Ahead(rank, m, s)') <= entries'[m]
    <2>1. UNCHANGED sent /\ \A q \in Runner \ {r} : run'[q] = run[q]
      BY <1>0, <1>2 DEF Enter
    <2>2. Ahead(rank, m, s)' \subseteq Ahead(rank, m, s) \cup {r}
      BY <2>1 DEF Ahead
    <2>3. CASE m = v
      <3>1. entries'[m] = entries[m] + 1
        BY <1>0, <1>2, <2>3 DEF Enter
      <3> QED BY <1>0, <2>1, <2>2, <3>1, CountKept
    <2>4. CASE m # v
      <3>1. entries'[m] = entries[m]
        BY <1>0, <1>2, <2>4 DEF Enter
      <3>2. run'[r] = run[r] \/ run'[r].member = v
        BY <1>0, <1>2 DEF Enter
      <3>3. Ahead(rank, m, s)' \subseteq Ahead(rank, m, s)
        BY <2>1, <2>4, <3>2 DEF Ahead
      <3>4. entries'[m] >= entries[m]
        BY <1>0, <3>1
      <3> QED BY <1>0, <2>1, <3>3, <3>4, CountKept
    <2> QED BY <2>3, <2>4
  <1>3. CASE UNCHANGED <<entries, sent>> /\ Ahead(rank, m, s)' \subseteq Ahead(rank, m, s)
    <2>1. entries'[m] >= entries[m]
      BY <1>0, <1>3
    <2> QED BY <1>0, <1>3, <2>1, CountKept
  <1>4. CASE Crash
    BY <1>s, <1>3, <1>4 DEF Crash, Ahead
  <1>5. CASE UNCHANGED <<run, entries, sent>>
    BY <1>3, <1>5 DEF Ahead
  <1> QED BY <1>1, <1>2, <1>4, <1>5 DEF JourneyNext, CreateJourney, Activate, Drive, vars

\* In journeys whose actions lie on no cycle no entry of a user executes an action twice, whatever
\* goroutines run at the same time and whatever fails (orchestrator.go, advance).
THEOREM JourneyActsOncePerEntry ==
  ASSUME IsFiniteSet(Runner), NEW rank, Ranks(rank)
  PROVE  JourneySpec => []ActionsPerEntry
  <1>1. JourneyInit => EntriesCount(rank)
    <2> SUFFICES ASSUME JourneyInit, NEW m \in Member, NEW s \in Step
                 PROVE  sent[m][s] + Cardinality(Ahead(rank, m, s)) <= entries[m]
      BY DEF EntriesCount
    <2>1. sent[m][s] = 0 /\ entries[m] = 0
      BY DEF JourneyInit
    <2>2. Ahead(rank, m, s) = {}
      BY DEF JourneyInit, Ahead, Stopped
    <2> QED BY <2>1, <2>2, FS_EmptySet
  <1>2. JourneyInv /\ JourneyInv' /\ EntriesCount(rank) /\ [JourneyNext]_vars =>
          EntriesCount(rank)'
    BY CountStep
  <1>3. JourneyInv /\ EntriesCount(rank) => ActionsPerEntry
    <2> SUFFICES ASSUME JourneyInv, EntriesCount(rank), NEW m \in Member, NEW s \in Step
                 PROVE  sent[m][s] <= entries[m]
      BY DEF ActionsPerEntry
    <2>1. sent[m][s] \in Nat /\ entries[m] \in Nat
      BY DEF JourneyInv, JourneyTypeOK
    <2>2. Cardinality(Ahead(rank, m, s)) \in Nat
      BY AheadFinite
    <2>3. sent[m][s] + Cardinality(Ahead(rank, m, s)) <= entries[m]
      BY DEF EntriesCount
    <2> QED BY <2>1, <2>2, <2>3
  <1> QED BY <1>1, <1>2, <1>3, JourneyInvariant, PTL DEF JourneySpec

=============================================================================
