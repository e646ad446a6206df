------------------------------- MODULE Ingestion -------------------------------
(***************************************************************************)
(* internal/ingestion, the Builder of internal/audience and the life of    *)
(* the process in cmd/cdp: one goroutine per Kafka topic reads messages    *)
(* and, for each, upserts the profile, writes the event and re-evaluates   *)
(* every dynamic audience with the profile that its own Upsert returned.   *)
(* ReadMessage marks a message for commit as soon as it is read; the marks *)
(* are committed once a second and when the reader is closed, whether or   *)
(* not the message has been handled by then.                               *)
(*                                                                         *)
(* Next to the pipeline others change profiles and events and do not       *)
(* evaluate any audience: HTTP handlers, journeys, merges, and time, which *)
(* takes events out of the window that a condition counts them in.         *)
(*                                                                         *)
(* The journey trigger at the end of a message only writes a log line.     *)
(* The profile cache is left out: the pipeline never reads it.             *)
(*                                                                         *)
(* Faults selects what may go wrong:                                       *)
(*   "db"     a statement fails, applied or not;                           *)
(*   "crash"  the process is killed;                                       *)
(*   "stop"   the process gets a signal, or its HTTP server fails.         *)
(***************************************************************************)
EXTENDS Mapper, FiniteSets

CONSTANTS
  Id,               \* canonical ids
  Topic,            \* topics of one partition each
  Kind,             \* topic -> the mapper of its messages
  Log,              \* topic -> the messages in it
  Audience,         \* audiences, by name
  Dynamic,          \* those of type "dynamic"
  Estimated,        \* those that are there from the start, with a size_estimate
  Estimator,        \* something calls UpdateEstimate (nothing does in this version)
  Match(_, _, _),   \* Evaluator.Matches of audience, profile and number of events
  Counted,          \* the type of the events that conditions count
  Faults,           \* SUBSET {"db", "crash", "stop"}
  Others,           \* SUBSET {"upsert", "event", "tag", "merge", "age"}
  OtherRequests,    \* the upsert requests of others
  OtherTags,        \* the tag lists that others give to UpdateTags
  MaxEvents,        \* bound: events of one profile that are told apart
  MaxOthers,        \* bound: how often others change something
  MaxStops          \* bound: how often the process stops

\* A message of a topic: JSON or not, and if it is, what the mapper makes of it.
Message == [bad : BOOLEAN, id : Id, req : Request, event : {Counted, "other", None}]

Msgs ==
  [t \in Topic |-> [n \in 1 .. Len(Log[t]) |->
     LET m == Map(Kind[t], Log[t][n]) IN
     [bad |-> Log[t][n].bad, id |-> m.id, req |-> m.req,
      event |-> IF m.event \in {Counted, None} THEN m.event ELSE "other"]]]

ASSUME IngestionAssumption ==
  /\ IsFiniteSet(Topic)
  /\ \A t \in Topic :
       /\ Kind[t] \in Kinds /\ Len(Log[t]) \in Nat
       /\ \A n \in 1 .. Len(Log[t]) : Msgs[t][n] \in Message
  /\ Dynamic \subseteq Audience /\ Estimated \subseteq Audience
  /\ Estimator \in BOOLEAN
  /\ OtherRequests \subseteq Request /\ OtherTags \subseteq SUBSET Tag
  /\ MaxEvents \in Nat /\ MaxOthers \in Nat /\ MaxStops \in Nat
  /\ None \notin Audience

VARIABLES
  rows,       \* cdp_profiles: canonical id -> row or None
  events,     \* cdp_events in the window: canonical id -> how many, up to MaxEvents
  audiences,  \* cdp_audiences: audience -> "absent", or what its size_estimate is
  members,    \* cdp_audience_members: audience -> canonical ids
  position,   \* topic -> the offset of the message read last
  committed,  \* topic -> the offset committed to the consumer group
  handler,    \* topic -> handleMessage
  process,    \* main: "running", "stopping", "failed" (its context is done) or "down"
  closed,     \* the topics whose reader is closed
  stops,      \* how often the process has stopped, up to MaxStops
  spent,      \* how often others have changed something, up to MaxOthers
  handled,    \* history: topic -> offsets of the messages handled to the end
  dropped,    \* history: topic -> offsets of the messages given up after an error
  matched,    \* history: audience -> who has matched it at some time
  disturbed   \* history: ids whose memberships may be out of date

profiles == <<rows, events>>
kafka    == <<position, committed>>
life     == <<process, closed, stops>>
past     == <<handled, dropped>>
vars     == <<profiles, audiences, members, kafka, handler, life, spent, past, matched,
              disturbed>>

(***************************************************************************)
(* handleMessage is "idle", or about to "upsert" the profile, write the    *)
(* "event", "list" the audiences, "match" one of those in todo with p, or  *)
(* look up ("has") and "write" the membership in aud, which should be      *)
(* as verdict says.  The message in hand is the one at position.           *)
(***************************************************************************)
Handler == [pc : {"idle", "upsert", "event", "list", "match", "has", "write"},
            p : Profile \cup {None}, todo : SUBSET Audience,
            aud : Audience \cup {None}, verdict : {"yes", "no"}]

Idle == [pc |-> "idle", p |-> None, todo |-> {}, aud |-> None, verdict |-> "no"]

IngestTypeOK ==
  /\ rows \in [Id -> Row \cup {None}]
  /\ events \in [Id -> 0 .. MaxEvents]
  /\ audiences \in [Audience -> {"absent", "null", "known"}]
  /\ members \in [Audience -> SUBSET Id]
  /\ position \in [Topic -> Nat]
  /\ committed \in [Topic -> Nat]
  /\ \A t \in Topic : committed[t] <= position[t] /\ position[t] <= Len(Log[t])
  /\ handler \in [Topic -> Handler]
  /\ process \in {"running", "stopping", "failed", "down"}
  /\ closed \subseteq Topic
  /\ stops \in 0 .. MaxStops /\ spent \in 0 .. MaxOthers
  /\ handled \in [Topic -> SUBSET Nat]
  /\ dropped \in [Topic -> SUBSET Nat]
  /\ matched \in [Audience -> SUBSET Id]
  /\ disturbed \subseteq Id

IngestInit ==
  /\ rows = [id \in Id |-> None]
  /\ events = [id \in Id |-> 0]
  /\ audiences = [a \in Audience |-> IF a \in Estimated THEN "known" ELSE "absent"]
  /\ members = [a \in Audience |-> {}]
  /\ position = [t \in Topic |-> 0]
  /\ committed = [t \in Topic |-> 0]
  /\ handler = [t \in Topic |-> Idle]
  /\ process = "running" /\ closed = {} /\ stops = 0 /\ spent = 0
  /\ handled = [t \in Topic |-> {}]
  /\ dropped = [t \in Topic |-> {}]
  /\ matched = [a \in Audience |-> {}]
  /\ disturbed = {}

-----------------------------------------------------------------------------
At(t, pc) == handler[t].pc = pc
MsgOf(t)  == Msgs[t][position[t]]
UserOf(t) == MsgOf(t).id

Goto(t, pc) == handler' = [handler EXCEPT ![t].pc = pc]

\* The handler of t has upserted id and is not done with it.
Holds(t, id) == ~At(t, "idle") /\ ~At(t, "upsert") /\ UserOf(t) = id

\* A statement of the pipeline may fail.
MayFail == "db" \in Faults \/ process = "failed"

\* What the evaluator says of a profile with n events.
VerdictOf(a, p, n) == IF Match(a, p, n) \in {"yes", "no"} THEN Match(a, p, n) ELSE "error"

\* And of a row.
VerdictOn(a, row, n) == IF row = None THEN "no" ELSE VerdictOf(a, Scan(row), n)

\* History: what those that have changed match after this step.
NoteMatches(ids) ==
  matched' = [a \in Audience |->
                matched[a] \cup {id \in ids : VerdictOn(a, rows[id], events[id])' = "yes"}]

\* History: from now on the memberships of these may be out of date.
Disturb(ids) == disturbed' = disturbed \cup ids

\* One more event of id in the window, as far as they are told apart; one less.
OneMore(id) == [events EXCEPT ![id] = IF @ < MaxEvents THEN @ + 1 ELSE @]
OneLess(id) == [events EXCEPT ![id] = @ - 1]

\* One audience is done; EvaluateProfile and with it the message end with the last.
NextAudience(t, rest) ==
  IF rest = {}
  THEN /\ handler' = [handler EXCEPT ![t] = Idle]
       /\ handled' = [handled EXCEPT ![t] = @ \cup {position[t]}]
  ELSE /\ handler' = [handler EXCEPT ![t].pc = "match", ![t].todo = rest,
                                     ![t].aud = None]
       /\ UNCHANGED handled

\* handleMessage returns early: the message is dropped.
Drop(t) ==
  /\ handler' = [handler EXCEPT ![t] = Idle]
  /\ dropped' = [dropped EXCEPT ![t] = @ \cup {position[t]}]

-----------------------------------------------------------------------------
\* ReadMessage, json.Unmarshal and Map: what is not JSON is dropped at once.  A reader
\* that is closed hands out what it has fetched before it fails.
ReadMessage(t) ==
  /\ process # "down"
  /\ At(t, "idle") /\ position[t] < Len(Log[t])
  /\ position' = [position EXCEPT ![t] = @ + 1]
  /\ handler' = [handler EXCEPT ![t] =
                   IF Msgs[t][position[t] + 1].bad THEN Idle ELSE [Idle EXCEPT !.pc = "upsert"]]
  /\ UNCHANGED <<profiles, audiences, members, committed, life, spent, past, matched,
                 disturbed>>

\* Mutant: the audiences are evaluated with the profile as it was before.
UpsertProfileStale(t) ==
  /\ At(t, "upsert")
  /\ LET u == UserOf(t)
         row == Upserted(rows[u], MsgOf(t).req) IN
     /\ UpsertAccepted(rows[u], MsgOf(t).req)
     /\ rows' = [rows EXCEPT ![u] = row]
     /\ handler' = [handler EXCEPT ![t].p = Scan(IF rows[u] = None THEN row ELSE rows[u]),
                                   ![t].pc = IF MsgOf(t).event = None THEN "list" ELSE "event"]
     /\ disturbed' = IF \E s \in Topic \ {t} : Holds(s, u) THEN disturbed \cup {u}
                     ELSE disturbed \ {u}
  /\ UNCHANGED <<events, audiences, members, kafka, life, spent, past>>
  /\ NoteMatches({UserOf(t)})

\* Upsert: the row is merged, the merged profile is what the rest works with.
UpsertProfile(t) ==
  /\ At(t, "upsert")
  /\ LET u == UserOf(t)
         row == Upserted(rows[u], MsgOf(t).req) IN
     /\ UpsertAccepted(rows[u], MsgOf(t).req)
     /\ rows' = [rows EXCEPT ![u] = row]
     /\ handler' = [handler EXCEPT ![t].p = Scan(row),
                                   ![t].pc = IF MsgOf(t).event = None THEN "list" ELSE "event"]
     /\ disturbed' = IF \E s \in Topic \ {t} : Holds(s, u) THEN disturbed \cup {u}
                     ELSE disturbed \ {u}
  /\ UNCHANGED <<events, audiences, members, kafka, life, spent, past>>
  /\ NoteMatches({UserOf(t)})

\* Upsert returns an error: rejected, or failed, applied or not.
UpsertFails(t) ==
  /\ At(t, "upsert")
  /\ LET u == UserOf(t)
         ok == UpsertAccepted(rows[u], MsgOf(t).req) IN
     \/ (~ok \/ MayFail) /\ UNCHANGED <<rows, disturbed>>
     \/ /\ ok /\ MayFail
        /\ rows' = [rows EXCEPT ![u] = Upserted(@, MsgOf(t).req)]
        /\ Disturb({u})
  /\ Drop(t)
  /\ UNCHANGED <<events, audiences, members, kafka, life, spent, handled>>
  /\ NoteMatches({UserOf(t)})

\* WriteEvent: one INSERT, whose failure does not end the message.
WriteEvent(t) ==
  /\ At(t, "event")
  /\ \/ MsgOf(t).event = Counted /\ events' = OneMore(UserOf(t))
     \/ (MsgOf(t).event # Counted \/ MayFail) /\ UNCHANGED events
  /\ Goto(t, "list")
  /\ UNCHANGED <<rows, audiences, members, kafka, life, spent, past, disturbed>>
  /\ NoteMatches({UserOf(t)})

\* Mutant: static audiences are evaluated too.
ListAudiencesAll(t) ==
  /\ At(t, "list")
  /\ \A a \in Audience : audiences[a] # "null"
  /\ NextAudience(t, {a \in Audience : audiences[a] # "absent"})
  /\ UNCHANGED <<profiles, audiences, members, kafka, life, spent, dropped, matched,
                 disturbed>>

\* List("active"): every row has to be scanned, a NULL size_estimate cannot be.
ListAudiences(t) ==
  /\ At(t, "list")
  /\ \A a \in Audience : audiences[a] # "null"
  /\ NextAudience(t, {a \in Dynamic : audiences[a] # "absent"})
  /\ UNCHANGED <<profiles, audiences, members, kafka, life, spent, dropped, matched,
                 disturbed>>

\* Mutant: a list that fails is asked for again.
ListFailsWaits(t) ==
  /\ At(t, "list")
  /\ \E a \in Audience : audiences[a] = "null"
  /\ UNCHANGED vars

\* List returns an error: nothing is evaluated.
ListFails(t) ==
  /\ At(t, "list")
  /\ (\E a \in Audience : audiences[a] = "null") \/ MayFail
  /\ Drop(t)
  /\ Disturb({UserOf(t)})
  /\ UNCHANGED <<profiles, audiences, members, kafka, life, spent, handled, matched>>

\* Matches, on the profile in hand and the events of now; an error skips the audience.
MatchAudience(t, a) ==
  /\ At(t, "match") /\ a \in handler[t].todo
  /\ LET v == VerdictOf(a, handler[t].p, events[UserOf(t)]) IN
     \/ /\ v # "error"
        /\ handler' = [handler EXCEPT ![t].pc = "has", ![t].aud = a, ![t].verdict = v]
        /\ UNCHANGED <<handled, disturbed>>
     \/ /\ v = "error" \/ MayFail
        /\ NextAudience(t, handler[t].todo \ {a})
        /\ Disturb(IF v = "error" THEN {} ELSE {UserOf(t)})
  /\ UNCHANGED <<profiles, audiences, members, kafka, life, spent, dropped, matched>>

\* HasMember: a failure reads as "not a member".  Nothing to change, or a write.
HasMember(t) ==
  /\ At(t, "has")
  /\ LET has == UserOf(t) \in members[handler[t].aud] IN
     \E isMember \in {has} \cup (IF MayFail THEN {FALSE} ELSE {}) :
       /\ IF (handler[t].verdict = "yes") # isMember
          THEN Goto(t, "write") /\ UNCHANGED handled
          ELSE NextAudience(t, handler[t].todo \ {handler[t].aud})
       /\ Disturb(IF isMember = has THEN {} ELSE {UserOf(t)})
  /\ UNCHANGED <<profiles, audiences, members, kafka, life, spent, dropped, matched>>

\* Mutant: members are never removed.
WriteMemberAddsOnly(t) ==
  /\ At(t, "write")
  /\ LET a == handler[t].aud IN
     /\ members' = IF handler[t].verdict = "yes"
                   THEN [members EXCEPT ![a] = @ \cup {UserOf(t)}] ELSE members
     /\ NextAudience(t, handler[t].todo \ {a})
  /\ UNCHANGED <<profiles, audiences, kafka, life, spent, dropped, matched, disturbed>>

\* AddMember or RemoveMember, a failure is ignored.
WriteMember(t) ==
  /\ At(t, "write")
  /\ LET a == handler[t].aud
         u == UserOf(t) IN
     /\ \/ /\ members' = [members EXCEPT ![a] =
                            IF handler[t].verdict = "yes" THEN @ \cup {u} ELSE @ \ {u}]
           /\ UNCHANGED disturbed
        \/ MayFail /\ UNCHANGED members /\ Disturb({u})
     /\ NextAudience(t, handler[t].todo \ {a})
  /\ UNCHANGED <<profiles, audiences, kafka, life, spent, dropped, matched>>

-----------------------------------------------------------------------------
\* Mutant: the offset of the next message is committed.
CommitNext(t) ==
  /\ process # "down" /\ t \notin closed /\ committed[t] < position[t]
  /\ committed' = [committed EXCEPT ![t] = position[t] + 1]
  /\ UNCHANGED <<profiles, audiences, members, position, handler, life, spent, past, matched,
                 disturbed>>

\* The commit loop of the reader commits what has been read.
Commit(t) ==
  /\ process # "down" /\ t \notin closed /\ committed[t] < position[t]
  /\ committed' = [committed EXCEPT ![t] = position[t]]
  /\ UNCHANGED <<profiles, audiences, members, position, handler, life, spent, past, matched,
                 disturbed>>

\* main is told to stop: by a signal, or by the end of ListenAndServe, which cancels
\* the context that every statement of the consumers has.
BeginStop ==
  /\ "stop" \in Faults /\ process = "running" /\ stops < MaxStops
  /\ process' \in {"stopping", "failed"}
  /\ stops' = stops + 1
  /\ UNCHANGED <<profiles, audiences, members, kafka, handler, closed, spent, past, matched,
                 disturbed>>

\* Consumer.Close, one reader after the other: the commits that wait are made, if the
\* broker answers.  The goroutine of the topic is not waited for.
CloseReader(t) ==
  /\ process \in {"stopping", "failed"} /\ t \notin closed
  /\ closed' = closed \cup {t}
  /\ committed' \in {committed, [committed EXCEPT ![t] = position[t]]}
  /\ UNCHANGED <<profiles, audiences, members, position, handler, process, stops, spent,
                 past, matched, disturbed>>

\* The goroutines are gone, what they had in hand as well.
GoDown ==
  /\ process' = "down" /\ closed' = {}
  /\ handler' = [t \in Topic |-> Idle]
  /\ Disturb({id \in Id : \E t \in Topic : Holds(t, id)})
  /\ UNCHANGED <<profiles, audiences, members, kafka, spent, past, matched>>

\* Mutant: main waits for the goroutines of the consumer.
ExitWaits == process = "failed" /\ closed = Topic /\ GoDown /\ UNCHANGED stops

\* main returns: behind Close there is httpServer.Shutdown, which has 30 seconds.
Exit == process \in {"stopping", "failed"} /\ closed = Topic /\ GoDown /\ UNCHANGED stops

\* The process is killed.
Kill ==
  /\ "crash" \in Faults /\ process # "down" /\ stops < MaxStops
  /\ stops' = stops + 1
  /\ GoDown

\* Mutant: without a committed offset a topic is read from its end.
StartFromEnd ==
  /\ process = "down" /\ process' = "running"
  /\ position' = [t \in Topic |-> IF committed[t] = 0 THEN Len(Log[t]) ELSE committed[t]]
  /\ UNCHANGED <<profiles, audiences, members, committed, handler, closed, stops, spent, past,
                 matched, disturbed>>

\* Mutant: the topics are read from their beginning.
StartOver ==
  /\ process = "down" /\ process' = "running"
  /\ position' = [t \in Topic |-> 0]
  /\ UNCHANGED <<profiles, audiences, members, committed, handler, closed, stops, spent, past,
                 matched, disturbed>>

\* The process is started again: Consumer.Start reads on after the committed offset.
Start ==
  /\ process = "down" /\ process' = "running"
  /\ position' = committed
  /\ UNCHANGED <<profiles, audiences, members, committed, handler, closed, stops, spent, past,
                 matched, disturbed>>

-----------------------------------------------------------------------------
\* CreateAudience: the row is inserted without a size_estimate.  Scanning it back
\* fails, so the caller gets an error; calling again violates the unique name.
\* Nobody is evaluated for it.
CreateAudience(a) ==
  /\ process # "down" /\ audiences[a] = "absent"
  /\ audiences' = [audiences EXCEPT ![a] = "null"]
  /\ Disturb(Id)
  /\ UNCHANGED <<profiles, members, kafka, handler, life, spent, past, matched>>

UpdateEstimate(a) ==
  /\ Estimator /\ audiences[a] # "absent"
  /\ audiences' = [audiences EXCEPT ![a] = "known"]
  /\ UNCHANGED <<profiles, members, kafka, handler, life, spent, past, matched, disturbed>>

\* Somebody else changes something about ids.
Elsewhere(what, ids) ==
  /\ what \in Others /\ spent < MaxOthers
  /\ what # "age" => process # "down"
  /\ spent' = spent + 1
  /\ Disturb(ids)
  /\ UNCHANGED <<audiences, members, kafka, handler, life, past>>

\* CreateOrUpdateProfile, the methods of the enricher, the Upsert of a Merge.
OtherUpsert(id, req) ==
  /\ UpsertAccepted(rows[id], req)
  /\ rows' = [rows EXCEPT ![id] = Upserted(@, req)]
  /\ UNCHANGED events
  /\ Elsewhere("upsert", {id}) /\ NoteMatches({id})

\* Handler.WriteEvent, with an event that counts; the profile need not exist.
OtherEvent(id) ==
  /\ events' = OneMore(id)
  /\ UNCHANGED rows
  /\ Elsewhere("event", {id}) /\ NoteMatches({id})

\* The tag action of a journey.
OtherTag(id, tags) ==
  /\ rows[id] # None
  /\ rows' = [rows EXCEPT ![id] = Tagged(@, tags)]
  /\ UNCHANGED events
  /\ Elsewhere("tag", {id}) /\ NoteMatches({id})

\* The last statements of a Merge: its redirectEvents and its DELETE.
OtherRedirect(from, to) ==
  /\ from # to
  /\ events' = [events EXCEPT ![from] = 0,
                  ![to] = IF @ + events[from] < MaxEvents THEN @ + events[from] ELSE MaxEvents]
  /\ UNCHANGED rows
  /\ Elsewhere("merge", {from, to}) /\ NoteMatches({from, to})

OtherDelete(id) ==
  /\ rows' = [rows EXCEPT ![id] = None]
  /\ UNCHANGED events
  /\ Elsewhere("merge", {id}) /\ NoteMatches({id})

\* An event leaves the window.
Age(id) ==
  /\ events[id] > 0 /\ events' = OneLess(id)
  /\ UNCHANGED rows
  /\ Elsewhere("age", {id}) /\ NoteMatches({id})

-----------------------------------------------------------------------------
HandleStep(t) ==
  \/ UpsertProfile(t) \/ UpsertFails(t) \/ WriteEvent(t)
  \/ ListAudiences(t) \/ ListFails(t)
  \/ (\E a \in Audience : MatchAudience(t, a)) \/ HasMember(t) \/ WriteMember(t)

ProcessStep ==
  BeginStop \/ (\E t \in Topic : CloseReader(t)) \/ Exit \/ Kill \/ Start

OtherStep(id) ==
  \/ \E req \in OtherRequests : OtherUpsert(id, req)
  \/ OtherEvent(id)
  \/ \E tags \in OtherTags : OtherTag(id, tags)
  \/ \E to \in Id : OtherRedirect(id, to)
  \/ OtherDelete(id) \/ Age(id)

IngestNext ==
  \/ \E t \in Topic : ReadMessage(t) \/ HandleStep(t) \/ Commit(t)
  \/ ProcessStep
  \/ \E a \in Audience : CreateAudience(a) \/ UpdateEstimate(a)
  \/ \E id \in Id : OtherStep(id)

IngestSpec == IngestInit /\ [][IngestNext]_vars

\* The goroutines run, and their statements return or time out; so do Close and
\* Shutdown.  Nobody has to start the process again.
FairIngestSpec ==
  /\ IngestSpec
  /\ \A t \in Topic : WF_vars(ReadMessage(t) \/ HandleStep(t)) /\ WF_vars(CloseReader(t))
  /\ WF_vars(Exit)

-----------------------------------------------------------------------------
\* Only who has matched a dynamic audience at some time is ever in it, whatever the
\* topics do at the same time, whatever fails and is delivered again; static ones
\* are left alone.  Every condition has to look at the profile only, or at the
\* events only (builder.go, EvaluateProfile).
MembersHadCause ==
  \A a \in Audience : members[a] \subseteq (IF a \in Dynamic THEN matched[a] ELSE {})

\* The members of a dynamic audience are right about id, as far as that can be
\* evaluated.
Settled(id) ==
  \A a \in Dynamic :
    audiences[a] # "absent" /\ VerdictOn(a, rows[id], events[id]) # "error" =>
      (id \in members[a]) <=> (VerdictOn(a, rows[id], events[id]) = "yes")


\* A profile is in the audiences that it matches now and in no other, unless a message
\* about it is in hand, or, since its last message was taken up while no other topic
\* had one about it in hand, one of these happened: two topics overlapped, a statement
\* failed, the process stopped in the middle, an audience was created, or somebody else
\* changed the profile or its events (builder.go, EvaluateProfile).
SettledUnlessDisturbed ==
  \A id \in Id : id \notin disturbed /\ (\A t \in Topic : ~Holds(t, id)) => Settled(id)

\* The message at offset n is in hand.
InHand(t, n) == n = position[t] /\ ~At(t, "idle")

\* A message whose offset is committed has been handled to the end, or it still is
\* being handled (docs/architecture.md 2.2: at least once).
NoneLost ==
  \A t \in Topic : \A n \in 1 .. committed[t] :
    Msgs[t][n].bad \/ n \in handled[t] \/ InHand(t, n)

\* The messages of t that are gone, and not because of an error.
Lost(t) ==
  {n \in 1 .. committed[t] :
     ~(Msgs[t][n].bad \/ n \in handled[t] \/ n \in dropped[t] \/ InHand(t, n))}

\* A stop of the process, asked for or not, loses at most one message of a topic, the
\* one in hand, wherever it hits between reading, handling and committing; nothing else
\* is lost but what an error drops (consumer.go, consumeTopic and Close).
OneLostPerStop == \A t \in Topic : Cardinality(Lost(t)) <= stops

\* What has become of a message whose offset is committed is final once it is out of
\* hand: handled, given up or lost, it is never taken up again, over all stops and
\* starts, and no commit goes back.  Only behind the committed offset messages are
\* delivered again, and insert their events again (consumer.go, Start, consumeTopic and
\* Close).
CommittedIsFinal ==
  [][\A t \in Topic :
       /\ committed'[t] >= committed[t]
       /\ \A n \in 1 .. committed[t] : ~InHand(t, n) =>
            /\ ~InHand(t, n)'
            /\ n \in handled'[t] => n \in handled[t]
            /\ n \in dropped'[t] => n \in dropped[t]]_vars

\* A profile holds the external ids of one user: those that its canonical id was made
\* of, as long as nobody else sends external ids (mapper.go, merger.go,
\* GenerateCanonicalID).
OwnIds ==
  \A id \in Id :
    LET ids == IF rows[id] = None THEN NoKeys ELSE rows[id].docs[ExternalIDs].map IN
    ids # NoKeys => GenerateCanonicalID(ids) = id

\* Once the process keeps running, every message is read and its handler ends,
\* whatever its statements return (consumer.go, consumeTopic and handleMessage).
Drained ==
  <>[](process = "running") => <>[](\A t \in Topic : At(t, "idle") /\ position[t] = Len(Log[t]))

\* A process that is told to stop does, although the consumers go on reading from
\* closed readers (main.go, consumer.go, Close).
StopsWhenTold == process \in {"stopping", "failed"} ~> process = "down"

=============================================================================
