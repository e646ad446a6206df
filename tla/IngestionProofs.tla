---------------------------- MODULE IngestionProofs ----------------------------
(* Theorems about Ingestion, for every value of its constants. *)
EXTENDS Ingestion, MapperProofs, DataLemmas, FiniteSetTheorems, TLAPS

-----------------------------------------------------------------------------
(* Types: a message is in hand only while the process is up, past the upsert there *)
(* is a profile, and only dynamic audiences are evaluated.                         *)

HandlerOK(t) ==
  /\ ~At(t, "idle") => position[t] \in 1 .. Len(Log[t]) /\ process # "down"
  /\ ~At(t, "idle") /\ ~At(t, "upsert") => handler[t].p \in Profile
  /\ handler[t].todo \subseteq Dynamic
  /\ At(t, "has") \/ At(t, "write") => handler[t].aud \in handler[t].todo

IngestInv == IngestTypeOK /\ \A t \in Topic : HandlerOK(t)

\* The message in hand is one of the topic's.
LEMMA MsgType ==
  ASSUME IngestInv, NEW t \in Topic, ~At(t, "idle")
  PROVE  MsgOf(t) \in Message /\ UserOf(t) \in Id /\ MsgOf(t).req \in Request
  <1>1. MsgOf(t) \in Message
    BY IngestionAssumption DEF IngestInv, HandlerOK, MsgOf
  <1> QED BY <1>1 DEF Message, UserOf

\* The idle handler is a handler.
LEMMA IdleType == Idle \in Handler
  BY DEF Idle, Handler

\* One handler moves, the position and the process stay.
LEMMA MoveOne ==
  ASSUME IngestInv, NEW t \in Topic, NEW h \in Handler,
         handler' = [handler EXCEPT ![t] = h], UNCHANGED <<position, process>>,
         h.todo \subseteq Dynamic,
         h.pc # "idle" => ~At(t, "idle"),
         h.pc \notin {"idle", "upsert"} => h.p \in Profile,
         h.pc \in {"has", "write"} => h.aud \in h.todo
  PROVE  /\ handler' \in [Topic -> Handler] /\ handler'[t] = h
         /\ \A s \in Topic : HandlerOK(s)'
  BY DEF IngestInv, IngestTypeOK, HandlerOK, At

\* What NextAudience leaves.
LEMMA NextAudienceType ==
  ASSUME IngestInv, NEW t \in Topic, ~At(t, "idle"), ~At(t, "upsert"),
         NEW rest \in SUBSET Dynamic, NextAudience(t, rest), UNCHANGED <<position, process>>
  PROVE  /\ handler' \in [Topic -> Handler] /\ handled' \in [Topic -> SUBSET Nat]
         /\ \A s \in Topic : HandlerOK(s)'
         /\ handler'[t] = IF rest = {} THEN Idle
                          ELSE [handler[t] EXCEPT !.pc = "match", !.todo = rest, !.aud = None]
         /\ \A s \in Topic \ {t} : handler'[s] = handler[s]
  <1>1. handler[t] \in Handler /\ position[t] \in Nat
    BY DEF IngestInv, IngestTypeOK
  <1>2. CASE rest = {}
    <2>1. /\ handler' = [handler EXCEPT ![t] = Idle]
          /\ handled' = [handled EXCEPT ![t] = @ \cup {position[t]}]
      BY <1>2 DEF NextAudience
    <2>2. Idle.todo = {} /\ Idle.pc = "idle"
      BY DEF Idle
    <2>3. /\ handler' \in [Topic -> Handler] /\ handler'[t] = Idle
          /\ \A s \in Topic : HandlerOK(s)'
      BY <2>1, <2>2, IdleType, MoveOne
    <2>4. handled' \in [Topic -> SUBSET Nat]
      BY <1>1, <2>1 DEF IngestInv, IngestTypeOK
    <2> QED BY <1>2, <2>1, <2>3, <2>4 DEF IngestInv, IngestTypeOK
  <1>3. CASE rest # {}
    <2> DEFINE h == [handler[t] EXCEPT !.pc = "match", !.todo = rest, !.aud = None]
    <2>1. /\ handler' = [handler EXCEPT ![t] = h] /\ handled' = handled
      BY <1>3 DEF NextAudience, IngestInv, IngestTypeOK
    <2>2. rest \subseteq Audience
      BY IngestionAssumption
    <2>3. h \in Handler /\ h.todo = rest /\ h.pc = "match" /\ h.p = handler[t].p
      BY <1>1, <2>2 DEF Handler
    <2>4. h.p \in Profile
      BY <2>3 DEF IngestInv, HandlerOK
    <2> HIDE DEF h
    <2>5. /\ handler' \in [Topic -> Handler] /\ handler'[t] = h
          /\ \A s \in Topic : HandlerOK(s)'
      BY <2>1, <2>3, <2>4, MoveOne
    <2>6. \A s \in Topic \ {t} : handler'[s] = handler[s]
      BY <2>1 DEF IngestInv, IngestTypeOK
    <2> QED BY <1>3, <2>1, <2>5, <2>6 DEF h, IngestInv, IngestTypeOK
  <1> QED BY <1>2, <1>3

\* The history of those who have matched stays one.
LEMMA NoteType ==
  ASSUME IngestTypeOK, NEW ids \in SUBSET Id, NoteMatches(ids)
  PROVE  matched' \in [Audience -> SUBSET Id]
  BY DEF IngestTypeOK, NoteMatches

\* Events are counted up and down within the bound.
LEMMA CountType ==
  ASSUME IngestTypeOK, NEW id \in Id
  PROVE  /\ OneMore(id) \in [Id -> 0 .. MaxEvents]
         /\ events[id] > 0 => OneLess(id) \in [Id -> 0 .. MaxEvents]
  BY IngestionAssumption DEF IngestTypeOK, OneMore, OneLess

LEMMA IngestInitInv == ASSUME IngestInit PROVE IngestInv
  <1>1. IngestTypeOK
    BY IdleType, IngestionAssumption DEF IngestInit, IngestTypeOK
  <1>2. \A t \in Topic : HandlerOK(t)
    BY DEF IngestInit, HandlerOK, At, Idle
  <1> QED BY <1>1, <1>2 DEF IngestInv

\* The steps of handleMessage.
LEMMA HandleStepInv ==
  ASSUME IngestInv, NEW t \in Topic, HandleStep(t)
  PROVE  IngestInv'
  <1> USE DEF life, past, profiles, kafka
  <1>1. handler[t] \in Handler /\ handler[t].p \in Profile \cup {None}
    BY DEF IngestInv, IngestTypeOK, Handler
  <1>2. ~At(t, "idle") /\ UserOf(t) \in Id /\ MsgOf(t) \in Message /\ MsgOf(t).req \in Request
    <2>1. ~At(t, "idle")
      BY DEF HandleStep, UpsertProfile, UpsertFails, WriteEvent, ListAudiences, ListFails,
             MatchAudience, HasMember, WriteMember, At
    <2> QED BY <2>1, MsgType
  <1>3. \A row \in Row \cup {None} : Upserted(row, MsgOf(t).req) \in Row
    BY <1>2, UpsertedType
  <1>4. position[t] \in Nat /\ UNCHANGED <<position, process>>
    BY DEF IngestInv, IngestTypeOK, HandleStep, UpsertProfile, UpsertFails, WriteEvent,
           ListAudiences, ListFails, MatchAudience, HasMember, WriteMember
  <1>5. \A pc \in {"list", "has", "write"} : [handler[t] EXCEPT !.pc = pc] \in Handler
    BY <1>1 DEF Handler
  \* A handler that drops its message.
  <1>6. ASSUME Drop(t)
        PROVE  /\ handler' \in [Topic -> Handler] /\ dropped' \in [Topic -> SUBSET Nat]
               /\ \A s \in Topic : HandlerOK(s)'
    <2>1. Idle.todo = {} /\ Idle.pc = "idle"
      BY DEF Idle
    <2>2. handler' = [handler EXCEPT ![t] = Idle]
      BY <1>6 DEF Drop
    <2>3. handler' \in [Topic -> Handler] /\ \A s \in Topic : HandlerOK(s)'
      BY <1>4, <2>1, <2>2, IdleType, MoveOne
    <2> QED BY <1>4, <1>6, <2>3 DEF Drop, IngestInv, IngestTypeOK
  <1>7. CASE UpsertProfile(t)
    <2> DEFINE row == Upserted(rows[UserOf(t)], MsgOf(t).req)
               h == [handler[t] EXCEPT !.p = Scan(row),
                       !.pc = IF MsgOf(t).event = None THEN "list" ELSE "event"]
    <2>1. row \in Row
      BY <1>2, <1>3 DEF IngestInv, IngestTypeOK
    <2>2. Scan(row) \in Profile
      BY <2>1, ScanType
    <2>3. h \in Handler /\ h.p \in Profile /\ h.todo = handler[t].todo /\ h.pc \in {"list", "event"}
      BY <1>1, <2>2 DEF Handler
    <2>4. handler' = [handler EXCEPT ![t] = h]
      BY <1>7 DEF UpsertProfile, IngestInv, IngestTypeOK
    <2>5. h.todo \subseteq Dynamic
      BY <2>3 DEF IngestInv, HandlerOK
    <2>6. handler' \in [Topic -> Handler] /\ \A s \in Topic : HandlerOK(s)'
      <3> HIDE DEF h
      <3> QED BY <1>2, <1>4, <2>3, <2>4, <2>5, MoveOne
    <2>7. rows' = [rows EXCEPT ![UserOf(t)] = row]
      BY <1>7 DEF UpsertProfile
    <2>8. rows' \in [Id -> Row \cup {None}]
      BY <1>2, <2>1, <2>7 DEF IngestInv, IngestTypeOK
    <2>9. matched' \in [Audience -> SUBSET Id]
      BY <1>2, <1>7, NoteType DEF UpsertProfile, IngestInv
    <2>10. disturbed' \subseteq Id
      BY <1>2, <1>7 DEF UpsertProfile, IngestInv, IngestTypeOK
    <2>11. UNCHANGED <<events, audiences, members, position, committed, process, closed,
                       stops, spent, handled, dropped>>
      BY <1>7 DEF UpsertProfile
    <2>12. IngestTypeOK'
      <3> HIDE DEF row, h
      <3> QED BY <2>6, <2>8, <2>9, <2>10, <2>11 DEF IngestInv, IngestTypeOK
    <2> QED BY <2>6, <2>12 DEF IngestInv
  <1>8. CASE UpsertFails(t)
    <2>1. rows' \in [Id -> Row \cup {None}] /\ disturbed' \subseteq Id
      <3>1. /\ rows \in [Id -> Row \cup {None}] /\ disturbed \subseteq Id
            /\ Upserted(rows[UserOf(t)], MsgOf(t).req) \in Row
        BY <1>2, <1>3 DEF IngestInv, IngestTypeOK
      <3>2. \/ UNCHANGED rows
            \/ rows' = [rows EXCEPT ![UserOf(t)] = Upserted(rows[UserOf(t)], MsgOf(t).req)]
        BY <1>8 DEF UpsertFails
      <3>3. disturbed' \subseteq disturbed \cup {UserOf(t)}
        BY <1>8 DEF UpsertFails, Disturb
      <3> QED BY <1>2, <3>1, <3>2, <3>3
    <2>2. matched' \in [Audience -> SUBSET Id]
      BY <1>2, <1>8, NoteType DEF UpsertFails, IngestInv
    <2>3. IngestTypeOK'
      BY <1>6, <1>8, <2>1, <2>2 DEF UpsertFails, IngestInv, IngestTypeOK
    <2> QED BY <1>6, <1>8, <2>3 DEF UpsertFails, IngestInv
  <1>9. CASE WriteEvent(t)
    <2> DEFINE h == [handler[t] EXCEPT !.pc = "list"]
    <2>1. h \in Handler /\ h.p = handler[t].p /\ h.todo = handler[t].todo /\ h.pc = "list"
      BY <1>1, <1>5 DEF Handler
    <2>2. handler' = [handler EXCEPT ![t] = h]
      BY <1>9 DEF WriteEvent, Goto, IngestInv, IngestTypeOK
    <2>3. h.p \in Profile /\ h.todo \subseteq Dynamic
      BY <1>9, <2>1 DEF WriteEvent, IngestInv, HandlerOK, At
    <2>4. handler' \in [Topic -> Handler] /\ \A s \in Topic : HandlerOK(s)'
      <3> HIDE DEF h
      <3> QED BY <1>2, <1>4, <2>1, <2>2, <2>3, MoveOne
    <2>5. events' \in [Id -> 0 .. MaxEvents]
      BY <1>2, <1>9, CountType DEF WriteEvent, IngestInv, IngestTypeOK
    <2>6. matched' \in [Audience -> SUBSET Id]
      BY <1>2, <1>9, NoteType DEF WriteEvent, IngestInv
    <2>7. IngestTypeOK'
      BY <1>9, <2>4, <2>5, <2>6 DEF WriteEvent, IngestInv, IngestTypeOK
    <2> QED BY <2>4, <2>7 DEF IngestInv
  <1>10. CASE ListAudiences(t)
    <2>1. ~At(t, "upsert")
      BY <1>10 DEF ListAudiences, At
    <2>2. /\ handler' \in [Topic -> Handler] /\ handled' \in [Topic -> SUBSET Nat]
          /\ \A s \in Topic : HandlerOK(s)'
      BY <1>2, <1>4, <1>10, <2>1, NextAudienceType DEF ListAudiences
    <2>3. IngestTypeOK'
      BY <1>10, <2>2 DEF ListAudiences, IngestInv, IngestTypeOK
    <2> QED BY <2>2, <2>3 DEF IngestInv
  <1>11. CASE ListFails(t)
    <2>1. IngestTypeOK'
      BY <1>2, <1>6, <1>11 DEF ListFails, Disturb, IngestInv, IngestTypeOK
    <2> QED BY <1>6, <1>11, <2>1 DEF ListFails, IngestInv
  <1>12. ASSUME NEW a \in Audience, MatchAudience(t, a) PROVE IngestInv'
    <2> DEFINE v == VerdictOf(a, handler[t].p, events[UserOf(t)])
               h == [handler[t] EXCEPT !.pc = "has", !.aud = a, !.verdict = v]
    <2>1. ~At(t, "upsert") /\ a \in handler[t].todo /\ handler[t].todo \subseteq Dynamic
      BY <1>12 DEF MatchAudience, At, IngestInv, HandlerOK
    <2>2. CASE v # "error" /\ handler' = [handler EXCEPT ![t].pc = "has", ![t].aud = a,
                                                          ![t].verdict = v]
                          /\ UNCHANGED <<handled, disturbed>>
      <3>1. v \in {"yes", "no"}
        BY <2>2 DEF VerdictOf
      <3>2. /\ h \in Handler /\ h.p = handler[t].p /\ h.todo = handler[t].todo
            /\ h.pc = "has" /\ h.aud = a
        BY <1>1, <1>5, <3>1 DEF Handler
      <3>3. handler' = [handler EXCEPT ![t] = h]
        BY <2>2 DEF IngestInv, IngestTypeOK
      <3>4. h.p \in Profile
        BY <1>2, <2>1, <3>2 DEF IngestInv, HandlerOK
      <3>5. handler' \in [Topic -> Handler] /\ \A s \in Topic : HandlerOK(s)'
        <4> HIDE DEF h
        <4> QED BY <1>2, <1>4, <2>1, <3>2, <3>3, <3>4, MoveOne
      <3>6. IngestTypeOK'
        BY <1>12, <2>2, <3>5 DEF MatchAudience, IngestInv, IngestTypeOK
      <3> QED BY <3>5, <3>6 DEF IngestInv
    <2>3. CASE /\ NextAudience(t, handler[t].todo \ {a})
               /\ Disturb(IF v = "error" THEN {} ELSE {UserOf(t)})
      <3>1. /\ handler' \in [Topic -> Handler] /\ handled' \in [Topic -> SUBSET Nat]
            /\ \A s \in Topic : HandlerOK(s)'
        BY <1>2, <1>4, <2>1, <2>3, NextAudienceType
      <3>2. IngestTypeOK'
        BY <1>2, <1>12, <2>3, <3>1 DEF MatchAudience, Disturb, IngestInv, IngestTypeOK
      <3> QED BY <3>1, <3>2 DEF IngestInv
    <2> QED BY <1>12, <2>2, <2>3 DEF MatchAudience
  <1>13. CASE HasMember(t)
    <2> DEFINE h == [handler[t] EXCEPT !.pc = "write"]
    <2>1. ~At(t, "upsert") /\ handler[t].todo \subseteq Dynamic
      BY <1>13 DEF HasMember, At, IngestInv, HandlerOK
    <2>2. /\ \/ Goto(t, "write") /\ UNCHANGED handled
             \/ NextAudience(t, handler[t].todo \ {handler[t].aud})
          /\ disturbed' \subseteq Id
      BY <1>2, <1>13 DEF HasMember, Disturb, IngestInv, IngestTypeOK
    <2>3. CASE Goto(t, "write") /\ UNCHANGED handled
      <3>1. /\ h \in Handler /\ h.p = handler[t].p /\ h.todo = handler[t].todo
            /\ h.pc = "write" /\ h.aud = handler[t].aud
        BY <1>1, <1>5 DEF Handler
      <3>2. handler' = [handler EXCEPT ![t] = h]
        BY <2>3 DEF Goto, IngestInv, IngestTypeOK
      <3>3. h.p \in Profile /\ h.aud \in h.todo
        BY <1>2, <1>13, <2>1, <3>1 DEF HasMember, At, IngestInv, HandlerOK
      <3>4. handler' \in [Topic -> Handler] /\ \A s \in Topic : HandlerOK(s)'
        <4> HIDE DEF h
        <4> QED BY <1>2, <1>4, <2>1, <3>1, <3>2, <3>3, MoveOne
      <3>5. IngestTypeOK'
        BY <1>13, <2>2, <2>3, <3>4 DEF HasMember, IngestInv, IngestTypeOK
      <3> QED BY <3>4, <3>5 DEF IngestInv
    <2>4. CASE NextAudience(t, handler[t].todo \ {handler[t].aud})
      <3>1. /\ handler' \in [Topic -> Handler] /\ handled' \in [Topic -> SUBSET Nat]
            /\ \A s \in Topic : HandlerOK(s)'
        BY <1>2, <1>4, <2>1, <2>4, NextAudienceType
      <3>2. IngestTypeOK'
        BY <1>13, <2>2, <3>1 DEF HasMember, IngestInv, IngestTypeOK
      <3> QED BY <3>1, <3>2 DEF IngestInv
    <2> QED BY <2>2, <2>3, <2>4
  <1>14. CASE WriteMember(t)
    <2>1. ~At(t, "upsert") /\ handler[t].todo \subseteq Dynamic
      BY <1>14 DEF WriteMember, At, IngestInv, HandlerOK
    <2>2. /\ handler' \in [Topic -> Handler] /\ handled' \in [Topic -> SUBSET Nat]
          /\ \A s \in Topic : HandlerOK(s)'
      BY <1>2, <1>4, <1>14, <2>1, NextAudienceType DEF WriteMember
    <2>3. members' \in [Audience -> SUBSET Id] /\ disturbed' \subseteq Id
      <3>1. CASE UNCHANGED members /\ Disturb({UserOf(t)})
        BY <1>2, <3>1 DEF Disturb, IngestInv, IngestTypeOK
      <3>2. CASE /\ UNCHANGED disturbed
                 /\ members' = [members EXCEPT ![handler[t].aud] =
                        IF handler[t].verdict = "yes" THEN @ \cup {UserOf(t)}
                        ELSE @ \ {UserOf(t)}]
        BY <1>2, <3>2 DEF IngestInv, IngestTypeOK
      <3> QED BY <1>14, <3>1, <3>2 DEF WriteMember
    <2>4. IngestTypeOK'
      BY <1>14, <2>2, <2>3 DEF WriteMember, IngestInv, IngestTypeOK
    <2> QED BY <2>2, <2>4 DEF IngestInv
  <1> QED BY <1>7, <1>8, <1>9, <1>10, <1>11, <1>12, <1>13, <1>14 DEF HandleStep

\* The life of the process: reading, committing, stopping and starting.
LEMMA LifeStepInv ==
  ASSUME IngestInv, (\E t \in Topic : ReadMessage(t) \/ Commit(t)) \/ ProcessStep
  PROVE  IngestInv'
  <1> USE DEF life, past, profiles, kafka
  <1> Idle.todo = {} /\ Idle.pc = "idle" /\ Idle \in Handler
    BY IdleType DEF Idle
  <1>1. ASSUME NEW t \in Topic, ReadMessage(t) PROVE IngestInv'
    <2> DEFINE n == position[t] + 1
               h == IF Msgs[t][n].bad THEN Idle ELSE [Idle EXCEPT !.pc = "upsert"]
    <2>1. /\ h \in Handler /\ h.pc \in {"idle", "upsert"} /\ h.todo = {}
      BY DEF Handler, Idle
    <2>2. /\ handler' = [handler EXCEPT ![t] = h]
          /\ position' = [position EXCEPT ![t] = n]
          /\ process # "down" /\ UNCHANGED process
          /\ position[t] < Len(Log[t])
      BY <1>1 DEF ReadMessage
    <2>3. n \in 1 .. Len(Log[t]) /\ n > position[t] /\ Len(Log[t]) \in Nat
      BY <2>2, IngestionAssumption DEF IngestInv, IngestTypeOK
    <2> HIDE DEF h
    <2>4. /\ handler' \in [Topic -> Handler] /\ handler'[t] = h
          /\ \A s \in Topic \ {t} : handler'[s] = handler[s] /\ position'[s] = position[s]
          /\ position'[t] = n /\ position' \in [Topic -> Nat]
      BY <2>1, <2>2, <2>3 DEF IngestInv, IngestTypeOK
    <2>5. \A s \in Topic : HandlerOK(s)'
      BY <2>1, <2>2, <2>3, <2>4 DEF IngestInv, HandlerOK, At
    <2>6. \A s \in Topic : committed[s] <= position'[s] /\ position'[s] <= Len(Log[s])
      <3>1. \A s \in Topic : /\ committed[s] \in Nat /\ position[s] \in Nat
                            /\ committed[s] <= position[s] /\ position[s] <= Len(Log[s])
        BY DEF IngestInv, IngestTypeOK
      <3>2. committed[t] <= n /\ n <= Len(Log[t])
        BY <2>3, <3>1
      <3> QED BY <2>4, <3>1, <3>2
    <2>7. IngestTypeOK'
      BY <1>1, <2>4, <2>6 DEF ReadMessage, IngestInv, IngestTypeOK
    <2> QED BY <2>5, <2>7 DEF IngestInv
  <1>2. ASSUME NEW t \in Topic, Commit(t) PROVE IngestInv'
    <2>1. IngestTypeOK'
      BY <1>2 DEF Commit, IngestInv, IngestTypeOK
    <2>2. \A s \in Topic : HandlerOK(s)'
      BY <1>2 DEF Commit, IngestInv, HandlerOK, At
    <2> QED BY <2>1, <2>2 DEF IngestInv
  <1>3. CASE BeginStop
    <2>1. IngestTypeOK'
      BY <1>3, IngestionAssumption DEF BeginStop, IngestInv, IngestTypeOK
    <2>2. \A s \in Topic : HandlerOK(s)'
      BY <1>3 DEF BeginStop, IngestInv, HandlerOK, At
    <2> QED BY <2>1, <2>2 DEF IngestInv
  <1>4. ASSUME NEW t \in Topic, CloseReader(t) PROVE IngestInv'
    <2>1. committed' \in {committed, [committed EXCEPT ![t] = position[t]]}
      BY <1>4 DEF CloseReader
    <2>2. \A s \in Topic : /\ committed[s] \in Nat /\ position[s] \in Nat
                          /\ committed[s] <= position[s] /\ position[s] <= Len(Log[s])
      BY DEF IngestInv, IngestTypeOK
    <2>3. /\ committed' \in [Topic -> Nat]
          /\ \A s \in Topic : committed'[s] <= position[s]
      <3>1. committed \in [Topic -> Nat]
        BY DEF IngestInv, IngestTypeOK
      <3>2. CASE committed' = committed
        BY <2>2, <3>1, <3>2
      <3>3. CASE committed' = [committed EXCEPT ![t] = position[t]]
        BY <2>2, <3>1, <3>3
      <3> QED BY <2>1, <3>2, <3>3
    <2>4. IngestTypeOK'
      BY <1>4, <2>3 DEF CloseReader, IngestInv, IngestTypeOK
    <2>5. \A s \in Topic : HandlerOK(s)'
      BY <1>4 DEF CloseReader, IngestInv, HandlerOK, At
    <2> QED BY <2>4, <2>5 DEF IngestInv
  <1>5. ASSUME GoDown, stops' \in 0 .. MaxStops PROVE IngestInv'
    <2>1. handler' \in [Topic -> Handler] /\ \A s \in Topic : handler'[s] = Idle
      BY <1>5 DEF GoDown
    <2>2. disturbed' \subseteq Id
      BY <1>5 DEF GoDown, Disturb, IngestInv, IngestTypeOK
    <2>3. IngestTypeOK'
      BY <1>5, <2>1, <2>2 DEF GoDown, IngestInv, IngestTypeOK
    <2>4. \A s \in Topic : HandlerOK(s)'
      BY <1>5, <2>1 DEF HandlerOK, At
    <2> QED BY <2>3, <2>4 DEF IngestInv
  <1>6. CASE Exit
    BY <1>5, <1>6 DEF Exit, IngestInv, IngestTypeOK
  <1>7. CASE Kill
    BY <1>5, <1>7, IngestionAssumption DEF Kill, IngestInv, IngestTypeOK
  <1>8. CASE Start
    <2>1. IngestTypeOK'
      <3>1. position' \in [Topic -> Nat]
        BY <1>8 DEF Start, IngestInv, IngestTypeOK
      <3>2. \A t \in Topic : committed[t] <= position'[t] /\ position'[t] <= Len(Log[t])
        <4> SUFFICES ASSUME NEW t \in Topic
                     PROVE  committed[t] <= position'[t] /\ position'[t] <= Len(Log[t])
          OBVIOUS
        <4>1. /\ committed[t] \in Nat /\ position[t] \in Nat /\ Len(Log[t]) \in Nat
              /\ committed[t] <= position[t] /\ position[t] <= Len(Log[t])
          BY IngestionAssumption DEF IngestInv, IngestTypeOK
        <4>2. position'[t] = committed[t]
          BY <1>8 DEF Start
        <4> QED BY <4>1, <4>2
      <3> QED BY <1>8, <3>1, <3>2 DEF Start, IngestInv, IngestTypeOK
    <2>2. \A s \in Topic : HandlerOK(s)'
      BY <1>8 DEF Start, IngestInv, HandlerOK, At
    <2> QED BY <2>1, <2>2 DEF IngestInv
  <1> QED BY <1>1, <1>2, <1>3, <1>4, <1>6, <1>7, <1>8 DEF ProcessStep

\* The others, and time.
LEMMA OtherStepInv ==
  ASSUME IngestInv,
         \/ \E a \in Audience : CreateAudience(a) \/ UpdateEstimate(a)
         \/ \E id \in Id : OtherStep(id)
  PROVE  IngestInv'
  <1> USE DEF life, past, profiles, kafka
  <1>1. ASSUME UNCHANGED <<handler, position, process>> PROVE \A s \in Topic : HandlerOK(s)'
    BY <1>1 DEF IngestInv, HandlerOK, At
  <1>2. ASSUME NEW a \in Audience, CreateAudience(a) PROVE IngestInv'
    <2>1. IngestTypeOK'
      BY <1>2 DEF CreateAudience, Disturb, IngestInv, IngestTypeOK
    <2> QED BY <1>1, <1>2, <2>1 DEF CreateAudience, IngestInv
  <1>3. ASSUME NEW a \in Audience, UpdateEstimate(a) PROVE IngestInv'
    <2>1. IngestTypeOK'
      BY <1>3 DEF UpdateEstimate, IngestInv, IngestTypeOK
    <2> QED BY <1>1, <1>3, <2>1 DEF UpdateEstimate, IngestInv
  <1>4. ASSUME NEW what, NEW ids \in SUBSET Id, Elsewhere(what, ids), NoteMatches(ids),
               rows' \in [Id -> Row \cup {None}], events' \in [Id -> 0 .. MaxEvents]
        PROVE  IngestInv'
    <2>1. matched' \in [Audience -> SUBSET Id]
      BY <1>4, NoteType DEF IngestInv
    <2>2. disturbed' \subseteq Id /\ spent' \in 0 .. MaxOthers
      BY <1>4, IngestionAssumption DEF Elsewhere, Disturb, IngestInv, IngestTypeOK
    <2>3. IngestTypeOK'
      BY <1>4, <2>1, <2>2 DEF Elsewhere, IngestInv, IngestTypeOK
    <2> QED BY <1>1, <1>4, <2>3 DEF Elsewhere, IngestInv
  <1>5. ASSUME NEW id \in Id, OtherStep(id) PROVE IngestInv'
    <2>1. ASSUME NEW req \in OtherRequests, OtherUpsert(id, req) PROVE IngestInv'
      <3>1. Upserted(rows[id], req) \in Row
        BY UpsertedType, IngestionAssumption DEF IngestInv, IngestTypeOK
      <3>2. rows' \in [Id -> Row \cup {None}] /\ events' \in [Id -> 0 .. MaxEvents]
        BY <2>1, <3>1 DEF OtherUpsert, IngestInv, IngestTypeOK
      <3> QED BY <1>4, <2>1, <3>2 DEF OtherUpsert
    <2>2. CASE OtherEvent(id)
      <3>1. rows' \in [Id -> Row \cup {None}] /\ events' \in [Id -> 0 .. MaxEvents]
        BY <2>2, CountType DEF OtherEvent, IngestInv, IngestTypeOK
      <3> QED BY <1>4, <2>2, <3>1 DEF OtherEvent
    <2>3. ASSUME NEW tags \in OtherTags, OtherTag(id, tags) PROVE IngestInv'
      <3>1. rows[id] \in Row /\ tags \in SUBSET Tag
        BY <2>3, IngestionAssumption DEF OtherTag, IngestInv, IngestTypeOK
      <3>2. Tagged(rows[id], tags) \in Row
        BY <3>1 DEF Tagged, Row
      <3>3. rows' \in [Id -> Row \cup {None}] /\ events' \in [Id -> 0 .. MaxEvents]
        BY <2>3, <3>2 DEF OtherTag, IngestInv, IngestTypeOK
      <3> QED BY <1>4, <2>3, <3>3 DEF OtherTag
    <2>4. ASSUME NEW to \in Id, OtherRedirect(id, to) PROVE IngestInv'
      <3>1. \A n \in 0 .. MaxEvents, m \in 0 .. MaxEvents :
              (IF n + m < MaxEvents THEN n + m ELSE MaxEvents) \in 0 .. MaxEvents
        BY IngestionAssumption
      <3>2. events' \in [Id -> 0 .. MaxEvents]
        <4>1. events[id] \in 0 .. MaxEvents /\ events[to] \in 0 .. MaxEvents
              /\ 0 \in 0 .. MaxEvents
          BY IngestionAssumption DEF IngestInv, IngestTypeOK
        <4> DEFINE n == IF events[to] + events[id] < MaxEvents
                        THEN events[to] + events[id] ELSE MaxEvents
        <4>2. n \in 0 .. MaxEvents
          BY <3>1, <4>1
        <4>3. events' = [[events EXCEPT ![id] = 0] EXCEPT ![to] = n]
          BY <2>4 DEF OtherRedirect, IngestInv, IngestTypeOK
        <4> QED BY <4>1, <4>2, <4>3 DEF IngestInv, IngestTypeOK
      <3>3. rows' \in [Id -> Row \cup {None}]
        BY <2>4 DEF OtherRedirect, IngestInv, IngestTypeOK
      <3> QED BY <1>4, <2>4, <3>2, <3>3 DEF OtherRedirect
    <2>5. CASE OtherDelete(id)
      <3>1. rows' \in [Id -> Row \cup {None}] /\ events' \in [Id -> 0 .. MaxEvents]
        BY <2>5 DEF OtherDelete, IngestInv, IngestTypeOK
      <3> QED BY <1>4, <2>5, <3>1 DEF OtherDelete
    <2>6. CASE Age(id)
      <3>1. rows' \in [Id -> Row \cup {None}] /\ events' \in [Id -> 0 .. MaxEvents]
        BY <2>6, CountType DEF Age, IngestInv, IngestTypeOK
      <3> QED BY <1>4, <2>6, <3>1 DEF Age
    <2> QED BY <1>5, <2>1, <2>2, <2>3, <2>4, <2>5, <2>6 DEF OtherStep
  <1> QED BY <1>2, <1>3, <1>5

LEMMA IngestNextInv == ASSUME IngestInv, [IngestNext]_vars PROVE IngestInv'
  <1>1. CASE IngestNext
    BY <1>1, HandleStepInv, LifeStepInv, OtherStepInv DEF IngestNext
  <1>2. CASE UNCHANGED vars
    BY <1>2 DEF vars, profiles, kafka, life, past, IngestInv, IngestTypeOK, HandlerOK, At
  <1> QED BY <1>1, <1>2

LEMMA IngestInvariant == IngestSpec => []IngestInv
  BY IngestInitInv, IngestNextInv, PTL DEF IngestSpec

\* Rows, events, memberships, offsets and handlers keep their types for any topics,
\* messages, audiences and faults (the whole of Ingestion).
THEOREM IngestTypeCorrect == IngestSpec => []IngestTypeOK
  <1>1. IngestInv => IngestTypeOK
    BY DEF IngestInv
  <1> QED BY <1>1, IngestInvariant, PTL

-----------------------------------------------------------------------------
(* Lost messages.  What counts is what has been read, committed or not: only a stop *)
(* takes a message out of hand without an end, and Start may read it again.         *)

Gone(t) ==
  {n \in 1 .. position[t] :
     ~(Msgs[t][n].bad \/ n \in handled[t] \/ n \in dropped[t] \/ InHand(t, n))}

\* The stops that have taken effect.
Ended == IF process \in {"stopping", "failed"} THEN stops - 1 ELSE stops

FewGone == Ended \in Nat /\ \A t \in Topic : Cardinality(Gone(t)) <= Ended

LEMMA GoneFinite ==
  ASSUME IngestTypeOK, NEW t \in Topic
  PROVE  IsFiniteSet(Gone(t)) /\ Cardinality(Gone(t)) \in Nat
  <1>1. IsFiniteSet(1 .. position[t])
    BY FS_Interval DEF IngestTypeOK
  <1>2. Gone(t) \subseteq 1 .. position[t]
    BY DEF Gone
  <1>3. IsFiniteSet(Gone(t))
    BY <1>1, <1>2, FS_Subset
  <1> QED BY <1>3, FS_CardinalityType

\* A step that lets nothing go.
LEMMA NothingGoes ==
  ASSUME IngestInv, IngestInv', FewGone, Ended' \in Nat, Ended' >= Ended,
         \A t \in Topic : Gone(t)' \subseteq Gone(t)
  PROVE  FewGone'
  <1>1. ASSUME NEW t \in Topic PROVE Cardinality(Gone(t)') <= Ended'
    <2>1. /\ Gone(t)' \subseteq Gone(t) /\ IsFiniteSet(Gone(t))
          /\ Cardinality(Gone(t)) \in Nat /\ Cardinality(Gone(t)) <= Ended
      BY GoneFinite DEF IngestInv, FewGone
    <2>2. IsFiniteSet(Gone(t)') /\ Cardinality(Gone(t)') <= Cardinality(Gone(t))
      BY <2>1, FS_Subset
    <2>3. Cardinality(Gone(t)') \in Nat
      BY <2>2, FS_CardinalityType
    <2> QED BY <2>1, <2>2, <2>3 DEF FewGone
  <1> QED BY <1>1 DEF FewGone

\* A stop that lets the messages in hand go.
LEMMA OneGoes ==
  ASSUME IngestInv, IngestInv', FewGone, Ended' \in Nat, Ended' >= Ended + 1,
         \A t \in Topic : Gone(t)' \subseteq Gone(t) \cup {position[t]}
  PROVE  FewGone'
  <1>1. ASSUME NEW t \in Topic PROVE Cardinality(Gone(t)') <= Ended'
    <2> DEFINE more == Gone(t) \cup {position[t]}
    <2>1. /\ IsFiniteSet(Gone(t)) /\ Cardinality(Gone(t)) \in Nat
          /\ Cardinality(Gone(t)) <= Ended
      BY GoneFinite DEF IngestInv, FewGone
    <2>2. /\ IsFiniteSet(more) /\ Cardinality(more) \in Nat
          /\ Cardinality(more) <= Cardinality(Gone(t)) + 1
      <3>1. /\ IsFiniteSet(more)
            /\ Cardinality(more) = IF position[t] \in Gone(t) THEN Cardinality(Gone(t))
                                   ELSE Cardinality(Gone(t)) + 1
        BY <2>1, FS_AddElement
      <3> HIDE DEF more
      <3> QED BY <2>1, <3>1
    <2> HIDE DEF more
    <2>3. Gone(t)' \subseteq more
      BY DEF more
    <2>4. IsFiniteSet(Gone(t)') /\ Cardinality(Gone(t)') <= Cardinality(more)
      BY <2>2, <2>3, FS_Subset
    <2>5. Cardinality(Gone(t)') \in Nat
      BY <2>4, FS_CardinalityType
    <2> QED BY <2>1, <2>2, <2>4, <2>5 DEF FewGone
  <1> QED BY <1>1 DEF FewGone

\* A handler that ends writes down how.
LEMMA HandleGone ==
  ASSUME IngestInv, NEW t \in Topic, HandleStep(t), NEW s \in Topic
  PROVE  Gone(s)' \subseteq Gone(s)
  <1> USE DEF life, past, profiles, kafka
  <1>1. UNCHANGED position
    BY DEF HandleStep, UpsertProfile, UpsertFails, WriteEvent, ListAudiences, ListFails,
           MatchAudience, HasMember, WriteMember
  <1>2. /\ handled[s] \subseteq handled'[s] /\ dropped[s] \subseteq dropped'[s]
        /\ At(s, "idle")' => At(s, "idle") \/ position[s] \in handled'[s] \cup dropped'[s]
    <2>1. ASSUME Drop(t), UNCHANGED handled PROVE <1>2!:
      BY <2>1 DEF Drop, At, IngestInv, IngestTypeOK
    <2>2. ASSUME NEW rest, NextAudience(t, rest), UNCHANGED dropped PROVE <1>2!:
      <3>1. CASE rest = {}
        <4>1. /\ handler \in [Topic -> Handler] /\ handled \in [Topic -> SUBSET Nat]
              /\ UNCHANGED dropped
          BY <2>2 DEF IngestInv, IngestTypeOK
        <4>2. /\ handler' = [handler EXCEPT ![t] = Idle]
              /\ handled' = [handled EXCEPT ![t] = @ \cup {position[t]}]
          BY <2>2, <3>1 DEF NextAudience
        <4>3. CASE s = t
          <5>1. handled'[s] = handled[s] \cup {position[s]}
            BY <4>1, <4>2, <4>3
          <5> QED BY <4>1, <5>1
        <4>4. CASE s # t
          <5>1. handled'[s] = handled[s] /\ handler'[s] = handler[s]
            BY <4>1, <4>2, <4>4
          <5> QED BY <4>1, <5>1 DEF At
        <4> QED BY <4>3, <4>4
      <3>2. CASE rest # {}
        <4>1. handler'[t].pc = "match" /\ \A r \in Topic \ {t} : handler'[r] = handler[r]
          BY <2>2, <3>2 DEF NextAudience, IngestInv, IngestTypeOK, Handler
        <4>2. UNCHANGED <<handled, dropped>>
          BY <2>2, <3>2 DEF NextAudience
        <4>3. handler'[s].pc = "idle" => handler[s].pc = "idle"
          BY <4>1
        <4> QED BY <4>2, <4>3 DEF At
      <3> QED BY <3>1, <3>2
    <2>3. ASSUME NEW pc \in {"event", "list", "has", "write"}, handler'[t].pc = pc,
                 \A r \in Topic \ {t} : handler'[r] = handler[r], UNCHANGED past
          PROVE  <1>2!:
      <3>1. handled'[s] = handled[s] /\ dropped'[s] = dropped[s]
        BY <2>3
      <3>2. handler'[s].pc = "idle" => handler[s].pc = "idle"
        BY <2>3
      <3> QED BY <3>1, <3>2 DEF At
    <2>4. CASE UpsertProfile(t)
      <3>1. handler'[t].pc \in {"event", "list"}
        BY <2>4 DEF UpsertProfile, IngestInv, IngestTypeOK, Handler
      <3>2. \A r \in Topic \ {t} : handler'[r] = handler[r]
        BY <2>4 DEF UpsertProfile, IngestInv, IngestTypeOK
      <3> QED BY <2>3, <2>4, <3>1, <3>2 DEF UpsertProfile
    <2>5. CASE UpsertFails(t) \/ ListFails(t)
      BY <2>1, <2>5 DEF UpsertFails, ListFails
    <2>6. CASE WriteEvent(t)
      <3>1. handler'[t].pc = "list" /\ \A r \in Topic \ {t} : handler'[r] = handler[r]
        BY <2>6 DEF WriteEvent, Goto, IngestInv, IngestTypeOK, Handler
      <3> QED BY <2>3, <2>6, <3>1 DEF WriteEvent
    <2>7. CASE ListAudiences(t) \/ WriteMember(t)
      BY <2>2, <2>7 DEF ListAudiences, WriteMember
    <2>8. ASSUME NEW a \in Audience, MatchAudience(t, a) PROVE <1>2!:
      <3>1. CASE NextAudience(t, handler[t].todo \ {a})
        BY <2>2, <2>8, <3>1 DEF MatchAudience
      <3>2. CASE \E v : handler' = [handler EXCEPT ![t].pc = "has", ![t].aud = a,
                                                  ![t].verdict = v] /\ UNCHANGED handled
        <4>1. handler'[t].pc = "has" /\ \A r \in Topic \ {t} : handler'[r] = handler[r]
          BY <3>2 DEF IngestInv, IngestTypeOK, Handler
        <4> QED BY <2>3, <2>8, <3>2, <4>1 DEF MatchAudience
      <3> QED BY <2>8, <3>1, <3>2 DEF MatchAudience
    <2>9. CASE HasMember(t)
      <3>1. CASE NextAudience(t, handler[t].todo \ {handler[t].aud})
        BY <2>2, <2>9, <3>1 DEF HasMember
      <3>2. CASE Goto(t, "write") /\ UNCHANGED handled
        <4>1. handler'[t].pc = "write" /\ \A r \in Topic \ {t} : handler'[r] = handler[r]
          BY <3>2 DEF Goto, IngestInv, IngestTypeOK, Handler
        <4> QED BY <2>3, <2>9, <3>2, <4>1 DEF HasMember
      <3> QED BY <2>9, <3>1, <3>2 DEF HasMember
    <2> QED BY <2>4, <2>5, <2>6, <2>7, <2>8, <2>9 DEF HandleStep
  <1> QED BY <1>1, <1>2 DEF Gone, InHand

LEMMA FewGoneStep ==
  ASSUME IngestInv, IngestInv', FewGone, [IngestNext]_vars
  PROVE  FewGone'
  <1> USE DEF life, past, profiles, kafka
  <1>1. ASSUME UNCHANGED <<process, stops>> PROVE Ended' = Ended /\ Ended' \in Nat
    BY <1>1 DEF Ended, FewGone
  <1>2. ASSUME UNCHANGED <<position, handler, past>>
        PROVE  \A t \in Topic : Gone(t)' \subseteq Gone(t)
    BY <1>2 DEF Gone, InHand, At
  <1>3. ASSUME NEW t \in Topic, HandleStep(t) PROVE FewGone'
    <2>1. UNCHANGED <<process, stops>>
      BY <1>3 DEF HandleStep, UpsertProfile, UpsertFails, WriteEvent, ListAudiences,
                  ListFails, MatchAudience, HasMember, WriteMember
    <2> QED BY <1>1, <1>3, <2>1, HandleGone, NothingGoes DEF FewGone
  <1>4. ASSUME NEW t \in Topic, ReadMessage(t) PROVE FewGone'
    <2>1. UNCHANGED <<process, stops, past>>
      BY <1>4 DEF ReadMessage
    <2>2. ASSUME NEW s \in Topic PROVE Gone(s)' \subseteq Gone(s)
      <3>1. CASE s # t
        BY <1>4, <3>1 DEF ReadMessage, Gone, InHand, At, IngestInv, IngestTypeOK
      <3>2. CASE s = t
        <4> PICK last : last = position[t] + 1
          OBVIOUS
        <4>1. position[t] \in Nat /\ position'[t] = last /\ At(t, "idle")
          BY <1>4 DEF ReadMessage, IngestInv, IngestTypeOK
        <4>2. Msgs[t][last].bad \/ InHand(t, last)'
          <5>1. ~Msgs[t][last].bad => handler'[t].pc = "upsert"
            BY <1>4 DEF ReadMessage, Idle, IngestInv, IngestTypeOK
          <5>2. ~Msgs[t][last].bad => handler'[t].pc # "idle" /\ last = position'[t]
            BY <4>1, <5>1
          <5> QED BY <5>2 DEF InHand, At
        <4>3. \A n \in 1 .. last : n = last \/ (n \in 1 .. position[t] /\ ~InHand(t, n))
          BY <4>1 DEF InHand
        <4>4. ASSUME NEW n \in Gone(t)' PROVE n \in Gone(t)
          <5>1. /\ n \in 1 .. last
                /\ ~(Msgs[t][n].bad \/ n \in handled[t] \/ n \in dropped[t] \/ InHand(t, n)')
            BY <2>1, <4>1, <4>4 DEF Gone
          <5>2. n # last
            BY <4>2, <5>1 DEF InHand, At
          <5> QED BY <4>3, <5>1, <5>2 DEF Gone
        <4> QED BY <3>2, <4>4
      <3> QED BY <3>1, <3>2
    <2> QED BY <1>1, <2>1, <2>2, NothingGoes DEF FewGone
  <1>5. ASSUME NEW t \in Topic, Commit(t) \/ CloseReader(t) PROVE FewGone'
    <2>1. UNCHANGED <<position, handler, past, process, stops>>
      BY <1>5 DEF Commit, CloseReader
    <2> QED BY <1>1, <1>2, <2>1, NothingGoes DEF FewGone
  <1>6. CASE BeginStop
    <2>1. UNCHANGED <<position, handler, past>>
      BY <1>6 DEF BeginStop
    <2>2. Ended' = Ended /\ Ended' \in Nat
      BY <1>6 DEF BeginStop, Ended, FewGone, IngestInv, IngestTypeOK
    <2> QED BY <1>2, <2>1, <2>2, NothingGoes DEF FewGone
  <1>7. CASE Exit \/ Kill
    <2>1. GoDown
      BY <1>7 DEF Exit, Kill
    <2>2. Ended' \in Nat /\ Ended' >= Ended + 1
      <3>1. stops \in Nat /\ Ended \in Nat
        BY IngestionAssumption DEF FewGone, IngestInv, IngestTypeOK
      <3>2. process' = "down" /\ Ended' = stops'
        BY <2>1 DEF GoDown, Ended
      <3>3. CASE Exit
        BY <3>1, <3>2, <3>3 DEF Exit, Ended
      <3>4. CASE Kill
        BY <3>1, <3>2, <3>4 DEF Kill, Ended
      <3> QED BY <1>7, <3>3, <3>4
    <2>3. \A t \in Topic : Gone(t)' \subseteq Gone(t) \cup {position[t]}
      BY <2>1 DEF GoDown, Gone, InHand
    <2> QED BY <2>2, <2>3, OneGoes
  <1>8. CASE Start
    <2>1. Ended' = Ended /\ Ended' \in Nat
      BY <1>8 DEF Start, Ended, FewGone
    <2>2. ASSUME NEW t \in Topic PROVE Gone(t)' \subseteq Gone(t)
      <3>1. /\ committed[t] \in Nat /\ position[t] \in Nat /\ committed[t] <= position[t]
            /\ position'[t] = committed[t]
        BY <1>8 DEF Start, IngestInv, IngestTypeOK
      <3>2. At(t, "idle")
        BY <1>8 DEF Start, IngestInv, HandlerOK
      <3>3. \A n \in 1 .. committed[t] : n \in 1 .. position[t]
        BY <3>1
      <3> QED BY <1>8, <3>1, <3>2, <3>3 DEF Start, Gone, InHand
    <2> QED BY <2>1, <2>2, NothingGoes DEF FewGone
  <1>9. CASE \/ \E a \in Audience : CreateAudience(a) \/ UpdateEstimate(a)
             \/ \E id \in Id : OtherStep(id)
             \/ UNCHANGED vars
    <2>1. UNCHANGED <<position, handler, past, process, stops>>
      BY <1>9 DEF CreateAudience, UpdateEstimate, OtherStep, OtherUpsert, OtherEvent, OtherTag,
                  OtherRedirect, OtherDelete, Age, Elsewhere, vars
    <2> QED BY <1>1, <1>2, <2>1, NothingGoes DEF FewGone
  <1> QED BY <1>3, <1>4, <1>5, <1>6, <1>7, <1>8, <1>9 DEF IngestNext, ProcessStep

\* A stop loses at most one message of a topic, the one in hand, wherever in reading,
\* handling and committing it hits, for any number of topics, messages and stops
\* (consumer.go, consumeTopic and Close).
THEOREM StopsLoseOne == IngestSpec => []OneLostPerStop
  <1>1. ASSUME IngestInit PROVE FewGone
    <2>1. \A t \in Topic : Gone(t) = {}
      BY <1>1 DEF IngestInit, Gone
    <2>2. Ended = 0
      BY <1>1 DEF IngestInit, Ended
    <2>3. Cardinality({}) = 0
      BY FS_EmptySet
    <2>4. \A t \in Topic : Cardinality(Gone(t)) = 0
      BY <2>1, <2>3
    <2> QED BY <2>2, <2>4 DEF FewGone
  <1>2. ASSUME IngestInv, FewGone PROVE OneLostPerStop
    <2> SUFFICES ASSUME NEW t \in Topic PROVE Cardinality(Lost(t)) <= stops
      BY DEF OneLostPerStop
    <2>1. /\ committed[t] \in Nat /\ position[t] \in Nat /\ committed[t] <= position[t]
          /\ stops \in Nat
      BY <1>2, IngestionAssumption DEF IngestInv, IngestTypeOK
    <2>2. \A n \in 1 .. committed[t] : n \in 1 .. position[t]
      BY <2>1
    <2>3. Lost(t) \subseteq Gone(t)
      BY <2>2 DEF Lost, Gone
    <2>4. /\ IsFiniteSet(Gone(t)) /\ Cardinality(Gone(t)) \in Nat
          /\ Cardinality(Gone(t)) <= stops
      <3>1. Ended <= stops /\ Ended \in Nat /\ Cardinality(Gone(t)) <= Ended
        BY <1>2, <2>1 DEF Ended, FewGone
      <3> QED BY <1>2, <2>1, <3>1, GoneFinite DEF IngestInv
    <2>5. IsFiniteSet(Lost(t)) /\ Cardinality(Lost(t)) <= Cardinality(Gone(t))
      BY <2>3, <2>4, FS_Subset
    <2>6. Cardinality(Lost(t)) \in Nat
      BY <2>5, FS_CardinalityType
    <2> QED BY <2>1, <2>4, <2>5, <2>6
  <1> QED BY <1>1, <1>2, FewGoneStep, IngestInvariant, PTL DEF IngestSpec

-----------------------------------------------------------------------------
(* What is committed.  A message in hand is past the committed offset, or it is *)
(* still the one that was read when the offset was committed; Start puts the    *)
(* position back to the committed offset and no further.                        *)

\* What a step of the handler of t does to the messages that are not in hand.
LEMMA HandleEnds ==
  ASSUME IngestInv, NEW t \in Topic, HandleStep(t)
  PROVE  /\ UNCHANGED <<position, committed>> /\ ~At(t, "idle")
         /\ \A s \in Topic \ {t} :
              handler'[s] = handler[s] /\ handled'[s] = handled[s] /\ dropped'[s] = dropped[s]
         /\ handled'[t] \subseteq handled[t] \cup {position[t]}
         /\ dropped'[t] \subseteq dropped[t] \cup {position[t]}
  <1> USE DEF life, past, profiles, kafka
  <1>0. /\ handler \in [Topic -> Handler] /\ handled \in [Topic -> SUBSET Nat]
        /\ dropped \in [Topic -> SUBSET Nat]
    BY DEF IngestInv, IngestTypeOK
  <1>1. UNCHANGED <<position, committed>> /\ ~At(t, "idle")
    BY DEF HandleStep, UpsertProfile, UpsertFails, WriteEvent, ListAudiences, ListFails,
           MatchAudience, HasMember, WriteMember, At
  <1>2. \A s \in Topic \ {t} : handler'[s] = handler[s]
    BY <1>0 DEF HandleStep, UpsertProfile, UpsertFails, WriteEvent, ListAudiences, ListFails,
           MatchAudience, HasMember, WriteMember, Goto, Drop, NextAudience
  <1>3. \/ UNCHANGED handled
        \/ handled' = [handled EXCEPT ![t] = @ \cup {position[t]}]
    BY DEF HandleStep, UpsertProfile, UpsertFails, WriteEvent, ListAudiences, ListFails,
           MatchAudience, HasMember, WriteMember, NextAudience
  <1>4. \/ UNCHANGED dropped
        \/ dropped' = [dropped EXCEPT ![t] = @ \cup {position[t]}]
    BY DEF HandleStep, UpsertProfile, UpsertFails, WriteEvent, ListAudiences, ListFails,
           MatchAudience, HasMember, WriteMember, Drop
  <1> QED BY <1>0, <1>1, <1>2, <1>3, <1>4

LEMMA FinalStep ==
  ASSUME IngestInv, [IngestNext]_vars, NEW t \in Topic
  PROVE  /\ committed'[t] >= committed[t]
         /\ \A n \in 1 .. committed[t] : ~InHand(t, n) =>
              /\ ~InHand(t, n)'
              /\ n \in handled'[t] => n \in handled[t]
              /\ n \in dropped'[t] => n \in dropped[t]
  <1> USE DEF life, past, profiles, kafka
  <1>0. /\ committed \in [Topic -> Nat] /\ position \in [Topic -> Nat]
        /\ committed[t] \in Nat /\ position[t] \in Nat /\ committed[t] <= position[t]
        /\ handler \in [Topic -> Handler]
    BY DEF IngestInv, IngestTypeOK
  <1> DEFINE Same == UNCHANGED <<handled, dropped>>
             Goal == /\ committed'[t] >= committed[t]
                     /\ \A n \in 1 .. committed[t] : ~InHand(t, n) =>
                          /\ ~InHand(t, n)'
                          /\ n \in handled'[t] => n \in handled[t]
                          /\ n \in dropped'[t] => n \in dropped[t]
  <1>1. ASSUME NEW s \in Topic, HandleStep(s) PROVE Goal
    <2>1. UNCHANGED <<position, committed>> /\ ~At(s, "idle")
      BY <1>1, HandleEnds
    <2>2. CASE s = t
      <3>1. \A n : ~InHand(t, n) => n # position[t] /\ ~InHand(t, n)'
        BY <2>1, <2>2 DEF InHand
      <3> QED BY <1>0, <1>1, <2>1, <2>2, <3>1, HandleEnds
    <2>3. CASE s # t
      <3>1. /\ handler'[t] = handler[t] /\ handled'[t] = handled[t]
            /\ dropped'[t] = dropped[t]
        BY <1>1, <2>3, HandleEnds
      <3> QED BY <1>0, <2>1, <3>1 DEF InHand, At
    <2> QED BY <2>2, <2>3
  <1>2. ASSUME NEW s \in Topic, ReadMessage(s) PROVE Goal
    <2>1. UNCHANGED committed /\ Same
      BY <1>2 DEF ReadMessage
    <2>2. \/ position'[t] = position[t] /\ handler'[t] = handler[t]
          \/ position'[t] = position[t] + 1
      BY <1>0, <1>2 DEF ReadMessage
    <2> QED BY <1>0, <2>1, <2>2 DEF InHand, At
  <1>3. ASSUME NEW s \in Topic, Commit(s) \/ CloseReader(s) PROVE Goal
    <2>1. UNCHANGED <<position, handler>> /\ Same
      BY <1>3 DEF Commit, CloseReader
    <2>2. committed' \in {committed, [committed EXCEPT ![s] = position[s]]}
      BY <1>3 DEF Commit, CloseReader
    <2>3. committed'[t] \in {committed[t], position[t]}
      BY <1>0, <2>2
    <2> QED BY <1>0, <2>1, <2>3 DEF InHand, At
  <1>4. CASE Exit \/ Kill
    <2>1. UNCHANGED committed /\ Same /\ handler'[t] = Idle
      BY <1>4 DEF Exit, Kill, GoDown
    <2>2. \A n : ~InHand(t, n)'
      BY <2>1 DEF InHand, At, Idle
    <2> QED BY <1>0, <2>1, <2>2
  <1>5. CASE Start
    <2>1. UNCHANGED <<committed, handler>> /\ Same
      BY <1>5 DEF Start
    <2>2. At(t, "idle")
      BY <1>5 DEF Start, IngestInv, HandlerOK
    <2>3. \A n : ~InHand(t, n)'
      BY <2>1, <2>2 DEF InHand, At
    <2> QED BY <1>0, <2>1, <2>3
  <1>6. CASE \/ BeginStop \/ UNCHANGED vars
             \/ \E a \in Audience : CreateAudience(a) \/ UpdateEstimate(a)
             \/ \E id \in Id : OtherStep(id)
    <2>1. UNCHANGED <<position, committed, handler>> /\ Same
      BY <1>6 DEF BeginStop, CreateAudience, UpdateEstimate, OtherStep, OtherUpsert, OtherEvent,
                  OtherTag, OtherRedirect, OtherDelete, Age, Elsewhere, vars
    <2> QED BY <1>0, <2>1 DEF InHand, At
  <1> QED BY <1>1, <1>2, <1>3, <1>4, <1>5, <1>6 DEF IngestNext, ProcessStep

\* What has become of a committed message that is out of hand is final, for any topics,
\* logs, faults and number of stops: it is never taken up again, and no commit goes back
\* (consumer.go, Start, consumeTopic and Close).
THEOREM CommittedStaysFinal == IngestSpec => CommittedIsFinal
  <1>1. IngestInv /\ [IngestNext]_vars =>
          [\A t \in Topic :
             /\ committed'[t] >= committed[t]
             /\ \A n \in 1 .. committed[t] : ~InHand(t, n) =>
                  /\ ~InHand(t, n)'
                  /\ n \in handled'[t] => n \in handled[t]
                  /\ n \in dropped'[t] => n \in dropped[t]]_vars
    BY FinalStep
  <1> QED BY <1>1, IngestInvariant, PTL DEF IngestSpec, CommittedIsFinal

-----------------------------------------------------------------------------
(* Memberships.  An id that nothing has disturbed is held by one handler at most, *)
(* which works with the profile that is stored and has settled every audience but *)
(* those it still has to look at; with no handler all of them are settled.        *)

\* The membership of id in a is right, as far as that can be evaluated.
Right(id, a) ==
  audiences[a] # "absent" /\ VerdictOn(a, rows[id], events[id]) # "error" =>
    (id \in members[a]) <=> (VerdictOn(a, rows[id], events[id]) = "yes")

HeldRight(t, id) ==
  /\ rows[id] # None /\ handler[t].p = Scan(rows[id])
  /\ handler[t].pc \in {"match", "has", "write"} =>
       \A a \in Dynamic \ handler[t].todo : Right(id, a)
  /\ handler[t].pc \in {"has", "write"} =>
       handler[t].verdict = VerdictOn(handler[t].aud, rows[id], events[id])

SettledWith(id) ==
  /\ \A s, t \in Topic : Holds(s, id) /\ Holds(t, id) => s = t
  /\ \A t \in Topic : Holds(t, id) => HeldRight(t, id)
  /\ (\A t \in Topic : ~Holds(t, id)) => \A a \in Dynamic : Right(id, a)

SettledInv == \A id \in Id : id \notin disturbed => SettledWith(id)

\* A step that changes nothing about id.
LEMMA Untouched ==
  ASSUME NEW id \in Id, SettledWith(id), rows'[id] = rows[id], events'[id] = events[id],
         \A a \in Dynamic : (id \in members'[a]) <=> (id \in members[a]),
         \A a \in Dynamic : (audiences'[a] = "absent") <=> (audiences[a] = "absent"),
         \A t \in Topic : Holds(t, id)' <=> Holds(t, id),
         \A t \in Topic : Holds(t, id) => handler'[t] = handler[t]
  PROVE  SettledWith(id)'
  <1>1. \A a \in Dynamic : Right(id, a)' <=> Right(id, a)
    BY DEF Right
  <1>2. \A t \in Topic : Holds(t, id) => (HeldRight(t, id)' <=> HeldRight(t, id))
    BY <1>1 DEF HeldRight
  <1> QED BY <1>1, <1>2 DEF SettledWith

\* A step of the handler that holds id and leaves its row alone.
LEMMA HolderSteps ==
  ASSUME NEW id \in Id, NEW t \in Topic, SettledWith(id), Holds(t, id),
         UNCHANGED <<rows, position>>,
         \A s \in Topic \ {t} : handler'[s] = handler[s],
         \/ /\ handler'[t].pc = "idle"
            /\ \A a \in Dynamic : Right(id, a)'
         \/ /\ handler'[t].pc \notin {"idle", "upsert"}
            /\ handler'[t].p = handler[t].p
            /\ handler'[t].pc \in {"match", "has", "write"} =>
                 \A a \in Dynamic \ handler'[t].todo : Right(id, a)'
            /\ handler'[t].pc \in {"has", "write"} =>
                 handler'[t].verdict = VerdictOn(handler'[t].aud, rows'[id], events'[id])
  PROVE  SettledWith(id)'
  <1>1. \A s \in Topic \ {t} : ~Holds(s, id) /\ ~Holds(s, id)'
    BY DEF SettledWith, Holds, At, UserOf, MsgOf
  <1>2. CASE handler'[t].pc = "idle" /\ \A a \in Dynamic : Right(id, a)'
    <2>1. ~Holds(t, id)'
      BY <1>2 DEF Holds, At
    <2> QED BY <1>1, <1>2, <2>1 DEF SettledWith
  <1>3. CASE handler'[t].pc # "idle"
    <2>1. HeldRight(t, id) /\ rows'[id] = rows[id]
      BY DEF SettledWith
    <2>2. HeldRight(t, id)'
      BY <1>3, <2>1 DEF HeldRight
    <2>3. Holds(t, id)'
      BY <1>3 DEF Holds, At, UserOf, MsgOf
    <2> QED BY <1>1, <2>2, <2>3 DEF SettledWith
  <1> QED BY <1>2, <1>3

\* What the verdict of a handler in Match is.
LEMMA HolderVerdict ==
  ASSUME NEW id \in Id, NEW t \in Topic, SettledWith(id), Holds(t, id), NEW a
  PROVE  VerdictOf(a, handler[t].p, events[id]) = VerdictOn(a, rows[id], events[id])
  BY DEF SettledWith, HeldRight, VerdictOn

\* NextAudience, when the audiences that it leaves out are right.
LEMMA NextAudienceSettles ==
  ASSUME IngestInv, NEW t \in Topic, NEW id \in Id, SettledWith(id), Holds(t, id),
         UNCHANGED <<rows, position, process>>,
         NEW rest \in SUBSET Dynamic, NextAudience(t, rest),
         \A a \in Dynamic \ rest : Right(id, a)'
  PROVE  SettledWith(id)'
  <1>1. ~At(t, "idle") /\ ~At(t, "upsert")
    BY DEF Holds
  <1>2. /\ handler'[t] = IF rest = {} THEN Idle
                         ELSE [handler[t] EXCEPT !.pc = "match", !.todo = rest, !.aud = None]
        /\ \A s \in Topic \ {t} : handler'[s] = handler[s]
    BY <1>1, NextAudienceType
  <1>3. handler[t] \in Handler
    BY DEF IngestInv, IngestTypeOK
  <1>4. CASE rest = {}
    BY <1>2, <1>4, HolderSteps DEF Idle
  <1>5. CASE rest # {}
    <2>1. /\ handler'[t].pc = "match" /\ handler'[t].todo = rest
          /\ handler'[t].p = handler[t].p
      BY <1>2, <1>3, <1>5 DEF Handler
    <2> QED BY <1>2, <2>1, HolderSteps
  <1> QED BY <1>4, <1>5

\* A handler's step is about the id of its message only.
LEMMA OthersUntouched ==
  ASSUME IngestInv, NEW t \in Topic, HandleStep(t), NEW id \in Id, id # UserOf(t),
         SettledWith(id)
  PROVE  SettledWith(id)'
  <1>1. UNCHANGED <<position, audiences>>
    BY DEF HandleStep, UpsertProfile, UpsertFails, WriteEvent, ListAudiences, ListFails,
           MatchAudience, HasMember, WriteMember, kafka
  <1>2. \A s \in Topic \ {t} : handler'[s] = handler[s]
    BY DEF HandleStep, UpsertProfile, UpsertFails, WriteEvent, ListAudiences, ListFails,
           MatchAudience, HasMember, WriteMember, Goto, Drop, NextAudience, IngestInv, IngestTypeOK
  <1>3. rows'[id] = rows[id]
    BY DEF HandleStep, UpsertProfile, UpsertFails, WriteEvent, ListAudiences, ListFails,
           MatchAudience, HasMember, WriteMember, profiles, IngestInv, IngestTypeOK
  <1>4. events'[id] = events[id]
    BY DEF HandleStep, UpsertProfile, UpsertFails, WriteEvent, ListAudiences, ListFails,
           MatchAudience, HasMember, WriteMember, profiles, OneMore, IngestInv, IngestTypeOK
  <1>5. \A a \in Dynamic : id \in members'[a] <=> id \in members[a]
    <2>1. CASE UNCHANGED members
      BY <2>1
    <2>2. CASE WriteMember(t)
      BY <2>2, IngestionAssumption DEF WriteMember, IngestInv, IngestTypeOK
    <2> QED BY <2>1, <2>2 DEF HandleStep, UpsertProfile, UpsertFails, WriteEvent, ListAudiences,
                              ListFails, MatchAudience, HasMember
  <1>6. ~Holds(t, id) /\ ~Holds(t, id)'
    BY <1>1 DEF Holds, UserOf, MsgOf
  <1>7. /\ \A s \in Topic : Holds(s, id)' <=> Holds(s, id)
        /\ \A s \in Topic : Holds(s, id) => handler'[s] = handler[s]
    BY <1>1, <1>2, <1>6 DEF Holds, At, UserOf, MsgOf
  <1>8. \A a \in Dynamic : (audiences'[a] = "absent") <=> (audiences[a] = "absent")
    BY <1>1
  <1> QED BY <1>3, <1>4, <1>5, <1>7, <1>8, Untouched

\* The steps of handleMessage, for the id that the message is about.
LEMMA OwnSettled ==
  ASSUME IngestInv, NEW t \in Topic, HandleStep(t), UserOf(t) \notin disturbed',
         UserOf(t) \notin disturbed => SettledWith(UserOf(t))
  PROVE  SettledWith(UserOf(t))'
  <1> USE DEF past, profiles, kafka, life
  <1>1. ~At(t, "idle") /\ UserOf(t) \in Id /\ MsgOf(t) \in Message /\ MsgOf(t).req \in Request
    <2>1. ~At(t, "idle")
      BY DEF HandleStep, UpsertProfile, UpsertFails, WriteEvent, ListAudiences, ListFails,
             MatchAudience, HasMember, WriteMember, At
    <2> QED BY <2>1, MsgType
  <1>2. PICK id \in Id : id = UserOf(t)
    BY <1>1
  <1>3. /\ UNCHANGED <<position, process, audiences>> /\ UserOf(t)' = id
        /\ handler[t] \in Handler
    BY <1>2 DEF HandleStep, UpsertProfile, UpsertFails, WriteEvent, ListAudiences, ListFails,
           MatchAudience, HasMember, WriteMember, UserOf, MsgOf, IngestInv, IngestTypeOK
  <1> SUFFICES SettledWith(id)'
    BY <1>2, <1>3 DEF SettledWith, HeldRight, Holds, Right
  <1>4. ASSUME ~At(t, "upsert") PROVE Holds(t, id)
    BY <1>1, <1>2, <1>4 DEF Holds
  <1>5. CASE UpsertProfile(t)
    <2>1. /\ rows'[id] = Upserted(rows[id], MsgOf(t).req)
          /\ handler'[t].p = Scan(Upserted(rows[id], MsgOf(t).req))
          /\ handler'[t].pc \in {"list", "event"}
          /\ \A s \in Topic \ {t} : handler'[s] = handler[s]
      BY <1>2, <1>3, <1>5 DEF UpsertProfile, IngestInv, IngestTypeOK, Handler
    <2>2. rows'[id] # None
      <3>1. rows[id] \in Row \cup {None}
        BY DEF IngestInv, IngestTypeOK
      <3> QED BY <1>1, <2>1, <3>1, UpsertedType, NoneAssumption
    <2>3. \A s \in Topic \ {t} : ~Holds(s, id)
      BY <1>2, <1>5 DEF UpsertProfile
    <2>4. \A s \in Topic \ {t} : ~Holds(s, id)'
      BY <1>3, <2>1, <2>3 DEF Holds, At, UserOf, MsgOf
    <2>5. Holds(t, id)' /\ HeldRight(t, id)'
      BY <1>2, <1>3, <2>1, <2>2 DEF Holds, At, UserOf, HeldRight
    <2> QED BY <2>4, <2>5 DEF SettledWith
  <1>6. CASE UpsertFails(t)
    <2>1. UNCHANGED <<rows, disturbed, events, members>>
      BY <1>2, <1>3, <1>6 DEF UpsertFails, Disturb
    <2>2. handler' = [handler EXCEPT ![t] = Idle] /\ At(t, "upsert")
      BY <1>6 DEF UpsertFails, Drop
    <2>3. /\ \A s \in Topic : Holds(s, id)' <=> Holds(s, id)
          /\ \A s \in Topic : Holds(s, id) => handler'[s] = handler[s]
      BY <1>3, <2>2 DEF Holds, At, UserOf, MsgOf, Idle, IngestInv, IngestTypeOK
    <2>4. SettledWith(id)
      BY <1>2, <2>1
    <2>5. /\ \A a \in Dynamic : (id \in members'[a]) <=> (id \in members[a])
          /\ \A a \in Dynamic : (audiences'[a] = "absent") <=> (audiences[a] = "absent")
      BY <1>3, <2>1
    <2> QED BY <2>1, <2>3, <2>4, <2>5, Untouched
  <1>7. ASSUME ~UpsertProfile(t) PROVE SettledWith(id)
    <2>1. disturbed \subseteq disturbed'
      BY <1>7 DEF HandleStep, UpsertFails, WriteEvent, ListAudiences, ListFails,
                  MatchAudience, HasMember, WriteMember, Disturb
    <2> QED BY <1>2, <2>1
  <1>8. CASE WriteEvent(t)
    <2>1. /\ handler'[t].pc = "list" /\ handler'[t].p = handler[t].p
          /\ \A s \in Topic \ {t} : handler'[s] = handler[s]
      BY <1>3, <1>8 DEF WriteEvent, Goto, IngestInv, IngestTypeOK, Handler
    <2>2. Holds(t, id) /\ SettledWith(id) /\ UNCHANGED <<rows, position>>
      BY <1>4, <1>7, <1>8 DEF WriteEvent, UpsertProfile, At
    <2> QED BY <2>1, <2>2, HolderSteps
  <1>9. CASE ListAudiences(t)
    <2>1. Holds(t, id) /\ SettledWith(id) /\ UNCHANGED rows
      BY <1>4, <1>7, <1>9 DEF ListAudiences, UpsertProfile, At
    <2> DEFINE listed == {a \in Dynamic : audiences[a] # "absent"}
    <2>2. NextAudience(t, listed) /\ listed \in SUBSET Dynamic
      BY <1>9 DEF ListAudiences
    <2>3. \A a \in Dynamic \ listed : Right(id, a)'
      BY <1>3 DEF Right
    <2> HIDE DEF listed
    <2> QED BY <1>3, <2>1, <2>2, <2>3, NextAudienceSettles
  <1>10. CASE ListFails(t)
    BY <1>2, <1>10 DEF ListFails, Disturb
  <1>11. ASSUME At(t, "match") \/ At(t, "has") \/ At(t, "write")
         PROVE  /\ Holds(t, id) /\ SettledWith(id) /\ HeldRight(t, id)
                /\ UNCHANGED <<rows, events>> /\ handler[t].todo \subseteq Dynamic
    <2>1. Holds(t, id) /\ SettledWith(id)
      BY <1>4, <1>7, <1>11 DEF UpsertProfile, At
    <2>2. UNCHANGED <<rows, events>>
      BY <1>11 DEF HandleStep, UpsertProfile, UpsertFails, WriteEvent, ListAudiences, ListFails,
           MatchAudience, HasMember, WriteMember, At
    <2> QED BY <2>1, <2>2 DEF SettledWith, IngestInv, HandlerOK
  <1>12. ASSUME NEW b \in Audience, MatchAudience(t, b) PROVE SettledWith(id)'
    <2> DEFINE v == VerdictOf(b, handler[t].p, events[id])
    <2>1. /\ Holds(t, id) /\ SettledWith(id) /\ HeldRight(t, id)
          /\ UNCHANGED <<rows, events, members>> /\ handler[t].todo \subseteq Dynamic
          /\ handler[t].pc = "match"
      BY <1>11, <1>12 DEF MatchAudience, At
    <2>2. v = VerdictOn(b, rows[id], events[id])
      BY <2>1, HolderVerdict
    <2>3. \A a \in Dynamic \ handler[t].todo : Right(id, a)'
      BY <1>3, <2>1 DEF HeldRight, Right
    <2>4. CASE /\ handler' = [handler EXCEPT ![t].pc = "has", ![t].aud = b, ![t].verdict = v]
      <3>1. /\ handler'[t].pc = "has" /\ handler'[t].p = handler[t].p
            /\ handler'[t].todo = handler[t].todo
            /\ handler'[t].aud = b /\ handler'[t].verdict = v
            /\ \A s \in Topic \ {t} : handler'[s] = handler[s]
        BY <1>3, <2>4 DEF IngestInv, IngestTypeOK, Handler
      <3> HIDE DEF v
      <3> QED BY <1>3, <2>1, <2>2, <2>3, <3>1, HolderSteps
    <2>5. CASE NextAudience(t, handler[t].todo \ {b}) /\ v = "error"
      <3>1. Right(id, b)'
        BY <2>1, <2>2, <2>5 DEF Right
      <3>2. \A a \in Dynamic \ (handler[t].todo \ {b}) : Right(id, a)'
        BY <2>3, <3>1
      <3> QED BY <1>3, <2>1, <2>5, <3>2, NextAudienceSettles
    <2> QED BY <1>2, <1>12, <2>4, <2>5 DEF MatchAudience, Disturb
  <1>13. CASE HasMember(t)
    <2> PICK b : b = handler[t].aud
      OBVIOUS
    <2> DEFINE has == id \in members[b]
    <2>1. /\ Holds(t, id) /\ SettledWith(id) /\ HeldRight(t, id)
          /\ UNCHANGED <<rows, events, members>> /\ handler[t].todo \subseteq Dynamic
          /\ handler[t].pc = "has"
      BY <1>11, <1>13 DEF HasMember, At
    <2>2. \A a \in Dynamic \ handler[t].todo : Right(id, a)'
      BY <1>3, <2>1 DEF HeldRight, Right
    <2>3. handler[t].verdict = VerdictOn(b, rows[id], events[id])
      BY <2>1 DEF HeldRight
    <2>4. IF (handler[t].verdict = "yes") # has
          THEN Goto(t, "write") ELSE NextAudience(t, handler[t].todo \ {b})
      BY <1>2, <1>13 DEF HasMember, Disturb
    <2>5. CASE Goto(t, "write")
      <3>1. /\ handler'[t].pc = "write" /\ handler'[t].p = handler[t].p
            /\ handler'[t].todo = handler[t].todo
            /\ handler'[t].aud = b /\ handler'[t].verdict = handler[t].verdict
            /\ \A s \in Topic \ {t} : handler'[s] = handler[s]
        BY <1>3, <2>5 DEF Goto, IngestInv, IngestTypeOK, Handler
      <3> QED BY <1>3, <2>1, <2>2, <2>3, <3>1, HolderSteps
    <2>6. CASE (handler[t].verdict = "yes") = has /\ NextAudience(t, handler[t].todo \ {b})
      <3>1. Right(id, b)'
        BY <1>3, <2>1, <2>3, <2>6 DEF Right
      <3>2. \A a \in Dynamic \ (handler[t].todo \ {b}) : Right(id, a)'
        BY <2>2, <3>1
      <3> QED BY <1>3, <2>1, <2>6, <3>2, NextAudienceSettles
    <2> QED BY <2>4, <2>5, <2>6
  <1>14. CASE WriteMember(t)
    <2> PICK b : b = handler[t].aud
      OBVIOUS
    <2>1. /\ Holds(t, id) /\ SettledWith(id) /\ HeldRight(t, id)
          /\ UNCHANGED <<rows, events>> /\ handler[t].todo \subseteq Dynamic
          /\ handler[t].pc = "write"
      BY <1>11, <1>14 DEF WriteMember, At
    <2>2. handler[t].verdict = VerdictOn(b, rows[id], events[id]) /\ b \in Audience
      BY <2>1, IngestionAssumption DEF HeldRight, IngestInv, HandlerOK, At
    <2>3. members' = [members EXCEPT ![b] = IF handler[t].verdict = "yes"
                                            THEN @ \cup {id} ELSE @ \ {id}]
      BY <1>2, <1>14 DEF WriteMember, Disturb
    <2>4. Right(id, b)'
      BY <1>3, <2>1, <2>2, <2>3 DEF Right, IngestInv, IngestTypeOK
    <2>5. \A a \in Dynamic \ handler[t].todo : Right(id, a)'
      <3>1. b \in handler[t].todo
        BY <2>1 DEF IngestInv, HandlerOK, At
      <3>2. \A a \in Dynamic \ handler[t].todo : members'[a] = members[a]
        BY <2>3, <3>1, IngestionAssumption DEF IngestInv, IngestTypeOK
      <3> QED BY <1>3, <2>1, <3>2 DEF HeldRight, Right
    <2>6. NextAudience(t, handler[t].todo \ {b})
      BY <1>14 DEF WriteMember
    <2>7. \A a \in Dynamic \ (handler[t].todo \ {b}) : Right(id, a)'
      BY <2>4, <2>5
    <2> QED BY <1>3, <2>1, <2>6, <2>7, NextAudienceSettles
  <1> QED BY <1>5, <1>6, <1>8, <1>9, <1>10, <1>12, <1>13, <1>14 DEF HandleStep

\* A step that holds on to what is held, and changes only what it disturbs.
LEMMA SettledKept ==
  ASSUME SettledInv, UNCHANGED members, disturbed \subseteq disturbed',
         \A id \in Id \ disturbed' : /\ rows'[id] = rows[id] /\ events'[id] = events[id]
                                     /\ \A t \in Topic : Holds(t, id)' <=> Holds(t, id)
                                     /\ \A t \in Topic : Holds(t, id) => handler'[t] = handler[t],
         \/ \A a \in Dynamic : (audiences'[a] = "absent") <=> (audiences[a] = "absent")
         \/ Id \subseteq disturbed'
  PROVE  SettledInv'
  <1>1. ASSUME NEW id \in Id, id \notin disturbed' PROVE SettledWith(id)'
    <2>1. SettledWith(id)
      BY <1>1 DEF SettledInv
    <2>2. /\ rows'[id] = rows[id] /\ events'[id] = events[id]
          /\ \A t \in Topic : Holds(t, id)' <=> Holds(t, id)
          /\ \A t \in Topic : Holds(t, id) => handler'[t] = handler[t]
      BY <1>1
    <2>3. /\ \A a \in Dynamic : (id \in members'[a]) <=> (id \in members[a])
          /\ \A a \in Dynamic : (audiences'[a] = "absent") <=> (audiences[a] = "absent")
      BY <1>1
    <2> QED BY <2>1, <2>2, <2>3, Untouched
  <1> QED BY <1>1 DEF SettledInv

LEMMA SettledStep ==
  ASSUME IngestInv, SettledInv, [IngestNext]_vars
  PROVE  SettledInv'
  <1> USE DEF past, profiles, kafka, life
  <1>1. ASSUME UNCHANGED <<handler, position>>
        PROVE  \A id \in Id, t \in Topic : (Holds(t, id)' <=> Holds(t, id)) /\ handler'[t] = handler[t]
    BY <1>1 DEF Holds, At, UserOf, MsgOf
  <1>2. ASSUME NEW t \in Topic, HandleStep(t) PROVE SettledInv'
    <2>1. ASSUME NEW id \in Id, id \notin disturbed', id # UserOf(t) PROVE SettledWith(id)'
      <3>1. id \notin disturbed
        BY <1>2, <2>1 DEF HandleStep, UpsertProfile, UpsertFails, WriteEvent, ListAudiences,
           ListFails, MatchAudience, HasMember, WriteMember, Disturb
      <3> QED BY <1>2, <2>1, <3>1, OthersUntouched DEF SettledInv
    <2>2. ASSUME NEW id \in Id, id \notin disturbed', id = UserOf(t) PROVE SettledWith(id)'
      <3>1. UserOf(t)' = UserOf(t)
        BY <1>2 DEF HandleStep, UpsertProfile, UpsertFails, WriteEvent, ListAudiences,
           ListFails, MatchAudience, HasMember, WriteMember, UserOf, MsgOf
      <3>2. SettledWith(UserOf(t))'
        BY <1>2, <2>2, OwnSettled DEF SettledInv
      <3> QED BY <2>2, <3>1, <3>2 DEF SettledWith, HeldRight, Holds, Right
    <2> QED BY <2>1, <2>2 DEF SettledInv
  <1>3. ASSUME NEW t \in Topic, ReadMessage(t) PROVE SettledInv'
    <2>1. UNCHANGED <<rows, events, audiences, members, disturbed>>
      BY <1>3 DEF ReadMessage
    <2>2. handler'[t].pc \in {"idle", "upsert"} /\ At(t, "idle")
      BY <1>3 DEF ReadMessage, Idle, IngestInv, IngestTypeOK
    <2>3. \A s \in Topic \ {t} : handler'[s] = handler[s] /\ position'[s] = position[s]
      BY <1>3 DEF ReadMessage, IngestInv, IngestTypeOK
    <2>4. \A id \in Id, s \in Topic : (Holds(s, id)' <=> Holds(s, id))
      BY <2>2, <2>3 DEF Holds, At, UserOf, MsgOf
    <2>5. \A id \in Id, s \in Topic : Holds(s, id) => handler'[s] = handler[s]
      BY <2>2, <2>3 DEF Holds
    <2> QED BY <2>1, <2>4, <2>5, SettledKept
  <1>4. CASE \/ \E t \in Topic : Commit(t) \/ CloseReader(t)
             \/ BeginStop \/ UNCHANGED vars
    <2>1. UNCHANGED <<rows, events, audiences, members, disturbed, handler, position>>
      BY <1>4 DEF Commit, CloseReader, BeginStop, vars
    <2> QED BY <1>1, <2>1, SettledKept
  <1>5. CASE Exit \/ Kill
    <2>1. UNCHANGED <<rows, events, audiences, members, position>> /\ GoDown
      BY <1>5 DEF Exit, Kill, GoDown
    <2>2. \A id \in Id \ disturbed', t \in Topic : ~Holds(t, id)
      BY <2>1 DEF GoDown, Disturb
    <2>3. \A id \in Id, t \in Topic : ~Holds(t, id)'
      BY <2>1 DEF GoDown, Holds, At, Idle
    <2>4. disturbed \subseteq disturbed'
      BY <2>1 DEF GoDown, Disturb
    <2> QED BY <2>1, <2>2, <2>3, <2>4, SettledKept
  <1>6. CASE Start
    <2>1. UNCHANGED <<rows, events, audiences, members, disturbed, handler>>
      BY <1>6 DEF Start
    <2>2. \A t \in Topic : At(t, "idle")
      BY <1>6 DEF Start, IngestInv, HandlerOK
    <2>3. \A id \in Id, t \in Topic : ~Holds(t, id) /\ ~Holds(t, id)'
      BY <2>1, <2>2 DEF Holds, At
    <2> QED BY <2>1, <2>3, SettledKept
  <1>7. ASSUME NEW a \in Audience, CreateAudience(a) PROVE SettledInv'
    <2>1. Id \subseteq disturbed'
      BY <1>7 DEF CreateAudience, Disturb
    <2> QED BY <2>1 DEF SettledInv
  <1>8. ASSUME NEW a \in Audience, UpdateEstimate(a) PROVE SettledInv'
    <2>1. UNCHANGED <<rows, events, members, disturbed, handler, position>>
      BY <1>8 DEF UpdateEstimate
    <2>2. \A b \in Dynamic : (audiences'[b] = "absent") <=> (audiences[b] = "absent")
      BY <1>8 DEF UpdateEstimate, IngestInv, IngestTypeOK
    <2> QED BY <1>1, <2>1, <2>2, SettledKept
  <1>9. ASSUME NEW id \in Id, OtherStep(id) PROVE SettledInv'
    <2>1. PICK ids \in SUBSET Id :
             /\ disturbed' = disturbed \cup ids
             /\ \A i \in Id \ ids : rows'[i] = rows[i] /\ events'[i] = events[i]
      <3>1. CASE \E to \in Id : OtherRedirect(id, to)
        <4>1. PICK to \in Id : OtherRedirect(id, to)
          BY <3>1
        <4>2. /\ disturbed' = disturbed \cup {id, to} /\ rows' = rows
              /\ \A i \in Id \ {id, to} : events'[i] = events[i]
          BY <4>1 DEF OtherRedirect, Elsewhere, Disturb, IngestInv, IngestTypeOK
        <4> QED BY <4>2
      <3>2. CASE ~\E to \in Id : OtherRedirect(id, to)
        <4>1. disturbed' = disturbed \cup {id}
          BY <1>9, <3>2 DEF OtherStep, OtherUpsert, OtherEvent, OtherTag, OtherDelete, Age,
                            Elsewhere, Disturb
        <4>2. \A i \in Id \ {id} : rows'[i] = rows[i] /\ events'[i] = events[i]
          BY <1>9, <3>2 DEF OtherStep, OtherUpsert, OtherEvent, OtherTag, OtherDelete, Age,
                            OneMore, OneLess, IngestInv, IngestTypeOK
        <4> QED BY <4>1, <4>2
      <3> QED BY <3>1, <3>2
    <2>2. UNCHANGED <<audiences, members, handler, position>>
      BY <1>9 DEF OtherStep, OtherUpsert, OtherEvent, OtherTag, OtherRedirect, OtherDelete, Age,
                  Elsewhere
    <2> QED BY <1>1, <2>1, <2>2, SettledKept
  <1> QED BY <1>2, <1>3, <1>4, <1>5, <1>6, <1>7, <1>8, <1>9 DEF IngestNext, ProcessStep

\* Whatever the conditions, the messages and the faults are: unless something named
\* disturbed them, the memberships of a profile are what its conditions say, at every
\* moment when no handler has it in hand (builder.go, EvaluateProfile).
THEOREM UndisturbedIsSettled == IngestSpec => []SettledUnlessDisturbed
  <1>1. ASSUME IngestInit PROVE SettledInv
    <2>1. \A id \in Id, a \in Audience : id \notin members[a] /\ rows[id] = None
      BY <1>1 DEF IngestInit
    <2>2. \A id \in Id, t \in Topic : ~Holds(t, id)
      BY <1>1 DEF IngestInit, Holds, At, Idle
    <2>3. \A id \in Id, a \in Dynamic : Right(id, a)
      BY <2>1, IngestionAssumption DEF Right, VerdictOn
    <2> QED BY <2>2, <2>3 DEF SettledInv, SettledWith
  <1>2. ASSUME SettledInv PROVE SettledUnlessDisturbed
    BY <1>2 DEF SettledInv, SettledWith, SettledUnlessDisturbed, Settled, Right
  <1> QED BY <1>1, <1>2, SettledStep, IngestInvariant, PTL DEF IngestSpec

-----------------------------------------------------------------------------
(* Who is a member.  Whoever matches has matched, a handler in hand has a row and *)
(* says yes only of audiences that its user has matched.                          *)

\* The condition of a looks at the profile only; at the events only.
OfProfile(a) ==
  \A p \in Profile, m, n \in 0 .. MaxEvents : VerdictOf(a, p, m) = VerdictOf(a, p, n)

OfEvents(a) ==
  \A p, q \in Profile, n \in 0 .. MaxEvents : VerdictOf(a, p, n) = VerdictOf(a, q, n)

Noted(id) ==
  \A a \in Audience : VerdictOn(a, rows[id], events[id]) = "yes" => id \in matched[a]

HandlerCause(t) ==
  /\ ~At(t, "idle") /\ ~At(t, "upsert") =>
       /\ rows[UserOf(t)] # None
       /\ \A a \in Dynamic :
            OfProfile(a) /\ VerdictOf(a, handler[t].p, events[UserOf(t)]) = "yes" =>
              UserOf(t) \in matched[a]
  /\ (At(t, "has") \/ At(t, "write")) /\ handler[t].verdict = "yes" =>
       UserOf(t) \in matched[handler[t].aud]

CauseInv ==
  /\ \A id \in Id : Noted(id)
  /\ \A t \in Topic : HandlerCause(t)
  /\ MembersHadCause

\* A step that changes rows or events notes who matches now.
LEMMA NotesWhoMatches ==
  ASSUME IngestInv, CauseInv, NEW ids \in SUBSET Id, NoteMatches(ids),
         \A id \in Id \ ids : rows'[id] = rows[id] /\ events'[id] = events[id]
  PROVE  /\ \A id \in Id : Noted(id)'
         /\ \A a \in Audience : matched[a] \subseteq matched'[a]
  <1>1. \A a \in Audience :
          /\ matched[a] \subseteq matched'[a]
          /\ \A id \in ids : VerdictOn(a, rows'[id], events'[id]) = "yes" => id \in matched'[a]
    BY DEF NoteMatches
  <1>2. ASSUME NEW id \in Id PROVE Noted(id)'
    <2>1. CASE id \in ids
      BY <1>1, <2>1 DEF Noted
    <2>2. CASE id \notin ids
      BY <1>1, <2>2 DEF Noted, CauseInv
    <2> QED BY <2>1, <2>2
  <1> QED BY <1>1, <1>2

\* A handler that does not move keeps its cause.
LEMMA CauseKept ==
  ASSUME IngestInv, IngestInv', NEW t \in Topic, HandlerCause(t),
         handler'[t] = handler[t], position'[t] = position[t],
         \A id \in Id : rows[id] # None => rows'[id] # None,
         \A a \in Audience : matched[a] \subseteq matched'[a]
  PROVE  HandlerCause(t)'
  <1>1. CASE At(t, "idle")
    BY <1>1 DEF HandlerCause, At
  <1>2. CASE ~At(t, "idle")
    <2>1. UserOf(t)' = UserOf(t) /\ UserOf(t) \in Id
      BY <1>2, MsgType DEF UserOf, MsgOf
    <2>2. PICK u \in Id : u = UserOf(t) /\ u = UserOf(t)'
      BY <2>1
    <2>3. events[u] \in 0 .. MaxEvents /\ events'[u] \in 0 .. MaxEvents
      BY DEF IngestInv, IngestTypeOK
    <2>4. ~At(t, "upsert") => handler[t].p \in Profile
      BY <1>2 DEF IngestInv, HandlerOK
    <2>5. At(t, "has") \/ At(t, "write") => handler[t].aud \in Audience
      BY IngestionAssumption DEF IngestInv, HandlerOK
    <2>6. ASSUME ~At(t, "upsert"), NEW a \in Dynamic, OfProfile(a)
          PROVE  VerdictOf(a, handler[t].p, events'[u]) = VerdictOf(a, handler[t].p, events[u])
      BY <2>3, <2>4, <2>6 DEF OfProfile
    <2>7. ASSUME ~At(t, "upsert")
          PROVE  /\ rows'[u] # None
                 /\ \A a \in Dynamic :
                      OfProfile(a) /\ VerdictOf(a, handler[t].p, events'[u]) = "yes" =>
                        u \in matched'[a]
      BY <1>2, <2>2, <2>6, <2>7, IngestionAssumption DEF HandlerCause
    <2>8. ASSUME At(t, "has") \/ At(t, "write"), handler[t].verdict = "yes"
          PROVE  u \in matched'[handler[t].aud]
      BY <2>2, <2>5, <2>8 DEF HandlerCause
    <2> QED BY <2>2, <2>7, <2>8 DEF HandlerCause, At
  <1> QED BY <1>1, <1>2

\* The steps of handleMessage.
LEMMA HandleCause ==
  ASSUME \A a \in Dynamic : OfProfile(a) \/ OfEvents(a),
         IngestInv, IngestInv', CauseInv, NEW t \in Topic, HandleStep(t)
  PROVE  CauseInv'
  <1> USE DEF past, profiles, kafka, life
  <1>1. ~At(t, "idle") /\ UserOf(t) \in Id /\ MsgOf(t).req \in Request
    <2>1. ~At(t, "idle")
      BY DEF HandleStep, UpsertProfile, UpsertFails, WriteEvent, ListAudiences, ListFails,
             MatchAudience, HasMember, WriteMember, At
    <2> QED BY <2>1, MsgType
  <1>2. PICK u \in Id : u = UserOf(t)
    BY <1>1
  <1>3. /\ UNCHANGED position /\ UserOf(t)' = u /\ handler[t] \in Handler
        /\ rows[u] \in Row \cup {None} /\ Upserted(rows[u], MsgOf(t).req) \in Row
        /\ events[u] \in 0 .. MaxEvents /\ events'[u] \in 0 .. MaxEvents
    BY <1>1, <1>2, UpsertedType DEF HandleStep, UpsertProfile, UpsertFails, WriteEvent,
           ListAudiences, ListFails, MatchAudience, HasMember, WriteMember, UserOf, MsgOf,
           IngestInv, IngestTypeOK
  <1>4. \A s \in Topic \ {t} : handler'[s] = handler[s]
    <2>1. handler \in [Topic -> Handler]
      BY DEF IngestInv, IngestTypeOK
    <2>2. ASSUME NEW rest, NextAudience(t, rest) PROVE <1>4!:
      BY <2>1, <2>2 DEF NextAudience
    <2>3. ASSUME Drop(t) PROVE <1>4!:
      BY <2>1, <2>3 DEF Drop
    <2>4. ASSUME NEW pc, Goto(t, pc) PROVE <1>4!:
      BY <2>1, <2>4 DEF Goto
    <2>5. CASE UpsertProfile(t)
      BY <2>1, <2>5 DEF UpsertProfile
    <2>6. CASE UpsertFails(t) \/ ListFails(t)
      BY <2>3, <2>6 DEF UpsertFails, ListFails
    <2>7. CASE WriteEvent(t)
      BY <2>4, <2>7 DEF WriteEvent
    <2>8. CASE ListAudiences(t) \/ WriteMember(t)
      BY <2>2, <2>8 DEF ListAudiences, WriteMember
    <2>9. ASSUME NEW a \in Audience, MatchAudience(t, a) PROVE <1>4!:
      <3>1. \/ \E v : handler' = [handler EXCEPT ![t].pc = "has", ![t].aud = a,
                                                 ![t].verdict = v]
            \/ NextAudience(t, handler[t].todo \ {a})
        BY <2>9 DEF MatchAudience
      <3> QED BY <2>1, <2>2, <3>1
    <2>10. CASE HasMember(t)
      BY <2>2, <2>4, <2>10 DEF HasMember
    <2> QED BY <2>5, <2>6, <2>7, <2>8, <2>9, <2>10 DEF HandleStep
  <1>5. /\ \A id \in Id : Noted(id)'
        /\ \A a \in Audience : matched[a] \subseteq matched'[a]
    <2>1. CASE UNCHANGED <<rows, events, matched>>
      BY <2>1 DEF CauseInv, Noted
    <2>2. CASE NoteMatches({u}) /\ \A id \in Id \ {u} : rows'[id] = rows[id] /\ events'[id] = events[id]
      <3>1. {u} \in SUBSET Id
        OBVIOUS
      <3> QED BY <2>2, <3>1, NotesWhoMatches
    <2>3. CASE UpsertProfile(t) \/ UpsertFails(t) \/ WriteEvent(t)
      <3>1. NoteMatches({u})
        BY <1>2, <2>3 DEF UpsertProfile, UpsertFails, WriteEvent
      <3>2. \A id \in Id \ {u} : rows'[id] = rows[id] /\ events'[id] = events[id]
        BY <1>2, <2>3 DEF UpsertProfile, UpsertFails, WriteEvent, OneMore, IngestInv, IngestTypeOK
      <3> QED BY <2>2, <3>1, <3>2
    <2> QED BY <2>1, <2>3 DEF HandleStep, ListAudiences, ListFails, MatchAudience, HasMember,
                              WriteMember
  <1>6. \A id \in Id : rows[id] # None => rows'[id] # None
    BY <1>2, <1>3, NoneAssumption DEF HandleStep, UpsertProfile, UpsertFails, WriteEvent,
       ListAudiences, ListFails, MatchAudience, HasMember, WriteMember, IngestInv, IngestTypeOK
  <1>7. \A s \in Topic \ {t} : HandlerCause(s)'
    BY <1>3, <1>4, <1>5, <1>6, CauseKept DEF CauseInv
  <1>8. ASSUME handler'[t].pc = "idle" PROVE HandlerCause(t)'
    BY <1>8 DEF HandlerCause, At
  \* Between the upsert and the look-up nothing is claimed but what the profile is.
  <1>9. ASSUME ~At(t, "upsert"), handler'[t].p = handler[t].p,
               /\ handler'[t].pc \in {"has", "write"} /\ handler'[t].verdict = "yes" =>
                   u \in matched'[handler'[t].aud]
        PROVE  HandlerCause(t)'
    <2>1. /\ rows'[u] # None /\ handler[t].p \in Profile
          /\ \A a \in Dynamic :
               OfProfile(a) /\ VerdictOf(a, handler[t].p, events[u]) = "yes" => u \in matched[a]
      BY <1>1, <1>2, <1>6, <1>9 DEF CauseInv, HandlerCause, IngestInv, HandlerOK
    <2>2. \A a \in Dynamic :
            OfProfile(a) /\ VerdictOf(a, handler[t].p, events'[u]) = "yes" => u \in matched'[a]
      BY <1>3, <1>5, <2>1, IngestionAssumption DEF OfProfile
    <2> QED BY <1>3, <1>9, <2>1, <2>2 DEF HandlerCause, At
  <1>10. ASSUME UNCHANGED members PROVE MembersHadCause'
    BY <1>5, <1>10 DEF CauseInv, MembersHadCause
  <1>11. ASSUME HandlerCause(t)', MembersHadCause' PROVE CauseInv'
    BY <1>5, <1>7, <1>11 DEF CauseInv
  <1>12. ASSUME NEW rest, NextAudience(t, rest), ~At(t, "upsert") PROVE HandlerCause(t)'
    <2>1. CASE rest = {}
      BY <1>8, <1>12, <2>1 DEF NextAudience, Idle, IngestInv, IngestTypeOK
    <2>2. CASE rest # {}
      <3>1. handler'[t].pc = "match" /\ handler'[t].p = handler[t].p
        BY <1>3, <1>12, <2>2 DEF NextAudience, IngestInv, IngestTypeOK, Handler
      <3> QED BY <1>9, <1>12, <3>1
    <2> QED BY <2>1, <2>2
  <1>13. CASE UpsertProfile(t)
    <2>1. /\ rows'[u] = Upserted(rows[u], MsgOf(t).req)
          /\ handler'[t].p = Scan(rows'[u]) /\ handler'[t].pc \in {"list", "event"}
      BY <1>2, <1>3, <1>13 DEF UpsertProfile, IngestInv, IngestTypeOK, Handler
    <2>2. rows'[u] # None
      BY <1>3, <2>1, NoneAssumption
    <2>3. \A a \in Audience :
            VerdictOf(a, handler'[t].p, events'[u]) = VerdictOn(a, rows'[u], events'[u])
      BY <2>1, <2>2 DEF VerdictOn
    <2>4. \A a \in Dynamic :
            VerdictOf(a, handler'[t].p, events'[u]) = "yes" => u \in matched'[a]
      BY <1>5, <2>3, IngestionAssumption DEF Noted
    <2>5. HandlerCause(t)'
      BY <1>3, <2>1, <2>2, <2>4 DEF HandlerCause, At
    <2> QED BY <1>10, <1>11, <1>13, <2>5 DEF UpsertProfile
  <1>14. CASE UpsertFails(t) \/ ListFails(t)
    <2>1. handler'[t].pc = "idle"
      BY <1>14 DEF UpsertFails, ListFails, Drop, Idle, IngestInv, IngestTypeOK
    <2> QED BY <1>8, <1>10, <1>11, <1>14, <2>1 DEF UpsertFails, ListFails
  <1>15. CASE WriteEvent(t)
    <2>1. handler'[t].pc = "list" /\ handler'[t].p = handler[t].p /\ ~At(t, "upsert")
      BY <1>3, <1>15 DEF WriteEvent, Goto, At, IngestInv, IngestTypeOK, Handler
    <2> QED BY <1>9, <1>10, <1>11, <1>15, <2>1 DEF WriteEvent
  <1>16. CASE ListAudiences(t)
    <2>1. ~At(t, "upsert") /\ UNCHANGED members
      BY <1>16 DEF ListAudiences, At
    <2> QED BY <1>10, <1>11, <1>12, <1>16, <2>1 DEF ListAudiences
  <1>17. ASSUME NEW b \in Audience, MatchAudience(t, b) PROVE CauseInv'
    <2> DEFINE v == VerdictOf(b, handler[t].p, events[u])
    <2>1. /\ ~At(t, "upsert") /\ b \in Dynamic /\ handler[t].p \in Profile
          /\ UNCHANGED <<members, rows, events, matched>>
      BY <1>1, <1>17 DEF MatchAudience, At, IngestInv, HandlerOK
    <2>2. v = "yes" => u \in matched[b]
      <3>1. /\ rows[u] # None /\ (OfProfile(b) /\ v = "yes" => u \in matched[b])
        BY <1>1, <1>2, <2>1 DEF CauseInv, HandlerCause
      <3>2. CASE OfEvents(b)
        <4>1. Scan(rows[u]) \in Profile
          BY <1>3, <3>1, ScanType
        <4>2. v = VerdictOn(b, rows[u], events[u])
          BY <1>3, <2>1, <3>1, <3>2, <4>1 DEF OfEvents, VerdictOn
        <4> QED BY <2>1, <4>2, IngestionAssumption DEF CauseInv, Noted
      <3> QED BY <2>1, <3>1, <3>2
    <2>3. CASE handler' = [handler EXCEPT ![t].pc = "has", ![t].aud = b, ![t].verdict = v]
      <3>1. /\ handler'[t].p = handler[t].p /\ handler'[t].aud = b /\ handler'[t].verdict = v
        BY <1>3, <2>3 DEF IngestInv, IngestTypeOK, Handler
      <3> HIDE DEF v
      <3> QED BY <1>9, <1>10, <1>11, <2>1, <2>2, <3>1
    <2>4. CASE NextAudience(t, handler[t].todo \ {b})
      BY <1>10, <1>11, <1>12, <2>1, <2>4
    <2> QED BY <1>2, <1>17, <2>3, <2>4 DEF MatchAudience
  <1>18. CASE HasMember(t)
    <2>1. ~At(t, "upsert") /\ UNCHANGED <<members, matched>> /\ At(t, "has")
      BY <1>18 DEF HasMember, At
    <2>2. CASE Goto(t, "write")
      <3>1. /\ handler'[t].p = handler[t].p /\ handler'[t].aud = handler[t].aud
            /\ handler'[t].verdict = handler[t].verdict
        BY <1>3, <2>2 DEF Goto, IngestInv, IngestTypeOK, Handler
      <3>2. handler[t].verdict = "yes" => u \in matched[handler[t].aud]
        BY <1>2, <2>1 DEF CauseInv, HandlerCause
      <3> QED BY <1>9, <1>10, <1>11, <2>1, <3>1, <3>2
    <2>3. CASE NextAudience(t, handler[t].todo \ {handler[t].aud})
      BY <1>10, <1>11, <1>12, <2>1, <2>3
    <2> QED BY <1>18, <2>2, <2>3 DEF HasMember
  <1>19. CASE WriteMember(t)
    <2> PICK b : b = handler[t].aud
      OBVIOUS
    <2>1. ~At(t, "upsert") /\ UNCHANGED matched /\ At(t, "write") /\ b \in Dynamic
      BY <1>19 DEF WriteMember, At, IngestInv, HandlerOK
    <2>2. handler[t].verdict = "yes" => u \in matched[b]
      BY <1>2, <2>1 DEF CauseInv, HandlerCause
    <2>3. \A a \in Audience : /\ a # b => members'[a] = members[a]
                             /\ members'[b] \subseteq
                                  members[b] \cup (IF handler[t].verdict = "yes" THEN {u} ELSE {})
      <3>1. CASE UNCHANGED members
        BY <3>1
      <3>2. CASE members' = [members EXCEPT ![b] = IF handler[t].verdict = "yes"
                                                   THEN @ \cup {u} ELSE @ \ {u}]
        BY <2>1, <3>2, IngestionAssumption DEF IngestInv, IngestTypeOK
      <3> QED BY <1>2, <1>19, <3>1, <3>2 DEF WriteMember
    <2>4. MembersHadCause'
      BY <2>1, <2>2, <2>3, IngestionAssumption DEF CauseInv, MembersHadCause
    <2> QED BY <1>11, <1>12, <1>19, <2>1, <2>4 DEF WriteMember
  <1> QED BY <1>13, <1>14, <1>15, <1>16, <1>17, <1>18, <1>19 DEF HandleStep

\* A step of the others that deletes nothing.
LEMMA OtherCause ==
  ASSUME IngestInv, IngestInv', CauseInv, "merge" \notin Others,
         NEW id \in Id, OtherStep(id)
  PROVE  CauseInv'
  <1> USE DEF past, kafka, life
  <1>1. /\ UNCHANGED <<members, handler, position>> /\ NoteMatches({id})
        /\ \A i \in Id \ {id} : rows'[i] = rows[i] /\ events'[i] = events[i]
    BY DEF OtherStep, OtherUpsert, OtherEvent, OtherTag, OtherRedirect, OtherDelete, Age,
           Elsewhere, OneMore, OneLess, IngestInv, IngestTypeOK
  <1>2. rows[id] # None => rows'[id] # None
    <2>1. CASE UNCHANGED rows
      BY <2>1
    <2>2. ASSUME NEW req \in OtherRequests, OtherUpsert(id, req) PROVE rows'[id] # None
      <3>1. req \in Request /\ rows[id] \in Row \cup {None}
        BY IngestionAssumption DEF IngestInv, IngestTypeOK
      <3>2. rows'[id] = Upserted(rows[id], req)
        BY <2>2 DEF OtherUpsert, IngestInv, IngestTypeOK
      <3> QED BY <3>1, <3>2, UpsertedType, NoneAssumption
    <2>3. ASSUME NEW tags \in OtherTags, OtherTag(id, tags) PROVE rows'[id] # None
      <3>1. rows[id] \in Row /\ rows'[id] = Tagged(rows[id], tags)
        BY <2>3 DEF OtherTag, IngestInv, IngestTypeOK
      <3>2. rows'[id] \in Row \cup {None}
        BY DEF IngestInv, IngestTypeOK
      <3>3. rows'[id] \in Row
        BY <3>1, IngestionAssumption DEF Tagged, Row
      <3> QED BY <3>3, NoneAssumption
    <2> QED BY <2>1, <2>2, <2>3 DEF OtherStep, OtherEvent, OtherRedirect, OtherDelete, Age,
                                   Elsewhere
  <1>3. /\ \A i \in Id : Noted(i)'
        /\ \A a \in Audience : matched[a] \subseteq matched'[a]
    <2>1. {id} \in SUBSET Id
      OBVIOUS
    <2> QED BY <1>1, <2>1, NotesWhoMatches
  <1>4. \A i \in Id : rows[i] # None => rows'[i] # None
    BY <1>1, <1>2
  <1>5. \A t \in Topic : HandlerCause(t)'
    BY <1>1, <1>3, <1>4, CauseKept DEF CauseInv
  <1>6. MembersHadCause'
    BY <1>1, <1>3 DEF CauseInv, MembersHadCause
  <1> QED BY <1>3, <1>5, <1>6 DEF CauseInv

LEMMA CauseStep ==
  ASSUME \A a \in Dynamic : OfProfile(a) \/ OfEvents(a), "merge" \notin Others,
         IngestInv, IngestInv', CauseInv, [IngestNext]_vars
  PROVE  CauseInv'
  <1> USE DEF past, profiles, kafka, life
  <1>1. CASE \E t \in Topic : HandleStep(t)
    BY <1>1, HandleCause
  <1>2. CASE \E id \in Id : OtherStep(id)
    BY <1>2, OtherCause
  \* The rest changes no profile and no membership.
  <1>3. CASE ~(\E t \in Topic : HandleStep(t)) /\ ~(\E id \in Id : OtherStep(id))
    <2>1. UNCHANGED <<rows, events, members, matched>>
      BY <1>3 DEF IngestNext, ProcessStep, ReadMessage, Commit, BeginStop, CloseReader, Exit,
                  Kill, GoDown, Start, CreateAudience, UpdateEstimate, vars
    <2>2. \A id \in Id : Noted(id)'
      BY <2>1 DEF CauseInv, Noted
    <2>3. MembersHadCause'
      BY <2>1 DEF CauseInv, MembersHadCause
    <2>4. ASSUME NEW t \in Topic, handler'[t].pc \in {"idle", "upsert"} PROVE HandlerCause(t)'
      BY <2>4 DEF HandlerCause, At
    <2>5. ASSUME NEW t \in Topic, handler'[t] = handler[t], position'[t] = position[t]
          PROVE  HandlerCause(t)'
      BY <2>1, <2>5, CauseKept DEF CauseInv
    <2>6. ASSUME NEW t \in Topic, ReadMessage(t) PROVE \A s \in Topic : HandlerCause(s)'
      <3>1. handler'[t].pc \in {"idle", "upsert"}
        BY <2>6 DEF ReadMessage, Idle, IngestInv, IngestTypeOK
      <3>2. \A s \in Topic \ {t} : handler'[s] = handler[s] /\ position'[s] = position[s]
        BY <2>6 DEF ReadMessage, IngestInv, IngestTypeOK
      <3> QED BY <2>4, <2>5, <3>1, <3>2
    <2>7. ASSUME Exit \/ Kill PROVE \A t \in Topic : HandlerCause(t)'
      BY <2>4, <2>7 DEF Exit, Kill, GoDown, Idle
    <2>8. ASSUME Start PROVE \A t \in Topic : HandlerCause(t)'
      BY <2>4, <2>8 DEF Start, IngestInv, HandlerOK, At
    <2>9. CASE ~(\E t \in Topic : ReadMessage(t)) /\ ~Exit /\ ~Kill /\ ~Start
      <3>1. UNCHANGED <<handler, position>>
        BY <1>3, <2>9 DEF IngestNext, ProcessStep, Commit, BeginStop, CloseReader,
                          CreateAudience, UpdateEstimate, vars
      <3> QED BY <2>2, <2>3, <2>5, <3>1 DEF CauseInv
    <2> QED BY <2>2, <2>3, <2>6, <2>7, <2>8, <2>9 DEF CauseInv
  <1> QED BY <1>1, <1>2, <1>3

\* If every dynamic condition looks at the profile only, or at the events only, and
\* nobody merges profiles, the members of a dynamic audience have matched it at some
\* time, whatever the topics do at the same time, whatever fails and is delivered
\* again, and static audiences stay as they are (builder.go, EvaluateProfile).
THEOREM MembersAlwaysHadCause ==
  ASSUME \A a \in Dynamic : OfProfile(a) \/ OfEvents(a), "merge" \notin Others
  PROVE  IngestSpec => []MembersHadCause
  <1>1. ASSUME IngestInit PROVE CauseInv
    <2>1. /\ \A id \in Id : rows[id] = None
          /\ \A a \in Audience : members[a] = {}
          /\ \A t \in Topic : handler[t].pc = "idle"
      BY <1>1 DEF IngestInit, Idle
    <2>2. \A id \in Id : Noted(id)
      BY <2>1 DEF Noted, VerdictOn
    <2> QED BY <2>1, <2>2 DEF CauseInv, MembersHadCause, HandlerCause, At
  <1>2. CauseInv => MembersHadCause
    BY DEF CauseInv
  <1>3. IngestInv /\ IngestInv' /\ CauseInv /\ [IngestNext]_vars => CauseInv'
    BY CauseStep
  <1> QED BY <1>1, <1>2, <1>3, IngestInvariant, PTL DEF IngestSpec

-----------------------------------------------------------------------------
(* External ids.  A message adds its ids to the row that they name, so the row has *)
(* the same ones or none; CanonicalIdNames is what makes this true.                *)

IdsOf(row) == row.docs[ExternalIDs].map

\* The ids of row are none, or those that id was made of.
RowOwn(id, row) ==
  row # None /\ IdsOf(row) # NoKeys =>
    Spelled(IdsOf(row)) /\ GenerateCanonicalID(IdsOf(row)) = id

OwnInv == \A id \in Id : RowOwn(id, rows[id])

\* What the mappers put into a request is what they make the canonical id of.
LEMMA MapsOwn ==
  ASSUME NEW kind \in Kinds, NEW raw
  PROVE  \E ids : /\ Spelled(ids) /\ Map(kind, raw).id = GenerateCanonicalID(ids)
                  /\ Map(kind, raw).req.docs[ExternalIDs] = GoMapOf(ids)
  <1>1. ASSUME NEW ks, ks \subseteq {Uid, Idfa, Gaid} PROVE Spelled(IdsIn(raw, ks))
    <2>1. DOMAIN IdsIn(raw, ks) \subseteq ks
      BY DEF IdsIn
    <2>2. ASSUME NEW k \in DOMAIN IdsIn(raw, ks)
          PROVE  IdsIn(raw, ks)[k] \in DOMAIN Spelling
      BY DEF IdsIn, Text
    <2>3. IdsIn(raw, ks) = [k \in DOMAIN IdsIn(raw, ks) |-> IdsIn(raw, ks)[k]]
      BY DEF IdsIn
    <2>4. ks \subseteq IdKey
      BY <1>1, MapperAssumption DEF IdKey
    <2> QED BY <2>1, <2>2, <2>3, <2>4 DEF Spelled
  <1>2. \A ids, f, m, ts, e :
          LET r == Mapped(ids, RequestFor(ids, f, m, ts), e) IN
          r.id = GenerateCanonicalID(ids) /\ r.req.docs[ExternalIDs] = GoMapOf(ids)
    BY MapperAssumption DEF Mapped, RequestFor
  <1>3. CASE kind = "events"
    <2>1. Spelled(IdsIn(raw, {Uid, Idfa, Gaid}))
      BY <1>1
    <2> QED BY <1>2, <1>3, <2>1 DEF Map, mapAdEvent
  <1>4. CASE kind = "installs"
    <2>1. Spelled(IdsIn(raw, {Idfa, Gaid}))
      BY <1>1
    <2> QED BY <1>2, <1>4, <2>1 DEF Map, mapMMPInstall
  <1>5. CASE kind = "billing"
    <2>1. Spelled(IdsIn(raw, {Uid}))
      BY <1>1
    <2> QED BY <1>2, <1>5, <2>1 DEF Map, mapBillingTx
  <1>6. CASE kind = "tags"
    <2>1. Spelled(IdsIn(raw, {Uid}))
      BY <1>1
    <2> QED BY <1>2, <1>6, <2>1 DEF Map, mapDMPTags
  <1> QED BY <1>3, <1>4, <1>5, <1>6 DEF Kinds

\* An Upsert of the ids that id was made of.
LEMMA OwnUpsert ==
  ASSUME NoKeySpelled, NEW row, NEW req, NEW ids, Spelled(ids),
         req.docs[ExternalIDs] = GoMapOf(ids), RowOwn(GenerateCanonicalID(ids), row)
  PROVE  RowOwn(GenerateCanonicalID(ids), Upserted(row, req))
  <1> DEFINE new == Upserted(row, req)
  <1>1. Marshal(req.docs[ExternalIDs]) = [kind |-> "object", map |-> ids]
    BY DEF Marshal, GoMapOf
  <1>2. ids = [k \in DOMAIN ids |-> ids[k]] /\ DOMAIN NoKeys = {}
    BY DEF Spelled, NoKeys
  <1>3. CASE row = None
    <2>1. IdsOf(new) = ids
      BY <1>1, <1>3, MapperAssumption DEF Upserted, IdsOf
    <2> QED BY <2>1 DEF RowOwn
  <1>4. CASE row # None
    <2> DEFINE old == row.docs[ExternalIDs]
    <2>1. IdsOf(new) = Concat(old, [kind |-> "object", map |-> ids]).map
      BY <1>1, <1>4, MapperAssumption DEF Upserted, IdsOf
    <2>2. CASE old.kind # "object"
      <3>1. IdsOf(new) = NoKeys
        BY <2>1, <2>2 DEF Concat
      <3> QED BY <3>1 DEF RowOwn
    <2>3. CASE old.kind = "object"
      <3>1. IdsOf(new) = Overlay(ids, old.map)
        BY <2>1, <2>3 DEF Concat
      <3>2. CASE old.map = NoKeys
        <4>1. IdsOf(new) = ids
          BY <1>2, <3>1, <3>2 DEF Overlay
        <4> QED BY <4>1 DEF RowOwn
      <3>3. CASE old.map # NoKeys
        <4>1. old.map = ids
          BY <1>4, <3>3, CanonicalIdNames DEF RowOwn, IdsOf
        <4>2. IdsOf(new) = ids
          BY <1>2, <3>1, <4>1 DEF Overlay
        <4> QED BY <4>2 DEF RowOwn
      <3> QED BY <3>2, <3>3
    <2> QED BY <2>2, <2>3
  <1> QED BY <1>3, <1>4

\* An Upsert of no ids.
LEMMA UpsertOfNone ==
  ASSUME NEW id, NEW row, NEW req, req.docs[ExternalIDs].map = NoKeys, RowOwn(id, row),
         row # None => row.docs[ExternalIDs].map = [k \in DOMAIN IdsOf(row) |-> IdsOf(row)[k]]
  PROVE  RowOwn(id, Upserted(row, req))
  <1> DEFINE new == Upserted(row, req)
             m == Marshal(req.docs[ExternalIDs])
  <1>1. m.map = NoKeys /\ DOMAIN NoKeys = {}
    BY DEF Marshal, NoKeys
  <1>2. CASE row = None
    <2>1. IdsOf(new) = NoKeys
      BY <1>1, <1>2, MapperAssumption DEF Upserted, IdsOf
    <2> QED BY <2>1 DEF RowOwn
  <1>3. CASE row # None
    <2> DEFINE old == row.docs[ExternalIDs]
    <2>1. IdsOf(new) = Concat(old, m).map
      BY <1>3, MapperAssumption DEF Upserted, IdsOf
    <2>2. CASE ~(old.kind = "object" /\ m.kind = "object")
      <3>1. IdsOf(new) = NoKeys
        BY <2>1, <2>2 DEF Concat
      <3> QED BY <3>1 DEF RowOwn
    <2>3. CASE old.kind = "object" /\ m.kind = "object"
      <3>1. IdsOf(new) = Overlay(NoKeys, old.map)
        BY <1>1, <2>1, <2>3 DEF Concat
      <3>2. IdsOf(new) = old.map
        BY <1>1, <1>3, <3>1 DEF Overlay, IdsOf
      <3> QED BY <1>3, <3>2 DEF RowOwn, IdsOf
    <2> QED BY <2>2, <2>3
  <1> QED BY <1>2, <1>3

LEMMA OwnStep ==
  ASSUME NoKeySpelled, \A req \in OtherRequests : req.docs[ExternalIDs].map = NoKeys,
         IngestInv, OwnInv, [IngestNext]_vars
  PROVE  OwnInv'
  <1>1. ASSUME UNCHANGED rows PROVE OwnInv'
    BY <1>1 DEF OwnInv
  <1>2. ASSUME NEW id \in Id, NEW row, rows' = [rows EXCEPT ![id] = row], RowOwn(id, row)
        PROVE  OwnInv'
    <2>1. \A other \in Id : rows'[other] = IF other = id THEN row ELSE rows[other]
      BY <1>2 DEF IngestInv, IngestTypeOK
    <2> QED BY <1>2, <2>1 DEF OwnInv
  <1>3. ASSUME NEW t \in Topic, ~At(t, "idle")
        PROVE  RowOwn(UserOf(t), Upserted(rows[UserOf(t)], MsgOf(t).req))
    <2> DEFINE n == position[t]
    <2>1. n \in 1 .. Len(Log[t]) /\ Kind[t] \in Kinds
      BY <1>3, IngestionAssumption DEF IngestInv, HandlerOK
    <2>2. PICK ids : /\ Spelled(ids) /\ Map(Kind[t], Log[t][n]).id = GenerateCanonicalID(ids)
                     /\ Map(Kind[t], Log[t][n]).req.docs[ExternalIDs] = GoMapOf(ids)
      BY <2>1, MapsOwn
    <2>3. /\ Msgs[t][n].id = Map(Kind[t], Log[t][n]).id
          /\ Msgs[t][n].req = Map(Kind[t], Log[t][n]).req
      BY <2>1 DEF Msgs
    <2>4. /\ UserOf(t) = GenerateCanonicalID(ids) /\ MsgOf(t).req.docs[ExternalIDs] = GoMapOf(ids)
          /\ RowOwn(UserOf(t), rows[UserOf(t)])
      BY <1>3, <2>2, <2>3, MsgType DEF UserOf, MsgOf, OwnInv
    <2> QED BY <2>2, <2>4, OwnUpsert
  <1>4. ASSUME NEW t \in Topic, HandleStep(t) PROVE OwnInv'
    <2>1. CASE UNCHANGED rows
      BY <1>1, <2>1
    <2>2. CASE /\ At(t, "upsert")
               /\ rows' = [rows EXCEPT ![UserOf(t)] = Upserted(rows[UserOf(t)], MsgOf(t).req)]
      <3>1. ~At(t, "idle")
        BY <2>2 DEF At
      <3> QED BY <1>2, <1>3, <2>2, <3>1, MsgType
    <2>3. CASE UpsertProfile(t)
      BY <2>2, <2>3 DEF UpsertProfile
    <2>4. CASE UpsertFails(t)
      BY <2>1, <2>2, <2>4 DEF UpsertFails
    <2> QED BY <1>4, <2>1, <2>3, <2>4 DEF HandleStep, WriteEvent, ListAudiences, ListFails,
                                          MatchAudience, HasMember, WriteMember, profiles
  <1>5. ASSUME NEW id \in Id, OtherStep(id) PROVE OwnInv'
    <2>1. CASE UNCHANGED rows
      BY <1>1, <2>1
    <2>2. RowOwn(id, rows[id])
      BY DEF OwnInv
    <2>3. ASSUME NEW req \in OtherRequests, OtherUpsert(id, req) PROVE OwnInv'
      <3>1. rows[id] # None =>
              rows[id].docs[ExternalIDs].map = [k \in DOMAIN IdsOf(rows[id]) |-> IdsOf(rows[id])[k]]
        <4> SUFFICES ASSUME rows[id] # None
                     PROVE  rows[id].docs[ExternalIDs].map
                              = [k \in DOMAIN IdsOf(rows[id]) |-> IdsOf(rows[id])[k]]
          OBVIOUS
        <4>1. rows[id] \in Row
          BY DEF IngestInv, IngestTypeOK
        <4>2. rows[id].docs[ExternalIDs].map \in Object
          BY <4>1, MapperAssumption DEF Row, Json
        <4> QED BY <4>2 DEF Object, IdsOf
      <3>2. RowOwn(id, Upserted(rows[id], req))
        BY <2>2, <3>1, UpsertOfNone
      <3> QED BY <1>2, <2>3, <3>2 DEF OtherUpsert
    <2>4. ASSUME NEW tags \in OtherTags, OtherTag(id, tags) PROVE OwnInv'
      <3>1. rows[id] \in Row /\ rows[id] # None
        BY <2>4 DEF OtherTag, IngestInv, IngestTypeOK
      <3>2. Tagged(rows[id], tags).docs = rows[id].docs
        BY <3>1 DEF Tagged, Row
      <3>3. RowOwn(id, Tagged(rows[id], tags))
        BY <2>2, <3>1, <3>2 DEF RowOwn, IdsOf
      <3> QED BY <1>2, <2>4, <3>3 DEF OtherTag
    <2>5. CASE OtherDelete(id)
      <3>1. RowOwn(id, None)
        BY DEF RowOwn
      <3> QED BY <1>2, <2>5, <3>1 DEF OtherDelete
    <2> QED BY <1>5, <2>1, <2>3, <2>4, <2>5 DEF OtherStep, OtherEvent, OtherRedirect, Age
  <1>6. CASE \/ \E t \in Topic : ReadMessage(t) \/ Commit(t)
             \/ ProcessStep
             \/ \E a \in Audience : CreateAudience(a) \/ UpdateEstimate(a)
             \/ UNCHANGED vars
    <2>1. UNCHANGED rows
      BY <1>6 DEF ReadMessage, Commit, ProcessStep, BeginStop, CloseReader, Exit, Kill, GoDown, Start,
                  CreateAudience, UpdateEstimate, vars, profiles
    <2> QED BY <1>1, <2>1
  <1> QED BY <1>4, <1>5, <1>6 DEF IngestNext

\* OwnIds, for any topics, keys and values none of which spells a key and an =, as long as
\* nobody else sends external ids: the ids that messages and redeliveries merge into a
\* profile, in any order and number, are those that its canonical id was made of, so the
\* profile holds the ids of one user (mapper.go, merger.go, GenerateCanonicalID).
THEOREM ProfilesOwnTheirIds ==
  ASSUME NoKeySpelled, \A req \in OtherRequests : req.docs[ExternalIDs].map = NoKeys
  PROVE  IngestSpec => []OwnIds
  <1>1. IngestInit => OwnInv
    BY DEF IngestInit, OwnInv, RowOwn
  <1>2. OwnInv => OwnIds
    BY DEF OwnInv, RowOwn, OwnIds, IdsOf
  <1>3. IngestInv /\ OwnInv /\ [IngestNext]_vars => OwnInv'
    BY OwnStep
  <1> QED BY <1>1, <1>2, <1>3, IngestInvariant, PTL DEF IngestSpec

=============================================================================
