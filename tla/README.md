# adortb-cdp in TLA+

This directory models the customer data platform of this repository in TLA+,
checks it with TLC on small instances, and proves its most important properties
with TLAPS for every value of the constants.

    cd tla
    tlc -workers 2 -config store.cfg MCProfileStore.tla
    tlapm ProfileStoreProofs.tla

`PROJECT.json` lists the components, the runs, the source lines behind every
definition, the hazards and the findings.

## 1. The system

The service is one Go process next to PostgreSQL, Redis and Kafka. It builds
unified customer profiles out of messages of four topics and of HTTP requests,
keeps audiences of profiles that match a condition tree, drives users through
journeys and exports audiences to other systems.

| component | state | operations | interacts with |
|---|---|---|---|
| profile store (`internal/profile/store.go`, `cache.go`) | `cdp_profiles`, Redis `cdp:profile:<id>` with a TTL of 10 minutes | `Upsert`, `GetByCanonicalID`, `UpdateTags`, `WriteEvent`, `ListEvents`, `GetByExternalID` | called by everything else |
| merger (`merger.go`) | none of its own; `cdp_events` | `Merge`, `GenerateCanonicalID` | profile store, and the tables behind its back |
| enricher (`enricher.go`) | none | `EnrichFromDMP`, `EnrichTraits`, `EnrichAttributes` (built by `main`, called by nobody) | profile store |
| journeys (`internal/journey`) | `cdp_journeys`, `cdp_journey_instances`, one goroutine per `Enter` | `Enter`, `advance`, `moveToNext`, activation; `OnEvent` and the triggers are stubs | profile store (tag actions), webhooks |
| audiences (`internal/audience`) | `cdp_audiences`, `cdp_audience_members` | `ParseCondition`, `Matches`, `EvaluateProfile`, the table's operations | event counter, consumers, exporter |
| ingestion (`internal/ingestion`) | read position and committed offset per topic | `Start`, `consumeTopic`, `handleMessage`, `Map`, `Close` | profile store, audiences, journey triggers |
| export (`internal/export`) | none; one walk per call | `Export`, `sendBatch` | member list, an external endpoint |
| process (`cmd/cdp/main.go`) | running, told to stop, gone | start, wait for a signal or the end of the server, `Close`, `Shutdown` | the consumers' context and readers |
| HTTP API, metrics | none | handlers, counters | all of the above |

What is hard here:

* No operation uses a transaction. Each is a sequence of SQL statements and
  cache commands, and any number of goroutines (requests, one consumer per topic,
  one goroutine per journey entry) interleave between two of them.
* Errors of cache commands and of most audience statements are ignored. A
  statement can fail after it was applied, and a caller can go away between two
  steps.
* Messages are committed in the background, lost or delivered again after a
  restart, and `Close` commits what has been read without waiting for who handles it.
* Profiles and events change behind the back of the pipeline: through HTTP, by journeys,
  by merges, and because events leave the window that a condition counts them in.
* Journeys live in goroutines with a time limit of 30 seconds and nothing resumes
  them.
* Values change their form between Go maps, JSON and `jsonb` (a nil map, a NULL
  column).

What makes each component correct, in one line:

* the cache never answers with something the table does not have, but for a while
  after a race;
* upserts and merges never lose what is known of a user, and no event is left with
  a deleted profile;
* a journey goes forward, executes an action once per entry and completes only at
  its end;
* a tree means what its formula says, and evaluation terminates;
* the members of an audience are the profiles that match it;
* every message is handled to the end, and once its offset is committed it is never
  taken up again;
* a user has one profile, and a profile has one user;
* an export reaches everyone who stays in the audience, each once, and says how
  many.

The code keeps some of these promises only under conditions. The models state
the condition, and section 6 lists where a document or a comment promises more.

## 2. The modules

| module | models |
|---|---|
| `ProfileData` | the forms of a profile: Go maps that may be nil, `jsonb` columns, `upsertSQL`, `scanProfile` |
| `Mapper` | extends `ProfileData` by `mapper.go` and `GenerateCanonicalID` |
| `ProfileStore` | store and cache; a step is one SQL statement or one Redis command |
| `ProfileMerge` | extends `ProfileStore` by `Merge` and the events |
| `Journey` | journeys, their instances, their actions and the goroutines that drive them |
| `Conditions`, `Evaluation` | condition trees and the recursive functions on them; a tree parsed and then evaluated |
| `Ingestion` | extends `Mapper` by one consumer per topic, `handleMessage`, `EvaluateProfile`, offsets, the life of the process, and everybody else who writes profiles and events |
| `Delivery` | abstract specification: what an export promises |
| `Export` | the cursor walk of `Export` over `ListMembers`; implements `Delivery` |
| `MC*` | the small instances for TLC |
| `*Proofs` | theorems and proofs, one for each module that is proved about |
| `DataLemmas` | induction and recursion for the other proofs, and lemmas on `ProfileData` |

`ProfileMerge` composes the merger with the store: its actions are those of
`ProfileStore` with more state, so that a merge races with every other client.
`Ingestion` composes the mappers, the consumers, the audience builder, the tables and
the process. `MCIngestion` adds the conditions: the verdicts that `Ingestion` takes as the
constant `Match` are computed from real trees by `Conditions!Matches`, and the messages
are raw ones that go through the mappers. `Export` is shown to implement `Delivery` under the
mapping `count <- exported, outcome <- Outcome`.

### ProfileData, ProfileStore, ProfileMerge

A `jsonb` column is its kind (object, null, array) and, for an object, its map. `Concat` is
`||`: the union of two objects, and an array for anything else. `ScalarConcat` says
whether PostgreSQL accepts an object with a scalar (from version 14 on; the older ones reject the
statement, `UpsertAccepted`). Time columns are left out: nothing compares them.

A client is a goroutine; `call[c].pc` says which command of its store call is
next. `UpsertRow` and `SetCache` (pc `publish`) are the two halves of `Upsert`, `GetCached`,
`LoadRow` and `SetCache` (pc `fill`) the three of `GetByCanonicalID`, `TagRow` and
`DropCache` those of `UpdateTags`. `Expire` is the TTL. `UpsertFails` and the fault
disjuncts of the other actions are errors, applied or not; `AbandonCall` is a process that
stops or a request that is cancelled.

`raced` is a history variable. An id enters it when a row changes while another
client is about to cache an older read, when a writer's cache command fails or is never
sent, and when a row is deleted without its entry; it leaves it when the entry is
evicted and nobody can refill it with an older read. `CoherentUnlessRaced` says that these are the *only* ways
to a stale cache.

`ProfileMerge` runs `Merge` as `BeginMerge` (the read of the secondary, continued
by the store's own actions), `UpsertPrimary`, `RedirectEvents` and `DeleteSecondary`.

### Journey

A *member* is a user in a journey, the key of `cdp_journey_instances`. `run[r]` is a
goroutine: it alternates between `advance` (the step is run) and `move` (the next step or
the completion is written). `advance` is three actions, as the code has three cases:
`Act` executes an action, `Pass` is a wait or a condition, `RunOff` a step id that the
journey does not define. `Execute` gives the outcomes of an action: a message is only
logged, an unknown kind or a payload without what it needs is refused, a tag or a webhook
takes effect or not and is reported to have failed or not; `Act` ignores what is reported, as the
code does. `late` says that the goroutine's context is done, after which every statement and
every request fails but sleeps and steps still go on; a wait longer than the 30 seconds
makes it so by itself (section 6, `journey_wait`). What a tag action does to the profile is `TagRow` of
`ProfileStore` and `OtherTag` of `Ingestion`; the journey never reads it.

`visited`, `sent`, `failed`, `trail` and `lost` are history; `lost` are the members for
whom, since they were entered last, a goroutine ended before the journey did: at a step
that is not defined, or with a statement that failed. `Enter` is
called by the package's tests; no handler and no trigger of this version calls it.

### Conditions, Evaluation

A node is a record with the fields of the Go struct. `Condition` is the set of the trees,
closed under children, and `Height` gives their heights: `ConditionAssumption` says that trees
are finite, as the texts they are parsed from are. `Valid`, `Matches`, `Leaves`, `Plain` and
`Truth` are functions on that set, defined by recursion. `FirstOther` is both loops of
`Matches`: they stop at the first child that decides or fails. `Truth` is the
reference: the formula, in which any subset of the leaves that cannot be evaluated is assumed to
hold. Trees with an and-list *and* an or-list are accepted by
`validateCondition`, and `Matches` ignores the or-list; `VerdictIsTruth` leaves them out.

### Mapper

A message is its external ids, as far as the fields are there, and its source, type and
tags. `GenerateCanonicalID` is the text that the code hashes: the keys in the order of
`sort.Strings`, with their values spelled out, joined by `=` and `&`; SHA-256 is taken to be
injective. This much of the spelling is modelled because `OwnIds` depends on it: the
same text can be the uid of one user and the device id of another. `Spelling` gives the characters
of a value; a key counts as one character of the hashed text.

### Ingestion

`handler[t]` is where `handleMessage` stands: `upsert`, `event`, `list`, and for
each audience `match`, `has`, `write`. `p` is the profile that the message's own
upsert returned, which may be older than the row when it is evaluated; events are counted when they
are needed. An audience is `absent`, `null` (created by the API, without a size estimate) or
`known`; `ListAudiences` needs every row to be scanned. `UpdateEstimate` exists in the code
and is called by nothing; the constant `Estimator` says whether a run lets somebody call it.

*Offsets.* `ReadMessage` of the Kafka library hands a message over to its commit loop before it is
handled; `Commit` is that loop, once a second.

*The process.* `BeginStop` is a signal (`stopping`) or the end of `ListenAndServe`, which also
cancels the context that all statements of the consumers have (`failed`; from then on each of
them may fail). `CloseReader` is one step of `Consumer.Close`: it commits what has been read, if the
broker answers, and does not wait for the goroutine, which finishes its message and
those that were already fetched, until `Exit`, the end of `main`. `Kill` is
a process that ends without any of this. `Start` reads on behind the committed offset.

*Others.* `OtherUpsert`, `OtherEvent`, `OtherTag`, `OtherRedirect` and `OtherDelete` are the HTTP
handlers, the enricher, the tag actions of journeys and the statements of a merge; `Age` is an event
that leaves the window. None of them evaluates an audience.

`disturbed` is history: the ids whose memberships may be out of date. An id enters it when
two topics have it in hand at once, a statement of its message fails, a stop cuts its message off, an
audience is created, or others change it; it leaves it when a message about it is
taken up and no other topic has it in hand. `SettledUnlessDisturbed` says that these are the
*only* reasons for a wrong membership, and that the next undisturbed message repairs it.

### Delivery, Export

Members are numbers, the cursor is the last id of a page. `AddMember` and
`RemoveMember` interleave with the walk at every step. `stayed` is history: the members from the
beginning of the call until now.

## 3. The runs

Runs with the expectation *pass*:

| run | shows | bounds |
|---|---|---|
| `store` | outside the named races the cache is never stale, nor is what a client is about to cache; once the row rests the cache becomes right and stays so; a stored key disappears only where a request has a nil map | 3 goroutines, 1 profile, 1 column, 2 values, all faults, requests with and without nil maps, a PostgreSQL that takes object \|\| null |
| `merge_fanin` | two profiles merged into a third lose no key, no tag but by `UpdateTags`, and orphan no event, whatever overlaps or fails half-way | 3 profiles, 2 goroutines, 2 events, all faults, upserts, tag updates and events of the primary |
| `journey` | a single entry goes from a step to its successor only, an entry makes an action take effect at most once, completed means that every step was run, and who loses no goroutine gets to the end | 3 journeys (a tag and a condition; a webhook whose successor is not defined; a refused action and a short wait that is its own successor), 1 user, 2 goroutines, 2 entries into the first journey and 1 into the others, all faults |
| `export` | stayers delivered, in order, once, counted; `Delivery` implemented; the walk ends while members are added | 5 ids, a limit above the maximum replaced by pages of 2, faults of database and destination |
| `cond_truth` | an accepted tree is evaluated to its formula's truth | all two-level trees over 10 leaves, three-level ones over 3, all profiles, 5 histories |
| `ingest_all` | only who matched an audience is ever in it; memberships are right unless disturbed; a stop loses one message of a topic at most; a committed message that is out of hand is never taken up again; who is told to stop does | 2 topics, 3 messages about 1 user, a dynamic and a static audience, failing statements, 1 stop of any kind at any step |
| `ingest_one` | memberships are right unless disturbed, a profile has one user's ids, and the topic is drained | 1 topic with 4 messages (two about one user, one about another, one that is no JSON), 4 audiences, two of them created on the way and one that fails to evaluate, 1 change by anybody else, no fault |

The runs with the expectation *violation* are in section 6.

The instances are small and still hold what matters: a race needs two clients that hold
reads of one row and a third that changes it; a
merge is disturbed by one other client, and a fan-in needs three profiles; the steps of the
journeys are of all types, with a cycle and an undefined step, and members interact only through
the pool of goroutines; the
boundary cases of a page (empty, partly filled, exactly full) all happen with pages of two; the
pipeline's races need two topics about the same user, and a stop can hit between any two
statements of any message, followed by a start, a second delivery and everything that the
other topic does meanwhile. What a second stop could add is left to the proof of `OneLostPerStop`,
which is for any number of them.

Counters are bounded by constants (`Entries`, `MaxEvents`, `MaxOthers`, `MaxStops`) or in the
state itself (`sent` counts to one more than `Entries`). `ActionsPerEntry` reaches its bound:
a user who is entered twice has the actions executed twice. `orchestrator.go:31` says that
a second entry is idempotent and `docs/architecture.md:111` that an entry has to be checked for
repetition; nothing does.

`Deadlock` is checked except in the runs whose system may stop or wait: a
tree that has been evaluated (`cond_truth`) and a service that waits for messages
(`ingest_*`).

Every property of a passing run has a mutant in `PROJECT.json`: a small change of one
action or operator, of the kind that a mistake in the code would be, that makes TLC
find the property violated.

## 4. Fairness

* `FairStoreSpec`: a goroutine that has started a call goes on with it (the
  drivers have time-outs), and Redis expires entries. No one has to start a call, and no
  command has to succeed.
* `FairJourneySpec`: goroutines are scheduled, their statements return, well or with an
  error, their sleeps end, and so does their context, after 30 seconds (where `Faults` has
  "deadline"): a goroutine does not run round a cycle for ever. Crashes need not happen.
  `WaitsArePassed` is violated although all of this is assumed.
* `FairExportSpec`: a SELECT or POST is answered or times out (30 seconds in the HTTP
  client).
* `FairIngestSpec`: consumers run and their statements return, well or with an error;
  closing a reader and `Shutdown` return, the latter after 30 seconds. Commits, stops and kills
  need not happen, and nobody has to start the process again. `Drained` assumes that the
  process keeps running from some time on: with stops for ever nothing would be drained.

## 5. The theorems

| theorem | states |
|---|---|
| `StoreTypeCorrect`, `MergeTypeCorrect`, `JourneyTypeCorrect`, `ExportTypeCorrect`, `IngestTypeCorrect` | the type invariants |
| `CacheCoherent`, `HeldIsFresh` | `CoherentUnlessRaced` and `HeldFreshUnlessRaced`, for any clients, profiles, requests and faults |
| `OnlyNilLosesKeys` | `KeysLostToNil`, for any clients, requests and faults, and either PostgreSQL |
| `CacheCoherentUnderMerges` | `CoherentUnlessRaced`, with merges |
| `MergesOrphanNothing` | `NoEventOrphaned`, if no profile is both merged away and merged into, and nothing more is written for secondaries |
| `FanInKeepsIdentity`, `FanInKeepsTags` | `IdentityKept` and `TagsKept`, if no profile is both merged away and merged into, secondaries are not written, and no map is nil |
| `JourneyCompletedMeansDone`, `JourneyGoesForward` | `CompletedMeansDone` and `StepsForward`, for all journeys, of any shape |
| `JourneyActsOncePerEntry` | `ActionsPerEntry`, in journeys whose actions lie on no cycle, for any finite number of goroutines |
| `StopsLoseOne`, `CommittedStaysFinal` | `OneLostPerStop` and `CommittedIsFinal`, for any topics, logs, faults and number of stops |
| `UndisturbedIsSettled` | `SettledUnlessDisturbed`, for any topics, conditions, faults and other writers |
| `ProfilesOwnTheirIds` | `OwnIds`, if no value spells a key and `=`, and nobody but the mappers sends external ids |
| `MembersAlwaysHadCause` | `MembersHadCause`, if every dynamic condition looks at the profile only or at the events only, and no merge moves events |
| `TruthOfVerdicts` | `VerdictIsTruth`, for all trees, profiles, histories and limits |
| `CanonicalIdNames` | two maps of external ids with the same text to hash are the same, if no value spells a key and `=` |
| `UpsertAgain` | a request applied again is accepted again and leaves the profile as it reads |
| `ExportDeliversStayers`, `ExportDeliversPrefix`, `ExportCounts` | the three properties of an export |
| `ExportKeepsPromise` | `ExportSpec => Promise!Spec` |

The arguments:

* **Store.** `CoherentUnlessRaced` is not inductive: what will be cached is not
  in it. `StoreInv` adds that what a client *holds* (has read and not yet cached) is
  the row, for every id that is not in `raced`; a step that changes a row under a
  holder puts the id there.
* **Keys.** A step leaves a row alone, retags it, or merges an accepted request into it
  (`RowsStep`). A column that has keys is an object; a map merged into it keeps them
  (`UpsertMergesColumn`), and what is not a map is a nil one, whose null is only
  accepted where `ScalarConcat` holds. The theorem has no assumption about the requests: what the
  mappers send is covered, and `store_nil` shows that the exception happens.
* **Fan-in.** `FanInInv` says that a secondary is frozen: its row is what it was at the beginning or
  gone, and whatever anybody has read of it is that. A merge past its upsert has carried all
  keys and all lasting tags (those that no `UpdateTags` takes away) of the secondary into the
  primary, which only grows in both. So what was in a row before a step is in some row after it
  (`NothingGoes`), and both theorems follow. The assumptions are needed: `merge_cross` drops the first, and
  a secondary that is still written can lose what is written between Merge's read and its DELETE.
* **Events.** `OrphanInv` needs less, neither nil-free requests nor frozen rows: a merge
  that has reached its DELETE has no event left at its secondary, because events
  only ever move to ids that are not merged away, and only a DELETE removes a row.
* **Journey.** Along with its current step a goroutine has a trail from the first
  step; every step of the trail but the current one has been run, has taken effect or failed, and
  has its successor on the trail (`OnTrail`). At the end of a journey the trail is closed under
  successors, which is what `Done` asks for; so no induction over the path is needed.
  `StepsForward` needs `Sole`: a user who is entered once has one goroutine, and the instance
  is where that goroutine is. For `ActionsPerEntry`, what has been sent is counted together with the
  goroutines that are still ahead of the step (`Ahead`). A rank that rises at every action and falls
  nowhere (`Ranks`) says that a goroutine that has left an action does not come back to it, and
  only an entry adds a goroutine. With an action on a cycle the statement is false.
* **Ingestion.** For lost messages the invariant speaks of what has been *read*, committed or
  not (`Gone`), and of the stops that have taken effect (`Ended`): a handler that
  ends notes how, so that only the end of the process lets a message go, one of each topic at a time.
  `CommittedIsFinal` needs of it that the message in hand is the last one read, also while the process
  goes down, and that a start reads on behind the committed offset.
  For memberships, `SettledWith` follows an undisturbed id through its message: one handler at
  most has it, that handler's `p` is the row, the audiences that are done are right, the
  verdict in hand is the one of the row and events of now (`HeldRight`). For causes,
  `HandlerCause` says that a verdict "yes" was the truth at the moment of some step; a condition that
  combines profile and events can be satisfied by an old profile and new events that
  were never there together, hence the assumption.
  For ids, `OwnInv` says that the external
  ids of a row are exactly those that its id was made from; an upsert of a message with the same
  canonical id has, by `CanonicalIdNames`, the same ids, so that merging them changes nothing.
* **Conditions.** What `Matches` decides of a plain tree is `Decided`: "error" only if a recognised leaf
  fails, otherwise the truth of the formula whatever the failing leaves would be. It holds of a leaf
  (`LeafDecided`) and passes from children to an and-node (`AndDecided`) and an or-node
  (`OrDecided`), so a valid tree of least height that violates it does not exist
  (`PlainIsDecided`). `EvalInv` says that what is evaluated has been accepted, and is therefore valid.
* **Canonical ids.** The text is parsed from its end. The last `=` that follows a key belongs to the
  last pair, because no value contains a key followed by `=` (`NoKeySpelled`; other `=`, such as
  the padding of base64, do no harm), so equal texts have the same last key and value and
  equal texts before them (`PairSplits`); repeated along the order of the keys, this gives equal
  maps. Values without this restriction can collide, since nothing is escaped.
* **Recursive definitions.** The provers have no induction over data. `Least` gets a least
  element of a set of numbers from the well-foundedness of `<`, `LeastOfRank` an element of least rank
  of any ranked set, and `Recursion` a solution of a recursive definition whose right-hand side
  looks at lower ranks only. With the last the equations of `Matches`, `Valid`, `Truth` and the loop of
  `GenerateCanonicalID` hold; with the second a statement is proved of all trees by
  looking at a lowest counterexample.
* **Upserts.** `ConcatAgain`: a column that the same map is concatenated to twice reads as after
  the first time. The row itself may change, as `null || null` is an array; `scanProfile`
  reads both as empty, so `UpsertAgain` speaks of what is read. The event of a repeated
  message is inserted again all the same.
* **Export.** `ExportInv`: everything sent is at or below the cursor and every stayer
  up to it has been sent; the page in hand begins right behind the cursor and leaves out no stayer
  up to its end. The refinement needs this invariant in two places: that a batch has no id twice,
  and that nobody is missing in the end.

The assumptions on constants are those named in the modules; `NoneAssumption` only says
that the value standing for "no row" is not a row. `DataLemmas` has the lemmas that
several proofs share, among them those on the conversions between Go maps and columns.

Every safety invariant and every action property of the passing runs is stated by a theorem, with one
exception: `KeysKept` (`merge_fanin`), about stored objects and requests without nil maps, is
only model-checked; `OnlyNilLosesKeys` is about the store alone. Model-checked only are also the
liveness properties (`EventuallyCoherent`, `EnteredCompletes`, `ExportEnds`, `Drained`, `StopsWhenTold`),
which need fairness, with which the prover cannot reason. `FanInKeepsIdentity`, `FanInKeepsTags`,
`MergesOrphanNothing`, `JourneyActsOncePerEntry`, `ProfilesOwnTheirIds` and `MembersAlwaysHadCause` assume
something of the system's use, as the table says; the code can be used otherwise, and
section 6 says what happens then.

## 6. Where the code and its documents disagree

Each line is a run in which TLC finds the behaviour; the findings in `PROJECT.json`
quote the sentence that it contradicts.

| run | what happens |
|---|---|
| `store_nil` | A request with a nil map, as every mapper sends, turns the stored object into an array that reads as empty, although the maps are to be merged. `OnlyNilLosesKeys`: it is the only way to lose a key. |
| `merge_cross` | Two merges in opposite directions delete both profiles. `FanInKeepsIdentity`: merges in one direction do not. |
| `journey_wait` | A wait of more than 30 seconds is never left, although a journey is to go on after a wait of 24 hours: the goroutine sleeps past its own context and nothing resumes the instance. |
| `ingest_race` | Two topics about one user leave the membership of the older profile. `UndisturbedIsSettled`: the next undisturbed message repairs it. |
| `ingest_null` | After one audience is created, no audience is evaluated any more, and offsets are committed, although they are to be committed only after success. |

The models show more of the kind, in variations of these instances; the passing
runs state the condition under which the promise is kept instead.

* Two upserts can SET the cache in the opposite order of their statements; what is left
  over is an exception (`raced`) of `CoherentUnlessRaced`. The same goes for the
  deleted secondary of a merge, which stays readable from the cache.
* A merge deletes what was written to the secondary after it was read, and leaves an
  event written between the redirect and the DELETE with the deleted profile:
  `merge_fanin` writes nothing for secondaries.
* A second `Enter` executes the actions again and sends the instance back to the first step
  (`StepsForward` speaks of single entries), although the comment on `Enter` calls it idempotent.
* A journey completes although an action of it failed: the error is logged (`Done`).
* A condition step passes to its first successor: branches are read by nothing, so
  they are not even part of `Steps`.
* An event condition without bounds matches without any event (`CountMatches`), where
  `docs/architecture.md` 4.1 reads it as "has happened". `MatchLeaf` is what `Matches` computes, and
  `Truth` is built on it: `VerdictIsTruth` is about the tree, not about this reading.
* `validateCondition` counts the edges above a node: with its limit of 10 a tree of eleven levels
  is accepted, ten nested nodes and a leaf below, where `docs/architecture.md:213` and `README.md:192` allow ten.
  `Matches` has no limit.
* Messages of one user with and without a device id have different canonical ids and make two profiles:
  `GenerateCanonicalID` hashes all the ids that a message has, while its comment (`merger.go:85`)
  promises an id "from the most stable external id". `OwnIds` says the converse only.
* The pages of an export come in the order of `canonical_id` (`builder.go:161`), where
  section 7 of `docs/architecture.md` says `ORDER BY joined_at`. The cursor needs the former.
* A message that is being handled when the process stops may be committed already and is then
  lost, by a graceful stop as well (`OneLostPerStop` says: one of each topic and no more);
  `docs/architecture.md:111` promises at-least-once. One that was handled but not committed is
  delivered again and inserts its event a second time, where the same line asks for idempotence;
  `CommittedIsFinal` says that no committed message is.
* What others write is not evaluated before the next message of the user
  (`SettledUnlessDisturbed`).
* A condition that combines profile and events can be found true of an old profile with new events;
  `MembersAlwaysHadCause` excludes it.

## 7. What is not modelled

* HTTP decoding, status codes, routing, metrics, logging: no property is about them.
* `ListEvents`, `GetByExternalID`, `GetByID`, `ListActiveInstances`, `GetInstance`: they only
  read and nothing modelled depends on them.
* Triggers: `CheckEvent` and `CheckAudienceEntry` write a log line, `OnEvent` does nothing.
* The wiring of `main` beyond its life cycle, and the pools and time-outs that it sets, which are
  faults of the modules.
* The calendar: an event is in the window or not (`Ingestion`), or has an age that is data
  (`Conditions`).
* The cache takes no part in `Ingestion`: the pipeline writes it and never reads it. Journeys
  and memberships take no part in `ProfileMerge`; for memberships a merge is one of the
  others in `Ingestion`.
* The rebalancing of a consumer group: each topic has one partition and one reader.
* A message with no external id gets the canonical id of the empty text, shared by all such
  messages; `OwnIds` leaves these out, as nothing says what should happen to them.
* Values that spell a key and an equals sign, in the run of `OwnIds`: the theorem excludes them.

## 8. How the project grew, and what could follow

The profile store came first, as it carries everything else, then the merge on top of it,
journeys, export, conditions and ingestion; then the mappers, everybody else who writes profiles and
events, the life of the process, the actions of journeys, and the theorems about the
pipeline and the journeys; then those about condition trees and canonical ids; and at last those
about stored keys and committed messages, which hold without assumptions on the use of the system. What could follow:

1. A merge that is asked for again after it stopped half-way: that the second run completes the first.
2. An abstract specification of a user's way through a journey, implemented by the goroutines.
3. `ProfileMerge` with memberships, once the code moves them.
4. Several partitions per topic and the rebalancing of their readers, if the service is run in more
   than one process.
