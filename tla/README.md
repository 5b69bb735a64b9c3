# Verification of the taxi service

TLA+ models of the taxi service in this repository, the TLC runs that check them
on small instances, and TLAPS proofs of theorems about them for instances of any
size.  `src/` is the repository; a path such as `taxi_storage.cpp` is
`src/src/storage/taxi_storage.cpp`.

## 1. Inventory

| Part | State | Operations | Talks to |
|---|---|---|---|
| storage tables (`taxi_storage.cpp`, `schema.sql`, `data.sql`) | tables users, drivers, rides in PostgreSQL | CreateUser, CreateDriver, CreateRide, AcceptRide, CompleteRide, UpdateDriverStatus, eight SELECTs | called by the handlers |
| ride transactions (`AcceptRide`, `CompleteRide`) | open transactions, row locks | begin, two UPDATEs in one statement, rollback or commit | PostgreSQL |
| response cache (`ResponseCache`, `simple_performance.hpp`) | key to body and expiry, behind a mutex | Get, Set, InvalidatePrefix | called by the GET, POST and PATCH handlers |
| rate limiter (`FixedWindowRateLimiter`) | window start and count, behind a mutex | Check | called by `GET /rides?status=active` |
| HTTP handlers | none of their own; a request in progress | seven handlers for users, drivers, rides | storage, cache, limiter |
| login and tokens (`Login`, `IsTokenValid`, `auth_middleware.cpp`) | token map and counter in memory | issue, check | storage; every handler behind the middleware |
| Mongo user directory (`mongo_users_create.cpp`, `mongo_users_get.cpp`) | MongoDB collection | FindOne, InsertOne | MongoDB |
| event producer and topology (`producer.py`, `rabbitmq_client.py`) | durable exchange and queues | publish | RabbitMQ |
| event consumer (`consumer.py`) | `read_model.json` | load, update, save, ack or nack | RabbitMQ |
| wiring (`main.cpp`, component classes, configs) and value types | none | construction | - |

What is hard here, and what makes each part correct:

* **Storage and transactions.** A driver's `status` column and the rides assigned
  to it live in two tables, and no constraint of the schema ties them together.
  Concurrent calls must not give a driver two rides or a ride two drivers, no half
  of a call may stay behind, and the opposite lock orders of `kAcceptRide` and
  `kCompleteRide` must not block the service.  `data.sql` loads tables in which
  status and rides disagree.
* **Cache.** Its mutex covers one call, while a handler needs the cache and the
  tables to agree over several steps.  An entry that is out of date must have a
  reason and an end.
* **Rate limiter.** The clock is read before the mutex is taken.
* **Events.** The consumer saves before it acknowledges and rewrites one file in
  place, so a death at the wrong step means a second delivery or a torn file; the
  producer does not know whether the broker has the message, and nothing orders
  the events of one ride, each of which comes from a process of its own.
* **Tokens.** The counter they are numbered by starts over with the process and
  is an `int`, while clients keep theirs; one text may be issued many times.
* **Mongo users.** A login is looked up and inserted in two round trips, and no
  unique index stands behind them.

`PROJECT.json` lists every hazard at its line, with the properties that would
catch it; those without a property name the reason.

## 2. The modules

```
RideDispatch                       abstract: waiting, serving, finished
   ^ implemented by (INSTANCE)
TaxiStorage                        tables, one atomic step per call
   ^ implemented by (Spec as a property)
RideTransactions                   sessions, snapshots, row locks, commit, rollback
   |-- RideRefusals                + history: when may a call be refused
TaxiStorage
   |-- CachedService               handlers over ResponseCache and the tables
         |-- CacheRaces            + history: why an entry is out of date
FixedWindowRateLimiter             one bucket, threads and a clock
RideEvents                         producers, queue, consumer, read_model.json
AuthTokens                         logins, token table, middleware, restarts
MongoUsers                         look-up and insert, inserts given up
```

The last four stand alone: the code joins them to the rest only by calls that
change nothing on the other side.  A request passes the middleware or the limiter
or is refused; the tables hand `Login` a user that nothing removes; nobody reads
the Mongo collection but its own handlers, and the service publishes no events.

`MC*` modules give the tables and sets of the runs.  The operators named
`<Action>_<Bug>` next to an action are mutated forms of it (a dropped guard, a
missing reset, a swapped prefix); no specification uses them, and each is there to
show that some property notices the bug.

### RideDispatch and TaxiStorage

`users[u]` is the login of row `u`; `drivers[d]` and `rides[r]` are records of the
columns that any statement tests or changes.  A row that was never inserted has
status "none".  Names, addresses, passwords and timestamps are data no change of
the tables depends on.  One action per call; a call that is refused (`nullopt`,
409, 404) changes nothing and is a stuttering step.  `InitialUsers`,
`InitialDrivers` and `InitialRides` are parameters, so that the same module serves
a fresh deployment and one loaded from `data.sql`.  What is assumed of them is only
what the schema and the loaded file guarantee (`InitialTablesWellFormed`).

`InitialConsistent` (each driver busy exactly when it serves one ride) is the
assumption of a *fresh* deployment.  The rows of `data.sql` do not satisfy it:
A111AA77 and D444DD77 are online with an accepted ride, C333CC77 and G777GG77 are
busy with none.  Theorems that need it say so; `ConsistentStaysConsistent`,
`ExcessNeverGrows` and `StrandedForEver` say what holds without it.

`RideDispatch` is what a passenger would call the service: a driver is free when
it has no ride.  `DispatchesRides` says the storage implements it although the
code looks only at the status column.

### RideTransactions and RideRefusals

Each of AcceptRide and CompleteRide is one transaction with one statement at READ
COMMITTED.  `txn[s].pc` is the next step, `scan` the rows the statement's snapshot
showed as matching, `driverLock` and `rideLock` the holder of each row lock.

* An UPDATE finds its row in the snapshot (`AcceptScan`, `CompleteScan`), waits
  for the lock, and tests its conditions again on the committed row.
* `kAcceptRide` asks `EXISTS (SELECT 1 FROM updated_driver)` before it scans
  rides, so it locks the driver first.  `kCompleteRide` needs `driver_id` from
  `updated_ride`, so it locks the ride first.
* If `updated_ride` matches nothing, the driver's new version exists but is not
  visible; only `transaction.Rollback()` (`taxi_storage.cpp:382`) removes it.
* `Abort` is a lost connection or process; `BreakDeadlock` is PostgreSQL's
  detector.  Inserts are single statements and stay atomic.

Locks, snapshots and the detector are PostgreSQL's and are marked external.

`ActsAtomically` is `TaxiStorage`'s `Spec`: each call takes effect at its commit
as if it ran alone.  `RefusedOnlyIfImpossible` is the other half: a model that
refuses every call would implement that specification too.

### CachedService and CacheRaces

A GET is `Miss`, `Read`, `Fill`; a POST or PATCH is the storage call
(`UsersCreate`, `RidesAccept`, ...) and then `Invalidate`.  Other requests run
between these steps.  A hit and a refused request change nothing.  The body of an
answer is the set of rows it lists (`View`); the order is a function of the set.
The time to live is not counted: `Expire` may happen at any moment, which also
covers `Get` reading its clock before it takes the mutex.  Failures are
`ChangeUnacknowledged` (committed, but the storage call throws: 500 and no
invalidation), `ReadFails` and `Restart`.  Reads ask for a replica (`kSlave`);
`docker-compose.yaml` has one PostgreSQL host, so they see every commit.  The rate
limiter in front of the active rides only adds refusals and is a module of its own.

`CacheRaces` adds the history that tells the causes apart: readers that a clearing
overtook, and keys whose entry may therefore stay out of date.

### FixedWindowRateLimiter

`ReadClock` is everything before the mutex, `Allow` and `Refuse` the two ways
through it.  Time is the number of the window; `granted` is a history of the
requests let through for each window.

### RideEvents

The service itself publishes nothing; `producer.py` and `test_events.py` stand for
it.  A producer is a process for one event, so `publish_event` may be called for the
events of a ride in any order, and once more for an event whose producer was run
again.  A message may be lost (`PublishLost`), since there are no publisher confirms.
`queue` is `taxi.audit`, the only queue that is read; `hand` is the message
delivered and not acknowledged, `pc` the place in `handle_message` (`received`,
`writing` between `open("w")` and the end of `json.dump`, `saved` before
`basic_ack`).  A payload is abstracted to the event it came with, and an entry of a
section of the file to the events whose payloads were merged into it: that is enough
to see an entry lose `user_id` and the addresses.  `Crash` is the end of the process
or of its connection at any step; `LoadFails` and `WriteFails` are the `except`
branch.  `Requeued` is RabbitMQ's: a message comes back to its old place, which with
one consumer is the front.  `lost`, `overtaken` and `again` are history: what the
broker never stored, what a later event of its ride came before, and what may be
processed a second time.

What order, loss and redelivery do to the file is stated exactly.

* A ride is in two sections only if an event from the first of them on was overtaken
  by a later one or lost (`TwoSectionsOnlyIfOvertaken`): a second delivery alone never
  makes a second copy, as the design says.  A producer that is run again after later
  events have reached the broker does make one.
* A payload is missing only if it, or an event that would have carried it on, was
  overtaken, or if a later event was processed twice: `ride.accepted` and
  `ride.completed` then pop an entry that is no longer there and overwrite the ride
  with their own payload (`MissingOnlyIfOvertakenOrRepeated`).  `MissingOnlyIfOvertaken`,
  without the last cause, is what the design promises and what the code breaks.
* What was acknowledged is in the read model at every step, in the file or in the
  memory it is being rewritten from (`AckedIsReflected`), and what the broker stored
  is handled in the end (`EventsAreHandled`).  Both have the same exception, `Stuck`:
  a failure or a death between the truncation and the end of the write leaves a file
  that `json.load` rejects.  Then every event acknowledged so far, of every ride, is
  lost for ever, and the message in front is delivered and requeued for ever.

### AuthTokens

`FindLogin` is `Login` up to its mutex (the row with that password is read from
PostgreSQL), `IssueToken` what it does under the mutex; between the two other
requests run.  A login with a wrong password is refused and changes nothing.
`next_token_id` is an `int` that wraps around; the counter and the table start over
at `Restart`, users do not.  `HandleRequest` is the middleware with any header a
client may send, tokens of earlier processes included.  `issued` is history.
Because a number starts over, a token of an earlier process becomes valid again:
`TokenIdentifiesUser` says that it then still stands for the user it was given to.
The middleware checks only that a token is known; no handler asks whose it is.

### MongoUsers

`FindNone` and `FindExisting` are the look-up of a POST, `InsertOne`, `InsertFails`
and `InsertTimesOut` the ways its insert ends; after the last MongoDB may still carry
the insert out (`ArrivesLate`) although the client was told 500.  `Get` is both forms
of the GET.  A document keeps its login and, as history, how many documents its
look-up saw.  MongoDB is taken to keep what it acknowledged.
A login that exists is not always answered 409 (section 6).
`DuplicatesOnlyByRace` shows that there is no other way, and `DuplicatesAreBounded`
how many documents there can be: one per task, and one per insert given up.

## 3. The runs

| Run | Instance | Shows |
|---|---|---|
| TaxiStorage_fresh | 2 users, 2 drivers, 3 rides, empty tables | types, status/assignment agreement, exclusive drivers, refinement of RideDispatch, ride life cycle |
| TaxiStorage_seeded | 3 of each, rows shaped as `data.sql` | inconsistencies do not spread or grow; stranded drivers stay stranded |
| RideTransactions | 2 sessions, 2 drivers, 2 rides, rows inserted meanwhile, with RideRefusals' history | lock discipline, tested rows hold, atomicity, no deadlock; a refused call was impossible at some moment; every call ends without the deadlock detector |
| RideTransactions_seeded | 2 sessions, an online driver with a ride, 3 rides | atomicity where deadlocks do form, and every call ends thanks to the detector |
| CacheRaces | 2 requests, every handler, one key of each kind | login entries are never out of date; other out-of-date entries have one of two causes, and all of them run out |
| CachedService_cleared | 2 requests, no failures | *violated*: see section 6 |
| FixedWindow | 3 threads, limit 2, 3 windows | bounded excess, no early refusal |
| FixedWindow_limit | the same | *violated*: see section 6 |
| RideEvents | a ride with all its events, one event of another, one of no ride, in any order, any of them lost, one published twice, two deaths of the consumer, log of 3 | what order, loss and redelivery may change, an acknowledged event is in the read model unless a rewriting of the file was cut short, and every event the broker stored is handled with the same exception |
| RideEvents_redelivered | the same events, none published twice, one death | *violated*: see section 6 |
| AuthTokens | 2 users, 2 tasks, an int of two bits, 5 logins, a restart | who is let through, whose token it is, when two logins get one |
| MongoUsers | 3 tasks, 3 logins of which one is loaded, 2 inserts given up | when a login gets a second document and how many, and that answers are true |

Bounds.  Two sessions with two drivers and two rides let one hold a row while the
other waits for it, and let the lock orders cross; what holds for more of them is
proved (section 5).  The seeded run has a third ride because the deadlock needs a
driver with one ride to complete and another to accept, and a row still to insert.
Two requests allow a reader and a writer that overtakes it, and, since tasks serve
one request after another, a second reader of what the first left behind.  Three
windows allow a thread to be late from one, and the window after that to be entered;
a limit of two tells `<` from `<=` and a lost count from a kept one.  In the events
run all orders of one ride's events interleave with another ride in the queue; five
processed events against a log of three make the log drop some, and two deaths allow
a repeated event to be processed a third time.  Five logins are one more than the
ints of two bits, so that the counter wraps and numbers come again.  Three POSTs and
two late inserts are five documents of one login, the bound that is checked.

The caps in guards are `LastWindow`, `MaxCrashes`, `MaxRepeats`, `MaxLogins`,
`MaxRestarts`, `MaxDocuments` and `MaxTimeouts`.  Without `MaxCrashes` the consumer
could die before every acknowledgement and nothing would ever be handled; the others
only end the run.  `CHECK_DEADLOCK FALSE` is set where every row can be used up
(TaxiStorage) and where every event may have been handled (RideEvents).

## 4. Fairness

* `WF(Finish(s))`: between statements the C++ code waits for nobody.
* `SF(Acquire(s))`: PostgreSQL queues the waiters of a row and wakes them in order,
  so a row that is released again and again is granted.
* `WF(BreakDeadlock(s))`, in the seeded run only: the detector runs after
  `deadlock_timeout`.  Without it that run has a real counterexample: an AcceptRide
  whose snapshot saw the driver online waits for a ride that a CompleteRide holds,
  which waits for the driver.  On consistent tables that cannot happen, and the
  RideTransactions run (`FairHistorySpec`) does not use the detector.
* `WF(ConsumerStep)` in RideEvents: the consumer waits for nobody, and docker restarts
  it (`restart: unless-stopped`) until the broker answers.
* `WF(Expire(k))` in `TimedRaceSpec`: `steady_clock` passes every `expires_at`.
* No fairness for clients, for failures or for aborts.

## 5. Proofs

`TaxiStorageProofs`, `RideTransactionsProofs` and `RideRefusalsProofs` hold the
theorems about the storage, for any sets of users, drivers, rides and sessions, and
any initial tables that satisfy `InitialTablesWellFormed`; `FixedWindowProofs` those
about the limiter, for any limit, any number of windows and any finite, non-empty
set of threads (`LimiterAssumption`).

* `TaxiStorageProofs`: `TypeOK` is inductive by itself.  `ConsistencyIsStable` is
  shown driver by driver for one step, and `BusyDriversServe` and
  `DriversAreExclusive` follow from it and from `InitialConsistent`.
  `StorageDispatches` maps each step to a step of `RideDispatch`: accepting needs
  `serving[d] = {}`, which is where the status column has to be trusted.
  `ExcessIsBounded` assumes finitely many rides, as it counts them.
* `RideTransactionsProofs`: the invariant is `DbInv`, the conjunction of types,
  `LockHolders` and `TestedRowsHold`.  Atomicity alone is not inductive: that the
  ride is still searching at the commit follows from the lock on it, and that the
  lock is still held from the phases in which it can be.  `DeadlockFree` adds the
  consistency of the tables: a session that completes a ride waits only for a
  driver held by an accepting session, which has seen that driver online under its
  lock, while the ride being completed says that the driver is busy.
* `RideRefusalsProofs`: the history variable is related to the phases; a row that
  matched neither in the snapshot nor under the lock was not possible then.

* `FixedWindowProofs`: `LimiterInv` adds to the types that the bucket never counts a
  request that was not let through for its window; with it a bucket that is full
  proves that the window is used up (`RefusalsAreEarned`).  `ExcessIsBounded` is not
  inductive: how much more a window may let through depends on who is on the way.
  `BudgetInv` budgets one limit for each thread that is not late while the window is
  current (a late thread takes the bucket away, but only once, and then it has spent
  its turn), and one request for each thread still on its way for the window once it
  is past.  The exception in `PastBudgetOf` is needed when all threads are on their
  way and the bucket they come for is full.

* `AuthTokensProofs`, for any sets of users and tasks, any width of the counter, any
  number of logins and restarts: `AuthInv` adds to the types that every token of the
  table carries its user and was issued by this process.  The distinctness of tokens
  needs the counter's value: `NumbersAreFresh` says that after k logins of a process
  the counter is the (k + 1)-th number from 1 round the ints, and that the tokens of the
  table carry the k before it, until the ints are used up.
* `MongoUsersProofs`, for any finite, non-empty set of tasks and any bounds:
  `OrderInv` adds to the types that an insert under way, or given up, has a login
  that none of the documents it has seen had; documents are only appended, so that
  stays so.  `DuplicatesAreBounded` counts: documents, POSTs under way and late
  inserts of one login are together at most the tasks and the inserts given up.  A
  look-up that finds nothing starts the count at zero documents, and that is where
  the bound is won back (`BudgetInv`).

* `CacheRacesProofs`, for any tables, keys and number of requests: that an entry is out
  of date only with a cause is inductive together with `FillsAreCurrent`, since an entry
  is as good as the body its reader held (`RaceInv`).  A key of users is answered from
  the users alone, any other from the rides alone (`ViewDependsOnTable`): that is why
  clearing one prefix after a change is enough.  For logins `LoginsAreFound` adds that
  no body is empty: a 404 is not cached, and a user found once is found for ever.

* `RideEventsProofs`, for any rides and events (`Nil` is none of them), any length of the
  log and any number of deaths and repetitions.  The message in hand is still the
  broker's: with the queue behind it, it makes the sequence `Broker`, which only
  `publish_event` and `basic_ack` change (`BrokerIsFifo`).  `EventsInv` has three parts
  on top of the types.
  - The marks: an event was stored in order or is in `overtaken`, and a message that is
    in `Broker` twice is in `again`.
  - The account (`AccountInv`): a stored event that is not to be worked in any more is in
    its section or a later one.  `AckedEventsAreReflected` is this, with the exception of
    a torn file nobody is writing.  That alone does not tell
    what the next event of the ride will find, so the account goes on: if its section
    is empty, the next event of its ride was stored, and if it is still to do, it is a
    repetition.  Between `OpenFile` and `WriteFile` the account holds of the model in
    memory, since the file is torn.
  - The model (`ModelInv`): what it shows was stored, and an event in `Broker` that is
    earlier than a shown one was overtaken.  With this and the account, one update
    keeps `TwoSectionsOnlyIfOvertaken`, `MissingOnlyIfOvertakenOrRepeated` and
    `LogKeepsOrder`, each of which names the event that is to blame.

  `TypesOfEvents` counts the copies of a message by the places it has in `Broker`.
  Three theorems are about the exception.  `OnlyACutWriteTears`: it arises only when
  `json.dump` fails or the consumer dies inside the write.  `StuckForEver`: nobody
  mends a torn file.  `TornFileBlocksTheQueue`: the event in front of the queue stays
  there.
Every invariant and every action property of a passing run, and both refinements, are
proved.  Only model-checked: `EveryCallEnds`, `OldAnswersRunOut` and `EventsAreHandled`,
as liveness under fairness is out of the prover's reach; of the last, the theorems above
prove the part that is safety.

## 6. Disagreements with the documents

* **Old answers after an invalidation** (`CachedService_cleared`).
  `performance_design.md:40` and `:63` say that the old cache is no longer valid
  after a change and that a GET is answered from an up-to-date entry.  A GET that
  read the rides before the change and calls `Set` after `InvalidatePrefix` leaves
  the old list for up to 15 or 60 seconds.  `StaleOnlyByRace` shows that this and a
  lost acknowledgement are the only causes, `OldAnswersRunOut` that it ends.
* **More than the limit in a window** (`FixedWindow_limit`).  `openapi.yaml:42`
  promises a maximum for the current fixed window.  A thread that computed its
  window before the boundary and takes the mutex after it puts the bucket back to the
  old window, and the next thread of the current window starts that one over with a
  count of zero, so the current window lets more than the limit through while it is
  current.  `BoundedExcess`: at most limit * threads until it ends, fewer than
  (limit + 1) * threads in all.
* **A repetition that loses data** (`RideEvents_redelivered`).
  `event_driven_design.md:128` says that the handler must be ready for repeated
  processing, and `:138` that the read model is updated by `ride_id`, so that repeating
  an event makes no second copy of a ride but just overwrites its state.  The consumer
  saves, dies before `basic_ack`, and `ride.accepted` is delivered again:
  `consumer.py:44` finds the ride no longer active, and `:46` puts the bare payload in
  the place of the merged entry.  `user_id` and the addresses are gone, although the
  events came in order and each was published once.  The second copy that `:138` rules
  out appears too when a producer is run again: `ride.created`, published once more
  after `ride.accepted`, puts the ride back among the active ones, as
  `TwoSectionsOnlyIfOvertaken` allows.
* **At least once, but not for ever.**  `event_driven_design.md:126` and `:128` choose
  at-least-once, with durable queues, manual `basic_ack` and `basic_nack` (`:130` to
  `:136`) to keep it.  `save_read_model` (`consumer.py:28`) truncates the one file that
  has the effect of all the events acknowledged before.  If `json.dump` fails or the
  consumer dies before the write is done, they are all lost, and no event of a ride is
  processed any more.  `AckedIsReflected` names this exception; `OnlyACutWriteTears`,
  `StuckForEver` and `TornFileBlocksTheQueue` prove when it arises and that it does not
  end.
* **No 409 for a login that exists.**  `openapi.yaml:648` documents 409 for a user that
  already exists in MongoDB.  Two POSTs that look the login up before either inserts
  are both answered 201, and so is the repetition of one that was answered 500 and
  whose insert arrives late.  `DuplicatesOnlyByRace` shows that these are the only
  ways, `DuplicatesAreBounded` how many documents there can be.

## 7. Plan and what is not modelled

Done: every part of the inventory that keeps a state, and proofs of every safety
property that a run checks.  What is left to prove are the safety halves of the two other
liveness properties: that a call has finitely many steps to its end
(`EveryCallEnds`), and that nothing but a request puts an old answer into the cache
(`OldAnswersRunOut`).

Not modelled:

* `UpdateDriverStatus`: no handler calls it.  A handler that did would set a driver's
  status without a look at its rides, and `BusyIffServing` would not survive it;
* wiring and configuration (no behaviour after start) and value types (they are the
  rows); example queries and functional tests;
* request parsing and response headers: they keep no state.  `std::stoi` of a path or
  query id that is no number throws, and the answer is 500 where 400 is documented;
* a client that repeats `POST /rides` after a lost answer: the second ride is a
  ride like any other to the service, which has no key to tell;
* the cache's hit and miss counters (nothing reads them) and its memory, which grows
  with the distinct masks asked for;
* a system clock that is set back across a window boundary;
* the two queues nobody reads, and `event_id`, which nothing looks at.
