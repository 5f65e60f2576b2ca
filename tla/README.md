# Booking service: TLA+ models, checks and proofs

SMC-BookingService books car washes. Clients ask which slots of a day are free,
book one and cancel it again; managers of a company configure slots and boxes.
One Go process serves HTTP, keeps two tables in PostgreSQL and asks two other
services, SellerService (companies, addresses, services, opening hours) and
UserService (the user's car). This directory models the parts of it that decide
something, checks them with TLC on small instances and proves their safety
properties with TLAPS for every instance.

Paths below are relative to the repository.

## 1. The system

| Component | State | Operations | Hard behaviour | Correct when |
|---|---|---|---|---|
| Create-booking use case `internal/usecase/create_booking` | none of its own | `Execute`: clock, three remote calls, then in a serializable transaction: hierarchy lookup, rules, `SELECT ... FOR UPDATE`, count, `INSERT` | concurrent requests for the last box; failing statements, commits, process | never more cars than boxes, no wrong refusal, answer and table agree, notice and horizon kept |
| Available-slots use case `internal/usecase/get_available_slots` | none | `Execute`: remote calls, lookup, slot loop, filter, count | runs in no transaction beside bookings and PUTs; the loop works on times of day that wrap | the slots are the grid, places are those left, what is offered can be booked, every call ends |
| Bookings service `internal/service/bookings` | none | `Cancel`, `UpdateStatus`, reads | reads, asks SellerService, writes by id, in three separate steps | freed places stay free, only owners and managers act, status and reason belong together |
| Slot configuration service `internal/service/config` | none | `Create`, `Update`, `Delete`, `DeleteByKey`, reads | read, remote call and write are separate; rows may vanish or change in between | limits hold, one row a level, only managers write, an update hits the row and the fields it names |
| Readers of bookings `internal/handlers/get_booking`, `get_user_bookings`, `get_company_bookings` | none | `GetByID`, `GetUserBookings`, `GetCompanyBookings` behind the middleware `Auth` | SellerService is asked before or after the statement, while bookings change | an answer was true at one moment; who is neither owner nor manager sees a booking in its owner's history only, which is open to anybody |
| Booking repository and table `internal/infra/storage/booking` | `bookings` | insert, two updates, filtered select with or without `FOR UPDATE` | row locks, snapshots | |
| Configuration repository and table `internal/infra/storage/config` | `company_slots_config` | four statements of the hierarchy, insert, update, deletions | lookup level by level | the most specific row wins |
| Transaction managers `pkg/txmanager`, `pkg/simpletxmanager`, `pkg/dbmetrics` | the transaction in the context | `DoSerializable` | the simple manager does not pass the transaction on | the use case's isolation is really there |
| Connection pool `database/sql`, sized in `cmd/main.go` | connections in use, requests that queue for one | take, give back | all connections held by those who wait for another; row locks held by those who wait for a connection | nothing leaks, waiting is never circular |
| Configuration file `internal/config` | the settings | `Load`: decode, override, validate | a setting may be absent, wrong or overridden in either source | what is loaded can be used |
| Process life `cmd/main.go` | starting, serving, draining, gone | start, signal, graceful or forced shutdown | a signal while requests wait for each other | a signal ends it |
| Times of day `pkg/types/timeString.go` | none | add, compare | wraps at midnight | |
| SellerService and UserService clients `internal/integrations` | none | GET with error mapping | not found, failed | |
| Metrics, logger, query builder, pointers | none the program decides by | | | |

How they interact: `cmd/main.go` wires one database, chooses the transaction
manager by whether metrics are on, and routes POST and GET of bookings, PATCH
of a cancellation, GET of available slots and PUT and GET of a configuration.
Clients are told of failures by a status only; nothing lets the service see
that two POSTs are one wish sent twice.
`UpdateStatus` and the configuration's `Create`, `Delete` and `DeleteByKey`
exist but have no route. Components share nothing but the two tables and the pool; the only
concurrency control is the transaction of POST, PostgreSQL's row locks and the
unique indexes of migration 000002. All the rest is read, decide, write.

## 2. Modules

| Module | Models | Role |
|---|---|---|
| `TimeOfDay` | `timeString.go` and the overlap test both use cases share | operators |
| `BookingStatus` | statuses and predicates of `domain/booking.go` | operators |
| `ConfigHierarchy` | levels, table and lookup of configurations | operators |
| `BookingTable` | the bookings table and the statements on it | operators, `bookings` |
| `BookingRules` | `validation.go`, the early returns of `Execute`, the handler's statuses | operators |
| `CreateBooking` | POST /bookings run by many requests, both transaction managers, PostgreSQL, faults | state machine |
| `BookingClients` | clients who send a POST again, beside cancellations and PUTs | `BookingService` extended |
| `BookingLifecycle` | Cancel and UpdateStatus | state machine |
| `BookingService` | POST, cancel and the UPDATE of PUT together, on one database | composition |
| `SlotLedger` | what POST and cancel promise: admission in one atomic step | abstract specification |
| `BookingReads` | the three readers beside a `SlotLedger` and the calls of `BookingLifecycle` | composition |
| `AvailableSlots` | GET available-slots beside a `SlotLedger` and configuration updates | composition |
| `SlotsConfig` | PUT from its handler on, Create, Delete, DeleteByKey | state machine |
| `ConnectionPool` | what every routed operation asks of the pool, and row locks as far as they are waited for | state machine |
| `AppConfig` | `config.go`: Load | state machine |
| `Server` | the process around `ConnectionPool`, with the settings of `AppConfig` | composition |
| `CreateBookingProofs` | | what a step of a POST does, and the inductive invariant of `CreateBooking` |
| `BookingServiceProofs` | | `BookingService`: types, window, dates, capacity, answers, refusals; it implements `SlotLedger` |
| `ClientsProofs` | | `BookingClients` |
| `ReadsProofs` | | calls of `BookingLifecycle` and reads, in `BookingReads` |
| `SlotsProofs` | | `AvailableSlots` |
| `ConfigProofs` | | `SlotsConfig` |
| `ServerProofs` | | `ConnectionPool` alone and in `Server`, and `AppConfig` |
| `RulesProofs` | | lemmas on times, rules and the hierarchy that the others share |
| `MC...` | values for TLC | |

### How state and actions correspond to the code

*Time.* A `TimeString` is a minute of a day, `AddMinutes` works modulo the day
as the code does by parsing every string into the same date. The day has 8
ticks in the runs and any positive length in the proofs. A moment of the clock
is a day and a minute in the server's zone; `ZoneOffset` is its distance from
UTC, in which dates of bookings are parsed.

*Rows.* A POST inserts at most one row, so the row is named after the request
and what never changes in it (user, address, date, start) is the request's body;
`bookings[r]` holds duration and status. A configuration belongs to a level, an
address or `Null` and a service or `Null`; the unique indexes make the table a
function of levels. Only one company is modelled: no statement relates two.

*POST.* `pc[r]` moves idle, begun, configured, counted, inserted, done. The
actions: `Receive` (clock, remote calls, BeginTx or an early return),
`ReadConfig` (first query, hence the snapshot; all rules), `ReadBookings`
(`FOR UPDATE`, count, room), `SlotNotAvailable` (409), `Insert`, `Commit`.
With `TxInContext = FALSE` the same actions model `simpletxmanager`: no
snapshot, no locks, the INSERT is visible at once.

*PostgreSQL* is external: `AtBookings` waits for rows locked by others,
`FailLock` is "could not serialize access due to concurrent update", a row
changed since the snapshot. `FailCommit` is serializable isolation: of two
transactions that read the rows of one address and date and insert among them
the second to commit fails. Real serializable isolation may also fail others;
`DbError` covers that. Row locks are taken by one step for all rows of the
statement, so a deadlock inside one `FOR UPDATE` between two statements that
lock in different orders is not modelled (PostgreSQL would abort one of them,
which is `DbError`).

*Faults.* `DbError` is any statement, BeginTx or COMMIT failing, or the client
going away; `CommitUnknown` a COMMIT that took effect without the server
learning of it, or whose response is lost; `Crash`/`Restart` the death of the
process, with PostgreSQL rolling back.

*Cancel and UpdateStatus.* `ReadBooking` (GetByID, `CanBeCancelled`, owner),
`CheckManager` (SellerService), `WriteStatus` (UPDATE by id). In the whole
service an UPDATE waits for a transaction that holds the row (`RowFree`). Who calls is the
`userId` of the body, as it is for POST and PUT: so it is documented, but nothing
authenticates it or compares it with `X-User-ID`. "Owner" and "manager" in the
properties are therefore whom the body names.

*Reads.* One read, which writes nothing others could see: `ReadArrives` (`Auth`,
then the part of the handler up to its statement, `GetBooking`,
`GetUserBookings` or `GetCompanyBookings`, with parsing and status filter),
`ReadOne` or `ReadList` (one statement), `AskManagers` (SellerService). Around it `BookingMade` admits as
POST does, by `LedgerImplemented` in one step, and `BookingChanged` is a step of a
call. The order of a list is left out. Bound: `ReadPending`, the table is not
followed beyond the answer. `DayBookings` are those whose cars the default list
must not show in excess: bookings that run into midnight are left out, as in
`CapacityRespected`, and those `UpdateStatus` is called for, which counts no cars
and has no route.

*GET available-slots.* One call, because it writes nothing another one could
see; `AppendSlot` is one round of the loop of `slots.go`, `LookUp` one SELECT
of one level. Around it the ledger books and cancels and configurations change.

*Edits of configurations.* `editPc[e]` is one statement or remote call each.
A row has an id, so a row deleted and made anew is another row.

*Clients.* `Tries[k]` are the requests client `k` may send, all with one body
and each request in one place only, as every POST is a request of its own;
the next is sent when the last was answered 500 or not at all, or, if
`Impatient`, while the last is still being served. Cancellations and updates of
the configuration go on beside them, as in `BookingService`. A request is a
mishap when a fault crossed it or another service failed it. What is left of
500s are the serialization failures: of COMMIT, when another booking was made,
and of FOR UPDATE, when a counted one was cancelled.

*The pool.* `Scripts` lists for each handler its remote calls and statements in
order, `pos[op]` is where an operation is in it. `running` are those with a
connection for one statement, `begun` those whose transaction keeps one,
`waiting` the queue of `database/sql`, `locked` the transactions with rows
`FOR UPDATE`, `failed` the transactions whose function returned an error. Which
rows a transaction locks is left out: the worst case, that all want the same, is
the one modelled. `database/sql` and PostgreSQL's locks are external.

*The process.* `stage` is where `Load` is, `phase` where `main` is. A setting
is told by its class: texts that must be given, texts with a default, ports,
limits, the switch of the metrics. Bound: `Followed`, the starts that are
followed beyond Load. `cutOff` are operations that died with the process.

*Auxiliary variables.* `rank` (order of commits), `offered` (box counts an
address has ever had), `unknown` (commits nobody learned of), `inForce`
(configurations in force since a lookup began), `moments` (contents of the table
since a read arrived), `abandoned` and `mishaps` (requests not waited for, or
crossed by a fault). Properties read them, the service's steps do not.

## 3. Runs

| Run | Instance | Shows |
|---|---|---|
| `service_capacity` | three requests for overlapping minutes, two services, two configurations, a manager's cancellation; failing statements, failed and unacknowledged commits and crashes around the requests (the cancellation's own calls do not fail here, `CallsMayFail` is FALSE) | types; never more cars than boxes (`CapacityRespected`), each admission within its own limit (`AdmittedWithinLimit`), answers match the table, counted rows are held, refusals justified, and the service implements `SlotLedger` |
| `booking_rules` | two requests on two days, six moments over three days, every answer of the other services bad once, every level configured alone | notice and horizon are kept; dates are refused only for cause |
| `available_slots` | two bookings coming and going, two configurations changing, four kinds of dates, hours with and without room before midnight, bad answers | grid, places, offers that POST accepts, a configuration that was in force, calls end for safe hours |
| `slots_config` | three calls at once out of eight PUTs, Creates, deletions, three tables, failures | limits, one Create wins, only managers, a PUT hits its row |
| `booking_reads` | two requests for one box, a booking of another day; owner, manager and stranger cancel the first, the manager completes the third; fourteen reads (of one booking, of a history by its owner and by a stranger, of the company's list, malformed ones of each kind); failures | what is answered was true at one moment, strangers see a booking in its owner's history only, no list shows more cars than boxes; a freed place is not taken back by Cancel, reason and status come from one call, who is told so finds it cancelled, only the entitled write |
| `retrying_clients` | a client with three tries and no patience, two boxes, a rival for the slot that touches his who may cancel; failing statements and commits, kills, a UserService that fails and a company that closes before the last try | a double booking only after an answer nobody got, serialization failures cost no more tries than bookings are made and cancelled, every request ends |
| `server` | the shipped file with any one setting changed, under an environment with any one variable set; one of these starts is followed: metrics off in the file and on by the environment, two connections, two bookings, a cancellation and GET available-slots, any failure, signals and kills | what Load accepts can be used and what it refuses is wrong; nothing of the pool leaks, waiting is never circular, nothing stays at the database for ever, a signal ends the process |

Three requests are the least for which one can stand between two others, and
two suffice to break capacity; one box and two boxes cover "full at once" and
"full after one", where locks are held. Two configuration values suffice to be
changed while in use. Eight ticks hold two slots that overlap partly, touch, or
are disjoint, and one that runs into midnight. One address: statements filter by
address and date, and requests for another one never meet. Three edits are one
that reads, one that deletes and one that makes the row anew. Two transactions
and two connections are the least for which both can be held by those who wait,
and a cancellation is what waits for a row while it has a connection of its own.
`server` follows starts with metrics on only (`TxInContext` is TRUE from Load
on); the other manager is `pool_exhausted`. A rival's booking may cost a
client one try and its cancellation another, so three are the least for which
`TryingAgainHelps` demands an answer of the last.
A setting depends on no other one, so changing one in the file and one in the
environment covers every pair of sources.
Every property has been seen to fail for a plausible mistake in the code: those
mutated definitions stand next to the real ones, marked "Mutant".

`CHECK_DEADLOCK FALSE` is set since requests and calls are finite in number:
when all have been answered nothing is left to do. `slots_config` uses symmetry
of the calls, which are interchangeable as each may be asked anything; it checks
no liveness.

### Runs that find a violation

| Run | Statement of the repository | What the code does |
|---|---|---|
| `simple_manager` | `usecase.go:47`: a serializable transaction against races | with metrics off `simpletxmanager/txmanager.go:49` passes the old context on, and both requests get the last box |
| `pool_exhausted` | `TEST_PLAN.md:667,686`: 50 bookings at once, answered within 500 ms | with metrics off each booking keeps the connection of its empty transaction (`simpletxmanager/txmanager.go:33`) and asks for another; with as many bookings as connections (25 in `config.toml`) all wait for ever |
| `night_capacity` | migration 000002, line 62: maximum of simultaneous bookings | the end of a booking that reaches midnight wraps, it overlaps nothing |
| `endless_slots` | `slots.go:47`: a slot may not pass the closing time | with closing time 23:59 the next start wraps and the loop never ends |
| `lost_update` | `service/config/service.go:195`: only the given fields are updated | all columns are written as read earlier |

Each has a small instance of its own and no faults; `endless_slots` is a lasso
inside the loop under weak fairness of the call's own steps, `pool_exhausted`
one in which both transactions queue, under that of `PoolSpec`.

Disagreements noticed while reading, for which there is no run (`TC-` numbers are
those of `test_data/TEST_PLAN.md`):

- `TEST_PLAN.md:603-604` expects one 201 and one 409 of two requests for the last
  place. The loser's serialization error is wrapped (`txmanager.go:90`) and
  answered 500.
- TC-8.3 (`TEST_PLAN.md:522-535`) expects PUT to make the most specific
  configuration; it updates whatever row the hierarchy finds, the company's
  if need be.
- `UpdateStatus` (`service/bookings/service.go:219`) writes any status over any
  other and may revive a cancelled booking whose place was given away;
  `CanBeUpdated` has no caller, and `UpdateStatus` no route.
- TC-5.4 (`TEST_PLAN.md:357-361`) expects 403 for somebody else's history;
  `get_user_bookings/handler.go:30-67` and `service/bookings/service.go:62-84`
  never compare the caller with the `userId` of the path, so anybody is shown
  anybody's history. `StrangersSeeHistoriesOnly` says what remains hidden.
- TC-2.7 (`TEST_PLAN.md:184-189`) expects 400 for a user without a selected car;
  POST answers 404.
- TC-4.2 (`TEST_PLAN.md:291-296`) expects the reason null where none is given;
  `cancel_booking/models.go:14-18` makes it the empty text, which is stored.
- TC-7.6 (`TEST_PLAN.md:480-482`) expects 404 for the configuration of a missing
  company; GET never asks SellerService and answers 200 with the defaults.
- TC-8.6 (`TEST_PLAN.md:556-567`) expects 400 for an address of another company;
  PUT never checks the address and updates the row the hierarchy finds, the
  company's if need be.
- TC-6.8 (`TEST_PLAN.md:428-431`) expects 404 for a missing company; the list of
  bookings answers 500.
- TC-6.4 (`TEST_PLAN.md:401-406`) filters by `startDate` and `endDate`, which
  the handler never reads.
- Late in the evening the earliest allowed time wraps and the notice is
  forgotten (`create_booking/validation.go:87`); `WithinBookingWindow` says it
  only for a notice that ends before midnight.
- On a server whose zone is east of UTC, dates are refused or let through a day off
  (`validation.go:60-67,191`); `DatesRefusedRightly` says it only for UTC.
- The clock is read before three remote calls and the transaction
  (`create_booking/usecase.go:59`): a booking may be confirmed when its notice
  has run out meanwhile. The window is stated from the moment of the clock.
- TC-1.10 expects an empty list for a past date; GET answers 500, since
  `ErrInvalidDate` and `ErrDateTooFarInFuture` have no case in its handler.
- TC-2.12 expects 400 for a booking outside the opening hours; POST only asks
  whether the company is open that day, not when, nor for the grid.
- A second cancellation that was already past its check rewrites reason and
  time of the first.
- `validateConfigData` allows slots of one to four minutes, the table's CHECK
  does not: the client gets 500.
- A `METRICS_ENABLED` that does not parse is ignored without a word
  (`config.go:131`), and with it the choice of the transaction manager falls to
  the file.

## 4. Fairness

Only steps that do not fail are fair: an operation may fail, but that it ends
never rests on a fault that comes to its rescue. Nothing obliges a client to
send a request or to try again, a manager to change a configuration, another
service to answer, or a fault to happen.

- `CreateBooking` and `BookingClients`: weak fairness of each request once it is
  in its transaction (`RequestProgress`). net/http runs every accepted request to
  its end in a goroutine of its own, PostgreSQL queues those that wait for a row
  lock and wakes them.
- `ConnectionPool`: weak fairness of each operation's steps at the database
  (`Proceed`); a remote call may take for ever. `Server` adds the timer of
  `shutdownCtx` and that `main` returns when `Shutdown` does.
- `AvailableSlots`: weak fairness of the call's own steps (`CallProgress`);
  bookings and updates around it are not fair.

`BookingService`, `BookingLifecycle`, `BookingReads` and `SlotsConfig` state
none: what is said of them is safety. `RequestsEnd` of `retrying_clients`, where
clients add requests, others cancel and the process may die, says that from some
moment on no request is in a transaction (requests are finitely many); that nobody waits for ever for a connection or a row,
cancellations and reads among them, is `DatabaseAnswers` of `server`.

## 5. Proofs

Everything is proved for any requests, bodies, calls, configurations, clock
values, zone, length of the day and faults, from the assumptions named in the
modules: finitely many requests, configurations with positive durations and
boxes and a default among them, bodies as decoding leaves them, and, in
`BookingService`, cancel as the only routed call on a booking. Each invariant and
action property of the passing runs is a theorem. Hypotheses beyond the
specification appear in the statements:

- `TxInContext`, metrics on, for capacity, answers, counted rows, the refinement
  and what clients may conclude. The run `simple_manager` shows it is needed.
- `Configured`, for edits of configurations: the tables to start from keep the
  limits, addresses and services are finitely many.
- `WithinBoxes(Parked)`, for `ListedWithinBoxes`: the table to start from has no
  more cars than boxes, which is what capacity says of a table POST has made.
- `NothingOvernight` and `[]PutsOfARowInTurn`, under each of which a statement of
  the repository holds that a run refutes without it (`night_capacity`,
  `lost_update`).

### POST and cancel: `CreateBookingProofs`, `BookingServiceProofs`

`TypeCorrect`, `Spec => []TypeOK`. `TypeOK` is not
inductive: Cancel writes by id, and writing to a row that is not there would
make a table that is none. `TypeInv` adds `CallsFoundRow`, that a call past its
read has a row, which holds because nothing in the routed service deletes rows.

`WindowKept`, `Spec => WithinBookingWindow`, is about the comparisons of times of
day in `ReadConfig` and the date of a COMMIT steps later: `RulesInv` says that
a request past its first query has passed all rules with the configuration it
still works with. `DatesRefusedForCause` rests on `UnansweredInv` (no answer
before the first query) and on the analysis of the early
returns: a 400 at the first query has a first rule that failed, and the others
are excluded.

`CapacityAlways`, `AdmissionAlways`, `AnswersAlways` and `CountedRowsAlways` are
each of the form `TxInContext /\ Spec => []...`. The inductive invariant is
`ServiceInv == TypeInv /\ CreateInv /\ CancelInv`. `CreateInv`, which the clients
of `ClientsProofs` share, says of each request:

- `AnswerInv`: it has a row exactly if it was answered 201 or its commit is of
  unknown outcome, and has neither before it ends. So a commit adds a row that
  no snapshot has seen.
- `SnapshotInv`: its snapshot ages in one way only. Rows it knows keep their
  duration and can only become inactive; rows are only added.
- `CountInv`: from the count on, the rows counted are locked and unchanged, and
  there was room. This is where row locks are needed: an UPDATE waits for them.
- `OfferInv`, with `Boxes(configs, a) \subseteq offered[a]`: its limit has been
  in force at its address. A PUT only adds to what has been offered.

`RankInv` puts a new row last in the order of commits. `CancelInv` says that
what Cancel writes makes a row inactive, so cancellations only take cars away.
`RequestEffect` sorts every step of a request into six kinds (`Ends`, `Begins`,
`Configures`, `Counts`, `Inserts`, `Commits`), so each conjunct has to be shown
for six and not for a dozen.
The heart is `CountedAll`: at a commit without serialization conflict the rows
that stand in the way in the table are exactly those counted in the snapshot,
hence fewer than the limit. With `OverlapSeen` (for intervals that end before
midnight the test on wrapped times sees every shared minute) that gives
admission, and admission gives capacity: the last of the cars at one minute
found all the others.

`CapacityWithinTheDay`, `NothingOvernight /\ TxInContext /\ Spec =>
[]CapacityAcrossMidnight`: where no slot length of any configuration carries any
request's start to midnight, capacity has no exception. `LengthsInv`
says that what is stored is as long as the slots of some configuration, so every
active booking is one of those that `CapacityRespected` counts. The end of the
day is therefore the only hole that `night_capacity` shows.

`RefusalsAlways`, `Spec => RefusalsJustified`, holds under either
transaction manager. It needs only `TypeInv` and the other direction of the
overlap test, `OverlapTrue`, which holds even across midnight: whatever the
test counts does share a minute. `LedgerImplemented`,
`TxInContext /\ Spec => ImplementsLedger`: `ReadConfig` maps to `Quote`,
`SlotNotAvailable` to `Refuse` (the rows counted in the snapshot still stand),
`Commit` and `CommitUnknown` to `Book` (by `CountedAll`), `WriteStatus` to
`Release`, and every other step leaves the ledger alone.

### Clients: `ClientsProofs`

`ClientsTypes` needs no hypothesis. `TriesAreRequests`, `ClientsSpec => Spec`,
says that what clients do is a run of the service: tries are requests like any
others, so all that holds of the service holds of them. `ClientsInv` adds to
`ServiceInv`:

- `BooksOK`: what clients remember has its type.
- `EndInv`: only a mishap leaves a request without an answer.
- `TriesInv`: a try followed by another one was given up, and later ones have
  not begun. With `AnswerInv` this is `NotBookedTwice`: a try that was given up
  and has a row has an unknown commit or was abandoned, since what the service
  itself answers 500 has no row.
- `FailuresInv`: a client has no more undisturbed failures than the table has
  seen changes, and, while a try works on a snapshot, no more than that snapshot
  has. `Changes` counts each row once when it is stored and once when it has
  turned inactive; as rows are never deleted nor revived (`Ages`, `TableAges`),
  it only grows (`ChangesGrow`). The second half is what makes the first inductive:
  where nothing fails, 500 is a serialization failure (`ConflictOnly`), of COMMIT
  or of FOR UPDATE, and each means that the table holds a change which the
  snapshot does not show, a row more or a row turned (`ConflictIsChange`). So one
  more failure has one more change to answer for it. `TriesAreBounded` follows:
  with more tries than bookings were made and cancelled not all can have failed.

`RetriesWithinCapacity`: capacity, admission and answers hold with retries as
without them.

### Reads: `ReadsProofs`

`ReadsSpec => ...`, without hypothesis but for the lists. `CallsInv` says what a
call of Cancel or UpdateStatus knows between its read and its write: its row
exists, what it will write follows from who calls, and who calls is entitled. From
it follow `ReasonsMatch`, `CancellationsHold`, `PlacesStayFree` and
`OnlyEntitledChange`. `ReadInv` and `MomentInv` say that what a read has found so
far is what one of the recorded moments held; `AnswersTrue` and `StrangersSeeLittle`
follow, whatever happens while SellerService is asked.

`ListsWithinBoxes`, `WithinBoxes(Parked) /\ ReadsSpec => []ListedWithinBoxes`. A
list is one statement, so it is within boxes if the table is, and the table
is kept so by admission: `BoxesInv` says so of `Parked`, the active bookings of
the day, and that the default list shows none but active ones. `BoxLeft` is the
step that matters: who books has found fewer cars in the way than its
configuration has boxes, and every car that is there when it comes is in the
way. The bound is said of the minutes at which a wash begins, since the most cars
are there at one of these. For the newcomer's own, and for each beginning that
its wash covers, all who are there then share that minute with it, so it has
counted them.

### Slots: `SlotsProofs`

`SlotsSpec => ...` without hypothesis. `LookupInv`: levels already
tried have no row, because an UPDATE makes none, so the row found is the one in
force, or was when it was read. `LoopInv`: after `n` rounds the loop stands at
opening plus `n` durations and has those slots; `FitsPlainly` shows that for
hours that leave room before midnight (`ClosesInTime`) the test on wrapped times
is the plain one. `GridAlways` is that at the end of the loop. `SpotsAlways` uses
both directions of the overlap test, and `OffersHold` that the two copies of the
rules agree where an offer is made.

### Edits of configurations: `ConfigProofs`

Everything under `Configured`. `EditInv` says of
each call that what it holds to be written has been validated and has the values
it was asked for, and that past SellerService its caller is a manager. A write
goes by id, so a row deleted and made anew is not hit by a PUT of the old one
(`PutHitsItsRow`). `CreatesInv` says that a Create which succeeded has its row
unless something was deleted, which makes `OneCreateWins` inductive.

`NamedFieldsOnly`, `Configured /\ ConfigSpec /\ []PutsOfARowInTurn =>
OnlyNamedFieldsChange`: if no PUT writes a row that another PUT has read and not
yet written, the comment of `Update` is true. `FreshInv` says that what a PUT
holds is its row with its fields applied. Creates and PUTs of other
rows leave that alone, as no two rows have one id (`IdsUnique`) and the sequence
gives no id twice; a deletion takes the row away, and the PUT then finds none. So
two PUTs of one row are the only way to lose an update. `FreshInv`, `IdsUnique`
and the property itself were also seen to hold in the instance of
`slots_config`, restricted to states with `PutsOfARowInTurn`.

### The process: `ServerProofs`

The properties of the pool hold under `PoolSpec \/ ServerSpec`, for any number
of operations and connections: `Server` adds kills and shutdowns, which only end
operations. `PoolInv` bounds the pool and says that nobody queues beside a free
connection (`PoolWellUsed`, which is `database/sql`'s doing and so only a step of
the proof), what each operation may hold at each step, and that at most one
transaction holds rows. `NeverCircular`: if all connections were held by
transactions that wait for another, there would be as many transactions as
connections, which `PoolLargeEnough` excludes; and who holds rows waits for
nothing. `LoadedIsUsable` and `RefusedForAReason`, under `ServerSpec`: `LoadInv`
follows the settings through the stages of `Load`: those of the file until the
environment has had its say, those given by either until the checks, and after the
checks and the defaults only usable ones.

`RulesProofs` has the lemmas several modules need: the overlap test, the first
of the failing rules, dates and zones, the notice, the hierarchy.

### What stays with TLC

Liveness: `RequestsEnd`, `SafeHoursAnswered`, `DatabaseAnswers`, `ShutdownEnds`.
With fairness and ENABLED they are out of the prover's reach.
`TriesAreBounded` and `NeverCircular` are the safety halves of two of them.

## 6. Not modelled

- HTTP, JSON, SQL text, logging, metrics: wording and transport. Of the query
  string and the header only whether they parse.
- The order of lists, and `FOR UPDATE` of rows in an order that could deadlock
  two transactions (PostgreSQL aborts one, which is `DbError`).
- The clock during a request: it is read once and time does not pass in the model.
- The reads of the configuration service; they look the hierarchy up as
  `SlotsConfig` and `AvailableSlots` do and change nothing.
- More than one company: no statement relates two.
- Lifetimes and the idle limit of connections: a connection replaced by another
  is the same connection here.
- Dead code: `Do`, `DoReadOnly`, the repository's `Delete`,
  `GetUserIDsByCompanyID`, `GetSelectedCarWithGracefulDegradation`.

## 7. Plan

1. A clock that moves during a POST, and what can then be said of the notice.
2. GET's answer as a refinement of a reading in one step, where nothing is
   booked or configured meanwhile.
3. The configuration service against a table with atomic edits: under
   `PutsOfARowInTurn` each PUT is one edit of one row (`NamedFieldsOnly` and
   `PutHitsItsRow` are its two halves); as a refinement it needs the lookup of
   the row to be part of it.
