# MovieHub: models and proofs

This directory holds TLA+ modules of MovieHub, the TLC configurations that
model-check them, and theorems about them that TLAPS checks. It describes the
code in `src/`; paths below are relative to it.

Contents: [the system](#1-the-system) · [how the modules relate to the
code](#2-the-modules-and-the-code) · [runs](#3-what-is-model-checked) ·
[proofs](#4-what-is-proved) · [divergences](#5-divergences-read-off-the-models) ·
[what is not modelled](#6-what-is-not-modelled) · [plan](#7-plan)

## 1. The system

MovieHub sells cinema tickets. A gateway (HTTP and WebSocket) stands before four
NestJS services, each with its own PostgreSQL database; they call each other over
TCP and share one Redis for pub/sub, locks and expiring keys. The deployment runs
two replicas of every service (`infra/docker-stack.yml`).

| Component | State it keeps | Operations | Hard because |
|---|---|---|---|
| Seat holds (`cinema-service/realtime`, gateway relay) | Redis keys of seats and of users' listings with TTLs; `SeatReservations` | hold, release, booked, showtime switch, expiry | pub/sub handlers are not awaited: check and write are separate Redis commands; two keys per hold with separate clocks |
| Bookings (`booking-service/booking`) | one row per booking: status, payment status, window, price; tickets; points, promotion | create, update, cancel, admin status changes, refund, reschedule | the row is written by five operations that read it first; only one of them checks the state machine |
| Payments (`booking-service/payment`) | one row per booking, method and amount; provider references | create, zero-amount, callback (IPN), admin void | duplicated, late, lost callbacks; timeouts of adapters; status checked, then updated by id |
| Reconciliation | a Redis lock; reads and writes payments and bookings | a run every minute over the 200 oldest unsettled rows | stale batch; races callbacks; rows never settled fill the batch; the only way for a lost callback to be made up for |
| Webhook replay guard | Redis keys `SET NX` | mark, freshness | the mark precedes the work |
| Notification outbox | a table of rows with status and attempts | enqueue, poll every 5 s, purge | polls overlap; crash between claim and outcome |
| Refunds, vouchers | refund rows, promotions | create, approve, reject, voucher | re-check without a lock; two databases |
| Tickets | rows with status | validate, use, cancel | use is unconditional |
| Loyalty, promotions | balances, usage counters | earn, redeem, validate | compare, then decrement |
| Showtimes, halls, cinemas | showtimes with their hall and interval, reservations of their seats, statuses | create, batch, update, cancel, delete hall or cinema | conflict check, then insert; count of sold seats, then delete; cascades |
| Staff and Clerk sync | staff rows, a task table, the external directory | change of a member, enqueue, a run every 10 s, webhook | retries out of order; calls whose answer is lost; a key that stays unique for good |
| Users, roles | assignments, grants, a cache of permissions | assign, remove, replace grants, read | no uniqueness of assignments; a cache filled after the read; the last administrator |
| Backup, scheduler | history of backups, a flag and a timer in memory | manual, scheduled, restore, cleanup, change of schedule | the timer is set by the cycle it started; errors and restarts during a run |
| Web client: seat map | what the map shows, the selection, a socket | load, click, events | the page is read in three requests and then changed by events |
| Movies, concessions, gateway filters and proxies, other web pages | CRUD tables, filters, UI | | no protocol |

How they interact: a customer holds seats over the WebSocket (gateway → Redis
pub/sub → cinema service), which tells everyone of the showtime. The client asks
for a *blank booking* (`createBooking`); when the customer goes on to pay,
`updateBooking` asks the cinema service which seats the user holds and turns them
into tickets and a price, with a window (`expires_at`) taken from the TTL of the
listing. A payment row is created and a provider asked for a URL; the provider
calls back. The transaction of the callback completes the payment, confirms the
booking and its tickets, counts the promotion and enqueues the mail; afterwards
`booking.confirmed` is published, and the cinema service consumes the holds and
creates the reservations. A payment whose callback never came is settled by the
reconciliation job.

Correctness, per component: a seat has one holder, holds expire and stay within
the limit; a booking and its payments agree and move along their state machines;
a settled payment is never reopened, and a paid one that has a place in the reconciliation is settled at last; a
promotion counts once; a confirmed booking has valid tickets; what was paid is
given back once, and only what was paid; seats are released by the booking that has
them; a used ticket stays used; a notification is
retried within its limit, is not left behind and is not sent after it was
completed; a hall shows one film at a time, and a showtime that was sold is kept; a
seat map shows what the server has; the directory follows the staff, and a cached
permission the roles; an administrator remains; backups exclude each other and go on.

## 2. The modules and the code

Every `await` of a handler is a point where others run. A handler is a slot
`h \in Handlers` with a control state `pc[h]` (the await it has reached) and its
local variables; one action is what happens between two awaits, or the commands
of one `Promise.all` or of one transaction. Handlers may die at any await
(`Abort`, `Die`). `map` in `PROJECT.json` names the lines of every definition.
Definitions with the comment *Mutant:* are plausible bugs; no specification uses
them. They exist to check that every property can fail.

### SeatHold and SeatLock

`cinema-service/src/app/realtime/realtime.service.ts`, with the creation of
reservations in `resolve-booking.service.ts`.

| Variable | In the code |
|---|---|
| `holder`, `seatTtl` | `hold:showtime:{st}:{s}`, its value and its TTL |
| `listing`, `listTtl` | the set `hold:user:{u}:showtime:{st}` and its TTL |
| `reserved` | `SeatReservations` |
| `pc`, `job` | handlers in progress |
| `late`, `crossed` | history: handlers about to hold a seat that was taken since they found it free; users who got a hold while another handler of theirs relied on what it had read of their sessions |

The hold handler is `ReceiveHold`, `ReadSessions`, `ReadOldSeats`,
`ClearOldSeats`, `DropOldSession` (the switch of showtimes), `CheckLimit`,
`CheckSeatFree`, `WriteHold`; release and booked are `ReceiveRelease`,
`ReceiveBooked`, `ReleaseSeat`, `ConsumeSeat`, `CheckRemaining`, `DropListing`,
`CreateSeatReservations`. `Tick` is the clock of Redis. The events the handlers
publish change no state of the service and are comments at the step that sends
them. `SeatLock` is the abstract promise: a seat is a lock that passes from one
user to another only by being free. A step of the module is a step of the code (`Step`)
with its history (`Record`). Handlers of two replicas overlap freely; `late` and `crossed`
mark the two ways in which that defeats a check, and `SeatIsLock` and `OneListedSession`
say that everything else keeps the promise.

### BookingPayment, BookingPolicy, PaymentPolicy

One booking and all its payments: `booking.service.ts`, `payment.service.ts`,
`payment-reconciliation.service.ts`, `webhook-replay-guard.service.ts`, the two
adapters, and the approval of `refund.service.ts`.

| Variable | In the code |
|---|---|
| `status`, `payStatus`, `window`, `due` | the `Bookings` row: status, payment_status, whether `expires_at` lies ahead, final_amount |
| `tickets` | whether the booking has tickets, and whether they are VALID |
| `promoUses`, `outbox`, `announced`, `zeroRows` | the usage of the promotion, the outbox row, `booking.confirmed`, the rows of zero-amount payments |
| `payment`, `order` | the payment rows by idempotency key (booking, method, amount), and their orders at the provider |
| `seen` | the keys of the replay guard |
| `created`, `others` | the rows in the order of `created_at`; how many unsettled rows of other bookings are older |
| `pc`, `job`, `batch` | operations in progress: the await, what was read, the rows a run has yet to do |
| `raced`, `crossed` | history: operations that have read a row another has written since; whether an operation has written the booking between the check and the write of another |

`Methods` and `Amounts` span the keys. The operations are `pay` (createPayment, with the zero-amount branch), `ipn`
(handleProviderIPN), `recon` (a reconciliation run), `admin` (updateBookingStatus), `cancel`, `void` (cancelPayment),
`refund` (the approval of a refund, which writes `REFUNDED` over `COMPLETED` and cancels the booking) and `update`
(updateBooking); `Operations` selects those of a run. An initiation has two awaits: `OpenOrder` at the provider, and
`RecordInitiation` of the answer, so an operation that ends in between leaves an open order with a PROCESSING row. A
reconciliation run takes the `BatchSize` oldest rows that are PENDING or PROCESSING (`SelectStalePayments`,
`StaleBatch`), of which `others` belong to other bookings, and does them one after the other (`QueryProvider`,
`DeferPayment`, `SettlePayment`). A callback may arrive for every order that is finished at the provider, at any time,
or never, which is how a lost or outdated one is represented; the repetitions that the replay guard answers as
duplicates change nothing. An amount is a small number whose 0 is "nothing to pay" (below 1000 in the code).
`PaymentPolicy` is the transition policy of `payment-transition-policy.service.ts` as a specification, `BookingPolicy`
that of `assertBookingTransition`. Most operations write without asking either. `raced` and `crossed` record when what
an operation has read is no longer so when it writes, and the properties state what holds until then. A step of the code
is `Step`, with its history `Next`.

### NotificationOutbox

`notification-outbox.service.ts`, with its consumer in `payment.service.ts`.

| Variable | In the code |
|---|---|
| `row` | the rows: status, attempts, `created_at` (as an ordinal, `enqueued`) |
| `pc`, `left`, `snap` | the polls in progress: the await, the rest of the batch, the attempts as the batch has them |
| `claims`, `faults` | history: how often a row was taken up; the faults, up to `MaxFaults` |

A poll is `ReadBatch`, then for each row, oldest first, `Claim`, `Deliver` or
`Undecipherable`, `Complete` or `Fail`. An update by id of a row that was purged
throws (`RowIsGone`), which ends the poll. The consumer reports success whether
the mail went out or not, so one action stands for both.

### Refund

A paid booking that is given back: `refund.service.ts`, `ticket.service.ts`,
`cancelBooking` and `updateBookingStatus` of `booking.service.ts`, and both halves of
`resolve-booking.service.ts`.

| Variable | In the code |
|---|---|
| `booking`, `payment` | the status of the `Bookings` row and of its one `Payments` row |
| `refund`, `ticket` | the `Refunds` of the payment, the `Tickets` of the booking |
| `seat` | whether `SeatReservations` has the seat of a ticket for this booking, for nobody, for another |
| `notices` | `RELEASE_SEATS` events on their way to the cinema service |
| `pc`, `job`, `uses` | operations in progress: the await, the parameters, the rows read first and written later |
| `vouchers`, `approvals`, `shared` | history: vouchers and approvals (counted to 2), and the rows that two operations used at the same time |

Every operation reads a row (`StartCreate`, `StartReview`, `StartVoucher`,
`StartCancelBooking`, `StartAdmin`, `StartCancelTicket`), and writes it in a later
query or transaction; `useTicket` is one query that reads nothing. The handlers of
the controllers are concurrent and nothing keeps two of them off one row, so nearly
every wish about these rows fails under some overlap. Instead of leaving overlaps
out, `shared` records them, and the properties state what holds *of rows that were
not shared*, while everything else overlaps: a refund that two reviews did not use
at once follows its transitions even if the booking and the other refunds are
written concurrently. Events are delivered at any later time, in any order, or
never. The module starts from a confirmed booking with one completed payment; open
payments beside it are the subject of BookingPayment.

### SeatSale

The way of a seat of one showtime from the browser to a ticket. It composes the web
client (`web/src/stores/booking-store.ts` and the seat-selection page), the relay of the
gateway, the holds and reservations of the cinema service, and the tickets of
the bookings, each of them simpler than in the module that has it in detail.

| Variable | In the code |
|---|---|
| `conn`, `status`, `mine`, `selected`, `inbox` | the client of a user: what is left to load, what the map shows, the seats shown as held, the selection, the events under way |
| `holder`, `listing`, `older` | Redis: the key of a seat, the set of a user, the keys that end before the set of their holder |
| `reserved`, `due`, `pc`, `job` | `SeatReservations`; the requests that replicas still receive; the handlers |
| `booking`, `tickets`, `found`, `early`, `window` | the booking of a user: its status or the await of `updateBooking`, its tickets, what was read of the set, `expires_at` |
| `wrote`, `unseen`, `since`, `kept` | history: changes not yet announced; changes a client was not told of; seats held without a break since `updateBooking` read the set |
| `clicks`, `loads` | the counters behind `MaxClicks` and `MaxLoads` |

A client loads in three awaits (`Load`, `ReadReservations`, `ReadHolds`) before it
joins the events (`Join`). A hold is `CheckSeatFree` (or `IgnoreHold`), `WriteHold`,
`PublishHeldOrReleased`; a release `ReleaseSeat`, `CheckRemaining`, `DropListing`; a confirmed
booking `StartBooked`, `ConsumeSeat`, ..., `Reserve`, `PublishBooked`. `updateBooking` is
`StartUpdate` (reads the set), `CheckTickets`, `WriteTickets`, and a payment
`ConfirmPaid`. `ExpireSeat`, `ExpireSession` and `CloseWindow` are the clocks. Redis is
written in one await and the event published in another; `wrote` and `unseen` record
this difference, so that `ViewIsTrue` says of every other seat that the map is right. In the
same way `kept` separates the seats that a customer never ceased to hold, of which
`NoDoubleSale` speaks, from those of the violation `sold_twice`.

### ShowtimeScheduling

The timetable of a cinema: `showtime-command.service.ts`, `hall.service.ts`,
`cinema.service.ts`, with the sale of seats of `resolve-booking.service.ts` and the
cascades of `schema.prisma`.

| Variable | In the code |
|---|---|
| `cinema`, `hall` | `Cinemas.status`, `Halls.status`, or gone |
| `show`, `used` | the rows of `Showtimes` (hall, movie, start, end, status); the ids given out |
| `held`, `reserved` | the seats with a hold key; `SeatReservations` |
| `pc`, `job` | operations in progress: the next query, parameters and what was read |
| `uses`, `raced` | history: the halls, rows and seat plans an operation looks at first and writes later; those that two operations used at once |
| `stretched` | history: showtimes whose movie was replaced, which computes a new end and checks no hall |
| `requests` | the counter behind `MaxRequests` |

Creating is `CreateShowtime` or `BatchCreateShowtimes` (the candidates of the
days and slots, on which `NextCandidates` goes on), `CheckConflict`, `InsertShowtime`;
updating `StartUpdate`, `CountReservations`, `CheckMove`, `WriteShowtime`;
cancelling `StartCancel`, `CountReservations`, `CheckHolds`, then `MarkCancelled` or
`DeleteShowtime`; halls and the cinema likewise. As in Refund, `raced` records
overlaps instead of leaving them out.

### Roles and ClerkSync

`rbac.service.ts`, `user.service.ts`, `staff.service.ts`, `clerk-sync.service.ts`. Roles
has the assignments, the grants and the cache; ClerkSync extends it with the staff, the
task table and the directory, since a change of a position also changes roles.

| Variable | In the code |
|---|---|
| `rows`, `grants`, `cache` | how many `UserRole` rows give a role to a user; the permissions of a role; `permissions:{user}` |
| `staff`, `task`, `log`, `queue` | the position of a member of staff; `ClerkSyncTask` by its key, the order of its rows and of their `nextRetryAt` |
| `account`, `used`, `metadata`, `webhooks` | the directory: ids by email, the position in their metadata, `user.created` events under way |
| `pc`, `job`, `requests` | handlers: requests, webhooks and cron runs |
| `owed`, `overtaken`, `outdated` | history: cache entries a handler will delete; readers that a change has overtaken; entries that nobody will delete |
| `applied`, `disordered` | history: the task that last wrote an account (`NoKey` before the first); emails whose changes were not applied in their order |

A run of the cron job is `ProcessDueTasks`, `NextTask`, `LockTask`, then the calls to
the directory (`FindAccount`, `CreateUser`, `UpdateUser`, `DeleteUser`), the role of the position
(`SyncPositionRole`, `ForgetPermissions`) and `SucceedTask`. Any await of the `try` may
fail, the deletion of the cache entry and the write of SUCCEEDED among them
(`CallFails`; entries not deleted are disowned), and a call may succeed and lose its
answer (`Answer`, `FailTask`). `BecomeDue` is the backoff. `Register` is a customer who
registers an account with an email that has none, before being hired, between two
calls of a run, or after the removal; such an account has no position.

### BackupScheduler

`backup.service.ts`, `scheduler.service.ts`, `sqlite.service.ts`; one replica, as the stack
deploys it but for the moments of an update (section 6).

| Variable | In the code |
|---|---|
| `clock`, `timer`, `preset` | the hour of the week, the hours until the timer fires, `preset_key` |
| `isRunning`, `inProgress` | the flag, the services whose newest row is IN_PROGRESS |
| `pc`, `job` | requests and cycles in progress |
| `broken`, `raced`, `cut` | history: a cycle ended with an error; the timer was set from a replaced preset; backups ended by an error or a restart |

A cycle is `Fire`, then per service `RecordBackup`, `RunScript`, `UpdateStatus`, then
`MarkScheduleRun`, `GetScheduleState`, `ScheduleNextRun`. `NextRunAt` is the arithmetic of
`getNextRunAt`, checked against the meaning of the cron lines (`IsRunTime`). `Tick`
moves the clock to the next of `Moments`, no further than the timer.

## 3. What is model-checked

| Run | Instance | States | Shows |
|---|---|---|---|
| `seat_hold_overlap` | 1 user, 2 seats, 2 handlers | 39 000 | types; the limit is overshot only by the handlers in progress; a listed seat does not outlive the listing; every held seat becomes free |
| `seat_hold_users` | 2 users, 2 showtimes, 1 seat, 2 handlers | 0.94 M | overlapping handlers implement the lock but for a hold written late; a user has one session and every held seat is listed, but for a user whose handlers have crossed |
| `booking_payment_overlap` | 1 method, all operations, 2 at a time | 1.5 M | types; one initiator per row; a settled payment stays settled; CONFIRMED is paid; payments follow their policy, but for refunds and late writes; until an operation crosses another, a paid booking is whole (valid tickets, promotion counted once, no expiry) and follows its policy |
| `booking_payment_settled` | 2 methods, batch of 2 beside a row of another booking | 121 000 | a finished order whose row has a place in the batch is settled |
| `outbox_overlap` | 2 rows, 2 polls, 1 fault, 3 attempts | 410 000 | types; attempts and dead letters; no row left PROCESSING without a fault; the retries end |
| `outbox_again` | 1 row, 2 polls | violation | a completed row is claimed and sent again |
| `refund_overlap` | 2 refunds, 1 ticket, 2 operations | 1.9 M | types; refunds within the payment; one voucher; a confirmed booking is whole; refunds follow their transitions; seats of others; used tickets |
| `showtimes_overlap` | 2 halls, 2 showtimes, 2 movies, 3 days, 2 operations at a time, 3 requests | 2.2 M | types; when a hall can be double booked; when a sold showtime can be moved or deleted |
| `seat_sale_overlap` | 2 users, 2 seats, 2 handlers, 2 clicks, 2 loads | 1.7 M | types; a seat held without a break is sold once; a seat map is right unless it was not told |
| `sold_twice` | the same, 1 handler, 3 clicks | violation | a seat is sold twice although no two handlers overlap |
| `clerk_sync_overlap` | 1 email, 3 ids, 2 handlers, 2 attempts, 2 requests | 1.8 M | types; the directory follows the staff, where customers register; one run per task; cached permissions; the last administrator |
| `backup_week` | 2 services, 2 handlers, the hours of all presets, a whole week | 1.0 M | types; exclusion and rows; the timer is the next run; backups go on |

**Bounds.** `HoldLimit = 1` (8 in the code) and `HoldTtl = 2` ticks (600 s): the
limit is met by the first seat, and a key and a listing can be one tick apart,
which is all the comparisons of the code distinguish. `seat_hold_overlap` has one
user, since its three safety properties relate the keys of one user.
`seat_hold_users` has two users and two showtimes; the keys expire after one tick there,
as its two properties compare no times (a key and a listing still end apart: the
release deletes them in two commands). All five safety properties are proved for every
number of users, seats and handlers (section 4). Two handlers
(or operations, or polls) are the least that overlap. In BookingPayment one positive
amount suffices: the price of a booking goes from 0 to it and back, so that rows
of an older price occur as the rows of the zero-amount branch. In
`booking_payment_overlap` one row is in question, beside `MaxOthers = 1` older one of another
booking that fills the batch (`BatchSize = 1`), so that a run that finds no place occurs.
In `booking_payment_settled` two rows of one booking and an older one compete for two places
(200 in the code). The operations of that run do not overlap: an order is finished, its
callback comes, dies or is lost, and the job makes up for it. In the outbox
`MaxAttempts = 3` is the value of the code, two rows make a batch in which one
waits for the other, and `BatchSize = 2` holds both: rows that wait because younger or
older ones fill the batch of 10 do not occur, and `RetriesTerminate` says nothing of
them. `MaxFaults = 1` dying poll or
failed write. `CHECK_DEADLOCK FALSE` is set in `booking_payment_settled` (everything
settled, no operation of the customer is left), in the
outbox (everything sent, the service is idle) and in `showtimes_overlap`, the two runs of
SeatSale and `clerk_sync_overlap`, which stop when their bounded requests, clicks and loads are
used up and everything is idle.

In `refund_overlap` a refund is of the whole payment (`Price = 1`), so that a second
one exceeds it; two refunds, reviewed at the same time or one after the other, and a
voucher are all ways to give back twice; one ticket has the seat that is sold again;
`MaxNotices = 2` events can be under way when it is. The counters stop at 2 because
no property tells 2 from more.

In `showtimes_overlap` a day is one unit long, a showtime lasts two or three with
the buffer of one, so that showtimes overlap across midnight and by the buffer
alone; three requests are a creation, its conflict and a sale. In `seat_sale_overlap`
two clicks and two loads let one customer take what another has, release it and
look again; `Replicas = 1`, as a request handled by two replicas is two handlers of it,
which the overlap of handlers covers for the keys, and a third click (needed for the
violation) is affordable only with one handler. In `clerk_sync_overlap` one member of
staff changes the position, is removed and comes back, or a customer registers and is
hired (a registration counts as a request); three ids are an account, its
successor and a user outside the staff. `MaxAttempts = 2` is one retry. In
`backup_week` the hours 0, 2, 6, 12, 18 of a day are all at which a timer may be
due (assumed by the module), and the week closes on itself.

**Fairness.** Refunds: none; no operation retries and nothing must happen at last.
Seat holds: `WF(Tick)`, the clock of Redis; none for the handlers,
which may stop. Bookings: `WF(Proceed(h))`, a promise settles and every operation
has a `finally` or a timeout. Of the reconciliation: `SF(Select)`, a run starts every minute
(`@Cron`) and at last one at which all rows are old enough; what it takes is what the query
returns, so a row outside the batch is not selected by this. `SF(Pass(j, k))`, a run with row k
to do gets past row j before it at last, by settling or by deferring it; `SF(Query)`, the
provider answers some query about an order that is finished; `SF(Settle)`, not every
transaction that writes an answer fails. Nothing is assumed of orders that
are not finished, of rows without a place, of customers, callbacks and
administrators. Outbox: `WF(Proceed(p))`, the schedule starts polls and promises
settle; none for faults and purges. Backups: `WF(Tick)`, `WF` of the timer's event and of
`Proceed(h)`: the event loop and time go on, queries and scripts end; none for requests,
errors and restarts. That a script ends is an assumption: `executeScript` has no timeout
(`backup.service.ts`), and one that hangs keeps the flag. SeatSale, ShowtimeScheduling, ClerkSync: none, no property of
theirs asks that something happens.

**Only model-checked**: the four liveness properties (`SeatEventuallyFree`,
`FinishedOrderIsSettled`, `RetriesTerminate`, `BackupsGoOn`), which rest on fairness and
ENABLED. Every other property of a passing run is a theorem of section 4.

## 4. What is proved

All theorems are for every value of the constants that satisfies the `ASSUME` of
the module (finite seats, handlers and events, positive limits).

**SeatHoldProofs.** `TypeCorrect` by one lemma per Redis command and control step.
`OvershootCorrect`: the invariant adds to the listing the handlers that have
passed the limit check (`PassedLimit`): a handler that passes finds fewer than the
limit and at most n - 1 others have passed, one that writes leaves the set as its
seat enters the listing. The listing alone would not be inductive: a handler that
has read it is about to add a seat. `OutlivesCorrect`: both keys lose time
together, and a new hold gives the listing the full TTL. `HoldsAreLocks`
refines `SeatLock` for any number of overlapping handlers: a hold names one seat
(`HoldNamesOneSeat`), and the seat that a handler is about to write is free unless the
handler is `late` (`WriteFindsSeatFree`), so a hold over that of another user is a late
one and nothing else is. `HoldsAreListed` is the rest of the documented rules. For a user not
`crossed`, `ListedInv` says besides the property (`SessionsApart`, `HeldIsListed`) what
each handler of the user may rely on (`FactsOf`): in a switch, that the only session is the one
it has read; before a write, that there is none in another showtime. Steps of other
users, releases, expirations and stops only take entries away (`OnlyLoses`), which keeps all
of this; a hold of the same user breaks it only while another handler relies on it, and then
the user is crossed. With `crossed` dropped the invariant is false for two handlers.

**BookingPaymentProofs.** For any number of overlapping operations, methods and amounts:
`TypeCorrect`, `InitiatorCorrect`,
`SettledCorrect`, `ConfirmedCorrect`, `PaymentsFollowPolicy`, `PaidBookingsAreWhole`,
`BookingsFollowPolicy`. The invariant `RowInv` adds to the types and
to `InitiatorOwnsRow` that a row which an
operation is about to write is neither absent nor PROCESSING
(`RowsAreInitiated`): so no write of a result falls into the window of an
initiation, and no late answer of an initiation onto a settled row.
For `PaymentsFollowPolicy`, `RowsHold` says that an operation which is not `raced`
finds its row as it has read it: PENDING, or COMPLETED for the approval of a refund. Every
other write is then a transition of the policy, also a callback, a settlement or a
cancellation of an administrator, none of which asks it. For the two theorems about the booking,
`BookingInv` says of all operations at once, as long as none has crossed another,
that what each has checked of the booking still holds when it writes (`ReadHolds`),
and that a counted promotion belongs to a booking past PENDING (`CountedIsPast`).
The write that ends this is the one that sets `crossed`, and the invariant is used up
to and including it.

**NotificationOutboxProofs.** For all overlaps: `TypeCorrect`, `AttemptsCorrect`,
`AttendedCorrect`. The attempts of rows and of snapshots are
bounded by the claims made (`Counted`), which stale snapshots cannot exceed; a
PROCESSING row is the oldest of what is left of some poll that has claimed it
(`Attended`), and as times of creation are distinct (`Ages`) no other row of that
poll can end it.

**RefundProofs.** For all overlaps: `TypeCorrect`, `VoucherCorrect`, `WholeCorrect`,
`TransitionsCorrect`, `OthersCorrect`, `UsedCorrect`, `WithinCorrect`. An operation in progress lists
in `uses` the rows it will write (`Fits`); two operations that list a row have put it
in `shared` (`Exclusive`); hence what an operation has read of an unshared row still
holds when it writes (`ReadHolds`). `NotPending` and `GivenBack` tie the histories to the
status of the booking, so that a confirmed one has given nothing back. `Releases`
says that nothing is released before something was given back, and that after one
voucher or approval there is either an operation about to emit the event, or the event
under way, or seats no longer ours: so only a booking given back twice can free the
seat of another. `WithinCorrect` is about a sum, for any number of refunds: the
invariant `Within` adds that the refunds that count are finitely many, and that a creation
that has compared the total with the payment, and not yet written its row, leaves room for
it (`Room`; the property alone says nothing of that row). What the sum is after one
refund starts or ceases to count is shown in `TotalIs` to `TotalRemove`: of the sets for
which the sum would be another one, a smallest (`Smallest`) cannot exist.

**SeatSaleProofs.** For all overlaps, any number of replicas, users and seats:
`TypeCorrect`, `NoDoubleSaleCorrect`, `ViewCorrect`. What a customer has kept since `updateBooking` read the set
is still held by this customer until the payment (`KeptIsHeld`), so two customers never keep one
seat at a time. What remains is the order of the two sales: a seat that a paid booking
had kept is not among those another open booking has kept (`KeptIsFree`), nor
among those that another has found free and is about to write (`FoundIsFree`), which is where the
check of the tickets is used. `ViewCorrect` has an invariant of its own, `ViewInv`. A client that is
still loading, or has events to receive, shows something old, so the property is not inductive;
`View` says of every seat without an exception that the last event about it on its way, or
without one what the client shows or has read, is what the server has. Events are published
an await after the write: `Writing` says which seats a handler has written and not announced,
`Once` that a seat two handlers have written is excepted for everyone, `Truthful` that
otherwise what a handler is about to announce still holds.

**ShowtimeSchedulingProofs.** For all overlaps and any timetable: `TypeCorrect`,
`HallCorrect`, `SoldCorrect`. An operation in progress lists what it works on
(`Fit`, `OnUsed`, `RowsFit`), and two operations with something in common have put it
into `raced` (`RaceInv`). Hence what an operation has read or found free still is so,
unless raced: the row and the hall (`HallInv`: `ReadOK`, `FreeInsert`, `FreeMove`), the seats
(`SoldInv`: `MoveUnsold`, `CancelUnsold`, `HallEmpty`, `CinemaEmpty`). The property on halls is not
inductive without them, since an insert is justified only by a check some queries earlier.

**BackupSchedulerProofs.** For any services and number of handlers: `TypeCorrect`,
`WorkCorrect`, `TimerCorrect`. That `NextRunAt` is due for its preset, and that nothing
before it is, is arithmetic (`NextRunIsNext`). The invariant adds what the await of a
handler says of its job (`JobOK`), that the row of a backup in work is there and was not cut
short (`RowOK`), and that a timer fires at an hour that time does not pass over (`TimerOnMoment`).

**ClerkSyncProofs.** For any ids, roles, members of staff and handlers: `TypeCorrect`,
`OneRunCorrect`, `FreshCorrect`, `LastAdminCorrect`, `DirectoryCorrect`. `Inv` adds to the types what an await says of the
job (`JobFits`), that a task may be tried again unless it was given up (`TaskFits`), that what
is due is open and due once (`QueueOK`), and that a run works on a PROCESSING task (`WorkOK`): the
conditional update takes none of those, so a task has one run. `FreshInv` says which entries a
handler will delete (`OwedOK`; between the change of a role's permissions and the listing of its
users, those who still have the role: `Owes`), that what a reader read is true unless it was
overtaken (`ReadOK`), and that whoever is about to remove an ADMIN has counted another, unless
overtaken (`CountOK`). `DirectoryFollowsStaff` speaks of moments at which every task has
succeeded; `FollowInv` says what holds in between. The directory is as the task asks that wrote
last (`AppliedOK`; other accounts are not touched, as no two members share one, `AccountsOK`).
Where no order was broken, the newest row asks for what the staff row says (`ChangesOK`), and
once it was carried out, even if its run has not finished or the answer was lost, it is the one that
wrote last (`DoneOK`): any older row that writes afterwards breaks the order. `LogOK` says
that a key is inserted once, `AskOK` that a run makes the call its task asks for.

The inductive invariants were checked by TLC on the instances of section 3 before they were
proved. Out of the prover's reach, and left to TLC: liveness under fairness.

## 5. Divergences read off the models

Shown by a run (a finding in `PROJECT.json`): completed notifications sent again
(`outbox_again`), a seat sold twice (`sold_twice`).

Read off the models, each reachable in a few steps, without a run of its own:

Seats and their sale:

- Two overlapping holds of one free seat: the second replaces the first, since the
  key is read and set in separate commands (`realtime.service.ts:101`). `SeatIsLock`
  says that this is the only way (`HoldsLate`).
- Release and booked delete the key of a seat without looking at its holder, so they
  free what another has taken meanwhile (`realtime.service.ts`, `ReleaseSeat`, `ConsumeSeat`).
- The client ignores a `seat_released` event that has `seatIds`, nobody publishes
  `seat_expired`, and an optimistic selection stays when the hold is refused: hence the
  exceptions of `ViewIsTrue`.
- A refund leaves the tickets VALID, so a released seat is refused to the next customer
  by `updateBooking`; a refused `updateBooking` leaves the earlier tickets and the window,
  and the booking can be paid for them.
- The limit of holds is overshot by overlapping handlers (`realtime.service.ts:91`
  reads the listing, the write is two awaits later); `HoldOvershootBounded` says by
  how much.
- Two overlapping holds in two showtimes leave a user with two sessions
  (`realtime.service.ts:153`); `OneListedSession` excepts the users to whom this
  happens (`crossed`).
- A hold does not look at reservations: a sold seat can be held again
  (`realtime.service.ts:101`).

Bookings and payments:

- Two operations that read a payment before either writes it settle it twice, the
  later over the earlier, since the update goes by id alone
  (`payment-reconciliation.service.ts:115`); `PaymentFollowsPolicy` excepts these writes
  (`WritesLate`).
- Approving a refund writes REFUNDED over COMPLETED (`refund.service.ts:308`), which
  the policy of payments forbids (`RefundsPayment`).
- An unfinished payment of one method that fails later fails the booking that another
  method has paid (`payment-reconciliation.service.ts:152`).
- Reconciliation confirms a booking that was cancelled or has expired
  (`payment-reconciliation.service.ts:124`); hence `OthersFollowBookingPolicy`
  excepts it.
- `updateBooking` has no transaction: a payment that succeeds between its check
  and its statements gets its tickets replaced by CANCELLED ones
  (`booking.service.ts:2091`).
- A blank booking has the price 0 and can be confirmed as a zero-amount payment,
  without tickets (`payment.service.ts:137`).
- A FAILED row keeps its idempotency key, so the same method and amount cannot be
  tried again (`payment.service.ts:151`); a crash while the provider is asked
  leaves it PROCESSING for good.
- The dedup key of a callback is set before the work (`payment.service.ts:460`):
  after a crash the repetitions are duplicates, and reconciliation must settle the
  payment. `FinishedOrderIsSettled` shows that it does if the row has a place in the batch.
- A run takes the 200 oldest rows that are PENDING or PROCESSING
  (`payment-reconciliation.service.ts:65`), and leaves those it can decide nothing about as
  they are: rows PROCESSING since a crash, orders nobody finishes. When these fill the batch
  no younger row is ever settled by the job (`HasPlace`).
- `cancelBooking` leaves the tickets VALID (`booking.service.ts:375`).

Notifications:

- The outbox row "MUST be called within the same Prisma transaction that confirms
  the booking" (`notification-outbox.service.ts:42`); reconciliation and
  administrators confirm without it, and do not publish `booking.confirmed`.
- The consumer of the outbox catches all errors of the mail
  (`payment.service.ts:1298`): a row is COMPLETED although nothing was sent.
- A poll that dies leaves its row PROCESSING, which no poll selects; an older poll
  may leave a row FAILED with all attempts used, which is neither retried nor a
  dead letter (`notification-outbox.service.ts:143`).

Refunds:

- Two requests for a voucher of one booking both get one: the check and the creation
  are separate queries, in two databases (`refund.service.ts:533`, `:536`); `OneVoucher`
  excepts them.
- A voucher leaves the payment COMPLETED, so a refund of it can be created and
  approved afterwards: the money is given back as well, without any overlap
  (`refund.service.ts:72` looks at the payment only). The approval then releases the
  seats a second time, and frees them if they were sold to somebody else since
  (`resolve-booking.service.ts:63` goes by seat); `OthersKeepSeats` says that nothing
  less leads there.
- A refund of a part of the payment marks all of it REFUNDED and cancels the booking
  (`refund.service.ts:308`); refunds and vouchers leave the tickets VALID, so that they
  still pass `validateTicket`.
- Two overlapping reviews of one refund overwrite each other: a rejected refund is
  completed, a completed one returns to PROCESSING (`refund.service.ts:244`, `:288`).
- `useTicket` uses a ticket again, or after its cancellation (`ticket.service.ts:92`);
  an administrator's CANCELLED cancels used tickets, and CONFIRMED on a confirmed
  booking makes used tickets VALID again (`booking.service.ts:1254`), since the policy
  lets a status follow itself.
- `cancelBookingWithRefund` computes the amount of a refund and creates no refund row
  (`booking.service.ts:1961`), and cancelling a booking releases no seats.

Showtimes:

- No check is in a transaction with the write it is for: two creations in one hall,
  or a sale during a deletion, defeat it (`raced`).
- `updateShowtime` computes an end without the buffer, and looks at the hall only when
  the start or the hall changes: a longer movie runs into the next showtime
  (`showtime-command.service.ts:367`, `stretched`). It does not look at held seats.
- The repetition WEEKLY of a batch is the same as DAILY; `available_seats` is only ever
  incremented.

Staff, roles, backups:

- A run that dies leaves its task PROCESSING, which no run selects
  (`clerk-sync.service.ts`); its key is taken for open, so the change is never repeated.
- The key of a SUCCEEDED task stays unique, so returning to an earlier position cannot be
  enqueued: the transaction of the change fails.
- `reconcileStaffMetadataDrift` selects staff by `clerkUserId`, which no code sets: it
  does nothing, and a dead letter is never made up for.
- The cache is filled after the read, so an entry may be older than a change that has
  deleted it (`user.service.ts:52`, `overtaken`).
- The guard of the last administrator counts rows, not users, and changes of a position do
  not count at all (`rbac.service.ts:141`).
- An error in a scheduled cycle ends the automatic backups until the next restart or
  change of the schedule (`scheduler.service.ts:46`, `broken`); a missing `DATABASE_URL` is found
  after the row was written IN_PROGRESS, where it stays. Nothing keeps two replicas apart;
  the stack asks for one (`infra/docker-stack.yml:406`), but starts the new instance before
  it stops the old one when it updates the service, so two run for a moment.

## 6. What is not modelled

Within the modelled components: reads that change nothing (searches, statistics,
the return URL of the provider), the cache helpers of the realtime service,
the counter `available_seats`, the lock of a reconciliation run (several runs
may be in progress instead), the age test of callbacks (a
rejected callback is one that starts no operation), the text of mails, the
signatures of providers, the 24-hour rule of vouchers (a request that it refuses ends
without effect, `Abort`), `reschedule` of bookings. In SeatSale nothing expires during an
`updateBooking` except what `early` and `since` record, and the overlap of a payment with an
`updateBooking` of the same booking is the subject of BookingPayment. In
ClerkSync a transaction is one step (overlaps of `syncPositionRole` with itself at READ
COMMITTED are left out), the two reads before the removal of an ADMIN are one step, and of
the payload of a task the position is kept. The directory changes by the runs and by
registrations only: an account that its owner deletes, or whose metadata or email somebody edits at
Clerk, is left out. `DirectoryFollowsStaff` is false after such a change, and nothing
repairs it: `reconcileStaffMetadataDrift` (`clerk-sync.service.ts:246`) and the webhook of
`user.deleted` (`user.service.ts:176`) go by the `clerkUserId` that is never set.
In BackupScheduler one instance runs at a time: a rolling update (`order: start-first`) has a
moment with two, whose flags and timers do not know of each other, and what they do to
the same rows then is not covered by its properties.

Whole parts: loyalty points and concessions (one read and one write of one row), movies,
genres, reviews, prices, geographic search (single-table CRUD), the guards and
throttling of the gateway, its proxies and dashboard (stateless), the pages of
the web client other than the seat selection (forms and tables over the API), shared types,
metrics and widgets, deployment and load tests.

The modules map a small part of the repository's lines. Most lines are
pages and widgets of the web client, DTOs, controllers, queries and aggregations, which keep no state
between two calls; there is nothing in them a state machine could get wrong. The services
with a protocol are the ones modelled.

## 7. Plan

Done: SeatLock, SeatHold; PaymentPolicy, BookingPolicy, BookingPayment;
NotificationOutbox; Refund; ShowtimeScheduling; SeatSale; Roles, ClerkSync; BackupScheduler; and
the proofs of section 4. What is left: the lock of the reconciliation run; two
instances of the backup service during an update; loyalty and promotion counters;
`reschedule` of bookings.
