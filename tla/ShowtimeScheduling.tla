------------------------- MODULE ShowtimeScheduling -------------------------
(***************************************************************************)
(* The timetable of a cinema: its halls, their showtimes, and the seats    *)
(* sold for them (showtime-command.service.ts, hall.service.ts,            *)
(* cinema.service.ts; the sales as in resolve-booking.service.ts).         *)
(*                                                                         *)
(* Every operation of the back office looks first (is the hall free, are   *)
(* there showtimes, reservations, held seats), and inserts, updates or     *)
(* deletes in a later query, by id and without a transaction.  A step is   *)
(* one query, or one Promise.all of queries, together with the decision    *)
(* taken on its result.  Deleting cascades from a cinema to its halls,     *)
(* their showtimes and the reservations (schema.prisma, onDelete).         *)
(*                                                                         *)
(* As nothing keeps two operations apart, the history variable raced       *)
(* records the halls, rows and seat plans that two of them used at the     *)
(* same time, and the properties say what holds of all the others.         *)
(***************************************************************************)
EXTENDS Integers, FiniteSets

CONSTANTS Handlers,    \* the operations that may be in progress at a time
          Halls,       \* the halls there may be
          Showtimes,   \* the ids of the showtimes there may be
          Movies,
          Seats,       \* the seats of a hall
          Runtime,     \* Runtime[m]: the runtime of movie m
          Release,     \* Release[m]: the times of the release period of m
          Buffer,      \* the 15 minutes between two showtimes
          DayLength,   \* the length of a day
          Days,        \* the days of the timetable are 0 .. Days - 1
          Keep,        \* a field that an update leaves out
          Changes,     \* what updates ask: each field new, or left as it is
          MaxRequests  \* bound: the requests of the back office and customers

Statuses == {"SELLING", "CANCELLED"}
Times == 0 .. (Days * DayLength - 1)
NoHall == "no hall"

ASSUME SchedulingAssumption ==
  /\ Runtime \in [Movies -> Nat \ {0}]
  /\ Release \in [Movies -> SUBSET Times]
  /\ {Buffer, DayLength, Days, MaxRequests} \subseteq Nat
  /\ NoHall \notin Halls
  /\ Keep \notin Movies \cup Halls /\ Keep \notin Times /\ Keep \notin Statuses
  /\ Changes \subseteq [movie : Movies \cup {Keep}, hall : Halls \cup {Keep},
                        start : Times \cup {Keep}, status : Statuses \cup {Keep}]

VARIABLES
  cinema,    \* Cinemas.status, or gone
  hall,      \* hall[x]: Halls.status; none before it is created, then gone
  show,      \* show[s]: the row of s in Showtimes, with hall NoHall if none
  used,      \* the ids of showtimes that were given out
  held,      \* held[s]: the seats with a hold key in Redis
  reserved,  \* reserved[s]: the seats in SeatReservations
  pc,        \* pc[h]: the next query of operation h
  job,       \* job[h]: its parameters and what it has read
  uses,      \* uses[h]: the things operation h looks at first, writes later
  raced,     \* the things that two operations used at the same time
  stretched, \* showtimes whose movie was replaced without a check of the hall
  requests   \* the requests so far

timetable == <<cinema, hall, show, used>>
seating   == <<held, reserved>>
control   == <<pc, job, uses, raced, requests>>
vars      == <<timetable, seating, control, stretched>>

NoRow   == [hall |-> NoHall, movie |-> "none", start |-> 0, end |-> 0, status |-> "none"]

\* What operations use: a hall's timetable, a row, its seat plan, the cinema.
HallOf(x)  == <<"hall", x>>
RowOf(s)   == <<"row", s>>
SeatsOf(s) == <<"seats", s>>
Cinema     == <<"cinema", "cinema">>
Things == {HallOf(x) : x \in Halls} \cup {RowOf(s) : s \in Showtimes}
            \cup {SeatsOf(s) : s \in Showtimes} \cup {Cinema}

Exists(s) == show[s].hall # NoHall

\* The intervals [a, b) and [c, d) overlap, as findFirst asks it.
Overlap(a, b, c, d) == a < d /\ b > c

\* Mutant: only showtimes that run at the start are found.
ConflictAtStart(x, a, b, but) ==
  \E s \in Showtimes \ but :
    show[s].hall = x /\ show[s].start <= a /\ a < show[s].end

\* Another showtime than those in but is in hall x between a and b.
Conflict(x, a, b, but) ==
  \E s \in Showtimes \ but :
    show[s].hall = x /\ Overlap(a, b, show[s].start, show[s].end)

EndOf(start, movie) == start + Runtime[movie] + Buffer

Moves(r) == r.start # Keep \/ r.hall # Keep

Or(new, old) == IF new = Keep THEN old ELSE new

NoChange == [movie |-> Keep, hall |-> Keep, start |-> Keep, status |-> Keep]
NoJob == [op |-> "none", on |-> Cinema, movie |-> Keep, left |-> {},
          change |-> NoChange, row |-> NoRow, sold |-> FALSE, seat |-> Keep]

Row(x, m, start, end) ==
  [hall |-> x, movie |-> m, start |-> start, end |-> end, status |-> "SELLING"]

\* Every showtime passed the checks of its creation.
Scheduled ==
  \A s \in Showtimes :
    Exists(s) => /\ show[s].start \in Release[show[s].movie]
                 /\ ~Conflict(show[s].hall, show[s].start, show[s].end, {s})

\* A timetable that was set up without conflicts; no seats are sold yet.
Init ==
  /\ cinema    = "ACTIVE"
  /\ hall      \in [Halls -> {"none", "ACTIVE"}]
  /\ show      \in [Showtimes -> {NoRow} \cup
                    {Row(x, m, t, EndOf(t, m)) : x \in {y \in Halls : hall[y] = "ACTIVE"},
                                                 m \in Movies, t \in Times}]
  /\ Scheduled
  /\ used      = {s \in Showtimes : Exists(s)}
  /\ held      = [s \in Showtimes |-> {}]
  /\ reserved  = [s \in Showtimes |-> {}]
  /\ pc        = [h \in Handlers |-> "idle"]
  /\ job       = [h \in Handlers |-> NoJob]
  /\ uses      = [h \in Handlers |-> {}]
  /\ raced     = {}
  /\ stretched = {}
  /\ requests  = 0

-----------------------------------------------------------------------------
(* Helpers.                                                                *)

Others(h) == UNION {uses[g] : g \in Handlers \ {h}}

\* The seat plans of sales in progress.
Selling == {job[g].on : g \in {f \in Handlers : job[f].op = "sale"}}

Count == requests < MaxRequests /\ requests' = requests + 1

\* A request starts operation h with parameters j, which uses things.
Begin(h, j, step, things) ==
  /\ pc[h] = "idle" /\ Count
  /\ pc'    = [pc EXCEPT ![h] = step]
  /\ job'   = [job EXCEPT ![h] = j]
  /\ uses'  = [uses EXCEPT ![h] = things]
  /\ raced' = raced \cup (things \cap (Others(h) \cup Selling))
  /\ UNCHANGED <<timetable, seating, stretched>>

Goto(h, step) ==
  /\ pc' = [pc EXCEPT ![h] = step]
  /\ UNCHANGED <<job, uses, raced, requests>>

Finish(h) ==
  /\ pc'   = [pc EXCEPT ![h] = "idle"]
  /\ job'  = [job EXCEPT ![h] = NoJob]
  /\ uses' = [uses EXCEPT ![h] = {}]
  /\ UNCHANGED <<raced, requests>>

\* Mutant: a deletion that leaves the reservations behind.
DropShowtimesOnly(S) ==
  /\ show' = [s \in Showtimes |-> IF s \in S THEN NoRow ELSE show[s]]
  /\ UNCHANGED <<used, seating>>

\* The rows of S are deleted, with their reservations; the holds are in Redis.
DropShowtimes(S) ==
  /\ show'     = [s \in Showtimes |-> IF s \in S THEN NoRow ELSE show[s]]
  /\ reserved' = [s \in Showtimes |-> IF s \in S THEN {} ELSE reserved[s]]
  /\ UNCHANGED <<used, held>>

-----------------------------------------------------------------------------
(* Creating showtimes: createShowtime is a batch of one.  A candidate that *)
(* finds the hall taken is skipped, which for the one of createShowtime    *)
(* ends the operation with a conflict.                                     *)

StartCreating(h, x, m, candidates) ==
  /\ cinema = "ACTIVE" /\ hall[x] = "ACTIVE"
  /\ Begin(h, [NoJob EXCEPT !.op = "create", !.on = HallOf(x), !.movie = m,
                            !.left = candidates],
           "look", {HallOf(x)})

CreateShowtime(h, x, m, start) ==
  /\ start \in Release[m]
  /\ StartCreating(h, x, m, {start})

\* The slots of a day must be as far apart as a showtime is long.
ValidSlots(slots, m) ==
  /\ slots # {}
  /\ \A a, b \in slots : a < b => b - a >= Runtime[m] + Buffer

\* The days from first to last, or those of them that weekdays selects.  The
\* slots are checked within a day only; a showtime may run past midnight.
BatchCreateShowtimes(h, x, m, first, last, days, slots) ==
  /\ ValidSlots(slots, m)
  /\ (first * DayLength) .. ((last + 1) * DayLength - 1) \subseteq Release[m]
  /\ days # {}
  /\ StartCreating(h, x, m, {d * DayLength + t : d \in days, t \in slots})

\* The candidates of the earliest day come first.
NextCandidates(h) ==
  {c \in job[h].left : \A d \in job[h].left : c \div DayLength <= d \div DayLength}

\* findFirst of a conflicting showtime, cancelled ones included.
CheckConflict(h, c) ==
  LET rest == job[h].left \ {c} IN
  /\ pc[h] = "look" /\ c \in NextCandidates(h)
  /\ IF Conflict(job[h].on[2], c, EndOf(c, job[h].movie), {})
     THEN IF rest = {} THEN Finish(h)
          ELSE /\ job' = [job EXCEPT ![h].left = rest]
               /\ UNCHANGED <<pc, uses, raced, requests>>
     ELSE /\ pc'  = [pc EXCEPT ![h] = "insert"]
          /\ job' = [job EXCEPT ![h].left = rest,
                                ![h].row = Row(job[h].on[2], job[h].movie, c,
                                               EndOf(c, job[h].movie))]
          /\ UNCHANGED <<uses, raced, requests>>
  /\ UNCHANGED <<timetable, seating, stretched>>

\* The insert fails on the foreign key when the hall was deleted meanwhile.
InsertShowtime(h, s) ==
  /\ pc[h] = "insert" /\ s \notin used
  /\ IF hall[job[h].row.hall] \in {"none", "gone"}
     THEN Finish(h) /\ UNCHANGED <<show, used>>
     ELSE /\ show' = [show EXCEPT ![s] = job[h].row]
          /\ used' = used \cup {s}
          /\ IF job[h].left = {} THEN Finish(h) ELSE Goto(h, "look")
  /\ UNCHANGED <<cinema, hall, seating, stretched>>

-----------------------------------------------------------------------------
(* updateShowtime.                                                         *)

\* It will write all of the row back, so it uses the row, the seats that
\* must not be sold, and the hall it moves to or keeps.
StartUpdate(h, s, r) ==
  /\ Exists(s)
  /\ Begin(h, [NoJob EXCEPT !.op = "update", !.on = RowOf(s), !.change = r, !.row = show[s]],
           "count", {RowOf(s), SeatsOf(s)} \cup
                    (IF Moves(r) THEN {HallOf(Or(r.hall, show[s].hall))} ELSE {}))

CountReservations(h) ==
  LET s == job[h].on[2] IN
  /\ pc[h] = "count"
  /\ IF job[h].op = "cancel"
     THEN /\ job' = [job EXCEPT ![h].sold = reserved[s] # {}]
          /\ pc'  = [pc EXCEPT ![h] = "holds"]
          /\ UNCHANGED <<uses, raced, requests>>
     ELSE IF ~Moves(job[h].change) THEN Goto(h, "write")
     ELSE IF reserved[s] # {} THEN Finish(h)
     ELSE Goto(h, "move")
  /\ UNCHANGED <<timetable, seating, stretched>>

\* The row an update writes: what it was asked, and what it read for the rest.
\* The end is computed anew, without the buffer.
Updated(h) ==
  LET old == job[h].row
      r   == job[h].change
      m   == Or(r.movie, old.movie)
      t   == Or(r.start, old.start)
  IN [hall   |-> Or(r.hall, old.hall), movie |-> m, start |-> t,
      end    |-> t + Runtime[m],       status |-> Or(r.status, old.status)]

\* Only a new time or a new hall is checked.
CheckMove(h) ==
  LET new == Updated(h) IN
  /\ pc[h] = "move"
  /\ IF Conflict(new.hall, new.start, new.end, {job[h].on[2]})
     THEN Finish(h) ELSE Goto(h, "write")
  /\ UNCHANGED <<timetable, seating, stretched>>

\* The update by id; the row, or the hall, may be gone.
WriteShowtime(h) ==
  LET s   == job[h].on[2]
      new == Updated(h)
  IN
  /\ pc[h] = "write"
  /\ IF Exists(s) /\ hall[new.hall] \notin {"none", "gone"}
     THEN /\ show' = [show EXCEPT ![s] = new]
          /\ stretched' = IF Moves(job[h].change) THEN stretched \ {s}
                          ELSE IF new.movie # job[h].row.movie THEN stretched \cup {s}
                          ELSE stretched
     ELSE UNCHANGED <<show, stretched>>
  /\ Finish(h)
  /\ UNCHANGED <<cinema, hall, used, seating>>

-----------------------------------------------------------------------------
(* cancelShowtime: a showtime with reservations becomes CANCELLED, one     *)
(* without is deleted; held seats prevent both.                            *)

StartCancel(h, s) ==
  /\ Exists(s)
  /\ Begin(h, [NoJob EXCEPT !.op = "cancel", !.on = RowOf(s)],
           "count", {RowOf(s), SeatsOf(s)})

\* Mutant: held seats are not looked at.
CheckHoldsIgnored(h) ==
  /\ pc[h] = "holds"
  /\ Goto(h, IF job[h].sold THEN "mark" ELSE "delete")
  /\ UNCHANGED <<timetable, seating, stretched>>

CheckHolds(h) ==
  /\ pc[h] = "holds"
  /\ IF held[job[h].on[2]] # {} THEN Finish(h)
     ELSE Goto(h, IF job[h].sold THEN "mark" ELSE "delete")
  /\ UNCHANGED <<timetable, seating, stretched>>

MarkCancelled(h) ==
  LET s == job[h].on[2] IN
  /\ pc[h] = "mark"
  /\ show' = IF Exists(s) THEN [show EXCEPT ![s].status = "CANCELLED"] ELSE show
  /\ Finish(h)
  /\ UNCHANGED <<cinema, hall, used, seating, stretched>>

DeleteShowtime(h) ==
  /\ pc[h] = "delete"
  /\ DropShowtimes({job[h].on[2]})
  /\ Finish(h)
  /\ UNCHANGED <<cinema, hall, stretched>>

-----------------------------------------------------------------------------
(* Halls and the cinema.                                                   *)

StartCreateHall(h, x) ==
  /\ cinema = "ACTIVE" /\ hall[x] = "none"
  /\ Begin(h, [NoJob EXCEPT !.op = "createHall", !.on = HallOf(x)], "insertHall", {Cinema})

InsertHall(h) ==
  /\ pc[h] = "insertHall"
  /\ hall' = IF cinema = "gone" \/ hall[job[h].on[2]] # "none" THEN hall
             ELSE [hall EXCEPT ![job[h].on[2]] = "ACTIVE"]
  /\ Finish(h)
  /\ UNCHANGED <<cinema, show, used, seating, stretched>>

\* updateHall and updateCinema: new showtimes need an active hall.
SetHallStatus(x) ==
  /\ hall[x] \in {"ACTIVE", "INACTIVE"}
  /\ Count
  /\ hall' = [hall EXCEPT ![x] = IF @ = "ACTIVE" THEN "INACTIVE" ELSE "ACTIVE"]
  /\ UNCHANGED <<cinema, show, used, seating, pc, job, uses, raced, stretched>>

SetCinemaStatus ==
  /\ cinema \in {"ACTIVE", "INACTIVE"}
  /\ Count
  /\ cinema' = IF cinema = "ACTIVE" THEN "INACTIVE" ELSE "ACTIVE"
  /\ UNCHANGED <<hall, show, used, seating, pc, job, uses, raced, stretched>>

\* The counts of deleteHall: a reservation has a showtime, so one count tells.
StartDeleteHall(h, x) ==
  /\ hall[x] \in {"ACTIVE", "INACTIVE"}
  /\ \A s \in Showtimes : show[s].hall # x
  /\ Begin(h, [NoJob EXCEPT !.op = "deleteHall", !.on = HallOf(x)], "dropHall", {HallOf(x)})

DropHall(h) ==
  LET x == job[h].on[2] IN
  /\ pc[h] = "dropHall"
  /\ IF hall[x] = "gone" THEN UNCHANGED <<timetable, seating>>
     ELSE /\ hall' = [hall EXCEPT ![x] = "gone"]
          /\ DropShowtimes({s \in Showtimes : show[s].hall = x})
          /\ UNCHANGED cinema
  /\ Finish(h)
  /\ UNCHANGED stretched

StartDeleteCinema(h) ==
  /\ cinema # "gone"
  /\ \A x \in Halls : hall[x] \in {"none", "gone"}
  /\ Begin(h, [NoJob EXCEPT !.op = "deleteCinema"], "dropCinema", {Cinema})

DropCinema(h) ==
  /\ pc[h] = "dropCinema"
  /\ cinema' = "gone"
  /\ hall' = [x \in Halls |-> IF hall[x] = "none" THEN "none" ELSE "gone"]
  /\ DropShowtimes(Showtimes)
  /\ Finish(h)
  /\ UNCHANGED stretched

-----------------------------------------------------------------------------
(* Customers.  A hold asks only whether the seat has a hold: it may name a *)
(* showtime that is gone or sold out.  Whoever holds a seat may pay for it,*)
(* also after the hold has expired.                                        *)

Hold(s, seat) ==
  /\ Count
  /\ seat \notin held[s]
  /\ held'  = [held EXCEPT ![s] = @ \cup {seat}]
  /\ raced' = raced \cup ({SeatsOf(s)} \cap UNION {uses[g] : g \in Handlers})
  /\ UNCHANGED <<timetable, reserved, pc, job, uses, stretched>>

\* The key expires, or the customer releases the seat.
Unhold(s, seat) ==
  /\ seat \in held[s]
  /\ held' = [held EXCEPT ![s] = @ \ {seat}]
  /\ UNCHANGED <<timetable, reserved, control, stretched>>

\* booking.confirmed: the hold is consumed, and the reservation is created
\* in a later query, if there still is a showtime.
ConsumeHold(h, s, seat) ==
  /\ pc[h] = "idle" /\ s \in used /\ Count
  /\ held'  = [held EXCEPT ![s] = @ \ {seat}]
  /\ pc'    = [pc EXCEPT ![h] = "reserve"]
  /\ job'   = [job EXCEPT ![h] = [NoJob EXCEPT !.op = "sale", !.on = SeatsOf(s), !.seat = seat]]
  /\ raced' = raced \cup ({SeatsOf(s)} \cap Others(h))
  /\ UNCHANGED <<timetable, reserved, uses, stretched>>

CreateSeatReservation(h) ==
  LET s == job[h].on[2] IN
  /\ pc[h] = "reserve"
  /\ reserved' = IF Exists(s) THEN [reserved EXCEPT ![s] = @ \cup {job[h].seat}] ELSE reserved
  /\ Finish(h)
  /\ UNCHANGED <<timetable, held, stretched>>

\* RELEASE_SEATS, after a refund.
ReleaseSeat(s, seat) ==
  /\ seat \in reserved[s]
  /\ reserved' = [reserved EXCEPT ![s] = @ \ {seat}]
  /\ UNCHANGED <<timetable, held, control, stretched>>

\* A promise is rejected, or the service restarts.
Abort(h) ==
  /\ pc[h] # "idle"
  /\ Finish(h)
  /\ UNCHANGED <<timetable, seating, stretched>>

-----------------------------------------------------------------------------

Request(h) ==
  /\ pc[h] = "idle" /\ requests < MaxRequests
  /\ \/ \E x \in Halls, m \in Movies :
          \/ \E start \in Times : CreateShowtime(h, x, m, start)
          \/ \E first, last \in 0 .. (Days - 1), slots \in SUBSET (0 .. (DayLength - 1)) :
               \E days \in SUBSET (first .. last) :
                 BatchCreateShowtimes(h, x, m, first, last, days, slots)
     \/ \E s \in Showtimes : (\E r \in Changes : StartUpdate(h, s, r)) \/ StartCancel(h, s)
     \/ \E x \in Halls : StartCreateHall(h, x) \/ StartDeleteHall(h, x)
     \/ StartDeleteCinema(h)

Proceed(h) ==
  \/ \E c \in Times : CheckConflict(h, c)
  \/ \E s \in Showtimes : InsertShowtime(h, s)
  \/ CountReservations(h) \/ CheckMove(h) \/ WriteShowtime(h)
  \/ CheckHolds(h) \/ MarkCancelled(h) \/ DeleteShowtime(h)
  \/ InsertHall(h) \/ DropHall(h) \/ DropCinema(h)
  \/ CreateSeatReservation(h)

Customer ==
  \/ \E s \in Showtimes, seat \in Seats :
       Hold(s, seat) \/ Unhold(s, seat) \/ ReleaseSeat(s, seat)
  \/ \E h \in Handlers, s \in Showtimes, seat \in Seats : ConsumeHold(h, s, seat)

Next ==
  \/ \E h \in Handlers : Request(h) \/ Proceed(h) \/ Abort(h)
  \/ \E x \in Halls : SetHallStatus(x)
  \/ SetCinemaStatus
  \/ Customer

Spec == Init /\ [][Next]_vars

-----------------------------------------------------------------------------
(* Properties.                                                             *)

Rows == [hall : Halls, movie : Movies, start : Times, end : Nat, status : Statuses]

\* Every row is in a hall of the cinema, and only rows have reservations: a
\* deletion takes along everything below (the foreign keys of the schema).
TypeOK ==
  /\ cinema \in {"ACTIVE", "INACTIVE", "gone"}
  /\ hall \in [Halls -> {"none", "ACTIVE", "INACTIVE", "gone"}]
  /\ show \in [Showtimes -> Rows \cup {NoRow}]
  /\ used \subseteq Showtimes
  /\ held \in [Showtimes -> SUBSET Seats]
  /\ reserved \in [Showtimes -> SUBSET Seats]
  /\ requests \in 0 .. MaxRequests
  /\ raced \subseteq Things /\ stretched \subseteq Showtimes
  /\ uses \in [Handlers -> SUBSET Things]
  /\ \A s \in Showtimes :
       IF Exists(s) THEN s \in used /\ hall[show[s].hall] \in {"ACTIVE", "INACTIVE"}
       ELSE reserved[s] = {}
  /\ cinema = "gone" => \A x \in Halls : hall[x] \in {"none", "gone"}

\* Two showtimes overlap in a hall only if an operation overlapped another on
\* that hall or on one of the two rows, or if one of them had its movie
\* replaced, which computes a new end and does not look at the hall
\* (showtime-command.service.ts:367).  In particular the ends that an update
\* computes without the buffer, and batches that run past midnight, are safe.
HallNotDoubleBooked ==
  \A s, t \in Showtimes :
    (/\ s # t /\ Exists(s) /\ show[s].hall = show[t].hall
     /\ Overlap(show[s].start, show[s].end, show[t].start, show[t].end))
    => \/ {s, t} \cap stretched # {}
       \/ {HallOf(show[s].hall), RowOf(s), RowOf(t)} \cap raced # {}

Place(s) == <<show[s].hall, show[s].start>>

\* A showtime with a reserved seat is neither deleted nor moved, and one with a
\* held seat is not deleted, unless the operation overlapped the sale, or the
\* creation of what it deletes (the counts of cancelShowtime, updateShowtime,
\* deleteHall and deleteCinema are not in a transaction with the deletion).
SoldShowtimeIsKept ==
  [][\A s \in Showtimes :
       (Exists(s) /\ {SeatsOf(s), HallOf(show[s].hall), Cinema} \cap raced' = {})
       => /\ reserved[s] # {} => Place(s)' = Place(s)
          /\ held[s] # {}     => Exists(s)']_vars
=============================================================================
