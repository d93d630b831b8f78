------------------------------ MODULE SeatSale ------------------------------
(***************************************************************************)
(* The way of a seat from the browser of a customer to a ticket: the seat  *)
(* map of the web client (booking-store.ts), the relay of the gateway, the *)
(* holds and reservations of the cinema service, and the tickets of the    *)
(* bookings.  It composes what SeatHold, BookingPayment and Refund model   *)
(* in detail, for one showtime.                                            *)
(*                                                                         *)
(* A client shows what it read when it loaded, changed by the events it    *)
(* got since.  Its clicks travel to the cinema service by Redis pub/sub,   *)
(* to every replica, and are handled without waiting for one another: a    *)
(* step of a handler is one await.  Events travel back in the order in     *)
(* which they are published.  Messages may be lost.                        *)
(*                                                                         *)
(* Redis and the tables are written in some order and the events about it  *)
(* published in another; history variables record where the two differ.    *)
(* The limit of holds and the switch of showtimes are in SeatHold, the     *)
(* payment in BookingPayment, the refund in Refund.                        *)
(***************************************************************************)
EXTENDS Integers, Sequences, FiniteSets

CONSTANTS Users, Seats,
          Handlers,   \* messages that may be handled at a time
          Nobody,     \* no user
          Replicas,   \* how many replicas of the cinema service get a message
          MaxClicks,  \* bound: the clicks on seats
          MaxLoads    \* bound: how often a page is loaded

ASSUME SaleAssumption ==
  /\ Nobody \notin Users
  /\ {Replicas, MaxClicks, MaxLoads} \subseteq Nat

VARIABLES
  \* the web client of user u
  conn,      \* conn[u]: what is left to do until it follows the events
  status,    \* status[u][s]: what the map shows
  mine,      \* mine[u]: the seats that are shown as held by u
  selected,  \* selected[u]: the seats u has chosen
  inbox,     \* inbox[u]: the events on their way to it
  clicks, loads,
  \* the cinema service
  holder,    \* holder[s]: the value of the key of seat s
  listing,   \* listing[u]: the seats in the set of u
  older,     \* the seats whose key ends before the set of its holder, because
             \* a later hold gave the set its full time again
  reserved,  \* SeatReservations
  due,       \* due[r]: how often request r will still be received
  pc, job,   \* the handlers: the next await, and what they handle
  \* the booking of user u
  booking,   \* booking[u]: its status, or the next step of updateBooking
  tickets,   \* tickets[u]: the seats of its tickets, VALID once it is paid
  found,     \* found[u]: the seats updateBooking has read from the set
  early,     \* early[u]: those of them whose key ended before the set did then
  window,    \* window[u]: expires_at of the booking lies ahead
  \* history
  wrote,     \* wrote[h]: the seats that h has changed and not yet announced
  unseen,    \* unseen[u]: the seats that changed without the client of u being
             \* told, or being told in this order
  since,     \* since[u]: the seats that u has held since updateBooking, which is
             \* in progress, read the set
  kept       \* kept[u]: the seats that u has held since the updateBooking that
             \* wrote the tickets read the set, until the booking was paid

client  == <<conn, status, mine, selected, inbox, clicks, loads>>
redis   == <<holder, listing, older>>
service == <<reserved, due, pc, job>>
booked  == <<booking, tickets, found, early, window>>
history == <<wrote, unseen, since, kept>>
vars    == <<client, redis, service, booked, history>>

Requests == [kind : {"hold", "release"}, user : Users, seats : {{s} : s \in Seats}]
            \cup [kind : {"booked"}, user : Users, seats : {{}}]
NoJob    == [kind |-> "none", user |-> Nobody, seats |-> {}]

Init ==
  /\ conn      = [u \in Users |-> "away"]
  /\ status    = [u \in Users |-> [s \in Seats |-> "AVAILABLE"]]
  /\ mine      = [u \in Users |-> {}]
  /\ selected  = [u \in Users |-> {}]
  /\ inbox     = [u \in Users |-> <<>>]
  /\ clicks    = 0 /\ loads = 0
  /\ holder    = [s \in Seats |-> Nobody]
  /\ listing   = [u \in Users |-> {}]
  /\ older     = {}
  /\ reserved  = {}
  /\ due       = [r \in Requests |-> 0]
  /\ pc        = [h \in Handlers |-> "idle"]
  /\ job       = [h \in Handlers |-> NoJob]
  /\ booking   = [u \in Users |-> "PENDING"]
  /\ tickets   = [u \in Users |-> {}]
  /\ found     = [u \in Users |-> {}]
  /\ early     = [u \in Users |-> {}]
  /\ window    = [u \in Users |-> FALSE]
  /\ wrote     = [h \in Handlers |-> {}]
  /\ unseen    = [u \in Users |-> {}]
  /\ since     = [u \in Users |-> {}]
  /\ kept      = [u \in Users |-> {}]

-----------------------------------------------------------------------------
(* History.                                                                *)

\* Changed by handlers that have not announced it.
Unannounced(H) == UNION {wrote[h] : h \in H}

\* Handler h changes the seats of S, and will announce it.
Writes(h, S) ==
  /\ wrote'  = [wrote EXCEPT ![h] = @ \cup S]
  /\ unseen' = [u \in Users |-> (unseen[u] \ S) \cup (S \cap Unannounced(Handlers \ {h}))]

\* The seats of S change, and nobody is told.
ChangesSilently(S) ==
  /\ unseen' = [u \in Users |-> unseen[u] \cup S]
  /\ UNCHANGED wrote

\* The keys become holder': who lost a seat has not kept it to the payment.
UpdateKept ==
  /\ since' = [u \in Users |-> {s \in since[u] : holder'[s] = u}]
  /\ kept' = [u \in Users |-> {s \in kept[u] : booking[u] = "CONFIRMED" \/ holder'[s] = u}]

-----------------------------------------------------------------------------
(* The web client.                                                         *)

\* The page loads, for the first time or again; the socket is closed.
Load(u) ==
  /\ conn[u] \in {"away", "joined"} /\ loads < MaxLoads
  /\ loads'    = loads + 1
  /\ conn'     = [conn EXCEPT ![u] = "loading"]
  /\ status'   = [status EXCEPT ![u] = [s \in Seats |-> "AVAILABLE"]]
  /\ mine'     = [mine EXCEPT ![u] = {}]
  /\ selected' = [selected EXCEPT ![u] = {}]
  /\ inbox'    = [inbox EXCEPT ![u] = <<>>]
  /\ unseen'   = [unseen EXCEPT ![u] = Unannounced(Handlers)]
  /\ UNCHANGED <<clicks, redis, service, booked, wrote, since, kept>>

\* getShowtimeSeats reads the reservations and the holds in one Promise.all,
\* in any order; the socket is connected when both are there.
ReadReservations(u) ==
  /\ conn[u] \in {"loading", "holdsRead"}
  /\ conn'   = [conn EXCEPT ![u] = IF @ = "loading" THEN "reservationsRead" ELSE "loaded"]
  /\ status' = [status EXCEPT ![u] = [s \in Seats |->
                  IF s \in reserved THEN "CONFIRMED" ELSE status[u][s]]]
  /\ UNCHANGED <<mine, selected, inbox, clicks, loads, redis, service, booked, history>>

ReadHolds(u) ==
  /\ conn[u] \in {"loading", "reservationsRead"}
  /\ conn'     = [conn EXCEPT ![u] = IF @ = "loading" THEN "holdsRead" ELSE "loaded"]
  /\ status'   = [status EXCEPT ![u] = [s \in Seats |->
                    IF status[u][s] # "CONFIRMED" /\ holder[s] # Nobody THEN "HELD"
                    ELSE status[u][s]]]
  /\ mine'     = [mine EXCEPT ![u] = listing[u]]
  /\ selected' = [selected EXCEPT ![u] = listing[u]]
  /\ UNCHANGED <<inbox, clicks, loads, redis, service, booked, history>>

\* connectSocket: the gateway joins the client to the room of the showtime.
Join(u) ==
  /\ conn[u] = "loaded"
  /\ conn' = [conn EXCEPT ![u] = "joined"]
  /\ UNCHANGED <<status, mine, selected, inbox, clicks, loads, redis, service, booked, history>>

\* toggleSeat: the choice is shown at once, and sent.
ToggleSeat(u, s) ==
  LET kind == IF s \in selected[u] THEN "release" ELSE "hold" IN
  /\ conn[u] = "joined" /\ clicks < MaxClicks
  /\ status[u][s] # "CONFIRMED"
  /\ status[u][s] = "HELD" => s \in mine[u]
  /\ clicks'   = clicks + 1
  /\ selected' = [selected EXCEPT ![u] = IF s \in @ THEN @ \ {s} ELSE @ \cup {s}]
  /\ due' = [due EXCEPT ![[kind |-> kind, user |-> u, seats |-> {s}]] = @ + Replicas]
  /\ UNCHANGED <<conn, status, mine, inbox, loads, redis, reserved, pc, job, booked, history>>

\* seat_held, seat_released, seat_booked.
ReceiveEvent(u) ==
  LET e == Head(inbox[u]) IN
  /\ conn[u] = "joined" /\ inbox[u] # <<>>
  /\ inbox'  = [inbox EXCEPT ![u] = Tail(@)]
  /\ status' = [status EXCEPT ![u] = [s \in Seats |->
                  IF s \notin e.seats THEN status[u][s]
                  ELSE CASE e.kind = "hold"    -> "HELD"
                         [] e.kind = "release" -> "AVAILABLE"
                         [] e.kind = "booked"  -> "CONFIRMED"]]
  /\ mine'   = CASE e.kind = "booked"                  -> mine
                 [] e.kind = "hold" /\ e.user = u      -> [mine EXCEPT ![u] = @ \cup e.seats]
                 [] e.kind = "release" \/ (e.kind = "hold" /\ e.user # u)
                                                       -> [mine EXCEPT ![u] = @ \ e.seats]
  /\ selected' = IF e.kind = "booked" THEN [selected EXCEPT ![u] = @ \ e.seats] ELSE selected
  /\ UNCHANGED <<conn, clicks, loads, redis, service, booked, history>>

-----------------------------------------------------------------------------
(* The cinema service.                                                     *)

Goto(h, step) == pc' = [pc EXCEPT ![h] = step] /\ UNCHANGED job

\* Mutant: a handler that is done is not freed of its message.
FinishKeepsJob(h) == pc' = [pc EXCEPT ![h] = "idle"] /\ UNCHANGED job

Finish(h) ==
  /\ pc'  = [pc EXCEPT ![h] = "idle"]
  /\ job' = [job EXCEPT ![h] = NoJob]

\* A replica receives request r; it is at its first await, which is step.
Receive(h, r, step) ==
  /\ pc[h] = "idle" /\ due[r] > 0
  /\ due' = [due EXCEPT ![r] = @ - 1]
  /\ pc'  = [pc EXCEPT ![h] = step]
  /\ job' = [job EXCEPT ![h] = r]

\* The job of h is announced as an event of its kind, and the gateway relays it
\* to the clients in the room.  An event about the hold of a reserved seat is
\* not what the seat map would show.
Publish(h) ==
  LET e == job[h]
      overruled == IF e.kind = "booked" THEN {} ELSE e.seats \cap reserved
  IN
  /\ inbox'  = [u \in Users |-> IF conn[u] = "joined" THEN Append(inbox[u], e) ELSE inbox[u]]
  /\ unseen' = [u \in Users |-> unseen[u] \cup
                  IF conn[u] = "joined" THEN overruled ELSE e.seats]
  /\ wrote'  = [wrote EXCEPT ![h] = @ \ e.seats]
  /\ UNCHANGED <<conn, status, mine, selected, clicks, loads, redis, reserved, due, booked>>
  /\ UNCHANGED <<since, kept>>

\* handleHoldSeat: EXISTS, and the hold one await later.
CheckSeatFree(h, r) ==
  /\ r.kind = "hold"
  /\ \A s \in r.seats : holder[s] = Nobody
  /\ Receive(h, r, "write")
  /\ UNCHANGED <<client, redis, reserved, booked, history>>

\* The seat is held already: the request has no answer.
IgnoreHold(r) ==
  /\ r.kind = "hold" /\ due[r] > 0
  /\ \E s \in r.seats : holder[s] # Nobody
  /\ due' = [due EXCEPT ![r] = @ - 1]
  /\ UNCHANGED <<client, redis, reserved, pc, job, booked, history>>

WriteHold(h) ==
  LET u == job[h].user
      S == job[h].seats
  IN
  /\ pc[h] = "write"
  /\ holder'  = [s \in Seats |-> IF s \in S THEN u ELSE holder[s]]
  /\ listing' = [listing EXCEPT ![u] = @ \cup S]
  /\ older'   = (older \cup {s \in Seats : holder[s] = u}) \ S
  /\ Goto(h, "publish")
  /\ Writes(h, S) /\ UpdateKept
  /\ UNCHANGED <<client, reserved, due, booked>>

\* handleReleaseSeat and handleSeatBooked delete the key whoever holds it.
DeleteKeys(h, u, S) ==
  /\ holder'  = [s \in Seats |-> IF s \in S THEN Nobody ELSE holder[s]]
  /\ listing' = [listing EXCEPT ![u] = @ \ S]
  /\ older'   = older \ S
  /\ Writes(h, S) /\ UpdateKept

ReleaseSeat(h, r) ==
  /\ r.kind = "release"
  /\ Receive(h, r, "publish")
  /\ DeleteKeys(h, r.user, r.seats)
  /\ UNCHANGED <<client, reserved, booked>>

PublishHeldOrReleased(h) ==
  /\ pc[h] = "publish"
  /\ Publish(h)
  /\ IF job[h].kind = "hold" THEN Finish(h) ELSE Goto(h, "remaining")

AfterRemaining(h) == IF job[h].kind = "booked" THEN Goto(h, "reserve") ELSE Finish(h)

\* SCARD, and DEL of the set one await later.
CheckRemaining(h) ==
  /\ pc[h] = "remaining"
  /\ IF listing[job[h].user] = {} THEN Goto(h, "drop") ELSE AfterRemaining(h)
  /\ UNCHANGED <<client, redis, reserved, due, booked, history>>

DropListing(h) ==
  /\ pc[h] = "drop"
  /\ listing' = [listing EXCEPT ![job[h].user] = {}]
  /\ AfterRemaining(h)
  /\ UNCHANGED <<client, holder, older, reserved, due, booked, history>>

\* handleSeatBooked: the holds of the tickets are consumed one by one ...
ConsumeSeat(h, s) ==
  LET done == job[h].seats \cup {s} IN
  /\ pc[h] = "consume" /\ s \in tickets[job[h].user] \ job[h].seats
  /\ DeleteKeys(h, job[h].user, {s})
  /\ job' = [job EXCEPT ![h].seats = done]
  /\ pc'  = [pc EXCEPT ![h] = IF done = tickets[job[h].user] THEN "remaining" ELSE "consume"]
  /\ UNCHANGED <<client, reserved, due, booked>>

StartBooked(h, r) ==
  /\ r.kind = "booked"
  /\ Receive(h, r, "consume")
  /\ UNCHANGED <<client, redis, reserved, booked, history>>

\* Mutant: only the keys are consumed.
ReserveForgotten(h) ==
  /\ pc[h] = "reserve"
  /\ Goto(h, "publishBooked")
  /\ UNCHANGED <<client, redis, reserved, due, booked, history>>

\* ... the reservations are created, but for those that exist ...
Reserve(h) ==
  /\ pc[h] = "reserve"
  /\ reserved' = reserved \cup job[h].seats
  /\ Goto(h, "publishBooked")
  /\ Writes(h, job[h].seats)
  /\ UNCHANGED <<client, redis, due, booked, since, kept>>

\* ... and everybody is told.
PublishBooked(h) ==
  /\ pc[h] = "publishBooked"
  /\ Publish(h)
  /\ Finish(h)

\* A promise is rejected, or the service restarts.
Abort(h) ==
  /\ pc[h] # "idle"
  /\ Finish(h)
  /\ wrote'  = [wrote EXCEPT ![h] = {}]
  /\ unseen' = [u \in Users |-> unseen[u] \cup wrote[h]]
  /\ UNCHANGED <<client, redis, reserved, due, booked, since, kept>>

\* Nothing expires during an updateBooking: it is short.
Updating(u) == booking[u] \in {"checking", "writing"}

\* A set ends together with the keys it was renewed with, and not before an
\* expires_at that was computed from its time.
ExpireSession(u) ==
  LET S == {s \in Seats : holder[s] = u} IN
  /\ ~window[u] /\ ~Updating(u)
  /\ listing[u] # {} \/ S # {}
  /\ holder'  = [s \in Seats |-> IF s \in S THEN Nobody ELSE holder[s]]
  /\ listing' = [listing EXCEPT ![u] = {}]
  /\ older'   = older \ S
  /\ ChangesSilently(S) /\ UpdateKept
  /\ UNCHANGED <<client, service, booked>>

\* The key of a seat that was held earlier than others ends earlier.
ExpireSeat(s) ==
  /\ s \in older
  /\ ~Updating(holder[s])
  /\ window[holder[s]] => s \in early[holder[s]]
  /\ holder' = [holder EXCEPT ![s] = Nobody]
  /\ older'  = older \ {s}
  /\ ChangesSilently({s}) /\ UpdateKept
  /\ UNCHANGED <<client, listing, service, booked>>

-----------------------------------------------------------------------------
(* The booking.  A payment that overlaps an updateBooking of the same       *)
(* booking is in BookingPayment.                                            *)

Valid(u) == IF booking[u] \in {"CONFIRMED", "REFUNDED", "RELEASED"} THEN tickets[u] ELSE {}

\* updateBooking: the seats are those in the set; the keys are not read ...
StartUpdate(u) ==
  /\ booking[u] = "PENDING" /\ listing[u] # {}
  /\ booking' = [booking EXCEPT ![u] = "checking"]
  /\ found'   = [found EXCEPT ![u] = listing[u]]
  /\ early'   = [early EXCEPT ![u] = listing[u] \cap older]
  /\ since'   = [since EXCEPT ![u] = {s \in listing[u] : holder[s] = u}]
  /\ UNCHANGED <<client, redis, service, tickets, window, wrote, unseen, kept>>

\* Mutant: sold seats are not refused.
CheckTicketsIgnored(u) ==
  /\ booking[u] = "checking"
  /\ booking' = [booking EXCEPT ![u] = "writing"]
  /\ UNCHANGED <<client, redis, service, tickets, found, early, window, history>>

\* ... a seat with a VALID ticket is refused ...
CheckTickets(u) ==
  /\ booking[u] = "checking"
  /\ LET sold == \E v \in Users : found[u] \cap Valid(v) # {} IN
       /\ booking' = [booking EXCEPT ![u] = IF sold THEN "PENDING" ELSE "writing"]
       /\ since'   = [since EXCEPT ![u] = IF sold THEN {} ELSE @]
  /\ UNCHANGED <<client, redis, service, tickets, found, early, window, wrote, unseen, kept>>

\* ... and the tickets are replaced, CANCELLED until the payment; expires_at is
\* the end of the set.
WriteTickets(u) ==
  /\ booking[u] = "writing"
  /\ booking' = [booking EXCEPT ![u] = "PENDING"]
  /\ tickets' = [tickets EXCEPT ![u] = found[u]]
  /\ window'  = [window EXCEPT ![u] = TRUE]
  /\ kept'    = [kept EXCEPT ![u] = since[u]]
  /\ since'   = [since EXCEPT ![u] = {}]
  /\ UNCHANGED <<client, redis, service, found, early, wrote, unseen>>

\* The time of expires_at.
CloseWindow(u) ==
  /\ window[u]
  /\ window' = [window EXCEPT ![u] = FALSE]
  /\ UNCHANGED <<client, redis, service, booking, tickets, found, early, history>>

\* processPaymentCallback: neither the holds nor other tickets are looked at.
ConfirmPaid(u) ==
  /\ booking[u] = "PENDING" /\ window[u]
  /\ booking' = [booking EXCEPT ![u] = "CONFIRMED"]
  /\ window'  = [window EXCEPT ![u] = FALSE]
  /\ due' = [due EXCEPT ![[kind |-> "booked", user |-> u, seats |-> {}]] = @ + Replicas]
  /\ UNCHANGED <<client, redis, reserved, pc, job, tickets, found, early, history>>

\* The tickets stay VALID.
Refund(u) ==
  /\ booking[u] = "CONFIRMED"
  /\ booking' = [booking EXCEPT ![u] = "REFUNDED"]
  /\ UNCHANGED <<client, redis, service, tickets, found, early, window, history>>

\* RELEASE_SEATS: the reservations are deleted, whosever they are.
DeleteSeatReservations(u) ==
  /\ booking[u] = "REFUNDED"
  /\ booking'  = [booking EXCEPT ![u] = "RELEASED"]
  /\ reserved' = reserved \ tickets[u]
  /\ ChangesSilently(tickets[u])
  /\ UNCHANGED <<client, redis, due, pc, job, tickets, found, early, window, since, kept>>

-----------------------------------------------------------------------------

Client(u) ==
  \/ Load(u) \/ ReadReservations(u) \/ ReadHolds(u) \/ Join(u)
  \/ \E s \in Seats : ToggleSeat(u, s)
  \/ ReceiveEvent(u)

Handle(h) ==
  \/ WriteHold(h) \/ PublishHeldOrReleased(h)
  \/ CheckRemaining(h) \/ DropListing(h)
  \/ \E s \in Seats : ConsumeSeat(h, s)
  \/ Reserve(h) \/ PublishBooked(h)
  \/ Abort(h)
  \/ \E r \in Requests : CheckSeatFree(h, r) \/ ReleaseSeat(h, r) \/ StartBooked(h, r)

Booking(u) ==
  \/ StartUpdate(u) \/ CheckTickets(u) \/ WriteTickets(u) \/ CloseWindow(u)
  \/ ConfirmPaid(u) \/ Refund(u) \/ DeleteSeatReservations(u)

Next ==
  \/ \E u \in Users : Client(u) \/ Booking(u) \/ ExpireSession(u)
  \/ \E h \in Handlers : Handle(h)
  \/ \E r \in Requests : IgnoreHold(r)
  \/ \E s \in Seats : ExpireSeat(s)

Spec == Init /\ [][Next]_vars

-----------------------------------------------------------------------------
(* Properties.                                                             *)

Jobs == [kind : {"hold", "release", "booked"}, user : Users, seats : SUBSET Seats]

TypeOK ==
  /\ conn \in [Users -> {"away", "loading", "holdsRead", "reservationsRead",
                         "loaded", "joined"}]
  /\ status \in [Users -> [Seats -> {"AVAILABLE", "HELD", "CONFIRMED"}]]
  /\ mine \in [Users -> SUBSET Seats] /\ selected \in [Users -> SUBSET Seats]
  /\ inbox \in [Users -> Seq(Jobs)]
  /\ clicks \in 0 .. MaxClicks /\ loads \in 0 .. MaxLoads
  /\ holder \in [Seats -> Users \cup {Nobody}]
  /\ listing \in [Users -> SUBSET Seats]
  /\ older \subseteq {s \in Seats : holder[s] # Nobody}
  /\ reserved \subseteq Seats
  /\ due \in [Requests -> Nat]
  /\ pc \in [Handlers -> {"idle", "write", "publish", "remaining", "drop", "consume",
                          "reserve", "publishBooked"}]
  /\ job \in [Handlers -> Jobs \cup {NoJob}]
  /\ \A h \in Handlers : pc[h] = "idle" <=> job[h] = NoJob
  /\ booking \in [Users -> {"PENDING", "checking", "writing", "CONFIRMED", "REFUNDED",
                            "RELEASED"}]
  /\ tickets \in [Users -> SUBSET Seats] /\ found \in [Users -> SUBSET Seats]
  /\ early \in [Users -> SUBSET Seats] /\ \A u \in Users : early[u] \subseteq found[u]
  /\ window \in [Users -> BOOLEAN]
  /\ \A u \in Users : window[u] => tickets[u] # {}
  /\ wrote \in [Handlers -> SUBSET Seats]
  /\ unseen \in [Users -> SUBSET Seats]
  /\ since \in [Users -> SUBSET Seats] /\ kept \in [Users -> SUBSET Seats]

\* Two paid bookings have a seat in common only if one of the two customers
\* lost the hold of it between the reading of the set by the updateBooking that
\* wrote the tickets and the payment: because it expired, was released, or was
\* overwritten by a hold that overlapped it.  The tickets are checked at
\* booking.service.ts:2049, and nothing is checked at the payment.
NoDoubleSale ==
  \A u, v \in Users : \A s \in tickets[u] \cap tickets[v] :
    (u # v /\ booking[u] = "CONFIRMED" /\ booking[v] = "CONFIRMED")
    => s \notin kept[u] \/ s \notin kept[v]

\* No seat is sold twice (docs/architecture/drivers.md:63).
SeatSoldOnce ==
  \A u, v \in Users :
    (u # v /\ booking[u] = "CONFIRMED" /\ booking[v] = "CONFIRMED")
    => tickets[u] \cap tickets[v] = {}

\* What a load of the seat map would show of seat s.
Shown(s) == IF s \in reserved THEN "CONFIRMED"
            ELSE IF holder[s] # Nobody THEN "HELD" ELSE "AVAILABLE"

\* A client that has received all its events shows every seat as the server
\* has it, but for seats whose change is still to be announced, was announced
\* in another order than it was made, or never was (expiry, refund, a restart,
\* an event before the client had joined the room).
ViewIsTrue ==
  \A u \in Users, s \in Seats :
    (/\ conn[u] = "joined" /\ inbox[u] = <<>>
     /\ s \notin unseen[u] \cup Unannounced(Handlers))
    => status[u][s] = Shown(s)
=============================================================================
