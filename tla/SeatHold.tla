------------------------------ MODULE SeatHold ------------------------------
(***************************************************************************)
(* The seat holds of the cinema service (realtime.service.ts).             *)
(*                                                                         *)
(* A hold is two Redis entries that live and die separately:               *)
(*   hold:showtime:{st}:{s}          the holder of the seat, with a TTL    *)
(*   hold:user:{u}:showtime:{st}     the set of seats of the user, "the    *)
(*                                   listing", whose TTL every new hold    *)
(*                                   starts again                          *)
(* The handlers run when a pub/sub message arrives; the subscriber calls   *)
(* them without awaiting them, so a second message is handled while the    *)
(* first waits for Redis.  Every await is a point where the others run:    *)
(* one step of a handler is one Redis command, or the commands a single    *)
(* Promise.all queues on the service's one connection.                     *)
(*                                                                         *)
(* Pub/sub delivers a message at most once: a lost message is one whose    *)
(* handler never starts, and a message is handled in any order relative    *)
(* to the others.  A handler may stop at any await (Redis or database      *)
(* error, restart of the service).                                         *)
(*                                                                         *)
(* The history variables late and crossed record which handlers, and which *)
(* users, had what they had read overwritten by a hold before they wrote.  *)
(***************************************************************************)
EXTENDS Integers, FiniteSets

CONSTANTS Users,      \* the customers
          Showtimes,  \* the showtimes on sale
          Seats,      \* the seats of the hall
          Handlers,   \* the handlers that may be in progress at the same time
          NoUser,     \* "nobody": the seat key does not exist
          NoJob,      \* the job of a handler that is not in progress
          HoldLimit,  \* HOLD_LIMIT, the seats a user may hold in a showtime
          HoldTtl     \* HOLD_TTL, in ticks of the model's clock

ASSUME ConstantsAssumption ==
  /\ IsFiniteSet(Seats)
  /\ IsFiniteSet(Handlers)
  /\ Handlers # {}
  /\ NoUser \notin Users
  /\ HoldLimit \in Nat \ {0}
  /\ HoldTtl \in Nat \ {0}

VARIABLES
  holder,    \* holder[st][s]: the value of the seat key, NoUser if it is absent
  seatTtl,   \* seatTtl[st][s]: the time the seat key has left, 0 if it is absent
  listing,   \* listing[u][st]: the members of the user key, {} if it is absent
  listTtl,   \* listTtl[u][st]: the time the user key has left, 0 if it is absent
  reserved,  \* reserved[st][s]: the owner of the SeatReservations row
  pc,        \* pc[h]: the await handler h has reached
  job,       \* job[h]: the message handler h works on, and its local variables
  late,      \* history: the handlers about to hold a seat that was taken since
             \* they found it free
  crossed    \* history: the users who got a hold while another handler of theirs
             \* relied on what it had read of their sessions

keys == <<holder, seatTtl, listing, listTtl>>
history == <<late, crossed>>
vars == <<holder, seatTtl, listing, listTtl, reserved, pc, job, history>>

Steps == {"idle", "sessions", "oldSeats", "clearOld", "dropOld", "limit",
          "exists", "write", "release", "booked", "remaining", "dropEmpty",
          "reserve"}

Kinds == {"hold", "release", "booked"}

Jobs == [kind     : Kinds,
         user     : Users,
         showtime : Showtimes,
         seats    : SUBSET Seats,  \* the seats the message names
         todo     : SUBSET Seats,  \* the seats still to consume, or oldSeatIds
         old      : Showtimes]     \* oldShowtimeId

Init ==
  /\ holder   = [st \in Showtimes |-> [s \in Seats |-> NoUser]]
  /\ seatTtl  = [st \in Showtimes |-> [s \in Seats |-> 0]]
  /\ listing  = [u \in Users |-> [st \in Showtimes |-> {}]]
  /\ listTtl  = [u \in Users |-> [st \in Showtimes |-> 0]]
  /\ reserved = [st \in Showtimes |-> [s \in Seats |-> NoUser]]
  /\ pc  = [h \in Handlers |-> "idle"]
  /\ job = [h \in Handlers |-> NoJob]
  /\ late = {}
  /\ crossed = {}

-----------------------------------------------------------------------------
(* Redis commands.                                                         *)

\* DEL of the seat keys of the seats S.
DelSeatKeys(st, S) ==
  /\ holder'  = [holder EXCEPT ![st] =
                   [s \in Seats |-> IF s \in S THEN NoUser ELSE holder[st][s]]]
  /\ seatTtl' = [seatTtl EXCEPT ![st] =
                   [s \in Seats |-> IF s \in S THEN 0 ELSE seatTtl[st][s]]]

\* The user key becomes the set S with the given TTL; Redis drops an empty set.
SetListing(u, st, S, ttl) ==
  /\ listing' = [listing EXCEPT ![u][st] = S]
  /\ listTtl' = [listTtl EXCEPT ![u][st] = IF S = {} THEN 0 ELSE ttl]

\* SREM of the seats S from the user key, whose TTL is left alone.
RemoveFromListing(u, st, S) ==
  SetListing(u, st, listing[u][st] \ S, listTtl[u][st])

\* What KEYS hold:user:{u}:showtime:* finds.
Sessions(u) == {st \in Showtimes : listing[u][st] # {}}

-----------------------------------------------------------------------------
(* Control of a handler.                                                   *)

Start(h, kind, u, st, S, step) ==
  /\ pc[h] = "idle"
  /\ pc'  = [pc EXCEPT ![h] = step]
  /\ job' = [job EXCEPT ![h] = [kind |-> kind, user |-> u, showtime |-> st,
                                seats |-> S, todo |-> S, old |-> st]]
  /\ UNCHANGED <<keys, reserved>>

Goto(h, step) ==
  /\ pc' = [pc EXCEPT ![h] = step]
  /\ UNCHANGED job

Finish(h) ==
  /\ pc'  = [pc EXCEPT ![h] = "idle"]
  /\ job' = [job EXCEPT ![h] = NoJob]

\* The gateway publishes gateway.hold_seat for one seat, with the user id of
\* the socket; the service starts to handle it.
ReceiveHold(h) ==
  \E u \in Users, st \in Showtimes, s \in Seats :
     Start(h, "hold", u, st, {s}, "sessions")

ReceiveRelease(h) ==
  \E u \in Users, st \in Showtimes, s \in Seats :
     Start(h, "release", u, st, {s}, "release")

\* booking.confirmed (or booking.seat_booked) names the seats of a booking; the
\* booking may be older than the holds, so any seats may be named.
ReceiveBooked(h) ==
  \E u \in Users, st \in Showtimes, S \in (SUBSET Seats) \ {{}} :
     Start(h, "booked", u, st, S, "booked")

-----------------------------------------------------------------------------
(* handleHoldSeat and clearOldShowtimeSession.                             *)

\* Mutant: the sessions of other showtimes are not looked for.
ReadSessionsIgnored(h) ==
  /\ pc[h] = "sessions"
  /\ Goto(h, "limit")
  /\ UNCHANGED <<keys, reserved>>

\* KEYS returns the sessions in any order and only the first one is looked at.
ReadSessions(h) ==
  /\ pc[h] = "sessions"
  /\ LET j == job[h] IN
       \/ /\ Sessions(j.user) = {} \/ j.showtime \in Sessions(j.user)
          /\ Goto(h, "limit")
       \/ \E st \in Sessions(j.user) \ {j.showtime} :
            /\ pc'  = [pc EXCEPT ![h] = "oldSeats"]
            /\ job' = [job EXCEPT ![h].old = st]
  /\ UNCHANGED <<keys, reserved>>

ReadOldSeats(h) ==
  /\ pc[h] = "oldSeats"
  /\ LET S == listing[job[h].user][job[h].old] IN
       /\ pc'  = [pc EXCEPT ![h] = IF S = {} THEN "dropOld" ELSE "clearOld"]
       /\ job' = [job EXCEPT ![h].todo = S]
  /\ UNCHANGED <<keys, reserved>>

ClearOldSeats(h) ==
  /\ pc[h] = "clearOld"
  /\ DelSeatKeys(job[h].old, job[h].todo)
  /\ Goto(h, "dropOld")
  /\ UNCHANGED <<listing, listTtl, reserved>>

DropOldSession(h) ==
  /\ pc[h] = "dropOld"
  /\ SetListing(job[h].user, job[h].old, {}, 0)
  /\ Goto(h, "limit")
  /\ UNCHANGED <<holder, seatTtl, reserved>>

\* Mutant: > for >=.
CheckLimitOffByOne(h) ==
  /\ pc[h] = "limit"
  /\ IF Cardinality(listing[job[h].user][job[h].showtime]) > HoldLimit
       THEN Finish(h)
       ELSE Goto(h, "exists")
  /\ UNCHANGED <<keys, reserved>>

\* SMEMBERS user key.
CheckLimit(h) ==
  /\ pc[h] = "limit"
  /\ IF Cardinality(listing[job[h].user][job[h].showtime]) >= HoldLimit
       THEN Finish(h)          \* cinema.seat_limit_reached
       ELSE Goto(h, "exists")
  /\ UNCHANGED <<keys, reserved>>

\* Mutant: the seat key is not looked at.
CheckSeatFreeDropped(h) ==
  /\ pc[h] = "exists"
  /\ Goto(h, "write")
  /\ UNCHANGED <<keys, reserved>>

\* EXISTS seat key.
CheckSeatFree(h) ==
  /\ pc[h] = "exists"
  /\ IF \E s \in job[h].seats : holder[job[h].showtime][s] # NoUser
       THEN Finish(h)          \* already held: silently ignored
       ELSE Goto(h, "write")
  /\ UNCHANGED <<keys, reserved>>

\* The commands of the Promise.all that stores a hold, for given expirations.
WriteHoldFor(h, seatTime, listTime) ==
  /\ pc[h] = "write"
  /\ LET u == job[h].user  st == job[h].showtime  S == job[h].seats IN
       /\ holder'  = [holder EXCEPT ![st] =
                        [s \in Seats |-> IF s \in S THEN u ELSE holder[st][s]]]
       /\ seatTtl' = [seatTtl EXCEPT ![st] =
                        [s \in Seats |-> IF s \in S THEN seatTime
                                                    ELSE seatTtl[st][s]]]
       /\ SetListing(u, st, listing[u][st] \cup S, listTime)
  /\ Finish(h)                 \* cinema.seat_held
  /\ UNCHANGED reserved

\* Mutant: SET without EX.
WriteHoldForEver(h) == WriteHoldFor(h, 0, HoldTtl)

\* Mutant: EXPIRE only when the listing is new.
WriteHoldNoRefresh(h) ==
  WriteHoldFor(h, HoldTtl,
               LET t == listTtl[job[h].user][job[h].showtime]
               IN  IF t = 0 THEN HoldTtl ELSE t)

\* SET seat key EX HOLD_TTL; SADD user key; EXPIRE user key HOLD_TTL.
WriteHold(h) == WriteHoldFor(h, HoldTtl, HoldTtl)

-----------------------------------------------------------------------------
(* handleReleaseSeat and handleSeatBooked.                                 *)

\* DEL seat key, whoever holds it; SREM from the listing of the sender.
ReleaseSeat(h) ==
  /\ pc[h] = "release"
  /\ DelSeatKeys(job[h].showtime, job[h].seats)
  /\ RemoveFromListing(job[h].user, job[h].showtime, job[h].seats)
  /\ Goto(h, "remaining")
  /\ UNCHANGED reserved

\* One turn of the loop over seatIds.
ConsumeSeat(h) ==
  /\ pc[h] = "booked"
  /\ \E s \in job[h].todo :
       /\ DelSeatKeys(job[h].showtime, {s})
       /\ RemoveFromListing(job[h].user, job[h].showtime, {s})
       /\ pc'  = [pc EXCEPT ![h] = IF job[h].todo = {s} THEN "remaining"
                                                        ELSE "booked"]
       /\ job' = [job EXCEPT ![h].todo = @ \ {s}]
  /\ UNCHANGED reserved

\* What follows the check of the remaining seats.
AfterRemaining(h) ==
  IF job[h].kind = "booked" THEN Goto(h, "reserve") ELSE Finish(h)

\* SCARD user key.
CheckRemaining(h) ==
  /\ pc[h] = "remaining"
  /\ IF listing[job[h].user][job[h].showtime] = {} THEN Goto(h, "dropEmpty")
                                                   ELSE AfterRemaining(h)
  /\ UNCHANGED <<keys, reserved>>

\* DEL user key, though it may have been filled again since the SCARD.
DropListing(h) ==
  /\ pc[h] = "dropEmpty"
  /\ SetListing(job[h].user, job[h].showtime, {}, 0)
  /\ AfterRemaining(h)
  /\ UNCHANGED <<holder, seatTtl, reserved>>

\* createMany with skipDuplicates: a seat that already has a row keeps it.
CreateSeatReservations(h) ==
  /\ pc[h] = "reserve"
  /\ LET st == job[h].showtime IN
       reserved' = [reserved EXCEPT ![st] =
                      [s \in Seats |->
                         IF s \in job[h].seats /\ reserved[st][s] = NoUser
                           THEN job[h].user ELSE reserved[st][s]]]
  /\ Finish(h)                 \* cinema.seat_booked
  /\ UNCHANGED keys

-----------------------------------------------------------------------------
(* The environment of the handlers.                                        *)

\* A Redis or database error, or a restart, ends a handler where it stands.
Abort(h) ==
  /\ pc[h] # "idle"
  /\ Finish(h)
  /\ UNCHANGED <<keys, reserved>>

Decrement(n) == IF n = 0 THEN 0 ELSE n - 1

\* Time passes: Redis removes the keys whose TTL has run out.
Tick ==
  /\ seatTtl' = [st \in Showtimes |-> [s \in Seats |-> Decrement(seatTtl[st][s])]]
  /\ holder'  = [st \in Showtimes |->
                   [s \in Seats |-> IF seatTtl[st][s] = 1 THEN NoUser
                                                          ELSE holder[st][s]]]
  /\ listTtl' = [u \in Users |-> [st \in Showtimes |-> Decrement(listTtl[u][st])]]
  /\ listing' = [u \in Users |->
                   [st \in Showtimes |-> IF listTtl[u][st] = 1 THEN {}
                                                                ELSE listing[u][st]]]
  /\ UNCHANGED <<reserved, pc, job>>

-----------------------------------------------------------------------------
(* The history.                                                            *)

\* Handler h has read the sessions of user u in such a way that a hold of u in
\* showtime st makes it outdated: it removes what it took for the session of
\* another showtime, or for an empty one, or it is about to hold seats elsewhere.
ReliesOn(h, u, st) ==
  /\ pc[h] # "idle" /\ job[h].user = u
  /\ \/ pc[h] \in {"oldSeats", "clearOld", "dropOld"}
     \/ pc[h] \in {"limit", "exists", "write"} /\ job[h].showtime # st
     \/ pc[h] = "dropEmpty" /\ job[h].showtime = st

\* What the holds of a step overwrite of that which other handlers have read.
Record ==
  /\ late' =
       {h \in Handlers :
          /\ pc[h] = "write" /\ pc'[h] = "write"
          /\ \/ h \in late
             \/ \E s \in job[h].seats : /\ holder[job[h].showtime][s] = NoUser
                                        /\ holder'[job[h].showtime][s] # NoUser}
  /\ crossed' =
       crossed \cup
         {u \in Users : \E st \in Showtimes :
            /\ \E s \in Seats : holder[st][s] # u /\ holder'[st][s] = u
            /\ \E h \in Handlers : ReliesOn(h, u, st) /\ pc'[h] = pc[h]}

-----------------------------------------------------------------------------

HoldHandler(h) ==
  \/ ReceiveHold(h)   \/ ReadSessions(h)   \/ ReadOldSeats(h)
  \/ ClearOldSeats(h) \/ DropOldSession(h) \/ CheckLimit(h)
  \/ CheckSeatFree(h) \/ WriteHold(h)

ReleaseHandler(h) ==
  \/ ReceiveRelease(h) \/ ReceiveBooked(h)  \/ ReleaseSeat(h)
  \/ ConsumeSeat(h)    \/ CheckRemaining(h) \/ DropListing(h)
  \/ CreateSeatReservations(h)

Step ==
  \/ \E h \in Handlers : HoldHandler(h) \/ ReleaseHandler(h) \/ Abort(h)
  \/ Tick

Next == Step /\ Record

Spec == Init /\ [][Next]_vars

\* Redis expires keys whatever the service does: its clock never stops.
FairSpec == Spec /\ WF_vars(Tick /\ Record)

-----------------------------------------------------------------------------
(* Type invariant.                                                         *)

\* The shape of the state; a key exists exactly while it has time left, and a
\* handler works on a job exactly while it is in progress.
TypeOK ==
  /\ holder   \in [Showtimes -> [Seats -> Users \cup {NoUser}]]
  /\ seatTtl  \in [Showtimes -> [Seats -> 0..HoldTtl]]
  /\ listing  \in [Users -> [Showtimes -> SUBSET Seats]]
  /\ listTtl  \in [Users -> [Showtimes -> 0..HoldTtl]]
  /\ reserved \in [Showtimes -> [Seats -> Users \cup {NoUser}]]
  /\ pc  \in [Handlers -> Steps]
  /\ job \in [Handlers -> Jobs \cup {NoJob}]
  /\ late \subseteq Handlers
  /\ crossed \subseteq Users
  /\ \A h \in Handlers : pc[h] # "idle" => job[h] \in Jobs
  /\ \A st \in Showtimes, s \in Seats :
        holder[st][s] = NoUser <=> seatTtl[st][s] = 0
  /\ \A u \in Users, st \in Showtimes :
        listing[u][st] = {} <=> listTtl[u][st] = 0

-----------------------------------------------------------------------------
(* Safety.                                                                 *)

\* The handlers of user u that have passed the limit check of showtime st and
\* have not yet written.
PassedLimit(u, st) ==
  {h \in Handlers : /\ pc[h] \in {"exists", "write"}
                    /\ job[h].user = u
                    /\ job[h].showtime = st}

\* The limit check is not atomic with the write, so it can be overshot; but
\* only by the handlers in progress: n overlapping handlers admit at most
\* HOLD_LIMIT + n - 1 seats, and what has passed the check already counts.
HoldOvershootBounded ==
  \A u \in Users, st \in Showtimes :
     Cardinality(listing[u][st]) + Cardinality(PassedLimit(u, st))
        <= HoldLimit + Cardinality(Handlers) - 1

\* A held seat that its holder sees in the listing never outlives the listing:
\* the payment window the booking service derives from the TTL of the listing
\* never ends while the seat it was opened for stays locked.
ListingOutlivesHold ==
  \A st \in Showtimes, s \in Seats, u \in Users :
     holder[st][s] = u /\ s \in listing[u][st] => seatTtl[st][s] <= listTtl[u][st]

\* Switching showtimes clears the old seats before a new hold is accepted, so that
\* a user has holds in one showtime only; and a seat key is always reachable from
\* the listing of its holder, which is how it is found when the user changes
\* showtime or pays, although the two entries expire separately and a handler may
\* stop between their deletions.  Whatever else overlaps, this ends only for a
\* user who gets a hold while another handler of the same user is switching, is
\* about to hold a seat in another showtime, or drops a listing it found empty.
OneListedSession ==
  \A u \in Users \ crossed :
     /\ \A st, old \in Sessions(u) : st = old
     /\ \A st \in Showtimes, s \in Seats : holder[st][s] = u => s \in listing[u][st]

\* A hold of a seat that another handler has taken since the check of the seat.
HoldsLate == \E h \in late : WriteHold(h)

\* The holds implement a lock per seat: however the handlers overlap, a hold
\* replaces that of another user only if it was written between the check of the
\* seat and the write.
Lock == INSTANCE SeatLock
SeatIsLock == Lock!Init /\ [][Lock!Next \/ HoldsLate]_holder

-----------------------------------------------------------------------------
(* Liveness.                                                               *)

\* No seat stays held for ever: it is released, booked, or its key expires,
\* even when handlers that saw it free write their hold late.
SeatEventuallyFree ==
  \A st \in Showtimes, s \in Seats :
     holder[st][s] # NoUser ~> holder[st][s] = NoUser
=============================================================================
