--------------------------- MODULE SeatSaleProofs ---------------------------
(***************************************************************************)
(* Proofs about the way of a seat to a ticket, for any users, seats,       *)
(* replicas, messages in progress and loads of the page: types, that a     *)
(* seat that was kept until it was paid is not sold again, and that a seat *)
(* map that has received its events is true.                               *)
(***************************************************************************)
EXTENDS SeatSale, TLAPS

-----------------------------------------------------------------------------
(* The type invariant, part by part.                                       *)

ClientOK ==
  /\ conn \in [Users -> {"away", "loading", "holdsRead", "reservationsRead",
                         "loaded", "joined"}]
  /\ status \in [Users -> [Seats -> {"AVAILABLE", "HELD", "CONFIRMED"}]]
  /\ mine \in [Users -> SUBSET Seats] /\ selected \in [Users -> SUBSET Seats]
  /\ clicks \in 0 .. MaxClicks /\ loads \in 0 .. MaxLoads

InboxOK == inbox \in [Users -> Seq(Jobs)]

RedisOK ==
  /\ holder \in [Seats -> Users \cup {Nobody}]
  /\ listing \in [Users -> SUBSET Seats]
  /\ older \subseteq {s \in Seats : holder[s] # Nobody}

ServiceOK ==
  /\ reserved \subseteq Seats
  /\ due \in [Requests -> Nat]

ControlOK ==
  /\ pc \in [Handlers -> {"idle", "write", "publish", "remaining", "drop", "consume",
                          "reserve", "publishBooked"}]
  /\ job \in [Handlers -> Jobs \cup {NoJob}]
  /\ \A h \in Handlers : pc[h] = "idle" <=> job[h] = NoJob

BookingOK ==
  /\ booking \in [Users -> {"PENDING", "checking", "writing", "CONFIRMED", "REFUNDED",
                            "RELEASED"}]
  /\ tickets \in [Users -> SUBSET Seats] /\ found \in [Users -> SUBSET Seats]
  /\ early \in [Users -> SUBSET Seats] /\ \A u \in Users : early[u] \subseteq found[u]
  /\ window \in [Users -> BOOLEAN]
  /\ \A u \in Users : window[u] => tickets[u] # {}

HistoryOK ==
  /\ wrote \in [Handlers -> SUBSET Seats]
  /\ unseen \in [Users -> SUBSET Seats]
  /\ since \in [Users -> SUBSET Seats] /\ kept \in [Users -> SUBSET Seats]

\* An updateBooking in progress has found seats.
FoundSeats == \A u \in Users : Updating(u) => found[u] # {}

LEMMA TypeParts ==
  TypeOK <=> /\ ClientOK /\ InboxOK /\ RedisOK /\ ServiceOK
             /\ ControlOK /\ BookingOK /\ HistoryOK
  BY DEF TypeOK, ClientOK, InboxOK, RedisOK, ServiceOK, ControlOK, BookingOK, HistoryOK

Inv == TypeOK /\ FoundSeats

LEMMA JobFields ==
  ASSUME ControlOK, NEW h \in Handlers, pc[h] # "idle"
  PROVE  /\ job[h] \in Jobs /\ job[h].user \in Users /\ job[h].seats \in SUBSET Seats
  BY DEF ControlOK, Jobs

LEMMA NoJobIsNoJob == NoJob \notin Jobs
  BY DEF NoJob, Jobs

LEMMA RequestFields ==
  ASSUME NEW r \in Requests
  PROVE  r \in Jobs /\ r # NoJob
  BY NoJobIsNoJob DEF Requests, Jobs

-----------------------------------------------------------------------------
(* Parts of steps.                                                         *)

LEMMA FinishControl ==
  ASSUME ControlOK, NEW h \in Handlers, Finish(h)
  PROVE  ControlOK'
  BY DEF ControlOK, Finish

LEMMA GotoControl ==
  ASSUME ControlOK, NEW h \in Handlers, pc[h] # "idle",
         NEW step \in {"publish", "remaining", "drop", "reserve", "publishBooked"},
         Goto(h, step)
  PROVE  ControlOK'
  BY DEF ControlOK, Goto

LEMMA ReceiveControl ==
  ASSUME ControlOK, NEW h \in Handlers, NEW r \in Requests,
         NEW step \in {"write", "publish", "consume"},
         Receive(h, r, step)
  PROVE  ControlOK'
  <1>1. r \in Jobs /\ r # NoJob
    BY RequestFields
  <1> QED
    BY <1>1 DEF ControlOK, Receive

LEMMA ReceiveDue ==
  ASSUME ServiceOK, NEW r \in Requests, due[r] > 0, due' = [due EXCEPT ![r] = @ - 1],
         UNCHANGED reserved
  PROVE  ServiceOK'
  BY DEF ServiceOK

LEMMA SaleNumbers == Replicas \in Nat /\ MaxClicks \in Nat /\ MaxLoads \in Nat
  BY SaleAssumption

LEMMA SendDue ==
  ASSUME ServiceOK, NEW r \in Requests, due' = [due EXCEPT ![r] = @ + Replicas],
         UNCHANGED reserved
  PROVE  ServiceOK'
  BY SaleNumbers DEF ServiceOK

LEMMA UnannouncedSeats ==
  ASSUME HistoryOK, NEW H \in SUBSET Handlers
  PROVE  Unannounced(H) \subseteq Seats
  BY DEF HistoryOK, Unannounced

LEMMA WritesHistory ==
  ASSUME HistoryOK, NEW h \in Handlers, NEW S \in SUBSET Seats, Writes(h, S)
  PROVE  /\ wrote' \in [Handlers -> SUBSET Seats]
         /\ unseen' \in [Users -> SUBSET Seats]
  <1>1. Unannounced(Handlers \ {h}) \subseteq Seats
    BY UnannouncedSeats
  <1> QED
    BY <1>1 DEF HistoryOK, Writes

LEMMA SilentHistory ==
  ASSUME HistoryOK, NEW S \in SUBSET Seats, ChangesSilently(S)
  PROVE  /\ wrote' \in [Handlers -> SUBSET Seats]
         /\ unseen' \in [Users -> SUBSET Seats]
  BY DEF HistoryOK, ChangesSilently

LEMMA KeptHistory ==
  ASSUME HistoryOK, UpdateKept \/ UNCHANGED <<since, kept>>
  PROVE  since' \in [Users -> SUBSET Seats] /\ kept' \in [Users -> SUBSET Seats]
  BY DEF HistoryOK, UpdateKept

LEMMA PublishParts ==
  ASSUME InboxOK, HistoryOK, ControlOK, ClientOK,
         NEW h \in Handlers, pc[h] # "idle", Publish(h)
  PROVE  InboxOK' /\ HistoryOK'
  <1> DEFINE e == job[h]
  <1>1. e \in Jobs /\ e.seats \in SUBSET Seats
    BY JobFields
  <1>2. inbox' = [u \in Users |-> IF conn[u] = "joined" THEN Append(inbox[u], e) ELSE inbox[u]]
    BY DEF Publish
  <1>3. InboxOK'
    BY <1>1, <1>2 DEF InboxOK
  <1>4. PICK S \in SUBSET e.seats :
          unseen' = [u \in Users |-> unseen[u] \cup IF conn[u] = "joined" THEN S ELSE e.seats]
    BY DEF Publish
  <1>5. wrote' = [wrote EXCEPT ![h] = @ \ e.seats] /\ UNCHANGED <<since, kept>>
    BY DEF Publish
  <1>6. HistoryOK'
    BY <1>1, <1>4, <1>5 DEF HistoryOK
  <1> QED
    BY <1>3, <1>6

LEMMA DeleteKeysParts ==
  ASSUME RedisOK, HistoryOK, NEW h \in Handlers, NEW u \in Users, NEW S \in SUBSET Seats,
         DeleteKeys(h, u, S)
  PROVE  RedisOK' /\ HistoryOK'
  <1>1. RedisOK'
    BY DEF RedisOK, DeleteKeys
  <1>2. HistoryOK'
    BY WritesHistory, KeptHistory DEF DeleteKeys, HistoryOK
  <1> QED
    BY <1>1, <1>2

LEMMA UnchangedParts ==
  ASSUME Inv
  PROVE  /\ ClientOK /\ InboxOK /\ RedisOK /\ ServiceOK /\ ControlOK /\ BookingOK /\ HistoryOK
         /\ FoundSeats
         /\ UNCHANGED <<conn, status, mine, selected, clicks, loads>> => ClientOK'
         /\ UNCHANGED client  => ClientOK' /\ InboxOK'
         /\ UNCHANGED redis   => RedisOK'
         /\ UNCHANGED <<reserved, due>> => ServiceOK'
         /\ UNCHANGED <<pc, job>> => ControlOK'
         /\ UNCHANGED service => ServiceOK' /\ ControlOK'
         /\ UNCHANGED booked  => BookingOK' /\ FoundSeats'
         /\ UNCHANGED history => HistoryOK'
  BY TypeParts DEF Inv, client, redis, service, booked, history, ClientOK, InboxOK, RedisOK,
     ServiceOK, ControlOK, BookingOK, HistoryOK, FoundSeats, Updating

LEMMA InvFromParts ==
  ASSUME ClientOK', InboxOK', RedisOK', ServiceOK', ControlOK', BookingOK', HistoryOK',
         FoundSeats'
  PROVE  Inv'
  BY TypeParts DEF Inv, TypeOK, ClientOK, InboxOK, RedisOK, ServiceOK, ControlOK, BookingOK,
     HistoryOK

LEMMA ClientStep ==
  ASSUME Inv, NEW u \in Users, Client(u)
  PROVE  Inv'
  <1>0. ClientOK /\ InboxOK /\ RedisOK /\ ServiceOK /\ ControlOK /\ BookingOK /\ HistoryOK
        /\ FoundSeats
    BY UnchangedParts
  <1>1. CASE Load(u)
    <2>0. InboxOK'
      BY <1>0, <1>1 DEF Load, InboxOK
    <2>1. ClientOK'
      <3>1. loads' \in 0 .. MaxLoads
        <4>1. loads \in 0 .. MaxLoads /\ loads < MaxLoads /\ loads' = loads + 1
          BY <1>0, <1>1 DEF Load, ClientOK
        <4> QED
          BY <4>1, SaleNumbers
      <3>2. status' \in [Users -> [Seats -> {"AVAILABLE", "HELD", "CONFIRMED"}]]
        BY <1>0, <1>1 DEF Load, ClientOK
      <3>3. /\ mine' = [mine EXCEPT ![u] = {}] /\ selected' = [selected EXCEPT ![u] = {}]
            /\ conn' = [conn EXCEPT ![u] = "loading"] /\ UNCHANGED clicks
        BY <1>1 DEF Load
      <3> QED
        BY <1>0, <3>1, <3>2, <3>3 DEF ClientOK
    <2>2. Unannounced(Handlers) \subseteq Seats
      BY <1>0, UnannouncedSeats
    <2>3. HistoryOK'
      BY <1>0, <1>1, <2>2 DEF Load, HistoryOK
    <2> QED
      BY <1>1, <2>0, <2>1, <2>3, UnchangedParts, InvFromParts DEF Load
  <1>2. CASE ReadReservations(u)
    <2>1. ClientOK' /\ InboxOK'
      BY <1>0, <1>2 DEF ReadReservations, ClientOK, InboxOK
    <2> QED
      BY <1>2, <2>1, UnchangedParts, InvFromParts DEF ReadReservations
  <1>3. CASE ReadHolds(u)
    <2>1. ClientOK' /\ InboxOK'
      BY <1>0, <1>3 DEF ReadHolds, ClientOK, InboxOK, RedisOK
    <2> QED
      BY <1>3, <2>1, UnchangedParts, InvFromParts DEF ReadHolds
  <1>4. CASE Join(u)
    <2>1. ClientOK' /\ InboxOK'
      BY <1>0, <1>4 DEF Join, ClientOK, InboxOK
    <2> QED
      BY <1>4, <2>1, UnchangedParts, InvFromParts DEF Join
  <1>5. ASSUME NEW s \in Seats, ToggleSeat(u, s)
        PROVE  Inv'
    <2> DEFINE r == [kind |-> IF s \in selected[u] THEN "release" ELSE "hold",
                     user |-> u, seats |-> {s}]
    <2>0. selected' \in [Users -> SUBSET Seats]
      BY <1>0, <1>5 DEF ToggleSeat, ClientOK
    <2>1. ClientOK' /\ InboxOK'
      <3>1. clicks' \in 0 .. MaxClicks
        <4>1. clicks \in 0 .. MaxClicks /\ clicks < MaxClicks /\ clicks' = clicks + 1
          BY <1>0, <1>5 DEF ToggleSeat, ClientOK
        <4> QED
          BY <4>1, SaleNumbers
      <3>2. UNCHANGED <<conn, status, mine, inbox, loads>>
        BY <1>5 DEF ToggleSeat
      <3> QED
        BY <1>0, <2>0, <3>1, <3>2 DEF ClientOK, InboxOK
    <2>2. r \in Requests /\ due' = [due EXCEPT ![r] = @ + Replicas]
      BY <1>5 DEF ToggleSeat, Requests
    <2>3. ServiceOK' /\ ControlOK'
      BY <1>5, <2>2, SendDue, UnchangedParts DEF ToggleSeat
    <2> QED
      BY <1>5, <2>1, <2>3, UnchangedParts, InvFromParts DEF ToggleSeat
  <1>6. CASE ReceiveEvent(u)
    <2> DEFINE e == Head(inbox[u])
    <2>0. inbox[u] \in Seq(Jobs) /\ inbox[u] # <<>>
      BY <1>0, <1>6 DEF ReceiveEvent, InboxOK
    <2>1. e \in Jobs /\ e.seats \subseteq Seats /\ e.kind \in {"hold", "release", "booked"}
      <3>1. e \in Jobs
        BY <2>0
      <3> QED
        BY <3>1 DEF Jobs
    <2>2. InboxOK'
      BY <1>0, <1>6 DEF ReceiveEvent, InboxOK
    <2>3. status' \in [Users -> [Seats -> {"AVAILABLE", "HELD", "CONFIRMED"}]]
      BY <1>0, <1>6, <2>1 DEF ReceiveEvent, ClientOK
    <2>4. mine' \in [Users -> SUBSET Seats]
      BY <1>0, <1>6, <2>1 DEF ReceiveEvent, ClientOK
    <2>5. selected' \in [Users -> SUBSET Seats]
      BY <1>0, <1>6, <2>1 DEF ReceiveEvent, ClientOK
    <2>6. ClientOK'
      BY <1>0, <1>6, <2>3, <2>4, <2>5 DEF ReceiveEvent, ClientOK
    <2> QED
      BY <1>6, <2>2, <2>6, UnchangedParts, InvFromParts DEF ReceiveEvent
  <1> QED
    BY <1>1, <1>2, <1>3, <1>4, <1>5, <1>6 DEF Client

LEMMA BookingStep ==
  ASSUME Inv, NEW u \in Users, Booking(u)
  PROVE  Inv'
  <1>0. ClientOK /\ InboxOK /\ RedisOK /\ ServiceOK /\ ControlOK /\ BookingOK /\ HistoryOK
        /\ FoundSeats
    BY UnchangedParts
  <1>1. CASE StartUpdate(u)
    <2>0. /\ booking' = [booking EXCEPT ![u] = "checking"]
          /\ found' = [found EXCEPT ![u] = listing[u]]
          /\ early' = [early EXCEPT ![u] = listing[u] \cap older]
          /\ listing[u] # {} /\ listing[u] \subseteq Seats
          /\ UNCHANGED <<tickets, window>>
      BY <1>0, <1>1 DEF StartUpdate, RedisOK
    <2>1. FoundSeats' /\ found' \in [Users -> SUBSET Seats]
      BY <1>0, <2>0 DEF FoundSeats, Updating, BookingOK
    <2>3. /\ early' \in [Users -> SUBSET Seats]
          /\ \A v \in Users : early'[v] \subseteq found'[v]
      BY <1>0, <2>0 DEF BookingOK
    <2>4. BookingOK'
      BY <1>0, <2>0, <2>1, <2>3 DEF BookingOK
    <2>2. HistoryOK'
      BY <1>0, <1>1 DEF StartUpdate, HistoryOK, RedisOK
    <2> QED
      BY <1>1, <2>1, <2>2, <2>4, UnchangedParts, InvFromParts DEF StartUpdate
  <1>2. CASE CheckTickets(u)
    <2>1. PICK b \in {"PENDING", "writing"} : booking' = [booking EXCEPT ![u] = b]
      BY <1>0, <1>2 DEF CheckTickets
    <2>2. BookingOK' /\ FoundSeats'
      BY <1>0, <1>2, <2>1 DEF CheckTickets, BookingOK, FoundSeats, Updating
    <2>3. HistoryOK'
      BY <1>0, <1>2 DEF CheckTickets, HistoryOK
    <2> QED
      BY <1>2, <2>2, <2>3, UnchangedParts, InvFromParts DEF CheckTickets
  <1>3. CASE WriteTickets(u)
    <2>1. BookingOK' /\ FoundSeats'
      BY <1>0, <1>3 DEF WriteTickets, BookingOK, FoundSeats, Updating
    <2>2. HistoryOK'
      BY <1>0, <1>3 DEF WriteTickets, HistoryOK
    <2> QED
      BY <1>3, <2>1, <2>2, UnchangedParts, InvFromParts DEF WriteTickets
  <1>4. CASE CloseWindow(u)
    <2>1. BookingOK' /\ FoundSeats'
      BY <1>0, <1>4 DEF CloseWindow, BookingOK, FoundSeats, Updating
    <2> QED
      BY <1>4, <2>1, UnchangedParts, InvFromParts DEF CloseWindow
  <1>5. CASE ConfirmPaid(u)
    <2>1. BookingOK' /\ FoundSeats'
      BY <1>0, <1>5 DEF ConfirmPaid, BookingOK, FoundSeats, Updating
    <2>2. PICK r \in Requests : due' = [due EXCEPT ![r] = @ + Replicas]
      BY <1>0, <1>5 DEF ConfirmPaid, Requests
    <2>3. ServiceOK' /\ ControlOK'
      BY <1>5, <2>2, SendDue, UnchangedParts DEF ConfirmPaid
    <2> QED
      BY <1>5, <2>1, <2>3, UnchangedParts, InvFromParts DEF ConfirmPaid
  <1>6. CASE Refund(u)
    <2>1. BookingOK' /\ FoundSeats'
      BY <1>0, <1>6 DEF Refund, BookingOK, FoundSeats, Updating
    <2> QED
      BY <1>6, <2>1, UnchangedParts, InvFromParts DEF Refund
  <1>7. CASE DeleteSeatReservations(u)
    <2>1. BookingOK' /\ FoundSeats'
      BY <1>0, <1>7 DEF DeleteSeatReservations, BookingOK, FoundSeats, Updating
    <2>2. tickets[u] \in SUBSET Seats
      BY <1>0 DEF BookingOK
    <2>3. HistoryOK'
      BY <1>0, <1>7, <2>2, SilentHistory, KeptHistory DEF DeleteSeatReservations, HistoryOK
    <2>4. ServiceOK' /\ ControlOK'
      BY <1>7, UnchangedParts DEF DeleteSeatReservations, ServiceOK
    <2> QED
      BY <1>7, <2>1, <2>3, <2>4, UnchangedParts, InvFromParts DEF DeleteSeatReservations
  <1> QED
    BY <1>1, <1>2, <1>3, <1>4, <1>5, <1>6, <1>7 DEF Booking

LEMMA ExpiryStep ==
  ASSUME Inv, (\E u \in Users : ExpireSession(u)) \/ (\E s \in Seats : ExpireSeat(s))
  PROVE  Inv'
  <1>0. ClientOK /\ InboxOK /\ RedisOK /\ ServiceOK /\ ControlOK /\ BookingOK /\ HistoryOK
        /\ FoundSeats
    BY UnchangedParts
  <1>1. ASSUME NEW u \in Users, ExpireSession(u)
        PROVE  Inv'
    <2> DEFINE S == {s \in Seats : holder[s] = u}
    <2>1. RedisOK'
      BY <1>0, <1>1 DEF ExpireSession, RedisOK
    <2>2. S \in SUBSET Seats /\ ChangesSilently(S) /\ UpdateKept
      BY <1>0, <1>1 DEF ExpireSession
    <2>3. HistoryOK'
      BY <1>0, <2>2, SilentHistory, KeptHistory DEF HistoryOK
    <2> QED
      BY <1>1, <2>1, <2>3, UnchangedParts, InvFromParts DEF ExpireSession
  <1>2. ASSUME NEW s \in Seats, ExpireSeat(s)
        PROVE  Inv'
    <2>1. RedisOK'
      BY <1>0, <1>2 DEF ExpireSeat, RedisOK
    <2>2. {s} \in SUBSET Seats /\ ChangesSilently({s}) /\ UpdateKept
      BY <1>0, <1>2 DEF ExpireSeat
    <2>3. HistoryOK'
      BY <1>0, <2>2, SilentHistory, KeptHistory DEF HistoryOK
    <2> QED
      BY <1>2, <2>1, <2>3, UnchangedParts, InvFromParts DEF ExpireSeat
  <1> QED
    BY <1>1, <1>2

LEMMA ReceiveStep ==
  ASSUME Inv, NEW h \in Handlers, NEW r \in Requests,
         CheckSeatFree(h, r) \/ ReleaseSeat(h, r) \/ StartBooked(h, r)
  PROVE  Inv'
  <1>0. ServiceOK /\ ControlOK /\ RedisOK /\ HistoryOK
    BY UnchangedParts
  <1>1. r \in Jobs /\ r.user \in Users /\ r.seats \in SUBSET Seats
    BY RequestFields DEF Jobs
  <1>2. CASE CheckSeatFree(h, r)
    <2>1. Receive(h, r, "write")
      BY <1>2 DEF CheckSeatFree
    <2>2. ControlOK'
      BY <1>0, <2>1, ReceiveControl
    <2>3. ServiceOK'
      BY <1>0, <1>2, <2>1, ReceiveDue DEF CheckSeatFree, Receive
    <2> QED
      BY <1>2, <2>2, <2>3, UnchangedParts, InvFromParts DEF CheckSeatFree
  <1>3. CASE ReleaseSeat(h, r)
    <2>1. Receive(h, r, "publish")
      BY <1>3 DEF ReleaseSeat
    <2>2. ControlOK'
      BY <1>0, <2>1, ReceiveControl
    <2>3. ServiceOK'
      BY <1>0, <1>3, <2>1, ReceiveDue DEF ReleaseSeat, Receive
    <2>4. RedisOK' /\ HistoryOK'
      BY <1>0, <1>1, <1>3, DeleteKeysParts DEF ReleaseSeat
    <2> QED
      BY <1>3, <2>2, <2>3, <2>4, UnchangedParts, InvFromParts DEF ReleaseSeat
  <1>4. CASE StartBooked(h, r)
    <2>1. Receive(h, r, "consume")
      BY <1>4 DEF StartBooked
    <2>2. ControlOK'
      BY <1>0, <2>1, ReceiveControl
    <2>3. ServiceOK'
      BY <1>0, <1>4, <2>1, ReceiveDue DEF StartBooked, Receive
    <2> QED
      BY <1>4, <2>2, <2>3, UnchangedParts, InvFromParts DEF StartBooked
  <1> QED
    BY <1>2, <1>3, <1>4

LEMMA AfterRemainingControl ==
  ASSUME ControlOK, NEW h \in Handlers, pc[h] # "idle", AfterRemaining(h)
  PROVE  ControlOK'
  BY FinishControl, GotoControl DEF AfterRemaining

LEMMA HandlerStep ==
  ASSUME Inv, NEW h \in Handlers, Handle(h)
  PROVE  Inv'
  <1>0. /\ ClientOK /\ InboxOK /\ RedisOK /\ ServiceOK /\ ControlOK /\ BookingOK /\ HistoryOK
        /\ FoundSeats
    BY UnchangedParts
  <1>1. CASE WriteHold(h)
    <2> DEFINE u == job[h].user
               S == job[h].seats
    <2>1. u \in Users /\ S \in SUBSET Seats
      BY <1>0, <1>1, JobFields DEF WriteHold
    <2>2. /\ holder'  = [s \in Seats |-> IF s \in S THEN u ELSE holder[s]]
          /\ listing' = [listing EXCEPT ![u] = @ \cup S]
          /\ older'   = (older \cup {s \in Seats : holder[s] = u}) \ S
      BY <1>1 DEF WriteHold
    <2>3. RedisOK'
      BY <1>0, <2>1, <2>2, SaleAssumption DEF RedisOK
    <2>4. Writes(h, S) /\ UpdateKept
      BY <1>1 DEF WriteHold
    <2>5. HistoryOK'
      BY <1>0, <2>1, <2>4, WritesHistory, KeptHistory DEF HistoryOK
    <2>6. ControlOK'
      BY <1>0, <1>1, GotoControl DEF WriteHold
    <2> QED
      BY <1>1, <2>3, <2>5, <2>6, UnchangedParts, InvFromParts DEF WriteHold
  <1>2. CASE PublishHeldOrReleased(h)
    <2>1. Publish(h) /\ pc[h] # "idle"
      BY <1>2 DEF PublishHeldOrReleased
    <2>2. InboxOK' /\ HistoryOK'
      BY <1>0, <2>1, PublishParts
    <2>3. ControlOK'
      BY <1>0, <1>2, FinishControl, GotoControl DEF PublishHeldOrReleased
    <2> QED
      BY <2>1, <2>2, <2>3, UnchangedParts, InvFromParts DEF Publish
  <1>3. CASE CheckRemaining(h)
    <2>1. ControlOK'
      BY <1>0, <1>3, AfterRemainingControl, GotoControl DEF CheckRemaining
    <2> QED
      BY <1>3, <2>1, UnchangedParts, InvFromParts DEF CheckRemaining
  <1>4. CASE DropListing(h)
    <2>1. ControlOK'
      BY <1>0, <1>4, AfterRemainingControl DEF DropListing
    <2>2. RedisOK'
      BY <1>0, <1>4 DEF DropListing, RedisOK
    <2> QED
      BY <1>4, <2>1, <2>2, UnchangedParts, InvFromParts DEF DropListing
  <1>5. ASSUME NEW s \in Seats, ConsumeSeat(h, s)
        PROVE  Inv'
    <2> DEFINE done == job[h].seats \cup {s}
    <2>1. job[h] \in Jobs /\ job[h].user \in Users /\ job[h].seats \in SUBSET Seats
      BY <1>0, <1>5, JobFields DEF ConsumeSeat
    <2>2. RedisOK' /\ HistoryOK'
      BY <1>0, <1>5, <2>1, DeleteKeysParts DEF ConsumeSeat
    <2>3. [job[h] EXCEPT !.seats = done] \in Jobs
      BY <2>1 DEF Jobs
    <2>4. PICK j \in Jobs : job' = [job EXCEPT ![h] = j]
      BY <1>5, <2>3 DEF ConsumeSeat
    <2>5. PICK step \in {"remaining", "consume"} : pc' = [pc EXCEPT ![h] = step]
      BY <1>5 DEF ConsumeSeat
    <2>6. ControlOK'
      BY <1>0, <2>4, <2>5, NoJobIsNoJob DEF ControlOK
    <2> QED
      BY <1>5, <2>2, <2>6, UnchangedParts, InvFromParts DEF ConsumeSeat
  <1>6. CASE Reserve(h)
    <2>1. job[h].seats \in SUBSET Seats
      BY <1>0, <1>6, JobFields DEF Reserve
    <2>2. ServiceOK'
      BY <1>0, <1>6, <2>1 DEF Reserve, ServiceOK
    <2>3. ControlOK'
      BY <1>0, <1>6, GotoControl DEF Reserve
    <2>4. HistoryOK'
      BY <1>0, <1>6, <2>1, WritesHistory, KeptHistory DEF Reserve, HistoryOK
    <2> QED
      BY <1>6, <2>2, <2>3, <2>4, UnchangedParts, InvFromParts DEF Reserve
  <1>7. CASE PublishBooked(h)
    <2>1. Publish(h) /\ pc[h] # "idle"
      BY <1>7 DEF PublishBooked
    <2>2. InboxOK' /\ HistoryOK'
      BY <1>0, <2>1, PublishParts
    <2>3. ControlOK'
      BY <1>0, <1>7, FinishControl DEF PublishBooked
    <2> QED
      BY <2>1, <2>2, <2>3, UnchangedParts, InvFromParts DEF Publish
  <1>8. CASE Abort(h)
    <2>1. ControlOK'
      BY <1>0, <1>8, FinishControl DEF Abort
    <2>2. HistoryOK'
      BY <1>0, <1>8 DEF Abort, HistoryOK
    <2> QED
      BY <1>8, <2>1, <2>2, UnchangedParts, InvFromParts DEF Abort
  <1> QED
    BY <1>1, <1>2, <1>3, <1>4, <1>5, <1>6, <1>7, <1>8, ReceiveStep DEF Handle

LEMMA IgnoreStep ==
  ASSUME Inv, NEW r \in Requests, IgnoreHold(r)
  PROVE  Inv'
  <1>1. ServiceOK'
    BY ReceiveDue, UnchangedParts DEF IgnoreHold
  <1> QED
    BY <1>1, UnchangedParts, InvFromParts DEF IgnoreHold

LEMMA StutterStep ==
  ASSUME Inv, UNCHANGED vars
  PROVE  Inv'
  <1>1. UNCHANGED client /\ UNCHANGED redis /\ UNCHANGED service /\ UNCHANGED booked
        /\ UNCHANGED history
    BY DEF vars
  <1> QED
    BY <1>1, UnchangedParts, InvFromParts

LEMMA InitInv ==
  ASSUME Init
  PROVE  Inv
  <1>1. ClientOK
    BY SaleNumbers DEF Init, ClientOK
  <1>2. InboxOK
    BY DEF Init, InboxOK
  <1>3. RedisOK /\ ServiceOK
    BY DEF Init, RedisOK, ServiceOK
  <1>4. ControlOK
    BY DEF Init, ControlOK
  <1>5. BookingOK /\ FoundSeats
    BY DEF Init, BookingOK, FoundSeats, Updating
  <1>6. HistoryOK
    BY DEF Init, HistoryOK
  <1> QED
    BY <1>1, <1>2, <1>3, <1>4, <1>5, <1>6, TypeParts DEF Inv

LEMMA StepInv ==
  ASSUME Inv, [Next]_vars
  PROVE  Inv'
  BY ClientStep, BookingStep, ExpiryStep, HandlerStep, IgnoreStep, StutterStep DEF Next

LEMMA SpecInv == Spec => []Inv
  <1>1. Init => Inv
    BY InitInv
  <1>2. Inv /\ [Next]_vars => Inv'
    BY StepInv
  <1> QED
    BY <1>1, <1>2, PTL DEF Spec

\* Every variable has its type in every reachable state; a handler is idle when
\* and only when it has no message, a booking has an expires_at ahead only when
\* it has tickets, and updateBooking never writes an empty set of tickets.
THEOREM TypeCorrect == Spec => []TypeOK
  <1>1. Inv => TypeOK
    BY DEF Inv
  <1> QED
    BY <1>1, SpecInv, PTL

-----------------------------------------------------------------------------
(* A seat that was kept is not sold twice.                                 *)

Unpaid(u) == booking[u] \in {"PENDING", "checking", "writing"}

\* What a booking not yet paid has kept is held by its customer.
KeptIsHeld == \A u \in Users : Unpaid(u) => \A s \in kept[u] \cup since[u] : holder[s] = u

\* A booking not yet paid has not kept a seat that a paid one had kept.
KeptIsFree ==
  \A u, v \in Users : \A s \in tickets[u] \cap tickets[v] :
    (u # v /\ booking[u] = "CONFIRMED" /\ Unpaid(v)) => s \notin kept[u] \/ s \notin kept[v]

\* The same of the seats that passed the check and are about to be written.
FoundIsFree ==
  \A u, v \in Users : \A s \in tickets[u] \cap found[v] :
    (u # v /\ booking[u] = "CONFIRMED" /\ booking[v] = "writing")
    => s \notin kept[u] \/ s \notin since[v]

SaleInv == KeptIsHeld /\ KeptIsFree /\ FoundIsFree /\ NoDoubleSale

\* All steps but those of a booking: they may only lose seats.
Elsewhere ==
  /\ UNCHANGED <<booking, tickets, found>>
  /\ UpdateKept \/ UNCHANGED <<holder, since, kept>>

LEMMA OtherSteps ==
  ASSUME [Next]_vars
  PROVE  Elsewhere \/ \E u \in Users : Booking(u)
  <1>1. ASSUME NEW u \in Users, Client(u)
        PROVE  Elsewhere
    BY <1>1 DEF Client, Load, ReadReservations, ReadHolds, Join, ToggleSeat, ReceiveEvent,
       Elsewhere, client, redis, booked, history
  <1>2. ASSUME NEW u \in Users, ExpireSession(u)
        PROVE  Elsewhere
    BY <1>2 DEF ExpireSession, Elsewhere, booked
  <1>3. ASSUME NEW s \in Seats, ExpireSeat(s)
        PROVE  Elsewhere
    BY <1>3 DEF ExpireSeat, Elsewhere, booked
  <1>4. ASSUME NEW r \in Requests, IgnoreHold(r)
        PROVE  Elsewhere
    BY <1>4 DEF IgnoreHold, Elsewhere, redis, booked, history
  <1>5. ASSUME NEW h \in Handlers, Handle(h)
        PROVE  Elsewhere
    <2>1. CASE WriteHold(h)
      BY <2>1 DEF WriteHold, Elsewhere, booked
    <2>2. CASE PublishHeldOrReleased(h) \/ PublishBooked(h)
      BY <2>2 DEF PublishHeldOrReleased, PublishBooked, Publish, Elsewhere, redis, booked
    <2>3. CASE CheckRemaining(h) \/ DropListing(h)
      BY <2>3 DEF CheckRemaining, DropListing, Elsewhere, redis, booked, history
    <2>4. ASSUME NEW s \in Seats, ConsumeSeat(h, s)
          PROVE  Elsewhere
      BY <2>4 DEF ConsumeSeat, DeleteKeys, Elsewhere, booked
    <2>5. CASE Reserve(h) \/ Abort(h)
      BY <2>5 DEF Reserve, Abort, Elsewhere, redis, booked
    <2>6. ASSUME NEW r \in Requests, CheckSeatFree(h, r) \/ ReleaseSeat(h, r) \/ StartBooked(h, r)
          PROVE  Elsewhere
      BY <2>6 DEF CheckSeatFree, ReleaseSeat, StartBooked, DeleteKeys, Elsewhere, redis, booked,
         history
    <2> QED
      BY <1>5, <2>1, <2>2, <2>3, <2>4, <2>5, <2>6 DEF Handle
  <1>6. CASE UNCHANGED vars
    BY <1>6 DEF vars, redis, booked, history, Elsewhere
  <1> QED
    BY <1>1, <1>2, <1>3, <1>4, <1>5, <1>6 DEF Next

LEMMA ElsewhereSale ==
  ASSUME Inv, SaleInv, Elsewhere
  PROVE  SaleInv'
  <1>1. HistoryOK /\ BookingOK
    BY UnchangedParts
  <1>2. \A u \in Users : kept'[u] \subseteq kept[u] /\ since'[u] \subseteq since[u]
    BY DEF Elsewhere, UpdateKept
  <1>3. UNCHANGED <<booking, tickets, found>>
    BY DEF Elsewhere
  <1>4. KeptIsHeld'
    <2>1. CASE UpdateKept
      BY <1>3, <2>1 DEF UpdateKept, KeptIsHeld, Unpaid
    <2>2. CASE UNCHANGED <<holder, since, kept>>
      BY <1>3, <2>2 DEF SaleInv, KeptIsHeld, Unpaid
    <2> QED
      BY <2>1, <2>2 DEF Elsewhere
  <1>5. KeptIsFree'
    BY <1>2, <1>3 DEF SaleInv, KeptIsFree, Unpaid
  <1>6. FoundIsFree'
    BY <1>2, <1>3 DEF SaleInv, FoundIsFree
  <1>7. NoDoubleSale'
    BY <1>2, <1>3 DEF SaleInv, NoDoubleSale
  <1> QED
    BY <1>4, <1>5, <1>6, <1>7 DEF SaleInv

LEMMA BookingSale ==
  ASSUME Inv, SaleInv, NEW w \in Users, Booking(w)
  PROVE  SaleInv'
  <1>0. /\ BookingOK /\ HistoryOK
        /\ KeptIsHeld /\ KeptIsFree /\ FoundIsFree /\ NoDoubleSale
    BY UnchangedParts DEF SaleInv
  <1>1. CASE StartUpdate(w)
    <2>1. /\ booking' = [booking EXCEPT ![w] = "checking"] /\ booking[w] = "PENDING"
          /\ since' = [since EXCEPT ![w] = {s \in listing[w] : holder[s] = w}]
          /\ \A v \in Users \ {w} : found'[v] = found[v]
          /\ UNCHANGED <<holder, tickets, kept>>
      BY <1>0, <1>1 DEF StartUpdate, redis, BookingOK
    <2>2. KeptIsHeld'
      BY <1>0, <2>1 DEF KeptIsHeld, Unpaid, BookingOK, HistoryOK
    <2>3. KeptIsFree'
      BY <1>0, <2>1 DEF KeptIsFree, Unpaid, BookingOK
    <2>4. FoundIsFree'
      BY <1>0, <2>1 DEF FoundIsFree, BookingOK, HistoryOK
    <2>5. NoDoubleSale'
      BY <1>0, <2>1 DEF NoDoubleSale, BookingOK
    <2> QED
      BY <2>2, <2>3, <2>4, <2>5 DEF SaleInv
  <1>2. CASE CheckTickets(w)
    <2> DEFINE sold == \E v \in Users : found[w] \cap Valid(v) # {}
    <2>1. /\ booking' = [booking EXCEPT ![w] = IF sold THEN "PENDING" ELSE "writing"]
          /\ since' = [since EXCEPT ![w] = IF sold THEN {} ELSE @]
          /\ booking[w] = "checking"
          /\ UNCHANGED <<holder, tickets, kept, found>>
      BY <1>2 DEF CheckTickets, redis
    <2>2. \A v \in Users : since'[v] \subseteq since[v]
      BY <1>0, <2>1 DEF HistoryOK
    <2>3. \A v \in Users : (booking'[v] = "writing" /\ v = w) => ~sold
      BY <1>0, <2>1 DEF BookingOK
    <2>4. \A v \in Users : v # w => booking'[v] = booking[v]
      BY <1>0, <2>1 DEF BookingOK
    <2>5. Unpaid(w) /\ booking'[w] # "CONFIRMED"
      BY <1>0, <2>1 DEF Unpaid, BookingOK
    <2>6. KeptIsHeld'
      BY <1>0, <2>1, <2>2, <2>4, <2>5 DEF KeptIsHeld, Unpaid
    <2>7. KeptIsFree'
      BY <1>0, <2>1, <2>4, <2>5 DEF KeptIsFree, Unpaid
    <2>8. FoundIsFree'
      <3> SUFFICES ASSUME NEW u \in Users, NEW v \in Users, NEW s \in tickets[u] \cap found[v],
                          u # v, booking'[u] = "CONFIRMED", booking'[v] = "writing"
                   PROVE  s \notin kept[u] \/ s \notin since'[v]
        BY <2>1 DEF FoundIsFree
      <3>1. booking[u] = "CONFIRMED"
        BY <2>4, <2>5
      <3>2. CASE v = w
        BY <2>3, <3>1, <3>2 DEF Valid
      <3>3. CASE v # w
        BY <1>0, <2>2, <2>4, <3>1, <3>3 DEF FoundIsFree
      <3> QED
        BY <3>2, <3>3
    <2>9. NoDoubleSale'
      BY <1>0, <2>1, <2>4, <2>5 DEF NoDoubleSale
    <2> QED
      BY <2>6, <2>7, <2>8, <2>9 DEF SaleInv
  <1>3. CASE WriteTickets(w)
    <2>1. /\ booking' = [booking EXCEPT ![w] = "PENDING"] /\ booking[w] = "writing"
          /\ tickets' = [tickets EXCEPT ![w] = found[w]]
          /\ kept' = [kept EXCEPT ![w] = since[w]]
          /\ since' = [since EXCEPT ![w] = {}]
          /\ UNCHANGED <<holder, found>>
      BY <1>3 DEF WriteTickets, redis
    <2>2. /\ booking'[w] = "PENDING" /\ tickets'[w] = found[w]
          /\ kept'[w] = since[w] /\ since'[w] = {}
          /\ \A v \in Users \ {w} : /\ booking'[v] = booking[v] /\ tickets'[v] = tickets[v]
                                    /\ kept'[v] = kept[v] /\ since'[v] = since[v]
      BY <1>0, <2>1 DEF BookingOK, HistoryOK
    <2>3. KeptIsHeld'
      BY <1>0, <2>1, <2>2 DEF KeptIsHeld, Unpaid
    <2>4. KeptIsFree'
      <3> SUFFICES ASSUME NEW u \in Users, NEW v \in Users,
                          NEW s \in tickets'[u] \cap tickets'[v],
                          u # v, booking'[u] = "CONFIRMED", Unpaid(v)'
                   PROVE  s \notin kept'[u] \/ s \notin kept'[v]
        BY DEF KeptIsFree
      <3>1. u # w
        BY <2>2
      <3>2. CASE v = w
        BY <1>0, <2>1, <2>2, <3>1, <3>2 DEF FoundIsFree
      <3>3. CASE v # w
        BY <1>0, <2>2, <3>1, <3>3 DEF KeptIsFree, Unpaid
      <3> QED
        BY <3>2, <3>3
    <2>5. FoundIsFree'
      BY <1>0, <2>1, <2>2 DEF FoundIsFree
    <2>6. NoDoubleSale'
      BY <1>0, <2>2 DEF NoDoubleSale
    <2> QED
      BY <2>3, <2>4, <2>5, <2>6 DEF SaleInv
  <1>4. CASE CloseWindow(w)
    BY <1>0, <1>4 DEF CloseWindow, redis, history, SaleInv, KeptIsHeld, KeptIsFree,
       FoundIsFree, NoDoubleSale, Unpaid
  <1>5. CASE ConfirmPaid(w)
    <2>1. /\ booking' = [booking EXCEPT ![w] = "CONFIRMED"] /\ booking[w] = "PENDING"
          /\ UNCHANGED <<holder, tickets, found, since, kept>>
      BY <1>5 DEF ConfirmPaid, redis, history
    <2>2. /\ booking'[w] = "CONFIRMED"
          /\ \A v \in Users \ {w} : booking'[v] = booking[v]
          /\ Unpaid(w)
      BY <1>0, <2>1 DEF BookingOK, Unpaid
    <2>3. KeptIsHeld'
      BY <1>0, <2>1, <2>2 DEF KeptIsHeld, Unpaid
    <2>4. ASSUME NEW v \in Users, v # w, Unpaid(v), NEW s \in kept[v] \cup since[v]
          PROVE  s \notin kept[w]
      BY <1>0, <2>2, <2>4 DEF KeptIsHeld
    <2>5. KeptIsFree'
      BY <1>0, <2>1, <2>2, <2>4 DEF KeptIsFree, Unpaid
    <2>6. FoundIsFree'
      BY <1>0, <2>1, <2>2, <2>4 DEF FoundIsFree, Unpaid
    <2>7. NoDoubleSale'
      BY <1>0, <2>1, <2>2 DEF NoDoubleSale, KeptIsFree
    <2> QED
      BY <2>3, <2>5, <2>6, <2>7 DEF SaleInv
  <1>6. CASE Refund(w) \/ DeleteSeatReservations(w)
    <2>1. /\ UNCHANGED <<holder, tickets, found, since, kept>>
          /\ \A v \in Users \ {w} : booking'[v] = booking[v]
          /\ booking'[w] \in {"REFUNDED", "RELEASED"}
      BY <1>0, <1>6 DEF Refund, DeleteSeatReservations, redis, history, BookingOK
    <2>2. KeptIsHeld'
      BY <1>0, <2>1 DEF KeptIsHeld, Unpaid
    <2>3. KeptIsFree'
      BY <1>0, <2>1 DEF KeptIsFree, Unpaid
    <2>4. FoundIsFree'
      BY <1>0, <2>1 DEF FoundIsFree
    <2>5. NoDoubleSale'
      BY <1>0, <2>1 DEF NoDoubleSale
    <2> QED
      BY <2>2, <2>3, <2>4, <2>5 DEF SaleInv
  <1> QED
    BY <1>1, <1>2, <1>3, <1>4, <1>5, <1>6 DEF Booking

\* A seat is sold to two customers only if one of them lost the hold of it
\* between the reading of the holds and the payment: whatever the number of
\* replicas and requests in progress, and whatever expires, gets lost, is
\* released or restarts (booking.service.ts:2049).
THEOREM NoDoubleSaleCorrect == Spec => []NoDoubleSale
  <1>1. Init => SaleInv
    BY DEF Init, SaleInv, KeptIsHeld, KeptIsFree, FoundIsFree, NoDoubleSale
  <1>2. Inv /\ SaleInv /\ [Next]_vars => SaleInv'
    BY OtherSteps, ElsewhereSale, BookingSale
  <1>3. SaleInv => NoDoubleSale
    BY DEF SaleInv
  <1> QED
    BY <1>1, <1>2, <1>3, SpecInv, PTL DEF Spec

-----------------------------------------------------------------------------
(* The seat map shows the truth.  What a handler has written is what its    *)
(* event will say, unless the seat is already counted as unseen (Writing,   *)
(* Truthful, Once).  So the last event that is on its way to a client about *)
(* a seat says how the seat is, and with no event on its way the map does   *)
(* (View).                                                                  *)

\* What an event of this kind makes the map show.
After(kind) == CASE kind = "hold"    -> "HELD"
                 [] kind = "release" -> "AVAILABLE"
                 [] kind = "booked"  -> "CONFIRMED"

\* What the client of u cannot know.
Dirty(u) == unseen[u] \cup Unannounced(Handlers)

\* Which message a handler is about when it is at this await.
Fits ==
  \A h \in Handlers :
    /\ pc[h] = "write" => job[h].kind = "hold"
    /\ pc[h] = "publish" => job[h].kind \in {"hold", "release"}
    /\ pc[h] \in {"remaining", "drop"} => job[h].kind \in {"release", "booked"}
    /\ pc[h] \in {"consume", "reserve", "publishBooked"} => job[h].kind = "booked"

\* Between its first write and its event a handler has written the seats the
\* event is about, and no others.
Writing ==
  \A h \in Handlers :
    wrote[h] = IF \/ pc[h] \in {"idle", "write"}
                  \/ pc[h] \in {"remaining", "drop"} /\ job[h].kind = "release"
               THEN {} ELSE job[h].seats

\* A seat that two handlers have written is unseen: their events may come in
\* another order than their writes.
Once ==
  \A g, h \in Handlers : g # h =>
    \A s \in wrote[g] \cap wrote[h], u \in Users : s \in unseen[u]

\* What a handler has written still holds, or the seat is unseen.
Truthful ==
  \A h \in Handlers, u \in Users : \A s \in wrote[h] \ unseen[u] :
    /\ job[h].kind = "hold" => holder[s] # Nobody
    /\ job[h].kind = "release" => holder[s] = Nobody
    /\ pc[h] = "publishBooked" => s \in reserved

\* Event i of the inbox is the last one about seat s.
LastAbout(q, s, i) ==
  /\ i \in 1 .. Len(q)
  /\ s \in q[i].seats
  /\ \A j \in 1 .. Len(q) : j > i => s \notin q[j].seats

\* What the client of u has read, or has on its way, about seat s is true.
Right(u, s) ==
  /\ conn[u] = "holdsRead" =>
       status[u][s] = IF holder[s] # Nobody THEN "HELD" ELSE "AVAILABLE"
  /\ conn[u] = "reservationsRead" =>
       status[u][s] = IF s \in reserved THEN "CONFIRMED" ELSE "AVAILABLE"
  /\ conn[u] \in {"loaded", "joined"} =>
       /\ (\A i \in 1 .. Len(inbox[u]) : s \notin inbox[u][i].seats)
            => status[u][s] = Shown(s)
       /\ \A i \in 1 .. Len(inbox[u]) :
            LastAbout(inbox[u], s, i) => After(inbox[u][i].kind) = Shown(s)

View ==
  \A u \in Users :
    /\ conn[u] # "joined" => inbox[u] = <<>>
    /\ conn[u] = "loading" => \A s \in Seats : status[u][s] = "AVAILABLE"
    /\ \A s \in Seats \ Dirty(u) : Right(u, s)

ViewInv == Fits /\ Writing /\ Once /\ Truthful /\ View

-----------------------------------------------------------------------------
(* What the steps do to the handlers.                                       *)

\* The steps of a handler, by what they do to its message.
LEMMA HandlerControl ==
  ASSUME Inv, Fits, NEW h \in Handlers, Handle(h)
  PROVE  /\ \A g \in Handlers \ {h} : pc'[g] = pc[g] /\ job'[g] = job[g]
         /\ \/ pc'[h] = "idle" /\ job'[h] = NoJob
            \/ /\ pc'[h] # "idle"
               /\ pc'[h] = "write" => job'[h].kind = "hold"
               /\ pc'[h] = "publish" => job'[h].kind \in {"hold", "release"}
               /\ pc'[h] \in {"remaining", "drop"} => job'[h].kind \in {"release", "booked"}
               /\ pc'[h] \in {"consume", "reserve", "publishBooked"} => job'[h].kind = "booked"
  <1>0. ControlOK
    BY UnchangedParts
  <1>1. CASE WriteHold(h)
    BY <1>0, <1>1 DEF WriteHold, Goto, ControlOK, Fits
  <1>2. CASE PublishHeldOrReleased(h) \/ PublishBooked(h) \/ Abort(h)
    BY <1>0, <1>2 DEF PublishHeldOrReleased, PublishBooked, Abort, Goto, Finish, ControlOK, Fits
  <1>3. CASE CheckRemaining(h) \/ DropListing(h)
    BY <1>0, <1>3 DEF CheckRemaining, DropListing, AfterRemaining, Goto, Finish, ControlOK, Fits
  <1>4. ASSUME NEW s \in Seats, ConsumeSeat(h, s)
        PROVE  /\ \A g \in Handlers \ {h} : pc'[g] = pc[g] /\ job'[g] = job[g]
               /\ pc'[h] \in {"remaining", "consume"} /\ job'[h].kind = "booked"
    <2>1. job[h] \in Jobs /\ job[h].kind = "booked"
      BY <1>0, <1>4, JobFields DEF ConsumeSeat, Fits
    <2>2. PICK S \in SUBSET Seats : job' = [job EXCEPT ![h].seats = S]
      BY <1>4, <2>1 DEF ConsumeSeat, Jobs
    <2>3. job'[h].kind = "booked" /\ \A g \in Handlers \ {h} : job'[g] = job[g]
      BY <1>0, <2>1, <2>2 DEF ControlOK, Jobs
    <2> QED
      BY <1>0, <1>4, <2>3 DEF ConsumeSeat, ControlOK
  <1>5. CASE Reserve(h)
    BY <1>0, <1>5 DEF Reserve, Goto, ControlOK, Fits
  <1>6. ASSUME NEW r \in Requests, CheckSeatFree(h, r) \/ ReleaseSeat(h, r) \/ StartBooked(h, r)
        PROVE  /\ \A g \in Handlers \ {h} : pc'[g] = pc[g] /\ job'[g] = job[g]
               /\ \/ pc'[h] = "write" /\ job'[h].kind = "hold"
                  \/ pc'[h] = "publish" /\ job'[h].kind = "release"
                  \/ pc'[h] = "consume" /\ job'[h].kind = "booked"
    BY <1>0, <1>6 DEF CheckSeatFree, ReleaseSeat, StartBooked, Receive, ControlOK
  <1> QED
    BY <1>1, <1>2, <1>3, <1>4, <1>5, <1>6 DEF Handle

\* A step that is not a handler's leaves the handlers and what they wrote.
LEMMA OtherControl ==
  ASSUME [Next]_vars, ~ \E h \in Handlers : Handle(h)
  PROVE  UNCHANGED <<pc, job, wrote>>
  <1>1. ASSUME NEW u \in Users, Client(u)
        PROVE  UNCHANGED <<pc, job, wrote>>
    BY <1>1 DEF Client, Load, ReadReservations, ReadHolds, Join, ToggleSeat, ReceiveEvent,
       service, history
  <1>2. ASSUME NEW u \in Users, Booking(u)
        PROVE  UNCHANGED <<pc, job, wrote>>
    BY <1>2 DEF Booking, StartUpdate, CheckTickets, WriteTickets, CloseWindow, ConfirmPaid,
       Refund, DeleteSeatReservations, ChangesSilently, service, history
  <1>3. ASSUME NEW u \in Users, ExpireSession(u)
        PROVE  UNCHANGED <<pc, job, wrote>>
    BY <1>3 DEF ExpireSession, ChangesSilently, service
  <1>4. ASSUME NEW s \in Seats, ExpireSeat(s)
        PROVE  UNCHANGED <<pc, job, wrote>>
    BY <1>4 DEF ExpireSeat, ChangesSilently, service
  <1>5. ASSUME NEW r \in Requests, IgnoreHold(r)
        PROVE  UNCHANGED <<pc, job, wrote>>
    BY <1>5 DEF IgnoreHold, history
  <1>6. CASE UNCHANGED vars
    BY <1>6 DEF vars, service, history
  <1> QED
    BY <1>1, <1>2, <1>3, <1>4, <1>5, <1>6 DEF Next

LEMMA FitsStep ==
  ASSUME Inv, Fits, [Next]_vars
  PROVE  Fits'
  <1>1. ASSUME NEW h \in Handlers, Handle(h)
        PROVE  Fits'
    BY <1>1, HandlerControl DEF Fits
  <1>2. CASE ~ \E h \in Handlers : Handle(h)
    BY <1>2, OtherControl DEF Fits
  <1> QED
    BY <1>1, <1>2

\* What a handler has written, after one of its steps.
LEMMA WritingStep ==
  ASSUME Inv, Fits, Writing, [Next]_vars
  PROVE  Writing'
  <1>0. ControlOK /\ HistoryOK
    BY UnchangedParts
  <1>1. ASSUME NEW h \in Handlers, Handle(h)
        PROVE  Writing'
    <2>1. \A g \in Handlers \ {h} : pc'[g] = pc[g] /\ job'[g] = job[g]
      BY <1>1, HandlerControl
    <2>2. ASSUME \A g \in Handlers \ {h} : wrote'[g] = wrote[g],
                 wrote'[h] = IF \/ pc'[h] \in {"idle", "write"}
                                \/ pc'[h] \in {"remaining", "drop"} /\ job'[h].kind = "release"
                             THEN {} ELSE job'[h].seats
          PROVE  Writing'
      BY <2>1, <2>2 DEF Writing
    <2>3. CASE WriteHold(h)
      <3>1. wrote[h] = {} /\ wrote' = [wrote EXCEPT ![h] = @ \cup job[h].seats]
        BY <1>0, <2>3 DEF WriteHold, Writes, Writing
      <3>2. pc'[h] = "publish" /\ job'[h] = job[h]
        BY <1>0, <2>3 DEF WriteHold, Goto, ControlOK
      <3> QED
        BY <1>0, <2>2, <3>1, <3>2 DEF HistoryOK
    <2>4. CASE PublishHeldOrReleased(h) \/ PublishBooked(h)
      <3>1. wrote[h] = job[h].seats /\ wrote' = [wrote EXCEPT ![h] = @ \ job[h].seats]
        BY <1>0, <2>4 DEF PublishHeldOrReleased, PublishBooked, Publish, Writing
      <3>2. \/ pc'[h] = "idle"
            \/ pc'[h] = "remaining" /\ job'[h].kind = "release"
        BY <1>0, <2>4 DEF PublishHeldOrReleased, PublishBooked, Goto, Finish, ControlOK, Fits
      <3> QED
        BY <1>0, <2>2, <3>1, <3>2 DEF HistoryOK
    <2>5. CASE CheckRemaining(h) \/ DropListing(h)
      <3>1. /\ pc[h] \in {"remaining", "drop"} /\ job[h].kind \in {"release", "booked"}
            /\ wrote' = wrote
        BY <1>0, <2>5 DEF CheckRemaining, DropListing, history, Fits
      <3>2. \/ pc'[h] = "drop" /\ job'[h] = job[h]
            \/ pc'[h] = "reserve" /\ job'[h] = job[h] /\ job[h].kind = "booked"
            \/ pc'[h] = "idle" /\ job[h].kind # "booked"
        BY <1>0, <2>5 DEF CheckRemaining, DropListing, AfterRemaining, Goto, Finish, ControlOK
      <3>3. wrote[h] = IF job[h].kind = "release" THEN {} ELSE job[h].seats
        BY <3>1 DEF Writing
      <3> QED
        BY <2>2, <3>1, <3>2, <3>3
    <2>6. ASSUME NEW s \in Seats, ConsumeSeat(h, s)
          PROVE  Writing'
      <3>1. job[h] \in Jobs /\ job[h].kind = "booked" /\ wrote[h] = job[h].seats
        BY <1>0, <2>6, JobFields DEF ConsumeSeat, Fits, Writing
      <3>2. /\ job' = [job EXCEPT ![h].seats = job[h].seats \cup {s}]
            /\ pc'[h] \in {"remaining", "consume"}
            /\ wrote' = [wrote EXCEPT ![h] = @ \cup {s}]
        BY <1>0, <2>6 DEF ConsumeSeat, DeleteKeys, Writes, ControlOK
      <3>3. job'[h].kind = "booked" /\ job'[h].seats = job[h].seats \cup {s}
        BY <1>0, <3>1, <3>2 DEF ControlOK, Jobs
      <3> QED
        BY <1>0, <2>2, <3>1, <3>2, <3>3 DEF HistoryOK
    <2>7. CASE Reserve(h)
      <3>1. wrote[h] = job[h].seats /\ wrote' = [wrote EXCEPT ![h] = @ \cup job[h].seats]
        BY <1>0, <2>7 DEF Reserve, Writes, Writing
      <3>2. pc'[h] = "publishBooked" /\ job'[h] = job[h]
        BY <1>0, <2>7 DEF Reserve, Goto, ControlOK
      <3> QED
        BY <1>0, <2>2, <3>1, <3>2 DEF HistoryOK
    <2>8. CASE Abort(h)
      <3>1. wrote' = [wrote EXCEPT ![h] = {}] /\ pc'[h] = "idle"
        BY <1>0, <2>8 DEF Abort, Finish, ControlOK
      <3> QED
        BY <1>0, <2>2, <3>1 DEF HistoryOK
    <2>9. ASSUME NEW r \in Requests, CheckSeatFree(h, r) \/ ReleaseSeat(h, r) \/ StartBooked(h, r)
          PROVE  Writing'
      <3>1. wrote[h] = {} /\ job'[h] = r
        BY <1>0, <2>9 DEF CheckSeatFree, ReleaseSeat, StartBooked, Receive, Writing, ControlOK
      <3>2. \/ pc'[h] = "write" /\ wrote' = wrote
            \/ pc'[h] = "publish" /\ wrote' = [wrote EXCEPT ![h] = @ \cup r.seats]
            \/ pc'[h] = "consume" /\ wrote' = wrote /\ r.kind = "booked"
        BY <1>0, <2>9 DEF CheckSeatFree, ReleaseSeat, StartBooked, Receive, DeleteKeys, Writes,
           ControlOK, history
      <3>3. r.kind = "booked" => r.seats = {}
        BY DEF Requests
      <3> QED
        BY <1>0, <2>2, <3>1, <3>2, <3>3 DEF HistoryOK
    <2> QED
      BY <1>1, <2>3, <2>4, <2>5, <2>6, <2>7, <2>8, <2>9 DEF Handle
  <1>2. CASE ~ \E h \in Handlers : Handle(h)
    BY <1>2, OtherControl DEF Writing
  <1> QED
    BY <1>1, <1>2

-----------------------------------------------------------------------------
(* What the steps do to the truth.                                          *)

\* Seats outside S are held and reserved as before.
Unaltered(S) ==
  \A s \in Seats \ S : holder'[s] = holder[s] /\ (s \in reserved' <=> s \in reserved)

\* What handler h says about seat s is true.
Says(h, s) ==
  /\ job[h].kind = "hold" => holder[s] # Nobody
  /\ job[h].kind = "release" => holder[s] = Nobody
  /\ pc[h] = "publishBooked" => s \in reserved

LEMMA TruthfulSays ==
  Truthful <=> \A h \in Handlers, u \in Users : \A s \in wrote[h] \ unseen[u] : Says(h, s)
  BY DEF Truthful, Says

\* A handler writes seats: what others wrote of them is unseen from now on.
LEMMA WritesTruth ==
  ASSUME HistoryOK, Once, Truthful, NEW h \in Handlers, NEW S \in SUBSET Seats,
         Writes(h, S), Unaltered(S),
         \A g \in Handlers \ {h} : pc'[g] = pc[g] /\ job'[g] = job[g],
         \A s \in wrote'[h] : Says(h, s)'
  PROVE  /\ Once' /\ Truthful'
         /\ \A u \in Users : Dirty(u) \cup S \subseteq Dirty(u)'
  <1> DEFINE O == Unannounced(Handlers \ {h})
  <1>1. /\ wrote'[h] = wrote[h] \cup S
        /\ \A g \in Handlers \ {h} : wrote'[g] = wrote[g] /\ wrote[g] \subseteq O
        /\ \A u \in Users : unseen'[u] = (unseen[u] \ S) \cup (S \cap O)
    BY DEF Writes, HistoryOK, Unannounced
  <1>2. \A g \in Handlers \ {h}, u \in Users : \A s \in wrote[g] \ unseen'[u] :
          s \notin S /\ s \notin unseen[u] /\ s \in Seats
    BY <1>1 DEF HistoryOK
  <1>3. \A g \in Handlers \ {h} : \A s \in wrote[g] \cap wrote'[h], u \in Users : s \in unseen'[u]
    BY <1>1 DEF Once
  <1>4. Once'
    <2> SUFFICES ASSUME NEW g \in Handlers, NEW k \in Handlers, g # k,
                        NEW s \in wrote'[g] \cap wrote'[k], NEW u \in Users
                 PROVE  s \in unseen'[u]
      BY DEF Once
    <2>1. CASE g = h \/ k = h
      BY <1>1, <1>3, <2>1
    <2>2. CASE g # h /\ k # h
      <3>1. s \in wrote[g] /\ s \in wrote[k] /\ s \in unseen[u] /\ s \in O
        BY <1>1, <2>2 DEF Once
      <3> QED
        BY <1>1, <3>1
    <2> QED
      BY <2>1, <2>2
  <1>5. \A g \in Handlers \ {h}, u \in Users : \A s \in wrote'[g] \ unseen'[u] : Says(g, s)'
    <2> SUFFICES ASSUME NEW g \in Handlers \ {h}, NEW u \in Users,
                        NEW s \in wrote'[g] \ unseen'[u]
                 PROVE  Says(g, s)'
      OBVIOUS
    <2>1. s \in wrote[g] \ unseen[u] /\ s \in Seats \ S
      BY <1>1, <1>2
    <2>2. Says(g, s)
      BY <2>1, TruthfulSays
    <2> QED
      BY <2>1, <2>2 DEF Says, Unaltered
  <1>6. Truthful'
    BY <1>5 DEF Truthful, Says
  <1>7. \A u \in Users : Dirty(u) \cup S \subseteq Dirty(u)'
    <2>1. Unannounced(Handlers)' = Unannounced(Handlers) \cup S
      BY <1>1 DEF Unannounced
    <2> QED
      BY <1>1, <2>1 DEF Dirty
  <1> QED
    BY <1>4, <1>6, <1>7

\* Seats change silently: they are unseen from now on.
LEMMA SilentTruth ==
  ASSUME HistoryOK, Once, Truthful, NEW S \in SUBSET Seats,
         ChangesSilently(S), Unaltered(S), UNCHANGED <<pc, job>>
  PROVE  /\ Once' /\ Truthful'
         /\ \A u \in Users : Dirty(u) \cup S \subseteq Dirty(u)'
  <1>1. wrote' = wrote /\ \A u \in Users : unseen'[u] = unseen[u] \cup S
    BY DEF ChangesSilently
  <1>2. Once'
    BY <1>1 DEF Once
  <1>3. Truthful'
    <2> SUFFICES ASSUME NEW g \in Handlers, NEW u \in Users, NEW s \in wrote[g] \ unseen'[u]
                 PROVE  Says(g, s)'
      BY <1>1 DEF Truthful, Says
    <2>1. s \in wrote[g] \ unseen[u] /\ s \in Seats \ S
      BY <1>1 DEF HistoryOK
    <2>2. Says(g, s)
      BY <2>1, TruthfulSays
    <2> QED
      BY <2>1, <2>2 DEF Says, Unaltered
  <1>4. \A u \in Users : Dirty(u) \cup S \subseteq Dirty(u)'
    BY <1>1 DEF Dirty, Unannounced
  <1> QED
    BY <1>2, <1>3, <1>4

\* Seats stay as they are; what was written is announced, given up, or kept.
LEMMA QuietTruth ==
  ASSUME HistoryOK, Once, Truthful, UNCHANGED <<holder, reserved>>,
         \A g \in Handlers : wrote'[g] \subseteq wrote[g],
         \A u \in Users : \A s \in unseen[u] \ unseen'[u], g \in Handlers : s \notin wrote'[g],
         \A g \in Handlers : wrote'[g] # {} =>
           job'[g].kind = job[g].kind /\ (pc'[g] = "publishBooked" => pc[g] = "publishBooked")
  PROVE  Once' /\ Truthful'
  <1>1. \A g \in Handlers, u \in Users : \A s \in wrote'[g] \ unseen'[u] :
          s \in wrote[g] \ unseen[u]
    OBVIOUS
  <1>2. Once'
    BY DEF Once
  <1>3. Truthful'
    BY <1>1 DEF Truthful
  <1> QED
    BY <1>2, <1>3

\* The clients and what is on its way to them stay as they are.
LEMMA QuietView ==
  ASSUME View, UNCHANGED <<conn, status, inbox>>, NEW S \in SUBSET Seats, Unaltered(S),
         \A u \in Users : Dirty(u) \cup S \subseteq Dirty(u)'
  PROVE  View'
  <1>1. ASSUME NEW u \in Users, NEW s \in Seats, s \notin Dirty(u)'
        PROVE  Right(u, s)'
    <2>1. s \in Seats \ S /\ s \in Seats \ Dirty(u)
      BY <1>1
    <2>2. Right(u, s) /\ Shown(s)' = Shown(s)
      BY <2>1 DEF View, Unaltered, Shown
    <2> QED
      BY <2>1, <2>2 DEF Right, Unaltered, LastAbout
  <1> QED
    BY <1>1 DEF View

\* A client that stays as it is is right as long as the seat stays as it is.
LEMMA RightSame ==
  ASSUME NEW u \in Users, NEW s \in Seats, Right(u, s),
         conn'[u] = conn[u], status'[u] = status[u], inbox'[u] = inbox[u],
         holder'[s] = holder[s], s \in reserved' <=> s \in reserved
  PROVE  Right(u, s)'
  BY DEF Right, LastAbout, After, Shown

\* The request that a handler receives changes nothing by itself.
LEMMA NothingWritten ==
  ASSUME Writing, NEW h \in Handlers, pc[h] \in {"idle", "write"}
  PROVE  wrote[h] = {}
  BY DEF Writing

\* Steps of handlers that change seats.
LEMMA HandlerWrites ==
  ASSUME Inv, ViewInv, NEW h \in Handlers,
         \/ WriteHold(h) \/ Reserve(h)
         \/ \E s \in Seats : ConsumeSeat(h, s)
         \/ \E r \in Requests : ReleaseSeat(h, r)
  PROVE  Once' /\ Truthful' /\ View'
  <1> USE DEF ViewInv
  <1>0. ControlOK /\ HistoryOK /\ RedisOK /\ ServiceOK
    BY UnchangedParts
  <1>1. \A g \in Handlers \ {h} : pc'[g] = pc[g] /\ job'[g] = job[g]
    BY HandlerControl DEF Handle
  <1>2. ASSUME NEW S \in SUBSET Seats, Writes(h, S), Unaltered(S), UNCHANGED client,
               \A s \in wrote'[h] : Says(h, s)'
        PROVE  Once' /\ Truthful' /\ View'
    <2>1. /\ Once' /\ Truthful'
          /\ \A u \in Users : Dirty(u) \cup S \subseteq Dirty(u)'
      BY <1>0, <1>1, <1>2, WritesTruth
    <2> QED
      BY <1>2, <2>1, QuietView DEF client
  <1>3. ASSUME NEW S, Writes(h, S) PROVE wrote'[h] = wrote[h] \cup S
    BY <1>0, <1>3 DEF Writes, HistoryOK
  <1>4. CASE WriteHold(h)
    <2> DEFINE u == job[h].user
               S == job[h].seats
    <2>1. S \in SUBSET Seats /\ u \in Users /\ job[h].kind = "hold"
      BY <1>0, <1>4, JobFields DEF WriteHold, Fits
    <2>2. holder' = [s \in Seats |-> IF s \in S THEN u ELSE holder[s]]
      BY <1>4 DEF WriteHold
    <2>3. wrote'[h] = S
      BY <1>3, <1>4, NothingWritten DEF WriteHold
    <2>4. job'[h].kind = "hold" /\ pc'[h] = "publish"
      BY <1>0, <1>4, <2>1 DEF WriteHold, Goto, ControlOK
    <2>5. \A s \in S : Says(h, s)'
      BY <2>1, <2>2, <2>4, SaleAssumption DEF Says
    <2>6. Unaltered(S)
      BY <1>4, <2>2 DEF WriteHold, Unaltered
    <2> QED
      BY <1>2, <1>4, <2>1, <2>3, <2>5, <2>6 DEF WriteHold
  <1>5. CASE Reserve(h)
    <2> DEFINE S == job[h].seats
    <2>1. S \in SUBSET Seats /\ wrote[h] = S /\ job[h].kind = "booked"
      BY <1>0, <1>5, JobFields DEF Reserve, Fits, Writing
    <2>2. reserved' = reserved \cup S /\ Writes(h, S) /\ UNCHANGED holder
      BY <1>5 DEF Reserve, redis
    <2>3. wrote'[h] = S /\ job'[h].kind = "booked"
      BY <1>3, <1>5, <2>1, <2>2 DEF Reserve, Goto
    <2>4. \A s \in S : Says(h, s)'
      BY <2>2, <2>3 DEF Says
    <2>5. Unaltered(S)
      BY <2>2 DEF Unaltered
    <2> QED
      BY <1>2, <1>5, <2>1, <2>2, <2>3, <2>4, <2>5 DEF Reserve
  <1>6. ASSUME NEW s \in Seats, ConsumeSeat(h, s)
        PROVE  Once' /\ Truthful' /\ View'
    <2>1. job'[h].kind = "booked" /\ pc'[h] # "publishBooked"
      <3>1. pc'[h] \in {"consume", "remaining"}
        BY <1>0, <1>6 DEF ConsumeSeat, ControlOK
      <3>2. job[h] \in Jobs /\ job[h].kind = "booked"
        BY <1>0, <1>6, JobFields DEF ConsumeSeat, Fits
      <3>3. job' = [job EXCEPT ![h].seats = job[h].seats \cup {s}]
        BY <1>6 DEF ConsumeSeat
      <3> QED
        BY <1>0, <3>1, <3>2, <3>3 DEF ControlOK, Jobs
    <2>2. \A q \in wrote'[h] : Says(h, q)'
      BY <2>1 DEF Says
    <2>3. Writes(h, {s}) /\ Unaltered({s}) /\ UNCHANGED client
      BY <1>6 DEF ConsumeSeat, DeleteKeys, Unaltered
    <2> QED
      BY <1>2, <2>2, <2>3
  <1>7. ASSUME NEW r \in Requests, ReleaseSeat(h, r)
        PROVE  Once' /\ Truthful' /\ View'
    <2>1. r.seats \in SUBSET Seats
      BY RequestFields DEF Jobs
    <2>2. /\ holder' = [s \in Seats |-> IF s \in r.seats THEN Nobody ELSE holder[s]]
          /\ Writes(h, r.seats) /\ UNCHANGED client /\ UNCHANGED reserved
      BY <1>7 DEF ReleaseSeat, DeleteKeys
    <2>3. wrote'[h] = r.seats
      <3>1. wrote[h] = {}
        BY <1>7, NothingWritten DEF ReleaseSeat, Receive
      <3>2. wrote'[h] = wrote[h] \cup r.seats
        BY <1>3, <2>2
      <3> QED
        BY <3>1, <3>2
    <2>4. job'[h].kind = "release" /\ pc'[h] = "publish"
      BY <1>0, <1>7 DEF ReleaseSeat, Receive, ControlOK
    <2>5. \A s \in r.seats : Says(h, s)'
      BY <2>1, <2>2, <2>4 DEF Says
    <2>6. Unaltered(r.seats)
      BY <2>2 DEF Unaltered
    <2> QED
      BY <1>2, <2>1, <2>2, <2>3, <2>5, <2>6
  <1> QED
    BY <1>4, <1>5, <1>6, <1>7

\* An event is sent: what the handler wrote is still so, unless it is unseen.
LEMMA PublishView ==
  ASSUME Inv, ViewInv, NEW h \in Handlers, PublishHeldOrReleased(h) \/ PublishBooked(h)
  PROVE  Once' /\ Truthful' /\ View'
  <1> USE DEF ViewInv
  <1> DEFINE e == job[h]
             overruled == IF e.kind = "booked" THEN {} ELSE e.seats \cap reserved
  <1>0. ControlOK /\ HistoryOK /\ RedisOK /\ ServiceOK /\ InboxOK
    BY UnchangedParts
  <1>1. /\ inbox' = [u \in Users |-> IF conn[u] = "joined" THEN Append(inbox[u], e) ELSE inbox[u]]
        /\ unseen' = [u \in Users |-> unseen[u] \cup
                        IF conn[u] = "joined" THEN overruled ELSE e.seats]
        /\ wrote'  = [wrote EXCEPT ![h] = @ \ e.seats]
        /\ UNCHANGED <<conn, status, holder, reserved>>
    BY DEF PublishHeldOrReleased, PublishBooked, Publish, redis
  <1>2. e \in Jobs /\ e.seats \in SUBSET Seats /\ wrote[h] = e.seats
    BY <1>0, JobFields DEF PublishHeldOrReleased, PublishBooked, Writing
  <1>3. \/ pc[h] = "publish" /\ e.kind \in {"hold", "release"}
        \/ pc[h] = "publishBooked" /\ e.kind = "booked"
    BY DEF PublishHeldOrReleased, PublishBooked, Fits
  <1>4. wrote'[h] = {} /\ \A g \in Handlers \ {h} : wrote'[g] = wrote[g]
    BY <1>0, <1>1, <1>2 DEF HistoryOK
  <1>5. \A g \in Handlers \ {h} : pc'[g] = pc[g] /\ job'[g] = job[g]
    BY HandlerControl DEF Handle
  <1>6. \A u \in Users : unseen[u] \subseteq unseen'[u]
    BY <1>1 DEF HistoryOK
  <1>7. Once' /\ Truthful'
    BY <1>0, <1>1, <1>4, <1>5, <1>6, QuietTruth
  <1>8. Unannounced(Handlers) = Unannounced(Handlers)' \cup e.seats
    BY <1>2, <1>4 DEF Unannounced
  <1>9. ASSUME NEW u \in Users, NEW s \in Seats, s \notin Dirty(u)'
        PROVE  Right(u, s)'
    <2>1. Shown(s)' = Shown(s)
      BY <1>1 DEF Shown
    <2>2. s \notin unseen[u] /\ s \notin unseen'[u]
      BY <1>6, <1>9 DEF Dirty
    <2>3. CASE conn[u] # "joined"
      <3>1. s \notin e.seats
        BY <1>1, <2>2, <2>3
      <3>2. Right(u, s)
        BY <1>8, <1>9, <2>2, <3>1 DEF View, Dirty
      <3> QED
        BY <1>1, <2>1, <2>3, <3>2 DEF Right, LastAbout
    <2>4. CASE conn[u] = "joined"
      <3> DEFINE q == inbox[u]
                 n == Len(q) + 1
      <3>1. /\ q \in Seq(Jobs) /\ inbox'[u] = Append(q, e)
            /\ Len(inbox'[u]) = n /\ n \in Nat /\ inbox'[u][n] = e
            /\ \A i \in 1 .. Len(q) : i \in 1 .. n /\ i < n /\ inbox'[u][i] = q[i]
        BY <1>0, <1>1, <1>2, <2>4 DEF InboxOK
      <3>2. \A i \in 1 .. n : i \in 1 .. Len(q) \/ i = n
        BY <3>1
      <3>3. CASE s \in e.seats
        <4>1. s \in wrote[h] \ unseen[u] /\ s \notin overruled
          BY <1>1, <1>2, <2>2, <2>4, <3>3
        <4>2. Says(h, s)
          BY <4>1, TruthfulSays
        <4>3. After(e.kind) = Shown(s)
          BY <1>3, <3>3, <4>1, <4>2 DEF Says, After, Shown
        <4>4. \A i \in 1 .. n : LastAbout(inbox'[u], s, i) => i = n
          BY <3>1, <3>2, <3>3 DEF LastAbout
        <4>5. n \in 1 .. n /\ s \in inbox'[u][n].seats
          BY <3>1, <3>3
        <4> QED
          BY <1>1, <2>1, <2>4, <3>1, <4>3, <4>4, <4>5 DEF Right
      <3>4. CASE s \notin e.seats
        <4>1. Right(u, s)
          BY <1>8, <1>9, <2>2, <3>4 DEF View, Dirty
        <4>2. \A i \in 1 .. n : LastAbout(inbox'[u], s, i) => i \in 1 .. Len(q) /\ LastAbout(q, s, i)
          BY <3>1, <3>2, <3>4 DEF LastAbout
        <4>3. (\A i \in 1 .. n : s \notin inbox'[u][i].seats)
                => \A i \in 1 .. Len(q) : s \notin q[i].seats
          BY <3>1
        <4> QED
          BY <1>1, <2>1, <2>4, <3>1, <4>1, <4>2, <4>3 DEF Right
      <3> QED
        BY <3>3, <3>4
    <2> QED
      BY <2>3, <2>4
  <1>10. View'
    BY <1>1, <1>9 DEF View
  <1> QED
    BY <1>7, <1>10

\* Other steps of handlers: nothing changes that a map shows.
LEMMA HandlerQuiet ==
  ASSUME Inv, ViewInv, NEW h \in Handlers,
         \/ CheckRemaining(h) \/ DropListing(h) \/ Abort(h)
         \/ \E r \in Requests : CheckSeatFree(h, r) \/ StartBooked(h, r)
  PROVE  Once' /\ Truthful' /\ View'
  <1> USE DEF ViewInv
  <1>0. ControlOK /\ HistoryOK
    BY UnchangedParts
  <1>1. \A g \in Handlers \ {h} : pc'[g] = pc[g] /\ job'[g] = job[g]
    BY HandlerControl DEF Handle
  <1>2. UNCHANGED client /\ UNCHANGED <<holder, reserved>>
    BY DEF CheckRemaining, DropListing, Abort, CheckSeatFree, StartBooked, redis
  <1>3. Unaltered({})
    BY <1>2 DEF Unaltered
  <1>4. CASE Abort(h)
    <2>1. /\ wrote' = [wrote EXCEPT ![h] = {}]
          /\ unseen' = [u \in Users |-> unseen[u] \cup wrote[h]]
      BY <1>4 DEF Abort
    <2>2. /\ wrote'[h] = {} /\ \A g \in Handlers \ {h} : wrote'[g] = wrote[g]
          /\ \A u \in Users : unseen[u] \subseteq unseen'[u]
      BY <1>0, <2>1 DEF HistoryOK
    <2>3. Once' /\ Truthful'
      BY <1>0, <1>1, <1>2, <2>2, QuietTruth
    <2>4. \A u \in Users : Dirty(u) \subseteq Dirty(u)'
      BY <2>1, <2>2 DEF Dirty, Unannounced
    <2> QED
      BY <1>2, <1>3, <2>3, <2>4, QuietView DEF client
  <1>5. CASE ~Abort(h)
    <2>1. UNCHANGED <<wrote, unseen>>
      BY <1>5 DEF CheckRemaining, DropListing, CheckSeatFree, StartBooked, history
    <2>2. \/ wrote[h] = {}
          \/ job'[h] = job[h] /\ pc'[h] \in {"drop", "reserve"}
      <3>1. CASE CheckRemaining(h) \/ DropListing(h)
        BY <1>0, <3>1 DEF CheckRemaining, DropListing, AfterRemaining, Goto, Finish, ControlOK,
           Writing, Fits
      <3>2. ASSUME NEW r \in Requests, CheckSeatFree(h, r) \/ StartBooked(h, r)
            PROVE  wrote[h] = {}
        BY <3>2, NothingWritten DEF CheckSeatFree, StartBooked, Receive
      <3> QED
        BY <1>5, <3>1, <3>2
    <2>3. Once' /\ Truthful'
      BY <1>0, <1>1, <1>2, <2>1, <2>2, QuietTruth
    <2>4. \A u \in Users : Dirty(u) \subseteq Dirty(u)'
      BY <2>1 DEF Dirty, Unannounced
    <2> QED
      BY <1>2, <1>3, <2>3, <2>4, QuietView DEF client
  <1> QED
    BY <1>4, <1>5

\* Steps of bookings, expiry, and requests that are ignored.
LEMMA ElsewhereView ==
  ASSUME Inv, ViewInv,
         \/ \E u \in Users : Booking(u) \/ ExpireSession(u)
         \/ \E s \in Seats : ExpireSeat(s)
         \/ \E r \in Requests : IgnoreHold(r)
         \/ UNCHANGED vars
  PROVE  Once' /\ Truthful' /\ View'
  <1> USE DEF ViewInv
  <1>0. HistoryOK /\ BookingOK /\ RedisOK /\ ServiceOK
    BY UnchangedParts
  <1>1. ASSUME NEW S \in SUBSET Seats, ChangesSilently(S), Unaltered(S),
               UNCHANGED <<pc, job>>, UNCHANGED client
        PROVE  Once' /\ Truthful' /\ View'
    <2>1. /\ Once' /\ Truthful'
          /\ \A u \in Users : Dirty(u) \cup S \subseteq Dirty(u)'
      BY <1>0, <1>1, SilentTruth
    <2> QED
      BY <1>1, <2>1, QuietView DEF client
  <1>2. ASSUME UNCHANGED <<holder, reserved, wrote, unseen, pc, job>>, UNCHANGED client
        PROVE  Once' /\ Truthful' /\ View'
    <2>1. Once' /\ Truthful'
      BY <1>0, <1>2, QuietTruth
    <2>2. \A u \in Users : Dirty(u) \subseteq Dirty(u)'
      BY <1>2 DEF Dirty, Unannounced
    <2>3. Unaltered({})
      BY <1>2 DEF Unaltered
    <2> QED
      BY <1>2, <2>1, <2>2, <2>3, QuietView DEF client
  <1>3. ASSUME NEW u \in Users, ExpireSession(u)
        PROVE  Once' /\ Truthful' /\ View'
    <2> DEFINE S == {s \in Seats : holder[s] = u}
    <2>1. ChangesSilently(S) /\ Unaltered(S) /\ UNCHANGED <<pc, job>> /\ UNCHANGED client
      BY <1>3 DEF ExpireSession, Unaltered, service
    <2> QED
      BY <1>1, <2>1
  <1>4. ASSUME NEW s \in Seats, ExpireSeat(s)
        PROVE  Once' /\ Truthful' /\ View'
    <2>1. ChangesSilently({s}) /\ Unaltered({s}) /\ UNCHANGED <<pc, job>> /\ UNCHANGED client
      BY <1>0, <1>4 DEF ExpireSeat, Unaltered, service, RedisOK
    <2> QED
      BY <1>1, <2>1
  <1>5. ASSUME NEW u \in Users, DeleteSeatReservations(u)
        PROVE  Once' /\ Truthful' /\ View'
    <2>1. /\ tickets[u] \in SUBSET Seats
          /\ ChangesSilently(tickets[u]) /\ Unaltered(tickets[u])
          /\ UNCHANGED <<pc, job>> /\ UNCHANGED client
      BY <1>0, <1>5 DEF DeleteSeatReservations, Unaltered, redis, BookingOK
    <2> QED
      BY <1>1, <2>1
  <1>6. ASSUME NEW u \in Users,
               \/ StartUpdate(u) \/ CheckTickets(u) \/ WriteTickets(u) \/ CloseWindow(u)
               \/ ConfirmPaid(u) \/ Refund(u)
        PROVE  UNCHANGED <<holder, reserved, wrote, unseen, pc, job>> /\ UNCHANGED client
    BY <1>6 DEF StartUpdate, CheckTickets, WriteTickets, CloseWindow, ConfirmPaid, Refund,
       redis, service, history
  <1>7. ASSUME (\E r \in Requests : IgnoreHold(r)) \/ UNCHANGED vars
        PROVE  UNCHANGED <<holder, reserved, wrote, unseen, pc, job>> /\ UNCHANGED client
    BY <1>7 DEF IgnoreHold, vars, redis, service, history
  <1> QED
    BY <1>2, <1>3, <1>4, <1>5, <1>6, <1>7 DEF Booking

\* The page has read one of the two.
LEMMA OnlyReservations ==
  ASSUME NEW u \in Users, NEW s \in Seats, UNCHANGED <<holder, reserved>>,
         conn'[u] = "reservationsRead",
         status'[u][s] = IF s \in reserved THEN "CONFIRMED" ELSE "AVAILABLE"
  PROVE  Right(u, s)'
  BY DEF Right, LastAbout, After, Shown

LEMMA OnlyHolds ==
  ASSUME NEW u \in Users, NEW s \in Seats, UNCHANGED <<holder, reserved>>,
         conn'[u] = "holdsRead",
         status'[u][s] = IF holder[s] # Nobody THEN "HELD" ELSE "AVAILABLE"
  PROVE  Right(u, s)'
  BY DEF Right, LastAbout, After, Shown

\* What the page reads and receives is true.
LEMMA ClientView ==
  ASSUME Inv, ViewInv, NEW u \in Users, Client(u)
  PROVE  Once' /\ Truthful' /\ View'
  <1> USE DEF ViewInv
  <1>0. HistoryOK /\ ClientOK /\ InboxOK
    BY UnchangedParts
  <1>1. UNCHANGED <<pc, job, holder, reserved, wrote>>
    BY DEF Client, Load, ReadReservations, ReadHolds, Join, ToggleSeat, ReceiveEvent, redis,
       service, history
  <1>2. CASE Load(u)
    <2>1. /\ conn'[u] = "loading" /\ inbox'[u] = <<>> /\ unseen'[u] = Unannounced(Handlers)
          /\ \A s \in Seats : status'[u][s] = "AVAILABLE"
          /\ \A v \in Users \ {u} : /\ conn'[v] = conn[v] /\ inbox'[v] = inbox[v]
                                    /\ status'[v] = status[v] /\ unseen'[v] = unseen[v]
      BY <1>0, <1>2 DEF Load, ClientOK, InboxOK, HistoryOK
    <2>2. \A h \in Handlers : wrote[h] \subseteq Unannounced(Handlers)
      BY DEF Unannounced
    <2>3. \A v \in Users : \A s \in unseen[v] \ unseen'[v], h \in Handlers : s \notin wrote'[h]
      BY <1>1, <2>1, <2>2
    <2>4. Once' /\ Truthful'
      BY <1>0, <1>1, <2>3, QuietTruth
    <2>5. ASSUME NEW v \in Users, NEW s \in Seats, s \notin Dirty(v)'
          PROVE  Right(v, s)'
      <3>1. CASE v = u
        BY <2>1, <3>1 DEF Right
      <3>2. CASE v # u
        <4>1. s \notin Dirty(v)
          BY <1>1, <2>1, <2>5, <3>2 DEF Dirty, Unannounced
        <4> QED
          BY <1>1, <2>1, <3>2, <4>1, RightSame DEF View
      <3> QED
        BY <3>1, <3>2
    <2> QED
      BY <2>1, <2>4, <2>5 DEF View
  <1>3. CASE ~Load(u)
    <2>1. UNCHANGED unseen
      BY <1>3 DEF Client, ReadReservations, ReadHolds, Join, ToggleSeat, ReceiveEvent, history
    <2>2. Once' /\ Truthful'
      BY <1>0, <1>1, <2>1, QuietTruth
    <2>3. \A v \in Users : Dirty(v)' = Dirty(v)
      BY <1>1, <2>1 DEF Dirty, Unannounced
    <2>4. \A s \in Seats : Shown(s)' = Shown(s)
      BY <1>1 DEF Shown
    <2>5. \A v \in Users \ {u} : conn'[v] = conn[v] /\ inbox'[v] = inbox[v] /\ status'[v] = status[v]
      BY <1>0, <1>3 DEF Client, ReadReservations, ReadHolds, Join, ToggleSeat, ReceiveEvent,
         ClientOK, InboxOK
    <2>6. ASSUME conn'[u] # "joined" => inbox'[u] = <<>>,
                 conn'[u] # "loading",
                 \A s \in Seats \ Dirty(u) : Right(u, s) => Right(u, s)'
          PROVE  View'
      <3>1. ASSUME NEW v \in Users, NEW s \in Seats \ Dirty(v)
            PROVE  Right(v, s)'
        <4>1. Right(v, s)
          BY <3>1 DEF View
        <4>2. CASE v = u
          BY <2>6, <3>1, <4>1, <4>2
        <4>3. CASE v # u
          BY <1>1, <2>5, <3>1, <4>1, <4>3, RightSame
        <4> QED
          BY <4>2, <4>3
      <3> QED
        BY <2>3, <2>5, <2>6, <3>1 DEF View
    <2>7. CASE ReadReservations(u)
      <3>1. /\ conn[u] \in {"loading", "holdsRead"} /\ inbox'[u] = inbox[u]
            /\ conn'[u] = IF conn[u] = "loading" THEN "reservationsRead" ELSE "loaded"
            /\ \A s \in Seats : status'[u][s] =
                 IF s \in reserved THEN "CONFIRMED" ELSE status[u][s]
        BY <1>0, <2>7 DEF ReadReservations, ClientOK
      <3>2. inbox'[u] = <<>> /\ (conn[u] = "loading" => \A s \in Seats : status[u][s] = "AVAILABLE")
        BY <3>1 DEF View
      <3>3. ASSUME NEW s \in Seats \ Dirty(u), Right(u, s)
            PROVE  Right(u, s)'
        <4>1. CASE conn[u] = "loading"
          <5>1. /\ conn'[u] = "reservationsRead"
                /\ status'[u][s] = IF s \in reserved THEN "CONFIRMED" ELSE "AVAILABLE"
            BY <3>1, <3>2, <4>1
          <5>2. s \in Seats /\ UNCHANGED <<holder, reserved>>
            BY <1>1
          <5> QED
            BY <5>1, <5>2, OnlyReservations
        <4>2. CASE conn[u] = "holdsRead"
          <5>1. conn'[u] = "loaded" /\ status'[u][s] = Shown(s)
            BY <3>1, <3>3, <4>2 DEF Right, Shown
          <5>2. 1 .. Len(inbox'[u]) = {}
            BY <3>2
          <5> QED
            BY <2>4, <5>1, <5>2 DEF Right, LastAbout, After
        <4> QED
          BY <3>1, <4>1, <4>2
      <3>4. conn'[u] \notin {"joined", "loading"}
        BY <3>1
      <3> QED
        BY <2>2, <2>6, <3>2, <3>3, <3>4
    <2>8. CASE ReadHolds(u)
      <3>1. /\ conn[u] \in {"loading", "reservationsRead"} /\ inbox'[u] = inbox[u]
            /\ conn'[u] = IF conn[u] = "loading" THEN "holdsRead" ELSE "loaded"
            /\ \A s \in Seats : status'[u][s] =
                 IF status[u][s] # "CONFIRMED" /\ holder[s] # Nobody THEN "HELD"
                 ELSE status[u][s]
        BY <1>0, <2>8 DEF ReadHolds, ClientOK
      <3>2. inbox'[u] = <<>> /\ (conn[u] = "loading" => \A s \in Seats : status[u][s] = "AVAILABLE")
        BY <3>1 DEF View
      <3>3. ASSUME NEW s \in Seats \ Dirty(u), Right(u, s)
            PROVE  Right(u, s)'
        <4>1. CASE conn[u] = "loading"
          <5>1. /\ conn'[u] = "holdsRead"
                /\ status'[u][s] = IF holder[s] # Nobody THEN "HELD" ELSE "AVAILABLE"
            BY <3>1, <3>2, <4>1
          <5>2. s \in Seats /\ UNCHANGED <<holder, reserved>>
            BY <1>1
          <5> QED
            BY <5>1, <5>2, OnlyHolds
        <4>2. CASE conn[u] = "reservationsRead"
          <5>1. conn'[u] = "loaded" /\ status'[u][s] = Shown(s)
            BY <3>1, <3>3, <4>2 DEF Right, Shown
          <5>2. 1 .. Len(inbox'[u]) = {}
            BY <3>2
          <5> QED
            BY <2>4, <5>1, <5>2 DEF Right, LastAbout, After
        <4> QED
          BY <3>1, <4>1, <4>2
      <3>4. conn'[u] \notin {"joined", "loading"}
        BY <3>1
      <3> QED
        BY <2>2, <2>6, <3>2, <3>3, <3>4
    <2>9. CASE Join(u)
      <3>1. conn[u] = "loaded" /\ conn'[u] = "joined" /\ UNCHANGED <<status, inbox>>
        BY <1>0, <2>9 DEF Join, ClientOK
      <3>2. \A s \in Seats \ Dirty(u) : Right(u, s) => Right(u, s)'
        BY <2>4, <3>1 DEF Right, LastAbout, After
      <3> QED
        BY <2>2, <2>6, <3>1, <3>2
    <2>10. ASSUME NEW s \in Seats, ToggleSeat(u, s)
           PROVE  View'
      <3>1. UNCHANGED <<conn, status, inbox>>
        BY <2>10 DEF ToggleSeat
      <3>2. Unaltered({})
        BY <1>1 DEF Unaltered
      <3> QED
        BY <2>3, <3>1, <3>2, QuietView
    <2>11. CASE ReceiveEvent(u)
      <3> DEFINE q == inbox[u]
                 n == Len(q)
                 e == Head(q)
      <3>1. /\ q \in Seq(Jobs) /\ q # <<>> /\ inbox'[u] = Tail(q)
            /\ n \in Nat /\ n > 0 /\ Len(inbox'[u]) = n - 1
            /\ e = q[1] /\ e \in Jobs
            /\ \A i \in 1 .. n - 1 : i + 1 \in 1 .. n /\ inbox'[u][i] = q[i + 1]
        BY <1>0, <2>11 DEF ReceiveEvent, InboxOK
      <3>2. conn[u] = "joined" /\ conn'[u] = "joined"
        BY <2>11 DEF ReceiveEvent
      <3>3. /\ \A s \in Seats \ e.seats : status'[u][s] = status[u][s]
            /\ \A s \in Seats \cap e.seats : status'[u][s] = After(e.kind)
        BY <1>0, <2>11, <3>1 DEF ReceiveEvent, ClientOK, After, Jobs
      <3>4. \A i \in 1 .. n : i = 1 \/ (i - 1 \in 1 .. n - 1 /\ (i - 1) + 1 = i)
        BY <3>1
      <3>5. ASSUME NEW s \in Seats \ Dirty(u), Right(u, s)
            PROVE  Right(u, s)'
        <4>1. ASSUME \A i \in 1 .. n - 1 : s \notin inbox'[u][i].seats
              PROVE  status'[u][s] = Shown(s)
          <5>1. \A i \in 1 .. n : i = 1 \/ s \notin q[i].seats
            BY <3>1, <3>4, <4>1
          <5>2. CASE s \in e.seats
            <6>1. LastAbout(q, s, 1)
              BY <3>1, <5>1, <5>2 DEF LastAbout
            <6>2. After(e.kind) = Shown(s)
              BY <3>1, <3>2, <3>5, <6>1 DEF Right
            <6> QED
              BY <3>3, <5>2, <6>2
          <5>3. CASE s \notin e.seats
            BY <3>1, <3>2, <3>3, <3>5, <5>1, <5>3 DEF Right
          <5> QED
            BY <5>2, <5>3
        <4>2. ASSUME NEW i \in 1 .. n - 1, LastAbout(inbox'[u], s, i)
              PROVE  After(inbox'[u][i].kind) = Shown(s)
          <5>1. \A j \in 1 .. n : j > i + 1 => s \notin q[j].seats
            <6> SUFFICES ASSUME NEW j \in 1 .. n, j > i + 1 PROVE s \notin q[j].seats
              OBVIOUS
            <6>1. j - 1 \in 1 .. n - 1 /\ j - 1 > i /\ (j - 1) + 1 = j
              BY <3>1
            <6>2. s \notin inbox'[u][j - 1].seats
              BY <3>1, <4>2, <6>1 DEF LastAbout
            <6> QED
              BY <3>1, <6>1, <6>2
          <5>2. LastAbout(q, s, i + 1)
            BY <3>1, <4>2, <5>1 DEF LastAbout
          <5> QED
            BY <3>1, <3>2, <3>5, <5>2 DEF Right
        <4> QED
          BY <2>4, <3>1, <3>2, <4>1, <4>2 DEF Right, LastAbout, After
      <3> QED
        BY <2>2, <2>6, <3>2, <3>5
    <2> QED
      BY <1>3, <2>2, <2>7, <2>8, <2>9, <2>10, <2>11 DEF Client
  <1> QED
    BY <1>2, <1>3

LEMMA StepView ==
  ASSUME Inv, ViewInv, [Next]_vars
  PROVE  ViewInv'
  <1>1. Fits' /\ Writing'
    BY FitsStep, WritingStep DEF ViewInv
  <1>2. ASSUME NEW h \in Handlers, Handle(h)
        PROVE  Once' /\ Truthful' /\ View'
    BY <1>2, HandlerWrites, PublishView, HandlerQuiet DEF Handle
  <1>3. ASSUME NEW u \in Users, Client(u)
        PROVE  Once' /\ Truthful' /\ View'
    BY <1>3, ClientView
  <1>4. Once' /\ Truthful' /\ View'
    BY <1>2, <1>3, ElsewhereView DEF Next
  <1> QED
    BY <1>1, <1>4 DEF ViewInv

LEMMA InitView ==
  ASSUME Init
  PROVE  ViewInv
  <1>1. Fits /\ Writing /\ Once /\ Truthful
    BY DEF Init, Fits, Writing, Once, Truthful
  <1>2. View
    BY DEF Init, View, Right
  <1> QED
    BY <1>1, <1>2 DEF ViewInv

\* A seat map that has received its events is true, but for the seats whose
\* change nobody announced, or nobody announced in this order: for any number of
\* customers, seats, handlers and events on their way (booking-store.ts).
THEOREM ViewCorrect == Spec => []ViewIsTrue
  <1>1. Init => ViewInv
    BY InitView
  <1>2. Inv /\ ViewInv /\ [Next]_vars => ViewInv'
    BY StepView
  <1>3. ViewInv => ViewIsTrue
    <2> SUFFICES ASSUME ViewInv, NEW u \in Users, NEW s \in Seats,
                        conn[u] = "joined", inbox[u] = <<>>,
                        s \notin unseen[u] \cup Unannounced(Handlers)
                 PROVE  status[u][s] = Shown(s)
      BY DEF ViewIsTrue
    <2>1. Right(u, s)
      BY DEF ViewInv, View, Dirty
    <2> QED
      BY <2>1 DEF Right
  <1> QED
    BY <1>1, <1>2, <1>3, SpecInv, PTL DEF Spec
=============================================================================
