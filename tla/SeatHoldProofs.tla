--------------------------- MODULE SeatHoldProofs ---------------------------
(* Theorems about the seat holds, for every value of the constants.        *)
EXTENDS SeatHold, FiniteSetTheorems, TLAPS

-----------------------------------------------------------------------------
(* Type correctness.                                                       *)

\* The Redis commands keep the key entries well formed.
LEMMA DelSeatKeysType ==
  ASSUME TypeOK, NEW st \in Showtimes, NEW S \in SUBSET Seats, DelSeatKeys(st, S)
  PROVE  /\ holder'  \in [Showtimes -> [Seats -> Users \cup {NoUser}]]
         /\ seatTtl' \in [Showtimes -> [Seats -> 0..HoldTtl]]
         /\ \A x \in Showtimes, s \in Seats : holder'[x][s] = NoUser <=> seatTtl'[x][s] = 0
  BY ConstantsAssumption DEF TypeOK, DelSeatKeys

LEMMA SetListingType ==
  ASSUME TypeOK, NEW u \in Users, NEW st \in Showtimes, NEW S \in SUBSET Seats,
         NEW t \in 0..HoldTtl, S # {} => t # 0, SetListing(u, st, S, t)
  PROVE  /\ listing' \in [Users -> [Showtimes -> SUBSET Seats]]
         /\ listTtl' \in [Users -> [Showtimes -> 0..HoldTtl]]
         /\ \A v \in Users, x \in Showtimes : listing'[v][x] = {} <=> listTtl'[v][x] = 0
  BY ConstantsAssumption DEF TypeOK, SetListing

LEMMA RemoveFromListingType ==
  ASSUME TypeOK, NEW u \in Users, NEW st \in Showtimes, NEW S \in SUBSET Seats,
         RemoveFromListing(u, st, S)
  PROVE  /\ listing' \in [Users -> [Showtimes -> SUBSET Seats]]
         /\ listTtl' \in [Users -> [Showtimes -> 0..HoldTtl]]
         /\ \A v \in Users, x \in Showtimes : listing'[v][x] = {} <=> listTtl'[v][x] = 0
  <1>1. listTtl[u][st] \in 0..HoldTtl /\ listing[u][st] \ S \in SUBSET Seats
    BY DEF TypeOK
  <1>2. listing[u][st] \ S # {} => listTtl[u][st] # 0
    BY DEF TypeOK
  <1> QED
    BY <1>1, <1>2, SetListingType DEF RemoveFromListing

\* The control of a handler stays well formed.
ControlOK ==
  /\ pc  \in [Handlers -> Steps]
  /\ job \in [Handlers -> Jobs \cup {NoJob}]
  /\ \A h \in Handlers : pc[h] # "idle" => job[h] \in Jobs

LEMMA FinishControl ==
  ASSUME ControlOK, NEW h \in Handlers, Finish(h)
  PROVE  ControlOK'
  BY DEF ControlOK, Finish, Steps

LEMMA GotoControl ==
  ASSUME ControlOK, NEW h \in Handlers, pc[h] # "idle", NEW step \in Steps, Goto(h, step)
  PROVE  ControlOK'
  BY DEF ControlOK, Goto

LEMMA JobFields ==
  ASSUME TypeOK, NEW h \in Handlers, pc[h] # "idle"
  PROVE  /\ job[h] \in Jobs
         /\ job[h].user \in Users
         /\ job[h].showtime \in Showtimes
         /\ job[h].old \in Showtimes
         /\ job[h].seats \in SUBSET Seats
         /\ job[h].todo \in SUBSET Seats
  BY DEF TypeOK, Jobs

LEMMA StartControl ==
  ASSUME ControlOK, NEW h \in Handlers, NEW kind \in Kinds, NEW u \in Users,
         NEW st \in Showtimes, NEW S \in SUBSET Seats, NEW step \in Steps,
         Start(h, kind, u, st, S, step)
  PROVE  ControlOK' /\ UNCHANGED <<keys, reserved>>
  BY DEF ControlOK, Start, Jobs

LEMMA AfterRemainingControl ==
  ASSUME ControlOK, NEW h \in Handlers, pc[h] # "idle", AfterRemaining(h)
  PROVE  ControlOK'
  BY FinishControl, GotoControl DEF AfterRemaining, Steps

\* TypeOK without the history.
KeysOK ==
  /\ holder   \in [Showtimes -> [Seats -> Users \cup {NoUser}]]
  /\ seatTtl  \in [Showtimes -> [Seats -> 0..HoldTtl]]
  /\ listing  \in [Users -> [Showtimes -> SUBSET Seats]]
  /\ listTtl  \in [Users -> [Showtimes -> 0..HoldTtl]]
  /\ reserved \in [Showtimes -> [Seats -> Users \cup {NoUser}]]
  /\ pc  \in [Handlers -> Steps]
  /\ job \in [Handlers -> Jobs \cup {NoJob}]
  /\ \A h \in Handlers : pc[h] # "idle" => job[h] \in Jobs
  /\ \A st \in Showtimes, s \in Seats :
        holder[st][s] = NoUser <=> seatTtl[st][s] = 0
  /\ \A u \in Users, st \in Showtimes :
        listing[u][st] = {} <=> listTtl[u][st] = 0

LEMMA TypeStep == TypeOK /\ [Next]_vars => TypeOK'
  <1> SUFFICES ASSUME TypeOK, [Next]_vars
               PROVE  TypeOK'
    OBVIOUS
  <1> ControlOK
    BY DEF TypeOK, ControlOK
  <1>a. ASSUME ControlOK', UNCHANGED <<keys, reserved>>
        PROVE  KeysOK'
    BY <1>a DEF TypeOK, KeysOK, ControlOK, keys
  <1>1. ASSUME NEW h \in Handlers, HoldHandler(h)
        PROVE  KeysOK'
    <2>1. CASE ReceiveHold(h)
      BY <2>1, <1>a, StartControl DEF ReceiveHold, Kinds, Steps
    <2>2. CASE ReadSessions(h)
      <3>1. job[h] \in Jobs
        BY <2>2, JobFields DEF ReadSessions
      <3>2. ControlOK'
        <4>1. CASE Goto(h, "limit")
          BY <4>1, <2>2, GotoControl DEF ReadSessions, Steps
        <4>2. ASSUME NEW st \in Showtimes, pc'  = [pc EXCEPT ![h] = "oldSeats"],
                     job' = [job EXCEPT ![h].old = st]
              PROVE  ControlOK'
          BY <4>2, <3>1 DEF ControlOK, Jobs, Steps
        <4> QED
          BY <2>2, <4>1, <4>2 DEF ReadSessions, Sessions
      <3> QED
        BY <2>2, <3>2, <1>a DEF ReadSessions
    <2>3. CASE ReadOldSeats(h)
      <3>1. job[h] \in Jobs /\ listing[job[h].user][job[h].old] \in SUBSET Seats
        BY <2>3, JobFields DEF ReadOldSeats, TypeOK
      <3>2. ControlOK'
        BY <2>3, <3>1 DEF ReadOldSeats, ControlOK, Jobs, Steps
      <3> QED
        BY <2>3, <3>2, <1>a DEF ReadOldSeats
    <2>4. CASE ClearOldSeats(h)
      <3>1. ControlOK'
        BY <2>4, GotoControl DEF ClearOldSeats, Steps
      <3> QED
        BY <2>4, <3>1, JobFields, DelSeatKeysType DEF ClearOldSeats, TypeOK, ControlOK, KeysOK
    <2>5. CASE DropOldSession(h)
      <3>1. ControlOK'
        BY <2>5, GotoControl DEF DropOldSession, Steps
      <3>2. 0 \in 0..HoldTtl
        BY ConstantsAssumption
      <3> QED
        BY <2>5, <3>1, <3>2, JobFields, SetListingType DEF DropOldSession, TypeOK, ControlOK, KeysOK
    <2>6. CASE CheckLimit(h)
      BY <2>6, <1>a, FinishControl, GotoControl DEF CheckLimit, Steps
    <2>7. CASE CheckSeatFree(h)
      BY <2>7, <1>a, FinishControl, GotoControl DEF CheckSeatFree, Steps
    <2>8. CASE WriteHold(h)
      <3>1. ControlOK'
        BY <2>8, FinishControl DEF WriteHold, WriteHoldFor
      <3> DEFINE u == job[h].user
                 st == job[h].showtime
                 S == job[h].seats
      <3>2. u \in Users /\ st \in Showtimes /\ S \in SUBSET Seats
        BY <2>8, JobFields DEF WriteHold, WriteHoldFor
      <3>3. HoldTtl \in 0..HoldTtl /\ HoldTtl # 0 /\ listing[u][st] \cup S \in SUBSET Seats
        BY <3>2, ConstantsAssumption DEF TypeOK
      <3>4. /\ listing' \in [Users -> [Showtimes -> SUBSET Seats]]
            /\ listTtl' \in [Users -> [Showtimes -> 0..HoldTtl]]
            /\ \A v \in Users, x \in Showtimes : listing'[v][x] = {} <=> listTtl'[v][x] = 0
        BY <2>8, <3>2, <3>3, SetListingType DEF WriteHold, WriteHoldFor
      <3>5. /\ holder'  = [holder EXCEPT ![st] =
                             [s \in Seats |-> IF s \in S THEN u ELSE holder[st][s]]]
            /\ seatTtl' = [seatTtl EXCEPT ![st] =
                             [s \in Seats |-> IF s \in S THEN HoldTtl ELSE seatTtl[st][s]]]
            /\ UNCHANGED reserved
        BY <2>8 DEF WriteHold, WriteHoldFor
      <3> HIDE DEF u, st, S
      <3>6. /\ holder'  \in [Showtimes -> [Seats -> Users \cup {NoUser}]]
            /\ seatTtl' \in [Showtimes -> [Seats -> 0..HoldTtl]]
            /\ \A x \in Showtimes, s \in Seats : holder'[x][s] = NoUser <=> seatTtl'[x][s] = 0
        BY <3>2, <3>3, <3>5, ConstantsAssumption DEF TypeOK
      <3> QED
        BY <3>1, <3>4, <3>5, <3>6 DEF TypeOK, ControlOK, KeysOK
    <2> QED
      BY <1>1, <2>1, <2>2, <2>3, <2>4, <2>5, <2>6, <2>7, <2>8 DEF HoldHandler
  <1>2. ASSUME NEW h \in Handlers, ReleaseHandler(h)
        PROVE  KeysOK'
    <2>1. CASE ReceiveRelease(h)
      BY <2>1, <1>a, StartControl DEF ReceiveRelease, Kinds, Steps
    <2>2. CASE ReceiveBooked(h)
      BY <2>2, <1>a, StartControl DEF ReceiveBooked, Kinds, Steps
    <2>3. CASE ReleaseSeat(h)
      <3>1. ControlOK'
        BY <2>3, GotoControl DEF ReleaseSeat, Steps
      <3> QED
        <4>1. /\ job[h].user \in Users /\ job[h].showtime \in Showtimes
              /\ job[h].seats \in SUBSET Seats
          BY <2>3, JobFields DEF ReleaseSeat
        <4>2. /\ DelSeatKeys(job[h].showtime, job[h].seats)
              /\ RemoveFromListing(job[h].user, job[h].showtime, job[h].seats)
              /\ UNCHANGED reserved
          BY <2>3 DEF ReleaseSeat
        <4> QED
          BY <3>1, <4>1, <4>2, DelSeatKeysType, RemoveFromListingType
             DEF TypeOK, ControlOK, KeysOK
    <2>4. CASE ConsumeSeat(h)
      <3>1. PICK s \in job[h].todo :
              /\ DelSeatKeys(job[h].showtime, {s})
              /\ RemoveFromListing(job[h].user, job[h].showtime, {s})
              /\ pc'  = [pc EXCEPT ![h] = IF job[h].todo = {s} THEN "remaining" ELSE "booked"]
              /\ job' = [job EXCEPT ![h].todo = @ \ {s}]
        BY <2>4 DEF ConsumeSeat
      <3>2. /\ job[h] \in Jobs /\ {s} \in SUBSET Seats
            /\ job[h].user \in Users /\ job[h].showtime \in Showtimes
        BY <2>4, JobFields DEF ConsumeSeat
      <3>3. ControlOK'
        BY <3>1, <3>2 DEF ControlOK, Jobs, Steps
      <3> QED
        BY <2>4, <3>1, <3>2, <3>3, DelSeatKeysType, RemoveFromListingType
           DEF ConsumeSeat, TypeOK, ControlOK, KeysOK
    <2>5. CASE CheckRemaining(h)
      BY <2>5, <1>a, AfterRemainingControl, GotoControl DEF CheckRemaining, Steps
    <2>6. CASE DropListing(h)
      <3>1. ControlOK'
        BY <2>6, AfterRemainingControl DEF DropListing
      <3>2. 0 \in 0..HoldTtl
        BY ConstantsAssumption
      <3> QED
        BY <2>6, <3>1, <3>2, JobFields, SetListingType DEF DropListing, TypeOK, ControlOK, KeysOK
    <2>7. CASE CreateSeatReservations(h)
      <3>1. ControlOK'
        BY <2>7, FinishControl DEF CreateSeatReservations
      <3>2. job[h].user \in Users /\ job[h].showtime \in Showtimes
        BY <2>7, JobFields DEF CreateSeatReservations
      <3>3. reserved' \in [Showtimes -> [Seats -> Users \cup {NoUser}]]
        BY <2>7, <3>2 DEF CreateSeatReservations, TypeOK
      <3> QED
        BY <2>7, <3>1, <3>3 DEF CreateSeatReservations, TypeOK, ControlOK, KeysOK, keys
    <2> QED
      BY <1>2, <2>1, <2>2, <2>3, <2>4, <2>5, <2>6, <2>7 DEF ReleaseHandler
  <1>3. ASSUME NEW h \in Handlers, Abort(h)
        PROVE  KeysOK'
    BY <1>3, <1>a, FinishControl DEF Abort
  <1>4. ASSUME Tick
        PROVE  KeysOK'
    <2>1. \A n \in 0..HoldTtl :
            Decrement(n) \in 0..HoldTtl /\ (Decrement(n) = 0 <=> n = 0 \/ n = 1)
      BY ConstantsAssumption DEF Decrement
    <2>2. ASSUME NEW st \in Showtimes, NEW s \in Seats
          PROVE  /\ seatTtl'[st][s] \in 0..HoldTtl
                 /\ holder'[st][s] \in Users \cup {NoUser}
                 /\ holder'[st][s] = NoUser <=> seatTtl'[st][s] = 0
      <3>1. /\ seatTtl[st][s] \in 0..HoldTtl
            /\ holder[st][s] \in Users \cup {NoUser}
            /\ holder[st][s] = NoUser <=> seatTtl[st][s] = 0
        BY DEF TypeOK
      <3>2. /\ seatTtl'[st][s] = Decrement(seatTtl[st][s])
            /\ holder'[st][s] = IF seatTtl[st][s] = 1 THEN NoUser ELSE holder[st][s]
        BY <1>4 DEF Tick
      <3> QED
        BY <2>1, <3>1, <3>2
    <2>3. ASSUME NEW u \in Users, NEW st \in Showtimes
          PROVE  /\ listTtl'[u][st] \in 0..HoldTtl
                 /\ listing'[u][st] \in SUBSET Seats
                 /\ listing'[u][st] = {} <=> listTtl'[u][st] = 0
      <3>1. /\ listTtl[u][st] \in 0..HoldTtl
            /\ listing[u][st] \in SUBSET Seats
            /\ listing[u][st] = {} <=> listTtl[u][st] = 0
        BY DEF TypeOK
      <3>2. /\ listTtl'[u][st] = Decrement(listTtl[u][st])
            /\ listing'[u][st] = IF listTtl[u][st] = 1 THEN {} ELSE listing[u][st]
        BY <1>4 DEF Tick
      <3> QED
        BY <2>1, <3>1, <3>2
    <2>4. /\ seatTtl' \in [Showtimes -> [Seats -> 0..HoldTtl]]
          /\ holder'  \in [Showtimes -> [Seats -> Users \cup {NoUser}]]
      BY <1>4, <2>2 DEF Tick
    <2>5. /\ listTtl' \in [Users -> [Showtimes -> 0..HoldTtl]]
          /\ listing' \in [Users -> [Showtimes -> SUBSET Seats]]
      BY <1>4, <2>3 DEF Tick
    <2> QED
      BY <1>4, <2>2, <2>3, <2>4, <2>5 DEF Tick, TypeOK, KeysOK
  <1>5. ASSUME UNCHANGED vars
        PROVE  KeysOK'
    BY <1>5 DEF TypeOK, KeysOK, vars, history
  <1>6. KeysOK'
    BY <1>1, <1>2, <1>3, <1>4, <1>5 DEF Next, Step
  <1>7. late' \subseteq Handlers /\ crossed' \subseteq Users
    BY DEF TypeOK, Next, Record, vars, history
  <1> QED
    BY <1>6, <1>7 DEF KeysOK, TypeOK

\* Every reachable state is well formed: a Redis key exists exactly while it
\* has time left, and a handler has a job exactly while it is in progress.
THEOREM TypeCorrect == Spec => []TypeOK
  <1>1. Init => TypeOK
    BY ConstantsAssumption DEF Init, TypeOK, Steps
  <1> QED
    BY <1>1, TypeStep, PTL DEF Spec

-----------------------------------------------------------------------------
(* The listing outlives the holds it shows.                                *)

\* Only WriteHold starts a clock again, and it starts both; every other step
\* removes keys or lets both clocks run.
LEMMA OutlivesStep ==
  TypeOK /\ ListingOutlivesHold /\ [Next]_vars => ListingOutlivesHold'
  <1> SUFFICES ASSUME TypeOK, ListingOutlivesHold, [Next]_vars,
                      NEW st \in Showtimes, NEW s \in Seats, NEW u \in Users,
                      holder'[st][s] = u, s \in listing'[u][st]
               PROVE  seatTtl'[st][s] <= listTtl'[u][st]
    BY DEF ListingOutlivesHold
  <1>0. /\ seatTtl[st][s] \in 0..HoldTtl /\ listTtl[u][st] \in 0..HoldTtl
        /\ HoldTtl \in Nat \ {0} /\ u # NoUser
    BY ConstantsAssumption DEF TypeOK
  <1>1. (holder[st][s] = u /\ s \in listing[u][st]) => seatTtl[st][s] <= listTtl[u][st]
    BY DEF ListingOutlivesHold
  <1>a. ASSUME UNCHANGED keys
        PROVE  seatTtl'[st][s] <= listTtl'[u][st]
    BY <1>a, <1>1 DEF keys
  <1>b. ASSUME NEW x \in Showtimes, NEW S \in SUBSET Seats, DelSeatKeys(x, S)
        PROVE  holder[st][s] = u /\ seatTtl'[st][s] = seatTtl[st][s]
    BY <1>0, <1>b DEF DelSeatKeys, TypeOK
  <1>c. ASSUME NEW v \in Users, NEW x \in Showtimes, NEW S \in SUBSET Seats,
               RemoveFromListing(v, x, S)
        PROVE  s \in listing[u][st] /\ listTtl'[u][st] = listTtl[u][st]
    BY <1>c DEF RemoveFromListing, SetListing, TypeOK
  <1>d. ASSUME NEW v \in Users, NEW x \in Showtimes, SetListing(v, x, {}, 0)
        PROVE  s \in listing[u][st] /\ listTtl'[u][st] = listTtl[u][st]
    BY <1>d DEF SetListing, TypeOK
  <1>2. ASSUME NEW h \in Handlers, HoldHandler(h)
        PROVE  seatTtl'[st][s] <= listTtl'[u][st]
    <2>1. CASE ReceiveHold(h) \/ ReadSessions(h) \/ ReadOldSeats(h)
                 \/ CheckLimit(h) \/ CheckSeatFree(h)
      BY <2>1, <1>a DEF ReceiveHold, Start, ReadSessions, ReadOldSeats,
                        CheckLimit, CheckSeatFree
    <2>2. CASE ClearOldSeats(h)
      BY <2>2, <1>b, <1>1, JobFields DEF ClearOldSeats
    <2>3. CASE DropOldSession(h)
      BY <2>3, <1>d, <1>1, JobFields DEF DropOldSession
    <2>4. CASE WriteHold(h)
      <3> DEFINE v == job[h].user
                 x == job[h].showtime
                 S == job[h].seats
      <3>1. v \in Users /\ x \in Showtimes /\ S \in SUBSET Seats
        BY <2>4, JobFields DEF WriteHold, WriteHoldFor
      <3>2. /\ holder'  = [holder EXCEPT ![x] =
                             [y \in Seats |-> IF y \in S THEN v ELSE holder[x][y]]]
            /\ seatTtl' = [seatTtl EXCEPT ![x] =
                             [y \in Seats |-> IF y \in S THEN HoldTtl ELSE seatTtl[x][y]]]
            /\ listing' = [listing EXCEPT ![v][x] = listing[v][x] \cup S]
            /\ listTtl' = [listTtl EXCEPT ![v][x] =
                             IF listing[v][x] \cup S = {} THEN 0 ELSE HoldTtl]
        BY <2>4 DEF WriteHold, WriteHoldFor, SetListing
      <3> HIDE DEF v, x, S
      <3>3. CASE u = v /\ st = x
        <4>1. listTtl'[u][st] = HoldTtl
          BY <3>1, <3>2, <3>3 DEF TypeOK
        <4>2. seatTtl'[st][s] \in 0..HoldTtl
          BY <1>0, <3>1, <3>2 DEF TypeOK
        <4> QED
          BY <1>0, <4>1, <4>2
      <3>4. CASE ~ (u = v /\ st = x)
        BY <1>1, <3>1, <3>2, <3>4 DEF TypeOK
      <3> QED
        BY <3>3, <3>4
    <2> QED
      BY <1>2, <2>1, <2>2, <2>3, <2>4 DEF HoldHandler
  <1>3. ASSUME NEW h \in Handlers, ReleaseHandler(h)
        PROVE  seatTtl'[st][s] <= listTtl'[u][st]
    <2>1. CASE ReceiveRelease(h) \/ ReceiveBooked(h) \/ CheckRemaining(h)
                 \/ CreateSeatReservations(h)
      BY <2>1, <1>a DEF ReceiveRelease, ReceiveBooked, Start, CheckRemaining,
                        CreateSeatReservations
    <2>2. CASE ReleaseSeat(h)
      BY <2>2, <1>b, <1>c, <1>1, JobFields DEF ReleaseSeat
    <2>3. CASE ConsumeSeat(h)
      <3>1. PICK y \in job[h].todo :
              /\ DelSeatKeys(job[h].showtime, {y})
              /\ RemoveFromListing(job[h].user, job[h].showtime, {y})
        BY <2>3 DEF ConsumeSeat
      <3>2. /\ job[h].user \in Users /\ job[h].showtime \in Showtimes
            /\ {y} \in SUBSET Seats
        BY <2>3, JobFields DEF ConsumeSeat
      <3> QED
        BY <3>1, <3>2, <1>b, <1>c, <1>1
    <2>4. CASE DropListing(h)
      BY <2>4, <1>d, <1>1, JobFields DEF DropListing
    <2> QED
      BY <1>3, <2>1, <2>2, <2>3, <2>4 DEF ReleaseHandler
  <1>4. ASSUME NEW h \in Handlers, Abort(h)
        PROVE  seatTtl'[st][s] <= listTtl'[u][st]
    BY <1>4, <1>a DEF Abort
  <1>5. CASE Tick
    <2>1. /\ seatTtl'[st][s] = Decrement(seatTtl[st][s])
          /\ listTtl'[u][st] = Decrement(listTtl[u][st])
          /\ holder[st][s] = u /\ s \in listing[u][st]
      BY <1>5, <1>0 DEF Tick
    <2> QED
      BY <2>1, <1>0, <1>1 DEF Decrement
  <1>6. CASE UNCHANGED vars
    BY <1>6, <1>a DEF vars, keys
  <1> QED
    BY <1>2, <1>3, <1>4, <1>5, <1>6 DEF Next, Step

\* A held seat that its holder sees in the listing never outlives the listing.
THEOREM OutlivesCorrect == Spec => []ListingOutlivesHold
  <1>1. Init => ListingOutlivesHold
    BY ConstantsAssumption DEF Init, ListingOutlivesHold
  <1> QED
    BY <1>1, OutlivesStep, TypeCorrect, PTL DEF Spec

-----------------------------------------------------------------------------
(* The limit is overshot by at most the handlers in progress.              *)

HoldSteps == {"sessions", "oldSeats", "clearOld", "dropOld", "limit",
              "exists", "write"}

\* A hold message names one seat.
HoldNamesOneSeat ==
  \A h \in Handlers :
     pc[h] \in HoldSteps => \E s \in Seats : job[h].seats = {s}

LEMMA OneSeatStep == TypeOK /\ HoldNamesOneSeat /\ [Next]_vars => HoldNamesOneSeat'
  <1> SUFFICES ASSUME TypeOK, HoldNamesOneSeat, [Next]_vars,
                      NEW g \in Handlers, pc'[g] \in HoldSteps
               PROVE  \E s \in Seats : job'[g].seats = {s}
    BY DEF HoldNamesOneSeat
  <1>a. pc[g] \in HoldSteps => \E s \in Seats : job[g].seats = {s}
    BY DEF HoldNamesOneSeat
  <1>b. ASSUME NEW h \in Handlers, Finish(h)
        PROVE  pc[g] \in HoldSteps /\ job'[g] = job[g]
    BY <1>b DEF Finish, TypeOK, HoldSteps
  <1>c. ASSUME NEW h \in Handlers, NEW step, Goto(h, step),
               pc[h] \in HoldSteps \/ step \notin HoldSteps
        PROVE  pc[g] \in HoldSteps /\ job'[g] = job[g]
    BY <1>c DEF Goto, TypeOK
  <1>1. ASSUME NEW h \in Handlers, HoldHandler(h)
        PROVE  \E s \in Seats : job'[g].seats = {s}
    <2>1. CASE ReceiveHold(h)
      <3>1. PICK u \in Users, st \in Showtimes, s \in Seats :
              Start(h, "hold", u, st, {s}, "sessions")
        BY <2>1 DEF ReceiveHold
      <3>2. CASE g = h
        <4>1. job'[g].seats = {s}
          BY <3>1, <3>2 DEF Start, TypeOK
        <4> QED
          BY <4>1
      <3>3. CASE g # h
        BY <3>1, <3>3, <1>a DEF Start, TypeOK
      <3> QED
        BY <3>2, <3>3
    <2>2. CASE ReadSessions(h)
      <3>1. CASE Goto(h, "limit")
        BY <3>1, <2>2, <1>a, <1>c DEF ReadSessions, HoldSteps
      <3>2. ASSUME NEW st \in Showtimes, pc'  = [pc EXCEPT ![h] = "oldSeats"],
                   job' = [job EXCEPT ![h].old = st]
            PROVE  \E s \in Seats : job'[g].seats = {s}
        BY <3>2, <2>2, <1>a, JobFields DEF ReadSessions, HoldSteps, TypeOK, Jobs
      <3> QED
        BY <2>2, <3>1, <3>2 DEF ReadSessions, Sessions
    <2>3. CASE ReadOldSeats(h)
      BY <2>3, <1>a, JobFields DEF ReadOldSeats, HoldSteps, TypeOK, Jobs
    <2>4. CASE ClearOldSeats(h)
      BY <2>4, <1>a, <1>c DEF ClearOldSeats, HoldSteps
    <2>5. CASE DropOldSession(h)
      BY <2>5, <1>a, <1>c DEF DropOldSession, HoldSteps
    <2>6. CASE CheckLimit(h)
      BY <2>6, <1>a, <1>b, <1>c DEF CheckLimit, HoldSteps
    <2>7. CASE CheckSeatFree(h)
      BY <2>7, <1>a, <1>b, <1>c DEF CheckSeatFree, HoldSteps
    <2>8. CASE WriteHold(h)
      BY <2>8, <1>a, <1>b DEF WriteHold, WriteHoldFor
    <2> QED
      BY <1>1, <2>1, <2>2, <2>3, <2>4, <2>5, <2>6, <2>7, <2>8 DEF HoldHandler
  <1>2. ASSUME NEW h \in Handlers, ReleaseHandler(h)
        PROVE  \E s \in Seats : job'[g].seats = {s}
    <2>1. CASE ReceiveRelease(h) \/ ReceiveBooked(h)
      BY <2>1, <1>a DEF ReceiveRelease, ReceiveBooked, Start, TypeOK, HoldSteps
    <2>2. CASE ReleaseSeat(h)
      BY <2>2, <1>a, <1>c DEF ReleaseSeat, HoldSteps
    <2>3. CASE ConsumeSeat(h)
      BY <2>3, <1>a DEF ConsumeSeat, TypeOK, HoldSteps
    <2>4. CASE CheckRemaining(h)
      BY <2>4, <1>a, <1>b, <1>c DEF CheckRemaining, AfterRemaining, HoldSteps
    <2>5. CASE DropListing(h)
      BY <2>5, <1>a, <1>b, <1>c DEF DropListing, AfterRemaining, HoldSteps
    <2>6. CASE CreateSeatReservations(h)
      BY <2>6, <1>a, <1>b DEF CreateSeatReservations
    <2> QED
      BY <1>2, <2>1, <2>2, <2>3, <2>4, <2>5, <2>6 DEF ReleaseHandler
  <1>3. ASSUME NEW h \in Handlers, Abort(h)
        PROVE  \E s \in Seats : job'[g].seats = {s}
    BY <1>3, <1>a, <1>b DEF Abort
  <1>4. CASE Tick
    BY <1>4, <1>a DEF Tick
  <1>5. CASE UNCHANGED vars
    BY <1>5, <1>a DEF vars
  <1> QED
    BY <1>1, <1>2, <1>3, <1>4, <1>5 DEF Next, Step

\* The handlers that passed the limit check are finitely many.
LEMMA PassedLimitFinite ==
  ASSUME NEW u, NEW st
  PROVE  /\ PassedLimit(u, st) \in SUBSET Handlers
         /\ IsFiniteSet(PassedLimit(u, st))
         /\ Cardinality(PassedLimit(u, st)) \in Nat
         /\ Cardinality(PassedLimit(u, st)) <= Cardinality(Handlers)
         /\ Cardinality(Handlers) \in Nat
  <1>1. PassedLimit(u, st) \in SUBSET Handlers
    BY DEF PassedLimit
  <1> QED
    BY <1>1, ConstantsAssumption, FS_Subset, FS_CardinalityType

\* Smaller listings and fewer handlers past the check keep the bound.
LEMMA OvershootShrinks ==
  ASSUME TypeOK, HoldOvershootBounded, NEW u \in Users, NEW st \in Showtimes,
         NEW L \in SUBSET listing[u][st], NEW P \in SUBSET PassedLimit(u, st)
  PROVE  Cardinality(L) + Cardinality(P) <= HoldLimit + Cardinality(Handlers) - 1
  <1>1. /\ IsFiniteSet(listing[u][st])
        /\ Cardinality(listing[u][st]) \in Nat
        /\ Cardinality(L) \in Nat
        /\ Cardinality(L) <= Cardinality(listing[u][st])
    BY ConstantsAssumption, FS_Subset, FS_CardinalityType DEF TypeOK
  <1>2. /\ Cardinality(PassedLimit(u, st)) \in Nat
        /\ Cardinality(P) \in Nat
        /\ Cardinality(P) <= Cardinality(PassedLimit(u, st))
        /\ Cardinality(Handlers) \in Nat
    BY PassedLimitFinite, FS_Subset, FS_CardinalityType
  <1>3. Cardinality(listing[u][st]) + Cardinality(PassedLimit(u, st))
          <= HoldLimit + Cardinality(Handlers) - 1
    BY DEF HoldOvershootBounded
  <1>4. HoldLimit \in Nat
    BY ConstantsAssumption
  <1> QED
    BY <1>1, <1>2, <1>3, <1>4

LEMMA OvershootStep ==
  TypeOK /\ HoldNamesOneSeat /\ HoldOvershootBounded /\ [Next]_vars
    => HoldOvershootBounded'
  <1> SUFFICES ASSUME TypeOK, HoldNamesOneSeat, HoldOvershootBounded, [Next]_vars,
                      NEW u \in Users, NEW st \in Showtimes
               PROVE  Cardinality(listing'[u][st]) + Cardinality(PassedLimit(u, st)')
                        <= HoldLimit + Cardinality(Handlers) - 1
    BY DEF HoldOvershootBounded
  <1> DEFINE Bounded == Cardinality(listing'[u][st]) + Cardinality(PassedLimit(u, st)')
                          <= HoldLimit + Cardinality(Handlers) - 1
  <1>a. ASSUME listing'[u][st] \in SUBSET listing[u][st],
               PassedLimit(u, st)' \in SUBSET PassedLimit(u, st)
        PROVE  Bounded
    BY <1>a, OvershootShrinks
  <1>b. ASSUME NEW h \in Handlers, Finish(h)
        PROVE  PassedLimit(u, st)' \in SUBSET (PassedLimit(u, st) \ {h})
    BY <1>b DEF Finish, PassedLimit, TypeOK
  <1>c. ASSUME NEW h \in Handlers, NEW step, Goto(h, step),
               step \in {"exists", "write"} => pc[h] \in {"exists", "write"}
        PROVE  PassedLimit(u, st)' \in SUBSET PassedLimit(u, st)
    BY <1>c DEF Goto, PassedLimit, TypeOK
  <1>d. ASSUME UNCHANGED keys
        PROVE  listing'[u][st] \in SUBSET listing[u][st]
    BY <1>d DEF keys
  <1>e. ASSUME NEW v \in Users, NEW x \in Showtimes, NEW S, NEW t,
               SetListing(v, x, listing[v][x] \ S, t)
        PROVE  listing'[u][st] \in SUBSET listing[u][st]
    BY <1>e DEF SetListing, TypeOK
  <1>f. ASSUME NEW v \in Users, NEW x \in Showtimes, SetListing(v, x, {}, 0)
        PROVE  listing'[u][st] \in SUBSET listing[u][st]
    BY <1>f DEF SetListing, TypeOK
  <1> HIDE DEF Bounded
  <1>1. ASSUME NEW h \in Handlers, HoldHandler(h)
        PROVE  Bounded
    <2>1. CASE ReceiveHold(h)
      <3>1. PassedLimit(u, st)' \in SUBSET PassedLimit(u, st)
        BY <2>1 DEF ReceiveHold, Start, PassedLimit, TypeOK
      <3> QED
        BY <2>1, <3>1, <1>a, <1>d DEF ReceiveHold, Start
    <2>2. CASE ReadSessions(h)
      <3>1. CASE Goto(h, "limit")
        BY <3>1, <2>2, <1>a, <1>c, <1>d DEF ReadSessions
      <3>2. ASSUME NEW x \in Showtimes, pc'  = [pc EXCEPT ![h] = "oldSeats"],
                   job' = [job EXCEPT ![h].old = x]
            PROVE  Bounded
        <4>1. PassedLimit(u, st)' \in SUBSET PassedLimit(u, st)
          BY <3>2 DEF PassedLimit, TypeOK
        <4> QED
          BY <2>2, <4>1, <1>a, <1>d DEF ReadSessions
      <3> QED
        BY <2>2, <3>1, <3>2 DEF ReadSessions, Sessions
    <2>3. CASE ReadOldSeats(h)
      <3>1. PassedLimit(u, st)' \in SUBSET PassedLimit(u, st)
        BY <2>3 DEF ReadOldSeats, PassedLimit, TypeOK
      <3> QED
        BY <2>3, <3>1, <1>a, <1>d DEF ReadOldSeats
    <2>4. CASE ClearOldSeats(h)
      BY <2>4, <1>a, <1>c DEF ClearOldSeats
    <2>5. CASE DropOldSession(h)
      BY <2>5, <1>a, <1>c, <1>f, JobFields DEF DropOldSession
    <2>6. CASE CheckLimit(h)
      <3>1. CASE Finish(h)
        BY <2>6, <3>1, <1>a, <1>b, <1>d DEF CheckLimit
      <3>2. CASE ~ (Cardinality(listing[job[h].user][job[h].showtime]) >= HoldLimit)
        <4>1. CASE job[h].user = u /\ job[h].showtime = st
          <5>1. /\ PassedLimit(u, st)' \in SUBSET Handlers
                /\ listing'[u][st] = listing[u][st]
            BY <2>6 DEF PassedLimit, CheckLimit, keys
          <5>2. /\ Cardinality(PassedLimit(u, st)') <= Cardinality(Handlers)
                /\ Cardinality(PassedLimit(u, st)') \in Nat
                /\ Cardinality(Handlers) \in Nat
            BY <5>1, ConstantsAssumption, FS_Subset, FS_CardinalityType
          <5>3. Cardinality(listing[u][st]) \in Nat
            BY ConstantsAssumption, FS_Subset, FS_CardinalityType DEF TypeOK
          <5>4. HoldLimit \in Nat
            BY ConstantsAssumption
          <5> QED
            BY <3>2, <4>1, <5>1, <5>2, <5>3, <5>4 DEF Bounded
        <4>2. CASE ~ (job[h].user = u /\ job[h].showtime = st)
          <5>1. PassedLimit(u, st)' \in SUBSET PassedLimit(u, st)
            BY <2>6, <3>2, <4>2 DEF CheckLimit, Goto, PassedLimit, TypeOK
          <5> QED
            BY <2>6, <5>1, <1>a, <1>d DEF CheckLimit
        <4> QED
          BY <4>1, <4>2
      <3> QED
        BY <2>6, <3>1, <3>2 DEF CheckLimit
    <2>7. CASE CheckSeatFree(h)
      BY <2>7, <1>a, <1>b, <1>c, <1>d DEF CheckSeatFree
    <2>8. CASE WriteHold(h)
      <3>1. /\ pc[h] = "write" /\ Finish(h)
            /\ job[h].user \in Users /\ job[h].showtime \in Showtimes
        BY <2>8, JobFields DEF WriteHold, WriteHoldFor
      <3>2. PassedLimit(u, st)' \in SUBSET (PassedLimit(u, st) \ {h})
        BY <3>1, <1>b
      <3>3. CASE job[h].user = u /\ job[h].showtime = st
        <4>1. PICK s \in Seats : job[h].seats = {s}
          BY <3>1 DEF HoldNamesOneSeat, HoldSteps
        <4>2. listing'[u][st] = listing[u][st] \cup {s}
          BY <2>8, <3>3, <4>1 DEF WriteHold, WriteHoldFor, SetListing, TypeOK
        <4>3. /\ IsFiniteSet(listing[u][st])
              /\ Cardinality(listing[u][st]) \in Nat
          BY ConstantsAssumption, FS_Subset, FS_CardinalityType DEF TypeOK
        <4>4. /\ Cardinality(listing'[u][st]) \in Nat
              /\ Cardinality(listing'[u][st]) <= Cardinality(listing[u][st]) + 1
          <5>1. Cardinality(listing[u][st] \cup {s}) =
                  IF s \in listing[u][st] THEN Cardinality(listing[u][st])
                                          ELSE Cardinality(listing[u][st]) + 1
            BY <4>3, FS_AddElement
          <5> QED
            BY <4>2, <4>3, <5>1
        <4>5. h \in PassedLimit(u, st)
          BY <3>1, <3>3 DEF PassedLimit
        <4>6. /\ IsFiniteSet(PassedLimit(u, st) \ {h})
              /\ Cardinality(PassedLimit(u, st) \ {h}) = Cardinality(PassedLimit(u, st)) - 1
          BY <4>5, PassedLimitFinite, FS_RemoveElement
        <4>7. /\ Cardinality(PassedLimit(u, st)') \in Nat
              /\ Cardinality(PassedLimit(u, st)') <= Cardinality(PassedLimit(u, st)) - 1
          BY <3>2, <4>6, FS_Subset, FS_CardinalityType
        <4>8. Cardinality(listing[u][st]) + Cardinality(PassedLimit(u, st))
                <= HoldLimit + Cardinality(Handlers) - 1
          BY DEF HoldOvershootBounded
        <4>9. /\ HoldLimit \in Nat /\ Cardinality(Handlers) \in Nat
              /\ Cardinality(PassedLimit(u, st)) \in Nat
          BY ConstantsAssumption, PassedLimitFinite
        <4> QED
          BY <4>3, <4>4, <4>7, <4>8, <4>9 DEF Bounded
      <3>4. CASE ~ (job[h].user = u /\ job[h].showtime = st)
        <4>1. listing'[u][st] = listing[u][st]
          BY <2>8, <3>1, <3>4 DEF WriteHold, WriteHoldFor, SetListing, TypeOK
        <4> QED
          BY <4>1, <3>2, <1>a
      <3> QED
        BY <3>3, <3>4
    <2> QED
      BY <1>1, <2>1, <2>2, <2>3, <2>4, <2>5, <2>6, <2>7, <2>8 DEF HoldHandler
  <1>2. ASSUME NEW h \in Handlers, ReleaseHandler(h)
        PROVE  Bounded
    <2>1. CASE ReceiveRelease(h) \/ ReceiveBooked(h)
      <3>1. PassedLimit(u, st)' \in SUBSET PassedLimit(u, st)
        BY <2>1 DEF ReceiveRelease, ReceiveBooked, Start, PassedLimit, TypeOK
      <3> QED
        BY <2>1, <3>1, <1>a, <1>d DEF ReceiveRelease, ReceiveBooked, Start
    <2>2. CASE ReleaseSeat(h)
      BY <2>2, <1>a, <1>c, <1>e, JobFields DEF ReleaseSeat, RemoveFromListing
    <2>3. CASE ConsumeSeat(h)
      <3>1. PICK s \in job[h].todo : RemoveFromListing(job[h].user, job[h].showtime, {s})
        BY <2>3 DEF ConsumeSeat
      <3>2. PassedLimit(u, st)' \in SUBSET PassedLimit(u, st)
        BY <2>3 DEF ConsumeSeat, PassedLimit, TypeOK
      <3> QED
        BY <2>3, <3>1, <3>2, <1>a, <1>e, JobFields DEF ConsumeSeat, RemoveFromListing
    <2>4. CASE CheckRemaining(h)
      BY <2>4, <1>a, <1>b, <1>c, <1>d DEF CheckRemaining, AfterRemaining
    <2>5. CASE DropListing(h)
      BY <2>5, <1>a, <1>b, <1>c, <1>f, JobFields DEF DropListing, AfterRemaining
    <2>6. CASE CreateSeatReservations(h)
      BY <2>6, <1>a, <1>b, <1>d DEF CreateSeatReservations
    <2> QED
      BY <1>2, <2>1, <2>2, <2>3, <2>4, <2>5, <2>6 DEF ReleaseHandler
  <1>3. ASSUME NEW h \in Handlers, Abort(h)
        PROVE  Bounded
    BY <1>3, <1>a, <1>b, <1>d DEF Abort
  <1>4. CASE Tick
    <2>1. listing'[u][st] \in SUBSET listing[u][st]
      BY <1>4 DEF Tick
    <2>2. PassedLimit(u, st)' = PassedLimit(u, st)
      BY <1>4 DEF Tick, PassedLimit
    <2> QED
      BY <2>1, <2>2, <1>a DEF Bounded
  <1>5. CASE UNCHANGED vars
    <2>1. PassedLimit(u, st)' = PassedLimit(u, st)
      BY <1>5 DEF vars, PassedLimit
    <2> QED
      BY <1>5, <2>1, <1>a DEF vars, Bounded
  <1> QED
    BY <1>1, <1>2, <1>3, <1>4, <1>5 DEF Next, Step, Bounded

\* n overlapping handlers overshoot HOLD_LIMIT by at most n - 1 seats.
THEOREM OvershootCorrect == Spec => []HoldOvershootBounded
  <1> DEFINE IInv == HoldNamesOneSeat /\ HoldOvershootBounded
  <1>1. Init => IInv
    <2> SUFFICES ASSUME Init PROVE IInv
      OBVIOUS
    <2>1. HoldNamesOneSeat
      BY DEF Init, HoldNamesOneSeat, HoldSteps
    <2>2. ASSUME NEW u \in Users, NEW st \in Showtimes
          PROVE  listing[u][st] = {} /\ PassedLimit(u, st) = {}
      BY <2>2 DEF Init, PassedLimit
    <2>3. /\ Cardinality({}) = 0
          /\ Cardinality(Handlers) \in Nat /\ Cardinality(Handlers) # 0
          /\ HoldLimit \in Nat
      BY ConstantsAssumption, FS_EmptySet, FS_CardinalityType
    <2>4. ASSUME NEW u \in Users, NEW st \in Showtimes
          PROVE  Cardinality(listing[u][st]) + Cardinality(PassedLimit(u, st))
                   <= HoldLimit + Cardinality(Handlers) - 1
      <3>1. /\ Cardinality(listing[u][st]) = 0
            /\ Cardinality(PassedLimit(u, st)) = 0
        BY <2>2, <2>3
      <3> QED
        BY <3>1, <2>3
    <2> QED
      BY <2>1, <2>4 DEF HoldOvershootBounded
  <1>2. TypeOK /\ IInv /\ [Next]_vars => IInv'
    BY OneSeatStep, OvershootStep
  <1>3. IInv => HoldOvershootBounded
    OBVIOUS
  <1> QED
    BY <1>1, <1>2, <1>3, TypeCorrect, PTL DEF Spec

-----------------------------------------------------------------------------
(* However handlers overlap, only a late hold breaks the lock of a seat.   *)

\* What the EXISTS of a handler found is still so when the handler writes,
\* unless the handler is late.
WriteFindsSeatFree ==
  \A h \in Handlers :
     pc[h] = "write" /\ h \notin late =>
       \A s \in job[h].seats : holder[job[h].showtime][s] = NoUser

\* The seat keys only go in this step.
SeatKeysGo ==
  \A st \in Showtimes, s \in Seats : holder'[st][s] \in {holder[st][s], NoUser}

\* Only WriteHold sets a seat key.
LEMMA WriteOrGo ==
  ASSUME TypeOK, [Next]_vars
  PROVE  SeatKeysGo \/ \E h \in Handlers : WriteHold(h)
  <1>d. ASSUME NEW x \in Showtimes, NEW S \in SUBSET Seats, DelSeatKeys(x, S)
        PROVE  SeatKeysGo
    BY <1>d DEF DelSeatKeys, TypeOK, SeatKeysGo
  <1>e. ASSUME UNCHANGED holder
        PROVE  SeatKeysGo
    BY <1>e DEF SeatKeysGo
  <1>1. ASSUME NEW h \in Handlers, HoldHandler(h), ~ WriteHold(h)
        PROVE  SeatKeysGo
    <2>1. CASE ClearOldSeats(h)
      BY <2>1, <1>d, JobFields DEF ClearOldSeats
    <2>2. CASE ReceiveHold(h) \/ ReadSessions(h) \/ ReadOldSeats(h)
                 \/ DropOldSession(h) \/ CheckLimit(h) \/ CheckSeatFree(h)
      BY <2>2, <1>e DEF ReceiveHold, Start, ReadSessions, ReadOldSeats, DropOldSession,
                        CheckLimit, CheckSeatFree, keys
    <2> QED
      BY <1>1, <2>1, <2>2 DEF HoldHandler
  <1>2. ASSUME NEW h \in Handlers, ReleaseHandler(h)
        PROVE  SeatKeysGo
    <2>1. CASE ReleaseSeat(h)
      BY <2>1, <1>d, JobFields DEF ReleaseSeat
    <2>2. CASE ConsumeSeat(h)
      <3>1. PICK s \in job[h].todo : DelSeatKeys(job[h].showtime, {s})
        BY <2>2 DEF ConsumeSeat
      <3>2. job[h].showtime \in Showtimes /\ {s} \in SUBSET Seats
        BY <2>2, JobFields DEF ConsumeSeat
      <3> QED
        BY <3>1, <3>2, <1>d
    <2>3. CASE ReceiveRelease(h) \/ ReceiveBooked(h) \/ CheckRemaining(h)
                 \/ DropListing(h) \/ CreateSeatReservations(h)
      BY <2>3, <1>e DEF ReceiveRelease, ReceiveBooked, Start, CheckRemaining, DropListing,
                        CreateSeatReservations, keys
    <2> QED
      BY <1>2, <2>1, <2>2, <2>3 DEF ReleaseHandler
  <1>3. ASSUME NEW h \in Handlers, Abort(h)
        PROVE  SeatKeysGo
    BY <1>3, <1>e DEF Abort, keys
  <1>4. CASE Tick
    BY <1>4 DEF Tick, SeatKeysGo
  <1>5. CASE UNCHANGED vars
    BY <1>5, <1>e DEF vars
  <1> QED
    BY <1>1, <1>2, <1>3, <1>4, <1>5 DEF Next, Step

\* A handler about to write was so before the step, or the step is its EXISTS.
LEMMA ReachesWrite ==
  ASSUME TypeOK, [Next]_vars, NEW g \in Handlers, pc'[g] = "write"
  PROVE  /\ job'[g] = job[g]
         /\ \/ pc[g] = "write"
            \/ /\ UNCHANGED holder
               /\ \A s \in job[g].seats : holder[job[g].showtime][s] = NoUser
  <1> DEFINE Stays == pc[g] = "write" /\ job'[g] = job[g]
  <1>b. ASSUME NEW h \in Handlers, Finish(h)
        PROVE  Stays
    BY <1>b DEF Finish, TypeOK
  <1>c. ASSUME NEW h \in Handlers, NEW step, Goto(h, step), step # "write"
        PROVE  Stays
    BY <1>c DEF Goto, TypeOK
  <1>1. ASSUME NEW h \in Handlers, HoldHandler(h), ~ CheckSeatFree(h)
        PROVE  Stays
    <2>1. CASE ReceiveHold(h)
      BY <2>1 DEF ReceiveHold, Start, TypeOK
    <2>2. CASE ReadSessions(h)
      BY <2>2 DEF ReadSessions, Goto, TypeOK
    <2>3. CASE ReadOldSeats(h)
      BY <2>3 DEF ReadOldSeats, TypeOK
    <2>4. CASE ClearOldSeats(h) \/ DropOldSession(h)
      BY <2>4, <1>c DEF ClearOldSeats, DropOldSession
    <2>5. CASE CheckLimit(h)
      BY <2>5, <1>b, <1>c DEF CheckLimit
    <2>6. CASE WriteHold(h)
      BY <2>6, <1>b DEF WriteHold, WriteHoldFor
    <2> QED
      BY <1>1, <2>1, <2>2, <2>3, <2>4, <2>5, <2>6 DEF HoldHandler
  <1>2. ASSUME NEW h \in Handlers, CheckSeatFree(h)
        PROVE  \/ Stays
               \/ /\ UNCHANGED holder /\ job'[g] = job[g]
                  /\ \A s \in job[g].seats : holder[job[g].showtime][s] = NoUser
    <2>1. CASE Finish(h)
      BY <2>1, <1>b
    <2>2. CASE Goto(h, "write") /\ ~ \E s \in job[h].seats : holder[job[h].showtime][s] # NoUser
      <3>1. CASE g = h
        BY <1>2, <2>2, <3>1 DEF CheckSeatFree, Goto, keys
      <3>2. CASE g # h
        BY <2>2, <3>2 DEF Goto, TypeOK
      <3> QED
        BY <3>1, <3>2
    <2> QED
      BY <1>2, <2>1, <2>2 DEF CheckSeatFree
  <1>3. ASSUME NEW h \in Handlers, ReleaseHandler(h)
        PROVE  Stays
    <2>1. CASE ReceiveRelease(h) \/ ReceiveBooked(h)
      BY <2>1 DEF ReceiveRelease, ReceiveBooked, Start, TypeOK
    <2>2. CASE ReleaseSeat(h)
      BY <2>2, <1>c DEF ReleaseSeat
    <2>3. CASE ConsumeSeat(h)
      BY <2>3 DEF ConsumeSeat, TypeOK
    <2>4. CASE CheckRemaining(h) \/ DropListing(h) \/ CreateSeatReservations(h)
      BY <2>4, <1>b, <1>c DEF CheckRemaining, DropListing, CreateSeatReservations, AfterRemaining
    <2> QED
      BY <1>3, <2>1, <2>2, <2>3, <2>4 DEF ReleaseHandler
  <1>4. ASSUME NEW h \in Handlers, Abort(h)
        PROVE  Stays
    BY <1>4, <1>b DEF Abort
  <1>5. CASE Tick \/ UNCHANGED vars
    BY <1>5 DEF Tick, vars
  <1> QED
    BY <1>1, <1>2, <1>3, <1>4, <1>5 DEF Next, Step

LEMMA FindsFreeStep ==
  ASSUME TypeOK, WriteFindsSeatFree, [Next]_vars
  PROVE  WriteFindsSeatFree'
  <1> SUFFICES ASSUME NEW h \in Handlers, pc'[h] = "write", h \notin late',
                      NEW s \in job'[h].seats
               PROVE  holder'[job'[h].showtime][s] = NoUser
    BY DEF WriteFindsSeatFree
  <1>1. job'[h] = job[h]
    BY ReachesWrite
  <1>2. CASE pc[h] = "write"
    <2>1. job[h].showtime \in Showtimes /\ s \in Seats
      BY <1>1, <1>2, JobFields
    <2>2. CASE Next
      <3>1. /\ h \notin late
            /\ ~ (holder[job[h].showtime][s] = NoUser /\ holder'[job[h].showtime][s] # NoUser)
        BY <1>1, <1>2, <2>2 DEF Next, Record
      <3> QED
        BY <1>1, <1>2, <3>1 DEF WriteFindsSeatFree
    <2>3. CASE UNCHANGED vars
      BY <1>1, <1>2, <2>3 DEF vars, history, WriteFindsSeatFree
    <2> QED
      BY <2>2, <2>3
  <1>3. CASE pc[h] # "write"
    <2>1. UNCHANGED holder /\ \A y \in job[h].seats : holder[job[h].showtime][y] = NoUser
      BY <1>3, ReachesWrite
    <2> QED
      BY <1>1, <2>1
  <1> QED
    BY <1>2, <1>3

\* Seat keys that stay or go are a step of the abstract locks.
LEMMA GoingIsLockStep ==
  ASSUME TypeOK, TypeOK', SeatKeysGo
  PROVE  [Lock!Next]_holder
  <1> DEFINE F == {p \in Showtimes \X Seats : holder'[p[1]][p[2]] = NoUser}
  <1>1. holder' = [st \in Showtimes |->
                     [s \in Seats |-> IF <<st, s>> \in F THEN NoUser
                                                         ELSE holder[st][s]]]
    BY DEF TypeOK, SeatKeysGo
  <1>2. Lock!Free(F)
    BY <1>1 DEF Lock!Free
  <1>3. F \in SUBSET (Showtimes \X Seats)
    OBVIOUS
  <1> QED
    BY <1>2, <1>3 DEF Lock!Next

\* A hold that is not late takes a free seat.
LEMMA TimelyHoldAcquires ==
  ASSUME TypeOK, HoldNamesOneSeat, WriteFindsSeatFree,
         NEW h \in Handlers, h \notin late, WriteHold(h)
  PROVE  Lock!Next
  <1>1. PICK s \in Seats : job[h].seats = {s}
    BY DEF WriteHold, WriteHoldFor, HoldNamesOneSeat, HoldSteps
  <1> DEFINE u == job[h].user
             st == job[h].showtime
  <1>2. u \in Users /\ st \in Showtimes
    BY JobFields DEF WriteHold, WriteHoldFor
  <1>3. holder[st][s] = NoUser
    BY <1>1 DEF WriteFindsSeatFree, WriteHold, WriteHoldFor
  <1>4. holder' = [holder EXCEPT ![st] =
                     [y \in Seats |-> IF y \in {s} THEN u ELSE holder[st][y]]]
    BY <1>1 DEF WriteHold, WriteHoldFor
  <1> HIDE DEF u, st
  <1>5. [y \in Seats |-> IF y \in {s} THEN u ELSE holder[st][y]]
          = [holder[st] EXCEPT ![s] = u]
    <2>1. holder[st] \in [Seats -> Users \cup {NoUser}]
      BY <1>2 DEF TypeOK
    <2>2. DOMAIN [holder[st] EXCEPT ![s] = u] = Seats
      BY <2>1
    <2>3. \A y \in Seats : [holder[st] EXCEPT ![s] = u][y]
                            = IF y \in {s} THEN u ELSE holder[st][y]
      BY <2>1
    <2> QED
      BY <2>1, <2>2, <2>3, Zenon
  <1>6. holder' = [holder EXCEPT ![st][s] = u]
    BY <1>4, <1>5
  <1>7. Lock!Acquire(u, st, s)
    BY <1>3, <1>6 DEF Lock!Acquire
  <1> QED
    BY <1>2, <1>7 DEF Lock!Next

\* However many handlers overlap, the holds are a lock per seat: a hold replaces
\* another one only if that other was written between the EXISTS of the handler
\* and its SET.
THEOREM HoldsAreLocks == Spec => SeatIsLock
  <1> DEFINE IInv == HoldNamesOneSeat /\ WriteFindsSeatFree
  <1>1. Init => Lock!Init /\ IInv
    BY DEF Init, Lock!Init, HoldNamesOneSeat, HoldSteps, WriteFindsSeatFree
  <1>2. TypeOK /\ IInv /\ [Next]_vars => IInv'
    BY OneSeatStep, FindsFreeStep
  <1>3. TypeOK /\ TypeOK' /\ IInv /\ [Next]_vars => [Lock!Next \/ HoldsLate]_holder
    <2> SUFFICES ASSUME TypeOK, TypeOK', IInv, [Next]_vars
                 PROVE  [Lock!Next \/ HoldsLate]_holder
      OBVIOUS
    <2>1. CASE SeatKeysGo
      BY <2>1, GoingIsLockStep
    <2>2. ASSUME NEW h \in Handlers, WriteHold(h)
          PROVE  [Lock!Next \/ HoldsLate]_holder
      <3>1. CASE h \in late
        BY <2>2, <3>1 DEF HoldsLate
      <3>2. CASE h \notin late
        BY <2>2, <3>2, TimelyHoldAcquires
      <3> QED
        BY <3>1, <3>2
    <2> QED
      BY <2>1, <2>2, WriteOrGo
  <1> QED
    BY <1>1, <1>2, <1>3, TypeCorrect, PTL DEF Spec, SeatIsLock

-----------------------------------------------------------------------------
(* One session, and every held seat is listed, unless handlers crossed.    *)

SwitchSteps == {"oldSeats", "clearOld", "dropOld"}

\* User u has seats listed in one showtime; a seat u holds is in the listing of u.
SessionsApart(u) ==
  \A x, y \in Showtimes : listing[u][x] # {} /\ listing[u][y] # {} => x = y
HeldIsListed(u) ==
  \A st \in Showtimes, s \in Seats : holder[st][s] = u => s \in listing[u][st]

\* Where a handler of user u stands, and what it knows of the holds of u.
FactsOf(u, h) ==
  job[h].user = u =>
    /\ pc[h] \in SwitchSteps =>
          \A x \in Showtimes : listing[u][x] # {} => x = job[h].old
    /\ pc[h] \in {"limit", "exists", "write"} =>
          \A x \in Showtimes : listing[u][x] # {} => x = job[h].showtime
    /\ pc[h] = "clearOld" => listing[u][job[h].old] \subseteq job[h].todo
    /\ pc[h] = "dropOld" => \A s \in Seats : holder[job[h].old][s] # u
    /\ pc[h] = "dropEmpty" => listing[u][job[h].showtime] = {}

ListedFor(u) ==
  /\ SessionsApart(u) /\ HeldIsListed(u)
  /\ \A h \in Handlers : FactsOf(u, h)

\* The inductive invariant.
ListedInv == \A u \in Users : u \notin crossed => ListedFor(u)

LEMMA ListedIsOneSession == ListedInv => OneListedSession
  BY DEF ListedInv, ListedFor, OneListedSession, Sessions, SessionsApart, HeldIsListed

\* In this step user u only loses holds and listed seats, and what u still holds
\* stays listed.
OnlyLoses(u) ==
  \A st \in Showtimes :
     /\ listing'[u][st] \subseteq listing[u][st]
     /\ \A s \in Seats : holder'[st][s] = u =>
          holder[st][s] = u /\ (s \in listing[u][st] => s \in listing'[u][st])

LEMMA LosingKeepsSessions ==
  ASSUME NEW u \in Users, SessionsApart(u), HeldIsListed(u), OnlyLoses(u)
  PROVE  SessionsApart(u)' /\ HeldIsListed(u)'
  <1>1. ASSUME NEW x \in Showtimes, NEW y \in Showtimes, listing'[u][x] # {}, listing'[u][y] # {}
        PROVE  x = y
    <2>1. listing[u][x] # {} /\ listing[u][y] # {}
      BY <1>1 DEF OnlyLoses
    <2> QED
      BY <2>1 DEF SessionsApart
  <1>2. HeldIsListed(u)'
    BY DEF HeldIsListed, OnlyLoses
  <1> QED
    BY <1>1, <1>2 DEF SessionsApart

\* A handler that does not move keeps its facts.
LEMMA LosingKeepsFacts ==
  ASSUME TypeOK, NEW u \in Users, NEW g \in Handlers, FactsOf(u, g), OnlyLoses(u),
         pc'[g] = pc[g], job'[g] = job[g]
  PROVE  FactsOf(u, g)'
  <1> SUFFICES ASSUME job[g].user = u, pc[g] # "idle"
               PROVE  FactsOf(u, g)'
    BY DEF FactsOf, SwitchSteps
  <1>1. job[g].old \in Showtimes /\ job[g].showtime \in Showtimes
    BY JobFields
  <1>2. \A x \in Showtimes : listing'[u][x] # {} => listing[u][x] # {}
    BY DEF OnlyLoses
  <1>3. pc[g] = "clearOld" => listing'[u][job[g].old] \subseteq job[g].todo
    BY <1>1 DEF OnlyLoses, FactsOf
  <1>4. pc[g] = "dropOld" => \A s \in Seats : holder'[job[g].old][s] # u
    BY <1>1 DEF OnlyLoses, FactsOf
  <1>5. pc[g] = "dropEmpty" => listing'[u][job[g].showtime] = {}
    BY <1>1 DEF OnlyLoses, FactsOf
  <1>6. pc[g] \in SwitchSteps => \A x \in Showtimes : listing'[u][x] # {} => x = job[g].old
    BY <1>2 DEF FactsOf
  <1>7. pc[g] \in {"limit", "exists", "write"} =>
          \A x \in Showtimes : listing'[u][x] # {} => x = job[g].showtime
    BY <1>2 DEF FactsOf
  <1> QED
    BY <1>3, <1>4, <1>5, <1>6, <1>7 DEF FactsOf

\* Every step but a hold only takes from the users, and keeps the entries of a
\* user who did not cross together.
LEMMA LosingStep ==
  ASSUME TypeOK, ListingOutlivesHold, [Next]_vars, \A h \in Handlers : ~ WriteHold(h),
         NEW u \in Users, ListedFor(u)
  PROVE  OnlyLoses(u)
  <1>0. u # NoUser
    BY ConstantsAssumption
  <1>k. ASSUME UNCHANGED keys
        PROVE  OnlyLoses(u)
    BY <1>k DEF keys, OnlyLoses
  <1>d. ASSUME NEW v \in Users, NEW x \in Showtimes, NEW S \in SUBSET Seats,
               DelSeatKeys(x, S), RemoveFromListing(v, x, S)
        PROVE  OnlyLoses(u)
    <2>1. \A y \in Showtimes :
            listing'[u][y] = IF u = v /\ y = x THEN listing[u][y] \ S ELSE listing[u][y]
      BY <1>d DEF RemoveFromListing, SetListing, TypeOK
    <2>2. \A y \in Showtimes, s \in Seats :
            holder'[y][s] = IF y = x /\ s \in S THEN NoUser ELSE holder[y][s]
      BY <1>d DEF DelSeatKeys, TypeOK
    <2> QED
      BY <1>0, <2>1, <2>2 DEF OnlyLoses
  <1>e. ASSUME NEW v \in Users, NEW x \in Showtimes, SetListing(v, x, {}, 0), UNCHANGED holder,
               v = u => \A s \in Seats : holder[x][s] # u
        PROVE  OnlyLoses(u)
    <2>1. \A y \in Showtimes :
            listing'[u][y] = IF u = v /\ y = x THEN {} ELSE listing[u][y]
      BY <1>e DEF SetListing, TypeOK
    <2> QED
      BY <1>e, <2>1 DEF OnlyLoses
  <1>1. ASSUME NEW h \in Handlers, HoldHandler(h)
        PROVE  OnlyLoses(u)
    <2>1. CASE ReceiveHold(h) \/ ReadSessions(h) \/ ReadOldSeats(h)
                 \/ CheckLimit(h) \/ CheckSeatFree(h)
      BY <2>1, <1>k DEF ReceiveHold, Start, ReadSessions, ReadOldSeats, CheckLimit, CheckSeatFree
    <2>2. CASE ClearOldSeats(h)
      <3>1. /\ job[h].old \in Showtimes /\ job[h].todo \in SUBSET Seats
            /\ DelSeatKeys(job[h].old, job[h].todo) /\ UNCHANGED listing
        BY <2>2, JobFields DEF ClearOldSeats
      <3>2. \A y \in Showtimes, s \in Seats : holder'[y][s] \in {holder[y][s], NoUser}
        BY <3>1 DEF DelSeatKeys, TypeOK
      <3> QED
        BY <1>0, <3>1, <3>2 DEF OnlyLoses
    <2>3. CASE DropOldSession(h)
      <3>1. /\ job[h].user \in Users /\ job[h].old \in Showtimes /\ pc[h] = "dropOld"
            /\ SetListing(job[h].user, job[h].old, {}, 0) /\ UNCHANGED holder
        BY <2>3, JobFields DEF DropOldSession
      <3>2. job[h].user = u => \A s \in Seats : holder[job[h].old][s] # u
        BY <3>1 DEF ListedFor, FactsOf
      <3> QED
        BY <3>1, <3>2, <1>e
    <2> QED
      BY <1>1, <2>1, <2>2, <2>3 DEF HoldHandler
  <1>2. ASSUME NEW h \in Handlers, ReleaseHandler(h)
        PROVE  OnlyLoses(u)
    <2>1. CASE ReceiveRelease(h) \/ ReceiveBooked(h) \/ CheckRemaining(h)
                 \/ CreateSeatReservations(h)
      BY <2>1, <1>k DEF ReceiveRelease, ReceiveBooked, Start, CheckRemaining,
                        CreateSeatReservations
    <2>2. CASE ReleaseSeat(h)
      BY <2>2, <1>d, JobFields DEF ReleaseSeat
    <2>3. CASE ConsumeSeat(h)
      <3>1. PICK s \in job[h].todo : /\ DelSeatKeys(job[h].showtime, {s})
                                     /\ RemoveFromListing(job[h].user, job[h].showtime, {s})
        BY <2>3 DEF ConsumeSeat
      <3>2. /\ job[h].user \in Users /\ job[h].showtime \in Showtimes
            /\ {s} \in SUBSET Seats
        BY <2>3, JobFields DEF ConsumeSeat
      <3> QED
        BY <3>1, <3>2, <1>d
    <2>4. CASE DropListing(h)
      <3>1. /\ job[h].user \in Users /\ job[h].showtime \in Showtimes /\ pc[h] = "dropEmpty"
            /\ SetListing(job[h].user, job[h].showtime, {}, 0) /\ UNCHANGED holder
        BY <2>4, JobFields DEF DropListing
      <3>2. job[h].user = u => \A s \in Seats : holder[job[h].showtime][s] # u
        BY <3>1 DEF ListedFor, FactsOf, HeldIsListed
      <3> QED
        BY <3>1, <3>2, <1>e
    <2> QED
      BY <1>2, <2>1, <2>2, <2>3, <2>4 DEF ReleaseHandler
  <1>3. ASSUME NEW h \in Handlers, Abort(h)
        PROVE  OnlyLoses(u)
    BY <1>3, <1>k DEF Abort
  <1>4. CASE Tick
    <2> SUFFICES ASSUME NEW st \in Showtimes
                 PROVE  /\ listing'[u][st] \subseteq listing[u][st]
                        /\ \A s \in Seats : holder'[st][s] = u =>
                             holder[st][s] = u /\ (s \in listing[u][st] => s \in listing'[u][st])
      BY DEF OnlyLoses
    <2>1. listing'[u][st] = IF listTtl[u][st] = 1 THEN {} ELSE listing[u][st]
      BY <1>4 DEF Tick
    <2>2. ASSUME NEW s \in Seats, holder'[st][s] = u
          PROVE  holder[st][s] = u /\ (s \in listing[u][st] => s \in listing'[u][st])
      <3>1. holder[st][s] = u /\ seatTtl[st][s] # 1
        BY <1>0, <1>4, <2>2 DEF Tick
      <3>2. seatTtl[st][s] # 0 /\ seatTtl[st][s] \in 0..HoldTtl /\ listTtl[u][st] \in 0..HoldTtl
        BY <1>0, <3>1 DEF TypeOK
      <3>3. s \in listing[u][st] => seatTtl[st][s] <= listTtl[u][st]
        BY <3>1 DEF ListingOutlivesHold
      <3>4. s \in listing[u][st] => listTtl[u][st] # 1
        BY <3>1, <3>2, <3>3, ConstantsAssumption
      <3> QED
        BY <2>1, <3>1, <3>4
    <2> QED
      BY <2>1, <2>2
  <1>5. CASE UNCHANGED vars
    BY <1>5, <1>k DEF vars, keys
  <1> QED
    BY <1>1, <1>2, <1>3, <1>4, <1>5 DEF Next, Step

\* A step of handler h moves no other handler.
LEMMA OthersStay ==
  ASSUME TypeOK, NEW h \in Handlers, HoldHandler(h) \/ ReleaseHandler(h) \/ Abort(h),
         NEW g \in Handlers, g # h
  PROVE  pc'[g] = pc[g] /\ job'[g] = job[g]
  <1>b. ASSUME Finish(h)
        PROVE  pc'[g] = pc[g] /\ job'[g] = job[g]
    BY <1>b DEF Finish, TypeOK
  <1>c. ASSUME NEW step, Goto(h, step)
        PROVE  pc'[g] = pc[g] /\ job'[g] = job[g]
    BY <1>c DEF Goto, TypeOK
  <1>1. CASE HoldHandler(h)
    <2>1. CASE ReceiveHold(h)
      BY <2>1 DEF ReceiveHold, Start, TypeOK
    <2>2. CASE ReadSessions(h)
      BY <2>2, <1>c DEF ReadSessions, TypeOK
    <2>3. CASE ReadOldSeats(h)
      BY <2>3 DEF ReadOldSeats, TypeOK
    <2>4. CASE ClearOldSeats(h) \/ DropOldSession(h) \/ CheckLimit(h) \/ CheckSeatFree(h)
                 \/ WriteHold(h)
      BY <2>4, <1>b, <1>c DEF ClearOldSeats, DropOldSession, CheckLimit, CheckSeatFree,
                              WriteHold, WriteHoldFor
    <2> QED
      BY <1>1, <2>1, <2>2, <2>3, <2>4 DEF HoldHandler
  <1>2. CASE ReleaseHandler(h)
    <2>1. CASE ReceiveRelease(h) \/ ReceiveBooked(h)
      BY <2>1 DEF ReceiveRelease, ReceiveBooked, Start, TypeOK
    <2>2. CASE ConsumeSeat(h)
      BY <2>2 DEF ConsumeSeat, TypeOK
    <2>3. CASE ReleaseSeat(h) \/ CheckRemaining(h) \/ DropListing(h) \/ CreateSeatReservations(h)
      BY <2>3, <1>b, <1>c DEF ReleaseSeat, CheckRemaining, DropListing, CreateSeatReservations,
                              AfterRemaining
    <2> QED
      BY <1>2, <2>1, <2>2, <2>3 DEF ReleaseHandler
  <1>3. CASE Abort(h)
    BY <1>3, <1>b DEF Abort
  <1> QED
    BY <1>1, <1>2, <1>3

\* What the handler that steps knows after its step.
LEMMA MovedFacts ==
  ASSUME TypeOK, NEW u \in Users, ListedFor(u), OnlyLoses(u), NEW h \in Handlers,
         HoldHandler(h) \/ ReleaseHandler(h) \/ Abort(h)
  PROVE  FactsOf(u, h)'
  <1>s. ASSUME pc'[h] \in {"idle", "sessions", "release", "booked", "remaining", "reserve"}
        PROVE  FactsOf(u, h)'
    BY <1>s DEF FactsOf, SwitchSteps
  <1>f. ASSUME Finish(h)
        PROVE  FactsOf(u, h)'
    BY <1>f, <1>s DEF Finish, TypeOK
  <1>g. ASSUME NEW step, Goto(h, step)
        PROVE  pc'[h] = step /\ job'[h] = job[h]
    BY <1>g DEF Goto, TypeOK
  <1>p. SessionsApart(u) /\ HeldIsListed(u) /\ FactsOf(u, h)
    BY DEF ListedFor
  <1> DEFINE st == job[h].showtime
             old == job[h].old
  <1>1. CASE HoldHandler(h)
    <2>1. CASE ReceiveHold(h)
      BY <2>1, <1>s DEF ReceiveHold, Start, TypeOK
    <2>2. CASE ReadSessions(h)
      <3>1. UNCHANGED listing /\ pc[h] = "sessions"
        BY <2>2 DEF ReadSessions, keys
      <3>2. CASE (Sessions(job[h].user) = {} \/ st \in Sessions(job[h].user)) /\ Goto(h, "limit")
        <4>1. job[h].user = u => \A x \in Showtimes : listing[u][x] # {} => x = st
          BY <3>2, <1>p DEF Sessions, SessionsApart
        <4> QED
          BY <3>1, <3>2, <4>1, <1>g DEF FactsOf, SwitchSteps
      <3>3. ASSUME NEW x \in Sessions(job[h].user) \ {st},
                   pc' = [pc EXCEPT ![h] = "oldSeats"], job' = [job EXCEPT ![h].old = x]
            PROVE  FactsOf(u, h)'
        <4>1. job[h] \in Jobs
          BY <3>1, JobFields
        <4>2. pc'[h] = "oldSeats" /\ job'[h].user = job[h].user /\ job'[h].old = x
          BY <4>1, <3>3 DEF TypeOK, Jobs
        <4>3. job[h].user = u => \A y \in Showtimes : listing[u][y] # {} => y = x
          BY <3>3, <1>p DEF Sessions, SessionsApart
        <4> QED
          BY <3>1, <4>2, <4>3 DEF FactsOf, SwitchSteps
      <3> QED
        BY <2>2, <3>2, <3>3 DEF ReadSessions
    <2>3. CASE ReadOldSeats(h)
      <3>1. UNCHANGED <<holder, listing>> /\ pc[h] = "oldSeats"
        BY <2>3 DEF ReadOldSeats, keys
      <3>2. job[h] \in Jobs /\ old \in Showtimes
        BY <3>1, JobFields
      <3>3. /\ job'[h].user = job[h].user /\ job'[h].old = old
            /\ job'[h].todo = listing[job[h].user][old]
            /\ pc'[h] = IF listing[job[h].user][old] = {} THEN "dropOld" ELSE "clearOld"
        BY <2>3, <3>2 DEF ReadOldSeats, TypeOK, Jobs
      <3>4. job[h].user = u => \A x \in Showtimes : listing[u][x] # {} => x = old
        BY <3>1, <1>p DEF FactsOf, SwitchSteps
      <3>5. listing[u][old] = {} => \A s \in Seats : holder[old][s] # u
        BY <3>2, <1>p DEF HeldIsListed
      <3> QED
        BY <3>1, <3>3, <3>4, <3>5 DEF FactsOf, SwitchSteps
    <2>4. CASE ClearOldSeats(h)
      <3>1. /\ pc[h] = "clearOld" /\ pc'[h] = "dropOld" /\ job'[h] = job[h]
            /\ UNCHANGED listing
        BY <2>4, <1>g DEF ClearOldSeats
      <3>2. old \in Showtimes /\ job[h].todo \in SUBSET Seats
        BY <3>1, JobFields
      <3>3. \A s \in Seats : holder'[old][s] = IF s \in job[h].todo THEN NoUser ELSE holder[old][s]
        BY <2>4, <3>2 DEF ClearOldSeats, DelSeatKeys, TypeOK
      <3>4. job[h].user = u => listing[u][old] \subseteq job[h].todo
        BY <3>1, <1>p DEF FactsOf
      <3>5. job[h].user = u => \A s \in Seats : holder'[old][s] # u
        BY <3>2, <3>3, <3>4, <1>p, ConstantsAssumption DEF HeldIsListed
      <3>6. job[h].user = u => \A x \in Showtimes : listing[u][x] # {} => x = old
        BY <3>1, <1>p DEF FactsOf, SwitchSteps
      <3> QED
        BY <3>1, <3>5, <3>6 DEF FactsOf, SwitchSteps
    <2>5. CASE DropOldSession(h)
      <3>1. pc[h] = "dropOld" /\ pc'[h] = "limit" /\ job'[h] = job[h]
        BY <2>5, <1>g DEF DropOldSession
      <3>2. job[h].user \in Users /\ old \in Showtimes
        BY <3>1, JobFields
      <3>3. \A y \in Showtimes :
              listing'[u][y] = IF u = job[h].user /\ y = old THEN {} ELSE listing[u][y]
        BY <2>5, <3>2 DEF DropOldSession, SetListing, TypeOK
      <3>4. job[h].user = u => \A x \in Showtimes : listing'[u][x] = {}
        BY <3>1, <3>3, <1>p DEF FactsOf, SwitchSteps
      <3> QED
        BY <3>1, <3>4 DEF FactsOf, SwitchSteps
    <2>6. CASE CheckLimit(h) \/ CheckSeatFree(h)
      <3>1. UNCHANGED listing /\ pc[h] \in {"limit", "exists"}
        BY <2>6 DEF CheckLimit, CheckSeatFree, keys
      <3>2. CASE Goto(h, "exists") \/ Goto(h, "write")
        <4>1. pc'[h] \in {"exists", "write"} /\ job'[h] = job[h]
          BY <3>2, <1>g
        <4>2. job[h].user = u => \A x \in Showtimes : listing[u][x] # {} => x = st
          BY <3>1, <1>p DEF FactsOf
        <4> QED
          BY <3>1, <4>1, <4>2 DEF FactsOf, SwitchSteps
      <3> QED
        BY <2>6, <3>2, <1>f DEF CheckLimit, CheckSeatFree
    <2>7. CASE WriteHold(h)
      BY <2>7, <1>f DEF WriteHold, WriteHoldFor
    <2> QED
      BY <1>1, <2>1, <2>2, <2>3, <2>4, <2>5, <2>6, <2>7 DEF HoldHandler
  <1>2. CASE ReleaseHandler(h)
    <2>1. CASE ReceiveRelease(h) \/ ReceiveBooked(h)
      BY <2>1, <1>s DEF ReceiveRelease, ReceiveBooked, Start, TypeOK
    <2>2. CASE ReleaseSeat(h)
      BY <2>2, <1>s, <1>g DEF ReleaseSeat
    <2>3. CASE ConsumeSeat(h)
      BY <2>3, <1>s DEF ConsumeSeat, TypeOK
    <2>4. CASE CheckRemaining(h)
      <3>1. CASE AfterRemaining(h)
        BY <3>1, <1>f, <1>g, <1>s DEF AfterRemaining
      <3>2. CASE listing[job[h].user][st] = {} /\ Goto(h, "dropEmpty")
        <4>1. pc'[h] = "dropEmpty" /\ job'[h] = job[h] /\ UNCHANGED listing
          BY <2>4, <3>2, <1>g DEF CheckRemaining, keys
        <4> QED
          BY <3>2, <4>1 DEF FactsOf, SwitchSteps
      <3> QED
        BY <2>4, <3>1, <3>2 DEF CheckRemaining
    <2>5. CASE DropListing(h) \/ CreateSeatReservations(h)
      BY <2>5, <1>f, <1>g, <1>s DEF DropListing, CreateSeatReservations, AfterRemaining
    <2> QED
      BY <1>2, <2>1, <2>2, <2>3, <2>4, <2>5 DEF ReleaseHandler
  <1>3. CASE Abort(h)
    BY <1>3, <1>f DEF Abort
  <1> QED
    BY <1>1, <1>2, <1>3

\* A hold of u that no other handler of u is crossed by.
LEMMA UncrossedHold ==
  ASSUME TypeOK, NEW h \in Handlers, WriteHold(h), Record, NEW u \in Users,
         job[h].user = u, ListedFor(u), u \notin crossed'
  PROVE  ListedFor(u)'
  <1> DEFINE st == job[h].showtime
             S == job[h].seats
  <1>1. pc[h] = "write" /\ st \in Showtimes /\ S \in SUBSET Seats
    BY JobFields DEF WriteHold, WriteHoldFor
  <1>2. \A x \in Showtimes :
          listing'[u][x] = IF x = st THEN listing[u][st] \cup S ELSE listing[u][x]
    BY <1>1 DEF WriteHold, WriteHoldFor, SetListing, TypeOK
  <1>3. \A x \in Showtimes, s \in Seats :
          holder'[x][s] = IF x = st /\ s \in S THEN u ELSE holder[x][s]
    BY <1>1 DEF WriteHold, WriteHoldFor, TypeOK
  <1>4. \A x \in Showtimes : listing[u][x] # {} => x = st
    BY <1>1 DEF ListedFor, FactsOf
  <1>5. \A x \in Showtimes : listing'[u][x] # {} => x = st
    BY <1>2, <1>4
  <1>6. SessionsApart(u)'
    BY <1>5 DEF SessionsApart
  <1>7. HeldIsListed(u)'
    BY <1>1, <1>2, <1>3 DEF ListedFor, HeldIsListed
  <1>8. ASSUME NEW g \in Handlers
        PROVE  FactsOf(u, g)'
    <2>1. CASE g = h
      <3>1. pc'[g] = "idle"
        BY <2>1 DEF WriteHold, WriteHoldFor, Finish, TypeOK
      <3> QED
        BY <3>1 DEF FactsOf, SwitchSteps
    <2>2. CASE g # h
      <3>1. pc'[g] = pc[g] /\ job'[g] = job[g] /\ FactsOf(u, g)
        BY <2>2, OthersStay DEF HoldHandler, ListedFor
      <3>2. CASE \A s \in S : holder[st][s] = u
        <4>1. \A x \in Showtimes : listing'[u][x] = listing[u][x]
          BY <1>1, <1>2, <3>2 DEF ListedFor, HeldIsListed
        <4>2. OnlyLoses(u)
          BY <1>1, <1>3, <3>2, <4>1 DEF OnlyLoses
        <4> QED
          BY <3>1, <4>2, LosingKeepsFacts
      <3>3. ASSUME NEW s \in S, holder[st][s] # u
            PROVE  FactsOf(u, g)'
        <4>1. holder'[st][s] = u
          BY <1>1, <1>3, <3>3
        <4>2. ~ ReliesOn(g, u, st)
          BY <1>1, <3>1, <3>3, <4>1 DEF Record
        <4> SUFFICES ASSUME job[g].user = u
                     PROVE  FactsOf(u, g)'
          BY <3>1 DEF FactsOf
        <4>3. /\ pc[g] \notin SwitchSteps
              /\ pc[g] \in {"limit", "exists", "write"} => job[g].showtime = st
              /\ pc[g] = "dropEmpty" => job[g].showtime # st
          BY <4>2 DEF ReliesOn, SwitchSteps
        <4>4. pc[g] = "dropEmpty" => listing'[u][job[g].showtime] = {}
          BY <1>2, <3>1, <4>3, JobFields DEF FactsOf
        <4> QED
          BY <1>5, <3>1, <4>3, <4>4 DEF FactsOf, SwitchSteps
      <3> QED
        BY <3>2, <3>3
    <2> QED
      BY <2>1, <2>2
  <1> QED
    BY <1>6, <1>7, <1>8 DEF ListedFor

\* The hold of another user takes at most seats from u.
LEMMA HoldOfAnotherLoses ==
  ASSUME TypeOK, NEW h \in Handlers, WriteHold(h), NEW u \in Users, job[h].user # u
  PROVE  OnlyLoses(u)
  <1>1. job[h].user \in Users /\ job[h].showtime \in Showtimes
    BY JobFields DEF WriteHold, WriteHoldFor
  <1>2. \A x \in Showtimes : listing'[u][x] = listing[u][x]
    BY <1>1 DEF WriteHold, WriteHoldFor, SetListing, TypeOK
  <1>3. \A x \in Showtimes, s \in Seats : holder'[x][s] \in {holder[x][s], job[h].user}
    BY <1>1 DEF WriteHold, WriteHoldFor, TypeOK
  <1> QED
    BY <1>2, <1>3 DEF OnlyLoses

LEMMA ListedStep ==
  ASSUME TypeOK, ListingOutlivesHold, ListedInv, [Next]_vars
  PROVE  ListedInv'
  <1> SUFFICES ASSUME NEW u \in Users, u \notin crossed'
               PROVE  ListedFor(u)'
    BY DEF ListedInv
  <1>1. u \notin crossed
    BY DEF Next, Record, vars, history
  <1>2. ListedFor(u)
    BY <1>1 DEF ListedInv
  <1>3. ASSUME NEW h \in Handlers, WriteHold(h), job[h].user = u
        PROVE  ListedFor(u)'
    <2>1. CASE Next
      BY <1>2, <1>3, <2>1, UncrossedHold DEF Next
    <2>2. CASE UNCHANGED vars
      BY <1>2, <2>2 DEF vars, ListedFor, SessionsApart, HeldIsListed, FactsOf
    <2> QED
      BY <2>1, <2>2
  <1>4. CASE \A h \in Handlers : WriteHold(h) => job[h].user # u
    <2>1. OnlyLoses(u)
      BY <1>2, <1>4, LosingStep, HoldOfAnotherLoses
    <2>2. SessionsApart(u)' /\ HeldIsListed(u)'
      BY <1>2, <2>1, LosingKeepsSessions DEF ListedFor
    <2>3. ASSUME NEW g \in Handlers
          PROVE  FactsOf(u, g)'
      <3>1. FactsOf(u, g)
        BY <1>2 DEF ListedFor
      <3>2. ASSUME NEW h \in Handlers, HoldHandler(h) \/ ReleaseHandler(h) \/ Abort(h)
            PROVE  FactsOf(u, g)'
        <4>1. CASE g = h
          BY <1>2, <2>1, <3>2, <4>1, MovedFacts
        <4>2. CASE g # h
          BY <2>1, <3>1, <3>2, <4>2, OthersStay, LosingKeepsFacts
        <4> QED
          BY <4>1, <4>2
      <3>3. CASE Tick \/ UNCHANGED vars
        BY <2>1, <3>1, <3>3, LosingKeepsFacts DEF Tick, vars
      <3> QED
        BY <3>2, <3>3 DEF Next, Step
    <2> QED
      BY <2>2, <2>3 DEF ListedFor
  <1> QED
    BY <1>3, <1>4

\* However many handlers overlap, a user who never got a hold while another
\* handler of the same user relied on what it had read of the sessions has holds
\* in one showtime only, and every seat that user holds is in the listing: the
\* search for the old session (clearOldShowtimeSession), the deletions of a
\* release and the two expirations keep the entries of a hold together.
THEOREM HoldsAreListed == Spec => []OneListedSession
  <1>1. Init => ListedInv
    BY ConstantsAssumption
    DEF Init, ListedInv, ListedFor, FactsOf, SwitchSteps, SessionsApart, HeldIsListed
  <1> QED
    BY <1>1, ListedStep, ListedIsOneSession, TypeCorrect, OutlivesCorrect, PTL DEF Spec
=============================================================================
