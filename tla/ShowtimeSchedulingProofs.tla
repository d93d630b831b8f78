----------------------- MODULE ShowtimeSchedulingProofs -----------------------
(***************************************************************************)
(* Proofs about the timetable, for any halls, showtimes, movies, days and  *)
(* operations in progress: types, that only operations that used the same  *)
(* thing at the same time, or a new movie, book a hall twice, and that     *)
(* only those move or delete a showtime whose seats are sold.              *)
(***************************************************************************)
EXTENDS ShowtimeScheduling, TLAPS

-----------------------------------------------------------------------------
(* Types.                                                                  *)

AllChanges == [movie : Movies \cup {Keep}, hall : Halls \cup {Keep},
               start : Times \cup {Keep}, status : Statuses \cup {Keep}]

Ops == {"none", "create", "update", "cancel", "createHall", "deleteHall", "deleteCinema", "sale"}

Steps == {"idle", "look", "insert", "count", "move", "write", "holds", "mark", "delete",
          "insertHall", "dropHall", "dropCinema", "reserve"}

Jobs == [op : Ops, on : Things, movie : Movies \cup {Keep}, left : SUBSET Int,
         change : AllChanges, row : Rows \cup {NoRow}, sold : BOOLEAN,
         seat : Seats \cup {Keep}]

TableOK ==
  /\ cinema \in {"ACTIVE", "INACTIVE", "gone"}
  /\ hall \in [Halls -> {"none", "ACTIVE", "INACTIVE", "gone"}]
  /\ show \in [Showtimes -> Rows \cup {NoRow}]
  /\ used \subseteq Showtimes
  /\ \A s \in Showtimes :
       Exists(s) => s \in used /\ hall[show[s].hall] \in {"ACTIVE", "INACTIVE"}
  /\ cinema = "gone" => \A x \in Halls : hall[x] \in {"none", "gone"}

SeatOK ==
  /\ held \in [Showtimes -> SUBSET Seats]
  /\ reserved \in [Showtimes -> SUBSET Seats]
  /\ \A s \in Showtimes : ~Exists(s) => reserved[s] = {}

RestOK ==
  /\ requests \in 0 .. MaxRequests
  /\ raced \subseteq Things /\ stretched \subseteq Showtimes

\* A row that is or will be written ends when its movie has ended, or later.
RowFits(r) == r \in Rows /\ r.end >= r.start + Runtime[r.movie]

\* The hall in which the update j will leave the showtime.
NewHall(j) == Or(j.change.hall, j.row.hall)

\* What an operation works on at each of its queries, and what it uses.
FitCreate(p, j, U) ==
  /\ p \in {"look", "insert"} /\ j.op = "create" /\ j.movie \in Movies
  /\ \E x \in Halls : /\ j.on = HallOf(x) /\ U = {HallOf(x)}
                      /\ p = "insert" => RowFits(j.row) /\ j.row.hall = x

FitUpdate(p, j, U) ==
  /\ p \in {"count", "move", "write"} /\ j.op = "update" /\ j.row \in Rows
  /\ p = "move" => Moves(j.change)
  /\ \E s \in Showtimes : /\ j.on = RowOf(s)
                          /\ U = {RowOf(s), SeatsOf(s)} \cup
                                 (IF Moves(j.change) THEN {HallOf(NewHall(j))} ELSE {})

FitCancel(p, j, U) ==
  /\ p \in {"count", "holds", "mark", "delete"} /\ j.op = "cancel"
  /\ \E s \in Showtimes : j.on = RowOf(s) /\ U = {RowOf(s), SeatsOf(s)}

FitHall(p, j, U) ==
  \E x \in Halls : /\ j.on = HallOf(x)
                   /\ \/ p = "insertHall" /\ j.op = "createHall" /\ U = {Cinema}
                      \/ p = "dropHall" /\ j.op = "deleteHall" /\ U = {HallOf(x)}

FitCinema(p, j, U) == p = "dropCinema" /\ j.op = "deleteCinema" /\ U = {Cinema}

FitSale(p, j, U) ==
  /\ p = "reserve" /\ j.op = "sale" /\ j.seat \in Seats /\ U = {}
  /\ \E s \in Showtimes : j.on = SeatsOf(s)

Fit(p, j, U) ==
  \/ p = "idle" /\ j = NoJob /\ U = {}
  \/ FitCreate(p, j, U) \/ FitUpdate(p, j, U) \/ FitCancel(p, j, U)
  \/ FitHall(p, j, U) \/ FitCinema(p, j, U) \/ FitSale(p, j, U)

ControlOK ==
  /\ pc \in [Handlers -> Steps]
  /\ job \in [Handlers -> Jobs]
  /\ uses \in [Handlers -> SUBSET Things]
  /\ \A h \in Handlers : Fit(pc[h], job[h], uses[h])

\* The showtimes that operations work on have been given out.
OnUsed ==
  \A h \in Handlers, s \in Showtimes : job[h].on \in {RowOf(s), SeatsOf(s)} => s \in used

\* Every row ends when its movie has ended, or later.
RowsFit == \A s \in Showtimes : Exists(s) => RowFits(show[s])

Inv == TableOK /\ SeatOK /\ RestOK /\ ControlOK /\ OnUsed /\ RowsFit

LEMMA InvTypes == Inv => TypeOK
  BY DEF Inv, TypeOK, TableOK, SeatOK, RestOK, ControlOK

LEMMA Numbers ==
  /\ Buffer \in Nat /\ MaxRequests \in Nat
  /\ \A m \in Movies : Runtime[m] \in Nat
  /\ \A t \in Times : t \in Nat
  <1>1. Buffer \in Nat /\ DayLength \in Nat /\ Days \in Nat /\ MaxRequests \in Nat
    BY SchedulingAssumption
  <1>2. \A m \in Movies : Runtime[m] \in Nat
    BY SchedulingAssumption
  <1>3. \A t \in Times : t \in Nat
    BY <1>1 DEF Times
  <1> QED
    BY <1>1, <1>2, <1>3

LEMMA ThingsApart ==
  /\ \A x \in Halls, s \in Showtimes : /\ HallOf(x) # RowOf(s) /\ HallOf(x) # SeatsOf(s)
  /\ \A s, t \in Showtimes : /\ RowOf(s) # SeatsOf(t)
                             /\ RowOf(s) = RowOf(t) => s = t
                             /\ SeatsOf(s) = SeatsOf(t) => s = t
  /\ \A x, y \in Halls : HallOf(x) = HallOf(y) => x = y
  /\ \A x \in Halls : HallOf(x) # Cinema /\ HallOf(x)[2] = x
  /\ \A s \in Showtimes : /\ RowOf(s) # Cinema /\ SeatsOf(s) # Cinema
                          /\ RowOf(s)[2] = s /\ SeatsOf(s)[2] = s
  BY DEF HallOf, RowOf, SeatsOf, Cinema

LEMMA AreThings ==
  /\ \A x \in Halls : HallOf(x) \in Things
  /\ \A s \in Showtimes : RowOf(s) \in Things /\ SeatsOf(s) \in Things
  /\ Cinema \in Things
  BY DEF Things

LEMMA NoRowIsNone == NoRow \notin Rows /\ NoRow.hall = NoHall /\ \A r \in Rows : r.hall # NoHall
  BY SchedulingAssumption DEF NoRow, Rows

LEMMA NoJobFields ==
  /\ NoJob \in Jobs /\ NoJob.op = "none" /\ NoJob.on = Cinema /\ NoJob.seat = Keep
  <1>1. NoChange \in AllChanges
    BY DEF NoChange, AllChanges
  <1>2. Cinema \in Things
    BY AreThings
  <1>3. NoJob \in Jobs
    BY <1>1, <1>2 DEF NoJob, Jobs, Ops
  <1>4. NoJob.op = "none" /\ NoJob.on = Cinema /\ NoJob.seat = Keep
    BY DEF NoJob
  <1> QED
    BY <1>3, <1>4

-----------------------------------------------------------------------------
(* Parts of steps.                                                         *)

\* What an operation does at its queries.
LEMMA AtStep ==
  ASSUME ControlOK, NEW h \in Handlers
  PROVE  /\ pc[h] = "idle" <=> job[h] = NoJob
         /\ pc[h] = "idle" => uses[h] = {}
         /\ pc[h] \in {"look", "insert"} => FitCreate(pc[h], job[h], uses[h])
         /\ pc[h] \in {"move", "write"} \/ job[h].op = "update"
              => FitUpdate(pc[h], job[h], uses[h])
         /\ pc[h] \in {"holds", "mark", "delete"} \/ job[h].op = "cancel"
              => FitCancel(pc[h], job[h], uses[h])
         /\ pc[h] = "count" => job[h].op \in {"update", "cancel"}
         /\ pc[h] \in {"insertHall", "dropHall"} => FitHall(pc[h], job[h], uses[h])
         /\ pc[h] = "dropCinema" => FitCinema(pc[h], job[h], uses[h])
         /\ pc[h] = "reserve" \/ job[h].op = "sale" => FitSale(pc[h], job[h], uses[h])
  <1>1. Fit(pc[h], job[h], uses[h])
    BY DEF ControlOK
  <1> QED
    BY <1>1, NoJobFields DEF Fit, FitCreate, FitUpdate, FitCancel, FitHall, FitCinema, FitSale

\* The operations that a step leaves alone fit as before.
LEMMA ControlStep ==
  ASSUME ControlOK, NEW h \in Handlers, NEW step \in Steps, NEW j \in Jobs,
         NEW U \in SUBSET Things, Fit(step, j, U),
         pc' = [pc EXCEPT ![h] = step], job' = [job EXCEPT ![h] = j],
         uses' = [uses EXCEPT ![h] = U]
  PROVE  ControlOK'
  <1>1. /\ pc' \in [Handlers -> Steps] /\ job' \in [Handlers -> Jobs]
        /\ uses' \in [Handlers -> SUBSET Things]
    BY DEF ControlOK
  <1>2. ASSUME NEW g \in Handlers
        PROVE  Fit(pc'[g], job'[g], uses'[g])
    <2>1. CASE g = h
      BY <2>1 DEF ControlOK
    <2>2. CASE g # h
      <3>1. pc'[g] = pc[g] /\ job'[g] = job[g] /\ uses'[g] = uses[g]
        BY <2>2 DEF ControlOK
      <3> QED
        BY <3>1 DEF ControlOK
    <2> QED
      BY <2>1, <2>2
  <1> QED
    BY <1>1, <1>2 DEF ControlOK

LEMMA OnStep ==
  ASSUME ControlOK, OnUsed, NEW h \in Handlers, NEW j \in Jobs,
         job' = [job EXCEPT ![h] = j], used \subseteq used',
         \A s \in Showtimes : j.on \in {RowOf(s), SeatsOf(s)} => s \in used'
  PROVE  OnUsed'
  <1>1. ASSUME NEW g \in Handlers, NEW s \in Showtimes, job'[g].on \in {RowOf(s), SeatsOf(s)}
        PROVE  s \in used'
    <2>1. CASE g = h
      BY <1>1, <2>1 DEF ControlOK
    <2>2. CASE g # h
      BY <1>1, <2>2 DEF ControlOK, OnUsed
    <2> QED
      BY <2>1, <2>2
  <1> QED
    BY <1>1 DEF OnUsed

LEMMA FinishStep ==
  ASSUME ControlOK, OnUsed, NEW h \in Handlers, Finish(h), used \subseteq used'
  PROVE  ControlOK' /\ OnUsed'
  <1>1. Fit("idle", NoJob, {}) /\ "idle" \in Steps /\ {} \in SUBSET Things
    BY DEF Fit, Steps
  <1>2. ControlOK'
    BY <1>1, ControlStep, NoJobFields DEF Finish
  <1>3. \A s \in Showtimes : NoJob.on \notin {RowOf(s), SeatsOf(s)}
    BY NoJobFields, ThingsApart
  <1>4. OnUsed'
    BY <1>3, OnStep, NoJobFields DEF Finish
  <1> QED
    BY <1>2, <1>4

\* An operation goes on, with the same parameters.
LEMMA GoOnStep ==
  ASSUME ControlOK, OnUsed, NEW h \in Handlers, NEW step \in Steps, NEW j \in Jobs,
         pc' = [pc EXCEPT ![h] = step], job' = [job EXCEPT ![h] = j], UNCHANGED uses,
         Fit(step, j, uses[h]), j.on = job[h].on, used \subseteq used'
  PROVE  ControlOK' /\ OnUsed'
  <1>1. uses' = [uses EXCEPT ![h] = uses[h]] /\ uses[h] \in SUBSET Things
    BY DEF ControlOK
  <1>2. ControlOK'
    BY <1>1, ControlStep
  <1>3. OnUsed'
    BY OnStep DEF OnUsed
  <1> QED
    BY <1>2, <1>3

LEMMA GotoStep ==
  ASSUME ControlOK, OnUsed, NEW h \in Handlers, NEW step \in Steps, Goto(h, step),
         Fit(step, job[h], uses[h]), used \subseteq used'
  PROVE  ControlOK' /\ OnUsed'
  <1>1. job' = [job EXCEPT ![h] = job[h]] /\ job[h] \in Jobs
    BY DEF ControlOK, Goto
  <1> QED
    BY <1>1, GoOnStep DEF Goto

LEMMA StaysStep ==
  ASSUME ControlOK, OnUsed, UNCHANGED <<pc, job, uses>>, used \subseteq used'
  PROVE  ControlOK' /\ OnUsed'
  BY DEF ControlOK, OnUsed

LEMMA TableStays ==
  ASSUME TableOK, RowsFit, UNCHANGED timetable
  PROVE  TableOK' /\ RowsFit'
  BY DEF TableOK, RowsFit, timetable, Exists

LEMMA SeatStays ==
  ASSUME SeatOK, UNCHANGED <<show, seating>>
  PROVE  SeatOK'
  BY DEF SeatOK, seating, Exists

LEMMA CountRest ==
  ASSUME RestOK, Count, raced' \subseteq Things, UNCHANGED stretched
  PROVE  RestOK'
  BY Numbers DEF RestOK, Count

LEMMA SameRest ==
  ASSUME RestOK, UNCHANGED <<raced, requests>>, stretched' \subseteq Showtimes
  PROVE  RestOK'
  BY DEF RestOK

\* A request starts an operation.
LEMMA BeginStep ==
  ASSUME Inv, NEW h \in Handlers, NEW j \in Jobs, NEW step \in Steps,
         NEW U \in SUBSET Things, Begin(h, j, step, U), Fit(step, j, U),
         \A s \in Showtimes : j.on \in {RowOf(s), SeatsOf(s)} => s \in used
  PROVE  Inv'
  <1>1. /\ UNCHANGED <<timetable, seating, stretched, show, used>> /\ Count
        /\ pc' = [pc EXCEPT ![h] = step] /\ job' = [job EXCEPT ![h] = j]
        /\ uses' = [uses EXCEPT ![h] = U]
    BY DEF Begin, timetable
  <1>2. TableOK' /\ RowsFit'
    BY <1>1, TableStays DEF Inv
  <1>3. SeatOK'
    BY <1>1, SeatStays DEF Inv
  <1>4. raced' \subseteq Things
    BY DEF Begin, Inv, RestOK
  <1>5. RestOK'
    BY <1>1, <1>4, CountRest DEF Inv
  <1>6. ControlOK'
    BY <1>1, ControlStep DEF Inv
  <1>7. OnUsed'
    BY <1>1, OnStep DEF Inv
  <1> QED
    BY <1>2, <1>3, <1>5, <1>6, <1>7 DEF Inv

-----------------------------------------------------------------------------
(* Requests.                                                               *)

\* What was looked at when operation j started.
StartsRight(step, j) ==
  /\ step \in {"look", "count", "insertHall", "dropHall", "dropCinema"}
  /\ j.op # "sale"
  /\ \A s \in Showtimes : j.on \in {RowOf(s), SeatsOf(s)} => s \in used
  /\ j.op = "update" => \A s \in Showtimes : j.on = RowOf(s) => j.row = show[s]
  /\ step = "dropHall" => \A s \in Showtimes : Exists(s) => j.on # HallOf(show[s].hall)
  /\ step = "dropCinema" => \A x \in Halls : hall[x] \in {"none", "gone"}

Started(h) ==
  \E j \in Jobs, step \in Steps, U \in SUBSET Things :
    Begin(h, j, step, U) /\ Fit(step, j, U) /\ StartsRight(step, j)

LEMMA CreatingStep ==
  ASSUME Inv, NEW h \in Handlers, NEW x \in Halls, NEW m \in Movies, NEW C \in SUBSET Int,
         StartCreating(h, x, m, C)
  PROVE  Started(h)
  <1> DEFINE j == [NoJob EXCEPT !.op = "create", !.on = HallOf(x), !.movie = m, !.left = C]
  <1>1. HallOf(x) \in Things
    BY AreThings
  <1>2. j \in Jobs /\ j.op = "create" /\ j.on = HallOf(x) /\ j.movie = m
    BY <1>1, NoJobFields DEF Jobs, Ops
  <1>3. Fit("look", j, {HallOf(x)})
    BY <1>2 DEF Fit, FitCreate
  <1>4. \A s \in Showtimes : j.on \notin {RowOf(s), SeatsOf(s)}
    BY <1>2, ThingsApart
  <1>5. "look" \in Steps /\ {HallOf(x)} \in SUBSET Things /\ Begin(h, j, "look", {HallOf(x)})
    BY <1>1 DEF StartCreating, Steps
  <1> HIDE DEF j
  <1> QED
    BY <1>2, <1>3, <1>4, <1>5 DEF Started, StartsRight

LEMMA StartUpdateStep ==
  ASSUME Inv, NEW h \in Handlers, NEW s \in Showtimes, NEW r \in Changes, StartUpdate(h, s, r)
  PROVE  Started(h)
  <1> DEFINE j == [NoJob EXCEPT !.op = "update", !.on = RowOf(s), !.change = r,
                                !.row = show[s]]
             U == {RowOf(s), SeatsOf(s)} \cup
                    (IF Moves(r) THEN {HallOf(Or(r.hall, show[s].hall))} ELSE {})
  <1>1. r \in AllChanges
    BY SchedulingAssumption DEF AllChanges
  <1>2. show[s] \in Rows /\ s \in used
    BY NoRowIsNone DEF StartUpdate, Inv, TableOK, Exists
  <1>3. Or(r.hall, show[s].hall) \in Halls
    BY <1>1, <1>2 DEF Or, AllChanges, Rows
  <1>4. U \in SUBSET Things /\ RowOf(s) \in Things
    BY <1>3, AreThings
  <1>5. /\ j \in Jobs /\ j.op = "update" /\ j.on = RowOf(s) /\ j.change = r /\ j.row = show[s]
    BY <1>1, <1>2, <1>4, NoJobFields DEF Jobs, Ops
  <1>6. FitUpdate("count", j, U)
    BY <1>2, <1>5 DEF FitUpdate, NewHall
  <1>7. \A t \in Showtimes : j.on \in {RowOf(t), SeatsOf(t)} => t \in used
    BY <1>2, <1>5, ThingsApart
  <1>8. "count" \in Steps /\ Begin(h, j, "count", U) /\ Fit("count", j, U)
    BY <1>6 DEF StartUpdate, Steps, Fit
  <1> HIDE DEF j, U
  <1>9. \A t \in Showtimes : j.on = RowOf(t) => j.row = show[t]
    BY <1>5, ThingsApart
  <1>10. StartsRight("count", j)
    BY <1>5, <1>7, <1>9 DEF StartsRight
  <1> QED
    BY <1>4, <1>5, <1>8, <1>10 DEF Started

LEMMA StartCancelStep ==
  ASSUME Inv, NEW h \in Handlers, NEW s \in Showtimes, StartCancel(h, s)
  PROVE  Started(h)
  <1> DEFINE j == [NoJob EXCEPT !.op = "cancel", !.on = RowOf(s)]
             U == {RowOf(s), SeatsOf(s)}
  <1>1. s \in used
    BY DEF StartCancel, Inv, TableOK
  <1>2. U \in SUBSET Things /\ RowOf(s) \in Things
    BY AreThings
  <1>3. j \in Jobs /\ j.op = "cancel" /\ j.on = RowOf(s)
    BY <1>2, NoJobFields DEF Jobs, Ops
  <1>4. FitCancel("count", j, U)
    BY <1>3 DEF FitCancel
  <1>5. \A t \in Showtimes : j.on \in {RowOf(t), SeatsOf(t)} => t \in used
    BY <1>1, <1>3, ThingsApart
  <1>6. "count" \in Steps /\ Begin(h, j, "count", U) /\ Fit("count", j, U)
    BY <1>4 DEF StartCancel, Steps, Fit
  <1> HIDE DEF j, U
  <1> QED
    BY <1>2, <1>3, <1>5, <1>6 DEF Started, StartsRight

LEMMA StartHallStep ==
  ASSUME Inv, NEW h \in Handlers, NEW x \in Halls, StartCreateHall(h, x) \/ StartDeleteHall(h, x)
  PROVE  Started(h)
  <1>1. HallOf(x) \in Things /\ Cinema \in Things
    BY AreThings
  <1>2. PICK op \in {"createHall", "deleteHall"} :
          Begin(h, [NoJob EXCEPT !.op = op, !.on = HallOf(x)],
                IF op = "createHall" THEN "insertHall" ELSE "dropHall",
                IF op = "createHall" THEN {Cinema} ELSE {HallOf(x)})
          /\ (op = "deleteHall" => StartDeleteHall(h, x))
    BY DEF StartCreateHall, StartDeleteHall
  <1> DEFINE j == [NoJob EXCEPT !.op = op, !.on = HallOf(x)]
             step == IF op = "createHall" THEN "insertHall" ELSE "dropHall"
             U == IF op = "createHall" THEN {Cinema} ELSE {HallOf(x)}
  <1>3. j \in Jobs /\ j.op = op /\ j.on = HallOf(x)
    BY <1>1, NoJobFields DEF Jobs, Ops
  <1>4. Fit(step, j, U)
    BY <1>3 DEF Fit, FitHall
  <1>5. \A s \in Showtimes : j.on \notin {RowOf(s), SeatsOf(s)}
    BY <1>3, ThingsApart
  <1>6. step \in Steps /\ U \in SUBSET Things /\ Begin(h, j, step, U)
    BY <1>1, <1>2 DEF Steps
  <1>7. step = "dropHall" => \A s \in Showtimes : Exists(s) => j.on # HallOf(show[s].hall)
    <2>1. ASSUME op = "deleteHall", NEW s \in Showtimes, Exists(s), j.on = HallOf(show[s].hall)
          PROVE  FALSE
      <3>1. show[s].hall \in Halls
        BY <2>1, NoRowIsNone DEF Inv, TableOK, Exists, Rows
      <3>2. StartDeleteHall(h, x)
        BY <1>2, <2>1
      <3> QED
        BY <1>3, <2>1, <3>1, <3>2, ThingsApart DEF StartDeleteHall
    <2> QED
      BY <2>1
  <1> HIDE DEF j, U, step
  <1>8. StartsRight(step, j)
    BY <1>2, <1>3, <1>5, <1>7 DEF StartsRight, step
  <1> QED
    BY <1>3, <1>4, <1>6, <1>8 DEF Started

LEMMA StartDeleteCinemaStep ==
  ASSUME Inv, NEW h \in Handlers, StartDeleteCinema(h)
  PROVE  Started(h)
  <1> DEFINE j == [NoJob EXCEPT !.op = "deleteCinema"]
  <1>1. j \in Jobs /\ j.op = "deleteCinema" /\ j.on = Cinema
    BY NoJobFields DEF Jobs, Ops
  <1>2. Fit("dropCinema", j, {Cinema})
    BY <1>1 DEF Fit, FitCinema
  <1>3. \A s \in Showtimes : j.on \notin {RowOf(s), SeatsOf(s)}
    BY <1>1, ThingsApart
  <1>4. "dropCinema" \in Steps /\ {Cinema} \in SUBSET Things
        /\ Begin(h, j, "dropCinema", {Cinema})
    BY AreThings DEF StartDeleteCinema, Steps
  <1> HIDE DEF j
  <1>5. \A x \in Halls : hall[x] \in {"none", "gone"}
    BY DEF StartDeleteCinema
  <1>6. StartsRight("dropCinema", j)
    BY <1>1, <1>3, <1>5 DEF StartsRight
  <1> QED
    BY <1>1, <1>2, <1>4, <1>6 DEF Started

LEMMA RequestStarted ==
  ASSUME Inv, NEW h \in Handlers, Request(h)
  PROVE  Started(h)
  <1>1. ASSUME NEW x \in Halls, NEW m \in Movies, NEW start \in Times,
               CreateShowtime(h, x, m, start)
        PROVE  Started(h)
    <2>1. {start} \in SUBSET Int
      BY Numbers
    <2> QED
      BY <1>1, <2>1, CreatingStep DEF CreateShowtime
  <1>2. ASSUME NEW x \in Halls, NEW m \in Movies, NEW first \in 0 .. (Days - 1),
               NEW last \in 0 .. (Days - 1), NEW slots \in SUBSET (0 .. (DayLength - 1)),
               NEW days \in SUBSET (first .. last),
               BatchCreateShowtimes(h, x, m, first, last, days, slots)
        PROVE  Started(h)
    <2> DEFINE C == {d * DayLength + t : d \in days, t \in slots}
    <2>1. DayLength \in Nat /\ Days \in Nat
      BY SchedulingAssumption
    <2>2. \A d \in days, t \in slots : d * DayLength + t \in Int
      BY <2>1
    <2>3. C \in SUBSET Int
      BY <2>2
    <2>4. StartCreating(h, x, m, C)
      BY <1>2 DEF BatchCreateShowtimes
    <2> HIDE DEF C
    <2> QED
      BY <2>3, <2>4, CreatingStep
  <1> QED
    BY <1>1, <1>2, StartUpdateStep, StartCancelStep, StartHallStep, StartDeleteCinemaStep
       DEF Request

LEMMA RequestStep ==
  ASSUME Inv, NEW h \in Handlers, Request(h)
  PROVE  Inv'
  <1>1. PICK j \in Jobs, step \in Steps, U \in SUBSET Things :
          Begin(h, j, step, U) /\ Fit(step, j, U) /\ StartsRight(step, j)
    BY RequestStarted DEF Started
  <1> QED
    BY <1>1, BeginStep DEF StartsRight

-----------------------------------------------------------------------------
(* The steps of the operations.                                            *)

\* Steps that only decide what comes next.
LEMMA DecideInv ==
  ASSUME Inv, UNCHANGED <<timetable, seating, stretched, raced, requests>>, ControlOK', OnUsed'
  PROVE  Inv'
  <1>1. TableOK' /\ RowsFit'
    BY TableStays DEF Inv
  <1>2. SeatOK'
    BY SeatStays DEF Inv, timetable
  <1>3. RestOK'
    BY SameRest DEF Inv, RestOK
  <1> QED
    BY <1>1, <1>2, <1>3 DEF Inv

LEMMA RowIsRow ==
  ASSUME NEW x \in Halls, NEW m \in Movies, NEW t \in Times
  PROVE  /\ RowFits(Row(x, m, t, EndOf(t, m)))
         /\ Row(x, m, t, EndOf(t, m)).hall = x /\ Row(x, m, t, EndOf(t, m)).start = t
         /\ Row(x, m, t, EndOf(t, m)).end = EndOf(t, m)
  <1>1. t \in Nat /\ Runtime[m] \in Nat /\ Buffer \in Nat
    BY Numbers
  <1>2. EndOf(t, m) \in Nat /\ EndOf(t, m) >= t + Runtime[m]
    BY <1>1 DEF EndOf
  <1> QED
    BY <1>2 DEF Row, RowFits, Rows, Statuses

LEMMA CheckConflictStep ==
  ASSUME Inv, NEW h \in Handlers, NEW c \in Times, CheckConflict(h, c)
  PROVE  Inv'
  <1> DEFINE rest == job[h].left \ {c}
             row == Row(job[h].on[2], job[h].movie, c, EndOf(c, job[h].movie))
             j1 == [job[h] EXCEPT !.left = rest]
             j2 == [job[h] EXCEPT !.left = rest, !.row = row]
  <1>0. /\ UNCHANGED <<timetable, seating, stretched, raced, requests>> /\ UNCHANGED used
        /\ pc[h] = "look" /\ ControlOK /\ OnUsed
    BY DEF CheckConflict, Finish, timetable, Inv
  <1>1. job[h] \in Jobs /\ rest \in SUBSET Int
    BY <1>0 DEF ControlOK, Jobs
  <1>2. PICK x \in Halls : job[h].on = HallOf(x) /\ uses[h] = {HallOf(x)}
    BY <1>0, AtStep DEF FitCreate
  <1>3. job[h].on[2] = x /\ job[h].movie \in Movies /\ job[h].op = "create"
    BY <1>0, <1>2, AtStep, ThingsApart DEF FitCreate
  <1>4. RowFits(row) /\ row.hall = x
    BY <1>3, RowIsRow
  <1> HIDE DEF rest, row
  <1>5. /\ j1 \in Jobs /\ j1.on = job[h].on /\ j1.movie = job[h].movie /\ j1.op = job[h].op
    BY <1>1 DEF Jobs
  <1>6. /\ j2 \in Jobs /\ j2.on = job[h].on /\ j2.movie = job[h].movie /\ j2.op = job[h].op
        /\ j2.row = row
    BY <1>1, <1>4 DEF Jobs, RowFits
  <1>7. Fit("look", j1, uses[h])
    BY <1>2, <1>3, <1>5 DEF Fit, FitCreate
  <1>8. Fit("insert", j2, uses[h])
    BY <1>2, <1>3, <1>4, <1>6 DEF Fit, FitCreate
  <1>9. \/ Finish(h)
        \/ /\ job' = [job EXCEPT ![h].left = rest]
           /\ UNCHANGED <<pc, uses>>
        \/ /\ job' = [job EXCEPT ![h].left = rest, ![h].row = row]
           /\ pc' = [pc EXCEPT ![h] = "insert"] /\ UNCHANGED uses
    BY DEF CheckConflict, rest, row
  <1>10. CASE Finish(h)
    BY <1>0, <1>10, FinishStep, DecideInv
  <1>11. CASE job' = [job EXCEPT ![h].left = rest] /\ UNCHANGED <<pc, uses>>
    <2>1. job' = [job EXCEPT ![h] = j1] /\ pc' = [pc EXCEPT ![h] = "look"]
      BY <1>0, <1>11 DEF ControlOK
    <2> HIDE DEF j1
    <2>2. ControlOK' /\ OnUsed'
      BY <1>0, <1>5, <1>7, <1>11, <2>1, GoOnStep DEF Steps
    <2> QED
      BY <1>0, <2>2, DecideInv
  <1>12. CASE /\ job' = [job EXCEPT ![h].left = rest, ![h].row = row]
              /\ pc' = [pc EXCEPT ![h] = "insert"] /\ UNCHANGED uses
    <2>1. job' = [job EXCEPT ![h] = j2]
      BY <1>0, <1>12 DEF ControlOK
    <2> HIDE DEF j2
    <2>2. ControlOK' /\ OnUsed'
      BY <1>0, <1>6, <1>8, <1>12, <2>1, GoOnStep DEF Steps
    <2> QED
      BY <1>0, <2>2, DecideInv
  <1> QED
    BY <1>9, <1>10, <1>11, <1>12

LEMMA CountStep ==
  ASSUME Inv, NEW h \in Handlers, CountReservations(h)
  PROVE  Inv'
  <1> DEFINE sold == reserved[job[h].on[2]] # {}
             j == [job[h] EXCEPT !.sold = sold]
  <1>0. /\ UNCHANGED <<timetable, seating, stretched, raced, requests>> /\ UNCHANGED used
        /\ pc[h] = "count" /\ ControlOK /\ OnUsed /\ job[h] \in Jobs
    BY DEF CountReservations, Finish, Goto, timetable, Inv, ControlOK
  <1>1. CASE job[h].op = "cancel"
    <2>1. j \in Jobs /\ j.on = job[h].on /\ j.op = job[h].op
      BY <1>0 DEF Jobs
    <2>2. Fit("holds", j, uses[h])
      BY <1>0, <1>1, <2>1, AtStep DEF Fit, FitCancel
    <2>3. /\ job' = [job EXCEPT ![h].sold = sold]
          /\ pc' = [pc EXCEPT ![h] = "holds"] /\ UNCHANGED uses
      BY <1>1 DEF CountReservations
    <2> HIDE DEF sold
    <2>4. job' = [job EXCEPT ![h] = j]
      BY <1>0, <2>3 DEF ControlOK
    <2> HIDE DEF j
    <2>5. ControlOK' /\ OnUsed'
      BY <1>0, <2>1, <2>2, <2>3, <2>4, GoOnStep DEF Steps
    <2> QED
      BY <1>0, <2>5, DecideInv
  <1>2. CASE job[h].op # "cancel"
    <2>1. job[h].op = "update" /\ FitUpdate(pc[h], job[h], uses[h])
      BY <1>0, <1>2, AtStep
    <2>2. \/ Finish(h)
          \/ ~Moves(job[h].change) /\ Goto(h, "write")
          \/ Moves(job[h].change) /\ Goto(h, "move")
      BY <1>2 DEF CountReservations
    <2>3. Fit("write", job[h], uses[h]) /\ (Moves(job[h].change) => Fit("move", job[h], uses[h]))
      BY <2>1 DEF Fit, FitUpdate
    <2>4. ControlOK' /\ OnUsed'
      BY <1>0, <2>2, <2>3, FinishStep, GotoStep DEF Steps
    <2> QED
      BY <1>0, <2>4, DecideInv
  <1> QED
    BY <1>1, <1>2

LEMMA CheckStep ==
  ASSUME Inv, NEW h \in Handlers, CheckMove(h) \/ CheckHolds(h)
  PROVE  Inv'
  <1>0. /\ UNCHANGED <<timetable, seating, stretched, raced, requests>> /\ UNCHANGED used
        /\ pc[h] \in {"move", "holds"} /\ ControlOK /\ OnUsed
        /\ \/ Finish(h)
           \/ pc[h] = "move" /\ Goto(h, "write")
           \/ pc[h] = "holds" /\ (Goto(h, "mark") \/ Goto(h, "delete"))
    BY DEF CheckMove, CheckHolds, Finish, Goto, timetable, Inv
  <1>1. pc[h] = "move" => Fit("write", job[h], uses[h])
    BY <1>0, AtStep DEF Fit, FitUpdate
  <1>2. pc[h] = "holds" => Fit("mark", job[h], uses[h]) /\ Fit("delete", job[h], uses[h])
    BY <1>0, AtStep DEF Fit, FitCancel
  <1>3. ControlOK' /\ OnUsed'
    BY <1>0, <1>1, <1>2, FinishStep, GotoStep DEF Steps
  <1> QED
    BY <1>0, <1>3, DecideInv

LEMMA InsertStep ==
  ASSUME Inv, NEW h \in Handlers, NEW s \in Showtimes, InsertShowtime(h, s)
  PROVE  Inv'
  <1> DEFINE row == job[h].row
  <1>0. TableOK /\ SeatOK /\ RestOK /\ ControlOK /\ OnUsed /\ RowsFit
    BY DEF Inv
  <1>1. /\ pc[h] = "insert" /\ s \notin used
        /\ UNCHANGED <<cinema, hall, seating, stretched, raced, requests>>
    BY DEF InsertShowtime, Finish, Goto
  <1>2. FitCreate(pc[h], job[h], uses[h]) /\ RowFits(row)
    BY <1>0, <1>1, AtStep DEF FitCreate
  <1>3. RestOK'
    BY <1>0, <1>1, SameRest DEF RestOK
  <1>4. CASE hall[row.hall] \in {"none", "gone"}
    <2>1. Finish(h) /\ UNCHANGED <<show, used>>
      BY <1>4 DEF InsertShowtime
    <2>2. ControlOK' /\ OnUsed'
      BY <1>0, <2>1, FinishStep
    <2> QED
      BY <1>1, <2>1, <2>2, DecideInv DEF timetable
  <1>5. CASE hall[row.hall] \notin {"none", "gone"}
    <2>1. /\ show' = [show EXCEPT ![s] = row] /\ used' = used \cup {s}
          /\ Finish(h) \/ Goto(h, "look")
      BY <1>5 DEF InsertShowtime
    <2>2. row.hall \in Halls /\ hall[row.hall] \in {"ACTIVE", "INACTIVE"} /\ row.hall # NoHall
      BY <1>0, <1>2, <1>5, NoRowIsNone DEF RowFits, Rows, TableOK
    <2>3. \A t \in Showtimes : show'[t] = IF t = s THEN row ELSE show[t]
      BY <1>0, <2>1 DEF TableOK
    <2>4. show' \in [Showtimes -> Rows \cup {NoRow}]
      BY <1>0, <1>2, <2>1 DEF TableOK, RowFits
    <2>5. TableOK'
      BY <1>0, <1>1, <2>1, <2>2, <2>3, <2>4 DEF TableOK, Exists
    <2>6. RowsFit'
      BY <1>0, <1>2, <2>3 DEF RowsFit, Exists
    <2>7. SeatOK'
      BY <1>0, <1>1, <2>2, <2>3 DEF SeatOK, seating, Exists
    <2>8. Fit("look", job[h], uses[h])
      BY <1>2 DEF Fit, FitCreate
    <2>9. ControlOK' /\ OnUsed'
      BY <1>0, <2>1, <2>8, FinishStep, GotoStep DEF Steps
    <2> QED
      BY <1>3, <2>5, <2>6, <2>7, <2>9 DEF Inv
  <1> QED
    BY <1>4, <1>5

\* The row that an update writes.
LEMMA UpdatedRow ==
  ASSUME ControlOK, NEW h \in Handlers, FitUpdate(pc[h], job[h], uses[h])
  PROVE  /\ RowFits(Updated(h)) /\ Updated(h).hall = NewHall(job[h]) /\ Updated(h).hall \in Halls
         /\ Updated(h).start = Or(job[h].change.start, job[h].row.start)
         /\ Updated(h).movie = Or(job[h].change.movie, job[h].row.movie)
         /\ Updated(h).end = Updated(h).start + Runtime[Updated(h).movie]
  <1> DEFINE old == job[h].row
             r == job[h].change
             m == Or(r.movie, old.movie)
             t == Or(r.start, old.start)
             x == Or(r.hall, old.hall)
             st == Or(r.status, old.status)
  <1>1. r \in AllChanges /\ old \in Rows
    BY DEF FitUpdate, ControlOK, Jobs
  <1>2. m \in Movies /\ t \in Times /\ x \in Halls /\ st \in Statuses
    BY <1>1 DEF AllChanges, Rows, Or
  <1>3. t \in Nat /\ Runtime[m] \in Nat
    BY <1>2, Numbers
  <1>4. Updated(h) = [hall |-> x, movie |-> m, start |-> t, end |-> t + Runtime[m],
                      status |-> st]
    BY DEF Updated
  <1>5. x = NewHall(job[h])
    BY DEF NewHall
  <1> HIDE DEF m, t, x, st
  <1>6. RowFits(Updated(h))
    BY <1>2, <1>3, <1>4 DEF RowFits, Rows
  <1>7. /\ Updated(h).hall = x /\ Updated(h).movie = m /\ Updated(h).start = t
        /\ Updated(h).end = t + Runtime[m]
    BY <1>4
  <1> QED
    BY <1>2, <1>5, <1>6, <1>7 DEF m, t

\* A row is replaced by one that fits, of a hall that is there.
LEMMA ReplaceRow ==
  ASSUME TableOK, SeatOK, RowsFit, NEW s \in Showtimes, NEW row, Exists(s), RowFits(row),
         hall[row.hall] \in {"ACTIVE", "INACTIVE"}, show' = [show EXCEPT ![s] = row],
         UNCHANGED <<cinema, hall, used, seating>>
  PROVE  TableOK' /\ SeatOK' /\ RowsFit'
  <1>1. \A t \in Showtimes : show'[t] = IF t = s THEN row ELSE show[t]
    BY DEF TableOK
  <1>2. show' \in [Showtimes -> Rows \cup {NoRow}]
    BY DEF TableOK, RowFits
  <1>3. row.hall # NoHall
    BY NoRowIsNone DEF RowFits
  <1>4. TableOK'
    BY <1>1, <1>2, <1>3 DEF TableOK, Exists
  <1>5. RowsFit'
    BY <1>1 DEF RowsFit, Exists
  <1>6. SeatOK'
    BY <1>1, <1>3 DEF SeatOK, seating, Exists
  <1> QED
    BY <1>4, <1>5, <1>6

LEMMA WriteStep ==
  ASSUME Inv, NEW h \in Handlers, WriteShowtime(h)
  PROVE  Inv'
  <1>0. TableOK /\ SeatOK /\ RestOK /\ ControlOK /\ OnUsed /\ RowsFit
    BY DEF Inv
  <1>1. /\ pc[h] = "write" /\ Finish(h)
        /\ UNCHANGED <<cinema, hall, used, seating, raced, requests>>
    BY DEF WriteShowtime, Finish
  <1>2. FitUpdate(pc[h], job[h], uses[h])
    BY <1>0, <1>1, AtStep
  <1>3. PICK s \in Showtimes : job[h].on = RowOf(s)
    BY <1>2 DEF FitUpdate
  <1>4. job[h].on[2] = s
    BY <1>3, ThingsApart
  <1>5. RowFits(Updated(h)) /\ Updated(h).hall \in Halls
    BY <1>0, <1>2, UpdatedRow
  <1>6. ControlOK' /\ OnUsed'
    BY <1>0, <1>1, FinishStep
  <1>7. stretched' \subseteq Showtimes
    BY <1>0, <1>4 DEF WriteShowtime, RestOK
  <1>8. RestOK'
    BY <1>0, <1>1, <1>7, SameRest
  <1>9. CASE Exists(s) /\ hall[Updated(h).hall] \notin {"none", "gone"}
    <2>1. show' = [show EXCEPT ![s] = Updated(h)]
      BY <1>4, <1>9 DEF WriteShowtime
    <2>2. hall[Updated(h).hall] \in {"ACTIVE", "INACTIVE"}
      BY <1>0, <1>5, <1>9 DEF TableOK
    <2>3. TableOK' /\ SeatOK' /\ RowsFit'
      BY <1>0, <1>1, <1>5, <1>9, <2>1, <2>2, ReplaceRow
    <2> QED
      BY <1>6, <1>8, <2>3 DEF Inv
  <1>10. CASE ~(Exists(s) /\ hall[Updated(h).hall] \notin {"none", "gone"})
    <2>1. UNCHANGED show
      BY <1>4, <1>10 DEF WriteShowtime
    <2>2. TableOK' /\ RowsFit'
      BY <1>0, <1>1, <2>1, TableStays DEF timetable
    <2>3. SeatOK'
      BY <1>0, <1>1, <2>1, SeatStays
    <2> QED
      BY <1>6, <1>8, <2>2, <2>3 DEF Inv
  <1> QED
    BY <1>9, <1>10

LEMMA MarkStep ==
  ASSUME Inv, NEW h \in Handlers, MarkCancelled(h)
  PROVE  Inv'
  <1>0. TableOK /\ SeatOK /\ RestOK /\ ControlOK /\ OnUsed /\ RowsFit
    BY DEF Inv
  <1>1. /\ pc[h] = "mark" /\ Finish(h)
        /\ UNCHANGED <<cinema, hall, used, seating, stretched, raced, requests>>
    BY DEF MarkCancelled, Finish
  <1>2. PICK s \in Showtimes : job[h].on = RowOf(s)
    BY <1>0, <1>1, AtStep DEF FitCancel
  <1>3. job[h].on[2] = s
    BY <1>2, ThingsApart
  <1>4. ControlOK' /\ OnUsed'
    BY <1>0, <1>1, FinishStep
  <1>5. CASE Exists(s)
    <2> DEFINE row == [show[s] EXCEPT !.status = "CANCELLED"]
    <2>1. show[s] \in Rows /\ RowFits(show[s])
      BY <1>0, <1>5, NoRowIsNone DEF TableOK, RowsFit, Exists
    <2>2. /\ row \in Rows /\ row.hall = show[s].hall /\ row.end = show[s].end
          /\ row.start = show[s].start /\ row.movie = show[s].movie
      BY <2>1 DEF Rows, Statuses
    <2>3. RowFits(row)
      BY <2>1, <2>2 DEF RowFits
    <2>4. hall[row.hall] \in {"ACTIVE", "INACTIVE"}
      BY <1>0, <1>5, <2>2 DEF TableOK
    <2>5. show' = [show EXCEPT ![s] = row]
      BY <1>0, <1>3, <1>5 DEF MarkCancelled, TableOK
    <2> HIDE DEF row
    <2>6. TableOK' /\ SeatOK' /\ RowsFit'
      BY <1>0, <1>1, <1>5, <2>3, <2>4, <2>5, ReplaceRow
    <2>7. RestOK'
      BY <1>0, <1>1, SameRest DEF RestOK
    <2> QED
      BY <1>4, <2>6, <2>7 DEF Inv
  <1>6. CASE ~Exists(s)
    <2>1. UNCHANGED show
      BY <1>3, <1>6 DEF MarkCancelled
    <2> QED
      BY <1>1, <1>4, <2>1, DecideInv DEF timetable
  <1> QED
    BY <1>5, <1>6

\* Rows are deleted, and those of halls that are gone afterwards with them.
LEMMA DropRows ==
  ASSUME TableOK, SeatOK, RowsFit, NEW S \in SUBSET Showtimes, DropShowtimes(S),
         cinema' \in {"ACTIVE", "INACTIVE", "gone"},
         hall' \in [Halls -> {"none", "ACTIVE", "INACTIVE", "gone"}],
         cinema' = "gone" => \A x \in Halls : hall'[x] \in {"none", "gone"},
         \A s \in Showtimes \ S : Exists(s) => hall'[show[s].hall] \in {"ACTIVE", "INACTIVE"}
  PROVE  TableOK' /\ SeatOK' /\ RowsFit'
  <1>1. /\ show' = [s \in Showtimes |-> IF s \in S THEN NoRow ELSE show[s]]
        /\ reserved' = [s \in Showtimes |-> IF s \in S THEN {} ELSE reserved[s]]
        /\ UNCHANGED <<used, held>>
    BY DEF DropShowtimes
  <1>2. \A s \in Showtimes : Exists(s)' <=> Exists(s) /\ s \notin S
    BY <1>1, NoRowIsNone DEF Exists
  <1>3. TableOK'
    BY <1>1, <1>2 DEF TableOK
  <1>4. SeatOK'
    BY <1>1, <1>2 DEF SeatOK
  <1>5. RowsFit'
    BY <1>1, <1>2 DEF RowsFit
  <1> QED
    BY <1>3, <1>4, <1>5

LEMMA DropStep ==
  ASSUME Inv, NEW h \in Handlers, DeleteShowtime(h) \/ DropHall(h) \/ DropCinema(h)
  PROVE  Inv'
  <1>0. TableOK /\ SeatOK /\ RestOK /\ ControlOK /\ OnUsed /\ RowsFit
    BY DEF Inv
  <1>1. Finish(h) /\ UNCHANGED <<stretched, raced, requests>> /\ UNCHANGED used
    BY DEF DeleteShowtime, DropHall, DropCinema, Finish, DropShowtimes, timetable
  <1>2. ControlOK' /\ OnUsed' /\ RestOK'
    BY <1>0, <1>1, FinishStep, SameRest DEF RestOK
  <1>3. CASE DeleteShowtime(h)
    <2>1. PICK s \in Showtimes : job[h].on = RowOf(s)
      BY <1>0, <1>3, AtStep DEF FitCancel, DeleteShowtime
    <2>b. job[h].on[2] = s
      BY <2>1, ThingsApart
    <2>2. DropShowtimes({s}) /\ UNCHANGED <<cinema, hall>>
      BY <1>3, <2>b DEF DeleteShowtime
    <2>3. TableOK' /\ SeatOK' /\ RowsFit'
      BY <1>0, <2>2, DropRows DEF TableOK
    <2> QED
      BY <1>2, <2>3 DEF Inv
  <1>4. CASE DropHall(h)
    <2>1. PICK x \in Halls : job[h].on = HallOf(x)
      BY <1>0, <1>4, AtStep DEF FitHall, DropHall
    <2>2. job[h].on[2] = x
      BY <2>1, ThingsApart
    <2>3. CASE hall[x] = "gone"
      <3>1. UNCHANGED <<timetable, seating>>
        BY <1>4, <2>2, <2>3 DEF DropHall
      <3> QED
        BY <1>1, <1>2, <3>1, DecideInv
    <2>4. CASE hall[x] # "gone"
      <3> DEFINE S == {s \in Showtimes : show[s].hall = x}
      <3>1. hall' = [hall EXCEPT ![x] = "gone"] /\ DropShowtimes(S) /\ UNCHANGED cinema
        BY <1>4, <2>2, <2>4 DEF DropHall
      <3>2. \A s \in Showtimes \ S : Exists(s) => hall'[show[s].hall] \in {"ACTIVE", "INACTIVE"}
        BY <1>0, <3>1, NoRowIsNone DEF TableOK, Exists, Rows
      <3>3. /\ hall' \in [Halls -> {"none", "ACTIVE", "INACTIVE", "gone"}]
            /\ cinema' = "gone" => \A y \in Halls : hall'[y] \in {"none", "gone"}
        BY <1>0, <3>1 DEF TableOK
      <3>4. cinema' \in {"ACTIVE", "INACTIVE", "gone"} /\ S \in SUBSET Showtimes
        BY <1>0, <3>1 DEF TableOK
      <3> HIDE DEF S
      <3>5. TableOK' /\ SeatOK' /\ RowsFit'
        BY <1>0, <3>1, <3>2, <3>3, <3>4, DropRows
      <3> QED
        BY <1>2, <3>5 DEF Inv
    <2> QED
      BY <2>3, <2>4
  <1>5. CASE DropCinema(h)
    <2>1. /\ cinema' = "gone" /\ DropShowtimes(Showtimes)
          /\ hall' = [x \in Halls |-> IF hall[x] = "none" THEN "none" ELSE "gone"]
      BY <1>5 DEF DropCinema
    <2>2. /\ hall' \in [Halls -> {"none", "ACTIVE", "INACTIVE", "gone"}]
          /\ \A x \in Halls : hall'[x] \in {"none", "gone"}
      BY <2>1
    <2>3. TableOK' /\ SeatOK' /\ RowsFit'
      BY <1>0, <2>1, <2>2, DropRows
    <2> QED
      BY <1>2, <2>3 DEF Inv
  <1> QED
    BY <1>3, <1>4, <1>5

LEMMA InsertHallStep ==
  ASSUME Inv, NEW h \in Handlers, InsertHall(h)
  PROVE  Inv'
  <1>0. TableOK /\ SeatOK /\ RestOK /\ ControlOK /\ OnUsed /\ RowsFit
    BY DEF Inv
  <1>1. /\ pc[h] = "insertHall" /\ Finish(h)
        /\ UNCHANGED <<cinema, show, used, seating, stretched, raced, requests>>
    BY DEF InsertHall, Finish
  <1>2. PICK x \in Halls : job[h].on = HallOf(x)
    BY <1>0, <1>1, AtStep DEF FitHall
  <1>b. job[h].on[2] = x
    BY <1>2, ThingsApart
  <1>3. hall' = IF cinema = "gone" \/ hall[x] # "none" THEN hall ELSE [hall EXCEPT ![x] = "ACTIVE"]
    BY <1>b DEF InsertHall
  <1>4. TableOK' /\ RowsFit'
    <2>1. hall' \in [Halls -> {"none", "ACTIVE", "INACTIVE", "gone"}]
      BY <1>0, <1>3 DEF TableOK
    <2>2. \A y \in Halls : hall[y] \in {"ACTIVE", "INACTIVE"} => hall'[y] = hall[y]
      BY <1>0, <1>3 DEF TableOK
    <2>3. cinema = "gone" => hall' = hall
      BY <1>3
    <2>4. \A s \in Showtimes : Exists(s) => show[s].hall \in Halls
      BY <1>0, NoRowIsNone DEF TableOK, Exists, Rows
    <2>5. TableOK'
      BY <1>0, <1>1, <2>1, <2>2, <2>3, <2>4 DEF TableOK, Exists
    <2>6. RowsFit'
      BY <1>0, <1>1 DEF RowsFit, Exists
    <2> QED
      BY <2>5, <2>6
  <1>5. SeatOK' /\ RestOK'
    BY <1>0, <1>1, SeatStays, SameRest DEF RestOK
  <1>6. ControlOK' /\ OnUsed'
    BY <1>0, <1>1, FinishStep
  <1> QED
    BY <1>4, <1>5, <1>6 DEF Inv

LEMMA ReserveStep ==
  ASSUME Inv, NEW h \in Handlers, CreateSeatReservation(h)
  PROVE  Inv'
  <1>0. TableOK /\ SeatOK /\ RestOK /\ ControlOK /\ OnUsed /\ RowsFit
    BY DEF Inv
  <1>a. pc[h] = "reserve" /\ Finish(h) /\ UNCHANGED <<timetable, held, stretched>>
    BY DEF CreateSeatReservation
  <1>1. /\ pc[h] = "reserve" /\ Finish(h) /\ UNCHANGED <<timetable, held, stretched>>
        /\ UNCHANGED <<raced, requests>> /\ UNCHANGED <<show, used>>
    BY <1>a DEF Finish, timetable
  <1>2. PICK s \in Showtimes : job[h].on = SeatsOf(s)
    BY <1>0, <1>1, AtStep DEF FitSale
  <1>3. job[h].seat \in Seats
    BY <1>0, <1>1, AtStep DEF FitSale
  <1>b. job[h].on[2] = s
    BY <1>2, ThingsApart
  <1>4. reserved' = IF Exists(s) THEN [reserved EXCEPT ![s] = @ \cup {job[h].seat}] ELSE reserved
    BY <1>b DEF CreateSeatReservation
  <1>5. SeatOK'
    BY <1>0, <1>1, <1>3, <1>4 DEF SeatOK, Exists
  <1>6. TableOK' /\ RowsFit' /\ RestOK'
    BY <1>0, <1>1, TableStays, SameRest DEF RestOK
  <1>7. ControlOK' /\ OnUsed'
    BY <1>0, <1>1, FinishStep
  <1> QED
    BY <1>5, <1>6, <1>7 DEF Inv

LEMMA ProceedStep ==
  ASSUME Inv, NEW h \in Handlers, Proceed(h) \/ Abort(h)
  PROVE  Inv'
  <1>1. CASE Abort(h)
    <2>1. Finish(h) /\ UNCHANGED <<timetable, seating, stretched, raced, requests>>
          /\ UNCHANGED used
      BY <1>1 DEF Abort, Finish, timetable
    <2>2. ControlOK' /\ OnUsed'
      BY <2>1, FinishStep DEF Inv
    <2> QED
      BY <2>1, <2>2, DecideInv
  <1> QED
    BY <1>1, CheckConflictStep, InsertStep, CountStep, CheckStep, WriteStep, MarkStep, DropStep,
       InsertHallStep, ReserveStep DEF Proceed

LEMMA StatusStep ==
  ASSUME Inv, SetCinemaStatus \/ \E x \in Halls : SetHallStatus(x)
  PROVE  Inv'
  <1>0. TableOK /\ SeatOK /\ RestOK /\ ControlOK /\ OnUsed /\ RowsFit
    BY DEF Inv
  <1>1. /\ UNCHANGED <<show, used, seating, pc, job, uses, raced, stretched>> /\ Count
    BY DEF SetCinemaStatus, SetHallStatus
  <1>2. \A s \in Showtimes : Exists(s) => show[s].hall \in Halls
    BY <1>0, NoRowIsNone DEF TableOK, Exists, Rows
  <1>3. CASE SetCinemaStatus
    <2>1. cinema' \in {"ACTIVE", "INACTIVE"} /\ UNCHANGED hall
      BY <1>3 DEF SetCinemaStatus
    <2>2. TableOK' /\ RowsFit'
      BY <1>0, <1>1, <2>1 DEF TableOK, RowsFit, Exists
    <2>3. SeatOK' /\ RestOK' /\ ControlOK' /\ OnUsed'
      BY <1>0, <1>1, StaysStep, SeatStays, CountRest DEF RestOK
    <2> QED
      BY <2>2, <2>3 DEF Inv
  <1>4. ASSUME NEW x \in Halls, SetHallStatus(x)
        PROVE  Inv'
    <2>1. PICK v \in {"ACTIVE", "INACTIVE"} : hall' = [hall EXCEPT ![x] = v]
      BY <1>4 DEF SetHallStatus
    <2>2. hall[x] \in {"ACTIVE", "INACTIVE"} /\ UNCHANGED cinema
      BY <1>4 DEF SetHallStatus
    <2>3. TableOK'
      BY <1>0, <1>1, <1>2, <2>1, <2>2 DEF TableOK, Exists
    <2>4. RowsFit'
      BY <1>0, <1>1 DEF RowsFit, Exists
    <2>5. SeatOK' /\ RestOK' /\ ControlOK' /\ OnUsed'
      BY <1>0, <1>1, StaysStep, SeatStays, CountRest DEF RestOK
    <2> QED
      BY <2>3, <2>4, <2>5 DEF Inv
  <1> QED
    BY <1>3, <1>4

LEMMA ConsumeStep ==
  ASSUME Inv, NEW h \in Handlers, NEW s \in Showtimes, NEW seat \in Seats, ConsumeHold(h, s, seat)
  PROVE  Inv'
  <1> DEFINE j == [NoJob EXCEPT !.op = "sale", !.on = SeatsOf(s), !.seat = seat]
  <1>0. TableOK /\ SeatOK /\ RestOK /\ ControlOK /\ OnUsed /\ RowsFit
    BY DEF Inv
  <1>1. /\ pc[h] = "idle" /\ s \in used /\ Count
        /\ held' = [held EXCEPT ![s] = @ \ {seat}]
        /\ pc' = [pc EXCEPT ![h] = "reserve"] /\ job' = [job EXCEPT ![h] = j]
        /\ raced' = raced \cup ({SeatsOf(s)} \cap Others(h))
        /\ UNCHANGED <<timetable, reserved, uses, stretched>> /\ UNCHANGED <<show, used>>
    BY DEF ConsumeHold, timetable
  <1>2. SeatsOf(s) \in Things
    BY AreThings
  <1>3. j \in Jobs /\ j.op = "sale" /\ j.on = SeatsOf(s) /\ j.seat = seat
    BY <1>2, NoJobFields DEF Jobs, Ops
  <1> HIDE DEF j
  <1>4. uses[h] = {} /\ uses' = [uses EXCEPT ![h] = {}]
    BY <1>0, <1>1, AtStep DEF ControlOK
  <1>5. Fit("reserve", j, {})
    BY <1>3 DEF Fit, FitSale
  <1>6. ControlOK'
    BY <1>0, <1>1, <1>3, <1>4, <1>5, ControlStep DEF Steps
  <1>7. \A t \in Showtimes : j.on \in {RowOf(t), SeatsOf(t)} => t \in used'
    BY <1>1, <1>3, ThingsApart
  <1>8. OnUsed'
    BY <1>0, <1>1, <1>3, <1>7, OnStep
  <1>9. SeatOK'
    BY <1>0, <1>1 DEF SeatOK, Exists
  <1>10. TableOK' /\ RowsFit'
    BY <1>0, <1>1, TableStays
  <1>11. raced' \subseteq Things
    BY <1>0, <1>1, <1>2 DEF RestOK
  <1>12. RestOK'
    BY <1>0, <1>1, <1>11, CountRest
  <1> QED
    BY <1>6, <1>8, <1>9, <1>10, <1>12 DEF Inv

LEMMA CustomerStep ==
  ASSUME Inv, Customer
  PROVE  Inv'
  <1>0. TableOK /\ SeatOK /\ RestOK /\ ControlOK /\ OnUsed /\ RowsFit
    BY DEF Inv
  <1>1. ASSUME NEW s \in Showtimes, NEW seat \in Seats, Hold(s, seat)
        PROVE  Inv'
    <2>1. /\ Count /\ UNCHANGED <<timetable, reserved, pc, job, uses, stretched>>
          /\ held' = [held EXCEPT ![s] = @ \cup {seat}]
          /\ raced' \subseteq raced \cup {SeatsOf(s)} /\ UNCHANGED <<show, used>>
      BY <1>1 DEF Hold, timetable
    <2>2. SeatOK'
      BY <1>0, <2>1 DEF SeatOK, Exists
    <2>3. raced' \subseteq Things
      BY <1>0, <2>1, AreThings DEF RestOK
    <2>4. RestOK'
      BY <1>0, <2>1, <2>3, CountRest
    <2> QED
      BY <1>0, <2>1, <2>2, <2>4, TableStays, StaysStep DEF Inv
  <1>2. ASSUME NEW s \in Showtimes, NEW seat \in Seats, Unhold(s, seat) \/ ReleaseSeat(s, seat)
        PROVE  Inv'
    <2>1. /\ UNCHANGED <<timetable, control, stretched>>
          /\ UNCHANGED <<show, used, pc, job, uses, raced, requests>>
          /\ \/ held' = [held EXCEPT ![s] = @ \ {seat}] /\ UNCHANGED reserved
             \/ reserved' = [reserved EXCEPT ![s] = @ \ {seat}] /\ UNCHANGED held
      BY <1>2 DEF Unhold, ReleaseSeat, timetable, control
    <2>2. SeatOK'
      BY <1>0, <2>1 DEF SeatOK, Exists
    <2> QED
      BY <1>0, <2>1, <2>2, TableStays, StaysStep, SameRest DEF Inv, RestOK
  <1> QED
    BY <1>1, <1>2, ConsumeStep DEF Customer

LEMMA StepInv ==
  ASSUME Inv, [Next]_vars
  PROVE  Inv'
  <1>1. CASE UNCHANGED vars
    <2>1. /\ UNCHANGED <<timetable, seating, stretched, raced, requests>>
          /\ UNCHANGED <<pc, job, uses>> /\ UNCHANGED used
      BY <1>1 DEF vars, control, timetable
    <2>2. ControlOK' /\ OnUsed'
      BY <2>1, StaysStep DEF Inv
    <2> QED
      BY <2>1, <2>2, DecideInv
  <1> QED
    BY <1>1, RequestStep, ProceedStep, StatusStep, CustomerStep DEF Next

LEMMA InitInv ==
  ASSUME Init
  PROVE  Inv
  <1>1. ControlOK
    <2>1. /\ pc = [h \in Handlers |-> "idle"] /\ job = [h \in Handlers |-> NoJob]
          /\ uses = [h \in Handlers |-> {}]
      BY DEF Init
    <2> QED
      BY <2>1, NoJobFields DEF ControlOK, Fit, Steps
  <1>2. OnUsed
    BY NoJobFields, ThingsApart DEF Init, OnUsed
  <1>3. ASSUME NEW s \in Showtimes
        PROVE  /\ show[s] = NoRow \/ RowFits(show[s])
               /\ Exists(s) => RowFits(show[s]) /\ hall[show[s].hall] = "ACTIVE"
    <2>1. show[s] \in {NoRow} \cup {Row(x, m, t, EndOf(t, m)) :
                                     x \in {y \in Halls : hall[y] = "ACTIVE"},
                                     m \in Movies, t \in Times}
      BY DEF Init
    <2>2. CASE show[s] = NoRow
      BY <2>2, NoRowIsNone DEF Exists
    <2>3. ASSUME NEW x \in {y \in Halls : hall[y] = "ACTIVE"}, NEW m \in Movies, NEW t \in Times,
                 show[s] = Row(x, m, t, EndOf(t, m))
          PROVE  RowFits(show[s]) /\ hall[show[s].hall] = "ACTIVE"
      BY <2>3, RowIsRow
    <2> QED
      BY <2>1, <2>2, <2>3
  <1>4. show \in [Showtimes -> Rows \cup {NoRow}]
    <2>1. show = [s \in Showtimes |-> show[s]]
      BY DEF Init
    <2>2. \A s \in Showtimes : show[s] \in Rows \cup {NoRow}
      BY <1>3 DEF RowFits
    <2> QED
      BY <2>1, <2>2
  <1>5. /\ hall \in [Halls -> {"none", "ACTIVE", "INACTIVE", "gone"}] /\ cinema = "ACTIVE"
        /\ used = {s \in Showtimes : Exists(s)}
    BY DEF Init
  <1>6. TableOK
    BY <1>3, <1>4, <1>5 DEF TableOK
  <1>7. SeatOK
    BY DEF Init, SeatOK
  <1>8. RestOK
    BY Numbers DEF Init, RestOK
  <1>9. RowsFit
    BY <1>3 DEF RowsFit
  <1> QED
    BY <1>1, <1>2, <1>6, <1>7, <1>8, <1>9 DEF Inv

LEMMA SpecInv == Spec => []Inv
  <1>1. Init => Inv
    BY InitInv
  <1>2. Inv /\ [Next]_vars => Inv'
    BY StepInv
  <1> QED
    BY <1>1, <1>2, PTL DEF Spec

\* Every row is in a hall that is there, and only rows have reservations,
\* whatever operations overlap: each deletion takes along what is below it
\* (the foreign keys of schema.prisma).
THEOREM TypeCorrect == Spec => []TypeOK
  <1>1. Inv => TypeOK
    BY InvTypes
  <1> QED
    BY <1>1, SpecInv, PTL

-----------------------------------------------------------------------------
(* What operations use at the same time is in raced.                       *)

\* A row is never used without its seats.
RaceInv ==
  /\ \A g, h \in Handlers : g # h => uses[g] \cap uses[h] \subseteq raced
  /\ \A g, h \in Handlers : (job[g].op = "sale" /\ job[g].on \in uses[h]) => job[g].on \in raced
  /\ \A s \in Showtimes : RowOf(s) \in raced => SeatsOf(s) \in raced

\* Only h does something.
Alone(h) ==
  \A g \in Handlers \ {h} : pc'[g] = pc[g] /\ job'[g] = job[g] /\ uses'[g] = uses[g]

Finished(h) == pc'[h] = "idle" /\ job'[h] = NoJob /\ uses'[h] = {}

\* An operation that goes on keeps its parameters, and what it uses.
GoesOn(h) ==
  /\ uses'[h] = uses[h] /\ job'[h].op = job[h].op /\ job'[h].on = job[h].on
  /\ job'[h].change = job[h].change
  /\ job[h].op = "update" => job'[h].row = job[h].row

LEMMA FinishForm ==
  ASSUME ControlOK, NEW h \in Handlers, Finish(h)
  PROVE  Alone(h) /\ UNCHANGED raced /\ Finished(h)
  BY DEF ControlOK, Finish, Alone, Finished

LEMMA GotoForm ==
  ASSUME ControlOK, NEW h \in Handlers, NEW step, Goto(h, step)
  PROVE  /\ Alone(h) /\ UNCHANGED raced /\ GoesOn(h)
         /\ pc'[h] = step /\ job'[h] = job[h]
  BY DEF ControlOK, Goto, Alone, GoesOn

LEMMA CheckForm ==
  ASSUME Inv, NEW h \in Handlers, NEW c \in Times, CheckConflict(h, c)
  PROVE  /\ Alone(h) /\ UNCHANGED raced /\ (Finished(h) \/ GoesOn(h))
         /\ pc'[h] = "insert" =>
              LET row == Row(job[h].on[2], job[h].movie, c, EndOf(c, job[h].movie))
              IN job'[h].row = row /\ ~Conflict(job[h].on[2], c, EndOf(c, job[h].movie), {})
         /\ pc'[h] # "write"
  <1> DEFINE rest == job[h].left \ {c}
             row == Row(job[h].on[2], job[h].movie, c, EndOf(c, job[h].movie))
             taken == Conflict(job[h].on[2], c, EndOf(c, job[h].movie), {})
  <1>0. ControlOK /\ pc[h] = "look" /\ job[h] \in Jobs
    BY DEF Inv, CheckConflict, ControlOK
  <1>a. job[h].op = "create"
    BY <1>0, AtStep DEF FitCreate
  <1>1. \/ Finish(h)
        \/ /\ job' = [job EXCEPT ![h].left = rest]
           /\ UNCHANGED <<pc, uses, raced>>
        \/ /\ job' = [job EXCEPT ![h].left = rest, ![h].row = row] /\ ~taken
           /\ pc' = [pc EXCEPT ![h] = "insert"] /\ UNCHANGED <<uses, raced>>
    BY DEF CheckConflict
  <1> HIDE DEF rest, row, taken
  <1>2. CASE Finish(h)
    BY <1>0, <1>2, FinishForm DEF Finished
  <1>3. CASE /\ job' = [job EXCEPT ![h].left = rest]
             /\ UNCHANGED <<pc, uses, raced>>
    <2>1. Alone(h) /\ UNCHANGED raced /\ pc'[h] = "look"
      BY <1>0, <1>3 DEF ControlOK, Alone
    <2>2. job'[h].op = job[h].op /\ job'[h].on = job[h].on /\ job'[h].change = job[h].change
      BY <1>0, <1>3 DEF ControlOK, Jobs
    <2> QED
      BY <1>3, <1>a, <2>1, <2>2 DEF GoesOn
  <1>4. CASE /\ job' = [job EXCEPT ![h].left = rest, ![h].row = row] /\ ~taken
             /\ pc' = [pc EXCEPT ![h] = "insert"] /\ UNCHANGED <<uses, raced>>
    <2>1. Alone(h) /\ UNCHANGED raced /\ pc'[h] = "insert"
      BY <1>0, <1>4 DEF ControlOK, Alone
    <2>2. /\ job'[h].op = job[h].op /\ job'[h].on = job[h].on /\ job'[h].change = job[h].change
          /\ job'[h].row = row
      BY <1>0, <1>4 DEF ControlOK, Jobs
    <2> QED
      BY <1>4, <1>a, <2>1, <2>2 DEF GoesOn, row, taken
  <1> QED
    BY <1>1, <1>2, <1>3, <1>4

LEMMA CountForm ==
  ASSUME Inv, NEW h \in Handlers, CountReservations(h)
  PROVE  /\ Alone(h) /\ UNCHANGED raced /\ (Finished(h) \/ GoesOn(h))
         /\ pc'[h] # "insert" /\ (pc'[h] = "write" => ~Moves(job'[h].change))
         /\ (pc'[h] = "move" => reserved[job[h].on[2]] = {})
         /\ (pc'[h] = "holds" => job'[h].sold = (reserved[job[h].on[2]] # {}))
         /\ pc'[h] \in {"idle", "holds", "write", "move"}
  <1>0. ControlOK /\ job[h] \in Jobs
    BY DEF Inv, ControlOK
  <1>1. CASE Finish(h)
    BY <1>0, <1>1, FinishForm DEF Finished
  <1>2. CASE /\ ~Moves(job[h].change) /\ Goto(h, "write")
    BY <1>0, <1>2, GotoForm
  <1>3. CASE Goto(h, "move") /\ reserved[job[h].on[2]] = {}
    BY <1>0, <1>3, GotoForm
  <1>4. ASSUME NEW b \in BOOLEAN, b = (reserved[job[h].on[2]] # {}),
               job' = [job EXCEPT ![h].sold = b], pc' = [pc EXCEPT ![h] = "holds"],
               UNCHANGED <<uses, raced, requests>>
        PROVE  /\ Alone(h) /\ UNCHANGED raced /\ GoesOn(h) /\ pc'[h] = "holds"
               /\ job'[h].sold = b
    <2>1. Alone(h) /\ UNCHANGED raced /\ pc'[h] = "holds"
      BY <1>0, <1>4 DEF ControlOK, Alone
    <2>2. /\ job'[h].op = job[h].op /\ job'[h].on = job[h].on /\ job'[h].change = job[h].change
          /\ job'[h].row = job[h].row /\ job'[h].sold = b
      BY <1>0, <1>4 DEF ControlOK, Jobs
    <2> QED
      BY <1>4, <2>1, <2>2 DEF GoesOn
  <1>5. \/ Finish(h)
        \/ ~Moves(job[h].change) /\ Goto(h, "write")
        \/ Goto(h, "move") /\ reserved[job[h].on[2]] = {}
        \/ /\ job' = [job EXCEPT ![h].sold = (reserved[job[h].on[2]] # {})]
           /\ pc' = [pc EXCEPT ![h] = "holds"] /\ UNCHANGED <<uses, raced, requests>>
    BY DEF CountReservations
  <1> QED
    BY <1>1, <1>2, <1>3, <1>4, <1>5

LEMMA ProceedForm ==
  ASSUME Inv, NEW h \in Handlers, Proceed(h) \/ Abort(h)
  PROVE  Alone(h) /\ UNCHANGED raced /\ (Finished(h) \/ GoesOn(h))
  <1>1. \/ \E c \in Times : CheckConflict(h, c)
        \/ CountReservations(h)
        \/ Finish(h)
        \/ \E step \in Steps : Goto(h, step)
    BY DEF Proceed, Abort, InsertShowtime, CheckMove, WriteShowtime, CheckHolds, MarkCancelled,
       DeleteShowtime, InsertHall, DropHall, DropCinema, CreateSeatReservation, Steps
  <1> QED
    BY <1>1, CheckForm, CountForm, FinishForm, GotoForm DEF Inv

LEMMA StartedForm ==
  ASSUME Inv, NEW h \in Handlers, NEW j \in Jobs, NEW step \in Steps, NEW U \in SUBSET Things,
         Begin(h, j, step, U)
  PROVE  /\ Alone(h) /\ pc[h] = "idle" /\ pc'[h] = step /\ job'[h] = j /\ uses'[h] = U
         /\ raced' = raced \cup (U \cap (Others(h) \cup Selling))
         /\ UNCHANGED <<timetable, seating, stretched>>
  BY DEF Begin, Alone, Inv, ControlOK

LEMMA RaceKeep ==
  ASSUME Inv, RaceInv, raced \subseteq raced',
         \A s \in Showtimes : RowOf(s) \in raced' => RowOf(s) \in raced,
         \A g \in Handlers : uses'[g] \subseteq uses[g],
         \A g \in Handlers : job'[g].op = "sale" => job[g].op = "sale" /\ job'[g].on = job[g].on
  PROVE  RaceInv'
  BY DEF RaceInv

LEMMA UsesTogether ==
  ASSUME NEW p, NEW j, NEW U, Fit(p, j, U), NEW s \in Showtimes, RowOf(s) \in U
  PROVE  SeatsOf(s) \in U
  <1>1. CASE FitUpdate(p, j, U)
    <2>1. PICK t \in Showtimes :
            U = {RowOf(t), SeatsOf(t)} \cup
                (IF Moves(j.change) THEN {HallOf(NewHall(j))} ELSE {})
      BY <1>1 DEF FitUpdate
    <2>2. RowOf(s) # HallOf(NewHall(j)) /\ RowOf(s) # SeatsOf(t)
      BY DEF RowOf, HallOf, SeatsOf
    <2>3. RowOf(s) = RowOf(t)
      BY <2>1, <2>2
    <2>4. s = t
      BY <2>3, ThingsApart
    <2> QED
      BY <2>1, <2>4
  <1>2. CASE FitCancel(p, j, U)
    <2>1. PICK t \in Showtimes : U = {RowOf(t), SeatsOf(t)}
      BY <1>2 DEF FitCancel
    <2>2. s = t
      BY <2>1, ThingsApart
    <2> QED
      BY <2>1, <2>2
  <1> QED
    BY <1>1, <1>2, ThingsApart DEF Fit, FitCreate, FitHall, FitCinema, FitSale

LEMMA RaceStep ==
  ASSUME Inv, Inv', RaceInv, [Next]_vars
  PROVE  RaceInv' /\ raced \subseteq raced'
  <1>1. ASSUME NEW h \in Handlers, Request(h)
        PROVE  RaceInv' /\ raced \subseteq raced'
    <2>1. PICK j \in Jobs, step \in Steps, U \in SUBSET Things :
            Begin(h, j, step, U) /\ Fit(step, j, U) /\ StartsRight(step, j)
      BY <1>1, RequestStarted DEF Started
    <2>2. /\ Alone(h) /\ job'[h] = j /\ uses'[h] = U
          /\ raced' = raced \cup (U \cap (Others(h) \cup Selling))
      BY <2>1, StartedForm
    <2>3. ASSUME NEW g \in Handlers \ {h} PROVE uses[g] \subseteq Others(h)
      BY DEF Others
    <2>4. \A f, g \in Handlers : f # g => uses'[f] \cap uses'[g] \subseteq raced'
      BY <2>2, <2>3 DEF RaceInv, Alone
    <2>5. \A f, g \in Handlers :
            (job'[f].op = "sale" /\ job'[f].on \in uses'[g]) => job'[f].on \in raced'
      <3> SUFFICES ASSUME NEW f \in Handlers, NEW g \in Handlers, job'[f].op = "sale",
                          job'[f].on \in uses'[g]
                   PROVE  job'[f].on \in raced'
        OBVIOUS
      <3>1. f # h /\ job'[f] = job[f]
        BY <2>1, <2>2 DEF StartsRight, Alone
      <3>2. CASE g = h
        BY <2>2, <3>1, <3>2 DEF Selling
      <3>3. CASE g # h
        BY <2>2, <3>1, <3>3 DEF RaceInv, Alone
      <3> QED
        BY <3>2, <3>3
    <2>6. ASSUME NEW s \in Showtimes, RowOf(s) \in raced'
          PROVE  SeatsOf(s) \in raced'
      <3>1. CASE RowOf(s) \in raced
        BY <2>2, <3>1 DEF RaceInv
      <3>2. CASE RowOf(s) \in U /\ RowOf(s) \in Others(h)
        <4>1. PICK g \in Handlers \ {h} : RowOf(s) \in uses[g]
          BY <3>2 DEF Others
        <4>2. Fit(pc[g], job[g], uses[g])
          BY DEF Inv, ControlOK
        <4>3. SeatsOf(s) \in uses[g]
          BY <4>1, <4>2, UsesTogether
        <4>4. SeatsOf(s) \in U
          BY <2>1, <3>2, UsesTogether
        <4> QED
          BY <2>2, <2>3, <4>3, <4>4
      <3>3. CASE RowOf(s) \in Selling
        <4>1. PICK g \in Handlers : job[g].op = "sale" /\ job[g].on = RowOf(s)
          BY <3>3 DEF Selling
        <4>2. FitSale(pc[g], job[g], uses[g])
          BY <4>1, AtStep DEF Inv
        <4> QED
          BY <4>1, <4>2, ThingsApart DEF FitSale
      <3> QED
        BY <2>2, <2>6, <3>1, <3>2, <3>3
    <2> QED
      BY <2>2, <2>4, <2>5, <2>6 DEF RaceInv
  <1>2. ASSUME NEW h \in Handlers, Proceed(h) \/ Abort(h)
        PROVE  RaceInv' /\ raced \subseteq raced'
    <2>1. Alone(h) /\ UNCHANGED raced /\ (Finished(h) \/ GoesOn(h))
      BY <1>2, ProceedForm
    <2>2. \A g \in Handlers : /\ uses'[g] \subseteq uses[g]
                              /\ job'[g].op = "sale" => /\ job[g].op = "sale"
                                                        /\ job'[g].on = job[g].on
      BY <2>1, NoJobFields DEF Alone, Finished, GoesOn
    <2> QED
      BY <2>1, <2>2, RaceKeep
  <1>3. ASSUME NEW h \in Handlers, NEW s \in Showtimes, NEW seat \in Seats,
               ConsumeHold(h, s, seat)
        PROVE  RaceInv' /\ raced \subseteq raced'
    <2> DEFINE j == [NoJob EXCEPT !.op = "sale", !.on = SeatsOf(s), !.seat = seat]
    <2>1. /\ pc[h] = "idle" /\ UNCHANGED uses
          /\ raced' = raced \cup ({SeatsOf(s)} \cap Others(h)) /\ job' = [job EXCEPT ![h] = j]
      BY <1>3 DEF ConsumeHold
    <2>2. SeatsOf(s) \in Things
      BY AreThings
    <2>3. j.on = SeatsOf(s)
      BY <2>2, NoJobFields DEF Jobs
    <2> HIDE DEF j
    <2>4. /\ job'[h] = j /\ uses[h] = {}
          /\ \A g \in Handlers \ {h} : job'[g] = job[g]
      BY <2>1, AtStep DEF Inv, ControlOK
    <2>5. \A f, g \in Handlers :
            (job'[f].op = "sale" /\ job'[f].on \in uses'[g]) => job'[f].on \in raced'
      BY <2>1, <2>3, <2>4 DEF RaceInv, Others
    <2>6. \A t \in Showtimes : RowOf(t) \in raced' => SeatsOf(t) \in raced'
      BY <2>1, ThingsApart DEF RaceInv
    <2> QED
      BY <2>1, <2>5, <2>6 DEF RaceInv
  <1>4. ASSUME NEW s \in Showtimes, NEW seat \in Seats, Hold(s, seat)
        PROVE  RaceInv' /\ raced \subseteq raced'
    <2>1. /\ raced \subseteq raced' /\ raced' \subseteq raced \cup {SeatsOf(s)}
          /\ UNCHANGED <<job, uses>>
      BY <1>4 DEF Hold
    <2>2. \A t \in Showtimes : RowOf(t) \in raced' => RowOf(t) \in raced
      BY <2>1, ThingsApart
    <2> QED
      BY <2>1, <2>2, RaceKeep
  <1>5. CASE UNCHANGED <<pc, job, uses, raced>>
    BY <1>5, RaceKeep
  <1> QED
    BY <1>1, <1>2, <1>3, <1>4, <1>5 DEF Next, Customer, SetHallStatus, SetCinemaStatus, Unhold,
       ReleaseSeat, vars, control

-----------------------------------------------------------------------------
(* A hall is booked twice only by operations that overlap, or a new movie. *)

\* A row in the same hall, at the same time.
Clash(r, u) == r.hall = u.hall /\ Overlap(r.start, r.end, u.start, u.end)

Excused(t) == t \in stretched \/ RowOf(t) \in raced

\* The showtime t leaves room for the row r, if it is to.
FreeOf(r, t) == Exists(t) /\ Clash(r, show[t]) => Excused(t)

\* What an update read of its row is still so.
ReadOK(g) ==
  job[g].op = "update" =>
    \A s \in Showtimes :
      job[g].on = RowOf(s) => RowOf(s) \in raced \/ ~Exists(s) \/ show[s] = job[g].row

\* What a creation found free still is.
FreeInsert(g) ==
  pc[g] = "insert" =>
    HallOf(job[g].row.hall) \in raced \/ \A t \in Showtimes : FreeOf(job[g].row, t)

\* What an update that moves found free still is.
FreeMove(g) ==
  (pc[g] = "write" /\ Moves(job[g].change)) =>
    \/ HallOf(Updated(g).hall) \in raced
    \/ \A s \in Showtimes :
         job[g].on = RowOf(s) => \A t \in Showtimes \ {s} : FreeOf(Updated(g), t)

HallInv == \A g \in Handlers : ReadOK(g) /\ FreeInsert(g) /\ FreeMove(g)

\* The row of t is as it was, deleted, or ends earlier.
Still(t) ==
  Exists(t)' => /\ Exists(t) /\ show'[t].hall = show[t].hall
                /\ show'[t].start = show[t].start /\ show'[t].end <= show[t].end
                /\ t \in stretched => t \in stretched'

LEMMA RowNumbers ==
  ASSUME TableOK, NEW t \in Showtimes, Exists(t)
  PROVE  show[t].hall \in Halls /\ show[t].start \in Nat /\ show[t].end \in Nat
  <1>1. show[t] \in Rows
    BY NoRowIsNone DEF TableOK, Exists
  <1>2. show[t].start \in Times /\ show[t].hall \in Halls /\ show[t].end \in Nat
    BY <1>1 DEF Rows
  <1> QED
    BY <1>2, Numbers

LEMMA StillFree ==
  ASSUME TableOK, TableOK', raced \subseteq raced', NEW t \in Showtimes, Still(t),
         NEW r, r.start \in Int, r.end \in Int, FreeOf(r, t), Exists(t)', Clash(r, show'[t])
  PROVE  Excused(t)'
  <1>1. /\ show'[t].start \in Int /\ show'[t].end \in Int
    <2>1. show'[t] \in Rows
      BY NoRowIsNone DEF TableOK, Exists
    <2>2. show'[t].start \in Times /\ show'[t].end \in Nat
      BY <2>1 DEF Rows
    <2> QED
      BY <2>2, Numbers
  <1>2. /\ Exists(t) /\ show'[t].hall = show[t].hall
        /\ show'[t].start = show[t].start /\ show'[t].end <= show[t].end
        /\ t \in stretched => t \in stretched'
    BY DEF Still
  <1>3. show[t].end \in Int
    BY <1>2, RowNumbers
  <1>4. Clash(r, show[t])
    BY <1>1, <1>2, <1>3 DEF Clash, Overlap
  <1> QED
    BY <1>2, <1>4 DEF FreeOf, Excused

\* An operation that does nothing keeps what it relies on, if the rows that the
\* step writes are excused or in a hall of W, which it does not share unraced.
LEMMA FrameFree ==
  ASSUME Inv, Inv', raced \subseteq raced', NEW g \in Handlers,
         pc'[g] = pc[g], job'[g] = job[g], NEW W, W \cap uses[g] \subseteq raced',
         \A t \in Showtimes :
           Still(t) \/ Excused(t)' \/ (Exists(t)' /\ HallOf(show'[t].hall) \in W),
         \A s \in Showtimes :
           \/ show'[s] = show[s] \/ ~Exists(s)' \/ RowOf(s) \in W \/ s \notin used,
         ReadOK(g), FreeInsert(g), FreeMove(g)
  PROVE  ReadOK(g)' /\ FreeInsert(g)' /\ FreeMove(g)'
  <1>0. TableOK /\ TableOK' /\ ControlOK /\ OnUsed
    BY DEF Inv
  <1>1. ReadOK(g)'
    <2> SUFFICES ASSUME NEW s \in Showtimes, job[g].op = "update", job[g].on = RowOf(s)
                 PROVE  RowOf(s) \in raced' \/ ~Exists(s)' \/ show'[s] = job[g].row
      BY DEF ReadOK
    <2>1. s \in used
      BY <1>0 DEF OnUsed
    <2>2. RowOf(s) \in uses[g]
      <3>1. PICK t \in Showtimes : job[g].on = RowOf(t) /\ RowOf(t) \in uses[g]
        BY <1>0, AtStep DEF FitUpdate
      <3> QED
        BY <3>1
    <2>3. CASE show'[s] = show[s]
      BY <2>3 DEF ReadOK, Exists
    <2> QED
      BY <2>1, <2>2, <2>3
  <1>2. ASSUME NEW r, NEW x \in Halls, r.hall = x, HallOf(x) \in uses[g], HallOf(x) \notin raced',
               NEW t \in Showtimes, FreeOf(r, t), r.start \in Int, r.end \in Int,
               Exists(t)', Clash(r, show'[t])
        PROVE  Excused(t)'
    <2>1. CASE Still(t)
      BY <1>0, <1>2, <2>1, StillFree
    <2>2. CASE Exists(t)' /\ HallOf(show'[t].hall) \in W
      BY <1>2, <2>2 DEF Clash
    <2> QED
      BY <2>1, <2>2
  <1>3. FreeInsert(g)'
    <2> DEFINE r == job[g].row
    <2> SUFFICES ASSUME pc[g] = "insert", HallOf(r.hall) \notin raced', NEW t \in Showtimes,
                        Exists(t)', Clash(r, show'[t])
                 PROVE  Excused(t)'
      BY DEF FreeInsert, FreeOf
    <2>1. FitCreate(pc[g], job[g], uses[g])
      BY <1>0, AtStep
    <2>2. HallOf(r.hall) \in uses[g] /\ r \in Rows
      BY <2>1 DEF FitCreate, RowFits
    <2>3. r.hall \in Halls /\ r.start \in Times /\ r.end \in Nat
      BY <2>2 DEF Rows
    <2>4. FreeOf(r, t)
      BY DEF FreeInsert
    <2>5. r.start \in Int /\ r.end \in Int
      BY <2>3, Numbers
    <2> HIDE DEF r
    <2> QED
      BY <1>2, <2>2, <2>3, <2>4, <2>5
  <1>4. FreeMove(g)'
    <2> DEFINE r == Updated(g)
    <2>1. Updated(g)' = r
      BY DEF Updated
    <2> SUFFICES ASSUME pc[g] = "write", Moves(job[g].change), HallOf(r.hall) \notin raced',
                        NEW s \in Showtimes, job[g].on = RowOf(s), NEW t \in Showtimes \ {s},
                        Exists(t)', Clash(r, show'[t])
                 PROVE  Excused(t)'
      BY <2>1 DEF FreeMove, FreeOf
    <2>2. FitUpdate(pc[g], job[g], uses[g])
      BY <1>0, AtStep
    <2>3. RowFits(r) /\ r.hall = NewHall(job[g]) /\ r.hall \in Halls
      BY <1>0, <2>2, UpdatedRow
    <2>4. HallOf(r.hall) \in uses[g]
      BY <2>2, <2>3 DEF FitUpdate
    <2>5. r.start \in Times /\ r.end \in Nat
      BY <2>3 DEF RowFits, Rows
    <2>6. FreeOf(r, t)
      BY DEF FreeMove
    <2>7. r.start \in Int /\ r.end \in Int
      BY <2>5, Numbers
    <2> HIDE DEF r
    <2> QED
      BY <1>2, <2>3, <2>4, <2>6, <2>7
  <1> QED
    BY <1>1, <1>3, <1>4

\* At most one row is written, and it is excused, raced for, or found free.
LEMMA OneWrite ==
  ASSUME Inv, Inv', raced \subseteq raced', HallNotDoubleBooked, NEW S, S \in SUBSET Showtimes,
         \A t \in Showtimes : t \notin S => Still(t),
         \A s, t \in S : s = t,
         \A s \in S : \/ Still(s) \/ Excused(s)' \/ HallOf(show'[s].hall) \in raced'
                      \/ \A t \in Showtimes \ {s} : FreeOf(show'[s], t)
  PROVE  HallNotDoubleBooked'
  <1>0. TableOK /\ TableOK'
    BY DEF Inv
  <1> SUFFICES ASSUME NEW s \in Showtimes, NEW t \in Showtimes, s # t, Exists(s)',
                      show'[s].hall = show'[t].hall,
                      Overlap(show'[s].start, show'[s].end, show'[t].start, show'[t].end),
                      ~Excused(s)', ~Excused(t)', HallOf(show'[s].hall) \notin raced'
               PROVE  FALSE
    BY DEF HallNotDoubleBooked, Excused
  <1>1. Exists(t)'
    BY DEF Exists
  <1>2. \A u \in {s, t} : show'[u].start \in Int /\ show'[u].end \in Int
    <2>1. show'[s] \in Rows /\ show'[t] \in Rows
      BY <1>0, <1>1, NoRowIsNone DEF TableOK, Exists
    <2>2. \A u \in {s, t} : show'[u].start \in Times /\ show'[u].end \in Nat
      BY <2>1 DEF Rows
    <2> QED
      BY <2>2, Numbers
  <1>3. Clash(show'[s], show'[t]) /\ Clash(show'[t], show'[s])
    BY <1>2 DEF Clash, Overlap
  <1>4. CASE Still(s) /\ Still(t)
    <2>1. \A u \in {s, t} :
            /\ Exists(u) /\ show'[u].hall = show[u].hall /\ show'[u].start = show[u].start
            /\ show'[u].end <= show[u].end
            /\ u \in stretched => u \in stretched'
      BY <1>1, <1>4 DEF Still
    <2>2. \A u \in {s, t} : show[u].start \in Int /\ show[u].end \in Int
      BY <1>0, <2>1, RowNumbers
    <2>3. Overlap(show[s].start, show[s].end, show[t].start, show[t].end)
      BY <1>2, <2>1, <2>2 DEF Overlap
    <2>4. Exists(s) /\ show[s].hall = show[t].hall /\ show[s].hall = show'[s].hall
      BY <2>1
    <2> QED
      BY <2>1, <2>3, <2>4 DEF HallNotDoubleBooked, Excused
  <1>5. ASSUME NEW a \in {s, t}, a \in S, ~Still(a)
        PROVE  FALSE
    <2>1. PICK b \in {s, t} : b # a
      OBVIOUS
    <2>2. b \notin S /\ b \in Showtimes /\ Still(b)
      BY <1>5, <2>1
    <2>3. FreeOf(show'[a], b)
      BY <1>5, <2>1, <2>2
    <2>4. Clash(show'[a], show'[b]) /\ Exists(b)' /\ ~Excused(b)'
      BY <1>1, <1>3, <2>1
    <2> QED
      BY <1>0, <1>2, <2>2, <2>3, <2>4, StillFree
  <1> QED
    BY <1>4, <1>5

LEMMA StillStill ==
  ASSUME TableOK, UNCHANGED <<show, stretched>>, NEW t \in Showtimes
  PROVE  Still(t)
  <1> SUFFICES ASSUME Exists(t)
               PROVE  show[t].end <= show[t].end
    BY DEF Still, Exists
  <1> QED
    BY RowNumbers

\* Steps that leave the rows alone.
LEMMA QuietRows ==
  ASSUME Inv, Inv', raced \subseteq raced', HallNotDoubleBooked, UNCHANGED <<show, stretched>>
  PROVE  HallNotDoubleBooked'
  <1> DEFINE S == {}
  <1>1. \A t \in Showtimes : t \notin S => Still(t)
    BY StillStill DEF Inv
  <1>2. S \subseteq Showtimes /\ (\A s, t \in S : s = t)
    OBVIOUS
  <1>3. \A s \in S : \/ Still(s) \/ Excused(s)' \/ HallOf(show'[s].hall) \in raced'
                     \/ \A t \in Showtimes \ {s} : FreeOf(show'[s], t)
    OBVIOUS
  <1> HIDE DEF S
  <1> QED
    BY <1>1, <1>2, <1>3, OneWrite

LEMMA QuietFree ==
  ASSUME Inv, Inv', raced \subseteq raced', UNCHANGED <<show, stretched>>, NEW g \in Handlers,
         pc'[g] = pc[g], job'[g] = job[g], ReadOK(g), FreeInsert(g), FreeMove(g)
  PROVE  ReadOK(g)' /\ FreeInsert(g)' /\ FreeMove(g)'
  <1>1. \A t \in Showtimes : Still(t)
    BY StillStill DEF Inv
  <1>2. {} \cap uses[g] \subseteq raced'
    OBVIOUS
  <1> QED
    BY <1>1, <1>2, FrameFree

\* What the operation that takes a step relies on afterwards.
LEMMA OwnFree ==
  ASSUME Inv, NEW h \in Handlers, raced \subseteq raced', ReadOK(h), pc'[h] \notin {"insert", "write"},
         \/ Finished(h)
         \/ GoesOn(h) /\ (job[h].op # "update" \/ UNCHANGED show)
         \/ job'[h].op # "update"
  PROVE  ReadOK(h)' /\ FreeInsert(h)' /\ FreeMove(h)'
  <1>1. FreeInsert(h)' /\ FreeMove(h)'
    BY DEF FreeInsert, FreeMove
  <1>2. CASE Finished(h) \/ job'[h].op # "update"
    BY <1>1, <1>2, NoJobFields DEF Finished, ReadOK
  <1>3. CASE GoesOn(h) /\ job[h].op # "update"
    BY <1>1, <1>3 DEF GoesOn, ReadOK
  <1>4. CASE GoesOn(h) /\ job[h].op = "update" /\ UNCHANGED show
    BY <1>1, <1>4 DEF GoesOn, ReadOK, Exists
  <1> QED
    BY <1>2, <1>3, <1>4

\* An operation takes a step that leaves the rows alone.
LEMMA QuietHall ==
  ASSUME Inv, Inv', raced \subseteq raced', HallInv, HallNotDoubleBooked, NEW h \in Handlers,
         Alone(h), UNCHANGED <<show, stretched>>, ReadOK(h)', FreeInsert(h)', FreeMove(h)'
  PROVE  HallInv' /\ HallNotDoubleBooked'
  <1>1. HallNotDoubleBooked'
    BY QuietRows
  <1>2. ASSUME NEW g \in Handlers
        PROVE  ReadOK(g)' /\ FreeInsert(g)' /\ FreeMove(g)'
    <2>1. CASE g = h
      BY <2>1
    <2>2. CASE g # h
      BY <2>2, QuietFree DEF Alone, HallInv
    <2> QED
      BY <2>1, <2>2
  <1> QED
    BY <1>1, <1>2 DEF HallInv

\* An operation writes one row, and has found room for it.
LEMMA WriteHall ==
  ASSUME Inv, Inv', RaceInv, UNCHANGED raced, HallInv, HallNotDoubleBooked, NEW h \in Handlers,
         Alone(h), Finished(h) \/ (GoesOn(h) /\ job[h].op # "update"),
         pc'[h] \notin {"insert", "write"}, NEW s \in Showtimes,
         \A t \in Showtimes : t # s => show'[t] = show[t] /\ (t \in stretched => t \in stretched'),
         RowOf(s) \in uses[h] \/ s \notin used \/ ~Exists(s)',
         \/ Still(s) \/ Excused(s)'
         \/ /\ Exists(s)' /\ HallOf(show'[s].hall) \in uses[h]
            /\ \/ HallOf(show'[s].hall) \in raced
               \/ \A t \in Showtimes \ {s} : FreeOf(show'[s], t)
  PROVE  HallInv' /\ HallNotDoubleBooked'
  <1>1. ASSUME NEW t \in Showtimes, t # s
        PROVE  Still(t)
    <2> SUFFICES ASSUME Exists(t)
                 PROVE  show[t].end <= show[t].end
      BY <1>1 DEF Still, Exists
    <2> QED
      BY RowNumbers DEF Inv
  <1>2. HallNotDoubleBooked'
    <2> DEFINE S == {s}
    <2>1. /\ S \subseteq Showtimes /\ (\A a, b \in S : a = b)
          /\ \A t \in Showtimes : t \notin S => Still(t)
      BY <1>1
    <2>2. \A a \in S : \/ Still(a) \/ Excused(a)' \/ HallOf(show'[a].hall) \in raced'
                       \/ \A t \in Showtimes \ {a} : FreeOf(show'[a], t)
      OBVIOUS
    <2> HIDE DEF S
    <2>3. raced \subseteq raced'
      OBVIOUS
    <2> QED
      BY <2>1, <2>2, <2>3, OneWrite
  <1>3. ASSUME NEW g \in Handlers
        PROVE  ReadOK(g)' /\ FreeInsert(g)' /\ FreeMove(g)'
    <2>1. CASE g = h
      BY <2>1, OwnFree DEF HallInv
    <2>2. CASE g # h
      <3>1. uses[h] \cap uses[g] \subseteq raced'
        BY <2>2 DEF RaceInv
      <3>2. \A t \in Showtimes :
              Still(t) \/ Excused(t)' \/ (Exists(t)' /\ HallOf(show'[t].hall) \in uses[h])
        BY <1>1
      <3>3. \A t \in Showtimes :
              show'[t] = show[t] \/ ~Exists(t)' \/ RowOf(t) \in uses[h] \/ t \notin used
        OBVIOUS
      <3>4. pc'[g] = pc[g] /\ job'[g] = job[g] /\ ReadOK(g) /\ FreeInsert(g) /\ FreeMove(g)
        BY <2>2 DEF Alone, HallInv
      <3> QED
        BY <3>1, <3>2, <3>3, <3>4, FrameFree
    <2> QED
      BY <2>1, <2>2
  <1> QED
    BY <1>2, <1>3 DEF HallInv

\* Rows are deleted.
LEMMA DropHallRows ==
  ASSUME Inv, Inv', UNCHANGED <<raced, stretched>>, HallInv, HallNotDoubleBooked,
         NEW h \in Handlers, Alone(h), Finished(h), NEW S, DropShowtimes(S)
  PROVE  HallInv' /\ HallNotDoubleBooked'
  <1>1. \A t \in Showtimes : show'[t] = show[t] \/ ~Exists(t)'
    BY NoRowIsNone DEF DropShowtimes, Exists
  <1>2. ASSUME NEW t \in Showtimes
        PROVE  Still(t)
    <2> SUFFICES ASSUME Exists(t), show'[t] = show[t]
                 PROVE  show[t].end <= show[t].end
      BY <1>1 DEF Still, Exists
    <2> QED
      BY RowNumbers DEF Inv
  <1>3. HallNotDoubleBooked'
    <2> DEFINE T == {}
    <2>1. /\ T \subseteq Showtimes /\ (\A s, t \in T : s = t)
          /\ \A t \in Showtimes : t \notin T => Still(t)
      BY <1>2
    <2>2. \A s \in T : \/ Still(s) \/ Excused(s)' \/ HallOf(show'[s].hall) \in raced'
                       \/ \A t \in Showtimes \ {s} : FreeOf(show'[s], t)
      OBVIOUS
    <2> HIDE DEF T
    <2> QED
      BY <2>1, <2>2, OneWrite
  <1>4. ASSUME NEW g \in Handlers
        PROVE  ReadOK(g)' /\ FreeInsert(g)' /\ FreeMove(g)'
    <2>1. CASE g = h
      BY <2>1, OwnFree DEF HallInv, Finished
    <2>2. CASE g # h
      <3>1. pc'[g] = pc[g] /\ job'[g] = job[g] /\ ReadOK(g) /\ FreeInsert(g) /\ FreeMove(g)
        BY <2>2 DEF Alone, HallInv
      <3>2. {} \cap uses[g] \subseteq raced'
        OBVIOUS
      <3> QED
        BY <1>1, <1>2, <3>1, <3>2, FrameFree
    <2> QED
      BY <2>1, <2>2
  <1> QED
    BY <1>3, <1>4 DEF HallInv

LEMMA InsertHallFree ==
  ASSUME Inv, Inv', RaceInv, HallInv, HallNotDoubleBooked, NEW h \in Handlers,
         NEW s \in Showtimes, InsertShowtime(h, s)
  PROVE  HallInv' /\ HallNotDoubleBooked'
  <1> DEFINE row == job[h].row
  <1>0. TableOK /\ ControlOK /\ ReadOK(h) /\ FreeInsert(h)
    BY DEF Inv, HallInv
  <1>1. /\ pc[h] = "insert" /\ s \notin used /\ UNCHANGED stretched
        /\ Finish(h) \/ Goto(h, "look")
    BY DEF InsertShowtime
  <1>2. /\ Alone(h) /\ UNCHANGED raced /\ pc'[h] \notin {"insert", "write"}
        /\ Finished(h) \/ GoesOn(h)
    BY <1>0, <1>1, FinishForm, GotoForm DEF Finished
  <1>3. FitCreate(pc[h], job[h], uses[h])
    BY <1>0, <1>1, AtStep
  <1>4. HallOf(row.hall) \in uses[h] /\ row \in Rows /\ job[h].op # "update"
    BY <1>1, <1>3 DEF FitCreate, RowFits
  <1>5. CASE UNCHANGED show
    BY <1>0, <1>1, <1>2, <1>4, <1>5, OwnFree, QuietHall
  <1>6. CASE show' = [show EXCEPT ![s] = row]
    <2>1. /\ show'[s] = row
          /\ \A t \in Showtimes : t # s => show'[t] = show[t]
      BY <1>0, <1>6 DEF TableOK
    <2>2. Exists(s)'
      BY <1>4, <2>1, NoRowIsNone DEF Exists
    <2>3. HallOf(row.hall) \in raced \/ \A t \in Showtimes : FreeOf(row, t)
      BY <1>0, <1>1 DEF FreeInsert
    <2> HIDE DEF row
    <2>4. \/ HallOf(show'[s].hall) \in raced
          \/ \A t \in Showtimes \ {s} : FreeOf(show'[s], t)
      BY <2>1, <2>3
    <2> QED
      BY <1>1, <1>2, <1>4, <2>1, <2>2, <2>4, WriteHall
  <1> QED
    BY <1>5, <1>6 DEF InsertShowtime

LEMMA WriteHallFree ==
  ASSUME Inv, Inv', RaceInv, HallInv, HallNotDoubleBooked, NEW h \in Handlers, WriteShowtime(h)
  PROVE  HallInv' /\ HallNotDoubleBooked'
  <1> DEFINE new == Updated(h)
             old == job[h].row
             moves == Moves(job[h].change)
  <1>0. TableOK /\ ControlOK /\ RowsFit /\ RestOK /\ ReadOK(h) /\ FreeMove(h)
    BY DEF Inv, HallInv
  <1>1. pc[h] = "write" /\ Finish(h)
    BY DEF WriteShowtime
  <1>2. Alone(h) /\ UNCHANGED raced /\ Finished(h) /\ pc'[h] \notin {"insert", "write"}
    BY <1>0, <1>1, FinishForm DEF Finished
  <1>3. FitUpdate(pc[h], job[h], uses[h])
    BY <1>0, <1>1, AtStep
  <1>4. PICK s \in Showtimes :
          job[h].on = RowOf(s) /\ RowOf(s) \in uses[h]
          /\ (moves => HallOf(NewHall(job[h])) \in uses[h])
    BY <1>3 DEF FitUpdate
  <1>5. job[h].on[2] = s /\ job[h].op = "update"
    BY <1>3, <1>4, ThingsApart DEF FitUpdate
  <1>6. /\ RowFits(new) /\ new.hall = NewHall(job[h]) /\ new.hall \in Halls
        /\ new.start = Or(job[h].change.start, old.start)
        /\ new.movie = Or(job[h].change.movie, old.movie)
        /\ new.end = new.start + Runtime[new.movie]
    BY <1>0, <1>3, UpdatedRow
  <1>7. new.hall = Or(job[h].change.hall, old.hall)
    BY <1>6 DEF NewHall
  <1>8. \/ UNCHANGED <<show, stretched>>
        \/ /\ Exists(s) /\ show' = [show EXCEPT ![s] = new]
           /\ stretched' = IF moves THEN stretched \ {s}
                           ELSE IF new.movie # old.movie THEN stretched \cup {s} ELSE stretched
    BY <1>5 DEF WriteShowtime
  <1> HIDE DEF new, moves
  <1>9. CASE UNCHANGED <<show, stretched>>
    BY <1>0, <1>2, <1>9, OwnFree, QuietHall
  <1>10. CASE /\ Exists(s) /\ show' = [show EXCEPT ![s] = new]
              /\ stretched' = IF moves THEN stretched \ {s}
                              ELSE IF new.movie # old.movie THEN stretched \cup {s} ELSE stretched
    <2>1. /\ show'[s] = new
          /\ \A t \in Showtimes : t # s => show'[t] = show[t]
      BY <1>0, <1>10 DEF TableOK
    <2>2. \A t \in Showtimes : t # s /\ t \in stretched => t \in stretched'
      BY <1>10
    <2>3. Exists(s)'
      BY <1>6, <2>1, NoRowIsNone DEF Exists, RowFits
    <2>4. CASE moves
      <3>1. HallOf(new.hall) \in raced \/ \A t \in Showtimes \ {s} : FreeOf(new, t)
        BY <1>0, <1>1, <1>4, <2>4 DEF FreeMove, moves, new
      <3>2. /\ Exists(s)' /\ HallOf(show'[s].hall) \in uses[h]
            /\ \/ HallOf(show'[s].hall) \in raced
               \/ \A t \in Showtimes \ {s} : FreeOf(show'[s], t)
        BY <1>4, <1>6, <2>1, <2>3, <2>4, <3>1
      <3> QED
        BY <1>2, <1>4, <2>1, <2>2, <3>2, WriteHall
    <2>5. CASE ~moves
      <3>1. Still(s) \/ Excused(s)'
        <4>1. CASE new.movie # old.movie \/ RowOf(s) \in raced
          BY <1>2, <1>10, <2>5, <4>1 DEF Excused
        <4>2. CASE new.movie = old.movie /\ show[s] = old
          <5>1. new.start = old.start /\ new.hall = old.hall
            BY <1>6, <1>7, <2>5 DEF moves, Moves, Or
          <5>2. RowFits(old)
            BY <1>0, <1>10, <4>2 DEF RowsFit
          <5>3. old.end \in Nat /\ old.start \in Nat /\ Runtime[old.movie] \in Nat
            BY <5>2, Numbers DEF RowFits, Rows
          <5>4. new.end <= old.end
            BY <1>6, <4>2, <5>1, <5>2, <5>3 DEF RowFits
          <5>5. stretched' = stretched
            BY <1>10, <2>5, <4>2
          <5> QED
            BY <1>10, <2>1, <4>2, <5>1, <5>4, <5>5 DEF Still
        <4> QED
          BY <1>0, <1>4, <1>5, <1>10, <4>1, <4>2 DEF ReadOK
      <3> QED
        BY <1>2, <1>4, <2>1, <2>2, <3>1, WriteHall
    <2> QED
      BY <2>4, <2>5
  <1> QED
    BY <1>8, <1>9, <1>10

LEMMA MarkHallFree ==
  ASSUME Inv, Inv', RaceInv, HallInv, HallNotDoubleBooked, NEW h \in Handlers, MarkCancelled(h)
  PROVE  HallInv' /\ HallNotDoubleBooked'
  <1>0. TableOK /\ ControlOK /\ ReadOK(h)
    BY DEF Inv, HallInv
  <1>1. pc[h] = "mark" /\ Finish(h) /\ UNCHANGED stretched
    BY DEF MarkCancelled
  <1>2. Alone(h) /\ UNCHANGED raced /\ Finished(h) /\ pc'[h] \notin {"insert", "write"}
    BY <1>0, <1>1, FinishForm DEF Finished
  <1>3. PICK s \in Showtimes : job[h].on = RowOf(s) /\ RowOf(s) \in uses[h]
    BY <1>0, <1>1, AtStep DEF FitCancel
  <1>4. job[h].on[2] = s
    BY <1>3, ThingsApart
  <1>5. CASE UNCHANGED show
    BY <1>0, <1>1, <1>2, <1>5, OwnFree, QuietHall
  <1>6. CASE Exists(s) /\ show' = [show EXCEPT ![s].status = "CANCELLED"]
    <2>1. \A t \in Showtimes : t # s => show'[t] = show[t]
      BY <1>0, <1>6 DEF TableOK
    <2>2. show[s] \in Rows
      BY <1>0, <1>6, NoRowIsNone DEF TableOK, Exists
    <2>3. show'[s] = [show[s] EXCEPT !.status = "CANCELLED"]
      BY <1>0, <1>6 DEF TableOK
    <2>4. /\ show'[s].hall = show[s].hall /\ show'[s].start = show[s].start
          /\ show'[s].end = show[s].end
      BY <2>2, <2>3 DEF Rows
    <2>5. show[s].end \in Nat
      BY <2>2 DEF Rows
    <2>6. Still(s)
      BY <1>1, <1>6, <2>4, <2>5 DEF Still
    <2> QED
      BY <1>1, <1>2, <1>3, <2>1, <2>6, WriteHall
  <1> QED
    BY <1>4, <1>5, <1>6 DEF MarkCancelled

LEMMA DropHallFree ==
  ASSUME Inv, Inv', RaceInv, HallInv, HallNotDoubleBooked, NEW h \in Handlers,
         DeleteShowtime(h) \/ DropHall(h) \/ DropCinema(h)
  PROVE  HallInv' /\ HallNotDoubleBooked'
  <1>1. ControlOK /\ ReadOK(h) /\ Finish(h) /\ UNCHANGED stretched
    BY DEF Inv, HallInv, DeleteShowtime, DropHall, DropCinema
  <1>2. Alone(h) /\ UNCHANGED raced /\ Finished(h) /\ pc'[h] \notin {"insert", "write"}
    BY <1>1, FinishForm DEF Finished
  <1>3. (\E S : DropShowtimes(S)) \/ UNCHANGED show
    BY DEF DeleteShowtime, DropHall, DropCinema, timetable
  <1> QED
    BY <1>1, <1>2, <1>3, DropHallRows, OwnFree, QuietHall

\* What a creation and an update that moves find free.
LEMMA CheckHallFree ==
  ASSUME Inv, Inv', HallInv, HallNotDoubleBooked, NEW h \in Handlers,
         CheckMove(h) \/ \E c \in Times : CheckConflict(h, c)
  PROVE  HallInv' /\ HallNotDoubleBooked'
  <1>0. ControlOK /\ ReadOK(h) /\ UNCHANGED <<show, stretched>>
    BY DEF Inv, HallInv, CheckMove, CheckConflict, timetable
  <1>1. CASE CheckMove(h)
    <2> DEFINE new == Updated(h)
    <2>1. pc[h] = "move" /\ (Finish(h) \/ (Goto(h, "write")
                                       /\ ~Conflict(new.hall, new.start, new.end, {job[h].on[2]})))
      BY <1>1 DEF CheckMove
    <2>2. CASE Finish(h)
      <3>1. Alone(h) /\ UNCHANGED raced /\ Finished(h) /\ pc'[h] \notin {"insert", "write"}
        BY <1>0, <2>2, FinishForm DEF Finished
      <3> QED
        BY <1>0, <3>1, OwnFree, QuietHall
    <2>3. CASE Goto(h, "write") /\ ~Conflict(new.hall, new.start, new.end, {job[h].on[2]})
      <3>1. Alone(h) /\ UNCHANGED raced /\ pc'[h] = "write" /\ job'[h] = job[h]
        BY <1>0, <2>3, GotoForm
      <3>2. ReadOK(h)' /\ FreeInsert(h)'
        BY <1>0, <3>1 DEF ReadOK, FreeInsert, Exists
      <3>3. Updated(h)' = new
        BY <3>1 DEF Updated
      <3>4. ASSUME NEW s \in Showtimes, job[h].on = RowOf(s), NEW t \in Showtimes \ {s}
            PROVE  ~Clash(new, show[t])
        <4>1. job[h].on[2] = s
          BY <3>4, ThingsApart
        <4> HIDE DEF new
        <4> QED
          BY <2>3, <4>1 DEF Conflict, Clash
      <3> HIDE DEF new
      <3>5. FreeMove(h)'
        BY <1>0, <3>1, <3>3, <3>4 DEF FreeMove, FreeOf
      <3>6. raced \subseteq raced'
        BY <3>1
      <3> QED
        BY <1>0, <3>1, <3>2, <3>5, <3>6, QuietHall
    <2> QED
      BY <2>1, <2>2, <2>3
  <1>2. ASSUME NEW c \in Times, CheckConflict(h, c)
        PROVE  HallInv' /\ HallNotDoubleBooked'
    <2> DEFINE x == job[h].on[2]
               row == Row(x, job[h].movie, c, EndOf(c, job[h].movie))
    <2>1. /\ Alone(h) /\ UNCHANGED raced /\ (Finished(h) \/ GoesOn(h)) /\ pc'[h] # "write"
          /\ pc'[h] = "insert" => job'[h].row = row
                                  /\ ~Conflict(x, c, EndOf(c, job[h].movie), {})
      BY <1>2, CheckForm
    <2>2. CASE pc'[h] # "insert"
      <3>1. pc'[h] \notin {"insert", "write"} /\ raced \subseteq raced'
        BY <2>1, <2>2
      <3> QED
        BY <1>0, <2>1, <3>1, OwnFree, QuietHall
    <2>3. CASE pc'[h] = "insert"
      <3>1. GoesOn(h) /\ job[h].op = "create"
        BY <1>0, <1>2, <2>1, <2>3, AtStep DEF CheckConflict, FitCreate, Finished
      <3>2. ReadOK(h)'
        BY <3>1 DEF GoesOn, ReadOK
      <3>3. row.hall = x /\ row.start = c /\ row.end = EndOf(c, job[h].movie)
        BY DEF Row
      <3> HIDE DEF x, row
      <3>4. \A t \in Showtimes : ~Clash(row, show[t])
        BY <2>1, <2>3, <3>3 DEF Conflict, Clash
      <3>5. FreeInsert(h)'
        BY <1>0, <2>1, <2>3, <3>4 DEF FreeInsert, FreeOf
      <3>6. FreeMove(h)' /\ raced \subseteq raced'
        BY <2>1 DEF FreeMove
      <3> QED
        BY <1>0, <2>1, <3>2, <3>5, <3>6, QuietHall
    <2> QED
      BY <2>2, <2>3
  <1> QED
    BY <1>1, <1>2

\* The other steps of operations leave the rows alone.
LEMMA OtherHallFree ==
  ASSUME Inv, Inv', HallInv, HallNotDoubleBooked, NEW h \in Handlers,
         CountReservations(h) \/ CheckHolds(h) \/ InsertHall(h) \/ CreateSeatReservation(h)
           \/ Abort(h)
  PROVE  HallInv' /\ HallNotDoubleBooked'
  <1>0. ControlOK /\ ReadOK(h) /\ UNCHANGED <<show, stretched>>
    BY DEF Inv, HallInv, CountReservations, CheckHolds, InsertHall, CreateSeatReservation, Abort,
       timetable
  <1>1. Alone(h) /\ UNCHANGED raced /\ (Finished(h) \/ GoesOn(h))
    BY ProceedForm DEF Proceed
  <1>2. ReadOK(h)' /\ FreeInsert(h)' /\ FreeMove(h)'
    <2>1. CASE CountReservations(h) /\ pc'[h] = "write"
      <3>1. FreeInsert(h)' /\ FreeMove(h)'
        BY <2>1, CountForm DEF FreeInsert, FreeMove
      <3>2. GoesOn(h)
        BY <1>1, <2>1 DEF Finished
      <3>3. ReadOK(h)'
        BY <1>0, <3>2, <1>1 DEF GoesOn, ReadOK, Exists
      <3> QED
        BY <3>1, <3>3
    <2>2. CASE pc'[h] \notin {"insert", "write"}
      BY <1>0, <1>1, <2>2, OwnFree
    <2>3. ASSUME ~CountReservations(h)
          PROVE  pc'[h] \notin {"insert", "write"}
      <3>1. Finish(h) \/ Goto(h, "mark") \/ Goto(h, "delete")
        BY <2>3 DEF CheckHolds, InsertHall, CreateSeatReservation, Abort
      <3> QED
        BY <1>0, <3>1, FinishForm, GotoForm DEF Finished
    <2>4. CountReservations(h) => pc'[h] # "insert"
      BY CountForm
    <2> QED
      BY <2>1, <2>2, <2>3, <2>4
  <1>3. raced \subseteq raced'
    BY <1>1
  <1> QED
    BY <1>0, <1>1, <1>2, <1>3, QuietHall

LEMMA HallStep ==
  ASSUME Inv, Inv', RaceInv, raced \subseteq raced', HallInv, HallNotDoubleBooked, [Next]_vars
  PROVE  HallInv' /\ HallNotDoubleBooked'
  <1>1. ASSUME NEW h \in Handlers, Request(h)
        PROVE  HallInv' /\ HallNotDoubleBooked'
    <2>1. PICK j \in Jobs, step \in Steps, U \in SUBSET Things :
            Begin(h, j, step, U) /\ Fit(step, j, U) /\ StartsRight(step, j)
      BY <1>1, RequestStarted DEF Started
    <2>2. /\ Alone(h) /\ pc'[h] = step /\ job'[h] = j
          /\ UNCHANGED <<timetable, seating, stretched>>
      BY <2>1, StartedForm
    <2>3. UNCHANGED <<show, stretched>>
      BY <2>2 DEF timetable
    <2>4. ReadOK(h)' /\ FreeInsert(h)' /\ FreeMove(h)'
      BY <2>1, <2>2, <2>3 DEF StartsRight, ReadOK, FreeInsert, FreeMove
    <2> QED
      BY <2>2, <2>3, <2>4, QuietHall
  <1>2. ASSUME NEW h \in Handlers, Proceed(h) \/ Abort(h)
        PROVE  HallInv' /\ HallNotDoubleBooked'
    BY <1>2, InsertHallFree, WriteHallFree, MarkHallFree, DropHallFree, CheckHallFree,
       OtherHallFree DEF Proceed
  <1>3. ASSUME NEW h \in Handlers, NEW s \in Showtimes, NEW seat \in Seats,
               ConsumeHold(h, s, seat)
        PROVE  HallInv' /\ HallNotDoubleBooked'
    <2> DEFINE j == [NoJob EXCEPT !.op = "sale", !.on = SeatsOf(s), !.seat = seat]
    <2>1. /\ pc' = [pc EXCEPT ![h] = "reserve"] /\ job' = [job EXCEPT ![h] = j]
          /\ UNCHANGED <<timetable, uses, stretched>>
      BY <1>3 DEF ConsumeHold
    <2>2. j.op = "sale"
      BY NoJobFields DEF Jobs
    <2> HIDE DEF j
    <2>3. /\ Alone(h) /\ job'[h].op = "sale" /\ pc'[h] = "reserve"
          /\ UNCHANGED <<show, stretched>>
      BY <2>1, <2>2 DEF Inv, ControlOK, Alone, timetable
    <2>4. ReadOK(h)' /\ FreeInsert(h)' /\ FreeMove(h)'
      BY <2>3 DEF ReadOK, FreeInsert, FreeMove
    <2> QED
      BY <2>3, <2>4, QuietHall
  <1>4. CASE UNCHANGED <<show, stretched, pc, job>>
    <2>1. \A g \in Handlers : ReadOK(g)' /\ FreeInsert(g)' /\ FreeMove(g)'
      BY <1>4, QuietFree DEF HallInv
    <2> QED
      BY <1>4, <2>1, QuietRows DEF HallInv
  <1> QED
    BY <1>1, <1>2, <1>3, <1>4 DEF Next, Customer, SetHallStatus, SetCinemaStatus, Hold, Unhold,
       ReleaseSeat, vars, control, timetable

LEMMA InitRace == Init => RaceInv
  BY NoJobFields DEF Init, RaceInv

LEMMA InitHall ==
  ASSUME Init
  PROVE  HallInv /\ HallNotDoubleBooked
  <1>1. HallInv
    BY NoJobFields DEF Init, HallInv, ReadOK, FreeInsert, FreeMove
  <1>2. \A s \in Showtimes :
          Exists(s) => ~Conflict(show[s].hall, show[s].start, show[s].end, {s})
    <2>1. Scheduled
      BY DEF Init
    <2> QED
      BY <2>1 DEF Scheduled, Conflict, Exists
  <1>3. ASSUME NEW s \in Showtimes, NEW t \in Showtimes, s # t, Exists(s),
               show[s].hall = show[t].hall,
               Overlap(show[s].start, show[s].end, show[t].start, show[t].end)
        PROVE  FALSE
    <2>1. t \in Showtimes \ {s} /\ show[t].hall = show[s].hall
      BY <1>3
    <2> QED
      BY <1>2, <1>3, <2>1 DEF Conflict
  <1>4. HallNotDoubleBooked
    BY <1>3 DEF HallNotDoubleBooked
  <1> QED
    BY <1>1, <1>4

\* Whatever operations are in progress, two showtimes share a hall and a time
\* only if two operations overlapped on that hall or on one of the rows, or if
\* one of the two got another movie: createShowtime, batchCreateShowtimes and
\* updateShowtime find room for what they write, and keep what they do not.
THEOREM HallCorrect == Spec => []HallNotDoubleBooked
  <1> DEFINE All == RaceInv /\ HallInv /\ HallNotDoubleBooked
  <1>1. Init => All
    BY InitRace, InitHall
  <1>2. Inv /\ Inv' /\ All /\ [Next]_vars => All'
    BY RaceStep, HallStep
  <1>3. All => HallNotDoubleBooked
    OBVIOUS
  <1> HIDE DEF All
  <1> QED
    BY <1>1, <1>2, <1>3, SpecInv, PTL DEF Spec

-----------------------------------------------------------------------------
(* What a deletion or a move found empty still is, or something raced.     *)

Unsold(s) == SeatsOf(s) \in raced \/ reserved[s] = {}

Untouched(s) == SeatsOf(s) \in raced \/ (reserved[s] = {} /\ held[s] = {})

MoveUnsold(g) ==
  (pc[g] \in {"move", "write"} /\ Moves(job[g].change)) =>
    \A s \in Showtimes : job[g].on = RowOf(s) => Unsold(s)

CancelUnsold(g) ==
  /\ (pc[g] = "holds" /\ ~job[g].sold) =>
       \A s \in Showtimes : job[g].on = RowOf(s) => Unsold(s)
  /\ pc[g] = "delete" => \A s \in Showtimes : job[g].on = RowOf(s) => Untouched(s)

HallEmpty(g) ==
  pc[g] = "dropHall" =>
    \A x \in Halls :
      job[g].on = HallOf(x) =>
        HallOf(x) \in raced \/ \A s \in Showtimes : show[s].hall = x => SeatsOf(s) \in raced

CinemaEmpty(g) ==
  pc[g] = "dropCinema" => Cinema \in raced \/ \A x \in Halls : hall[x] \in {"none", "gone"}

SoldOK(g) == MoveUnsold(g) /\ CancelUnsold(g) /\ HallEmpty(g) /\ CinemaEmpty(g)

SoldInv == \A g \in Handlers : SoldOK(g)

\* A step fills no seat plan, no hall and no cinema that g found empty, unless
\* it is raced then.
Spares(g) ==
  /\ \A s \in Showtimes :
       SeatsOf(s) \in uses[g] =>
         \/ SeatsOf(s) \in raced'
         \/ reserved'[s] \subseteq reserved[s] /\ held'[s] \subseteq held[s]
  /\ \A s \in Showtimes :
       \/ show'[s].hall \in {show[s].hall, NoHall} \/ SeatsOf(s) \in raced'
       \/ HallOf(show'[s].hall) \in uses[g] => HallOf(show'[s].hall) \in raced'
  /\ Cinema \in uses[g] =>
       Cinema \in raced' \/ \A x \in Halls : hall[x] \in {"none", "gone"} => hall'[x] \in {"none", "gone"}

LEMMA SoldFrame ==
  ASSUME Inv, raced \subseteq raced', NEW g \in Handlers, pc'[g] = pc[g], job'[g] = job[g],
         Spares(g), SoldOK(g)
  PROVE  SoldOK(g)'
  <1>0. ControlOK /\ TableOK
    BY DEF Inv
  <1>1. ASSUME NEW s \in Showtimes, SeatsOf(s) \in uses[g]
        PROVE  (Unsold(s) => Unsold(s)') /\ (Untouched(s) => Untouched(s)')
    BY <1>1 DEF Spares, Unsold, Untouched
  <1>2. MoveUnsold(g)'
    <2> SUFFICES ASSUME pc[g] \in {"move", "write"}, Moves(job[g].change),
                        NEW s \in Showtimes, job[g].on = RowOf(s)
                 PROVE  Unsold(s)'
      BY DEF MoveUnsold
    <2>1. PICK t \in Showtimes : job[g].on = RowOf(t) /\ SeatsOf(t) \in uses[g]
      BY <1>0, AtStep DEF FitUpdate
    <2>2. s = t
      BY <2>1, ThingsApart
    <2> QED
      BY <1>1, <2>1, <2>2 DEF SoldOK, MoveUnsold
  <1>3. CancelUnsold(g)'
    <2> SUFFICES ASSUME pc[g] \in {"holds", "delete"}, NEW s \in Showtimes, job[g].on = RowOf(s)
                 PROVE  /\ (pc[g] = "holds" /\ ~job[g].sold) => Unsold(s)'
                        /\ pc[g] = "delete" => Untouched(s)'
      BY DEF CancelUnsold
    <2>1. PICK t \in Showtimes : job[g].on = RowOf(t) /\ SeatsOf(t) \in uses[g]
      BY <1>0, AtStep DEF FitCancel
    <2>2. s = t
      BY <2>1, ThingsApart
    <2> QED
      BY <1>1, <2>1, <2>2 DEF SoldOK, CancelUnsold
  <1>4. HallEmpty(g)'
    <2> SUFFICES ASSUME pc[g] = "dropHall", NEW x \in Halls, job[g].on = HallOf(x),
                        HallOf(x) \notin raced', NEW s \in Showtimes, show'[s].hall = x
                 PROVE  SeatsOf(s) \in raced'
      BY DEF HallEmpty
    <2>1. FitHall(pc[g], job[g], uses[g])
      BY <1>0, AtStep
    <2>2. PICK y \in Halls : job[g].on = HallOf(y) /\ uses[g] = {HallOf(y)}
      BY <2>1 DEF FitHall
    <2>3. x = y /\ x # NoHall
      BY <2>2, ThingsApart, SchedulingAssumption
    <2>4. show[s].hall = x => SeatsOf(s) \in raced
      BY DEF SoldOK, HallEmpty
    <2> QED
      BY <2>2, <2>3, <2>4 DEF Spares
  <1>5. CinemaEmpty(g)'
    <2> SUFFICES ASSUME pc[g] = "dropCinema"
                 PROVE  CinemaEmpty(g)'
      BY DEF CinemaEmpty
    <2>1. Cinema \in uses[g]
      BY <1>0, AtStep DEF FitCinema
    <2> QED
      BY <2>1 DEF SoldOK, CinemaEmpty, Spares
  <1> QED
    BY <1>2, <1>3, <1>4, <1>5 DEF SoldOK

\* An operation takes a step.
LEMMA SoldAlone ==
  ASSUME Inv, raced \subseteq raced', SoldInv, NEW h \in Handlers, Alone(h), SoldOK(h)',
         \A g \in Handlers \ {h} : Spares(g)
  PROVE  SoldInv'
  <1> SUFFICES ASSUME NEW g \in Handlers \ {h}
               PROVE  SoldOK(g)'
    BY DEF SoldInv
  <1> QED
    BY SoldFrame DEF Alone, SoldInv

LEMMA SparesAll ==
  ASSUME NEW g, UNCHANGED <<show, hall>>,
         \A s \in Showtimes : reserved'[s] \subseteq reserved[s] /\ held'[s] \subseteq held[s]
  PROVE  Spares(g)
  BY DEF Spares

\* An operation that has ended, or is at a query that relies on nothing.
LEMMA SoldIdle ==
  ASSUME NEW h \in Handlers,
         pc'[h] \notin {"move", "write", "holds", "delete", "dropHall", "dropCinema"}
  PROVE  SoldOK(h)'
  BY DEF SoldOK, MoveUnsold, CancelUnsold, HallEmpty, CinemaEmpty

\* What the theorem says of a step and the showtime s.
Keeps(s) ==
  (Exists(s) /\ {SeatsOf(s), HallOf(show[s].hall), Cinema} \cap raced' = {}) =>
    /\ reserved[s] # {} => Place(s)' = Place(s)
    /\ held[s] # {}     => Exists(s)'

LEMMA KeptPlace ==
  ASSUME NEW s \in Showtimes,
         ~Exists(s) \/ (show'[s].hall = show[s].hall /\ show'[s].start = show[s].start)
  PROVE  Keeps(s)
  BY DEF Keeps, Place, Exists

-----------------------------------------------------------------------------
(* The steps that change the timetable.                                    *)

LEMMA InsertSold ==
  ASSUME Inv, RaceInv, SoldInv, NEW h \in Handlers, NEW s \in Showtimes, InsertShowtime(h, s)
  PROVE  SoldInv' /\ \A t \in Showtimes : Keeps(t)
  <1>0. TableOK /\ ControlOK
    BY DEF Inv
  <1>1. /\ pc[h] = "insert" /\ s \notin used /\ UNCHANGED <<hall, seating>>
        /\ Finish(h) \/ Goto(h, "look")
        /\ UNCHANGED show \/ show' = [show EXCEPT ![s] = job[h].row]
    BY DEF InsertShowtime
  <1>2. Alone(h) /\ UNCHANGED raced /\ pc'[h] \in {"idle", "look"}
    BY <1>0, <1>1, FinishForm, GotoForm DEF Finished
  <1>3. HallOf(job[h].row.hall) \in uses[h]
    BY <1>0, <1>1, AtStep DEF FitCreate
  <1>4. \A t \in Showtimes : show'[t] = show[t] \/ (t = s /\ show'[t] = job[h].row)
    BY <1>0, <1>1 DEF TableOK
  <1>5. ~Exists(s)
    BY <1>0, <1>1 DEF TableOK
  <1>6. ASSUME NEW g \in Handlers \ {h}
        PROVE  Spares(g)
    <2>1. uses[h] \cap uses[g] \subseteq raced'
      BY <1>2 DEF RaceInv
    <2> QED
      BY <1>1, <1>3, <1>4, <2>1 DEF Spares, seating
  <1>7. SoldInv'
    BY <1>2, <1>6, SoldAlone, SoldIdle
  <1> QED
    BY <1>4, <1>5, <1>7, KeptPlace

LEMMA WriteSold ==
  ASSUME Inv, RaceInv, HallInv, SoldInv, NEW h \in Handlers, WriteShowtime(h)
  PROVE  SoldInv' /\ \A t \in Showtimes : Keeps(t)
  <1> DEFINE new == Updated(h)
             old == job[h].row
             moves == Moves(job[h].change)
  <1>0. TableOK /\ ControlOK /\ ReadOK(h) /\ MoveUnsold(h)
    BY DEF Inv, HallInv, SoldInv, SoldOK
  <1>1. pc[h] = "write" /\ Finish(h) /\ UNCHANGED <<hall, seating>>
    BY DEF WriteShowtime
  <1>2. Alone(h) /\ UNCHANGED raced /\ pc'[h] = "idle"
    BY <1>0, <1>1, FinishForm DEF Finished
  <1>3. FitUpdate(pc[h], job[h], uses[h])
    BY <1>0, <1>1, AtStep
  <1>4. PICK s \in Showtimes :
          job[h].on = RowOf(s) /\ (moves => HallOf(NewHall(job[h])) \in uses[h])
    BY <1>3 DEF FitUpdate
  <1>5. job[h].on[2] = s /\ job[h].op = "update"
    BY <1>3, <1>4, ThingsApart DEF FitUpdate
  <1>6. /\ RowFits(new) /\ new.hall = NewHall(job[h])
        /\ new.start = Or(job[h].change.start, old.start)
    BY <1>0, <1>3, UpdatedRow
  <1>7. new.hall = Or(job[h].change.hall, old.hall)
    BY <1>6 DEF NewHall
  <1>8. \/ UNCHANGED show
        \/ Exists(s) /\ show' = [show EXCEPT ![s] = new]
    BY <1>5 DEF WriteShowtime
  <1> HIDE DEF new, moves
  <1>9. \A t \in Showtimes : show'[t] = show[t] \/ (t = s /\ Exists(s) /\ show'[t] = new)
    BY <1>0, <1>8 DEF TableOK
  <1>10. ~moves => SeatsOf(s) \in raced \/ ~Exists(s) \/ show[s] = old
    BY <1>0, <1>4, <1>5 DEF ReadOK, RaceInv
  <1>11. ~moves => new.hall = old.hall /\ new.start = old.start
    BY <1>6, <1>7 DEF moves, Moves, Or
  <1>12. ASSUME NEW g \in Handlers \ {h}
         PROVE  Spares(g)
    <2>1. uses[h] \cap uses[g] \subseteq raced'
      BY <1>2 DEF RaceInv
    <2>2. \A t \in Showtimes :
            \/ show'[t].hall = show[t].hall \/ SeatsOf(t) \in raced'
            \/ HallOf(show'[t].hall) \in uses[h]
      BY <1>2, <1>4, <1>6, <1>9, <1>10, <1>11
    <2> QED
      BY <1>1, <2>1, <2>2 DEF Spares, seating
  <1>13. SoldInv'
    BY <1>2, <1>12, SoldAlone, SoldIdle
  <1>14. ASSUME NEW t \in Showtimes
         PROVE  Keeps(t)
    <2>1. CASE show'[t] = show[t]
      BY <2>1, KeptPlace
    <2>2. CASE t = s /\ Exists(s) /\ show'[t] = new
      <3>1. Exists(t)'
        BY <1>6, <2>2, NoRowIsNone DEF Exists, RowFits
      <3>2. moves => SeatsOf(s) \in raced \/ reserved[s] = {}
        BY <1>0, <1>1, <1>4 DEF MoveUnsold, Unsold, moves
      <3>3. SeatsOf(s) \in raced \/ reserved[s] = {} \/ Place(s)' = Place(s)
        BY <1>10, <1>11, <2>2, <3>2 DEF Place
      <3> QED
        BY <1>2, <2>2, <3>1, <3>3 DEF Keeps
    <2> QED
      BY <1>9, <2>1, <2>2
  <1> QED
    BY <1>13, <1>14

LEMMA MarkSold ==
  ASSUME Inv, SoldInv, NEW h \in Handlers, MarkCancelled(h)
  PROVE  SoldInv' /\ \A t \in Showtimes : Keeps(t)
  <1>0. TableOK /\ ControlOK
    BY DEF Inv
  <1>1. Finish(h) /\ UNCHANGED <<hall, seating>> /\ pc[h] = "mark"
    BY DEF MarkCancelled
  <1>2. Alone(h) /\ UNCHANGED raced /\ pc'[h] = "idle"
    BY <1>0, <1>1, FinishForm DEF Finished
  <1>3. PICK s \in Showtimes : job[h].on = RowOf(s)
    BY <1>0, <1>1, AtStep DEF FitCancel
  <1>b. job[h].on[2] = s
    BY <1>3, ThingsApart
  <1>4. show' = IF Exists(s) THEN [show EXCEPT ![s].status = "CANCELLED"] ELSE show
    BY <1>b DEF MarkCancelled
  <1>5. \A t \in Showtimes : show'[t].hall = show[t].hall /\ show'[t].start = show[t].start
    <2>1. \A t \in Showtimes : show[t] \in Rows \cup {NoRow}
      BY <1>0 DEF TableOK
    <2>2. ASSUME NEW t \in Showtimes
          PROVE  show'[t] = show[t] \/ show'[t] = [show[t] EXCEPT !.status = "CANCELLED"]
      BY <1>0, <1>4 DEF TableOK
    <2> QED
      BY <2>1, <2>2 DEF Rows, NoRow
  <1>6. \A g \in Handlers : Spares(g)
    BY <1>1, <1>5 DEF Spares, seating
  <1>7. SoldInv'
    BY <1>2, <1>6, SoldAlone, SoldIdle
  <1> QED
    BY <1>5, <1>7, KeptPlace

\* The rows of S are deleted, and no hall appears.
LEMMA DropSold ==
  ASSUME Inv, SoldInv, NEW h \in Handlers, Finish(h), NEW S, DropShowtimes(S),
         \A x \in Halls : hall[x] \in {"none", "gone"} => hall'[x] \in {"none", "gone"},
         \A s \in S \cap Showtimes :
           \/ ~Exists(s) \/ Untouched(s) \/ {HallOf(show[s].hall), Cinema} \cap raced # {}
  PROVE  SoldInv' /\ \A t \in Showtimes : Keeps(t)
  <1>1. Alone(h) /\ UNCHANGED raced /\ pc'[h] = "idle"
    BY FinishForm DEF Finished, Inv
  <1>2. /\ \A s \in Showtimes : show'[s] = IF s \in S THEN NoRow ELSE show[s]
        /\ \A s \in Showtimes : reserved'[s] \subseteq reserved[s] /\ held'[s] = held[s]
    BY DEF DropShowtimes, Inv, SeatOK
  <1>3. \A g \in Handlers : Spares(g)
    BY <1>2, NoRowIsNone DEF Spares
  <1>4. SoldInv'
    BY <1>1, <1>3, SoldAlone, SoldIdle
  <1>5. ASSUME NEW t \in Showtimes
        PROVE  Keeps(t)
    <2>1. CASE t \notin S
      BY <1>2, <2>1, KeptPlace
    <2>2. CASE t \in S
      BY <1>1, <2>2 DEF Keeps, Untouched
    <2> QED
      BY <2>1, <2>2
  <1> QED
    BY <1>4, <1>5

LEMMA DeletionsSold ==
  ASSUME Inv, RaceInv, SoldInv, NEW h \in Handlers,
         DeleteShowtime(h) \/ DropHall(h) \/ DropCinema(h)
  PROVE  SoldInv' /\ \A t \in Showtimes : Keeps(t)
  <1>0. TableOK /\ ControlOK /\ SoldOK(h)
    BY DEF Inv, SoldInv
  <1>1. CASE DeleteShowtime(h)
    <2>1. pc[h] = "delete" /\ Finish(h) /\ UNCHANGED hall /\ DropShowtimes({job[h].on[2]})
      BY <1>1 DEF DeleteShowtime
    <2>2. PICK s \in Showtimes : job[h].on = RowOf(s)
      BY <1>0, <2>1, AtStep DEF FitCancel
    <2>3. job[h].on[2] = s
      BY <2>2, ThingsApart
    <2>4. Untouched(s)
      BY <1>0, <2>1, <2>2 DEF SoldOK, CancelUnsold
    <2> QED
      BY <2>1, <2>3, <2>4, DropSold
  <1>2. CASE DropHall(h)
    <2>1. pc[h] = "dropHall" /\ Finish(h)
      BY <1>2 DEF DropHall
    <2>2. PICK x \in Halls : job[h].on = HallOf(x)
      BY <1>0, <2>1, AtStep DEF FitHall
    <2>3. job[h].on[2] = x
      BY <2>2, ThingsApart
    <2>4. CASE UNCHANGED <<timetable, seating>>
      <3>1. UNCHANGED <<show, hall, held, reserved>>
        BY <2>4 DEF timetable, seating
      <3>2. Alone(h) /\ UNCHANGED raced /\ pc'[h] = "idle"
        BY <1>0, <2>1, FinishForm DEF Finished
      <3> QED
        BY <3>1, <3>2, SparesAll, SoldAlone, SoldIdle, KeptPlace
    <2>5. CASE /\ hall' = [hall EXCEPT ![x] = "gone"]
               /\ DropShowtimes({s \in Showtimes : show[s].hall = x})
      <3> DEFINE S == {s \in Showtimes : show[s].hall = x}
      <3>1. \A y \in Halls : hall[y] \in {"none", "gone"} => hall'[y] \in {"none", "gone"}
        BY <1>0, <2>5 DEF TableOK
      <3>2. \A s \in S \cap Showtimes : Untouched(s) \/ HallOf(show[s].hall) \in raced
        BY <1>0, <2>1, <2>2 DEF SoldOK, HallEmpty, Untouched
      <3>3. DropShowtimes(S)
        BY <2>5
      <3> HIDE DEF S
      <3> QED
        BY <2>1, <3>1, <3>2, <3>3, DropSold
    <2> QED
      BY <1>2, <2>3, <2>4, <2>5 DEF DropHall
  <1>3. CASE DropCinema(h)
    <2>1. /\ pc[h] = "dropCinema" /\ Finish(h) /\ DropShowtimes(Showtimes)
          /\ hall' = [x \in Halls |-> IF hall[x] = "none" THEN "none" ELSE "gone"]
      BY <1>3 DEF DropCinema
    <2>2. ASSUME NEW s \in Showtimes, Cinema \notin raced
          PROVE  ~Exists(s)
      <3>1. \A x \in Halls : hall[x] \in {"none", "gone"}
        BY <1>0, <2>1, <2>2 DEF SoldOK, CinemaEmpty
      <3> QED
        BY <1>0, <3>1, RowNumbers DEF TableOK
    <2> QED
      BY <2>1, <2>2, DropSold
  <1> QED
    BY <1>1, <1>2, <1>3

-----------------------------------------------------------------------------
(* The other steps.                                                        *)

\* What an operation finds empty before it goes on.
LEMMA CheckSold ==
  ASSUME Inv, SoldInv, NEW h \in Handlers,
         CountReservations(h) \/ CheckMove(h) \/ CheckHolds(h)
  PROVE  SoldOK(h)'
  <1>0. ControlOK /\ SoldOK(h) /\ UNCHANGED <<held, reserved>>
    BY DEF Inv, SoldInv, CountReservations, CheckMove, CheckHolds, seating
  <1>1. Alone(h) /\ UNCHANGED raced /\ (Finished(h) \/ GoesOn(h))
    BY ProceedForm DEF Proceed
  <1>2. CASE Finished(h)
    BY <1>2, SoldIdle DEF Finished
  <1>3. CASE CountReservations(h) /\ GoesOn(h)
    <2>1. /\ pc'[h] = "write" => ~Moves(job'[h].change)
          /\ pc'[h] = "move" => reserved[job[h].on[2]] = {}
          /\ pc'[h] = "holds" => job'[h].sold = (reserved[job[h].on[2]] # {})
          /\ pc'[h] \in {"idle", "holds", "write", "move"}
      BY <1>3, CountForm
    <2>2. \A s \in Showtimes : job'[h].on = RowOf(s) => job[h].on[2] = s
      BY <1>3, ThingsApart DEF GoesOn
    <2>3. MoveUnsold(h)'
      BY <1>0, <2>1, <2>2 DEF MoveUnsold, Unsold
    <2>4. CancelUnsold(h)'
      BY <1>0, <2>1, <2>2 DEF CancelUnsold, Unsold
    <2> QED
      BY <2>1, <2>3, <2>4 DEF SoldOK, HallEmpty, CinemaEmpty
  <1>4. CASE CheckMove(h) /\ GoesOn(h)
    <2>1. pc[h] = "move" /\ pc'[h] \in {"idle", "write"}
      BY <1>0, <1>4, FinishForm, GotoForm DEF CheckMove, Finished
    <2>2. MoveUnsold(h)'
      BY <1>0, <1>1, <1>4, <2>1 DEF SoldOK, MoveUnsold, Unsold, GoesOn
    <2> QED
      BY <2>1, <2>2 DEF SoldOK, CancelUnsold, HallEmpty, CinemaEmpty
  <1>5. CASE CheckHolds(h) /\ GoesOn(h)
    <2>1. pc[h] = "holds"
      BY <1>5 DEF CheckHolds
    <2>2. /\ pc'[h] \in {"idle", "mark", "delete"}
          /\ pc'[h] = "delete" => ~job[h].sold /\ held[job[h].on[2]] = {}
      BY <1>0, <1>5, FinishForm, GotoForm DEF CheckHolds, Finished
    <2>3. ASSUME NEW s \in Showtimes, job'[h].on = RowOf(s), pc'[h] = "delete"
          PROVE  Untouched(s)'
      <3>1. job[h].on = RowOf(s) /\ job[h].on[2] = s
        BY <1>5, <2>3, ThingsApart DEF GoesOn
      <3>2. Unsold(s)
        BY <1>0, <2>1, <2>2, <2>3, <3>1 DEF SoldOK, CancelUnsold
      <3> QED
        BY <1>0, <1>1, <2>2, <2>3, <3>1, <3>2 DEF Unsold, Untouched
    <2>4. CancelUnsold(h)'
      BY <2>2, <2>3 DEF CancelUnsold
    <2> QED
      BY <2>2, <2>4 DEF SoldOK, MoveUnsold, HallEmpty, CinemaEmpty
  <1> QED
    BY <1>1, <1>2, <1>3, <1>4, <1>5

\* Creations, the end of an operation, and new halls.
LEMMA OtherSold ==
  ASSUME Inv, RaceInv, SoldInv, NEW h \in Handlers,
         InsertHall(h) \/ Abort(h) \/ CreateSeatReservation(h) \/ \E c \in Times : CheckConflict(h, c)
  PROVE  SoldOK(h)' /\ \A g \in Handlers \ {h} : Spares(g)
  <1>0. ControlOK /\ TableOK /\ SeatOK
    BY DEF Inv
  <1>1. CASE InsertHall(h)
    <2>1. Finish(h) /\ UNCHANGED <<show, held, reserved>> /\ pc[h] = "insertHall"
      BY <1>1 DEF InsertHall, seating
    <2>2. Cinema \in uses[h]
      BY <1>0, <2>1, AtStep DEF FitHall
    <2>3. \A g \in Handlers \ {h} : uses[h] \cap uses[g] \subseteq raced'
      BY <1>0, <2>1, FinishForm DEF RaceInv
    <2>4. \A g \in Handlers \ {h} : Spares(g)
      BY <2>1, <2>2, <2>3 DEF Spares
    <2> QED
      BY <1>0, <2>1, <2>4, FinishForm, SoldIdle DEF Finished
  <1>2. CASE CreateSeatReservation(h)
    <2>1. Finish(h) /\ UNCHANGED <<timetable, held>> /\ pc[h] = "reserve"
      BY <1>2 DEF CreateSeatReservation
    <2>2. UNCHANGED <<show, hall>>
      BY <2>1 DEF timetable
    <2>3. PICK s \in Showtimes : job[h].on = SeatsOf(s) /\ job[h].op = "sale"
      BY <1>0, <2>1, AtStep DEF FitSale
    <2>4. job[h].on[2] = s
      BY <2>3, ThingsApart
    <2>5. \A t \in Showtimes \ {s} : reserved'[t] = reserved[t]
      BY <1>0, <1>2, <2>4 DEF CreateSeatReservation, SeatOK
    <2>6. \A g \in Handlers : SeatsOf(s) \in uses[g] => SeatsOf(s) \in raced
      BY <2>3 DEF RaceInv
    <2>7. UNCHANGED raced /\ pc'[h] = "idle"
      BY <1>0, <2>1, FinishForm DEF Finished
    <2>8. \A g \in Handlers \ {h} : Spares(g)
      BY <2>1, <2>2, <2>5, <2>6, <2>7 DEF Spares
    <2> QED
      BY <2>7, <2>8, SoldIdle
  <1>3. CASE Abort(h) \/ \E c \in Times : CheckConflict(h, c)
    <2>1. UNCHANGED <<show, hall, held, reserved>>
      BY <1>3 DEF Abort, CheckConflict, timetable, seating
    <2>2. pc'[h] \in {"idle", "look", "insert"}
      <3>1. CASE Abort(h)
        BY <1>0, <3>1, FinishForm DEF Abort, Finished
      <3>2. ASSUME NEW c \in Times, CheckConflict(h, c)
            PROVE  pc'[h] \in {"idle", "look", "insert"}
        BY <1>0, <3>2 DEF CheckConflict, Finish, ControlOK
      <3> QED
        BY <1>3, <3>1, <3>2
    <2> QED
      BY <2>1, <2>2, SparesAll, SoldIdle
  <1> QED
    BY <1>1, <1>2, <1>3

LEMMA ProceedSold ==
  ASSUME Inv, RaceInv, HallInv, SoldInv, NEW h \in Handlers, Proceed(h) \/ Abort(h)
  PROVE  SoldInv' /\ \A t \in Showtimes : Keeps(t)
  <1>1. CASE CountReservations(h) \/ CheckMove(h) \/ CheckHolds(h)
    <2>1. UNCHANGED <<show, hall, held, reserved>>
      BY <1>1 DEF CountReservations, CheckMove, CheckHolds, timetable, seating
    <2>2. SoldOK(h)'
      BY <1>1, CheckSold
    <2>3. Alone(h) /\ raced \subseteq raced'
      BY ProceedForm
    <2>4. \A g \in Handlers \ {h} : Spares(g)
      BY <2>1, SparesAll
    <2> QED
      BY <2>1, <2>2, <2>3, <2>4, SoldAlone, KeptPlace
  <1>2. CASE InsertHall(h) \/ Abort(h) \/ CreateSeatReservation(h)
               \/ \E c \in Times : CheckConflict(h, c)
    <2>1. UNCHANGED show
      BY <1>2 DEF InsertHall, Abort, CreateSeatReservation, CheckConflict, timetable
    <2>2. Alone(h) /\ raced \subseteq raced'
      BY ProceedForm
    <2>3. SoldOK(h)' /\ \A g \in Handlers \ {h} : Spares(g)
      BY <1>2, OtherSold
    <2> QED
      BY <2>1, <2>2, <2>3, SoldAlone, KeptPlace
  <1> QED
    BY <1>1, <1>2, InsertSold, WriteSold, MarkSold, DeletionsSold DEF Proceed

LEMMA RequestSold ==
  ASSUME Inv, SoldInv, NEW h \in Handlers, Request(h)
  PROVE  SoldInv' /\ \A t \in Showtimes : Keeps(t)
  <1>1. PICK j \in Jobs, step \in Steps, U \in SUBSET Things :
          Begin(h, j, step, U) /\ Fit(step, j, U) /\ StartsRight(step, j)
    BY RequestStarted DEF Started
  <1>2. /\ Alone(h) /\ pc'[h] = step /\ job'[h] = j /\ raced \subseteq raced'
        /\ UNCHANGED <<timetable, seating>>
    BY <1>1, StartedForm
  <1>3. UNCHANGED <<show, hall, held, reserved>>
    BY <1>2 DEF timetable, seating
  <1>4. step \in {"look", "count", "insertHall", "dropHall", "dropCinema"}
    BY <1>1 DEF StartsRight
  <1>5. ASSUME step = "dropHall", NEW x \in Halls, j.on = HallOf(x), NEW s \in Showtimes
        PROVE  show[s].hall # x
    <2>1. \A t \in Showtimes : Exists(t) => j.on # HallOf(show[t].hall)
      BY <1>1, <1>5 DEF StartsRight
    <2>2. x # NoHall
      BY <1>5, SchedulingAssumption
    <2> QED
      BY <1>5, <2>1, <2>2 DEF Exists
  <1>6. HallEmpty(h)'
    BY <1>2, <1>3, <1>5 DEF HallEmpty
  <1>7. CinemaEmpty(h)'
    BY <1>1, <1>2, <1>3 DEF CinemaEmpty, StartsRight
  <1>8. SoldOK(h)'
    BY <1>2, <1>4, <1>6, <1>7 DEF SoldOK, MoveUnsold, CancelUnsold
  <1>9. \A g \in Handlers \ {h} : Spares(g)
    BY <1>3, SparesAll
  <1> QED
    BY <1>2, <1>3, <1>8, <1>9, SoldAlone, KeptPlace

\* Customers, and the status of halls and of the cinema.
LEMMA CustomerSold ==
  ASSUME Inv, SoldInv, Customer \/ SetCinemaStatus \/ \E x \in Halls : SetHallStatus(x)
  PROVE  SoldInv' /\ \A t \in Showtimes : Keeps(t)
  <1>0. TableOK /\ SeatOK /\ ControlOK
    BY DEF Inv
  <1>k. UNCHANGED show
    BY DEF Customer, Hold, Unhold, ReleaseSeat, ConsumeHold, SetCinemaStatus, SetHallStatus,
       timetable
  <1>1. ASSUME NEW s \in Showtimes, NEW seat \in Seats, Hold(s, seat)
        PROVE  SoldInv'
    <2>1. /\ raced' = raced \cup ({SeatsOf(s)} \cap UNION {uses[g] : g \in Handlers})
          /\ UNCHANGED <<hall, reserved, pc, job>>
          /\ \A t \in Showtimes \ {s} : held'[t] = held[t]
      BY <1>0, <1>1 DEF Hold, timetable, SeatOK
    <2>2. \A g \in Handlers : SeatsOf(s) \in uses[g] => SeatsOf(s) \in raced'
      BY <2>1
    <2>3. \A g \in Handlers : Spares(g)
      BY <1>k, <2>1, <2>2 DEF Spares
    <2> QED
      BY <2>1, <2>3, SoldFrame DEF SoldInv
  <1>2. ASSUME NEW s \in Showtimes, NEW seat \in Seats, Unhold(s, seat) \/ ReleaseSeat(s, seat)
        PROVE  SoldInv'
    <2>1. UNCHANGED <<hall, pc, job, raced>>
      BY <1>2 DEF Unhold, ReleaseSeat, timetable, control
    <2>2. \A t \in Showtimes : reserved'[t] \subseteq reserved[t] /\ held'[t] \subseteq held[t]
      BY <1>0, <1>2 DEF Unhold, ReleaseSeat, SeatOK
    <2>3. \A g \in Handlers : Spares(g)
      BY <1>k, <2>1, <2>2, SparesAll
    <2> QED
      BY <2>1, <2>3, SoldFrame DEF SoldInv
  <1>3. ASSUME NEW h \in Handlers, NEW s \in Showtimes, NEW seat \in Seats,
               ConsumeHold(h, s, seat)
        PROVE  SoldInv'
    <2> DEFINE j == [NoJob EXCEPT !.op = "sale", !.on = SeatsOf(s), !.seat = seat]
    <2>1. /\ UNCHANGED <<hall, reserved, uses>> /\ held' = [held EXCEPT ![s] = @ \ {seat}]
          /\ pc' = [pc EXCEPT ![h] = "reserve"] /\ job' = [job EXCEPT ![h] = j]
          /\ raced \subseteq raced'
      BY <1>3 DEF ConsumeHold, timetable
    <2> HIDE DEF j
    <2>2. Alone(h) /\ pc'[h] = "reserve"
      BY <1>0, <2>1 DEF Alone, ControlOK
    <2>3. \A t \in Showtimes : reserved'[t] \subseteq reserved[t] /\ held'[t] \subseteq held[t]
      BY <1>0, <2>1 DEF SeatOK
    <2>4. \A g \in Handlers : Spares(g)
      BY <1>k, <2>1, <2>3, SparesAll
    <2> QED
      BY <2>1, <2>2, <2>4, SoldAlone, SoldIdle
  <1>4. ASSUME SetCinemaStatus \/ \E x \in Halls : SetHallStatus(x)
        PROVE  SoldInv'
    <2>1. UNCHANGED <<held, reserved, pc, job, raced>>
      BY <1>4 DEF SetCinemaStatus, SetHallStatus, seating
    <2>2. \A x \in Halls : hall[x] \in {"none", "gone"} => hall'[x] \in {"none", "gone"}
      BY <1>0, <1>4 DEF SetCinemaStatus, SetHallStatus, TableOK
    <2>3. \A g \in Handlers : Spares(g)
      BY <1>k, <2>1, <2>2 DEF Spares
    <2> QED
      BY <2>1, <2>3, SoldFrame DEF SoldInv
  <1>5. SoldInv'
    BY <1>1, <1>2, <1>3, <1>4 DEF Customer
  <1> QED
    BY <1>k, <1>5, KeptPlace

LEMMA SoldStep ==
  ASSUME Inv, RaceInv, HallInv, SoldInv, [Next]_vars
  PROVE  SoldInv' /\ \A t \in Showtimes : Keeps(t)
  <1>1. CASE UNCHANGED vars
    <2>1. UNCHANGED <<show, hall, held, reserved, pc, job, raced>>
      BY <1>1 DEF vars, control, timetable, seating
    <2>2. \A g \in Handlers : Spares(g)
      BY <2>1, SparesAll
    <2> QED
      BY <2>1, <2>2, SoldFrame, KeptPlace DEF SoldInv
  <1> QED
    BY <1>1, RequestSold, ProceedSold, CustomerSold DEF Next

\* A showtime with a reserved seat is neither moved nor deleted, and one with a
\* held seat is not deleted, unless its seat plan, its hall or the cinema was
\* raced for: the counts that cancelShowtime, updateShowtime, deleteHall and
\* deleteCinema make before they write suffice when no sale or creation overlaps
\* them.
THEOREM SoldCorrect == Spec => SoldShowtimeIsKept
  <1> DEFINE All == RaceInv /\ HallInv /\ HallNotDoubleBooked /\ SoldInv
             Kept == \A s \in Showtimes :
                       (Exists(s) /\ {SeatsOf(s), HallOf(show[s].hall), Cinema} \cap raced' = {})
                       => /\ reserved[s] # {} => Place(s)' = Place(s)
                          /\ held[s] # {}     => Exists(s)'
  <1>1. Init => All
    <2>1. Init => SoldInv
      BY DEF Init, SoldInv, SoldOK, MoveUnsold, CancelUnsold, HallEmpty, CinemaEmpty
    <2> QED
      BY <2>1, InitRace, InitHall
  <1>2. Inv /\ Inv' /\ All /\ [Next]_vars => All'
    BY RaceStep, HallStep, SoldStep
  <1>3. Inv /\ All /\ [Next]_vars => [Kept]_vars
    BY SoldStep DEF Keeps
  <1>4. SoldShowtimeIsKept <=> [][Kept]_vars
    BY PTL DEF SoldShowtimeIsKept
  <1> HIDE DEF All, Kept
  <1> QED
    BY <1>1, <1>2, <1>3, <1>4, SpecInv, PTL DEF Spec
=============================================================================
