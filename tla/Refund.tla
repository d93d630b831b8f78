------------------------------- MODULE Refund -------------------------------
(***************************************************************************)
(* A paid booking that is given back: the refunds of its payment, which    *)
(* the back office creates and reviews (refund.service.ts), the voucher    *)
(* the customer may ask for instead, the cancellation and the status       *)
(* changes of the booking (booking.service.ts), its tickets at the door    *)
(* (ticket.service.ts), and its seats in the cinema service, which sells   *)
(* them again once they are released.                                      *)
(*                                                                         *)
(* Every operation reads a row, decides, and writes by the id of the row   *)
(* in a later statement or transaction.  A step is one query or one        *)
(* transaction, together with the decision taken on its result; other      *)
(* operations run in between, and an operation may end at any await.  The  *)
(* database is at READ COMMITTED: a transaction that reads a row does not  *)
(* keep others from writing it.                                            *)
(*                                                                         *)
(* Which of these overlaps do harm is the question, so the history         *)
(* variable shared records the rows that two operations used at a time.    *)
(* The properties say what holds of the rows that were never shared.       *)
(*                                                                         *)
(* The booking has one payment, which is over.  A booking with a second,   *)
(* open payment is the subject of BookingPayment.                          *)
(***************************************************************************)
EXTENDS Integers, FiniteSetsExt

CONSTANTS Handlers,   \* the operations that may be in progress at a time
          RefundIds,  \* the rows of Refunds there may be
          Tickets,    \* the tickets of the booking, which also name its seats
          Price,      \* Payments.amount
          Amounts,    \* the amounts that refunds are asked for
          MaxNotices  \* bound: the RELEASE_SEATS events under way at a time

Rows == RefundIds \cup Tickets \cup {"booking", "payment"}

ASSUME RefundAssumption ==
  /\ Price \in Nat \ {0}
  /\ Amounts \subseteq Nat \ {0}
  /\ MaxNotices \in Nat \ {0}
  /\ RefundIds \cap Tickets = {}
  /\ {"booking", "payment"} \cap (RefundIds \cup Tickets) = {}

VARIABLES
  booking,   \* Bookings.status
  payment,   \* Payments.status
  refund,    \* refund[r]: the row r of Refunds, its status and amount
  vouchers,  \* the refund vouchers of the booking: 0, 1 or 2 for more
  approvals, \* how often a refund was approved: 0, 1 or 2 for more
  ticket,    \* ticket[t]: Tickets.status
  seat,      \* seat[t]: whether SeatReservations has the seat of t for this
             \* booking (ours), for nobody (free) or for another (other)
  notices,   \* the RELEASE_SEATS events of the booking under way
  pc,        \* pc[h]: the next query of operation h
  job,       \* job[h]: its parameters
  uses,      \* uses[h]: the rows operation h reads first and writes later
  shared     \* the rows that two operations have used at the same time

records  == <<booking, payment, refund, ticket>>
history  == <<vouchers, approvals>>
cinema   == <<seat, notices>>
control  == <<pc, job, uses, shared>>
vars     == <<records, history, cinema, control>>

BookingStates == INSTANCE BookingPolicy WITH status <- booking

RefundStates == {"NONE", "PENDING", "PROCESSING", "COMPLETED", "FAILED"}
Refunds      == [status : RefundStates, amount : {0} \cup Amounts]

Kinds == {"create", "process", "approve", "reject", "voucher", "cancel",
          "admin", "cancelTicket"}
Steps == Kinds \cup {"idle", "total", "recheck", "release"}

Jobs == [op     : Kinds \cup {"none"},
         on     : Rows,                       \* the row it is about
         amount : {0} \cup Amounts,           \* create
         to     : BookingStates!Statuses]     \* admin

NoJob == [op |-> "none", on |-> "booking", amount |-> 0, to |-> "PENDING"]

\* The booking was paid and confirmed, and its seats are reserved.
Init ==
  /\ booking   = "CONFIRMED"
  /\ payment   = "COMPLETED"
  /\ refund    = [r \in RefundIds |-> [status |-> "NONE", amount |-> 0]]
  /\ vouchers  = 0
  /\ approvals = 0
  /\ ticket    = [t \in Tickets |-> "VALID"]
  /\ seat      = [t \in Tickets |-> "ours"]
  /\ notices   = 0
  /\ pc        = [h \in Handlers |-> "idle"]
  /\ job       = [h \in Handlers |-> NoJob]
  /\ uses      = [h \in Handlers |-> {}]
  /\ shared    = {}

-----------------------------------------------------------------------------
(* Helpers.                                                                *)

\* The rows an operation on row x reads first and writes later.
Used(op, x) ==
  CASE op = "approve" -> {x, "booking"}
    [] op = "admin"   -> {"booking"} \cup Tickets
    [] OTHER          -> {x}

\* The rows operations other than h use now.
UsedByOthers(h) == UNION {uses[g] : g \in Handlers \ {h}}

\* Operation h has read row x and goes on at step.
Start(h, op, x, amount, to, step) ==
  /\ pc[h] = "idle"
  /\ pc'  = [pc EXCEPT ![h] = step]
  /\ job' = [job EXCEPT ![h] = [op |-> op, on |-> x, amount |-> amount, to |-> to]]
  /\ uses'   = [uses EXCEPT ![h] = Used(op, x)]
  /\ shared' = shared \cup (Used(op, x) \cap UsedByOthers(h))
  /\ UNCHANGED <<records, history, cinema>>

Goto(h, step) ==
  /\ pc' = [pc EXCEPT ![h] = step]
  /\ UNCHANGED <<job, uses, shared>>

Finish(h) ==
  /\ pc'   = [pc EXCEPT ![h] = "idle"]
  /\ job'  = [job EXCEPT ![h] = NoJob]
  /\ uses' = [uses EXCEPT ![h] = {}]
  /\ UNCHANGED shared

SetRefund(r, s) == refund' = [refund EXCEPT ![r].status = s]

More(n) == IF n < 2 THEN n + 1 ELSE n

\* What the refunds of the payment come to that were not rejected.
Active == {r \in RefundIds :
             refund[r].status \in {"PENDING", "PROCESSING", "COMPLETED"}}

\* The amounts of the rows S of Refunds.
Total(w, S) == MapThenSumSet(LAMBDA r : w[r].amount, S)

TotalRefunded == Total(refund, Active)

-----------------------------------------------------------------------------
(* Refunds of the payment.                                                 *)

\* createRefund reads the payment; the status of the booking is not looked at.
StartCreate(h) ==
  /\ payment = "COMPLETED"
  /\ \E a \in Amounts : Start(h, "create", "payment", a, "PENDING", "total")

\* Mutant: the new amount is left out of the comparison.
CheckTotalBefore(h) ==
  /\ pc[h] = "total"
  /\ IF TotalRefunded > Price THEN Finish(h) ELSE Goto(h, "create")
  /\ UNCHANGED <<records, history, cinema>>

\* The refunds that exist are read and added up.
CheckTotal(h) ==
  /\ pc[h] = "total"
  /\ IF TotalRefunded + job[h].amount > Price THEN Finish(h) ELSE Goto(h, "create")
  /\ UNCHANGED <<records, history, cinema>>

CreateRefund(h) ==
  /\ pc[h] = "create"
  /\ \E r \in RefundIds :
       /\ refund[r].status = "NONE"
       /\ refund' = [refund EXCEPT ![r] =
                       [status |-> "PENDING", amount |-> job[h].amount]]
  /\ Finish(h)
  /\ UNCHANGED <<booking, payment, ticket, history, cinema>>

\* Mutant: a refund that was completed or rejected can be approved again.
StartReviewOfAny(h) ==
  \E r \in RefundIds :
     \/ /\ refund[r].status = "PENDING"
        /\ \E op \in {"process", "reject"} : Start(h, op, r, 0, "PENDING", op)
     \/ /\ refund[r].status # "NONE"
        /\ Start(h, "approve", r, 0, "PENDING", "approve")

\* processRefund, rejectRefund and approveRefund read the refund.
StartReview(h) ==
  \E r \in RefundIds :
     \/ /\ refund[r].status = "PENDING"
        /\ \E op \in {"process", "reject"} : Start(h, op, r, 0, "PENDING", op)
     \/ /\ refund[r].status \in {"PENDING", "PROCESSING"}
        /\ Start(h, "approve", r, 0, "PENDING", "approve")

ProcessRefund(h) ==
  /\ pc[h] = "process"
  /\ SetRefund(job[h].on, "PROCESSING")
  /\ Finish(h)
  /\ UNCHANGED <<booking, payment, ticket, history, cinema>>

\* Mutant: the status of the specification, which the database does not have.
RejectAsRejected(h) ==
  /\ pc[h] = "reject"
  /\ SetRefund(job[h].on, "REJECTED")
  /\ Finish(h)
  /\ UNCHANGED <<booking, payment, ticket, history, cinema>>

RejectRefund(h) ==
  /\ pc[h] = "reject"
  /\ SetRefund(job[h].on, "FAILED")
  /\ Finish(h)
  /\ UNCHANGED <<booking, payment, ticket, history, cinema>>

\* One transaction; the tickets of the booking are left as they are.
ApproveRefund(h) ==
  /\ pc[h] = "approve"
  /\ SetRefund(job[h].on, "COMPLETED")
  /\ payment' = "REFUNDED"
  /\ booking' = "CANCELLED"
  /\ approvals' = More(approvals)
  /\ Goto(h, "release")
  /\ UNCHANGED <<ticket, vouchers, cinema>>

-----------------------------------------------------------------------------
(* processRefundAsVoucher.  The time of the showtime and the price of the  *)
(* tickets may end it before the transaction.                              *)

StartVoucher(h) ==
  /\ booking = "CONFIRMED"
  /\ Start(h, "voucher", "booking", 0, "PENDING", "recheck")

\* The first statement of the transaction.
RecheckBooking(h) ==
  /\ pc[h] = "recheck"
  /\ IF booking = "CONFIRMED" THEN Goto(h, "voucher") ELSE Finish(h)
  /\ UNCHANGED <<records, history, cinema>>

\* Mutant: the transaction leaves the booking as it is.
CreateVoucherOnly(h) ==
  /\ pc[h] = "voucher"
  /\ vouchers' = More(vouchers)
  /\ Goto(h, "release")
  /\ UNCHANGED <<records, approvals, cinema>>

\* The voucher and the booking; payment and tickets are left as they are.
CreateVoucher(h) ==
  /\ pc[h] = "voucher"
  /\ vouchers' = More(vouchers)
  /\ booking' = "REFUNDED"
  /\ Goto(h, "release")
  /\ UNCHANGED <<payment, refund, ticket, approvals, cinema>>

\* RELEASE_SEATS is emitted after the transaction, and may be lost.
ReleaseSeats(h) ==
  /\ pc[h] = "release"
  /\ \/ notices < MaxNotices /\ notices' = notices + 1
     \/ UNCHANGED notices
  /\ Finish(h)
  /\ UNCHANGED <<records, history, seat>>

-----------------------------------------------------------------------------
(* The cinema service.                                                     *)

\* Mutant: the event is delivered again.
DeleteSeatReservationsAgain ==
  /\ notices > 0
  /\ seat' = [t \in Tickets |-> "free"]
  /\ UNCHANGED <<records, history, notices, control>>

\* deleteSeatReservations goes by showtime and seat, not by booking.
DeleteSeatReservations ==
  /\ notices > 0
  /\ notices' = notices - 1
  /\ seat' = [t \in Tickets |-> "free"]
  /\ UNCHANGED <<records, history, control>>

\* createSeatReservations for another booking.
SellAgain(t) ==
  /\ seat[t] = "free"
  /\ seat' = [seat EXCEPT ![t] = "other"]
  /\ UNCHANGED <<records, history, notices, control>>

-----------------------------------------------------------------------------
(* The booking and its tickets.                                            *)

\* cancelBooking, also at the end of cancelBookingWithRefund, which computes
\* what the mail says and creates no refund.
StartCancelBooking(h) ==
  /\ booking \in {"PENDING", "CONFIRMED"}
  /\ Start(h, "cancel", "booking", 0, "PENDING", "cancel")

CancelBooking(h) ==
  /\ pc[h] = "cancel"
  /\ booking' = "CANCELLED"
  /\ Finish(h)
  /\ UNCHANGED <<payment, refund, ticket, history, cinema>>

\* Mutant: any transition is allowed.
StartAdminUnchecked(h) ==
  \E to \in BookingStates!Statuses : Start(h, "admin", "booking", 0, to, "admin")

\* updateBookingStatus; a status may follow itself.
StartAdmin(h) ==
  \E to \in BookingStates!Statuses :
     /\ BookingStates!CanTransition(booking, to)
     /\ Start(h, "admin", "booking", 0, to, "admin")

\* What happens to all tickets of a booking that becomes to.
TicketsFor(to) ==
  CASE to = "CONFIRMED" -> [t \in Tickets |-> "VALID"]
    [] to = "COMPLETED" -> [t \in Tickets |-> "USED"]
    [] to \in {"CANCELLED", "EXPIRED"} -> [t \in Tickets |-> to]
    [] OTHER -> ticket

UpdateBookingStatus(h) ==
  /\ pc[h] = "admin"
  /\ booking' = job[h].to
  /\ ticket' = TicketsFor(job[h].to)
  /\ Finish(h)
  /\ UNCHANGED <<payment, refund, history, cinema>>

\* Mutant: the status of the ticket is not looked at.
StartCancelAnyTicket(h) ==
  \E t \in Tickets : Start(h, "cancelTicket", t, 0, "PENDING", "cancelTicket")

\* cancelTicket reads the ticket.
StartCancelTicket(h) ==
  \E t \in Tickets :
     /\ ticket[t] # "USED"
     /\ Start(h, "cancelTicket", t, 0, "PENDING", "cancelTicket")

CancelTicket(h) ==
  /\ pc[h] = "cancelTicket"
  /\ ticket' = [ticket EXCEPT ![job[h].on] = "CANCELLED"]
  /\ Finish(h)
  /\ UNCHANGED <<booking, payment, refund, history, cinema>>

\* useTicket is one statement, whatever the ticket says; validateTicket only
\* reads, in a request of its own.
UseTicket(t) ==
  /\ ticket' = [ticket EXCEPT ![t] = "USED"]
  /\ shared' = shared \cup ({t} \cap UNION {uses[h] : h \in Handlers})
  /\ UNCHANGED <<booking, payment, refund, history, cinema, pc, job, uses>>

\* An error, a refusal or a restart: the rest of operation h does not happen.
Abort(h) ==
  /\ pc[h] # "idle"
  /\ Finish(h)
  /\ UNCHANGED <<records, history, cinema>>

-----------------------------------------------------------------------------
RefundStep(h) ==
  \/ StartCreate(h) \/ CheckTotal(h) \/ CreateRefund(h)
  \/ StartReview(h) \/ ProcessRefund(h) \/ RejectRefund(h) \/ ApproveRefund(h)

VoucherStep(h) ==
  \/ StartVoucher(h) \/ RecheckBooking(h) \/ CreateVoucher(h)

BookingStep(h) ==
  \/ StartCancelBooking(h) \/ CancelBooking(h)
  \/ StartAdmin(h) \/ UpdateBookingStatus(h)

TicketStep(h) == StartCancelTicket(h) \/ CancelTicket(h)

Next ==
  \/ \E h \in Handlers :
       \/ RefundStep(h) \/ VoucherStep(h) \/ ReleaseSeats(h)
       \/ BookingStep(h) \/ TicketStep(h) \/ Abort(h)
  \/ \E t \in Tickets : UseTicket(t) \/ SellAgain(t)
  \/ DeleteSeatReservations

Spec == Init /\ [][Next]_vars

-----------------------------------------------------------------------------
(* Properties.                                                             *)

\* Types; the counters of the history stop at 2.
TypeOK ==
  /\ booking \in BookingStates!Statuses
  /\ payment \in {"COMPLETED", "REFUNDED"}
  /\ refund \in [RefundIds -> Refunds]
  /\ vouchers \in 0 .. 2
  /\ approvals \in 0 .. 2
  /\ ticket \in [Tickets -> {"VALID", "USED", "CANCELLED", "EXPIRED"}]
  /\ seat \in [Tickets -> {"ours", "free", "other"}]
  /\ notices \in 0 .. MaxNotices
  /\ pc \in [Handlers -> Steps]
  /\ job \in [Handlers -> Jobs]
  /\ uses \in [Handlers -> SUBSET Rows]
  /\ shared \subseteq Rows

\* What RF-01 calls the refund status transitions; a pending refund may be
\* approved without being processed first.
MayBecome(s, t) ==
  \/ s = t
  \/ s = "NONE"       /\ t = "PENDING"
  \/ s = "PENDING"    /\ t \in {"PROCESSING", "COMPLETED", "FAILED"}
  \/ s = "PROCESSING" /\ t = "COMPLETED"

\* A refund that two reviews did not use at the same time goes through its
\* transitions only: what was completed or rejected stays so, whatever other
\* operations, also on other refunds of the payment, run beside it
\* (processRefund, approveRefund, rejectRefund check, then update by id).
RefundsFollowTransitions ==
  [][\A r \in RefundIds :
       r \notin shared' => MayBecome(refund[r].status, refund'[r].status)]_vars

\* Unless two creations, or two reviews of one refund, overlapped, what is to
\* be refunded never exceeds the payment (the sum in createRefund).
RefundsWithinPayment ==
  shared \cap (RefundIds \cup {"payment"}) = {} => TotalRefunded <= Price

\* Unless two operations overlapped on the booking, it has one voucher at most
\* (processRefundAsVoucher).
OneVoucher == "booking" \notin shared => vouchers <= 1

\* Unless two operations overlapped on the booking, a booking that is
\* CONFIRMED has been given nothing back, and its seats are its own: no
\* release comes before the booking has ended, and no ended booking is
\* confirmed again.
ConfirmedIsWhole ==
  "booking" \notin shared /\ booking = "CONFIRMED" =>
     /\ payment = "COMPLETED"
     /\ vouchers = 0
     /\ notices = 0
     /\ \A t \in Tickets : seat[t] = "ours"

\* The release of a booking goes by seats, so it can free a seat that was sold
\* to somebody else since; it does so only when the booking was given back
\* twice, by a voucher and a refund or by two refunds, however late the
\* events arrive (deleteSeatReservations).
OthersKeepSeats ==
  [][\A t \in Tickets :
       seat[t] = "other" /\ seat'[t] # "other" => vouchers + approvals >= 2]_vars

\* A ticket that was used at the door is not cancelled, unless its cancellation
\* began before it was used, or an administrator cancels the booking
\* (cancelTicket, updateBookingStatus).
UsedIsNotCancelled ==
  [][\A t \in Tickets :
       ticket[t] = "USED" /\ ticket'[t] = "CANCELLED" =>
          \/ t \in shared
          \/ \E h \in Handlers : pc[h] = "admin" /\ job[h].to = "CANCELLED"]_vars
=============================================================================
