---------------------------- MODULE RefundProofs ----------------------------
(***************************************************************************)
(* Theorems about Refund, for all operations, refunds and tickets.         *)
(*                                                                         *)
(* The argument: an operation has marked the rows it writes as used when   *)
(* it read them (Fits), and two operations that use a row make it shared   *)
(* (Exclusive).  So on a row that is not shared what an operation has read *)
(* still holds when it writes (ReadHolds), and the checks of the code are  *)
(* worth something.  That releases and what was given back agree           *)
(* (Releases) holds whatever is shared.  That the refunds stay within the  *)
(* payment (Within) rests on lemmas about sums over a set of rows.         *)
(***************************************************************************)
EXTENDS Refund, FiniteSetTheorems, WellFoundedInduction, TLAPS

\* An operation that is going to write a row uses it.
Fits ==
  \A h \in Handlers :
     /\ pc[h] = "idle" => uses[h] = {}
     /\ pc[h] \in {"process", "reject", "approve"} =>
          job[h].on \in RefundIds /\ job[h].on \in uses[h]
     /\ pc[h] = "cancelTicket" => job[h].on \in Tickets /\ job[h].on \in uses[h]
     /\ pc[h] \in {"approve", "release", "recheck", "voucher", "cancel", "admin"} =>
          "booking" \in uses[h]
     /\ pc[h] = "admin" => Tickets \subseteq uses[h]

Exclusive ==
  \A g, h \in Handlers : g # h => uses[g] \cap uses[h] \subseteq shared

\* Nobody has written what an operation decided on.
ReadHolds ==
  \A h \in Handlers :
     /\ pc[h] \in {"process", "reject"} /\ job[h].on \notin shared =>
          refund[job[h].on].status = "PENDING"
     /\ pc[h] = "approve" /\ job[h].on \notin shared =>
          refund[job[h].on].status \in {"PENDING", "PROCESSING"}
     /\ pc[h] = "cancelTicket" /\ job[h].on \notin shared =>
          ticket[job[h].on] # "USED"
     /\ pc[h] = "voucher" /\ "booking" \notin shared => booking = "CONFIRMED"
     /\ pc[h] = "admin" /\ "booking" \notin shared /\ job[h].to = "CONFIRMED" =>
          booking = "CONFIRMED"

\* A booking that was paid does not become PENDING.
NotPending ==
  /\ booking # "PENDING"
  /\ \A h \in Handlers : pc[h] = "admin" => job[h].to # "PENDING"

\* A booking is CONFIRMED only before anything was given back.
GivenBack ==
  /\ approvals = 0 => payment = "COMPLETED"
  /\ "booking" \notin shared =>
       /\ vouchers <= 1
       /\ booking = "CONFIRMED" => vouchers = 0 /\ approvals = 0

Given == vouchers + approvals

AllOurs == \A t \in Tickets : seat[t] = "ours"

NoneReleases == \A h \in Handlers : pc[h] # "release"

\* What was given back once is about to be released, is being released, or
\* has been: one of the three.
Releases ==
  /\ Given = 0 => NoneReleases /\ notices = 0 /\ AllOurs
  /\ Given = 1 =>
       /\ notices <= 1
       /\ \A g, h \in Handlers : pc[g] = "release" /\ pc[h] = "release" => g = h
       /\ NoneReleases \/ (notices = 0 /\ AllOurs)
       /\ notices = 0 \/ AllOurs

IInv ==
  /\ TypeOK
  /\ Fits
  /\ Exclusive
  /\ ReadHolds
  /\ NotPending
  /\ GivenBack
  /\ Releases

-----------------------------------------------------------------------------
(* The helpers.                                                            *)

\* The states of a booking, which BookingPolicy names.
LEMMA BookingStatuses ==
  /\ BookingStates!Statuses =
       {"PENDING", "CONFIRMED", "CANCELLED", "EXPIRED", "COMPLETED", "REFUNDED"}
  /\ \A s \in BookingStates!Statuses :
       BookingStates!CanTransition(booking, s) /\ booking \in BookingStates!Statuses =>
         /\ booking = "CONFIRMED" => s # "PENDING"
         /\ booking # s /\ booking # "PENDING" => s # "CONFIRMED" /\ s # "PENDING"
BY DEF BookingStates!Statuses, BookingStates!CanTransition, BookingStates!allowed

\* An operation that starts uses its rows, and what it shares is recorded.
LEMMA StartEffect ==
  ASSUME TypeOK, Exclusive, NEW h \in Handlers, NEW op \in Kinds, NEW x \in Rows,
         NEW a \in {0} \cup Amounts, NEW to \in BookingStates!Statuses,
         NEW step \in Steps, Start(h, op, x, a, to, step)
  PROVE  /\ pc[h] = "idle"
         /\ pc' \in [Handlers -> Steps] /\ job' \in [Handlers -> Jobs]
         /\ uses' \in [Handlers -> SUBSET Rows] /\ shared' \subseteq Rows
         /\ pc'[h] = step
         /\ job'[h].on = x /\ job'[h].amount = a /\ job'[h].to = to
         /\ uses'[h] = Used(op, x)
         /\ \A g \in Handlers \ {h} :
              pc'[g] = pc[g] /\ job'[g] = job[g] /\ uses'[g] = uses[g]
         /\ shared \subseteq shared'
         /\ Exclusive'
<1>1. Used(op, x) \subseteq Rows
  BY DEF Used, Rows
<1>2. /\ pc[h] = "idle" /\ pc' \in [Handlers -> Steps] /\ pc'[h] = step
      /\ \A g \in Handlers \ {h} : pc'[g] = pc[g]
  BY DEF Start, TypeOK
<1>3. /\ job' \in [Handlers -> Jobs]
      /\ job'[h].on = x /\ job'[h].amount = a /\ job'[h].to = to
      /\ \A g \in Handlers \ {h} : job'[g] = job[g]
  BY DEF Start, TypeOK, Jobs
<1>4. /\ uses' \in [Handlers -> SUBSET Rows] /\ uses'[h] = Used(op, x)
      /\ \A g \in Handlers \ {h} : uses'[g] = uses[g]
  BY <1>1 DEF Start, TypeOK
<1>5. shared \subseteq shared' /\ shared' \subseteq Rows
  BY <1>1 DEF Start, TypeOK
<1>6. \A g \in Handlers \ {h} : Used(op, x) \cap uses[g] \subseteq shared'
  BY DEF Start, UsedByOthers
<1>7. Exclusive'
  BY <1>4, <1>5, <1>6 DEF Exclusive
<1> QED
  BY <1>2, <1>3, <1>4, <1>5, <1>7

\* An operation that goes on keeps its parameters and its rows.
LEMMA GotoEffect ==
  ASSUME TypeOK, Exclusive, NEW h \in Handlers, NEW step \in Steps, Goto(h, step)
  PROVE  /\ pc' \in [Handlers -> Steps] /\ job' \in [Handlers -> Jobs]
         /\ uses' \in [Handlers -> SUBSET Rows] /\ shared' \subseteq Rows
         /\ pc'[h] = step
         /\ \A g \in Handlers \ {h} : pc'[g] = pc[g]
         /\ job' = job /\ uses' = uses /\ shared' = shared
         /\ Exclusive'
BY DEF Goto, TypeOK, Exclusive

\* An operation that ends uses nothing.
LEMMA FinishEffect ==
  ASSUME TypeOK, Exclusive, NEW h \in Handlers, Finish(h)
  PROVE  /\ pc' \in [Handlers -> Steps] /\ job' \in [Handlers -> Jobs]
         /\ uses' \in [Handlers -> SUBSET Rows] /\ shared' \subseteq Rows
         /\ pc'[h] = "idle" /\ uses'[h] = {}
         /\ \A g \in Handlers \ {h} :
              pc'[g] = pc[g] /\ job'[g] = job[g] /\ uses'[g] = uses[g]
         /\ shared' = shared
         /\ Exclusive'
<1>1. NoJob \in Jobs
  BY BookingStatuses DEF NoJob, Jobs, Rows
<1>2. pc' \in [Handlers -> Steps] /\ pc'[h] = "idle"
      /\ \A g \in Handlers \ {h} : pc'[g] = pc[g]
  BY DEF Finish, TypeOK, Steps
<1>3. job' \in [Handlers -> Jobs] /\ \A g \in Handlers \ {h} : job'[g] = job[g]
  BY <1>1 DEF Finish, TypeOK
<1>4. /\ uses' \in [Handlers -> SUBSET Rows] /\ uses'[h] = {}
      /\ \A g \in Handlers \ {h} : uses'[g] = uses[g]
  BY DEF Finish, TypeOK
<1>5. shared' = shared /\ shared' \subseteq Rows
  BY DEF Finish, TypeOK
<1>6. Exclusive'
  BY <1>4, <1>5 DEF Exclusive
<1> QED
  BY <1>2, <1>3, <1>4, <1>5, <1>6

\* A row that operation h writes and another operation uses is shared.
LEMMA WrittenIsShared ==
  ASSUME Exclusive, NEW h \in Handlers, NEW g \in Handlers, g # h,
         NEW x \in uses[h], x \in uses[g]
  PROVE  x \in shared
BY DEF Exclusive

\* The status of one refund is written.
LEMMA SetRefundEffect ==
  ASSUME TypeOK, NEW r \in RefundIds, NEW s \in RefundStates, SetRefund(r, s)
  PROVE  /\ refund' \in [RefundIds -> Refunds]
         /\ refund'[r].status = s
         /\ \A q \in RefundIds \ {r} : refund'[q] = refund[q]
BY DEF SetRefund, TypeOK, Refunds

\* The counters of the history go from 0 to 1 to 2.
LEMMA MoreEffect ==
  ASSUME NEW n \in 0 .. 2
  PROVE  More(n) \in 1 .. 2 /\ (n = 0 => More(n) = 1) /\ (n > 0 => More(n) = 2)
BY DEF More

-----------------------------------------------------------------------------
(* The invariant holds at first.                                           *)

LEMMA InitInv == ASSUME RefundAssumption, Init PROVE IInv
<1> USE DEF Init
<1>1. TypeOK
  <2>1. [status |-> "NONE", amount |-> 0] \in Refunds
    BY DEF Refunds, RefundStates
  <2>2. NoJob \in Jobs
    BY BookingStatuses DEF NoJob, Jobs, Rows
  <2>3. refund \in [RefundIds -> Refunds] /\ job \in [Handlers -> Jobs]
    BY <2>1, <2>2
  <2> QED
    BY <2>3, BookingStatuses DEF TypeOK, Steps, RefundAssumption
<1>2. Fits /\ Exclusive /\ ReadHolds /\ NotPending
  BY DEF Fits, Exclusive, ReadHolds, NotPending
<1>3. GivenBack
  BY DEF GivenBack
<1>4. Releases
  BY DEF Releases, Given, NoneReleases, AllOurs
<1> QED
  BY <1>1, <1>2, <1>3, <1>4 DEF IInv

-----------------------------------------------------------------------------
(* Every step preserves it.                                                *)

\* An operation that starts with a decision that is right at that moment.
LEMMA StartInv ==
  ASSUME IInv, NEW h \in Handlers, NEW op \in Kinds, NEW x \in Rows,
         NEW a \in {0} \cup Amounts, NEW to \in BookingStates!Statuses,
         NEW step \in {"total", "process", "reject", "approve", "recheck",
                       "cancel", "admin", "cancelTicket"},
         Start(h, op, x, a, to, step),
         step \in {"process", "reject", "approve"} => x \in RefundIds,
         step \in {"process", "reject"} => refund[x].status = "PENDING",
         step = "approve" =>
           op = "approve" /\ refund[x].status \in {"PENDING", "PROCESSING"},
         step = "cancelTicket" => x \in Tickets /\ ticket[x] # "USED",
         step \in {"recheck", "cancel"} => x = "booking",
         step = "admin" =>
           /\ op = "admin"
           /\ to # "PENDING"
           /\ to = "CONFIRMED" => booking = "CONFIRMED",
         step # "approve" => op # "approve",
         step # "admin" => op # "admin"
  PROVE  IInv'
<1> USE DEF IInv
<1>0. step \in Steps
  BY DEF Steps, Kinds
<1>1. /\ pc[h] = "idle"
      /\ pc' \in [Handlers -> Steps] /\ job' \in [Handlers -> Jobs]
      /\ uses' \in [Handlers -> SUBSET Rows] /\ shared' \subseteq Rows
      /\ pc'[h] = step
      /\ job'[h].on = x /\ job'[h].amount = a /\ job'[h].to = to
      /\ uses'[h] = Used(op, x)
      /\ \A g \in Handlers \ {h} :
           pc'[g] = pc[g] /\ job'[g] = job[g] /\ uses'[g] = uses[g]
      /\ shared \subseteq shared'
      /\ Exclusive'
  BY <1>0, StartEffect
<1>2. /\ UNCHANGED <<booking, payment, refund, ticket, vouchers, approvals, seat, notices>>
  BY DEF Start, records, history, cinema
<1>3. TypeOK'
  BY <1>1, <1>2 DEF TypeOK
<1>4. Fits'
  <2>1. /\ op = "approve" => Used(op, x) = {x, "booking"}
        /\ op = "admin" => Used(op, x) = {"booking"} \cup Tickets
        /\ op \notin {"approve", "admin"} => Used(op, x) = {x}
    BY DEF Used
  <2>2. \A g \in Handlers \ {h} : pc'[g] = pc[g] /\ job'[g] = job[g] /\ uses'[g] = uses[g]
    BY <1>1
  <2> QED
    BY <1>1, <2>1, <2>2 DEF Fits
<1>5. ReadHolds'
  BY <1>1, <1>2 DEF ReadHolds
<1>6. NotPending'
  BY <1>1, <1>2 DEF NotPending
<1>7. GivenBack'
  BY <1>1, <1>2 DEF GivenBack
<1>8. Releases'
  BY <1>1, <1>2 DEF Releases, Given, NoneReleases, AllOurs
<1> QED
  BY <1>1, <1>3, <1>4, <1>5, <1>6, <1>7, <1>8

\* An operation that ends without writing.
LEMMA LeaveInv ==
  ASSUME IInv, NEW h \in Handlers, Finish(h), UNCHANGED <<records, history, cinema>>
  PROVE  IInv'
<1> USE DEF IInv
<1>1. /\ pc' \in [Handlers -> Steps] /\ job' \in [Handlers -> Jobs]
      /\ uses' \in [Handlers -> SUBSET Rows] /\ shared' \subseteq Rows
      /\ pc'[h] = "idle" /\ uses'[h] = {}
      /\ \A g \in Handlers \ {h} :
           pc'[g] = pc[g] /\ job'[g] = job[g] /\ uses'[g] = uses[g]
      /\ shared' = shared
      /\ Exclusive'
  BY FinishEffect
<1>2. UNCHANGED <<booking, payment, refund, ticket, vouchers, approvals, seat, notices>>
  BY DEF records, history, cinema
<1>3. TypeOK'
  BY <1>1, <1>2 DEF TypeOK
<1>4. Fits'
  BY <1>1 DEF Fits
<1>5. ReadHolds'
  BY <1>1, <1>2 DEF ReadHolds
<1>6. NotPending' /\ GivenBack'
  BY <1>1, <1>2 DEF NotPending, GivenBack
<1>7. Releases'
  BY <1>1, <1>2 DEF Releases, Given, NoneReleases, AllOurs
<1> QED
  BY <1>1, <1>3, <1>4, <1>5, <1>6, <1>7

\* An operation that goes on without writing.
LEMMA GoOnInv ==
  ASSUME IInv, NEW h \in Handlers, NEW step \in {"create", "voucher"},
         Goto(h, step), UNCHANGED <<records, history, cinema>>,
         step = "voucher" => "booking" \in uses[h] /\ booking = "CONFIRMED"
  PROVE  IInv'
<1> USE DEF IInv
<1>0. step \in Steps
  BY DEF Steps, Kinds
<1>1. /\ pc' \in [Handlers -> Steps]
      /\ pc'[h] = step
      /\ \A g \in Handlers \ {h} : pc'[g] = pc[g]
      /\ job' = job /\ uses' = uses /\ shared' = shared
      /\ Exclusive'
  BY <1>0, GotoEffect
<1>2. UNCHANGED <<booking, payment, refund, ticket, vouchers, approvals, seat, notices>>
  BY DEF records, history, cinema
<1>3. TypeOK'
  BY <1>1, <1>2 DEF TypeOK
<1>4. Fits'
  BY <1>1 DEF Fits
<1>5. ReadHolds'
  BY <1>1, <1>2 DEF ReadHolds
<1>6. NotPending' /\ GivenBack'
  BY <1>1, <1>2 DEF NotPending, GivenBack
<1>7. Releases'
  BY <1>1, <1>2 DEF Releases, Given, NoneReleases, AllOurs
<1> QED
  BY <1>1, <1>3, <1>4, <1>5, <1>6, <1>7

\* An operation that ends: what follows for the control, whatever it writes.
LEMMA EndEffect ==
  ASSUME IInv, NEW h \in Handlers, Finish(h)
  PROVE  /\ pc' \in [Handlers -> Steps] /\ job' \in [Handlers -> Jobs]
         /\ uses' \in [Handlers -> SUBSET Rows] /\ shared' \subseteq Rows
         /\ pc'[h] = "idle"
         /\ \A g \in Handlers \ {h} : pc'[g] = pc[g] /\ job'[g] = job[g]
         /\ shared' = shared
         /\ Exclusive' /\ Fits'
<1> USE DEF IInv
<1>1. /\ pc' \in [Handlers -> Steps] /\ job' \in [Handlers -> Jobs]
      /\ uses' \in [Handlers -> SUBSET Rows] /\ shared' \subseteq Rows
      /\ pc'[h] = "idle" /\ uses'[h] = {}
      /\ \A g \in Handlers \ {h} :
           pc'[g] = pc[g] /\ job'[g] = job[g] /\ uses'[g] = uses[g]
      /\ shared' = shared
      /\ Exclusive'
  BY FinishEffect
<1>2. Fits'
  BY <1>1 DEF Fits
<1> QED
  BY <1>1, <1>2

\* A new refund is one that nobody reviews yet.
LEMMA CreateRefundInv ==
  ASSUME IInv, NEW h \in Handlers, CreateRefund(h)
  PROVE  IInv'
<1> USE DEF IInv
<1>1. /\ pc' \in [Handlers -> Steps] /\ job' \in [Handlers -> Jobs]
      /\ uses' \in [Handlers -> SUBSET Rows] /\ shared' \subseteq Rows
      /\ pc'[h] = "idle"
      /\ \A g \in Handlers \ {h} : pc'[g] = pc[g] /\ job'[g] = job[g]
      /\ shared' = shared /\ Exclusive' /\ Fits'
  BY EndEffect DEF CreateRefund
<1>2. UNCHANGED <<booking, payment, ticket, vouchers, approvals, seat, notices>>
  BY DEF CreateRefund, history, cinema
<1>3. PICK r \in RefundIds :
        /\ refund[r].status = "NONE"
        /\ refund' = [refund EXCEPT ![r] =
                        [status |-> "PENDING", amount |-> job[h].amount]]
  BY DEF CreateRefund
<1>4. /\ refund' \in [RefundIds -> Refunds]
      /\ \A q \in RefundIds : refund[q].status # "NONE" => refund'[q] = refund[q]
  <2>1. [status |-> "PENDING", amount |-> job[h].amount] \in Refunds
    BY DEF TypeOK, Jobs, Refunds, RefundStates
  <2> QED
    BY <1>3, <2>1 DEF TypeOK
<1>5. TypeOK'
  BY <1>1, <1>2, <1>4 DEF TypeOK
<1>6. ReadHolds'
  BY <1>1, <1>2, <1>4 DEF ReadHolds, Fits
<1>7. NotPending' /\ GivenBack'
  BY <1>1, <1>2 DEF NotPending, GivenBack
<1>8. Releases'
  BY <1>1, <1>2 DEF Releases, Given, NoneReleases, AllOurs
<1> QED
  BY <1>1, <1>5, <1>6, <1>7, <1>8

\* processRefund and rejectRefund: the refund is shared with whoever else
\* decided on it.
LEMMA ReviewInv ==
  ASSUME IInv, NEW h \in Handlers, ProcessRefund(h) \/ RejectRefund(h)
  PROVE  IInv'
<1> USE DEF IInv
<1> DEFINE r == job[h].on
<1>1. /\ pc' \in [Handlers -> Steps] /\ job' \in [Handlers -> Jobs]
      /\ uses' \in [Handlers -> SUBSET Rows] /\ shared' \subseteq Rows
      /\ pc'[h] = "idle"
      /\ \A g \in Handlers \ {h} : pc'[g] = pc[g] /\ job'[g] = job[g]
      /\ shared' = shared /\ Exclusive' /\ Fits'
  BY EndEffect DEF ProcessRefund, RejectRefund
<1>2. /\ pc[h] \in {"process", "reject"}
      /\ UNCHANGED <<booking, payment, ticket, vouchers, approvals, seat, notices>>
  BY DEF ProcessRefund, RejectRefund, history, cinema
<1>3. r \in RefundIds /\ r \in uses[h]
  BY <1>2 DEF Fits
<1>4. /\ refund' \in [RefundIds -> Refunds]
      /\ \A q \in RefundIds \ {r} : refund'[q] = refund[q]
  <2>1. PICK s \in RefundStates : SetRefund(r, s)
    BY DEF ProcessRefund, RejectRefund, RefundStates
  <2> QED
    BY <1>3, <2>1, SetRefundEffect
<1>5. \A g \in Handlers \ {h} : r \in uses[g] => r \in shared
  BY <1>3, WrittenIsShared
<1>6. TypeOK'
  BY <1>1, <1>2, <1>4 DEF TypeOK
<1>7. ReadHolds'
  BY <1>1, <1>2, <1>4, <1>5 DEF ReadHolds, Fits
<1>8. NotPending' /\ GivenBack'
  BY <1>1, <1>2 DEF NotPending, GivenBack
<1>9. Releases'
  BY <1>1, <1>2 DEF Releases, Given, NoneReleases, AllOurs
<1> QED
  BY <1>1, <1>6, <1>7, <1>8, <1>9

\* An operation that goes on to the release of the seats.
LEMMA ToReleaseEffect ==
  ASSUME IInv, NEW h \in Handlers, "booking" \in uses[h], Goto(h, "release")
  PROVE  /\ pc' \in [Handlers -> Steps]
         /\ pc'[h] = "release"
         /\ \A g \in Handlers \ {h} : pc'[g] = pc[g]
         /\ job' = job /\ uses' = uses /\ shared' = shared
         /\ Exclusive' /\ Fits'
<1> USE DEF IInv
<1>1. /\ pc' \in [Handlers -> Steps]
      /\ pc'[h] = "release"
      /\ \A g \in Handlers \ {h} : pc'[g] = pc[g]
      /\ job' = job /\ uses' = uses /\ shared' = shared
      /\ Exclusive'
  BY GotoEffect DEF Steps
<1>2. Fits'
  BY <1>1 DEF Fits
<1> QED
  BY <1>1, <1>2

\* What is given back: one more of one kind, and its seats are to be released.
LEMMA GivenEffect ==
  ASSUME IInv, NEW h \in Handlers, pc'[h] = "release", pc[h] # "release",
         \A g \in Handlers \ {h} : pc'[g] = pc[g],
         \/ vouchers' = More(vouchers) /\ approvals' = approvals
         \/ approvals' = More(approvals) /\ vouchers' = vouchers,
         UNCHANGED <<seat, notices>>
  PROVE  /\ vouchers' \in 0 .. 2 /\ approvals' \in 0 .. 2
         /\ Releases'
<1> USE DEF IInv
<1>1. /\ vouchers \in 0 .. 2 /\ approvals \in 0 .. 2
      /\ vouchers' \in 0 .. 2 /\ approvals' \in 0 .. 2
  BY MoreEffect DEF TypeOK
<1>2. /\ Given' # 0
      /\ Given' = 1 => Given = 0
  BY <1>1, MoreEffect DEF Given
<1>3. CASE Given = 0
  <2>1. NoneReleases /\ notices = 0 /\ AllOurs
    BY <1>3 DEF Releases
  <2>2. notices' = 0 /\ AllOurs'
    BY <2>1 DEF AllOurs
  <2>3. \A g, k \in Handlers : pc'[g] = "release" /\ pc'[k] = "release" => g = k
    BY <2>1 DEF NoneReleases
  <2> QED
    BY <1>1, <1>2, <2>2, <2>3 DEF Releases
<1>4. CASE Given # 0
  BY <1>1, <1>2, <1>4 DEF Releases
<1> QED
  BY <1>1, <1>3, <1>4

\* approveRefund writes the refund, the payment and the booking.
LEMMA ApproveRefundInv ==
  ASSUME IInv, NEW h \in Handlers, ApproveRefund(h)
  PROVE  IInv'
<1> USE DEF IInv
<1> DEFINE r == job[h].on
<1>1. /\ pc[h] = "approve" /\ booking' = "CANCELLED" /\ payment' = "REFUNDED"
      /\ approvals' = More(approvals)
      /\ UNCHANGED <<ticket, vouchers, seat, notices>>
  BY DEF ApproveRefund, cinema
<1>2. r \in RefundIds /\ r \in uses[h] /\ "booking" \in uses[h]
  BY <1>1 DEF Fits
<1>3. /\ pc' \in [Handlers -> Steps]
      /\ pc'[h] = "release"
      /\ \A g \in Handlers \ {h} : pc'[g] = pc[g]
      /\ job' = job /\ uses' = uses /\ shared' = shared
      /\ Exclusive' /\ Fits'
  BY <1>2, ToReleaseEffect DEF ApproveRefund
<1>4. /\ refund' \in [RefundIds -> Refunds]
      /\ \A q \in RefundIds \ {r} : refund'[q] = refund[q]
  BY <1>2, SetRefundEffect DEF ApproveRefund, RefundStates
<1>5. \A g \in Handlers \ {h} :
        /\ r \in uses[g] => r \in shared
        /\ "booking" \in uses[g] => "booking" \in shared
  BY <1>2, WrittenIsShared
<1>6. vouchers' \in 0 .. 2 /\ approvals' \in 0 .. 2 /\ Releases'
  BY <1>1, <1>3, GivenEffect
<1>7. TypeOK'
  BY <1>1, <1>3, <1>4, <1>6, BookingStatuses DEF TypeOK
<1>8. ReadHolds'
  BY <1>1, <1>3, <1>4, <1>5 DEF ReadHolds, Fits
<1>9. NotPending'
  BY <1>1, <1>3 DEF NotPending
<1>10. GivenBack'
  BY <1>1, <1>3, MoreEffect DEF GivenBack, TypeOK
<1> QED
  BY <1>3, <1>6, <1>7, <1>8, <1>9, <1>10

\* The transaction of processRefundAsVoucher.
LEMMA CreateVoucherInv ==
  ASSUME IInv, NEW h \in Handlers, CreateVoucher(h)
  PROVE  IInv'
<1> USE DEF IInv
<1>1. /\ pc[h] = "voucher" /\ booking' = "REFUNDED" /\ vouchers' = More(vouchers)
      /\ UNCHANGED <<payment, refund, ticket, approvals, seat, notices>>
  BY DEF CreateVoucher, cinema
<1>2. "booking" \in uses[h]
  BY <1>1 DEF Fits
<1>3. /\ pc' \in [Handlers -> Steps]
      /\ pc'[h] = "release"
      /\ \A g \in Handlers \ {h} : pc'[g] = pc[g]
      /\ job' = job /\ uses' = uses /\ shared' = shared
      /\ Exclusive' /\ Fits'
  BY <1>2, ToReleaseEffect DEF CreateVoucher
<1>4. \A g \in Handlers \ {h} : "booking" \in uses[g] => "booking" \in shared
  BY <1>2, WrittenIsShared
<1>5. vouchers' \in 0 .. 2 /\ approvals' \in 0 .. 2 /\ Releases'
  BY <1>1, <1>3, GivenEffect
<1>6. TypeOK'
  BY <1>1, <1>3, <1>5, BookingStatuses DEF TypeOK
<1>7. ReadHolds'
  BY <1>1, <1>3, <1>4 DEF ReadHolds, Fits
<1>8. NotPending'
  BY <1>1, <1>3 DEF NotPending
<1>9. GivenBack'
  <2>1. "booking" \notin shared => vouchers = 0
    BY <1>1 DEF ReadHolds, GivenBack
  <2> QED
    BY <1>1, <1>3, <2>1, MoreEffect DEF GivenBack, TypeOK
<1> QED
  BY <1>3, <1>5, <1>6, <1>7, <1>8, <1>9

\* The event is sent, or lost: the operation is done with the release.
LEMMA ReleaseSeatsInv ==
  ASSUME RefundAssumption, IInv, NEW h \in Handlers, ReleaseSeats(h)
  PROVE  IInv'
<1> USE DEF IInv
<1>1. /\ pc' \in [Handlers -> Steps] /\ job' \in [Handlers -> Jobs]
      /\ uses' \in [Handlers -> SUBSET Rows] /\ shared' \subseteq Rows
      /\ pc'[h] = "idle"
      /\ \A g \in Handlers \ {h} : pc'[g] = pc[g] /\ job'[g] = job[g]
      /\ shared' = shared /\ Exclusive' /\ Fits'
  BY EndEffect DEF ReleaseSeats
<1>2. /\ pc[h] = "release"
      /\ notices' \in {notices, notices + 1} /\ notices' \in 0 .. MaxNotices
      /\ UNCHANGED <<booking, payment, refund, ticket, vouchers, approvals, seat>>
  BY DEF ReleaseSeats, records, history, TypeOK, RefundAssumption
<1>3. TypeOK'
  BY <1>1, <1>2 DEF TypeOK
<1>4. ReadHolds'
  BY <1>1, <1>2 DEF ReadHolds
<1>5. NotPending' /\ GivenBack'
  BY <1>1, <1>2 DEF NotPending, GivenBack
<1>6. Releases'
  <2>1. Given' = Given /\ (AllOurs' <=> AllOurs)
    BY <1>2 DEF Given, AllOurs
  <2>2. Given # 0
    BY <1>2 DEF Releases, NoneReleases
  <2>3. ASSUME Given = 1 PROVE Releases'
    <3>1. notices = 0 /\ AllOurs
      BY <1>2, <2>3 DEF Releases, NoneReleases
    <3>2. \A g \in Handlers : pc[g] = "release" => g = h
      BY <1>2, <2>3 DEF Releases
    <3>3. NoneReleases'
      BY <1>1, <3>2 DEF NoneReleases
    <3> QED
      BY <1>2, <2>1, <2>3, <3>1, <3>3 DEF Releases, NoneReleases
  <2> QED
    BY <2>1, <2>2, <2>3 DEF Releases
<1> QED
  BY <1>1, <1>3, <1>4, <1>5, <1>6

\* The cinema service: nothing of the booking service changes.
LEMMA CinemaInv ==
  ASSUME RefundAssumption, IInv,
         DeleteSeatReservations \/ \E t \in Tickets : SellAgain(t)
  PROVE  IInv'
<1> USE DEF IInv
<1>1. /\ UNCHANGED <<booking, payment, refund, ticket, vouchers, approvals>>
      /\ UNCHANGED <<pc, job, uses, shared>>
  BY DEF DeleteSeatReservations, SellAgain, records, history, control
<1>2. Fits' /\ Exclusive' /\ ReadHolds' /\ NotPending' /\ GivenBack'
  BY <1>1 DEF Fits, Exclusive, ReadHolds, NotPending, GivenBack
<1>3. Given' = Given /\ (NoneReleases' <=> NoneReleases)
  BY <1>1 DEF Given, NoneReleases
<1>4. CASE DeleteSeatReservations
  <2>1. notices > 0 /\ notices' = notices - 1 /\ notices' \in 0 .. MaxNotices
    BY <1>4 DEF DeleteSeatReservations, TypeOK, RefundAssumption
  <2>2. seat' \in [Tickets -> {"ours", "free", "other"}]
    BY <1>4 DEF DeleteSeatReservations
  <2>3. Given # 0
    BY <2>1 DEF Releases
  <2>4. Given = 1 => notices' = 0 /\ NoneReleases'
    BY <1>3, <2>1 DEF Releases, TypeOK
  <2>5. Releases'
    BY <1>1, <1>3, <2>3, <2>4 DEF Releases
  <2> QED
    BY <1>1, <1>2, <2>1, <2>2, <2>5 DEF TypeOK
<1>5. CASE \E t \in Tickets : SellAgain(t)
  <2>1. PICK t \in Tickets : SellAgain(t)
    BY <1>5
  <2>2. /\ seat[t] = "free" /\ notices' = notices
        /\ seat' \in [Tickets -> {"ours", "free", "other"}]
    BY <2>1 DEF SellAgain, TypeOK
  <2>3. ~AllOurs
    BY <2>2 DEF AllOurs
  <2>4. Releases'
    BY <1>1, <1>3, <2>2, <2>3 DEF Releases
  <2> QED
    BY <1>1, <1>2, <2>2, <2>4 DEF TypeOK
<1> QED
  BY <1>4, <1>5

\* cancelBooking and updateBookingStatus: the booking, and its tickets, are
\* shared with whoever else decided on them.
LEMMA BookingWriteInv ==
  ASSUME IInv, NEW h \in Handlers, CancelBooking(h) \/ UpdateBookingStatus(h)
  PROVE  IInv'
<1> USE DEF IInv
<1>1. /\ pc' \in [Handlers -> Steps] /\ job' \in [Handlers -> Jobs]
      /\ uses' \in [Handlers -> SUBSET Rows] /\ shared' \subseteq Rows
      /\ pc'[h] = "idle"
      /\ \A g \in Handlers \ {h} : pc'[g] = pc[g] /\ job'[g] = job[g]
      /\ shared' = shared /\ Exclusive' /\ Fits'
  BY EndEffect DEF CancelBooking, UpdateBookingStatus
<1>2. /\ pc[h] \in {"cancel", "admin"}
      /\ UNCHANGED <<payment, refund, vouchers, approvals, seat, notices>>
  BY DEF CancelBooking, UpdateBookingStatus, history, cinema
<1>3. \A g \in Handlers \ {h} : "booking" \in uses[g] => "booking" \in shared
  BY <1>2, WrittenIsShared DEF Fits
<1>4. \/ pc[h] = "cancel" /\ booking' = "CANCELLED" /\ ticket' = ticket
      \/ pc[h] = "admin" /\ booking' = job[h].to /\ ticket' = TicketsFor(job[h].to)
  BY DEF CancelBooking, UpdateBookingStatus
<1>5. ticket' \in [Tickets -> {"VALID", "USED", "CANCELLED", "EXPIRED"}]
  BY <1>4 DEF TicketsFor, TypeOK
<1>6. \A g \in Handlers \ {h}, t \in Tickets :
        t \in uses[g] /\ t \notin shared => ticket'[t] = ticket[t]
  <2>1. CASE pc[h] = "cancel"
    BY <2>1, <1>4
  <2>2. CASE pc[h] = "admin"
    BY <2>2, WrittenIsShared DEF Fits
  <2> QED
    BY <1>2, <2>1, <2>2
<1>7. TypeOK'
  BY <1>1, <1>2, <1>4, <1>5, BookingStatuses DEF TypeOK, Jobs
<1>8. ReadHolds'
  BY <1>1, <1>2, <1>3, <1>6 DEF ReadHolds, Fits
<1>9. NotPending'
  BY <1>1, <1>4 DEF NotPending
<1>10. GivenBack'
  BY <1>1, <1>2, <1>4 DEF GivenBack, ReadHolds
<1>11. Releases'
  BY <1>1, <1>2 DEF Releases, Given, NoneReleases, AllOurs
<1> QED
  BY <1>1, <1>7, <1>8, <1>9, <1>10, <1>11

\* cancelTicket.
LEMMA CancelTicketInv ==
  ASSUME IInv, NEW h \in Handlers, CancelTicket(h)
  PROVE  IInv'
<1> USE DEF IInv
<1>1. /\ pc' \in [Handlers -> Steps] /\ job' \in [Handlers -> Jobs]
      /\ uses' \in [Handlers -> SUBSET Rows] /\ shared' \subseteq Rows
      /\ pc'[h] = "idle"
      /\ \A g \in Handlers \ {h} : pc'[g] = pc[g] /\ job'[g] = job[g]
      /\ shared' = shared /\ Exclusive' /\ Fits'
  BY EndEffect DEF CancelTicket
<1>2. /\ pc[h] = "cancelTicket"
      /\ ticket' = [ticket EXCEPT ![job[h].on] = "CANCELLED"]
      /\ UNCHANGED <<booking, payment, refund, vouchers, approvals, seat, notices>>
  BY DEF CancelTicket, history, cinema
<1>3. job[h].on \in Tickets
  BY <1>2 DEF Fits
<1>4. TypeOK'
  BY <1>1, <1>2, <1>3 DEF TypeOK
<1>5. \A t \in Tickets : ticket[t] # "USED" => ticket'[t] # "USED"
  BY <1>2, <1>3 DEF TypeOK
<1>6. ReadHolds'
  BY <1>1, <1>2, <1>5 DEF ReadHolds, Fits
<1>7. NotPending' /\ GivenBack'
  BY <1>1, <1>2 DEF NotPending, GivenBack
<1>8. Releases'
  BY <1>1, <1>2 DEF Releases, Given, NoneReleases, AllOurs
<1> QED
  BY <1>1, <1>4, <1>6, <1>7, <1>8

\* useTicket, which shares the ticket with a cancellation that goes on.
LEMMA UseTicketInv ==
  ASSUME IInv, NEW t \in Tickets, UseTicket(t)
  PROVE  IInv'
<1> USE DEF IInv
<1>1. /\ ticket' = [ticket EXCEPT ![t] = "USED"]
      /\ shared' = shared \cup ({t} \cap UNION {uses[h] : h \in Handlers})
      /\ UNCHANGED <<booking, payment, refund, vouchers, approvals, seat, notices>>
      /\ UNCHANGED <<pc, job, uses>>
  BY DEF UseTicket, history, cinema
<1>2. shared \subseteq shared' /\ shared' \subseteq Rows
  BY <1>1 DEF TypeOK, Rows
<1>3. TypeOK'
  BY <1>1, <1>2 DEF TypeOK
<1>4. Fits' /\ Exclusive'
  BY <1>1, <1>2 DEF Fits, Exclusive
<1>5. ReadHolds'
  <2>1. \A s \in Tickets : s # t => ticket'[s] = ticket[s]
    BY <1>1 DEF TypeOK
  <2>2. \A h \in Handlers : t \in uses[h] => t \in shared'
    BY <1>1
  <2> QED
    BY <1>1, <1>2, <2>1, <2>2 DEF ReadHolds, Fits
<1>6. NotPending' /\ GivenBack'
  BY <1>1, <1>2 DEF NotPending, GivenBack
<1>7. Releases'
  BY <1>1 DEF Releases, Given, NoneReleases, AllOurs
<1> QED
  BY <1>3, <1>4, <1>5, <1>6, <1>7

-----------------------------------------------------------------------------
(* All steps.                                                              *)

\* The operations that only read in this step.
LEMMA ReadingInv ==
  ASSUME RefundAssumption, IInv, NEW h \in Handlers,
         \/ StartCreate(h) \/ CheckTotal(h) \/ StartReview(h)
         \/ StartVoucher(h) \/ RecheckBooking(h)
         \/ StartCancelBooking(h) \/ StartAdmin(h) \/ StartCancelTicket(h)
         \/ Abort(h)
  PROVE  IInv'
<1>0. /\ "PENDING" \in BookingStates!Statuses
      /\ {"booking", "payment"} \subseteq Rows
      /\ RefundIds \subseteq Rows /\ Tickets \subseteq Rows
  BY BookingStatuses DEF Rows
<1>1. CASE StartCreate(h)
  <2>1. PICK a \in Amounts : Start(h, "create", "payment", a, "PENDING", "total")
    BY <1>1 DEF StartCreate
  <2>2. "create" \in Kinds
    BY DEF Kinds
  <2> QED
    BY <1>0, <2>1, <2>2, StartInv
<1>2. CASE CheckTotal(h)
  <2>1. /\ Finish(h) \/ Goto(h, "create")
        /\ UNCHANGED <<records, history, cinema>>
    BY <1>2 DEF CheckTotal
  <2> QED
    BY <2>1, LeaveInv, GoOnInv
<1>3. CASE StartReview(h)
  <2>1. PICK r \in RefundIds, op \in {"process", "reject", "approve"} :
          /\ Start(h, op, r, 0, "PENDING", op)
          /\ op \in {"process", "reject"} => refund[r].status = "PENDING"
          /\ op = "approve" => refund[r].status \in {"PENDING", "PROCESSING"}
    BY <1>3 DEF StartReview
  <2>2. op \in Kinds /\ r \in Rows
    BY <1>0 DEF Kinds
  <2> QED
    BY <1>0, <2>1, <2>2, StartInv
<1>4. CASE StartVoucher(h)
  <2>1. Start(h, "voucher", "booking", 0, "PENDING", "recheck")
    BY <1>4 DEF StartVoucher
  <2>2. "voucher" \in Kinds
    BY DEF Kinds
  <2> QED
    BY <1>0, <2>1, <2>2, StartInv
<1>5. CASE RecheckBooking(h)
  <2>1. /\ pc[h] = "recheck"
        /\ Finish(h) \/ (Goto(h, "voucher") /\ booking = "CONFIRMED")
        /\ UNCHANGED <<records, history, cinema>>
    BY <1>5 DEF RecheckBooking
  <2>2. "booking" \in uses[h]
    BY <2>1 DEF IInv, Fits
  <2> QED
    BY <2>1, <2>2, LeaveInv, GoOnInv
<1>6. CASE StartCancelBooking(h)
  <2>1. Start(h, "cancel", "booking", 0, "PENDING", "cancel")
    BY <1>6 DEF StartCancelBooking
  <2>2. "cancel" \in Kinds
    BY DEF Kinds
  <2> QED
    BY <1>0, <2>1, <2>2, StartInv
<1>7. CASE StartAdmin(h)
  <2>1. PICK to \in BookingStates!Statuses :
          /\ BookingStates!CanTransition(booking, to)
          /\ Start(h, "admin", "booking", 0, to, "admin")
    BY <1>7 DEF StartAdmin
  <2>2. booking \in BookingStates!Statuses /\ booking # "PENDING"
    BY DEF IInv, TypeOK, NotPending
  <2>3. to # "PENDING" /\ (to = "CONFIRMED" => booking = "CONFIRMED")
    BY <2>1, <2>2, BookingStatuses
  <2>4. "admin" \in Kinds
    BY DEF Kinds
  <2> QED
    BY <1>0, <2>1, <2>3, <2>4, StartInv
<1>8. CASE StartCancelTicket(h)
  <2>1. PICK t \in Tickets :
          /\ ticket[t] # "USED"
          /\ Start(h, "cancelTicket", t, 0, "PENDING", "cancelTicket")
    BY <1>8 DEF StartCancelTicket
  <2>2. "cancelTicket" \in Kinds /\ t \in Rows
    BY <1>0 DEF Kinds
  <2> QED
    BY <1>0, <2>1, <2>2, StartInv
<1>9. CASE Abort(h)
  BY <1>9, LeaveInv DEF Abort
<1> QED
  BY <1>1, <1>2, <1>3, <1>4, <1>5, <1>6, <1>7, <1>8, <1>9

LEMMA StepInv == ASSUME RefundAssumption, IInv, [Next]_vars PROVE IInv'
<1>1. ASSUME NEW h \in Handlers,
             RefundStep(h) \/ VoucherStep(h) \/ ReleaseSeats(h)
               \/ BookingStep(h) \/ TicketStep(h) \/ Abort(h)
      PROVE  IInv'
  BY <1>1, ReadingInv, CreateRefundInv, ReviewInv, ApproveRefundInv, CreateVoucherInv,
     ReleaseSeatsInv, BookingWriteInv, CancelTicketInv
     DEF RefundStep, VoucherStep, BookingStep, TicketStep
<1>2. ASSUME NEW t \in Tickets, UseTicket(t) \/ SellAgain(t)
      PROVE  IInv'
  BY <1>2, UseTicketInv, CinemaInv
<1>3. CASE DeleteSeatReservations
  BY <1>3, CinemaInv
<1>4. CASE UNCHANGED vars
  <2>1. UNCHANGED <<booking, payment, refund, ticket, vouchers, approvals, seat,
                    notices, pc, job, uses, shared>>
    BY <1>4 DEF vars, records, history, cinema, control
  <2> QED
    BY <2>1 DEF IInv, TypeOK, Fits, Exclusive, ReadHolds, NotPending, GivenBack,
                Releases, Given, NoneReleases, AllOurs
<1> QED
  BY <1>1, <1>2, <1>3, <1>4 DEF Next

LEMMA Invariance == Spec => []IInv
<1>1. Init => IInv
  BY InitInv, RefundAssumption
<1>2. IInv /\ [Next]_vars => IInv'
  BY StepInv, RefundAssumption
<1> QED
  BY <1>1, <1>2, PTL DEF Spec

-----------------------------------------------------------------------------
(* The theorems.                                                           *)

\* Every reachable state is well formed, for any number of refunds, tickets
\* and operations at a time.
THEOREM TypeCorrect == Spec => []TypeOK
<1>1. IInv => TypeOK
  BY DEF IInv
<1> QED
  BY <1>1, Invariance, PTL

\* processRefundAsVoucher gives one voucher to a booking, unless operations
\* overlap on the booking.
THEOREM VoucherCorrect == Spec => []OneVoucher
<1>1. IInv => OneVoucher
  BY DEF IInv, GivenBack, OneVoucher
<1> QED
  BY <1>1, Invariance, PTL

\* A booking on which operations do not overlap is CONFIRMED only while nothing
\* was given back and its seats are its own, however late the releases are.
THEOREM WholeCorrect == Spec => []ConfirmedIsWhole
<1>1. IInv => ConfirmedIsWhole
  BY DEF IInv, GivenBack, Releases, Given, AllOurs, ConfirmedIsWhole
<1> QED
  BY <1>1, Invariance, PTL

\* A step on one refund is one of its transitions, unless two reviews of it
\* overlapped.
TransitionsStep ==
  \A r \in RefundIds :
     r \notin shared' => MayBecome(refund[r].status, refund'[r].status)

\* Only the three reviews and the creation write refunds.
LEMMA RefundsUntouched ==
  ASSUME [Next]_vars,
         ~ \E h \in Handlers : \/ CreateRefund(h) \/ ProcessRefund(h)
                               \/ RejectRefund(h) \/ ApproveRefund(h)
  PROVE  refund' = refund
BY DEF Next, vars, records, RefundStep, VoucherStep, BookingStep, TicketStep,
       StartCreate, CheckTotal, StartReview, StartVoucher, RecheckBooking,
       CreateVoucher, ReleaseSeats, StartCancelBooking, CancelBooking, StartAdmin,
       UpdateBookingStatus, StartCancelTicket, CancelTicket, Abort, UseTicket,
       SellAgain, DeleteSeatReservations, Start

\* A refund that two reviews did not use at a time goes through its transitions.
THEOREM TransitionsCorrect == Spec => RefundsFollowTransitions
<1>1. ASSUME IInv, [Next]_vars PROVE TransitionsStep
  <2>1. ASSUME NEW h \in Handlers, CreateRefund(h) PROVE TransitionsStep
    <3>1. PICK r \in RefundIds :
            /\ refund[r].status = "NONE"
            /\ refund' = [refund EXCEPT ![r] =
                            [status |-> "PENDING", amount |-> job[h].amount]]
      BY <2>1 DEF CreateRefund
    <3>2. /\ refund'[r].status = "PENDING"
          /\ \A q \in RefundIds \ {r} : refund'[q] = refund[q]
      BY <1>1, <3>1 DEF IInv, TypeOK
    <3> QED
      BY <3>1, <3>2 DEF TransitionsStep, MayBecome
  <2>2. ASSUME NEW h \in Handlers,
               ProcessRefund(h) \/ RejectRefund(h) \/ ApproveRefund(h)
        PROVE  TransitionsStep
    <3> DEFINE r == job[h].on
    <3>1. /\ r \in RefundIds
          /\ shared' = shared
          /\ pc[h] \in {"process", "reject", "approve"}
      BY <1>1, <2>2 DEF ProcessRefund, RejectRefund, ApproveRefund, Finish, Goto, IInv, Fits
    <3>2. \E s \in RefundStates :
            /\ SetRefund(r, s)
            /\ pc[h] = "process" => s = "PROCESSING"
            /\ pc[h] = "reject"  => s = "FAILED"
            /\ pc[h] = "approve" => s = "COMPLETED"
      BY <2>2 DEF ProcessRefund, RejectRefund, ApproveRefund, RefundStates
    <3>3. PICK s \in RefundStates :
            /\ refund'[r].status = s
            /\ \A q \in RefundIds \ {r} : refund'[q] = refund[q]
            /\ pc[h] = "process" => s = "PROCESSING"
            /\ pc[h] = "reject"  => s = "FAILED"
            /\ pc[h] = "approve" => s = "COMPLETED"
      BY <1>1, <3>1, <3>2, SetRefundEffect DEF IInv
    <3>4. r \notin shared =>
            /\ pc[h] \in {"process", "reject"} => refund[r].status = "PENDING"
            /\ pc[h] = "approve" => refund[r].status \in {"PENDING", "PROCESSING"}
      BY <1>1, <3>1 DEF IInv, ReadHolds
    <3> QED
      BY <3>1, <3>3, <3>4 DEF TransitionsStep, MayBecome
  <2>3. ASSUME refund' = refund PROVE TransitionsStep
    BY <2>3 DEF TransitionsStep, MayBecome
  <2> QED
    BY <1>1, <2>1, <2>2, <2>3, RefundsUntouched
<1>2. IInv /\ [Next]_vars => [TransitionsStep]_vars
  BY <1>1
<1> QED
  BY <1>2, Invariance, PTL DEF Spec, RefundsFollowTransitions, TransitionsStep

\* What a step does to the seats that were sold to others.
OthersStep ==
  \A t \in Tickets :
     seat[t] = "other" /\ seat'[t] # "other" => vouchers + approvals >= 2

\* The release frees a seat of somebody else only for a booking that was given
\* back twice, under every overlap, loss and delay.
THEOREM OthersCorrect == Spec => OthersKeepSeats
<1>1. ASSUME IInv, [Next]_vars PROVE OthersStep
  <2>1. CASE DeleteSeatReservations
    <3>1. ASSUME NEW t \in Tickets, seat[t] = "other" PROVE vouchers + approvals >= 2
      <4>1. notices > 0 /\ ~AllOurs
        BY <2>1, <3>1 DEF DeleteSeatReservations, AllOurs
      <4>2. Given # 0 /\ Given # 1
        BY <1>1, <4>1 DEF IInv, Releases, TypeOK
      <4> QED
        BY <1>1, <4>2 DEF Given, IInv, TypeOK
    <3> QED
      BY <3>1 DEF OthersStep
  <2>2. CASE \E t \in Tickets : SellAgain(t)
    BY <2>2 DEF SellAgain, OthersStep, IInv, TypeOK
  <2>3. CASE ~DeleteSeatReservations /\ ~ \E t \in Tickets : SellAgain(t)
    <3>1. seat' = seat
      BY <1>1, <2>3 DEF Next, vars, cinema, RefundStep, VoucherStep, BookingStep,
         TicketStep, StartCreate, CheckTotal, CreateRefund, StartReview, ProcessRefund,
         RejectRefund, ApproveRefund, StartVoucher, RecheckBooking, CreateVoucher,
         ReleaseSeats, StartCancelBooking, CancelBooking, StartAdmin,
         UpdateBookingStatus, StartCancelTicket, CancelTicket, Abort, UseTicket, Start
    <3> QED
      BY <3>1 DEF OthersStep
  <2> QED
    BY <2>1, <2>2, <2>3
<1>2. IInv /\ [Next]_vars => [OthersStep]_vars
  BY <1>1
<1> QED
  BY <1>2, Invariance, PTL DEF Spec, OthersKeepSeats, OthersStep

\* What a step does to the tickets that were used.
UsedStep ==
  \A t \in Tickets :
     ticket[t] = "USED" /\ ticket'[t] = "CANCELLED" =>
        \/ t \in shared
        \/ \E h \in Handlers : pc[h] = "admin" /\ job[h].to = "CANCELLED"

\* A used ticket is cancelled only by a cancellation that was under way when it
\* was used, or with its booking.
THEOREM UsedCorrect == Spec => UsedIsNotCancelled
<1>1. ASSUME IInv, [Next]_vars PROVE UsedStep
  <2>1. ASSUME NEW h \in Handlers, CancelTicket(h) PROVE UsedStep
    <3>1. /\ job[h].on \in Tickets
          /\ job[h].on \notin shared => ticket[job[h].on] # "USED"
      BY <1>1, <2>1 DEF CancelTicket, IInv, Fits, ReadHolds
    <3> QED
      BY <2>1, <3>1 DEF CancelTicket, UsedStep, IInv, TypeOK
  <2>2. ASSUME NEW h \in Handlers, UpdateBookingStatus(h) PROVE UsedStep
    <3>1. pc[h] = "admin" /\ ticket' = TicketsFor(job[h].to)
      BY <2>2 DEF UpdateBookingStatus
    <3>2. \A t \in Tickets : ticket[t] = "USED" /\ ticket'[t] = "CANCELLED" =>
            job[h].to = "CANCELLED"
      BY <3>1 DEF TicketsFor
    <3> QED
      BY <3>1, <3>2 DEF UsedStep
  <2>3. ASSUME NEW t \in Tickets, UseTicket(t) PROVE UsedStep
    BY <2>3 DEF UseTicket, UsedStep, IInv, TypeOK
  <2>4. ASSUME ~ \E h \in Handlers : CancelTicket(h) \/ UpdateBookingStatus(h),
               ~ \E t \in Tickets : UseTicket(t)
        PROVE  UsedStep
    <3>1. ticket' = ticket
      BY <1>1, <2>4 DEF Next, vars, records, RefundStep, VoucherStep, BookingStep,
         TicketStep, StartCreate, CheckTotal, CreateRefund, StartReview, ProcessRefund,
         RejectRefund, ApproveRefund, StartVoucher, RecheckBooking, CreateVoucher,
         ReleaseSeats, StartCancelBooking, CancelBooking, StartAdmin,
         StartCancelTicket, Abort, SellAgain, DeleteSeatReservations, Start
    <3> QED
      BY <3>1 DEF UsedStep
  <2> QED
    BY <2>1, <2>2, <2>3, <2>4
<1>2. IInv /\ [Next]_vars => [UsedStep]_vars
  BY <1>1
<1> QED
  BY <1>2, Invariance, PTL DEF Spec, UsedIsNotCancelled, UsedStep

-----------------------------------------------------------------------------
(* Sums.  The sum of the amounts is a recursive function on the subsets of *)
(* the rows, which picks the rows in an order nobody knows.  The lemmas    *)
(* say that there is such a function, that its values are numbers, and     *)
(* that the order does not matter.  Each is proved by a smallest set on    *)
(* which it would fail (Smallest), which takes the place of an induction.  *)

\* The sum over s of the amounts in w, when g gives the sums of fewer rows.
Body(w, g, s) ==
  IF s = {} THEN 0
  ELSE LET x == CHOOSE y \in s : TRUE IN w[x].amount + g[s \ {x}]

\* The function g gives the sum of the amounts in w for every subset of S.
Sums(w, g, S) == g = [s \in SUBSET S |-> Body(w, g, s)]

\* What the fold of the library computes.
LEMMA TotalIs == ASSUME NEW w, NEW S PROVE Total(w, S) = (CHOOSE g : Sums(w, g, S))[S]
BY DEF Total, MapThenSumSet, MapThenFoldSet, Sums, Body

\* Among the subsets of a finite set that have a property one is smallest.
LEMMA Smallest ==
  ASSUME NEW S, IsFiniteSet(S), NEW B \in SUBSET SUBSET S, B # {}
  PROVE  \E T \in B : \A U \in B : U \subseteq T => U = T
<1>1. IsWellFoundedOn(StrictSubsetOrdering(S), FiniteSubsetsOf(S))
  BY FS_StrictSubsetOrderingWellFounded
<1>2. B \subseteq FiniteSubsetsOf(S)
  BY FS_Subset DEF FiniteSubsetsOf
<1>3. PICK T \in B : \A U \in B : <<U, T>> \notin StrictSubsetOrdering(S)
  BY <1>1, <1>2, WFMin
<1>4. ASSUME NEW U \in B, U \subseteq T, U # T PROVE FALSE
  <2>1. <<U, T>> \in StrictSubsetOrdering(S)
    BY <1>4 DEF StrictSubsetOrdering
  <2> QED
    BY <1>3, <2>1
<1> QED
  BY <1>4, Zenon

\* Any two functions that add up the same amounts agree where both are defined.
LEMMA SumsAgree ==
  ASSUME NEW w, NEW S, IsFiniteSet(S), NEW f, Sums(w, f, S),
         NEW T \in SUBSET S, NEW g, Sums(w, g, T)
  PROVE  \A s \in SUBSET T : f[s] = g[s]
<1> DEFINE B == {s \in SUBSET T : f[s] # g[s]}
<1>1. ASSUME NEW U \in B, \A s \in B : s \subseteq U => s = U PROVE FALSE
  <2> DEFINE x == CHOOSE y \in U : TRUE
  <2>1. f[U] = Body(w, f, U) /\ g[U] = Body(w, g, U)
    BY DEF Sums
  <2>2. U # {}
    BY <2>1 DEF Body
  <2>3. x \in U /\ U \ {x} \in SUBSET T /\ U \ {x} # U
    BY <2>2
  <2>4. f[U \ {x}] = g[U \ {x}]
    BY <1>1, <2>3
  <2>5. f[U] = g[U]
    BY <2>1, <2>2, <2>4 DEF Body
  <2> QED
    BY <2>5
<1>2. IsFiniteSet(T)
  BY FS_Subset
<1>3. B = {}
  <2>1. B \in SUBSET SUBSET T
    OBVIOUS
  <2> HIDE DEF B
  <2> QED
    BY <1>1, <1>2, <2>1, Smallest
<1> QED
  BY <1>3

\* The row that a sum over s takes first.
Picked(s) == CHOOSE y \in s : TRUE

\* The amounts of a finite set of rows can be added up.
LEMMA SumsExist ==
  ASSUME NEW w, NEW S, IsFiniteSet(S)
  PROVE  \E g : Sums(w, g, S)
<1> DEFINE B == {s \in SUBSET S : ~\E g : Sums(w, g, s)}
<1>1. ASSUME NEW T \in B, \A s \in B : s \subseteq T => s = T PROVE FALSE
  <2> DEFINE G(s) == CHOOSE g : Sums(w, g, s)
             h == [s \in SUBSET T |->
                     IF s = {} THEN 0
                     ELSE w[Picked(s)].amount + G(s \ {Picked(s)})[s \ {Picked(s)}]]
  <2>1. ASSUME NEW s \in SUBSET T, s # T PROVE Sums(w, G(s), s) /\ IsFiniteSet(s)
    <3>1. \E g : Sums(w, g, s)
      BY <1>1, <2>1
    <3> QED
      BY <3>1, FS_Subset
  <2>2. ASSUME NEW s \in SUBSET T, s # T PROVE h[s] = G(s)[s]
    <3>1. Sums(w, G(s), s) /\ IsFiniteSet(s)
      BY <2>1, <2>2
    <3>2. G(s)[s] = Body(w, G(s), s)
      BY <3>1 DEF Sums
    <3>3. CASE s = {}
      BY <3>2, <3>3 DEF Body
    <3>4. CASE s # {}
      <4> DEFINE r == s \ {Picked(s)}
      <4>1. Picked(s) \in s
        BY <3>4 DEF Picked
      <4>2. r \in SUBSET s /\ r \in SUBSET T /\ r # T
        BY <4>1
      <4>3. Sums(w, G(r), r)
        BY <2>1, <4>2
      <4>4. G(s)[r] = G(r)[r]
        BY <3>1, <4>2, <4>3, SumsAgree
      <4> QED
        BY <3>2, <3>4, <4>4 DEF Body, Picked
    <3> QED
      BY <3>3, <3>4
  <2>3. ASSUME NEW s \in SUBSET T PROVE h[s] = Body(w, h, s)
    <3>1. CASE s = {}
      BY <3>1 DEF Body
    <3>2. CASE s # {}
      <4> DEFINE r == s \ {Picked(s)}
      <4>1. Picked(s) \in s
        BY <3>2 DEF Picked
      <4>2. r \in SUBSET T /\ r # T
        BY <4>1
      <4>3. h[r] = G(r)[r]
        BY <2>2, <4>2
      <4>4. h[s] = w[Picked(s)].amount + G(r)[r]
        BY <3>2
      <4> HIDE DEF h, G
      <4> QED
        BY <3>2, <4>3, <4>4 DEF Body, Picked
    <3> QED
      BY <3>1, <3>2
  <2>4. Sums(w, h, T)
    <3>1. h = [s \in SUBSET T |-> h[s]]
      OBVIOUS
    <3> HIDE DEF h
    <3> QED
      BY <2>3, <3>1 DEF Sums
  <2> QED
    BY <1>1, <2>4
<1>2. B = {}
  <2>1. B \in SUBSET SUBSET S
    OBVIOUS
  <2> HIDE DEF B
  <2> QED
    BY <1>1, <2>1, Smallest
<1> QED
  BY <1>2

\* How a sum is computed.
LEMMA TotalPick ==
  ASSUME NEW w, NEW S, IsFiniteSet(S)
  PROVE  /\ S = {} => Total(w, S) = 0
         /\ S # {} => /\ Picked(S) \in S
                      /\ Total(w, S) = w[Picked(S)].amount + Total(w, S \ {Picked(S)})
<1> DEFINE G(s) == CHOOSE g : Sums(w, g, s)
           r == S \ {Picked(S)}
<1>1. Sums(w, G(S), S)
  BY SumsExist
<1>2. G(S)[S] = Body(w, G(S), S)
  BY <1>1 DEF Sums
<1>3. Total(w, S) = G(S)[S] /\ Total(w, r) = G(r)[r]
  BY TotalIs
<1>4. CASE S = {}
  BY <1>2, <1>3, <1>4 DEF Body
<1>5. CASE S # {}
  <2>1. Picked(S) \in S
    BY <1>5 DEF Picked
  <2>2. IsFiniteSet(r) /\ r \in SUBSET S
    BY FS_Subset
  <2>3. Sums(w, G(r), r)
    BY <2>2, SumsExist
  <2>4. G(S)[r] = G(r)[r]
    BY <1>1, <2>2, <2>3, SumsAgree
  <2> QED
    BY <1>2, <1>3, <1>5, <2>1, <2>4 DEF Body, Picked
<1> QED
  BY <1>4, <1>5

Amounted(w, S) == \A r \in S : w[r].amount \in Nat

\* A sum of natural numbers is one.
LEMMA TotalType ==
  ASSUME NEW w, NEW S, IsFiniteSet(S), Amounted(w, S)
  PROVE  Total(w, S) \in Nat
<1> DEFINE B == {s \in SUBSET S : Total(w, s) \notin Nat}
<1>1. ASSUME NEW T \in B, \A s \in B : s \subseteq T => s = T PROVE FALSE
  <2>1. IsFiniteSet(T) /\ Total(w, T) \notin Nat
    BY FS_Subset
  <2>2. T # {} /\ Picked(T) \in T
        /\ Total(w, T) = w[Picked(T)].amount + Total(w, T \ {Picked(T)})
    BY <2>1, TotalPick
  <2>3. Total(w, T \ {Picked(T)}) \in Nat
    BY <1>1, <2>2
  <2>4. w[Picked(T)].amount \in Nat
    BY <2>2 DEF Amounted
  <2> QED
    BY <2>1, <2>2, <2>3, <2>4
<1>2. B = {}
  <2>1. B \in SUBSET SUBSET S
    OBVIOUS
  <2> HIDE DEF B
  <2> QED
    BY <1>1, <2>1, Smallest
<1> QED
  BY <1>2, FS_Subset

\* A sum depends on the amounts of its rows only.
LEMMA TotalSame ==
  ASSUME NEW w, NEW v, NEW S, IsFiniteSet(S), \A r \in S : w[r].amount = v[r].amount
  PROVE  Total(w, S) = Total(v, S)
<1> DEFINE B == {s \in SUBSET S : Total(w, s) # Total(v, s)}
<1>1. ASSUME NEW T \in B, \A s \in B : s \subseteq T => s = T PROVE FALSE
  <2>1. IsFiniteSet(T) /\ Total(w, T) # Total(v, T)
    BY FS_Subset
  <2>2. /\ T # {} /\ Picked(T) \in T
        /\ Total(w, T) = w[Picked(T)].amount + Total(w, T \ {Picked(T)})
        /\ Total(v, T) = v[Picked(T)].amount + Total(v, T \ {Picked(T)})
    BY <2>1, TotalPick
  <2>3. Total(w, T \ {Picked(T)}) = Total(v, T \ {Picked(T)})
    BY <1>1, <2>2
  <2> QED
    BY <2>1, <2>2, <2>3
<1>2. B = {}
  <2>1. B \in SUBSET SUBSET S
    OBVIOUS
  <2> HIDE DEF B
  <2> QED
    BY <1>1, <2>1, Smallest
<1> QED
  BY <1>2

\* A sum does not depend on the order in which the rows are picked: a row may
\* be taken out of it first.
LEMMA TotalRemove ==
  ASSUME NEW w, NEW S, IsFiniteSet(S), Amounted(w, S), NEW q \in S
  PROVE  Total(w, S) = w[q].amount + Total(w, S \ {q})
<1> DEFINE B == {s \in SUBSET S : \E r \in s :
                   Total(w, s) # w[r].amount + Total(w, s \ {r})}
<1>1. ASSUME NEW T \in B, \A s \in B : s \subseteq T => s = T PROVE FALSE
  <2>1. PICK r \in T : Total(w, T) # w[r].amount + Total(w, T \ {r})
    OBVIOUS
  <2> DEFINE x == Picked(T)
  <2>2. IsFiniteSet(T)
    BY FS_Subset
  <2>3. x \in T /\ Total(w, T) = w[x].amount + Total(w, T \ {x})
    BY <2>1, <2>2, TotalPick
  <2>4. x # r
    BY <2>1, <2>3
  <2>5. Total(w, T \ {x}) = w[r].amount + Total(w, (T \ {x}) \ {r})
    BY <1>1, <2>3, <2>4
  <2>6. Total(w, T \ {r}) = w[x].amount + Total(w, (T \ {r}) \ {x})
    BY <1>1, <2>1, <2>3, <2>4
  <2>7. (T \ {x}) \ {r} = (T \ {r}) \ {x}
    OBVIOUS
  <2>8. /\ w[x].amount \in Nat /\ w[r].amount \in Nat
        /\ Total(w, (T \ {r}) \ {x}) \in Nat
    <3>1. IsFiniteSet((T \ {r}) \ {x}) /\ Amounted(w, (T \ {r}) \ {x})
      BY <2>2, FS_Subset DEF Amounted
    <3> QED
      BY <2>3, <3>1, TotalType DEF Amounted
  <2> HIDE DEF x
  <2> QED
    BY <2>1, <2>3, <2>5, <2>6, <2>7, <2>8
<1>2. B = {}
  <2>1. B \in SUBSET SUBSET S
    OBVIOUS
  <2> HIDE DEF B
  <2> QED
    BY <1>1, <2>1, Smallest
<1> QED
  BY <1>2, FS_Subset

-----------------------------------------------------------------------------
(* What is to be refunded.  A creation that has compared the sum with the  *)
(* payment is the only one that uses the payment, unless the payment is    *)
(* shared, so the sum it is going to make is within the payment (Room).    *)

NobodyOverlaps == shared \cap (RefundIds \cup {"payment"}) = {}

\* A creation uses the payment.
CreationsFit ==
  \A h \in Handlers : pc[h] \in {"total", "create"} => "payment" \in uses[h]

\* There is room for the refund a creation is about to write.
Room ==
  \A h \in Handlers : pc[h] = "create" => TotalRefunded + job[h].amount <= Price

Within ==
  /\ IsFiniteSet(Active)
  /\ CreationsFit
  /\ NobodyOverlaps => TotalRefunded <= Price /\ Room

\* The amounts of the refunds are numbers.
LEMMA AmountsType ==
  ASSUME RefundAssumption, NEW w \in [RefundIds -> Refunds], NEW S \in SUBSET RefundIds
  PROVE  Amounted(w, S)
<1>1. {0} \cup Amounts \subseteq Nat
  BY DEF RefundAssumption
<1>2. ASSUME NEW r \in S PROVE w[r].amount \in {0} \cup Amounts
  <2>1. w[r] \in Refunds
    BY <1>2
  <2> QED
    BY <2>1 DEF Refunds
<1> QED
  BY <1>1, <1>2 DEF Amounted

LEMMA InitWithin == ASSUME RefundAssumption, Init PROVE Within
<1>1. Active = {}
  BY DEF Init, Active
<1>2. IsFiniteSet(Active) /\ TotalRefunded = 0
  BY <1>1, FS_EmptySet, TotalPick DEF TotalRefunded
<1>3. CreationsFit /\ Room
  BY DEF Init, CreationsFit, Room
<1>4. 0 <= Price
  BY DEF RefundAssumption
<1> QED
  BY <1>2, <1>3, <1>4 DEF Within

\* What a step does to the control.
LEMMA ControlEffect ==
  ASSUME IInv, [Next]_vars
  PROVE  \/ \E h \in Handlers, op \in Kinds, x \in Rows, a \in {0} \cup Amounts,
               to \in BookingStates!Statuses, step \in Steps \ {"create"} :
              /\ Start(h, op, x, a, to, step)
              /\ step = "total" => op = "create" /\ x = "payment"
         \/ \E h \in Handlers :
              /\ Goto(h, "create")
              /\ pc[h] = "total"
              /\ ~(TotalRefunded + job[h].amount > Price)
              /\ UNCHANGED <<records, history, cinema>>
         \/ \E h \in Handlers, step \in {"voucher", "release"} : Goto(h, step)
         \/ \E h \in Handlers : Finish(h)
         \/ UNCHANGED <<pc, job, uses>> /\ shared \subseteq shared'
<1> DEFINE Started == \E h \in Handlers, op \in Kinds, x \in Rows, a \in {0} \cup Amounts,
                         to \in BookingStates!Statuses, step \in Steps \ {"create"} :
                        /\ Start(h, op, x, a, to, step)
                        /\ step = "total" => op = "create" /\ x = "payment"
<1>0. /\ {"booking", "payment"} \cup RefundIds \cup Tickets \subseteq Rows
      /\ "PENDING" \in BookingStates!Statuses
      /\ Kinds \cup {"total", "recheck"} \subseteq Steps
  BY BookingStatuses DEF Rows, Steps
<1>1. ASSUME NEW h \in Handlers, StartCreate(h) PROVE Started
  <2>1. PICK a \in Amounts : Start(h, "create", "payment", a, "PENDING", "total")
    BY <1>1 DEF StartCreate
  <2>2. "create" \in Kinds /\ "total" \in Steps \ {"create"}
    BY DEF Kinds, Steps
  <2> QED
    BY <1>0, <2>1, <2>2
<1>2. ASSUME NEW h \in Handlers, StartReview(h) PROVE Started
  <2>1. PICK r \in RefundIds, op \in {"process", "reject", "approve"} :
          Start(h, op, r, 0, "PENDING", op)
    BY <1>2 DEF StartReview
  <2>2. op \in Kinds /\ op \in Steps \ {"create"} /\ op # "total" /\ r \in Rows
    BY <1>0 DEF Kinds
  <2> QED
    BY <1>0, <2>1, <2>2
<1>3. ASSUME NEW h \in Handlers, StartVoucher(h) \/ StartCancelBooking(h)
      PROVE  Started
  <2>1. PICK op \in {"voucher", "cancel"}, step \in {"recheck", "cancel"} :
          Start(h, op, "booking", 0, "PENDING", step)
    BY <1>3 DEF StartVoucher, StartCancelBooking
  <2>2. op \in Kinds /\ step \in Steps \ {"create"} /\ step # "total"
    BY DEF Kinds, Steps
  <2> QED
    BY <1>0, <2>1, <2>2
<1>4. ASSUME NEW h \in Handlers, StartAdmin(h) PROVE Started
  <2>1. PICK to \in BookingStates!Statuses :
          Start(h, "admin", "booking", 0, to, "admin")
    BY <1>4 DEF StartAdmin
  <2>2. "admin" \in Kinds /\ "admin" \in Steps \ {"create"}
    BY DEF Kinds, Steps
  <2> QED
    BY <1>0, <2>1, <2>2
<1>5. ASSUME NEW h \in Handlers, StartCancelTicket(h) PROVE Started
  <2>1. PICK t \in Tickets :
          Start(h, "cancelTicket", t, 0, "PENDING", "cancelTicket")
    BY <1>5 DEF StartCancelTicket
  <2>2. "cancelTicket" \in Kinds /\ "cancelTicket" \in Steps \ {"create"} /\ t \in Rows
    BY <1>0 DEF Kinds, Steps
  <2> QED
    BY <1>0, <2>1, <2>2
<1> HIDE DEF Started
<1>6. ASSUME NEW h \in Handlers,
             \/ CreateRefund(h) \/ ProcessRefund(h) \/ RejectRefund(h)
             \/ ReleaseSeats(h) \/ CancelBooking(h) \/ UpdateBookingStatus(h)
             \/ CancelTicket(h) \/ Abort(h)
      PROVE  Finish(h)
  BY <1>6 DEF CreateRefund, ProcessRefund, RejectRefund, ReleaseSeats, CancelBooking,
              UpdateBookingStatus, CancelTicket, Abort
<1>7. ASSUME NEW h \in Handlers,
             ApproveRefund(h) \/ RecheckBooking(h) \/ CreateVoucher(h)
      PROVE  Finish(h) \/ Goto(h, "voucher") \/ Goto(h, "release")
  BY <1>7 DEF ApproveRefund, RecheckBooking, CreateVoucher
<1>8. ASSUME NEW h \in Handlers, CheckTotal(h)
      PROVE  \/ Finish(h)
             \/ /\ Goto(h, "create")
                /\ pc[h] = "total"
                /\ ~(TotalRefunded + job[h].amount > Price)
                /\ UNCHANGED <<records, history, cinema>>
  BY <1>8 DEF CheckTotal
<1>9. ASSUME NEW t \in Tickets, UseTicket(t) \/ SellAgain(t)
      PROVE  UNCHANGED <<pc, job, uses>> /\ shared \subseteq shared'
  BY <1>9 DEF UseTicket, SellAgain, control
<1>10. ASSUME DeleteSeatReservations \/ UNCHANGED vars
       PROVE  UNCHANGED <<pc, job, uses>> /\ shared \subseteq shared'
  BY <1>10 DEF DeleteSeatReservations, vars, control
<1>11. ASSUME NEW h \in Handlers,
              RefundStep(h) \/ VoucherStep(h) \/ ReleaseSeats(h)
                \/ BookingStep(h) \/ TicketStep(h) \/ Abort(h)
       PROVE  \/ Started \/ Finish(h) \/ Goto(h, "voucher") \/ Goto(h, "release")
              \/ /\ Goto(h, "create")
                 /\ pc[h] = "total"
                 /\ ~(TotalRefunded + job[h].amount > Price)
                 /\ UNCHANGED <<records, history, cinema>>
  BY <1>1, <1>2, <1>3, <1>4, <1>5, <1>6, <1>7, <1>8, <1>11
     DEF RefundStep, VoucherStep, BookingStep, TicketStep
<1>12. \/ Started
       \/ \E h \in Handlers :
            /\ Goto(h, "create")
            /\ pc[h] = "total"
            /\ ~(TotalRefunded + job[h].amount > Price)
            /\ UNCHANGED <<records, history, cinema>>
       \/ \E h \in Handlers, step \in {"voucher", "release"} : Goto(h, step)
       \/ \E h \in Handlers : Finish(h)
       \/ UNCHANGED <<pc, job, uses>> /\ shared \subseteq shared'
  BY <1>9, <1>10, <1>11 DEF Next
<1> QED
  BY <1>12 DEF Started

\* A creation goes on using the payment, and finds room when it compares.
LEMMA CreationEffect ==
  ASSUME IInv, CreationsFit, [Next]_vars
  PROVE  /\ shared \subseteq shared'
         /\ CreationsFit'
         /\ \A h \in Handlers : pc'[h] = "create" =>
              /\ job'[h] = job[h]
              /\ \/ pc[h] = "create"
                 \/ /\ ~(TotalRefunded + job[h].amount > Price)
                    /\ refund' = refund
<1> USE DEF IInv
<1>1. ASSUME NEW h \in Handlers, NEW op \in Kinds, NEW x \in Rows,
             NEW a \in {0} \cup Amounts, NEW to \in BookingStates!Statuses,
             NEW step \in Steps \ {"create"}, Start(h, op, x, a, to, step),
             step = "total" => op = "create" /\ x = "payment"
      PROVE  /\ shared \subseteq shared' /\ CreationsFit'
             /\ \A g \in Handlers :
                  pc'[g] = "create" => job'[g] = job[g] /\ pc[g] = "create"
  <2>1. /\ pc'[h] = step /\ uses'[h] = Used(op, x)
        /\ \A g \in Handlers \ {h} :
             pc'[g] = pc[g] /\ job'[g] = job[g] /\ uses'[g] = uses[g]
        /\ shared \subseteq shared'
    BY <1>1, StartEffect
  <2>2. step = "total" => "payment" \in Used(op, x)
    BY <1>1 DEF Used
  <2> QED
    BY <2>1, <2>2 DEF CreationsFit
<1>2. ASSUME NEW h \in Handlers, NEW step \in {"create", "voucher", "release"},
             Goto(h, step), step = "create" => pc[h] = "total"
      PROVE  /\ shared \subseteq shared' /\ CreationsFit' /\ job' = job
             /\ \A g \in Handlers :
                  pc'[g] = "create" => pc[g] = "create" \/ (g = h /\ step = "create")
  <2>1. step \in Steps
    BY DEF Steps, Kinds
  <2>2. /\ pc'[h] = step
        /\ \A g \in Handlers \ {h} : pc'[g] = pc[g]
        /\ job' = job /\ uses' = uses /\ shared' = shared
    BY <1>2, <2>1, GotoEffect
  <2> QED
    BY <1>2, <2>2 DEF CreationsFit
<1>3. ASSUME NEW h \in Handlers, Finish(h)
      PROVE  /\ shared \subseteq shared' /\ CreationsFit'
             /\ \A g \in Handlers :
                  pc'[g] = "create" => job'[g] = job[g] /\ pc[g] = "create"
  <2>1. /\ pc'[h] = "idle"
        /\ \A g \in Handlers \ {h} :
             pc'[g] = pc[g] /\ job'[g] = job[g] /\ uses'[g] = uses[g]
        /\ shared' = shared
    BY <1>3, FinishEffect
  <2> QED
    BY <2>1 DEF CreationsFit
<1>4. ASSUME UNCHANGED <<pc, job, uses>>, shared \subseteq shared'
      PROVE  /\ shared \subseteq shared' /\ CreationsFit'
             /\ \A g \in Handlers :
                  pc'[g] = "create" => job'[g] = job[g] /\ pc[g] = "create"
  BY <1>4 DEF CreationsFit
<1>5. CASE \E h \in Handlers :
             /\ Goto(h, "create") /\ pc[h] = "total"
             /\ ~(TotalRefunded + job[h].amount > Price)
             /\ UNCHANGED <<records, history, cinema>>
  BY <1>2, <1>5 DEF records
<1>6. CASE \E h \in Handlers, step \in {"voucher", "release"} : Goto(h, step)
  BY <1>2, <1>6
<1> QED
  BY <1>1, <1>3, <1>4, <1>5, <1>6, ControlEffect

\* What a step does to the refunds that count.
LEMMA ActiveEffect ==
  ASSUME IInv, [Next]_vars
  PROVE  \/ \E h \in Handlers, r \in RefundIds \ Active :
              /\ pc[h] = "create" /\ pc'[h] = "idle"
              /\ Active' = Active \cup {r}
              /\ refund'[r].amount = job[h].amount
              /\ \A q \in Active : refund'[q] = refund[q]
         \/ /\ \A q \in RefundIds : refund'[q].amount = refund[q].amount
            /\ \/ Active' = Active
               \/ \E r \in RefundIds : Active' = Active \ {r}
               \/ \E r \in RefundIds : r \in shared' /\ Active' = Active \cup {r}
<1> USE DEF IInv
<1>1. ASSUME NEW h \in Handlers, CreateRefund(h)
      PROVE  \E r \in RefundIds \ Active :
              /\ pc[h] = "create" /\ pc'[h] = "idle"
              /\ Active' = Active \cup {r}
              /\ refund'[r].amount = job[h].amount
              /\ \A q \in Active : refund'[q] = refund[q]
  <2>1. PICK r \in RefundIds :
          /\ refund[r].status = "NONE"
          /\ refund' = [refund EXCEPT ![r] =
                          [status |-> "PENDING", amount |-> job[h].amount]]
    BY <1>1 DEF CreateRefund
  <2>2. /\ refund'[r].status = "PENDING" /\ refund'[r].amount = job[h].amount
        /\ \A q \in RefundIds \ {r} : refund'[q] = refund[q]
    BY <2>1 DEF TypeOK
  <2>3. r \notin Active /\ Active' = Active \cup {r}
    BY <2>1, <2>2 DEF Active
  <2>4. pc[h] = "create" /\ pc'[h] = "idle"
    BY <1>1 DEF CreateRefund, Finish, TypeOK
  <2> QED
    BY <2>1, <2>2, <2>3, <2>4
<1>2. ASSUME NEW h \in Handlers,
             ProcessRefund(h) \/ RejectRefund(h) \/ ApproveRefund(h)
      PROVE  /\ \A q \in RefundIds : refund'[q].amount = refund[q].amount
             /\ \/ Active' = Active
                \/ \E r \in RefundIds : Active' = Active \ {r}
                \/ \E r \in RefundIds : r \in shared' /\ Active' = Active \cup {r}
  <2> DEFINE r == job[h].on
  <2>1. /\ r \in RefundIds
        /\ shared' = shared
        /\ pc[h] \in {"process", "reject", "approve"}
    BY <1>2 DEF ProcessRefund, RejectRefund, ApproveRefund, Finish, Goto, Fits
  <2>2. PICK s \in RefundStates :
          SetRefund(r, s) /\ (pc[h] \in {"process", "approve"} <=> s # "FAILED")
    BY <1>2 DEF ProcessRefund, RejectRefund, ApproveRefund, RefundStates
  <2>3. /\ refund'[r].status = s /\ refund'[r].amount = refund[r].amount
        /\ \A q \in RefundIds \ {r} : refund'[q] = refund[q]
    BY <2>1, <2>2 DEF SetRefund, TypeOK, Refunds
  <2>4. pc[h] \in {"process", "approve"} /\ r \notin shared => r \in Active
    BY <2>1 DEF ReadHolds, Active
  <2>5. /\ Active' \ {r} = Active \ {r}
        /\ s = "FAILED" => r \notin Active'
    BY <2>1, <2>3 DEF Active
  <2>6. \A q \in RefundIds : refund'[q].amount = refund[q].amount
    BY <2>3
  <2>7. CASE s = "FAILED"
    BY <2>1, <2>5, <2>6, <2>7
  <2>8. CASE s # "FAILED"
    <3>1. r \in shared' \/ r \in Active
      BY <2>1, <2>2, <2>4, <2>8
    <3>2. Active' = Active \cup {r} \/ Active' = Active \ {r}
      BY <2>5
    <3> QED
      BY <2>1, <2>6, <3>1, <3>2
  <2> QED
    BY <2>7, <2>8
<1>3. ASSUME refund' = refund
      PROVE  (\A q \in RefundIds : refund'[q].amount = refund[q].amount) /\ Active' = Active
  BY <1>3 DEF Active
<1> QED
  BY <1>1, <1>2, <1>3, RefundsUntouched

\* The sum stays within the payment.
LEMMA StepWithin ==
  ASSUME RefundAssumption, IInv, IInv', Within, [Next]_vars
  PROVE  Within'
<1>1. TypeOK /\ TypeOK' /\ Active \in SUBSET RefundIds /\ Active' \in SUBSET RefundIds
      /\ IsFiniteSet(Active) /\ CreationsFit /\ Exclusive
  BY DEF IInv, Active, Within
<1>2. Amounted(refund, Active) /\ Amounted(refund', Active) /\ Amounted(refund', Active')
  <2>1. refund \in [RefundIds -> Refunds] /\ refund' \in [RefundIds -> Refunds]
    BY <1>1 DEF TypeOK
  <2> QED
    BY <1>1, <2>1, AmountsType
<1>3. /\ shared \subseteq shared'
      /\ CreationsFit'
      /\ \A h \in Handlers : pc'[h] = "create" =>
           /\ job'[h] = job[h]
           /\ \/ pc[h] = "create"
              \/ /\ ~(TotalRefunded + job[h].amount > Price)
                 /\ refund' = refund
  BY <1>1, CreationEffect
<1>4. NobodyOverlaps' => NobodyOverlaps
  BY <1>3 DEF NobodyOverlaps
<1>5. /\ Price \in Nat /\ TotalRefunded \in Nat
      /\ \A h \in Handlers : job[h].amount \in Nat
  <2>1. {0} \cup Amounts \subseteq Nat /\ Price \in Nat
    BY DEF RefundAssumption
  <2>2. \A h \in Handlers : job[h] \in Jobs
    BY <1>1 DEF TypeOK
  <2>3. \A h \in Handlers : job[h].amount \in {0} \cup Amounts
    BY <2>2 DEF Jobs
  <2> QED
    BY <1>1, <1>2, <2>1, <2>3, TotalType DEF TotalRefunded
<1>6. CASE \E h \in Handlers, r \in RefundIds \ Active :
             /\ pc[h] = "create" /\ pc'[h] = "idle"
             /\ Active' = Active \cup {r}
             /\ refund'[r].amount = job[h].amount
             /\ \A q \in Active : refund'[q] = refund[q]
  <2>1. PICK h \in Handlers, r \in RefundIds \ Active :
          /\ pc[h] = "create" /\ pc'[h] = "idle"
          /\ Active' = Active \cup {r}
          /\ refund'[r].amount = job[h].amount
          /\ \A q \in Active : refund'[q] = refund[q]
    BY <1>6
  <2>2. IsFiniteSet(Active')
    BY <1>1, <2>1, FS_AddElement
  <2>3. TotalRefunded' = job[h].amount + TotalRefunded
    <3>1. Active' \ {r} = Active /\ r \in Active'
      BY <2>1
    <3>2. Total(refund', Active') = refund'[r].amount + Total(refund', Active)
      BY <1>2, <2>2, <3>1, TotalRemove
    <3>3. Total(refund', Active) = Total(refund, Active)
      BY <1>1, <2>1, TotalSame
    <3> QED
      BY <2>1, <3>2, <3>3 DEF TotalRefunded
  <2>4. ASSUME NobodyOverlaps' PROVE TotalRefunded' <= Price /\ Room'
    <3>1. TotalRefunded + job[h].amount <= Price
      BY <1>4, <2>1, <2>4 DEF Within, Room
    <3>2. ASSUME NEW g \in Handlers, pc'[g] = "create" PROVE FALSE
      <4>1. g # h
        BY <2>1, <3>2
      <4>2. "payment" \in uses[g] /\ "payment" \in uses[h] /\ "payment" \notin shared
        BY <1>1, <1>3, <1>4, <2>1, <2>4, <3>2 DEF CreationsFit, NobodyOverlaps, Active
      <4> QED
        BY <1>1, <4>1, <4>2, WrittenIsShared
    <3> QED
      BY <1>5, <2>3, <3>1, <3>2 DEF Room
  <2> QED
    BY <1>3, <2>2, <2>4 DEF Within
<1>7. CASE /\ \A q \in RefundIds : refund'[q].amount = refund[q].amount
           /\ \/ Active' = Active
              \/ \E r \in RefundIds : Active' = Active \ {r}
              \/ \E r \in RefundIds : r \in shared' /\ Active' = Active \cup {r}
  <2>1. IsFiniteSet(Active')
    BY <1>1, <1>7, FS_AddElement, FS_RemoveElement
  <2>2. ASSUME NobodyOverlaps' PROVE TotalRefunded' <= TotalRefunded
    <3>1. \/ Active' = Active
          \/ \E r \in Active : Active' = Active \ {r}
      BY <1>7, <2>2 DEF NobodyOverlaps
    <3>2. Total(refund', Active') = Total(refund, Active')
      BY <1>1, <1>7, <2>1, TotalSame
    <3>3. ASSUME NEW r \in Active, Active' = Active \ {r}
          PROVE  Total(refund, Active') <= Total(refund, Active)
      <4>1. Total(refund, Active) = refund[r].amount + Total(refund, Active')
        BY <1>1, <1>2, <3>3, TotalRemove
      <4>2. refund[r].amount \in Nat /\ Amounted(refund, Active')
        BY <1>2, <3>3 DEF Amounted
      <4>3. Total(refund, Active') \in Nat
        BY <2>1, <4>2, TotalType
      <4> QED
        BY <4>1, <4>2, <4>3
    <3> QED
      BY <1>5, <3>1, <3>2, <3>3 DEF TotalRefunded
  <2>3. TotalRefunded' \in Nat
    BY <1>2, <2>1, TotalType DEF TotalRefunded
  <2>4. ASSUME NobodyOverlaps', NEW h \in Handlers, pc'[h] = "create"
        PROVE  TotalRefunded' + job'[h].amount <= Price
    <3>1. TotalRefunded + job[h].amount <= Price
      BY <1>3, <1>4, <1>5, <2>4 DEF Within, Room
    <3> QED
      BY <1>3, <1>5, <2>2, <2>3, <2>4, <3>1
  <2>5. NobodyOverlaps' => TotalRefunded' <= Price
    BY <1>4, <1>5, <2>2, <2>3 DEF Within
  <2> QED
    BY <1>3, <2>1, <2>4, <2>5 DEF Within, Room
<1> QED
  BY <1>6, <1>7, ActiveEffect

\* What is to be refunded never exceeds the payment, unless two creations, or
\* two reviews of one refund, overlapped: for any price, any amounts and any
\* number of refunds and operations.
THEOREM WithinCorrect == Spec => []RefundsWithinPayment
<1>1. Init => Within
  BY InitWithin, RefundAssumption
<1>2. IInv /\ IInv' /\ Within /\ [Next]_vars => Within'
  BY StepWithin, RefundAssumption
<1>3. Within => RefundsWithinPayment
  BY DEF Within, NobodyOverlaps, RefundsWithinPayment
<1> QED
  BY <1>1, <1>2, <1>3, Invariance, PTL DEF Spec
=============================================================================
