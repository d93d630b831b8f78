---------------------------- MODULE BookingPayment ----------------------------
(***************************************************************************)
(* One booking, its payments, and everything that moves them: the customer *)
(* paying (createPayment), the provider's callbacks (handleProviderIPN),   *)
(* the reconciliation job, the operations of the administrators, and the   *)
(* customer changing or cancelling the booking meanwhile.                  *)
(*                                                                         *)
(* Every operation reads rows, decides, and writes rows in a later         *)
(* statement or transaction that does not look again.  The services run    *)
(* with several replicas, and between two awaits of one operation any      *)
(* other may run.  A step is one query or one transaction, together with   *)
(* the decision the code takes on its result; an operation starts with     *)
(* its first query.  An operation may end at any await (an error, a crash).*)
(*                                                                         *)
(* The payment rows are identified by their idempotency key, that is by    *)
(* (method, amount).  Callbacks that fail the signature or the freshness   *)
(* test, and duplicates, change nothing and are left out: an out-of-date   *)
(* callback is one that never starts a handler.                            *)
(*                                                                         *)
(* Nothing keeps two operations off one row.  The history variables raced  *)
(* and crossed record when what an operation has read was overwritten, and *)
(* some properties say what holds as long as it was not.                   *)
(***************************************************************************)
EXTENDS Integers, FiniteSets, Sequences

CONSTANTS Methods,    \* the payment methods with an adapter
          Amounts,    \* what the booking may cost, other than nothing
          Handlers,   \* the operations that may be in progress at a time
          Operations, \* the kinds of operations of this instance
          BatchSize,  \* how many rows a run of the reconciliation takes
          MaxOthers,  \* bound of others
          NoKey, NoJob

Kinds == {"pay", "ipn", "recon", "admin", "cancel", "void", "refund", "update"}

Keys == Methods \X Amounts

ASSUME ConstantsAssumption ==
  /\ Amounts \subseteq Nat \ {0}
  /\ Operations \subseteq Kinds
  /\ BatchSize \in Nat \ {0}
  /\ MaxOthers \in Nat
  /\ NoKey \notin Keys

VARIABLES
  status,     \* Bookings.status
  payStatus,  \* Bookings.payment_status
  window,     \* Bookings.expires_at: ahead (open), past (over) or null
  due,        \* Bookings.final_amount; 0 stands for anything below 1000
  tickets,    \* the status the tickets of the booking share, none without any
  payment,    \* payment[k]: Payments.status of row k, NONE if there is no row
  created,    \* the rows in the order of their created_at
  others,     \* how many unsettled rows of other bookings are older than these
  zeroRows,   \* the number of payment rows of handleZeroAmountPayment
  outbox,     \* the NotificationOutbox row of the booking exists
  promoUses,  \* how often the promotion code of the booking was counted as used
  announced,  \* booking.confirmed was published
  seen,       \* seen[k]: the dedup key of the callback for k is set
  order,      \* order[k]: the order of payment k at the provider
  pc,         \* pc[h]: the next query of operation h
  job,        \* job[h]: its parameters and what it has read
  batch,      \* batch[h]: the rows that a run of the reconciliation has yet to do
  raced,      \* history: the operations in progress that have read a payment
              \* row which another operation has written since
  crossed     \* history: an operation has written the booking while another
              \* one relied on what it had read of it

Policy        == INSTANCE PaymentPolicy
BookingStates == INSTANCE BookingPolicy

booking   == <<status, payStatus, window, due, tickets>>
dates     == <<created, others>>
effects   == <<zeroRows, outbox, promoUses, announced>>
provider  == <<seen, order>>
handlers  == <<pc, job, batch>>
history   == <<raced, crossed>>
vars      == <<booking, payment, dates, effects, provider, handlers, history>>

PaymentStates == Policy!Statuses \cup {"NONE"}
Steps == {"idle", "zero", "find", "create", "initiate", "record", "reply",
          "load", "apply", "announce", "query", "settle", "admin", "cancel",
          "void", "refund", "dropTickets", "newTickets", "extend", "reprice"}

Jobs == [op   : Kinds,
         key  : Keys \cup {NoKey},
         to   : BookingStates!Statuses \cup PaymentStates,
                              \* admin: the target; recon: the verdict;
                              \* pay: the status of the row in the answer
         paid : {"PENDING", "COMPLETED", "FAILED"}]
                              \* admin: the payment_status that was read

\* createBooking stores a blank booking, without tickets and at no price.
Init ==
  /\ status = "PENDING"
  /\ payStatus = "PENDING"
  /\ window = "open"
  /\ due = 0
  /\ tickets = "none"
  /\ payment = [k \in Keys |-> "NONE"]
  /\ created = <<>>
  /\ others \in 0 .. MaxOthers
  /\ zeroRows = 0
  /\ outbox = FALSE
  /\ promoUses = 0
  /\ announced = FALSE
  /\ seen  = [k \in Keys |-> FALSE]
  /\ order = [k \in Keys |-> "none"]
  /\ pc  = [h \in Handlers |-> "idle"]
  /\ job = [h \in Handlers |-> NoJob]
  /\ batch = [h \in Handlers |-> {}]
  /\ raced = {}
  /\ crossed = FALSE

-----------------------------------------------------------------------------
(* Helpers.                                                                *)

\* Operation h, which is of kind op, has read what it starts with; a run of the
\* reconciliation has the rows of rest to do besides key.
StartRun(h, op, key, to, step, rest) ==
  /\ op \in Operations
  /\ pc[h] = "idle"
  /\ pc'  = [pc EXCEPT ![h] = step]
  /\ job' = [job EXCEPT ![h] = [op |-> op, key |-> key, to |-> to,
                                paid |-> payStatus]]
  /\ batch' = [batch EXCEPT ![h] = rest]
  /\ UNCHANGED <<booking, payment, dates, effects>>

Start(h, op, key, to, step) == StartRun(h, op, key, to, step, {})

Goto(h, step) ==
  /\ pc' = [pc EXCEPT ![h] = step]
  /\ UNCHANGED <<job, batch>>

Finish(h) ==
  /\ pc'  = [pc EXCEPT ![h] = "idle"]
  /\ job' = [job EXCEPT ![h] = NoJob]
  /\ batch' = [batch EXCEPT ![h] = {}]

\* The answer of createPayment shows a row with status s.
Reply(h, s) ==
  /\ pc'  = [pc EXCEPT ![h] = "reply"]
  /\ job' = [job EXCEPT ![h].to = s]
  /\ UNCHANGED batch

SetPayment(k, s) == payment' = [payment EXCEPT ![k] = s]

\* tickets.updateMany for the booking.
SetTickets(s) == tickets' = IF tickets = "none" THEN "none" ELSE s

\* What every transaction writes that confirms the booking.
ConfirmBooking ==
  /\ status' = "CONFIRMED"
  /\ payStatus' = "COMPLETED"
  /\ window' = "null"
  /\ SetTickets("VALID")
  /\ UNCHANGED due

\* What every transaction writes for a payment that failed at the provider.
FailBooking ==
  /\ status' = "CANCELLED"
  /\ payStatus' = "FAILED"
  /\ SetTickets("CANCELLED")
  /\ UNCHANGED <<window, due>>

\* A customer who paid: the promotion code of the booking is counted, and the
\* notification is enqueued, in the transaction that confirms it.
CountAndEnqueue ==
  /\ promoUses' = promoUses + 1
  /\ outbox' = TRUE
  /\ UNCHANGED announced

-----------------------------------------------------------------------------
(* createPayment.                                                          *)

\* getBookingForPaymentOrThrow looks at payment_status and expires_at only.
StartPayment(h) ==
  /\ payStatus = "PENDING"
  /\ window = "open"
  /\ \E m \in Methods :
       IF due = 0 THEN Start(h, "pay", NoKey, "NONE", "zero")
                  ELSE Start(h, "pay", <<m, due>>, "NONE", "find")
  /\ UNCHANGED provider

\* handleZeroAmountPayment: nothing to pay, the booking is confirmed at once.
ConfirmZeroAmount(h) ==
  /\ pc[h] = "zero"
  /\ ConfirmBooking
  /\ zeroRows' = zeroRows + 1
  /\ CountAndEnqueue
  /\ Goto(h, "announce")
  /\ UNCHANGED <<payment, dates, provider>>

\* A row with the same idempotency key is answered as it is.
FindPayment(h) ==
  /\ pc[h] = "find"
  /\ LET k == job[h].key IN
       IF payment[k] = "NONE" THEN Goto(h, "create") ELSE Reply(h, payment[k])
  /\ UNCHANGED <<booking, payment, dates, effects, provider>>

\* Mutant: the key is not unique, the second creation starts over.
CreatePaymentTwice(h) ==
  /\ pc[h] = "create"
  /\ SetPayment(job[h].key, "PROCESSING")
  /\ Goto(h, "initiate")
  /\ UNCHANGED <<booking, dates, effects, provider>>

\* transaction_id is unique: a second creation fails and looks the row up again.
CreatePayment(h) ==
  /\ pc[h] = "create"
  /\ LET k == job[h].key IN
       IF payment[k] = "NONE"
         THEN /\ SetPayment(k, "PROCESSING")
              /\ created' = Append(created, k)
              /\ Goto(h, "initiate")
         ELSE Goto(h, "find") /\ UNCHANGED <<payment, created>>
  /\ UNCHANGED <<booking, others, effects, provider>>

\* initiatePayment: the order is open at the provider, its answer under way.
OpenOrder(h) ==
  /\ pc[h] = "initiate"
  /\ order' = [order EXCEPT ![job[h].key] = "open"]
  /\ Goto(h, "record")
  /\ UNCHANGED <<booking, payment, dates, effects, seen>>

\* The provider answered in time: the row gets its reference and its URL.
RecordInitiation(h) ==
  /\ pc[h] = "record"
  /\ SetPayment(job[h].key, "PENDING")
  /\ Reply(h, "PENDING")
  /\ UNCHANGED <<booking, dates, effects, provider>>

\* The adapter failed, runWithTimeout gave up on it, before or after the order
\* was opened, or the row could not be written.
InitiationFails(h) ==
  /\ pc[h] \in {"initiate", "record"}
  /\ SetPayment(job[h].key, "FAILED")
  /\ Finish(h)
  /\ UNCHANGED <<booking, dates, effects, provider>>

\* createPayment returns the row; what a row says is not looked at again.
Answer(h) ==
  /\ pc[h] = "reply"
  /\ Finish(h)
  /\ UNCHANGED <<booking, payment, dates, effects, provider>>

-----------------------------------------------------------------------------
(* handleProviderIPN.                                                      *)

\* SET NX of the dedup key; a callback that finds it is answered as a duplicate.
MarkIfFirstSeen(k) ==
  /\ ~seen[k]
  /\ seen' = [seen EXCEPT ![k] = TRUE]

\* The marking comes before everything else.
ReceiveCallback(h) ==
  \E k \in Keys :
     /\ order[k] \in {"paid", "failed"}
     /\ MarkIfFirstSeen(k)
     /\ Start(h, "ipn", k, "NONE", "load")
     /\ UNCHANGED order

\* Mutant: the status of the booking and of the payment is not checked.
LoadPaymentUnchecked(h) ==
  /\ pc[h] = "load"
  /\ IF window = "over" THEN Finish(h) ELSE Goto(h, "apply")
  /\ UNCHANGED <<booking, payment, dates, effects, provider>>

LoadPayment(h) ==
  /\ pc[h] = "load"
  /\ IF \/ window = "over"                       \* expired
        \/ payment[job[h].key] # "PENDING"       \* already_processed
        \/ status # "PENDING"
       THEN Finish(h)
       ELSE Goto(h, "apply")
  /\ UNCHANGED <<booking, payment, dates, effects, provider>>

ApplySuccess(h) ==
  /\ pc[h] = "apply"
  /\ order[job[h].key] = "paid"
  /\ SetPayment(job[h].key, "COMPLETED")
  /\ ConfirmBooking
  /\ CountAndEnqueue
  /\ Goto(h, "announce")
  /\ UNCHANGED <<dates, zeroRows, provider>>

ApplyFailure(h) ==
  /\ pc[h] = "apply"
  /\ order[job[h].key] = "failed"
  /\ SetPayment(job[h].key, "FAILED")
  /\ FailBooking
  /\ Finish(h)
  /\ UNCHANGED <<dates, effects, provider>>

\* booking.confirmed is published after the transaction, on a best-effort basis.
Announce(h) ==
  /\ pc[h] = "announce"
  /\ announced' = TRUE
  /\ Finish(h)
  /\ UNCHANGED <<booking, payment, dates, zeroRows, outbox, promoUses, provider>>

-----------------------------------------------------------------------------
(* A run of the reconciliation job.  It reads its batch once: the oldest   *)
(* rows among those that are not settled.  A PROCESSING row takes a place  *)
(* of the batch but has no provider reference, so it is deferred at once;  *)
(* the other rows are queried and written one after the other.  Rows of    *)
(* other bookings take places too: of them the model has the number that   *)
(* are older than this booking.                                            *)

Unsettled == {k \in Keys : payment[k] \in {"PENDING", "PROCESSING"}}

Older(j, k) ==
  \E m, n \in DOMAIN created : m < n /\ created[m] = j /\ created[n] = k

\* The batch has a place for row k: those of the unsettled rows that are older
\* do not fill it.
HasPlace(k) == others + Cardinality({j \in Unsettled : Older(j, k)}) < BatchSize

\* The rows with a reference in the batch of a run, when the first n rows are
\* older than PAYMENT_RECON_STALE_MINUTES.
StaleBatch(n) ==
  {k \in Keys : /\ payment[k] = "PENDING"
                /\ HasPlace(k)
                /\ \E i \in 1 .. n : created[i] = k}

OldestOf(k, rows) == k \in rows /\ \A j \in rows : ~Older(j, k)

\* runOnce; a run that finds nothing to query has no effect.
SelectStalePayments(h) ==
  /\ \E n \in 1 .. Len(created) : \E k \in Keys :
       /\ OldestOf(k, StaleBatch(n))
       /\ StartRun(h, "recon", k, "NONE", "query", StaleBatch(n) \ {k})
  /\ UNCHANGED provider

\* The run is over with a row and takes the next one, as the batch has it.
NextInBatch(h) ==
  \/ batch[h] = {} /\ Finish(h)
  \/ \E k \in Keys :
       /\ OldestOf(k, batch[h])
       /\ pc'    = [pc EXCEPT ![h] = "query"]
       /\ job'   = [job EXCEPT ![h] = [@ EXCEPT !.key = k, !.to = "NONE"]]
       /\ batch' = [batch EXCEPT ![h] = @ \ {k}]

\* Mutant: an answer that decides nothing is settled like one that does.
QueryProviderUndecided(h) ==
  /\ pc[h] = "query"
  /\ pc'  = [pc EXCEPT ![h] = "settle"]
  /\ job' = [job EXCEPT ![h].to = IF order[job[h].key] = "paid" THEN "COMPLETED"
                                                              ELSE "NONE"]
  /\ UNCHANGED <<batch, booking, payment, dates, effects, provider>>

\* queryPaymentStatus.  For the VNPay adapter every order that is not paid has
\* FAILED, also one the customer has not finished.
QueryProvider(h) ==
  /\ pc[h] = "query"
  /\ pc'  = [pc EXCEPT ![h] = "settle"]
  /\ job' = [job EXCEPT ![h].to = IF order[job[h].key] = "paid" THEN "COMPLETED"
                                                              ELSE "FAILED"]
  /\ UNCHANGED <<batch, booking, payment, dates, effects, provider>>

\* No answer, one that decides nothing, or a transaction that fails: the row is
\* left to a later run.
DeferPayment(h) ==
  /\ pc[h] \in {"query", "settle"}
  /\ NextInBatch(h)
  /\ UNCHANGED <<booking, payment, dates, effects, provider>>

\* Mutant: only the rows whose booking is still PENDING are reconciled.
SettlePaymentOfPending(h) ==
  /\ pc[h] = "settle"
  /\ status = "PENDING"
  /\ SetPayment(job[h].key, job[h].to)
  /\ \/ job[h].to = "COMPLETED" /\ ConfirmBooking
     \/ job[h].to = "FAILED"    /\ FailBooking
  /\ NextInBatch(h)
  /\ UNCHANGED <<dates, effects, provider>>

\* Mutant: the transaction forgets the payment_status of the booking.
SettlePaymentOnly(h) ==
  /\ pc[h] = "settle"
  /\ SetPayment(job[h].key, job[h].to)
  /\ status' = IF job[h].to = "COMPLETED" THEN "CONFIRMED" ELSE "CANCELLED"
  /\ NextInBatch(h)
  /\ UNCHANGED <<payStatus, window, due, tickets, dates, effects, provider>>

\* The verdict is written whatever the rows have become since the batch was read.
SettlePayment(h) ==
  /\ pc[h] = "settle"
  /\ SetPayment(job[h].key, job[h].to)
  /\ \/ job[h].to = "COMPLETED" /\ ConfirmBooking
     \/ job[h].to = "FAILED"    /\ FailBooking
  /\ NextInBatch(h)
  /\ UNCHANGED <<dates, effects, provider>>

-----------------------------------------------------------------------------
(* Administrators and the customer.                                        *)

\* Mutant: every transition is allowed.
StartAdminUnchecked(h) ==
  \E to \in BookingStates!Statuses :
     /\ Start(h, "admin", NoKey, to, "admin")
     /\ UNCHANGED provider

\* updateBookingStatus: confirm, complete, expire, cancel, refund.
StartAdmin(h) ==
  \E to \in BookingStates!Statuses :
     /\ BookingStates!CanTransition(status, to)
     /\ Start(h, "admin", NoKey, to, "admin")
     /\ UNCHANGED provider

UpdateBookingStatus(h) ==
  /\ pc[h] = "admin"
  /\ LET to == job[h].to IN
       /\ status' = to
       /\ payStatus' =
            CASE to = "CONFIRMED" -> "COMPLETED"
              [] to = "EXPIRED"   -> "FAILED"
              [] to = "CANCELLED" /\ job[h].paid = "PENDING" -> "FAILED"
              [] OTHER            -> payStatus
       /\ window' = IF to \in {"CONFIRMED", "EXPIRED"} THEN "null" ELSE window
       /\ CASE to = "CONFIRMED" -> SetTickets("VALID")
            [] to = "COMPLETED" -> SetTickets("USED")
            [] to \in {"CANCELLED", "EXPIRED"} -> SetTickets(to)
            [] OTHER            -> UNCHANGED tickets
  /\ Finish(h)
  /\ UNCHANGED <<due, payment, dates, effects, provider>>

\* cancelBooking of the customer, also as a part of cancelBookingWithRefund.
StartCancel(h) ==
  /\ status \in {"PENDING", "CONFIRMED"}
  /\ Start(h, "cancel", NoKey, "CANCELLED", "cancel")
  /\ UNCHANGED provider

\* Neither the tickets nor payment_status nor expires_at are touched.
CancelBooking(h) ==
  /\ pc[h] = "cancel"
  /\ status' = "CANCELLED"
  /\ Finish(h)
  /\ UNCHANGED <<payStatus, window, due, tickets, payment, dates, effects, provider>>

\* cancelPayment of an administrator.
StartVoid(h) ==
  \E k \in Keys :
     /\ payment[k] = "PENDING"
     /\ Start(h, "void", k, "FAILED", "void")
     /\ UNCHANGED provider

VoidPayment(h) ==
  /\ pc[h] = "void"
  /\ SetPayment(job[h].key, "FAILED")
  /\ Finish(h)
  /\ UNCHANGED <<booking, dates, effects, provider>>

\* A refund is requested for a payment that is COMPLETED (createRefund), and
\* lies there until it is approved.
StartRefund(h) ==
  \E k \in Keys :
     /\ payment[k] = "COMPLETED"
     /\ Start(h, "refund", k, "REFUNDED", "refund")
     /\ UNCHANGED provider

\* The transaction of approveRefund, which asks neither policy.
ApproveRefund(h) ==
  /\ pc[h] = "refund"
  /\ SetPayment(job[h].key, "REFUNDED")
  /\ status' = "CANCELLED"
  /\ Finish(h)
  /\ UNCHANGED <<payStatus, window, due, tickets, dates, effects, provider>>

\* updateBooking: the customer holds seats, and a booking is no longer blank
\* when it is over.  Five statements, no transaction; expires_at is not checked.
StartUpdate(h) ==
  /\ status = "PENDING"
  /\ Start(h, "update", NoKey, "NONE", "dropTickets")
  /\ UNCHANGED provider

DropTickets(h) ==
  /\ pc[h] = "dropTickets"
  /\ tickets' = "none"
  /\ Goto(h, "newTickets")
  /\ UNCHANGED <<status, payStatus, window, due, payment, dates, effects, provider>>

\* New tickets are CANCELLED until the booking is paid.
CreateTickets(h) ==
  /\ pc[h] = "newTickets"
  /\ tickets' = "CANCELLED"
  /\ Goto(h, "extend")
  /\ UNCHANGED <<status, payStatus, window, due, payment, dates, effects, provider>>

ExtendWindow(h) ==
  /\ pc[h] = "extend"
  /\ window' = "open"
  /\ Goto(h, "reprice")
  /\ UNCHANGED <<status, payStatus, due, tickets, payment, dates, effects, provider>>

Reprice(h) ==
  /\ pc[h] = "reprice"
  /\ due' \in Amounts \cup {0}
  /\ Finish(h)
  /\ UNCHANGED <<status, payStatus, window, tickets, payment, dates, effects, provider>>

-----------------------------------------------------------------------------
(* The environment.                                                        *)

\* The order is finished, or fails, at the provider, whatever has become of the
\* request that opened it.
FinishOrder(k) ==
  /\ order[k] = "open"
  /\ \E o \in {"paid", "failed"} : order' = [order EXCEPT ![k] = o]
  /\ UNCHANGED <<booking, payment, dates, effects, seen, handlers>>

\* An older payment of another booking is settled.
OtherSettled ==
  /\ others > 0
  /\ others' = others - 1
  /\ UNCHANGED <<booking, payment, created, effects, provider, handlers>>

\* expires_at passes.
WindowCloses ==
  /\ window = "open"
  /\ window' = "over"
  /\ UNCHANGED <<status, payStatus, due, tickets, payment, dates, effects,
                 provider, handlers>>

\* An error or a crash ends an operation where it stands.
Abort(h) ==
  /\ pc[h] # "idle"
  /\ Finish(h)
  /\ UNCHANGED <<booking, payment, dates, effects, provider>>

-----------------------------------------------------------------------------
(* The history.                                                            *)

\* The steps before which an operation has read that its row is PENDING (for a
\* refund: COMPLETED), and after which it writes the row.
RowSteps == {"apply", "query", "settle", "void", "refund"}

\* The payment rows that operation h has read in order to write them.
Rows(h) == (IF pc[h] \in RowSteps THEN {job[h].key} ELSE {}) \cup batch[h]

\* The steps that rely on what the operation has read of the booking.
BookingSteps ==
  {"zero", "apply", "announce", "admin", "cancel", "dropTickets", "newTickets"}

\* What a step overwrites of that which another operation has read.
Record ==
  /\ raced' =
       {h \in Handlers :
          /\ pc'[h] # "idle"
          /\ \/ h \in raced
             \/ \E k \in Rows(h) : k \in Rows(h)' /\ payment'[k] # payment[k]}
  /\ crossed' =
       \/ crossed
       \/ /\ <<status, payStatus, tickets>>' # <<status, payStatus, tickets>>
          /\ \E h \in Handlers : pc[h] \in BookingSteps /\ pc'[h] = pc[h]

-----------------------------------------------------------------------------

PaymentStep(h) ==
  \/ StartPayment(h)  \/ ConfirmZeroAmount(h) \/ FindPayment(h)
  \/ CreatePayment(h) \/ OpenOrder(h)         \/ RecordInitiation(h)
  \/ InitiationFails(h) \/ Answer(h)

CallbackStep(h) ==
  \/ ReceiveCallback(h) \/ LoadPayment(h) \/ ApplySuccess(h)
  \/ ApplyFailure(h)    \/ Announce(h)

ReconciliationStep(h) ==
  \/ SelectStalePayments(h) \/ QueryProvider(h)
  \/ DeferPayment(h)        \/ SettlePayment(h)

ManualStep(h) ==
  \/ StartAdmin(h)  \/ UpdateBookingStatus(h) \/ StartCancel(h)
  \/ CancelBooking(h) \/ StartVoid(h) \/ VoidPayment(h) \/ StartRefund(h)
  \/ ApproveRefund(h) \/ StartUpdate(h)
  \/ DropTickets(h) \/ CreateTickets(h) \/ ExtendWindow(h) \/ Reprice(h)

Step ==
  \/ \E h \in Handlers : \/ PaymentStep(h) \/ CallbackStep(h)
                         \/ ReconciliationStep(h) \/ ManualStep(h) \/ Abort(h)
  \/ \E k \in Keys : FinishOrder(k)
  \/ OtherSettled
  \/ WindowCloses

Next == Step /\ Record

Spec == Init /\ [][Next]_vars

\* The rest of an operation that is in progress.
Proceed(h) ==
  \/ ConfirmZeroAmount(h) \/ FindPayment(h) \/ CreatePayment(h) \/ OpenOrder(h)
  \/ RecordInitiation(h) \/ InitiationFails(h) \/ Answer(h)
  \/ LoadPayment(h) \/ ApplySuccess(h) \/ ApplyFailure(h) \/ Announce(h)
  \/ QueryProvider(h) \/ DeferPayment(h) \/ SettlePayment(h)
  \/ UpdateBookingStatus(h) \/ CancelBooking(h) \/ VoidPayment(h)
  \/ ApproveRefund(h)
  \/ DropTickets(h) \/ CreateTickets(h) \/ ExtendWindow(h) \/ Reprice(h)
  \/ Abort(h)

\* Finished at the provider: its answer to a query says what became of the order.
Finished(k) == order[k] \in {"paid", "failed"}

\* A run starts when every row is older than PAYMENT_RECON_STALE_MINUTES.
Select ==
  \E h \in Handlers : SelectStalePayments(h) /\ Rows(h)' = StaleBatch(Len(created))

\* A run that has row k in its batch is done with row j, and goes on.
Pass(j, k) ==
  \E h \in Handlers : /\ k \in batch[h] /\ job[h].key = j
                      /\ DeferPayment(h) \/ SettlePayment(h)

\* The provider answers the query of an order that is finished.
Query ==
  \E h \in Handlers : pc[h] = "query" /\ Finished(job[h].key) /\ QueryProvider(h)

Settle == \E h \in Handlers : SettlePayment(h)

\* A promise is resolved or rejected at last, so every operation ends.  A run of
\* the reconciliation starts every minute, and its batch is what it reads: a row
\* is selected at last only if it keeps its place there.  The runs are not all
\* killed at the same row, the provider answers at last what it knows, and not
\* every write of an answer fails.  Of an order that is not finished nothing is
\* assumed: its row may be deferred for ever.
FairSpec ==
  /\ Spec
  /\ \A h \in Handlers : WF_vars(Proceed(h) /\ Record)
  /\ SF_vars(Select /\ Record)
  /\ \A k \in Keys : \A j \in Keys \ {k} : SF_vars(Pass(j, k) /\ Record)
  /\ SF_vars(Query /\ Record)
  /\ SF_vars(Settle /\ Record)

-----------------------------------------------------------------------------
(* Type invariant.                                                         *)

KeySteps == {"find", "create", "initiate", "record", "load", "apply", "query",
             "settle", "void", "refund"}

\* The shape of the state; an operation has a job while it is in progress, the
\* steps that use a payment row have its key, and only a run of the
\* reconciliation has rows left to do.
TypeOK ==
  /\ status \in BookingStates!Statuses
  /\ payStatus \in {"PENDING", "COMPLETED", "FAILED"}
  /\ window \in {"open", "over", "null"}
  /\ due \in Amounts \cup {0}
  /\ tickets \in {"none", "VALID", "USED", "CANCELLED", "EXPIRED"}
  /\ payment \in [Keys -> PaymentStates]
  /\ created \in Seq(Keys)
  /\ others \in 0 .. MaxOthers
  /\ zeroRows \in Nat /\ promoUses \in Nat
  /\ outbox \in BOOLEAN /\ announced \in BOOLEAN
  /\ seen  \in [Keys -> BOOLEAN]
  /\ order \in [Keys -> {"none", "open", "paid", "failed"}]
  /\ pc  \in [Handlers -> Steps]
  /\ job \in [Handlers -> Jobs \cup {NoJob}]
  /\ batch \in [Handlers -> SUBSET Keys]
  /\ raced \subseteq Handlers
  /\ crossed \in BOOLEAN
  /\ \A h \in Handlers : pc[h] \notin {"query", "settle"} => batch[h] = {}
  /\ \A h \in Handlers : pc[h] # "idle" => job[h] \in Jobs
  /\ \A h \in Handlers : pc[h] \in KeySteps => job[h].key \in Keys
  /\ \A h \in Handlers : pc[h] = "settle" => job[h].to \in {"COMPLETED", "FAILED"}
  /\ \A h \in Handlers : pc[h] = "admin" => job[h].to \in BookingStates!Statuses

-----------------------------------------------------------------------------
(* What holds however the operations overlap.                              *)

Settled == {"COMPLETED", "FAILED", "REFUNDED"}

\* A payment the system has settled is never opened again: no late answer of
\* the provider to createPayment, and no second creation, makes a COMPLETED,
\* FAILED or REFUNDED row PROCESSING or PENDING.
SettledNeverReopens ==
  [][\A k \in Keys : payment[k] \in Settled => payment'[k] \in Settled]_vars

\* The unique idempotency key makes the creation of the row a lock: while the
\* provider is asked for a URL, and until its answer is recorded, the row stays
\* PROCESSING, and no other request asks for the same row.
InitiatorOwnsRow ==
  \A h \in Handlers : pc[h] \in {"initiate", "record"} =>
     /\ payment[job[h].key] = "PROCESSING"
     /\ \A g \in Handlers \ {h} :
           ~(pc[g] \in {"initiate", "record"} /\ job[g].key = job[h].key)

\* The two status columns of a booking are written by six operations; none of
\* their overlaps leaves a CONFIRMED booking whose payment_status is not
\* COMPLETED.
ConfirmedIsPaid == status = "CONFIRMED" => payStatus = "COMPLETED"

-----------------------------------------------------------------------------
(* What holds unless an operation writes over what another has read.       *)

\* The approval of a refund writes REFUNDED over COMPLETED, where the policy
\* ends.
RefundsPayment ==
  \E h \in Handlers : ApproveRefund(h) /\ payment[job[h].key] = "COMPLETED"

\* A write of an operation whose row was written since it read the row.
WritesLate ==
  \E h \in raced : /\ pc'[h] # pc[h]
                   /\ \E k \in Rows(h) : payment'[k] # payment[k]

\* The rows of the payments move as PaymentTransitionPolicyService allows, also
\* where the callbacks, the reconciliation and administrators write them by id
\* without asking it.  Two exceptions: the approval of a refund, and an operation
\* that comes late, whose row another has written since it was read.
PaymentFollowsPolicy ==
  [][Policy!Next \/ RefundsPayment \/ WritesLate]_payment

\* The parts of PaidBookingIsWhole: the promotion, the tickets, the announcement.
PromotionCountedOnce == promoUses <= 1

ConfirmedTicketsValid ==
  status = "CONFIRMED" /\ tickets # "none" => tickets = "VALID"

AnnouncedNeverExpires == announced => status \notin {"PENDING", "EXPIRED"}

\* What a paid booking has led to agrees with it: it counts at most once as a use
\* of its promotion code; as long as it is confirmed, its tickets are valid and
\* the customer is let in; and once it was announced to the cinema service, which
\* reserves its seats for good, it does not go back to PENDING or expire.  This
\* holds whatever overlaps, until an operation writes the booking between the
\* check and the write of another.
PaidBookingIsWhole ==
  crossed \/ (PromotionCountedOnce /\ ConfirmedTicketsValid /\ AnnouncedNeverExpires)

\* A step that the state machine of assertBookingTransition allows, or with
\* which the reconciliation job, a zero-amount payment or the approval of a
\* refund settles the booking.
KeepsBookingPolicy ==
  \/ BookingStates!CanTransition(status, status')
  \/ \E h \in Handlers : pc[h] \in {"settle", "zero", "refund"} /\ pc'[h] # pc[h]

\* Only administrators are held to the state machine of assertBookingTransition,
\* but the customer and the callbacks keep to it as well, until the first write
\* of the booking between the check and the write of another operation: up to
\* then a booking leaves it only by a settlement of the reconciliation job, by a
\* zero-amount payment, or by a refund.
OthersFollowBookingPolicy == [][crossed \/ KeepsBookingPolicy]_vars

-----------------------------------------------------------------------------
(* Liveness.                                                               *)

\* A payment whose order is finished at the provider does not stay PENDING,
\* even when its callback was lost, came too late, or died after the marking, as
\* long as the reconciliation has a place for it: the older rows that are never
\* settled (a crash during the initiation, an order never finished) are fewer
\* than the batch takes.  A row behind them is not settled at last.
FinishedOrderIsSettled ==
  \A k \in Keys : Finished(k) /\ payment[k] = "PENDING" /\ HasPlace(k)
                     ~> payment[k] # "PENDING"
=============================================================================
