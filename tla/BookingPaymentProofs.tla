------------------------ MODULE BookingPaymentProofs ------------------------
(* Theorems about bookings and payments, for every value of the constants. *)
EXTENDS BookingPayment, TLAPS

-----------------------------------------------------------------------------
(* Type correctness.                                                       *)

\* The control of an operation is well formed.
ControlOK ==
  /\ pc  \in [Handlers -> Steps]
  /\ job \in [Handlers -> Jobs \cup {NoJob}]
  /\ batch \in [Handlers -> SUBSET Keys]
  /\ \A h \in Handlers : pc[h] \notin {"query", "settle"} => batch[h] = {}
  /\ \A h \in Handlers : pc[h] # "idle" => job[h] \in Jobs
  /\ \A h \in Handlers : pc[h] \in KeySteps => job[h].key \in Keys
  /\ \A h \in Handlers : pc[h] = "settle" => job[h].to \in {"COMPLETED", "FAILED"}
  /\ \A h \in Handlers : pc[h] = "admin" => job[h].to \in BookingStates!Statuses

\* The rows and everything outside the operations are well formed.
DataOK ==
  /\ status \in BookingStates!Statuses
  /\ payStatus \in {"PENDING", "COMPLETED", "FAILED"}
  /\ window \in {"open", "over", "null"}
  /\ due \in Amounts \cup {0}
  /\ tickets \in {"none", "VALID", "USED", "CANCELLED", "EXPIRED"}
  /\ payment \in [Keys -> PaymentStates]
  /\ created \in Seq(Keys)
  /\ others \in 0 .. MaxOthers
  /\ zeroRows \in Nat /\ promoUses \in Nat
  /\ outbox \in BOOLEAN /\ announced \in BOOLEAN
  /\ seen  \in [Keys -> BOOLEAN]
  /\ order \in [Keys -> {"none", "open", "paid", "failed"}]

HistoryOK == raced \subseteq Handlers /\ crossed \in BOOLEAN

LEMMA TypeParts == TypeOK <=> ControlOK /\ DataOK /\ HistoryOK
  BY DEF TypeOK, ControlOK, DataOK, HistoryOK

\* A step of operation h leaves the control of the others alone.
Alone(h) ==
  \A g \in Handlers \ {h} : pc'[g] = pc[g] /\ job'[g] = job[g] /\ batch'[g] = batch[g]

LEMMA StatesIncluded ==
  /\ {"NONE", "PENDING", "PROCESSING", "COMPLETED", "FAILED", "REFUNDED"} \subseteq PaymentStates
  /\ {"PENDING", "CANCELLED", "CONFIRMED"} \subseteq BookingStates!Statuses
  BY DEF PaymentStates, Policy!Statuses, BookingStates!Statuses

LEMMA StartRunControl ==
  ASSUME ControlOK, DataOK, NEW h \in Handlers, NEW op \in Kinds,
         NEW key \in Keys \cup {NoKey},
         NEW to \in BookingStates!Statuses \cup PaymentStates,
         NEW step \in Steps \ {"settle"}, NEW rest \in SUBSET Keys,
         step \in KeySteps => key \in Keys, step # "query" => rest = {},
         step = "admin" => to \in BookingStates!Statuses,
         StartRun(h, op, key, to, step, rest)
  PROVE  /\ ControlOK' /\ UNCHANGED <<booking, payment, dates, effects>>
         /\ pc[h] = "idle" /\ pc'[h] = step /\ job'[h].key = key /\ job'[h].to = to
         /\ batch'[h] = rest /\ Alone(h)
  <1> DEFINE new == [op |-> op, key |-> key, to |-> to, paid |-> payStatus]
  <1>1. new \in Jobs /\ new.key = key /\ new.to = to
    BY DEF Jobs, DataOK
  <1>2. /\ pc' = [pc EXCEPT ![h] = step] /\ job' = [job EXCEPT ![h] = new]
        /\ batch' = [batch EXCEPT ![h] = rest]
    BY DEF StartRun
  <1> HIDE DEF new
  <1>3. ControlOK'
    BY <1>1, <1>2 DEF ControlOK
  <1> QED
    BY <1>1, <1>2, <1>3 DEF StartRun, ControlOK, Alone

LEMMA StartControl ==
  ASSUME ControlOK, DataOK, NEW h \in Handlers, NEW op \in Kinds,
         NEW key \in Keys \cup {NoKey},
         NEW to \in BookingStates!Statuses \cup PaymentStates,
         NEW step \in Steps \ {"settle", "query"}, step \in KeySteps => key \in Keys,
         step = "admin" => to \in BookingStates!Statuses, Start(h, op, key, to, step)
  PROVE  /\ ControlOK' /\ UNCHANGED <<booking, payment, dates, effects>>
         /\ pc[h] = "idle" /\ pc'[h] = step /\ job'[h].key = key /\ job'[h].to = to
         /\ batch'[h] = {} /\ Alone(h)
  BY StartRunControl DEF Start

LEMMA GotoControl ==
  ASSUME ControlOK, NEW h \in Handlers, pc[h] \notin {"idle", "query", "settle"},
         NEW step \in Steps \ {"settle", "admin"}, step \in KeySteps => job[h].key \in Keys,
         Goto(h, step)
  PROVE  /\ ControlOK' /\ pc'[h] = step /\ job'[h] = job[h] /\ batch'[h] = {}
         /\ Alone(h)
  BY DEF ControlOK, Goto, Alone

LEMMA FinishControl ==
  ASSUME ControlOK, NEW h \in Handlers, Finish(h)
  PROVE  ControlOK' /\ pc'[h] = "idle" /\ batch'[h] = {} /\ Alone(h)
  BY DEF ControlOK, Finish, Steps, KeySteps, Alone

LEMMA ReplyControl ==
  ASSUME ControlOK, NEW h \in Handlers, pc[h] \notin {"idle", "query", "settle"},
         NEW s \in PaymentStates, Reply(h, s)
  PROVE  ControlOK' /\ pc'[h] = "reply" /\ batch'[h] = {} /\ Alone(h)
  <1>1. [job[h] EXCEPT !.to = s] \in Jobs
    BY DEF ControlOK, Jobs
  <1>2. /\ job' = [job EXCEPT ![h] = [job[h] EXCEPT !.to = s]]
        /\ pc' = [pc EXCEPT ![h] = "reply"] /\ batch' = batch
    BY DEF Reply
  <1> QED
    BY <1>1, <1>2 DEF ControlOK, Steps, KeySteps, Alone

\* A run that is done with a row ends, or takes a row of its batch.
LEMMA NextControl ==
  ASSUME ControlOK, NEW h \in Handlers, pc[h] \in {"query", "settle"}, NextInBatch(h)
  PROVE  /\ ControlOK' /\ pc'[h] \in {"idle", "query"} /\ Alone(h)
         /\ batch'[h] \subseteq batch[h]
         /\ pc'[h] = "query" => job'[h].key \in batch[h]
  <1>1. CASE batch[h] = {} /\ Finish(h)
    BY <1>1, FinishControl
  <1>2. CASE ~(batch[h] = {} /\ Finish(h))
    <2>1. PICK k \in Keys :
            /\ OldestOf(k, batch[h])
            /\ pc'    = [pc EXCEPT ![h] = "query"]
            /\ job'   = [job EXCEPT ![h] = [@ EXCEPT !.key = k, !.to = "NONE"]]
            /\ batch' = [batch EXCEPT ![h] = @ \ {k}]
      BY <1>2 DEF NextInBatch
    <2> DEFINE new == [job[h] EXCEPT !.key = k, !.to = "NONE"]
    <2>2. new \in Jobs /\ new.key = k
      BY StatesIncluded DEF ControlOK, Jobs
    <2>3. job' = [job EXCEPT ![h] = new]
      BY <2>1
    <2>4. k \in batch[h]
      BY <2>1 DEF OldestOf
    <2> HIDE DEF new
    <2>5. ControlOK'
      BY <2>1, <2>2, <2>3 DEF ControlOK, Steps, KeySteps
    <2> QED
      BY <2>1, <2>2, <2>3, <2>4, <2>5 DEF ControlOK, Alone
  <1> QED
    BY <1>1, <1>2

\* The helpers that write the booking keep it well formed.
LEMMA ConfirmType ==
  ASSUME DataOK, ConfirmBooking
  PROVE  /\ status' \in BookingStates!Statuses
         /\ payStatus' \in {"PENDING", "COMPLETED", "FAILED"}
         /\ window' \in {"open", "over", "null"}
         /\ due' \in Amounts \cup {0}
         /\ tickets' \in {"none", "VALID", "USED", "CANCELLED", "EXPIRED"}
  BY DEF DataOK, ConfirmBooking, SetTickets, BookingStates!Statuses

LEMMA FailType ==
  ASSUME DataOK, FailBooking
  PROVE  /\ status' \in BookingStates!Statuses
         /\ payStatus' \in {"PENDING", "COMPLETED", "FAILED"}
         /\ window' \in {"open", "over", "null"}
         /\ due' \in Amounts \cup {0}
         /\ tickets' \in {"none", "VALID", "USED", "CANCELLED", "EXPIRED"}
  BY DEF DataOK, FailBooking, SetTickets, BookingStates!Statuses

LEMMA SetPaymentType ==
  ASSUME DataOK, NEW k \in Keys, NEW s \in PaymentStates, SetPayment(k, s)
  PROVE  /\ payment' \in [Keys -> PaymentStates]
         /\ payment'[k] = s
         /\ \A j \in Keys \ {k} : payment'[j] = payment[j]
  BY DEF DataOK, SetPayment

\* Every step keeps the control and the rows well formed.
LEMMA StepType ==
  ASSUME TypeOK, Step
  PROVE  ControlOK' /\ DataOK'
  <1> USE StatesIncluded
  <1>c. ControlOK /\ DataOK
    BY TypeParts
  <1>p. ASSUME NEW h \in Handlers, PaymentStep(h)
        PROVE  ControlOK' /\ DataOK'
    <2>1. CASE StartPayment(h)
      <3>1. PICK m \in Methods :
              \/ due = 0 /\ Start(h, "pay", NoKey, "NONE", "zero")
              \/ due # 0 /\ Start(h, "pay", <<m, due>>, "NONE", "find")
        BY <2>1 DEF StartPayment
      <3>2. CASE due = 0 /\ Start(h, "pay", NoKey, "NONE", "zero")
        <4>1. ControlOK' /\ UNCHANGED <<booking, payment, dates, effects>>
          BY <3>2, <1>c, StartControl DEF Kinds, Steps, KeySteps
        <4> QED
          BY <2>1, <4>1, <1>c DEF StartPayment, DataOK, booking, dates, effects, provider
      <3>3. CASE due # 0 /\ Start(h, "pay", <<m, due>>, "NONE", "find")
        <4>1. <<m, due>> \in Keys
          BY <3>3, <1>c DEF DataOK, Keys
        <4> DEFINE key == <<m, due>>
        <4>2. Start(h, "pay", key, "NONE", "find")
          BY <3>3
        <4> HIDE DEF key
        <4>3. key \in Keys
          BY <4>1 DEF key
        <4>4. ControlOK' /\ UNCHANGED <<booking, payment, dates, effects>>
          BY <4>2, <4>3, <1>c, StartControl DEF Kinds, Steps, KeySteps
        <4> QED
          BY <2>1, <4>4, <1>c DEF StartPayment, DataOK, booking, dates, effects, provider
      <3> QED
        BY <3>1, <3>2, <3>3
    <2>2. CASE ConfirmZeroAmount(h)
      BY <2>2, <1>c, GotoControl, ConfirmType
         DEF ConfirmZeroAmount, CountAndEnqueue, DataOK, dates, provider, Steps, KeySteps
    <2>3. CASE FindPayment(h)
      <3>1. job[h].key \in Keys
        BY <2>3, <1>c DEF FindPayment, ControlOK, KeySteps
      <3>2. CASE payment[job[h].key] = "NONE"
        BY <2>3, <3>1, <3>2, <1>c, GotoControl
           DEF FindPayment, DataOK, booking, dates, effects, provider, Steps, KeySteps
      <3>3. CASE payment[job[h].key] # "NONE"
        BY <2>3, <3>1, <3>3, <1>c, ReplyControl
           DEF FindPayment, DataOK, booking, dates, effects, provider, Steps, KeySteps
      <3> QED
        BY <3>2, <3>3
    <2>4. CASE CreatePayment(h)
      <3>1. job[h].key \in Keys
        BY <2>4, <1>c DEF CreatePayment, ControlOK, KeySteps
      <3>2. CASE payment[job[h].key] = "NONE"
        <4>1. created' \in Seq(Keys)
          BY <2>4, <3>1, <3>2, <1>c DEF CreatePayment, DataOK
        <4> QED
          BY <2>4, <3>1, <3>2, <4>1, <1>c, GotoControl, SetPaymentType
             DEF CreatePayment, DataOK, booking, effects, provider, Steps, KeySteps
      <3>3. CASE payment[job[h].key] # "NONE"
        BY <2>4, <3>1, <3>3, <1>c, GotoControl
           DEF CreatePayment, DataOK, booking, effects, provider, Steps, KeySteps
      <3> QED
        BY <3>2, <3>3
    <2>5. CASE OpenOrder(h)
      <3>1. job[h].key \in Keys
        BY <2>5, <1>c DEF OpenOrder, ControlOK, KeySteps
      <3> QED
        BY <2>5, <3>1, <1>c, GotoControl
           DEF OpenOrder, DataOK, booking, dates, effects, Steps, KeySteps
    <2>8. CASE RecordInitiation(h)
      <3>1. job[h].key \in Keys
        BY <2>8, <1>c DEF RecordInitiation, ControlOK, KeySteps
      <3> QED
        BY <2>8, <3>1, <1>c, ReplyControl, SetPaymentType
           DEF RecordInitiation, DataOK, booking, dates, effects, provider
    <2>6. CASE InitiationFails(h)
      <3>1. job[h].key \in Keys
        BY <2>6, <1>c DEF InitiationFails, ControlOK, KeySteps
      <3> QED
        BY <2>6, <3>1, <1>c, FinishControl, SetPaymentType
           DEF InitiationFails, DataOK, booking, dates, effects, provider
    <2>7. CASE Answer(h)
      BY <2>7, <1>c, FinishControl DEF Answer, DataOK, booking, dates, effects, provider
    <2> QED
      BY <1>p, <2>1, <2>2, <2>3, <2>4, <2>5, <2>6, <2>7, <2>8 DEF PaymentStep
  <1>i. ASSUME NEW h \in Handlers, CallbackStep(h)
        PROVE  ControlOK' /\ DataOK'
    <2>1. CASE ReceiveCallback(h)
      <3>1. PICK k \in Keys : /\ MarkIfFirstSeen(k)
                              /\ Start(h, "ipn", k, "NONE", "load")
                              /\ UNCHANGED order
        BY <2>1 DEF ReceiveCallback
      <3> QED
        BY <3>1, <1>c, StartControl
           DEF MarkIfFirstSeen, Kinds, Steps, KeySteps, DataOK, booking, dates, effects
    <2>2. CASE LoadPayment(h)
      <3>1. Finish(h) \/ Goto(h, "apply")
        BY <2>2 DEF LoadPayment
      <3> QED
        BY <2>2, <3>1, <1>c, FinishControl, GotoControl
           DEF LoadPayment, ControlOK, DataOK, booking, dates, effects, provider, Steps, KeySteps
    <2>3. CASE ApplySuccess(h)
      <3>1. job[h].key \in Keys
        BY <2>3, <1>c DEF ApplySuccess, ControlOK, KeySteps
      <3> QED
        BY <2>3, <3>1, <1>c, GotoControl, SetPaymentType, ConfirmType
           DEF ApplySuccess, CountAndEnqueue, DataOK, dates, provider, Steps, KeySteps
    <2>4. CASE ApplyFailure(h)
      <3>1. job[h].key \in Keys
        BY <2>4, <1>c DEF ApplyFailure, ControlOK, KeySteps
      <3> QED
        BY <2>4, <3>1, <1>c, FinishControl, SetPaymentType, FailType
           DEF ApplyFailure, DataOK, dates, effects, provider
    <2>5. CASE Announce(h)
      BY <2>5, <1>c, FinishControl DEF Announce, DataOK, booking, dates, provider
    <2> QED
      BY <1>i, <2>1, <2>2, <2>3, <2>4, <2>5 DEF CallbackStep
  <1>r. ASSUME NEW h \in Handlers, ReconciliationStep(h)
        PROVE  ControlOK' /\ DataOK'
    <2>1. CASE SelectStalePayments(h)
      <3>1. PICK n \in 1 .. Len(created), k \in Keys :
              StartRun(h, "recon", k, "NONE", "query", StaleBatch(n) \ {k})
        BY <2>1 DEF SelectStalePayments
      <3>2. StaleBatch(n) \ {k} \in SUBSET Keys
        BY DEF StaleBatch
      <3>3. ControlOK' /\ UNCHANGED <<booking, payment, dates, effects>>
        BY <3>1, <3>2, <1>c, StartRunControl DEF Kinds, Steps, KeySteps
      <3> QED
        BY <2>1, <3>3, <1>c
           DEF SelectStalePayments, DataOK, booking, dates, effects, provider
    <2>2. CASE QueryProvider(h)
      <3> DEFINE to == IF order[job[h].key] = "paid" THEN "COMPLETED" ELSE "FAILED"
      <3>1. /\ pc[h] = "query" /\ pc' = [pc EXCEPT ![h] = "settle"]
            /\ job' = [job EXCEPT ![h].to = to] /\ batch' = batch
            /\ UNCHANGED <<booking, payment, dates, effects, provider>>
        BY <2>2 DEF QueryProvider
      <3>2. to \in {"COMPLETED", "FAILED"}
        OBVIOUS
      <3> HIDE DEF to
      <3>3. job[h] \in Jobs /\ job[h].key \in Keys
        BY <3>1, <1>c DEF ControlOK, KeySteps
      <3>4. [job[h] EXCEPT !.to = to] \in Jobs /\ [job[h] EXCEPT !.to = to].to = to
        BY <3>2, <3>3 DEF Jobs
      <3>5. [job[h] EXCEPT !.to = to].key \in Keys
        BY <3>2, <3>3 DEF Jobs
      <3> DEFINE new == [job[h] EXCEPT !.to = to]
      <3>6. job' = [job EXCEPT ![h] = new]
        BY <3>1
      <3>7. new \in Jobs /\ new.to \in {"COMPLETED", "FAILED"} /\ new.key \in Keys
        BY <3>2, <3>4, <3>5
      <3> HIDE DEF new
      <3>8. ControlOK'
        BY <3>1, <3>6, <3>7, <1>c DEF ControlOK, Steps, KeySteps
      <3> QED
        BY <3>1, <3>8, <1>c DEF DataOK, booking, dates, effects, provider
    <2>3. CASE DeferPayment(h)
      BY <2>3, <1>c, NextControl DEF DeferPayment, DataOK, booking, dates, effects, provider
    <2>4. CASE SettlePayment(h)
      <3>1. job[h].key \in Keys /\ job[h].to \in {"COMPLETED", "FAILED"}
        BY <2>4, <1>c DEF SettlePayment, ControlOK, KeySteps
      <3> QED
        BY <2>4, <3>1, <1>c, NextControl, SetPaymentType, ConfirmType, FailType
           DEF SettlePayment, DataOK, dates, effects, provider
    <2> QED
      BY <1>r, <2>1, <2>2, <2>3, <2>4 DEF ReconciliationStep
  <1>m. ASSUME NEW h \in Handlers, ManualStep(h)
        PROVE  ControlOK' /\ DataOK'
    <2>1. CASE StartAdmin(h)
      <3>1. PICK to \in BookingStates!Statuses :
              /\ Start(h, "admin", NoKey, to, "admin")
              /\ UNCHANGED provider
        BY <2>1 DEF StartAdmin
      <3>2. ControlOK' /\ UNCHANGED <<booking, payment, dates, effects>>
        BY <3>1, <1>c, StartControl DEF Kinds, Steps, KeySteps
      <3> QED
        BY <3>1, <3>2, <1>c DEF DataOK, booking, dates, effects, provider
    <2>2. CASE UpdateBookingStatus(h)
      <3>1. /\ ControlOK'
            /\ UNCHANGED <<due, payment, dates, effects, provider>>
        BY <2>2, <1>c, FinishControl DEF UpdateBookingStatus
      <3>2. status' \in BookingStates!Statuses
        <4>1. status' = job[h].to
          BY <2>2 DEF UpdateBookingStatus
        <4>2. job[h].to \in BookingStates!Statuses
          BY <2>2, <1>c DEF UpdateBookingStatus, ControlOK
        <4> QED
          BY <4>1, <4>2
      <3>3. payStatus' \in {"PENDING", "COMPLETED", "FAILED"}
        BY <2>2, <1>c DEF UpdateBookingStatus, DataOK
      <3>4. window' \in {"open", "over", "null"}
        BY <2>2, <1>c DEF UpdateBookingStatus, DataOK
      <3>5. tickets' \in {"none", "VALID", "USED", "CANCELLED", "EXPIRED"}
        BY <2>2, <1>c DEF UpdateBookingStatus, SetTickets, DataOK
      <3> QED
        BY <3>1, <3>2, <3>3, <3>4, <3>5, <1>c DEF DataOK, dates, effects, provider
    <2>3. CASE StartCancel(h)
      <3>1. Start(h, "cancel", NoKey, "CANCELLED", "cancel") /\ UNCHANGED provider
        BY <2>3 DEF StartCancel
      <3>2. ControlOK' /\ UNCHANGED <<booking, payment, dates, effects>>
        BY <3>1, <1>c, StartControl DEF Kinds, Steps, KeySteps
      <3> QED
        BY <3>1, <3>2, <1>c DEF DataOK, booking, dates, effects, provider
    <2>4. CASE CancelBooking(h)
      BY <2>4, <1>c, FinishControl DEF CancelBooking, DataOK, dates, effects, provider
    <2>5. CASE StartVoid(h)
      BY <2>5, <1>c, StartControl
         DEF StartVoid, Kinds, Steps, KeySteps, DataOK, booking, dates, effects, provider
    <2>6. CASE VoidPayment(h)
      <3>1. job[h].key \in Keys
        BY <2>6, <1>c DEF VoidPayment, ControlOK, KeySteps
      <3> QED
        BY <2>6, <3>1, <1>c, FinishControl, SetPaymentType
           DEF VoidPayment, DataOK, booking, dates, effects, provider
    <2>12. CASE StartRefund(h)
      BY <2>12, <1>c, StartControl
         DEF StartRefund, Kinds, Steps, KeySteps, DataOK, booking, dates, effects, provider
    <2>13. CASE ApproveRefund(h)
      <3>1. job[h].key \in Keys
        BY <2>13, <1>c DEF ApproveRefund, ControlOK, KeySteps
      <3> QED
        BY <2>13, <3>1, <1>c, FinishControl, SetPaymentType
           DEF ApproveRefund, DataOK, dates, effects, provider
    <2>7. CASE StartUpdate(h)
      <3>1. Start(h, "update", NoKey, "NONE", "dropTickets") /\ UNCHANGED provider
        BY <2>7 DEF StartUpdate
      <3>2. ControlOK' /\ UNCHANGED <<booking, payment, dates, effects>>
        BY <3>1, <1>c, StartControl DEF Kinds, Steps, KeySteps
      <3> QED
        BY <3>1, <3>2, <1>c DEF DataOK, booking, dates, effects, provider
    <2>8. CASE DropTickets(h)
      BY <2>8, <1>c, GotoControl DEF DropTickets, DataOK, dates, effects, provider, Steps, KeySteps
    <2>9. CASE CreateTickets(h)
      BY <2>9, <1>c, GotoControl DEF CreateTickets, DataOK, dates, effects, provider, Steps, KeySteps
    <2>10. CASE ExtendWindow(h)
      BY <2>10, <1>c, GotoControl DEF ExtendWindow, DataOK, dates, effects, provider, Steps, KeySteps
    <2>11. CASE Reprice(h)
      BY <2>11, <1>c, FinishControl DEF Reprice, DataOK, dates, effects, provider
    <2> QED
      BY <1>m, <2>1, <2>2, <2>3, <2>4, <2>5, <2>6, <2>7, <2>8, <2>9, <2>10, <2>11,
         <2>12, <2>13 DEF ManualStep
  <1>a. ASSUME NEW h \in Handlers, Abort(h)
        PROVE  ControlOK' /\ DataOK'
    BY <1>a, <1>c, FinishControl DEF Abort, DataOK, booking, dates, effects, provider
  <1>f. ASSUME NEW k \in Keys, FinishOrder(k)
        PROVE  ControlOK' /\ DataOK'
    BY <1>f, <1>c DEF FinishOrder, ControlOK, DataOK, booking, dates, effects, handlers
  <1>o. CASE OtherSettled
    <2>1. others' \in 0 .. MaxOthers
      BY <1>o, <1>c, ConstantsAssumption DEF OtherSettled, DataOK
    <2> QED
      BY <1>o, <2>1, <1>c DEF OtherSettled, ControlOK, DataOK, booking, effects, provider, handlers
  <1>w. CASE WindowCloses
    BY <1>w, <1>c DEF WindowCloses, ControlOK, DataOK, dates, effects, provider, handlers
  <1> QED
    BY <1>p, <1>i, <1>r, <1>m, <1>a, <1>f, <1>o, <1>w DEF Step

LEMMA TypeStep == TypeOK /\ [Next]_vars => TypeOK'
  <1> SUFFICES ASSUME TypeOK, [Next]_vars
               PROVE  TypeOK'
    OBVIOUS
  <1>1. CASE Next
    <2>1. ControlOK' /\ DataOK'
      BY <1>1, StepType DEF Next
    <2>2. HistoryOK'
      BY <1>1, TypeParts DEF Next, Record, HistoryOK
    <2> QED
      BY <2>1, <2>2 DEF TypeOK, ControlOK, DataOK, HistoryOK
  <1>2. CASE UNCHANGED vars
    BY <1>2 DEF vars, TypeOK, booking, dates, effects, provider, handlers, history
  <1> QED
    BY <1>1, <1>2

LEMMA TypeInit == Init => TypeOK
  <1> SUFFICES ASSUME Init
               PROVE  ControlOK /\ DataOK /\ HistoryOK
    BY TypeParts
  <1>1. ControlOK
    BY DEF Init, ControlOK, Steps, KeySteps
  <1>2. DataOK
    <2>1. created \in Seq(Keys)
      BY DEF Init
    <2>2. payment \in [Keys -> PaymentStates]
      BY StatesIncluded DEF Init
    <2> QED
      BY <2>1, <2>2, StatesIncluded DEF Init, DataOK
  <1>3. HistoryOK
    BY DEF Init, HistoryOK
  <1> QED
    BY <1>1, <1>2, <1>3

\* TypeOK, for every set of methods, amounts and overlapping operations.
THEOREM TypeCorrect == Spec => []TypeOK
  BY TypeInit, TypeStep, PTL DEF Spec

-----------------------------------------------------------------------------
(* What the steps of an operation do to the payment rows.                  *)

Initiating == {"initiate", "record"}

\* What operation h has read of the rows that it is about to write.
Expected(h) == IF pc[h] = "refund" THEN "COMPLETED" ELSE "PENDING"

\* Operation h takes rows, with the status it reads.
ReadsRows(h) ==
  /\ UNCHANGED payment
  /\ \A k \in Rows(h)' : payment[k] = Expected(h)'
  /\ pc'[h] \notin Initiating

\* It writes no row and takes none that it has not got.
KeepsRows(h) ==
  /\ UNCHANGED payment
  /\ Rows(h)' \subseteq Rows(h) /\ "refund" \notin {pc[h], pc'[h]}
  /\ pc'[h] \in Initiating => pc[h] \in Initiating /\ job'[h] = job[h]

CreatesRow(h) ==
  /\ pc[h] = "create" /\ payment[job[h].key] = "NONE"
  /\ SetPayment(job[h].key, "PROCESSING")
  /\ pc'[h] = "initiate" /\ job'[h] = job[h] /\ Rows(h)' = {}

InitiatesRow(h) ==
  /\ pc[h] \in Initiating
  /\ \E s \in {"PENDING", "FAILED"} : SetPayment(job[h].key, s)
  /\ pc'[h] \notin Initiating /\ Rows(h)' = {}

\* It writes the row it is at, once.
WritesRow(h) ==
  /\ pc[h] \in RowSteps
  /\ \/ /\ pc[h] = "refund" /\ ApproveRefund(h)
        /\ SetPayment(job[h].key, "REFUNDED") /\ Rows(h)' = {}
     \/ /\ pc[h] # "refund"
        /\ \E s \in {"COMPLETED", "FAILED"} : SetPayment(job[h].key, s)
  /\ Rows(h)' \subseteq Rows(h)
  /\ pc'[h] # pc[h] /\ pc'[h] \notin Initiating \cup {"refund"}

RowMove(h) ==
  \/ ReadsRows(h) \/ KeepsRows(h) \/ CreatesRow(h) \/ InitiatesRow(h) \/ WritesRow(h)

LEMMA RowMoves ==
  ASSUME TypeOK, NEW h \in Handlers,
         \/ PaymentStep(h) \/ CallbackStep(h)
         \/ ReconciliationStep(h) \/ ManualStep(h) \/ Abort(h)
  PROVE  Alone(h) /\ RowMove(h)
  <1>c. ControlOK /\ DataOK
    BY TypeParts
  <1>k. pc[h] \in KeySteps => job[h].key \in Keys
    BY <1>c DEF ControlOK
  <1> USE StatesIncluded
  <1>1. ASSUME NEW op \in Kinds, NEW key \in Keys \cup {NoKey},
               NEW to \in BookingStates!Statuses \cup PaymentStates,
               NEW step \in Steps \ (RowSteps \cup Initiating \cup KeySteps),
               step = "admin" => to \in BookingStates!Statuses,
               Start(h, op, key, to, step)
        PROVE  Alone(h) /\ RowMove(h)
    <2>1. /\ UNCHANGED payment /\ pc[h] = "idle" /\ pc'[h] = step /\ batch'[h] = {}
          /\ Alone(h)
      BY <1>1, <1>c, StartControl DEF RowSteps
    <2> QED
      BY <2>1 DEF RowMove, ReadsRows, Rows
  <1>2. ASSUME NEW op \in Kinds, NEW key \in Keys,
               NEW to \in BookingStates!Statuses \cup PaymentStates,
               NEW step \in {"find", "load", "void", "refund"},
               Start(h, op, key, to, step),
               \/ step \in {"find", "load"}
               \/ step = "void" /\ payment[key] = "PENDING"
               \/ step = "refund" /\ payment[key] = "COMPLETED"
        PROVE  Alone(h) /\ RowMove(h)
    <2>1. /\ UNCHANGED payment /\ pc[h] = "idle" /\ pc'[h] = step /\ batch'[h] = {}
          /\ job'[h].key = key /\ Alone(h)
      BY <1>2, <1>c, StartControl DEF Steps
    <2> QED
      BY <1>2, <2>1 DEF RowMove, ReadsRows, Rows, RowSteps, Initiating, Expected
  <1>3. ASSUME Finish(h), UNCHANGED payment
        PROVE  Alone(h) /\ RowMove(h)
    <2>1. pc'[h] = "idle" /\ batch'[h] = {} /\ Alone(h)
      BY <1>3, <1>c, FinishControl
    <2> QED
      BY <1>3, <2>1 DEF RowMove, ReadsRows, Rows, RowSteps, Initiating
  <1>4. ASSUME NEW step \in Steps \ (RowSteps \cup Initiating \cup {"admin"}), Goto(h, step),
               pc[h] \notin {"idle", "query", "settle", "refund"}, UNCHANGED payment,
               step \in KeySteps => pc[h] \in KeySteps
        PROVE  Alone(h) /\ RowMove(h)
    <2>1. pc'[h] = step /\ batch'[h] = {} /\ Alone(h)
      BY <1>4, <1>c, <1>k, GotoControl DEF RowSteps
    <2> QED
      BY <1>4, <2>1 DEF RowMove, KeepsRows, Rows, RowSteps
  <1>5. ASSUME NEW s \in PaymentStates, Reply(h, s), pc[h] = "find", UNCHANGED payment
        PROVE  Alone(h) /\ RowMove(h)
    <2>1. pc'[h] = "reply" /\ batch'[h] = {} /\ Alone(h)
      BY <1>5, <1>c, ReplyControl
    <2> QED
      BY <1>5, <2>1 DEF RowMove, KeepsRows, Rows, RowSteps, Initiating
  <1>6. ASSUME pc[h] \in {"apply", "void"}, Finish(h) \/ Goto(h, "announce"),
               NEW s \in {"COMPLETED", "FAILED"}, SetPayment(job[h].key, s)
        PROVE  Alone(h) /\ RowMove(h)
    <2>1. pc'[h] \in {"idle", "announce"} /\ batch'[h] = {} /\ Alone(h)
      BY <1>6, <1>c, FinishControl, GotoControl DEF Steps, KeySteps
    <2> QED
      BY <1>6, <2>1 DEF RowMove, WritesRow, Rows, RowSteps, Initiating
  <1>p. ASSUME PaymentStep(h)
        PROVE  Alone(h) /\ RowMove(h)
    <2>1. CASE StartPayment(h)
      <3>1. CASE Start(h, "pay", NoKey, "NONE", "zero")
        BY <1>1, <3>1 DEF Kinds, Steps, RowSteps, Initiating, KeySteps
      <3>2. ASSUME NEW m \in Methods, due # 0, Start(h, "pay", <<m, due>>, "NONE", "find")
            PROVE  Alone(h) /\ RowMove(h)
        <4> DEFINE key == <<m, due>>
        <4>1. key \in Keys /\ Start(h, "pay", key, "NONE", "find")
          BY <3>2, <1>c DEF DataOK, Keys
        <4> HIDE DEF key
        <4> QED
          BY <1>2, <4>1 DEF Kinds
      <3> QED
        BY <2>1, <3>1, <3>2 DEF StartPayment
    <2>2. CASE ConfirmZeroAmount(h)
      BY <2>2, <1>4 DEF ConfirmZeroAmount, Steps, RowSteps, Initiating, KeySteps
    <2>3. CASE FindPayment(h)
      <3>1. CASE Goto(h, "create")
        BY <2>3, <3>1, <1>4 DEF FindPayment, Steps, RowSteps, Initiating, KeySteps
      <3>2. CASE Reply(h, payment[job[h].key])
        <4>1. payment[job[h].key] \in PaymentStates
          BY <2>3, <1>k, <1>c DEF FindPayment, KeySteps, DataOK
        <4> QED
          BY <2>3, <3>2, <4>1, <1>5 DEF FindPayment
      <3> QED
        BY <2>3, <3>1, <3>2 DEF FindPayment
    <2>4. CASE CreatePayment(h)
      <3>1. CASE payment[job[h].key] = "NONE"
        <4>1. /\ pc'[h] = "initiate" /\ job'[h] = job[h] /\ batch'[h] = {} /\ Alone(h)
          BY <2>4, <3>1, <1>c, <1>k, GotoControl DEF CreatePayment, Steps, KeySteps
        <4> QED
          BY <2>4, <3>1, <4>1 DEF CreatePayment, RowMove, CreatesRow, Rows, RowSteps
      <3>2. CASE payment[job[h].key] # "NONE"
        BY <2>4, <3>2, <1>4 DEF CreatePayment, Steps, RowSteps, Initiating, KeySteps
      <3> QED
        BY <3>1, <3>2
    <2>5. CASE OpenOrder(h)
      <3>1. pc'[h] = "record" /\ job'[h] = job[h] /\ batch'[h] = {} /\ Alone(h)
        BY <2>5, <1>c, <1>k, GotoControl DEF OpenOrder, Steps, KeySteps
      <3> QED
        BY <2>5, <3>1 DEF OpenOrder, RowMove, KeepsRows, Rows, RowSteps, Initiating
    <2>6. CASE RecordInitiation(h) \/ InitiationFails(h)
      <3>1. /\ pc[h] \in Initiating
            /\ Reply(h, "PENDING") \/ Finish(h)
            /\ \E s \in {"PENDING", "FAILED"} : SetPayment(job[h].key, s)
        BY <2>6 DEF RecordInitiation, InitiationFails, Initiating
      <3>2. pc'[h] \in {"reply", "idle"} /\ batch'[h] = {} /\ Alone(h)
        BY <3>1, <1>c, ReplyControl, FinishControl DEF Initiating
      <3> QED
        BY <3>1, <3>2 DEF RowMove, InitiatesRow, Rows, RowSteps, Initiating
    <2>7. CASE Answer(h)
      BY <2>7, <1>3 DEF Answer
    <2> QED
      BY <1>p, <2>1, <2>2, <2>3, <2>4, <2>5, <2>6, <2>7 DEF PaymentStep
  <1>i. ASSUME CallbackStep(h)
        PROVE  Alone(h) /\ RowMove(h)
    <2>1. CASE ReceiveCallback(h)
      <3>1. PICK k \in Keys : Start(h, "ipn", k, "NONE", "load")
        BY <2>1 DEF ReceiveCallback
      <3> QED
        BY <3>1, <1>2 DEF Kinds
    <2>2. CASE LoadPayment(h)
      <3>1. CASE Finish(h)
        BY <2>2, <3>1, <1>3 DEF LoadPayment
      <3>2. CASE Goto(h, "apply") /\ payment[job[h].key] = "PENDING"
        <4>1. pc'[h] = "apply" /\ job'[h] = job[h] /\ batch'[h] = {} /\ Alone(h)
          BY <2>2, <3>2, <1>c, <1>k, GotoControl DEF LoadPayment, Steps, KeySteps
        <4> QED
          BY <2>2, <3>2, <4>1
             DEF LoadPayment, RowMove, ReadsRows, Rows, RowSteps, Initiating, Expected
      <3> QED
        BY <2>2, <3>1, <3>2 DEF LoadPayment
    <2>3. CASE ApplySuccess(h)
      BY <2>3, <1>6 DEF ApplySuccess
    <2>4. CASE ApplyFailure(h)
      BY <2>4, <1>6 DEF ApplyFailure
    <2>5. CASE Announce(h)
      BY <2>5, <1>3 DEF Announce
    <2> QED
      BY <1>i, <2>1, <2>2, <2>3, <2>4, <2>5 DEF CallbackStep
  <1>r. ASSUME ReconciliationStep(h)
        PROVE  Alone(h) /\ RowMove(h)
    <2>1. CASE SelectStalePayments(h)
      <3>1. PICK n \in 1 .. Len(created), k \in Keys :
              /\ OldestOf(k, StaleBatch(n))
              /\ StartRun(h, "recon", k, "NONE", "query", StaleBatch(n) \ {k})
        BY <2>1 DEF SelectStalePayments
      <3>2. \A j \in StaleBatch(n) : j \in Keys /\ payment[j] = "PENDING"
        BY DEF StaleBatch
      <3>3. k \in StaleBatch(n)
        BY <3>1 DEF OldestOf
      <3>4. StaleBatch(n) \ {k} \in SUBSET Keys
        BY <3>2
      <3> DEFINE rest == StaleBatch(n) \ {k}
      <3>5. StartRun(h, "recon", k, "NONE", "query", rest) /\ rest \in SUBSET Keys
        BY <3>1, <3>4
      <3>6. \A j \in rest \cup {k} : payment[j] = "PENDING"
        BY <3>2, <3>3
      <3> HIDE DEF rest
      <3>7. /\ UNCHANGED payment /\ pc'[h] = "query" /\ batch'[h] = rest
            /\ job'[h].key = k /\ Alone(h)
        BY <3>5, <1>c, StartRunControl DEF Kinds, Steps
      <3> QED
        BY <3>6, <3>7 DEF RowMove, ReadsRows, Rows, RowSteps, Initiating, Expected
    <2>2. CASE QueryProvider(h)
      <3>1. PICK to \in {"COMPLETED", "FAILED"} :
              /\ pc[h] = "query" /\ pc' = [pc EXCEPT ![h] = "settle"]
              /\ job' = [job EXCEPT ![h] = [job[h] EXCEPT !.to = to]]
              /\ batch' = batch /\ UNCHANGED payment
        BY <2>2 DEF QueryProvider
      <3>2. [job[h] EXCEPT !.to = to].key = job[h].key
        BY <3>1, <1>c DEF ControlOK, Jobs
      <3> DEFINE new == [job[h] EXCEPT !.to = to]
      <3>3. job' = [job EXCEPT ![h] = new] /\ new.key = job[h].key
        BY <3>1, <3>2
      <3> HIDE DEF new
      <3>4. /\ pc'[h] = "settle" /\ job'[h].key = job[h].key /\ batch'[h] = batch[h]
            /\ Alone(h)
        BY <3>1, <3>3, <1>c DEF ControlOK, Alone
      <3> QED
        BY <3>1, <3>4 DEF RowMove, KeepsRows, Rows, RowSteps, Initiating
    <2>3. CASE DeferPayment(h)
      <3>1. /\ pc[h] \in {"query", "settle"} /\ UNCHANGED payment
            /\ pc'[h] \in {"idle", "query"} /\ Alone(h) /\ batch'[h] \subseteq batch[h]
            /\ pc'[h] = "query" => job'[h].key \in batch[h]
        BY <2>3, <1>c, NextControl DEF DeferPayment
      <3> QED
        BY <3>1 DEF RowMove, KeepsRows, Rows, RowSteps, Initiating
    <2>4. CASE SettlePayment(h)
      <3>1. /\ pc[h] = "settle" /\ pc'[h] \in {"idle", "query"} /\ Alone(h)
            /\ batch'[h] \subseteq batch[h]
            /\ pc'[h] = "query" => job'[h].key \in batch[h]
            /\ job[h].to \in {"COMPLETED", "FAILED"} /\ SetPayment(job[h].key, job[h].to)
        BY <2>4, <1>c, NextControl DEF SettlePayment, ControlOK
      <3> QED
        BY <3>1 DEF RowMove, WritesRow, Rows, RowSteps, Initiating
    <2> QED
      BY <1>r, <2>1, <2>2, <2>3, <2>4 DEF ReconciliationStep
  <1>m. ASSUME ManualStep(h)
        PROVE  Alone(h) /\ RowMove(h)
    <2>1. CASE StartAdmin(h)
      <3>1. PICK to \in BookingStates!Statuses : Start(h, "admin", NoKey, to, "admin")
        BY <2>1 DEF StartAdmin
      <3> QED
        BY <3>1, <1>1 DEF Kinds, Steps, RowSteps, Initiating, KeySteps
    <2>2. CASE StartCancel(h) \/ StartUpdate(h)
      BY <2>2, <1>1 DEF StartCancel, StartUpdate, Kinds, Steps, RowSteps, Initiating, KeySteps
    <2>3. CASE UpdateBookingStatus(h) \/ CancelBooking(h) \/ Reprice(h)
      BY <2>3, <1>3 DEF UpdateBookingStatus, CancelBooking, Reprice
    <2>4. CASE StartVoid(h) \/ StartRefund(h)
      BY <2>4, <1>2 DEF StartVoid, StartRefund, Kinds, PaymentStates, Policy!Statuses
    <2>5. CASE VoidPayment(h)
      BY <2>5, <1>6 DEF VoidPayment
    <2>6. CASE ApproveRefund(h)
      <3>1. pc[h] = "refund" /\ pc'[h] = "idle" /\ batch'[h] = {} /\ Alone(h)
        BY <2>6, <1>c, FinishControl DEF ApproveRefund
      <3>2. SetPayment(job[h].key, "REFUNDED")
        BY <2>6 DEF ApproveRefund
      <3> QED
        BY <2>6, <3>1, <3>2 DEF RowMove, WritesRow, Rows, RowSteps, Initiating
    <2>7. CASE DropTickets(h) \/ CreateTickets(h) \/ ExtendWindow(h)
      BY <2>7, <1>4
         DEF DropTickets, CreateTickets, ExtendWindow, Steps, RowSteps, Initiating, KeySteps
    <2> QED
      BY <1>m, <2>1, <2>2, <2>3, <2>4, <2>5, <2>6, <2>7 DEF ManualStep
  <1>a. CASE Abort(h)
    BY <1>a, <1>3 DEF Abort
  <1> QED
    BY <1>p, <1>i, <1>r, <1>m, <1>a

\* A step is one of an operation, or leaves the operations and the rows alone.
LEMMA StepCases ==
  ASSUME TypeOK, [Next]_vars
  PROVE  \/ \E h \in Handlers : Alone(h) /\ RowMove(h)
         \/ UNCHANGED <<payment, pc, job, batch>>
  <1>1. CASE Step
    BY <1>1, RowMoves DEF Step, FinishOrder, OtherSettled, WindowCloses, handlers
  <1>2. CASE UNCHANGED vars
    BY <1>2 DEF vars, handlers
  <1> QED
    BY <1>1, <1>2 DEF Next

-----------------------------------------------------------------------------
(* The unique key makes the creation of a payment row a lock.              *)

\* An operation that writes a row by id has read it after it was initiated: only
\* the initiator gets a row out of PROCESSING.
RowsAreInitiated ==
  \A h \in Handlers : \A k \in Rows(h) : payment[k] \notin {"NONE", "PROCESSING"}

RowInv == TypeOK /\ InitiatorOwnsRow /\ RowsAreInitiated

\* What a step of the settled rows may do.
NoReopening == \A k \in Keys : payment[k] \in Settled => payment'[k] \in Settled

LEMMA RowsAreKeys ==
  ASSUME TypeOK, NEW h \in Handlers
  PROVE  /\ Rows(h) \subseteq Keys
         /\ pc[h] \in Initiating \cup RowSteps \cup {"create"} => job[h].key \in Keys
  BY DEF TypeOK, Rows, RowSteps, Initiating, KeySteps

\* A step of operation h that writes no row, takes only rows that are
\* initiated, and does not begin to initiate one.
LEMMA QuietRows ==
  ASSUME RowInv, TypeOK', NEW h \in Handlers, Alone(h), UNCHANGED payment,
         \A k \in Rows(h)' : k \in Rows(h) \/ payment[k] \notin {"NONE", "PROCESSING"},
         pc'[h] \in Initiating => pc[h] \in Initiating /\ job'[h] = job[h]
  PROVE  RowInv' /\ NoReopening
  <1>1. \A g \in Handlers \ {h} : pc'[g] = pc[g] /\ job'[g] = job[g] /\ Rows(g)' = Rows(g)
    BY DEF Alone, Rows
  <1>2. InitiatorOwnsRow'
    BY <1>1 DEF RowInv, InitiatorOwnsRow, Initiating
  <1>3. RowsAreInitiated'
    BY <1>1 DEF RowInv, RowsAreInitiated
  <1> QED
    BY <1>2, <1>3 DEF RowInv, NoReopening

LEMMA RowStep == RowInv /\ [Next]_vars => RowInv' /\ NoReopening
  <1> SUFFICES ASSUME RowInv, [Next]_vars
               PROVE  RowInv' /\ NoReopening
    OBVIOUS
  <1>t. TypeOK /\ TypeOK'
    BY TypeStep DEF RowInv
  <1>1. CASE UNCHANGED <<payment, pc, job, batch>>
    <2>1. \A h \in Handlers : Rows(h)' = Rows(h)
      BY <1>1 DEF Rows
    <2> QED
      BY <1>1, <1>t, <2>1 DEF RowInv, InitiatorOwnsRow, RowsAreInitiated, NoReopening
  <1>2. ASSUME NEW h \in Handlers, Alone(h), RowMove(h)
        PROVE  RowInv' /\ NoReopening
    <2>g. \A g \in Handlers \ {h} : pc'[g] = pc[g] /\ job'[g] = job[g] /\ Rows(g)' = Rows(g)
      BY <1>2 DEF Alone, Rows
    <2>k. \A g \in Handlers : Rows(g) \subseteq Keys
      BY <1>t, RowsAreKeys
    <2>1. CASE ReadsRows(h) \/ KeepsRows(h)
      BY <1>2, <1>t, <2>1, QuietRows DEF ReadsRows, KeepsRows, Expected
    <2> DEFINE k == job[h].key
    <2>w. ASSUME NEW s \in PaymentStates, SetPayment(k, s), k \in Keys
          PROVE  payment'[k] = s /\ \A j \in Keys \ {k} : payment'[j] = payment[j]
      BY <2>w, <1>t DEF SetPayment, TypeOK
    <2>2. CASE CreatesRow(h)
      <3>1. k \in Keys
        BY <2>2, <1>t, RowsAreKeys DEF CreatesRow
      <3>2. /\ payment[k] = "NONE" /\ payment'[k] = "PROCESSING"
            /\ \A j \in Keys \ {k} : payment'[j] = payment[j]
        BY <2>2, <2>w, <3>1, StatesIncluded DEF CreatesRow
      <3>3. pc'[h] = "initiate" /\ job'[h].key = k /\ Rows(h)' = {}
        BY <2>2 DEF CreatesRow
      <3>4. \A g \in Handlers : pc[g] \in Initiating =>
                 job[g].key \in Keys /\ payment[job[g].key] = "PROCESSING"
        BY <1>t, RowsAreKeys DEF RowInv, InitiatorOwnsRow, Initiating
      <3> HIDE DEF k
      <3>5. InitiatorOwnsRow'
        BY <2>g, <3>1, <3>2, <3>3, <3>4 DEF RowInv, InitiatorOwnsRow, Initiating
      <3>6. RowsAreInitiated'
        BY <2>g, <2>k, <3>1, <3>2, <3>3 DEF RowInv, RowsAreInitiated
      <3> QED
        BY <1>t, <3>1, <3>2, <3>5, <3>6 DEF RowInv, NoReopening, Settled
    <2>3. CASE InitiatesRow(h)
      <3>1. k \in Keys /\ payment[k] = "PROCESSING"
        BY <2>3, <1>t, RowsAreKeys DEF InitiatesRow, RowInv, InitiatorOwnsRow, Initiating
      <3>2. PICK s \in {"PENDING", "FAILED"} :
              payment'[k] = s /\ \A j \in Keys \ {k} : payment'[j] = payment[j]
        BY <2>3, <2>w, <3>1, StatesIncluded DEF InitiatesRow
      <3>3. pc'[h] \notin Initiating /\ Rows(h)' = {}
        BY <2>3 DEF InitiatesRow
      <3>4. \A g \in Handlers \ {h} : pc[g] \in Initiating =>
                 job[g].key \in Keys /\ job[g].key # k
        BY <2>3, <1>t, RowsAreKeys DEF InitiatesRow, RowInv, InitiatorOwnsRow, Initiating
      <3> HIDE DEF k
      <3>5. InitiatorOwnsRow'
        BY <2>g, <3>1, <3>2, <3>3, <3>4 DEF RowInv, InitiatorOwnsRow, Initiating
      <3>6. RowsAreInitiated'
        BY <2>g, <2>k, <3>1, <3>2, <3>3 DEF RowInv, RowsAreInitiated
      <3> QED
        BY <1>t, <3>1, <3>2, <3>5, <3>6 DEF RowInv, NoReopening, Settled
    <2>4. CASE WritesRow(h)
      <3>1. k \in Keys /\ k \in Rows(h)
        BY <2>4, <1>t, RowsAreKeys DEF WritesRow, Rows
      <3>2. payment[k] \notin {"NONE", "PROCESSING"}
        BY <3>1 DEF RowInv, RowsAreInitiated
      <3>3. PICK s \in Settled :
              payment'[k] = s /\ \A j \in Keys \ {k} : payment'[j] = payment[j]
        BY <2>4, <2>w, <3>1, StatesIncluded DEF WritesRow, Settled
      <3>4. pc'[h] \notin Initiating /\ Rows(h)' \subseteq Rows(h)
        BY <2>4 DEF WritesRow
      <3>5. \A g \in Handlers : pc[g] \in Initiating =>
                 job[g].key \in Keys /\ payment[job[g].key] = "PROCESSING"
        BY <1>t, RowsAreKeys DEF RowInv, InitiatorOwnsRow, Initiating
      <3> HIDE DEF k
      <3>6. InitiatorOwnsRow'
        BY <2>g, <3>1, <3>2, <3>3, <3>4, <3>5 DEF RowInv, InitiatorOwnsRow, Initiating
      <3>7. RowsAreInitiated'
        BY <2>g, <2>k, <3>1, <3>2, <3>3, <3>4 DEF RowInv, RowsAreInitiated, Settled
      <3> QED
        BY <1>t, <3>1, <3>2, <3>3, <3>6, <3>7 DEF RowInv, NoReopening, Settled
    <2> QED
      BY <1>2, <2>1, <2>2, <2>3, <2>4 DEF RowMove
  <1> QED
    BY <1>1, <1>2, <1>t, StepCases

LEMMA RowInit == Init => RowInv
  BY TypeInit DEF Init, RowInv, InitiatorOwnsRow, RowsAreInitiated, Rows, RowSteps

\* InitiatorOwnsRow: however many requests to pay overlap, with callbacks,
\* reconciliation, refunds and administrators, one of them initiates a payment
\* row.
THEOREM InitiatorCorrect == Spec => []InitiatorOwnsRow
  <1>1. RowInv => InitiatorOwnsRow
    BY DEF RowInv
  <1> QED
    BY <1>1, RowInit, RowStep, PTL DEF Spec

\* SettledNeverReopens: no request to pay, however late it is answered, puts a
\* settled payment back to PROCESSING or PENDING.
THEOREM SettledCorrect == Spec => SettledNeverReopens
  <1>1. RowInv /\ [Next]_vars => [NoReopening]_vars
    BY RowStep
  <1>2. SettledNeverReopens <=> [][NoReopening]_vars
    BY PTL DEF SettledNeverReopens, NoReopening
  <1> QED
    BY <1>1, <1>2, RowInit, RowStep, PTL DEF Spec

-----------------------------------------------------------------------------
(* The payment rows follow the policy unless an operation comes late.      *)

\* What an operation that is not raced has read of its rows still holds.
RowsHold ==
  \A h \in Handlers \ raced : \A k \in Rows(h) : payment[k] = Expected(h)

LEMMA PolicyMove ==
  ASSUME NEW k \in Keys, NEW s, SetPayment(k, s),
         \/ payment[k] = "NONE" /\ s = "PROCESSING"
         \/ payment[k] = "PROCESSING" /\ s \in {"PENDING", "FAILED"}
         \/ payment[k] = "PENDING" /\ s \in {"COMPLETED", "FAILED"}
  PROVE  Policy!Next
  <1>1. payment' = [payment EXCEPT ![k] = s]
    BY DEF SetPayment
  <1>2. CASE payment[k] = "NONE" /\ s = "PROCESSING"
    BY <1>1, <1>2 DEF Policy!Next, Policy!Create
  <1>3. CASE payment[k] = "PROCESSING" /\ s \in {"PENDING", "FAILED"}
    <2>1. s \in Policy!Statuses /\ Policy!CanTransition(payment[k], s)
      BY <1>3 DEF Policy!Statuses, Policy!CanTransition, Policy!allowedTransitions
    <2> QED
      BY <1>1, <1>3, <2>1 DEF Policy!Next, Policy!Move
  <1>4. CASE payment[k] = "PENDING" /\ s \in {"COMPLETED", "FAILED"}
    <2>1. s \in Policy!Statuses /\ Policy!CanTransition(payment[k], s)
      BY <1>4 DEF Policy!Statuses, Policy!CanTransition, Policy!allowedTransitions
    <2> QED
      BY <1>1, <1>4, <2>1 DEF Policy!Next, Policy!Move
  <1> QED
    BY <1>2, <1>3, <1>4

\* What PaymentFollowsPolicy allows a step.
PolicyStep == [Policy!Next \/ RefundsPayment \/ WritesLate]_payment

LEMMA RowsHoldStep ==
  ASSUME RowInv, RowsHold, Next
  PROVE  RowsHold'
  <1>t. TypeOK
    BY DEF RowInv
  <1> SUFFICES ASSUME NEW h \in Handlers, h \notin raced', NEW k \in Rows(h)'
               PROVE  payment'[k] = Expected(h)'
    BY DEF RowsHold, Expected
  <1>1. CASE pc'[h] = "idle"
    BY <1>1, TypeStep, <1>t DEF TypeOK, Rows, RowSteps
  <1>2. CASE pc'[h] # "idle"
    <2>1. /\ h \notin raced
          /\ k \in Rows(h) => payment'[k] = payment[k] /\ payment[k] = Expected(h)
      BY <1>2 DEF Next, Record, RowsHold
    <2>2. CASE UNCHANGED <<payment, pc, job, batch>>
      BY <2>1, <2>2 DEF Rows, Expected
    <2>3. ASSUME NEW g \in Handlers, Alone(g), RowMove(g)
          PROVE  payment'[k] = Expected(h)'
      <3>1. CASE g # h
        BY <2>1, <2>3, <3>1 DEF Alone, Rows, Expected
      <3>2. CASE g = h
        <4>1. CASE ReadsRows(h)
          BY <4>1 DEF ReadsRows, Expected
        <4>2. CASE KeepsRows(h)
          BY <2>1, <4>2 DEF KeepsRows, Expected
        <4>3. CASE CreatesRow(h) \/ InitiatesRow(h)
          BY <4>3 DEF CreatesRow, InitiatesRow
        <4>4. CASE WritesRow(h)
          BY <2>1, <4>4 DEF WritesRow, Expected
        <4> QED
          BY <2>3, <3>2, <4>1, <4>2, <4>3, <4>4 DEF RowMove
      <3> QED
        BY <3>1, <3>2
    <2> QED
      BY <2>2, <2>3, <1>t, StepCases
  <1> QED
    BY <1>1, <1>2

LEMMA PolicyHolds ==
  ASSUME RowInv, RowsHold, Next
  PROVE  PolicyStep
  <1>t. TypeOK
    BY DEF RowInv
  <1>1. CASE UNCHANGED payment
    BY <1>1 DEF PolicyStep
  <1>2. ASSUME NEW h \in Handlers, Alone(h), RowMove(h), payment' # payment
        PROVE  PolicyStep
    <2> DEFINE k == job[h].key
    <2>1. CASE ReadsRows(h) \/ KeepsRows(h)
      BY <1>2, <2>1 DEF ReadsRows, KeepsRows
    <2>2. CASE CreatesRow(h)
      BY <2>2, <1>t, RowsAreKeys, PolicyMove DEF CreatesRow, PolicyStep
    <2>3. CASE InitiatesRow(h)
      <3>1. k \in Keys /\ payment[k] = "PROCESSING"
        BY <2>3, <1>t, RowsAreKeys DEF InitiatesRow, RowInv, InitiatorOwnsRow, Initiating
      <3> QED
        BY <2>3, <3>1, PolicyMove DEF InitiatesRow, PolicyStep
    <2>4. CASE WritesRow(h)
      <3>1. k \in Keys /\ k \in Rows(h) /\ pc'[h] # pc[h]
        BY <2>4, <1>t, RowsAreKeys DEF WritesRow, Rows
      <3>2. CASE h \in raced
        <4>1. payment'[k] # payment[k]
          BY <1>2, <2>4, <3>1, <1>t DEF WritesRow, SetPayment, TypeOK
        <4> QED
          BY <3>1, <3>2, <4>1 DEF WritesLate, PolicyStep
      <3>3. CASE h \notin raced
        <4>1. payment[k] = Expected(h)
          BY <3>1, <3>3 DEF RowsHold
        <4>2. CASE pc[h] = "refund"
          BY <2>4, <4>1, <4>2 DEF WritesRow, Expected, RefundsPayment, PolicyStep
        <4>3. CASE pc[h] # "refund"
          BY <2>4, <3>1, <4>1, <4>3, PolicyMove DEF WritesRow, Expected, PolicyStep
        <4> QED
          BY <4>2, <4>3
      <3> QED
        BY <3>2, <3>3
    <2> QED
      BY <1>2, <2>1, <2>2, <2>3, <2>4 DEF RowMove
  <1> QED
    BY <1>1, <1>2, <1>t, StepCases

\* PaymentFollowsPolicy: however many operations overlap, the payment rows
\* follow the transitions of PaymentTransitionPolicyService, although most of
\* those that write them do not ask it; the exceptions are the approval of a
\* refund, and a write that comes after another to a row read before it.
THEOREM PaymentsFollowPolicy == Spec => PaymentFollowsPolicy
  <1>1. Init => RowsHold
    BY DEF Init, RowsHold, Rows, RowSteps
  <1>2. RowInv /\ RowsHold /\ [Next]_vars => RowsHold' /\ PolicyStep
    <2> SUFFICES ASSUME RowInv, RowsHold, [Next]_vars
                 PROVE  RowsHold' /\ PolicyStep
      OBVIOUS
    <2>1. CASE Next
      BY <2>1, RowsHoldStep, PolicyHolds
    <2>2. CASE UNCHANGED vars
      <3>1. UNCHANGED <<payment, pc, job, batch, raced>>
        BY <2>2 DEF vars, handlers, history
      <3> QED
        BY <3>1 DEF RowsHold, Rows, Expected, PolicyStep
    <2> QED
      BY <2>1, <2>2
  <1>3. PaymentFollowsPolicy <=> [][Policy!Next \/ RefundsPayment \/ WritesLate]_payment
    BY DEF PaymentFollowsPolicy
  <1>4. RowInv /\ RowsHold /\ [Next]_vars
          => [Policy!Next \/ RefundsPayment \/ WritesLate]_payment
    BY <1>2 DEF PolicyStep
  <1> QED
    BY <1>1, <1>2, <1>3, <1>4, RowInit, RowStep, PTL DEF Spec

-----------------------------------------------------------------------------
(* The two status columns of the booking.                                  *)

LEMMA ConfirmedStep == ConfirmedIsPaid /\ [Next]_vars => ConfirmedIsPaid'
  <1> SUFFICES ASSUME ConfirmedIsPaid, [Next]_vars
               PROVE  ConfirmedIsPaid'
    OBVIOUS
  <1>1. CASE UNCHANGED <<status, payStatus>> \/ ConfirmBooking \/ FailBooking
    BY <1>1 DEF ConfirmedIsPaid, ConfirmBooking, FailBooking
  <1>p. ASSUME NEW h \in Handlers, PaymentStep(h)
        PROVE  ConfirmedIsPaid'
    BY <1>p, <1>1 DEF PaymentStep, StartPayment, Start, StartRun, ConfirmZeroAmount, FindPayment,
       CreatePayment, OpenOrder, RecordInitiation, InitiationFails, Answer, booking
  <1>i. ASSUME NEW h \in Handlers, CallbackStep(h)
        PROVE  ConfirmedIsPaid'
    BY <1>i, <1>1 DEF CallbackStep, ReceiveCallback, Start, StartRun, LoadPayment, ApplySuccess,
       ApplyFailure, Announce, booking
  <1>r. ASSUME NEW h \in Handlers, ReconciliationStep(h)
        PROVE  ConfirmedIsPaid'
    BY <1>r, <1>1 DEF ReconciliationStep, SelectStalePayments, StartRun, QueryProvider,
       DeferPayment, SettlePayment, booking
  <1>m. ASSUME NEW h \in Handlers, ManualStep(h)
        PROVE  ConfirmedIsPaid'
    <2>1. CASE UpdateBookingStatus(h)
      <3>1. CASE status' = "CONFIRMED"
        BY <2>1, <3>1 DEF UpdateBookingStatus, ConfirmedIsPaid
      <3> QED
        BY <3>1 DEF ConfirmedIsPaid
    <2>2. CASE CancelBooking(h) \/ ApproveRefund(h)
      BY <2>2 DEF CancelBooking, ApproveRefund, ConfirmedIsPaid
    <2>3. CASE StartAdmin(h) \/ StartCancel(h) \/ StartVoid(h) \/ StartRefund(h)
                 \/ StartUpdate(h)
      BY <2>3, <1>1 DEF StartAdmin, StartCancel, StartVoid, StartRefund, StartUpdate,
         Start, StartRun, booking
    <2>4. CASE VoidPayment(h) \/ DropTickets(h) \/ CreateTickets(h)
      BY <2>4, <1>1 DEF VoidPayment, DropTickets, CreateTickets, booking
    <2>5. CASE ExtendWindow(h) \/ Reprice(h)
      BY <2>5, <1>1 DEF ExtendWindow, Reprice
    <2> QED
      BY <1>m, <2>1, <2>2, <2>3, <2>4, <2>5 DEF ManualStep
  <1>e. ASSUME \/ \E h \in Handlers : Abort(h)
               \/ \E k \in Keys : FinishOrder(k)
               \/ OtherSettled
               \/ WindowCloses
               \/ UNCHANGED vars
        PROVE  ConfirmedIsPaid'
    BY <1>e, <1>1 DEF Abort, FinishOrder, OtherSettled, WindowCloses, vars, booking
  <1> QED
    BY <1>p, <1>i, <1>r, <1>m, <1>e DEF Next, Step

\* ConfirmedIsPaid: no overlap of the operations that write the status columns
\* leaves a CONFIRMED booking that is not paid.
THEOREM ConfirmedCorrect == Spec => []ConfirmedIsPaid
  <1>1. Init => ConfirmedIsPaid
    BY DEF Init, ConfirmedIsPaid
  <1> QED
    BY <1>1, ConfirmedStep, PTL DEF Spec

-----------------------------------------------------------------------------
(* What a booking has led to, until one operation crosses another.         *)

\* What operation h has read of the booking still holds when it writes.
ReadHolds(h) ==
  /\ pc[h] \in {"apply", "dropTickets", "newTickets"} => status = "PENDING"
  /\ pc[h] = "zero" => payStatus = "PENDING"
  /\ pc[h] = "cancel" => status \in {"PENDING", "CONFIRMED"}
  /\ pc[h] = "admin" => BookingStates!CanTransition(status, job[h].to)
  /\ pc[h] = "announce" => status = "CONFIRMED"

\* A booking whose promotion has been counted is past PENDING for good.
CountedIsPast == promoUses # 0 => status # "PENDING" /\ payStatus # "PENDING"

BookingFacts ==
  CountedIsPast /\ PromotionCountedOnce /\ ConfirmedTicketsValid /\ AnnouncedNeverExpires

BookingInv ==
  TypeOK /\ (crossed \/ (BookingFacts /\ \A h \in Handlers : ReadHolds(h)))

\* The booking's state machine, transition by transition.
LEMMA BookingTransitions ==
  /\ \A s : BookingStates!CanTransition(s, s)
  /\ BookingStates!CanTransition("PENDING", "CONFIRMED")
  /\ BookingStates!CanTransition("PENDING", "CANCELLED")
  /\ BookingStates!CanTransition("CONFIRMED", "CANCELLED")
  /\ \A s \in BookingStates!Statuses, t \in {"PENDING", "EXPIRED"} :
        BookingStates!CanTransition(s, t) => s = t \/ (s = "PENDING" /\ t = "EXPIRED")
  <1>1. \A s : BookingStates!CanTransition(s, s)
    BY DEF BookingStates!CanTransition
  <1>2. /\ BookingStates!allowed["PENDING"] = {"CONFIRMED", "CANCELLED", "EXPIRED"}
        /\ BookingStates!allowed["CONFIRMED"] = {"COMPLETED", "CANCELLED", "REFUNDED"}
        /\ \A s \in BookingStates!Statuses \ {"PENDING", "CONFIRMED"} :
              BookingStates!allowed[s] = {}
    BY DEF BookingStates!allowed, BookingStates!Statuses
  <1> QED
    BY <1>1, <1>2 DEF BookingStates!CanTransition

\* A step of operation h that leaves the booking alone.
LEMMA QuietBooking ==
  ASSUME BookingFacts, NEW h \in Handlers, ReadHolds(h)',
         UNCHANGED <<status, payStatus, tickets, promoUses, announced>>
  PROVE  ReadHolds(h)' /\ BookingFacts' /\ KeepsBookingPolicy
  <1>1. BookingFacts'
    BY DEF BookingFacts, CountedIsPast, PromotionCountedOnce, ConfirmedTicketsValid,
       AnnouncedNeverExpires
  <1>2. KeepsBookingPolicy
    BY BookingTransitions DEF KeepsBookingPolicy
  <1> QED
    BY <1>1, <1>2

LEMMA IdleReadHolds ==
  ASSUME TypeOK, NEW h \in Handlers, Finish(h)
  PROVE  ReadHolds(h)' /\ pc'[h] = "idle"
  BY DEF TypeOK, Finish, ReadHolds

LEMMA GotoFields ==
  ASSUME TypeOK, NEW h \in Handlers, NEW step, Goto(h, step)
  PROVE  pc'[h] = step /\ job' = job
  BY DEF TypeOK, Goto

LEMMA StartFields ==
  ASSUME TypeOK, NEW h \in Handlers, NEW op, NEW key, NEW to, NEW step, NEW rest,
         StartRun(h, op, key, to, step, rest)
  PROVE  /\ pc'[h] = step /\ job'[h].to = to
         /\ UNCHANGED <<status, payStatus, tickets, promoUses, announced>>
  <1> DEFINE new == [op |-> op, key |-> key, to |-> to, paid |-> payStatus]
  <1>1. new.to = to
    OBVIOUS
  <1>2. pc' = [pc EXCEPT ![h] = step] /\ job' = [job EXCEPT ![h] = new]
    BY DEF StartRun
  <1> HIDE DEF new
  <1> QED
    BY <1>1, <1>2 DEF TypeOK, StartRun, booking, effects

\* An operation that writes while what it has read holds keeps the facts and
\* the state machine; what it reads anew holds.
LEMMA BookingMove ==
  ASSUME TypeOK, NEW h \in Handlers, BookingFacts, ReadHolds(h),
         \/ PaymentStep(h) \/ CallbackStep(h)
         \/ ReconciliationStep(h) \/ ManualStep(h) \/ Abort(h)
  PROVE  ReadHolds(h)' /\ BookingFacts' /\ KeepsBookingPolicy
  <1> DEFINE Goal == ReadHolds(h)' /\ BookingFacts' /\ KeepsBookingPolicy
  <1>q. ASSUME Finish(h), UNCHANGED <<status, payStatus, tickets, promoUses, announced>>
        PROVE  Goal
    BY <1>q, IdleReadHolds, QuietBooking
  <1>s. ASSUME NEW op, NEW key, NEW to, NEW step, NEW rest,
               StartRun(h, op, key, to, step, rest),
               step \notin {"apply", "announce", "admin"},
               step \in {"dropTickets", "newTickets"} => status = "PENDING",
               step = "zero" => payStatus = "PENDING",
               step = "cancel" => status \in {"PENDING", "CONFIRMED"}
        PROVE  Goal
    <2>1. ReadHolds(h)'
      BY <1>s, StartFields DEF ReadHolds
    <2> QED
      BY <1>s, <2>1, StartFields, QuietBooking
  <1>w. ASSUME pc'[h] \notin BookingSteps,
               UNCHANGED <<status, payStatus, tickets, promoUses, announced>>
        PROVE  Goal
    <2>1. ReadHolds(h)'
      BY <1>w DEF ReadHolds, BookingSteps
    <2> QED
      BY <1>w, <2>1, QuietBooking
  <1>p. ASSUME PaymentStep(h)
        PROVE  Goal
    <2>1. CASE StartPayment(h)
      BY <2>1, <1>s DEF StartPayment, Start
    <2>2. CASE ConfirmZeroAmount(h)
      <3>1. ReadHolds(h)' /\ pc'[h] = "announce"
        BY <2>2, GotoFields DEF ConfirmZeroAmount, ConfirmBooking, ReadHolds
      <3>2. promoUses = 0
        BY <2>2 DEF ConfirmZeroAmount, ReadHolds, BookingFacts, CountedIsPast
      <3>3. BookingFacts'
        BY <2>2, <3>2 DEF ConfirmZeroAmount, ConfirmBooking, SetTickets, CountAndEnqueue,
           BookingFacts, CountedIsPast, PromotionCountedOnce, ConfirmedTicketsValid,
           AnnouncedNeverExpires
      <3>4. KeepsBookingPolicy
        BY <2>2, <3>1 DEF ConfirmZeroAmount, KeepsBookingPolicy
      <3> QED
        BY <3>1, <3>3, <3>4
    <2>3. CASE FindPayment(h)
      <3>1. pc'[h] \in {"create", "reply"}
        BY <2>3 DEF FindPayment, Goto, Reply, TypeOK
      <3> QED
        BY <2>3, <3>1, <1>w DEF FindPayment, booking, effects, BookingSteps
    <2>4. CASE CreatePayment(h)
      <3>1. pc'[h] \in {"initiate", "find"}
        BY <2>4 DEF CreatePayment, Goto, TypeOK
      <3> QED
        BY <2>4, <3>1, <1>w DEF CreatePayment, booking, effects, BookingSteps
    <2>5. CASE OpenOrder(h)
      BY <2>5, GotoFields, <1>w DEF OpenOrder, booking, effects, BookingSteps
    <2>6. CASE RecordInitiation(h)
      <3>1. pc'[h] = "reply"
        BY <2>6 DEF RecordInitiation, Reply, TypeOK
      <3> QED
        BY <2>6, <3>1, <1>w DEF RecordInitiation, booking, effects, BookingSteps
    <2>7. CASE InitiationFails(h)
      BY <2>7, <1>q DEF InitiationFails, booking, effects
    <2>8. CASE Answer(h)
      BY <2>8, <1>q DEF Answer, booking, effects
    <2> QED
      BY <1>p, <2>1, <2>2, <2>3, <2>4, <2>5, <2>6, <2>7, <2>8 DEF PaymentStep
  <1>i. ASSUME CallbackStep(h)
        PROVE  Goal
    <2>1. CASE ReceiveCallback(h)
      BY <2>1, <1>s DEF ReceiveCallback, Start
    <2>2. CASE LoadPayment(h)
      <3>1. CASE Finish(h)
        BY <2>2, <3>1, <1>q DEF LoadPayment, booking, effects
      <3>2. CASE Goto(h, "apply") /\ status = "PENDING"
        <4>1. ReadHolds(h)'
          BY <2>2, <3>2, GotoFields DEF LoadPayment, booking, ReadHolds
        <4> QED
          BY <2>2, <4>1, QuietBooking DEF LoadPayment, booking, effects
      <3> QED
        BY <2>2, <3>1, <3>2 DEF LoadPayment
    <2>3. CASE ApplySuccess(h)
      <3>1. pc[h] = "apply" /\ status = "PENDING"
        BY <2>3 DEF ApplySuccess, ReadHolds
      <3>2. ReadHolds(h)'
        BY <2>3, GotoFields DEF ApplySuccess, ConfirmBooking, ReadHolds
      <3>3. BookingFacts'
        BY <2>3, <3>1 DEF ApplySuccess, ConfirmBooking, SetTickets, CountAndEnqueue,
           BookingFacts, CountedIsPast, PromotionCountedOnce, ConfirmedTicketsValid,
           AnnouncedNeverExpires
      <3>4. KeepsBookingPolicy
        BY <2>3, <3>1, BookingTransitions
           DEF ApplySuccess, ConfirmBooking, KeepsBookingPolicy
      <3> QED
        BY <3>2, <3>3, <3>4
    <2>4. CASE ApplyFailure(h)
      <3>1. pc[h] = "apply" /\ status = "PENDING"
        BY <2>4 DEF ApplyFailure, ReadHolds
      <3>2. ReadHolds(h)'
        BY <2>4, IdleReadHolds DEF ApplyFailure
      <3>3. BookingFacts'
        BY <2>4, <3>1 DEF ApplyFailure, FailBooking, effects,
           BookingFacts, CountedIsPast, PromotionCountedOnce, ConfirmedTicketsValid,
           AnnouncedNeverExpires
      <3>4. KeepsBookingPolicy
        BY <2>4, <3>1, BookingTransitions
           DEF ApplyFailure, FailBooking, KeepsBookingPolicy
      <3> QED
        BY <3>2, <3>3, <3>4
    <2>5. CASE Announce(h)
      <3>1. status = "CONFIRMED" /\ UNCHANGED <<booking, promoUses>>
        BY <2>5 DEF Announce, ReadHolds
      <3>2. ReadHolds(h)'
        BY <2>5, IdleReadHolds DEF Announce
      <3>3. BookingFacts'
        BY <3>1 DEF booking, BookingFacts, CountedIsPast, PromotionCountedOnce,
           ConfirmedTicketsValid, AnnouncedNeverExpires
      <3>4. KeepsBookingPolicy
        BY <3>1, BookingTransitions DEF booking, KeepsBookingPolicy
      <3> QED
        BY <3>2, <3>3, <3>4
    <2> QED
      BY <1>i, <2>1, <2>2, <2>3, <2>4, <2>5 DEF CallbackStep
  <1>r. ASSUME ReconciliationStep(h)
        PROVE  Goal
    <2>1. CASE SelectStalePayments(h)
      BY <2>1, <1>s DEF SelectStalePayments
    <2>2. CASE QueryProvider(h)
      <3>1. pc'[h] = "settle"
        BY <2>2 DEF QueryProvider, TypeOK
      <3> QED
        BY <2>2, <3>1, <1>w DEF QueryProvider, booking, effects, BookingSteps
    <2>n. ASSUME NextInBatch(h)
          PROVE  pc'[h] \in {"idle", "query"}
      BY <2>n DEF NextInBatch, Finish, TypeOK
    <2>3. CASE DeferPayment(h)
      BY <2>3, <2>n, <1>w DEF DeferPayment, booking, effects, BookingSteps
    <2>4. CASE SettlePayment(h)
      <3>1. /\ pc[h] = "settle" /\ pc'[h] \in {"idle", "query"}
            /\ job[h].to \in {"COMPLETED", "FAILED"}
        BY <2>4, <2>n DEF SettlePayment, TypeOK
      <3>2. ReadHolds(h)'
        BY <3>1 DEF ReadHolds
      <3>3. BookingFacts'
        BY <2>4 DEF SettlePayment, ConfirmBooking, FailBooking, SetTickets, effects,
           BookingFacts, CountedIsPast, PromotionCountedOnce, ConfirmedTicketsValid,
           AnnouncedNeverExpires
      <3>4. KeepsBookingPolicy
        BY <3>1 DEF KeepsBookingPolicy
      <3> QED
        BY <3>2, <3>3, <3>4
    <2> QED
      BY <1>r, <2>1, <2>2, <2>3, <2>4 DEF ReconciliationStep
  <1>m. ASSUME ManualStep(h)
        PROVE  Goal
    <2>1. CASE StartAdmin(h)
      <3>1. PICK to \in BookingStates!Statuses :
              /\ BookingStates!CanTransition(status, to)
              /\ StartRun(h, "admin", NoKey, to, "admin", {})
        BY <2>1 DEF StartAdmin, Start
      <3>2. /\ pc'[h] = "admin" /\ job'[h].to = to
            /\ UNCHANGED <<status, payStatus, tickets, promoUses, announced>>
        BY <3>1, StartFields
      <3>3. (BookingStates!CanTransition(status, job[h].to))'
        BY <3>1, <3>2 DEF BookingStates!CanTransition, BookingStates!allowed,
           BookingStates!Statuses
      <3>4. ReadHolds(h)'
        BY <3>2, <3>3 DEF ReadHolds
      <3> QED
        BY <3>2, <3>4, QuietBooking
    <2>2. CASE UpdateBookingStatus(h)
      <3> DEFINE to == job[h].to
      <3>1. /\ status' = to /\ to \in BookingStates!Statuses
            /\ BookingStates!CanTransition(status, to) /\ status \in BookingStates!Statuses
        BY <2>2 DEF UpdateBookingStatus, ReadHolds, TypeOK
      <3>2. to \in {"PENDING", "EXPIRED"}
               => status = to \/ (status = "PENDING" /\ to = "EXPIRED")
        BY <3>1, BookingTransitions
      <3>3. /\ payStatus' = "PENDING" => payStatus = "PENDING"
            /\ UNCHANGED <<promoUses, announced>>
        BY <2>2 DEF UpdateBookingStatus, effects
      <3>4. to = "CONFIRMED" => tickets' \in {"VALID", "none"}
        BY <2>2 DEF UpdateBookingStatus, SetTickets
      <3>5. BookingFacts'
        BY <3>1, <3>2, <3>3, <3>4 DEF BookingFacts, CountedIsPast,
           PromotionCountedOnce, ConfirmedTicketsValid, AnnouncedNeverExpires
      <3>6. ReadHolds(h)'
        BY <2>2, IdleReadHolds DEF UpdateBookingStatus
      <3>7. KeepsBookingPolicy
        BY <3>1 DEF KeepsBookingPolicy
      <3> QED
        BY <3>5, <3>6, <3>7
    <2>3. CASE StartCancel(h) \/ StartVoid(h) \/ StartRefund(h) \/ StartUpdate(h)
      BY <2>3, <1>s DEF StartCancel, StartVoid, StartRefund, StartUpdate, Start
    <2>4. CASE CancelBooking(h)
      <3>1. /\ status \in {"PENDING", "CONFIRMED"} /\ status' = "CANCELLED"
            /\ UNCHANGED <<payStatus, tickets, promoUses, announced>>
        BY <2>4 DEF CancelBooking, ReadHolds, effects
      <3>2. ReadHolds(h)'
        BY <2>4, IdleReadHolds DEF CancelBooking
      <3>3. BookingFacts'
        BY <3>1 DEF BookingFacts, CountedIsPast, PromotionCountedOnce,
           ConfirmedTicketsValid, AnnouncedNeverExpires
      <3>4. KeepsBookingPolicy
        BY <3>1, BookingTransitions DEF KeepsBookingPolicy
      <3> QED
        BY <3>2, <3>3, <3>4
    <2>5. CASE VoidPayment(h)
      BY <2>5, <1>q DEF VoidPayment, booking, effects
    <2>6. CASE ApproveRefund(h)
      <3>1. /\ pc[h] = "refund" /\ status' = "CANCELLED"
            /\ UNCHANGED <<payStatus, tickets, promoUses, announced>>
        BY <2>6 DEF ApproveRefund, effects
      <3>2. ReadHolds(h)' /\ pc'[h] = "idle"
        BY <2>6, IdleReadHolds DEF ApproveRefund
      <3>3. BookingFacts'
        BY <3>1 DEF BookingFacts, CountedIsPast, PromotionCountedOnce,
           ConfirmedTicketsValid, AnnouncedNeverExpires
      <3>4. KeepsBookingPolicy
        BY <3>1, <3>2 DEF KeepsBookingPolicy
      <3> QED
        BY <3>2, <3>3, <3>4
    <2>7. CASE DropTickets(h) \/ CreateTickets(h)
      <3>1. /\ pc'[h] \in {"newTickets", "extend"} /\ status = "PENDING"
            /\ UNCHANGED <<status, payStatus, promoUses, announced>>
        BY <2>7, GotoFields DEF DropTickets, CreateTickets, ReadHolds, effects
      <3>2. ReadHolds(h)'
        BY <3>1 DEF ReadHolds
      <3>3. BookingFacts'
        BY <3>1 DEF BookingFacts, CountedIsPast, PromotionCountedOnce,
           ConfirmedTicketsValid, AnnouncedNeverExpires
      <3>4. KeepsBookingPolicy
        BY <3>1, BookingTransitions DEF KeepsBookingPolicy
      <3> QED
        BY <3>2, <3>3, <3>4
    <2>8. CASE ExtendWindow(h)
      BY <2>8, GotoFields, <1>w DEF ExtendWindow, effects, BookingSteps
    <2>9. CASE Reprice(h)
      BY <2>9, <1>q DEF Reprice, effects
    <2> QED
      BY <1>m, <2>1, <2>2, <2>3, <2>4, <2>5, <2>6, <2>7, <2>8, <2>9 DEF ManualStep
  <1>a. CASE Abort(h)
    BY <1>a, <1>q DEF Abort, booking, effects
  <1> QED
    BY <1>p, <1>i, <1>r, <1>m, <1>a

LEMMA BookingStep ==
  ASSUME BookingInv, [Next]_vars
  PROVE  BookingInv' /\ (crossed \/ KeepsBookingPolicy)
  <1>t. TypeOK /\ TypeOK'
    BY TypeStep DEF BookingInv
  <1>1. CASE crossed
    <2>1. crossed'
      BY <1>1, <1>t DEF Next, Record, vars, history
    <2> QED
      BY <1>1, <1>t, <2>1 DEF BookingInv
  <1>2. CASE ~crossed
    <2>1. BookingFacts /\ \A h \in Handlers : ReadHolds(h)
      BY <1>2 DEF BookingInv
    <2>2. ASSUME NEW h \in Handlers, Next,
                 \/ PaymentStep(h) \/ CallbackStep(h)
                 \/ ReconciliationStep(h) \/ ManualStep(h) \/ Abort(h)
          PROVE  BookingInv' /\ KeepsBookingPolicy
      <3>1. ReadHolds(h)' /\ BookingFacts' /\ KeepsBookingPolicy
        BY <2>1, <2>2, <1>t, BookingMove
      <3>2. Alone(h)
        BY <2>2, <1>t, RowMoves
      <3>3. ASSUME ~crossed', NEW g \in Handlers \ {h}
            PROVE  ReadHolds(g)'
        <4>1. pc'[g] = pc[g] /\ job'[g] = job[g]
          BY <3>2 DEF Alone
        <4>2. CASE pc[g] \in BookingSteps
          <5>1. UNCHANGED <<status, payStatus>>
            BY <2>2, <3>3, <4>1, <4>2 DEF Next, Record
          <5> QED
            BY <2>1, <4>1, <5>1 DEF ReadHolds, BookingStates!CanTransition,
               BookingStates!allowed, BookingStates!Statuses
        <4>3. CASE pc[g] \notin BookingSteps
          BY <4>1, <4>3 DEF ReadHolds, BookingSteps
        <4> QED
          BY <4>2, <4>3
      <3> QED
        BY <3>1, <3>3, <1>t DEF BookingInv
    <2>3. ASSUME \/ \E k \in Keys : FinishOrder(k)
                 \/ OtherSettled
                 \/ WindowCloses
                 \/ UNCHANGED vars
          PROVE  BookingInv' /\ KeepsBookingPolicy
      <3>1. UNCHANGED <<status, payStatus, tickets, promoUses, announced, pc, job>>
        BY <2>3 DEF FinishOrder, OtherSettled, WindowCloses, vars, booking, effects, handlers
      <3>2. \A h \in Handlers : ReadHolds(h)'
        BY <2>1, <3>1 DEF ReadHolds, BookingStates!CanTransition, BookingStates!allowed,
           BookingStates!Statuses
      <3>3. BookingFacts'
        BY <2>1, <3>1 DEF BookingFacts, CountedIsPast, PromotionCountedOnce,
           ConfirmedTicketsValid, AnnouncedNeverExpires
      <3> QED
        BY <3>1, <3>2, <3>3, <1>t, BookingTransitions DEF BookingInv, KeepsBookingPolicy
    <2> QED
      BY <2>2, <2>3 DEF Next, Step
  <1> QED
    BY <1>1, <1>2

LEMMA BookingInit == Init => BookingInv
  <1>1. Init => BookingFacts
    BY DEF Init, BookingFacts, CountedIsPast, PromotionCountedOnce, ConfirmedTicketsValid,
       AnnouncedNeverExpires
  <1>2. Init => \A h \in Handlers : ReadHolds(h)
    BY DEF Init, ReadHolds
  <1> QED
    BY <1>1, <1>2, TypeInit DEF BookingInv

\* PaidBookingIsWhole: however many operations overlap, nothing a booking goes
\* through counts its promotion twice, leaves paid tickets invalid, or expires
\* what was announced, before one operation writes the booking between the check
\* and the write of another.
THEOREM PaidBookingsAreWhole == Spec => []PaidBookingIsWhole
  <1>1. BookingInv => PaidBookingIsWhole
    BY DEF BookingInv, BookingFacts, PaidBookingIsWhole
  <1>2. BookingInv /\ [Next]_vars => BookingInv'
    BY BookingStep
  <1> QED
    BY <1>1, <1>2, BookingInit, PTL DEF Spec

\* OthersFollowBookingPolicy: however many operations overlap, up to such a write
\* only a settlement, a zero-amount payment or a refund takes a booking out of
\* its state machine.
THEOREM BookingsFollowPolicy == Spec => OthersFollowBookingPolicy
  <1>1. BookingInv /\ [Next]_vars => BookingInv' /\ [crossed \/ KeepsBookingPolicy]_vars
    BY BookingStep
  <1> QED
    BY <1>1, BookingInit, PTL DEF Spec, OthersFollowBookingPolicy
=============================================================================
