---------------------- MODULE NotificationOutboxProofs ----------------------
(***************************************************************************)
(* What holds of the outbox for any number of rows and overlapping polls,  *)
(* any batch size and any number of attempts.                              *)
(***************************************************************************)
EXTENDS NotificationOutbox, TLAPS

Steps == {"idle", "claim", "deliver", "complete", "fail"}

-----------------------------------------------------------------------------
(* Type correctness.                                                       *)

LEMMA UpdateType ==
  ASSUME TypeOK, NEW e \in Events, NEW status \in InTable, NEW n \in Nat,
         Update(e, status, n)
  PROVE  /\ row' \in [Events -> Rows]
         /\ row'[e].status = status /\ row'[e].attempts = n
         /\ row'[e].created = row[e].created
         /\ \A f \in Events : f # e => row'[f] = row[f]
  <1>. DEFINE new == [status |-> status, attempts |-> n, created |-> row[e].created]
  <1>1. row[e].created \in Nat
    BY DEF TypeOK, Rows
  <1>2. new \in Rows
    BY <1>1 DEF Rows
  <1>3. row' = [row EXCEPT ![e] = new]
    BY DEF Update
  <1>. HIDE DEF new
  <1>4. /\ row' \in [Events -> Rows]
        /\ row'[e] = new
        /\ \A f \in Events : f # e => row'[f] = row[f]
    BY <1>2, <1>3 DEF TypeOK
  <1>. QED
    BY <1>4 DEF new

LEMMA StayType ==
  ASSUME TypeOK, NEW p \in Polls, pc[p] # "idle", NEW step \in Steps \ {"idle"},
         Stay(p, step)
  PROVE  /\ pc' \in [Polls -> Steps]
         /\ pc'[p] = step /\ \A q \in Polls : q # p => pc'[q] = pc[q]
         /\ \A q \in Polls : pc'[q] = "idle" <=> left'[q] = {}
         /\ left' = left /\ snap' = snap
  BY DEF TypeOK, Stay, Steps

LEMMA NextRowType ==
  ASSUME TypeOK, NEW p \in Polls, pc[p] # "idle", NEW e \in Events, NextRow(p, e)
  PROVE  /\ pc' \in [Polls -> Steps]
         /\ left' \in [Polls -> SUBSET Events]
         /\ snap' \in [Polls -> [Events -> Nat]]
         /\ \A q \in Polls : pc'[q] = "idle" <=> left'[q] = {}
         /\ left'[p] = left[p] \ {e}
         /\ \A f \in Events : f # e => snap'[p][f] = snap[p][f]
         /\ \A q \in Polls : q # p => /\ pc'[q] = pc[q]
                                      /\ left'[q] = left[q]
                                      /\ snap'[q] = snap[q]
  <1>1. /\ pc' \in [Polls -> Steps]
        /\ left' \in [Polls -> SUBSET Events]
        /\ snap' \in [Polls -> [Events -> Nat]]
    BY DEF TypeOK, NextRow, Steps
  <1>2. /\ left'[p] = left[p] \ {e}
        /\ \A f \in Events : f # e => snap'[p][f] = snap[p][f]
        /\ \A q \in Polls : q # p => /\ pc'[q] = pc[q]
                                     /\ left'[q] = left[q]
                                     /\ snap'[q] = snap[q]
    BY DEF TypeOK, NextRow
  <1>3. pc'[p] = "idle" <=> left'[p] = {}
    <2>1. left[p] # {}
      BY DEF TypeOK
    <2>2. pc'[p] = IF left[p] = {e} THEN "idle" ELSE "claim"
      BY DEF TypeOK, NextRow
    <2>. QED
      BY <1>2, <2>1, <2>2
  <1>. QED
    BY <1>1, <1>2, <1>3 DEF TypeOK

LEMMA GiveUpType ==
  ASSUME TypeOK, NEW p \in Polls, GiveUp(p)
  PROVE  /\ pc' \in [Polls -> Steps]
         /\ left' \in [Polls -> SUBSET Events]
         /\ snap' \in [Polls -> [Events -> Nat]]
         /\ \A q \in Polls : pc'[q] = "idle" <=> left'[q] = {}
         /\ left'[p] = {}
         /\ \A q \in Polls : q # p => /\ pc'[q] = pc[q]
                                      /\ left'[q] = left[q]
                                      /\ snap'[q] = snap[q]
  BY DEF TypeOK, GiveUp, Steps

LEMMA ClaimsType ==
  ASSUME TypeOK, NEW e \in Events,
         claims' = [claims EXCEPT ![e] = IF @ < MaxAttempts THEN @ + 1 ELSE @]
  PROVE  /\ claims' \in [Events -> 0 .. MaxAttempts]
         /\ \A f \in Events : claims'[f] >= claims[f]
         /\ claims[e] < MaxAttempts => claims'[e] = claims[e] + 1
  <1>1. claims[e] \in 0 .. MaxAttempts /\ MaxAttempts \in Nat
    BY OutboxAssumption DEF TypeOK
  <1>2. (IF claims[e] < MaxAttempts THEN claims[e] + 1 ELSE claims[e]) \in 0 .. MaxAttempts
    BY <1>1
  <1>3. claims' \in [Events -> 0 .. MaxAttempts]
    BY <1>2 DEF TypeOK
  <1>4. \A f \in Events : f # e => claims'[f] = claims[f]
    BY DEF TypeOK
  <1>5. claims'[e] = IF claims[e] < MaxAttempts THEN claims[e] + 1 ELSE claims[e]
    BY DEF TypeOK
  <1>6. \A f \in Events : claims[f] \in 0 .. MaxAttempts
    BY DEF TypeOK
  <1>. QED
    BY <1>1, <1>3, <1>4, <1>5, <1>6

LEMMA TypeInit == Init => TypeOK
  BY OutboxAssumption DEF Init, TypeOK, Rows, InTable

LEMMA TypeStep == TypeOK /\ [Next]_vars => TypeOK'
  <1> SUFFICES ASSUME TypeOK, [Next]_vars
               PROVE  TypeOK'
    OBVIOUS
  <1>1. ASSUME NEW e \in Events, EnqueueBookingConfirmed(e)
        PROVE  TypeOK'
    <2>1. [status |-> "PENDING", attempts |-> 0, created |-> enqueued] \in Rows
      BY DEF TypeOK, Rows, InTable
    <2>2. row' \in [Events -> Rows] /\ enqueued' \in Nat
      BY <1>1, <2>1 DEF EnqueueBookingConfirmed, TypeOK
    <2>. QED
      BY <1>1, <2>2 DEF EnqueueBookingConfirmed, TypeOK
  <1>2. ASSUME NEW e \in Events, PurgeOldOutboxEvents(e)
        PROVE  TypeOK'
    <2>1. \A f \in Events : [row[f] EXCEPT !.status = "PURGED"] \in Rows
      BY DEF TypeOK, Rows
    <2>2. row' \in [Events -> Rows]
      BY <1>2, <2>1 DEF PurgeOldOutboxEvents, TypeOK
    <2>. QED
      BY <1>2, <2>2 DEF PurgeOldOutboxEvents, TypeOK
  <1>3. ASSUME NEW p \in Polls, ReadBatch(p)
        PROVE  TypeOK'
    <2>1. PICK B \in SUBSET Events :
            /\ B # {}
            /\ left' = [left EXCEPT ![p] = B]
            /\ snap' = [snap EXCEPT ![p] =
                          [e \in Events |-> IF e \in B THEN row[e].attempts ELSE 0]]
      BY <1>3 DEF ReadBatch
    <2>2. \A e \in Events : row[e].attempts \in Nat
      BY DEF TypeOK, Rows
    <2>3. [e \in Events |-> IF e \in B THEN row[e].attempts ELSE 0] \in [Events -> Nat]
      BY <2>2
    <2>4. /\ pc' \in [Polls -> {"idle", "claim", "deliver", "complete", "fail"}]
          /\ left' \in [Polls -> SUBSET Events]
          /\ snap' \in [Polls -> [Events -> Nat]]
      BY <1>3, <2>1, <2>3 DEF ReadBatch, TypeOK
    <2>5. \A q \in Polls : pc'[q] = "idle" <=> left'[q] = {}
      BY <1>3, <2>1 DEF ReadBatch, TypeOK
    <2>. QED
      BY <1>3, <2>4, <2>5 DEF ReadBatch, TypeOK
  <1>4. ASSUME NEW p \in Polls, NEW e \in Events, Claim(p, e)
        PROVE  TypeOK'
    <2>1. snap[p][e] + 1 \in Nat
      BY DEF TypeOK
    <2>2. row' \in [Events -> Rows]
      BY <1>4, <2>1, UpdateType DEF Claim, InTable
    <2>3. claims' \in [Events -> 0 .. MaxAttempts]
      BY <1>4, ClaimsType DEF Claim
    <2>. QED
      BY <1>4, <2>2, <2>3, StayType DEF Claim, TypeOK, Steps
  <1>5. ASSUME NEW p \in Polls, NEW e \in Events,
               Deliver(p, e) \/ Undecipherable(p, e)
        PROVE  TypeOK'
    BY <1>5, StayType DEF Deliver, Undecipherable, TypeOK, Steps
  <1>6. ASSUME NEW p \in Polls, NEW e \in Events, Complete(p, e) \/ Fail(p, e)
        PROVE  TypeOK'
    <2>1. row[e].attempts \in Nat
      BY DEF TypeOK, Rows
    <2>2. row' \in [Events -> Rows]
      BY <1>6, <2>1, UpdateType DEF Complete, Fail, InTable
    <2>3. pc[p] # "idle" /\ NextRow(p, e)
      BY <1>6 DEF Complete, Fail
    <2>. QED
      BY <1>6, <2>2, <2>3, NextRowType DEF Complete, Fail, TypeOK, Steps
  <1>7. ASSUME NEW p \in Polls, NEW e \in Events, WriteFails(p, e)
        PROVE  TypeOK'
    <2>1. faults' \in 0 .. MaxFaults
      BY <1>7, OutboxAssumption DEF WriteFails, Fault, TypeOK
    <2>. QED
      BY <1>7, <2>1, StayType DEF WriteFails, TypeOK, Steps
  <1>8. ASSUME NEW p \in Polls, NEW e \in Events, RowIsGone(p, e)
        PROVE  TypeOK'
    BY <1>8, GiveUpType DEF RowIsGone, TypeOK, Steps
  <1>9. ASSUME NEW p \in Polls, Die(p)
        PROVE  TypeOK'
    <2>1. faults' \in 0 .. MaxFaults
      BY <1>9, OutboxAssumption DEF Die, Fault, TypeOK
    <2>. QED
      BY <1>9, <2>1, GiveUpType DEF Die, TypeOK, Steps
  <1>10. CASE UNCHANGED vars
    BY <1>10 DEF vars, TypeOK
  <1>. QED
    BY <1>1, <1>2, <1>3, <1>4, <1>5, <1>6, <1>7, <1>8, <1>9, <1>10
       DEF Next, Proceed, WorkOn

\* Every reachable state of the outbox is well formed, for any rows, polls,
\* batch size and numbers of attempts and faults (notification-outbox.service.ts).
THEOREM TypeCorrect == Spec => []TypeOK
  BY TypeInit, TypeStep, PTL DEF Spec

-----------------------------------------------------------------------------
(* The invariant.                                                          *)

Born(e) == row[e].status # "NONE"

\* The times of creation are distinct, and a batch holds rows that were created.
Ages ==
  /\ \A e \in Events : Born(e) => row[e].created < enqueued
  /\ \A e, f \in Events : Born(e) /\ Born(f) /\ row[e].created = row[f].created => e = f
  /\ \A p \in Polls : \A e \in left[p] : Born(e)

\* What a row and the snapshots of it say was claimed at least as often.
Counted ==
  /\ \A e \in Events : row[e].attempts <= claims[e]
  /\ \A e \in Events : row[e].status = "PENDING" => row[e].attempts = 0
  /\ \A p \in Polls : \A e \in left[p] :
       snap[p][e] < MaxAttempts /\ snap[p][e] <= claims[e]
  /\ DeadLetterWasTried

\* Poll p marked row e and has not yet written the outcome.
Attends(p, e) == Oldest(e, left[p]) /\ pc[p] \in {"deliver", "complete", "fail"}

Attended ==
  \A e \in Events :
    row[e].status = "PROCESSING" => faults > 0 \/ \E p \in Polls : Attends(p, e)

OutboxInv == TypeOK /\ Ages /\ Counted /\ Attended

\* How the steps of a poll change the rows.
LEMMA RowSteps ==
  ASSUME TypeOK, NEW p \in Polls, NEW e \in Events,
         Claim(p, e) \/ Complete(p, e) \/ Fail(p, e)
  PROVE  /\ e \in left[p] /\ Exists(e) /\ enqueued' = enqueued
         /\ row'[e].created = row[e].created
         /\ row'[e].status \in InTable
         /\ \A f \in Events : f # e => row'[f] = row[f]
  <1>1. snap[p][e] + 1 \in Nat /\ row[e].attempts \in Nat
    BY DEF TypeOK, Rows
  <1>2. PICK status \in InTable, n \in Nat : Update(e, status, n)
    BY <1>1 DEF Claim, Complete, Fail, InTable
  <1>3. /\ row'[e].status = status /\ row'[e].created = row[e].created
        /\ \A f \in Events : f # e => row'[f] = row[f]
    BY <1>2, UpdateType
  <1>. QED
    BY <1>3 DEF Claim, Complete, Fail, Oldest

LEMMA PurgeRows ==
  ASSUME TypeOK, NEW e \in Events, PurgeOldOutboxEvents(e)
  PROVE  \A f \in Events :
           \/ row'[f] = row[f]
           \/ /\ Exists(f)
              /\ row'[f].status = "PURGED"
              /\ row'[f].attempts = row[f].attempts
              /\ row'[f].created = row[f].created
  <1>. SUFFICES ASSUME NEW f \in Events, Exists(f), row[f].created <= row[e].created
                PROVE  /\ row'[f].status = "PURGED"
                       /\ row'[f].attempts = row[f].attempts
                       /\ row'[f].created = row[f].created
    BY DEF PurgeOldOutboxEvents
  <1>1. row'[f] = [row[f] EXCEPT !.status = "PURGED"]
    BY DEF PurgeOldOutboxEvents
  <1>2. row[f] \in [status : InTable \cup {"NONE", "PURGED"}, attempts : Nat, created : Nat]
    BY DEF TypeOK, Rows
  <1>. QED
    BY <1>1, <1>2

\* No step but the reading of a batch adds rows to a poll.
LEMMA LeftSteps ==
  ASSUME TypeOK, [Next]_vars, \A p \in Polls : ~ReadBatch(p)
  PROVE  \A p \in Polls : \A e \in left'[p] :
           e \in left[p] /\ snap'[p][e] = snap[p][e]
  <1>1. ASSUME NEW p \in Polls, NEW e \in Events,
               Claim(p, e) \/ Deliver(p, e) \/ Undecipherable(p, e) \/ WriteFails(p, e)
        PROVE  UNCHANGED <<left, snap>>
    BY <1>1 DEF Claim, Deliver, Undecipherable, WriteFails, Stay
  <1>2. ASSUME NEW p \in Polls, NEW e \in Events, Complete(p, e) \/ Fail(p, e)
        PROVE  \A q \in Polls : \A f \in left'[q] :
                 f \in left[q] /\ snap'[q][f] = snap[q][f]
    <2>1. pc[p] # "idle" /\ NextRow(p, e)
      BY <1>2 DEF Complete, Fail
    <2>. QED
      BY <2>1, NextRowType DEF TypeOK
  <1>3. ASSUME NEW p \in Polls, GiveUp(p)
        PROVE  \A q \in Polls : \A f \in left'[q] :
                 f \in left[q] /\ snap'[q][f] = snap[q][f]
    BY <1>3, GiveUpType
  <1>. QED
    BY <1>1, <1>2, <1>3
       DEF Next, Proceed, WorkOn, EnqueueBookingConfirmed, PurgeOldOutboxEvents,
           RowIsGone, Die, vars

LEMMA BatchIsDue ==
  ASSUME TypeOK, NEW p \in Polls, ReadBatch(p)
  PROVE  /\ \A e \in left'[p] : e \in Events /\ Due(e) /\ snap'[p][e] = row[e].attempts
         /\ \A q \in Polls : q # p => left'[q] = left[q] /\ snap'[q] = snap[q]
         /\ UNCHANGED <<enqueued, row, claims, faults>>
  <1>1. PICK B \in SUBSET Events :
          /\ IsBatch(B)
          /\ left' = [left EXCEPT ![p] = B]
          /\ snap' = [snap EXCEPT ![p] =
                        [e \in Events |-> IF e \in B THEN row[e].attempts ELSE 0]]
    BY DEF ReadBatch
  <1>2. B \subseteq {e \in Events : Due(e)}
    BY <1>1 DEF IsBatch
  <1>. QED
    BY <1>1, <1>2 DEF ReadBatch, TypeOK

LEMMA AgesStep == TypeOK /\ Ages /\ [Next]_vars => Ages'
  <1> SUFFICES ASSUME TypeOK, Ages, [Next]_vars
               PROVE  Ages'
    OBVIOUS
  <1>. USE DEF Born
  <1>1. ASSUME NEW e \in Events, EnqueueBookingConfirmed(e)
        PROVE  Ages'
    <2>1. /\ row'[e] = [status |-> "PENDING", attempts |-> 0, created |-> enqueued]
          /\ \A f \in Events : f # e => row'[f] = row[f]
          /\ enqueued' = enqueued + 1 /\ left' = left
      BY <1>1 DEF EnqueueBookingConfirmed, TypeOK
    <2>2. \A f \in Events : row[f].created \in Nat
      BY DEF TypeOK, Rows
    <2>3. row'[e].status = "PENDING" /\ row'[e].created = enqueued /\ enqueued \in Nat
      BY <2>1 DEF TypeOK
    <2>4. \A f \in Events : f # e /\ row'[f].status # "NONE" => row'[f].created < enqueued
      BY <2>1 DEF Ages
    <2>5. \A p \in Polls : left'[p] \subseteq Events
      BY <2>1 DEF TypeOK
    <2>6. \A f \in Events : row'[f].status # "NONE" => row'[f].created < enqueued'
      BY <2>1, <2>2, <2>3, <2>4
    <2>7. \A f, g \in Events :
            row'[f].status # "NONE" /\ row'[g].status # "NONE"
              /\ row'[f].created = row'[g].created => f = g
      BY <2>1, <2>2, <2>3, <2>4 DEF Ages
    <2>8. \A p \in Polls : \A f \in left'[p] : row'[f].status # "NONE"
      BY <2>1, <2>3, <2>5 DEF Ages
    <2>. QED
      BY <2>6, <2>7, <2>8 DEF Ages
  <1>2. ASSUME NEW p \in Polls, ReadBatch(p)
        PROVE  Ages'
    <2>1. \A f \in left'[p] : f \in Events /\ Born(f)
      BY <1>2, BatchIsDue DEF Due
    <2>2. \A q \in Polls : q # p => left'[q] = left[q]
      BY <1>2, BatchIsDue
    <2>3. UNCHANGED <<enqueued, row>>
      BY <1>2, BatchIsDue
    <2>. QED
      BY <2>1, <2>2, <2>3 DEF Ages
  <1>3. ASSUME \A p \in Polls : ~ReadBatch(p),
               \A e \in Events : ~EnqueueBookingConfirmed(e)
        PROVE  Ages'
    <2>1. /\ \A f \in Events : /\ row'[f].created = row[f].created
                               /\ row'[f].status # "NONE" <=> row[f].status # "NONE"
          /\ enqueued' = enqueued
      <3>1. ASSUME NEW p \in Polls, NEW e \in Events,
                   Claim(p, e) \/ Complete(p, e) \/ Fail(p, e)
            PROVE  <2>1!1
        BY <3>1, RowSteps DEF Exists, InTable
      <3>2. ASSUME NEW e \in Events, PurgeOldOutboxEvents(e)
            PROVE  <2>1!1
        <4>1. SUFFICES ASSUME NEW f \in Events
                       PROVE  /\ row'[f].created = row[f].created
                              /\ row'[f].status # "NONE" <=> row[f].status # "NONE"
          OBVIOUS
        <4>2. CASE row'[f] = row[f]
          BY <4>2
        <4>3. CASE /\ Exists(f)
                   /\ row'[f].status = "PURGED"
                   /\ row'[f].created = row[f].created
          BY <4>3 DEF Exists, InTable
        <4>. QED
          BY <3>2, <4>2, <4>3, PurgeRows
      <3>3. ASSUME NEW e \in Events, PurgeOldOutboxEvents(e)
            PROVE  enqueued' = enqueued
        BY <3>3 DEF PurgeOldOutboxEvents
      <3>4. ASSUME NEW p \in Polls, NEW e \in Events,
                   Claim(p, e) \/ Complete(p, e) \/ Fail(p, e)
            PROVE  enqueued' = enqueued
        BY <3>4, RowSteps
      <3>. QED
        BY <1>3, <3>1, <3>2, <3>3, <3>4
           DEF Next, Proceed, WorkOn, Deliver, Undecipherable, WriteFails, RowIsGone,
               Die, vars
    <2>2. \A p \in Polls : \A f \in left'[p] : f \in left[p] /\ f \in Events
      BY <1>3, LeftSteps DEF TypeOK
    <2>3. \A f \in Events : row'[f].status # "NONE" => row'[f].created < enqueued'
      BY <2>1 DEF Ages
    <2>4. \A f, g \in Events :
            row'[f].status # "NONE" /\ row'[g].status # "NONE"
              /\ row'[f].created = row'[g].created => f = g
      BY <2>1 DEF Ages
    <2>5. \A p \in Polls : \A f \in left'[p] : row'[f].status # "NONE"
      BY <2>1, <2>2 DEF Ages
    <2>. QED
      BY <2>3, <2>4, <2>5 DEF Ages
  <1>. QED
    BY <1>1, <1>2, <1>3

LEMMA CountedStep == TypeOK /\ Ages /\ Counted /\ [Next]_vars => Counted'
  <1> SUFFICES ASSUME TypeOK, Ages, Counted, [Next]_vars
               PROVE  Counted'
    OBVIOUS
  <1>0. /\ MaxAttempts \in Nat \ {0}
        /\ \A e \in Events : claims[e] \in 0 .. MaxAttempts /\ row[e].attempts \in Nat
        /\ \A p \in Polls : left[p] \subseteq Events
        /\ \A p \in Polls, e \in Events : snap[p][e] \in Nat
    BY OutboxAssumption DEF TypeOK, Rows
  <1>1. ASSUME NEW e \in Events, EnqueueBookingConfirmed(e)
        PROVE  Counted'
    <2>1. /\ row'[e] = [status |-> "PENDING", attempts |-> 0, created |-> enqueued]
          /\ \A f \in Events : f # e => row'[f] = row[f]
          /\ UNCHANGED <<claims, left, snap>>
      BY <1>1 DEF EnqueueBookingConfirmed, TypeOK
    <2>2. row'[e].status = "PENDING" /\ row'[e].attempts = 0
      BY <2>1
    <2>. QED
      BY <1>0, <2>1, <2>2 DEF Counted, DeadLetterWasTried
  <1>2. ASSUME NEW e \in Events, PurgeOldOutboxEvents(e)
        PROVE  Counted'
    <2>1. UNCHANGED <<claims, left, snap>>
      BY <1>2 DEF PurgeOldOutboxEvents
    <2>2. \A f \in Events :
            \/ row'[f] = row[f]
            \/ row'[f].status = "PURGED" /\ row'[f].attempts = row[f].attempts
      BY <1>2, PurgeRows
    <2>. QED
      BY <2>1, <2>2 DEF Counted, DeadLetterWasTried
  <1>3. ASSUME NEW p \in Polls, ReadBatch(p)
        PROVE  Counted'
    <2>1. \A e \in left'[p] : row[e].attempts < MaxAttempts
      BY <1>0, <1>3, BatchIsDue DEF Due, Counted
    <2>2. \A e \in left'[p] : snap'[p][e] < MaxAttempts /\ snap'[p][e] <= claims[e]
      BY <1>3, <2>1, BatchIsDue DEF Counted
    <2>3. \A q \in Polls : q # p => left'[q] = left[q] /\ snap'[q] = snap[q]
      BY <1>3, BatchIsDue
    <2>4. UNCHANGED <<row, claims>>
      BY <1>3, BatchIsDue
    <2>. QED
      BY <2>2, <2>3, <2>4 DEF Counted, DeadLetterWasTried
  <1>4. ASSUME NEW p \in Polls, NEW e \in Events, Claim(p, e)
        PROVE  Counted'
    <2>1. e \in left[p]
      BY <1>4 DEF Claim, Oldest
    <2>2. snap[p][e] < MaxAttempts /\ snap[p][e] <= claims[e] /\ snap[p][e] + 1 \in Nat
      BY <1>0, <2>1 DEF Counted
    <2>3. /\ row'[e].status = "PROCESSING" /\ row'[e].attempts = snap[p][e] + 1
          /\ \A f \in Events : f # e => row'[f] = row[f]
      BY <1>4, <2>2, UpdateType DEF Claim, InTable
    <2>4. /\ claims' \in [Events -> 0 .. MaxAttempts]
          /\ \A f \in Events : claims'[f] >= claims[f]
          /\ claims[e] < MaxAttempts => claims'[e] = claims[e] + 1
      BY <1>4, ClaimsType DEF Claim
    <2>5. row'[e].attempts <= claims'[e]
      BY <1>0, <2>2, <2>3, <2>4
    <2>6. UNCHANGED <<left, snap>>
      BY <1>4 DEF Claim, Stay
    <2>7. \A f \in Events : claims'[f] \in Nat /\ claims[f] \in Nat
      BY <1>0, <2>4
    <2>8. \A f \in Events : row'[f].attempts <= claims'[f]
      BY <1>0, <2>3, <2>4, <2>5, <2>7 DEF Counted
    <2>9. \A q \in Polls : \A f \in left'[q] :
            snap'[q][f] < MaxAttempts /\ snap'[q][f] <= claims'[f]
      BY <1>0, <2>4, <2>6, <2>7 DEF Counted
    <2>10. DeadLetterWasTried'
      BY <1>0, <2>3, <2>4, <2>7 DEF Counted, DeadLetterWasTried
    <2>11. \A f \in Events : row'[f].status = "PENDING" => row'[f].attempts = 0
      BY <2>3 DEF Counted
    <2>. QED
      BY <2>8, <2>9, <2>10, <2>11 DEF Counted
  <1>5. ASSUME NEW p \in Polls, NEW e \in Events, Complete(p, e)
        PROVE  Counted'
    <2>1. /\ row'[e].status = "COMPLETED" /\ row'[e].attempts = row[e].attempts
          /\ \A f \in Events : f # e => row'[f] = row[f]
      BY <1>0, <1>5, UpdateType DEF Complete, InTable
    <2>2. \A q \in Polls : \A f \in left'[q] :
            f \in left[q] /\ snap'[q][f] = snap[q][f]
      <3>1. pc[p] # "idle" /\ NextRow(p, e)
        BY <1>5 DEF Complete
      <3>. QED
        BY <3>1, NextRowType DEF TypeOK
    <2>. QED
      BY <1>5, <2>1, <2>2 DEF Complete, Counted, DeadLetterWasTried
  <1>6. ASSUME NEW p \in Polls, NEW e \in Events, Fail(p, e)
        PROVE  Counted'
    <2>1. e \in left[p]
      BY <1>6 DEF Fail, Oldest
    <2>2. snap[p][e] <= claims[e]
      BY <2>1 DEF Counted
    <2>3. /\ row'[e].status = IF snap[p][e] + 1 >= MaxAttempts THEN "DEAD_LETTER" ELSE "FAILED"
          /\ row'[e].attempts = row[e].attempts
          /\ \A f \in Events : f # e => row'[f] = row[f]
      BY <1>0, <1>6, UpdateType DEF Fail, InTable
    <2>4. row'[e].status = "DEAD_LETTER" => claims[e] + 1 >= MaxAttempts
      BY <1>0, <2>2, <2>3
    <2>5. row'[e].status # "PENDING"
      BY <2>3
    <2>6. \A q \in Polls : \A f \in left'[q] :
            f \in left[q] /\ snap'[q][f] = snap[q][f]
      <3>1. pc[p] # "idle" /\ NextRow(p, e)
        BY <1>6 DEF Fail
      <3>. QED
        BY <3>1, NextRowType DEF TypeOK
    <2>7. claims' = claims
      BY <1>6 DEF Fail
    <2>. QED
      BY <2>3, <2>4, <2>5, <2>6, <2>7 DEF Counted, DeadLetterWasTried
  <1>7. ASSUME UNCHANGED <<row, claims>>, \A p \in Polls : ~ReadBatch(p)
        PROVE  Counted'
    BY <1>7, LeftSteps DEF Counted, DeadLetterWasTried
  <1>. QED
    BY <1>1, <1>2, <1>3, <1>4, <1>5, <1>6, <1>7
       DEF Next, Proceed, WorkOn, Deliver, Undecipherable, WriteFails, RowIsGone, Die, vars

LEMMA AttendedStep == TypeOK /\ Ages /\ Attended /\ [Next]_vars => Attended'
  <1> SUFFICES ASSUME TypeOK, Ages, Attended, [Next]_vars,
                      NEW g \in Events, row'[g].status = "PROCESSING",
                      ~(faults' > 0)
               PROVE  \E q \in Polls : Attends(q, g)'
    BY DEF Attended
  <1>0. faults \in Nat /\ faults' = faults /\ faults = 0
    BY DEF Next, Proceed, WorkOn, EnqueueBookingConfirmed, PurgeOldOutboxEvents, ReadBatch,
           Claim, Deliver, Undecipherable, Complete, WriteFails, Fail, RowIsGone, Die,
           Fault, vars, TypeOK
  <1>1. ASSUME row[g].status = "PROCESSING"
        PROVE  \E q \in Polls : Attends(q, g)
    BY <1>0, <1>1 DEF Attended
  <1>2. \A e \in Events : row[e].created \in Nat
    BY DEF TypeOK, Rows
  \* A poll keeps the row it attends when its own control and the times stay.
  <1>3. ASSUME NEW q \in Polls, Attends(q, g),
               left'[q] = left[q], pc'[q] \in {"deliver", "complete", "fail"},
               \A e \in left[q] : row'[e].created = row[e].created
        PROVE  Attends(q, g)'
    BY <1>3 DEF Attends, Oldest
  <1>4. \A q \in Polls : left[q] \subseteq Events
    BY DEF TypeOK
  <1>5. ASSUME NEW e \in Events, EnqueueBookingConfirmed(e)
        PROVE  \E q \in Polls : Attends(q, g)'
    <2>1. /\ row'[e].status = "PENDING" /\ row[e].status = "NONE"
          /\ \A f \in Events : f # e => row'[f] = row[f]
          /\ UNCHANGED <<pc, left>>
      BY <1>5 DEF EnqueueBookingConfirmed, TypeOK
    <2>2. PICK q \in Polls : Attends(q, g)
      BY <1>1, <2>1
    <2>3. \A f \in left[q] : row'[f].created = row[f].created
      BY <1>4, <2>1 DEF Ages, Born
    <2>. QED
      BY <1>3, <2>1, <2>2, <2>3 DEF Attends
  <1>6. ASSUME NEW e \in Events, PurgeOldOutboxEvents(e)
        PROVE  \E q \in Polls : Attends(q, g)'
    <2>1. \A f \in Events :
            /\ row'[f].created = row[f].created
            /\ row'[f] = row[f] \/ row'[f].status = "PURGED"
      BY <1>6, PurgeRows
    <2>2. PICK q \in Polls : Attends(q, g)
      BY <1>1, <2>1
    <2>3. UNCHANGED <<pc, left>>
      BY <1>6 DEF PurgeOldOutboxEvents
    <2>. QED
      BY <1>3, <1>4, <2>1, <2>2, <2>3 DEF Attends
  <1>7. ASSUME NEW p \in Polls, ReadBatch(p)
        PROVE  \E q \in Polls : Attends(q, g)'
    <2>1. row' = row /\ pc[p] = "idle"
      BY <1>7, BatchIsDue DEF ReadBatch
    <2>2. PICK q \in Polls : Attends(q, g)
      BY <1>1, <2>1
    <2>3. q # p
      BY <2>1, <2>2 DEF Attends
    <2>4. left'[q] = left[q] /\ pc'[q] = pc[q]
      BY <1>7, <2>3, BatchIsDue DEF ReadBatch, TypeOK
    <2>. QED
      BY <1>3, <2>1, <2>2, <2>4 DEF Attends
  <1>8. ASSUME NEW p \in Polls, NEW e \in Events, Claim(p, e)
        PROVE  \E q \in Polls : Attends(q, g)'
    <2>1. /\ pc'[p] = "deliver" /\ \A q \in Polls : q # p => pc'[q] = pc[q]
          /\ left' = left
      BY <1>8, StayType DEF Claim, Steps
    <2>2. /\ \A f \in Events : row'[f].created = row[f].created
          /\ \A f \in Events : f # e => row'[f] = row[f]
      BY <1>8, RowSteps
    <2>3. CASE g = e
      <3>1. Oldest(e, left[p])
        BY <1>8 DEF Claim
      <3>2. Attends(p, e)'
        BY <1>4, <2>1, <2>2, <3>1 DEF Attends, Oldest
      <3>. QED
        BY <2>3, <3>2
    <2>4. CASE g # e
      <3>1. PICK q \in Polls : Attends(q, g)
        BY <1>1, <2>2, <2>4
      <3>2. q # p
        BY <1>8, <3>1 DEF Claim, Attends
      <3>. QED
        BY <1>3, <1>4, <2>1, <2>2, <3>1, <3>2 DEF Attends
    <2>. QED
      BY <2>3, <2>4
  <1>9. ASSUME NEW p \in Polls, NEW e \in Events,
               Deliver(p, e) \/ Undecipherable(p, e)
        PROVE  \E q \in Polls : Attends(q, g)'
    <2>1. /\ pc'[p] \in {"complete", "fail"} /\ \A q \in Polls : q # p => pc'[q] = pc[q]
          /\ left' = left /\ row' = row
      BY <1>9, StayType DEF Deliver, Undecipherable, Steps
    <2>2. PICK q \in Polls : Attends(q, g)
      BY <1>1, <2>1
    <2>. QED
      BY <1>3, <2>1, <2>2 DEF Attends
  <1>10. ASSUME NEW p \in Polls, NEW e \in Events, Complete(p, e) \/ Fail(p, e)
         PROVE  \E q \in Polls : Attends(q, g)'
    <2>1. /\ \A f \in Events : row'[f].created = row[f].created
          /\ \A f \in Events : f # e => row'[f] = row[f]
      BY <1>10, RowSteps
    <2>2. g # e
      <3>1. row'[e].status # "PROCESSING"
        <4>1. row[e].attempts \in Nat
          BY DEF TypeOK, Rows
        <4>2. CASE Complete(p, e)
          BY <4>1, <4>2, UpdateType DEF Complete, InTable
        <4>3. CASE Fail(p, e)
          BY <4>1, <4>3, UpdateType DEF Fail, InTable
        <4>. QED
          BY <1>10, <4>2, <4>3
      <3>. QED
        BY <3>1
    <2>3. PICK q \in Polls : Attends(q, g)
      BY <1>1, <2>1, <2>2
    <2>4. q # p
      <3>1. SUFFICES ASSUME q = p PROVE FALSE
        OBVIOUS
      <3>2. e \in left[p] /\ g \in left[p] /\ Oldest(e, left[p]) /\ Oldest(g, left[p])
        BY <1>10, <2>3, <3>1 DEF Complete, Fail, Attends, Oldest
      <3>3. row[e].created = row[g].created
        BY <1>2, <3>2 DEF Oldest
      <3>. QED
        BY <2>2, <3>2, <3>3 DEF Ages
    <2>5. left'[q] = left[q] /\ pc'[q] = pc[q]
      <3>1. pc[p] # "idle" /\ NextRow(p, e)
        BY <1>10 DEF Complete, Fail
      <3>. QED
        BY <2>4, <3>1, NextRowType
    <2>. QED
      BY <1>3, <1>4, <2>1, <2>3, <2>5 DEF Attends
  <1>11. ASSUME NEW p \in Polls, NEW e \in Events, RowIsGone(p, e)
         PROVE  \E q \in Polls : Attends(q, g)'
    <2>1. row' = row /\ GiveUp(p) /\ Oldest(e, left[p]) /\ ~Exists(e)
      BY <1>11 DEF RowIsGone
    <2>2. PICK q \in Polls : Attends(q, g)
      BY <1>1, <2>1
    <2>3. q # p
      <3>1. SUFFICES ASSUME q = p PROVE FALSE
        OBVIOUS
      <3>2. e \in left[p] /\ g \in left[p] /\ Oldest(g, left[p])
        BY <2>1, <2>2, <3>1 DEF Attends, Oldest
      <3>3. row[e].created = row[g].created
        BY <1>2, <2>1, <3>2 DEF Oldest
      <3>4. e = g
        BY <3>2, <3>3 DEF Ages
      <3>. QED
        BY <2>1, <3>4 DEF Exists, InTable
    <2>4. left'[q] = left[q] /\ pc'[q] = pc[q]
      BY <2>1, <2>3, GiveUpType
    <2>. QED
      BY <1>3, <2>1, <2>2, <2>4 DEF Attends
  <1>12. ASSUME UNCHANGED vars
         PROVE  \E q \in Polls : Attends(q, g)'
    <2>1. UNCHANGED <<row, left, pc>>
      BY <1>12 DEF vars
    <2>2. PICK q \in Polls : Attends(q, g)
      BY <1>1, <2>1
    <2>. QED
      BY <1>3, <2>1, <2>2 DEF Attends
  <1>13. ASSUME NEW p \in Polls, NEW e \in Events, WriteFails(p, e) \/ Die(p)
         PROVE  FALSE
    BY <1>0, <1>13 DEF WriteFails, Die, Fault
  <1>. QED
    BY <1>5, <1>6, <1>7, <1>8, <1>9, <1>10, <1>11, <1>12, <1>13
       DEF Next, Proceed, WorkOn

LEMMA OutboxInit == Init => OutboxInv
  <1> SUFFICES ASSUME Init
               PROVE  OutboxInv
    OBVIOUS
  <1>1. Ages /\ Attended
    BY DEF Init, Ages, Born, Attended
  <1>2. Counted
    BY OutboxAssumption DEF Init, Counted, DeadLetterWasTried
  <1>. QED
    BY <1>1, <1>2, TypeInit DEF OutboxInv

LEMMA OutboxStep == OutboxInv /\ [Next]_vars => OutboxInv'
  BY TypeStep, AgesStep, CountedStep, AttendedStep DEF OutboxInv

LEMMA OutboxInvariant == Spec => []OutboxInv
  BY OutboxInit, OutboxStep, PTL DEF Spec

\* No row counts more attempts than the maximum, however many polls overlap
\* and whatever they read, and a dead letter was taken up at least
\* MaxAttempts - 1 times (the attempts, and the catch, of processOutboxEvents).
THEOREM AttemptsCorrect == Spec => []AttemptsAreSpent
  <1>1. OutboxInv => AttemptsBounded
    <2> SUFFICES ASSUME OutboxInv, NEW e \in Events
                 PROVE  row[e].attempts <= MaxAttempts
      BY DEF AttemptsBounded
    <2>1. claims[e] \in 0 .. MaxAttempts /\ MaxAttempts \in Nat /\ row[e].attempts \in Nat
      BY OutboxAssumption DEF OutboxInv, TypeOK, Rows
    <2>2. row[e].attempts <= claims[e]
      BY DEF OutboxInv, Counted
    <2>. QED
      BY <2>1, <2>2
  <1>2. OutboxInv => DeadLetterWasTried
    BY DEF OutboxInv, Counted
  <1>3. OutboxInv => AttemptsAreSpent
    BY <1>1, <1>2 DEF AttemptsAreSpent
  <1>. QED
    BY <1>3, OutboxInvariant, PTL

\* While nothing dies and no write fails, a PROCESSING row is in the hands of
\* a poll, for any overlap, any batch and any purge (processOutboxEvents).
THEOREM AttendedCorrect == Spec => []ProcessingIsAttended
  <1>1. OutboxInv => ProcessingIsAttended
    BY DEF OutboxInv, Attended, Attends, Oldest, ProcessingIsAttended
  <1>. QED
    BY <1>1, OutboxInvariant, PTL
=============================================================================
