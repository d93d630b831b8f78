------------------------- MODULE NotificationOutbox -------------------------
(***************************************************************************)
(* The outbox of confirmation mails (notification-outbox.service.ts).      *)
(*                                                                         *)
(* The transaction that confirms a booking enqueues one row, whose unique  *)
(* key is the booking.  Every five seconds a poll reads a batch of rows,   *)
(* oldest first, and works through it: it marks a row PROCESSING, calls    *)
(* the consumer (payment.service.ts), and marks the row by the outcome.    *)
(* The schedule does not wait for a poll to end, and the service runs in   *)
(* two replicas, so polls overlap.  Each await is a step; what a poll      *)
(* writes is computed from the row as it was when the batch was read.      *)
(*                                                                         *)
(* A poll may die at any await (a database error outside the try, or a     *)
(* restart), and a write inside the try may fail: MaxFaults bounds both.   *)
(* The rows are purged by age.  A booking is enqueued at most once within  *)
(* the 30 days its row is kept, so a purged row does not come back.        *)
(***************************************************************************)
EXTENDS Integers, FiniteSets

CONSTANTS Events,       \* the confirmed bookings, one row each
          Polls,        \* the polls that may be in progress at the same time
          BatchSize,    \* batchSize
          MaxAttempts,  \* the attempts after which a row is a dead letter
          MaxFaults     \* bound: the failed writes and dead polls of a behaviour

ASSUME OutboxAssumption ==
  /\ IsFiniteSet(Events)
  /\ BatchSize \in Nat \ {0}
  /\ MaxAttempts \in Nat \ {0}
  /\ MaxFaults \in Nat

VARIABLES
  enqueued, \* the rows created so far, which stands for the time
  row,     \* row[e]: the row of booking e
  claims,  \* claims[e]: how often the row was marked PROCESSING, up to MaxAttempts
  pc,      \* pc[p]: the await poll p has reached
  left,    \* left[p]: the rows of the batch that are not done
  snap,    \* snap[p][e]: the attempts of row e when the batch was read, 0 if e is
           \* not in left[p]
  faults   \* the faults so far

vars == <<enqueued, row, claims, pc, left, snap, faults>>

InTable  == {"PENDING", "PROCESSING", "COMPLETED", "FAILED", "DEAD_LETTER"}
Rows     == [status   : InTable \cup {"NONE", "PURGED"},
             attempts : Nat,
             created  : Nat]

Init ==
  /\ enqueued = 0
  /\ row    = [e \in Events |-> [status |-> "NONE", attempts |-> 0, created |-> 0]]
  /\ claims = [e \in Events |-> 0]
  /\ pc     = [p \in Polls |-> "idle"]
  /\ left   = [p \in Polls |-> {}]
  /\ snap   = [p \in Polls |-> [e \in Events |-> 0]]
  /\ faults = 0

-----------------------------------------------------------------------------
(* Helpers.                                                                *)

Exists(e) == row[e].status \in InTable

\* The rows a poll selects: PENDING, or FAILED with attempts left.
Due(e) ==
  \/ row[e].status = "PENDING"
  \/ row[e].status = "FAILED" /\ row[e].attempts < MaxAttempts

\* No row of S was created before e.
Oldest(e, S) == e \in S /\ \A f \in S : row[e].created <= row[f].created

\* The BatchSize oldest rows of the due ones.
IsBatch(B) ==
  LET D == {e \in Events : Due(e)} IN
  /\ B \subseteq D
  /\ Cardinality(B) = IF Cardinality(D) < BatchSize THEN Cardinality(D)
                                                    ELSE BatchSize
  /\ \A e \in B, f \in D \ B : row[e].created <= row[f].created

\* An update of row e by its id; the row exists.
Update(e, status, attempts) ==
  row' = [row EXCEPT ![e] = [status   |-> status,
                             attempts |-> attempts,
                             created  |-> @.created]]

\* Mutant: the loop does not see the end of the batch.
NextRowOfNone(p, e) ==
  /\ left' = [left EXCEPT ![p] = @ \ {e}]
  /\ snap' = [snap EXCEPT ![p][e] = 0]
  /\ pc'   = [pc EXCEPT ![p] = "claim"]

\* Poll p is done with row e and takes the next one, or ends.
NextRow(p, e) ==
  /\ left' = [left EXCEPT ![p] = @ \ {e}]
  /\ snap' = [snap EXCEPT ![p][e] = 0]
  /\ pc'   = [pc EXCEPT ![p] = IF left[p] = {e} THEN "idle" ELSE "claim"]

\* Poll p goes on with its row.
Stay(p, step) == pc' = [pc EXCEPT ![p] = step] /\ UNCHANGED <<left, snap>>

\* Poll p ends before its batch is done.
GiveUp(p) ==
  /\ pc'   = [pc EXCEPT ![p] = "idle"]
  /\ left' = [left EXCEPT ![p] = {}]
  /\ snap' = [snap EXCEPT ![p] = [e \in Events |-> 0]]

Fault == faults < MaxFaults /\ faults' = faults + 1

-----------------------------------------------------------------------------
(* enqueueBookingConfirmed and purgeOldOutboxEvents.                       *)

\* A second call for the same booking finds the row and does nothing.
EnqueueBookingConfirmed(e) ==
  /\ row[e].status = "NONE"
  /\ row' = [row EXCEPT ![e] =
               [status |-> "PENDING", attempts |-> 0, created |-> enqueued]]
  /\ enqueued' = enqueued + 1
  /\ UNCHANGED <<claims, pc, left, snap, faults>>

\* All rows as old as e or older are deleted, whatever their status.
PurgeOldOutboxEvents(e) ==
  /\ Exists(e)
  /\ row' = [f \in Events |->
               IF Exists(f) /\ row[f].created <= row[e].created
               THEN [row[f] EXCEPT !.status = "PURGED"] ELSE row[f]]
  /\ UNCHANGED <<enqueued, claims, pc, left, snap, faults>>

-----------------------------------------------------------------------------
(* processOutboxEvents.                                                    *)

\* The batch is read; an empty one ends the poll at once.
ReadBatch(p) ==
  /\ pc[p] = "idle"
  /\ \E B \in SUBSET Events :
       /\ IsBatch(B)
       /\ B # {}
       /\ left' = [left EXCEPT ![p] = B]
       /\ snap' = [snap EXCEPT ![p] =
                     [e \in Events |-> IF e \in B THEN row[e].attempts ELSE 0]]
  /\ pc' = [pc EXCEPT ![p] = "claim"]
  /\ UNCHANGED <<enqueued, row, claims, faults>>

\* Mutant: the whole batch is marked at once.
ClaimBatch(p, e) ==
  /\ pc[p] = "claim" /\ Oldest(e, left[p]) /\ Exists(e)
  /\ row' = [f \in Events |->
               IF f \in left[p] /\ Exists(f)
               THEN [row[f] EXCEPT !.status = "PROCESSING", !.attempts = snap[p][f] + 1]
               ELSE row[f]]
  /\ claims' = [claims EXCEPT ![e] = IF @ < MaxAttempts THEN @ + 1 ELSE @]
  /\ Stay(p, "deliver")
  /\ UNCHANGED <<enqueued, faults>>

\* Mutant: the attempt is not counted.
ClaimUncounted(p, e) ==
  /\ pc[p] = "claim" /\ Oldest(e, left[p]) /\ Exists(e)
  /\ Update(e, "PROCESSING", snap[p][e])
  /\ claims' = [claims EXCEPT ![e] = IF @ < MaxAttempts THEN @ + 1 ELSE @]
  /\ Stay(p, "deliver")
  /\ UNCHANGED <<enqueued, faults>>

\* The row is marked PROCESSING, whatever its status is now.
Claim(p, e) ==
  /\ pc[p] = "claim" /\ Oldest(e, left[p]) /\ Exists(e)
  /\ Update(e, "PROCESSING", snap[p][e] + 1)
  /\ claims' = [claims EXCEPT ![e] = IF @ < MaxAttempts THEN @ + 1 ELSE @]
  /\ Stay(p, "deliver")
  /\ UNCHANGED <<enqueued, faults>>

\* The consumer returns true, whether the mail was sent or not: it catches
\* every error of the mail itself.
Deliver(p, e) ==
  /\ pc[p] = "deliver" /\ Oldest(e, left[p])
  /\ Stay(p, "complete")
  /\ UNCHANGED <<enqueued, row, claims, faults>>

\* The payload cannot be decrypted or parsed: the consumer is not called.
Undecipherable(p, e) ==
  /\ pc[p] = "deliver" /\ Oldest(e, left[p])
  /\ Stay(p, "fail")
  /\ UNCHANGED <<enqueued, row, claims, faults>>

\* The row is COMPLETED, whatever its status is now.
Complete(p, e) ==
  /\ pc[p] = "complete" /\ Oldest(e, left[p]) /\ Exists(e)
  /\ Update(e, "COMPLETED", row[e].attempts)
  /\ NextRow(p, e)
  /\ UNCHANGED <<enqueued, claims, faults>>

\* A write inside the try is rejected by the database.
WriteFails(p, e) ==
  /\ pc[p] \in {"claim", "complete"} /\ Oldest(e, left[p]) /\ Exists(e)
  /\ Fault
  /\ Stay(p, "fail")
  /\ UNCHANGED <<enqueued, row, claims>>

\* Mutant: the last attempt is not made.
FailEarly(p, e) ==
  /\ pc[p] = "fail" /\ Oldest(e, left[p]) /\ Exists(e)
  /\ Update(e, IF snap[p][e] + 2 >= MaxAttempts THEN "DEAD_LETTER" ELSE "FAILED",
            row[e].attempts)
  /\ NextRow(p, e)
  /\ UNCHANGED <<enqueued, claims, faults>>

\* The catch: the new status follows from the attempts of the snapshot.
Fail(p, e) ==
  /\ pc[p] = "fail" /\ Oldest(e, left[p]) /\ Exists(e)
  /\ Update(e, IF snap[p][e] + 1 >= MaxAttempts THEN "DEAD_LETTER" ELSE "FAILED",
            row[e].attempts)
  /\ NextRow(p, e)
  /\ UNCHANGED <<enqueued, claims, faults>>

\* The row was purged: its update throws, so does the update of the catch,
\* and the rest of the batch is left to later polls.
RowIsGone(p, e) ==
  /\ pc[p] \in {"claim", "complete", "fail"} /\ Oldest(e, left[p]) /\ ~Exists(e)
  /\ GiveUp(p)
  /\ UNCHANGED <<enqueued, row, claims, faults>>

\* The poll dies: an error in the catch, or a restart of its replica.
Die(p) ==
  /\ pc[p] # "idle"
  /\ Fault
  /\ GiveUp(p)
  /\ UNCHANGED <<enqueued, row, claims>>

-----------------------------------------------------------------------------
\* What the service does with row e in poll p.
WorkOn(p, e) ==
  \/ Claim(p, e)
  \/ Deliver(p, e)
  \/ Undecipherable(p, e)
  \/ Complete(p, e)
  \/ Fail(p, e)
  \/ RowIsGone(p, e)

Proceed(p) == ReadBatch(p) \/ \E e \in Events : WorkOn(p, e)

Next ==
  \/ \E e \in Events : EnqueueBookingConfirmed(e) \/ PurgeOldOutboxEvents(e)
  \/ \E p \in Polls :
       \/ Proceed(p)
       \/ \E e \in Events : WriteFails(p, e)
       \/ Die(p)

Spec == Init /\ [][Next]_vars

\* The schedule starts a poll again and again, and a promise settles.
FairSpec == Spec /\ \A p \in Polls : WF_vars(Proceed(p))

-----------------------------------------------------------------------------
(* Properties.                                                             *)

\* Types; a poll is idle when it has no rows left.
TypeOK ==
  /\ enqueued \in Nat
  /\ row \in [Events -> Rows]
  /\ claims \in [Events -> 0 .. MaxAttempts]
  /\ pc \in [Polls -> {"idle", "claim", "deliver", "complete", "fail"}]
  /\ left \in [Polls -> SUBSET Events]
  /\ snap \in [Polls -> [Events -> Nat]]
  /\ faults \in 0 .. MaxFaults
  /\ \A p \in Polls : pc[p] = "idle" <=> left[p] = {}

\* The parts of AttemptsAreSpent: the number of attempts, and the dead letters.
AttemptsBounded == \A e \in Events : row[e].attempts <= MaxAttempts

\* A dead letter was taken up MaxAttempts - 1 times at least.
DeadLetterWasTried ==
  \A e \in Events :
    row[e].status = "DEAD_LETTER" => claims[e] + 1 >= MaxAttempts

\* However polls overlap, no row counts more attempts than the maximum, so that
\* the condition "attempts < 3" of the selection ends the retries; and a row is
\* given up only after it was taken up as often as it may be, the last time
\* perhaps without success: a failed claim counts as an attempt too, and the
\* catch of processOutboxEvents counts on the snapshot.
AttemptsAreSpent == AttemptsBounded /\ DeadLetterWasTried

\* A row says PROCESSING only while a poll works on it, unless a poll died or
\* a write failed: overlapping polls and purged neighbours of the batch leave
\* no row behind.  No poll selects a PROCESSING row, so a row left behind is
\* never sent.
ProcessingIsAttended ==
  \A e \in Events :
    row[e].status = "PROCESSING" => faults > 0 \/ \E p \in Polls : e \in left[p]

\* The retries of every row come to an end, whatever the overlap: in the long
\* run no row is due (the batch of the oldest rows starves none, and stale
\* snapshots cannot lower the attempts of a row for ever).
RetriesTerminate == \A e \in Events : <>[]~Due(e)

\* The comment in processOutboxEvents: "since we only process PENDING/FAILED,
\* if it's COMPLETED it's skipped".  A poll with an older snapshot claims the
\* row all the same, and sends the mail again.
CompletedIsSkipped ==
  [][\A e \in Events :
       row[e].status = "COMPLETED" => row'[e].status \in {"COMPLETED", "PURGED"}]_vars
=============================================================================
