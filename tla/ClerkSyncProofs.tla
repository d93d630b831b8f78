--------------------------- MODULE ClerkSyncProofs ---------------------------
(***************************************************************************)
(* Proofs about the staff, its tasks and the roles, for any ids, roles,    *)
(* members of staff and handlers in progress: types and attempts, that no  *)
(* two runs work on one task, when a cached permission is up to date, and  *)
(* how the last administrator can go.                                      *)
(***************************************************************************)
EXTENDS ClerkSync, SequenceTheorems, TLAPS

-----------------------------------------------------------------------------
(* The inductive invariant.                                                *)

\* An entry of a batch was read while it could be tried again.
Entries == [key : Keys, attempts : 0 .. (MaxAttempts - 1)]

Ops == {"none", "get", "assign", "remove", "grant", "sync", "webhook"}

Jobs == [op : Ops, user : Ids \cup {NoId}, role : RoleNames \cup {"none"},
         users : SUBSET Ids, perms : SUBSET Permissions, batch : Seq(Entries)]

SyncSteps == {"lock", "find", "createUser", "updateUser", "deleteUser", "role", "forget",
              "succeed"}

\* What the await of a handler says of its job.
JobFits(step, j) ==
  /\ step \in SyncSteps => j.batch # <<>>
  /\ step \in {"read", "fill"} => j.user \in Ids
  /\ step \in {"anyRole", "check", "create", "count", "delete", "updateUser", "role"}
       => j.user \in j.users
  /\ step \in {"anyRole", "check", "create", "count", "delete", "grant", "list"}
       => j.role \in RoleNames

ControlOK ==
  /\ pc \in [Handlers -> Steps]
  /\ job \in [Handlers -> Jobs]
  /\ \A h \in Handlers : JobFits(pc[h], job[h])

RolesOK ==
  /\ rows \in [Ids -> [RoleNames -> Nat]] /\ grants \in [RoleNames -> SUBSET Permissions]
  /\ cache \in [Ids -> (SUBSET Permissions) \cup {NoEntry}]
  /\ requests \in 0 .. MaxRequests
  /\ owed \in [Handlers -> SUBSET Ids]
  /\ overtaken \subseteq Handlers /\ outdated \subseteq Ids

DirectoryOK ==
  /\ account \in [Emails -> used \cup {NoId}]
  /\ used \subseteq Ids /\ webhooks \subseteq used
  /\ metadata \in [Ids -> Positions \cup {Gone}]
  /\ disordered \subseteq Emails

Tasks == [status : {"none", "PENDING", "PROCESSING", "FAILED", "SUCCEEDED"},
          attempts : 0 .. MaxAttempts, dead : BOOLEAN]

\* A task that is not given up may be tried again.
TaskFits(t) ==
  \/ t.status = "PENDING" /\ t.attempts = 0
  \/ t.status = "FAILED" /\ (t.dead \/ t.attempts < MaxAttempts)
  \/ t.status \in {"none", "PROCESSING", "SUCCEEDED"}

TaskOK == task \in [Keys -> Tasks] /\ \A k \in Keys : TaskFits(task[k])

\* What is due is open and not given up, and is due once.
QueueOK ==
  /\ queue \in Seq(Keys)
  /\ \A i \in 1 .. Len(queue) :
       /\ \/ task[queue[i]].status = "PENDING"
          \/ task[queue[i]].status = "FAILED" /\ ~task[queue[i]].dead
       /\ \A j \in 1 .. Len(queue) : queue[i] = queue[j] => i = j

StaffOK ==
  /\ staff \in [Emails -> Positions \cup {Gone}]
  /\ log \in Seq(Keys)

WorkSteps == SyncSteps \ {"lock"}

\* A run works on a task that is PROCESSING.
WorkOK == \A h \in Handlers : Working(h) => task[Current(h)].status = "PROCESSING"

Inv == /\ ControlOK /\ RolesOK /\ DirectoryOK /\ TaskOK /\ QueueOK /\ StaffOK
       /\ WorkOK /\ OneRunPerTask

LEMMA InvTypes == Inv => TypeOK
  BY DEF Inv, TypeOK, ControlOK, RolesOK, DirectoryOK, TaskOK, QueueOK, StaffOK, Tasks

-----------------------------------------------------------------------------
(* The control of a handler.                                               *)

LEMMA NoJobFits ==
  /\ NoJob \in Jobs
  /\ NoJob.batch = <<>> /\ NoJob.user = NoId /\ NoJob.users = {} /\ NoJob.role = "none"
  /\ \A j \in Jobs : JobFits("idle", j)
  <1>1. <<>> \in Seq(Entries)
    OBVIOUS
  <1>2. NoJob \in Jobs
    BY <1>1 DEF NoJob, Jobs, Ops
  <1>3. \A j \in Jobs : JobFits("idle", j)
    BY DEF JobFits, SyncSteps
  <1> QED
    BY <1>2, <1>3 DEF NoJob

\* A handler moves on, with a job that fits its next await.
LEMMA MoveControl ==
  ASSUME ControlOK, NEW h \in Handlers, NEW step \in Steps, NEW j \in Jobs, JobFits(step, j),
         pc' = [pc EXCEPT ![h] = step], job' = [job EXCEPT ![h] = j]
  PROVE  ControlOK' /\ pc'[h] = step /\ job'[h] = j
         /\ \A g \in Handlers \ {h} : pc'[g] = pc[g] /\ job'[g] = job[g]
  <1>1. /\ pc' \in [Handlers -> Steps] /\ job' \in [Handlers -> Jobs]
        /\ pc'[h] = step /\ job'[h] = j
        /\ \A g \in Handlers \ {h} : pc'[g] = pc[g] /\ job'[g] = job[g]
    BY DEF ControlOK
  <1>2. ASSUME NEW g \in Handlers
        PROVE  JobFits(pc'[g], job'[g])
    BY <1>1 DEF ControlOK
  <1> QED
    BY <1>1, <1>2 DEF ControlOK

LEMMA SameControl ==
  ASSUME ControlOK, UNCHANGED <<pc, job>>
  PROVE  ControlOK'
  BY DEF ControlOK

LEMMA GotoControl ==
  ASSUME ControlOK, NEW h \in Handlers, NEW step \in Steps, Goto(h, step),
         JobFits(step, job[h])
  PROVE  /\ ControlOK' /\ pc'[h] = step /\ job' = job /\ requests' = requests
         /\ \A g \in Handlers \ {h} : pc'[g] = pc[g] /\ job'[g] = job[g]
  <1>1. job' = [job EXCEPT ![h] = job[h]]
    BY DEF Goto, ControlOK
  <1>2. job[h] \in Jobs /\ pc' = [pc EXCEPT ![h] = step]
    BY DEF Goto, ControlOK
  <1> QED
    BY <1>1, <1>2, MoveControl DEF Goto

LEMMA FinishControl ==
  ASSUME ControlOK, NEW h \in Handlers, Finish(h)
  PROVE  /\ ControlOK' /\ pc'[h] = "idle" /\ job'[h] = NoJob /\ requests' = requests
         /\ \A g \in Handlers \ {h} : pc'[g] = pc[g] /\ job'[g] = job[g]
  BY MoveControl, NoJobFits DEF Finish, Steps

LEMMA BeginControl ==
  ASSUME ControlOK, NEW h \in Handlers, NEW j \in Jobs, NEW step \in Steps, JobFits(step, j),
         Begin(h, j, step)
  PROVE  /\ ControlOK' /\ pc'[h] = step /\ job'[h] = j
         /\ \A g \in Handlers \ {h} : pc'[g] = pc[g] /\ job'[g] = job[g]
  BY MoveControl DEF Begin

-----------------------------------------------------------------------------
(* Batches.                                                                *)

LEMMA HeadOfBatch ==
  ASSUME NEW j \in Jobs, j.batch # <<>>
  PROVE  /\ Head(j.batch) \in Entries /\ Head(j.batch).key \in Keys
         /\ Head(j.batch).attempts \in 0 .. (MaxAttempts - 1)
  <1>1. j.batch \in Seq(Entries)
    BY DEF Jobs
  <1>2. Head(j.batch) \in Entries
    BY <1>1
  <1> QED
    BY <1>2 DEF Entries

LEMMA CurrentIsKey ==
  ASSUME ControlOK, NEW h \in Handlers, pc[h] \in SyncSteps
  PROVE  /\ Current(h) \in Keys
         /\ Head(job[h].batch).attempts \in 0 .. (MaxAttempts - 1)
         /\ job[h] \in Jobs /\ job[h].batch # <<>>
  <1>1. job[h] \in Jobs /\ job[h].batch # <<>>
    BY DEF ControlOK, JobFits
  <1> QED
    BY <1>1, HeadOfBatch DEF Current

LEMMA NextTaskControl ==
  ASSUME ControlOK, NEW h \in Handlers, pc[h] \in SyncSteps, NextTask(h)
  PROVE  /\ ControlOK' /\ requests' = requests
         /\ pc'[h] \in {"idle", "lock"}
         /\ \E j \in Jobs : job' = [job EXCEPT ![h] = j] /\ pc' = [pc EXCEPT ![h] = pc'[h]]
         /\ \A g \in Handlers \ {h} : pc'[g] = pc[g] /\ job'[g] = job[g]
  <1>1. CASE Len(job[h].batch) = 1
    <2>1. Finish(h)
      BY <1>1 DEF NextTask
    <2> QED
      BY <2>1, FinishControl, NoJobFits DEF Finish
  <1>2. CASE Len(job[h].batch) # 1
    <2> DEFINE j == [NoJob EXCEPT !.op = "sync", !.batch = Tail(job[h].batch)]
    <2>1. /\ job' = [job EXCEPT ![h] = j] /\ pc' = [pc EXCEPT ![h] = "lock"]
          /\ requests' = requests
      BY <1>2 DEF NextTask
    <2>2. job[h].batch \in Seq(Entries) /\ job[h].batch # <<>>
      BY CurrentIsKey DEF Jobs
    <2>3. Tail(job[h].batch) \in Seq(Entries) /\ Tail(job[h].batch) # <<>>
      <3>1. Tail(job[h].batch) \in Seq(Entries) /\ Len(Tail(job[h].batch)) = Len(job[h].batch) - 1
        BY <2>2, HeadTailProperties
      <3>2. Len(job[h].batch) \in Nat
        BY <2>2, LenProperties
      <3>3. Len(job[h].batch) # 0
        BY <2>2
      <3>4. Len(Tail(job[h].batch)) # 0
        BY <1>2, <3>1, <3>2, <3>3
      <3> QED
        BY <3>1, <3>4, EmptySeq
    <2>4. NoJob \in Jobs /\ "sync" \in Ops
      BY NoJobFits DEF Ops
    <2>5. j \in Jobs /\ j.batch # <<>>
      BY <2>3, <2>4 DEF Jobs
    <2>6. JobFits("lock", j)
      BY <2>5 DEF JobFits, SyncSteps
    <2> HIDE DEF j
    <2> QED
      BY <2>1, <2>5, <2>6, MoveControl DEF Steps
  <1> QED
    BY <1>1, <1>2

-----------------------------------------------------------------------------
(* The queue of due tasks.                                                 *)

LEMMA PartOfQueue ==
  ASSUME queue \in Seq(Keys), NEW p \in 0 .. Len(queue), NEW n \in p .. Len(queue)
  PROVE  /\ SubSeq(queue, p + 1, n) \in Seq(Keys)
         /\ Len(SubSeq(queue, p + 1, n)) = n - p
         /\ \A i \in 1 .. n - p : SubSeq(queue, p + 1, n)[i] = queue[p + i]
  <1>1. Len(queue) \in Nat /\ p \in Int /\ n \in Int /\ p + 1 \in Int
    BY LenProperties
  <1>2. \A i \in p + 1 .. n : queue[i] \in Keys
    BY <1>1
  <1>3. /\ SubSeq(queue, p + 1, n) \in Seq(Keys)
        /\ Len(SubSeq(queue, p + 1, n)) = IF p + 1 <= n THEN n - (p + 1) + 1 ELSE 0
        /\ \A i \in 1 .. n - (p + 1) + 1 : SubSeq(queue, p + 1, n)[i] = queue[p + 1 + i - 1]
    BY <1>1, <1>2, SubSeqProperties
  <1> QED
    BY <1>1, <1>3

LEMMA DequeuedQueue ==
  ASSUME QueueOK, NEW k \in Keys
  PROVE  /\ Dequeued(k) \in Seq(Keys)
         /\ \A i \in 1 .. Len(Dequeued(k)) : \E m \in 1 .. Len(queue) :
              Dequeued(k)[i] = queue[m] /\ queue[m] # k
         /\ \A i, j \in 1 .. Len(Dequeued(k)) : Dequeued(k)[i] = Dequeued(k)[j] => i = j
  <1>0. queue \in Seq(Keys) /\ Len(queue) \in Nat
        /\ \A i, j \in 1 .. Len(queue) : queue[i] = queue[j] => i = j
    BY LenProperties DEF QueueOK
  <1>1. CASE \E i \in 1 .. Len(queue) : queue[i] = k
    <2> DEFINE p == CHOOSE j \in 1 .. Len(queue) : queue[j] = k
               s == SubSeq(queue, 1, p - 1)
               t == SubSeq(queue, p + 1, Len(queue))
               At(i) == IF i < p THEN i ELSE i + 1
    <2>1. p \in 1 .. Len(queue) /\ queue[p] = k
      BY <1>1
    <2>2. Dequeued(k) = s \o t
      BY <1>1 DEF Dequeued
    <2> HIDE DEF p
    <2>3. p \in Int /\ p - 1 \in Int /\ p + 1 \in Int /\ Len(queue) \in Int /\ 1 \in Int
      BY <1>0, <2>1
    <2>4. \A i \in 1 .. Len(queue) : queue[i] \in Keys
      BY <1>0
    <2>5. \A i \in 1 .. p - 1 : queue[i] \in Keys
      BY <1>0, <2>1, <2>3, <2>4
    <2>6. \A i \in p + 1 .. Len(queue) : queue[i] \in Keys
      BY <1>0, <2>1, <2>3, <2>4
    <2> HIDE DEF At
    <2>7. /\ s \in Seq(Keys) /\ Len(s) = p - 1
          /\ \A i \in 1 .. p - 1 : s[i] = queue[i]
      BY <1>0, <2>1, <2>3, PartOfQueue
    <2>8. /\ t \in Seq(Keys) /\ Len(t) = Len(queue) - p
          /\ \A i \in 1 .. Len(queue) - p : t[i] = queue[p + i]
      <3>1. /\ SubSeq(queue, p + 1, Len(queue)) \in Seq(Keys)
            /\ Len(SubSeq(queue, p + 1, Len(queue))) = Len(queue) - p
            /\ \A i \in 1 .. Len(queue) - p :
                 SubSeq(queue, p + 1, Len(queue))[i] = queue[p + i]
        BY <1>0, <2>1, <2>3, PartOfQueue
      <3> QED
        BY <3>1
    <2> HIDE DEF s, t
    <2> USE DEF At
    <2>9. /\ s \o t \in Seq(Keys) /\ Len(s \o t) = Len(queue) - 1
          /\ \A i \in 1 .. Len(queue) - 1 : (s \o t)[i] = queue[At(i)]
      <3>1. /\ s \o t \in Seq(Keys) /\ Len(s \o t) = Len(s) + Len(t)
            /\ \A i \in 1 .. Len(s) + Len(t) :
                 (s \o t)[i] = IF i <= Len(s) THEN s[i] ELSE t[i - Len(s)]
        BY <2>7, <2>8, ConcatProperties, Zenon
      <3>2. Len(s) + Len(t) = Len(queue) - 1
        BY <2>3, <2>7, <2>8
      <3>3. ASSUME NEW i \in 1 .. Len(queue) - 1
            PROVE  (s \o t)[i] = queue[At(i)]
        <4>1. CASE i < p
          BY <2>1, <2>3, <2>7, <3>1, <3>2, <4>1
        <4>2. CASE ~(i < p)
          <5>1. (s \o t)[i] = t[i - (p - 1)]
            BY <2>1, <2>3, <2>7, <3>1, <3>2, <4>2
          <5>2. i - (p - 1) \in 1 .. Len(queue) - p /\ p + (i - (p - 1)) = i + 1
            BY <2>1, <2>3, <4>2
          <5> QED
            BY <2>8, <4>2, <5>1, <5>2
        <4> QED
          BY <4>1, <4>2
      <3> QED
        BY <3>1, <3>2, <3>3
    <2>10. \A i \in 1 .. Len(queue) - 1 : At(i) \in 1 .. Len(queue) /\ At(i) # p
      BY <2>1, <2>3
    <2>11. \A i, j \in 1 .. Len(queue) - 1 : At(i) = At(j) => i = j
      BY <2>1, <2>3
    <2> HIDE DEF At
    <2>12. \A i \in 1 .. Len(queue) - 1 : queue[At(i)] # k
      BY <1>0, <2>1, <2>10
    <2>13. \A i, j \in 1 .. Len(queue) - 1 : (s \o t)[i] = (s \o t)[j] => i = j
      BY <1>0, <2>9, <2>10, <2>11
    <2>14. \A i \in 1 .. Len(queue) - 1 : \E m \in 1 .. Len(queue) :
             (s \o t)[i] = queue[m] /\ queue[m] # k
      BY <2>9, <2>10, <2>12
    <2> QED
      BY <2>2, <2>9, <2>13, <2>14
  <1>2. CASE ~\E i \in 1 .. Len(queue) : queue[i] = k
    BY <1>0, <1>2 DEF Dequeued
  <1> QED
    BY <1>1, <1>2

\* A task is taken up.
LEMMA LockQueue ==
  ASSUME QueueOK, TaskOK, NEW k \in Keys, NEW t, task' = [task EXCEPT ![k] = t],
         queue' = Dequeued(k)
  PROVE  QueueOK'
  <1>1. \A i \in 1 .. Len(queue') : \E m \in 1 .. Len(queue) :
          queue'[i] = queue[m] /\ queue[m] # k
    BY DequeuedQueue
  <1>2. ASSUME NEW i \in 1 .. Len(queue')
        PROVE  \/ task'[queue'[i]].status = "PENDING"
               \/ task'[queue'[i]].status = "FAILED" /\ ~task'[queue'[i]].dead
    <2>1. PICK m \in 1 .. Len(queue) : queue'[i] = queue[m] /\ queue[m] # k
      BY <1>1
    <2>2. queue[m] \in Keys
      BY DEF QueueOK
    <2>3. task'[queue[m]] = task[queue[m]]
      BY <2>1, <2>2 DEF TaskOK
    <2> QED
      BY <2>1, <2>3 DEF QueueOK
  <1>3. /\ queue' \in Seq(Keys)
        /\ \A i, j \in 1 .. Len(queue') : queue'[i] = queue'[j] => i = j
    BY DequeuedQueue
  <1> QED
    BY <1>2, <1>3 DEF QueueOK

\* A task that is not due is written.
LEMMA SameQueue ==
  ASSUME QueueOK, TaskOK, NEW k \in Keys, NEW t, task' = [task EXCEPT ![k] = t],
         task[k].status \notin {"PENDING", "FAILED"}, queue' = queue
  PROVE  QueueOK'
  <1>1. ASSUME NEW i \in 1 .. Len(queue)
        PROVE  task'[queue[i]] = task[queue[i]]
    <2>1. queue[i] \in Keys /\ queue[i] # k
      BY DEF QueueOK
    <2> QED
      BY <2>1 DEF TaskOK
  <1> QED
    BY <1>1 DEF QueueOK

\* A task that was not due becomes due.
LEMMA LongerQueue ==
  ASSUME QueueOK, NEW k \in Keys,
         \A i \in 1 .. Len(queue) : queue[i] # k /\ task'[queue[i]] = task[queue[i]],
         \/ task'[k].status = "PENDING"
         \/ task'[k].status = "FAILED" /\ ~task'[k].dead,
         queue' = Append(queue, k)
  PROVE  QueueOK'
  <1>0. queue \in Seq(Keys) /\ Len(queue) \in Nat
    BY LenProperties DEF QueueOK
  <1>1. /\ queue' \in Seq(Keys) /\ Len(queue') = Len(queue) + 1
        /\ \A i \in 1 .. Len(queue) : queue'[i] = queue[i]
        /\ queue'[Len(queue) + 1] = k
    BY <1>0, AppendProperties
  <1>2. \A i \in 1 .. Len(queue') : i \in 1 .. Len(queue) \/ i = Len(queue) + 1
    BY <1>0, <1>1
  <1>3. \A i \in 1 .. Len(queue') :
          \/ task'[queue'[i]].status = "PENDING"
          \/ task'[queue'[i]].status = "FAILED" /\ ~task'[queue'[i]].dead
    BY <1>1, <1>2 DEF QueueOK
  <1>4. \A i, j \in 1 .. Len(queue') : queue'[i] = queue'[j] => i = j
    BY <1>1, <1>2 DEF QueueOK
  <1> QED
    BY <1>1, <1>3, <1>4 DEF QueueOK

-----------------------------------------------------------------------------
(* Tasks and the runs that work on them.                                   *)

LEMMA WorkingSteps == \A h : Working(h) <=> pc[h] \in WorkSteps
  BY DEF Working, WorkSteps, SyncSteps

LEMMA WorkingIsKey ==
  ASSUME ControlOK, NEW h \in Handlers, Working(h)
  PROVE  /\ pc[h] \in SyncSteps /\ Current(h) \in Keys
         /\ Head(job[h].batch).attempts \in 0 .. (MaxAttempts - 1)
  BY WorkingSteps, CurrentIsKey DEF WorkSteps

LEMMA TaskStep ==
  ASSUME TaskOK, NEW k \in Keys, NEW t \in Tasks, TaskFits(t), task' = [task EXCEPT ![k] = t]
  PROVE  TaskOK' /\ task'[k] = t /\ \A l \in Keys \ {k} : task'[l] = task[l]
  BY DEF TaskOK

\* What a step of handler h must show of the runs.
LEMMA RunsStep ==
  ASSUME WorkOK, OneRunPerTask, NEW h \in Handlers,
         \A g \in Handlers \ {h} : pc'[g] = pc[g] /\ job'[g] = job[g],
         \A g \in Handlers \ {h} : Working(g) => task'[Current(g)].status = "PROCESSING",
         pc'[h] \in WorkSteps =>
           /\ task'[Current(h)'].status = "PROCESSING"
           /\ \A g \in Handlers \ {h} : Working(g) => Current(g) # Current(h)'
  PROVE  WorkOK' /\ OneRunPerTask'
  <1>1. \A g \in Handlers \ {h} : (Working(g)' <=> Working(g)) /\ Current(g)' = Current(g)
    BY DEF Working, Current
  <1>2. Working(h)' <=> pc'[h] \in WorkSteps
    BY DEF Working, WorkSteps, SyncSteps
  <1>3. WorkOK'
    BY <1>1, <1>2 DEF WorkOK
  <1>4. ASSUME NEW f \in Handlers, NEW g \in Handlers, f # g, Working(f)', Working(g)'
        PROVE  Current(f)' # Current(g)'
    BY <1>1, <1>2, <1>4 DEF OneRunPerTask
  <1> QED
    BY <1>3, <1>4 DEF OneRunPerTask

RunsOK == TaskOK /\ QueueOK /\ WorkOK /\ OneRunPerTask

\* A step that leaves the tasks alone, and takes up none.
LEMMA QuietRuns ==
  ASSUME Inv, NEW h \in Handlers,
         \A g \in Handlers \ {h} : pc'[g] = pc[g] /\ job'[g] = job[g],
         pc'[h] \in WorkSteps => Working(h) /\ job'[h].batch = job[h].batch,
         UNCHANGED <<task, queue>>
  PROVE  RunsOK'
  <1>1. TaskOK' /\ QueueOK'
    BY DEF Inv, TaskOK, QueueOK
  <1>2. pc'[h] \in WorkSteps => Current(h)' = Current(h)
    BY DEF Current
  <1>3. WorkOK' /\ OneRunPerTask'
    BY <1>2, RunsStep DEF Inv, WorkOK, OneRunPerTask
  <1> QED
    BY <1>1, <1>3 DEF RunsOK

LEMMA SameRuns ==
  ASSUME Inv, UNCHANGED <<pc, job, task, queue>>
  PROVE  RunsOK' /\ ControlOK'
  BY SameControl DEF Inv, RunsOK, TaskOK, QueueOK, WorkOK, OneRunPerTask, Working, Current

\* A run ends the work on its task.
LEMMA EndRuns ==
  ASSUME Inv, NEW h \in Handlers, Working(h), NEW t \in Tasks, TaskFits(t),
         task' = [task EXCEPT ![Current(h)] = t], queue' = queue, NextTask(h)
  PROVE  RunsOK' /\ ControlOK' /\ requests' = requests
         /\ \A g \in Handlers \ {h} : pc'[g] = pc[g] /\ job'[g] = job[g]
  <1> DEFINE k == Current(h)
  <1>0. ControlOK /\ TaskOK /\ QueueOK /\ WorkOK /\ OneRunPerTask
    BY DEF Inv
  <1>1. k \in Keys /\ pc[h] \in SyncSteps
    BY <1>0, WorkingIsKey
  <1>2. /\ ControlOK' /\ requests' = requests /\ pc'[h] \in {"idle", "lock"}
        /\ \A g \in Handlers \ {h} : pc'[g] = pc[g] /\ job'[g] = job[g]
    BY <1>0, <1>1, NextTaskControl
  <1>3. TaskOK' /\ \A l \in Keys \ {k} : task'[l] = task[l]
    BY <1>0, <1>1, TaskStep
  <1>4. task[k].status = "PROCESSING"
    BY <1>0 DEF WorkOK
  <1>5. QueueOK'
    BY <1>0, <1>1, <1>4, SameQueue
  <1>6. \A g \in Handlers \ {h} : Working(g) => task'[Current(g)].status = "PROCESSING"
    <2>1. ASSUME NEW g \in Handlers \ {h}, Working(g)
          PROVE  task'[Current(g)].status = "PROCESSING"
      <3>1. Current(g) \in Keys /\ Current(g) # k
        BY <1>0, <2>1, WorkingIsKey DEF OneRunPerTask
      <3> QED
        BY <1>0, <1>3, <2>1, <3>1 DEF WorkOK
    <2> QED
      BY <2>1
  <1>7. pc'[h] \notin WorkSteps
    BY <1>2 DEF WorkSteps, SyncSteps
  <1>8. WorkOK' /\ OneRunPerTask'
    BY <1>0, <1>2, <1>6, <1>7, RunsStep
  <1> QED
    BY <1>2, <1>3, <1>5, <1>8 DEF RunsOK

LEMMA FailRuns ==
  ASSUME Inv, NEW h \in Handlers, Working(h), NEW retryable \in BOOLEAN,
         FailTask(h, retryable), queue' = queue
  PROVE  RunsOK' /\ ControlOK' /\ requests' = requests
         /\ \A g \in Handlers \ {h} : pc'[g] = pc[g] /\ job'[g] = job[g]
  <1> DEFINE n == Head(job[h].batch).attempts + 1
  <1>1. n \in 0 .. MaxAttempts /\ MaxAttempts \in Nat
    BY WorkingIsKey, ClerkAssumption DEF Inv
  <1>2. PICK dead :
          /\ dead = (n >= MaxAttempts \/ ~retryable)
          /\ task' = [task EXCEPT ![Current(h)] =
                        [status |-> "FAILED", attempts |-> n, dead |-> dead]]
          /\ NextTask(h)
    BY Zenon DEF FailTask
  <1> DEFINE t == [status |-> "FAILED", attempts |-> n, dead |-> dead]
  <1>3. dead \in BOOLEAN
    BY <1>2, Zenon
  <1>4. ~dead => n < MaxAttempts
    <2>1. ~dead => ~(n >= MaxAttempts)
      BY <1>2, Zenon
    <2> QED
      BY <1>1, <2>1
  <1>5. t \in Tasks
    BY <1>1, <1>3 DEF Tasks
  <1>6. t.status = "FAILED" /\ (t.dead \/ t.attempts < MaxAttempts)
    <2>1. t.attempts = n
      OBVIOUS
    <2>2. ~t.dead => ~dead
      OBVIOUS
    <2> QED
      BY <1>4, <2>1, <2>2
  <1>7. task' = [task EXCEPT ![Current(h)] = t] /\ NextTask(h)
    BY <1>2
  <1> HIDE DEF t, n
  <1>8. TaskFits(t)
    BY <1>6, Zenon DEF TaskFits
  <1> QED
    BY <1>5, <1>7, <1>8, EndRuns

-----------------------------------------------------------------------------
(* The steps of a run of the cron job.                                     *)

LEMMA KeyFields ==
  \A k \in Keys : /\ k.email \in Emails /\ k.position \in Positions \cup {Gone}
                  /\ k.action \in {"UPSERT", "DELETE"}
  BY DEF Keys

LEMMA SameRoles ==
  ASSUME RolesOK, UNCHANGED <<tables, cache, marks, requests>>
  PROVE  RolesOK'
  BY DEF RolesOK, tables, marks

LEMMA SameStaff ==
  ASSUME StaffOK, UNCHANGED <<staff, log>>
  PROVE  StaffOK'
  BY DEF StaffOK

LEMMA SameDirectory ==
  ASSUME DirectoryOK, UNCHANGED directory, disordered' \subseteq Emails
  PROVE  DirectoryOK'
  BY DEF DirectoryOK, directory

LEMMA AppliesEmails ==
  ASSUME DirectoryOK, NEW k \in Keys, Applies(k)
  PROVE  disordered' \subseteq Emails
  BY KeyFields DEF Applies, DirectoryOK

LEMMA LockStep ==
  ASSUME Inv, NEW h \in Handlers, LockTask(h)
  PROVE  Inv'
  <1> DEFINE k == Current(h)
  <1>0. /\ ControlOK /\ RolesOK /\ DirectoryOK /\ StaffOK /\ TaskOK /\ QueueOK /\ WorkOK
        /\ OneRunPerTask
    BY DEF Inv
  <1>1. pc[h] = "lock" /\ k \in Keys /\ pc[h] \in SyncSteps /\ job[h].batch # <<>>
    BY <1>0, CurrentIsKey DEF LockTask, SyncSteps
  <1>2. /\ UNCHANGED <<tables, cache, marks, staff, log, directory, disordered>>
        /\ disordered' \subseteq Emails
    BY <1>0 DEF LockTask, DirectoryOK
  <1>3. CASE task[k].status \in {"PENDING", "FAILED"}
               /\ task[k].attempts = Head(job[h].batch).attempts
    <2> DEFINE t == [task[k] EXCEPT !.status = "PROCESSING"]
    <2>1. /\ task' = [task EXCEPT ![k] = t] /\ queue' = Dequeued(k) /\ Goto(h, "find")
      BY <1>3 DEF LockTask
    <2>2. t \in Tasks /\ t.status = "PROCESSING"
      BY <1>0, <1>1 DEF TaskOK, Tasks
    <2> HIDE DEF t
    <2>3. TaskFits(t)
      BY <2>2 DEF TaskFits
    <2>4. TaskOK' /\ task'[k] = t /\ \A l \in Keys \ {k} : task'[l] = task[l]
      BY <1>0, <1>1, <2>1, <2>2, <2>3, TaskStep
    <2>5. QueueOK'
      BY <1>0, <1>1, <2>1, LockQueue
    <2>6. /\ ControlOK' /\ pc'[h] = "find" /\ job' = job /\ requests' = requests
          /\ \A g \in Handlers \ {h} : pc'[g] = pc[g] /\ job'[g] = job[g]
      <3>1. JobFits("find", job[h])
        BY <1>1 DEF JobFits
      <3> QED
        BY <1>0, <2>1, <3>1, GotoControl DEF Steps
    <2>7. \A g \in Handlers \ {h} : Working(g) => Current(g) # k /\ Current(g) \in Keys
      BY <1>0, <1>3, WorkingIsKey DEF WorkOK
    <2>8. Current(h)' = k
      BY <2>6 DEF Current
    <2>9. WorkOK' /\ OneRunPerTask'
      <3>1. \A g \in Handlers \ {h} : Working(g) => task'[Current(g)].status = "PROCESSING"
        BY <1>0, <2>4, <2>7 DEF WorkOK
      <3> QED
        BY <1>0, <2>2, <2>4, <2>6, <2>7, <2>8, <3>1, RunsStep
    <2> QED
      BY <1>0, <1>2, <2>4, <2>5, <2>6, <2>9, SameRoles, SameStaff, SameDirectory
         DEF Inv, RunsOK
  <1>4. CASE ~(task[k].status \in {"PENDING", "FAILED"}
               /\ task[k].attempts = Head(job[h].batch).attempts)
    <2>1. NextTask(h) /\ UNCHANGED <<task, queue>>
      BY <1>4 DEF LockTask
    <2>2. /\ ControlOK' /\ requests' = requests /\ pc'[h] \in {"idle", "lock"}
          /\ \A g \in Handlers \ {h} : pc'[g] = pc[g] /\ job'[g] = job[g]
      BY <1>0, <1>1, <2>1, NextTaskControl
    <2>3. RunsOK'
      BY <2>1, <2>2, QuietRuns DEF WorkSteps, SyncSteps
    <2> QED
      BY <1>0, <1>2, <2>2, <2>3, SameRoles, SameStaff, SameDirectory
       DEF Inv, RunsOK
  <1> QED
    BY <1>3, <1>4

LEMMA FindStep ==
  ASSUME Inv, NEW h \in Handlers, FindAccount(h)
  PROVE  Inv'
  <1> DEFINE k == Current(h)
             u == account[k.email]
             j == [job[h] EXCEPT !.user = u, !.users = {u} \ {NoId}]
             step == IF k.action = "UPSERT" THEN IF u = NoId THEN "createUser" ELSE "updateUser"
                     ELSE IF u = NoId THEN "succeed" ELSE "deleteUser"
  <1>0. ControlOK /\ RolesOK /\ DirectoryOK /\ StaffOK
    BY DEF Inv
  <1>1. pc[h] = "find" /\ pc[h] \in WorkSteps /\ Working(h)
    BY DEF FindAccount, SyncSteps, WorkSteps, Working
  <1>2. k \in Keys /\ job[h] \in Jobs /\ job[h].batch # <<>>
    BY <1>0, <1>1, CurrentIsKey DEF WorkSteps
  <1>3. u \in Ids \cup {NoId} /\ ({u} \ {NoId}) \in SUBSET Ids
    BY <1>0, <1>2, KeyFields DEF DirectoryOK
  <1>4. j \in Jobs /\ j.user = u /\ j.users = {u} \ {NoId} /\ j.batch = job[h].batch
    BY <1>2, <1>3 DEF Jobs
  <1>5. /\ job' = [job EXCEPT ![h] = j] /\ pc' = [pc EXCEPT ![h] = step]
        /\ UNCHANGED <<tables, cache, requests, marks, staff, task, log, queue, directory>>
    BY DEF FindAccount
  <1>6. Applies(k) \/ UNCHANGED disordered
    BY DEF FindAccount
  <1>7. step \in {"createUser", "updateUser", "succeed", "deleteUser"}
        /\ (step \in {"updateUser", "deleteUser"} => u # NoId)
    OBVIOUS
  <1> HIDE DEF step, j
  <1>8. JobFits(step, j)
    BY <1>2, <1>3, <1>4, <1>7, RolesAssumption DEF JobFits
  <1>9. /\ ControlOK' /\ pc'[h] = step /\ job'[h] = j
        /\ \A g \in Handlers \ {h} : pc'[g] = pc[g] /\ job'[g] = job[g]
    <2>1. step \in Steps
      BY <1>7 DEF Steps
    <2>2. job' = [job EXCEPT ![h] = j] /\ pc' = [pc EXCEPT ![h] = step]
      BY <1>5
    <2> QED
      BY <1>0, <1>4, <1>8, <2>1, <2>2, MoveControl
  <1>10. RunsOK'
    BY <1>1, <1>4, <1>5, <1>9, QuietRuns
  <1>11. disordered' \subseteq Emails
    BY <1>0, <1>2, <1>6, AppliesEmails DEF DirectoryOK
  <1> QED
    BY <1>0, <1>5, <1>9, <1>10, <1>11, SameRoles, SameStaff, SameDirectory
       DEF Inv, RunsOK

LEMMA CreateStep ==
  ASSUME Inv, NEW h \in Handlers, NEW u \in Ids, CreateUser(h, u)
  PROVE  Inv'
  <1> DEFINE k == Current(h)
             j == [job[h] EXCEPT !.user = u, !.users = {u}]
  <1>0. ControlOK /\ RolesOK /\ DirectoryOK /\ StaffOK
    BY DEF Inv
  <1>1. pc[h] = "createUser" /\ pc[h] \in WorkSteps /\ Working(h)
    BY DEF CreateUser, SyncSteps, WorkSteps, Working
  <1>2. k \in Keys /\ job[h] \in Jobs /\ job[h].batch # <<>>
    BY <1>0, <1>1, CurrentIsKey DEF WorkSteps
  <1>3. j \in Jobs /\ j.user = u /\ j.users = {u} /\ j.batch = job[h].batch
    BY <1>2 DEF Jobs
  <1>4. RunsOK' /\ ControlOK' /\ requests' = requests
    <2>1. CASE /\ job' = [job EXCEPT ![h] = j] /\ pc' = [pc EXCEPT ![h] = "role"]
               /\ UNCHANGED <<task, requests>>
      <3> HIDE DEF j
      <3>1. JobFits("role", j)
        BY <1>2, <1>3 DEF JobFits
      <3>2. /\ ControlOK' /\ pc'[h] = "role" /\ job'[h] = j
            /\ \A g \in Handlers \ {h} : pc'[g] = pc[g] /\ job'[g] = job[g]
        BY <1>0, <1>3, <2>1, <3>1, MoveControl DEF Steps
      <3>3. queue' = queue
        BY DEF CreateUser
      <3> QED
        BY <1>1, <1>3, <2>1, <3>2, <3>3, QuietRuns
    <2>2. CASE FailTask(h, TRUE)
      BY <1>1, <2>2, FailRuns DEF CreateUser
    <2> QED
      BY <2>1, <2>2 DEF CreateUser
  <1>5. DirectoryOK'
    <2>1. disordered' \subseteq Emails
      BY <1>0, <1>2, AppliesEmails DEF CreateUser
    <2>2. /\ used' = used \cup {u} /\ account' = [account EXCEPT ![k.email] = u]
          /\ metadata' = [metadata EXCEPT ![u] = k.position]
          /\ webhooks' = webhooks \cup {u}
      BY DEF CreateUser
    <2> QED
      BY <1>0, <1>2, <2>1, <2>2, KeyFields DEF DirectoryOK
  <1>6. RolesOK' /\ StaffOK'
    BY <1>0, <1>4, SameRoles, SameStaff DEF CreateUser
  <1> QED
    BY <1>4, <1>5, <1>6 DEF Inv, RunsOK

\* A call whose answer arrives, or is lost.
LEMMA AnswerRuns ==
  ASSUME Inv, NEW h \in Handlers, NEW step \in {"role", "succeed"}, Working(h),
         Answer(h, step), JobFits(step, job[h]), queue' = queue
  PROVE  RunsOK' /\ ControlOK' /\ requests' = requests
  <1>1. CASE Goto(h, step) /\ UNCHANGED task
    <2>1. /\ ControlOK' /\ pc'[h] = step /\ job' = job /\ requests' = requests
          /\ \A g \in Handlers \ {h} : pc'[g] = pc[g] /\ job'[g] = job[g]
      BY <1>1, GotoControl DEF Steps, Inv
    <2> QED
      BY <1>1, <2>1, QuietRuns
  <1>2. CASE FailTask(h, TRUE)
    BY <1>2, FailRuns
  <1> QED
    BY <1>1, <1>2 DEF Answer

LEMMA UpdateStep ==
  ASSUME Inv, NEW h \in Handlers, UpdateUser(h)
  PROVE  Inv'
  <1>0. ControlOK /\ RolesOK /\ DirectoryOK /\ StaffOK
    BY DEF Inv
  <1>1. pc[h] = "updateUser" /\ pc[h] \in SyncSteps /\ Working(h)
    BY DEF UpdateUser, SyncSteps, Working
  <1>2. /\ Current(h) \in Keys /\ job[h].batch # <<>> /\ job[h].user \in job[h].users
        /\ job[h].users \in SUBSET Ids
    BY <1>0, <1>1, CurrentIsKey DEF ControlOK, JobFits, Jobs
  <1>3. JobFits("role", job[h])
    BY <1>2 DEF JobFits
  <1>4. RunsOK' /\ ControlOK' /\ requests' = requests
    BY <1>1, <1>3, AnswerRuns DEF UpdateUser
  <1>5. DirectoryOK'
    <2>1. disordered' \subseteq Emails
      BY <1>0, <1>2, AppliesEmails DEF UpdateUser
    <2>2. /\ metadata' = [metadata EXCEPT ![job[h].user] = Current(h).position]
          /\ UNCHANGED <<account, used, webhooks>>
      BY DEF UpdateUser
    <2> QED
      BY <1>0, <1>2, <2>1, <2>2, KeyFields DEF DirectoryOK
  <1>6. RolesOK' /\ StaffOK'
    BY <1>0, <1>4, SameRoles, SameStaff DEF UpdateUser
  <1> QED
    BY <1>4, <1>5, <1>6 DEF Inv, RunsOK

LEMMA DeleteStep ==
  ASSUME Inv, NEW h \in Handlers, DeleteUser(h)
  PROVE  Inv'
  <1>0. ControlOK /\ RolesOK /\ DirectoryOK /\ StaffOK
    BY DEF Inv
  <1>1. pc[h] = "deleteUser" /\ pc[h] \in SyncSteps /\ Working(h)
    BY DEF DeleteUser, SyncSteps, Working
  <1>2. Current(h) \in Keys /\ job[h].batch # <<>>
    BY <1>0, <1>1, CurrentIsKey
  <1>3. JobFits("succeed", job[h])
    BY <1>2 DEF JobFits
  <1>4. RunsOK' /\ ControlOK' /\ requests' = requests
    BY <1>1, <1>3, AnswerRuns DEF DeleteUser
  <1>5. DirectoryOK'
    <2>1. disordered' \subseteq Emails
      BY <1>0, <1>2, AppliesEmails DEF DeleteUser
    <2>2. /\ account' = [account EXCEPT ![Current(h).email] = NoId]
          /\ UNCHANGED <<used, metadata, webhooks>>
      BY DEF DeleteUser
    <2> QED
      BY <1>0, <2>1, <2>2 DEF DirectoryOK
  <1>6. RolesOK' /\ StaffOK'
    BY <1>0, <1>4, SameRoles, SameStaff DEF DeleteUser
  <1> QED
    BY <1>4, <1>5, <1>6 DEF Inv, RunsOK

\* A handler that works on no task moves on, or a run goes to its next await; the
\* staff, the directory and the tasks stay.
LEMMA QuietInv ==
  ASSUME Inv, NEW h \in Handlers, ControlOK', RolesOK',
         \A g \in Handlers \ {h} : pc'[g] = pc[g] /\ job'[g] = job[g],
         pc'[h] \in WorkSteps => Working(h) /\ job'[h].batch = job[h].batch,
         UNCHANGED sync
  PROVE  Inv'
  <1>1. UNCHANGED <<staff, task, log, queue, directory, disordered>>
    BY DEF sync
  <1>2. RunsOK'
    BY <1>1, QuietRuns
  <1>3. StaffOK' /\ DirectoryOK'
    BY <1>1, SameStaff, SameDirectory DEF Inv, DirectoryOK
  <1> QED
    BY <1>2, <1>3 DEF Inv, RunsOK

LEMMA OutdatesTypes ==
  ASSUME RolesOK, NEW h \in Handlers, NEW S \in SUBSET Ids, Outdates(h, S)
  PROVE  /\ owed' \in [Handlers -> SUBSET Ids] /\ overtaken' \subseteq Handlers
         /\ outdated' \subseteq Ids
         /\ owed'[h] = S /\ \A g \in Handlers \ {h} : owed'[g] = owed[g]
  <1>1. owed' = [owed EXCEPT ![h] = S] /\ outdated' = outdated
    BY DEF Outdates
  <1>2. overtaken' \subseteq Handlers
    BY Zenon DEF RolesOK, Outdates
  <1>3. owed' \in [Handlers -> SUBSET Ids] /\ owed'[h] = S
    BY <1>1 DEF RolesOK
  <1>4. \A g \in Handlers \ {h} : owed'[g] = owed[g]
    BY <1>1 DEF RolesOK
  <1>5. outdated' \subseteq Ids
    BY <1>1 DEF RolesOK
  <1> QED
    BY <1>2, <1>3, <1>4, <1>5

LEMMA DropTypes ==
  ASSUME RolesOK, NEW h \in Handlers, NEW S \in SUBSET Ids, DropEntries(h, S),
         requests' = requests
  PROVE  RolesOK' /\ owed'[h] = {} /\ \A g \in Handlers \ {h} : owed'[g] = owed[g]
  <1>1. owed' = [owed EXCEPT ![h] = {}] /\ UNCHANGED <<rows, grants, overtaken, requests>>
    BY DEF DropEntries, tables
  <1>2. owed' \in [Handlers -> SUBSET Ids] /\ owed'[h] = {}
    BY <1>1 DEF RolesOK
  <1>3. \A g \in Handlers \ {h} : owed'[g] = owed[g]
    BY <1>1 DEF RolesOK
  <1>4. cache' \in [Ids -> (SUBSET Permissions) \cup {NoEntry}]
    BY DEF RolesOK, DropEntries
  <1>5. outdated' \subseteq Ids
    BY DEF RolesOK, DropEntries
  <1> QED
    BY <1>1, <1>2, <1>3, <1>4, <1>5 DEF RolesOK

\* The rows that syncPositionRole leaves to a user.
PositionRows(u, p) ==
  [r \in RoleNames |-> IF r = p THEN IF rows[u][r] = 0 THEN 1 ELSE rows[u][r]
                       ELSE IF r \in Positions THEN 0 ELSE rows[u][r]]

LEMMA RoleOfPosition ==
  ASSUME NEW h \in Handlers, SyncPositionRole(h)
  PROVE  rows' = [rows EXCEPT ![job[h].user] = PositionRows(job[h].user, Current(h).position)]
  BY DEF SyncPositionRole, PositionRows

LEMMA PositionRolesStep ==
  ASSUME Inv, NEW h \in Handlers, SyncPositionRole(h)
  PROVE  Inv'
  <1> DEFINE u == job[h].user
  <1>0. ControlOK /\ RolesOK
    BY DEF Inv
  <1>1. pc[h] = "role" /\ pc[h] \in SyncSteps /\ Working(h)
    BY DEF SyncPositionRole, SyncSteps, Working
  <1>2. u \in Ids /\ job[h].batch # <<>>
    BY <1>0, <1>1, CurrentIsKey DEF ControlOK, JobFits, Jobs
  <1>3. /\ ControlOK' /\ pc'[h] = "forget" /\ job' = job /\ requests' = requests
        /\ \A g \in Handlers \ {h} : pc'[g] = pc[g] /\ job'[g] = job[g]
    <2>1. JobFits("forget", job[h])
      BY <1>2 DEF JobFits
    <2> QED
      BY <1>0, <2>1, GotoControl DEF SyncPositionRole, Steps
  <1>4. RolesOK'
    <2>1. PositionRows(u, Current(h).position) \in [RoleNames -> Nat]
      BY <1>0, <1>2 DEF RolesOK, PositionRows
    <2>2. rows' \in [Ids -> [RoleNames -> Nat]]
      BY <1>0, <2>1, RoleOfPosition DEF RolesOK
    <2>3. UNCHANGED <<grants, cache>> /\ Outdates(h, {u})
      BY DEF SyncPositionRole
    <2> QED
      BY <1>0, <1>2, <1>3, <2>2, <2>3, OutdatesTypes DEF RolesOK
  <1>5. UNCHANGED sync
    BY DEF SyncPositionRole
  <1> QED
    BY <1>1, <1>3, <1>4, <1>5, QuietInv

LEMMA ForgetStep ==
  ASSUME Inv, NEW h \in Handlers, ForgetPermissions(h)
  PROVE  Inv'
  <1>0. ControlOK /\ RolesOK
    BY DEF Inv
  <1>1. pc[h] = "forget" /\ pc[h] \in SyncSteps /\ Working(h)
    BY DEF ForgetPermissions, SyncSteps, Working
  <1>2. job[h].users \in SUBSET Ids /\ job[h].batch # <<>>
    BY <1>0, <1>1, CurrentIsKey DEF Jobs
  <1>3. /\ ControlOK' /\ pc'[h] = "succeed" /\ job' = job /\ requests' = requests
        /\ \A g \in Handlers \ {h} : pc'[g] = pc[g] /\ job'[g] = job[g]
    <2>1. JobFits("succeed", job[h])
      BY <1>2 DEF JobFits
    <2> QED
      BY <1>0, <2>1, GotoControl DEF ForgetPermissions, Steps
  <1>4. RolesOK'
    BY <1>0, <1>2, <1>3, DropTypes DEF ForgetPermissions
  <1>5. UNCHANGED sync
    BY DEF ForgetPermissions
  <1> QED
    BY <1>1, <1>3, <1>4, <1>5, QuietInv

LEMMA SucceedStep ==
  ASSUME Inv, NEW h \in Handlers, SucceedTask(h)
  PROVE  Inv'
  <1> DEFINE k == Current(h)
             t == [task[k] EXCEPT !.status = "SUCCEEDED"]
  <1>0. ControlOK /\ RolesOK /\ DirectoryOK /\ StaffOK /\ TaskOK
    BY DEF Inv
  <1>1. pc[h] = "succeed" /\ Working(h)
    BY DEF SucceedTask, Working
  <1>2. k \in Keys
    BY <1>0, <1>1, WorkingIsKey
  <1>3. /\ task' = [task EXCEPT ![k] = t] /\ NextTask(h) /\ queue' = queue
        /\ UNCHANGED <<tables, cache, marks, staff, log, directory, disordered>>
    BY DEF SucceedTask
  <1>4. t \in Tasks /\ t.status = "SUCCEEDED"
    BY <1>0, <1>2 DEF TaskOK, Tasks
  <1> HIDE DEF t
  <1>5. TaskFits(t)
    BY <1>4 DEF TaskFits
  <1>6. RunsOK' /\ ControlOK' /\ requests' = requests
    BY <1>1, <1>3, <1>4, <1>5, EndRuns
  <1>7. RolesOK' /\ StaffOK' /\ DirectoryOK'
    BY <1>0, <1>3, <1>6, SameRoles, SameStaff, SameDirectory DEF DirectoryOK
  <1> QED
    BY <1>6, <1>7 DEF Inv, RunsOK

\* Nobody deletes the entries of a handler.
LEMMA DisownTypes ==
  ASSUME RolesOK, NEW h \in Handlers, Disown(h), UNCHANGED <<tables, cache, requests>>
  PROVE  RolesOK'
  <1>1. owed' \in [Handlers -> SUBSET Ids] /\ outdated' \subseteq Ids
    BY DEF RolesOK, Disown
  <1> QED
    BY <1>1 DEF RolesOK, Disown, tables

LEMMA CallFailsStep ==
  ASSUME Inv, NEW h \in Handlers, NEW retryable \in BOOLEAN, CallFails(h, retryable)
  PROVE  Inv'
  <1>0. ControlOK /\ RolesOK /\ DirectoryOK /\ StaffOK
    BY DEF Inv
  <1>1. Working(h)
    BY DEF CallFails, Working
  <1>2. /\ FailTask(h, retryable) /\ Disown(h) /\ queue' = queue
        /\ UNCHANGED <<tables, cache, staff, log, directory, disordered>>
    BY DEF CallFails
  <1>3. RunsOK' /\ ControlOK' /\ requests' = requests
    BY <1>1, <1>2, FailRuns
  <1>4. RolesOK'
    BY <1>0, <1>2, <1>3, DisownTypes
  <1>5. StaffOK' /\ DirectoryOK'
    BY <1>0, <1>2, SameStaff, SameDirectory DEF DirectoryOK
  <1> QED
    BY <1>3, <1>4, <1>5 DEF Inv, RunsOK

LEMMA ProcessStep ==
  ASSUME Inv, NEW h \in Handlers, ProcessDueTasks(h)
  PROVE  Inv'
  <1> DEFINE At(i) == [key |-> queue[i], attempts |-> task[queue[i]].attempts]
             batch == [i \in 1 .. Len(queue) |-> At(i)]
             j == [NoJob EXCEPT !.op = "sync", !.batch = batch]
  <1>0. ControlOK /\ RolesOK /\ TaskOK /\ QueueOK
    BY DEF Inv
  <1>1. queue \in Seq(Keys) /\ Len(queue) \in Nat /\ Len(queue) # 0
    BY <1>0, LenProperties, EmptySeq DEF QueueOK, ProcessDueTasks
  <1>2. ASSUME NEW i \in 1 .. Len(queue)
        PROVE  At(i) \in Entries
    <2>1. queue[i] \in Keys /\ task[queue[i]] \in Tasks /\ TaskFits(task[queue[i]])
      BY <1>0, <1>1 DEF TaskOK
    <2>2. \/ task[queue[i]].status = "PENDING"
          \/ task[queue[i]].status = "FAILED" /\ ~task[queue[i]].dead
      BY <1>0 DEF QueueOK
    <2>3. task[queue[i]].attempts = 0 \/ task[queue[i]].attempts < MaxAttempts
      BY <2>1, <2>2 DEF TaskFits
    <2>4. task[queue[i]].attempts \in 0 .. (MaxAttempts - 1)
      BY <2>1, <2>3, ClerkAssumption DEF Tasks
    <2> QED
      BY <2>1, <2>4 DEF Entries
  <1> HIDE DEF At
  <1>3. batch \in Seq(Entries) /\ Len(batch) = Len(queue)
    BY <1>1, <1>2
  <1>4. batch # <<>>
    BY <1>1, <1>3, EmptySeq
  <1> HIDE DEF batch
  <1>5. NoJob \in Jobs /\ "sync" \in Ops
    BY NoJobFits DEF Ops
  <1>6. j \in Jobs /\ j.batch # <<>>
    BY <1>3, <1>4, <1>5 DEF Jobs
  <1>7. JobFits("lock", j)
    BY <1>6 DEF JobFits
  <1>8. Begin(h, j, "lock")
    BY DEF ProcessDueTasks, batch, At
  <1> HIDE DEF j
  <1>9. /\ ControlOK' /\ pc'[h] = "lock"
        /\ \A g \in Handlers \ {h} : pc'[g] = pc[g] /\ job'[g] = job[g]
    BY <1>0, <1>6, <1>7, <1>8, BeginControl DEF Steps
  <1>10. RolesOK' /\ UNCHANGED sync
    BY <1>0, SameRoles DEF ProcessDueTasks
  <1> QED
    BY <1>9, <1>10, QuietInv DEF WorkSteps

-----------------------------------------------------------------------------
(* The steps of requests and webhooks.                                     *)

\* The end of a request, and a stop.
LEMMA FinishInv ==
  ASSUME Inv, NEW h \in Handlers, Finish(h), RolesOK', UNCHANGED sync
  PROVE  Inv'
  <1>1. /\ ControlOK' /\ pc'[h] = "idle"
        /\ \A g \in Handlers \ {h} : pc'[g] = pc[g] /\ job'[g] = job[g]
    BY FinishControl DEF Inv
  <1> QED
    BY <1>1, QuietInv DEF WorkSteps, SyncSteps

\* A request goes to its next await, with the same job.
LEMMA GotoInv ==
  ASSUME Inv, NEW h \in Handlers, NEW step \in Steps \ WorkSteps, Goto(h, step),
         JobFits(step, job[h]), RolesOK', UNCHANGED sync
  PROVE  Inv'
  <1>1. /\ ControlOK' /\ pc'[h] = step
        /\ \A g \in Handlers \ {h} : pc'[g] = pc[g] /\ job'[g] = job[g]
    BY GotoControl DEF Inv
  <1> QED
    BY <1>1, QuietInv

\* A request starts, or takes a note on its way.
LEMMA MoveInv ==
  ASSUME Inv, NEW h \in Handlers, NEW step \in Steps \ WorkSteps, NEW j \in Jobs,
         JobFits(step, j), pc' = [pc EXCEPT ![h] = step], job' = [job EXCEPT ![h] = j],
         RolesOK', UNCHANGED sync
  PROVE  Inv'
  <1>1. /\ ControlOK' /\ pc'[h] = step
        /\ \A g \in Handlers \ {h} : pc'[g] = pc[g] /\ job'[g] = job[g]
    BY MoveControl DEF Inv
  <1> QED
    BY <1>1, QuietInv

LEMMA RequestInv ==
  ASSUME Inv, NEW h \in Handlers, NEW step \in Steps \ WorkSteps, NEW j \in Jobs,
         JobFits(step, j), Request(h, j, step), UNCHANGED <<tables, cache, marks, sync>>
  PROVE  Inv'
  <1>1. /\ pc' = [pc EXCEPT ![h] = step] /\ job' = [job EXCEPT ![h] = j]
        /\ requests < MaxRequests /\ requests' = requests + 1
    BY DEF Request, Begin
  <1>2. requests' \in 0 .. MaxRequests
    <2>1. requests \in 0 .. MaxRequests /\ MaxRequests \in Nat
      BY RolesAssumption DEF Inv, RolesOK
    <2> QED
      BY <1>1, <2>1
  <1>3. UNCHANGED <<rows, grants, cache, owed, overtaken, outdated>>
    BY DEF tables, marks
  <1>4. RolesOK'
    BY <1>2, <1>3 DEF Inv, RolesOK
  <1> QED
    BY <1>1, <1>4, MoveInv

LEMMA RoleRequestStep ==
  ASSUME Inv, NEW h \in Handlers, RoleRequest(h), UNCHANGED sync
  PROVE  Inv'
  <1>0. NoJob \in Jobs
    BY NoJobFits
  <1>1. ASSUME NEW u \in Ids, GetPermissions(h, u)
        PROVE  Inv'
    <2> DEFINE j == [NoJob EXCEPT !.op = "get", !.user = u]
    <2>1. "get" \in Ops
      BY DEF Ops
    <2>2. j \in Jobs /\ j.user = u
      BY <1>0, <2>1 DEF Jobs
    <2>3. Request(h, j, "read") /\ UNCHANGED <<tables, cache, marks>>
      BY <1>1 DEF GetPermissions
    <2> HIDE DEF j
    <2>4. JobFits("read", j)
      BY <2>2 DEF JobFits, SyncSteps
    <2>5. "read" \in Steps \ WorkSteps
      BY DEF Steps, WorkSteps, SyncSteps
    <2> QED
      BY <2>2, <2>3, <2>4, <2>5, RequestInv
  <1>2. ASSUME NEW u \in Ids, NEW r \in RoleNames, AssignUserRole(h, u, r)
        PROVE  Inv'
    <2> DEFINE j == [NoJob EXCEPT !.op = "assign", !.user = u, !.role = r, !.users = {u}]
    <2>1. "assign" \in Ops
      BY DEF Ops
    <2>2. j \in Jobs /\ j.user = u /\ j.role = r /\ j.users = {u}
      BY <1>0, <2>1 DEF Jobs
    <2>3. Request(h, j, "check") /\ UNCHANGED <<tables, cache, marks>>
      BY <1>2 DEF AssignUserRole
    <2> HIDE DEF j
    <2>4. JobFits("check", j)
      BY <2>2 DEF JobFits, SyncSteps
    <2>5. "check" \in Steps \ WorkSteps
      BY DEF Steps, WorkSteps, SyncSteps
    <2> QED
      BY <2>2, <2>3, <2>4, <2>5, RequestInv
  <1>3. ASSUME NEW u \in Ids, NEW r \in RoleNames, RemoveUserRole(h, u, r)
        PROVE  Inv'
    <2> DEFINE j == [NoJob EXCEPT !.op = "remove", !.user = u, !.role = r, !.users = {u}]
               step == IF r = "ADMIN" THEN "count" ELSE "delete"
    <2>1. "remove" \in Ops /\ step \in {"count", "delete"}
      BY DEF Ops
    <2>2. j \in Jobs /\ j.user = u /\ j.role = r /\ j.users = {u}
      BY <1>0, <2>1 DEF Jobs
    <2>3. Request(h, j, step) /\ UNCHANGED <<tables, cache, marks>>
      BY <1>3 DEF RemoveUserRole
    <2> HIDE DEF j, step
    <2>4. JobFits(step, j)
      BY <2>1, <2>2 DEF JobFits, SyncSteps
    <2>5. step \in Steps \ WorkSteps
      BY <2>1 DEF Steps, WorkSteps, SyncSteps
    <2> QED
      BY <2>2, <2>3, <2>4, <2>5, RequestInv
  <1>4. ASSUME NEW r \in RoleNames, NEW P \in SUBSET Permissions, UpsertRolePermissions(h, r, P)
        PROVE  Inv'
    <2> DEFINE j == [NoJob EXCEPT !.op = "grant", !.role = r, !.perms = P]
    <2>1. "grant" \in Ops
      BY DEF Ops
    <2>2. j \in Jobs /\ j.role = r
      BY <1>0, <2>1 DEF Jobs
    <2>3. Request(h, j, "grant") /\ UNCHANGED <<tables, cache, marks>>
      BY <1>4 DEF UpsertRolePermissions
    <2> HIDE DEF j
    <2>4. JobFits("grant", j)
      BY <2>2 DEF JobFits, SyncSteps
    <2>5. "grant" \in Steps \ WorkSteps
      BY DEF Steps, WorkSteps, SyncSteps
    <2> QED
      BY <2>2, <2>3, <2>4, <2>5, RequestInv
  <1> QED
    BY <1>1, <1>2, <1>3, <1>4 DEF RoleRequest

LEMMA RoleStepInv ==
  ASSUME Inv, NEW h \in Handlers, RoleStep(h), UNCHANGED sync
  PROVE  Inv'
  <1> DEFINE u == job[h].user
             r == job[h].role
  <1>0. ControlOK /\ RolesOK /\ job[h] \in Jobs /\ JobFits(pc[h], job[h])
    BY DEF Inv, ControlOK
  <1>1. CASE ReadPermissions(h)
    <2> DEFINE j == [job[h] EXCEPT !.perms = Effective(u)]
    <2>1. u \in Ids
      BY <1>0, <1>1 DEF JobFits, ReadPermissions
    <2>2. Effective(u) \in SUBSET Permissions
      BY <1>0, <2>1 DEF Effective, Held, RolesOK
    <2>3. j \in Jobs /\ j.user = u
      BY <1>0, <2>2 DEF Jobs
    <2>4. job' = [job EXCEPT ![h] = j] /\ pc' = [pc EXCEPT ![h] = "fill"]
      BY <1>1 DEF ReadPermissions
    <2> HIDE DEF j
    <2>5. JobFits("fill", j) /\ "fill" \in Steps \ WorkSteps
      BY <2>1, <2>3 DEF JobFits, SyncSteps, WorkSteps, Steps
    <2>6. RolesOK'
      BY <1>0, <1>1 DEF ReadPermissions, RolesOK, tables
    <2> QED
      BY <2>3, <2>4, <2>5, <2>6, MoveInv
  <1>2. CASE FillCache(h)
    <2>1. u \in Ids /\ job[h].perms \in SUBSET Permissions
      BY <1>0, <1>2 DEF JobFits, FillCache, Jobs
    <2>2. cache' \in [Ids -> (SUBSET Permissions) \cup {NoEntry}] /\ outdated' \subseteq Ids
      BY <1>0, <1>2, <2>1 DEF FillCache, RolesOK
    <2>3. Finish(h) /\ UNCHANGED <<tables, owed, overtaken>>
      BY <1>2 DEF FillCache
    <2>4. RolesOK'
      BY <1>0, <2>2, <2>3 DEF RolesOK, Finish, tables
    <2> QED
      BY <2>3, <2>4, FinishInv
  <1>3. CASE CheckRow(h)
    <2>1. pc[h] = "check" /\ UNCHANGED <<tables, cache, marks>>
      BY <1>3 DEF CheckRow
    <2>2. PICK step \in {"invalidate", "create"} : Goto(h, step)
      BY <1>3 DEF CheckRow
    <2>3. RolesOK'
      BY <1>0, <2>1, <2>2, SameRoles DEF Goto
    <2>4. JobFits(step, job[h]) /\ step \in Steps \ WorkSteps
      BY <1>0, <2>1 DEF JobFits, SyncSteps, WorkSteps, Steps
    <2> QED
      BY <2>2, <2>3, <2>4, GotoInv
  <1>4. CASE CreateRow(h)
    <2>1. u \in Ids /\ r \in RoleNames
      BY <1>0, <1>4 DEF JobFits, CreateRow, Jobs
    <2>2. rows' \in [Ids -> [RoleNames -> Nat]]
      BY <1>0, <1>4, <2>1 DEF CreateRow, RolesOK
    <2>3. UNCHANGED <<grants, cache>> /\ Outdates(h, {u}) /\ Goto(h, "invalidate")
      BY <1>4 DEF CreateRow
    <2>4. RolesOK'
      BY <1>0, <2>1, <2>2, <2>3, OutdatesTypes DEF RolesOK, Goto
    <2>5. JobFits("invalidate", job[h]) /\ "invalidate" \in Steps \ WorkSteps
      BY DEF JobFits, SyncSteps, WorkSteps, Steps
    <2> QED
      BY <2>3, <2>4, <2>5, GotoInv
  <1>5. CASE CountAdmins(h)
    <2>1. RolesOK'
      BY <1>0, <1>5 DEF CountAdmins, RolesOK, Finish, Goto, tables
    <2>2. CASE Finish(h)
      BY <2>1, <2>2, FinishInv
    <2>3. CASE Goto(h, "delete")
      <3>1. JobFits("delete", job[h]) /\ "delete" \in Steps \ WorkSteps
        BY <1>0, <1>5 DEF CountAdmins, JobFits, SyncSteps, WorkSteps, Steps
      <3> QED
        BY <2>1, <2>3, <3>1, GotoInv
    <2> QED
      BY <1>5, <2>2, <2>3 DEF CountAdmins
  <1>6. CASE DeleteRows(h)
    <2>1. u \in Ids /\ r \in RoleNames
      BY <1>0, <1>6 DEF JobFits, DeleteRows, Jobs
    <2>2. rows' \in [Ids -> [RoleNames -> Nat]]
      BY <1>0, <1>6, <2>1 DEF DeleteRows, RolesOK
    <2>3. UNCHANGED <<grants, cache>> /\ Outdates(h, {u}) /\ Goto(h, "invalidate")
      BY <1>6 DEF DeleteRows
    <2>4. RolesOK'
      BY <1>0, <2>1, <2>2, <2>3, OutdatesTypes DEF RolesOK, Goto
    <2>5. JobFits("invalidate", job[h]) /\ "invalidate" \in Steps \ WorkSteps
      BY DEF JobFits, SyncSteps, WorkSteps, Steps
    <2> QED
      BY <2>3, <2>4, <2>5, GotoInv
  <1>7. CASE ReplaceGrants(h)
    <2>1. r \in RoleNames /\ job[h].perms \in SUBSET Permissions /\ Having(r) \in SUBSET Ids
      BY <1>0, <1>7 DEF JobFits, ReplaceGrants, Jobs, Having
    <2>2. grants' \in [RoleNames -> SUBSET Permissions]
      BY <1>0, <1>7, <2>1 DEF ReplaceGrants, RolesOK
    <2>3. UNCHANGED <<rows, cache>> /\ Outdates(h, Having(r)) /\ Goto(h, "list")
      BY <1>7 DEF ReplaceGrants
    <2>4. RolesOK'
      BY <1>0, <2>1, <2>2, <2>3, OutdatesTypes DEF RolesOK, Goto
    <2>5. JobFits("list", job[h]) /\ "list" \in Steps \ WorkSteps
      BY <2>1 DEF JobFits, SyncSteps, WorkSteps, Steps
    <2> QED
      BY <2>3, <2>4, <2>5, GotoInv
  <1>8. CASE ListUsers(h)
    <2> DEFINE j == [job[h] EXCEPT !.users = Having(r)]
    <2>1. Having(r) \in SUBSET Ids
      BY DEF Having
    <2>2. j \in Jobs
      BY <1>0, <2>1 DEF Jobs
    <2>3. job' = [job EXCEPT ![h] = j] /\ pc' = [pc EXCEPT ![h] = "invalidate"]
      BY <1>8 DEF ListUsers
    <2> HIDE DEF j
    <2>4. JobFits("invalidate", j) /\ "invalidate" \in Steps \ WorkSteps
      BY DEF JobFits, SyncSteps, WorkSteps, Steps
    <2>5. RolesOK'
      BY <1>0, <1>8, <2>1 DEF ListUsers, RolesOK, tables
    <2> QED
      BY <2>2, <2>3, <2>4, <2>5, MoveInv
  <1> QED
    BY <1>1, <1>2, <1>3, <1>4, <1>5, <1>6, <1>7, <1>8 DEF RoleStep

LEMMA WebhookStep ==
  ASSUME Inv, NEW h \in Handlers, CheckAnyRole(h) \/ InvalidateAndReturn(h)
  PROVE  Inv'
  <1>0. ControlOK /\ RolesOK /\ job[h] \in Jobs /\ JobFits(pc[h], job[h])
    BY DEF Inv, ControlOK
  <1>1. CASE CheckAnyRole(h)
    <2>1. pc[h] = "anyRole" /\ UNCHANGED <<tables, cache, marks, sync>>
      BY <1>1 DEF CheckAnyRole
    <2>2. PICK step \in {"check", "record"} : Goto(h, step)
      BY <1>1 DEF CheckAnyRole
    <2>3. RolesOK'
      BY <1>0, <2>1, <2>2, SameRoles DEF Goto
    <2>4. JobFits(step, job[h]) /\ step \in Steps \ WorkSteps
      <3>1. job[h].user \in Ids
        BY <1>0, <2>1 DEF JobFits, Jobs
      <3> QED
        BY <1>0, <2>1, <3>1 DEF JobFits, SyncSteps, WorkSteps, Steps
    <2> QED
      BY <2>1, <2>2, <2>3, <2>4, GotoInv
  <1>2. CASE InvalidateAndReturn(h) /\ job[h].op = "webhook"
    <2>1. Goto(h, "record") /\ UNCHANGED sync /\ DropEntries(h, job[h].users)
      BY <1>2 DEF InvalidateAndReturn
    <2>2. job[h].users \in SUBSET Ids /\ requests' = requests
      BY <1>0, <2>1 DEF Jobs, Goto
    <2>3. RolesOK'
      BY <1>0, <2>1, <2>2, DropTypes
    <2>4. JobFits("record", job[h]) /\ "record" \in Steps \ WorkSteps
      BY <1>0, <1>2 DEF InvalidateAndReturn, JobFits, SyncSteps, WorkSteps, Steps
    <2> QED
      BY <2>1, <2>3, <2>4, GotoInv
  <1>3. CASE InvalidateAndReturn(h) /\ job[h].op # "webhook"
    <2>1. Finish(h) /\ UNCHANGED sync /\ DropEntries(h, job[h].users)
      BY <1>3 DEF InvalidateAndReturn
    <2>2. job[h].users \in SUBSET Ids /\ requests' = requests
      BY <1>0, <2>1 DEF Jobs, Finish
    <2>3. RolesOK'
      BY <1>0, <2>1, <2>2, DropTypes
    <2> QED
      BY <2>1, <2>3, FinishInv
  <1> QED
    BY <1>1, <1>2, <1>3

LEMMA RecordStep ==
  ASSUME Inv, NEW h \in Handlers, RecordWebhook(h)
  PROVE  Inv'
  <1>1. /\ Finish(h) /\ webhooks' = webhooks \ {job[h].user}
        /\ UNCHANGED <<tables, cache, marks, staff, task, log, queue, account, used, metadata,
                       disordered>>
    BY DEF RecordWebhook
  <1>2. /\ ControlOK' /\ pc'[h] = "idle" /\ requests' = requests
        /\ \A g \in Handlers \ {h} : pc'[g] = pc[g] /\ job'[g] = job[g]
    BY <1>1, FinishControl DEF Inv
  <1>3. RunsOK'
    BY <1>1, <1>2, QuietRuns DEF WorkSteps, SyncSteps
  <1>4. RolesOK' /\ StaffOK'
    BY <1>1, <1>2, SameRoles, SameStaff DEF Inv
  <1>5. DirectoryOK'
    BY <1>1 DEF Inv, DirectoryOK
  <1> QED
    BY <1>2, <1>3, <1>4, <1>5 DEF Inv, RunsOK

LEMMA ReceiveStep ==
  ASSUME Inv, NEW h \in Handlers, NEW u \in Ids, ReceiveWebhook(h, u)
  PROVE  Inv'
  <1> DEFINE j == [NoJob EXCEPT !.op = "webhook", !.user = u, !.role = "CUSTOMER",
                                !.users = {u}]
  <1>1. "webhook" \in Ops /\ "CUSTOMER" \in RoleNames /\ NoJob \in Jobs
    BY ClerkAssumption, NoJobFits DEF Ops
  <1>2. j \in Jobs /\ j.user = u /\ j.role = "CUSTOMER" /\ j.users = {u}
    BY <1>1 DEF Jobs
  <1>3. Begin(h, j, "anyRole") /\ UNCHANGED <<tables, cache, requests, marks, sync>>
    BY DEF ReceiveWebhook
  <1> HIDE DEF j
  <1>4. JobFits("anyRole", j) /\ "anyRole" \in Steps \ WorkSteps
    BY <1>1, <1>2 DEF JobFits, SyncSteps, WorkSteps, Steps
  <1>5. RolesOK'
    BY <1>3, SameRoles DEF Inv
  <1> QED
    BY <1>2, <1>3, <1>4, <1>5, MoveInv DEF Begin

LEMMA StopStep ==
  ASSUME Inv, NEW h \in Handlers, Stop(h), UNCHANGED sync
  PROVE  Inv'
  <1>1. Finish(h) /\ Disown(h) /\ UNCHANGED <<tables, cache, requests>>
    BY DEF Stop, Finish
  <1>2. RolesOK'
    BY <1>1, DisownTypes DEF Inv
  <1> QED
    BY <1>1, <1>2, FinishInv

LEMMA ExpireStep ==
  ASSUME Inv, NEW u \in Ids, ExpireEntry(u), UNCHANGED sync
  PROVE  Inv'
  <1>1. RolesOK'
    BY DEF Inv, RolesOK, ExpireEntry, tables, control
  <1>2. UNCHANGED <<pc, job, staff, task, log, queue, directory, disordered>>
    BY DEF ExpireEntry, control, sync
  <1>3. StaffOK' /\ DirectoryOK'
    BY <1>2, SameStaff, SameDirectory DEF Inv, DirectoryOK
  <1> QED
    BY <1>1, <1>2, <1>3, SameRuns DEF Inv, RunsOK

-----------------------------------------------------------------------------
(* The staff and the clock.                                                *)

LEMMA SaveStep ==
  ASSUME Inv, NEW e \in Emails, NEW p \in Positions \cup {Gone}, SaveStaff(e, p)
  PROVE  Inv'
  <1> DEFINE k == Key(e, p)
  <1>0. /\ ControlOK /\ RolesOK /\ DirectoryOK /\ StaffOK /\ TaskOK /\ QueueOK /\ WorkOK
        /\ OneRunPerTask
    BY DEF Inv
  <1>1. k \in Keys /\ k.email = e
    BY ClerkAssumption DEF Key, Keys
  <1>2. /\ requests < MaxRequests /\ requests' = requests + 1
        /\ staff' = [staff EXCEPT ![e] = p] /\ Enqueue(k)
        /\ UNCHANGED <<tables, cache, pc, job, marks, directory>>
    BY DEF SaveStaff
  <1> HIDE DEF k
  <1>3. ControlOK'
    BY <1>0, <1>2, SameControl
  <1>4. RolesOK'
    <2>1. requests' \in 0 .. MaxRequests
      <3>1. requests \in 0 .. MaxRequests /\ MaxRequests \in Nat
        BY <1>0, RolesAssumption DEF RolesOK
      <3> QED
        BY <1>2, <3>1
    <2> QED
      BY <1>0, <1>2, <2>1 DEF RolesOK, tables, marks
  <1>5. staff' \in [Emails -> Positions \cup {Gone}]
    BY <1>0, <1>2 DEF StaffOK
  <1>6. CASE Open(k)
    <2>1. UNCHANGED <<task, log, queue>> /\ disordered' \subseteq disordered \cup {e}
      BY <1>1, <1>2, <1>6 DEF Enqueue
    <2>2. RunsOK'
      BY <1>2, <2>1, SameRuns
    <2>3. StaffOK' /\ DirectoryOK'
      BY <1>0, <1>2, <1>5, <2>1, SameDirectory DEF StaffOK, DirectoryOK
    <2> QED
      BY <1>3, <1>4, <2>2, <2>3 DEF Inv, RunsOK
  <1>7. CASE ~Open(k)
    <2> DEFINE t == Row("PENDING")
    <2>1. /\ task[k].status = "none" /\ task' = [task EXCEPT ![k] = t]
          /\ log' = Append(log, k) /\ queue' = Append(queue, k)
          /\ disordered' = disordered \ {k.email}
      BY <1>2, <1>7 DEF Enqueue
    <2>2. t \in Tasks /\ t.status = "PENDING" /\ t.attempts = 0
      <3>1. NoTask \in Tasks /\ NoTask.attempts = 0
        BY ClerkAssumption DEF NoTask, Tasks
      <3> QED
        BY <3>1 DEF Row, Tasks
    <2> HIDE DEF t
    <2>3. TaskFits(t)
      BY <2>2 DEF TaskFits
    <2>4. TaskOK' /\ task'[k] = t /\ \A l \in Keys \ {k} : task'[l] = task[l]
      BY <1>0, <1>1, <2>1, <2>2, <2>3, TaskStep
    <2>5. \A i \in 1 .. Len(queue) : queue[i] # k /\ task'[queue[i]] = task[queue[i]]
      BY <1>0, <2>1, <2>4 DEF QueueOK
    <2>6. QueueOK'
      BY <1>0, <1>1, <2>1, <2>2, <2>4, <2>5, LongerQueue
    <2>7. \A g \in Handlers : Working(g) => task'[Current(g)].status = "PROCESSING"
      <3>1. ASSUME NEW g \in Handlers, Working(g)
            PROVE  task'[Current(g)].status = "PROCESSING"
        <4>1. task[Current(g)].status = "PROCESSING" /\ Current(g) \in Keys
          BY <1>0, <3>1, WorkingIsKey DEF WorkOK
        <4>2. Current(g) # k
          BY <2>1, <4>1
        <4> QED
          BY <2>4, <4>1, <4>2
      <3> QED
        BY <3>1
    <2>8. WorkOK' /\ OneRunPerTask'
      BY <1>0, <1>2, <2>7 DEF WorkOK, OneRunPerTask, Working, Current
    <2>9. StaffOK'
      BY <1>0, <1>1, <1>5, <2>1, AppendProperties DEF StaffOK
    <2>10. DirectoryOK'
      BY <1>0, <1>2, <2>1, SameDirectory DEF DirectoryOK
    <2> QED
      BY <1>3, <1>4, <2>4, <2>6, <2>8, <2>9, <2>10 DEF Inv
  <1> QED
    BY <1>6, <1>7

LEMMA RegisterStep ==
  ASSUME Inv, NEW e \in Emails, NEW u \in Ids, Register(e, u)
  PROVE  Inv'
  <1>1. /\ requests < MaxRequests /\ requests' = requests + 1
        /\ used' = used \cup {u} /\ account' = [account EXCEPT ![e] = u]
        /\ metadata' = [metadata EXCEPT ![u] = Gone] /\ webhooks' = webhooks \cup {u}
        /\ UNCHANGED <<tables, cache, pc, job, marks, staff, task, log, queue, disordered>>
    BY DEF Register
  <1>2. DirectoryOK'
    BY <1>1 DEF Inv, DirectoryOK
  <1>3. RolesOK'
    <2>1. requests' \in 0 .. MaxRequests
      <3>1. requests \in 0 .. MaxRequests /\ MaxRequests \in Nat
        BY RolesAssumption DEF Inv, RolesOK
      <3> QED
        BY <1>1, <3>1
    <2> QED
      BY <1>1, <2>1 DEF Inv, RolesOK, tables, marks
  <1>4. StaffOK' /\ RunsOK' /\ ControlOK'
    BY <1>1, SameStaff, SameRuns DEF Inv
  <1> QED
    BY <1>2, <1>3, <1>4 DEF Inv, RunsOK

LEMMA DueStep ==
  ASSUME Inv, NEW k \in Keys, BecomeDue(k)
  PROVE  Inv'
  <1>1. /\ task[k].status = "FAILED" /\ ~task[k].dead
        /\ \A i \in 1 .. Len(queue) : queue[i] # k
        /\ queue' = Append(queue, k)
        /\ UNCHANGED <<staff, task, log, directory, disordered>>
    BY DEF BecomeDue
  <1>2. UNCHANGED <<tables, cache, marks, requests, pc, job>>
    BY DEF BecomeDue, roles, control
  <1>3. QueueOK'
    BY <1>1, LongerQueue DEF Inv
  <1>4. ControlOK' /\ RolesOK' /\ StaffOK' /\ DirectoryOK'
    BY <1>1, <1>2, SameControl, SameRoles, SameStaff, SameDirectory DEF Inv, DirectoryOK
  <1>5. TaskOK' /\ WorkOK' /\ OneRunPerTask'
    BY <1>1, <1>2 DEF Inv, TaskOK, WorkOK, OneRunPerTask, Working, Current
  <1> QED
    BY <1>3, <1>4, <1>5 DEF Inv

-----------------------------------------------------------------------------
(* The invariant.                                                          *)

LEMMA SyncStep ==
  ASSUME Inv, NEW h \in Handlers, Proceed(h)
  PROVE  Inv'
  BY LockStep, FindStep, CreateStep, UpdateStep, DeleteStep, PositionRolesStep, ForgetStep,
     SucceedStep, WebhookStep, RecordStep, RoleStepInv DEF Proceed, Sync, Webhook

LEMMA InvStep == Inv /\ [Next]_vars => Inv'
  <1> SUFFICES ASSUME Inv, [Next]_vars
               PROVE  Inv'
    OBVIOUS
  <1>1. ASSUME NEW h \in Handlers,
               \/ Proceed(h)
               \/ \E retryable \in BOOLEAN : CallFails(h, retryable)
               \/ ProcessDueTasks(h)
               \/ \E u \in Ids : ReceiveWebhook(h, u)
               \/ (RoleRequest(h) \/ Stop(h)) /\ UNCHANGED sync
        PROVE  Inv'
    BY <1>1, SyncStep, CallFailsStep, ProcessStep, ReceiveStep, RoleRequestStep, StopStep
  <1>2. ASSUME NEW e \in Emails, NEW p \in Positions \cup {Gone}, SaveStaff(e, p)
        PROVE  Inv'
    BY <1>2, SaveStep
  <1>3. ASSUME NEW k \in Keys, BecomeDue(k)
        PROVE  Inv'
    BY <1>3, DueStep
  <1>4. ASSUME NEW u \in Ids, ExpireEntry(u), UNCHANGED sync
        PROVE  Inv'
    BY <1>4, ExpireStep
  <1>5. ASSUME NEW e \in Emails, NEW u \in Ids, Register(e, u)
        PROVE  Inv'
    BY <1>5, RegisterStep
  <1>6. ASSUME UNCHANGED vars
        PROVE  Inv'
    <2>1. UNCHANGED <<tables, cache, control, marks, staff, task, log, queue, directory, disordered>>
      BY <1>6 DEF vars, roles, sync
    <2>2. UNCHANGED <<pc, job, requests>>
      BY <2>1 DEF control
    <2>3. ControlOK' /\ RolesOK' /\ StaffOK' /\ DirectoryOK'
      BY <2>1, <2>2, SameControl, SameRoles, SameStaff, SameDirectory DEF Inv, DirectoryOK
    <2> QED
      BY <2>1, <2>2, <2>3, SameRuns DEF Inv, RunsOK
  <1> QED
    BY <1>1, <1>2, <1>3, <1>4, <1>5, <1>6 DEF Next

LEMMA InvInit == Init => Inv
  <1> SUFFICES ASSUME Init
               PROVE  Inv
    OBVIOUS
  <1>1. /\ RolesInit
        /\ staff \in [Emails -> Positions \cup {Gone}]
        /\ account \in [Emails -> Ids \cup {NoId}]
        /\ metadata = [u \in Ids |-> IF \E e \in Emails : account[e] = u
                                     THEN staff[CHOOSE e \in Emails : account[e] = u] ELSE Gone]
        /\ log = <<>> /\ queue = <<>> /\ webhooks = {} /\ disordered = {}
    BY DEF Init
  <1>2. PICK boss \in Ids, n \in 1 .. 2 :
          /\ rows = [u \in Ids |-> [r \in RoleNames |->
                       IF u = boss /\ r = "ADMIN" THEN n
                       ELSE IF \/ r = metadata[u]
                               \/ r = "CUSTOMER"
                                  /\ \E e \in Emails : account[e] = u /\ staff[e] = Gone
                            THEN 1 ELSE 0]]
          /\ used = {boss} \cup ({account[e] : e \in Emails} \ {NoId})
    BY Zenon DEF Init
  <1>3. ControlOK
    BY <1>1, NoJobFits DEF RolesInit, ControlOK, Steps
  <1>4. rows \in [Ids -> [RoleNames -> Nat]]
    BY <1>2
  <1>5. RolesOK
    <2>1. grants \in [RoleNames -> SUBSET Permissions]
      BY <1>1 DEF RolesInit
    <2>2. cache \in [Ids -> (SUBSET Permissions) \cup {NoEntry}]
      BY <1>1 DEF RolesInit
    <2>3. requests \in 0 .. MaxRequests
      <3>1. requests = 0
        BY <1>1, Zenon DEF RolesInit
      <3>2. MaxRequests \in Nat
        BY RolesAssumption
      <3> QED
        BY <3>1, <3>2
    <2>4. owed \in [Handlers -> SUBSET Ids] /\ overtaken = {} /\ outdated = {}
      BY <1>1 DEF RolesInit
    <2> QED
      BY <1>4, <2>1, <2>2, <2>3, <2>4 DEF RolesOK
  <1>6. DirectoryOK
    <2>1. ASSUME NEW u \in Ids
          PROVE  metadata[u] \in Positions \cup {Gone}
      <3>1. CASE \E e \in Emails : account[e] = u
        <4>1. (CHOOSE e \in Emails : account[e] = u) \in Emails
          BY <3>1
        <4> QED
          BY <1>1, <3>1, <4>1
      <3>2. CASE ~\E e \in Emails : account[e] = u
        BY <1>1, <3>2
      <3> QED
        BY <3>1, <3>2
    <2>2. metadata \in [Ids -> Positions \cup {Gone}]
      BY <1>1, <2>1
    <2>3. used \subseteq Ids /\ account \in [Emails -> used \cup {NoId}]
      BY <1>1, <1>2
    <2> QED
      BY <1>1, <2>2, <2>3 DEF DirectoryOK
  <1>7. TaskOK
    <2>1. NoTask \in Tasks /\ NoTask.status = "none"
      BY ClerkAssumption DEF NoTask, Tasks
    <2>2. Row("SUCCEEDED") \in Tasks /\ Row("SUCCEEDED").status = "SUCCEEDED"
      BY <2>1 DEF Row, Tasks
    <2> DEFINE done == Row("SUCCEEDED")
    <2>3. task = [k \in Keys |-> IF k.position = staff[k.email] /\ k.position # Gone
                                 THEN done ELSE NoTask]
      BY Zenon DEF Init
    <2> HIDE DEF done
    <2>4. task \in [Keys -> Tasks] /\ \A k \in Keys : task[k] \in {done, NoTask}
      BY <2>1, <2>2, <2>3 DEF done
    <2>5. TaskFits(done) /\ TaskFits(NoTask)
      BY <2>1, <2>2 DEF TaskFits, done
    <2> QED
      BY <2>4, <2>5 DEF TaskOK
  <1>8. QueueOK /\ StaffOK
    BY <1>1, EmptySeq DEF QueueOK, StaffOK
  <1>9. WorkOK /\ OneRunPerTask
    BY <1>1 DEF RolesInit, WorkOK, OneRunPerTask, Working
  <1> QED
    BY <1>3, <1>5, <1>6, <1>7, <1>8, <1>9 DEF Inv

LEMMA SpecInv == Spec => []Inv
  <1> QED
    BY InvInit, InvStep, PTL DEF Spec

\* Every variable keeps its type, a task has no more attempts than it may, and
\* what is due is open (clerk-sync.service.ts:162).
THEOREM TypeCorrect == Spec => []TypeOK
  BY SpecInv, InvTypes, PTL

\* The conditional update of a task (clerk-sync.service.ts:177) gives it to one
\* run: whatever two runs do, on one replica or two, a task in work is
\* PROCESSING and no other run has it.
THEOREM OneRunCorrect == Spec => []OneRunPerTask
  <1>1. Inv => OneRunPerTask
    BY DEF Inv
  <1> QED
    BY <1>1, SpecInv, PTL

-----------------------------------------------------------------------------
(* Cached permissions and the last administrator.                          *)

Owing == {"invalidate", "list", "forget"}

\* A handler owes the deletion of entries until its last await, and its job
\* names the users.
OwedOK == \A h \in Handlers :
  /\ owed[h] # {} => pc[h] \in Owing
  /\ pc[h] \in {"invalidate", "forget"} => owed[h] \subseteq job[h].users

\* What was read and not overtaken is what the tables say.
ReadOK == \A h \in Handlers :
  (pc[h] = "fill" /\ h \notin overtaken) => job[h].perms = Effective(job[h].user)

\* Handler h will delete the entry of u: if it has still to list the users of a
\* role, u is one of them.
Owes(h, u) == u \in owed[h] /\ (pc[h] = "list" => u \in Having(job[h].role))

FreshOK == \A u \in Ids :
  \/ cache[u] \in {NoEntry, Effective(u)}
  \/ u \in outdated
  \/ \E h \in Handlers : Owes(h, u)

\* Who is about to remove an ADMIN has counted the others.
CountOK == \A h \in Handlers :
  (pc[h] = "delete" /\ job[h].role = "ADMIN" /\ h \notin overtaken)
    => ~OnlyAdminRow(job[h].user)

FreshInv == OwedOK /\ ReadOK /\ FreshOK /\ CountOK

LEMMA FreshIsFresh == FreshInv => PermissionsAreFresh
  BY DEF FreshInv, FreshOK, Owes, PermissionsAreFresh

\* The step is one of handler h.
Moves(h) == \A g \in Handlers \ {h} : pc'[g] = pc[g] /\ job'[g] = job[g]

LEMMA SamePermissions ==
  ASSUME NEW u \in Ids, rows'[u] = rows[u],
         \A r \in RoleNames : rows[u][r] > 0 => grants'[r] = grants[r]
  PROVE  Effective(u)' = Effective(u)
  <1>1. Held(u)' = Held(u)
    BY DEF Held
  <1>2. \A r \in Held(u) : grants'[r] = grants[r]
    BY DEF Held
  <1> QED
    BY <1>1, <1>2 DEF Effective

LEMMA SameTables ==
  ASSUME UNCHANGED <<rows, grants>>
  PROVE  /\ \A u \in Ids : Effective(u)' = Effective(u)
         /\ \A r \in RoleNames : Having(r)' = Having(r)
         /\ \A u \in Ids : OnlyAdminRow(u)' = OnlyAdminRow(u)
  BY DEF Effective, Held, Having, OnlyAdminRow

\* The users of a handler that reads, or counts, are users.
LEMMA UserOfJob ==
  ASSUME Inv, NEW h \in Handlers
  PROVE  /\ pc[h] \in {"read", "fill", "check", "create", "count", "delete", "role"}
              => job[h].user \in Ids
         /\ pc[h] \in {"create", "delete", "role"} => job[h].user \in job[h].users
         /\ pc[h] \in {"create", "delete", "grant", "list"} => job[h].role \in RoleNames
         /\ job[h].users \subseteq Ids
  <1>1. job[h] \in Jobs /\ JobFits(pc[h], job[h])
    BY DEF Inv, ControlOK
  <1>2. job[h].users \subseteq Ids
    BY <1>1 DEF Jobs
  <1> QED
    BY <1>1, <1>2 DEF JobFits

\* A handler that owes nothing moves on and changes no table.
LEMMA QuietFresh ==
  ASSUME Inv, FreshInv, NEW h \in Handlers, pc[h] \notin Owing, Moves(h),
         UNCHANGED <<rows, grants, cache, owed, outdated>>, overtaken \ {h} \subseteq overtaken',
         pc'[h] = "fill" => job'[h].perms = Effective(job[h].user)',
         (pc'[h] = "delete" /\ job'[h].role = "ADMIN") => ~OnlyAdminRow(job[h].user)'
  PROVE  FreshInv'
  <1>0. OwedOK /\ ReadOK /\ FreshOK /\ CountOK /\ owed[h] = {}
    BY DEF FreshInv, OwedOK
  <1>1. OwedOK'
    BY <1>0 DEF OwedOK, Moves
  <1>2. ReadOK'
    <2>1. ASSUME NEW g \in Handlers \ {h}, pc'[g] = "fill", g \notin overtaken'
          PROVE  job'[g].perms = Effective(job[g].user)'
      <3>1. pc[g] = "fill" /\ job'[g] = job[g] /\ g \notin overtaken
        BY <2>1 DEF Moves
      <3> QED
        BY <1>0, <3>1, SameTables, UserOfJob DEF ReadOK
    <2> QED
      BY <2>1 DEF ReadOK
  <1>3. FreshOK'
    <2>1. ASSUME NEW u \in Ids, NEW g \in Handlers, Owes(g, u)
          PROVE  Owes(g, u)'
      <3>1. g # h /\ pc'[g] = pc[g] /\ job'[g] = job[g]
        BY <1>0, <2>1 DEF Owes, Moves
      <3> QED
        BY <2>1, <3>1 DEF Owes, Having
    <2> QED
      BY <1>0, <2>1, SameTables DEF FreshOK
  <1>4. CountOK'
    <2>1. ASSUME NEW g \in Handlers \ {h}, pc'[g] = "delete", job'[g].role = "ADMIN",
                 g \notin overtaken'
          PROVE  ~OnlyAdminRow(job[g].user)'
      <3>1. pc[g] = "delete" /\ job'[g] = job[g] /\ g \notin overtaken
        BY <2>1 DEF Moves
      <3> QED
        BY <1>0, <2>1, <3>1, SameTables, UserOfJob DEF CountOK
    <2> QED
      BY <2>1 DEF CountOK
  <1> QED
    BY <1>1, <1>2, <1>3, <1>4 DEF FreshInv

LEMMA SameFresh ==
  ASSUME FreshInv, UNCHANGED <<rows, grants, cache, owed, outdated, overtaken, pc, job>>
  PROVE  FreshInv'
  BY DEF FreshInv, OwedOK, ReadOK, FreshOK, CountOK, Owes, Having, Held, Effective, OnlyAdminRow

\* The rows of one user change, and the handler owes the deletion of the entry.
LEMMA RowsFresh ==
  ASSUME Inv, FreshInv, NEW h \in Handlers, pc[h] \notin Owing, Moves(h),
         pc'[h] \in {"invalidate", "forget"}, job'[h] = job[h],
         NEW u \in Ids, u \in job[h].users, Outdates(h, {u}),
         \A v \in Ids \ {u} : rows'[v] = rows[v],
         UNCHANGED <<grants, cache>>
  PROVE  FreshInv'
  <1>0. OwedOK /\ ReadOK /\ FreshOK /\ CountOK /\ owed[h] = {}
    BY DEF FreshInv, OwedOK
  <1>1. /\ owed'[h] = {u} /\ \A g \in Handlers \ {h} : owed'[g] = owed[g]
        /\ outdated' = outdated
    BY OutdatesTypes DEF Inv, Outdates
  <1>2. \A v \in Ids \ {u} : Effective(v)' = Effective(v)
    BY SamePermissions
  <1>3. \A g \in Handlers : g \notin overtaken' => g \notin overtaken
    BY DEF Outdates
  <1>4. OwedOK'
    <2>1. ASSUME NEW g \in Handlers \ {h}
          PROVE  /\ owed'[g] # {} => pc'[g] \in Owing
                 /\ pc'[g] \in {"invalidate", "forget"} => owed'[g] \subseteq job'[g].users
      BY <1>0, <1>1 DEF OwedOK, Moves
    <2>2. owed'[h] \subseteq job'[h].users /\ pc'[h] \in Owing
      BY <1>1 DEF Owing
    <2> QED
      BY <2>1, <2>2 DEF OwedOK
  <1>5. ReadOK'
    <2>1. ASSUME NEW g \in Handlers, pc'[g] = "fill", g \notin overtaken'
          PROVE  job'[g].perms = Effective(job[g].user)'
      <3>1. g # h
        BY <2>1
      <3>2. pc[g] = "fill" /\ job'[g] = job[g] /\ g \notin overtaken
        BY <1>3, <2>1, <3>1 DEF Moves
      <3>3. job[g].user # u
        BY <2>1, <3>2 DEF Outdates
      <3> QED
        BY <1>0, <1>2, <3>2, <3>3, UserOfJob DEF ReadOK
    <2> QED
      BY <2>1 DEF ReadOK
  <1>6. FreshOK'
    <2>1. Owes(h, u)'
      BY <1>1 DEF Owes
    <2>2. ASSUME NEW v \in Ids \ {u}, NEW g \in Handlers, Owes(g, v)
          PROVE  Owes(g, v)'
      <3>1. g # h /\ pc'[g] = pc[g] /\ job'[g] = job[g] /\ owed'[g] = owed[g]
        BY <1>0, <1>1, <2>2 DEF Owes, Moves
      <3>2. pc[g] = "list" => rows'[v][job[g].role] > 0
        BY <2>2 DEF Owes, Having
      <3> QED
        BY <2>2, <3>1, <3>2 DEF Owes, Having
    <2>3. ASSUME NEW v \in Ids \ {u}
          PROVE  \/ cache'[v] \in {NoEntry, Effective(v)'}
                 \/ v \in outdated'
                 \/ \E g \in Handlers : Owes(g, v)'
      BY <1>0, <1>1, <1>2, <2>2 DEF FreshOK
    <2> QED
      BY <2>1, <2>3 DEF FreshOK
  <1>7. CountOK'
    <2>1. ASSUME NEW g \in Handlers, pc'[g] = "delete", job'[g].role = "ADMIN",
                 g \notin overtaken'
          PROVE  ~OnlyAdminRow(job[g].user)'
      <3>1. g # h
        BY <2>1
      <3>2. pc[g] = "delete" /\ job'[g] = job[g] /\ g \notin overtaken
        BY <1>3, <2>1, <3>1 DEF Moves
      <3>3. ~AdminsChange
        BY <2>1, <3>1, <3>2 DEF Outdates
      <3>4. \A v \in Ids : rows'[v]["ADMIN"] = rows[v]["ADMIN"]
        BY <3>3 DEF AdminsChange
      <3>5. Having("ADMIN")' = Having("ADMIN")
        BY <3>4 DEF Having
      <3>6. job[g].user \in Ids
        BY <3>2, UserOfJob
      <3>7. ~OnlyAdminRow(job[g].user)
        BY <1>0, <2>1, <3>2 DEF CountOK
      <3> QED
        BY <3>2, <3>4, <3>5, <3>6, <3>7 DEF OnlyAdminRow
    <2> QED
      BY <2>1 DEF CountOK
  <1> QED
    BY <1>4, <1>5, <1>6, <1>7 DEF FreshInv

LEMMA GrantsFresh ==
  ASSUME Inv, FreshInv, NEW h \in Handlers, ReplaceGrants(h)
  PROVE  FreshInv'
  <1> DEFINE r == job[h].role
  <1>0. /\ OwedOK /\ ReadOK /\ FreshOK /\ CountOK /\ ControlOK /\ RolesOK
        /\ pc[h] = "grant" /\ r \in RoleNames
    BY UserOfJob DEF FreshInv, Inv, ReplaceGrants
  <1>1. owed[h] = {}
    BY <1>0 DEF OwedOK, Owing
  <1>2. /\ grants' = [grants EXCEPT ![r] = job[h].perms] /\ UNCHANGED <<rows, cache>>
        /\ Outdates(h, Having(r)) /\ pc' = [pc EXCEPT ![h] = "list"] /\ job' = job
    BY DEF ReplaceGrants, Goto
  <1>3. pc'[h] = "list" /\ \A g \in Handlers \ {h} : pc'[g] = pc[g]
    BY <1>0, <1>2 DEF ControlOK
  <1>4. /\ owed'[h] = Having(r) /\ \A g \in Handlers \ {h} : owed'[g] = owed[g]
        /\ outdated' = outdated
    <2>1. Having(r) \in SUBSET Ids
      BY DEF Having
    <2>2. owed'[h] = Having(r) /\ \A g \in Handlers \ {h} : owed'[g] = owed[g]
      BY <1>0, <1>2, <2>1, OutdatesTypes
    <2>3. outdated' = outdated
      BY <1>2 DEF Outdates
    <2> QED
      BY <2>2, <2>3
  <1>5. \A s \in RoleNames : Having(s)' = Having(s)
    BY <1>2 DEF Having
  <1>6. ASSUME NEW u \in Ids, u \notin Having(r)
        PROVE  Effective(u)' = Effective(u)
    <2>1. rows[u] \in [RoleNames -> Nat] /\ ~(rows[u][r] > 0)
      BY <1>0, <1>6 DEF Having, RolesOK
    <2>2. \A s \in RoleNames : rows[u][s] > 0 => grants'[s] = grants[s]
      BY <1>0, <1>2, <2>1 DEF RolesOK
    <2> QED
      BY <1>2, <2>2, SamePermissions
  <1>7. OwedOK'
    <2>1. ASSUME NEW g \in Handlers \ {h}
          PROVE  /\ owed'[g] # {} => pc'[g] \in Owing
                 /\ pc'[g] \in {"invalidate", "forget"} => owed'[g] \subseteq job'[g].users
      BY <1>0, <1>2, <1>3, <1>4 DEF OwedOK
    <2> QED
      BY <1>3, <2>1 DEF OwedOK, Owing
  <1>8. ReadOK'
    <2>1. ASSUME NEW g \in Handlers, pc'[g] = "fill", g \notin overtaken'
          PROVE  job'[g].perms = Effective(job[g].user)'
      <3>1. pc[g] = "fill" /\ job'[g] = job[g]
        BY <1>2, <1>3, <2>1
      <3>2. g \notin overtaken /\ job[g].user \notin Having(r)
        BY <1>2, <2>1, <3>1 DEF Outdates
      <3> QED
        BY <1>0, <1>6, <3>1, <3>2, UserOfJob DEF ReadOK
    <2> QED
      BY <2>1 DEF ReadOK
  <1>9. FreshOK'
    <2>1. ASSUME NEW u \in Having(r)
          PROVE  Owes(h, u)'
      BY <1>0, <1>2, <1>4, <1>5 DEF Owes
    <2>2. ASSUME NEW u \in Ids, NEW g \in Handlers, Owes(g, u)
          PROVE  Owes(g, u)'
      <3>1. g # h /\ pc'[g] = pc[g] /\ job'[g] = job[g] /\ owed'[g] = owed[g]
        BY <1>1, <1>2, <1>3, <1>4, <2>2 DEF Owes
      <3> QED
        BY <1>2, <2>2, <3>1 DEF Owes, Having
    <2>3. ASSUME NEW u \in Ids, u \notin Having(r)
          PROVE  \/ cache'[u] \in {NoEntry, Effective(u)'}
                 \/ u \in outdated'
                 \/ \E g \in Handlers : Owes(g, u)'
      BY <1>0, <1>2, <1>4, <1>6, <2>2, <2>3 DEF FreshOK
    <2> QED
      BY <2>1, <2>3 DEF FreshOK
  <1>10. CountOK'
    <2>1. ASSUME NEW g \in Handlers, pc'[g] = "delete", job'[g].role = "ADMIN",
                 g \notin overtaken'
          PROVE  ~OnlyAdminRow(job[g].user)'
      <3>1. pc[g] = "delete" /\ job'[g] = job[g]
        BY <1>2, <1>3, <2>1
      <3>2. g \notin overtaken
        BY <1>2, <2>1 DEF Outdates
      <3> QED
        BY <1>0, <1>2, <2>1, <3>1, <3>2, UserOfJob DEF CountOK, OnlyAdminRow, Having
    <2> QED
      BY <2>1 DEF CountOK
  <1> QED
    BY <1>7, <1>8, <1>9, <1>10 DEF FreshInv

\* The tables, the entries and the marks of others stay; what the handler owed to
\* a user, it owes still, or the entry is gone, or noted as outdated.
LEMMA PaidFresh ==
  ASSUME Inv, FreshInv, NEW h \in Handlers, Moves(h), UNCHANGED <<rows, grants, overtaken>>,
         \A g \in Handlers \ {h} : owed'[g] = owed[g],
         owed'[h] # {} => pc'[h] \in {"invalidate"} /\ owed'[h] \subseteq job'[h].users,
         pc'[h] \notin {"fill", "delete"},
         \A u \in Ids : \/ cache'[u] = NoEntry
                        \/ u \in outdated'
                        \/ cache'[u] = Effective(u)
                        \/ /\ cache'[u] = cache[u] /\ u \notin outdated
                           /\ Owes(h, u) => u \in owed'[h]
  PROVE  FreshInv'
  <1>0. OwedOK /\ ReadOK /\ FreshOK /\ CountOK
    BY DEF FreshInv
  <1>1. OwedOK'
    <2>1. ASSUME NEW g \in Handlers \ {h}
          PROVE  /\ owed'[g] # {} => pc'[g] \in Owing
                 /\ pc'[g] \in {"invalidate", "forget"} => owed'[g] \subseteq job'[g].users
      BY <1>0 DEF OwedOK, Moves
    <2>2. owed'[h] # {} => pc'[h] \in Owing
      BY DEF Owing
    <2> QED
      BY <2>1, <2>2 DEF OwedOK
  <1>2. ReadOK'
    <2>1. ASSUME NEW g \in Handlers, pc'[g] = "fill", g \notin overtaken'
          PROVE  job'[g].perms = Effective(job[g].user)'
      <3>1. pc[g] = "fill" /\ job'[g] = job[g] /\ g \notin overtaken
        BY <2>1 DEF Moves
      <3> QED
        BY <1>0, <3>1, SameTables, UserOfJob DEF ReadOK
    <2> QED
      BY <2>1 DEF ReadOK
  <1>3. FreshOK'
    <2>1. ASSUME NEW u \in Ids, NEW g \in Handlers \ {h}, Owes(g, u)
          PROVE  Owes(g, u)'
      <3>1. pc'[g] = pc[g] /\ job'[g] = job[g] /\ owed'[g] = owed[g]
        BY DEF Moves
      <3> QED
        BY <2>1, <3>1 DEF Owes, Having
    <2>2. ASSUME NEW u \in Ids, u \in owed'[h]
          PROVE  Owes(h, u)'
      BY <2>2 DEF Owes
    <2> QED
      BY <1>0, <2>1, <2>2, SameTables DEF FreshOK
  <1>4. CountOK'
    <2>1. ASSUME NEW g \in Handlers, pc'[g] = "delete", job'[g].role = "ADMIN",
                 g \notin overtaken'
          PROVE  ~OnlyAdminRow(job[g].user)'
      <3>1. pc[g] = "delete" /\ job'[g] = job[g] /\ g \notin overtaken
        BY <2>1 DEF Moves
      <3> QED
        BY <1>0, <2>1, <3>1, SameTables, UserOfJob DEF CountOK
    <2> QED
      BY <2>1 DEF CountOK
  <1> QED
    BY <1>1, <1>2, <1>3, <1>4 DEF FreshInv

LEMMA MoveMoves ==
  ASSUME Inv, NEW h \in Handlers, NEW step, NEW j,
         pc' = [pc EXCEPT ![h] = step], job' = [job EXCEPT ![h] = j]
  PROVE  Moves(h) /\ pc'[h] = step /\ job'[h] = j
  BY DEF Inv, ControlOK, Moves

LEMMA GotoMoves ==
  ASSUME Inv, NEW h \in Handlers, NEW step, Goto(h, step)
  PROVE  Moves(h) /\ pc'[h] = step /\ job' = job
  BY DEF Inv, ControlOK, Moves, Goto

LEMMA FinishMoves ==
  ASSUME Inv, NEW h \in Handlers, Finish(h)
  PROVE  Moves(h) /\ pc'[h] = "idle"
  BY DEF Inv, ControlOK, Moves, Finish

LEMMA NextMoves ==
  ASSUME Inv, NEW h \in Handlers, pc[h] \in SyncSteps, NextTask(h)
  PROVE  Moves(h) /\ pc'[h] \in {"idle", "lock"}
  BY NextTaskControl DEF Inv, Moves

\* A step of a request, a webhook or a run that touches no role.
LEMMA AsideFresh ==
  ASSUME Inv, FreshInv, NEW h \in Handlers, pc[h] \notin Owing, Moves(h),
         UNCHANGED <<tables, cache, marks>>, pc'[h] \notin {"fill", "delete"}
  PROVE  FreshInv'
  BY QuietFresh DEF tables, marks

LEMMA SyncFresh ==
  ASSUME Inv, FreshInv, NEW h \in Handlers,
         \/ LockTask(h) \/ FindAccount(h) \/ (\E u \in Ids : CreateUser(h, u))
         \/ UpdateUser(h) \/ DeleteUser(h) \/ SucceedTask(h)
  PROVE  FreshInv'
  <1>1. /\ pc[h] \in {"lock", "find", "createUser", "updateUser", "deleteUser", "succeed"}
        /\ UNCHANGED <<tables, cache, marks>>
    BY DEF LockTask, FindAccount, CreateUser, UpdateUser, DeleteUser, SucceedTask
  <1>2. pc[h] \in SyncSteps /\ pc[h] \notin Owing
    BY <1>1 DEF SyncSteps, Owing
  <1>3. ASSUME NextTask(h)
        PROVE  FreshInv'
    <2>1. Moves(h) /\ pc'[h] \in {"idle", "lock"}
      BY <1>2, <1>3, NextMoves
    <2> QED
      BY <1>1, <1>2, <2>1, AsideFresh
  <1>4. ASSUME NEW step \in {"find", "role", "succeed"}, Goto(h, step)
        PROVE  FreshInv'
    <2>1. Moves(h) /\ pc'[h] = step
      BY <1>4, GotoMoves
    <2> QED
      BY <1>1, <1>2, <2>1, AsideFresh
  <1>5. ASSUME NEW step \in {"createUser", "updateUser", "succeed", "deleteUser", "role"}, NEW j,
               pc' = [pc EXCEPT ![h] = step], job' = [job EXCEPT ![h] = j]
        PROVE  FreshInv'
    <2>1. Moves(h) /\ pc'[h] = step
      BY <1>5, MoveMoves
    <2> QED
      BY <1>1, <1>2, <2>1, AsideFresh
  <1>6. ASSUME NEW retryable \in BOOLEAN, FailTask(h, retryable)
        PROVE  FreshInv'
    <2>1. NextTask(h)
      BY <1>6, Zenon DEF FailTask
    <2> QED
      BY <1>3, <2>1
  <1>7. CASE LockTask(h)
    <2>1. NextTask(h) \/ Goto(h, "find")
      BY <1>7 DEF LockTask
    <2> QED
      BY <1>3, <1>4, <2>1
  <1>8. CASE FindAccount(h)
    <2> DEFINE j == [job[h] EXCEPT !.user = account[Current(h).email],
                                   !.users = {account[Current(h).email]} \ {NoId}]
    <2>1. job' = [job EXCEPT ![h] = j]
      BY <1>8 DEF FindAccount
    <2> HIDE DEF j
    <2>2. PICK step \in {"createUser", "updateUser", "succeed", "deleteUser"} :
            pc' = [pc EXCEPT ![h] = step]
      BY <1>8 DEF FindAccount
    <2> QED
      BY <1>5, <2>1, <2>2
  <1>9. ASSUME NEW u \in Ids, CreateUser(h, u)
        PROVE  FreshInv'
    <2> DEFINE j == [job[h] EXCEPT !.user = u, !.users = {u}]
    <2>1. \/ job' = [job EXCEPT ![h] = j] /\ pc' = [pc EXCEPT ![h] = "role"]
          \/ FailTask(h, TRUE)
      BY <1>9 DEF CreateUser
    <2> HIDE DEF j
    <2> QED
      BY <1>5, <1>6, <2>1
  <1>10. ASSUME NEW step \in {"role", "succeed"}, Answer(h, step)
         PROVE  FreshInv'
    BY <1>4, <1>6, <1>10 DEF Answer
  <1>11. CASE UpdateUser(h) \/ DeleteUser(h)
    BY <1>10, <1>11 DEF UpdateUser, DeleteUser
  <1>12. CASE SucceedTask(h)
    BY <1>3, <1>12 DEF SucceedTask
  <1> QED
    BY <1>7, <1>8, <1>9, <1>11, <1>12

LEMMA BeginFresh ==
  ASSUME Inv, FreshInv, NEW h \in Handlers, NEW j, NEW step, Begin(h, j, step),
         UNCHANGED <<tables, cache, marks>>, step \notin {"fill", "delete"}
  PROVE  FreshInv'
  <1>1. Moves(h) /\ pc'[h] = step /\ pc[h] = "idle"
    BY MoveMoves DEF Begin
  <1> QED
    BY <1>1, AsideFresh DEF Owing

LEMMA RequestFresh ==
  ASSUME Inv, FreshInv, NEW h \in Handlers, RoleRequest(h)
  PROVE  FreshInv'
  <1>1. ASSUME NEW u \in Ids, GetPermissions(h, u)
        PROVE  FreshInv'
    BY <1>1, BeginFresh DEF GetPermissions, Request
  <1>2. ASSUME NEW u \in Ids, NEW r \in RoleNames, AssignUserRole(h, u, r)
        PROVE  FreshInv'
    BY <1>2, BeginFresh DEF AssignUserRole, Request
  <1>3. ASSUME NEW r \in RoleNames, NEW P \in SUBSET Permissions, UpsertRolePermissions(h, r, P)
        PROVE  FreshInv'
    BY <1>3, BeginFresh DEF UpsertRolePermissions, Request
  <1>4. ASSUME NEW u \in Ids, NEW r \in RoleNames, RemoveUserRole(h, u, r)
        PROVE  FreshInv'
    <2> DEFINE j == [NoJob EXCEPT !.op = "remove", !.user = u, !.role = r, !.users = {u}]
    <2>1. Begin(h, j, IF r = "ADMIN" THEN "count" ELSE "delete")
          /\ UNCHANGED <<tables, cache, marks>>
      BY <1>4 DEF RemoveUserRole, Request
    <2>2. j.role = r
      BY DEF NoJob
    <2> HIDE DEF j
    <2>3. CASE r = "ADMIN"
      <3>1. Begin(h, j, "count")
        BY <2>1, <2>3
      <3> QED
        BY <2>1, <3>1, BeginFresh
    <2>4. CASE r # "ADMIN"
      <3>1. Moves(h) /\ pc'[h] = "delete" /\ job'[h] = j /\ pc[h] = "idle"
        BY <2>1, <2>4, MoveMoves DEF Begin
      <3> QED
        BY <2>1, <2>2, <2>4, <3>1, QuietFresh DEF tables, marks, Owing
    <2> QED
      BY <2>3, <2>4
  <1> QED
    BY <1>1, <1>2, <1>3, <1>4 DEF RoleRequest

LEMMA ReadFresh ==
  ASSUME Inv, FreshInv, NEW h \in Handlers, ReadPermissions(h)
  PROVE  FreshInv'
  <1> DEFINE j == [job[h] EXCEPT !.perms = Effective(job[h].user)]
  <1>1. job[h] \in Jobs /\ pc[h] = "read" /\ job[h].user \in Ids
    BY UserOfJob DEF Inv, ControlOK, ReadPermissions
  <1>2. j.perms = Effective(job[h].user) /\ j.user = job[h].user
    BY <1>1 DEF Jobs
  <1>3. job' = [job EXCEPT ![h] = j] /\ pc' = [pc EXCEPT ![h] = "fill"]
    BY DEF ReadPermissions
  <1>4. /\ overtaken' = overtaken \ {h}
        /\ UNCHANGED <<rows, grants, cache, owed, outdated>>
    BY DEF ReadPermissions, tables
  <1> HIDE DEF j
  <1>5. Moves(h) /\ pc'[h] = "fill" /\ job'[h] = j
    BY <1>3, MoveMoves
  <1>6. job'[h].perms = Effective(job[h].user)'
    BY <1>1, <1>2, <1>4, <1>5, SameTables
  <1> QED
    BY <1>1, <1>4, <1>5, <1>6, QuietFresh DEF Owing

LEMMA CountFresh ==
  ASSUME Inv, FreshInv, NEW h \in Handlers, CountAdmins(h)
  PROVE  FreshInv'
  <1>1. /\ pc[h] = "count" /\ overtaken' = overtaken \ {h} /\ pc[h] \notin Owing
        /\ UNCHANGED <<rows, grants, cache, owed, outdated>> /\ job[h].user \in Ids
    BY UserOfJob DEF CountAdmins, tables, Owing
  <1>2. CASE OnlyAdminRow(job[h].user) /\ Finish(h)
    <2>1. Moves(h) /\ pc'[h] = "idle"
      BY <1>2, FinishMoves
    <2> QED
      BY <1>1, <2>1, QuietFresh
  <1>3. CASE ~OnlyAdminRow(job[h].user) /\ Goto(h, "delete")
    <2>1. Moves(h) /\ pc'[h] = "delete" /\ job' = job
      BY <1>3, GotoMoves
    <2>2. ~OnlyAdminRow(job[h].user)'
      BY <1>1, <1>3, <2>1, SameTables
    <2> QED
      BY <1>1, <2>1, <2>2, QuietFresh
  <1> QED
    BY <1>2, <1>3 DEF CountAdmins

LEMMA FillFresh ==
  ASSUME Inv, FreshInv, NEW h \in Handlers, FillCache(h)
  PROVE  FreshInv'
  <1> DEFINE u == job[h].user
  <1>1. /\ pc[h] = "fill" /\ u \in Ids /\ cache' = [cache EXCEPT ![u] = job[h].perms]
        /\ outdated' = (IF h \in overtaken THEN outdated \cup {u} ELSE outdated \ {u})
        /\ Finish(h) /\ UNCHANGED <<rows, grants, owed, overtaken>>
    BY UserOfJob DEF FillCache, tables
  <1>2. Moves(h) /\ pc'[h] = "idle"
    BY <1>1, FinishMoves
  <1>3. owed'[h] = {} /\ ~\E v \in Ids : Owes(h, v)
    BY <1>1 DEF FreshInv, OwedOK, Owing, Owes
  <1>4. u \in outdated' \/ cache'[u] = Effective(u)
    <2>1. h \notin overtaken => job[h].perms = Effective(u)
      BY <1>1 DEF FreshInv, ReadOK
    <2> QED
      BY <1>1, <2>1 DEF Inv, RolesOK
  <1>5. ASSUME NEW v \in Ids \ {u}
        PROVE  cache'[v] = cache[v] /\ (v \in outdated' <=> v \in outdated)
    BY <1>1 DEF Inv, RolesOK
  <1> QED
    BY <1>1, <1>2, <1>3, <1>4, <1>5, PaidFresh

LEMMA DropFresh ==
  ASSUME Inv, FreshInv, NEW h \in Handlers, pc[h] \in {"invalidate", "forget"},
         DropEntries(h, job[h].users), Moves(h), pc'[h] \notin {"fill", "delete"}
  PROVE  FreshInv'
  <1> DEFINE S == job[h].users
  <1>1. /\ cache' = [u \in Ids |-> IF u \in S THEN NoEntry ELSE cache[u]]
        /\ outdated' = outdated \ S /\ owed' = [owed EXCEPT ![h] = {}]
        /\ UNCHANGED <<rows, grants, overtaken>>
    BY DEF DropEntries, tables
  <1>2. owed'[h] = {} /\ \A g \in Handlers \ {h} : owed'[g] = owed[g]
    BY <1>1 DEF Inv, RolesOK
  <1>3. owed[h] \subseteq S
    BY DEF FreshInv, OwedOK
  <1>4. ASSUME NEW u \in Ids
        PROVE  \/ cache'[u] = NoEntry
               \/ u \in outdated'
               \/ cache'[u] = cache[u] /\ u \notin outdated /\ ~Owes(h, u)
    BY <1>1, <1>3 DEF Owes
  <1> QED
    BY <1>1, <1>2, <1>4, PaidFresh

LEMMA ListFresh ==
  ASSUME Inv, FreshInv, NEW h \in Handlers, ListUsers(h)
  PROVE  FreshInv'
  <1> DEFINE S == Having(job[h].role)
             j == [job[h] EXCEPT !.users = S]
  <1>1. /\ job' = [job EXCEPT ![h] = j] /\ pc' = [pc EXCEPT ![h] = "invalidate"]
        /\ owed' = [owed EXCEPT ![h] = owed[h] \cap S] /\ pc[h] = "list"
        /\ UNCHANGED <<rows, grants, cache, overtaken, outdated>>
    BY DEF ListUsers, tables
  <1>2. job[h] \in Jobs
    BY DEF Inv, ControlOK
  <1>3. j.users = S
    BY <1>2 DEF Jobs
  <1> HIDE DEF j
  <1>4. Moves(h) /\ pc'[h] = "invalidate" /\ job'[h] = j
    BY <1>1, MoveMoves
  <1>5. owed'[h] = owed[h] \cap S /\ \A g \in Handlers \ {h} : owed'[g] = owed[g]
    BY <1>1 DEF Inv, RolesOK
  <1>6. \A u \in Ids : Owes(h, u) => u \in owed'[h]
    BY <1>1, <1>5 DEF Owes
  <1> QED
    BY <1>1, <1>3, <1>4, <1>5, <1>6, PaidFresh

LEMMA DisownFresh ==
  ASSUME Inv, FreshInv, NEW h \in Handlers, Disown(h), UNCHANGED <<tables, cache>>,
         Moves(h), pc'[h] \in {"idle", "lock"}
  PROVE  FreshInv'
  <1>1. /\ owed' = [owed EXCEPT ![h] = {}]
        /\ outdated' = outdated \cup {u \in owed[h] : cache[u] # NoEntry}
        /\ UNCHANGED <<rows, grants, cache, overtaken>>
    BY DEF Disown, tables
  <1>3. owed'[h] = {} /\ \A g \in Handlers \ {h} : owed'[g] = owed[g]
    BY <1>1 DEF Inv, RolesOK
  <1>4. ASSUME NEW u \in Ids
        PROVE  \/ cache'[u] = NoEntry
               \/ u \in outdated'
               \/ cache'[u] = cache[u] /\ u \notin outdated /\ ~Owes(h, u)
    BY <1>1 DEF Owes
  <1> QED
    BY <1>1, <1>3, <1>4, PaidFresh

LEMMA StopFresh ==
  ASSUME Inv, FreshInv, NEW h \in Handlers, Stop(h)
  PROVE  FreshInv'
  BY FinishMoves, DisownFresh DEF Stop

LEMMA CallFailsFresh ==
  ASSUME Inv, FreshInv, NEW h \in Handlers, NEW retryable \in BOOLEAN,
         CallFails(h, retryable)
  PROVE  FreshInv'
  <1>1. /\ pc[h] \in SyncSteps /\ FailTask(h, retryable) /\ Disown(h)
        /\ UNCHANGED <<tables, cache>>
    BY DEF CallFails, SyncSteps
  <1>2. NextTask(h)
    BY <1>1, Zenon DEF FailTask
  <1>3. Moves(h) /\ pc'[h] \in {"idle", "lock"}
    BY <1>1, <1>2, NextMoves
  <1> QED
    BY <1>1, <1>3, DisownFresh

LEMMA ExpireFresh ==
  ASSUME Inv, FreshInv, NEW u \in Ids, ExpireEntry(u)
  PROVE  FreshInv'
  <1>1. /\ cache' = [cache EXCEPT ![u] = NoEntry] /\ outdated' = outdated \ {u}
        /\ UNCHANGED <<rows, grants, pc, job, owed, overtaken>>
    BY DEF ExpireEntry, tables, control
  <1>2. OwedOK' /\ ReadOK' /\ CountOK'
    BY <1>1 DEF FreshInv, OwedOK, ReadOK, CountOK, Held, Effective, OnlyAdminRow, Having
  <1>3. FreshOK'
    <2>1. \A v \in Ids : /\ Effective(v)' = Effective(v)
                         /\ \A h \in Handlers : Owes(h, v)' = Owes(h, v)
      BY <1>1 DEF Owes, Having, Held, Effective
    <2>2. \A v \in Ids : \/ cache'[v] = NoEntry
                         \/ cache'[v] = cache[v] /\ (v \in outdated => v \in outdated')
      BY <1>1 DEF Inv, RolesOK
    <2> QED
      BY <2>1, <2>2 DEF FreshInv, FreshOK
  <1> QED
    BY <1>2, <1>3 DEF FreshInv

LEMMA RowStepFresh ==
  ASSUME Inv, FreshInv, NEW h \in Handlers,
         CreateRow(h) \/ DeleteRows(h) \/ SyncPositionRole(h)
  PROVE  FreshInv'
  <1> DEFINE u == job[h].user
  <1>1. /\ pc[h] \in {"create", "delete", "role"} /\ u \in Ids /\ u \in job[h].users
        /\ pc[h] \notin Owing
    BY UserOfJob DEF CreateRow, DeleteRows, SyncPositionRole, Owing
  <1>2. \A v \in Ids \ {u} : rows'[v] = rows[v]
    BY RoleOfPosition DEF CreateRow, DeleteRows, Inv, RolesOK
  <1>3. Outdates(h, {u}) /\ UNCHANGED <<grants, cache>>
    BY DEF CreateRow, DeleteRows, SyncPositionRole
  <1>4. Goto(h, "invalidate") \/ Goto(h, "forget")
    BY DEF CreateRow, DeleteRows, SyncPositionRole
  <1>5. Moves(h) /\ pc'[h] \in {"invalidate", "forget"} /\ job'[h] = job[h]
    BY <1>4, GotoMoves
  <1> QED
    BY <1>1, <1>2, <1>3, <1>5, RowsFresh

LEMMA ProceedFresh ==
  ASSUME Inv, FreshInv, NEW h \in Handlers, Proceed(h)
  PROVE  FreshInv'
  <1>1. CASE CheckRow(h) \/ CheckAnyRole(h) \/ RecordWebhook(h)
    <2>1. pc[h] \notin Owing /\ UNCHANGED <<tables, cache, marks>>
      BY <1>1 DEF CheckRow, CheckAnyRole, RecordWebhook, Owing
    <2>2. Finish(h) \/ \E step \in {"invalidate", "create", "check", "record"} : Goto(h, step)
      BY <1>1 DEF CheckRow, CheckAnyRole, RecordWebhook
    <2>3. Moves(h) /\ pc'[h] \in {"idle", "invalidate", "create", "check", "record"}
      BY <2>2, FinishMoves, GotoMoves
    <2> QED
      BY <2>1, <2>3, AsideFresh
  <1>2. CASE ForgetPermissions(h) \/ InvalidateAndReturn(h)
    <2>1. pc[h] \in {"invalidate", "forget"} /\ DropEntries(h, job[h].users)
      BY <1>2 DEF ForgetPermissions, InvalidateAndReturn
    <2>2. Finish(h) \/ \E step \in {"succeed", "record"} : Goto(h, step)
      BY <1>2 DEF ForgetPermissions, InvalidateAndReturn
    <2>3. Moves(h) /\ pc'[h] \in {"idle", "succeed", "record"}
      BY <2>2, FinishMoves, GotoMoves
    <2> QED
      BY <2>1, <2>3, DropFresh
  <1> QED
    BY <1>1, <1>2, SyncFresh, RowStepFresh, ReadFresh, FillFresh, CountFresh, GrantsFresh,
       ListFresh DEF Proceed, Sync, Webhook, RoleStep

LEMMA FreshStep == Inv /\ FreshInv /\ [Next]_vars => FreshInv'
  <1> SUFFICES ASSUME Inv, FreshInv, [Next]_vars
               PROVE  FreshInv'
    OBVIOUS
  <1>1. ASSUME NEW h \in Handlers, ProcessDueTasks(h)
        PROVE  FreshInv'
    BY <1>1, BeginFresh DEF ProcessDueTasks
  <1>2. ASSUME NEW h \in Handlers, NEW u \in Ids, ReceiveWebhook(h, u)
        PROVE  FreshInv'
    BY <1>2, BeginFresh DEF ReceiveWebhook
  <1>3. ASSUME NEW h \in Handlers,
               \/ Proceed(h)
               \/ \E retryable \in BOOLEAN : CallFails(h, retryable)
               \/ ProcessDueTasks(h)
               \/ \E u \in Ids : ReceiveWebhook(h, u)
               \/ (RoleRequest(h) \/ Stop(h)) /\ UNCHANGED sync
        PROVE  FreshInv'
    BY <1>1, <1>2, <1>3, ProceedFresh, CallFailsFresh, RequestFresh, StopFresh
  <1>4. ASSUME NEW e \in Emails, NEW p \in Positions \cup {Gone}, SaveStaff(e, p)
        PROVE  FreshInv'
    BY <1>4, SameFresh DEF SaveStaff, tables, marks
  <1>5. ASSUME NEW k \in Keys, BecomeDue(k)
        PROVE  FreshInv'
    BY <1>5, SameFresh DEF BecomeDue, roles, control, tables, marks
  <1>6. ASSUME NEW e \in Emails, NEW u \in Ids, Register(e, u)
        PROVE  FreshInv'
    BY <1>6, SameFresh DEF Register, tables, marks
  <1>7. CASE UNCHANGED vars
    BY <1>7, SameFresh DEF vars, roles, control, tables, marks
  <1> QED
    BY <1>3, <1>4, <1>5, <1>6, <1>7, ExpireFresh DEF Next

LEMMA FreshInit == Init => FreshInv
  <1> SUFFICES ASSUME Init
               PROVE  FreshInv
    OBVIOUS
  <1>1. /\ cache = [u \in Ids |-> NoEntry] /\ pc = [h \in Handlers |-> "idle"]
        /\ owed = [h \in Handlers |-> {}]
    BY Zenon DEF Init, RolesInit
  <1> QED
    BY <1>1 DEF FreshInv, OwedOK, ReadOK, FreshOK, CountOK

LEMMA SpecFresh == Spec => [](Inv /\ FreshInv)
  <1>1. Init => Inv /\ FreshInv
    BY InvInit, FreshInit
  <1>2. Inv /\ FreshInv /\ [Next]_vars => (Inv /\ FreshInv)'
    BY InvStep, FreshStep
  <1> QED
    BY <1>1, <1>2, PTL DEF Spec

\* Whatever requests, webhooks and runs overlap, a cached entry is up to date
\* unless its deletion is under way, nobody is left to delete it, or it was
\* written by a reader whom a change had overtaken (user.service.ts:52).
THEOREM FreshCorrect == Spec => []PermissionsAreFresh
  BY SpecFresh, FreshIsFresh, PTL

\* The last administrator goes only where the code does not count, or where the
\* count was overtaken, or two rows of one user were counted.
LEMMA AdminStep ==
  ASSUME Inv, FreshInv, NEW h \in Handlers, pc[h] # "role",
         CreateRow(h) \/ DeleteRows(h), Having("ADMIN") # {}, Having("ADMIN")' = {}
  PROVE  pc[h] = "delete" /\ (h \in overtaken \/ rows[job[h].user]["ADMIN"] > 1)
  <1> DEFINE u == job[h].user
             r == job[h].role
  <1>0. /\ rows \in [Ids -> [RoleNames -> Nat]] /\ u \in Ids /\ r \in RoleNames
        /\ "ADMIN" \in RoleNames
    BY UserOfJob, RolesAssumption DEF Inv, RolesOK, CreateRow, DeleteRows
  <1>1. PICK v \in Ids : rows[v]["ADMIN"] > 0
    BY DEF Having
  <1>2. \A w \in Ids : ~(rows'[w]["ADMIN"] > 0)
    BY DEF Having
  <1>3. CASE CreateRow(h)
    <2>1. rows' = [rows EXCEPT ![u][r] = rows[u][r] + 1]
      BY <1>3 DEF CreateRow
    <2>2. rows'[v]["ADMIN"] > 0
      BY <1>0, <1>1, <2>1
    <2> QED
      BY <1>2, <2>2
  <1>4. CASE DeleteRows(h)
    <2>1. rows' = [rows EXCEPT ![u][r] = 0] /\ pc[h] = "delete"
      BY <1>4 DEF DeleteRows
    <2>2. \A w \in Ids : rows[w]["ADMIN"] > 0 => w = u /\ r = "ADMIN"
      BY <1>0, <1>2, <2>1
    <2>3. r = "ADMIN" /\ Having("ADMIN") = {u}
      BY <1>0, <1>1, <2>2 DEF Having
    <2>4. h \in overtaken \/ ~OnlyAdminRow(u)
      BY <2>1, <2>3 DEF FreshInv, CountOK
    <2>5. rows[u]["ADMIN"] \in Nat /\ rows[u]["ADMIN"] > 0
      BY <1>0, <1>1, <2>2
    <2> QED
      BY <2>1, <2>3, <2>4, <2>5 DEF OnlyAdminRow
  <1> QED
    BY <1>3, <1>4

LEMMA OtherRows ==
  ASSUME [Next]_vars, rows' # rows
  PROVE  \E h \in Handlers : CreateRow(h) \/ DeleteRows(h) \/ pc[h] = "role"
  <1>1. ASSUME NEW h \in Handlers,
               \/ LockTask(h) \/ FindAccount(h) \/ (\E u \in Ids : CreateUser(h, u))
               \/ UpdateUser(h) \/ DeleteUser(h) \/ SucceedTask(h) \/ ForgetPermissions(h)
        PROVE  UNCHANGED rows
    BY <1>1 DEF LockTask, FindAccount, CreateUser, UpdateUser, DeleteUser, SucceedTask,
         ForgetPermissions, DropEntries, tables
  <1>2. ASSUME NEW h \in Handlers, Webhook(h) \/ InvalidateAndReturn(h)
        PROVE  UNCHANGED rows
    BY <1>2 DEF Webhook, CheckAnyRole, RecordWebhook, InvalidateAndReturn, DropEntries, tables
  <1>3. ASSUME NEW h \in Handlers, RoleStep(h), ~CreateRow(h), ~DeleteRows(h)
        PROVE  UNCHANGED rows
    BY <1>3 DEF RoleStep, ReadPermissions, FillCache, CheckRow, CountAdmins, ReplaceGrants,
         ListUsers, tables
  <1>4. ASSUME NEW h \in Handlers,
               \/ \E retryable \in BOOLEAN : CallFails(h, retryable)
               \/ ProcessDueTasks(h)
               \/ \E u \in Ids : ReceiveWebhook(h, u)
               \/ RoleRequest(h) \/ Stop(h)
        PROVE  UNCHANGED rows
    BY <1>4 DEF CallFails, ProcessDueTasks, ReceiveWebhook, RoleRequest, GetPermissions,
         AssignUserRole, RemoveUserRole, UpsertRolePermissions, Stop, tables
  <1>5. ASSUME NEW h \in Handlers, Proceed(h)
        PROVE  CreateRow(h) \/ DeleteRows(h) \/ pc[h] = "role" \/ UNCHANGED rows
    BY <1>1, <1>2, <1>3, <1>5 DEF Proceed, Sync, SyncPositionRole
  <1>6. ASSUME \/ \E e \in Emails, p \in Positions \cup {Gone} : SaveStaff(e, p)
               \/ \E e \in Emails, u \in Ids : Register(e, u)
               \/ \E k \in Keys : BecomeDue(k)
               \/ \E u \in Ids : ExpireEntry(u)
               \/ UNCHANGED vars
        PROVE  UNCHANGED rows
    BY <1>6 DEF SaveStaff, Register, BecomeDue, ExpireEntry, vars, roles, tables
  <1>7. ASSUME NEW h \in Handlers,
               \/ Proceed(h)
               \/ \E retryable \in BOOLEAN : CallFails(h, retryable)
               \/ ProcessDueTasks(h)
               \/ \E u \in Ids : ReceiveWebhook(h, u)
               \/ (RoleRequest(h) \/ Stop(h)) /\ UNCHANGED sync
        PROVE  CreateRow(h) \/ DeleteRows(h) \/ pc[h] = "role"
    BY <1>4, <1>5, <1>7
  <1> QED
    BY <1>6, <1>7 DEF Next

\* Removals that do not overlap another change of the administrators keep the last
\* one (rbac.service.ts:141), for any number of handlers.
THEOREM LastAdminCorrect == Spec => LastAdminIsKept
  <1>1. ASSUME Inv, FreshInv, [Next]_vars, Having("ADMIN") # {}, Having("ADMIN")' = {}
        PROVE  \E h \in Handlers :
                 \/ pc[h] = "role"
                 \/ pc[h] = "delete" /\ (h \in overtaken \/ rows[job[h].user]["ADMIN"] > 1)
    <2>1. rows' # rows
      BY <1>1 DEF Having
    <2>2. PICK h \in Handlers : CreateRow(h) \/ DeleteRows(h) \/ pc[h] = "role"
      BY <1>1, <2>1, OtherRows
    <2> QED
      BY <1>1, <2>2, AdminStep
  <1> QED
    BY <1>1, SpecFresh, PTL DEF Spec, LastAdminIsKept

-----------------------------------------------------------------------------
(* The directory follows the staff.                                        *)

InLog(k)  == \E i \in 1 .. Len(log) : log[i] = k
Latest(k) == InLog(k) /\ Newest(k)

\* The directory is as k asks.
Shows(k) == Shown(k.email) = k.position

\* What k asks was done: k has succeeded, or a run only has to finish it.
Done(k) ==
  \/ task[k].status = "SUCCEEDED"
  \/ \E h \in Handlers : pc[h] \in {"role", "forget", "succeed"} /\ Current(h) = k

\* A row is inserted once, and is open from then on until it has succeeded.
LogOK ==
  /\ \A i, j \in 1 .. Len(log) : log[i] = log[j] => i = j
  /\ \A k \in Keys : /\ InLog(k) => task[k].status # "none"
                     /\ Open(k) => InLog(k)

\* No two members of staff have one account.
AccountsOK == \A d, e \in Emails : account[d] = account[e] /\ account[d] # NoId => d = e

\* The directory is as the task asks that wrote last.
AppliedOK ==
  /\ applied \in [Emails -> Keys \cup {NoKey}]
  /\ \A e \in Emails, k \in Keys : applied[e] = k => k.email = e /\ InLog(k) /\ Shows(k)

\* Where no order was broken, the newest row asks for what the staff row says; without
\* a row the directory says so from the start.
ChangesOK ==
  \A e \in Emails \ disordered :
    \/ /\ applied[e] = NoKey /\ Shows(Key(e, staff[e]))
       /\ \A k \in Keys : k.email = e => ~InLog(k)
    \/ Latest(Key(e, staff[e]))

\* And when the newest row was carried out, it wrote last.
DoneOK ==
  \A k \in Keys : (k.email \notin disordered /\ Latest(k) /\ Done(k)) => applied[k.email] = k

\* The call of a run is the one its task asks for.
Asks(h) ==
  /\ pc[h] \in {"createUser", "updateUser"} => Current(h).action = "UPSERT"
  /\ pc[h] = "deleteUser" => Current(h).action = "DELETE"

AskOK == \A h \in Handlers : Asks(h)

FollowInv == LogOK /\ AccountsOK /\ AppliedOK /\ ChangesOK /\ DoneOK /\ AskOK

LEMMA KeyOfStaff ==
  ASSUME NEW e \in Emails, NEW p \in Positions \cup {Gone}
  PROVE  Key(e, p) \in Keys /\ Key(e, p).email = e /\ Key(e, p).position = p
  BY ClerkAssumption DEF Key, Keys

LEMMA NoKeyIsNone == NoKey \notin Keys
  <1>1. NoKey.action = "none"
    BY DEF NoKey
  <1> QED
    BY <1>1, KeyFields

\* When everything a member of staff asked for was done, the newest row was.
LEMMA FollowsIsFollowed == Inv /\ FollowInv => DirectoryFollowsStaff
  <1> SUFFICES ASSUME Inv, FollowInv, NEW e \in Emails, Settled(e), e \notin disordered
               PROVE  Shows(Key(e, staff[e]))
    BY DEF DirectoryFollowsStaff, Shows, Shown, Key
  <1> DEFINE k == Key(e, staff[e])
  <1>1. staff[e] \in Positions \cup {Gone}
    BY DEF Inv, StaffOK
  <1>2. k \in Keys /\ k.email = e
    BY <1>1, KeyOfStaff
  <1> HIDE DEF k
  <1>3. CASE Latest(k)
    <2>1. task[k].status # "none"
      BY <1>2, <1>3 DEF FollowInv, LogOK, Latest
    <2>2. task[k].status = "SUCCEEDED"
      BY <1>2, <2>1 DEF Settled
    <2>3. applied[e] = k
      BY <1>2, <1>3, <2>2 DEF FollowInv, DoneOK, Done
    <2> QED
      BY <1>2, <2>3 DEF FollowInv, AppliedOK, k
  <1>4. CASE ~Latest(k)
    BY <1>4 DEF FollowInv, ChangesOK, k
  <1> QED
    BY <1>3, <1>4

-----------------------------------------------------------------------------
(* The steps that carry nothing out.                                       *)

PastSteps == {"role", "forget", "succeed"}
CallSteps == {"createUser", "updateUser", "deleteUser"}

\* How a row may change while the staff and the directory stay.
Advances(k) ==
  \/ task'[k].status = task[k].status
  \/ Open(k) /\ task'[k].status \in {"PROCESSING", "FAILED"}
  \/ Open(k) /\ task'[k].status = "SUCCEEDED" /\ Done(k)

\* Handler h carries nothing out that was not done before.
Idles(h) ==
  /\ \A g \in Handlers \ {h} : pc'[g] = pc[g] /\ job'[g] = job[g]
  /\ pc'[h] \in PastSteps => pc[h] \in PastSteps /\ Current(h)' = Current(h)
  /\ Asks(h)'

LEMMA AsksStep ==
  ASSUME FollowInv, NEW h \in Handlers, Asks(h)',
         \A g \in Handlers \ {h} : pc'[g] = pc[g] /\ job'[g] = job[g]
  PROVE  AskOK'
  <1>1. ASSUME NEW g \in Handlers \ {h}
        PROVE  Asks(g)'
    <2>1. Asks(g) /\ Current(g)' = Current(g) /\ pc'[g] = pc[g]
      BY DEF FollowInv, AskOK, Current
    <2> QED
      BY <2>1 DEF Asks
  <1> QED
    BY <1>1 DEF AskOK

LEMMA IdlesDone ==
  ASSUME NEW h \in Handlers, Idles(h), NEW k \in Keys, Advances(k)
  PROVE  Done(k)' => Done(k)
  <1>1. \A g \in Handlers \ {h} : Current(g)' = Current(g)
    BY DEF Idles, Current
  <1>2. CASE task'[k].status = "SUCCEEDED"
    BY <1>2 DEF Advances, Done
  <1>3. ASSUME NEW g \in Handlers, pc'[g] \in PastSteps, Current(g)' = k
        PROVE  Done(k)
    BY <1>1, <1>3 DEF Idles, Done, PastSteps
  <1> QED
    BY <1>2, <1>3 DEF Done, PastSteps

\* The order of the rows depends on the log alone.
LEMMA SameOrder ==
  ASSUME log' = log
  PROVE  \A k : (InLog(k)' <=> InLog(k)) /\ (Latest(k)' <=> Latest(k))
                /\ \A l : Before(k, l)' <=> Before(k, l)
  BY DEF InLog, Latest, Newest, Before

LEMMA IdleFollow ==
  ASSUME FollowInv, NEW h \in Handlers, Idles(h), \A k \in Keys : Advances(k),
         UNCHANGED <<staff, log, account, metadata, applied, disordered>>
  PROVE  FollowInv'
  <1>1. \A k : (InLog(k)' <=> InLog(k)) /\ (Latest(k)' <=> Latest(k)) /\ (Shows(k)' <=> Shows(k))
    BY SameOrder DEF Shows, Shown
  <1>2. LogOK'
    <2>1. ASSUME NEW k \in Keys
          PROVE  /\ task'[k].status = "none" => task[k].status = "none"
                 /\ Open(k)' => Open(k)
      <3>1. Advances(k)
        OBVIOUS
      <3> QED
        BY <3>1 DEF Advances, Open
    <2> QED
      BY <1>1, <2>1 DEF FollowInv, LogOK
  <1>3. AccountsOK'
    BY DEF FollowInv, AccountsOK
  <1>4. AppliedOK'
    <2>1. NoKey' = NoKey /\ Keys' = Keys
      BY DEF NoKey, Keys
    <2> QED
      BY <1>1, <2>1 DEF FollowInv, AppliedOK
  <1>5. ChangesOK'
    <2>1. \A e \in Emails : Key(e, staff[e])' = Key(e, staff[e])
      BY DEF Key
    <2> QED
      BY <1>1, <2>1 DEF FollowInv, ChangesOK
  <1>6. DoneOK'
    BY <1>1, IdlesDone DEF FollowInv, DoneOK
  <1>7. AskOK'
    BY AsksStep DEF Idles
  <1> QED
    BY <1>2, <1>3, <1>4, <1>5, <1>6, <1>7 DEF FollowInv

LEMMA StillFollow ==
  ASSUME FollowInv,
         UNCHANGED <<pc, job, task, staff, log, account, metadata, applied, disordered>>
  PROVE  FollowInv'
  <1>1. \A k : (InLog(k)' <=> InLog(k)) /\ (Latest(k)' <=> Latest(k)) /\ (Shows(k)' <=> Shows(k))
               /\ (Done(k)' <=> Done(k)) /\ (Open(k)' <=> Open(k))
    BY SameOrder DEF Shows, Shown, Done, Open, Current
  <1> QED
    BY <1>1 DEF FollowInv, LogOK, AccountsOK, AppliedOK, ChangesOK, DoneOK, Key, Keys, NoKey,
           AskOK, Asks, Current

\* A step that only moves a handler on.
LEMMA PlainFollow ==
  ASSUME FollowInv, NEW h \in Handlers, Idles(h),
         UNCHANGED <<task, staff, log, account, metadata, applied, disordered>>
  PROVE  FollowInv'
  BY IdleFollow DEF Advances

\* Handler h works on one task, and ends or starts the work.
LEMMA TaskFollow ==
  ASSUME Inv, FollowInv, NEW h \in Handlers, Idles(h), NEW k \in Keys, NEW t \in Tasks,
         task' = [task EXCEPT ![k] = t], Open(k),
         t.status \in {"PROCESSING", "FAILED"} \/ (t.status = "SUCCEEDED" /\ Done(k)),
         UNCHANGED <<staff, log, account, metadata, applied, disordered>>
  PROVE  FollowInv'
  <1>1. task'[k] = t /\ \A l \in Keys \ {k} : task'[l] = task[l]
    BY DEF Inv, TaskOK
  <1>2. \A l \in Keys : Advances(l)
    BY <1>1 DEF Advances
  <1> QED
    BY <1>2, IdleFollow

\* How the control of a handler moves.
LEMMA ControlIdles ==
  ASSUME Inv, NEW h \in Handlers
  PROVE  /\ Finish(h) => Idles(h)
         /\ \A step \in Steps \ (PastSteps \cup CallSteps) : Goto(h, step) => Idles(h)
         /\ \A step \in PastSteps : pc[h] \in PastSteps /\ Goto(h, step) => Idles(h)
         /\ \A step \in Steps \ (PastSteps \cup CallSteps) : \A j :
              job' = [job EXCEPT ![h] = j] /\ pc' = [pc EXCEPT ![h] = step] => Idles(h)
         /\ pc[h] \in SyncSteps /\ NextTask(h) => Idles(h)
  <1>0. pc \in [Handlers -> Steps] /\ job \in [Handlers -> Jobs] /\ ControlOK
    BY DEF Inv, ControlOK
  <1>1. ASSUME pc'[h] \notin CallSteps
        PROVE  Asks(h)'
    BY <1>1 DEF Asks, CallSteps
  <1>2. Finish(h) => Idles(h)
    BY <1>0, <1>1 DEF Finish, Idles, PastSteps, CallSteps
  <1>3. ASSUME NEW step \in Steps, Goto(h, step)
        PROVE  /\ pc'[h] = step /\ Current(h)' = Current(h)
               /\ \A g \in Handlers \ {h} : pc'[g] = pc[g] /\ job'[g] = job[g]
    BY <1>0, <1>3 DEF Goto, Current
  <1>4. ASSUME NEW step \in Steps \ (PastSteps \cup CallSteps), NEW j,
               job' = [job EXCEPT ![h] = j], pc' = [pc EXCEPT ![h] = step]
        PROVE  Idles(h)
    BY <1>0, <1>1, <1>4 DEF Idles
  <1>5. ASSUME pc[h] \in SyncSteps, NextTask(h)
        PROVE  Idles(h)
    BY <1>0, <1>1, <1>5, NextTaskControl DEF Idles, PastSteps, CallSteps
  <1>6. \A step \in Steps \ (PastSteps \cup CallSteps) : Goto(h, step) => Idles(h)
    BY <1>1, <1>3 DEF Idles
  <1>7. \A step \in PastSteps : pc[h] \in PastSteps /\ Goto(h, step) => Idles(h)
    <2>1. PastSteps \subseteq Steps /\ \A step \in PastSteps : step \notin CallSteps
      BY DEF PastSteps, Steps, CallSteps
    <2> QED
      BY <1>1, <1>3, <2>1 DEF Idles
  <1> QED
    BY <1>2, <1>4, <1>5, <1>6, <1>7

-----------------------------------------------------------------------------
(* The steps that carry a task out.                                        *)

\* Two rows are ordered.
LEMMA RowsOrdered ==
  ASSUME Inv, NEW k, NEW l, InLog(k), InLog(l), k # l
  PROVE  Before(k, l) \/ Before(l, k)
  <1>1. PICK i \in 1 .. Len(log) : log[i] = k
    BY DEF InLog
  <1>2. PICK j \in 1 .. Len(log) : log[j] = l
    BY DEF InLog
  <1>3. Len(log) \in Nat
    BY LenProperties DEF Inv, StaffOK
  <1>4. i < j \/ j < i
    BY <1>1, <1>2, <1>3
  <1> QED
    BY <1>1, <1>2, <1>4 DEF Before

\* Task k is carried out by its run h, which goes on or fails: unless the order is
\* broken, the newest row that was done is the one that wrote last.
LEMMA ApplyFollow ==
  ASSUME Inv, FollowInv, NEW h \in Handlers, Working(h), NEW k \in Keys, k = Current(h),
         Applies(k), AccountsOK', Shows(k)',
         \A d \in Emails \ {k.email} :
           /\ account'[d] = account[d]
           /\ account[d] # NoId => metadata'[account[d]] = metadata[account[d]],
         \A g \in Handlers \ {h} : pc'[g] = pc[g] /\ job'[g] = job[g],
         pc'[h] \in PastSteps => Current(h)' = k, pc'[h] \notin CallSteps,
         \A l \in Keys \ {k} : task'[l] = task[l],
         task'[k].status \in {"PROCESSING", "FAILED"},
         UNCHANGED <<staff, log>>
  PROVE  FollowInv'
  <1> DEFINE e == k.email
  <1>1. e \in Emails /\ task[k].status = "PROCESSING" /\ Open(k)
    BY KeyFields DEF Inv, WorkOK, Open
  <1>2. InLog(k)
    BY <1>1 DEF FollowInv, LogOK
  <1>3. \A l : (InLog(l)' <=> InLog(l)) /\ (Latest(l)' <=> Latest(l))
    BY SameOrder
  <1>4. \A l \in Keys : l.email # e => (Shows(l)' <=> Shows(l))
    BY KeyFields DEF Shows, Shown
  <1>5. ASSUME NEW l \in Keys \ {k}
        PROVE  Done(l)' => Done(l)
    <2>1. \A g \in Handlers \ {h} : Current(g)' = Current(g)
      BY DEF Current
    <2> QED
      BY <2>1 DEF Done, PastSteps
  <1>6. applied' = [applied EXCEPT ![e] = k] /\ applied \in [Emails -> Keys \cup {NoKey}]
    BY DEF Applies, FollowInv, AppliedOK
  <1>7. applied'[e] = k /\ \A d \in Emails \ {e} : applied'[d] = applied[d]
    BY <1>1, <1>6
  <1>8. disordered \subseteq disordered' /\ disordered' \subseteq disordered \cup {e}
    BY DEF Applies
  <1>9. LogOK'
    <2>1. ASSUME NEW l \in Keys
          PROVE  /\ task'[l].status = "none" => task[l].status = "none"
                 /\ Open(l)' => Open(l)
      BY <1>1 DEF Open
    <2> QED
      BY <1>3, <2>1 DEF FollowInv, LogOK
  <1>10. AppliedOK'
    <2>1. applied' \in [Emails -> (Keys \cup {NoKey})']
      BY <1>1, <1>6 DEF Keys, NoKey
    <2>2. ASSUME NEW d \in Emails, NEW l \in Keys, applied'[d] = l
          PROVE  l.email = d /\ InLog(l)' /\ Shows(l)'
      <3>1. CASE d = e
        BY <1>2, <1>3, <1>7, <2>2, <3>1
      <3>2. CASE d # e
        <4>1. l.email = d /\ InLog(l) /\ Shows(l)
          BY <1>7, <2>2, <3>2 DEF FollowInv, AppliedOK
        <4> QED
          BY <1>3, <1>4, <3>2, <4>1
      <3> QED
        BY <3>1, <3>2
    <2>3. Keys' = Keys
      BY DEF Keys
    <2> QED
      BY <2>1, <2>2, <2>3 DEF AppliedOK
  <1>11. ChangesOK'
    <2>1. ASSUME NEW d \in Emails, d \notin disordered'
          PROVE  \/ /\ applied'[d] = NoKey /\ Shows(Key(d, staff[d]))'
                    /\ \A l \in Keys : l.email = d => ~InLog(l)'
                 \/ Latest(Key(d, staff[d]))'
      <3>1. d \notin disordered /\ Key(d, staff[d])' = Key(d, staff[d])
        BY <1>8, <2>1 DEF Key
      <3>2. Key(d, staff[d]) \in Keys /\ Key(d, staff[d]).email = d
        BY KeyOfStaff DEF Inv, StaffOK
      <3>3. CASE Latest(Key(d, staff[d]))
        BY <1>3, <3>1, <3>3
      <3>4. CASE ~Latest(Key(d, staff[d]))
        <4>1. /\ applied[d] = NoKey /\ Shows(Key(d, staff[d]))
              /\ \A l \in Keys : l.email = d => ~InLog(l)
          BY <3>1, <3>4 DEF FollowInv, ChangesOK
        <4>2. d # e
          BY <1>2, <4>1
        <4> QED
          BY <1>3, <1>4, <1>7, <3>1, <3>2, <4>1, <4>2
      <3> QED
        BY <3>3, <3>4
    <2>2. Keys' = Keys /\ NoKey' = NoKey
      BY DEF Keys, NoKey
    <2> QED
      BY <2>1, <2>2 DEF ChangesOK
  <1>12. DoneOK'
    <2>1. ASSUME NEW l \in Keys, l.email \notin disordered', Latest(l)', Done(l)', l # k
          PROVE  applied'[l.email] = l
      <3>1. applied[l.email] = l /\ l.email \in Emails
        BY <1>3, <1>5, <1>8, <2>1, KeyFields DEF FollowInv, DoneOK
      <3>2. CASE l.email = e
        <4>1. Before(k, l)
          <5>1. InLog(l) /\ ~Before(l, k)
            BY <1>3, <2>1, <3>2 DEF Latest, Newest
          <5> QED
            BY <1>2, <2>1, <5>1, RowsOrdered
        <4>2. applied[e] # NoKey
          BY <3>1, <3>2, NoKeyIsNone
        <4>3. e \in disordered'
          BY <3>1, <3>2, <4>1, <4>2 DEF Applies
        <4> QED
          BY <2>1, <3>2, <4>3
      <3>3. CASE l.email # e
        BY <1>7, <3>1, <3>3
      <3> QED
        BY <3>2, <3>3
    <2>2. Keys' = Keys
      BY DEF Keys
    <2> QED
      BY <1>7, <2>1, <2>2 DEF DoneOK
  <1>13. AskOK'
    <2>1. Asks(h)'
      BY DEF Asks, CallSteps
    <2> QED
      BY <2>1, AsksStep
  <1> QED
    BY <1>9, <1>10, <1>11, <1>12, <1>13 DEF FollowInv

LEMMA FindFollow ==
  ASSUME Inv, FollowInv, NEW h \in Handlers, FindAccount(h)
  PROVE  FollowInv'
  <1>0. PICK k \in Keys : k = Current(h)
    BY WorkingIsKey DEF FindAccount, Working, Inv
  <1> DEFINE j == [job[h] EXCEPT !.user = account[k.email], !.users = {account[k.email]} \ {NoId}]
             step == IF k.action = "UPSERT"
                     THEN IF account[k.email] = NoId THEN "createUser" ELSE "updateUser"
                     ELSE IF account[k.email] = NoId THEN "succeed" ELSE "deleteUser"
  <1>1. /\ pc[h] = "find" /\ Working(h)
        /\ job' = [job EXCEPT ![h] = j] /\ pc' = [pc EXCEPT ![h] = step]
        /\ UNCHANGED <<staff, task, log, account, metadata>>
        /\ IF k.action = "DELETE" /\ account[k.email] = NoId THEN Applies(k)
           ELSE UNCHANGED <<applied, disordered>>
    BY <1>0 DEF FindAccount, directory, Working
  <1>2. k \in Keys /\ job[h] \in Jobs
    BY <1>1, WorkingIsKey DEF Inv, ControlOK
  <1>3. CASE k.action = "DELETE" /\ account[k.email] = NoId
    <2>1. /\ j.batch = job[h].batch /\ job'[h] = j
          /\ \A g \in Handlers \ {h} : pc'[g] = pc[g] /\ job'[g] = job[g]
      BY <1>1, <1>2 DEF Jobs, Inv, ControlOK
    <2> HIDE DEF j, step
    <2>2. Current(h)' = k
      BY <1>0, <2>1 DEF Current
    <2>3. AccountsOK'
      BY <1>1 DEF FollowInv, AccountsOK
    <2>4. Shows(k)'
      <3>1. k.position = Gone
        BY <1>2, <1>3 DEF Keys
      <3> QED
        BY <1>1, <1>3, <3>1 DEF Shows, Shown
    <2>5. task'[k].status = "PROCESSING"
      BY <1>0, <1>1 DEF Inv, WorkOK
    <2>6. step = "succeed"
      BY <1>2, <1>3, KeyFields DEF step
    <2>7. pc'[h] \notin CallSteps
      BY <1>1, <2>6 DEF Inv, ControlOK, CallSteps
    <2> QED
      BY <1>1, <1>2, <1>3, <2>1, <2>2, <2>3, <2>4, <2>5, <2>7, <1>0, ApplyFollow
  <1>4. CASE ~(k.action = "DELETE" /\ account[k.email] = NoId)
    <2>1. /\ step \in CallSteps
          /\ step \in {"createUser", "updateUser"} => k.action = "UPSERT"
          /\ step = "deleteUser" => k.action = "DELETE"
      BY <1>2, <1>4, KeyFields DEF CallSteps
    <2> HIDE DEF step
    <2>2. /\ j.batch = job[h].batch /\ job'[h] = j /\ pc'[h] = step
          /\ \A g \in Handlers \ {h} : pc'[g] = pc[g] /\ job'[g] = job[g]
      BY <1>1, <1>2 DEF Jobs, Inv, ControlOK
    <2> HIDE DEF j
    <2>3. Current(h)' = k
      BY <1>0, <2>2 DEF Current
    <2>4. Asks(h)' /\ pc'[h] \notin PastSteps
      BY <2>1, <2>2, <2>3 DEF Asks, CallSteps, PastSteps
    <2>5. Idles(h)
      BY <2>2, <2>4 DEF Idles
    <2> QED
      BY <1>1, <1>4, <2>5, PlainFollow
  <1> QED
    BY <1>3, <1>4

\* What a task leaves behind that failed after it was carried out.
LEMMA FailedTask ==
  ASSUME Inv, NEW h \in Handlers, Working(h), NEW retryable \in BOOLEAN,
         FailTask(h, retryable)
  PROVE  /\ \E t \in Tasks : t.status = "FAILED" /\ task' = [task EXCEPT ![Current(h)] = t]
         /\ task'[Current(h)].status = "FAILED"
         /\ \A l \in Keys \ {Current(h)} : task'[l] = task[l]
         /\ \A g \in Handlers \ {h} : pc'[g] = pc[g] /\ job'[g] = job[g]
         /\ pc'[h] \notin PastSteps \cup CallSteps /\ Idles(h)
  <1> DEFINE n == Head(job[h].batch).attempts + 1
  <1>1. n \in 0 .. MaxAttempts /\ Current(h) \in Keys /\ pc[h] \in SyncSteps
    BY WorkingIsKey, ClerkAssumption DEF Inv
  <1>2. PICK dead :
          /\ dead = (n >= MaxAttempts \/ ~retryable)
          /\ task' = [task EXCEPT ![Current(h)] =
                        [status |-> "FAILED", attempts |-> n, dead |-> dead]]
          /\ NextTask(h)
    BY Zenon DEF FailTask
  <1> DEFINE t == [status |-> "FAILED", attempts |-> n, dead |-> dead]
  <1>3. dead \in BOOLEAN
    BY <1>2, Zenon
  <1>4. t \in Tasks /\ t.status = "FAILED" /\ task' = [task EXCEPT ![Current(h)] = t]
    BY <1>1, <1>2, <1>3 DEF Tasks
  <1> HIDE DEF t
  <1>5. /\ task'[Current(h)].status = "FAILED"
        /\ \A l \in Keys \ {Current(h)} : task'[l] = task[l]
    BY <1>1, <1>4 DEF Inv, TaskOK
  <1>6. /\ pc'[h] \in {"idle", "lock"}
        /\ \A g \in Handlers \ {h} : pc'[g] = pc[g] /\ job'[g] = job[g]
    BY <1>1, <1>2, NextTaskControl DEF Inv
  <1>7. pc'[h] \notin PastSteps \cup CallSteps /\ Idles(h)
    BY <1>1, <1>2, <1>6, ControlIdles DEF PastSteps, CallSteps
  <1> QED
    BY <1>4, <1>5, <1>6, <1>7

LEMMA CreateFollow ==
  ASSUME Inv, FollowInv, NEW h \in Handlers, NEW u \in Ids, CreateUser(h, u)
  PROVE  FollowInv'
  <1>0. PICK k \in Keys : k = Current(h)
    BY WorkingIsKey DEF CreateUser, Working, Inv
  <1> DEFINE j == [job[h] EXCEPT !.user = u, !.users = {u}]
  <1>1. /\ pc[h] = "createUser" /\ Working(h) /\ account[k.email] = NoId /\ u \notin used
        /\ account' = [account EXCEPT ![k.email] = u]
        /\ metadata' = [metadata EXCEPT ![u] = k.position]
        /\ Applies(k) /\ UNCHANGED <<staff, log>>
        /\ \/ job' = [job EXCEPT ![h] = j] /\ pc' = [pc EXCEPT ![h] = "role"] /\ task' = task
           \/ FailTask(h, TRUE)
    BY <1>0 DEF CreateUser, Working
  <1>2. k \in Keys /\ job[h] \in Jobs /\ k.email \in Emails
    BY <1>1, WorkingIsKey, KeyFields DEF Inv, ControlOK
  <1>3. /\ account \in [Emails -> used \cup {NoId}] /\ used \subseteq Ids /\ u # NoId
        /\ metadata \in [Ids -> Positions \cup {Gone}]
    BY RolesAssumption DEF Inv, DirectoryOK
  <1>4. /\ account'[k.email] = u /\ \A d \in Emails \ {k.email} : account'[d] = account[d]
        /\ metadata'[u] = k.position
        /\ \A v \in Ids \ {u} : metadata'[v] = metadata[v]
    BY <1>1, <1>2, <1>3
  <1>5. AccountsOK'
    <2>1. \A d \in Emails : account[d] # u
      BY <1>1, <1>3
    <2> QED
      BY <1>4, <2>1 DEF FollowInv, AccountsOK
  <1>6. \A d \in Emails \ {k.email} :
          account[d] # NoId => metadata'[account[d]] = metadata[account[d]]
    BY <1>1, <1>3, <1>4
  <1>7. Shows(k)'
    <2>1. k.position # Gone
      <3>1. k.action = "UPSERT"
        BY <1>0, <1>1 DEF FollowInv, AskOK, Asks
      <3> QED
        BY <1>2, <3>1, ClerkAssumption DEF Keys
    <2> QED
      BY <1>3, <1>4, <2>1 DEF Shows, Shown
  <1>8. CASE job' = [job EXCEPT ![h] = j] /\ pc' = [pc EXCEPT ![h] = "role"] /\ task' = task
    <2>1. /\ j.batch = job[h].batch /\ job'[h] = j /\ pc'[h] = "role"
          /\ \A g \in Handlers \ {h} : pc'[g] = pc[g] /\ job'[g] = job[g]
      BY <1>2, <1>8 DEF Jobs, Inv, ControlOK
    <2> HIDE DEF j
    <2>2. Current(h)' = k
      BY <1>0, <2>1 DEF Current
    <2>3. task'[k].status = "PROCESSING" /\ pc'[h] \notin CallSteps
      BY <1>0, <1>1, <1>8, <2>1 DEF Inv, WorkOK, CallSteps
    <2> QED
      BY <1>1, <1>2, <1>4, <1>5, <1>6, <1>7, <1>8, <2>1, <2>2, <2>3, <1>0, ApplyFollow
  <1>9. CASE FailTask(h, TRUE)
    <2>1. /\ task'[k].status = "FAILED" /\ \A l \in Keys \ {k} : task'[l] = task[l]
          /\ \A g \in Handlers \ {h} : pc'[g] = pc[g] /\ job'[g] = job[g]
          /\ pc'[h] \notin PastSteps \cup CallSteps
      BY <1>0, <1>1, <1>9, FailedTask
    <2> QED
      BY <1>1, <1>2, <1>4, <1>5, <1>6, <1>7, <2>1, <1>0, ApplyFollow
  <1> QED
    BY <1>1, <1>8, <1>9

\* The answer of a call that carries out task k.
LEMMA AnsweredFollow ==
  ASSUME Inv, FollowInv, NEW h \in Handlers, Working(h), NEW k \in Keys, k = Current(h),
         NEW step \in {"role", "succeed"}, Answer(h, step),
         Applies(k), AccountsOK', Shows(k)',
         \A d \in Emails \ {k.email} :
           /\ account'[d] = account[d]
           /\ account[d] # NoId => metadata'[account[d]] = metadata[account[d]],
         UNCHANGED <<staff, log>>
  PROVE  FollowInv'
  <1>1. CASE Goto(h, step) /\ task' = task
    <2>1. /\ job' = job /\ pc'[h] = step
          /\ \A g \in Handlers \ {h} : pc'[g] = pc[g] /\ job'[g] = job[g]
      BY <1>1 DEF Goto, Inv, ControlOK
    <2>2. Current(h)' = k
      BY <2>1 DEF Current
    <2>3. task'[k].status = "PROCESSING" /\ pc'[h] \notin CallSteps
      BY <1>1, <2>1 DEF Inv, WorkOK, CallSteps
    <2> QED
      BY <1>1, <2>1, <2>2, <2>3, ApplyFollow
  <1>2. CASE FailTask(h, TRUE)
    <2>1. /\ task'[k].status = "FAILED" /\ \A l \in Keys \ {k} : task'[l] = task[l]
          /\ \A g \in Handlers \ {h} : pc'[g] = pc[g] /\ job'[g] = job[g]
          /\ pc'[h] \notin PastSteps \cup CallSteps
      BY <1>2, FailedTask
    <2> QED
      BY <2>1, ApplyFollow
  <1> QED
    BY <1>1, <1>2 DEF Answer

LEMMA UpdateFollow ==
  ASSUME Inv, FollowInv, NEW h \in Handlers, UpdateUser(h)
  PROVE  FollowInv'
  <1>0. PICK k \in Keys : k = Current(h)
    BY WorkingIsKey DEF UpdateUser, Working, Inv
  <1> DEFINE u == job[h].user
  <1>1. /\ pc[h] = "updateUser" /\ Working(h) /\ account[k.email] = u
        /\ metadata' = [metadata EXCEPT ![u] = k.position] /\ account' = account
        /\ Applies(k) /\ Answer(h, "role") /\ UNCHANGED <<staff, log>>
    BY <1>0 DEF UpdateUser, Working
  <1>2. u \in Ids /\ k.email \in Emails
    BY <1>1, KeyFields DEF Inv, ControlOK, JobFits, Jobs
  <1> HIDE DEF u
  <1>3. /\ account \in [Emails -> used \cup {NoId}] /\ used \subseteq Ids /\ u # NoId
        /\ metadata \in [Ids -> Positions \cup {Gone}]
    BY <1>2, RolesAssumption DEF Inv, DirectoryOK
  <1>4. metadata'[u] = k.position /\ \A v \in Ids \ {u} : metadata'[v] = metadata[v]
    BY <1>1, <1>2, <1>3
  <1>5. \A d \in Emails \ {k.email} :
          account[d] # NoId => metadata'[account[d]] = metadata[account[d]]
    <2>1. \A d \in Emails \ {k.email} : account[d] # u
      BY <1>1, <1>2, <1>3 DEF FollowInv, AccountsOK
    <2> QED
      BY <1>3, <1>4, <2>1
  <1>6. AccountsOK'
    BY <1>1 DEF FollowInv, AccountsOK
  <1>7. Shows(k)'
    <2>1. k.action = "UPSERT"
      BY <1>0, <1>1 DEF FollowInv, AskOK, Asks
    <2>2. k.position # Gone
      BY <2>1, ClerkAssumption DEF Keys
    <2> QED
      BY <1>1, <1>3, <1>4, <2>2 DEF Shows, Shown
  <1> QED
    BY <1>0, <1>1, <1>5, <1>6, <1>7, AnsweredFollow

LEMMA DeleteFollow ==
  ASSUME Inv, FollowInv, NEW h \in Handlers, DeleteUser(h)
  PROVE  FollowInv'
  <1>0. PICK k \in Keys : k = Current(h)
    BY WorkingIsKey DEF DeleteUser, Working, Inv
  <1>1. /\ pc[h] = "deleteUser" /\ Working(h)
        /\ account' = [account EXCEPT ![k.email] = NoId] /\ metadata' = metadata
        /\ Applies(k) /\ Answer(h, "succeed") /\ UNCHANGED <<staff, log>>
    BY <1>0 DEF DeleteUser, Working
  <1>2. k.email \in Emails
    BY KeyFields
  <1>3. account'[k.email] = NoId /\ \A d \in Emails \ {k.email} : account'[d] = account[d]
    BY <1>1, <1>2 DEF Inv, DirectoryOK
  <1>4. AccountsOK'
    BY <1>3 DEF FollowInv, AccountsOK
  <1>5. Shows(k)'
    <2>1. k.action = "DELETE"
      BY <1>0, <1>1 DEF FollowInv, AskOK, Asks
    <2>2. k.position = Gone
      BY <2>1 DEF Keys
    <2> QED
      BY <1>3, <2>2 DEF Shows, Shown
  <1> QED
    BY <1>0, <1>1, <1>3, <1>4, <1>5, AnsweredFollow

LEMMA LockFollow ==
  ASSUME Inv, FollowInv, NEW h \in Handlers, LockTask(h)
  PROVE  FollowInv'
  <1>0. PICK k \in Keys : k = Current(h)
    BY CurrentIsKey DEF LockTask, SyncSteps, Inv
  <1>1. pc[h] = "lock" /\ UNCHANGED <<staff, log, account, metadata, applied, disordered>>
    BY DEF LockTask, directory
  <1>2. CASE task[k].status \in {"PENDING", "FAILED"}
               /\ task[k].attempts = Head(job[h].batch).attempts
    <2> DEFINE t == [task[k] EXCEPT !.status = "PROCESSING"]
    <2>1. task' = [task EXCEPT ![k] = t] /\ Goto(h, "find")
      BY <1>0, <1>2 DEF LockTask
    <2>2. t \in Tasks /\ t.status = "PROCESSING"
      BY DEF Inv, TaskOK, Tasks
    <2> HIDE DEF t
    <2>3. Idles(h)
      BY <2>1, ControlIdles DEF Steps, PastSteps, CallSteps
    <2>4. Open(k)
      BY <1>2 DEF Open
    <2> QED
      BY <1>1, <2>1, <2>2, <2>3, <2>4, TaskFollow
  <1>3. CASE ~(task[k].status \in {"PENDING", "FAILED"}
               /\ task[k].attempts = Head(job[h].batch).attempts)
    <2>1. NextTask(h) /\ task' = task
      BY <1>0, <1>3 DEF LockTask
    <2>2. Idles(h)
      BY <1>1, <2>1, ControlIdles DEF SyncSteps
    <2> QED
      BY <1>1, <2>1, <2>2, PlainFollow
  <1> QED
    BY <1>2, <1>3

LEMMA SucceedFollow ==
  ASSUME Inv, FollowInv, NEW h \in Handlers, SucceedTask(h)
  PROVE  FollowInv'
  <1>0. PICK k \in Keys : k = Current(h)
    BY CurrentIsKey DEF SucceedTask, SyncSteps, Inv
  <1> DEFINE t == [task[k] EXCEPT !.status = "SUCCEEDED"]
  <1>1. /\ pc[h] = "succeed" /\ UNCHANGED <<staff, log, account, metadata, applied, disordered>>
        /\ task' = [task EXCEPT ![k] = t] /\ NextTask(h) /\ Working(h)
    BY <1>0 DEF SucceedTask, directory, Working
  <1>2. t \in Tasks /\ t.status = "SUCCEEDED"
    BY DEF Inv, TaskOK, Tasks
  <1> HIDE DEF t
  <1>3. Open(k) /\ Done(k)
    BY <1>0, <1>1 DEF Inv, WorkOK, Open, Done
  <1>4. Idles(h)
    BY <1>1, ControlIdles DEF SyncSteps
  <1> QED
    BY <1>1, <1>2, <1>3, <1>4, TaskFollow

LEMMA CallFailsFollow ==
  ASSUME Inv, FollowInv, NEW h \in Handlers, NEW retryable \in BOOLEAN,
         CallFails(h, retryable)
  PROVE  FollowInv'
  <1>1. /\ Working(h) /\ FailTask(h, retryable)
        /\ UNCHANGED <<staff, log, account, metadata, applied, disordered>>
    BY DEF CallFails, Working, directory
  <1>2. PICK k \in Keys : k = Current(h)
    BY <1>1, WorkingIsKey DEF Inv
  <1>3. PICK t \in Tasks : t.status = "FAILED" /\ task' = [task EXCEPT ![k] = t]
    BY <1>1, <1>2, FailedTask
  <1>4. Open(k) /\ Idles(h)
    BY <1>1, <1>2, FailedTask DEF Inv, WorkOK, Open
  <1> QED
    BY <1>1, <1>3, <1>4, TaskFollow

-----------------------------------------------------------------------------
(* A change of the staff, and the other steps.                             *)

\* A new row is after all others.
LEMMA LongerLog ==
  ASSUME log \in Seq(Keys), NEW k \in Keys, log' = Append(log, k), ~InLog(k)
  PROVE  /\ \A l : InLog(l)' <=> InLog(l) \/ l = k
         /\ \A l, m : Before(l, m)' <=> Before(l, m) \/ (InLog(l) /\ m = k)
         /\ Latest(k)'
         /\ \A l \in Keys : l.email # k.email => (Latest(l)' <=> Latest(l))
         /\ \A l \in Keys : l.email = k.email /\ Latest(l)' => l = k
         /\ (\A i, j \in 1 .. Len(log) : log[i] = log[j] => i = j)
              => \A i, j \in 1 .. Len(log') : log'[i] = log'[j] => i = j
  <1>1. /\ Len(log) \in Nat /\ Len(log') = Len(log) + 1
        /\ \A i \in 1 .. Len(log) : log'[i] = log[i]
        /\ log'[Len(log) + 1] = k
    BY LenProperties, AppendProperties
  <1>2. \A i \in 1 .. Len(log) : log[i] # k
    BY DEF InLog
  <1>3. \A i : i \in 1 .. Len(log') <=> i \in 1 .. Len(log) \/ i = Len(log) + 1
    BY <1>1
  <1>4. \A l : InLog(l)' <=> InLog(l) \/ l = k
    BY <1>1, <1>3 DEF InLog
  <1>5. ASSUME NEW l, NEW m
        PROVE  Before(l, m)' <=> Before(l, m) \/ (InLog(l) /\ m = k)
    <2>1. ASSUME Before(l, m)'
          PROVE  Before(l, m) \/ (InLog(l) /\ m = k)
      <3>1. PICK i, j \in 1 .. Len(log') : i < j /\ log'[i] = l /\ log'[j] = m
        BY <2>1 DEF Before
      <3>2. i \in 1 .. Len(log)
        BY <1>1, <3>1
      <3> QED
        BY <1>1, <1>3, <3>1, <3>2 DEF Before, InLog
    <2>2. ASSUME Before(l, m)
          PROVE  Before(l, m)'
      <3>1. PICK i, j \in 1 .. Len(log) : i < j /\ log[i] = l /\ log[j] = m
        BY <2>2 DEF Before
      <3> QED
        BY <1>1, <1>3, <3>1 DEF Before
    <2>3. ASSUME InLog(l), m = k
          PROVE  Before(l, m)'
      <3>1. PICK i \in 1 .. Len(log) : log[i] = l
        BY <2>3 DEF InLog
      <3>2. i < Len(log) + 1
        BY <1>1
      <3> QED
        BY <1>1, <1>3, <2>3, <3>1, <3>2 DEF Before
    <2> QED
      BY <2>1, <2>2, <2>3
  <1>6. \A l : ~Before(k, l)
    BY <1>2 DEF Before
  <1>7. Keys' = Keys
    BY DEF Keys
  <1>8. Latest(k)'
    BY <1>4, <1>5, <1>6, <1>7 DEF Latest, Newest
  <1>9. \A l \in Keys : l.email # k.email => (Latest(l)' <=> Latest(l))
    BY <1>4, <1>5, <1>7 DEF Latest, Newest
  <1>10. ASSUME NEW l \in Keys, l.email = k.email, Latest(l)', l # k
         PROVE  FALSE
    <2>1. InLog(l) /\ ~Before(l, k)'
      BY <1>4, <1>7, <1>10 DEF Latest, Newest
    <2> QED
      BY <1>5, <2>1
  <1>11. (\A i, j \in 1 .. Len(log) : log[i] = log[j] => i = j)
           => \A i, j \in 1 .. Len(log') : log'[i] = log'[j] => i = j
    BY <1>1, <1>2, <1>3
  <1> QED
    BY <1>4, <1>5, <1>8, <1>9, <1>10, <1>11

LEMMA OpenFollow ==
  ASSUME Inv, FollowInv, NEW e \in Emails, NEW p \in Positions \cup {Gone},
         SaveStaff(e, p), NEW k \in Keys, k = Key(e, p), Open(k)
  PROVE  FollowInv'
  <1>1. /\ UNCHANGED <<pc, job, task, log, account, metadata, applied>>
        /\ staff' = [staff EXCEPT ![e] = p]
        /\ disordered' = IF Newest(k) /\ task[k].status # "PROCESSING" THEN disordered
                         ELSE disordered \cup {k.email}
    BY DEF SaveStaff, Enqueue, directory
  <1>2. k.email = e
    BY KeyOfStaff
  <1>3. \A l : (InLog(l)' <=> InLog(l)) /\ (Latest(l)' <=> Latest(l)) /\ (Shows(l)' <=> Shows(l))
               /\ (Done(l)' <=> Done(l)) /\ (Open(l)' <=> Open(l))
    BY <1>1, SameOrder DEF Shows, Shown, Done, Open, Current
  <1>4. disordered \subseteq disordered' /\ (e \notin disordered' => Newest(k))
    BY <1>1, <1>2
  <1>5. ChangesOK'
    <2>1. ASSUME NEW d \in Emails, d \notin disordered'
          PROVE  \/ /\ applied'[d] = NoKey /\ Shows(Key(d, staff[d]))'
                    /\ \A l \in Keys : l.email = d => ~InLog(l)'
                 \/ Latest(Key(d, staff[d]))'
      <3>1. CASE d = e
        <4>1. Key(d, staff[d])' = k
          BY <1>1, <3>1 DEF Key, Inv, StaffOK
        <4>2. Latest(k)
          BY <1>4, <2>1, <3>1 DEF FollowInv, LogOK, Latest
        <4> QED
          BY <1>3, <4>1, <4>2
      <3>2. CASE d # e
        <4>1. Key(d, staff[d])' = Key(d, staff[d])
          BY <1>1, <3>2 DEF Key, Inv, StaffOK
        <4>2. d \notin disordered
          BY <1>4, <2>1
        <4> QED
          BY <1>1, <1>3, <4>1, <4>2 DEF FollowInv, ChangesOK
      <3> QED
        BY <3>1, <3>2
    <2>2. Keys' = Keys /\ NoKey' = NoKey
      BY DEF Keys, NoKey
    <2> QED
      BY <2>1, <2>2 DEF ChangesOK
  <1>6. LogOK' /\ AccountsOK' /\ AppliedOK' /\ AskOK'
    BY <1>1, <1>3 DEF FollowInv, LogOK, AccountsOK, AppliedOK, Keys, NoKey, AskOK, Asks, Current
  <1>7. DoneOK'
    BY <1>1, <1>3, <1>4 DEF FollowInv, DoneOK, Keys
  <1> QED
    BY <1>5, <1>6, <1>7 DEF FollowInv

LEMMA InsertFollow ==
  ASSUME Inv, FollowInv, NEW e \in Emails, NEW p \in Positions \cup {Gone},
         SaveStaff(e, p), NEW k \in Keys, k = Key(e, p), ~Open(k)
  PROVE  FollowInv'
  <1> DEFINE t == Row("PENDING")
  <1>1. /\ UNCHANGED <<pc, job, account, metadata, applied>>
        /\ staff' = [staff EXCEPT ![e] = p]
        /\ task[k].status = "none" /\ task' = [task EXCEPT ![k] = t]
        /\ log' = Append(log, k) /\ disordered' = disordered \ {k.email}
    BY DEF SaveStaff, Enqueue, directory
  <1>2. k.email = e /\ t.status = "PENDING"
    BY KeyOfStaff DEF Row, NoTask
  <1> HIDE DEF t
  <1>3. task'[k] = t /\ \A l \in Keys \ {k} : task'[l] = task[l]
    BY <1>1 DEF Inv, TaskOK
  <1>4. ~InLog(k) /\ log \in Seq(Keys)
    BY <1>1 DEF FollowInv, LogOK, Inv, StaffOK
  <1>5. /\ \A l : InLog(l)' <=> InLog(l) \/ l = k
        /\ Latest(k)'
        /\ \A l \in Keys : l.email # k.email => (Latest(l)' <=> Latest(l))
        /\ \A l \in Keys : l.email = k.email /\ Latest(l)' => l = k
        /\ (\A i, j \in 1 .. Len(log) : log[i] = log[j] => i = j)
             => \A i, j \in 1 .. Len(log') : log'[i] = log'[j] => i = j
    BY <1>1, <1>4, LongerLog
  <1>6. \A l : Shows(l)' <=> Shows(l)
    BY <1>1 DEF Shows, Shown
  <1>7. ~Done(k)'
    <2>1. \A g \in Handlers : Working(g) => Current(g) # k
      BY <1>1 DEF Inv, WorkOK
    <2> QED
      BY <1>1, <1>2, <1>3, <2>1 DEF Done, Working, Current
  <1>8. \A l \in Keys \ {k} : (Done(l)' <=> Done(l)) /\ (Open(l)' <=> Open(l))
    BY <1>1, <1>3 DEF Done, Open, Current
  <1>9. LogOK'
    <2>1. ASSUME NEW l \in Keys
          PROVE  (InLog(l)' => task'[l].status # "none") /\ (Open(l)' => InLog(l)')
      BY <1>2, <1>3, <1>5, <1>8 DEF FollowInv, LogOK
    <2>2. \A i, j \in 1 .. Len(log') : log'[i] = log'[j] => i = j
      BY <1>5 DEF FollowInv, LogOK
    <2>3. Keys' = Keys
      BY DEF Keys
    <2> QED
      BY <2>1, <2>2, <2>3 DEF LogOK
  <1>10. AccountsOK' /\ AskOK'
    BY <1>1 DEF FollowInv, AccountsOK, AskOK, Asks, Current
  <1>11. AppliedOK'
    BY <1>1, <1>5, <1>6 DEF FollowInv, AppliedOK, Keys, NoKey
  <1>12. ChangesOK'
    <2>1. ASSUME NEW d \in Emails, d \notin disordered'
          PROVE  \/ /\ applied'[d] = NoKey /\ Shows(Key(d, staff[d]))'
                    /\ \A l \in Keys : l.email = d => ~InLog(l)'
                 \/ Latest(Key(d, staff[d]))'
      <3>1. CASE d = e
        <4>1. Key(d, staff[d])' = k
          BY <1>1, <3>1 DEF Key, Inv, StaffOK
        <4> QED
          BY <1>5, <4>1
      <3>2. CASE d # e
        <4>1. Key(d, staff[d])' = Key(d, staff[d]) /\ d \notin disordered
          BY <1>1, <1>2, <2>1, <3>2 DEF Key, Inv, StaffOK
        <4>2. Key(d, staff[d]) \in Keys /\ Key(d, staff[d]).email = d
          BY KeyOfStaff DEF Inv, StaffOK
        <4>3. CASE Latest(Key(d, staff[d]))
          BY <1>2, <1>5, <3>2, <4>1, <4>2, <4>3
        <4>4. CASE ~Latest(Key(d, staff[d]))
          <5>1. /\ applied[d] = NoKey /\ Shows(Key(d, staff[d]))
                /\ \A l \in Keys : l.email = d => ~InLog(l)
            BY <4>1, <4>4 DEF FollowInv, ChangesOK
          <5> QED
            BY <1>1, <1>2, <1>5, <1>6, <3>2, <4>1, <5>1
        <4> QED
          BY <4>3, <4>4
      <3> QED
        BY <3>1, <3>2
    <2>2. Keys' = Keys /\ NoKey' = NoKey
      BY DEF Keys, NoKey
    <2> QED
      BY <2>1, <2>2 DEF ChangesOK
  <1>13. DoneOK'
    <2>1. ASSUME NEW l \in Keys, l.email \notin disordered', Latest(l)', Done(l)'
          PROVE  applied'[l.email] = l
      <3>1. l # k /\ l.email # e
        BY <1>2, <1>5, <1>7, <2>1
      <3>2. l.email \notin disordered /\ Latest(l) /\ Done(l)
        BY <1>1, <1>2, <1>5, <1>8, <2>1, <3>1
      <3> QED
        BY <1>1, <3>2 DEF FollowInv, DoneOK
    <2>2. Keys' = Keys
      BY DEF Keys
    <2> QED
      BY <2>1, <2>2 DEF DoneOK
  <1> QED
    BY <1>9, <1>10, <1>11, <1>12, <1>13 DEF FollowInv

\* The steps of requests and webhooks, and of a run between its calls.
\* A customer registers an account where there is none: it shows no position.
LEMMA RegisterFollow ==
  ASSUME Inv, FollowInv, NEW e \in Emails, NEW u \in Ids, Register(e, u)
  PROVE  FollowInv'
  <1>1. /\ account[e] = NoId /\ u \notin used
        /\ account' = [account EXCEPT ![e] = u] /\ metadata' = [metadata EXCEPT ![u] = Gone]
        /\ UNCHANGED <<pc, job, staff, task, log, applied, disordered>>
    BY DEF Register
  <1>2. /\ account \in [Emails -> used \cup {NoId}] /\ used \subseteq Ids /\ u # NoId
        /\ metadata \in [Ids -> Positions \cup {Gone}]
    BY RolesAssumption DEF Inv, DirectoryOK
  <1>3. /\ account'[e] = u /\ \A d \in Emails \ {e} : account'[d] = account[d]
        /\ metadata'[u] = Gone /\ \A v \in Ids \ {u} : metadata'[v] = metadata[v]
        /\ \A d \in Emails : account[d] # u
    BY <1>1, <1>2
  <1>4. AccountsOK'
    BY <1>3 DEF FollowInv, AccountsOK
  <1>5. \A d \in Emails : Shown(d)' = Shown(d)
    BY <1>1, <1>2, <1>3 DEF Shown
  <1>6. \A k \in Keys : Shows(k)' <=> Shows(k)
    BY <1>5, KeyFields DEF Shows
  <1>7. \A k : (InLog(k)' <=> InLog(k)) /\ (Latest(k)' <=> Latest(k)) /\ (Done(k)' <=> Done(k))
               /\ (Open(k)' <=> Open(k))
    BY <1>1, SameOrder DEF Done, Open, Current
  <1>8. LogOK' /\ AppliedOK' /\ DoneOK'
    BY <1>1, <1>6, <1>7 DEF FollowInv, LogOK, AppliedOK, DoneOK, Keys, NoKey
  <1>9. ChangesOK'
    <2>1. \A d \in Emails : Key(d, staff[d]) \in Keys /\ Key(d, staff[d])' = Key(d, staff[d])
      BY <1>1, KeyOfStaff DEF Inv, StaffOK, Key
    <2> QED
      BY <1>1, <1>6, <1>7, <2>1 DEF FollowInv, ChangesOK, NoKey, Keys
  <1>10. AskOK'
    BY <1>1 DEF FollowInv, AskOK, Asks, Current
  <1> QED
    BY <1>4, <1>8, <1>9, <1>10 DEF FollowInv

LEMMA AsideFollow ==
  ASSUME Inv, FollowInv, NEW h \in Handlers,
         \/ Webhook(h) \/ InvalidateAndReturn(h) \/ SyncPositionRole(h) \/ ForgetPermissions(h)
         \/ (RoleStep(h) \/ RoleRequest(h) \/ Stop(h)) /\ UNCHANGED sync
         \/ ProcessDueTasks(h) \/ \E u \in Ids : ReceiveWebhook(h, u)
  PROVE  FollowInv'
  <1> DEFINE Other == Steps \ (PastSteps \cup CallSteps)
  <1>1. UNCHANGED <<task, staff, log, account, metadata, applied, disordered>>
    BY DEF Webhook, CheckAnyRole, RecordWebhook, InvalidateAndReturn, SyncPositionRole,
           ForgetPermissions, ProcessDueTasks, ReceiveWebhook, sync, directory
  <1>2. {"idle", "read", "fill", "check", "create", "invalidate", "count", "delete", "grant",
         "list", "lock", "anyRole", "record"} \subseteq Other
    BY DEF Steps, PastSteps, CallSteps
  <1>3. CASE SyncPositionRole(h) \/ ForgetPermissions(h)
    <2>1. pc[h] \in PastSteps /\ \E step \in PastSteps : Goto(h, step)
      BY <1>3 DEF SyncPositionRole, ForgetPermissions, PastSteps
    <2> QED
      BY <1>1, <2>1, ControlIdles, PlainFollow
  <1>4. CASE Webhook(h) \/ InvalidateAndReturn(h) \/ Stop(h)
    <2>1. Finish(h) \/ \E step \in {"check", "record"} : Goto(h, step)
      BY <1>4 DEF Webhook, CheckAnyRole, RecordWebhook, InvalidateAndReturn, Stop
    <2> QED
      BY <1>1, <1>2, <2>1, ControlIdles, PlainFollow
  <1>5. CASE RoleStep(h)
    <2>1. CASE ReadPermissions(h) \/ ListUsers(h)
      <3>1. \E step \in {"fill", "invalidate"} : \E j :
              job' = [job EXCEPT ![h] = j] /\ pc' = [pc EXCEPT ![h] = step]
        BY <2>1 DEF ReadPermissions, ListUsers
      <3> QED
        BY <1>1, <1>2, <3>1, ControlIdles, PlainFollow
    <2>2. CASE ~(ReadPermissions(h) \/ ListUsers(h))
      <3>1. Finish(h) \/ \E step \in {"invalidate", "create", "delete", "list"} : Goto(h, step)
        BY <1>5, <2>2 DEF RoleStep, FillCache, CheckRow, CreateRow, CountAdmins, DeleteRows,
           ReplaceGrants
      <3> QED
        BY <1>1, <1>2, <3>1, ControlIdles, PlainFollow
    <2> QED
      BY <2>1, <2>2
  <1>6. CASE RoleRequest(h) \/ ProcessDueTasks(h) \/ \E u \in Ids : ReceiveWebhook(h, u)
    <2>1. \E step \in {"read", "check", "count", "delete", "grant", "lock", "anyRole"} : \E j :
            Begin(h, j, step)
      BY <1>6 DEF RoleRequest, GetPermissions, AssignUserRole, RemoveUserRole,
         UpsertRolePermissions, ProcessDueTasks, ReceiveWebhook, Request
    <2>2. \E step \in Other : \E j :
            job' = [job EXCEPT ![h] = j] /\ pc' = [pc EXCEPT ![h] = step]
      BY <1>2, <2>1 DEF Begin
    <2> QED
      BY <1>1, <2>2, ControlIdles, PlainFollow
  <1> QED
    BY <1>3, <1>4, <1>5, <1>6

LEMMA FollowStep == Inv /\ FollowInv /\ [Next]_vars => FollowInv'
  <1> SUFFICES ASSUME Inv, FollowInv, [Next]_vars
               PROVE  FollowInv'
    OBVIOUS
  <1>1. ASSUME NEW h \in Handlers, Proceed(h)
        PROVE  FollowInv'
    BY <1>1, LockFollow, FindFollow, CreateFollow, UpdateFollow, DeleteFollow, SucceedFollow,
       AsideFollow DEF Proceed, Sync
  <1>2. ASSUME NEW h \in Handlers,
               \/ Proceed(h)
               \/ \E retryable \in BOOLEAN : CallFails(h, retryable)
               \/ ProcessDueTasks(h)
               \/ \E u \in Ids : ReceiveWebhook(h, u)
               \/ (RoleRequest(h) \/ Stop(h)) /\ UNCHANGED sync
        PROVE  FollowInv'
    BY <1>1, <1>2, CallFailsFollow, AsideFollow
  <1>3. ASSUME NEW e \in Emails, NEW p \in Positions \cup {Gone}, SaveStaff(e, p)
        PROVE  FollowInv'
    BY <1>3, KeyOfStaff, OpenFollow, InsertFollow
  <1>4. ASSUME NEW k \in Keys, BecomeDue(k)
        PROVE  FollowInv'
    BY <1>4, StillFollow DEF BecomeDue, roles, control, directory
  <1>5. ASSUME NEW u \in Ids, ExpireEntry(u), UNCHANGED sync
        PROVE  FollowInv'
    BY <1>5, StillFollow DEF ExpireEntry, control, sync, directory
  <1>6. ASSUME NEW e \in Emails, NEW u \in Ids, Register(e, u)
        PROVE  FollowInv'
    BY <1>6, RegisterFollow
  <1>7. CASE UNCHANGED vars
    BY <1>7, StillFollow DEF vars, roles, control, sync, directory
  <1> QED
    BY <1>2, <1>3, <1>4, <1>5, <1>6, <1>7 DEF Next

LEMMA FollowInit == Init => FollowInv
  <1> SUFFICES ASSUME Init
               PROVE  FollowInv
    OBVIOUS
  <1>1. /\ staff \in [Emails -> Positions \cup {Gone}]
        /\ account \in [Emails -> Ids \cup {NoId}]
        /\ \A e \in Emails : account[e] = NoId => staff[e] = Gone
        /\ \A e, d \in Emails : account[e] = account[d] => e = d \/ account[e] = NoId
        /\ metadata = [u \in Ids |-> IF \E e \in Emails : account[e] = u
                         THEN staff[CHOOSE e \in Emails : account[e] = u] ELSE Gone]
        /\ task = [k \in Keys |-> IF k.position = staff[k.email] /\ k.position # Gone
                                  THEN Row("SUCCEEDED") ELSE NoTask]
        /\ log = <<>> /\ applied = [e \in Emails |-> NoKey] /\ disordered = {}
        /\ pc = [h \in Handlers |-> "idle"]
    BY Zenon DEF Init, RolesInit
  <1>2. \A k : ~InLog(k)
    BY <1>1 DEF InLog
  <1>3. LogOK
    <2>1. ASSUME NEW k \in Keys
          PROVE  ~Open(k)
      BY <1>1 DEF Open, Row, NoTask
    <2> QED
      BY <1>1, <1>2, <2>1 DEF LogOK
  <1>4. AccountsOK /\ AskOK
    BY <1>1 DEF AccountsOK, AskOK, Asks
  <1>5. AppliedOK
    BY <1>1, NoKeyIsNone DEF AppliedOK
  <1>6. ChangesOK
    <2>1. ASSUME NEW e \in Emails
          PROVE  Shows(Key(e, staff[e]))
      <3>1. Key(e, staff[e]).email = e /\ Key(e, staff[e]).position = staff[e]
        BY <1>1, KeyOfStaff
      <3>2. CASE account[e] = NoId
        BY <1>1, <3>1, <3>2 DEF Shows, Shown
      <3>3. CASE account[e] # NoId
        <4>1. account[e] \in Ids
          BY <1>1, <3>3
        <4>2. (CHOOSE d \in Emails : account[d] = account[e]) = e
          BY <1>1, <4>1
        <4>3. metadata[account[e]] = staff[e]
          BY <1>1, <4>1, <4>2
        <4> QED
          BY <3>1, <3>3, <4>1, <4>3 DEF Shows, Shown
      <3> QED
        BY <3>2, <3>3
    <2> QED
      BY <1>1, <1>2, <2>1 DEF ChangesOK
  <1>7. DoneOK
    BY <1>2 DEF DoneOK, Latest
  <1> QED
    BY <1>3, <1>4, <1>5, <1>6, <1>7 DEF FollowInv

\* Whatever calls fail or lose their answers, and however runs of the cron job
\* overlap: where all tasks of a member of staff have succeeded, in the order of
\* the changes, the directory says what the staff row says (clerk-sync.service.ts).
THEOREM DirectoryCorrect == Spec => []DirectoryFollowsStaff
  <1>1. Init => Inv /\ FollowInv
    BY InvInit, FollowInit
  <1>2. Inv /\ FollowInv /\ [Next]_vars => (Inv /\ FollowInv)'
    BY InvStep, FollowStep
  <1> QED
    BY <1>1, <1>2, FollowsIsFollowed, PTL DEF Spec
=============================================================================
