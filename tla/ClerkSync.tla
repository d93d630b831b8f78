------------------------------ MODULE ClerkSync ------------------------------
(***************************************************************************)
(* The staff of the cinemas and their accounts in the directory of Clerk   *)
(* (staff.service.ts, clerk-sync.service.ts, the webhook of                *)
(* user.service.ts), composed with the roles of the accounts.              *)
(*                                                                         *)
(* A change of a staff member inserts a task in the same transaction; a    *)
(* cron job runs every ten seconds on every replica, takes the tasks that  *)
(* are due and brings the directory in line, with retries.  The key of a   *)
(* task is unique for good and is the hash of what it asks.  A step is one *)
(* await.  A call to the directory may fail, or succeed and lose its       *)
(* answer; tasks become due in the order of nextRetryAt.  Of a staff row   *)
(* the position is kept.  reconcileStaffMetadataDrift takes the staff with *)
(* a clerkUserId, which nothing ever sets: it does nothing.                *)
(***************************************************************************)
EXTENDS Roles, Sequences

CONSTANTS Emails,
          Positions,    \* StaffPosition, which names roles as well
          Gone,         \* no staff row
          MaxAttempts

ASSUME ClerkAssumption ==
  /\ Positions \subseteq RoleNames
  /\ "CUSTOMER" \in RoleNames
  /\ Gone \notin Positions
  /\ MaxAttempts \in Nat \ {0}

VARIABLES
  staff,      \* staff[e]: the position of the staff member with email e, or Gone
  task,       \* task[k]: the row of ClerkSyncTask with key k
  log,        \* the keys in the order of their rows
  queue,      \* the keys of the rows that are due, in the order of nextRetryAt
  account,    \* account[e]: the user id with email e, or NoId
  used,       \* the ids that were given out
  metadata,   \* metadata[u]: the position in the metadata of u
  webhooks,   \* the ids whose user.created event is still to be recorded
  \* history
  applied,    \* applied[e]: the key that last wrote the account of e, or NoKey
  disordered  \* emails whose changes were not applied in the order they were
              \* made: a task ran after a later one, or was taken for a later one

directory == <<account, used, metadata, webhooks>>
sync      == <<staff, task, log, queue, directory, applied, disordered>>
vars      == <<roles, sync>>

Keys == [action : {"UPSERT"}, email : Emails, position : Positions]
        \cup [action : {"DELETE"}, email : Emails, position : {Gone}]
Key(e, p) == [action |-> IF p = Gone THEN "DELETE" ELSE "UPSERT", email |-> e, position |-> p]

NoKey  == [action |-> "none", email |-> Gone, position |-> Gone]
NoTask == [status |-> "none", attempts |-> 0, dead |-> FALSE]
Row(status) == [NoTask EXCEPT !.status = status]

Open(k) == task[k].status \in {"PENDING", "PROCESSING", "FAILED"}

\* Row k was created before row l.
Before(k, l) == \E i, j \in 1 .. Len(log) : i < j /\ log[i] = k /\ log[j] = l

\* k is the newest row of its email.
Newest(k) == ~\E l \in Keys : l.email = k.email /\ Before(k, l)

-----------------------------------------------------------------------------
(* The staff.                                                              *)

\* Mutant: a row that has succeeded stands for the new one as well.
EnqueueOnce(k) ==
  IF task[k].status # "none"
  THEN /\ disordered' = IF Newest(k) /\ task[k].status # "PROCESSING" THEN disordered
                        ELSE disordered \cup {k.email}
       /\ UNCHANGED <<task, log, queue>>
  ELSE /\ task'  = [task EXCEPT ![k] = Row("PENDING")]
       /\ log'   = Append(log, k)
       /\ queue' = Append(queue, k)
       /\ disordered' = disordered \ {k.email}

\* enqueueUpsert, enqueueDelete: an open row stands for the new one.
Enqueue(k) ==
  IF Open(k)
  THEN /\ disordered' = IF Newest(k) /\ task[k].status # "PROCESSING" THEN disordered
                        ELSE disordered \cup {k.email}
       /\ UNCHANGED <<task, log, queue>>
  ELSE /\ task[k].status = "none"
       /\ task'  = [task EXCEPT ![k] = Row("PENDING")]
       /\ log'   = Append(log, k)
       /\ queue' = Append(queue, k)
       /\ disordered' = disordered \ {k.email}

\* create, update and, with Gone, remove.  When the row of a former task with
\* the same key has succeeded, the insertion fails and nothing is changed.
SaveStaff(e, p) ==
  /\ requests < MaxRequests
  /\ p = Gone => staff[e] # Gone
  /\ requests' = requests + 1
  /\ staff' = [staff EXCEPT ![e] = p]
  /\ Enqueue(Key(e, p))
  /\ UNCHANGED <<tables, cache, pc, job, marks, directory, applied>>

-----------------------------------------------------------------------------
(* processDueTasks.  job.batch holds the keys with the attempts that were   *)
(* read; the first is the task in work, and job.user the account found.     *)

ProcessDueTasks(h) ==
  /\ queue # <<>>
  /\ Begin(h, [NoJob EXCEPT !.op = "sync",
                 !.batch = [i \in 1 .. Len(queue) |->
                              [key |-> queue[i], attempts |-> task[queue[i]].attempts]]],
           "lock")
  /\ UNCHANGED <<tables, cache, requests, marks, sync>>

Current(h) == Head(job[h].batch).key

\* The next task of the batch.
NextTask(h) ==
  IF Len(job[h].batch) = 1 THEN Finish(h)
  ELSE /\ job' = [job EXCEPT ![h] = [NoJob EXCEPT !.op = "sync", !.batch = Tail(job[h].batch)]]
       /\ pc'  = [pc EXCEPT ![h] = "lock"]
       /\ UNCHANGED requests

\* A task in work is not due.  A key is in the queue once at most.
Dequeued(k) ==
  IF \E i \in 1 .. Len(queue) : queue[i] = k
  THEN LET i == CHOOSE j \in 1 .. Len(queue) : queue[j] = k
       IN SubSeq(queue, 1, i - 1) \o SubSeq(queue, i + 1, Len(queue))
  ELSE queue

\* Mutant: a task that another run has taken is taken as well.
LockTaskAnyway(h) ==
  LET k == Current(h) IN
  /\ pc[h] = "lock"
  /\ task'  = [task EXCEPT ![k].status = "PROCESSING"]
  /\ queue' = Dequeued(k)
  /\ Goto(h, "find")
  /\ UNCHANGED <<tables, cache, marks, staff, log, directory, applied, disordered>>

\* The conditional update: not if another run took it, or has failed since.
LockTask(h) ==
  LET k == Current(h) IN
  /\ pc[h] = "lock"
  /\ IF task[k].status \in {"PENDING", "FAILED"}
        /\ task[k].attempts = Head(job[h].batch).attempts
     THEN /\ task'  = [task EXCEPT ![k].status = "PROCESSING"]
          /\ queue' = Dequeued(k)
          /\ Goto(h, "find")
     ELSE NextTask(h) /\ UNCHANGED <<task, queue>>
  /\ UNCHANGED <<tables, cache, marks, staff, log, directory, applied, disordered>>

\* The task has done what it asks of the account of its email.
Applies(k) ==
  /\ applied' = [applied EXCEPT ![k.email] = k]
  /\ disordered' = IF applied[k.email] # NoKey /\ Before(k, applied[k.email])
                   THEN disordered \cup {k.email} ELSE disordered

\* getUserList.
FindAccount(h) ==
  LET k == Current(h)
      u == account[k.email]
  IN
  /\ pc[h] = "find"
  /\ job' = [job EXCEPT ![h].user = u, ![h].users = {u} \ {NoId}]
  /\ pc'  = [pc EXCEPT ![h] = IF k.action = "UPSERT"
                               THEN IF u = NoId THEN "createUser" ELSE "updateUser"
                               ELSE IF u = NoId THEN "succeed" ELSE "deleteUser"]
  /\ IF k.action = "DELETE" /\ u = NoId THEN Applies(k) ELSE UNCHANGED <<applied, disordered>>
  /\ UNCHANGED <<tables, cache, requests, marks, staff, task, log, queue, directory>>

\* Mutant: the attempts are not counted against their limit.
FailTaskForEver(h, retryable) ==
  LET k == Current(h)
      n == Head(job[h].batch).attempts + 1
  IN
  /\ task' = [task EXCEPT ![k] = [status |-> "FAILED", attempts |-> n, dead |-> ~retryable]]
  /\ NextTask(h)

\* The catch clause: a task is retried, or given up.
FailTask(h, retryable) ==
  LET k == Current(h)
      n == Head(job[h].batch).attempts + 1
  IN
  /\ task' = [task EXCEPT ![k] = [status |-> "FAILED", attempts |-> n,
                                  dead |-> n >= MaxAttempts \/ ~retryable]]
  /\ NextTask(h)

\* An await of the try block is rejected and has done nothing: a timeout, or
\* what no retry can help (a second account of one email, an account that is
\* gone).  A cache entry that was not deleted is left to a retry.
CallFails(h, retryable) ==
  /\ pc[h] \in {"find", "createUser", "updateUser", "deleteUser", "role", "forget", "succeed"}
  /\ FailTask(h, retryable)
  /\ Disown(h)
  /\ UNCHANGED <<tables, cache, staff, log, queue, directory, applied, disordered>>

\* The answer of a call arrives, or is lost and the task fails.
Answer(h, step) == \/ Goto(h, step) /\ UNCHANGED task
                   \/ FailTask(h, TRUE)

CreateUser(h, u) ==
  LET k == Current(h) IN
  /\ pc[h] = "createUser" /\ account[k.email] = NoId /\ u \notin used
  /\ used'     = used \cup {u}
  /\ account'  = [account EXCEPT ![k.email] = u]
  /\ metadata' = [metadata EXCEPT ![u] = k.position]
  /\ webhooks' = webhooks \cup {u}
  /\ Applies(k)
  /\ \/ /\ job' = [job EXCEPT ![h].user = u, ![h].users = {u}]
        /\ pc'  = [pc EXCEPT ![h] = "role"]
        /\ UNCHANGED <<task, requests>>
     \/ FailTask(h, TRUE)
  /\ UNCHANGED <<tables, cache, marks, staff, log, queue>>

UpdateUser(h) ==
  LET k == Current(h) IN
  /\ pc[h] = "updateUser" /\ account[k.email] = job[h].user
  /\ metadata' = [metadata EXCEPT ![job[h].user] = k.position]
  /\ Applies(k)
  /\ Answer(h, "role")
  /\ UNCHANGED <<tables, cache, marks, staff, log, queue, account, used, webhooks>>

\* The roles of the account stay.
DeleteUser(h) ==
  LET k == Current(h) IN
  /\ pc[h] = "deleteUser" /\ account[k.email] = job[h].user
  /\ account' = [account EXCEPT ![k.email] = NoId]
  /\ Applies(k)
  /\ Answer(h, "succeed")
  /\ UNCHANGED <<tables, cache, marks, staff, log, queue, used, metadata, webhooks>>

\* syncPositionRole: the roles of other positions go, ADMIN among them.
SyncPositionRole(h) ==
  LET u == job[h].user
      p == Current(h).position
  IN
  /\ pc[h] = "role"
  /\ rows' = [rows EXCEPT ![u] = [r \in RoleNames |->
                IF r = p THEN IF @[r] = 0 THEN 1 ELSE @[r]
                ELSE IF r \in Positions THEN 0 ELSE @[r]]]
  /\ Outdates(h, {u})
  /\ Goto(h, "forget")
  /\ UNCHANGED <<grants, cache, sync>>

\* Its last await.
ForgetPermissions(h) ==
  /\ pc[h] = "forget"
  /\ DropEntries(h, job[h].users)
  /\ Goto(h, "succeed")
  /\ UNCHANGED sync

SucceedTask(h) ==
  /\ pc[h] = "succeed"
  /\ task' = [task EXCEPT ![Current(h)].status = "SUCCEEDED"]
  /\ NextTask(h)
  /\ UNCHANGED <<tables, cache, marks, staff, log, queue, directory, applied, disordered>>

\* nextRetryAt; the year of a task that was given up does not end.
BecomeDue(k) ==
  /\ task[k].status = "FAILED" /\ ~task[k].dead
  /\ \A i \in 1 .. Len(queue) : queue[i] # k
  /\ queue' = Append(queue, k)
  /\ UNCHANGED <<roles, staff, task, log, directory, applied, disordered>>

-----------------------------------------------------------------------------
(* A customer registers an account without a position, at the directory.    *)

Register(e, u) ==
  /\ requests < MaxRequests
  /\ account[e] = NoId /\ u \notin used
  /\ requests' = requests + 1
  /\ used'     = used \cup {u}
  /\ account'  = [account EXCEPT ![e] = u]
  /\ metadata' = [metadata EXCEPT ![u] = Gone]
  /\ webhooks' = webhooks \cup {u}
  /\ UNCHANGED <<tables, cache, pc, job, marks, staff, task, log, queue, applied, disordered>>

(* processClerkWebhook of user.created: looked up, handled, recorded.  The  *)
(* directory delivers an event until it was recorded.  (user.deleted looks  *)
(* for a clerkUserId and finds none.)                                       *)

ReceiveWebhook(h, u) ==
  /\ u \in webhooks
  /\ Begin(h, [NoJob EXCEPT !.op = "webhook", !.user = u, !.role = "CUSTOMER", !.users = {u}],
           "anyRole")
  /\ UNCHANGED <<tables, cache, requests, marks, sync>>

\* assignCustomerRoleIfMissing.
CheckAnyRole(h) ==
  /\ pc[h] = "anyRole"
  /\ Goto(h, IF Held(job[h].user) = {} THEN "check" ELSE "record")
  /\ UNCHANGED <<tables, cache, marks, sync>>

\* invalidatePermissionsCache, the last await of the requests; the webhook is
\* recorded after it.
InvalidateAndReturn(h) ==
  /\ pc[h] = "invalidate"
  /\ DropEntries(h, job[h].users)
  /\ IF job[h].op = "webhook" THEN Goto(h, "record") ELSE Finish(h)
  /\ UNCHANGED sync

\* The second of two deliveries fails on the unique event id.
RecordWebhook(h) ==
  /\ pc[h] = "record"
  /\ webhooks' = webhooks \ {job[h].user}
  /\ Finish(h)
  /\ UNCHANGED <<tables, cache, marks, staff, task, log, queue, account, used, metadata,
                 applied, disordered>>

-----------------------------------------------------------------------------

Sync(h) ==
  \/ LockTask(h) \/ FindAccount(h)
  \/ \E u \in Ids : CreateUser(h, u)
  \/ UpdateUser(h) \/ DeleteUser(h) \/ SyncPositionRole(h) \/ ForgetPermissions(h)
  \/ SucceedTask(h)

Webhook(h) == CheckAnyRole(h) \/ RecordWebhook(h)

Proceed(h) == Sync(h) \/ Webhook(h) \/ InvalidateAndReturn(h) \/ (RoleStep(h) /\ UNCHANGED sync)

Next ==
  \/ \E h \in Handlers :
       \/ Proceed(h)
       \/ \E retryable \in BOOLEAN : CallFails(h, retryable)
       \/ ProcessDueTasks(h)
       \/ \E u \in Ids : ReceiveWebhook(h, u)
       \/ (RoleRequest(h) \/ Stop(h)) /\ UNCHANGED sync
  \/ \E e \in Emails, p \in Positions \cup {Gone} : SaveStaff(e, p)
  \/ \E e \in Emails, u \in Ids : Register(e, u)
  \/ \E k \in Keys : BecomeDue(k)
  \/ \E u \in Ids : ExpireEntry(u) /\ UNCHANGED sync

\* Staff that is in line with the directory, where a customer may have registered,
\* and one administrator without a staff row, whom two overlapping assignments may
\* have given two rows.
Init ==
  /\ RolesInit
  /\ staff    \in [Emails -> Positions \cup {Gone}]
  /\ account  \in {f \in [Emails -> Ids \cup {NoId}] :
                     /\ \A e \in Emails : f[e] = NoId => staff[e] = Gone
                     /\ \A e, d \in Emails : f[e] = f[d] => e = d \/ f[e] = NoId}
  /\ metadata = [u \in Ids |-> IF \E e \in Emails : account[e] = u
                               THEN staff[CHOOSE e \in Emails : account[e] = u] ELSE Gone]
  /\ \E boss \in Ids \ {account[e] : e \in Emails}, n \in 1 .. 2 :
       /\ rows = [u \in Ids |-> [r \in RoleNames |->
                    IF u = boss /\ r = "ADMIN" THEN n
                    ELSE IF \/ r = metadata[u]
                            \/ r = "CUSTOMER" /\ \E e \in Emails : account[e] = u /\ staff[e] = Gone
                         THEN 1 ELSE 0]]
       /\ used = {boss} \cup ({account[e] : e \in Emails} \ {NoId})
  /\ task     = [k \in Keys |-> IF k.position = staff[k.email] /\ k.position # Gone
                                THEN Row("SUCCEEDED") ELSE NoTask]
  /\ log      = <<>>
  /\ queue    = <<>>
  /\ webhooks = {}
  /\ applied  = [e \in Emails |-> NoKey]
  /\ disordered = {}

Spec == Init /\ [][Next]_vars

-----------------------------------------------------------------------------
(* Properties.                                                             *)

Steps == {"idle", "read", "fill", "check", "create", "invalidate", "count", "delete", "grant",
          "list", "lock", "find", "createUser", "updateUser", "deleteUser", "role", "forget",
          "succeed", "anyRole", "record"}

\* A task has no more attempts than it may, and is due only while it is open.
TypeOK ==
  /\ rows \in [Ids -> [RoleNames -> Nat]] /\ grants \in [RoleNames -> SUBSET Permissions]
  /\ cache \in [Ids -> (SUBSET Permissions) \cup {NoEntry}]
  /\ pc \in [Handlers -> Steps]
  /\ requests \in 0 .. MaxRequests
  /\ owed \in [Handlers -> SUBSET Ids]
  /\ overtaken \subseteq Handlers /\ outdated \subseteq Ids
  /\ staff \in [Emails -> Positions \cup {Gone}]
  /\ task \in [Keys -> [status : {"none", "PENDING", "PROCESSING", "FAILED", "SUCCEEDED"},
                        attempts : 0 .. MaxAttempts, dead : BOOLEAN]]
  /\ log \in Seq(Keys) /\ queue \in Seq(Keys)
  /\ \A i \in 1 .. Len(queue) : task[queue[i]].status \in {"PENDING", "FAILED"}
  /\ account \in [Emails -> used \cup {NoId}]
  /\ used \subseteq Ids /\ webhooks \subseteq used
  /\ metadata \in [Ids -> Positions \cup {Gone}]
  /\ disordered \subseteq Emails

Settled(e) == \A k \in Keys : k.email = e => task[k].status \in {"none", "SUCCEEDED"}

\* The position that the directory shows for e.
Shown(e) == IF account[e] = NoId THEN Gone ELSE metadata[account[e]]

\* When all tasks of a staff member have succeeded, the account has the
\* position of the staff row, or is gone with it, but for one that a customer
\* has registered; unless a retry came after a newer task, or the newest change
\* was taken for a task that was open before.
DirectoryFollowsStaff ==
  \A e \in Emails : (Settled(e) /\ e \notin disordered) => Shown(e) = staff[e]

Working(h) == pc[h] \in {"find", "createUser", "updateUser", "deleteUser", "role", "forget",
                         "succeed"}

\* No two runs of the cron job, on one replica or two, work on one task.
OneRunPerTask ==
  \A g, h \in Handlers : (g # h /\ Working(g) /\ Working(h)) => Current(g) # Current(h)

\* A cache entry shows the permissions of its user, unless a handler is about
\* to delete it, the handler that had to do so was stopped, or it was written by
\* a reader that a change has overtaken between its read and its write
\* (user.service.ts:52).
PermissionsAreFresh ==
  \A u \in Ids :
    \/ cache[u] \in {NoEntry, Effective(u)}
    \/ u \in outdated
    \/ \E h \in Handlers : u \in owed[h]

\* A removal does not take the last administrator (rbac.service.ts:141), unless
\* another handler has changed the administrators since they were counted, or the
\* two rows of one administrator were counted as two.  Otherwise the last one goes
\* only by a change of the position: syncPositionRole does not count.
LastAdminIsKept ==
  [][(Having("ADMIN") # {} /\ Having("ADMIN")' = {}) =>
       \E h \in Handlers :
         \/ pc[h] = "role"
         \/ pc[h] = "delete" /\ (h \in overtaken \/ rows[job[h].user]["ADMIN"] > 1)]_vars
=============================================================================
