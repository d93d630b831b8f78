-------------------------------- MODULE Roles --------------------------------
(***************************************************************************)
(* The roles of users, the permissions of roles, and the cache of the      *)
(* permissions of each user (rbac.service.ts, user.service.ts).  ClerkSync *)
(* composes them with the staff and the external directory.                *)
(*                                                                         *)
(* The table of roles has a row per assignment and nothing makes it        *)
(* unique.  A change commits, and deletes the cache entry in a later       *)
(* await; a miss of the cache reads, and writes the entry in a later       *)
(* await.  A step of a handler is one await; the two reads before the      *)
(* removal of an ADMIN are one step, and so is a transaction.              *)
(***************************************************************************)
EXTENDS Integers, FiniteSets

CONSTANTS Ids,         \* the user ids of the external directory
          NoId,
          RoleNames,
          Permissions,
          Handlers,    \* requests, webhooks and cron runs in progress
          MaxRequests  \* bound: the requests of back office and clients

NoEntry == {"no entry"}

ASSUME RolesAssumption ==
  /\ NoId \notin Ids
  /\ "ADMIN" \in RoleNames
  /\ "no entry" \notin Permissions
  /\ MaxRequests \in Nat

VARIABLES
  rows,      \* rows[u][r]: how many rows of UserRole give role r to u
  grants,    \* grants[r]: the permissions of role r
  cache,     \* cache[u]: the entry permissions:u, or NoEntry
  pc,        \* pc[h]: the next await of handler h
  job,       \* job[h]: what it works on
  requests,  \* the requests so far
  \* history
  owed,      \* owed[h]: the users whose entry h has outdated and will delete
  overtaken, \* handlers whose read was outdated by another before its write
  outdated   \* users whose entry such a handler wrote, or nobody will delete

tables  == <<rows, grants>>
control == <<pc, job, requests>>
marks   == <<owed, overtaken, outdated>>
roles   == <<tables, cache, control, marks>>

NoJob == [op |-> "none", user |-> NoId, role |-> "none", users |-> {}, perms |-> {},
          batch |-> <<>>]

Held(u)      == {r \in RoleNames : rows[u][r] > 0}
Having(r)    == {u \in Ids : rows[u][r] > 0}
Effective(u) == UNION {grants[r] : r \in Held(u)}

\* The row of u is the only one of an administrator.
OnlyAdminRow(u) == rows[u]["ADMIN"] = 1 /\ Having("ADMIN") = {u}

-----------------------------------------------------------------------------
(* Handlers and history.                                                   *)

Begin(h, j, step) ==
  /\ pc[h] = "idle"
  /\ pc'  = [pc EXCEPT ![h] = step]
  /\ job' = [job EXCEPT ![h] = j]

Request(h, j, step) ==
  /\ requests < MaxRequests
  /\ requests' = requests + 1
  /\ Begin(h, j, step)

Goto(h, step) == pc' = [pc EXCEPT ![h] = step] /\ UNCHANGED <<job, requests>>

Finish(h) ==
  /\ pc'  = [pc EXCEPT ![h] = "idle"]
  /\ job' = [job EXCEPT ![h] = NoJob]
  /\ UNCHANGED requests

\* The rows of the administrators change in this step.
AdminsChange == \E u \in Ids : rows[u]["ADMIN"] # rows'[u]["ADMIN"]

\* The permissions of the users in S change, and h will delete their entries.
Outdates(h, S) ==
  /\ owed' = [owed EXCEPT ![h] = S]
  /\ overtaken' = overtaken
       \cup {g \in Handlers : pc[g] = "fill" /\ job[g].user \in S}
       \cup {g \in Handlers \ {h} : pc[g] = "delete" /\ job[g].role = "ADMIN" /\ AdminsChange}
  /\ UNCHANGED outdated

-----------------------------------------------------------------------------
(* getPermissions: a hit returns the entry, a miss fills it.               *)

GetPermissions(h, u) ==
  /\ cache[u] = NoEntry
  /\ Request(h, [NoJob EXCEPT !.op = "get", !.user = u], "read")
  /\ UNCHANGED <<tables, cache, marks>>

ReadPermissions(h) ==
  /\ pc[h] = "read"
  /\ job' = [job EXCEPT ![h].perms = Effective(job[h].user)]
  /\ pc'  = [pc EXCEPT ![h] = "fill"]
  /\ overtaken' = overtaken \ {h}
  /\ UNCHANGED <<tables, cache, requests, owed, outdated>>

FillCache(h) ==
  LET u == job[h].user IN
  /\ pc[h] = "fill"
  /\ cache' = [cache EXCEPT ![u] = job[h].perms]
  /\ outdated' = IF h \in overtaken THEN outdated \cup {u} ELSE outdated \ {u}
  /\ Finish(h)
  /\ UNCHANGED <<tables, owed, overtaken>>

ExpireEntry(u) ==
  /\ cache[u] # NoEntry
  /\ cache' = [cache EXCEPT ![u] = NoEntry]
  /\ outdated' = outdated \ {u}
  /\ UNCHANGED <<tables, control, owed, overtaken>>

\* invalidatePermissionsCache of the users in S.
DropEntries(h, S) ==
  /\ cache'    = [u \in Ids |-> IF u \in S THEN NoEntry ELSE cache[u]]
  /\ outdated' = outdated \ S
  /\ owed'     = [owed EXCEPT ![h] = {}]
  /\ UNCHANGED <<tables, overtaken>>

-----------------------------------------------------------------------------
(* assignUserRole, removeUserRole, upsertRolePermissions.                   *)

AssignUserRole(h, u, r) ==
  /\ Request(h, [NoJob EXCEPT !.op = "assign", !.user = u, !.role = r, !.users = {u}], "check")
  /\ UNCHANGED <<tables, cache, marks>>

CheckRow(h) ==
  /\ pc[h] = "check"
  /\ Goto(h, IF rows[job[h].user][job[h].role] > 0 THEN "invalidate" ELSE "create")
  /\ UNCHANGED <<tables, cache, marks>>

CreateRow(h) ==
  LET u == job[h].user IN
  /\ pc[h] = "create"
  /\ rows' = [rows EXCEPT ![u][job[h].role] = @ + 1]
  /\ Outdates(h, {u})
  /\ Goto(h, "invalidate")
  /\ UNCHANGED <<grants, cache>>

RemoveUserRole(h, u, r) ==
  /\ Request(h, [NoJob EXCEPT !.op = "remove", !.user = u, !.role = r, !.users = {u}],
             IF r = "ADMIN" THEN "count" ELSE "delete")
  /\ UNCHANGED <<tables, cache, marks>>

\* Mutant: the last administrator is not looked for.
CountAdminsIgnored(h) ==
  /\ pc[h] = "count"
  /\ overtaken' = overtaken \ {h}
  /\ Goto(h, "delete")
  /\ UNCHANGED <<tables, cache, owed, outdated>>

\* Rows are counted, not users.
CountAdmins(h) ==
  /\ pc[h] = "count"
  /\ overtaken' = overtaken \ {h}
  /\ IF OnlyAdminRow(job[h].user) THEN Finish(h) ELSE Goto(h, "delete")
  /\ UNCHANGED <<tables, cache, owed, outdated>>

\* Mutant: the entry of the user is left.
DeleteRowsOnly(h) ==
  LET u == job[h].user IN
  /\ pc[h] = "delete"
  /\ rows' = [rows EXCEPT ![u][job[h].role] = 0]
  /\ Outdates(h, {})
  /\ Finish(h)
  /\ UNCHANGED <<grants, cache>>

DeleteRows(h) ==
  LET u == job[h].user IN
  /\ pc[h] = "delete"
  /\ rows' = [rows EXCEPT ![u][job[h].role] = 0]
  /\ Outdates(h, {u})
  /\ Goto(h, "invalidate")
  /\ UNCHANGED <<grants, cache>>

UpsertRolePermissions(h, r, P) ==
  /\ Request(h, [NoJob EXCEPT !.op = "grant", !.role = r, !.perms = P], "grant")
  /\ UNCHANGED <<tables, cache, marks>>

ReplaceGrants(h) ==
  LET r == job[h].role IN
  /\ pc[h] = "grant"
  /\ grants' = [grants EXCEPT ![r] = job[h].perms]
  /\ UNCHANGED <<rows, cache>>
  /\ Outdates(h, Having(r))
  /\ Goto(h, "list")

\* Who lost the role meanwhile is told by the one who took it.
ListUsers(h) ==
  LET S == Having(job[h].role) IN
  /\ pc[h] = "list"
  /\ job'  = [job EXCEPT ![h].users = S]
  /\ pc'   = [pc EXCEPT ![h] = "invalidate"]
  /\ owed' = [owed EXCEPT ![h] = @ \cap S]
  /\ UNCHANGED <<tables, cache, requests, overtaken, outdated>>

\* The entries that h has outdated stay.
Disown(h) ==
  /\ outdated' = outdated \cup {u \in owed[h] : cache[u] # NoEntry}
  /\ owed'     = [owed EXCEPT ![h] = {}]
  /\ UNCHANGED overtaken

\* A promise is rejected, or the service restarts.
Stop(h) ==
  /\ pc[h] # "idle"
  /\ Finish(h)
  /\ Disown(h)
  /\ UNCHANGED <<tables, cache>>

RolesInit ==
  /\ cache     = [u \in Ids |-> NoEntry]
  /\ pc        = [h \in Handlers |-> "idle"]
  /\ job       = [h \in Handlers |-> NoJob]
  /\ grants    = [r \in RoleNames |-> IF r = "ADMIN" THEN Permissions ELSE {}]
  /\ requests  = 0
  /\ owed      = [h \in Handlers |-> {}]
  /\ overtaken = {} /\ outdated = {}

RoleRequest(h) ==
  /\ pc[h] = "idle" /\ requests < MaxRequests
  /\ \/ \E u \in Ids : \/ GetPermissions(h, u)
                        \/ \E r \in RoleNames : AssignUserRole(h, u, r) \/ RemoveUserRole(h, u, r)
     \/ \E r \in RoleNames, P \in SUBSET Permissions : UpsertRolePermissions(h, r, P)

RoleStep(h) ==
  \/ ReadPermissions(h) \/ FillCache(h)
  \/ CheckRow(h) \/ CreateRow(h)
  \/ CountAdmins(h) \/ DeleteRows(h)
  \/ ReplaceGrants(h) \/ ListUsers(h)
=============================================================================
