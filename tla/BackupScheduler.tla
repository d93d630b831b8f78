--------------------------- MODULE BackupScheduler ---------------------------
(***************************************************************************)
(* The backups of the databases: scheduled cycles, manual backups,         *)
(* restores and cleanups that exclude each other by a flag in memory, and  *)
(* the timer that every cycle sets again for the next (backup.service.ts,  *)
(* scheduler.service.ts, sqlite.service.ts).                               *)
(*                                                                         *)
(* A step is one await.  Time is the hour of the week, from Sunday 00:00   *)
(* UTC, and passes between the hours of Moments; a timer is on time, and   *)
(* goes before requests that arrive with it, as the event loop has it.     *)
(* The service runs in one replica; a restart kills what runs and loses    *)
(* the flag and the timer.                                                 *)
(***************************************************************************)
EXTENDS Integers, Sequences

CONSTANTS Services,     \* the services with a database, in the order of a cycle
          Handlers,     \* requests and cycles in progress
          Moments       \* bound: the hours of a day at which something happens

\* Every hour at which a timer may fire is a moment.
ASSUME BackupAssumption ==
  /\ Services # <<>> /\ Services \in Seq(STRING \ {"none"})
  /\ Moments \subseteq 0 .. 23 /\ {0, 2, 6, 12, 18} \subseteq Moments

Presets == {"EVERY_6_HOURS", "DAILY", "WEEKLY"}
Week    == 168
NoTimer == -1
Names   == {Services[i] : i \in DOMAIN Services}

VARIABLES
  clock,     \* the time of the week
  timer,     \* the hours until it fires, or NoTimer
  preset,    \* preset_key of backup_schedule_state
  isRunning, \* the flag
  inProgress, \* the services whose newest row is IN_PROGRESS, not SUCCESS or FAILED
  pc, job,   \* the handlers: the next await; what they do, and what is left
  \* history of the model
  broken,    \* a cycle ended with an error since the timer was set
  raced,     \* the timer was set from a preset that was replaced meanwhile
  cut        \* services whose newest backup was ended by an error or a restart

control == <<pc, job>>
vars == <<clock, timer, preset, isRunning, inProgress, control, broken, raced, cut>>

NoJob == [op |-> "none", left |-> <<>>, service |-> "none", preset |-> "none"]

-----------------------------------------------------------------------------
(* getNextRunAt.                                                           *)

Later(a, b) == IF a > b THEN a ELSE b

At2(day) == day * 24 + 2

\* Mutant: the days of the week are counted from Monday.
NextRunOnSaturday(p, now) ==
  LET day  == now \div 24
      hour == now % 24
      next == At2(day)
      wait == 6 - day
  IN CASE p = "EVERY_6_HOURS" -> day * 24 + ((hour + 6) \div 6) * 6
       [] p = "WEEKLY" ->
            IF wait = 0 /\ next <= now THEN next + 7 * 24
            ELSE IF wait > 0 THEN next + wait * 24 ELSE next
       [] p = "DAILY" -> IF next <= now THEN next + 24 ELSE next

\* The time of the next run, which may lie in the next week: hour 24 of a day
\* is hour 0 of the next.
NextRunAt(p, now) ==
  LET day  == now \div 24
      hour == now % 24
      next == At2(day)
      wait == (7 - day) % 7
  IN CASE p = "EVERY_6_HOURS" -> day * 24 + ((hour + 6) \div 6) * 6
       [] p = "WEEKLY" ->
            IF wait = 0 /\ next <= now THEN next + 7 * 24
            ELSE IF wait > 0 THEN next + wait * 24 ELSE next
       [] p = "DAILY" -> IF next <= now THEN next + 24 ELSE next

-----------------------------------------------------------------------------
(* Handlers.                                                               *)

Goto(h, step) == pc' = [pc EXCEPT ![h] = step] /\ UNCHANGED job

Begin(h, j, step) ==
  /\ pc[h] = "idle"
  /\ pc'  = [pc EXCEPT ![h] = step]
  /\ job' = [job EXCEPT ![h] = j]

\* Mutant: the handler keeps what it worked on.
FinishKeepsJob(h) == Goto(h, "idle")

Finish(h) ==
  /\ pc'  = [pc EXCEPT ![h] = "idle"]
  /\ job' = [job EXCEPT ![h] = NoJob]

Scheduled(h) == job[h].op \in {"cycle", "skipped"}

\* runExclusive.
StartExclusive(h, j, step) ==
  /\ ~isRunning /\ timer # 0
  /\ isRunning' = TRUE
  /\ Begin(h, j, step)
  /\ UNCHANGED <<clock, timer, preset, inProgress, broken, raced, cut>>

\* triggerManualBackup and restoreBackup: they differ in the script.
BackUpOrRestore(h, s) == StartExclusive(h, [NoJob EXCEPT !.op = "manual", !.left = <<s>>], "record")

\* But for a dry run.
RunCleanup(h) == StartExclusive(h, [NoJob EXCEPT !.op = "cleanup"], "script")

\* Mutant: a cycle that is skipped clears the flag as one that ends.
FireAndClear(h) ==
  /\ timer = 0
  /\ timer' = NoTimer
  /\ IF isRunning
     THEN /\ isRunning' = FALSE
          /\ Begin(h, [NoJob EXCEPT !.op = "skipped"], "getState")
     ELSE /\ isRunning' = TRUE
          /\ Begin(h, [NoJob EXCEPT !.op = "cycle", !.left = Services], "record")
  /\ UNCHANGED <<clock, preset, inProgress, broken, raced, cut>>

\* The timer: runScheduledCycle, with runScheduledBackupCycle.
Fire(h) ==
  /\ timer = 0
  /\ timer' = NoTimer
  /\ IF isRunning
     THEN /\ Begin(h, [NoJob EXCEPT !.op = "skipped"], "getState")
          /\ UNCHANGED isRunning
     ELSE /\ isRunning' = TRUE
          /\ Begin(h, [NoJob EXCEPT !.op = "cycle", !.left = Services], "record")
  /\ UNCHANGED <<clock, preset, inProgress, broken, raced, cut>>

RecordBackup(h) ==
  LET s == Head(job[h].left) IN
  /\ pc[h] = "record"
  /\ inProgress' = inProgress \cup {s}
  /\ cut' = cut \ {s}
  /\ job' = [job EXCEPT ![h].left = Tail(@), ![h].service = s]
  /\ pc'  = [pc EXCEPT ![h] = "script"]
  /\ UNCHANGED <<clock, timer, preset, isRunning, broken, raced>>

\* The script succeeds or fails, and never rejects.
RunScript(h) ==
  /\ pc[h] = "script"
  /\ Goto(h, "update")
  /\ UNCHANGED <<clock, timer, preset, isRunning, inProgress, broken, raced, cut>>

\* updateBackupStatus (for a cleanup deleteHistoryBefore, which reaches only
\* old rows), the next service, or the finally clause.
UpdateStatus(h) ==
  /\ pc[h] = "update"
  /\ inProgress' = inProgress \ {job[h].service}
  /\ IF job[h].left # <<>>
     THEN Goto(h, "record") /\ UNCHANGED isRunning
     ELSE /\ isRunning' = FALSE
          /\ IF job[h].op = "cycle" THEN Goto(h, "mark") ELSE Finish(h)
  /\ UNCHANGED <<clock, timer, preset, broken, raced, cut>>

\* markScheduleRun.
MarkScheduleRun(h) ==
  /\ pc[h] = "mark"
  /\ Goto(h, "getState")
  /\ UNCHANGED <<clock, timer, preset, isRunning, inProgress, broken, raced, cut>>

\* Mutant: a cycle that was skipped waits for the other to end.
GetScheduleStateLater(h) ==
  /\ pc[h] = "getState"
  /\ job[h].op = "skipped" => ~isRunning
  /\ job' = [job EXCEPT ![h].preset = preset]
  /\ pc'  = [pc EXCEPT ![h] = "schedule"]
  /\ UNCHANGED <<clock, timer, preset, isRunning, inProgress, broken, raced, cut>>

\* getScheduleState; also in onModuleInit.
GetScheduleState(h) ==
  /\ pc[h] = "getState"
  /\ job' = [job EXCEPT ![h].preset = preset]
  /\ pc'  = [pc EXCEPT ![h] = "schedule"]
  /\ UNCHANGED <<clock, timer, preset, isRunning, inProgress, broken, raced, cut>>

UpdateSchedule(h, p) ==
  /\ timer # 0
  /\ Begin(h, [NoJob EXCEPT !.op = "update", !.preset = p], "setPreset")
  /\ UNCHANGED <<clock, timer, preset, isRunning, inProgress, broken, raced, cut>>

SetSchedulePreset(h) ==
  /\ pc[h] = "setPreset"
  /\ preset' = job[h].preset
  /\ Goto(h, "schedule")
  /\ UNCHANGED <<clock, timer, isRunning, inProgress, broken, raced, cut>>

\* The timer in use is cleared; the next fires in a second at the earliest.
ScheduleNextRun(h) ==
  /\ pc[h] = "schedule"
  /\ timer'  = Later(0, NextRunAt(job[h].preset, clock) - clock)
  /\ broken' = FALSE
  /\ raced'  = (job[h].preset # preset)
  /\ Finish(h)
  /\ UNCHANGED <<clock, preset, isRunning, inProgress, cut>>

\* An error of the database, or no DATABASE_URL, which is read after the row was
\* inserted.  A cycle that fails sets no timer (scheduler.service.ts:46); an
\* error in onModuleInit ends the process.
Throw(h) ==
  /\ pc[h] \in {"record", "script", "update", "mark", "getState", "setPreset"}
  /\ job[h].op # "init"
  /\ isRunning' = IF pc[h] \in {"record", "script", "update"} THEN FALSE ELSE isRunning
  /\ cut'       = IF pc[h] \in {"script", "update"} /\ job[h].op # "cleanup"
                  THEN cut \cup {job[h].service} ELSE cut
  /\ broken'    = (broken \/ (Scheduled(h) /\ timer = NoTimer))
  /\ Finish(h)
  /\ UNCHANGED <<clock, timer, preset, inProgress, raced>>

\* The process ends, and onModuleInit of the next one reads the schedule.
Restart(h) ==
  /\ isRunning' = FALSE
  /\ timer'     = NoTimer
  /\ broken'    = FALSE /\ raced' = FALSE
  /\ cut'       = cut \cup {job[g].service : g \in {f \in Handlers :
                     pc[f] \in {"script", "update"} /\ job[f].op # "cleanup"}}
  /\ pc'  = [g \in Handlers |-> IF g = h THEN "getState" ELSE "idle"]
  /\ job' = [g \in Handlers |-> IF g = h THEN [NoJob EXCEPT !.op = "init"] ELSE NoJob]
  /\ UNCHANGED <<clock, preset, inProgress>>

\* The next moment.
Tick ==
  /\ timer # 0
  /\ \E d \in 1 .. 24 :
       /\ (clock + d) % 24 \in Moments
       /\ \A c \in 1 .. d - 1 : (clock + c) % 24 \notin Moments
       /\ clock' = (clock + d) % Week
       /\ timer' = IF timer = NoTimer THEN NoTimer ELSE timer - d
  /\ UNCHANGED <<preset, isRunning, inProgress, control, broken, raced, cut>>

-----------------------------------------------------------------------------

Init ==
  /\ clock \in {t \in 0 .. (Week - 1) : t % 24 \in Moments}
  /\ preset \in Presets
  /\ timer = NextRunAt(preset, clock) - clock
  /\ isRunning = FALSE
  /\ inProgress = {}
  /\ pc  = [h \in Handlers |-> "idle"]
  /\ job = [h \in Handlers |-> NoJob]
  /\ broken = FALSE /\ raced = FALSE /\ cut = {}

\* What a handler does next of its own accord.
Proceed(h) ==
  \/ RecordBackup(h) \/ RunScript(h) \/ UpdateStatus(h) \/ MarkScheduleRun(h)
  \/ GetScheduleState(h) \/ SetSchedulePreset(h) \/ ScheduleNextRun(h)

Next ==
  \/ \E h \in Handlers :
       \/ Proceed(h) \/ Fire(h) \/ Throw(h) \/ Restart(h)
       \/ RunCleanup(h) \/ \E s \in Names : BackUpOrRestore(h, s)
       \/ \E p \in Presets : UpdateSchedule(h, p)
  \/ Tick

\* The event loop goes on, and so does time.
Fairness ==
  /\ WF_vars(Tick) /\ WF_vars(\E h \in Handlers : Fire(h))
  /\ \A h \in Handlers : WF_vars(Proceed(h))

Spec == Init /\ [][Next]_vars /\ Fairness

-----------------------------------------------------------------------------
(* Properties.                                                             *)

Steps == {"idle", "record", "script", "update", "mark", "getState", "setPreset", "schedule"}

TypeOK ==
  /\ clock \in 0 .. (Week - 1) /\ timer \in -1 .. Week
  /\ preset \in Presets
  /\ isRunning \in BOOLEAN
  /\ cut \subseteq inProgress /\ inProgress \subseteq Names
  /\ pc \in [Handlers -> Steps]
  /\ \A h \in Handlers : pc[h] = "idle" <=> job[h] = NoJob
  /\ broken \in BOOLEAN /\ raced \in BOOLEAN

BackingUp(h) == pc[h] \in {"record", "script", "update"}

\* Backups, restores and cleanups exclude each other.  The flag is set exactly
\* while one of them is in work, also when a scheduled cycle was skipped for it;
\* and the newest row of a service is IN_PROGRESS only while its backup is in
\* work, or for ever after an error or a restart: nothing repairs it.
WorkIsTold ==
  /\ \A g, h \in Handlers : (BackingUp(g) /\ BackingUp(h)) => g = h
  /\ isRunning <=> \E h \in Handlers : BackingUp(h)
  /\ \A s \in inProgress \ cut :
       \E h \in Handlers : pc[h] \in {"script", "update"} /\ job[h].service = s

IsRunTime(p, t) ==
  CASE p = "EVERY_6_HOURS" -> t % 6 = 0
    [] p = "DAILY"         -> t % 24 = 2
    [] p = "WEEKLY"        -> t % Week = 2

\* No automatic backup is forgotten: either the timer is set, for the next hour
\* at which the cron line of the stored preset (schedule.types.ts:7) is due, or a
\* handler is on its way to set it; unless a cycle has failed
\* (scheduler.service.ts:46), or the preset was replaced between its reading and
\* the setting of the timer (scheduler.service.ts:50).
TimerIsNextRun ==
  IF timer = NoTimer THEN broken \/ \E h \in Handlers : Scheduled(h) \/ job[h].op = "init"
  ELSE raced \/ (\E h \in Handlers : pc[h] = "schedule") \/
       (timer > 0 => /\ IsRunTime(preset, clock + timer)
                     /\ \A d \in 1 .. (timer - 1) : ~IsRunTime(preset, clock + d))

\* As long as no cycle fails, and once there are no more restarts and changes of
\* the schedule, the timer is set and fires again and again, also when cycles are
\* skipped for a manual backup.
BackupsGoOn ==
  ([](~broken) /\ <>[](\A h \in Handlers : job[h].op \notin {"update", "init"})) =>
    ([]<>(timer = NoTimer) /\ []<>(timer # NoTimer))
=============================================================================
