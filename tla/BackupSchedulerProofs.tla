------------------------ MODULE BackupSchedulerProofs ------------------------
(***************************************************************************)
(* Proofs about the backup scheduler, for any services, any number of      *)
(* handlers and any moments of the day: types, the exclusion of backups    *)
(* and the rows they leave, and the timer of the next cycle.               *)
(***************************************************************************)
EXTENDS BackupScheduler, TLAPS

-----------------------------------------------------------------------------
(* getNextRunAt: the first hour after now at which the cron line is due.   *)

\* The hours of a day at which some schedule is due.
DueHours == {0, 2, 6, 12, 18}

LEMMA DayAndHour ==
  ASSUME NEW now \in 0 .. (Week - 1)
  PROVE  /\ now \div 24 \in 0 .. 6 /\ now % 24 \in 0 .. 23
         /\ now = ((now \div 24) * 24) + (now % 24)
  BY SMTT(30) DEF Week

LEMMA NextOfSixHours ==
  ASSUME NEW now \in 0 .. (Week - 1)
  PROVE  LET n == NextRunAt("EVERY_6_HOURS", now) IN
         /\ n \in Int /\ now < n /\ n <= now + 6
         /\ n % 6 = 0 /\ n % 24 \in DueHours
  <1> DEFINE day == now \div 24
             hour == now % 24
             q == (hour + 6) \div 6
  <1>1. day \in 0 .. 6 /\ hour \in 0 .. 23 /\ now = day * 24 + hour
    BY DayAndHour
  <1>2. q \in 1 .. 4 /\ hour < q * 6 /\ q * 6 <= hour + 6
    BY <1>1
  <1>3. NextRunAt("EVERY_6_HOURS", now) = day * 24 + q * 6
    BY DEF NextRunAt
  <1> HIDE DEF day, hour, q
  <1>4. (day * 24 + q * 6) % 24 \in DueHours /\ (day * 24 + q * 6) % 6 = 0
    BY <1>1, <1>2 DEF DueHours
  <1> QED
    BY <1>1, <1>2, <1>3, <1>4

LEMMA NextOfDay ==
  ASSUME NEW now \in 0 .. (Week - 1)
  PROVE  LET n == NextRunAt("DAILY", now) IN
         n \in Int /\ now < n /\ n <= now + 24 /\ n % 24 = 2
  <1> DEFINE day == now \div 24
             hour == now % 24
  <1>1. day \in 0 .. 6 /\ hour \in 0 .. 23 /\ now = day * 24 + hour
    BY DayAndHour
  <1>2. NextRunAt("DAILY", now) = IF At2(day) <= now THEN At2(day) + 24 ELSE At2(day)
    BY DEF NextRunAt
  <1> HIDE DEF day, hour
  <1> QED
    BY <1>1, <1>2 DEF At2

LEMMA NextOfWeek ==
  ASSUME NEW now \in 0 .. (Week - 1)
  PROVE  LET n == NextRunAt("WEEKLY", now) IN
         n \in Int /\ now < n /\ n <= now + Week /\ n % Week = 2 /\ n % 24 = 2
  <1> DEFINE day == now \div 24
             hour == now % 24
             wait == (7 - day) % 7
  <1>1. day \in 0 .. 6 /\ hour \in 0 .. 23 /\ now = day * 24 + hour
    BY DayAndHour
  <1>2. wait = IF day = 0 THEN 0 ELSE 7 - day
    BY <1>1
  <1>3. NextRunAt("WEEKLY", now) =
          IF wait = 0 /\ At2(day) <= now THEN At2(day) + 7 * 24
          ELSE IF wait > 0 THEN At2(day) + wait * 24 ELSE At2(day)
    BY DEF NextRunAt
  <1> HIDE DEF day, hour, wait
  <1> QED
    BY <1>1, <1>2, <1>3 DEF At2, Week

LEMMA NotBetweenSixes ==
  ASSUME NEW n \in Int, NEW t \in Int, n % 6 = 0, n - 6 < t, t < n
  PROVE  t % 6 # 0
  BY SMT

\* The next run is within a week, at an hour at which the preset is due, and the
\* preset is due at no hour before.
LEMMA NextRunIsNext ==
  ASSUME NEW p \in Presets, NEW now \in 0 .. (Week - 1), NEW n, n = NextRunAt(p, now) - now
  PROVE  /\ n \in 1 .. Week
         /\ (now + n) % 24 \in DueHours
         /\ IsRunTime(p, now + n)
         /\ \A d \in 1 .. (n - 1) : ~IsRunTime(p, now + d)
  <1>1. CASE p = "EVERY_6_HOURS"
    <2> DEFINE N == NextRunAt("EVERY_6_HOURS", now)
    <2>1. N \in Int /\ now < N /\ N <= now + 6 /\ N % 6 = 0 /\ N % 24 \in DueHours
      BY NextOfSixHours
    <2>2. n = N - now
      BY <1>1
    <2> HIDE DEF N
    <2>3. now \in Int /\ now >= 0
      BY DEF Week
    <2>4. n \in 1 .. 6 /\ now + n = N
      BY <2>1, <2>2, <2>3
    <2>5. ASSUME NEW d \in 1 .. (n - 1)
          PROVE  (now + d) % 6 # 0
      <3>1. now + d \in Int /\ N - 6 < now + d /\ now + d < N
        BY <2>1, <2>3, <2>4
      <3> QED
        BY <2>1, <3>1, NotBetweenSixes
    <2>6. n \in 1 .. Week
      BY <2>4 DEF Week
    <2>7. IsRunTime(p, now + n) /\ \A d \in 1 .. (n - 1) : ~IsRunTime(p, now + d)
      BY <1>1, <2>1, <2>4, <2>5 DEF IsRunTime
    <2> QED
      BY <2>1, <2>4, <2>6, <2>7
  <1>2. CASE p = "DAILY"
    <2>1. n \in 1 .. 24 /\ (now + n) % 24 = 2
      BY <1>2, NextOfDay, SMTT(30) DEF Week
    <2>2. \A d \in 1 .. (n - 1) : (now + d) % 24 # 2
      BY <2>1, SMTT(30) DEF Week
    <2> QED
      BY <1>2, <2>1, <2>2, SMTT(30) DEF IsRunTime, Week, DueHours
  <1>3. CASE p = "WEEKLY"
    <2>1. n \in 1 .. Week /\ (now + n) % Week = 2 /\ (now + n) % 24 = 2
      BY <1>3, NextOfWeek, SMTT(30) DEF Week
    <2>2. \A d \in 1 .. (n - 1) : (now + d) % Week # 2
      BY <2>1, SMTT(30) DEF Week
    <2> QED
      BY <1>3, <2>1, <2>2, SMTT(30) DEF IsRunTime, Week, DueHours
  <1> QED
    BY <1>1, <1>2, <1>3 DEF Presets

-----------------------------------------------------------------------------
(* The inductive invariant.                                                *)

Ops == {"none", "manual", "cleanup", "cycle", "skipped", "update", "init"}

Jobs == [op : Ops, left : Seq(Names), service : Names \cup {"none"},
         preset : Presets \cup {"none"}]

\* What the state of a handler says of its job.
JobOK(h) ==
  /\ job[h] \in Jobs
  /\ pc[h] = "idle" <=> job[h].op = "none"
  /\ BackingUp(h) => job[h].op \in {"manual", "cycle", "cleanup"}
  /\ pc[h] = "record" => job[h].left # <<>> /\ job[h].op # "cleanup"
  /\ BackingUp(h) /\ job[h].op = "cleanup" => job[h].left = <<>> /\ job[h].service = "none"
  /\ pc[h] \in {"setPreset", "schedule"} => job[h].preset \in Presets

\* The row of a backup in work is there, and is not one that was cut short.
RowOK(h) ==
  pc[h] \in {"script", "update"} /\ job[h].op # "cleanup"
     => job[h].service \in inProgress \ cut

\* The timer fires at an hour that time does not pass over.
TimerOnMoment == timer > 0 => (clock + timer) % 24 \in DueHours

Inv ==
  /\ TypeOK /\ WorkIsTold /\ TimerOnMoment
  /\ job \in [Handlers -> Jobs]
  /\ \A h \in Handlers : JobOK(h) /\ RowOK(h)

LEMMA ServicesAreNames == /\ Services \in Seq(Names) /\ Services # <<>> /\ "none" \notin Names
                          /\ \A s \in Names : <<s>> \in Seq(Names) /\ <<s>> # <<>>
  <1>1. Services \in [1 .. Len(Services) -> Names] /\ Len(Services) \in Nat
    BY BackupAssumption DEF Names
  <1>2. Services \in Seq(Names)
    BY <1>1 DEF Seq
  <1>3. \A i \in DOMAIN Services : Services[i] # "none"
    BY BackupAssumption
  <1> QED
    BY <1>2, <1>3, BackupAssumption DEF Names

LEMMA NoJobFields == /\ NoJob \in Jobs /\ NoJob.op = "none" /\ NoJob.left = <<>>
                     /\ NoJob.service = "none" /\ NoJob.preset = "none"
  BY DEF NoJob, Jobs, Ops

\* Handlers that a step leaves alone keep what they know of their jobs.
LEMMA OthersKeep ==
  ASSUME NEW h \in Handlers, Inv,
         NEW step, NEW j, pc' = [pc EXCEPT ![h] = step], job' = [job EXCEPT ![h] = j],
         BackingUp(h) \/ UNCHANGED <<inProgress, cut>>,
         NEW g \in Handlers \ {h}
  PROVE  /\ pc'[g] = pc[g] /\ job'[g] = job[g]
         /\ JobOK(g)' /\ RowOK(g)'
         /\ pc'[g] = "idle" <=> job'[g] = NoJob
  <1>1. pc'[g] = pc[g] /\ job'[g] = job[g]
    BY DEF Inv, TypeOK
  <1>2. JobOK(g) /\ RowOK(g) /\ (pc[g] = "idle" <=> job[g] = NoJob)
    BY DEF Inv, TypeOK
  <1>3. pc[g] \in {"script", "update"} => UNCHANGED <<inProgress, cut>>
    BY DEF Inv, WorkIsTold, BackingUp
  <1> QED
    BY <1>1, <1>2, <1>3 DEF JobOK, RowOK, BackingUp

\* The part of the invariant that is about handlers, after a step of one of
\* them: it begins a work, ends one, or stays what it was.
LEMMA HandlerStep ==
  ASSUME NEW h \in Handlers, Inv,
         NEW step \in Steps, NEW j \in Jobs,
         pc' = [pc EXCEPT ![h] = step], job' = [job EXCEPT ![h] = j],
         BackingUp(h) \/ UNCHANGED <<inProgress, cut>>,
         step = "idle" <=> j = NoJob, JobOK(h)', RowOK(h)',
         \/ (BackingUp(h)' <=> BackingUp(h)) /\ isRunning' = isRunning
         \/ BackingUp(h) /\ ~BackingUp(h)' /\ isRunning' = FALSE
         \/ ~isRunning /\ isRunning' = TRUE /\ BackingUp(h)',
         \A s \in inProgress' \ cut' :
            \/ step \in {"script", "update"} /\ j.service = s
            \/ s \in inProgress \ cut /\ ~(pc[h] \in {"script", "update"} /\ job[h].service = s)
  PROVE  /\ pc' \in [Handlers -> Steps] /\ job' \in [Handlers -> Jobs]
         /\ \A g \in Handlers : pc'[g] = "idle" <=> job'[g] = NoJob
         /\ WorkIsTold'
         /\ \A g \in Handlers : JobOK(g)' /\ RowOK(g)'
  <1>1. /\ pc'[h] = step /\ job'[h] = j
        /\ pc' \in [Handlers -> Steps] /\ job' \in [Handlers -> Jobs]
    BY DEF Inv, TypeOK
  <1>2. \A g \in Handlers \ {h} :
          /\ pc'[g] = pc[g] /\ job'[g] = job[g]
          /\ JobOK(g)' /\ RowOK(g)'
          /\ pc'[g] = "idle" <=> job'[g] = NoJob
    BY OthersKeep
  <1>3. /\ \A f, g \in Handlers : (BackingUp(f) /\ BackingUp(g)) => f = g
        /\ isRunning <=> \E g \in Handlers : BackingUp(g)
        /\ \A s \in inProgress \ cut :
             \E g \in Handlers : pc[g] \in {"script", "update"} /\ job[g].service = s
    BY DEF Inv, WorkIsTold
  <1>4. \A g \in Handlers \ {h} : BackingUp(g)' <=> BackingUp(g)
    BY <1>2 DEF BackingUp
  <1>5. \A f, g \in Handlers : (BackingUp(f)' /\ BackingUp(g)') => f = g
    BY <1>3, <1>4
  <1>6. isRunning' <=> \E g \in Handlers : BackingUp(g)'
    BY <1>3, <1>4
  <1>7. ASSUME NEW s \in inProgress' \ cut'
        PROVE  \E g \in Handlers : pc'[g] \in {"script", "update"} /\ job'[g].service = s
    <2>1. CASE step \in {"script", "update"} /\ j.service = s
      BY <2>1, <1>1
    <2>2. CASE s \in inProgress \ cut /\ ~(pc[h] \in {"script", "update"} /\ job[h].service = s)
      <3>1. PICK g \in Handlers : pc[g] \in {"script", "update"} /\ job[g].service = s
        BY <2>2, <1>3
      <3> QED
        BY <3>1, <2>2, <1>2
    <2> QED
      BY <2>1, <2>2
  <1>8. WorkIsTold'
    BY <1>5, <1>6, <1>7 DEF WorkIsTold
  <1>9. ASSUME NEW g \in Handlers
        PROVE  JobOK(g)' /\ RowOK(g)' /\ (pc'[g] = "idle" <=> job'[g] = NoJob)
    <2>1. CASE g = h
      BY <2>1, <1>1 DEF JobOK, RowOK, BackingUp
    <2>2. CASE g # h
      BY <2>2, <1>2
    <2> QED
      BY <2>1, <2>2
  <1> QED
    BY <1>1, <1>8, <1>9

\* Requests and the timer.
LEMMA BeginStep ==
  ASSUME Inv, NEW h \in Handlers,
         \/ RunCleanup(h) \/ Fire(h)
         \/ \E s \in Names : BackUpOrRestore(h, s)
         \/ \E p \in Presets : UpdateSchedule(h, p)
  PROVE  Inv'
  <1>0. pc[h] = "idle" /\ job[h].op = "none" /\ ~BackingUp(h)
    <2>1. pc[h] = "idle"
      BY DEF RunCleanup, Fire, BackUpOrRestore, UpdateSchedule, StartExclusive, Begin
    <2> QED
      BY <2>1 DEF Inv, JobOK, BackingUp
  <1>1. UNCHANGED <<clock, preset, inProgress, broken, raced, cut>>
    BY DEF RunCleanup, Fire, BackUpOrRestore, UpdateSchedule, StartExclusive
  <1>2. timer' \in {timer, NoTimer} /\ isRunning' \in BOOLEAN
    BY DEF RunCleanup, Fire, BackUpOrRestore, UpdateSchedule, StartExclusive, Inv, TypeOK
  <1>3. ASSUME NEW step \in Steps, NEW j, pc' = [pc EXCEPT ![h] = step],
               job' = [job EXCEPT ![h] = j],
               \/ /\ j = [NoJob EXCEPT !.op = "cleanup"] /\ step = "script"
                  /\ ~isRunning /\ isRunning' = TRUE
               \/ /\ \E s \in Names : j = [NoJob EXCEPT !.op = "manual", !.left = <<s>>]
                  /\ step = "record" /\ ~isRunning /\ isRunning' = TRUE
               \/ /\ j = [NoJob EXCEPT !.op = "cycle", !.left = Services] /\ step = "record"
                  /\ ~isRunning /\ isRunning' = TRUE
               \/ /\ j = [NoJob EXCEPT !.op = "skipped"] /\ step = "getState"
                  /\ isRunning' = isRunning
               \/ /\ \E p \in Presets : j = [NoJob EXCEPT !.op = "update", !.preset = p]
                  /\ step = "setPreset" /\ isRunning' = isRunning
        PROVE  Inv'
    <2>1. pc'[h] = step /\ job'[h] = j
      BY <1>3 DEF Inv, TypeOK
    <2>2. j \in Jobs /\ j.op \in Ops \ {"none"} /\ j # NoJob
      BY <1>3, ServicesAreNames, NoJobFields DEF Jobs, Ops
    <2>3. JobOK(h)' /\ RowOK(h)'
      <3>1. CASE j = [NoJob EXCEPT !.op = "cleanup"] /\ step = "script"
        BY <3>1, <2>1, <2>2, NoJobFields DEF JobOK, RowOK, BackingUp, Jobs
      <3>2. CASE step = "record" /\ j.op \in {"manual", "cycle"} /\ j.left # <<>>
        BY <3>2, <2>1, <2>2 DEF JobOK, RowOK, BackingUp
      <3>3. CASE j = [NoJob EXCEPT !.op = "skipped"] /\ step = "getState"
        BY <3>3, <2>1, <2>2, NoJobFields DEF JobOK, RowOK, BackingUp, Jobs
      <3>4. CASE step = "setPreset" /\ j.preset \in Presets
        BY <3>4, <2>1, <2>2 DEF JobOK, RowOK, BackingUp
      <3> QED
        BY <1>3, <3>1, <3>2, <3>3, <3>4, ServicesAreNames, NoJobFields DEF Jobs
    <2>4. \/ (BackingUp(h)' <=> BackingUp(h)) /\ isRunning' = isRunning
          \/ ~isRunning /\ isRunning' = TRUE /\ BackingUp(h)'
      BY <1>0, <1>3, <2>1 DEF BackingUp
    <2>5. \A s \in inProgress' \ cut' :
            s \in inProgress \ cut /\ ~(pc[h] \in {"script", "update"} /\ job[h].service = s)
      BY <1>0, <1>1
    <2>6. step # "idle"
      BY <1>3
    <2>7. /\ pc' \in [Handlers -> Steps] /\ job' \in [Handlers -> Jobs]
          /\ \A g \in Handlers : pc'[g] = "idle" <=> job'[g] = NoJob
          /\ WorkIsTold'
          /\ \A g \in Handlers : JobOK(g)' /\ RowOK(g)'
      BY <1>1, <1>3, <2>2, <2>3, <2>4, <2>5, <2>6, HandlerStep
    <2>8. TypeOK'
      BY <1>1, <1>2, <2>7 DEF Inv, TypeOK, NoTimer, Week
    <2>9. TimerOnMoment'
      BY <1>1, <1>2 DEF Inv, TypeOK, TimerOnMoment, NoTimer
    <2> QED
      BY <2>7, <2>8, <2>9 DEF Inv
  <1>4. {"script", "record", "getState", "setPreset"} \subseteq Steps
    BY DEF Steps
  <1>5. CASE RunCleanup(h)
    BY <1>3, <1>4, <1>5 DEF RunCleanup, StartExclusive, Begin
  <1>6. CASE Fire(h)
    BY <1>3, <1>4, <1>6 DEF Fire, Begin
  <1>7. ASSUME NEW s \in Names, BackUpOrRestore(h, s)
        PROVE  Inv'
    BY <1>3, <1>4, <1>7 DEF BackUpOrRestore, StartExclusive, Begin
  <1>8. ASSUME NEW p \in Presets, UpdateSchedule(h, p)
        PROVE  Inv'
    BY <1>3, <1>4, <1>8 DEF UpdateSchedule, Begin
  <1> QED
    BY <1>5, <1>6, <1>7, <1>8

\* What the rest of the invariant needs of a step that is not one of the timer.
LEMMA RestOfInv ==
  ASSUME Inv, NEW h \in Handlers,
         UNCHANGED <<clock, timer>>, preset' \in Presets, isRunning' \in BOOLEAN,
         cut' \subseteq inProgress', inProgress' \subseteq Names,
         broken' \in BOOLEAN, raced' \in BOOLEAN,
         pc' \in [Handlers -> Steps], job' \in [Handlers -> Jobs],
         \A g \in Handlers : pc'[g] = "idle" <=> job'[g] = NoJob,
         WorkIsTold',
         \A g \in Handlers : JobOK(g)' /\ RowOK(g)'
  PROVE  Inv'
  <1>1. TypeOK'
    BY DEF Inv, TypeOK
  <1>2. TimerOnMoment'
    BY DEF Inv, TimerOnMoment
  <1> QED
    BY <1>1, <1>2 DEF Inv

\* The job of a handler that is not idle.
LEMMA WorkingJob ==
  ASSUME Inv, NEW h \in Handlers, pc[h] # "idle"
  PROVE  /\ job[h] \in Jobs /\ job[h].op \in Ops \ {"none"} /\ job[h] # NoJob
         /\ JobOK(h) /\ RowOK(h)
  BY NoJobFields DEF Inv, JobOK, Jobs

\* A backup inserts its row.
LEMMA RecordStep ==
  ASSUME Inv, NEW h \in Handlers, RecordBackup(h)
  PROVE  Inv'
  <1> DEFINE s == Head(job[h].left)
             j == [job[h] EXCEPT !.left = Tail(@), !.service = s]
  <1>1. pc[h] = "record" /\ BackingUp(h)
    BY DEF RecordBackup, BackingUp
  <1>2. job[h] \in Jobs /\ job[h].op \in {"manual", "cycle"} /\ job[h].left # <<>>
    BY <1>1, WorkingJob DEF JobOK
  <1>3. s \in Names /\ Tail(job[h].left) \in Seq(Names)
    BY <1>2 DEF Jobs
  <1>4. j \in Jobs /\ j.op = job[h].op /\ j.service = s /\ j.preset = job[h].preset
    BY <1>2, <1>3 DEF Jobs
  <1>5. /\ pc' = [pc EXCEPT ![h] = "script"] /\ job' = [job EXCEPT ![h] = j]
        /\ inProgress' = inProgress \cup {s} /\ cut' = cut \ {s}
        /\ UNCHANGED <<clock, timer, preset, isRunning, broken, raced>>
    BY DEF RecordBackup
  <1> HIDE DEF j, s
  <1>6. pc'[h] = "script" /\ job'[h] = j
    BY <1>5 DEF Inv, TypeOK
  <1>7. JobOK(h)' /\ RowOK(h)' /\ BackingUp(h)'
    BY <1>2, <1>4, <1>5, <1>6 DEF JobOK, RowOK, BackingUp
  <1>8. \A x \in inProgress' \ cut' :
          x = s \/ (x \in inProgress \ cut /\ pc[h] \notin {"script", "update"})
    BY <1>1, <1>5
  <1>9. j # NoJob /\ "script" \in Steps
    BY <1>2, <1>4, NoJobFields DEF Steps
  <1>10. /\ pc' \in [Handlers -> Steps] /\ job' \in [Handlers -> Jobs]
         /\ \A g \in Handlers : pc'[g] = "idle" <=> job'[g] = NoJob
         /\ WorkIsTold'
         /\ \A g \in Handlers : JobOK(g)' /\ RowOK(g)'
    BY <1>1, <1>4, <1>5, <1>7, <1>8, <1>9, HandlerStep
  <1>11. cut' \subseteq inProgress' /\ inProgress' \subseteq Names
    BY <1>3, <1>5 DEF Inv, TypeOK
  <1> QED
    BY <1>5, <1>10, <1>11, RestOfInv DEF Inv, TypeOK

\* Steps that touch neither rows nor the flag and go on with the job, whose
\* preset may be another.
LEMMA QuietStep ==
  ASSUME Inv, NEW h \in Handlers, NEW step \in Steps \ {"idle"}, NEW p \in Presets \cup {"none"},
         pc[h] # "idle",
         pc' = [pc EXCEPT ![h] = step],
         job' = [job EXCEPT ![h] = [job[h] EXCEPT !.preset = p]],
         step \in {"mark", "getState"} \/ (step = "schedule" /\ p \in Presets)
            \/ (step = "update" /\ pc[h] = "script"),
         BackingUp(h) => step = "update",
         UNCHANGED <<clock, timer, isRunning, inProgress, broken, raced, cut>>,
         preset' \in Presets
  PROVE  Inv'
  <1> DEFINE j == [job[h] EXCEPT !.preset = p]
  <1>1. /\ job[h] \in Jobs /\ job[h].op \in Ops \ {"none"} /\ job[h] # NoJob
        /\ JobOK(h) /\ RowOK(h)
    BY WorkingJob
  <1>2. /\ j \in Jobs /\ j.op = job[h].op /\ j.service = job[h].service
        /\ j.left = job[h].left /\ j.preset = p
    BY <1>1 DEF Jobs
  <1> HIDE DEF j
  <1>3. pc' = [pc EXCEPT ![h] = step] /\ job' = [job EXCEPT ![h] = j]
    BY DEF j
  <1>4. pc'[h] = step /\ job'[h] = j
    BY <1>3 DEF Inv, TypeOK
  <1>5. BackingUp(h)' <=> BackingUp(h)
    BY <1>4 DEF BackingUp
  <1>6. JobOK(h)' /\ RowOK(h)'
    BY <1>1, <1>2, <1>4 DEF JobOK, RowOK, BackingUp
  <1>7. j # NoJob
    BY <1>1, <1>2, NoJobFields
  <1>8. \A s \in inProgress' \ cut' :
          \/ step \in {"script", "update"} /\ j.service = s
          \/ s \in inProgress \ cut /\ ~(pc[h] \in {"script", "update"} /\ job[h].service = s)
    BY <1>2 DEF BackingUp
  <1>9. /\ pc' \in [Handlers -> Steps] /\ job' \in [Handlers -> Jobs]
        /\ \A g \in Handlers : pc'[g] = "idle" <=> job'[g] = NoJob
        /\ WorkIsTold'
        /\ \A g \in Handlers : JobOK(g)' /\ RowOK(g)'
    BY <1>2, <1>3, <1>5, <1>6, <1>7, <1>8, HandlerStep
  <1> QED
    BY <1>9, RestOfInv DEF Inv, TypeOK

\* Steps that go on with the same job.
LEMMA SameJobStep ==
  ASSUME Inv, NEW h \in Handlers, NEW step \in Steps \ {"idle"}, pc[h] # "idle",
         Goto(h, step),
         step \in {"mark", "getState"} \/ (step = "schedule" /\ job[h].preset \in Presets)
            \/ (step = "update" /\ pc[h] = "script"),
         BackingUp(h) => step = "update",
         UNCHANGED <<clock, timer, isRunning, inProgress, broken, raced, cut>>,
         preset' \in Presets
  PROVE  Inv'
  <1>1. job[h] \in Jobs /\ job \in [Handlers -> Jobs]
    BY WorkingJob DEF Inv
  <1>2. job[h].preset \in Presets \cup {"none"}
    BY <1>1 DEF Jobs
  <1>3. [job[h] EXCEPT !.preset = job[h].preset] = job[h]
    BY <1>1 DEF Jobs
  <1>4. [job EXCEPT ![h] = job[h]] = job
    BY <1>1
  <1>5. job' = [job EXCEPT ![h] = [job[h] EXCEPT !.preset = job[h].preset]]
    BY <1>3, <1>4 DEF Goto
  <1> QED
    BY <1>2, <1>5, QuietStep DEF Goto

\* A handler that ends: a work in progress gives the flag back, and leaves its
\* row finished or cut short.
LEMMA EndStep ==
  ASSUME Inv, NEW h \in Handlers, Finish(h),
         \/ BackingUp(h) /\ isRunning' = FALSE
         \/ ~BackingUp(h) /\ UNCHANGED <<isRunning, inProgress, cut>>,
         \A s \in inProgress' \ cut' :
            s \in inProgress \ cut /\ ~(pc[h] \in {"script", "update"} /\ job[h].service = s)
  PROVE  /\ pc' \in [Handlers -> Steps] /\ job' \in [Handlers -> Jobs]
         /\ \A g \in Handlers : pc'[g] = "idle" <=> job'[g] = NoJob
         /\ WorkIsTold'
         /\ \A g \in Handlers : JobOK(g)' /\ RowOK(g)'
  <1>1. pc' = [pc EXCEPT ![h] = "idle"] /\ job' = [job EXCEPT ![h] = NoJob]
    BY DEF Finish
  <1>2. pc'[h] = "idle" /\ job'[h] = NoJob
    BY <1>1 DEF Inv, TypeOK
  <1>3. JobOK(h)' /\ RowOK(h)' /\ ~BackingUp(h)'
    BY <1>2, NoJobFields DEF JobOK, RowOK, BackingUp
  <1>4. "idle" \in Steps /\ NoJob \in Jobs
    BY NoJobFields DEF Steps
  <1> QED
    BY <1>1, <1>3, <1>4, HandlerStep

\* A backup finishes its row, and goes on, or ends the work.
LEMMA UpdateStep ==
  ASSUME Inv, NEW h \in Handlers, UpdateStatus(h)
  PROVE  Inv'
  <1>1. pc[h] = "update" /\ BackingUp(h)
    BY DEF UpdateStatus, BackingUp
  <1>2. /\ job[h] \in Jobs /\ job[h].op \in {"manual", "cycle", "cleanup"} /\ job[h] # NoJob
        /\ job[h].op = "cleanup" => job[h].left = <<>> /\ job[h].service = "none"
        /\ job[h].op # "cleanup" => job[h].service \in inProgress \ cut
    BY <1>1, WorkingJob DEF JobOK, RowOK
  <1>3. /\ inProgress' = inProgress \ {job[h].service}
        /\ UNCHANGED <<clock, timer, preset, broken, raced, cut>>
    BY DEF UpdateStatus
  <1>4. cut' \subseteq inProgress' /\ inProgress' \subseteq Names
    BY <1>2, <1>3, ServicesAreNames DEF Inv, TypeOK
  <1>5. \A s \in inProgress' \ cut' : s \in inProgress \ cut /\ job[h].service # s
    BY <1>3
  <1>6. isRunning \in BOOLEAN /\ broken \in BOOLEAN /\ raced \in BOOLEAN /\ preset \in Presets
    BY DEF Inv, TypeOK
  <1>7. ASSUME NEW step \in {"record", "mark"}, Goto(h, step),
               \/ step = "record" /\ job[h].left # <<>> /\ isRunning' = isRunning
               \/ step = "mark" /\ isRunning' = FALSE
        PROVE  Inv'
    <2>1. pc' = [pc EXCEPT ![h] = step] /\ job' = [job EXCEPT ![h] = job[h]]
      BY <1>7 DEF Goto, Inv
    <2>2. pc'[h] = step /\ job'[h] = job[h]
      BY <2>1 DEF Inv, TypeOK
    <2>3. JobOK(h)' /\ RowOK(h)'
      BY <1>2, <1>7, <2>2 DEF JobOK, RowOK, BackingUp
    <2>4. \/ (BackingUp(h)' <=> BackingUp(h)) /\ isRunning' = isRunning
          \/ BackingUp(h) /\ ~BackingUp(h)' /\ isRunning' = FALSE
      BY <1>1, <1>7, <2>2 DEF BackingUp
    <2>5. step \in Steps /\ step # "idle"
      BY <1>7 DEF Steps
    <2>6. /\ pc' \in [Handlers -> Steps] /\ job' \in [Handlers -> Jobs]
          /\ \A g \in Handlers : pc'[g] = "idle" <=> job'[g] = NoJob
          /\ WorkIsTold'
          /\ \A g \in Handlers : JobOK(g)' /\ RowOK(g)'
      BY <1>1, <1>2, <1>5, <2>1, <2>3, <2>4, <2>5, HandlerStep
    <2>7. isRunning' \in BOOLEAN
      BY <1>6, <1>7
    <2> QED
      BY <1>3, <1>4, <1>6, <2>6, <2>7, RestOfInv
  <1>8. ASSUME Finish(h), isRunning' = FALSE
        PROVE  Inv'
    <2>1. /\ pc' \in [Handlers -> Steps] /\ job' \in [Handlers -> Jobs]
          /\ \A g \in Handlers : pc'[g] = "idle" <=> job'[g] = NoJob
          /\ WorkIsTold'
          /\ \A g \in Handlers : JobOK(g)' /\ RowOK(g)'
      BY <1>1, <1>5, <1>8, EndStep
    <2> QED
      BY <1>3, <1>4, <1>6, <1>8, <2>1, RestOfInv
  <1> QED
    BY <1>7, <1>8 DEF UpdateStatus

\* An error ends a handler.
LEMMA ThrowStep ==
  ASSUME Inv, NEW h \in Handlers, Throw(h)
  PROVE  Inv'
  <1>1. /\ Finish(h) /\ pc[h] # "idle"
        /\ isRunning' = IF BackingUp(h) THEN FALSE ELSE isRunning
        /\ cut' = IF pc[h] \in {"script", "update"} /\ job[h].op # "cleanup"
                  THEN cut \cup {job[h].service} ELSE cut
        /\ UNCHANGED <<clock, timer, preset, inProgress, raced>>
    BY DEF Throw, BackingUp
  <1>2. /\ job[h] \in Jobs
        /\ pc[h] \in {"script", "update"} /\ job[h].op # "cleanup" => job[h].service \in inProgress
        /\ pc[h] \in {"script", "update"} /\ job[h].op = "cleanup" => job[h].service = "none"
    BY <1>1, WorkingJob DEF JobOK, RowOK, BackingUp
  <1>3. /\ cut \subseteq inProgress /\ inProgress \subseteq Names /\ isRunning \in BOOLEAN
        /\ raced \in BOOLEAN /\ broken \in BOOLEAN /\ preset \in Presets
    BY DEF Inv, TypeOK
  <1>4. broken' \in BOOLEAN
    BY <1>3 DEF Throw
  <1>5. \A s \in inProgress' \ cut' :
          s \in inProgress \ cut /\ ~(pc[h] \in {"script", "update"} /\ job[h].service = s)
    BY <1>1, <1>2, <1>3, ServicesAreNames
  <1>6. \/ BackingUp(h) /\ isRunning' = FALSE
        \/ ~BackingUp(h) /\ UNCHANGED <<isRunning, inProgress, cut>>
    BY <1>1 DEF BackingUp
  <1>7. /\ pc' \in [Handlers -> Steps] /\ job' \in [Handlers -> Jobs]
        /\ \A g \in Handlers : pc'[g] = "idle" <=> job'[g] = NoJob
        /\ WorkIsTold'
        /\ \A g \in Handlers : JobOK(g)' /\ RowOK(g)'
    BY <1>1, <1>5, <1>6, EndStep
  <1>8. cut' \subseteq inProgress' /\ isRunning' \in BOOLEAN
    BY <1>1, <1>2, <1>3
  <1> QED
    BY <1>1, <1>3, <1>4, <1>7, <1>8, RestOfInv

\* The timer is set for the next run of the preset that was read.
LEMMA ScheduleStep ==
  ASSUME Inv, NEW h \in Handlers, ScheduleNextRun(h)
  PROVE  /\ Inv'
         /\ job[h].preset \in Presets
         /\ timer' = NextRunAt(job[h].preset, clock) - clock
  <1>1. pc[h] = "schedule" /\ ~BackingUp(h) /\ Finish(h)
    BY DEF ScheduleNextRun, BackingUp
  <1>2. UNCHANGED <<clock, preset, isRunning, inProgress, cut>>
    BY DEF ScheduleNextRun
  <1>3. job[h].preset \in Presets /\ clock \in 0 .. (Week - 1)
    BY <1>1, WorkingJob DEF JobOK, Inv, TypeOK
  <1>4. PICK n : n = NextRunAt(job[h].preset, clock) - clock
    OBVIOUS
  <1>5. n \in 1 .. Week /\ (clock + n) % 24 \in DueHours
    BY <1>3, <1>4, NextRunIsNext
  <1>6. timer' = n
    BY <1>4, <1>5 DEF ScheduleNextRun, Later, Week
  <1>7. /\ pc' \in [Handlers -> Steps] /\ job' \in [Handlers -> Jobs]
        /\ \A g \in Handlers : pc'[g] = "idle" <=> job'[g] = NoJob
        /\ WorkIsTold'
        /\ \A g \in Handlers : JobOK(g)' /\ RowOK(g)'
    BY <1>1, <1>2, EndStep
  <1>8. broken' \in BOOLEAN /\ raced' \in BOOLEAN
    BY DEF ScheduleNextRun
  <1>9. TypeOK'
    BY <1>2, <1>5, <1>6, <1>7, <1>8 DEF Inv, TypeOK, Week
  <1>10. TimerOnMoment'
    BY <1>2, <1>5, <1>6 DEF TimerOnMoment
  <1> QED
    BY <1>3, <1>4, <1>6, <1>7, <1>9, <1>10 DEF Inv

\* A restart: only the handler that reads the schedule is in progress.
LEMMA RestartStep ==
  ASSUME Inv, NEW h \in Handlers, Restart(h)
  PROVE  Inv'
  <1> DEFINE j == [NoJob EXCEPT !.op = "init"]
  <1>1. j \in Jobs /\ j.op = "init" /\ j # NoJob
    BY NoJobFields DEF Jobs, Ops
  <1>2. /\ pc'  = [g \in Handlers |-> IF g = h THEN "getState" ELSE "idle"]
        /\ job' = [g \in Handlers |-> IF g = h THEN j ELSE NoJob]
        /\ isRunning' = FALSE /\ timer' = NoTimer /\ broken' = FALSE /\ raced' = FALSE
        /\ UNCHANGED <<clock, preset, inProgress>>
        /\ cut' = cut \cup {job[g].service : g \in {f \in Handlers :
                     pc[f] \in {"script", "update"} /\ job[f].op # "cleanup"}}
    BY DEF Restart
  <1> HIDE DEF j
  <1>3. /\ pc' \in [Handlers -> Steps] /\ job' \in [Handlers -> Jobs]
        /\ \A g \in Handlers : pc'[g] = "idle" <=> job'[g] = NoJob
    BY <1>1, <1>2, NoJobFields DEF Steps
  <1>4. \A g \in Handlers : JobOK(g)' /\ RowOK(g)' /\ ~BackingUp(g)'
    BY <1>1, <1>2, NoJobFields DEF JobOK, RowOK, BackingUp
  <1>5. cut' \subseteq inProgress'
    BY <1>2 DEF Inv, TypeOK, RowOK
  <1>6. inProgress' \ cut' = {}
    <2> SUFFICES ASSUME NEW s \in inProgress' \ cut'
                 PROVE  FALSE
      OBVIOUS
    <2>1. PICK g \in Handlers : pc[g] \in {"script", "update"} /\ job[g].service = s
      BY <1>2 DEF Inv, WorkIsTold
    <2>2. job[g].op = "cleanup" => job[g].service = "none"
      BY <2>1 DEF Inv, JobOK, BackingUp
    <2>3. s # "none"
      BY <1>2, ServicesAreNames DEF Inv, TypeOK
    <2> QED
      BY <2>1, <2>2, <2>3, <1>2
  <1>7. WorkIsTold'
    BY <1>2, <1>4, <1>6 DEF WorkIsTold
  <1>8. TypeOK'
    <2>1. /\ clock' \in 0 .. (Week - 1) /\ preset' \in Presets /\ inProgress' \subseteq Names
      BY <1>2 DEF Inv, TypeOK
    <2>2. timer' \in -1 .. Week
      BY <1>2 DEF NoTimer, Week
    <2>3. isRunning' \in BOOLEAN /\ broken' \in BOOLEAN /\ raced' \in BOOLEAN
      BY <1>2
    <2> QED
      BY <1>3, <1>5, <2>1, <2>2, <2>3 DEF TypeOK
  <1>9. TimerOnMoment'
    <2>1. timer' = -1
      BY DEF Restart, NoTimer
    <2> QED
      BY <2>1 DEF TimerOnMoment
  <1> QED
    BY <1>3, <1>4, <1>7, <1>8, <1>9 DEF Inv

\* Time passes from moment to moment, never over an hour at which the timer is
\* due.
LEMMA TickStep ==
  ASSUME Inv, Tick
  PROVE  /\ Inv'
         /\ timer # NoTimer => \E d \in 1 .. timer : /\ clock' = (clock + d) % Week
                                                     /\ timer' = timer - d
  <1>1. PICK d \in 1 .. 24 :
          /\ (clock + d) % 24 \in Moments
          /\ \A c \in 1 .. d - 1 : (clock + c) % 24 \notin Moments
          /\ clock' = (clock + d) % Week
          /\ timer' = IF timer = NoTimer THEN NoTimer ELSE timer - d
    BY DEF Tick
  <1>2. /\ timer # 0 /\ timer \in -1 .. Week /\ clock \in 0 .. (Week - 1)
        /\ UNCHANGED <<preset, isRunning, inProgress, pc, job, broken, raced, cut>>
    BY DEF Tick, control, Inv, TypeOK
  <1>3. timer # NoTimer => timer > 0 /\ (clock + timer) % 24 \in Moments
    BY <1>2, BackupAssumption DEF Inv, TimerOnMoment, DueHours, NoTimer
  <1>4. timer # NoTimer => d <= timer
    BY <1>1, <1>2, <1>3 DEF NoTimer, Week
  <1>5. clock' \in 0 .. (Week - 1) /\ timer' \in -1 .. Week
    BY <1>1, <1>2, <1>4 DEF NoTimer, Week
  <1>6. TimerOnMoment'
    <2> SUFFICES ASSUME timer' > 0
                 PROVE  (clock' + timer') % 24 \in DueHours
      BY DEF TimerOnMoment
    <2>1. timer > 0 /\ timer' = timer - d
      BY <1>1, <1>2 DEF NoTimer
    <2>2. (clock + timer) % 24 \in DueHours
      BY <2>1 DEF Inv, TimerOnMoment
    <2>3. clock' = clock + d \/ clock' = clock + d - Week
      BY <1>1, <1>2 DEF Week
    <2>4. (clock' + timer') % 24 = (clock + timer) % 24
      BY <1>1, <1>2, <2>1, <2>3, SMTT(30) DEF Week
    <2> QED
      BY <2>2, <2>4
  <1>7. TypeOK' /\ WorkIsTold' /\ job' \in [Handlers -> Jobs]
    BY <1>2, <1>5 DEF Inv, TypeOK, WorkIsTold, BackingUp
  <1>8. \A h \in Handlers : JobOK(h)' /\ RowOK(h)'
    BY <1>2 DEF Inv, JobOK, RowOK, BackingUp
  <1>9. timer # NoTimer => d \in 1 .. timer
    BY <1>1, <1>2, <1>4
  <1> QED
    BY <1>1, <1>6, <1>7, <1>8, <1>9 DEF Inv

LEMMA InvInit == Init => Inv
  <1> SUFFICES ASSUME Init
               PROVE  Inv
    OBVIOUS
  <1>1. clock \in 0 .. (Week - 1) /\ preset \in Presets
    BY DEF Init
  <1>2. PICK n : n = NextRunAt(preset, clock) - clock
    OBVIOUS
  <1>3. timer = n /\ n \in 1 .. Week /\ (clock + n) % 24 \in DueHours
    BY <1>1, <1>2, NextRunIsNext DEF Init
  <1>4. /\ pc = [h \in Handlers |-> "idle"] /\ job = [h \in Handlers |-> NoJob]
        /\ isRunning = FALSE /\ inProgress = {} /\ broken = FALSE /\ raced = FALSE /\ cut = {}
    BY DEF Init
  <1>5. TypeOK
    <2>1. pc \in [Handlers -> Steps] /\ \A h \in Handlers : pc[h] = "idle" <=> job[h] = NoJob
      BY <1>4 DEF Steps
    <2>2. timer \in -1 .. Week
      BY <1>3 DEF Week
    <2> QED
      BY <1>1, <1>4, <2>1, <2>2 DEF TypeOK
  <1>6. WorkIsTold /\ TimerOnMoment
    BY <1>3, <1>4 DEF WorkIsTold, BackingUp, TimerOnMoment
  <1>7. job \in [Handlers -> Jobs] /\ \A h \in Handlers : JobOK(h) /\ RowOK(h)
    BY <1>4, NoJobFields DEF JobOK, RowOK, BackingUp
  <1> QED
    BY <1>5, <1>6, <1>7 DEF Inv

LEMMA ProceedStep ==
  ASSUME Inv, NEW h \in Handlers, Proceed(h)
  PROVE  Inv'
  <1>0. {"update", "getState", "schedule"} \subseteq Steps \ {"idle"} /\ preset \in Presets
    BY DEF Steps, Inv, TypeOK
  <1>1. CASE RecordBackup(h)
    BY <1>1, RecordStep
  <1>2. CASE RunScript(h)
    <2>1. pc[h] = "script" /\ Goto(h, "update")
      BY <1>2 DEF RunScript
    <2>2. UNCHANGED <<clock, timer, preset, isRunning, inProgress, broken, raced, cut>>
      BY <1>2 DEF RunScript
    <2> QED
      BY <1>0, <2>1, <2>2, SameJobStep
  <1>3. CASE UpdateStatus(h)
    BY <1>3, UpdateStep
  <1>4. CASE MarkScheduleRun(h)
    <2>1. pc[h] = "mark" /\ ~BackingUp(h) /\ Goto(h, "getState")
      BY <1>4 DEF MarkScheduleRun, BackingUp
    <2>2. UNCHANGED <<clock, timer, preset, isRunning, inProgress, broken, raced, cut>>
      BY <1>4 DEF MarkScheduleRun
    <2> QED
      BY <1>0, <2>1, <2>2, SameJobStep
  <1>5. CASE GetScheduleState(h)
    <2>1. pc[h] = "getState" /\ ~BackingUp(h)
      BY <1>5 DEF GetScheduleState, BackingUp
    <2>2. job' = [job EXCEPT ![h] = [job[h] EXCEPT !.preset = preset]]
      BY <1>5 DEF GetScheduleState
    <2>3. /\ pc' = [pc EXCEPT ![h] = "schedule"]
          /\ UNCHANGED <<clock, timer, preset, isRunning, inProgress, broken, raced, cut>>
      BY <1>5 DEF GetScheduleState
    <2> QED
      BY <1>0, <2>1, <2>2, <2>3, QuietStep
  <1>6. CASE SetSchedulePreset(h)
    <2>1. pc[h] = "setPreset" /\ ~BackingUp(h) /\ Goto(h, "schedule")
      BY <1>6 DEF SetSchedulePreset, BackingUp
    <2>2. job[h].preset \in Presets
      BY <2>1, WorkingJob DEF JobOK
    <2>3. /\ preset' = job[h].preset
          /\ UNCHANGED <<clock, timer, isRunning, inProgress, broken, raced, cut>>
      BY <1>6 DEF SetSchedulePreset
    <2> QED
      BY <1>0, <2>1, <2>2, <2>3, SameJobStep
  <1>7. CASE ScheduleNextRun(h)
    BY <1>7, ScheduleStep
  <1> QED
    BY <1>1, <1>2, <1>3, <1>4, <1>5, <1>6, <1>7 DEF Proceed

LEMMA InvStep == Inv /\ [Next]_vars => Inv'
  <1> SUFFICES ASSUME Inv, [Next]_vars
               PROVE  Inv'
    OBVIOUS
  <1>1. CASE UNCHANGED vars
    BY <1>1 DEF vars, control, Inv, TypeOK, WorkIsTold, BackingUp, TimerOnMoment, JobOK, RowOK
  <1>2. ASSUME NEW h \in Handlers,
               \/ RunCleanup(h) \/ Fire(h)
               \/ \E s \in Names : BackUpOrRestore(h, s)
               \/ \E p \in Presets : UpdateSchedule(h, p)
        PROVE  Inv'
    BY <1>2, BeginStep
  <1>3. ASSUME NEW h \in Handlers, Proceed(h) \/ Throw(h) \/ Restart(h)
        PROVE  Inv'
    BY <1>3, ProceedStep, ThrowStep, RestartStep
  <1>4. CASE Tick
    BY <1>4, TickStep
  <1> QED
    BY <1>1, <1>2, <1>3, <1>4 DEF Next

\* The clock, the timer and the jobs keep their types: in particular time never
\* passes over the timer, whose hour is a moment of the day.
THEOREM TypeCorrect == Spec => []TypeOK
  <1>1. Inv => TypeOK
    BY DEF Inv
  <1> QED
    BY <1>1, InvInit, InvStep, PTL DEF Spec

\* Backups, restores and cleanups exclude each other by the flag, and the newest
\* row of a service says IN_PROGRESS only while its backup is in work, or for
\* ever after an error or a restart.
THEOREM WorkCorrect == Spec => []WorkIsTold
  <1>1. Inv => WorkIsTold
    BY DEF Inv
  <1> QED
    BY <1>1, InvInit, InvStep, PTL DEF Spec

-----------------------------------------------------------------------------
(* The timer of the next cycle.                                            *)

\* A handler that may still set the timer.
WillSchedule == \E h \in Handlers : Scheduled(h) \/ job[h].op = "init"

\* The timer is the next hour at which the preset is due.
IsNextRun == IsRunTime(preset, clock + timer)
               /\ \A d \in 1 .. (timer - 1) : ~IsRunTime(preset, clock + d)

LEMMA TimerParts ==
  TimerIsNextRun <=>
    /\ timer = NoTimer => broken \/ WillSchedule
    /\ timer # NoTimer =>
         raced \/ (\E h \in Handlers : pc[h] = "schedule") \/ (timer > 0 => IsNextRun)
  BY DEF TimerIsNextRun, WillSchedule, IsNextRun

\* The cron lines repeat every week.
LEMMA RunTimesRepeat ==
  ASSUME NEW p \in Presets, NEW t \in Int
  PROVE  IsRunTime(p, t - Week) <=> IsRunTime(p, t)
  <1>1. /\ (t - 168) % 6 = t % 6 /\ (t - 168) % 24 = t % 24 /\ (t - 168) % 168 = t % 168
    BY SMTT(30)
  <1> QED
    BY <1>1 DEF IsRunTime, Presets, Week

\* A handler that goes on keeps what may set the timer, unless it ends.
LEMMA WillScheduleKept ==
  ASSUME Inv, NEW h \in Handlers,
         job' \in [Handlers -> Jobs],
         \A g \in Handlers \ {h} : job'[g].op = job[g].op,
         job'[h].op = job[h].op \/ job[h].op \notin {"cycle", "skipped", "init"},
         WillSchedule
  PROVE  WillSchedule'
  <1>1. PICK g \in Handlers : job[g].op \in {"cycle", "skipped", "init"}
    BY DEF WillSchedule, Scheduled
  <1>2. job'[g].op = job[g].op
    BY <1>1
  <1> QED
    BY <1>1, <1>2 DEF WillSchedule, Scheduled

\* Steps that leave the timer, the preset and the history alone.
LEMMA TimerLeftAlone ==
  ASSUME Inv, Inv', TimerIsNextRun, NEW h \in Handlers, NEW step, NEW j,
         pc' = [pc EXCEPT ![h] = step], job' = [job EXCEPT ![h] = j],
         pc[h] # "schedule",
         j.op = job[h].op \/ job[h].op \notin {"cycle", "skipped", "init"}
            \/ (broken' /\ timer = NoTimer) \/ timer # NoTimer,
         UNCHANGED <<clock, timer, preset, raced>>, broken => broken'
  PROVE  TimerIsNextRun'
  <1>1. /\ job'[h] = j /\ pc'[h] = step /\ job' \in [Handlers -> Jobs]
        /\ \A g \in Handlers \ {h} : job'[g] = job[g] /\ pc'[g] = pc[g]
    BY DEF Inv, TypeOK
  <1>2. ASSUME timer' = NoTimer
        PROVE  broken' \/ WillSchedule'
    <2>1. broken \/ WillSchedule
      BY <1>2, TimerParts
    <2> QED
      BY <1>1, <1>2, <2>1, WillScheduleKept
  <1>3. ASSUME timer' # NoTimer
        PROVE  raced' \/ (\E g \in Handlers : pc'[g] = "schedule") \/ (timer' > 0 => IsNextRun')
    <2>1. raced \/ (\E g \in Handlers : pc[g] = "schedule") \/ (timer > 0 => IsNextRun)
      BY <1>3, TimerParts
    <2>2. IsNextRun => IsNextRun'
      BY DEF IsNextRun
    <2> QED
      BY <1>1, <2>1, <2>2
  <1> QED
    BY <1>2, <1>3, TimerParts DEF TimerIsNextRun, WillSchedule, IsNextRun

LEMMA TimerStep ==
  ASSUME Inv, TimerIsNextRun, Next
  PROVE  TimerIsNextRun'
  <1>0. Inv'
    BY InvStep
  <1>n. ASSUME NEW h \in Handlers, pc[h] = "idle"
        PROVE  job[h].op = "none"
    BY <1>n DEF Inv, JobOK
  <1>b. ASSUME NEW h \in Handlers, NEW j, Begin(h, j, pc'[h]),
               UNCHANGED <<clock, timer, preset, broken, raced>>
        PROVE  TimerIsNextRun'
    <2>1. pc[h] = "idle" /\ job[h].op = "none"
      BY <1>b, <1>n DEF Begin
    <2> QED
      BY <1>0, <1>b, <2>1, TimerLeftAlone DEF Begin
  <1>p. ASSUME NEW h \in Handlers, pc'[h] = "schedule"
        PROVE  timer' # NoTimer => TimerIsNextRun'
    BY <1>p DEF TimerIsNextRun
  <1>1. ASSUME NEW h \in Handlers,
               RunCleanup(h) \/ (\E s \in Names : BackUpOrRestore(h, s))
                 \/ \E p \in Presets : UpdateSchedule(h, p)
        PROVE  TimerIsNextRun'
    <2>1. PICK j, step : Begin(h, j, step)
      BY <1>1 DEF RunCleanup, BackUpOrRestore, UpdateSchedule, StartExclusive
    <2>2. UNCHANGED <<clock, timer, preset, broken, raced>>
      BY <1>1 DEF RunCleanup, BackUpOrRestore, UpdateSchedule, StartExclusive
    <2>3. pc'[h] = step
      BY <2>1 DEF Begin, Inv, TypeOK
    <2> QED
      BY <1>b, <2>1, <2>2, <2>3
  <1>2. ASSUME NEW h \in Handlers, Fire(h)
        PROVE  TimerIsNextRun'
    <2>1. PICK j, step :
            /\ j \in {[NoJob EXCEPT !.op = "skipped"],
                      [NoJob EXCEPT !.op = "cycle", !.left = Services]}
            /\ Begin(h, j, step)
      BY <1>2 DEF Fire
    <2>2. j.op \in {"skipped", "cycle"}
      BY <2>1, NoJobFields DEF Jobs
    <2>3. job'[h] = j
      BY <2>1 DEF Begin, Inv
    <2>4. timer' = NoTimer
      BY <1>2 DEF Fire
    <2> QED
      BY <2>2, <2>3, <2>4 DEF TimerIsNextRun, Scheduled
  <1>3. ASSUME NEW h \in Handlers, RunScript(h) \/ MarkScheduleRun(h)
        PROVE  TimerIsNextRun'
    <2>1. PICK step : Goto(h, step)
      BY <1>3 DEF RunScript, MarkScheduleRun
    <2>2. job' = [job EXCEPT ![h] = job[h]]
      BY <2>1 DEF Goto, Inv
    <2>3. pc[h] # "schedule" /\ UNCHANGED <<clock, timer, preset, broken, raced>>
      BY <1>3 DEF RunScript, MarkScheduleRun
    <2> QED
      BY <1>0, <2>1, <2>2, <2>3, TimerLeftAlone DEF Goto
  <1>4. ASSUME NEW h \in Handlers, RecordBackup(h)
        PROVE  TimerIsNextRun'
    <2>1. job[h] \in Jobs
      BY <1>4, WorkingJob DEF RecordBackup
    <2> DEFINE j == [job[h] EXCEPT !.left = Tail(@), !.service = Head(job[h].left)]
    <2>2. job' = [job EXCEPT ![h] = j]
      BY <1>4 DEF RecordBackup
    <2>3. j.op = job[h].op
      BY <2>1 DEF Jobs
    <2>4. pc[h] # "schedule" /\ pc' = [pc EXCEPT ![h] = "script"]
          /\ UNCHANGED <<clock, timer, preset, broken, raced>>
      BY <1>4 DEF RecordBackup
    <2> QED
      BY <1>0, <2>2, <2>4, <2>3, TimerLeftAlone
  <1>5. ASSUME NEW h \in Handlers, UpdateStatus(h)
        PROVE  TimerIsNextRun'
    <2>1. pc[h] = "update" /\ job[h].op \in {"manual", "cycle", "cleanup"}
      BY <1>5, WorkingJob DEF UpdateStatus, JobOK, BackingUp
    <2>2. UNCHANGED <<clock, timer, preset, broken, raced>>
      BY <1>5 DEF UpdateStatus
    <2>3. ASSUME NEW step, Goto(h, step)
          PROVE  TimerIsNextRun'
      <3>1. job' = [job EXCEPT ![h] = job[h]]
        BY <2>3 DEF Goto, Inv
      <3> QED
        BY <1>0, <2>1, <2>2, <2>3, <3>1, TimerLeftAlone DEF Goto
    <2>4. ASSUME Finish(h), job[h].op # "cycle"
          PROVE  TimerIsNextRun'
      BY <1>0, <2>1, <2>2, <2>4, TimerLeftAlone DEF Finish
    <2> QED
      BY <1>5, <2>3, <2>4 DEF UpdateStatus
  <1>6. ASSUME NEW h \in Handlers, GetScheduleState(h)
        PROVE  TimerIsNextRun'
    <2>1. job[h] \in Jobs
      BY <1>6, WorkingJob DEF GetScheduleState
    <2> DEFINE j == [job[h] EXCEPT !.preset = preset]
    <2>2. job' = [job EXCEPT ![h] = j]
      BY <1>6 DEF GetScheduleState
    <2>3. j.op = job[h].op
      BY <2>1 DEF Jobs
    <2>4. pc[h] # "schedule" /\ pc' = [pc EXCEPT ![h] = "schedule"]
          /\ UNCHANGED <<clock, timer, preset, broken, raced>>
      BY <1>6 DEF GetScheduleState
    <2> QED
      BY <1>0, <2>2, <2>4, <2>3, TimerLeftAlone
  <1>7. ASSUME NEW h \in Handlers, SetSchedulePreset(h)
        PROVE  TimerIsNextRun'
    <2>1. /\ pc' = [pc EXCEPT ![h] = "schedule"] /\ UNCHANGED <<timer, job, broken>>
      BY <1>7 DEF SetSchedulePreset, Goto
    <2>2. pc'[h] = "schedule"
      BY <2>1 DEF Inv, TypeOK
    <2>3. CASE timer = NoTimer
      BY <2>1, <2>3 DEF TimerIsNextRun, Scheduled
    <2> QED
      BY <2>1, <2>2, <2>3, <1>p
  <1>8. ASSUME NEW h \in Handlers, ScheduleNextRun(h)
        PROVE  TimerIsNextRun'
    <2>1. /\ job[h].preset \in Presets /\ timer' = NextRunAt(job[h].preset, clock) - clock
      BY <1>8, ScheduleStep
    <2>2. clock \in 0 .. (Week - 1) /\ UNCHANGED <<clock, preset>>
          /\ raced' = (job[h].preset # preset)
      BY <1>8 DEF ScheduleNextRun, Inv, TypeOK
    <2>3. PICK n : n = timer'
      OBVIOUS
    <2>4. n \in 1 .. Week
      BY <2>1, <2>2, <2>3, NextRunIsNext
    <2>5. timer' # NoTimer
      BY <2>3, <2>4 DEF NoTimer, Week
    <2>6. CASE job[h].preset = preset
      <3>1. IsRunTime(preset, clock + n) /\ \A d \in 1 .. (n - 1) : ~IsRunTime(preset, clock + d)
        BY <2>1, <2>2, <2>3, <2>6, NextRunIsNext
      <3>2. IsNextRun'
        BY <2>2, <2>3, <3>1 DEF IsNextRun
      <3> QED
        BY <2>5, <3>2 DEF TimerIsNextRun, IsNextRun
    <2>7. CASE job[h].preset # preset
      <3>1. raced'
        BY <2>2, <2>7
      <3> QED
        BY <2>5, <3>1 DEF TimerIsNextRun
    <2> QED
      BY <2>6, <2>7
  <1>9. ASSUME NEW h \in Handlers, Throw(h)
        PROVE  TimerIsNextRun'
    <2>1. /\ pc' = [pc EXCEPT ![h] = "idle"] /\ job' = [job EXCEPT ![h] = NoJob]
          /\ UNCHANGED <<clock, timer, preset, raced>>
          /\ pc[h] # "schedule" /\ job[h].op # "init"
      BY <1>9 DEF Throw, Finish
    <2>2. broken' = (broken \/ (Scheduled(h) /\ timer = NoTimer))
      BY <1>9 DEF Throw
    <2>3. \/ job[h].op \notin {"cycle", "skipped", "init"}
          \/ broken' /\ timer = NoTimer
          \/ timer # NoTimer
      BY <2>1, <2>2 DEF Scheduled
    <2> QED
      BY <1>0, <2>1, <2>2, <2>3, TimerLeftAlone
  <1>10. ASSUME NEW h \in Handlers, Restart(h)
         PROVE  TimerIsNextRun'
    <2>1. timer' = NoTimer /\ job'[h] = [NoJob EXCEPT !.op = "init"]
      BY <1>10 DEF Restart
    <2>2. job'[h].op = "init"
      BY <2>1, NoJobFields DEF Jobs
    <2> QED
      BY <2>1, <2>2 DEF TimerIsNextRun

  <1>11. CASE Tick
    <2>1. UNCHANGED <<preset, pc, job, broken, raced>> /\ preset \in Presets
      BY <1>11 DEF Tick, control, Inv, TypeOK
    <2>2. timer = NoTimer => timer' = NoTimer
      BY <1>11 DEF Tick
    <2>3. CASE timer = NoTimer
      BY <2>1, <2>2, <2>3 DEF TimerIsNextRun, Scheduled
    <2>4. CASE timer # NoTimer
      <3>1. PICK d \in 1 .. timer : clock' = (clock + d) % Week /\ timer' = timer - d
        BY <1>11, <2>4, TickStep
      <3>2. clock \in 0 .. (Week - 1) /\ timer \in 1 .. Week /\ timer' \in 0 .. Week
        BY <1>11, <2>4, <3>1 DEF Tick, Inv, TypeOK, NoTimer, Week
      <3>3. clock' \in 0 .. (Week - 1) /\ (clock' = clock + d \/ clock' = clock + d - Week)
        BY <3>1, <3>2 DEF Week
      <3>4. ASSUME IsNextRun, timer' > 0
            PROVE  IsNextRun'
        <4>1. /\ IsRunTime(preset, clock + timer)
              /\ \A c \in 1 .. (timer - 1) : ~IsRunTime(preset, clock + c)
          BY <3>4 DEF IsNextRun
        <4>a. ASSUME NEW t \in Int, NEW x \in Int, x = t \/ x = t - Week
              PROVE  IsRunTime(preset, x) <=> IsRunTime(preset, t)
          <5>1. CASE x = t
            BY <5>1
          <5>2. CASE x = t - Week
            BY <5>2, <2>1, RunTimesRepeat
          <5> QED
            BY <4>a, <5>1, <5>2
        <4>2. IsRunTime(preset, clock' + timer')
          <5> DEFINE t == clock + timer
                     x == clock' + timer'
          <5>1. t \in Int /\ x \in Int /\ (x = t \/ x = t - Week)
            BY <3>1, <3>2, <3>3 DEF Week
          <5>2. IsRunTime(preset, t)
            BY <4>1
          <5> HIDE DEF t, x
          <5>3. IsRunTime(preset, x)
            BY <5>1, <5>2, <4>a
          <5> QED
            BY <5>3 DEF x
        <4>3. ASSUME NEW c \in 1 .. (timer' - 1)
              PROVE  ~IsRunTime(preset, clock' + c)
          <5> DEFINE t == clock + (d + c)
                     x == clock' + c
          <5>1. /\ d + c \in 1 .. (timer - 1) /\ t \in Int /\ x \in Int
                /\ x = t \/ x = t - Week
            BY <3>1, <3>2, <3>3 DEF Week
          <5>2. ~IsRunTime(preset, t)
            BY <4>1, <5>1
          <5> HIDE DEF t, x
          <5>3. ~IsRunTime(preset, x)
            BY <5>1, <5>2, <4>a
          <5> QED
            BY <5>3 DEF x
        <4> QED
          BY <4>2, <4>3, <2>1 DEF IsNextRun, IsRunTime
      <3>5. raced \/ (\E h \in Handlers : pc[h] = "schedule") \/ (timer > 0 => IsNextRun)
        BY <2>4, TimerParts
      <3>6. timer' # NoTimer
        BY <3>2 DEF NoTimer, Week
      <3>7. raced' \/ (\E h \in Handlers : pc'[h] = "schedule") \/ (timer' > 0 => IsNextRun')
        BY <3>2, <3>4, <3>5, <2>1 DEF Week
      <3> QED
        BY <3>6, <3>7 DEF TimerIsNextRun, IsNextRun
    <2> QED
      BY <2>3, <2>4
  <1> QED
    BY <1>1, <1>2, <1>3, <1>4, <1>5, <1>6, <1>7, <1>8, <1>9, <1>10, <1>11 DEF Next, Proceed

\* No automatic backup is forgotten: either the timer is set, for the next hour
\* at which the stored preset is due, or a handler will set it; unless a cycle
\* has failed or the preset was replaced behind the back of the handler that set
\* the timer.  Skipped cycles, manual backups and restarts forget none.
THEOREM TimerCorrect == Spec => []TimerIsNextRun
  <1>1. Init => TimerIsNextRun
    <2> SUFFICES ASSUME Init
                 PROVE  TimerIsNextRun
      OBVIOUS
    <2>1. clock \in 0 .. (Week - 1) /\ preset \in Presets
      BY DEF Init
    <2>2. PICK n : n = NextRunAt(preset, clock) - clock
      OBVIOUS
    <2>3. timer = n /\ n \in 1 .. Week
      BY <2>1, <2>2, NextRunIsNext DEF Init
    <2>4. IsRunTime(preset, clock + n) /\ \A d \in 1 .. (n - 1) : ~IsRunTime(preset, clock + d)
      BY <2>1, <2>2, NextRunIsNext
    <2>5. IsNextRun
      BY <2>3, <2>4 DEF IsNextRun
    <2>6. timer # NoTimer
      BY <2>3 DEF NoTimer, Week
    <2> QED
      BY <2>5, <2>6, TimerParts
  <1>2. Inv /\ TimerIsNextRun /\ [Next]_vars => TimerIsNextRun'
    <2>1. ASSUME Inv, TimerIsNextRun, UNCHANGED vars
          PROVE  TimerIsNextRun'
      BY <2>1 DEF vars, control, TimerIsNextRun, Scheduled
    <2> QED
      BY <2>1, TimerStep
  <1> QED
    BY <1>1, <1>2, InvInit, InvStep, PTL DEF Spec
=============================================================================
