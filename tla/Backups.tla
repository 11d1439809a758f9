------------------------------ MODULE Backups ------------------------------
(****************************************************************************)
(* Backups, their schedule and their retention (actions/backup.ts,          *)
(* packages/backup, the scheduler loop of the web console).                 *)
(*                                                                          *)
(* Workers: the scheduler loop and the operations of an operator, both in   *)
(* the console process and under the lock of the instance, and cron, which  *)
(* runs `server run-scheduled-backups` and takes no lock.  A worker goes    *)
(* through the stages of instanceRunScheduledBackup, instanceBackup and     *)
(* instanceBackupPrune, one action per stretch of code between awaits.      *)
(*                                                                          *)
(* Time is counted in ticks, PerDay of them a day.  Two backups are ordered *)
(* by the number nr of their run, since createdAt has milliseconds.  The    *)
(* day in an id is the UTC day in the code and only groups the sequence     *)
(* numbers; here it is the local day.  Instances are active throughout.     *)
(****************************************************************************)
EXTENDS Naturals, FiniteSets

CONSTANTS
  Id,
  Setups,                  \* sets of workers that may be in use together
  PerDay,                  \* ticks of a day
  Mondays, Firsts,         \* days that are Mondays, and firsts of a month
  Daily, Weekly, Monthly,  \* slots of the retention policy
  MaxAge,                  \* its hard age limit, in ticks
  MaxTime,                 \* bound: the last tick
  MaxLag,                  \* bound: ticks that pass during one run of a worker
  MaxRequests,             \* bound: what the operator does
  MaxMishaps               \* bound: steps that fail, deaths of a process

Worker == {"loop", "console", "cron"}

ASSUME BackupsAssumption ==
  /\ \A s \in Setups : s \subseteq Worker
  /\ {PerDay, Daily, Weekly, Monthly, MaxAge, MaxTime, MaxLag, MaxRequests, MaxMishaps}
       \subseteq Nat
  /\ PerDay > 0 /\ Daily > 0 /\ MaxTime > 0

VARIABLES
  clock,
  policy,   \* [Id -> [enabled, time]]: backupSchedule of the instance manifest
  last,     \* [Id -> time or Never]: lastRunAt in backup-scheduler.json, one file
  dirs,     \* [Id -> [ids -> directory]]: the backups directory of an instance
  lock,     \* [Id -> worker or Free]
  work,     \* [Worker -> what it is doing]
  inUse,    \* the setup: which workers are in use
  taken,    \* history: [Id -> backups that were completed]
  starts,   \* history: [Id -> [occurrence -> scheduled backups begun for it]]
  count     \* [runs, requests, mishaps]

vars == <<clock, policy, last, dirs, lock, work, inUse, taken, starts, count>>

Never == 0    \* ticks begin with 1
Free == "nobody"
Locking == {"loop", "console"}
Process(w) == IF w = "cron" THEN {"cron"} ELSE Locking

Time == 1..MaxTime
DayOf(t) == t \div PerDay
Part == {"database", "volumes"}
Missing == 0
Unsealed == [nr |-> 0]
EmptyDir == [parts |-> [p \in Part |-> Missing], manifest |-> Unsealed]

Idle == [stage |-> "idle"]
NoId == [day |-> 0, seq |-> 0]
Job(kind, i, stage) ==
  [stage |-> stage, kind |-> kind, on |-> i, now |-> clock, nr |-> 0, at |-> 0, id |-> NoId,
   victims |-> {}, seen |-> [e \in Id |-> Never], low |-> FALSE, caught |-> FALSE, todo |-> {}]

----------------------------------------------------------------------------
(* When a backup is due, and which backups are kept *)

\* The last time of day `time` up to now, today or yesterday; 0: before the first tick.
LastOccurrence(time, now) ==
  LET today == DayOf(now) * PerDay + time
  IN  IF today <= now THEN today ELSE IF today > PerDay THEN today - PerDay ELSE 0

\* Mutant: the moment of the occurrence itself does not count as covering it.
DueAgain(p, ran, now) ==
  p.enabled /\ (ran = Never \/ ran <= LastOccurrence(p.time, now))

IsBackupDue(p, ran, now) ==
  p.enabled /\ (ran = Never \/ ran < LastOccurrence(p.time, now))

LatestDays(days, n) == {d \in days : Cardinality({e \in days : e > d}) < n}

\* Mutant: the slots are filled before the weekdays are looked at.
KeptLatestDays(backups, now) ==
  LET nightly == {b \in backups : b.origin = "scheduled"}
      days == {DayOf(b.at) : b \in nightly}
      newest(set) == {b \in set : \A e \in set : e.nr <= b.nr}
      last_of(ds) == UNION {newest({b \in nightly : DayOf(b.at) = d}) : d \in ds}
      slots == {b \in nightly : DayOf(b.at) \in LatestDays(days, Daily)} \union
               last_of(LatestDays(days, Weekly) \intersect Mondays)
  IN  {b \in backups : b.origin = "manual"} \union newest(nightly) \union
      {b \in backups : now - b.at <= MaxAge /\ (b.origin = "pre_update" \/ b \in slots)}

\* planPrune: the backups that stay.  Manual ones always do, those taken before an
\* update or restore until they are too old, scheduled ones if they have a slot.
Kept(backups, now) ==
  LET nightly == {b \in backups : b.origin = "scheduled"}
      days == {DayOf(b.at) : b \in nightly}
      newest(set) == {b \in set : \A e \in set : e.nr <= b.nr}
      last_of(ds) == UNION {newest({b \in nightly : DayOf(b.at) = d}) : d \in ds}
      slots == {b \in nightly : DayOf(b.at) \in LatestDays(days, Daily)} \union
               last_of(LatestDays(days \intersect Mondays, Weekly)) \union
               last_of(LatestDays(days \intersect Firsts, Monthly))
  IN  {b \in backups : b.origin = "manual"} \union newest(nightly) \union
      {b \in backups : now - b.at <= MaxAge /\ (b.origin = "pre_update" \/ b \in slots)}

\* listInstanceBackups: the directories whose manifest can be read.
Listing(i) == {d \in DOMAIN dirs[i] : dirs[i][d].manifest # Unsealed}
Listed(i) == {dirs[i][d].manifest : d \in Listing(i)}

\* Mutant: the first sequence number is 0.
SeqFromZero(i, day) == Cardinality({d \in DOMAIN dirs[i] : d.day = day})

\* The next sequence number of a day, from the names of all directories there are.
NextSeq(i, day) ==
  LET used == {d.seq : d \in {e \in DOMAIN dirs[i] : e.day = day}}
  IN  1 + (CHOOSE n \in {0} \union used : \A m \in used : m <= n)

----------------------------------------------------------------------------
(* How workers begin and end *)

Goto(w, stage) == work' = [work EXCEPT ![w].stage = stage]

\* Its operation is over: the lock is released; cron goes on to the next instance.
Over(w) ==
  /\ work' = [work EXCEPT ![w] =
       IF w = "cron" THEN [Job("scheduled", @.on, "walk") EXCEPT !.now = work[w].now,
                                                                 !.todo = work[w].todo]
       ELSE Idle]
  /\ lock' = IF w \in Locking THEN [lock EXCEPT ![work[w].on] = Free] ELSE lock

\* The scheduler loop peeks at one instance after the other, without its lock.
Peek(i) ==
  /\ "loop" \in inUse /\ work["loop"].stage = "idle"
  /\ lock[i] = Free
  /\ IsBackupDue(policy[i], last[i], clock)
  /\ work' = [work EXCEPT !["loop"] = Job("scheduled", i, "peeked")]
  /\ UNCHANGED <<clock, policy, last, dirs, lock, inUse, taken, starts, count>>

\* Mutant: when the lock is taken the loop goes on as if its pass were still running.
AcquireStuck ==
  LET i == work["loop"].on
  IN  /\ work["loop"].stage = "peeked"
      /\ IF lock[i] = Free
         THEN /\ lock' = [lock EXCEPT ![i] = "loop"]
              /\ work' = [work EXCEPT !["loop"] = Job("scheduled", i, "check")]
         ELSE /\ work' = [work EXCEPT !["loop"].stage = "walk"]
              /\ UNCHANGED lock
      /\ UNCHANGED <<clock, policy, last, dirs, inUse, taken, starts, count>>

\* Somebody else may have the lock by then: the next tick tries again.
Acquire ==
  LET i == work["loop"].on
  IN  /\ work["loop"].stage = "peeked"
      /\ IF lock[i] = Free
         THEN /\ lock' = [lock EXCEPT ![i] = "loop"]
              /\ work' = [work EXCEPT !["loop"] = Job("scheduled", i, "check")]
         ELSE /\ work' = [work EXCEPT !["loop"] = Idle]
              /\ UNCHANGED lock
      /\ UNCHANGED <<clock, policy, last, dirs, inUse, taken, starts, count>>

\* cron starts a run over all instances; `now` is that of the command.
Invoke ==
  /\ "cron" \in inUse /\ work["cron"].stage = "idle"
  /\ \E i \in Id : IsBackupDue(policy[i], last[i], clock)   \* else it has no effect
  /\ work' = [work EXCEPT !["cron"] =
       [Job("scheduled", CHOOSE i \in Id : TRUE, "walk") EXCEPT !.todo = Id]]
  /\ UNCHANGED <<clock, policy, last, dirs, lock, inUse, taken, starts, count>>

Walk ==
  /\ work["cron"].stage = "walk"
  /\ \/ /\ work["cron"].todo = {}
        /\ work' = [work EXCEPT !["cron"] = Idle]
     \/ \E i \in work["cron"].todo :
          work' = [work EXCEPT !["cron"].on = i, !["cron"].todo = @ \ {i},
                               !["cron"].stage = IF policy[i].enabled THEN "check" ELSE "walk"]
  /\ UNCHANGED <<clock, policy, last, dirs, lock, inUse, taken, starts, count>>

\* In the console the operator takes a backup, updates (which takes one first), prunes.
Request(i) ==
  /\ "console" \in inUse /\ work["console"].stage = "idle"
  /\ count.requests < MaxRequests /\ lock[i] = Free
  /\ \E kind \in {"manual", "pre_update", "prune"} :
       work' = [work EXCEPT !["console"] =
                  Job(kind, i, IF kind = "prune" THEN "plan" ELSE "number")]
  /\ lock' = [lock EXCEPT ![i] = "console"]
  /\ count' = [count EXCEPT !.requests = @ + 1]
  /\ UNCHANGED <<clock, policy, last, dirs, inUse, taken, starts>>

\* The schedule is set at once, with no lock, also in the middle of a run.
SetSchedule(i) ==
  /\ count.requests < MaxRequests
  /\ \E enabled \in BOOLEAN, time \in 0..(PerDay - 1) :
       policy' = [policy EXCEPT ![i] = [enabled |-> enabled, time |-> time]]
  /\ count' = [count EXCEPT !.requests = @ + 1]
  /\ UNCHANGED <<clock, last, dirs, lock, work, inUse, taken, starts>>

----------------------------------------------------------------------------
(* The scheduled run *)

\* Policy and state are read again under the lock; the disk may be too full.
Check(w) ==
  LET i == work[w].on
      due == IsBackupDue(policy[i], last[i], work[w].now)
      occurrence == LastOccurrence(policy[i].time, work[w].now)
  IN  /\ work[w].stage = "check"
      /\ \/ /\ ~due /\ Over(w) /\ UNCHANGED starts
         \/ /\ due /\ Goto(w, "number")
            /\ starts' = [starts EXCEPT ![i][occurrence] = @ + 1]
            /\ UNCHANGED lock
         \/ /\ due /\ work' = [work EXCEPT ![w].stage = "read", ![w].low = TRUE]
            /\ starts' = [starts EXCEPT ![i][occurrence] = @ + 1]
            /\ UNCHANGED lock
      /\ UNCHANGED <<clock, policy, last, dirs, inUse, taken, count>>

\* record(): the state file of all instances is read ...
ReadState(w) ==
  /\ work[w].stage = "read"
  /\ work' = [work EXCEPT ![w].stage = "record", ![w].seen = last]
  /\ UNCHANGED <<clock, policy, last, dirs, lock, inUse, taken, starts, count>>

\* ... and written with the time the run began, whatever came of it.
WriteState(w) ==
  /\ work[w].stage = "record"
  /\ last' = [work[w].seen EXCEPT ![work[w].on] = work[w].now]
  /\ Over(w)
  /\ UNCHANGED <<clock, policy, dirs, inUse, taken, starts, count>>

----------------------------------------------------------------------------
(* A backup *)

Number(w) ==
  LET i == work[w].on
      day == DayOf(clock)
  IN  /\ work[w].stage = "number"
      /\ work' = [work EXCEPT ![w].stage = "dump", ![w].at = clock, ![w].nr = count.runs + 1,
                              ![w].id = [day |-> day, seq |-> NextSeq(i, day)]]
      /\ count' = [count EXCEPT !.runs = @ + 1]
      /\ UNCHANGED <<clock, policy, last, dirs, lock, inUse, taken, starts>>

\* The directory, made if it is not there, and one file in it.
Put(w, part) ==
  LET i == work[w].on
      id == work[w].id
      dir == IF id \in DOMAIN dirs[i] THEN dirs[i][id] ELSE EmptyDir
  IN  dirs' = [dirs EXCEPT ![i] = [d \in DOMAIN dirs[i] \union {id} |->
                 IF d = id THEN [dir EXCEPT !.parts[part] = work[w].nr] ELSE dirs[i][d]]]

\* Database and metadata, then the archives of the volumes.
Fill(w) ==
  /\ \/ work[w].stage = "dump" /\ Put(w, "database") /\ Goto(w, "archive")
     \/ work[w].stage = "archive" /\ Put(w, "volumes") /\ Goto(w, "seal")
  /\ UNCHANGED <<clock, policy, last, lock, inUse, taken, starts, count>>

\* The checksums of what is there, and last the backup manifest.
Seal(w) ==
  LET i == work[w].on
      id == work[w].id
      manifest == [nr |-> work[w].nr, at |-> work[w].at, origin |-> work[w].kind,
                   sums |-> dirs[i][id].parts]
  IN  /\ work[w].stage = "seal"
      /\ dirs' = [dirs EXCEPT ![i][id].manifest = manifest]
      /\ taken' = [taken EXCEPT ![i] = @ \union {manifest}]
      /\ IF work[w].kind = "scheduled" THEN Goto(w, "plan") /\ UNCHANGED lock ELSE Over(w)
      /\ UNCHANGED <<clock, policy, last, inUse, starts, count>>

----------------------------------------------------------------------------
(* Pruning *)

Plan(w) ==
  LET i == work[w].on
      stay == Kept(Listed(i), IF work[w].kind = "prune" THEN clock ELSE work[w].now)
  IN  /\ work[w].stage = "plan"
      /\ work' = [work EXCEPT ![w].stage = "delete",
                              ![w].victims = {d \in Listing(i) : dirs[i][d].manifest \notin stay}]
      /\ UNCHANGED <<clock, policy, last, dirs, lock, inUse, taken, starts, count>>

Delete(w) ==
  LET i == work[w].on
  IN  /\ work[w].stage = "delete"
      /\ \/ \E v \in work[w].victims :
              /\ dirs' = [dirs EXCEPT ![i] = [d \in DOMAIN @ \ {v} |-> @[d]]]
              /\ work' = [work EXCEPT ![w].victims = @ \ {v}]
              /\ UNCHANGED lock
         \/ /\ work[w].victims = {}
            /\ IF work[w].kind = "scheduled" THEN Goto(w, "read") /\ UNCHANGED lock ELSE Over(w)
            /\ UNCHANGED dirs
      /\ UNCHANGED <<clock, policy, last, inUse, taken, starts, count>>

----------------------------------------------------------------------------
(* Failures *)

\* A deletion that fails may have removed part of the directory.
HalfDeleted(i, v) ==
  \E gone \in SUBSET Part, listed \in BOOLEAN :
    dirs' = [dirs EXCEPT ![i][v] =
               [parts |-> [p \in Part |-> IF p \in gone THEN Missing ELSE @.parts[p]],
                manifest |-> IF listed THEN @.manifest ELSE Unsealed]]

\* A step fails.  The scheduled run then records the occurrence as covered; when the
\* record of a success fails it tries once more, and when that of a skip fails it
\* takes the failure for one of the disk probe and goes on with the backup.
Fail(w) ==
  LET recording == work[w].stage \in {"read", "record"}
  IN  /\ work[w].stage \notin {"idle", "peeked", "walk"} /\ count.mishaps < MaxMishaps
      /\ count' = [count EXCEPT !.mishaps = @ + 1]
      /\ \/ UNCHANGED dirs
         \/ /\ work[w].stage = "delete"
            /\ \E v \in work[w].victims : HalfDeleted(work[w].on, v)
      /\ \/ /\ work[w].kind = "scheduled" /\ work[w].stage # "check" /\ ~work[w].caught
            /\ work' = [work EXCEPT
                 ![w].stage = IF recording /\ work[w].low THEN "number" ELSE "read",
                 ![w].low = FALSE, ![w].caught = ~work[w].low]
            /\ UNCHANGED lock
         \/ /\ work[w].kind # "scheduled" \/ work[w].stage = "check" \/ work[w].caught
            /\ Over(w)
      /\ UNCHANGED <<clock, policy, last, inUse, taken, starts>>

\* A process dies with its workers.  Its locks are taken for stale later (module
\* Operations says when that works).
Crash(w) ==
  /\ count.mishaps < MaxMishaps /\ work[w].stage # "idle"
  /\ count' = [count EXCEPT !.mishaps = @ + 1]
  /\ work' = [v \in Worker |-> IF v \in Process(w) THEN Idle ELSE work[v]]
  /\ lock' = [i \in Id |-> IF lock[i] \in Process(w) THEN Free ELSE lock[i]]
  /\ UNCHANGED <<clock, policy, last, dirs, inUse, taken, starts>>

Tick ==
  /\ clock < MaxTime /\ clock' = clock + 1
  /\ \A w \in Worker : work[w] # Idle => clock < work[w].now + MaxLag
  /\ UNCHANGED <<policy, last, dirs, lock, work, inUse, taken, starts, count>>

----------------------------------------------------------------------------
(* The specification *)

Init ==
  /\ clock = 1
  /\ policy \in [Id -> [enabled : {TRUE}, time : 0..(PerDay - 1)]]
  /\ last = [i \in Id |-> Never]
  /\ dirs = [i \in Id |-> <<>>]
  /\ lock = [i \in Id |-> Free]
  /\ work = [w \in Worker |-> Idle]
  /\ inUse \in Setups
  /\ taken = [i \in Id |-> {}]
  /\ starts = [i \in Id |-> [o \in 0..MaxTime |-> 0]]
  /\ count = [runs |-> 0, requests |-> 0, mishaps |-> 0]

Proceed(w) ==
  \/ Check(w) \/ ReadState(w) \/ WriteState(w)
  \/ Number(w) \/ Fill(w) \/ Seal(w) \/ Plan(w) \/ Delete(w)

Next ==
  \/ \E i \in Id : Peek(i) \/ Request(i) \/ SetSchedule(i)
  \/ Acquire \/ Invoke \/ Walk \/ Tick
  \/ \E w \in Worker : Proceed(w) \/ Fail(w) \/ Crash(w)

Spec == Init /\ [][Next]_vars

\* The timers of the loop and of cron keep firing, and awaited calls return.
FairSpec ==
  /\ Spec
  /\ \A i \in Id : WF_vars(Peek(i))
  /\ WF_vars(Acquire) /\ WF_vars(Invoke) /\ WF_vars(Walk)
  /\ \A w \in Worker : WF_vars(Proceed(w))

----------------------------------------------------------------------------
(* Properties *)

Stages == {"idle", "peeked", "walk", "check", "number", "dump", "archive", "seal", "plan",
           "delete", "read", "record"}

TypeOK ==
  /\ clock \in Time
  /\ policy \in [Id -> [enabled : BOOLEAN, time : 0..(PerDay - 1)]]
  /\ last \in [Id -> Time \union {Never}]
  /\ lock \in [Id -> Locking \union {Free}]
  /\ \A w \in Worker : work[w].stage \in Stages /\ (w \notin inUse => work[w] = Idle)
  /\ \A i \in Id : \A d \in DOMAIN dirs[i] : d.seq \in 1..count.runs

\* "the same daily occurrence is never taken twice": a backup is begun again for an
\* occurrence only after a process died or a step failed (backup.ts:380-386).
OccurrenceOnce ==
  \A i \in Id, o \in 0..MaxTime : starts[i][o] <= 1 + count.mishaps

\* What the operator guide promises to keep (scheduled-backups.md:60-80): manual backups,
\* safety backups up to the age limit, and of the scheduled ones the newest, all of the
\* latest days, and the last of each of the latest Mondays and firsts of a month.
Promised(b, all, now) ==
  LET later == {e \in all : e.origin = "scheduled" /\ e.nr > b.nr}
      rep == \A e \in later : DayOf(e.at) # DayOf(b.at)
      among(days, slots) ==
        /\ DayOf(b.at) \in days
        /\ Cardinality({DayOf(e.at) : e \in later} \intersect (days \ {DayOf(b.at)})) < slots
  IN  \/ b.origin = "manual"
      \/ b.origin = "pre_update" /\ now <= b.at + MaxAge
      \/ b.origin = "scheduled" /\ later = {}
      \/ /\ b.origin = "scheduled" /\ now <= b.at + MaxAge
         /\ \/ among({DayOf(e.at) : e \in all}, Daily)
            \/ rep /\ (among(Mondays, Weekly) \/ among(Firsts, Monthly))

\* Whatever was pruned in between and whatever failed, every backup ever completed that
\* the retention policy promises now is there, complete and with the checksums it had.
RetentionKept ==
  \A i \in Id : \A b \in {c \in taken[i] : Promised(c, taken[i], clock)} :
    \E d \in DOMAIN dirs[i] : dirs[i][d].manifest = b /\ dirs[i][d].parts = b.sums

\* A due backup is taken, or its occurrence recorded as failed, however often the lock
\* was held by somebody else, a process died or a record could not be written.
DueCovered ==
  \A i \in Id : IsBackupDue(policy[i], last[i], clock) ~>
                ~IsBackupDue(policy[i], last[i], clock)

============================================================================
