----------------------------- MODULE BackupsProofs -----------------------------
(****************************************************************************)
(* Theorems about Backups, for any instances, schedules, retention and      *)
(* bounds.                                                                  *)
(****************************************************************************)
EXTENDS Backups, FiniteSetTheorems, WellFoundedInduction, TLAPS

Nightly == {"loop", "cron"}

\* The loop of the console and cron are not both in use.
Sole == \A s \in Setups : ~(Nightly \subseteq s)

----------------------------------------------------------------------------
(* Occurrences *)

LEMMA DivisionIs ==
  ASSUME NEW n \in Nat, NEW p \in Nat, p > 0
  PROVE  n \div p \in Nat /\ (n \div p) * p <= n /\ (n \div p) * p \in Nat
OBVIOUS

\* The occurrence a run is for lies at or before its time.
LEMMA OccurrenceIs ==
  ASSUME NEW time \in 0..(PerDay - 1), NEW now \in Nat
  PROVE  LastOccurrence(time, now) \in Nat /\ LastOccurrence(time, now) <= now
<1>1. PerDay \in Nat /\ PerDay > 0
  BY BackupsAssumption
<1>2. DayOf(now) * PerDay \in Nat /\ DayOf(now) * PerDay <= now
  BY <1>1, DivisionIs DEF DayOf
<1>3. ASSUME NEW day \in Nat, day <= now
      PROVE  LET today == day + time
                 it == IF today <= now THEN today
                       ELSE IF today > PerDay THEN today - PerDay ELSE 0
             IN  it \in Nat /\ it <= now
  <2>1. time \in Nat /\ time < PerDay
    BY <1>1
  <2>2. CASE day + time <= now
    BY <1>3, <2>1, <2>2
  <2>3. CASE day + time > now /\ day + time > PerDay
    BY <1>1, <1>3, <2>1, <2>3
  <2>4. CASE day + time > now /\ day + time <= PerDay
    BY <1>1, <1>3, <2>1, <2>4
  <2> QED BY <2>1, <2>2, <2>3, <2>4, <1>1
<1> QED BY <1>2, <1>3 DEF LastOccurrence

----------------------------------------------------------------------------
(* What a worker is doing *)

Begun == {"number", "dump", "archive", "seal", "plan", "delete", "read", "record"}

\* r is a record with the fields of a job.
Shape(r) ==
  r \in [stage : {r.stage}, kind : {r.kind}, on : {r.on}, now : {r.now}, nr : {r.nr},
         at : {r.at}, id : {r.id}, victims : {r.victims}, seen : {r.seen}, low : {r.low},
         caught : {r.caught}, todo : {r.todo}]

\* r goes on where q was: the same instance, kind, time and list.
Continues(q, r) ==
  Shape(r) /\ r.kind = q.kind /\ r.on = q.on /\ r.now = q.now /\ r.todo = q.todo

LEMMA JobIs ==
  ASSUME NEW kind, NEW i, NEW stage
  PROVE  LET r == Job(kind, i, stage)
         IN  /\ Shape(r) /\ r.kind = kind /\ r.on = i /\ r.stage = stage
             /\ r.now = clock /\ r.todo = {}
BY DEF Job, Shape

\* Where a worker may be, and what it knows there.  Nobody else writes the state file
\* while a nightly run reads, works and records.
Stands(w) ==
  LET r == work[w]
  IN  /\ Shape(r) /\ w \in inUse
      /\ r.on \in Id /\ r.now \in 1..clock /\ r.todo \subseteq Id
      /\ w \in Nightly =>
           /\ r.kind = "scheduled" /\ r.stage \in Begun \union {"peeked", "walk", "check"}
           /\ \A i \in Id : last[i] <= r.now
           /\ r.stage = "record" => r.seen = last
      /\ w \notin Nightly =>
           r.kind # "scheduled" /\ r.stage \in Begun \ {"read", "record"}

Working == \A w \in Worker : work[w] = Idle \/ Stands(w)

Typed ==
  /\ clock \in Nat \ {0}
  /\ policy \in [Id -> [enabled : BOOLEAN, time : 0..(PerDay - 1)]]
  /\ last \in [Id -> Nat] /\ \A i \in Id : last[i] <= clock
  /\ starts \in [Id -> [0..MaxTime -> Nat]]
  /\ count \in [runs : Nat, requests : Nat, mishaps : Nat]
  /\ inUse \in Setups
  /\ work = [w \in Worker |-> work[w]]

\* A step of w; the others stay what they are.
Only(w) ==
  /\ work' = [v \in Worker |-> work'[v]]
  /\ \A v \in Worker \ {w} : work'[v] = work[v]

LEMMA NightlyAlone ==
  ASSUME Sole, Typed, Working,
         NEW w \in Nightly, work[w] # Idle, NEW v \in Nightly, v # w
  PROVE  work[v] = Idle
<1>1. v \in Worker /\ w \in Worker
  BY DEF Nightly, Worker
<1>2. ~(w \in inUse /\ v \in inUse)
  BY DEF Sole, Typed, Nightly
<1> QED BY <1>1, <1>2 DEF Working, Stands

\* When a worker goes on, or stops, and the state file is left alone, all stand well.
LEMMA GoesOn ==
  ASSUME Typed, Working, NEW w \in Worker, Only(w),
         UNCHANGED <<clock, last, inUse>>,
         \/ work'[w] = Idle
         \/ /\ work[w] # Idle /\ Continues(work[w], work'[w])
            /\ w \in Nightly =>
                 /\ work'[w].stage \in Begun \union {"peeked", "walk", "check"}
                 /\ work'[w].stage = "record" => work'[w].seen = last
            /\ w \notin Nightly => work'[w].stage \in Begun \ {"read", "record"}
  PROVE  Working'
<1> SUFFICES ASSUME NEW v \in Worker
             PROVE  work'[v] = Idle \/ Stands(v)'
  BY DEF Working
<1>1. CASE v # w
  BY <1>1 DEF Working, Stands, Only
<1>2. CASE v = w /\ work'[w] # Idle
  BY <1>2 DEF Working, Stands, Continues
<1> QED BY <1>1, <1>2

----------------------------------------------------------------------------
(* How often a backup is begun for an occurrence *)

Covered(i, o) == last[i] # Never /\ o <= last[i]

Underway(i, o) ==
  \E w \in Nightly : work[w].stage \in Begun /\ work[w].on = i /\ o <= work[w].now

\* One start is left for an occurrence that is neither covered nor worked on.
Spared ==
  \A i \in Id, o \in 0..MaxTime :
    /\ starts[i][o] <= 1 + count.mishaps
    /\ ~Covered(i, o) /\ ~Underway(i, o) => starts[i][o] <= count.mishaps

LEMMA SparedStays ==
  ASSUME Spared, starts' = starts, last' = last, count'.mishaps = count.mishaps,
         \A w \in Nightly : work[w].stage \in Begun =>
           work'[w].stage \in Begun /\ work'[w].on = work[w].on /\ work'[w].now = work[w].now
  PROVE  Spared'
<1>1. \A i \in Id, o \in 0..MaxTime : Covered(i, o)' <=> Covered(i, o)
  BY DEF Covered
<1>2. \A i \in Id, o \in 0..MaxTime : Underway(i, o) => Underway(i, o)'
  BY DEF Underway
<1> QED BY <1>1, <1>2 DEF Spared

\* A mishap excuses one more start.
LEMMA SparedByMishap ==
  ASSUME Typed, Spared, starts' = starts, count'.mishaps = count.mishaps + 1
  PROVE  Spared'
<1>1. count.mishaps \in Nat /\ \A i \in Id, o \in 0..MaxTime : starts[i][o] \in Nat
  BY DEF Typed
<1> QED BY <1>1 DEF Spared

----------------------------------------------------------------------------
(* The steps *)

Sound == Typed /\ Working /\ Spared

LEMMA SoundInit == Init => Sound
<1> SUFFICES ASSUME Init PROVE Sound
  OBVIOUS
<1>1. Typed
  <2>1. clock = 1 /\ last = [i \in Id |-> 0]
    BY DEF Init, Never
  <2>2. last \in [Id -> Nat] /\ \A i \in Id : last[i] <= clock
    BY <2>1
  <2>3. policy \in [Id -> [enabled : BOOLEAN, time : 0..(PerDay - 1)]]
    BY DEF Init
  <2>4. starts \in [Id -> [0..MaxTime -> Nat]]
    BY DEF Init
  <2>5. count \in [runs : Nat, requests : Nat, mishaps : Nat] /\ inUse \in Setups
    BY DEF Init
  <2>6. work = [w \in Worker |-> work[w]]
    BY DEF Init
  <2> QED BY <2>1, <2>2, <2>3, <2>4, <2>5, <2>6 DEF Typed
<1>2. Working
  BY DEF Init, Working
<1>3. \A i \in Id, o \in 0..MaxTime : starts[i][o] = 0 /\ count.mishaps = 0
  BY DEF Init
<1>4. Spared
  BY <1>3 DEF Spared
<1> QED BY <1>1, <1>2, <1>4 DEF Sound

LEMMA OverStops ==
  ASSUME Typed, NEW w \in Worker, Shape(work[w]), Over(w), work[w].kind = "scheduled" \/ w # "cron"
  PROVE  /\ Only(w)
         /\ \/ work'[w] = Idle
            \/ w = "cron" /\ Continues(work[w], work'[w]) /\ work'[w].stage = "walk"
<1>1. Only(w)
  BY DEF Only, Over, Typed
<1>2. CASE w # "cron"
  BY <1>1, <1>2 DEF Over, Typed
<1>3. CASE w = "cron"
  <2> DEFINE base == Job("scheduled", work[w].on, "walk")
             r == [base EXCEPT !.now = work[w].now, !.todo = work[w].todo]
  <2>1. work'[w] = r
    BY <1>3 DEF Over, Typed
  <2>2. Shape(base) /\ base.kind = "scheduled" /\ base.on = work[w].on /\ base.stage = "walk"
    BY JobIs
  <2> HIDE DEF base
  <2>3. Shape(r) /\ r.kind = base.kind /\ r.on = base.on /\ r.now = work[w].now
          /\ r.stage = base.stage /\ r.todo = work[w].todo
    BY <2>2 DEF Shape
  <2> HIDE DEF r
  <2> QED BY <1>1, <1>3, <2>1, <2>2, <2>3 DEF Continues
<1> QED BY <1>1, <1>2, <1>3

\* A step of a backup or of its record that neither begins one nor covers an occurrence.
LEMMA SoundStep ==
  ASSUME Sound, NEW w \in Worker, work[w] # Idle, Only(w),
         UNCHANGED <<clock, policy, last, inUse, starts>>,
         count' \in [runs : Nat, requests : Nat, mishaps : Nat],
         count'.mishaps = count.mishaps,
         \/ /\ work'[w] = Idle
            /\ w \in Nightly => work[w].stage \notin Begun
         \/ /\ Continues(work[w], work'[w])
            /\ w \in Nightly =>
                 /\ work'[w].stage \in Begun \union {"peeked", "walk", "check"}
                 /\ work'[w].stage = "record" => work'[w].seen = last
                 /\ work[w].stage \in Begun => work'[w].stage \in Begun
            /\ w \notin Nightly => work'[w].stage \in Begun \ {"read", "record"}
  PROVE  Sound'
<1>1. Typed'
  BY DEF Sound, Typed, Only
<1>2. Working'
  BY GoesOn DEF Sound
<1>3. \A v \in Nightly : work[v].stage \in Begun =>
        work'[v].stage \in Begun /\ work'[v].on = work[v].on /\ work'[v].now = work[v].now
  <2>1. Nightly \subseteq Worker
    BY DEF Nightly, Worker
  <2> QED BY <2>1 DEF Only, Continues
<1>4. Spared'
  BY <1>3, SparedStays DEF Sound
<1> QED BY <1>1, <1>2, <1>4 DEF Sound

\* A step that fails or kills may stop it in the middle.
LEMMA SoundMishap ==
  ASSUME Sound, NEW w \in Worker, work[w] # Idle, Only(w),
         UNCHANGED <<clock, policy, last, inUse, starts>>,
         count' = [count EXCEPT !.mishaps = @ + 1],
         \/ work'[w] = Idle
         \/ /\ Continues(work[w], work'[w])
            /\ w \in Nightly => work'[w].stage \in (Begun \ {"record"}) \union {"walk"}
            /\ w \notin Nightly => work'[w].stage \in Begun \ {"read", "record"}
  PROVE  Sound'
<1>1. Typed' /\ count'.mishaps = count.mishaps + 1
  <2>1. count \in [runs : Nat, requests : Nat, mishaps : Nat]
    BY DEF Sound, Typed
  <2>2. /\ count' \in [runs : Nat, requests : Nat, mishaps : Nat]
        /\ count'.mishaps = count.mishaps + 1
    BY <2>1
  <2> QED BY <2>2 DEF Sound, Typed, Only
<1>2. Working'
  BY GoesOn DEF Sound, Begun
<1>3. Spared'
  BY <1>1, SparedByMishap DEF Sound
<1> QED BY <1>1, <1>2, <1>3 DEF Sound

LEMMA OneMore ==
  ASSUME NEW S, NEW f \in [S -> Nat], NEW x
  PROVE  [f EXCEPT ![x] = @ + 1] \in [S -> Nat]
<1>1. CASE x \in S
  <2>1. f[x] + 1 \in Nat
    BY <1>1
  <2> QED BY <2>1
<1>2. CASE x \notin S
  BY <1>2
<1> QED BY <1>1, <1>2

LEMMA CheckSound ==
  ASSUME Sole, Sound, NEW w \in Worker, Check(w)
  PROVE  Sound'
<1> DEFINE r == work[w]
           i == r.on
           o == LastOccurrence(policy[i].time, r.now)
<1>1. r # Idle /\ Stands(w) /\ w \in Nightly
  BY DEF Check, Sound, Working, Stands, Idle, Begun
<1>2. CASE ~IsBackupDue(policy[i], last[i], r.now)
  <2>1. Over(w) /\ starts' = starts
    BY <1>2 DEF Check
  <2>2. /\ Only(w)
        /\ \/ work'[w] = Idle
           \/ w = "cron" /\ Continues(work[w], work'[w]) /\ work'[w].stage = "walk"
    BY <1>1, <2>1, OverStops DEF Sound, Stands
  <2>3. count' = count /\ count \in [runs : Nat, requests : Nat, mishaps : Nat]
    BY DEF Check, Sound, Typed
  <2>4. r.stage \notin Begun
    BY DEF Check, Begun
  <2>5. UNCHANGED <<clock, policy, last, inUse, starts>>
    BY <2>1 DEF Check
  <2> QED BY <1>1, <2>2, <2>3, <2>4, <2>5, SoundStep
<1>3. CASE IsBackupDue(policy[i], last[i], r.now)
  <2>1. /\ Only(w) /\ Continues(r, work'[w]) /\ work'[w].stage \in {"number", "read"}
        /\ starts' = [starts EXCEPT ![i][o] = @ + 1]
        /\ UNCHANGED <<clock, policy, last, inUse, count>>
    <3>1. starts' = [starts EXCEPT ![i][o] = @ + 1] /\ UNCHANGED <<clock, policy, last, inUse, count>>
      BY <1>3 DEF Check
    <3>2. work' = [work EXCEPT ![w].stage = "number"]
            \/ work' = [work EXCEPT ![w].stage = "read", ![w].low = TRUE]
      BY <1>3 DEF Check, Goto
    <3>3. Only(w)
      BY <3>2 DEF Only, Sound, Typed
    <3>4. work'[w] = [r EXCEPT !.stage = "number"]
            \/ work'[w] = [r EXCEPT !.stage = "read", !.low = TRUE]
      BY <3>2 DEF Sound, Typed
    <3>5. Shape(r)
      BY <1>1 DEF Stands
    <3> HIDE DEF r
    <3>6. Continues(r, work'[w]) /\ work'[w].stage \in {"number", "read"}
      <4>1. CASE work'[w] = [r EXCEPT !.stage = "number"]
        BY <3>5, <4>1 DEF Continues, Shape
      <4>2. CASE work'[w] = [r EXCEPT !.stage = "read", !.low = TRUE]
        BY <3>5, <4>2 DEF Continues, Shape
      <4> QED BY <3>4, <4>1, <4>2
    <3> QED BY <3>1, <3>3, <3>6
  <2>2. Typed'
    <3>1. starts' \in [Id -> [0..MaxTime -> Nat]]
      <4>1. i \in Id
        BY <1>1 DEF Stands
      <4>2. starts \in [Id -> [0..MaxTime -> Nat]] /\ starts' = [starts EXCEPT ![i][o] = @ + 1]
        BY <2>1 DEF Sound, Typed
      <4> HIDE DEF i, o
      <4>3. [starts[i] EXCEPT ![o] = @ + 1] \in [0..MaxTime -> Nat]
        BY <4>1, <4>2, OneMore
      <4> QED BY <4>1, <4>2, <4>3
    <3> QED BY <2>1, <3>1 DEF Sound, Typed, Only
  <2>3. Working'
    BY <1>1, <2>1, GoesOn DEF Sound, Begun
  <2>4. i \in Id /\ r.now \in Nat /\ policy[i].time \in 0..(PerDay - 1)
    BY <1>1 DEF Stands, Sound, Typed
  <2>5. o \in Nat /\ o <= r.now
    BY <2>4, OccurrenceIs
  <2>6. ~Covered(i, o)
    <3>1. last[i] = Never \/ last[i] < o
      BY <1>3 DEF IsBackupDue
    <3>2. last[i] \in Nat
      BY <2>4 DEF Sound, Typed
    <3> QED BY <2>5, <3>1, <3>2 DEF Covered
  <2>7. \A v \in Nightly : work[v].stage \notin Begun
    <3>1. \A v \in Nightly \ {w} : work[v] = Idle
      BY <1>1, NightlyAlone DEF Sound
    <3> QED BY <3>1 DEF Check, Begun, Idle
  <2>8. \A k \in Id, e \in 0..MaxTime : ~Underway(k, e)
    BY <2>7 DEF Underway
  <2>9. Spared'
    <3> SUFFICES ASSUME NEW k \in Id, NEW e \in 0..MaxTime
                 PROVE  /\ starts'[k][e] <= 1 + count.mishaps
                        /\ ~Covered(k, e)' /\ ~Underway(k, e)' => starts'[k][e] <= count.mishaps
      BY <2>1 DEF Spared
    <3>1. CASE k = i /\ e = o
      <4>1. starts[k][e] \in Nat /\ count.mishaps \in Nat /\ starts'[k][e] = starts[k][e] + 1
        BY <2>1, <3>1 DEF Sound, Typed
      <4>2. starts[k][e] <= count.mishaps
        BY <2>6, <2>8, <3>1 DEF Sound, Spared
      <4>3. Underway(k, e)'
        BY <1>1, <2>1, <2>5, <3>1 DEF Underway, Begun, Continues
      <4> QED BY <4>1, <4>2, <4>3
    <3>2. CASE ~(k = i /\ e = o)
      <4>1. starts'[k][e] = starts[k][e]
        BY <2>1, <3>2 DEF Sound, Typed
      <4>2. Covered(k, e)' <=> Covered(k, e)
        BY <2>1 DEF Covered
      <4> QED BY <2>8, <4>1, <4>2 DEF Sound, Spared
    <3> QED BY <3>1, <3>2
  <2> QED BY <2>2, <2>3, <2>9 DEF Sound
<1> QED BY <1>2, <1>3

LEMMA AtWork ==
  ASSUME Sound, NEW w \in Worker, work[w].stage # "idle"
  PROVE  work[w] # Idle /\ Stands(w) /\ Shape(work[w])
BY DEF Sound, Working, Stands, Idle

\* What Goto and its like leave of the other workers.
LEMMA GotoOnly ==
  ASSUME Sound, NEW w \in Worker, NEW s, Goto(w, s), Shape(work[w])
  PROVE  Only(w) /\ Continues(work[w], work'[w]) /\ work'[w].stage = s
<1>1. Only(w) /\ work'[w] = [work[w] EXCEPT !.stage = s]
  BY DEF Goto, Only, Sound, Typed
<1> QED BY <1>1 DEF Continues, Shape

LEMMA ReadStateSound ==
  ASSUME Sound, NEW w \in Worker, ReadState(w)
  PROVE  Sound'
<1>1. work[w] # Idle /\ Stands(w) /\ Shape(work[w]) /\ w \in Nightly
  BY AtWork DEF ReadState, Stands
<1>2. Only(w) /\ work'[w] = [work[w] EXCEPT !.stage = "record", !.seen = last]
  BY DEF ReadState, Only, Sound, Typed
<1>3. Continues(work[w], work'[w]) /\ work'[w].stage = "record" /\ work'[w].seen = last
  BY <1>1, <1>2 DEF Continues, Shape
<1>4. UNCHANGED <<clock, policy, last, inUse, starts, count>>
  BY DEF ReadState
<1>5. count \in [runs : Nat, requests : Nat, mishaps : Nat]
  BY DEF Sound, Typed
<1> QED BY <1>1, <1>2, <1>3, <1>4, <1>5, SoundStep DEF Begun

LEMMA NumberSound ==
  ASSUME Sound, NEW w \in Worker, Number(w)
  PROVE  Sound'
<1>1. work[w] # Idle /\ Stands(w) /\ Shape(work[w])
  BY AtWork DEF Number
<1>2. PICK a, b, c : work' = [work EXCEPT ![w].stage = "dump", ![w].at = a, ![w].nr = b,
                                          ![w].id = c]
  BY DEF Number
<1>3. Only(w) /\ work'[w] = [work[w] EXCEPT !.stage = "dump", !.at = a, !.nr = b, !.id = c]
  BY <1>2 DEF Only, Sound, Typed
<1>4. Continues(work[w], work'[w]) /\ work'[w].stage = "dump"
  BY <1>1, <1>3 DEF Continues, Shape
<1>5. count \in [runs : Nat, requests : Nat, mishaps : Nat]
  BY DEF Sound, Typed
<1>6. /\ count' \in [runs : Nat, requests : Nat, mishaps : Nat]
      /\ count'.mishaps = count.mishaps
  BY <1>5 DEF Number
<1>7. UNCHANGED <<clock, policy, last, inUse, starts>>
  BY DEF Number
<1> QED BY <1>1, <1>3, <1>4, <1>6, <1>7, SoundStep DEF Begun

LEMMA FillSound ==
  ASSUME Sound, NEW w \in Worker, Fill(w)
  PROVE  Sound'
<1>1. work[w] # Idle /\ Stands(w) /\ Shape(work[w])
  BY AtWork DEF Fill
<1>2. Only(w) /\ Continues(work[w], work'[w]) /\ work'[w].stage \in {"archive", "seal"}
  BY <1>1, GotoOnly DEF Fill
<1>3. UNCHANGED <<clock, policy, last, inUse, starts, count>>
  BY DEF Fill
<1>4. count \in [runs : Nat, requests : Nat, mishaps : Nat]
  BY DEF Sound, Typed
<1> QED BY <1>1, <1>2, <1>3, <1>4, SoundStep DEF Begun

\* A nightly run goes on to the next stage, where another worker is done.
LEMMA SoundTurn ==
  ASSUME Sound, NEW w \in Worker, work[w].stage \in Begun, NEW s \in Begun \ {"record"},
         IF work[w].kind = "scheduled" THEN Goto(w, s) ELSE Over(w),
         UNCHANGED <<clock, policy, last, inUse, starts, count>>
  PROVE  Sound'
<1>1. work[w] # Idle /\ Stands(w) /\ Shape(work[w])
  BY AtWork DEF Begun
<1>2. count \in [runs : Nat, requests : Nat, mishaps : Nat]
  BY DEF Sound, Typed
<1>3. CASE work[w].kind = "scheduled"
  <2>1. w \in Nightly
    BY <1>1, <1>3 DEF Stands
  <2>2. Only(w) /\ Continues(work[w], work'[w]) /\ work'[w].stage = s
    BY <1>1, <1>3, GotoOnly
  <2> QED BY <1>1, <1>2, <2>1, <2>2, SoundStep
<1>4. CASE work[w].kind # "scheduled"
  <2>1. w \notin Nightly
    BY <1>1, <1>4 DEF Stands
  <2>2. Only(w) /\ work'[w] = Idle
    BY <1>1, <1>4, <2>1, OverStops DEF Nightly, Sound
  <2> QED BY <1>1, <1>2, <2>1, <2>2, SoundStep
<1> QED BY <1>3, <1>4

LEMMA SealSound ==
  ASSUME Sound, NEW w \in Worker, Seal(w)
  PROVE  Sound'
<1>1. /\ IF work[w].kind = "scheduled" THEN Goto(w, "plan") ELSE Over(w)
      /\ UNCHANGED <<clock, policy, last, inUse, starts, count>>
  BY DEF Seal
<1> QED BY <1>1, SoundTurn DEF Seal, Begun

LEMMA PlanSound ==
  ASSUME Sound, NEW w \in Worker, Plan(w)
  PROVE  Sound'
<1>1. work[w] # Idle /\ Stands(w) /\ Shape(work[w])
  BY AtWork DEF Plan
<1>2. PICK a : work' = [work EXCEPT ![w].stage = "delete", ![w].victims = a]
  BY DEF Plan
<1>3. Only(w) /\ work'[w] = [work[w] EXCEPT !.stage = "delete", !.victims = a]
  BY <1>2 DEF Only, Sound, Typed
<1>4. Continues(work[w], work'[w]) /\ work'[w].stage = "delete"
  BY <1>1, <1>3 DEF Continues, Shape
<1>5. UNCHANGED <<clock, policy, last, inUse, starts, count>>
  BY DEF Plan
<1>6. count \in [runs : Nat, requests : Nat, mishaps : Nat]
  BY DEF Sound, Typed
<1> QED BY <1>1, <1>3, <1>4, <1>5, <1>6, SoundStep DEF Begun

LEMMA DeleteSound ==
  ASSUME Sound, NEW w \in Worker, Delete(w)
  PROVE  Sound'
<1>1. work[w].stage = "delete" /\ UNCHANGED <<clock, policy, last, inUse, starts, count>>
  BY DEF Delete
<1>2. work[w] # Idle /\ Stands(w) /\ Shape(work[w])
  BY <1>1, AtWork
<1>3. ASSUME NEW v, work' = [work EXCEPT ![w].victims = @ \ {v}]
      PROVE  Sound'
  <2>1. Only(w) /\ work'[w] = [work[w] EXCEPT !.victims = @ \ {v}]
    BY <1>3 DEF Only, Sound, Typed
  <2>2. Continues(work[w], work'[w]) /\ work'[w].stage = "delete"
    BY <1>1, <1>2, <2>1 DEF Continues, Shape
  <2>3. count \in [runs : Nat, requests : Nat, mishaps : Nat]
    BY DEF Sound, Typed
  <2> QED BY <1>1, <1>2, <2>1, <2>2, <2>3, SoundStep DEF Begun
<1>4. CASE IF work[w].kind = "scheduled" THEN Goto(w, "read") ELSE Over(w)
  BY <1>1, <1>4, SoundTurn DEF Begun
<1> QED BY <1>3, <1>4 DEF Delete

\* The occurrence the run was for is covered when its time is recorded.
LEMMA WriteStateSound ==
  ASSUME Sole, Sound, NEW w \in Worker, WriteState(w)
  PROVE  Sound'
<1> DEFINE i == work[w].on
           now == work[w].now
<1>1. work[w] # Idle /\ Stands(w) /\ Shape(work[w])
  BY AtWork DEF WriteState
<1>2. w \in Nightly /\ work[w].seen = last /\ work[w].kind = "scheduled" /\ work[w].stage = "record"
  BY <1>1 DEF WriteState, Stands
<1>3. i \in Id /\ now \in Nat /\ 1 <= now /\ now <= clock /\ clock \in Nat
        /\ \A k \in Id : last[k] \in Nat /\ last[k] <= now
  BY <1>1, <1>2 DEF Stands, Sound, Typed
<1>4. /\ Only(w)
      /\ \/ work'[w] = Idle
         \/ w = "cron" /\ Continues(work[w], work'[w]) /\ work'[w].stage = "walk"
  BY <1>1, <1>2, OverStops DEF WriteState, Sound
<1>5. last' = [last EXCEPT ![i] = now] /\ UNCHANGED <<clock, policy, inUse, starts, count>>
  BY <1>2 DEF WriteState
<1> HIDE DEF i, now
<1>6. last' \in [Id -> Nat]
        /\ \A k \in Id : last'[k] = (IF k = i THEN now ELSE last[k]) /\ last'[k] <= now
  BY <1>3, <1>5 DEF Sound, Typed
<1>7. Typed'
  <2>1. \A k \in Id : last'[k] <= clock
    BY <1>3, <1>6
  <2> QED BY <1>4, <1>5, <1>6, <2>1 DEF Sound, Typed, Only
<1>8. \A v \in Nightly \ {w} : work[v] = Idle
  BY <1>1, <1>2, NightlyAlone DEF Sound
<1>9. Working'
  <2> SUFFICES ASSUME NEW v \in Worker
               PROVE  work'[v] = Idle \/ Stands(v)'
    BY DEF Working
  <2>1. CASE v # w /\ v \in Nightly
    BY <1>4, <1>8, <2>1 DEF Only
  <2>2. CASE v # w /\ v \notin Nightly
    BY <1>4, <1>5, <2>2 DEF Only, Sound, Working, Stands
  <2>3. CASE v = w /\ work'[w] # Idle
    <3>1. Continues(work[w], work'[w]) /\ work'[w].stage = "walk"
      BY <1>4, <2>3
    <3>2. \A k \in Id : last'[k] <= work'[w].now
      BY <1>6, <3>1 DEF Continues, now
    <3> QED BY <1>1, <1>2, <1>5, <2>3, <3>1, <3>2 DEF Stands, Continues
  <2> QED BY <2>1, <2>2, <2>3
<1>10. Spared'
  <2> SUFFICES ASSUME NEW k \in Id, NEW o \in 0..MaxTime
               PROVE  /\ starts[k][o] <= 1 + count.mishaps
                      /\ ~Covered(k, o)' => starts[k][o] <= count.mishaps
    BY <1>5 DEF Spared
  <2>1. \A v \in Nightly : work[v].stage \in Begun => v = w
    BY <1>8 DEF Begun, Idle
  <2>2. Underway(k, o) => k = i /\ o <= now
    BY <2>1 DEF Underway, i, now
  <2>3. Covered(k, o)' <=> last'[k] # Never /\ o <= last'[k]
    BY DEF Covered
  <2>4. Covered(k, o) \/ Underway(k, o) => Covered(k, o)'
    <3>1. CASE k = i
      BY <1>3, <1>6, <2>2, <2>3, <3>1 DEF Covered, Never
    <3>2. CASE k # i
      BY <1>3, <1>6, <2>2, <2>3, <3>2 DEF Covered, Never
    <3> QED BY <3>1, <3>2
  <2> QED BY <2>4 DEF Sound, Spared
<1> QED BY <1>7, <1>9, <1>10 DEF Sound

LEMMA FailSound ==
  ASSUME Sound, NEW w \in Worker, Fail(w)
  PROVE  Sound'
<1>1. work[w] # Idle /\ Stands(w) /\ Shape(work[w])
  BY AtWork DEF Fail
<1>2. /\ UNCHANGED <<clock, policy, last, inUse, starts>>
      /\ count' = [count EXCEPT !.mishaps = @ + 1]
  BY DEF Fail
<1>3. CASE Over(w)
  <2>1. work[w].kind = "scheduled" \/ w # "cron"
    BY <1>1 DEF Stands, Nightly
  <2>2. /\ Only(w)
        /\ \/ work'[w] = Idle
           \/ w = "cron" /\ Continues(work[w], work'[w]) /\ work'[w].stage = "walk"
    BY <1>1, <1>3, <2>1, OverStops DEF Sound
  <2> QED BY <1>1, <1>2, <2>2, SoundMishap DEF Nightly
<1>4. ASSUME NEW s \in {"number", "read"}, NEW a, NEW b, work[w].kind = "scheduled",
             work' = [work EXCEPT ![w].stage = s, ![w].low = a, ![w].caught = b]
      PROVE  Sound'
  <2>1. Only(w) /\ work'[w] = [work[w] EXCEPT !.stage = s, !.low = a, !.caught = b]
    BY <1>4 DEF Only, Sound, Typed
  <2>2. Continues(work[w], work'[w]) /\ work'[w].stage = s
    BY <1>1, <2>1 DEF Continues, Shape
  <2>3. w \in Nightly
    BY <1>1, <1>4 DEF Stands
  <2> QED BY <1>1, <1>2, <1>4, <2>1, <2>2, <2>3, SoundMishap DEF Begun
<1>5. Over(w) \/ \E s \in {"number", "read"}, a \in BOOLEAN, b \in BOOLEAN :
        /\ work[w].kind = "scheduled"
        /\ work' = [work EXCEPT ![w].stage = s, ![w].low = a, ![w].caught = b]
  BY DEF Fail
<1> QED BY <1>3, <1>4, <1>5

LEMMA CrashSound ==
  ASSUME Sound, NEW w \in Worker, Crash(w)
  PROVE  Sound'
<1>1. /\ UNCHANGED <<clock, policy, last, inUse, starts>>
      /\ count' = [count EXCEPT !.mishaps = @ + 1]
      /\ work' = [v \in Worker |-> work'[v]]
      /\ \A v \in Worker : work'[v] = Idle \/ work'[v] = work[v]
  BY DEF Crash, Sound, Typed
<1>2. count \in [runs : Nat, requests : Nat, mishaps : Nat]
  BY DEF Sound, Typed
<1>3. count' \in [runs : Nat, requests : Nat, mishaps : Nat] /\ count'.mishaps = count.mishaps + 1
  BY <1>1, <1>2
<1>4. Typed'
  BY <1>1, <1>3 DEF Sound, Typed
<1>5. Working'
  BY <1>1 DEF Sound, Working, Stands
<1>6. Spared'
  BY <1>1, <1>3, SparedByMishap DEF Sound
<1> QED BY <1>4, <1>5, <1>6 DEF Sound

\* A worker that is at no backup begins something, and knows what it has to know.
LEMMA SoundStart ==
  ASSUME Sound, NEW w \in Worker, work[w].stage \notin Begun, Only(w), Stands(w)',
         UNCHANGED <<clock, policy, last, inUse, starts>>,
         count' \in [runs : Nat, requests : Nat, mishaps : Nat],
         count'.mishaps = count.mishaps
  PROVE  Sound'
<1>1. Typed'
  BY DEF Sound, Typed, Only
<1>2. Working'
  BY DEF Sound, Working, Stands, Only
<1>3. \A v \in Nightly : work[v].stage \in Begun => work'[v] = work[v]
  <2>1. Nightly \subseteq Worker
    BY DEF Nightly, Worker
  <2> QED BY <2>1 DEF Only
<1>4. Spared'
  BY <1>3, SparedStays DEF Sound
<1> QED BY <1>1, <1>2, <1>4 DEF Sound

\* Nothing the theorem is about changes, apart from clock, schedule and counters.
LEMMA SoundRest ==
  ASSUME Sound, Typed', UNCHANGED <<last, inUse, starts, work>>,
         clock' \in Nat, clock <= clock', count'.mishaps = count.mishaps
  PROVE  Sound'
<1>1. clock \in Nat
  BY DEF Sound, Typed
<1>2. 1..clock \subseteq 1..clock'
  BY <1>1
<1>3. Working'
  BY <1>2 DEF Sound, Working, Stands
<1>4. Spared'
  BY SparedStays DEF Sound
<1> QED BY <1>3, <1>4 DEF Sound

\* A job that begins now knows all that was recorded.
LEMMA NewStands ==
  ASSUME Sound, NEW w \in inUse, NEW kind, NEW i \in Id, NEW s,
         work'[w] = Job(kind, i, s), UNCHANGED <<clock, last, inUse>>,
         IF w \in Nightly THEN kind = "scheduled" /\ s \in {"peeked", "check"}
         ELSE kind # "scheduled" /\ s \in Begun \ {"read", "record"}
  PROVE  Stands(w)'
<1>1. clock \in Nat /\ clock > 0 /\ \A k \in Id : last[k] <= clock
  BY DEF Sound, Typed
<1>2. /\ Shape(work'[w]) /\ work'[w].kind = kind /\ work'[w].on = i /\ work'[w].stage = s
      /\ work'[w].now = clock /\ work'[w].todo = {}
  BY JobIs
<1> QED BY <1>1, <1>2 DEF Stands

LEMMA PeekSound ==
  ASSUME Sound, NEW i \in Id, Peek(i)
  PROVE  Sound'
<1>1. /\ "loop" \in Worker /\ "loop" \in inUse /\ "loop" \in Nightly
      /\ work["loop"].stage \notin Begun
  BY DEF Peek, Worker, Nightly, Begun
<1>2. Only("loop") /\ work'["loop"] = Job("scheduled", i, "peeked")
  BY <1>1 DEF Peek, Only, Sound, Typed
<1>3. UNCHANGED <<clock, policy, last, inUse, starts, count>>
  BY DEF Peek
<1>4. count \in [runs : Nat, requests : Nat, mishaps : Nat]
  BY DEF Sound, Typed
<1>5. Stands("loop")'
  BY <1>1, <1>2, <1>3, NewStands
<1> QED BY <1>1, <1>2, <1>3, <1>4, <1>5, SoundStart

LEMMA AcquireSound ==
  ASSUME Sound, Acquire
  PROVE  Sound'
<1>1. /\ "loop" \in Worker /\ "loop" \in Nightly /\ work["loop"].stage = "peeked"
      /\ work["loop"].stage \notin Begun
  BY DEF Acquire, Worker, Nightly, Begun
<1>2. work["loop"] # Idle /\ Stands("loop")
  BY <1>1, AtWork
<1>3. "loop" \in inUse /\ work["loop"].on \in Id
  BY <1>2 DEF Stands
<1>4. UNCHANGED <<clock, policy, last, inUse, starts, count>>
  BY DEF Acquire
<1>5. count \in [runs : Nat, requests : Nat, mishaps : Nat]
  BY DEF Sound, Typed
<1>6. Only("loop") /\ (work'["loop"] = Idle \/ work'["loop"] = Job("scheduled", work["loop"].on, "check"))
  <2>1. CASE work' = [work EXCEPT !["loop"] = Idle]
    BY <1>1, <2>1 DEF Only, Sound, Typed
  <2>2. CASE work' = [work EXCEPT !["loop"] = Job("scheduled", work["loop"].on, "check")]
    BY <1>1, <2>2 DEF Only, Sound, Typed
  <2> QED BY <2>1, <2>2 DEF Acquire
<1>7. CASE work'["loop"] = Idle
  BY <1>1, <1>2, <1>4, <1>5, <1>6, <1>7, SoundStep
<1>8. CASE work'["loop"] = Job("scheduled", work["loop"].on, "check")
  <2>1. Stands("loop")'
    BY <1>1, <1>3, <1>4, <1>8, NewStands
  <2> QED BY <1>1, <1>4, <1>5, <1>6, <2>1, SoundStart
<1> QED BY <1>6, <1>7, <1>8

LEMMA InvokeSound ==
  ASSUME Sound, Invoke
  PROVE  Sound'
<1> DEFINE one == CHOOSE i \in Id : TRUE
           job == Job("scheduled", one, "walk")
<1>1. /\ "cron" \in Worker /\ "cron" \in Nightly /\ "cron" \in inUse
      /\ work["cron"].stage \notin Begun
  BY DEF Invoke, Worker, Nightly, Begun
<1>2. one \in Id
  BY DEF Invoke
<1>3. UNCHANGED <<clock, policy, last, inUse, starts, count>>
  BY DEF Invoke
<1>4. count \in [runs : Nat, requests : Nat, mishaps : Nat]
        /\ clock \in Nat /\ clock > 0 /\ \A k \in Id : last[k] <= clock
  BY DEF Sound, Typed
<1>5. Shape(job) /\ job.kind = "scheduled" /\ job.on = one /\ job.stage = "walk" /\ job.now = clock
  BY JobIs
<1> HIDE DEF one
<1>6. Only("cron") /\ work'["cron"] = [job EXCEPT !.todo = Id]
  BY <1>1 DEF Invoke, Only, Sound, Typed, one
<1> HIDE DEF job
<1>7. /\ Shape(work'["cron"]) /\ work'["cron"].kind = "scheduled" /\ work'["cron"].on = one
      /\ work'["cron"].stage = "walk" /\ work'["cron"].now = clock /\ work'["cron"].todo = Id
  BY <1>5, <1>6 DEF Shape
<1>8. Stands("cron")'
  BY <1>1, <1>2, <1>3, <1>4, <1>7 DEF Stands
<1> QED BY <1>1, <1>3, <1>4, <1>6, <1>8, SoundStart

LEMMA WalkSound ==
  ASSUME Sound, Walk
  PROVE  Sound'
<1>1. /\ "cron" \in Worker /\ "cron" \in Nightly /\ work["cron"].stage = "walk"
      /\ work["cron"].stage \notin Begun
  BY DEF Walk, Worker, Nightly, Begun
<1>2. work["cron"] # Idle /\ Stands("cron") /\ Shape(work["cron"])
  BY <1>1, AtWork
<1>3. UNCHANGED <<clock, policy, last, inUse, starts, count>>
  BY DEF Walk
<1>4. count \in [runs : Nat, requests : Nat, mishaps : Nat]
  BY DEF Sound, Typed
<1>5. CASE work' = [work EXCEPT !["cron"] = Idle]
  <2>1. Only("cron") /\ work'["cron"] = Idle
    BY <1>1, <1>5 DEF Only, Sound, Typed
  <2> QED BY <1>1, <1>2, <1>3, <1>4, <2>1, SoundStep
<1>6. ASSUME NEW i \in work["cron"].todo, NEW s \in {"check", "walk"},
             work' = [work EXCEPT !["cron"].on = i, !["cron"].todo = @ \ {i}, !["cron"].stage = s]
      PROVE  Sound'
  <2>1. /\ Only("cron")
        /\ work'["cron"] = [work["cron"] EXCEPT !.on = i, !.todo = @ \ {i}, !.stage = s]
    BY <1>1, <1>6 DEF Only, Sound, Typed
  <2>2. /\ Shape(work'["cron"]) /\ work'["cron"].kind = work["cron"].kind
        /\ work'["cron"].now = work["cron"].now /\ work'["cron"].on = i
        /\ work'["cron"].stage = s /\ work'["cron"].todo = work["cron"].todo \ {i}
    BY <1>2, <2>1 DEF Shape
  <2>3. Stands("cron")'
    BY <1>1, <1>2, <1>3, <2>2 DEF Stands
  <2> QED BY <1>1, <1>3, <1>4, <2>1, <2>3, SoundStart
<1>7. \/ work' = [work EXCEPT !["cron"] = Idle]
      \/ \E i \in work["cron"].todo : \E s \in {"check", "walk"} :
           work' = [work EXCEPT !["cron"].on = i, !["cron"].todo = @ \ {i}, !["cron"].stage = s]
  BY DEF Walk
<1> QED BY <1>5, <1>6, <1>7

LEMMA RequestSound ==
  ASSUME Sound, NEW i \in Id, Request(i)
  PROVE  Sound'
<1>1. /\ "console" \in Worker /\ "console" \in inUse /\ "console" \notin Nightly
      /\ work["console"].stage \notin Begun
  BY DEF Request, Worker, Nightly, Begun
<1>2. PICK kind \in {"manual", "pre_update", "prune"} :
        work' = [work EXCEPT !["console"] =
                   Job(kind, i, IF kind = "prune" THEN "plan" ELSE "number")]
  BY DEF Request
<1>3. UNCHANGED <<clock, policy, last, inUse, starts>>
  BY DEF Request
<1>4. count \in [runs : Nat, requests : Nat, mishaps : Nat]
  BY DEF Sound, Typed
<1>5. count' \in [runs : Nat, requests : Nat, mishaps : Nat] /\ count'.mishaps = count.mishaps
  BY <1>4 DEF Request
<1>6. Only("console")
        /\ work'["console"] = Job(kind, i, IF kind = "prune" THEN "plan" ELSE "number")
  BY <1>1, <1>2 DEF Only, Sound, Typed
<1>7. Stands("console")'
  BY <1>1, <1>3, <1>6, NewStands DEF Begun
<1> QED BY <1>1, <1>3, <1>5, <1>6, <1>7, SoundStart

LEMMA SetScheduleSound ==
  ASSUME Sound, NEW i \in Id, SetSchedule(i)
  PROVE  Sound'
<1>1. PICK enabled \in BOOLEAN, time \in 0..(PerDay - 1) :
        policy' = [policy EXCEPT ![i] = [enabled |-> enabled, time |-> time]]
  BY DEF SetSchedule
<1>2. policy' \in [Id -> [enabled : BOOLEAN, time : 0..(PerDay - 1)]]
  BY <1>1 DEF Sound, Typed
<1>3. count \in [runs : Nat, requests : Nat, mishaps : Nat] /\ clock \in Nat
  BY DEF Sound, Typed
<1>4. count' \in [runs : Nat, requests : Nat, mishaps : Nat] /\ count'.mishaps = count.mishaps
  BY <1>3 DEF SetSchedule
<1>5. UNCHANGED <<clock, last, work, inUse, starts>>
  BY DEF SetSchedule
<1>6. Typed'
  BY <1>2, <1>4, <1>5 DEF Sound, Typed
<1> QED BY <1>3, <1>4, <1>5, <1>6, SoundRest

LEMMA TickSound ==
  ASSUME Sound, Tick
  PROVE  Sound'
<1>1. clock \in Nat \ {0} /\ clock' = clock + 1 /\ last \in [Id -> Nat]
        /\ \A i \in Id : last[i] <= clock
  BY DEF Sound, Typed, Tick
<1>2. UNCHANGED <<policy, last, work, inUse, starts, count>>
  BY DEF Tick
<1>3. clock' \in Nat \ {0} /\ clock <= clock' /\ \A i \in Id : last[i] <= clock'
  BY <1>1
<1>4. Typed'
  BY <1>2, <1>3 DEF Sound, Typed
<1> QED BY <1>2, <1>3, <1>4, SoundRest

LEMMA Unmoved ==
  ASSUME Sound, UNCHANGED vars
  PROVE  Sound'
<1>1. UNCHANGED <<clock, policy, last, work, inUse, starts, count>>
  BY DEF vars
<1>2. clock \in Nat /\ clock <= clock
  BY DEF Sound, Typed
<1>3. Typed'
  BY <1>1 DEF Sound, Typed
<1> QED BY <1>1, <1>2, <1>3, SoundRest

LEMMA NextSound ==
  ASSUME Sole, Sound, [Next]_vars
  PROVE  Sound'
<1>1. ASSUME NEW i \in Id, Peek(i) \/ Request(i) \/ SetSchedule(i) PROVE Sound'
  BY <1>1, PeekSound, RequestSound, SetScheduleSound
<1>2. CASE Acquire \/ Invoke \/ Walk \/ Tick
  BY <1>2, AcquireSound, InvokeSound, WalkSound, TickSound
<1>3. ASSUME NEW w \in Worker, Proceed(w) PROVE Sound'
  BY <1>3, CheckSound, ReadStateSound, WriteStateSound, NumberSound, FillSound, SealSound,
     PlanSound, DeleteSound DEF Proceed
<1>4. ASSUME NEW w \in Worker, Fail(w) \/ Crash(w) PROVE Sound'
  BY <1>4, FailSound, CrashSound
<1>5. CASE UNCHANGED vars
  BY <1>5, Unmoved
<1> QED BY <1>1, <1>2, <1>3, <1>4, <1>5 DEF Next

----------------------------------------------------------------------------
(* The theorem *)

\* Where the console's loop and cron are not both in use, a scheduled backup is begun
\* again for the same daily occurrence only after a process died or a step failed: the
\* read and the write of the scheduler state are apart, and so are the peek and the run.
THEOREM OccurrenceTakenOnce ==
  ASSUME Sole
  PROVE  Spec => []OccurrenceOnce
<1>1. Init => Sound
  BY SoundInit
<1>2. Sound /\ [Next]_vars => Sound'
  BY NextSound
<1>3. Sound => OccurrenceOnce
  BY DEF Sound, Spared, OccurrenceOnce
<1> QED BY <1>1, <1>2, <1>3, PTL DEF Spec

----------------------------------------------------------------------------
(* Retention: what is promised is kept                                      *)

NightlyOf(S) == {b \in S : b.origin = "scheduled"}
DaysOf(S) == {DayOf(b.at) : b \in S}
LaterOf(b, all) == {e \in NightlyOf(all) : e.nr > b.nr}

\* The days later than that of b on which a scheduled backup was taken after it.
Behind(b, all, days) == DaysOf(LaterOf(b, all)) \intersect (days \ {DayOf(b.at)})
HasSlot(b, all, days, slots) ==
  DayOf(b.at) \in days /\ Cardinality(Behind(b, all, days)) < slots

LEMMA PromisedIs ==
  ASSUME NEW b, NEW all, NEW now
  PROVE  Promised(b, all, now) <=>
           \/ b.origin = "manual"
           \/ b.origin = "pre_update" /\ now <= b.at + MaxAge
           \/ b.origin = "scheduled" /\ LaterOf(b, all) = {}
           \/ /\ b.origin = "scheduled" /\ now <= b.at + MaxAge
              /\ \/ HasSlot(b, all, DaysOf(all), Daily)
                 \/ /\ \A e \in LaterOf(b, all) : DayOf(e.at) # DayOf(b.at)
                    /\ HasSlot(b, all, Mondays, Weekly) \/ HasSlot(b, all, Firsts, Monthly)
<1>1. LaterOf(b, all) = {e \in all : e.origin = "scheduled" /\ e.nr > b.nr}
  BY DEF LaterOf, NightlyOf
<1> QED BY <1>1 DEF Promised, HasSlot, Behind, DaysOf

NewestOf(S) == {b \in S : \A e \in S : e.nr <= b.nr}
SameDay(b, S) == {e \in NightlyOf(S) : DayOf(e.at) = DayOf(b.at)}

\* The last backups of some days; those that have a slot.
OnDay(S, d) == {b \in NightlyOf(S) : DayOf(b.at) = d}
LastOf(S, days) == UNION {NewestOf(OnDay(S, d)) : d \in days}
SlotsOf(S) ==
  {b \in NightlyOf(S) : DayOf(b.at) \in LatestDays(DaysOf(NightlyOf(S)), Daily)} \union
  LastOf(S, LatestDays(DaysOf(NightlyOf(S)) \intersect Mondays, Weekly)) \union
  LastOf(S, LatestDays(DaysOf(NightlyOf(S)) \intersect Firsts, Monthly))

LEMMA KeptIs ==
  ASSUME NEW L, NEW now
  PROVE  Kept(L, now) =
           {b \in L : b.origin = "manual"} \union NewestOf(NightlyOf(L)) \union
           {b \in L : now - b.at <= MaxAge /\ (b.origin = "pre_update" \/ b \in SlotsOf(L))}
BY DEF Kept, NewestOf, NightlyOf, SlotsOf, LastOf, OnDay, DaysOf

LEMMA LastOfHas ==
  ASSUME NEW L, NEW b, b \in NewestOf(SameDay(b, L)), NEW days, DayOf(b.at) \in days
  PROVE  b \in LastOf(L, days)
<1>1. SameDay(b, L) = OnDay(L, DayOf(b.at))
  BY DEF SameDay, OnDay
<1> QED BY <1>1 DEF LastOf

\* What is enough for a backup to be kept.
LEMMA KeptIf ==
  ASSUME NEW L, NEW b \in L, NEW now,
         \/ b.origin = "manual"
         \/ b \in NewestOf(NightlyOf(L))
         \/ now - b.at <= MaxAge /\ b.origin = "pre_update"
         \/ /\ now - b.at <= MaxAge /\ b \in NightlyOf(L)
            /\ \/ DayOf(b.at) \in LatestDays(DaysOf(NightlyOf(L)), Daily)
               \/ /\ b \in NewestOf(SameDay(b, L))
                  /\ \/ DayOf(b.at) \in LatestDays(DaysOf(NightlyOf(L)) \intersect Mondays, Weekly)
                     \/ DayOf(b.at) \in LatestDays(DaysOf(NightlyOf(L)) \intersect Firsts, Monthly)
  PROVE  b \in Kept(L, now)
<1>1. ASSUME now - b.at <= MaxAge, b \in SlotsOf(L) PROVE b \in Kept(L, now)
  BY <1>1, KeptIs
<1>2. CASE b.origin = "manual" \/ b \in NewestOf(NightlyOf(L)) \/
           (now - b.at <= MaxAge /\ b.origin = "pre_update")
  BY <1>2, KeptIs
<1>3. CASE /\ now - b.at <= MaxAge /\ b \in NightlyOf(L)
           /\ DayOf(b.at) \in LatestDays(DaysOf(NightlyOf(L)), Daily)
  BY <1>1, <1>3 DEF SlotsOf
<1>4. CASE /\ now - b.at <= MaxAge /\ b \in NewestOf(SameDay(b, L))
           /\ DayOf(b.at) \in LatestDays(DaysOf(NightlyOf(L)) \intersect Mondays, Weekly)
  BY <1>1, <1>4, LastOfHas DEF SlotsOf
<1>5. CASE /\ now - b.at <= MaxAge /\ b \in NewestOf(SameDay(b, L))
           /\ DayOf(b.at) \in LatestDays(DaysOf(NightlyOf(L)) \intersect Firsts, Monthly)
  BY <1>1, <1>5, LastOfHas DEF SlotsOf
<1> QED BY <1>2, <1>3, <1>4, <1>5

\* Later backups are on later days.
LEMMA DayGrows ==
  ASSUME NEW a \in Nat, NEW b \in Nat, a <= b
  PROVE  DayOf(a) \in Nat /\ DayOf(a) <= DayOf(b)
<1>1. PerDay \in Nat /\ PerDay > 0
  BY BackupsAssumption
<1> QED BY <1>1 DEF DayOf

\* A finite collection of backups, numbered in the order they were taken.
Series(S) ==
  /\ IsFiniteSet(S)
  /\ \A b \in S : b.nr \in Nat /\ b.at \in Nat
  /\ \A b, c \in S : b.nr <= c.nr => b.at <= c.at

LEMMA DaysFinite ==
  ASSUME NEW S, IsFiniteSet(S)
  PROVE  IsFiniteSet(DaysOf(S))
<1> DEFINE f == [b \in S |-> DayOf(b.at)]
<1>1. f \in Surjection(S, DaysOf(S))
  BY DEF Surjection, DaysOf
<1> QED BY <1>1, FS_Surjection

\* A smaller set of days leaves the slot.
LEMMA FewerBehind ==
  ASSUME NEW S, IsFiniteSet(S), NEW T \in SUBSET S, NEW slots \in Nat, Cardinality(S) < slots
  PROVE  Cardinality(T) < slots
<1>1. Cardinality(T) <= Cardinality(S) /\ IsFiniteSet(T)
  BY FS_Subset
<1>2. Cardinality(S) \in Nat /\ Cardinality(T) \in Nat
  BY <1>1, FS_CardinalityType
<1> QED BY <1>1, <1>2

\* What is promised now was promised before, when there were fewer backups.
LEMMA PromisedBefore ==
  ASSUME NEW all, NEW more, all \subseteq more, IsFiniteSet(more), NEW b \in all, b.at \in Nat,
         NEW now \in Nat, NEW then \in Nat, now <= then, Promised(b, more, then)
  PROVE  Promised(b, all, now)
<1>1. LaterOf(b, all) \subseteq LaterOf(b, more) /\ IsFiniteSet(LaterOf(b, more))
  <2>1. LaterOf(b, more) \in SUBSET more
    BY DEF LaterOf, NightlyOf
  <2> QED BY <2>1, FS_Subset DEF LaterOf, NightlyOf
<1>2. then <= b.at + MaxAge => now <= b.at + MaxAge
  BY BackupsAssumption
<1>3. \A days : Behind(b, all, days) \subseteq Behind(b, more, days) /\ IsFiniteSet(Behind(b, more, days))
  <2>1. DaysOf(LaterOf(b, all)) \subseteq DaysOf(LaterOf(b, more))
    BY <1>1 DEF DaysOf
  <2>2. IsFiniteSet(DaysOf(LaterOf(b, more)))
    BY <1>1, DaysFinite
  <2>3. ASSUME NEW days PROVE IsFiniteSet(Behind(b, more, days))
    <3>1. Behind(b, more, days) \in SUBSET DaysOf(LaterOf(b, more))
      BY DEF Behind
    <3> QED BY <2>2, <3>1, FS_Subset
  <2> QED BY <2>1, <2>3 DEF Behind
<1>4. Weekly \in Nat /\ Monthly \in Nat /\ Daily \in Nat
  BY BackupsAssumption
<1>5. HasSlot(b, more, Mondays, Weekly) => HasSlot(b, all, Mondays, Weekly)
  BY <1>3, <1>4, FewerBehind DEF HasSlot
<1>6. HasSlot(b, more, Firsts, Monthly) => HasSlot(b, all, Firsts, Monthly)
  BY <1>3, <1>4, FewerBehind DEF HasSlot
<1>7. HasSlot(b, more, DaysOf(more), Daily) => HasSlot(b, all, DaysOf(all), Daily)
  <2>1. DayOf(b.at) \in DaysOf(all)
    BY DEF DaysOf
  <2>2. Behind(b, all, DaysOf(all)) \subseteq Behind(b, more, DaysOf(more))
    <3>1. DaysOf(all) \subseteq DaysOf(more)
      BY DEF DaysOf
    <3>2. Behind(b, all, DaysOf(all)) \subseteq Behind(b, all, DaysOf(more))
      BY <3>1 DEF Behind
    <3> QED BY <1>3, <3>2
  <2> QED BY <1>3, <1>4, <2>1, <2>2, FewerBehind DEF HasSlot
<1>8. /\ LaterOf(b, more) = {} => LaterOf(b, all) = {}
      /\ (\A e \in LaterOf(b, more) : DayOf(e.at) # DayOf(b.at)) =>
           \A e \in LaterOf(b, all) : DayOf(e.at) # DayOf(b.at)
  BY <1>1
<1> HIDE DEF HasSlot, Behind
<1> QED BY <1>2, <1>5, <1>6, <1>7, <1>8, PromisedIs

\* A promised backup that is listed is kept, whatever else is listed of what was taken.
LEMMA PromisedIsKept ==
  ASSUME NEW all, Series(all), NEW L, L \subseteq all, NEW b \in L,
         NEW now \in Nat, NEW then \in Nat, now <= then, Promised(b, all, then)
  PROVE  b \in Kept(L, now)
<1>1. b.nr \in Nat /\ b.at \in Nat /\ DayOf(b.at) \in Nat /\ b \in all
  BY DayGrows DEF Series
<1>2. then <= b.at + MaxAge => now - b.at <= MaxAge
  BY <1>1, BackupsAssumption
<1>3. ASSUME NEW e \in NightlyOf(L)
      PROVE  /\ e.nr \in Nat /\ DayOf(e.at) \in Nat
             /\ e.nr > b.nr => e \in LaterOf(b, all)
             /\ e.nr <= b.nr => DayOf(e.at) <= DayOf(b.at)
  <2>1. e \in all /\ e \in NightlyOf(all)
    BY DEF NightlyOf
  <2>2. e.nr \in Nat /\ e.at \in Nat
    BY <2>1 DEF Series
  <2>3. e.nr <= b.nr => DayOf(e.at) <= DayOf(b.at)
    BY <1>1, <2>1, <2>2, DayGrows DEF Series
  <2> QED BY <2>1, <2>2, <2>3, DayGrows DEF LaterOf
<1>4. b.origin = "scheduled" => b \in NightlyOf(L)
  BY DEF NightlyOf
<1>5. b.origin = "scheduled" /\ LaterOf(b, all) = {} => b \in NewestOf(NightlyOf(L))
  BY <1>1, <1>3, <1>4 DEF NewestOf
<1>6. b.origin = "scheduled" /\ (\A e \in LaterOf(b, all) : DayOf(e.at) # DayOf(b.at)) =>
        b \in NewestOf(SameDay(b, L))
  BY <1>1, <1>3, <1>4 DEF NewestOf, SameDay
<1>7. ASSUME NEW days, NEW slots \in Nat, b \in NightlyOf(L), HasSlot(b, all, days, slots),
             NEW D, D \subseteq DaysOf(NightlyOf(L)) \intersect days, DayOf(b.at) \in D
      PROVE  DayOf(b.at) \in LatestDays(D, slots)
  <2> DEFINE T == {e \in D : e > DayOf(b.at)}
  <2>1. T \subseteq Behind(b, all, days)
    <3>1. ASSUME NEW d \in D, d > DayOf(b.at)
          PROVE  d \in Behind(b, all, days)
      <4>1. PICK e \in NightlyOf(L) : d = DayOf(e.at)
        BY <1>7 DEF DaysOf
      <4>2. e \in LaterOf(b, all) /\ d # DayOf(b.at) /\ d \in days
        BY <1>1, <1>3, <1>7, <3>1, <4>1
      <4> QED BY <4>1, <4>2 DEF Behind, DaysOf
    <3> QED BY <3>1
  <2>2. IsFiniteSet(Behind(b, all, days))
    <3>1. LaterOf(b, all) \in SUBSET all
      BY DEF LaterOf, NightlyOf
    <3>2. IsFiniteSet(DaysOf(LaterOf(b, all)))
      BY <3>1, FS_Subset, DaysFinite DEF Series
    <3>3. Behind(b, all, days) \in SUBSET DaysOf(LaterOf(b, all))
      BY DEF Behind
    <3> QED BY <3>2, <3>3, FS_Subset
  <2>3. Cardinality(T) < slots
    BY <1>7, <2>1, <2>2, FewerBehind DEF HasSlot
  <2> QED BY <1>7, <2>3 DEF LatestDays
<1>8. Daily \in Nat /\ Weekly \in Nat /\ Monthly \in Nat
  BY BackupsAssumption
<1>9. b \in NightlyOf(L) => DayOf(b.at) \in DaysOf(NightlyOf(L))
  BY DEF DaysOf
<1>10. b \in NightlyOf(L) /\ HasSlot(b, all, DaysOf(all), Daily) =>
         DayOf(b.at) \in LatestDays(DaysOf(NightlyOf(L)), Daily)
  <2>1. DaysOf(NightlyOf(L)) \subseteq DaysOf(all)
    BY DEF DaysOf, NightlyOf
  <2> QED BY <1>7, <1>8, <1>9, <2>1
<1>11. ASSUME NEW days, NEW slots \in Nat, b \in NightlyOf(L), HasSlot(b, all, days, slots)
       PROVE  DayOf(b.at) \in LatestDays(DaysOf(NightlyOf(L)) \intersect days, slots)
  <2>1. DayOf(b.at) \in days
    BY <1>11 DEF HasSlot
  <2> QED BY <1>7, <1>9, <1>11, <2>1
<1>12. CASE b.origin = "manual" \/ (b.origin = "pre_update" /\ then <= b.at + MaxAge)
  BY <1>2, <1>12, KeptIf
<1>13. CASE b.origin = "scheduled" /\ LaterOf(b, all) = {}
  BY <1>5, <1>13, KeptIf
<1>14. CASE b.origin = "scheduled" /\ then <= b.at + MaxAge /\ HasSlot(b, all, DaysOf(all), Daily)
  BY <1>2, <1>4, <1>10, <1>14, KeptIf
<1>15. CASE /\ b.origin = "scheduled" /\ then <= b.at + MaxAge
            /\ \A e \in LaterOf(b, all) : DayOf(e.at) # DayOf(b.at)
            /\ HasSlot(b, all, Mondays, Weekly) \/ HasSlot(b, all, Firsts, Monthly)
  <2>1. b \in NightlyOf(L) /\ b \in NewestOf(SameDay(b, L)) /\ now - b.at <= MaxAge
    BY <1>2, <1>4, <1>6, <1>15
  <2>2. \/ DayOf(b.at) \in LatestDays(DaysOf(NightlyOf(L)) \intersect Mondays, Weekly)
        \/ DayOf(b.at) \in LatestDays(DaysOf(NightlyOf(L)) \intersect Firsts, Monthly)
    BY <1>8, <1>11, <1>15, <2>1
  <2> QED BY <2>1, <2>2, KeptIf
<1> QED BY <1>12, <1>13, <1>14, <1>15, PromisedIs

\* A bounded set of numbers has a largest.
LEMMA Topmost ==
  ASSUME NEW S \in SUBSET Nat, S # {}, NEW n \in Nat, \A s \in S : s <= n
  PROVE  \E m \in S : \A s \in S : s <= m
<1> DEFINE U == {k \in Nat : \A s \in S : s <= k}
           R == OpToRel(<, Nat)
<1>1. IsWellFoundedOn(R, Nat)
  BY NatLessThanWellFounded
<1>2. U \subseteq Nat /\ U # {}
  OBVIOUS
<1> HIDE DEF U, R
<1>3. \E k \in U : \A l \in U : ~ (<<l, k>> \in R)
  BY <1>1, <1>2, WFMin
<1>4. PICK k \in U : \A l \in U : ~ (<<l, k>> \in R)
  BY <1>3
<1>5. \A l \in U : ~ (l < k)
  BY <1>2, <1>4 DEF R, OpToRel
<1>6. k \in Nat /\ \A s \in S : s <= k
  BY <1>2 DEF U
<1>7. k \in S
  <2> SUFFICES ASSUME k \notin S PROVE FALSE
    OBVIOUS
  <2>1. k > 0
    <3>1. PICK s \in S : s <= k
      BY <1>6
    <3>2. s # k
      OBVIOUS
    <3> QED BY <1>6, <3>1, <3>2
  <2>2. k - 1 \in U
    BY <1>6, <2>1 DEF U
  <2> QED BY <1>5, <1>6, <2>2
<1> QED BY <1>6, <1>7

----------------------------------------------------------------------------
(* Retention: what is promised is there, and no worker is about to touch it *)

\* Cron is not used where the console runs: it takes no lock.
Apart == \A s \in Setups : "cron" \in s => s \intersect Locking = {}

Filling == {"dump", "archive", "seal"}
Active(w) == work[w].stage \in Begun \union {"check"}
Harmless(w) == work[w].stage \notin Filling \union {"delete"}

\* Worker w may write into directory d of its instance, or delete it.
Endangers(w, d) ==
  \/ work[w].stage = "delete" /\ d \in work[w].victims
  \/ work[w].stage \in Filling /\ d = work[w].id
Clear(i, d) == \A w \in Worker : Endangers(w, d) => work[w].on # i

\* A worker of the console has the lock of the instance it works on.
Locked ==
  /\ lock = [i \in Id |-> lock[i]]
  /\ \A w \in Locking : Active(w) => lock[work[w].on] = w

\* A run being taken has a number and a time later than all completed ones.
Following(w) ==
  /\ work[w].nr \in Nat /\ work[w].nr <= count.runs
  /\ work[w].at \in Nat /\ work[w].at <= clock
  /\ work[w].id.seq \in 1..count.runs
  /\ \A b \in taken[work[w].on] : b.nr < work[w].nr /\ b.at <= work[w].at
Filled(w) ==
  /\ work[w].stage \in Filling => Following(w)
  /\ work[w].stage = "seal" => work[w].id \in DOMAIN dirs[work[w].on]

Completed(i) ==
  Series(taken[i]) /\ \A b \in taken[i] : b.nr <= count.runs /\ b.at <= clock

Directory(e) == e \in [parts : {e.parts}, manifest : {e.manifest}]
Stored(i) ==
  /\ dirs[i] = [d \in DOMAIN dirs[i] |-> dirs[i][d]]
  /\ \A d \in DOMAIN dirs[i] : Directory(dirs[i][d]) /\ d.seq \in 1..count.runs
  /\ Listed(i) \subseteq taken[i]

Intact(i, d, b) == dirs[i][d].manifest = b /\ dirs[i][d].parts = b.sums
Promises(i) == {b \in taken[i] : Promised(b, taken[i], clock)}
Safe(i) == \A b \in Promises(i) : \E d \in DOMAIN dirs[i] : Intact(i, d, b) /\ Clear(i, d)

Retained ==
  /\ dirs = [i \in Id |-> dirs[i]] /\ taken = [i \in Id |-> taken[i]]
  /\ Locked
  /\ \A w \in Worker : Filled(w)
  /\ \A i \in Id : Completed(i) /\ Stored(i) /\ Safe(i)

LEMMA LockOwners == Locking \subseteq Worker /\ \A w \in Worker : w \in Locking <=> w # "cron"
BY DEF Locking, Worker

\* Two workers are never at work on the same instance.
LEMMA Exclusive ==
  ASSUME Apart, Sound, Locked, NEW w \in Worker, Active(w), NEW v \in Worker, v # w, Active(v)
  PROVE  work[v].on # work[w].on
<1>1. Stands(w) /\ Stands(v)
  BY AtWork DEF Active, Begun
<1>2. w \in inUse /\ v \in inUse /\ inUse \in Setups
  BY <1>1 DEF Stands, Sound, Typed
<1>3. w \in Locking /\ v \in Locking
  BY <1>2, LockOwners DEF Apart
<1> QED BY <1>3 DEF Locked

LEMMA Endangering ==
  ASSUME NEW w \in Worker, NEW d, Endangers(w, d)
  PROVE  Active(w) /\ ~Harmless(w)
BY DEF Endangers, Active, Harmless, Begun, Filling

\* What was taken when and under which number, now that there are more numbers.
LEMMA CompletedStays ==
  ASSUME NEW i \in Id, Completed(i), taken'[i] = taken[i],
         clock \in Nat, clock' \in Nat, clock <= clock',
         count.runs \in Nat, count'.runs \in Nat, count.runs <= count'.runs
  PROVE  Completed(i)'
BY DEF Completed, Series

LEMMA StoredStays ==
  ASSUME NEW i \in Id, Stored(i), dirs'[i] = dirs[i], taken'[i] = taken[i],
         count.runs \in Nat, count'.runs \in Nat, count.runs <= count'.runs
  PROVE  Stored(i)'
<1>1. Listed(i)' = Listed(i)
  BY DEF Listed, Listing
<1> QED BY <1>1 DEF Stored

\* A promise made later was one before.
LEMMA PromisesShrink ==
  ASSUME NEW i \in Id, Completed(i), taken'[i] = taken[i],
         clock \in Nat, clock' \in Nat, clock <= clock'
  PROVE  Promises(i)' \subseteq Promises(i)
<1> SUFFICES ASSUME NEW b \in taken[i], Promised(b, taken[i], clock')
             PROVE  Promised(b, taken[i], clock)
  BY DEF Promises
<1>1. IsFiniteSet(taken[i]) /\ b.at \in Nat
  BY DEF Completed, Series
<1> QED BY <1>1, PromisedBefore

\* The directories and what was completed stay; each worker too, or is out of the way.
LEMMA QuietRetains ==
  ASSUME Sound, Retained, UNCHANGED <<dirs, taken>>,
         clock' \in Nat, clock <= clock', count'.runs \in Nat, count.runs <= count'.runs,
         Locked',
         \A v \in Worker : work'[v] = work[v] \/ Harmless(v)'
  PROVE  Retained'
<1>1. clock \in Nat /\ count.runs \in Nat
  BY DEF Sound, Typed
<1>2. \A w \in Worker : Filled(w)'
  <2> SUFFICES ASSUME NEW w \in Worker, ~Harmless(w)' PROVE Filled(w)'
    BY DEF Filled, Harmless, Filling
  <2>1. work'[w] = work[w] /\ Filled(w) /\ ~Harmless(w)
    BY DEF Retained, Harmless
  <2>2. Following(w) => Following(w)'
    BY <1>1, <2>1 DEF Following
  <2> QED BY <2>1, <2>2 DEF Filled
<1>3. ASSUME NEW i \in Id PROVE Completed(i)' /\ Stored(i)' /\ Safe(i)'
  <2>1. Completed(i)' /\ Stored(i)'
    BY <1>1, CompletedStays, StoredStays DEF Retained
  <2>2. ASSUME NEW d, Clear(i, d) PROVE Clear(i, d)'
    <3> SUFFICES ASSUME NEW w \in Worker, Endangers(w, d)' PROVE work'[w].on # i
      BY DEF Clear
    <3>1. ~Harmless(w)'
      BY DEF Endangers, Harmless
    <3>2. work'[w] = work[w] /\ Endangers(w, d)
      BY <3>1 DEF Endangers
    <3> QED BY <2>2, <3>2 DEF Clear
  <2>3. Promises(i)' \subseteq Promises(i)
    BY <1>1, PromisesShrink DEF Retained
  <2>4. \A d, b : Intact(i, d, b) => Intact(i, d, b)'
    BY DEF Intact
  <2> QED BY <2>1, <2>2, <2>3, <2>4 DEF Safe, Retained
<1> QED BY <1>2, <1>3 DEF Retained

\* A worker at work on an instance changes it; the other instances stay.
LEMMA WorkRetains ==
  ASSUME Apart, Sound, Retained, NEW w \in Worker, Active(w), Only(w), NEW i \in Id,
         work[w].on = i, work'[w].on = i \/ Harmless(w)',
         dirs' = [j \in Id |-> dirs'[j]], taken' = [j \in Id |-> taken'[j]],
         \A j \in Id \ {i} : dirs'[j] = dirs[j] /\ taken'[j] = taken[j],
         clock' = clock, count'.runs \in Nat, count.runs <= count'.runs,
         Locked', Filled(w)', Completed(i)', Stored(i)',
         \A b \in Promises(i)' : \E d \in DOMAIN dirs'[i] :
           Intact(i, d, b)' /\ ~Endangers(w, d)'
  PROVE  Retained'
<1>1. clock \in Nat /\ count.runs \in Nat
  BY DEF Sound, Typed
<1>2. \A v \in Worker \ {w} : work'[v] = work[v]
  BY DEF Only
<1>3. ASSUME NEW v \in Worker \ {w}, ~Harmless(v)
      PROVE  work[v].on # i /\ work[v].on \in Id
  <2>1. Active(v)
    BY <1>3 DEF Active, Harmless, Begun, Filling
  <2>2. work[v].on \in Id
    BY <2>1, AtWork DEF Active, Begun, Stands
  <2> QED BY <2>1, <2>2, Exclusive DEF Retained
<1>4. \A v \in Worker : Filled(v)'
  <2> SUFFICES ASSUME NEW v \in Worker \ {w}, ~Harmless(v)' PROVE Filled(v)'
    BY DEF Filled, Harmless, Filling
  <2>1. work'[v] = work[v] /\ Filled(v) /\ ~Harmless(v)
    BY <1>2 DEF Retained, Harmless
  <2>2. taken'[work[v].on] = taken[work[v].on] /\ dirs'[work[v].on] = dirs[work[v].on]
    BY <1>3, <2>1
  <2>3. Following(v) => Following(v)'
    BY <1>1, <2>1, <2>2 DEF Following
  <2> QED BY <2>1, <2>2, <2>3 DEF Filled
<1>5. ASSUME NEW j \in Id \ {i} PROVE Completed(j)' /\ Stored(j)' /\ Safe(j)'
  <2>1. Completed(j)' /\ Stored(j)'
    BY <1>1, CompletedStays, StoredStays DEF Retained
  <2>2. ASSUME NEW d, Clear(j, d) PROVE Clear(j, d)'
    <3> SUFFICES ASSUME NEW v \in Worker, Endangers(v, d)' PROVE work'[v].on # j
      BY DEF Clear
    <3>1. CASE v = w
      BY <3>1 DEF Endangers, Harmless
    <3>2. CASE v # w
      <4>1. work'[v] = work[v] /\ Endangers(v, d)
        BY <1>2, <3>2 DEF Endangers
      <4> QED BY <2>2, <4>1 DEF Clear
    <3> QED BY <3>1, <3>2
  <2>3. Promises(j)' \subseteq Promises(j)
    BY <1>1, PromisesShrink DEF Retained
  <2>4. \A d, b : Intact(j, d, b) => Intact(j, d, b)'
    BY DEF Intact
  <2>5. Safe(j) /\ dirs'[j] = dirs[j]
    BY DEF Retained
  <2> QED BY <2>1, <2>2, <2>3, <2>4, <2>5 DEF Safe
<1>6. Safe(i)'
  <2>1. ASSUME NEW d, ~Endangers(w, d)' PROVE Clear(i, d)'
    <3> SUFFICES ASSUME NEW v \in Worker \ {w}, Endangers(v, d)' PROVE work'[v].on # i
      BY <2>1 DEF Clear
    <3>1. work'[v] = work[v] /\ ~Harmless(v)
      BY <1>2 DEF Endangers, Harmless
    <3> QED BY <1>3, <3>1
  <2> QED BY <2>1 DEF Safe
<1> QED BY <1>4, <1>5, <1>6 DEF Retained

----------------------------------------------------------------------------
(* The locks *)

\* w goes on with the lock it has, or stops.
LEMMA LockKept ==
  ASSUME Sound, Locked, NEW w \in Worker, Only(w), lock' = lock,
         w \in Locking /\ Active(w)' => Active(w) /\ work'[w].on = work[w].on
  PROVE  Locked'
<1> SUFFICES ASSUME NEW v \in Locking, Active(v)' PROVE lock'[work'[v].on] = v
  BY DEF Locked
<1>1. CASE v = w
  BY <1>1 DEF Locked
<1>2. CASE v # w
  <2>1. work'[v] = work[v]
    BY <1>2, LockOwners DEF Only
  <2> QED BY <2>1 DEF Locked, Active
<1> QED BY <1>1, <1>2

\* w takes a lock that is free.
LEMMA LockTaken ==
  ASSUME Sound, Locked, NEW w \in Locking, Only(w), NEW i \in Id, lock[i] = Free,
         lock' = [lock EXCEPT ![i] = w], work'[w].on = i
  PROVE  Locked'
<1>1. lock' = [k \in Id |-> lock'[k]] /\ lock'[i] = w /\ \A k \in Id \ {i} : lock'[k] = lock[k]
  BY DEF Locked
<1> SUFFICES ASSUME NEW v \in Locking, Active(v)' PROVE lock'[work'[v].on] = v
  BY <1>1 DEF Locked
<1>2. CASE v = w
  BY <1>1, <1>2
<1>3. CASE v # w
  <2>1. work'[v] = work[v] /\ Active(v) /\ v \in Worker
    BY <1>3, LockOwners DEF Only, Active
  <2>2. lock[work[v].on] = v /\ work[v].on \in Id
    BY <2>1, AtWork DEF Locked, Active, Begun, Stands
  <2>3. v # Free
    BY DEF Locking, Free
  <2> QED BY <1>1, <2>1, <2>2, <2>3
<1> QED BY <1>2, <1>3

\* w is over and gives up its lock.
LEMMA LockReleased ==
  ASSUME Sound, Locked, NEW w \in Worker, Active(w), Over(w), work[w].kind = "scheduled" \/ w # "cron"
  PROVE  Locked' /\ Only(w) /\ Harmless(w)'
<1>1. Stands(w) /\ Shape(work[w])
  BY AtWork DEF Active, Begun
<1>2. /\ Only(w)
      /\ \/ work'[w] = Idle
         \/ w = "cron" /\ Continues(work[w], work'[w]) /\ work'[w].stage = "walk"
  BY <1>1, OverStops DEF Sound
<1>3. work'[w].stage \in {"idle", "walk"}
  BY <1>2 DEF Idle
<1>4. ~Active(w)' /\ Harmless(w)'
  BY <1>3 DEF Active, Harmless, Begun, Filling
<1>5. CASE w \notin Locking
  <2>1. lock' = lock
    BY <1>5 DEF Over
  <2> QED BY <1>2, <1>4, <2>1, LockKept
<1>6. CASE w \in Locking
  <2>1. lock' = [lock EXCEPT ![work[w].on] = Free] /\ lock[work[w].on] = w /\ work[w].on \in Id
    BY <1>1, <1>6 DEF Over, Locked, Stands
  <2>2. lock' = [k \in Id |-> lock'[k]] /\ \A k \in Id : lock[k] # w => lock'[k] = lock[k]
    BY <2>1 DEF Locked
  <2>3. ASSUME NEW v \in Locking, Active(v)' PROVE lock'[work'[v].on] = v
    <3>1. v # w
      BY <1>4, <2>3
    <3>2. work'[v] = work[v] /\ Active(v) /\ v \in Worker
      BY <1>2, <2>3, <3>1, LockOwners DEF Only, Active
    <3>3. lock[work[v].on] = v /\ work[v].on \in Id
      BY <3>2, AtWork DEF Locked, Active, Begun, Stands
    <3> QED BY <2>2, <3>1, <3>2, <3>3
  <2>4. Locked'
    BY <2>2, <2>3 DEF Locked
  <2> QED BY <1>2, <1>4, <2>4
<1> QED BY <1>5, <1>6

----------------------------------------------------------------------------
(* The steps that leave the directories alone *)

\* A step that changes only what worker w is doing, none of it harmful.
LEMMA QuietStep ==
  ASSUME Sound, Retained, NEW w \in Worker, Only(w), Harmless(w)', Locked',
         UNCHANGED <<clock, dirs, taken>>, count'.runs = count.runs
  PROVE  Retained'
<1>1. clock \in Nat /\ count.runs \in Nat
  BY DEF Sound, Typed
<1>2. \A v \in Worker : work'[v] = work[v] \/ Harmless(v)'
  BY DEF Only
<1> QED BY <1>1, <1>2, QuietRetains

LEMMA PeekRetains ==
  ASSUME Sound, Retained, NEW i \in Id, Peek(i)
  PROVE  Retained'
<1>1. "loop" \in Worker /\ Only("loop") /\ work'["loop"] = Job("scheduled", i, "peeked")
  BY DEF Peek, Worker, Only, Sound, Typed
<1>2. work'["loop"].stage = "peeked"
  BY <1>1, JobIs
<1>3. Harmless("loop")' /\ ~Active("loop")'
  BY <1>2 DEF Harmless, Active, Begun, Filling
<1>4. Locked'
  BY <1>1, <1>3, LockKept DEF Peek, Retained
<1> QED BY <1>1, <1>3, <1>4, QuietStep DEF Peek

LEMMA AcquireRetains ==
  ASSUME Sound, Retained, Acquire
  PROVE  Retained'
<1> DEFINE i == work["loop"].on
<1>1. "loop" \in Worker /\ "loop" \in Locking /\ i \in Id
  BY AtWork DEF Acquire, Worker, Locking, Stands
<1>2. CASE lock[i] = Free
  <2>1. Only("loop") /\ work'["loop"] = Job("scheduled", i, "check")
    BY <1>1, <1>2 DEF Acquire, Only, Sound, Typed
  <2>2. work'["loop"].stage = "check" /\ work'["loop"].on = i
    BY <2>1, JobIs
  <2>3. Locked'
    BY <1>1, <1>2, <2>1, <2>2, LockTaken DEF Acquire, Retained
  <2>4. Harmless("loop")'
    BY <2>2 DEF Harmless, Filling
  <2> QED BY <1>1, <2>1, <2>3, <2>4, QuietStep DEF Acquire
<1>3. CASE lock[i] # Free
  <2>1. Only("loop") /\ work'["loop"] = Idle
    BY <1>1, <1>3 DEF Acquire, Only, Sound, Typed
  <2>2. Harmless("loop")' /\ ~Active("loop")'
    BY <2>1 DEF Harmless, Active, Begun, Filling, Idle
  <2>3. Locked'
    BY <1>1, <1>3, <2>1, <2>2, LockKept DEF Acquire, Retained
  <2> QED BY <1>1, <2>1, <2>2, <2>3, QuietStep DEF Acquire
<1> QED BY <1>2, <1>3

LEMMA CronWalks ==
  ASSUME Sound, Retained, Only("cron"), lock' = lock, Harmless("cron")',
         UNCHANGED <<clock, dirs, taken, count>>
  PROVE  Retained'
<1>1. "cron" \in Worker /\ "cron" \notin Locking
  BY DEF Worker, Locking
<1>2. Locked'
  BY <1>1, LockKept DEF Retained
<1> QED BY <1>1, <1>2, QuietStep

LEMMA InvokeRetains ==
  ASSUME Sound, Retained, Invoke
  PROVE  Retained'
<1> DEFINE one == CHOOSE i \in Id : TRUE
           job == Job("scheduled", one, "walk")
<1>1. Shape(job) /\ job.stage = "walk"
  BY JobIs
<1> HIDE DEF one
<1>2. Only("cron") /\ work'["cron"] = [job EXCEPT !.todo = Id]
  BY DEF Invoke, Only, Sound, Typed, Worker, one
<1> HIDE DEF job
<1>3. work'["cron"].stage = "walk"
  BY <1>1, <1>2 DEF Shape
<1>4. Harmless("cron")'
  BY <1>3 DEF Harmless, Filling
<1> QED BY <1>2, <1>4, CronWalks DEF Invoke

LEMMA WalkRetains ==
  ASSUME Sound, Retained, Walk
  PROVE  Retained'
<1>1. "cron" \in Worker /\ Shape(work["cron"])
  BY AtWork DEF Walk, Worker
<1>2. Only("cron")
  BY DEF Walk, Only, Sound, Typed
<1>3. CASE work' = [work EXCEPT !["cron"] = Idle]
  <2>1. work'["cron"] = Idle
    BY <1>1, <1>3 DEF Sound, Typed
  <2>2. Harmless("cron")'
    BY <2>1 DEF Harmless, Filling, Idle
  <2> QED BY <1>2, <2>2, CronWalks DEF Walk
<1>4. ASSUME NEW i, NEW s \in {"check", "walk"},
             work' = [work EXCEPT !["cron"].on = i, !["cron"].todo = @ \ {i}, !["cron"].stage = s]
      PROVE  Retained'
  <2>1. work'["cron"] = [work["cron"] EXCEPT !.on = i, !.todo = @ \ {i}, !.stage = s]
    BY <1>1, <1>4 DEF Sound, Typed
  <2>2. work'["cron"].stage = s
    BY <1>1, <2>1 DEF Shape
  <2>3. Harmless("cron")'
    BY <2>2 DEF Harmless, Filling
  <2> QED BY <1>2, <2>3, CronWalks DEF Walk
<1>5. \/ work' = [work EXCEPT !["cron"] = Idle]
      \/ \E i \in work["cron"].todo : \E s \in {"check", "walk"} :
           work' = [work EXCEPT !["cron"].on = i, !["cron"].todo = @ \ {i}, !["cron"].stage = s]
  BY DEF Walk
<1> QED BY <1>3, <1>4, <1>5

LEMMA RequestRetains ==
  ASSUME Sound, Retained, NEW i \in Id, Request(i)
  PROVE  Retained'
<1>1. "console" \in Worker /\ "console" \in Locking
  BY DEF Worker, Locking
<1>2. PICK kind, s : s \in {"plan", "number"} /\ work' = [work EXCEPT !["console"] = Job(kind, i, s)]
  BY DEF Request
<1>3. Only("console") /\ work'["console"] = Job(kind, i, s)
  BY <1>1, <1>2 DEF Only, Sound, Typed
<1>4. work'["console"].stage = s /\ work'["console"].on = i
  BY <1>3, JobIs
<1>5. Harmless("console")'
  BY <1>2, <1>4 DEF Harmless, Filling
<1>6. Locked'
  BY <1>1, <1>3, <1>4, LockTaken DEF Request, Retained
<1>7. count'.runs = count.runs
  BY DEF Request, Sound, Typed
<1> QED BY <1>1, <1>3, <1>5, <1>6, <1>7, QuietStep DEF Request

LEMMA NobodyMoves ==
  ASSUME Sound, Retained, UNCHANGED <<dirs, taken, work, lock>>,
         clock' \in Nat, clock <= clock', count'.runs = count.runs
  PROVE  Retained'
<1>1. Locked'
  BY DEF Retained, Locked, Active
<1>2. count.runs \in Nat
  BY DEF Sound, Typed
<1> QED BY <1>1, <1>2, QuietRetains

LEMMA SetScheduleRetains ==
  ASSUME Sound, Retained, NEW i \in Id, SetSchedule(i)
  PROVE  Retained'
<1>1. count'.runs = count.runs /\ clock \in Nat
  BY DEF SetSchedule, Sound, Typed
<1>2. UNCHANGED <<dirs, taken, work, lock, clock>>
  BY DEF SetSchedule
<1> QED BY <1>1, <1>2, NobodyMoves

LEMMA TickRetains ==
  ASSUME Sound, Retained, Tick
  PROVE  Retained'
<1>1. clock \in Nat /\ clock' = clock + 1 /\ UNCHANGED <<dirs, taken, work, lock, count>>
  BY DEF Tick, Sound, Typed
<1> QED BY <1>1, NobodyMoves

LEMMA StutterRetains ==
  ASSUME Sound, Retained, UNCHANGED vars
  PROVE  Retained'
<1>1. clock \in Nat /\ UNCHANGED <<dirs, taken, work, lock, count, clock>>
  BY DEF vars, Sound, Typed
<1> QED BY <1>1, NobodyMoves

\* A worker that is over, or goes on to a stage that does no harm.
LEMMA TurnRetains ==
  ASSUME Sound, Retained, NEW w \in Worker, Active(w),
         UNCHANGED <<clock, dirs, taken>>, count'.runs = count.runs,
         \/ Over(w) /\ (work[w].kind = "scheduled" \/ w # "cron")
         \/ /\ lock' = lock /\ Only(w) /\ Continues(work[w], work'[w])
            /\ Harmless(w)'
  PROVE  Retained'
<1>1. CASE Over(w) /\ (work[w].kind = "scheduled" \/ w # "cron")
  <2>1. Locked' /\ Only(w) /\ Harmless(w)'
    BY <1>1, LockReleased DEF Retained
  <2> QED BY <2>1, QuietStep
<1>2. CASE lock' = lock /\ Only(w) /\ Continues(work[w], work'[w]) /\ Harmless(w)'
  <2>1. Locked'
    BY <1>2, LockKept DEF Retained, Continues
  <2> QED BY <1>2, <2>1, QuietStep
<1> QED BY <1>1, <1>2

LEMMA KindOfCron ==
  ASSUME Sound, NEW w \in Worker, Active(w)
  PROVE  /\ Stands(w) /\ Shape(work[w]) /\ (work[w].kind = "scheduled" \/ w # "cron")
         /\ work[w].on \in Id
BY AtWork DEF Active, Begun, Stands, Nightly

LEMMA CheckRetains ==
  ASSUME Sound, Retained, NEW w \in Worker, Check(w)
  PROVE  Retained'
<1>1. Active(w) /\ UNCHANGED <<clock, dirs, taken>> /\ count' = count
  BY DEF Check, Active
<1>2. Shape(work[w]) /\ (work[w].kind = "scheduled" \/ w # "cron")
  BY <1>1, KindOfCron
<1>3. CASE Over(w)
  BY <1>1, <1>2, <1>3, TurnRetains
<1>4. CASE lock' = lock /\ (Goto(w, "number") \/
                            work' = [work EXCEPT ![w].stage = "read", ![w].low = TRUE])
  <2>1. Only(w) /\ (work'[w] = [work[w] EXCEPT !.stage = "number"] \/
                    work'[w] = [work[w] EXCEPT !.stage = "read", !.low = TRUE])
    BY <1>4 DEF Goto, Only, Sound, Typed
  <2>2. Continues(work[w], work'[w]) /\ work'[w].stage \in {"number", "read"}
    BY <1>2, <2>1 DEF Continues, Shape
  <2>3. Harmless(w)'
    BY <2>2 DEF Harmless, Filling
  <2> QED BY <1>1, <1>4, <2>1, <2>2, <2>3, TurnRetains
<1> QED BY <1>3, <1>4 DEF Check

LEMMA ReadStateRetains ==
  ASSUME Sound, Retained, NEW w \in Worker, ReadState(w)
  PROVE  Retained'
<1>1. Active(w) /\ UNCHANGED <<clock, dirs, taken, count, lock>>
  BY DEF ReadState, Active, Begun
<1>2. Shape(work[w])
  BY <1>1, KindOfCron
<1>3. Only(w) /\ work'[w] = [work[w] EXCEPT !.stage = "record", !.seen = last]
  BY DEF ReadState, Only, Sound, Typed
<1>4. Continues(work[w], work'[w]) /\ work'[w].stage = "record"
  BY <1>2, <1>3 DEF Continues, Shape
<1>5. Harmless(w)'
  BY <1>4 DEF Harmless, Filling
<1> QED BY <1>1, <1>3, <1>4, <1>5, TurnRetains

LEMMA WriteStateRetains ==
  ASSUME Sound, Retained, NEW w \in Worker, WriteState(w)
  PROVE  Retained'
<1>1. Active(w) /\ Over(w) /\ UNCHANGED <<clock, dirs, taken, count>>
  BY DEF WriteState, Active, Begun
<1> QED BY <1>1, KindOfCron, TurnRetains

LEMMA CrashRetains ==
  ASSUME Sound, Retained, NEW w \in Worker, Crash(w)
  PROVE  Retained'
<1>1. UNCHANGED <<clock, dirs, taken>> /\ count'.runs = count.runs /\ count.runs \in Nat
        /\ clock \in Nat
  BY DEF Crash, Sound, Typed
<1>2. \A v \in Worker : IF v \in Process(w) THEN work'[v] = Idle ELSE work'[v] = work[v]
  BY DEF Crash
<1>3. ASSUME NEW v \in Worker, v \in Process(w)
      PROVE  Harmless(v)' /\ ~Active(v)'
  BY <1>2, <1>3 DEF Harmless, Active, Begun, Filling, Idle
<1>4. ASSUME NEW v \in Locking, Active(v)'
      PROVE  lock'[work'[v].on] = v
  <2>1. v \in Worker /\ v \notin Process(w) /\ work'[v] = work[v]
    BY <1>2, <1>3, <1>4, LockOwners
  <2>2. Active(v)
    BY <1>4, <2>1 DEF Active
  <2>3. lock[work[v].on] = v /\ work[v].on \in Id
    BY <2>1, <2>2, KindOfCron DEF Retained, Locked
  <2> QED BY <2>1, <2>3 DEF Crash
<1>5. Locked'
  BY <1>4 DEF Locked, Crash
<1> QED BY <1>1, <1>2, <1>3, <1>5, QuietRetains

----------------------------------------------------------------------------
(* The steps of a backup *)

\* The sequence number of a new backup is that of no directory of its day.
LEMMA NextSeqIs ==
  ASSUME NEW i \in Id, Stored(i), count.runs \in Nat, NEW day
  PROVE  /\ NextSeq(i, day) \in 1..(count.runs + 1)
         /\ [day |-> day, seq |-> NextSeq(i, day)] \notin DOMAIN dirs[i]
<1> DEFINE used == {d.seq : d \in {e \in DOMAIN dirs[i] : e.day = day}}
           S == {0} \union used
           top == CHOOSE n \in S : \A m \in used : m <= n
<1>1. used \subseteq 1..count.runs
  BY DEF Stored
<1>2. \A d \in DOMAIN dirs[i] : d.day = day => d.seq \in used
  OBVIOUS
<1>3. NextSeq(i, day) = 1 + top
  BY DEF NextSeq
<1> HIDE DEF used
<1>4. S \in SUBSET Nat /\ S # {} /\ \A s \in S : s <= count.runs
  BY <1>1
<1>5. \E n \in S : \A m \in S : m <= n
  <2> HIDE DEF S
  <2> QED BY <1>4, Topmost
<1>6. \E n \in S : \A m \in used : m <= n
  BY <1>5
<1>7. top \in S /\ \A m \in used : m <= top
  BY <1>6
<1> HIDE DEF top
<1>8. top \in Nat /\ top <= count.runs
  BY <1>4, <1>7
<1>9. 1 + top \notin used
  BY <1>7, <1>8
<1>10. [day |-> day, seq |-> 1 + top] \notin DOMAIN dirs[i]
  BY <1>2, <1>9
<1> QED BY <1>3, <1>8, <1>10

LEMMA NumberRetains ==
  ASSUME Apart, Sound, Retained, NEW w \in Worker, Number(w)
  PROVE  Retained'
<1>1. Active(w)
  BY DEF Number, Active, Begun
<1>2. PICK i \in Id : i = work[w].on
  BY <1>1, KindOfCron
<1>3. Shape(work[w]) /\ clock \in Nat /\ count.runs \in Nat
  BY <1>1, KindOfCron DEF Sound, Typed
<1> DEFINE id == [day |-> DayOf(clock), seq |-> NextSeq(i, DayOf(clock))]
<1>4. id.seq \in 1..(count.runs + 1) /\ id \notin DOMAIN dirs[i]
  BY <1>3, NextSeqIs DEF Retained
<1>5. Only(w) /\ work'[w] = [work[w] EXCEPT !.stage = "dump", !.at = clock,
                                            !.nr = count.runs + 1, !.id = id]
  BY <1>2 DEF Number, Only, Sound, Typed
<1>6. count'.runs = count.runs + 1 /\ UNCHANGED <<clock, dirs, taken, lock>>
  BY DEF Number, Sound, Typed
<1> HIDE DEF id
<1>7. /\ work'[w].stage = "dump" /\ work'[w].at = clock /\ work'[w].nr = count.runs + 1
      /\ work'[w].id = id /\ work'[w].on = i
  BY <1>2, <1>3, <1>5 DEF Shape
<1>8. Locked'
  BY <1>1, <1>2, <1>5, <1>6, <1>7, LockKept DEF Retained
<1>9. Completed(i) /\ Stored(i) /\ Safe(i)
  BY DEF Retained
<1>10. count'.runs \in Nat /\ count.runs <= count'.runs
  BY <1>3, <1>6
<1>11. Completed(i)' /\ Stored(i)'
  BY <1>3, <1>6, <1>9, <1>10, CompletedStays, StoredStays
<1>12. Filled(w)'
  <2>1. \A b \in taken'[i] : b.nr < count.runs + 1 /\ b.at <= clock
    BY <1>3, <1>6, <1>9 DEF Completed, Series
  <2>2. Following(w)'
    BY <1>3, <1>4, <1>6, <1>7, <1>10, <2>1 DEF Following
  <2> QED BY <1>7, <2>2 DEF Filled
<1>13. ASSUME NEW b \in Promises(i)'
       PROVE  \E d \in DOMAIN dirs'[i] : Intact(i, d, b)' /\ ~Endangers(w, d)'
  <2>1. b \in Promises(i)
    BY <1>3, <1>6, <1>9, PromisesShrink
  <2>2. PICK d \in DOMAIN dirs[i] : Intact(i, d, b) /\ Clear(i, d)
    BY <1>9, <2>1 DEF Safe
  <2>3. Intact(i, d, b)'
    BY <1>6, <2>2 DEF Intact
  <2>4. ~Endangers(w, d)'
    BY <1>4, <1>7 DEF Endangers
  <2> QED BY <1>6, <2>3, <2>4
<1>14. dirs' = [j \in Id |-> dirs'[j]] /\ taken' = [j \in Id |-> taken'[j]]
  BY <1>6 DEF Retained
<1> QED BY <1>1, <1>2, <1>5, <1>6, <1>7, <1>8, <1>10, <1>11, <1>12, <1>13, <1>14, WorkRetains

\* A file of the backup is written.
LEMMA PutIs ==
  ASSUME Sound, Retained, NEW w \in Worker, NEW i \in Id, i = work[w].on, NEW part, Put(w, part)
  PROVE  /\ dirs' = [j \in Id |-> dirs'[j]] /\ \A j \in Id \ {i} : dirs'[j] = dirs[j]
         /\ dirs'[i] = [d \in DOMAIN dirs'[i] |-> dirs'[i][d]]
         /\ DOMAIN dirs'[i] = DOMAIN dirs[i] \union {work[w].id}
         /\ \A d \in DOMAIN dirs[i] \ {work[w].id} : dirs'[i][d] = dirs[i][d]
         /\ Directory(dirs'[i][work[w].id])
         /\ dirs'[i][work[w].id].manifest =
              IF work[w].id \in DOMAIN dirs[i] THEN dirs[i][work[w].id].manifest ELSE Unsealed
<1> DEFINE id == work[w].id
           dir == IF id \in DOMAIN dirs[i] THEN dirs[i][id] ELSE EmptyDir
           new == [dir EXCEPT !.parts[part] = work[w].nr]
           all == [d \in DOMAIN dirs[i] \union {id} |-> IF d = id THEN new ELSE dirs[i][d]]
<1>1. dirs' = [dirs EXCEPT ![i] = all]
  BY DEF Put
<1>2. Directory(EmptyDir) /\ EmptyDir.manifest = Unsealed
  BY DEF Directory, EmptyDir
<1>3. Directory(dir)
  BY <1>2 DEF Retained, Stored
<1> HIDE DEF dir
<1>4. Directory(new) /\ new.manifest = dir.manifest
  BY <1>3 DEF Directory
<1> HIDE DEF new
<1>5. dirs' = [j \in Id |-> dirs'[j]] /\ (\A j \in Id \ {i} : dirs'[j] = dirs[j]) /\ dirs'[i] = all
  BY <1>1 DEF Retained
<1>6. /\ dirs'[i] = [d \in DOMAIN dirs'[i] |-> dirs'[i][d]]
      /\ DOMAIN dirs'[i] = DOMAIN dirs[i] \union {id}
      /\ \A d \in DOMAIN dirs[i] \ {id} : dirs'[i][d] = dirs[i][d]
      /\ dirs'[i][id] = new
  BY <1>5
<1> QED BY <1>2, <1>4, <1>5, <1>6 DEF dir

LEMMA FillRetains ==
  ASSUME Apart, Sound, Retained, NEW w \in Worker, Fill(w)
  PROVE  Retained'
<1>1. Active(w) /\ work[w].stage \in Filling
  BY DEF Fill, Active, Begun, Filling
<1>2. PICK i \in Id : i = work[w].on
  BY <1>1, KindOfCron
<1>3. Shape(work[w]) /\ clock \in Nat /\ count.runs \in Nat
  BY <1>1, KindOfCron DEF Sound, Typed
<1>4. PICK part \in Part, s \in {"archive", "seal"} : Put(w, part) /\ Goto(w, s)
  BY DEF Fill, Part
<1>5. Only(w) /\ work'[w] = [work[w] EXCEPT !.stage = s]
  BY <1>4 DEF Goto, Only, Sound, Typed
<1>6. UNCHANGED <<clock, lock, taken, count>>
  BY DEF Fill
<1>7. /\ work'[w].stage = s /\ work'[w].at = work[w].at /\ work'[w].nr = work[w].nr
      /\ work'[w].id = work[w].id /\ work'[w].on = i
  BY <1>2, <1>3, <1>5 DEF Shape
<1>8. Locked'
  BY <1>1, <1>2, <1>5, <1>6, <1>7, LockKept DEF Retained
<1>9. Completed(i) /\ Stored(i) /\ Safe(i) /\ Following(w)
  BY <1>1 DEF Retained, Filled
<1> DEFINE id == work[w].id
<1>10. /\ dirs' = [j \in Id |-> dirs'[j]] /\ \A j \in Id \ {i} : dirs'[j] = dirs[j]
       /\ dirs'[i] = [d \in DOMAIN dirs'[i] |-> dirs'[i][d]]
       /\ DOMAIN dirs'[i] = DOMAIN dirs[i] \union {id}
       /\ \A d \in DOMAIN dirs[i] \ {id} : dirs'[i][d] = dirs[i][d]
       /\ Directory(dirs'[i][id])
       /\ dirs'[i][id].manifest = IF id \in DOMAIN dirs[i] THEN dirs[i][id].manifest ELSE Unsealed
  BY <1>2, <1>4, PutIs
<1>11. Completed(i)'
  BY <1>3, <1>6, <1>9, CompletedStays
<1>12. Stored(i)'
  <2>1. id.seq \in 1..count.runs
    BY <1>9 DEF Following
  <2>2. \A d \in DOMAIN dirs'[i] : Directory(dirs'[i][d]) /\ d.seq \in 1..count'.runs
    BY <1>6, <1>9, <1>10, <2>1 DEF Stored
  <2>3. ASSUME NEW d \in DOMAIN dirs'[i], dirs'[i][d].manifest # Unsealed
        PROVE  dirs'[i][d].manifest \in taken'[i]
    <3>1. d \in DOMAIN dirs[i] /\ dirs'[i][d].manifest = dirs[i][d].manifest
      BY <1>10, <2>3
    <3>2. dirs[i][d].manifest \in Listed(i)
      BY <2>3, <3>1 DEF Listed, Listing
    <3> QED BY <1>6, <1>9, <3>1, <3>2 DEF Stored
  <2> QED BY <1>10, <2>2, <2>3 DEF Stored, Listed, Listing
<1>13. Filled(w)'
  <2>1. Following(w)'
    BY <1>2, <1>6, <1>7, <1>9 DEF Following
  <2>2. work'[w].id \in DOMAIN dirs'[work'[w].on]
    BY <1>7, <1>10
  <2> QED BY <2>1, <2>2 DEF Filled
<1>14. ASSUME NEW b \in Promises(i)'
       PROVE  \E d \in DOMAIN dirs'[i] : Intact(i, d, b)' /\ ~Endangers(w, d)'
  <2>1. b \in Promises(i)
    BY <1>3, <1>6, <1>9, PromisesShrink
  <2>2. PICK d \in DOMAIN dirs[i] : Intact(i, d, b) /\ Clear(i, d)
    BY <1>9, <2>1 DEF Safe
  <2>3. d # id
    BY <1>1, <1>2, <2>2 DEF Clear, Endangers
  <2>4. Intact(i, d, b)' /\ d \in DOMAIN dirs'[i]
    BY <1>10, <2>2, <2>3 DEF Intact
  <2>5. ~Endangers(w, d)'
    BY <1>4, <1>7, <2>3 DEF Endangers
  <2> QED BY <2>4, <2>5
<1>15. taken' = [j \in Id |-> taken'[j]] /\ \A j \in Id \ {i} : taken'[j] = taken[j]
  BY <1>6 DEF Retained
<1>16. count'.runs \in Nat /\ count.runs <= count'.runs /\ clock' = clock
  BY <1>3, <1>6
<1> QED BY <1>1, <1>2, <1>5, <1>7, <1>8, <1>10, <1>11, <1>12, <1>13, <1>14, <1>15, <1>16, WorkRetains

\* A completed backup joins the series.
LEMMA SeriesGrows ==
  ASSUME NEW S, Series(S), NEW b, b.nr \in Nat, b.at \in Nat,
         \A c \in S : c.nr < b.nr /\ c.at <= b.at
  PROVE  Series(S \union {b})
<1>1. IsFiniteSet(S \union {b})
  BY FS_AddElement DEF Series
<1>2. \A c \in S \union {b} : c.nr \in Nat /\ c.at \in Nat
  BY DEF Series
<1>3. ASSUME NEW c \in S \union {b}, NEW e \in S \union {b}, c.nr <= e.nr
      PROVE  c.at <= e.at
  <2>1. CASE c \in S /\ e \in S
    BY <1>3, <2>1 DEF Series
  <2>2. CASE c = b /\ e \in S
    BY <1>2, <1>3, <2>2
  <2>3. CASE e = b
    BY <1>2, <2>3
  <2> QED BY <2>1, <2>2, <2>3
<1> QED BY <1>1, <1>2, <1>3 DEF Series

LEMMA SealRetains ==
  ASSUME Apart, Sound, Retained, NEW w \in Worker, Seal(w)
  PROVE  Retained'
<1>1. Active(w) /\ work[w].stage = "seal" /\ work[w].stage \in Filling
  BY DEF Seal, Active, Begun, Filling
<1>2. PICK i \in Id, id \in {work[w].id} : i = work[w].on
  BY <1>1, KindOfCron
<1>3. clock \in Nat /\ count.runs \in Nat /\ Shape(work[w])
        /\ (work[w].kind = "scheduled" \/ w # "cron")
  BY <1>1, KindOfCron DEF Sound, Typed
<1>4. Completed(i) /\ Stored(i) /\ Safe(i) /\ Following(w) /\ id \in DOMAIN dirs[i]
  BY <1>1, <1>2 DEF Retained, Filled
<1> DEFINE m == [nr |-> work[w].nr, at |-> work[w].at, origin |-> work[w].kind,
                 sums |-> dirs[i][id].parts]
<1>5. UNCHANGED <<clock, count>> /\ dirs' = [dirs EXCEPT ![i][id].manifest = m]
        /\ taken' = [taken EXCEPT ![i] = @ \union {m}]
  BY <1>2 DEF Seal
<1>6. m.nr = work[w].nr /\ m.at = work[w].at /\ m.sums = dirs[i][id].parts
  OBVIOUS
<1> HIDE DEF m
<1>7. /\ dirs' = [j \in Id |-> dirs'[j]] /\ \A j \in Id \ {i} : dirs'[j] = dirs[j]
      /\ dirs'[i] = [dirs[i] EXCEPT ![id].manifest = m]
  BY <1>5 DEF Retained
<1>8. /\ dirs'[i] = [d \in DOMAIN dirs'[i] |-> dirs'[i][d]] /\ DOMAIN dirs'[i] = DOMAIN dirs[i]
      /\ \A d \in DOMAIN dirs[i] \ {id} : dirs'[i][d] = dirs[i][d]
      /\ dirs'[i][id] = [dirs[i][id] EXCEPT !.manifest = m]
  BY <1>4, <1>7 DEF Stored
<1>9. /\ Directory(dirs'[i][id]) /\ dirs'[i][id].manifest = m
      /\ dirs'[i][id].parts = dirs[i][id].parts
  <2>1. Directory(dirs[i][id])
    BY <1>4 DEF Stored
  <2> QED BY <1>8, <2>1 DEF Directory
<1>10. /\ taken' = [j \in Id |-> taken'[j]] /\ \A j \in Id \ {i} : taken'[j] = taken[j]
       /\ taken'[i] = taken[i] \union {m}
  BY <1>5 DEF Retained
<1>11. Locked' /\ Only(w) /\ Harmless(w)' /\ (work'[w].on = i \/ Harmless(w)')
  <2>1. CASE Over(w)
    BY <1>1, <1>3, <2>1, LockReleased DEF Retained
  <2>2. CASE Goto(w, "plan") /\ UNCHANGED lock
    <3>1. Only(w) /\ Continues(work[w], work'[w]) /\ work'[w].stage = "plan"
      BY <1>3, <2>2, GotoOnly
    <3>2. Locked'
      BY <1>1, <2>2, <3>1, LockKept DEF Retained, Continues
    <3> QED BY <3>1, <3>2 DEF Harmless, Filling
  <2> QED BY <2>1, <2>2 DEF Seal
<1>12. Completed(i)'
  <2>1. m.nr \in Nat /\ m.at \in Nat /\ m.nr <= count.runs /\ m.at <= clock
          /\ \A c \in taken[i] : c.nr < m.nr /\ c.at <= m.at
    BY <1>2, <1>4, <1>6 DEF Following
  <2>2. Series(taken'[i])
    BY <1>4, <1>10, <2>1, SeriesGrows DEF Completed
  <2> QED BY <1>4, <1>5, <1>10, <2>1, <2>2 DEF Completed
<1>13. Stored(i)'
  <2>1. \A d \in DOMAIN dirs'[i] : Directory(dirs'[i][d]) /\ d.seq \in 1..count'.runs
    BY <1>4, <1>5, <1>8, <1>9 DEF Stored
  <2>2. ASSUME NEW d \in DOMAIN dirs'[i], dirs'[i][d].manifest # Unsealed
        PROVE  dirs'[i][d].manifest \in taken'[i]
    <3>1. CASE d = id
      BY <1>9, <1>10, <3>1
    <3>2. CASE d # id
      <4>1. dirs[i][d].manifest \in Listed(i) /\ dirs'[i][d] = dirs[i][d]
        BY <1>8, <2>2, <3>2 DEF Listed, Listing
      <4> QED BY <1>4, <1>10, <4>1 DEF Stored
    <3> QED BY <3>1, <3>2
  <2> QED BY <1>8, <2>1, <2>2 DEF Stored, Listed, Listing
<1>14. Filled(w)'
  BY <1>11 DEF Filled, Harmless, Filling
<1>15. \A d : ~Endangers(w, d)'
  BY <1>11 DEF Harmless, Endangers
<1>16. ASSUME NEW b \in Promises(i)'
       PROVE  \E d \in DOMAIN dirs'[i] : Intact(i, d, b)' /\ ~Endangers(w, d)'
  <2>1. CASE b = m
    <3>1. Intact(i, id, b)'
      BY <1>6, <1>9, <2>1 DEF Intact
    <3> QED BY <1>4, <1>8, <1>15, <3>1
  <2>2. CASE b # m
    <3>1. b \in taken[i] /\ Promised(b, taken'[i], clock)
      BY <1>5, <1>10, <2>2 DEF Promises
    <3>2. IsFiniteSet(taken'[i]) /\ taken[i] \subseteq taken'[i] /\ b.at \in Nat
      BY <1>4, <1>10, <1>12, <3>1 DEF Completed, Series
    <3>3. Promised(b, taken[i], clock)
      BY <1>3, <3>1, <3>2, PromisedBefore
    <3>4. PICK d \in DOMAIN dirs[i] : Intact(i, d, b) /\ Clear(i, d)
      BY <1>4, <3>1, <3>3 DEF Safe, Promises
    <3>5. d # id
      BY <1>1, <1>2, <3>4 DEF Clear, Endangers
    <3>6. Intact(i, d, b)'
      BY <1>8, <3>4, <3>5 DEF Intact
    <3> QED BY <1>8, <1>15, <3>6
  <2> QED BY <2>1, <2>2
<1>17. count'.runs \in Nat /\ count.runs <= count'.runs /\ clock' = clock
  BY <1>3, <1>5
<1> QED BY <1>1, <1>2, <1>7, <1>10, <1>11, <1>12, <1>13, <1>14, <1>16, <1>17, WorkRetains

----------------------------------------------------------------------------
(* The steps of pruning *)

\* Nothing that is promised is planned for deletion.
LEMMA PlanRetains ==
  ASSUME Apart, Sound, Retained, NEW w \in Worker, Plan(w)
  PROVE  Retained'
<1>1. Active(w)
  BY DEF Plan, Active, Begun
<1>2. PICK i \in Id : i = work[w].on
  BY <1>1, KindOfCron
<1>3. clock \in Nat /\ count.runs \in Nat /\ Shape(work[w])
        /\ work[w].now \in Nat /\ work[w].now <= clock
  BY <1>1, KindOfCron DEF Stands, Sound, Typed
<1>4. Completed(i) /\ Stored(i) /\ Safe(i)
  BY DEF Retained
<1> DEFINE now == IF work[w].kind = "prune" THEN clock ELSE work[w].now
           victims == {d \in Listing(i) : dirs[i][d].manifest \notin Kept(Listed(i), now)}
<1>5. now \in Nat /\ now <= clock
  BY <1>3
<1>6. Only(w) /\ work'[w] = [work[w] EXCEPT !.stage = "delete", !.victims = victims]
  BY <1>2 DEF Plan, Only, Sound, Typed
<1> HIDE DEF now
<1>7. ASSUME NEW b \in Promises(i), NEW d \in DOMAIN dirs[i], Intact(i, d, b)
      PROVE  d \notin victims
  <2>1. CASE d \in Listing(i)
    <3>1. b \in Listed(i) /\ Listed(i) \subseteq taken[i] /\ dirs[i][d].manifest = b
      BY <1>4, <1>7, <2>1 DEF Listed, Intact, Stored
    <3>2. b \in Kept(Listed(i), now)
      BY <1>3, <1>4, <1>5, <3>1, PromisedIsKept DEF Promises, Completed
    <3> QED BY <3>1, <3>2
  <2>2. CASE d \notin Listing(i)
    BY <2>2
  <2> QED BY <2>1, <2>2
<1> HIDE DEF victims
<1>8. work'[w].stage = "delete" /\ work'[w].victims = victims /\ work'[w].on = i
  BY <1>2, <1>3, <1>6 DEF Shape
<1>9. UNCHANGED <<clock, dirs, taken, lock, count>>
  BY DEF Plan
<1>10. Locked'
  BY <1>1, <1>2, <1>6, <1>8, <1>9, LockKept DEF Retained
<1>11. Completed(i)' /\ Stored(i)'
  BY <1>3, <1>4, <1>9, CompletedStays, StoredStays
<1>12. Filled(w)'
  BY <1>8 DEF Filled, Filling
<1>13. ASSUME NEW b \in Promises(i)'
       PROVE  \E d \in DOMAIN dirs'[i] : Intact(i, d, b)' /\ ~Endangers(w, d)'
  <2>1. b \in Promises(i)
    BY <1>3, <1>4, <1>9, PromisesShrink
  <2>2. PICK d \in DOMAIN dirs[i] : Intact(i, d, b)
    BY <1>4, <2>1 DEF Safe
  <2>3. d \notin victims
    BY <1>7, <2>1, <2>2
  <2>4. ~Endangers(w, d)' /\ Intact(i, d, b)'
    BY <1>8, <1>9, <2>2, <2>3 DEF Endangers, Filling, Intact
  <2> QED BY <1>9, <2>2, <2>4
<1>14. dirs' = [j \in Id |-> dirs'[j]] /\ taken' = [j \in Id |-> taken'[j]]
  BY <1>9 DEF Retained
<1>15. /\ count'.runs \in Nat /\ count.runs <= count'.runs /\ clock' = clock
       /\ \A j \in Id \ {i} : dirs'[j] = dirs[j] /\ taken'[j] = taken[j]
  BY <1>3, <1>9
<1> QED BY <1>1, <1>2, <1>6, <1>8, <1>10, <1>11, <1>12, <1>13, <1>14, <1>15, WorkRetains

\* A directory that is to go is gone, or is damaged, and the worker goes on or stops.
LEMMA LossRetains ==
  ASSUME Apart, Sound, Retained, NEW w \in Worker, work[w].stage = "delete", NEW i \in Id,
         work[w].on = i, NEW v \in work[w].victims,
         dirs' = [j \in Id |-> dirs'[j]], \A j \in Id \ {i} : dirs'[j] = dirs[j],
         dirs'[i] = [d \in DOMAIN dirs'[i] |-> dirs'[i][d]],
         DOMAIN dirs[i] \ {v} \subseteq DOMAIN dirs'[i], DOMAIN dirs'[i] \subseteq DOMAIN dirs[i],
         \A d \in DOMAIN dirs[i] \ {v} : dirs'[i][d] = dirs[i][d],
         v \in DOMAIN dirs'[i] =>
           /\ Directory(dirs'[i][v])
           /\ dirs'[i][v].manifest \in {dirs[i][v].manifest, Unsealed},
         Only(w), Locked', UNCHANGED <<clock, taken>>, count'.runs = count.runs,
         \/ Harmless(w)'
         \/ /\ work'[w].stage = "delete" /\ work'[w].on = i
            /\ work'[w].victims \subseteq work[w].victims
  PROVE  Retained'
<1>1. Active(w) /\ clock \in Nat /\ count.runs \in Nat
  BY DEF Active, Begun, Sound, Typed
<1>2. Completed(i) /\ Stored(i) /\ Safe(i)
  BY DEF Retained
<1>3. Completed(i)'
  BY <1>1, <1>2, CompletedStays
<1>4. Stored(i)'
  <2>1. \A d \in DOMAIN dirs'[i] : Directory(dirs'[i][d]) /\ d.seq \in 1..count'.runs
    BY <1>2 DEF Stored
  <2>2. ASSUME NEW d \in DOMAIN dirs'[i], dirs'[i][d].manifest # Unsealed
        PROVE  dirs'[i][d].manifest \in taken'[i]
    <3>1. dirs'[i][d].manifest = dirs[i][d].manifest /\ d \in DOMAIN dirs[i]
      BY <2>2
    <3>2. dirs[i][d].manifest \in Listed(i)
      BY <2>2, <3>1 DEF Listed, Listing
    <3> QED BY <1>2, <3>1, <3>2 DEF Stored
  <2> QED BY <2>1, <2>2 DEF Stored, Listed, Listing
<1>5. work'[w].stage \notin Filling /\ Filled(w)'
  BY DEF Filled, Harmless, Filling
<1>6. \A d : Endangers(w, d)' => Endangers(w, d)
  BY <1>5 DEF Endangers, Harmless
<1>7. ASSUME NEW b \in Promises(i)'
      PROVE  \E d \in DOMAIN dirs'[i] : Intact(i, d, b)' /\ ~Endangers(w, d)'
  <2>1. b \in Promises(i)
    BY <1>1, <1>2, <1>7, PromisesShrink
  <2>2. PICK d \in DOMAIN dirs[i] : Intact(i, d, b) /\ Clear(i, d)
    BY <1>2, <2>1 DEF Safe
  <2>3. ~Endangers(w, d) /\ d # v
    BY <2>2 DEF Clear, Endangers
  <2>4. Intact(i, d, b)' /\ d \in DOMAIN dirs'[i]
    BY <2>2, <2>3 DEF Intact
  <2> QED BY <1>6, <2>3, <2>4
<1>8. taken' = [j \in Id |-> taken'[j]] /\ \A j \in Id \ {i} : taken'[j] = taken[j]
  BY DEF Retained
<1>9. count'.runs \in Nat /\ count.runs <= count'.runs /\ (work'[w].on = i \/ Harmless(w)')
  BY <1>1
<1> QED BY <1>1, <1>3, <1>4, <1>5, <1>7, <1>8, <1>9, WorkRetains

LEMMA DeleteRetains ==
  ASSUME Apart, Sound, Retained, NEW w \in Worker, Delete(w)
  PROVE  Retained'
<1>1. Active(w) /\ work[w].stage = "delete" /\ UNCHANGED <<clock, taken, count>>
  BY DEF Delete, Active, Begun
<1>2. PICK i \in Id : i = work[w].on
  BY <1>1, KindOfCron
<1>3. Shape(work[w]) /\ (work[w].kind = "scheduled" \/ w # "cron")
  BY <1>1, KindOfCron
<1>4. ASSUME NEW v \in work[w].victims, lock' = lock,
             dirs' = [dirs EXCEPT ![i] = [d \in DOMAIN @ \ {v} |-> @[d]]],
             work' = [work EXCEPT ![w].victims = @ \ {v}]
      PROVE  Retained'
  <2>1. Only(w) /\ work'[w] = [work[w] EXCEPT !.victims = @ \ {v}]
    BY <1>4 DEF Only, Sound, Typed
  <2>2. /\ work'[w].stage = "delete" /\ work'[w].on = i
        /\ work'[w].victims \subseteq work[w].victims
    BY <1>1, <1>2, <1>3, <2>1 DEF Shape
  <2>3. Locked'
    BY <1>1, <1>2, <1>4, <2>1, <2>2, LockKept DEF Retained
  <2>4. /\ dirs' = [j \in Id |-> dirs'[j]] /\ \A j \in Id \ {i} : dirs'[j] = dirs[j]
        /\ dirs'[i] = [d \in DOMAIN dirs[i] \ {v} |-> dirs[i][d]]
    BY <1>4 DEF Retained
  <2>5. /\ dirs'[i] = [d \in DOMAIN dirs'[i] |-> dirs'[i][d]]
        /\ DOMAIN dirs[i] \ {v} \subseteq DOMAIN dirs'[i] /\ DOMAIN dirs'[i] \subseteq DOMAIN dirs[i]
        /\ \A d \in DOMAIN dirs[i] \ {v} : dirs'[i][d] = dirs[i][d]
        /\ v \notin DOMAIN dirs'[i]
    BY <2>4
  <2> QED BY <1>1, <1>2, <2>1, <2>2, <2>3, <2>4, <2>5, LossRetains
<1>5. CASE dirs' = dirs /\ Over(w)
  BY <1>1, <1>3, <1>5, TurnRetains
<1>6. CASE dirs' = dirs /\ lock' = lock /\ Goto(w, "read")
  <2>1. Only(w) /\ Continues(work[w], work'[w]) /\ work'[w].stage = "read"
    BY <1>3, <1>6, GotoOnly
  <2>2. Harmless(w)'
    BY <2>1 DEF Harmless, Filling
  <2> QED BY <1>1, <1>6, <2>1, <2>2, TurnRetains
<1> QED BY <1>2, <1>4, <1>5, <1>6 DEF Delete

LEMMA HalfDeletedIs ==
  ASSUME Sound, Retained, NEW i \in Id, NEW v, HalfDeleted(i, v)
  PROVE  /\ dirs' = [j \in Id |-> dirs'[j]] /\ \A j \in Id \ {i} : dirs'[j] = dirs[j]
         /\ dirs'[i] = [d \in DOMAIN dirs'[i] |-> dirs'[i][d]]
         /\ DOMAIN dirs'[i] = DOMAIN dirs[i]
         /\ \A d \in DOMAIN dirs[i] \ {v} : dirs'[i][d] = dirs[i][d]
         /\ v \in DOMAIN dirs'[i] =>
              /\ Directory(dirs'[i][v])
              /\ dirs'[i][v].manifest \in {dirs[i][v].manifest, Unsealed}
<1> DEFINE left(gone, listed) ==
             [parts |-> [p \in Part |-> IF p \in gone THEN Missing ELSE dirs[i][v].parts[p]],
              manifest |-> IF listed THEN dirs[i][v].manifest ELSE Unsealed]
<1>1. PICK gone \in SUBSET Part, listed \in BOOLEAN :
        dirs' = [dirs EXCEPT ![i][v] =
                   [parts |-> [p \in Part |-> IF p \in gone THEN Missing ELSE @.parts[p]],
                    manifest |-> IF listed THEN @.manifest ELSE Unsealed]]
  BY DEF HalfDeleted
<1>2. PICK e : /\ e = left(gone, listed) /\ dirs' = [dirs EXCEPT ![i][v] = e]
  BY <1>1
<1>3. Directory(e) /\ e.manifest \in {dirs[i][v].manifest, Unsealed}
  BY <1>2 DEF Directory
<1>4. /\ dirs' = [j \in Id |-> dirs'[j]] /\ \A j \in Id \ {i} : dirs'[j] = dirs[j]
      /\ dirs'[i] = [dirs[i] EXCEPT ![v] = e]
  BY <1>2 DEF Retained
<1>5. dirs[i] = [d \in DOMAIN dirs[i] |-> dirs[i][d]]
  BY DEF Retained, Stored
<1>6. /\ dirs'[i] = [d \in DOMAIN dirs'[i] |-> dirs'[i][d]] /\ DOMAIN dirs'[i] = DOMAIN dirs[i]
      /\ \A d \in DOMAIN dirs[i] \ {v} : dirs'[i][d] = dirs[i][d]
      /\ v \in DOMAIN dirs'[i] => dirs'[i][v] = e
  BY <1>4, <1>5
<1> QED BY <1>3, <1>4, <1>6

LEMMA FailRetains ==
  ASSUME Apart, Sound, Retained, NEW w \in Worker, Fail(w)
  PROVE  Retained'
<1>1. Stands(w) /\ Shape(work[w]) /\ work[w].stage \in Begun \union {"peeked", "walk", "check"}
  BY AtWork DEF Fail, Stands
<1>2. Active(w) /\ UNCHANGED <<clock, taken>> /\ count'.runs = count.runs
  BY <1>1 DEF Fail, Active, Sound, Typed
<1>3. PICK i \in Id : i = work[w].on
  BY <1>1 DEF Stands
<1>4. \/ Over(w) /\ (work[w].kind = "scheduled" \/ w # "cron")
      \/ /\ lock' = lock /\ Only(w) /\ Continues(work[w], work'[w])
         /\ Harmless(w)'
  <2>1. CASE Over(w)
    BY <1>2, <2>1, KindOfCron
  <2>2. ASSUME NEW s \in {"number", "read"}, NEW c, lock' = lock,
               work' = [work EXCEPT ![w].stage = s, ![w].low = FALSE, ![w].caught = c]
        PROVE  lock' = lock /\ Only(w) /\ Continues(work[w], work'[w]) /\ Harmless(w)'
    <3>1. Only(w) /\ work'[w] = [work[w] EXCEPT !.stage = s, !.low = FALSE, !.caught = c]
      BY <2>2 DEF Only, Sound, Typed
    <3>2. Continues(work[w], work'[w]) /\ work'[w].stage = s
      BY <1>1, <3>1 DEF Continues, Shape
    <3> QED BY <2>2, <3>1, <3>2 DEF Harmless, Filling
  <2>3. \/ Over(w)
        \/ /\ lock' = lock
           /\ \E s \in {"number", "read"}, c \in {~work[w].low} :
                work' = [work EXCEPT ![w].stage = s, ![w].low = FALSE, ![w].caught = c]
    BY DEF Fail
  <2> QED BY <2>1, <2>2, <2>3
<1>5. CASE UNCHANGED dirs
  BY <1>2, <1>4, <1>5, TurnRetains
<1>6. ASSUME work[w].stage = "delete", NEW v \in work[w].victims, HalfDeleted(i, v)
      PROVE  Retained'
  <2>1. Locked' /\ Only(w) /\ Harmless(w)'
    <3>1. CASE Over(w) /\ (work[w].kind = "scheduled" \/ w # "cron")
      BY <1>2, <3>1, LockReleased DEF Retained
    <3>2. CASE lock' = lock /\ Only(w) /\ Continues(work[w], work'[w]) /\ Harmless(w)'
      BY <1>2, <3>2, LockKept DEF Retained, Continues
    <3> QED BY <1>4, <3>1, <3>2
  <2>2. /\ dirs' = [j \in Id |-> dirs'[j]] /\ \A j \in Id \ {i} : dirs'[j] = dirs[j]
        /\ dirs'[i] = [d \in DOMAIN dirs'[i] |-> dirs'[i][d]]
        /\ DOMAIN dirs'[i] = DOMAIN dirs[i]
        /\ \A d \in DOMAIN dirs[i] \ {v} : dirs'[i][d] = dirs[i][d]
        /\ v \in DOMAIN dirs'[i] =>
             /\ Directory(dirs'[i][v])
             /\ dirs'[i][v].manifest \in {dirs[i][v].manifest, Unsealed}
    BY <1>6, HalfDeletedIs
  <2> QED BY <1>2, <1>3, <1>6, <2>1, <2>2, LossRetains
<1> QED BY <1>3, <1>5, <1>6 DEF Fail

----------------------------------------------------------------------------
(* The theorem *)

LEMMA RetainedInit == Init => Retained
<1> SUFFICES ASSUME Init PROVE Retained
  OBVIOUS
<1>1. dirs = [i \in Id |-> dirs[i]] /\ taken = [i \in Id |-> taken[i]] /\ lock = [i \in Id |-> lock[i]]
  BY DEF Init
<1>2. \A w \in Worker : work[w].stage = "idle"
  BY DEF Init, Idle
<1>3. Locked /\ \A w \in Worker : Filled(w)
  BY <1>1, <1>2, LockOwners DEF Locked, Filled, Filling, Active, Begun
<1>4. ASSUME NEW i \in Id PROVE Completed(i) /\ Stored(i) /\ Safe(i)
  <2>1. taken[i] = {} /\ dirs[i] = <<>>
    BY DEF Init
  <2>2. DOMAIN dirs[i] = {} /\ dirs[i] = [d \in DOMAIN dirs[i] |-> dirs[i][d]]
    BY <2>1
  <2>3. Completed(i)
    BY <2>1, FS_EmptySet DEF Completed, Series
  <2>4. Stored(i)
    BY <2>2 DEF Stored, Listed, Listing
  <2>5. Safe(i)
    BY <2>1 DEF Safe, Promises
  <2> QED BY <2>3, <2>4, <2>5
<1> QED BY <1>1, <1>3, <1>4 DEF Retained

LEMMA NextRetains ==
  ASSUME Apart, Sound, Retained, [Next]_vars
  PROVE  Retained'
<1>1. ASSUME NEW i \in Id, Peek(i) \/ Request(i) \/ SetSchedule(i) PROVE Retained'
  BY <1>1, PeekRetains, RequestRetains, SetScheduleRetains
<1>2. CASE Acquire \/ Invoke \/ Walk \/ Tick
  BY <1>2, AcquireRetains, InvokeRetains, WalkRetains, TickRetains
<1>3. ASSUME NEW w \in Worker, Proceed(w) PROVE Retained'
  BY <1>3, CheckRetains, ReadStateRetains, WriteStateRetains, NumberRetains, FillRetains,
     SealRetains, PlanRetains, DeleteRetains DEF Proceed
<1>4. ASSUME NEW w \in Worker, Fail(w) \/ Crash(w) PROVE Retained'
  BY <1>4, FailRetains, CrashRetains
<1>5. CASE UNCHANGED vars
  BY <1>5, StutterRetains
<1> QED BY <1>1, <1>2, <1>3, <1>4, <1>5 DEF Next

\* Where cron is not used beside the console, every backup that the retention policy
\* promises is there, complete and as it was taken, whatever was pruned, failed, was
\* interrupted or rescheduled, and whatever backup, pruning or deletion is under way.
THEOREM PromisedStays ==
  ASSUME Apart
  PROVE  Spec => []RetentionKept
<1>1. Sole
  BY DEF Apart, Sole, Locking, Nightly
<1>2. Init => Sound /\ Retained
  BY SoundInit, RetainedInit
<1>3. Sound /\ Retained /\ [Next]_vars => (Sound /\ Retained)'
  BY <1>1, NextSound, NextRetains
<1>4. Retained => RetentionKept
  BY DEF Retained, Safe, Promises, Intact, RetentionKept
<1> QED BY <1>2, <1>3, <1>4, PTL DEF Spec


----------------------------------------------------------------------------
(* The type invariant *)

\* What Sound and Retained leave open of it.
Bounded == clock \in Time /\ lock \in [Id -> Locking \union {Free}]

LEMMA LockTyped ==
  ASSUME lock \in [Id -> Locking \union {Free}], NEW w \in Worker, Over(w)
  PROVE  lock' \in [Id -> Locking \union {Free}]
BY DEF Over

LEMMA BoundedNext ==
  ASSUME Bounded, [Next]_vars
  PROVE  Bounded'
<1>1. clock' \in Time
  <2>1. CASE Tick
    BY <2>1, BackupsAssumption DEF Tick, Bounded, Time
  <2>2. CASE UNCHANGED clock
    BY <2>2 DEF Bounded
  <2>3. ASSUME NEW w \in Worker, Proceed(w) \/ Fail(w) \/ Crash(w) PROVE UNCHANGED clock
    <3>1. CASE Check(w) \/ ReadState(w) \/ WriteState(w)
      BY <3>1 DEF Check, ReadState, WriteState
    <3>2. CASE Number(w) \/ Fill(w) \/ Seal(w)
      BY <3>2 DEF Number, Fill, Seal
    <3>3. CASE Plan(w) \/ Delete(w)
      BY <3>3 DEF Plan, Delete
    <3>4. CASE Fail(w) \/ Crash(w)
      BY <3>4 DEF Fail, Crash
    <3> QED BY <2>3, <3>1, <3>2, <3>3, <3>4 DEF Proceed
  <2>4. ASSUME NEW i \in Id, Peek(i) \/ Request(i) \/ SetSchedule(i) PROVE UNCHANGED clock
    BY <2>4 DEF Peek, Request, SetSchedule
  <2>5. CASE Acquire \/ Invoke \/ Walk
    <3>1. Acquire => UNCHANGED clock
      BY DEF Acquire
    <3>2. Invoke \/ Walk => UNCHANGED clock
      BY Zenon DEF Invoke, Walk
    <3> QED BY <2>2, <2>5, <3>1, <3>2
  <2>6. CASE UNCHANGED vars
    <3>1. UNCHANGED clock
      BY <2>6, Zenon DEF vars
    <3> QED BY <2>2, <3>1
  <2> QED BY <2>1, <2>2, <2>3, <2>4, <2>5, <2>6 DEF Next
<1>2. lock' \in [Id -> Locking \union {Free}]
  <2>1. CASE UNCHANGED lock
    BY <2>1 DEF Bounded
  <2>2. ASSUME NEW w \in Worker, Over(w) PROVE lock' \in [Id -> Locking \union {Free}]
    BY <2>2, LockTyped DEF Bounded
  <2>3. ASSUME NEW w \in Worker, Proceed(w) \/ Fail(w) PROVE UNCHANGED lock \/ Over(w)
    <3>1. CASE Check(w)
      BY <3>1 DEF Check
    <3>2. CASE ReadState(w) \/ WriteState(w) \/ Number(w) \/ Fill(w) \/ Plan(w)
      BY <3>2 DEF ReadState, WriteState, Number, Fill, Plan
    <3>3. CASE Seal(w)
      BY <3>3 DEF Seal
    <3>4. CASE Delete(w)
      BY <3>4 DEF Delete
    <3>5. CASE Fail(w)
      BY <3>5 DEF Fail
    <3> QED BY <2>3, <3>1, <3>2, <3>3, <3>4, <3>5 DEF Proceed
  <2>4. ASSUME NEW i \in Id, Peek(i) \/ Request(i) \/ SetSchedule(i)
        PROVE  lock' \in [Id -> Locking \union {Free}]
    BY <2>1, <2>4 DEF Peek, Request, SetSchedule, Bounded, Locking
  <2>5. ASSUME NEW w \in Worker, Crash(w) PROVE lock' \in [Id -> Locking \union {Free}]
    BY <2>5 DEF Crash, Bounded
  <2>6. CASE Acquire \/ Invoke \/ Walk \/ Tick
    <3>1. CASE Acquire
      BY <3>1 DEF Acquire, Bounded, Locking
    <3>2. CASE Invoke \/ Tick
      BY <2>1, <3>2 DEF Invoke, Tick
    <3>3. CASE Walk
      <4>1. UNCHANGED lock
        BY <3>3, Zenon DEF Walk
      <4> QED BY <2>1, <4>1
    <3> QED BY <2>6, <3>1, <3>2, <3>3
  <2>7. CASE UNCHANGED vars
    <3>1. UNCHANGED lock
      BY <2>7, Zenon DEF vars
    <3> QED BY <2>1, <3>1
  <2> QED BY <2>1, <2>2, <2>3, <2>4, <2>5, <2>6, <2>7 DEF Next
<1> QED BY <1>1, <1>2 DEF Bounded

\* Where cron is not used beside the console, the variables keep their types; workers that
\* are not in use stay idle, and sequence numbers never outgrow the number of backups begun.
THEOREM Typing ==
  ASSUME Apart
  PROVE  Spec => []TypeOK
<1>1. Sole
  BY DEF Apart, Sole, Locking, Nightly
<1>2. Init => Sound /\ Retained
  BY SoundInit, RetainedInit
<1>3. Init => Bounded
  BY BackupsAssumption DEF Init, Bounded, Time
<1>4. Sound /\ Retained /\ [Next]_vars => (Sound /\ Retained)'
  BY <1>1, NextSound, NextRetains
<1>5. Sound /\ Retained /\ Bounded => TypeOK
  <2> SUFFICES ASSUME Sound, Retained, Bounded PROVE TypeOK
    OBVIOUS
  <2>1. last \in [Id -> Time \union {Never}]
    <3>1. last \in [Id -> Nat] /\ (\A i \in Id : last[i] <= clock) /\ clock \in Time
      BY DEF Sound, Typed, Bounded
    <3>2. \A i \in Id : last[i] \in Time \union {Never}
      BY <3>1, BackupsAssumption DEF Time, Never
    <3> QED BY <3>1, <3>2
  <2>2. ASSUME NEW w \in Worker
        PROVE  work[w].stage \in Stages /\ (w \notin inUse => work[w] = Idle)
    BY DEF Sound, Working, Stands, Stages, Begun, Idle
  <2>3. \A i \in Id : \A d \in DOMAIN dirs[i] : d.seq \in 1..count.runs
    BY DEF Retained, Stored
  <2>4. clock \in Time /\ lock \in [Id -> Locking \union {Free}]
    BY DEF Bounded
  <2>5. policy \in [Id -> [enabled : BOOLEAN, time : 0..(PerDay - 1)]]
    BY DEF Sound, Typed
  <2> QED BY <2>1, <2>2, <2>3, <2>4, <2>5 DEF TypeOK
<1> QED BY <1>2, <1>3, <1>4, <1>5, BoundedNext, PTL DEF Spec

=============================================================================
