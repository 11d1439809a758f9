----------------------------- MODULE ServerProofs ------------------------------
(****************************************************************************)
(* Theorems about Server, for any instances, modes and bounds.  The safety  *)
(* of the server rests on one inductive invariant, Sound: what is known of  *)
(* the shared files and containers at each place of each operation.  Each   *)
(* action disturbs few of its parts; Respects and PurgeRespects say what an *)
(* operation that goes on must leave alone, and a lemma for each action     *)
(* shows that it does.                                                      *)
(****************************************************************************)
EXTENDS Server, TLAPS

----------------------------------------------------------------------------
(* Where each step stands in its operation *)

LEMMA LengthsAre ==
  /\ Len(Steps["create"]) = 12 /\ Len(Steps["enable"]) = 4 /\ Len(Steps["disable"]) = 3
  /\ Len(Steps["delete"]) = 4 /\ Len(Steps["init"]) = 5 /\ Len(Steps["start"]) = 2
  /\ Len(Steps["purge"]) = 9
BY DEF Steps, InitSteps, InstallSteps

LEMMA CreateSteps ==
  /\ Steps["create"][1] = "status" /\ Steps["create"][2] = "assess"
  /\ Steps["create"][3] = "proxyfile" /\ Steps["create"][4] = "keep"
  /\ Steps["create"][5] = "rewrite" /\ Steps["create"][6] = "proxy"
  /\ Steps["create"][7] = "reproxy" /\ Steps["create"][8] = "secrets"
  /\ Steps["create"][9] = "manifest" /\ Steps["create"][10] = "look"
  /\ Steps["create"][11] = "register" /\ Steps["create"][12] = "up"
BY DEF Steps, InitSteps, InstallSteps

LEMMA OtherSteps ==
  /\ Steps["enable"] = <<"plan", "reproxy", "up", "mark">>
  /\ Steps["disable"] = <<"plan", "stop", "mark">>
  /\ Steps["delete"] = <<"plan", "down", "rmdir", "mark">>
  /\ Steps["init"] = <<"assess", "proxyfile", "keep", "rewrite", "proxy">>
  /\ Steps["start"] = <<"choose", "reproxy">>
  /\ Steps["purge"] = <<"list", "sweep", "down", "rmdir", "mark",
               "dropproxy", "dropnetwork", "forget", "dropdirs">>
BY DEF Steps, InitSteps, InstallSteps

----------------------------------------------------------------------------
(* Types, and who does what *)

OnInstance == {"create", "enable", "disable", "delete"}
OfShell == {"init", "start", "purge"}

\* An instance's worker runs the operations on that instance, the shell those of the server.
KindsOK ==
  /\ \A i \in Id :
       /\ task[i].kind \in {"none"} \union OnInstance
       /\ Running(i) => task[i].on = i /\ task[i].mode = Mode[i]
  /\ task[Shell].kind \in {"none"} \union OfShell
  /\ \A k \in Worker : Running(k) => task[k].at \in 1..Len(Steps[task[k].kind])
  /\ Purging /\ task[Shell].at \in 3..5 => task[Shell].on \in Id

Typed == TypeOK /\ KindsOK

LEMMA KindsAre == DOMAIN Steps = OnInstance \union OfShell
BY DEF Steps, OnInstance, OfShell

\* The operation and the place of worker k tell its step.
Does(k, kind, place) == task[k].kind = kind /\ task[k].at = place

LEMMA StepOf ==
  ASSUME Typed, NEW k \in Worker, NEW step, At(k, step)
  PROVE  \/ /\ k \in Id
            /\ \/ step = "status" /\ Does(k, "create", 1)
               \/ step = "assess" /\ Does(k, "create", 2)
               \/ step = "proxyfile" /\ Does(k, "create", 3)
               \/ step = "keep" /\ Does(k, "create", 4)
               \/ step = "rewrite" /\ Does(k, "create", 5)
               \/ step = "proxy" /\ Does(k, "create", 6)
               \/ step = "reproxy" /\ (Does(k, "create", 7) \/ Does(k, "enable", 2))
               \/ step = "secrets" /\ Does(k, "create", 8)
               \/ step = "manifest" /\ Does(k, "create", 9)
               \/ step = "look" /\ Does(k, "create", 10)
               \/ step = "register" /\ Does(k, "create", 11)
               \/ step = "up" /\ (Does(k, "create", 12) \/ Does(k, "enable", 3))
               \/ /\ step = "plan"
                  /\ Does(k, "enable", 1) \/ Does(k, "disable", 1) \/ Does(k, "delete", 1)
               \/ step = "stop" /\ Does(k, "disable", 2)
               \/ step = "down" /\ Does(k, "delete", 2)
               \/ step = "rmdir" /\ Does(k, "delete", 3)
               \/ /\ step = "mark"
                  /\ Does(k, "enable", 4) \/ Does(k, "disable", 3) \/ Does(k, "delete", 4)
         \/ /\ k = Shell
            /\ \/ step = "assess" /\ Does(k, "init", 1)
               \/ step = "proxyfile" /\ Does(k, "init", 2)
               \/ step = "keep" /\ Does(k, "init", 3)
               \/ step = "rewrite" /\ Does(k, "init", 4)
               \/ step = "proxy" /\ Does(k, "init", 5)
               \/ step = "choose" /\ Does(k, "start", 1)
               \/ step = "reproxy" /\ Does(k, "start", 2)
               \/ step = "list" /\ Does(k, "purge", 1)
               \/ step = "sweep" /\ Does(k, "purge", 2)
               \/ step = "down" /\ Does(k, "purge", 3)
               \/ step = "rmdir" /\ Does(k, "purge", 4)
               \/ step = "mark" /\ Does(k, "purge", 5)
               \/ step = "dropproxy" /\ Does(k, "purge", 6)
               \/ step = "dropnetwork" /\ Does(k, "purge", 7)
               \/ step = "forget" /\ Does(k, "purge", 8)
               \/ step = "dropdirs" /\ Does(k, "purge", 9)
<1> DEFINE at == task[k].at
<1>1. /\ Running(k) /\ at \in 1..Len(Steps[task[k].kind])
      /\ step = Steps[task[k].kind][at]
  BY DEF At, Typed, KindsOK
<1>2. /\ k \in Id => task[k].kind \in OnInstance
      /\ k = Shell => task[k].kind \in OfShell
      /\ k \in Id \/ k = Shell
  BY <1>1 DEF Typed, KindsOK, Running, Worker
<1>3. CASE task[k].kind = "create"
  <2>1. k \in Id
    BY <1>2, <1>3 DEF OfShell
  <2>2. at \in 1..12
    BY <1>1, <1>3, LengthsAre
  <2>3. \/ at = 1 \/ at = 2 \/ at = 3 \/ at = 4 \/ at = 5 \/ at = 6
        \/ at = 7 \/ at = 8 \/ at = 9 \/ at = 10 \/ at = 11 \/ at = 12
    BY <2>2
  <2>4. /\ step = Steps["create"][at]
        /\ \A n \in 1..12 : at = n => Does(k, "create", n)
    BY <1>1, <1>3 DEF Does
  <2> HIDE DEF at
  <2>5. CASE at = 1 \/ at = 2 \/ at = 3 \/ at = 4 \/ at = 5 \/ at = 6
    BY <2>1, <2>4, <2>5, CreateSteps
  <2>6. CASE at = 7 \/ at = 8 \/ at = 9 \/ at = 10 \/ at = 11 \/ at = 12
    BY <2>1, <2>4, <2>6, CreateSteps
  <2> QED BY <2>3, <2>5, <2>6
<1>4. CASE task[k].kind \in {"enable", "disable", "delete"}
  <2>1. k \in Id
    BY <1>2, <1>4 DEF OfShell
  <2>2. at \in 1..(IF task[k].kind = "disable" THEN 3 ELSE 4)
    BY <1>1, <1>4, LengthsAre
  <2>3. at = 1 \/ at = 2 \/ at = 3 \/ at = 4
    BY <2>2
  <2> QED BY <1>1, <1>4, <2>1, <2>2, <2>3, OtherSteps DEF Does
<1>5. CASE task[k].kind \in {"init", "start"}
  <2>1. k = Shell
    BY <1>2, <1>5 DEF OnInstance
  <2>2. at \in 1..(IF task[k].kind = "init" THEN 5 ELSE 2)
    BY <1>1, <1>5, LengthsAre
  <2>3. at = 1 \/ at = 2 \/ at = 3 \/ at = 4 \/ at = 5
    BY <2>2
  <2> QED BY <1>1, <1>5, <2>1, <2>2, <2>3, OtherSteps DEF Does
<1>6. CASE task[k].kind = "purge"
  <2>1. k = Shell
    BY <1>2, <1>6 DEF OnInstance
  <2>2. at \in 1..9
    BY <1>1, <1>6, LengthsAre
  <2>3. \/ at = 1 \/ at = 2 \/ at = 3 \/ at = 4 \/ at = 5 \/ at = 6
        \/ at = 7 \/ at = 8 \/ at = 9
    BY <2>2
  <2> QED BY <1>1, <1>6, <2>1, <2>3, OtherSteps DEF Does
<1> QED BY <1>2, <1>3, <1>4, <1>5, <1>6 DEF OnInstance, OfShell

LEMMA PlacesAre ==
  /\ Place("create", "reproxy") = 7
  /\ Place("purge", "sweep") = 2 /\ Place("purge", "down") = 3
  /\ Place("purge", "rmdir") = 4 /\ Place("purge", "mark") = 5
  /\ Place("purge", "dropproxy") = 6
<1>1. DOMAIN Steps["create"] = 1..12 /\ DOMAIN Steps["purge"] = 1..9
  BY LengthsAre, OtherSteps DEF Steps, InitSteps, InstallSteps
<1>2. ASSUME NEW n \in 1..12, Steps["create"][n] = "reproxy" PROVE n = 7
  <2>1. \/ n = 1 \/ n = 2 \/ n = 3 \/ n = 4 \/ n = 5 \/ n = 6
        \/ n = 7 \/ n = 8 \/ n = 9 \/ n = 10 \/ n = 11 \/ n = 12
    OBVIOUS
  <2> QED BY <1>2, <2>1, CreateSteps
<1>3. ASSUME NEW n \in 1..9
      PROVE  /\ Steps["purge"][n] = "sweep" => n = 2
             /\ Steps["purge"][n] = "down" => n = 3
             /\ Steps["purge"][n] = "rmdir" => n = 4
             /\ Steps["purge"][n] = "mark" => n = 5
             /\ Steps["purge"][n] = "dropproxy" => n = 6
  <2>1. \/ n = 1 \/ n = 2 \/ n = 3 \/ n = 4 \/ n = 5 \/ n = 6
        \/ n = 7 \/ n = 8 \/ n = 9
    OBVIOUS
  <2> QED BY <2>1, OtherSteps
<1>4. /\ Steps["create"][7] = "reproxy"
      /\ Steps["purge"][2] = "sweep" /\ Steps["purge"][3] = "down"
      /\ Steps["purge"][4] = "rmdir" /\ Steps["purge"][5] = "mark"
      /\ Steps["purge"][6] = "dropproxy"
  BY CreateSteps, OtherSteps
<1>5. Place("create", "reproxy") = 7
  BY <1>1, <1>2, <1>4 DEF Place
<1>6. Place("purge", "sweep") = 2 /\ Place("purge", "down") = 3
  BY <1>1, <1>3, <1>4 DEF Place
<1>7. /\ Place("purge", "rmdir") = 4 /\ Place("purge", "mark") = 5
      /\ Place("purge", "dropproxy") = 6
  BY <1>1, <1>3, <1>4 DEF Place
<1> QED BY <1>5, <1>6, <1>7

----------------------------------------------------------------------------
(* How a worker moves *)

Others(k) ==
  /\ task' = [w \in Worker |-> task'[w]]
  /\ \A w \in Worker \ {k} : task'[w] = task[w]

Stops(k) == Others(k) /\ task'[k] = Idle

\* t is the same operation as s: only what it has read and its place may differ.
Same(s, t) ==
  /\ t.kind = s.kind /\ t.on = s.on /\ t.mode = s.mode /\ t.todo = s.todo
  /\ t.left = s.left /\ t.ok = s.ok /\ t.all = s.all

Last(k) == Len(Steps[task[k].kind])

LEMMA IdleIs ==
  /\ Idle \in Task
  /\ Idle.kind = "none" /\ Idle.on = Shell /\ Idle.at = 0 /\ Idle.ok = TRUE
BY DEF Idle, Task, Worker, NoEntries

LEMMA LastIs ==
  ASSUME Typed, NEW k \in Worker, Running(k)
  PROVE  /\ task[k] \in Task /\ task[k].at \in 1..Last(k) /\ Last(k) \in 1..12
         /\ task[k].kind \in OnInstance \union OfShell
<1>1. task[k] \in Task /\ task[k].at \in 1..Last(k)
  BY DEF Typed, TypeOK, KindsOK, Last
<1>2. task[k].kind \in OnInstance \union OfShell
  BY <1>1, KindsAre DEF Task, Running
<1> QED BY <1>1, <1>2, LengthsAre DEF Last, OnInstance, OfShell

LEMMA Goes ==
  ASSUME Typed, NEW k \in Worker, NEW t \in Task, t.kind = task[k].kind, Running(k),
         NEW p \in 1..12, p <= Last(k), GoTo(k, t, p)
  PROVE  /\ Others(k) /\ task'[k] \in Task /\ task'[k].at = p /\ Same(t, task'[k])
         /\ task'[k].seen = t.seen /\ task'[k].import = t.import
         /\ served' = served /\ purged' = FALSE /\ UNCHANGED <<foreign, count>>
<1>0. ~(p > Len(Steps[t.kind]))
  BY LastIs DEF Last
<1>1. task' = [task EXCEPT ![k] = [t EXCEPT !.at = p]]
  BY <1>0 DEF GoTo
<1>2. task \in [Worker -> Task] /\ [t EXCEPT !.at = p] \in Task
  BY DEF Typed, TypeOK, Task
<1>3. Others(k) /\ task'[k] = [t EXCEPT !.at = p]
  BY <1>1, <1>2 DEF Others
<1>4. served' = served /\ purged' = FALSE /\ UNCHANGED <<foreign, count>>
  BY <1>0 DEF GoTo
<1> DEFINE u == [t EXCEPT !.at = p]
<1>5. /\ u.at = p /\ u.kind = t.kind /\ u.on = t.on /\ u.mode = t.mode /\ u.todo = t.todo
      /\ u.left = t.left /\ u.ok = t.ok /\ u.all = t.all /\ u.seen = t.seen
      /\ u.import = t.import
  BY DEF Task
<1> HIDE DEF u
<1> QED BY <1>2, <1>3, <1>4, <1>5 DEF Same, u

LEMMA Ends ==
  ASSUME Typed, NEW k \in Worker, NEW t \in Task, t.kind = task[k].kind, Running(k),
         GoTo(k, t, Last(k) + 1)
  PROVE  /\ Stops(k) /\ UNCHANGED <<foreign, count>>
         /\ served' = IF t.kind \in {"create", "enable"} /\ t.ok
                      THEN served \union {t.on} ELSE served
         /\ purged' = (t.kind = "purge" /\ t.ok /\ (t.all \/ t.left = {}))
<1>0. Last(k) + 1 > Len(Steps[t.kind])
  BY LastIs DEF Last
<1>1. task' = [task EXCEPT ![k] = Idle]
  BY <1>0 DEF GoTo
<1>2. task \in [Worker -> Task]
  BY DEF Typed, TypeOK
<1>3. Stops(k)
  BY <1>1, <1>2 DEF Others, Stops
<1>4. /\ served' = IF t.kind \in {"create", "enable"} /\ t.ok
                   THEN served \union {t.on} ELSE served
      /\ purged' = (t.kind = "purge" /\ t.ok /\ (t.all \/ t.left = {}))
      /\ UNCHANGED <<foreign, count>>
  BY <1>0 DEF GoTo
<1> QED BY <1>3, <1>4

\* One place on.
Advances(k) ==
  /\ task[k].at < Last(k) /\ task'[k].at = task[k].at + 1
  /\ Others(k) /\ task'[k] \in Task /\ Same(task[k], task'[k])
  /\ served' = served /\ purged' = FALSE

\* Past the last place.
Finishes(k) ==
  /\ task[k].at = Last(k) /\ Stops(k)
  /\ served' = IF task[k].kind \in {"create", "enable"} /\ task[k].ok
               THEN served \union {task[k].on} ELSE served
  /\ purged' = (task[k].kind = "purge" /\ task[k].ok /\ (task[k].all \/ task[k].left = {}))

LEMMA Proceeds ==
  ASSUME Typed, NEW k \in Worker, NEW t \in Task, Same(task[k], t), t.at = task[k].at,
         Running(k), Proceed(k, t)
  PROVE  /\ UNCHANGED <<foreign, count>>
         /\ (Advances(k) /\ task'[k].seen = t.seen) \/ Finishes(k)
<1>1. GoTo(k, t, task[k].at + 1) /\ task[k].at \in 1..Last(k) /\ Last(k) \in 1..12
  BY LastIs DEF Proceed
<1>2. CASE task[k].at < Last(k)
  <2>1. task[k].at + 1 \in 1..12 /\ task[k].at + 1 <= Last(k)
    BY <1>1, <1>2
  <2> QED BY <1>1, <1>2, <2>1, Goes DEF Same, Advances
<1>3. CASE task[k].at = Last(k)
  BY <1>1, <1>3, Ends DEF Same, Finishes
<1>4. task[k].at < Last(k) \/ task[k].at = Last(k)
  BY <1>1
<1>5. UNCHANGED <<foreign, count>>
  BY <1>1 DEF GoTo
<1> QED BY <1>2, <1>3, <1>4, <1>5

\* A purge that notes an error.
Notes(k) ==
  /\ task[k].kind = "purge" /\ Others(k) /\ task'[k] \in Task
  /\ task'[k].kind = "purge" /\ task'[k].ok = FALSE
  /\ task'[k].at = IF task[k].at \in 3..5 THEN 2 ELSE task[k].at + 1
  /\ task[k].at \in 3..7

LEMMA GivesUp ==
  ASSUME Typed, NEW k \in Worker, Running(k), GiveUp(k),
         task[k].kind = "purge" => task[k].at \in 3..7
  PROVE  /\ UNCHANGED <<foreign, count>> /\ served' = served
         /\ \/ Stops(k) /\ task[k].kind # "purge" /\ purged' = purged
            \/ Notes(k) /\ purged' = FALSE
<1> DEFINE t == [task[k] EXCEPT !.ok = FALSE]
<1>1. /\ task[k] \in Task /\ task[k].at \in 1..Last(k) /\ Last(k) \in 1..12
      /\ task \in [Worker -> Task]
  BY LastIs DEF Typed, TypeOK
<1>2. /\ t \in Task /\ t.kind = task[k].kind /\ t.at = task[k].at /\ t.ok = FALSE
  BY <1>1 DEF Task
<1>3. CASE t.kind = "purge"
  <2> DEFINE p == IF t.at \in 3..5 THEN 2 ELSE t.at + 1
  <2>1. Last(k) = 9 /\ task[k].at \in 3..7
    BY <1>2, <1>3, LengthsAre DEF Last
  <2>2. GoTo(k, t, p)
    <3>1. {Place("purge", s) : s \in {"down", "rmdir", "mark"}} = 3..5
      BY PlacesAre
    <3> QED BY <1>3, <3>1, PlacesAre DEF GiveUp, Proceed
  <2> HIDE DEF t
  <2>3. p \in 1..12 /\ p <= Last(k)
    BY <1>2, <2>1
  <2>4. p = IF task[k].at \in 3..5 THEN 2 ELSE task[k].at + 1
    BY <1>2
  <2> HIDE DEF p
  <2>5. /\ Others(k) /\ task'[k] \in Task /\ task'[k].at = p /\ Same(t, task'[k])
        /\ served' = served /\ purged' = FALSE /\ UNCHANGED <<foreign, count>>
    BY <1>2, <2>2, <2>3, Goes
  <2> QED BY <1>2, <1>3, <2>1, <2>4, <2>5 DEF Notes, Same
<1>4. CASE t.kind # "purge"
  <2>1. task' = [task EXCEPT ![k] = Idle] /\ UNCHANGED <<foreign, count, served, purged>>
    BY <1>4 DEF GiveUp
  <2> QED BY <1>1, <1>2, <1>4, <2>1 DEF Stops, Others
<1> QED BY <1>3, <1>4

\* Whatever worker k does next, it stays at its operation or is done with it.
Moves(k) ==
  /\ Others(k) /\ Running(k) /\ task'[k] \in Task
  /\ \/ task'[k] = Idle
     \/ /\ task'[k].kind = task[k].kind /\ task'[k].at \in 1..Last(k)
        /\ k \in Id => task'[k].on = task[k].on /\ task'[k].mode = task[k].mode
        /\ task'[k].kind = "purge" /\ task'[k].at \in 3..5 => task'[k].on \in Id

LEMMA KindsMove ==
  ASSUME Typed, NEW k \in Worker, Moves(k)
  PROVE  KindsOK' /\ task' \in [Worker -> Task]
<1>1. task' \in [Worker -> Task]
  BY DEF Moves, Others, Typed, TypeOK
<1>2. ASSUME NEW w \in Worker
      PROVE  /\ w \in Id => /\ task'[w].kind \in {"none"} \union OnInstance
                            /\ Running(w)' => task'[w].on = w /\ task'[w].mode = Mode[w]
             /\ w = Shell => task'[w].kind \in {"none"} \union OfShell
             /\ Running(w)' => task'[w].at \in 1..Len(Steps[task'[w].kind])
             /\ w = Shell /\ task'[w].kind = "purge" /\ task'[w].at \in 3..5 => task'[w].on \in Id
  <2>1. CASE w # k
    BY <2>1 DEF Moves, Others, Typed, KindsOK, Running, Purging
  <2>2. CASE w = k /\ task'[k] = Idle
    BY <2>2, IdleIs DEF Running
  <2>3. CASE w = k /\ task'[k] # Idle
    BY <2>3 DEF Moves, Typed, KindsOK, Running, Purging, Last
  <2> QED BY <2>1, <2>2, <2>3
<1> QED BY <1>1, <1>2 DEF KindsOK, Worker, Purging

LEMMA AdvanceMoves ==
  ASSUME Typed, NEW k \in Worker, Running(k),
         \/ Stops(k)
         \/ Advances(k) /\ ~Does(k, "purge", 2)
         \/ Notes(k)
  PROVE  Moves(k)
<1>1. /\ task[k] \in Task /\ task[k].at \in 1..Last(k) /\ Last(k) \in 1..12
      /\ task[k].kind = "purge" => k = Shell /\ Last(k) = 9
  BY LastIs, LengthsAre DEF Typed, KindsOK, Last, OnInstance, Worker
<1>2. CASE Stops(k)
  BY <1>2, IdleIs DEF Stops, Moves
<1>3. CASE Advances(k) /\ ~Does(k, "purge", 2)
  <2>1. task'[k].at \in 1..Last(k)
    BY <1>1, <1>3 DEF Advances
  <2>2. task'[k].kind = "purge" /\ task'[k].at \in 3..5 => task'[k].on \in Id
    <3> SUFFICES ASSUME task'[k].kind = "purge", task'[k].at \in 3..5
                 PROVE  task'[k].on \in Id
      OBVIOUS
    <3>1. /\ task[k].kind = "purge" /\ k = Shell /\ task'[k].on = task[k].on
          /\ task[k].at # 2 /\ task'[k].at = task[k].at + 1
      BY <1>1, <1>3 DEF Advances, Same, Does
    <3>2. task[k].at \in 3..5
      BY <1>1, <3>1
    <3> QED BY <3>1, <3>2 DEF Typed, KindsOK, Purging
  <2> QED BY <1>3, <2>1, <2>2 DEF Advances, Moves, Same
<1>4. CASE Notes(k)
  <2>1. task'[k].at \in 1..Last(k) /\ task'[k].at \notin 3..5
    <3>1. task[k].at \in 3..7 /\ Last(k) = 9
      BY <1>1, <1>4 DEF Notes
    <3>2. CASE task[k].at \in 3..5
      BY <1>4, <3>1, <3>2 DEF Notes
    <3>3. CASE task[k].at \notin 3..5
      BY <1>4, <3>1, <3>3 DEF Notes
    <3> QED BY <3>2, <3>3
  <2> QED BY <1>1, <1>4, <2>1, ServerAssumption DEF Notes, Moves
<1> QED BY <1>2, <1>3, <1>4

----------------------------------------------------------------------------
(* The steps, by how they move *)

LEMMA RunningIs ==
  ASSUME Typed, NEW k \in Worker, NEW step, At(k, step)
  PROVE  Running(k) /\ task[k] \in Task
BY LastIs DEF At

\* Most steps go on, with or without a look at the inventory.
LEMMA PlainSteps ==
  ASSUME Typed, NEW k \in Worker,
         \/ Assess(k) \/ WriteProxyFile(k) \/ StartNewProxy(k) \/ ensureProxyRunning(k)
         \/ WriteFiles(k) \/ Compose(k) \/ RemoveDir(k)
         \/ k = Shell /\ (DropProxy \/ DropNetwork \/ Forget \/ DropDirs)
  PROVE  Running(k) /\ (Advances(k) \/ Finishes(k)) /\ UNCHANGED <<foreign, count>>
<1>1. Running(k) /\ task[k] \in Task
  BY RunningIs DEF Assess, WriteProxyFile, StartNewProxy, ensureProxyRunning, WriteFiles,
    Compose, RemoveDir, DropProxy, DropNetwork, Forget, DropDirs
<1>2. Proceed(k, task[k])
  BY DEF Assess, WriteProxyFile, StartNewProxy, ensureProxyRunning, WriteFiles,
    Compose, RemoveDir, DropProxy, DropNetwork, Forget, DropDirs
<1> QED BY <1>1, <1>2, Proceeds DEF Same

LEMMA SeenIs ==
  ASSUME NEW r \in Task, NEW entries \in [Id -> {"unlisted", "active", "disabled"}]
  PROVE  LET t == [r EXCEPT !.seen = entries]
         IN  t \in Task /\ Same(r, t) /\ t.at = r.at /\ t.seen = entries
BY DEF Task, Same

LEMMA ReadingSteps ==
  ASSUME Typed, NEW k \in Worker, KeepEntries(k) \/ ReadInventory(k) \/ RewriteInventory(k)
  PROVE  /\ Running(k) /\ UNCHANGED <<foreign, count>>
         /\ \/ Finishes(k)
            \/ Advances(k) /\ (RewriteInventory(k) \/ task'[k].seen = inventory.entries)
<1>1. Running(k) /\ task[k] \in Task
  BY RunningIs DEF KeepEntries, ReadInventory, RewriteInventory
<1>2. /\ inventory.entries \in [Id -> {"unlisted", "active", "disabled"}]
      /\ NoEntries \in [Id -> {"unlisted", "active", "disabled"}]
  BY DEF Typed, TypeOK, NoEntries
<1>3. CASE KeepEntries(k) \/ ReadInventory(k)
  <2> DEFINE t == [task[k] EXCEPT !.seen = inventory.entries]
  <2>1. Proceed(k, t)
    BY <1>3 DEF KeepEntries, ReadInventory
  <2>2. t \in Task /\ Same(task[k], t) /\ t.at = task[k].at /\ t.seen = inventory.entries
    BY <1>1, <1>2, SeenIs
  <2> HIDE DEF t
  <2> QED BY <1>1, <2>1, <2>2, Proceeds
<1>4. CASE RewriteInventory(k)
  <2> DEFINE t == [task[k] EXCEPT !.seen = NoEntries]
  <2>1. Proceed(k, t)
    BY <1>4 DEF RewriteInventory
  <2>2. t \in Task /\ Same(task[k], t) /\ t.at = task[k].at
    BY <1>1, <1>2, SeenIs
  <2> HIDE DEF t
  <2> QED BY <1>1, <1>4, <2>1, <2>2, Proceeds
<1> QED BY <1>3, <1>4

\* The steps that go elsewhere, or change more of their task.
LEMMA StatusStep ==
  ASSUME Typed, NEW k \in Worker, ReadStatus(k)
  PROVE  /\ Does(k, "create", 1) /\ k \in Id /\ Moves(k) /\ Same(task[k], task'[k])
         /\ task'[k].at = IF inventory.there THEN 7 ELSE 2
         /\ UNCHANGED <<foreign, count, served>> /\ purged' = FALSE
<1>1. Does(k, "create", 1) /\ k \in Id
  BY StepOf DEF ReadStatus
<1>2. Running(k) /\ task[k] \in Task /\ Last(k) = 12 /\ task[k].kind = "create"
  BY <1>1, RunningIs, LengthsAre DEF ReadStatus, Last, Does
<1> DEFINE p == IF inventory.there THEN 7 ELSE 2
<1>3. GoTo(k, task[k], p)
  BY PlacesAre DEF ReadStatus
<1>4. p \in 1..12 /\ p <= Last(k)
  BY <1>2
<1> HIDE DEF p
<1>5. /\ Others(k) /\ task'[k] \in Task /\ task'[k].at = p /\ Same(task[k], task'[k])
      /\ served' = served /\ purged' = FALSE /\ UNCHANGED <<foreign, count>>
  BY <1>2, <1>3, <1>4, Goes
<1>6. Moves(k)
  BY <1>1, <1>2, <1>4, <1>5 DEF Moves, Same
<1> QED BY <1>1, <1>5, <1>6 DEF p

LEMMA EntryStep ==
  ASSUME Typed, NEW k \in Worker, WriteEntry(k)
  PROVE  /\ UNCHANGED <<foreign, count>> /\ Running(k)
         /\ \/ /\ k # Shell /\ (Advances(k) \/ Finishes(k))
            \/ /\ k = Shell /\ Does(k, "purge", 5) /\ Moves(k) /\ Same(task[k], task'[k])
               /\ task'[k].at = 2 /\ served' = served /\ purged' = FALSE
<1>1. Running(k) /\ task[k] \in Task
  BY RunningIs DEF WriteEntry
<1>2. CASE task[k].kind = "purge"
  <2>1. Does(k, "purge", 5) /\ k = Shell
    BY <1>2, StepOf DEF WriteEntry, Does
  <2>2. Last(k) = 9
    BY <1>2, LengthsAre DEF Last
  <2>3. GoTo(k, task[k], 2)
    BY <1>2, PlacesAre DEF WriteEntry
  <2>4. 2 \in 1..12 /\ 2 <= Last(k)
    BY <2>2
  <2>5. /\ Others(k) /\ task'[k] \in Task /\ task'[k].at = 2 /\ Same(task[k], task'[k])
        /\ served' = served /\ purged' = FALSE /\ UNCHANGED <<foreign, count>>
    BY <1>1, <2>3, <2>4, Goes
  <2>6. Moves(k)
    BY <1>1, <1>2, <2>1, <2>4, <2>5, ServerAssumption DEF Moves, Same
  <2> QED BY <1>1, <2>1, <2>5, <2>6
<1>3. CASE task[k].kind # "purge"
  <2> DEFINE t == [task[k] EXCEPT !.seen = NoEntries]
  <2>1. Proceed(k, t)
    BY <1>3 DEF WriteEntry
  <2>2. t \in Task /\ Same(task[k], t) /\ t.at = task[k].at
    BY <1>1, SeenIs DEF NoEntries
  <2> HIDE DEF t
  <2>3. k # Shell
    <3>1. CASE At(k, "register")
      BY <1>3, <3>1, StepOf, ServerAssumption DEF Does
    <3>2. CASE At(k, "mark")
      BY <1>3, <3>2, StepOf, ServerAssumption DEF Does
    <3> QED BY <3>1, <3>2 DEF WriteEntry
  <2> QED BY <1>1, <2>1, <2>2, <2>3, Proceeds
<1> QED BY <1>2, <1>3

LEMMA ChooseStep ==
  ASSUME Typed, ChooseMode
  PROVE  /\ Does(Shell, "start", 1) /\ Moves(Shell) /\ task'[Shell].at = 2
         /\ UNCHANGED <<foreign, count, served>> /\ purged' = FALSE
<1> DEFINE production == \E i \in Id : Listed(i) /\ files[i] = "whole" /\ Mode[i] = "production"
           mode == IF production THEN "production" ELSE "local"
           t == [task[Shell] EXCEPT !.mode = mode]
<1>1. Does(Shell, "start", 1) /\ Running(Shell) /\ task[Shell] \in Task /\ Shell \in Worker
  BY StepOf, RunningIs, ServerAssumption DEF ChooseMode, Worker
<1>2. Last(Shell) = 2
  BY <1>1, LengthsAre DEF Last, Does
<1>3. Proceed(Shell, t)
  BY DEF ChooseMode
<1>4. mode \in {"production", "local"}
  OBVIOUS
<1> HIDE DEF mode
<1>5. t \in Task /\ t.kind = task[Shell].kind /\ t.at = task[Shell].at
  BY <1>1, <1>4 DEF Task
<1> HIDE DEF t
<1>6. GoTo(Shell, t, 2) /\ 2 \in 1..12 /\ 2 <= Last(Shell)
  BY <1>1, <1>2, <1>3, <1>5 DEF Proceed, Does
<1>7. /\ Others(Shell) /\ task'[Shell] \in Task /\ task'[Shell].at = 2
      /\ task'[Shell].kind = "start"
      /\ served' = served /\ purged' = FALSE /\ UNCHANGED <<foreign, count>>
  BY <1>1, <1>5, <1>6, Goes DEF Same, Does
<1> QED BY <1>1, <1>2, <1>7, ServerAssumption DEF Moves, Does

LEMMA ListStep ==
  ASSUME Typed, ListInstances
  PROVE  /\ Does(Shell, "purge", 1) /\ Moves(Shell) /\ task'[Shell].at = 2
         /\ task'[Shell].kind = "purge" /\ task'[Shell].ok = task[Shell].ok
         /\ task'[Shell].todo = {i \in Id : Listed(i)}
         /\ task'[Shell].left = {i \in Dirs : ~Listed(i)}
         /\ UNCHANGED <<foreign, count, served>> /\ purged' = FALSE
<1> DEFINE todo == {i \in Id : Listed(i)}
           left == {i \in Dirs : ~Listed(i)}
           t == [task[Shell] EXCEPT !.todo = todo, !.left = left]
<1>1. Does(Shell, "purge", 1) /\ Running(Shell) /\ task[Shell] \in Task /\ Shell \in Worker
  BY StepOf, RunningIs, ServerAssumption DEF ListInstances, Worker
<1>2. Last(Shell) = 9
  BY <1>1, LengthsAre DEF Last, Does
<1>3. Proceed(Shell, t)
  BY DEF ListInstances
<1>4. todo \in SUBSET Id /\ left \in SUBSET Id
  BY DEF Dirs
<1> HIDE DEF todo, left
<1>5. /\ t \in Task /\ t.kind = task[Shell].kind /\ t.at = task[Shell].at
      /\ t.ok = task[Shell].ok /\ t.todo = todo /\ t.left = left
  BY <1>1, <1>4 DEF Task
<1> HIDE DEF t
<1>6. GoTo(Shell, t, 2) /\ 2 \in 1..12 /\ 2 <= Last(Shell)
  BY <1>1, <1>2, <1>3, <1>5 DEF Proceed, Does
<1>7. /\ Others(Shell) /\ task'[Shell] \in Task /\ task'[Shell].at = 2 /\ Same(t, task'[Shell])
      /\ served' = served /\ purged' = FALSE /\ UNCHANGED <<foreign, count>>
  BY <1>1, <1>5, <1>6, Goes DEF Does
<1>8. Moves(Shell)
  BY <1>1, <1>2, <1>5, <1>7, ServerAssumption DEF Moves, Does, Same
<1> QED BY <1>1, <1>5, <1>7, <1>8 DEF todo, left, Same, Does

\* A sweep goes to the next instance, past one that is gone, or on.
LEMMA SweepStep ==
  ASSUME Typed, Sweep
  PROVE  /\ Does(Shell, "purge", 2) /\ Moves(Shell) /\ task'[Shell].kind = "purge"
         /\ task'[Shell].left = task[Shell].left
         /\ UNCHANGED <<foreign, count, served>> /\ purged' = FALSE
         /\ \/ /\ task[Shell].todo = {} /\ task'[Shell].at = 6
               /\ task'[Shell].ok = task[Shell].ok
            \/ \E i \in task[Shell].todo :
                 /\ task'[Shell].todo = task[Shell].todo \ {i}
                 /\ task'[Shell].on = i /\ i \in Id
                 /\ \/ /\ Listed(i) /\ task'[Shell].at = 3
                       /\ task'[Shell].ok = task[Shell].ok
                    \/ task'[Shell].at = 2 /\ task'[Shell].ok = FALSE
<1>0. At(Shell, "sweep")
  BY DEF Sweep
<1>1. Does(Shell, "purge", 2) /\ Running(Shell) /\ task[Shell] \in Task /\ Shell \in Worker
  BY <1>0, StepOf, RunningIs, ServerAssumption DEF Worker
<1>2. Last(Shell) = 9
  BY <1>1, LengthsAre DEF Last, Does
<1>3. CASE task[Shell].todo = {}
  <2> DEFINE t == [task[Shell] EXCEPT !.seen = NoEntries]
  <2>1. GoTo(Shell, t, 6)
    BY <1>3, PlacesAre DEF Sweep
  <2>2. t \in Task /\ Same(task[Shell], t)
    BY <1>1, SeenIs DEF NoEntries
  <2> HIDE DEF t
  <2>3. 6 \in 1..12 /\ 6 <= Last(Shell)
    BY <1>2
  <2>4. /\ Others(Shell) /\ task'[Shell] \in Task /\ task'[Shell].at = 6
        /\ Same(t, task'[Shell])
        /\ served' = served /\ purged' = FALSE /\ UNCHANGED <<foreign, count>>
    BY <1>1, <2>1, <2>2, <2>3, Goes DEF Same
  <2>5. Moves(Shell)
    BY <1>1, <2>2, <2>3, <2>4, ServerAssumption DEF Moves, Same
  <2> QED BY <1>1, <1>3, <2>2, <2>4, <2>5 DEF Same, Does
<1>4. CASE task[Shell].todo # {}
  <2> DEFINE rest(i) == [task[Shell] EXCEPT !.todo = @ \ {i}, !.on = i, !.seen = inventory.entries]
  <2>1. PICK i \in task[Shell].todo :
          IF Listed(i) THEN Proceed(Shell, rest(i))
          ELSE GoTo(Shell, [rest(i) EXCEPT !.ok = FALSE], task[Shell].at)
    BY <1>4 DEF Sweep
  <2>2. i \in Id /\ inventory.entries \in [Id -> {"unlisted", "active", "disabled"}]
    BY <1>1 DEF Task, Typed, TypeOK
  <2>3. PICK r \in Task :
          /\ r = rest(i) /\ r.kind = task[Shell].kind /\ r.on = i /\ r.at = task[Shell].at
          /\ r.todo = task[Shell].todo \ {i} /\ r.left = task[Shell].left
          /\ r.ok = task[Shell].ok
    <3> DEFINE u == rest(i)
    <3>1. /\ u \in Task /\ u.kind = task[Shell].kind /\ u.on = i /\ u.at = task[Shell].at
          /\ u.todo = task[Shell].todo \ {i} /\ u.left = task[Shell].left
          /\ u.ok = task[Shell].ok
      BY <1>1, <2>2 DEF Task, Worker
    <3>2. u = rest(i)
      OBVIOUS
    <3> HIDE DEF u
    <3> QED BY <3>1, <3>2
  <2>4. PICK q \in Task :
          /\ q = [rest(i) EXCEPT !.ok = FALSE] /\ q.kind = task[Shell].kind /\ q.on = i
          /\ q.todo = task[Shell].todo \ {i} /\ q.left = task[Shell].left /\ q.ok = FALSE
    <3> DEFINE u == [rest(i) EXCEPT !.ok = FALSE]
    <3>1. /\ u \in Task /\ u.kind = task[Shell].kind /\ u.on = i
          /\ u.todo = task[Shell].todo \ {i} /\ u.left = task[Shell].left /\ u.ok = FALSE
      BY <1>1, <2>2 DEF Task, Worker
    <3>2. u = [rest(i) EXCEPT !.ok = FALSE]
      OBVIOUS
    <3> HIDE DEF u
    <3> QED BY <3>1, <3>2
  <2>5. CASE Listed(i)
    <3>1. Proceed(Shell, r)
      BY <2>1, <2>3, <2>5
    <3> HIDE DEF rest
    <3>2. GoTo(Shell, r, 3) /\ 3 \in 1..12 /\ 3 <= Last(Shell)
      BY <1>1, <1>2, <2>3, <3>1 DEF Proceed, Does
    <3>3. /\ Others(Shell) /\ task'[Shell] \in Task /\ task'[Shell].at = 3
          /\ Same(r, task'[Shell])
          /\ served' = served /\ purged' = FALSE /\ UNCHANGED <<foreign, count>>
      BY <1>1, <2>3, <3>2, Goes
    <3>4. Moves(Shell)
      BY <1>1, <2>2, <2>3, <3>2, <3>3, ServerAssumption DEF Moves, Same
    <3> QED BY <1>1, <2>2, <2>3, <2>5, <3>3, <3>4 DEF Same, Does
  <2>6. CASE ~Listed(i)
    <3>1. GoTo(Shell, q, 2)
      BY <1>1, <2>1, <2>4, <2>6 DEF Does
    <3> HIDE DEF rest
    <3>2. 2 \in 1..12 /\ 2 <= Last(Shell)
      BY <1>2
    <3>3. /\ Others(Shell) /\ task'[Shell] \in Task /\ task'[Shell].at = 2
          /\ Same(q, task'[Shell])
          /\ served' = served /\ purged' = FALSE /\ UNCHANGED <<foreign, count>>
      BY <1>1, <2>4, <3>1, <3>2, Goes
    <3>4. Moves(Shell)
      BY <1>1, <2>4, <3>2, <3>3, ServerAssumption DEF Moves, Same
    <3> QED BY <1>1, <2>2, <2>4, <3>3, <3>4 DEF Same, Does
  <2> QED BY <2>5, <2>6
<1> QED BY <1>3, <1>4

LEMMA RefusedStep ==
  ASSUME Typed, NEW k \in Worker, Refused(k)
  PROVE  /\ Running(k) /\ Moves(k) /\ UNCHANGED <<foreign, count, served>>
         /\ \/ Stops(k) /\ task[k].kind # "purge" /\ purged' = purged
            \/ Notes(k) /\ purged' = FALSE
<1>1. PICK step \in {"assess", "look", "plan", "choose", "up", "stop", "down", "dropnetwork",
                     "proxy", "reproxy"} : At(k, step)
  BY DEF Refused, Able, NoProxy
<1>2. task[k].kind = "purge" => Does(k, "purge", 3) \/ Does(k, "purge", 7)
  <2>1. CASE k \in Id
    BY <1>1, <2>1 DEF At, Typed, KindsOK, OnInstance
  <2>2. CASE k = Shell
    BY <1>1, <2>2, StepOf, ServerAssumption DEF Does
  <2> QED BY <2>1, <2>2 DEF Worker
<1>3. Running(k) /\ GiveUp(k) /\ (task[k].kind = "purge" => task[k].at \in 3..7)
  BY <1>2 DEF Refused, Does
<1>4. /\ UNCHANGED <<foreign, count>> /\ served' = served
      /\ \/ Stops(k) /\ task[k].kind # "purge" /\ purged' = purged
         \/ Notes(k) /\ purged' = FALSE
  BY <1>3, GivesUp
<1>5. Moves(k)
  BY <1>3, <1>4, AdvanceMoves
<1> QED BY <1>2, <1>3, <1>4, <1>5

LEMMA FailsStep ==
  ASSUME Typed, NEW k \in Worker, Fails(k)
  PROVE  /\ Running(k) /\ Moves(k) /\ UNCHANGED <<foreign, served, purged>> /\ Fault
         /\ \/ Stops(k) /\ (Careful => task[k].kind # "purge")
            \/ Notes(k)
<1>1. /\ Running(k) /\ Fault /\ task[k] \in Task /\ task \in [Worker -> Task]
      /\ UNCHANGED <<foreign, served>>
  BY DEF Fails, Typed, TypeOK
<1>2. CASE Purging /\ k = Shell /\ ~Uncaught(k)
  <2>1. task[k].kind = "purge" /\ task[k].at \in 1..9
    BY <1>1, <1>2, LastIs, LengthsAre DEF Purging, Last
  <2>2. task[k].at \in 3..7
    <3>1. ASSUME task[k].at \in {1, 2, 8, 9} PROVE FALSE
      BY <1>1, <1>2, <2>1, <3>1, OtherSteps DEF Uncaught, At
    <3> QED BY <2>1, <3>1
  <2>3. At(k, "dropproxy") \/ At(k, "dropnetwork") <=> task[k].at \in 6..7
    <3>1. Steps["purge"][task[k].at] \in {"dropproxy", "dropnetwork"} <=> task[k].at \in 6..7
      <4>1. \/ task[k].at = 3 \/ task[k].at = 4 \/ task[k].at = 5
            \/ task[k].at = 6 \/ task[k].at = 7
        BY <2>2
      <4> QED BY <4>1, OtherSteps
    <3> QED BY <1>1, <2>1, <3>1 DEF At
  <2> DEFINE at == IF task[k].at \in 6..7 THEN task[k].at + 1 ELSE 2
             t == [[task[k] EXCEPT !.ok = FALSE] EXCEPT !.at = at]
  <2>4. task' = [task EXCEPT ![k] = t]
    <3>1. task' = [task EXCEPT ![k].ok = FALSE, ![k].at =
                     IF At(k, "dropproxy") \/ At(k, "dropnetwork") THEN @ + 1
                     ELSE Place("purge", "sweep")]
      BY <1>2 DEF Fails
    <3> QED BY <1>1, <2>3, <3>1, PlacesAre DEF Task
  <2>5. at \in 0..12 /\ at = IF task[k].at \in 3..5 THEN 2 ELSE task[k].at + 1
    BY <2>2
  <2> HIDE DEF at
  <2>6. t \in Task /\ t.kind = task[k].kind /\ t.ok = FALSE /\ t.at = at
    BY <1>1, <2>5 DEF Task
  <2> HIDE DEF t
  <2>7. Others(k) /\ task'[k] = t
    BY <1>1, <2>4, <2>6 DEF Others
  <2>8. Notes(k)
    BY <2>1, <2>2, <2>5, <2>6, <2>7 DEF Notes
  <2>9. purged' = purged
    BY <1>2 DEF Fails
  <2> QED BY <1>1, <2>8, <2>9, AdvanceMoves
<1>3. CASE ~(Purging /\ k = Shell /\ ~Uncaught(k))
  <2>1. /\ Careful => ~(Purging /\ k = Shell)
        /\ task' = [task EXCEPT ![k] = Idle] /\ purged' = purged
    BY <1>3 DEF Fails
  <2>2. Stops(k)
    BY <1>1, <2>1 DEF Stops, Others
  <2>3. task[k].kind = "purge" => k = Shell /\ Purging
    BY DEF Typed, KindsOK, OnInstance, Purging, Worker
  <2> QED BY <1>1, <2>1, <2>2, <2>3, AdvanceMoves
<1> QED BY <1>2, <1>3

\* All operations under way stop or are no longer sure of themselves.
LEMMA ReplaceStep ==
  ASSUME Typed, NEW k \in Worker, ProxyReplaceFails(k)
  PROVE  /\ KindsOK' /\ task' \in [Worker -> Task] /\ Running(k)
         /\ task[k].kind # "purge" /\ task'[k] = Idle
         /\ \A w \in Worker : \/ task'[w] = Idle
                              \/ /\ w # k /\ Running(w) /\ task'[w].ok = FALSE
                                 /\ task'[w].kind = task[w].kind /\ task'[w].at = task[w].at
                                 /\ task'[w].on = task[w].on
<1>1. /\ task' = [w \in Worker |-> IF w = k \/ ~Running(w) THEN Idle
                                   ELSE [task[w] EXCEPT !.ok = FALSE]]
      /\ task \in [Worker -> Task]
  BY DEF ProxyReplaceFails, Typed, TypeOK
<1>2. Running(k) /\ task[k].kind # "purge"
  <2>1. CASE k \in Id
    BY <2>1 DEF ProxyReplaceFails, At, Typed, KindsOK, OnInstance
  <2>2. CASE k = Shell
    <3>1. CASE At(k, "proxy")
      BY <2>2, <3>1, StepOf, ServerAssumption DEF Does, At
    <3>2. CASE At(k, "reproxy")
      BY <2>2, <3>2, StepOf, ServerAssumption DEF Does, At
    <3> QED BY <3>1, <3>2 DEF ProxyReplaceFails
  <2> QED BY <2>1, <2>2 DEF Worker
<1>3. ASSUME NEW w \in Worker
      PROVE  \/ task'[w] = Idle
             \/ /\ w # k /\ Running(w) /\ task'[w] \in Task /\ task'[w].ok = FALSE
                /\ task'[w].kind = task[w].kind /\ task'[w].at = task[w].at
                /\ task'[w].on = task[w].on /\ task'[w].mode = task[w].mode
  <2> DEFINE t == [task[w] EXCEPT !.ok = FALSE]
  <2>1. /\ t \in Task /\ t.ok = FALSE /\ t.kind = task[w].kind /\ t.at = task[w].at
        /\ t.on = task[w].on /\ t.mode = task[w].mode
    <3>1. task[w] \in Task
      BY <1>1
    <3> QED BY <3>1 DEF Task
  <2>2. task'[w] = IF w = k \/ ~Running(w) THEN Idle ELSE t
    BY <1>1
  <2> HIDE DEF t
  <2> QED BY <2>1, <2>2
<1>4. task' \in [Worker -> Task]
  <2>1. \A w \in Worker : task'[w] \in Task
    BY <1>3, IdleIs
  <2>2. task' = [w \in Worker |-> task'[w]]
    BY <1>1
  <2> QED BY <2>1, <2>2
<1>5. ASSUME NEW w \in Worker
      PROVE  /\ w \in Id => /\ task'[w].kind \in {"none"} \union OnInstance
                            /\ Running(w)' => task'[w].on = w /\ task'[w].mode = Mode[w]
             /\ w = Shell => task'[w].kind \in {"none"} \union OfShell
             /\ Running(w)' => task'[w].at \in 1..Len(Steps[task'[w].kind])
             /\ w = Shell /\ task'[w].kind = "purge" /\ task'[w].at \in 3..5 => task'[w].on \in Id
  <2>1. CASE task'[w] = Idle
    BY <2>1, IdleIs DEF Running
  <2>2. CASE task'[w] # Idle
    BY <1>3, <2>2 DEF Typed, KindsOK, Running, Purging
  <2> QED BY <2>1, <2>2
<1>6. KindsOK'
  BY <1>5 DEF KindsOK, Worker, Purging
<1>7. task'[k] = Idle
  BY <1>3
<1> QED BY <1>2, <1>3, <1>4, <1>6, <1>7

----------------------------------------------------------------------------
(* How an operation begins *)

Begins(k) ==
  /\ ~Running(k) /\ (Careful => ~Purging) /\ Others(k) /\ task'[k].at = 1 /\ purged' = FALSE
  /\ task' \in [Worker -> Task] /\ KindsOK'
  /\ UNCHANGED <<inventory, proxyFile, proxy, network, foreign, files, stack, excused>>

LEMMA BeginStep ==
  ASSUME Typed, NEW k \in Worker, NEW t \in Task, Begin(k, t), t.at = 1,
         \/ k \in Id /\ t.kind \in OnInstance /\ t.on = k /\ t.mode = Mode[k]
         \/ k = Shell /\ t.kind \in OfShell
  PROVE  Begins(k) /\ task'[k] = t
<1>1. task' \in [Worker -> Task] /\ Others(k) /\ task'[k] = t
  BY DEF Begin, Typed, TypeOK, Others
<1> DEFINE last == Len(Steps[t.kind])
<1>2. last \in 1..12
  BY LengthsAre DEF OnInstance, OfShell
<1> HIDE DEF last
<1>3. 1 \in 1..last /\ 1 \notin 3..5
  BY <1>2
<1>4. ASSUME NEW w \in Worker
      PROVE  /\ w \in Id => /\ task'[w].kind \in {"none"} \union OnInstance
                            /\ Running(w)' => task'[w].on = w /\ task'[w].mode = Mode[w]
             /\ w = Shell => task'[w].kind \in {"none"} \union OfShell
             /\ Running(w)' => task'[w].at \in 1..Len(Steps[task'[w].kind])
             /\ w = Shell /\ task'[w].kind = "purge" /\ task'[w].at \in 3..5 => task'[w].on \in Id
  <2>1. CASE w # k
    BY <1>1, <2>1 DEF Others, Typed, KindsOK, Running, Purging
  <2>2. CASE w = k
    BY <1>1, <1>3, <2>2, ServerAssumption DEF last
  <2> QED BY <2>1, <2>2
<1>5. KindsOK'
  BY <1>4 DEF KindsOK, Worker, Purging
<1> QED BY <1>1, <1>5 DEF Begin, Begins

LEMMA OpOnIs ==
  ASSUME NEW i \in Id, NEW kind \in OnInstance
  PROVE  LET t == OpOn(kind, i)
         IN  t \in Task /\ t.kind = kind /\ t.on = i /\ t.at = 1 /\ t.mode = Mode[i]
<1>1. Mode[i] \in {"production", "local"} /\ i \in Worker
  BY ServerAssumption DEF Worker
<1>2. kind \in {"none"} \union DOMAIN Steps
  BY KindsAre
<1> DEFINE at == 1
           t == [Idle EXCEPT !.kind = kind, !.on = i, !.at = at, !.mode = Mode[i]]
<1>3. at \in 0..12 /\ t = OpOn(kind, i)
  BY DEF OpOn
<1> HIDE DEF at
<1>4. t \in Task /\ t.kind = kind /\ t.on = i /\ t.at = at /\ t.mode = Mode[i]
  BY <1>1, <1>2, <1>3, IdleIs DEF Task
<1> QED BY <1>3, <1>4 DEF at

\* Who asks for it, and what it is.
Asks(k) ==
  \/ k \in Id /\ task'[k].kind \in OnInstance /\ served' = served \ {k}
  \/ k = Shell /\ task'[k].kind \in {"init", "start"} /\ served' = served
  \/ /\ k = Shell /\ task'[k].kind = "purge" /\ served' = {}
     /\ Careful => \A i \in Id : ~Running(i)

Asked ==
  \/ \E i \in Id : Create(i) \/ \E kind \in {"enable", "disable", "delete"} : Change(kind, i)
  \/ Commands \/ ImportServer

LEMMA AskedBegins ==
  ASSUME Typed, Asked
  PROVE  /\ \E k \in Worker : Begins(k) /\ Asks(k)
         /\ count' \in [ops : 0..MaxOps, faults : 0..MaxFaults]
<1> USE DEF Worker
<1>0. /\ count \in [ops : 0..MaxOps, faults : 0..MaxFaults]
      /\ count.ops < MaxOps =>
           [count EXCEPT !.ops = @ + 1] \in [ops : 0..MaxOps, faults : 0..MaxFaults]
  BY ServerAssumption DEF Typed, TypeOK
<1>7. {"init", "start", "purge"} \subseteq {"none"} \union DOMAIN Steps
  BY KindsAre DEF OfShell
<1> DEFINE place == 1
<1>8. place \in 0..12
  OBVIOUS
<1> HIDE DEF place
<1>1. CASE \E i \in Id : Create(i)
  <2>1. PICK i \in Id : Create(i)
    BY <1>1
  <2>2. Begins(i) /\ task'[i].kind = "create"
    BY <2>1, OpOnIs, BeginStep DEF Create, OnInstance
  <2> QED BY <1>0, <2>1, <2>2 DEF Create, Asks, OnInstance
<1>2. CASE \E i \in Id, kind \in {"enable", "disable", "delete"} : Change(kind, i)
  <2>1. PICK i \in Id, kind \in {"enable", "disable", "delete"} : Change(kind, i)
    BY <1>2
  <2>2. kind \in OnInstance
    BY DEF OnInstance
  <2>3. Begins(i) /\ task'[i].kind = kind
    BY <2>1, <2>2, OpOnIs, BeginStep DEF Change
  <2>4. count' \in [ops : 0..MaxOps, faults : 0..MaxFaults]
    BY <1>0, <2>1 DEF Change
  <2> QED BY <2>1, <2>2, <2>3, <2>4 DEF Change, Asks
<1>3. CASE \E mode \in {"production", "local"}, import \in BOOLEAN : InitServer(mode, import)
  <2>1. PICK mode \in {"production", "local"}, import \in BOOLEAN : InitServer(mode, import)
    BY <1>3
  <2> DEFINE t == [Idle EXCEPT !.kind = "init", !.at = place, !.mode = mode, !.import = import]
  <2>2. t \in Task /\ t.kind = "init" /\ t.at = place
    BY <1>7, <1>8, IdleIs DEF Task
  <2>3. Begin(Shell, t)
    BY <2>1 DEF InitServer, place
  <2> HIDE DEF t
  <2>4. Begins(Shell) /\ task'[Shell].kind = "init"
    BY <2>2, <2>3, BeginStep DEF OfShell, place
  <2> QED BY <1>0, <2>1, <2>4 DEF InitServer, Asks
<1>4. CASE ImportServer
  <2> DEFINE t == [Idle EXCEPT !.kind = "init", !.at = place, !.import = TRUE]
  <2>2. t \in Task /\ t.kind = "init" /\ t.at = place
    BY <1>7, <1>8, IdleIs DEF Task
  <2>3. Begin(Shell, t)
    BY <1>4 DEF ImportServer, place
  <2> HIDE DEF t
  <2>4. Begins(Shell) /\ task'[Shell].kind = "init"
    BY <2>2, <2>3, BeginStep DEF OfShell, place
  <2> QED BY <1>0, <1>4, <2>4 DEF ImportServer, Asks
<1>5. CASE StartProxy
  <2> DEFINE t == [Idle EXCEPT !.kind = "start", !.at = place]
  <2>2. t \in Task /\ t.kind = "start" /\ t.at = place
    BY <1>7, <1>8, IdleIs DEF Task
  <2>3. Begin(Shell, t)
    BY <1>5 DEF StartProxy, place
  <2> HIDE DEF t
  <2>4. Begins(Shell) /\ task'[Shell].kind = "start"
    BY <2>2, <2>3, BeginStep DEF OfShell, place
  <2> QED BY <1>0, <1>5, <2>4 DEF StartProxy, Asks
<1>6. CASE \E all \in BOOLEAN : Purge(all)
  <2>1. PICK all \in BOOLEAN : Purge(all)
    BY <1>6
  <2> DEFINE t == [Idle EXCEPT !.kind = "purge", !.at = place, !.all = all]
  <2>2. t \in Task /\ t.kind = "purge" /\ t.at = place
    BY <1>7, <1>8, IdleIs DEF Task
  <2>3. Begin(Shell, t)
    BY <2>1 DEF Purge, place
  <2> HIDE DEF t
  <2>4. Begins(Shell) /\ task'[Shell].kind = "purge"
    BY <2>2, <2>3, BeginStep DEF OfShell, place
  <2> QED BY <1>0, <2>1, <2>4 DEF Purge, Asks
<1> QED BY <1>1, <1>2, <1>3, <1>4, <1>5, <1>6 DEF Asked, Commands

----------------------------------------------------------------------------
(* Typing *)

LEMMA NotSweeping ==
  ASSUME NEW k, NEW step, At(k, step), step # "sweep"
  PROVE  ~Does(k, "purge", 2)
BY OtherSteps DEF At, Does

\* What every step of work has in common.
LEMMA WorkMoves ==
  ASSUME Typed, NEW k \in Worker, Work(k)
  PROVE  /\ Moves(k) /\ UNCHANGED <<foreign, count>>
         /\ \/ served' = served
            \/ /\ k \in Id /\ Stops(k) /\ served' = served \union {k}
               /\ task[k].ok /\ (Does(k, "create", 12) \/ Does(k, "enable", 4))
         /\ purged' \in BOOLEAN
         /\ purged' => \/ purged
                       \/ /\ k = Shell /\ Does(k, "purge", 9) /\ Stops(k) /\ task[k].ok
                          /\ task[k].all \/ task[k].left = {}
<1> DEFINE Wanted ==
         /\ Moves(k) /\ UNCHANGED <<foreign, count>>
         /\ \/ served' = served
            \/ /\ k \in Id /\ Stops(k) /\ served' = served \union {k}
               /\ task[k].ok /\ (Does(k, "create", 12) \/ Does(k, "enable", 4))
         /\ purged' \in BOOLEAN
         /\ purged' => \/ purged
                       \/ /\ k = Shell /\ Does(k, "purge", 9) /\ Stops(k) /\ task[k].ok
                          /\ task[k].all \/ task[k].left = {}
<1>0. purged \in BOOLEAN
  BY DEF Typed, TypeOK
<1>1. ASSUME Running(k), Advances(k) \/ Finishes(k), UNCHANGED <<foreign, count>>,
             ~Does(k, "purge", 2)
      PROVE  Wanted
  <2>1. Moves(k)
    BY <1>1, AdvanceMoves DEF Finishes
  <2>2. CASE Advances(k)
    BY <1>1, <2>1, <2>2 DEF Advances
  <2>3. CASE Finishes(k)
    <3>1. /\ task[k].kind \in {"create", "enable"} => k \in Id /\ task[k].on = k
          /\ task[k].kind = "purge" => k = Shell
      BY <1>1 DEF Typed, KindsOK, Worker, OfShell, OnInstance
    <3>2. task[k] \in Task
      BY <1>1, LastIs
    <3>3. /\ task[k].kind = "create" => Does(k, "create", 12)
          /\ task[k].kind = "enable" => Does(k, "enable", 4)
          /\ task[k].kind = "purge" => Does(k, "purge", 9)
      BY <2>3, LengthsAre DEF Finishes, Does, Last
    <3>4. \/ served' = served
          \/ /\ k \in Id /\ Stops(k) /\ served' = served \union {k}
             /\ task[k].ok /\ (Does(k, "create", 12) \/ Does(k, "enable", 4))
      BY <2>3, <3>1, <3>3 DEF Finishes
    <3>5. purged' \in BOOLEAN
      BY <2>3 DEF Finishes
    <3>6. purged' => /\ k = Shell /\ Does(k, "purge", 9) /\ Stops(k) /\ task[k].ok
                     /\ task[k].all \/ task[k].left = {}
      BY <2>3, <3>1, <3>3 DEF Finishes
    <3> QED BY <1>1, <2>1, <3>4, <3>5, <3>6
  <2> QED BY <1>1, <2>2, <2>3
<1>2. CASE \/ Assess(k) \/ WriteProxyFile(k) \/ StartNewProxy(k) \/ ensureProxyRunning(k)
           \/ WriteFiles(k) \/ Compose(k) \/ RemoveDir(k)
           \/ k = Shell /\ (DropProxy \/ DropNetwork \/ Forget \/ DropDirs)
  <2>1. Running(k) /\ (Advances(k) \/ Finishes(k)) /\ UNCHANGED <<foreign, count>>
    BY <1>2, PlainSteps
  <2>2. ~Does(k, "purge", 2)
    BY <1>2, NotSweeping DEF Assess, WriteProxyFile, StartNewProxy, ensureProxyRunning,
      WriteFiles, Compose, RemoveDir, DropProxy, DropNetwork, Forget, DropDirs
  <2> QED BY <1>1, <2>1, <2>2
<1>3. CASE KeepEntries(k) \/ ReadInventory(k) \/ RewriteInventory(k)
  <2>1. ~Does(k, "purge", 2)
    BY <1>3, NotSweeping DEF KeepEntries, ReadInventory, RewriteInventory
  <2> QED BY <1>1, <1>3, <2>1, ReadingSteps
<1>4. CASE ReadStatus(k)
  BY <1>4, StatusStep
<1>5. CASE WriteEntry(k)
  <2>1. CASE k # Shell /\ (Advances(k) \/ Finishes(k))
    <3>1. ~Does(k, "purge", 2)
      BY <1>5, NotSweeping DEF WriteEntry
    <3> QED BY <1>1, <1>5, <2>1, <3>1, EntryStep
  <2> QED BY <1>5, <2>1, EntryStep
<1>6. CASE k = Shell /\ ChooseMode
  BY <1>6, ChooseStep
<1>7. CASE k = Shell /\ ListInstances
  BY <1>7, ListStep
<1>8. CASE k = Shell /\ Sweep
  BY <1>8, SweepStep
<1>9. CASE Refused(k)
  BY <1>0, <1>9, RefusedStep
<1> QED BY <1>2, <1>3, <1>4, <1>5, <1>6, <1>7, <1>8, <1>9
  DEF Work, ServerStep, InstanceStep, ShellStep

\* A step of work changes what is shared within its type.
LEMMA WorkTypes ==
  ASSUME Typed, NEW k \in Worker, Work(k)
  PROVE  /\ inventory' \in [there : BOOLEAN, entries : [Id -> {"unlisted", "active", "disabled"}]]
         /\ proxyFile' \in {"none", "production", "local"}
         /\ proxy' \in {"down", "production", "local"}
         /\ network' \in BOOLEAN /\ excused' \in BOOLEAN
         /\ files' \in [Id -> {"none", "partial", "whole"}]
         /\ stack' \in [Id -> {"none", "stopped", "up"}]
<1> DEFINE Entry == {"unlisted", "active", "disabled"}
<1>0. /\ inventory \in [there : BOOLEAN, entries : [Id -> Entry]]
      /\ proxyFile \in {"none", "production", "local"} /\ proxy \in {"down", "production", "local"}
      /\ network \in BOOLEAN /\ excused \in BOOLEAN
      /\ files \in [Id -> {"none", "partial", "whole"}]
      /\ stack \in [Id -> {"none", "stopped", "up"}]
      /\ task[k] \in Task
  BY DEF Typed, TypeOK
<1>1. task[k].mode \in {"production", "local"} /\ task[k].seen \in [Id -> Entry]
  BY <1>0 DEF Task
<1>2. \A entries \in [Id -> Entry] : With(entries) \in [there : BOOLEAN, entries : [Id -> Entry]]
  BY DEF With
<1>3. Unmanaged \in [there : BOOLEAN, entries : [Id -> Entry]]
  BY DEF Unmanaged, NoEntries
<1>4. \A kind : Status(kind) \in Entry
  BY DEF Status
<1>5. \A kind : [task[k].seen EXCEPT ![task[k].on] = Status(kind)] \in [Id -> Entry]
  BY <1>1, <1>4
<1> HIDE DEF Entry
<1>10. CASE ReadStatus(k) \/ Assess(k) \/ KeepEntries(k) \/ ReadInventory(k)
  BY <1>0, <1>10 DEF ReadStatus, Assess, KeepEntries, ReadInventory, Entry
<1>11. CASE WriteProxyFile(k)
  BY <1>0, <1>1, <1>11 DEF WriteProxyFile, Entry
<1>12. CASE RewriteInventory(k)
  BY <1>0, <1>1, <1>2, <1>12 DEF RewriteInventory, WriteBack, Entry
<1>13. CASE StartNewProxy(k)
  BY <1>0, <1>13 DEF StartNewProxy, ProxyCanStart, Entry
<1>14. CASE ensureProxyRunning(k)
  BY <1>0, <1>14 DEF ensureProxyRunning, NeedsProxy, MakesNetwork, Entry
<1>15. CASE WriteFiles(k)
  BY <1>0, <1>15 DEF WriteFiles, Entry
<1>16. CASE WriteEntry(k)
  <2>1. /\ inventory' \in [there : BOOLEAN, entries : [Id -> Entry]] /\ excused' \in BOOLEAN
        /\ UNCHANGED <<proxyFile, proxy, network, files, stack>>
    BY <1>0, <1>2, <1>5, <1>16 DEF WriteEntry, WriteBack
  <2> QED BY <1>0, <2>1 DEF Entry
<1>17. CASE Compose(k)
  BY <1>0, <1>17 DEF Compose, Entry
<1>18. CASE RemoveDir(k)
  BY <1>0, <1>18 DEF RemoveDir, Entry
<1>19. CASE Refused(k)
  BY <1>0, <1>19 DEF Refused, NoProxy, ProxyCanStart, NeedsProxy, Entry
<1>20. CASE ChooseMode \/ ListInstances \/ Sweep
  BY <1>0, <1>20 DEF ChooseMode, ListInstances, Sweep, Entry
<1>21. CASE DropProxy \/ DropNetwork
  BY <1>0, <1>21 DEF DropProxy, DropNetwork, Entry
<1>22. CASE Forget
  BY <1>0, <1>3, <1>22 DEF Forget, Entry
<1>23. CASE DropDirs
  BY <1>0, <1>23 DEF DropDirs, Entry
<1> QED BY <1>10, <1>11, <1>12, <1>13, <1>14, <1>15, <1>16, <1>17, <1>18, <1>19, <1>20, <1>21,
  <1>22, <1>23 DEF Work, ServerStep, InstanceStep, ShellStep

LEMMA TypedInit == Init => Typed
<1> SUFFICES ASSUME Init PROVE Typed
  OBVIOUS
<1>1. \A k \in Worker : task[k] = Idle
  BY DEF Init
<1>2. KindsOK
  BY <1>1, IdleIs DEF KindsOK, Running, Purging, Worker
<1>3. count \in [ops : 0..MaxOps, faults : 0..MaxFaults]
  <2>1. 0 \in 0..MaxOps /\ 0 \in 0..MaxFaults
    BY ServerAssumption
  <2> QED BY <2>1 DEF Init
<1>4. TypeOK
  <2>1. task \in [Worker -> Task]
    BY IdleIs DEF Init
  <2>2. inventory \in [there : BOOLEAN, entries : [Id -> {"unlisted", "active", "disabled"}]]
    BY DEF Init, Unmanaged, NoEntries
  <2> QED BY <1>3, <2>1, <2>2 DEF Init, TypeOK
<1> QED BY <1>2, <1>4 DEF Typed

LEMMA TypedNext == Typed /\ [Next]_vars => Typed'
<1> SUFFICES ASSUME Typed, [Next]_vars PROVE Typed'
  OBVIOUS
<1>0. TypeOK /\ count \in [ops : 0..MaxOps, faults : 0..MaxFaults]
  BY DEF Typed, TypeOK
<1>f. Fault => count' \in [ops : 0..MaxOps, faults : 0..MaxFaults]
  BY <1>0, ServerAssumption DEF Fault
<1>1. CASE Asked
  <2>1. PICK k \in Worker : Begins(k) /\ Asks(k)
    BY <1>1, AskedBegins
  <2>2. served' \subseteq Id
    BY <1>0, <2>1 DEF Asks, TypeOK
  <2> QED BY <1>0, <1>1, <2>1, <2>2, AskedBegins DEF Begins, Typed, TypeOK
<1>2. ASSUME NEW k \in Worker, Work(k) PROVE Typed'
  <2>1. /\ KindsOK' /\ task' \in [Worker -> Task] /\ served' \subseteq Id /\ purged' \in BOOLEAN
        /\ UNCHANGED <<foreign, count>>
    BY <1>0, <1>2, WorkMoves, KindsMove DEF TypeOK
  <2> QED BY <1>0, <1>2, <2>1, WorkTypes DEF Typed, TypeOK
<1>3. ASSUME NEW k \in Worker, Fails(k) PROVE Typed'
  <2>1. KindsOK' /\ task' \in [Worker -> Task]
    BY <1>3, FailsStep, KindsMove
  <2>2. UNCHANGED <<inventory, proxyFile, proxy, network, foreign, files, stack, served,
                    excused, purged>>
    BY <1>3, FailsStep DEF Fails
  <2> QED BY <1>0, <1>f, <1>3, <2>1, <2>2, FailsStep DEF Typed, TypeOK
<1>4. ASSUME NEW k \in Worker, ProxyReplaceFails(k) PROVE Typed'
  <2>1. KindsOK' /\ task' \in [Worker -> Task]
    BY <1>4, ReplaceStep
  <2> QED BY <1>0, <1>f, <1>4, <2>1 DEF ProxyReplaceFails, Typed, TypeOK
<1>5. CASE Crash
  <2>1. task' \in [Worker -> Task] /\ \A w \in Worker : task'[w] = task[w] \/ task'[w] = Idle
    BY <1>0, <1>5, IdleIs DEF Crash, TypeOK
  <2>2. task'[Shell] = task[Shell]
    BY <1>5 DEF Crash, Worker
  <2>3. KindsOK'
    BY <2>1, <2>2, IdleIs DEF Typed, KindsOK, Running, Purging, Worker
  <2> QED BY <1>0, <1>f, <1>5, <2>1, <2>3 DEF Crash, Typed, TypeOK
<1>6. CASE PortsTaken \/ PortsFreed \/ Prune \/ UNCHANGED vars
  <2>1. /\ UNCHANGED <<inventory, proxyFile, proxy, files, stack, task, served, excused, purged>>
        /\ foreign' \in BOOLEAN /\ network' \in BOOLEAN
        /\ count' \in [ops : 0..MaxOps, faults : 0..MaxFaults]
    BY <1>0, <1>f, <1>6 DEF PortsTaken, PortsFreed, Prune, vars, TypeOK
  <2>2. KindsOK'
    BY <2>1 DEF Typed, KindsOK, Running, Purging
  <2> QED BY <1>0, <2>1, <2>2 DEF Typed, TypeOK
<1> QED BY <1>1, <1>2, <1>3, <1>4, <1>5, <1>6 DEF Next, Asked, Host

\* The types hold throughout, and an instance's worker runs the operations on it.
THEOREM Typing == Spec => [](TypeOK /\ KindsOK)
<1>1. Spec => []Typed
  BY TypedInit, TypedNext, PTL DEF Spec
<1> QED BY <1>1 DEF Typed

----------------------------------------------------------------------------
(* What holds while nothing runs beside a purge *)

\* A purge is alone, and the last operation that was done when it is the last.
Alone ==
  /\ Purging => served = {} /\ \A i \in Id : ~Running(i)
  /\ purged => \A k \in Worker : ~Running(k)

\* From here on operation t relies on the proxy's compose file.
NeedsFile(t) ==
  \/ t.kind = "create" /\ t.at \in 4..12
  \/ t.kind = "init" /\ t.at \in 3..5
  \/ t.kind \in {"enable", "disable", "delete"} /\ t.at \in 2..4
  \/ t.kind = "purge" /\ t.at \in 3..5

Dismantling == Purging /\ task[Shell].at \in 7..8

\* A server with an inventory has the compose file of its proxy, a purge apart.
FileKept ==
  /\ \A k \in Worker : NeedsFile(task[k]) => proxyFile # "none"
  /\ inventory.there => proxyFile # "none" \/ Dismantling
  /\ ~inventory.there => inventory.entries = NoEntries

\* The proxy has been seen to for operation t.
ReadyAt(t) ==
  \/ t.kind = "create" /\ t.at \in 8..12
  \/ t.kind = "enable" /\ t.at \in 3..4

ProxyReady ==
  \A i \in Id :
    /\ ReadyAt(task[i]) /\ task[i].ok /\ Mode[i] = "production" => proxy # "down"
    /\ Does(i, "enable", 4) => stack[i] = "up" /\ network

Serving == ProxyServes /\ \A i \in served : ~Running(i)

\* What is about to run, or was asked to run again, is in the inventory.
Known ==
  excused \/ \A i \in Id :
    /\ stack[i] # "none" => Listed(i)
    /\ Does(i, "create", 12) => Listed(i)
    /\ task[i].kind = "enable" /\ task[i].at \in 2..4 => Listed(i)

\* What is about to leave the inventory has no containers any more, nor a directory.
Removed ==
  /\ \A i \in Id : task[i].kind = "delete" /\ task[i].at \in 3..4 => stack[i] = "none"
  /\ Purging /\ task[Shell].at \in 4..5 => stack[task[Shell].on] = "none"
  /\ Purging /\ task[Shell].at = 5 => files[task[Shell].on] = "none"

\* What a purge that has met no error has left to do.
Purges ==
  LET t == task[Shell]
  IN  Purging /\ t.ok /\ ~excused =>
        /\ t.at \in 2..9 =>
             /\ \A i \in Id : Listed(i) => i \in t.todo \/ (t.at \in 3..5 /\ i = t.on)
             /\ \A i \in Dirs : Listed(i) \/ i \in t.left
        /\ t.at \in 6..9 => \A i \in Id : ~Listed(i)
        /\ t.at \in 7..9 => proxyFile = "none"
        /\ t.at = 9 => ~inventory.there

Clean == purged /\ ~excused => ~inventory.there /\ proxyFile = "none" /\ Dirs = {}

Sound ==
  Typed /\ Alone /\ FileKept /\ ProxyReady /\ Serving /\ Known /\ Removed /\ Purges /\ Clean

----------------------------------------------------------------------------
(* A purge is alone *)

LEMMA PurgeAlone ==
  ASSUME Typed, Alone, NEW k \in Worker, Moves(k)
  PROVE  /\ k \in Id => ~Purging /\ ~Purging'
         /\ Purging' => Purging /\ k = Shell
         /\ Purging => k = Shell
         /\ ~purged
<1>1. Running(k)
  BY DEF Moves
<1>2. CASE k = Shell
  BY <1>1, <1>2, IdleIs, ServerAssumption DEF Alone, Moves, Purging
<1>3. CASE k \in Id
  <2>1. task'[Shell] = task[Shell]
    BY <1>3, ServerAssumption DEF Moves, Others, Worker
  <2> QED BY <1>1, <1>3, <2>1, ServerAssumption DEF Alone, Purging
<1> QED BY <1>2, <1>3 DEF Worker

LEMMA AloneMoves ==
  ASSUME Typed, Alone, NEW k \in Worker, Moves(k),
         \/ served' = served
         \/ k \in Id /\ served' = served \union {k},
         purged' => purged \/ (k = Shell /\ Does(k, "purge", 9) /\ Stops(k))
  PROVE  Alone'
<1>1. ASSUME Purging' PROVE served' = {} /\ \A i \in Id : ~Running(i)'
  <2>1. Purging /\ k = Shell
    BY <1>1, PurgeAlone
  <2> QED BY <2>1, ServerAssumption DEF Alone, Moves, Others, Running, Worker
<1>2. ASSUME purged' PROVE \A w \in Worker : ~Running(w)'
  <2>1. k = Shell /\ Does(k, "purge", 9) /\ Stops(k)
    BY <1>2, PurgeAlone
  <2>2. Purging
    BY <2>1 DEF Does, Purging
  <2> QED BY <2>1, <2>2, IdleIs, ServerAssumption DEF Alone, Stops, Others, Running, Worker
<1> QED BY <1>1, <1>2 DEF Alone

----------------------------------------------------------------------------
(* An operation that begins disturbs nothing *)

LEMMA BeginsSound ==
  ASSUME Careful, Sound, Asked
  PROVE  Sound'
<1>1. PICK k \in Worker : Begins(k) /\ Asks(k)
  BY AskedBegins DEF Sound
<1>2. Typed'
  BY TypedNext DEF Sound, Next, Asked
<1>3. /\ ~Running(k) /\ ~Purging /\ task'[k].at = 1 /\ purged' = FALSE
      /\ \A w \in Worker \ {k} : task'[w] = task[w]
      /\ UNCHANGED <<inventory, proxyFile, proxy, network, foreign, files, stack, excused>>
      /\ Typed
  BY <1>1 DEF Begins, Others, Sound
<1>4. Purging' => k = Shell /\ task'[Shell].at = 1 /\ \A i \in Id : ~Running(i)
  BY <1>1, <1>3, ServerAssumption DEF Purging, Asks, Worker, OnInstance
<1>5. served' \subseteq served /\ (k \in Id => k \notin served') /\ (Purging' => served' = {})
  BY <1>1, <1>4, ServerAssumption DEF Asks, Purging, OnInstance
<1>6. Alone'
  <2>1. Purging' => \A i \in Id : ~Running(i)'
    BY <1>3, <1>4, ServerAssumption DEF Running, Worker
  <2> QED BY <1>3, <1>5, <2>1 DEF Alone
<1>7. FileKept'
  <2>1. \A w \in Worker : NeedsFile(task'[w]) => w # k /\ NeedsFile(task[w])
    <3>1. ~NeedsFile(task'[k])
      BY <1>3 DEF NeedsFile
    <3> QED BY <1>3, <3>1
  <2> QED BY <1>3, <2>1 DEF Sound, FileKept, Dismantling
<1>8. ProxyReady'
  <2>1. ~ReadyAt(task'[k]) /\ ~(task'[k].at = 4)
    BY <1>3 DEF ReadyAt
  <2> QED BY <1>3, <2>1 DEF Sound, ProxyReady, Does, Worker
<1>9. Serving'
  BY <1>3, <1>5 DEF Sound, Serving, ProxyServes, Running, Worker, Typed, TypeOK
<1>10. Known'
  <2>1. ~(task'[k].at \in 2..4) /\ ~(task'[k].at = 12)
    BY <1>3
  <2> QED BY <1>3, <2>1 DEF Sound, Known, Does, Listed, Worker
<1>11. Removed'
  <2>1. ~(task'[k].at \in 3..5) /\ ~(task'[k].at \in 4..5) /\ ~(task'[k].at = 5)
         /\ ~(task'[k].at \in 3..4)
    BY <1>3
  <2> QED BY <1>3, <1>4, <2>1 DEF Sound, Removed, Worker
<1>12. Purges' /\ Clean'
  <2>1. Purging' => ~(task'[Shell].at \in 2..9) /\ ~(task'[Shell].at \in 6..9)
                    /\ ~(task'[Shell].at \in 7..9) /\ task'[Shell].at # 9
    BY <1>4
  <2> QED BY <1>3, <2>1 DEF Purges, Clean
<1> QED BY <1>2, <1>6, <1>7, <1>8, <1>9, <1>10, <1>11, <1>12 DEF Sound

----------------------------------------------------------------------------
(* Failures disturb nothing *)

\* A worker that stops, or a purge that notes an error, leaving things as they are.
LEMMA StopsSound ==
  ASSUME Sound, NEW k \in Worker, Moves(k), Typed',
         (Stops(k) /\ task[k].kind # "purge") \/ Notes(k),
         UNCHANGED <<inventory, proxyFile, proxy, files, stack, served, excused>>,
         network => network', purged' => purged
  PROVE  Sound'
<1>1. /\ Typed /\ Alone
      /\ k \in Id => ~Purging /\ ~Purging'
      /\ Purging' => Purging /\ k = Shell
      /\ Purging => k = Shell
      /\ ~purged /\ ~purged'
  BY PurgeAlone DEF Sound
<1>2. /\ \A w \in Worker \ {k} : task'[w] = task[w]
      /\ task'[k].kind = "none" \/ Notes(k)
  BY IdleIs DEF Moves, Others, Stops
<1>3. Alone'
  BY <1>1, AloneMoves
<1>4. k \in Id => task'[k].kind = "none"
  BY <1>1, <1>2, ServerAssumption DEF Notes, Typed, KindsOK, OnInstance
<1>5. /\ Notes(k) => k = Shell /\ task[k].kind = "purge" /\ task'[k].kind = "purge"
                     /\ task'[k].ok = FALSE /\ task'[k].at \in {2, 7, 8}
                     /\ (task[k].at = 7 => task'[k].at = 8) /\ task[k].at \in 3..7
  <2> SUFFICES ASSUME Notes(k)
               PROVE  /\ k = Shell /\ task[k].kind = "purge" /\ task'[k].kind = "purge"
                      /\ task'[k].ok = FALSE /\ task'[k].at \in {2, 7, 8}
                      /\ (task[k].at = 7 => task'[k].at = 8) /\ task[k].at \in 3..7
    OBVIOUS
  <2>1. k = Shell
    BY <1>4 DEF Notes, Worker
  <2>2. task[k].at \in 3..7 /\ task'[k].at = IF task[k].at \in 3..5 THEN 2 ELSE task[k].at + 1
    BY DEF Notes
  <2>3. task'[k].at \in {2, 7, 8} /\ (task[k].at = 7 => task'[k].at = 8)
    BY <2>2
  <2> QED BY <2>1, <2>2, <2>3 DEF Notes
<1>6. FileKept'
  <2>1. ~NeedsFile(task'[k])
    BY <1>2, <1>5 DEF NeedsFile
  <2>2. Dismantling => Dismantling'
    <3> SUFFICES ASSUME Dismantling PROVE Dismantling'
      OBVIOUS
    <3>1. k = Shell /\ task[k].kind = "purge" /\ task[k].at \in 7..8
      BY <1>1 DEF Dismantling, Purging
    <3>2. Notes(k) /\ task[k].at = 7
      BY <1>5, <3>1
    <3> QED BY <1>5, <3>1, <3>2 DEF Dismantling, Purging
  <2> QED BY <1>2, <2>1, <2>2 DEF Sound, FileKept
<1>7. ProxyReady'
  BY <1>2, <1>4 DEF Sound, ProxyReady, ReadyAt, Does, Worker
<1>8. Serving'
  BY <1>2, <1>4 DEF Sound, Serving, ProxyServes, Running, Worker, Typed, TypeOK
<1>9. Known'
  BY <1>2, <1>4 DEF Sound, Known, Does, Listed, Worker
<1>10. Removed'
  <2>1. Purging' => task'[Shell].at \notin 4..5 /\ task'[Shell].at # 5
    BY <1>1, <1>2, <1>5, ServerAssumption DEF Purging
  <2> QED BY <1>2, <1>4, <2>1 DEF Sound, Removed, Worker
<1>11. Purges'
  BY <1>1, <1>2, <1>5 DEF Purges, Purging
<1> QED BY <1>1, <1>3, <1>6, <1>7, <1>8, <1>9, <1>10, <1>11 DEF Sound, Clean

LEMMA FailsSound ==
  ASSUME Careful, Sound, NEW k \in Worker, Fails(k) \/ Refused(k)
  PROVE  Sound'
<1>1. Typed /\ Typed'
  BY TypedNext DEF Sound, Next, Work
<1>2. CASE Fails(k)
  <2>1. UNCHANGED <<inventory, proxyFile, proxy, network, files, stack, served, excused, purged>>
    BY <1>1, <1>2, FailsStep DEF Fails
  <2> QED BY <1>1, <1>2, <2>1, FailsStep, StopsSound
<1>3. CASE Refused(k)
  <2>1. /\ UNCHANGED <<inventory, proxyFile, proxy, files, stack, served, excused>>
        /\ network => network'
    BY <1>1, <1>3, RefusedStep DEF Refused
  <2>2. purged' => purged
    BY <1>1, <1>3, RefusedStep
  <2> QED BY <1>1, <1>3, <2>1, <2>2, RefusedStep, StopsSound
<1> QED BY <1>2, <1>3

\* The operations that counted on the proxy are told.
LEMMA ReplaceSound ==
  ASSUME Sound, NEW k \in Worker, ProxyReplaceFails(k)
  PROVE  Sound'
<1>1. Typed /\ Typed'
  BY TypedNext DEF Sound, Next
<1>2. /\ Running(k) /\ task[k].kind # "purge"
      /\ \A w \in Worker : \/ task'[w] = Idle
                           \/ /\ Running(w) /\ task'[w].ok = FALSE
                              /\ task'[w].kind = task[w].kind /\ task'[w].at = task[w].at
                              /\ task'[w].on = task[w].on
  BY <1>1, ReplaceStep
<1>3. /\ UNCHANGED <<inventory, proxyFile, network, files, stack, excused, purged>>
      /\ proxy' = "down" /\ served' = {i \in served : Mode[i] = "local"} /\ proxyFile # "none"
  BY DEF ProxyReplaceFails
<1>4. ~purged /\ ~purged' /\ (Purging' => Purging)
  BY <1>2, <1>3, IdleIs DEF Sound, Alone, Purging, Worker
<1>5. \A w \in Worker : Running(w)' => Running(w)
  BY <1>2, IdleIs DEF Running
<1>6. Alone'
  BY <1>3, <1>4, <1>5 DEF Sound, Alone, Worker
<1>7. FileKept'
  BY <1>3 DEF Sound, FileKept
<1>8. ProxyReady'
  BY <1>2, <1>3, IdleIs DEF Sound, ProxyReady, ReadyAt, Does, Worker
<1>9. Serving'
  <2>1. \A i \in served' : i \in served /\ Mode[i] # "production"
    BY <1>3
  <2> QED BY <1>1, <1>3, <1>5, <2>1 DEF Sound, Serving, ProxyServes, Worker, Typed, TypeOK
<1>10. Known'
  BY <1>2, <1>3, IdleIs DEF Sound, Known, Does, Listed, Worker
<1>11. Removed'
  BY <1>2, <1>3, <1>4, IdleIs DEF Sound, Removed, Purging, Worker
<1>12. Purges'
  BY <1>2, IdleIs DEF Purges, Purging, Worker
<1> QED BY <1>1, <1>4, <1>6, <1>7, <1>8, <1>9, <1>10, <1>11, <1>12 DEF Sound, Clean

LEMMA HostSound ==
  ASSUME Sound, Host \/ UNCHANGED vars
  PROVE  Sound'
<1>1. Typed /\ Typed'
  BY TypedNext DEF Sound, Next
<1>2. CASE Crash
  <2>1. /\ \A w \in Worker : task'[w] = task[w] \/ (w # Shell /\ task'[w] = Idle)
        /\ UNCHANGED <<inventory, proxyFile, proxy, network, files, stack, served, excused, purged>>
    BY <1>2 DEF Crash
  <2>2. task'[Shell] = task[Shell] /\ (Purging' <=> Purging) /\ (Dismantling' <=> Dismantling)
    BY <2>1 DEF Worker, Purging, Dismantling
  <2>3. \A w \in Worker : Running(w)' => Running(w) /\ task'[w] = task[w]
    BY <2>1, IdleIs DEF Running
  <2>4. Alone'
    BY <2>1, <2>2, <2>3 DEF Sound, Alone, Worker
  <2>5. FileKept'
    <3>1. \A w \in Worker : NeedsFile(task'[w]) => NeedsFile(task[w])
      BY <2>1, IdleIs DEF NeedsFile
    <3> QED BY <2>1, <2>2, <3>1 DEF Sound, FileKept
  <2>6. ProxyReady'
    BY <2>1, IdleIs DEF Sound, ProxyReady, ReadyAt, Does, Worker
  <2>7. Serving'
    BY <1>1, <2>1, <2>3 DEF Sound, Serving, ProxyServes, Worker, Typed, TypeOK
  <2>8. Known'
    BY <2>1, IdleIs DEF Sound, Known, Does, Listed, Worker
  <2>9. Removed' /\ Purges' /\ Clean'
    BY <2>1, <2>2, IdleIs DEF Sound, Removed, Purges, Clean, Listed, Dirs, Worker
  <2> QED BY <1>1, <2>4, <2>5, <2>6, <2>7, <2>8, <2>9 DEF Sound
<1>3. CASE PortsTaken \/ PortsFreed \/ Prune \/ UNCHANGED vars
  <2>1. /\ UNCHANGED <<inventory, proxyFile, proxy, files, stack, task, served, excused, purged>>
        /\ network' = network \/ \A i \in Id : stack[i] # "up"
    BY <1>3 DEF PortsTaken, PortsFreed, Prune, NetworkInUse, vars
  <2>2. Alone' /\ FileKept' /\ Known' /\ Removed' /\ Purges' /\ Clean'
    BY <2>1 DEF Sound, Alone, FileKept, Known, Removed, Purges, Clean, Purging, Running,
      Dismantling, Does, Listed, Dirs
  <2>3. ProxyReady'
    BY <2>1 DEF Sound, ProxyReady, Does
  <2>4. Serving'
    BY <1>1, <2>1 DEF Sound, Serving, ProxyServes, Running, Typed, TypeOK
  <2> QED BY <1>1, <2>2, <2>3, <2>4 DEF Sound
<1> QED BY <1>2, <1>3 DEF Host

----------------------------------------------------------------------------
(* The steps of the other operations *)

\* What a step of worker k outside a purge has to respect.
Respects(k) ==
  /\ proxyFile' = proxyFile \/ proxyFile' # "none"
  /\ NeedsFile(task'[k]) => proxyFile' # "none"
  /\ inventory' = inventory \/ (inventory'.there /\ proxyFile' # "none")
  /\ proxy # "down" => proxy' # "down"
  /\ network => network'
  /\ \A i \in Id \ {k} : stack'[i] = stack[i]
  /\ k \in Id =>
       /\ ReadyAt(task'[k]) /\ task'[k].ok /\ Mode[k] = "production" => proxy' # "down"
       /\ Does(k, "enable", 4)' => stack'[k] = "up" /\ network'
       /\ task'[k].kind = "delete" /\ task'[k].at \in 3..4 => stack'[k] = "none"
  /\ served' = served \union {k} =>
       /\ stack'[k] = "up" /\ network'
       /\ Mode[k] = "production" => proxy' # "down"
  /\ excused => excused'
  /\ ~excused' =>
       /\ \A i \in Id \ {k} : Listed(i) => Listed(i)'
       /\ /\ k \in Id
          /\ \/ stack'[k] # "none" \/ Does(k, "create", 12)'
             \/ task'[k].kind = "enable" /\ task'[k].at \in 2..4
          => Listed(k)'

LEMMA RespectSound ==
  ASSUME Careful, Sound, NEW k \in Worker, Work(k), ~Purging, Respects(k)
  PROVE  Sound'
<1>1. Typed /\ Typed' /\ Moves(k) /\ Alone /\ Running(k)
  BY TypedNext, WorkMoves DEF Sound, Next, Moves
<1>2. ~Purging' /\ ~purged'
  BY <1>1, PurgeAlone, WorkMoves DEF Does, Purging
<1>3. \A w \in Worker \ {k} : task'[w] = task[w]
  BY <1>1 DEF Moves, Others
<1>4. /\ served' = served
         \/ (k \in Id /\ task'[k] = Idle /\ served' = served \union {k})
  BY <1>1, WorkMoves DEF Stops
<1>5. Alone'
  BY <1>1, <1>4, AloneMoves, WorkMoves
<1>6. FileKept'
  BY <1>2, <1>3 DEF Sound, Respects, FileKept, Dismantling
<1>7. ProxyReady'
  BY <1>3 DEF Sound, Respects, ProxyReady, Does, Worker
<1>8. Serving'
  <2>1. \A i \in served : i # k /\ i \in Id
    BY <1>1 DEF Sound, Serving, Typed, TypeOK
  <2>2. CASE served' = served
    BY <1>1, <1>3, <2>1, <2>2 DEF Sound, Respects, Serving, ProxyServes, Running, Worker
  <2>3. CASE k \in Id /\ task'[k] = Idle /\ served' = served \union {k}
    BY <1>1, <1>3, <2>1, <2>3, IdleIs DEF Sound, Respects, Serving, ProxyServes, Running, Worker
  <2> QED BY <1>4, <2>2, <2>3
<1>9. Known'
  <2> SUFFICES ASSUME ~excused', NEW i \in Id
               PROVE  /\ stack'[i] # "none" => Listed(i)'
                      /\ Does(i, "create", 12)' => Listed(i)'
                      /\ task'[i].kind = "enable" /\ task'[i].at \in 2..4 => Listed(i)'
    BY DEF Known
  <2>1. ~excused
    BY DEF Respects
  <2>2. CASE i # k
    BY <1>3, <2>1, <2>2 DEF Sound, Known, Respects, Does, Worker
  <2>3. CASE i = k
    BY <2>3 DEF Respects
  <2> QED BY <2>2, <2>3
<1>10. Removed'
  BY <1>2, <1>3 DEF Sound, Removed, Respects, Worker
<1> QED BY <1>1, <1>2, <1>5, <1>6, <1>7, <1>8, <1>9, <1>10 DEF Sound, Purges, Clean

\* Where a worker that goes one place on has come from.
LEMMA CameFrom ==
  ASSUME Typed, NEW k \in Worker, Running(k), Advances(k) \/ Finishes(k)
  PROVE  /\ NeedsFile(task'[k]) =>
              \/ NeedsFile(task[k]) \/ Does(k, "create", 3) \/ Does(k, "init", 2)
              \/ Does(k, "enable", 1) \/ Does(k, "disable", 1) \/ Does(k, "delete", 1)
              \/ Does(k, "purge", 2)
         /\ ReadyAt(task'[k]) =>
              /\ task'[k].ok = task[k].ok
              /\ ReadyAt(task[k]) \/ Does(k, "create", 7) \/ Does(k, "enable", 2)
         /\ Does(k, "enable", 4)' => Does(k, "enable", 3)
         /\ Does(k, "create", 12)' => Does(k, "create", 11)
         /\ task'[k].kind = "enable" /\ task'[k].at \in 2..4 =>
              task[k].kind = "enable" /\ task[k].at \in 1..3
         /\ task'[k].kind = "delete" /\ task'[k].at \in 3..4 =>
              task[k].kind = "delete" /\ task[k].at \in 2..3
<1>1. task[k].at \in 1..12
  BY LastIs
<1>2. CASE Finishes(k)
  BY <1>2, IdleIs DEF Finishes, Stops, NeedsFile, ReadyAt, Does
<1>3. CASE Advances(k)
  <2> DEFINE n == task[k].at
             kind == task[k].kind
  <2>1. task'[k].kind = kind /\ task'[k].at = n + 1 /\ task'[k].ok = task[k].ok /\ n \in 1..12
    BY <1>1, <1>3 DEF Advances, Same
  <2>2. NeedsFile(task'[k]) =>
              \/ NeedsFile(task[k]) \/ Does(k, "create", 3) \/ Does(k, "init", 2)
              \/ Does(k, "enable", 1) \/ Does(k, "disable", 1) \/ Does(k, "delete", 1)
              \/ Does(k, "purge", 2)
    <3>1. n + 1 \in 4..12 => n = 3 \/ n \in 4..12
      BY <2>1
    <3>2. n + 1 \in 3..5 => n = 2 \/ n \in 3..5
      BY <2>1
    <3>3. n + 1 \in 2..4 => n = 1 \/ n \in 2..4
      BY <2>1
    <3> QED BY <2>1, <3>1, <3>2, <3>3 DEF NeedsFile, Does
  <2>3. ReadyAt(task'[k]) => ReadyAt(task[k]) \/ Does(k, "create", 7) \/ Does(k, "enable", 2)
    <3>1. n + 1 \in 8..12 => n = 7 \/ n \in 8..12
      BY <2>1
    <3>2. n + 1 \in 3..4 => n = 2 \/ n \in 3..4
      BY <2>1
    <3> QED BY <2>1, <3>1, <3>2 DEF ReadyAt, Does
  <2>4. /\ Does(k, "enable", 4)' => Does(k, "enable", 3)
        /\ Does(k, "create", 12)' => Does(k, "create", 11)
    BY <2>1 DEF Does
  <2>5. /\ n + 1 \in 2..4 => n \in 1..3
        /\ n + 1 \in 3..4 => n \in 2..3
    BY <2>1
  <2> QED BY <2>1, <2>2, <2>3, <2>4, <2>5
<1> QED BY <1>2, <1>3

LEMMA NewlyServed ==
  ASSUME Sound, NEW k \in Worker, Work(k), served' = served \union {k}
  PROVE  k \in Id /\ task[k].ok /\ (Does(k, "create", 12) \/ Does(k, "enable", 4))
<1>1. Typed /\ Running(k) /\ k \notin served
  BY WorkMoves, ServerAssumption DEF Sound, Moves, Serving, Typed, TypeOK, Worker
<1> QED BY <1>1, WorkMoves

\* A step that shares nothing.
LEMMA QuietRespects ==
  ASSUME Sound, NEW k \in Worker, Work(k), ~Purging, Advances(k) \/ Finishes(k),
         UNCHANGED <<inventory, proxyFile, proxy, stack, excused>>, network => network',
         \A kind, p : Does(k, kind, p) =>
           <<kind, p>> \notin {<<"create", 3>>, <<"init", 2>>, <<"enable", 1>>, <<"disable", 1>>,
             <<"delete", 1>>, <<"create", 7>>, <<"enable", 2>>, <<"enable", 3>>,
             <<"create", 11>>, <<"delete", 2>>, <<"create", 12>>, <<"enable", 4>>}
  PROVE  Respects(k)
<1>1. Typed /\ Running(k) /\ Moves(k)
  BY WorkMoves DEF Sound, Moves
<1>2. /\ ~Does(k, "create", 3) /\ ~Does(k, "init", 2) /\ ~Does(k, "enable", 1)
      /\ ~Does(k, "disable", 1) /\ ~Does(k, "delete", 1) /\ ~Does(k, "create", 7)
      /\ ~Does(k, "enable", 2) /\ ~Does(k, "enable", 3) /\ ~Does(k, "create", 11)
      /\ ~Does(k, "delete", 2) /\ ~Does(k, "create", 12) /\ ~Does(k, "enable", 4)
  OBVIOUS
<1>3. ~Does(k, "purge", 2)
  BY <1>1, PurgeAlone DEF Sound, Does, Purging, Typed, KindsOK, OnInstance, Worker
<1>4. NeedsFile(task'[k]) => NeedsFile(task[k])
  BY <1>1, <1>2, <1>3, CameFrom
<1>5. ReadyAt(task'[k]) => ReadyAt(task[k]) /\ task'[k].ok = task[k].ok
  BY <1>1, <1>2, CameFrom
<1>6. /\ ~Does(k, "enable", 4)' /\ ~Does(k, "create", 12)'
      /\ task'[k].kind = "enable" /\ task'[k].at \in 2..4 => FALSE
      /\ task'[k].kind = "delete" /\ task'[k].at \in 3..4 =>
           task[k].kind = "delete" /\ task[k].at = 3
  <2>1. task[k].at \in 1..3 => task[k].at = 1 \/ task[k].at = 2 \/ task[k].at = 3
    OBVIOUS
  <2>2. task[k].at \in 2..3 => task[k].at = 2 \/ task[k].at = 3
    OBVIOUS
  <2> QED BY <1>1, <1>2, <2>1, <2>2, CameFrom DEF Does
<1>7. served' = served \union {k} => FALSE
  BY <1>2, NewlyServed
<1>8. task[k].kind = "delete" /\ task[k].at = 3 /\ k \in Id => stack[k] = "none"
  BY DEF Sound, Removed
<1> QED BY <1>4, <1>5, <1>6, <1>7, <1>8 DEF Respects, Sound, FileKept, ProxyReady, Known, Listed

LEMMA QuietSound ==
  ASSUME Careful, Sound, NEW k \in Worker, ~Purging,
         Assess(k) \/ KeepEntries(k) \/ WriteFiles(k) \/ RemoveDir(k)
         \/ (ReadInventory(k) /\ At(k, "look"))
  PROVE  Sound'
<1>1. Typed /\ Work(k)
  BY DEF Sound, Work, ServerStep, InstanceStep
<1>2. Advances(k) \/ Finishes(k)
  BY <1>1, PlainSteps, ReadingSteps
<1>3. UNCHANGED <<inventory, proxyFile, proxy, network, stack, excused>>
  BY DEF Assess, KeepEntries, WriteFiles, RemoveDir, ReadInventory
<1>4. PICK step \in {"assess", "keep", "secrets", "manifest", "rmdir", "look"} : At(k, step)
  BY DEF Assess, KeepEntries, WriteFiles, RemoveDir
<1>5. \/ Does(k, "create", 2) \/ Does(k, "create", 4) \/ Does(k, "create", 8)
      \/ Does(k, "create", 9) \/ Does(k, "create", 10) \/ Does(k, "init", 1)
      \/ Does(k, "init", 3) \/ Does(k, "delete", 3)
  BY <1>1, <1>4, StepOf DEF Does, Purging
<1>6. Respects(k)
  BY <1>1, <1>2, <1>3, <1>5, QuietRespects DEF Does
<1> QED BY <1>1, <1>6, RespectSound

LEMMA StatusSound ==
  ASSUME Careful, Sound, NEW k \in Worker, ReadStatus(k)
  PROVE  Sound'
<1>1. /\ Typed /\ Work(k) /\ Does(k, "create", 1) /\ k \in Id /\ Moves(k)
      /\ Same(task[k], task'[k]) /\ task'[k].at = IF inventory.there THEN 7 ELSE 2
      /\ served' = served
      /\ UNCHANGED <<inventory, proxyFile, proxy, network, files, stack, excused>>
  BY StatusStep DEF Sound, Work, ServerStep, ReadStatus
<1>2. ~Purging
  BY <1>1, PurgeAlone DEF Sound
<1>3. task'[k].kind = "create" /\ task'[k].at \in {2, 7}
  BY <1>1 DEF Same, Does
<1>4. NeedsFile(task'[k]) => proxyFile # "none"
  <2>1. task'[k].at = 2 => ~NeedsFile(task'[k])
    BY <1>3 DEF NeedsFile
  <2>2. inventory.there => proxyFile # "none"
    BY <1>2 DEF Sound, FileKept, Dismantling
  <2> QED BY <1>1, <2>1, <2>2
<1>5. ~ReadyAt(task'[k]) /\ ~Does(k, "create", 12)'
  BY <1>3 DEF ReadyAt, Does
<1>6. served' # served \union {k}
  BY <1>1, NewlyServed DEF Does
<1>7. Respects(k)
  BY <1>1, <1>3, <1>4, <1>5, <1>6 DEF Respects, Sound, Known, Listed, Does
<1> QED BY <1>1, <1>2, <1>7, RespectSound

LEMMA FileSound ==
  ASSUME Careful, Sound, NEW k \in Worker, WriteProxyFile(k)
  PROVE  Sound'
<1>1. /\ Typed /\ Work(k) /\ Running(k) /\ Moves(k)
      /\ UNCHANGED <<inventory, proxy, network, files, stack, excused>>
  BY WorkMoves DEF Sound, Work, ServerStep, WriteProxyFile, Moves
<1>2. Advances(k) \/ Finishes(k)
  BY <1>1, PlainSteps
<1>3. Does(k, "create", 3) \/ Does(k, "init", 2)
  BY <1>1, StepOf DEF WriteProxyFile
<1>4. ~Purging
  BY <1>1, <1>3, PurgeAlone DEF Sound, Does, Purging, Worker
<1>5. proxyFile' # "none"
  <2>1. proxyFile' = task[k].mode /\ task[k] \in Task
    BY <1>1, LastIs DEF WriteProxyFile
  <2> QED BY <2>1 DEF Task
<1>6. served' # served \union {k}
  BY <1>1, <1>3, NewlyServed DEF Does
<1>7. /\ ~ReadyAt(task'[k]) /\ ~Does(k, "create", 12)' /\ ~Does(k, "enable", 4)'
      /\ task'[k].kind \notin {"enable", "delete"}
  <2>1. ~ReadyAt(task[k])
    BY <1>3 DEF ReadyAt, Does
  <2>2. task'[k].kind \notin {"enable", "delete"}
    BY <1>2, <1>3, IdleIs DEF Advances, Finishes, Stops, Same, Does
  <2> QED BY <1>1, <1>2, <1>3, <2>1, <2>2, CameFrom DEF Does
<1>8. Respects(k)
  BY <1>1, <1>5, <1>6, <1>7 DEF Respects, Sound, Known, Listed
<1> QED BY <1>1, <1>4, <1>8, RespectSound

LEMMA RewriteSound ==
  ASSUME Careful, Sound, NEW k \in Worker, RewriteInventory(k)
  PROVE  Sound'
<1>1. /\ Typed /\ Work(k) /\ Running(k) /\ Moves(k)
      /\ UNCHANGED <<proxyFile, proxy, network, files, stack>>
  BY WorkMoves DEF Sound, Work, ServerStep, RewriteInventory, Moves
<1>2. Advances(k) \/ Finishes(k)
  BY <1>1, ReadingSteps
<1>3. Does(k, "create", 5) \/ Does(k, "init", 4)
  BY <1>1, StepOf DEF RewriteInventory
<1>4. ~Purging
  BY <1>1, <1>3, PurgeAlone DEF Sound, Does, Purging, Worker
<1>5. proxyFile # "none"
  <2>1. NeedsFile(task[k])
    BY <1>3 DEF NeedsFile, Does
  <2> QED BY <2>1 DEF Sound, FileKept
<1>6. /\ inventory'.there /\ (excused => excused')
      /\ ~excused' => \A i \in Id : Listed(i) <=> Listed(i)'
  BY DEF RewriteInventory, WriteBack, With, Listed
<1>7. served' # served \union {k}
  BY <1>1, <1>3, NewlyServed DEF Does
<1>8. /\ ~ReadyAt(task'[k]) /\ ~Does(k, "create", 12)' /\ ~Does(k, "enable", 4)'
      /\ task'[k].kind \notin {"enable", "delete"}
  <2>1. ~ReadyAt(task[k])
    BY <1>3 DEF ReadyAt, Does
  <2>2. task'[k].kind \notin {"enable", "delete"}
    BY <1>2, <1>3, IdleIs DEF Advances, Finishes, Stops, Same, Does
  <2> QED BY <1>1, <1>2, <1>3, <2>1, <2>2, CameFrom DEF Does
<1>9. Respects(k)
  BY <1>1, <1>5, <1>6, <1>7, <1>8 DEF Respects, Sound, Known
<1> QED BY <1>1, <1>4, <1>9, RespectSound

\* Either step leaves a proxy that is wanted running.
LEMMA ProxySound ==
  ASSUME Careful, Sound, NEW k \in Worker, StartNewProxy(k) \/ ensureProxyRunning(k)
  PROVE  Sound'
<1>1. /\ Typed /\ Work(k) /\ Running(k) /\ Moves(k)
      /\ UNCHANGED <<inventory, proxyFile, files, stack, excused>>
      /\ network => network'
  BY WorkMoves DEF Sound, Work, ServerStep, InstanceStep, StartNewProxy, ensureProxyRunning, Moves
<1>2. Advances(k) \/ Finishes(k)
  BY <1>1, PlainSteps
<1>3. \/ Does(k, "create", 6) \/ Does(k, "init", 5)
      \/ Does(k, "create", 7) \/ Does(k, "enable", 2) \/ Does(k, "start", 2)
  <2>1. CASE StartNewProxy(k)
    BY <1>1, <2>1, StepOf DEF StartNewProxy
  <2>2. CASE ensureProxyRunning(k)
    BY <1>1, <2>2, StepOf DEF ensureProxyRunning
  <2> QED BY <2>1, <2>2
<1>4. ~Purging
  BY <1>1, <1>3, PurgeAlone DEF Sound, Does, Purging, Worker
<1>5. proxy # "down" => proxy' # "down"
  BY DEF Sound, Typed, TypeOK, StartNewProxy, ensureProxyRunning, NeedsProxy, ProxyCanStart
<1>6. NeedsFile(task'[k]) => proxyFile # "none"
  <2>1. NeedsFile(task'[k]) => NeedsFile(task[k])
    BY <1>1, <1>2, <1>3, CameFrom DEF Does
  <2> QED BY <2>1 DEF Sound, FileKept
<1>7. /\ ~Does(k, "create", 12)' /\ ~Does(k, "enable", 4)' /\ task'[k].kind # "delete"
      /\ task'[k].kind = "enable" => task[k].kind = "enable" /\ task[k].at = 2
  <2>1. task'[k].kind \in {"none", task[k].kind}
    BY <1>2, IdleIs DEF Advances, Finishes, Stops, Same
  <2> QED BY <1>1, <1>2, <1>3, <2>1, CameFrom DEF Does
<1>8. ASSUME k \in Id, ReadyAt(task'[k]), Mode[k] = "production" PROVE proxy' # "down"
  <2>1. Does(k, "create", 7) \/ Does(k, "enable", 2)
    <3>1. ReadyAt(task[k]) => ~Does(k, "create", 6) /\ ~Does(k, "init", 5) /\ ~Does(k, "create", 7)
                              /\ ~Does(k, "enable", 2) /\ ~Does(k, "start", 2)
      BY DEF ReadyAt, Does
    <3> QED BY <1>1, <1>2, <1>3, <1>8, <3>1, CameFrom
  <2>2. NeedsFile(task[k])
    BY <2>1 DEF NeedsFile, Does
  <2>3. proxyFile # "none" /\ task[k].mode = "production"
    BY <1>1, <1>8, <2>2 DEF Sound, FileKept, Typed, KindsOK
  <2>4. ensureProxyRunning(k)
    <3>1. CASE StartNewProxy(k)
      <4>1. At(k, "proxy")
        BY <3>1 DEF StartNewProxy
      <4>2. Steps["create"][7] # "proxy" /\ Steps["enable"][2] # "proxy"
        BY CreateSteps, OtherSteps
      <4> QED BY <2>1, <4>1, <4>2 DEF At, Does
    <3> QED BY <3>1
  <2> QED BY <2>3, <2>4 DEF ensureProxyRunning, NeedsProxy, ProxyCanStart, Sound, Typed, TypeOK
<1>9. served' # served \union {k}
  BY <1>1, <1>3, NewlyServed DEF Does
<1>10. task'[k].kind = "enable" /\ k \in Id /\ ~excused' => Listed(k)
  BY <1>1, <1>7 DEF Sound, Known
<1>11. Respects(k)
  BY <1>1, <1>5, <1>6, <1>7, <1>8, <1>9, <1>10 DEF Respects, Sound, Known, Listed
<1> QED BY <1>1, <1>4, <1>11, RespectSound

\* A plan is made for an instance that is listed, on a server that is there.
LEMMA PlanSound ==
  ASSUME Careful, Sound, NEW k \in Worker, ReadInventory(k), At(k, "plan")
  PROVE  Sound'
<1>1. /\ Typed /\ Work(k) /\ Running(k) /\ Moves(k)
      /\ UNCHANGED <<inventory, proxyFile, proxy, network, files, stack, excused>>
  BY WorkMoves DEF Sound, Work, InstanceStep, ReadInventory, Moves
<1>2. Advances(k) \/ Finishes(k)
  BY <1>1, ReadingSteps
<1>3. k \in Id /\ (Does(k, "enable", 1) \/ Does(k, "disable", 1) \/ Does(k, "delete", 1))
  BY <1>1, StepOf
<1>4. ~Purging /\ On(k) = k
  BY <1>1, <1>3, PurgeAlone DEF Sound, Typed, KindsOK, On
<1>5. inventory.there /\ Listed(k)
  BY <1>4 DEF ReadInventory, Able
<1>6. proxyFile # "none"
  BY <1>4, <1>5 DEF Sound, FileKept, Dismantling
<1>7. served' # served \union {k}
  BY <1>1, <1>3, NewlyServed DEF Does
<1>8. /\ ~ReadyAt(task'[k]) /\ ~Does(k, "create", 12)' /\ ~Does(k, "enable", 4)'
      /\ ~(task'[k].kind = "delete" /\ task'[k].at \in 3..4)
  <2>1. ~ReadyAt(task[k])
    BY <1>3 DEF ReadyAt, Does
  <2>2. ~(task[k].at \in 2..3)
    BY <1>3 DEF Does
  <2> QED BY <1>1, <1>2, <1>3, <2>1, <2>2, CameFrom DEF Does
<1>9. Respects(k)
  BY <1>1, <1>5, <1>6, <1>7, <1>8 DEF Respects, Listed
<1> QED BY <1>1, <1>4, <1>9, RespectSound

LEMMA ChooseSound ==
  ASSUME Careful, Sound, ChooseMode
  PROVE  Sound'
<1> DEFINE k == Shell
<1>1. /\ Typed /\ Work(k) /\ Running(k) /\ Moves(k) /\ k \in Worker
      /\ Does(k, "start", 1) /\ task'[k].at = 2 /\ served' = served
      /\ UNCHANGED <<inventory, proxyFile, proxy, network, files, stack, excused>>
  BY ChooseStep DEF Sound, Work, ShellStep, ChooseMode, Moves, Worker
<1>2. ~Purging
  BY <1>1 DEF Does, Purging
<1>3. task'[k].kind \in {"none", "start"}
  BY <1>1, IdleIs DEF Moves, Does
<1>4. ~NeedsFile(task'[k]) /\ served' # served \union {k}
  BY <1>1, <1>3, NewlyServed DEF NeedsFile, Does
<1>5. Respects(k)
  BY <1>1, <1>4, ServerAssumption DEF Respects, Listed
<1> QED BY <1>1, <1>2, <1>5, RespectSound

\* Only the instance's own containers change: they come up on a network that is there,
\* or go.
LEMMA ComposeSound ==
  ASSUME Careful, Sound, NEW k \in Id, Compose(k)
  PROVE  Sound'
<1>0. k \in Worker
  BY DEF Worker
<1>1. /\ Typed /\ Work(k) /\ Running(k) /\ Moves(k)
      /\ UNCHANGED <<inventory, proxyFile, proxy, network, files, excused>>
  BY <1>0, WorkMoves DEF Sound, Work, InstanceStep, Compose, Moves
<1>2. Advances(k) \/ Finishes(k)
  BY <1>0, <1>1, PlainSteps
<1>3. ~Purging /\ On(k) = k
  BY <1>0, <1>1, PurgeAlone DEF Sound, Typed, KindsOK, On
<1>4. \/ At(k, "up") /\ (Does(k, "create", 12) \/ Does(k, "enable", 3))
      \/ At(k, "stop") /\ Does(k, "disable", 2)
      \/ At(k, "down") /\ Does(k, "delete", 2)
  <2>1. CASE At(k, "up")
    BY <1>0, <1>1, <2>1, StepOf, ServerAssumption
  <2>2. CASE At(k, "stop")
    BY <1>0, <1>1, <2>2, StepOf, ServerAssumption
  <2>3. CASE At(k, "down")
    BY <1>0, <1>1, <2>3, StepOf, ServerAssumption
  <2> QED BY <2>1, <2>2, <2>3 DEF Compose
<1>5. stack \in [Id -> {"none", "stopped", "up"}]
  BY <1>1 DEF Typed, TypeOK
<1>6. /\ \A i \in Id \ {k} : stack'[i] = stack[i]
      /\ At(k, "up") => stack'[k] = "up" /\ network
      /\ stack'[k] # "none" => At(k, "up") \/ (At(k, "stop") /\ stack[k] # "none")
  BY <1>3, <1>5 DEF Compose, Able
<1>7. /\ Does(k, "create", 12) \/ Does(k, "enable", 3) => At(k, "up")
      /\ Does(k, "delete", 2) => ~At(k, "up") /\ ~At(k, "stop")
  <2>1. /\ Steps["create"][12] = "up" /\ Steps["enable"][3] = "up" /\ Steps["delete"][2] = "down"
    BY CreateSteps, OtherSteps
  <2> QED BY <1>1, <2>1 DEF At, Does
<1>8. NeedsFile(task'[k]) => proxyFile # "none"
  <2>1. NeedsFile(task'[k]) => NeedsFile(task[k])
    BY <1>0, <1>1, <1>2, <1>4, CameFrom DEF Does
  <2> QED BY <1>0, <2>1 DEF Sound, FileKept
<1>9. task[k].ok /\ Mode[k] = "production" /\ ReadyAt(task[k]) => proxy # "down"
  BY DEF Sound, ProxyReady
<1>10. ReadyAt(task'[k]) => ReadyAt(task[k]) /\ task'[k].ok = task[k].ok
  BY <1>0, <1>1, <1>2, <1>4, CameFrom DEF Does
<1>11. Does(k, "enable", 4)' => Does(k, "enable", 3)
  BY <1>0, <1>1, <1>2, CameFrom
<1>12. served' = served \union {k} => task[k].ok /\ Does(k, "create", 12)
  BY <1>0, <1>1, <1>4, NewlyServed DEF Does
<1>13. task'[k].kind = "delete" => Does(k, "delete", 2)
  BY <1>0, <1>2, <1>4, IdleIs DEF Advances, Finishes, Stops, Same, Does
<1>14. ASSUME ~excused',
              \/ stack'[k] # "none" \/ Does(k, "create", 12)'
              \/ task'[k].kind = "enable" /\ task'[k].at \in 2..4
       PROVE  Listed(k)
  <2>1. ~Does(k, "create", 12)'
    BY <1>0, <1>1, <1>2, <1>4, CameFrom DEF Does
  <2>2. task'[k].kind = "enable" => Does(k, "enable", 3)
    BY <1>0, <1>2, <1>4, IdleIs DEF Advances, Finishes, Stops, Same, Does
  <2>3. stack'[k] # "none" => Does(k, "create", 12) \/ Does(k, "enable", 3) \/ stack[k] # "none"
    <3>1. At(k, "up") => Does(k, "create", 12) \/ Does(k, "enable", 3)
      BY <1>0, <1>1, StepOf, ServerAssumption
    <3> QED BY <1>6, <3>1
  <2>4. Does(k, "enable", 3) => task[k].kind = "enable" /\ task[k].at \in 2..4
    BY DEF Does
  <2> QED BY <1>1, <1>14, <2>1, <2>2, <2>3, <2>4 DEF Sound, Known
<1>15. Does(k, "create", 12) => ReadyAt(task[k])
  BY DEF ReadyAt, Does
<1>16. Respects(k)
  <2>1. task'[k].kind = "delete" => stack'[k] = "none"
    BY <1>6, <1>7, <1>13
  <2>2. /\ Does(k, "enable", 4)' => stack'[k] = "up" /\ network'
        /\ served' = served \union {k} => stack'[k] = "up" /\ network'
    BY <1>1, <1>6, <1>7, <1>11, <1>12
  <2>3. /\ ReadyAt(task'[k]) /\ task'[k].ok /\ Mode[k] = "production" => proxy' # "down"
        /\ served' = served \union {k} /\ Mode[k] = "production" => proxy' # "down"
    BY <1>1, <1>9, <1>10, <1>12, <1>15
  <2> QED BY <1>1, <1>6, <1>8, <1>14, <2>1, <2>2, <2>3 DEF Respects, Listed
<1> QED BY <1>0, <1>1, <1>3, <1>16, RespectSound

\* The entry of the instance is set, and the others are as they were read.
LEMMA EntrySound ==
  ASSUME Careful, Sound, NEW k \in Id, WriteEntry(k)
  PROVE  Sound'
<1>0. k \in Worker /\ k # Shell
  BY ServerAssumption DEF Worker
<1>1. /\ Typed /\ Work(k) /\ Running(k) /\ Moves(k)
      /\ UNCHANGED <<proxyFile, proxy, network, files, stack>>
  BY <1>0, WorkMoves DEF Sound, Work, InstanceStep, WriteEntry, Moves
<1>2. Advances(k) \/ Finishes(k)
  BY <1>0, <1>1, EntryStep
<1>3. ~Purging /\ task[k].on = k
  BY <1>0, <1>1, PurgeAlone DEF Sound, Typed, KindsOK
<1>4. \/ Does(k, "create", 11) \/ Does(k, "enable", 4) \/ Does(k, "disable", 3)
      \/ Does(k, "delete", 4)
  <2>1. CASE At(k, "register")
    BY <1>0, <1>1, <2>1, StepOf
  <2>2. CASE At(k, "mark")
    BY <1>0, <1>1, <2>2, StepOf
  <2> QED BY <2>1, <2>2 DEF WriteEntry
<1>5. proxyFile # "none"
  <2>1. NeedsFile(task[k])
    BY <1>4 DEF NeedsFile, Does
  <2> QED BY <1>0, <2>1 DEF Sound, FileKept
<1>6. /\ inventory'.there /\ (excused => excused')
      /\ inventory'.entries = [task[k].seen EXCEPT ![task[k].on] = Status(task[k].kind)]
      /\ ~excused' => ~excused /\ task[k].seen = inventory.entries
  BY DEF WriteEntry, WriteBack, With
<1>7. inventory.entries \in [Id -> {"unlisted", "active", "disabled"}]
  BY <1>1 DEF Typed, TypeOK
<1>8. ~excused' => /\ \A i \in Id \ {k} : Listed(i)' <=> Listed(i)
                   /\ task[k].kind # "delete" => Listed(k)'
  BY <1>3, <1>4, <1>6, <1>7 DEF Listed, Status, Does
<1>9. /\ ~Does(k, "enable", 4)' /\ task'[k].kind # "delete"
      /\ NeedsFile(task'[k]) => NeedsFile(task[k])
      /\ ReadyAt(task'[k]) => ReadyAt(task[k]) /\ task'[k].ok = task[k].ok
      /\ ~(task'[k].kind = "enable" /\ task'[k].at \in 2..4)
      /\ Does(k, "create", 12)' => task[k].kind = "create"
  <2>1. /\ task'[k].kind = "none" \/ Advances(k)
        /\ task'[k].kind \in {"none", task[k].kind}
    BY <1>2, IdleIs DEF Advances, Finishes, Stops, Same
  <2>2. Last(k) = IF task[k].kind = "create" THEN 12 ELSE IF task[k].kind = "disable" THEN 3 ELSE 4
    BY <1>4, LengthsAre DEF Last, Does
  <2>3. Advances(k) => task[k].kind = "create"
    BY <1>4, <2>2 DEF Advances, Does
  <2> QED BY <1>0, <1>1, <1>2, <1>4, <2>1, <2>3, CameFrom DEF Does
<1>10. task[k].ok /\ Mode[k] = "production" /\ ReadyAt(task[k]) => proxy # "down"
  BY DEF Sound, ProxyReady
<1>11. served' = served \union {k} => task[k].ok /\ Does(k, "enable", 4)
  BY <1>0, <1>1, <1>4, NewlyServed DEF Does
<1>12. Does(k, "enable", 4) => ReadyAt(task[k]) /\ stack[k] = "up" /\ network
  BY DEF Sound, ProxyReady, ReadyAt, Does
<1>13. task[k].kind = "delete" => stack[k] = "none" /\ ~Does(k, "create", 12)'
  BY <1>4, <1>9 DEF Sound, Removed, Does
<1>14. Respects(k)
  BY <1>1, <1>5, <1>6, <1>8, <1>9, <1>10, <1>11, <1>12, <1>13 DEF Respects
<1> QED BY <1>0, <1>1, <1>3, <1>14, RespectSound

----------------------------------------------------------------------------
(* The steps of a purge *)

\* What a step of a purge has to respect.
PurgeRespects ==
  /\ inventory'.there => proxyFile' # "none" \/ Dismantling'
  /\ ~inventory'.there => inventory'.entries = NoEntries
  /\ Purging' /\ task'[Shell].at \in 3..5 => proxyFile' # "none"
  /\ ~excused' => \A i \in Id : stack'[i] # "none" => Listed(i)'
  /\ Purging' /\ task'[Shell].at \in 4..5 => stack'[task'[Shell].on] = "none"
  /\ Purging' /\ task'[Shell].at = 5 => files'[task'[Shell].on] = "none"
  /\ Purges' /\ Clean'

LEMMA PurgeRespectSound ==
  ASSUME Careful, Sound, Work(Shell), Purging, PurgeRespects
  PROVE  Sound'
<1>1. Typed /\ Typed' /\ Moves(Shell) /\ Alone /\ Shell \in Worker
  BY TypedNext, WorkMoves DEF Sound, Next, Worker
<1>2. /\ \A i \in Id : task'[i] = task[i] /\ task[i].kind = "none"
      /\ served = {} /\ served' = {}
  BY <1>1, WorkMoves, ServerAssumption DEF Alone, Moves, Others, Running, Worker
<1>3. task'[Shell].kind \in {"none", "purge"}
  BY <1>1, IdleIs DEF Moves, Purging
<1>4. Alone'
  BY <1>1, <1>2, AloneMoves, WorkMoves
<1>5. FileKept'
  <2>1. \A w \in Worker : NeedsFile(task'[w]) => Purging' /\ task'[Shell].at \in 3..5
    BY <1>2, <1>3 DEF NeedsFile, Worker, Purging
  <2> QED BY <2>1 DEF FileKept, PurgeRespects
<1>6. ProxyReady' /\ Serving'
  BY <1>2 DEF ProxyReady, ReadyAt, Does, Serving, ProxyServes
<1>7. Known' /\ Removed'
  BY <1>2 DEF Known, Removed, PurgeRespects, Does
<1> QED BY <1>1, <1>4, <1>5, <1>6, <1>7 DEF Sound, PurgeRespects

LEMMA PurgeGoesOn ==
  ASSUME Sound, Purging, task[Shell].at \in 1..8, Advances(Shell) \/ Finishes(Shell)
  PROVE  /\ Advances(Shell) /\ task'[Shell].at = task[Shell].at + 1 /\ Purging'
         /\ Same(task[Shell], task'[Shell]) /\ purged' = FALSE
<1>1. Last(Shell) = 9
  BY LengthsAre DEF Last, Purging
<1>2. ~Finishes(Shell)
  BY <1>1 DEF Finishes
<1> QED BY <1>2 DEF Advances, Same, Purging

LEMMA ListSound ==
  ASSUME Careful, Sound, ListInstances
  PROVE  Sound'
<1>1. /\ Typed /\ Work(Shell) /\ Does(Shell, "purge", 1) /\ task'[Shell].at = 2
      /\ task'[Shell].kind = "purge" /\ task'[Shell].ok = task[Shell].ok
      /\ task'[Shell].todo = {i \in Id : Listed(i)}
      /\ task'[Shell].left = {i \in Dirs : ~Listed(i)} /\ purged' = FALSE
      /\ UNCHANGED <<inventory, proxyFile, files, stack, excused>>
  BY ListStep DEF Sound, Work, ShellStep, ListInstances
<1>2. Purging /\ Purging' /\ ~Dismantling
  BY <1>1 DEF Does, Purging, Dismantling
<1>3. Purges'
  BY <1>1 DEF Purges, Listed, Dirs
<1>4. PurgeRespects
  BY <1>1, <1>2, <1>3 DEF PurgeRespects, Sound, FileKept, Known, Listed, Clean
<1> QED BY <1>1, <1>2, <1>4, PurgeRespectSound

LEMMA SweepSound ==
  ASSUME Careful, Sound, Sweep
  PROVE  Sound'
<1>1. /\ Typed /\ Work(Shell) /\ Does(Shell, "purge", 2) /\ task'[Shell].kind = "purge"
      /\ task'[Shell].left = task[Shell].left /\ purged' = FALSE
      /\ UNCHANGED <<inventory, proxyFile, files, stack, excused>>
  BY SweepStep DEF Sound, Work, ShellStep, Sweep
<1>2. Purging /\ Purging' /\ ~Dismantling /\ task[Shell].at = 2
  BY <1>1 DEF Does, Purging, Dismantling
<1>3. ASSUME task[Shell].ok, ~excused
      PROVE  /\ \A i \in Id : Listed(i) => i \in task[Shell].todo
             /\ \A i \in Dirs : Listed(i) \/ i \in task[Shell].left
  BY <1>2, <1>3 DEF Sound, Purges
<1>4. CASE task[Shell].todo = {} /\ task'[Shell].at = 6 /\ task'[Shell].ok = task[Shell].ok
  <2>1. Purges'
    BY <1>1, <1>3, <1>4 DEF Purges, Listed, Dirs
  <2>2. PurgeRespects
    BY <1>1, <1>2, <1>4, <2>1 DEF PurgeRespects, Sound, FileKept, Known, Listed, Clean
  <2> QED BY <1>1, <1>2, <2>2, PurgeRespectSound
<1>5. ASSUME NEW i \in task[Shell].todo,
             /\ task'[Shell].todo = task[Shell].todo \ {i}
             /\ task'[Shell].on = i /\ i \in Id
             /\ \/ /\ Listed(i) /\ task'[Shell].at = 3
                   /\ task'[Shell].ok = task[Shell].ok
                \/ task'[Shell].at = 2 /\ task'[Shell].ok = FALSE
      PROVE  Sound'
  <2>1. Purges'
    <3>1. CASE task'[Shell].ok = FALSE
      BY <3>1 DEF Purges
    <3>2. CASE task'[Shell].at = 3 /\ task'[Shell].ok = task[Shell].ok
      <4> SUFFICES ASSUME task[Shell].ok, ~excused
                   PROVE  /\ \A j \in Id : Listed(j) => j \in task[Shell].todo \ {i} \/ j = i
                          /\ \A j \in Dirs : Listed(j) \/ j \in task[Shell].left
        BY <1>1, <1>5, <3>2 DEF Purges, Listed, Dirs
      <4> QED BY <1>3
    <3> QED BY <1>5, <3>1, <3>2
  <2>2. Listed(i) => proxyFile # "none"
    BY <1>2, <1>5 DEF Sound, FileKept, Listed, NoEntries
  <2>3. PurgeRespects
    BY <1>1, <1>2, <1>5, <2>1, <2>2 DEF PurgeRespects, Sound, FileKept, Known, Listed, Clean
  <2> QED BY <1>1, <1>2, <2>3, PurgeRespectSound
<1> QED BY <1>1, <1>4, <1>5, SweepStep

\* Containers, directory and entry of one instance, in this order.
LEMMA DismantleSound ==
  ASSUME Careful, Sound, Purging, Compose(Shell) \/ RemoveDir(Shell) \/ WriteEntry(Shell)
  PROVE  Sound'
<1> DEFINE on == task[Shell].on
<1>1. Typed /\ Work(Shell) /\ Shell \in Worker /\ UNCHANGED <<proxyFile, proxy, network>>
  BY DEF Sound, Work, InstanceStep, Worker, Compose, RemoveDir, WriteEntry
<1>2. /\ inventory.entries \in [Id -> {"unlisted", "active", "disabled"}]
      /\ files \in [Id -> {"none", "partial", "whole"}]
      /\ stack \in [Id -> {"none", "stopped", "up"}]
  BY <1>1 DEF Typed, TypeOK
<1>3. CASE Compose(Shell)
  <2>1. At(Shell, "down") /\ Does(Shell, "purge", 3)
    <3>1. At(Shell, "up") => Does(Shell, "create", 12) \/ Does(Shell, "enable", 3)
      BY <1>1, StepOf
    <3>2. At(Shell, "stop") => Does(Shell, "disable", 2)
      BY <1>1, StepOf
    <3>3. At(Shell, "down") => Does(Shell, "purge", 3)
      BY <1>1, StepOf, ServerAssumption
    <3> QED BY <1>3, <3>1, <3>2, <3>3 DEF Compose, Does, Purging
  <2>2. on \in Id /\ proxyFile # "none"
    BY <1>1, <2>1 DEF Sound, Typed, KindsOK, FileKept, NeedsFile, Purging, Does
  <2>3. Advances(Shell) \/ Finishes(Shell)
    BY <1>1, <1>3, PlainSteps
  <2>4. /\ task'[Shell].at = 4 /\ Purging' /\ Same(task[Shell], task'[Shell]) /\ purged' = FALSE
    <3>1. task[Shell].at = 3 /\ task[Shell].at \in 1..8
      BY <2>1 DEF Does
    <3>2. /\ task'[Shell].at = task[Shell].at + 1 /\ Purging' /\ purged' = FALSE
          /\ Same(task[Shell], task'[Shell])
      BY <2>3, <3>1, PurgeGoesOn
    <3> QED BY <3>1, <3>2
  <2>5. /\ stack' = [stack EXCEPT ![on] = "none"]
        /\ UNCHANGED <<inventory, files, excused>>
    <3>1. ~At(Shell, "up") /\ ~At(Shell, "stop")
      BY <2>1, OtherSteps DEF At, Does
    <3> QED BY <1>3, <3>1 DEF Compose, On
  <2>6. Purges'
    BY <2>1, <2>4, <2>5 DEF Sound, Purges, Same, Listed, Dirs, Does
  <2>7. PurgeRespects
    BY <1>1, <1>2, <2>2, <2>4, <2>5, <2>6
      DEF PurgeRespects, Sound, FileKept, Known, Listed, Clean, Same
  <2> QED BY <1>1, <2>7, PurgeRespectSound
<1>4. CASE RemoveDir(Shell)
  <2>1. Does(Shell, "purge", 4)
    BY <1>1, <1>4, StepOf, ServerAssumption DEF RemoveDir
  <2>2. on \in Id /\ proxyFile # "none" /\ stack[on] = "none"
    BY <1>1, <2>1 DEF Sound, Typed, KindsOK, FileKept, NeedsFile, Removed, Purging, Does
  <2>3. Advances(Shell) \/ Finishes(Shell)
    BY <1>1, <1>4, PlainSteps
  <2>4. /\ task'[Shell].at = 5 /\ Purging' /\ Same(task[Shell], task'[Shell]) /\ purged' = FALSE
    <3>1. task[Shell].at = 4 /\ task[Shell].at \in 1..8
      BY <2>1 DEF Does
    <3>2. /\ task'[Shell].at = task[Shell].at + 1 /\ Purging' /\ purged' = FALSE
          /\ Same(task[Shell], task'[Shell])
      BY <2>3, <3>1, PurgeGoesOn
    <3> QED BY <3>1, <3>2
  <2>5. /\ files' = [files EXCEPT ![on] = "none"]
        /\ UNCHANGED <<inventory, stack, excused>>
    BY <1>4 DEF RemoveDir, On
  <2>6. Purges'
    <3>1. Dirs' \subseteq Dirs
      BY <1>2, <2>5 DEF Dirs
    <3> QED BY <2>1, <2>4, <2>5, <3>1 DEF Sound, Purges, Same, Listed, Does
  <2>7. PurgeRespects
    BY <1>1, <1>2, <2>2, <2>4, <2>5, <2>6
      DEF PurgeRespects, Sound, FileKept, Known, Listed, Clean, Same
  <2> QED BY <1>1, <2>7, PurgeRespectSound
<1>5. CASE WriteEntry(Shell)
  <2>1. /\ Does(Shell, "purge", 5) /\ Same(task[Shell], task'[Shell])
        /\ task'[Shell].at = 2 /\ purged' = FALSE
    BY <1>1, <1>5, EntryStep
  <2>2. /\ on \in Id /\ proxyFile # "none" /\ stack[on] = "none" /\ files[on] = "none"
        /\ Purging'
    BY <1>1, <2>1 DEF Sound, Typed, KindsOK, FileKept, NeedsFile, Removed, Purging, Does, Same
  <2>3. /\ inventory'.there /\ UNCHANGED <<files, stack>>
        /\ inventory'.entries = [task[Shell].seen EXCEPT ![on] = "unlisted"]
        /\ ~excused' => ~excused /\ task[Shell].seen = inventory.entries
    BY <1>5, <2>1 DEF WriteEntry, WriteBack, With, Status, Does
  <2>4. ASSUME ~excused', NEW i \in Id
        PROVE  Listed(i)' <=> Listed(i) /\ i # on
    <3>1. inventory'.entries = [inventory.entries EXCEPT ![on] = "unlisted"]
      BY <2>3, <2>4
    <3> QED BY <1>2, <2>2, <3>1 DEF Listed
  <2>5. Purges'
    <3> SUFFICES ASSUME task[Shell].ok, ~excused'
                 PROVE  /\ \A i \in Id : Listed(i)' => i \in task[Shell].todo
                        /\ \A i \in Dirs : Listed(i)' \/ i \in task[Shell].left
      BY <2>1, <2>3 DEF Purges, Same, Dirs
    <3>1. /\ \A i \in Id : Listed(i) => i \in task[Shell].todo \/ i = on
          /\ \A i \in Dirs : Listed(i) \/ i \in task[Shell].left
      BY <2>1, <2>3 DEF Sound, Purges, Does
    <3>2. \A i \in Dirs : i \in Id /\ i # on
      BY <2>2 DEF Dirs
    <3> QED BY <2>4, <3>1, <3>2
  <2>6. PurgeRespects
    BY <1>1, <2>1, <2>2, <2>3, <2>4, <2>5 DEF PurgeRespects, Sound, Known, Clean
  <2> QED BY <1>1, <2>6, PurgeRespectSound
<1> QED BY <1>3, <1>4, <1>5

\* Proxy, network, inventory and directories, once no instance is listed any more.
LEMMA DropSound ==
  ASSUME Careful, Sound, DropProxy \/ DropNetwork \/ Forget \/ DropDirs
  PROVE  Sound'
<1> DEFINE t == task[Shell]
<1>1. Typed /\ Work(Shell) /\ Shell \in Worker
  BY DEF Sound, Work, ShellStep, Worker
<1>2. Advances(Shell) \/ Finishes(Shell)
  BY <1>1, PlainSteps
<1>3. CASE DropProxy
  <2>1. Does(Shell, "purge", 6) /\ Purging
    BY <1>1, <1>3, StepOf, ServerAssumption DEF DropProxy, Does, Purging
  <2>2. /\ task'[Shell].at = 7 /\ Purging' /\ Same(t, task'[Shell]) /\ purged' = FALSE
        /\ proxyFile' = "none" /\ UNCHANGED <<inventory, files, stack, excused>>
    <3>1. task[Shell].at = 6 /\ task[Shell].at \in 1..8
      BY <2>1 DEF Does
    <3>2. /\ task'[Shell].at = task[Shell].at + 1 /\ Purging' /\ purged' = FALSE
          /\ Same(task[Shell], task'[Shell])
      BY <1>2, <2>1, <3>1, PurgeGoesOn
    <3> QED BY <1>3, <3>1, <3>2 DEF DropProxy
  <2>3. Purges' /\ Dismantling'
    BY <2>1, <2>2 DEF Sound, Purges, Dismantling, Same, Listed, Dirs, Does
  <2>4. PurgeRespects
    BY <2>2, <2>3 DEF PurgeRespects, Sound, FileKept, Known, Listed, Clean
  <2> QED BY <1>1, <2>1, <2>4, PurgeRespectSound
<1>4. CASE DropNetwork
  <2>1. Does(Shell, "purge", 7) /\ Purging
    BY <1>1, <1>4, StepOf, ServerAssumption DEF DropNetwork, Does, Purging
  <2>2. /\ task'[Shell].at = 8 /\ Purging' /\ Same(t, task'[Shell]) /\ purged' = FALSE
        /\ UNCHANGED <<inventory, proxyFile, files, stack, excused>>
    <3>1. task[Shell].at = 7 /\ task[Shell].at \in 1..8
      BY <2>1 DEF Does
    <3>2. /\ task'[Shell].at = task[Shell].at + 1 /\ Purging' /\ purged' = FALSE
          /\ Same(task[Shell], task'[Shell])
      BY <1>2, <2>1, <3>1, PurgeGoesOn
    <3> QED BY <1>4, <3>1, <3>2 DEF DropNetwork
  <2>3. Purges' /\ Dismantling'
    BY <2>1, <2>2 DEF Sound, Purges, Dismantling, Same, Listed, Dirs, Does
  <2>4. PurgeRespects
    BY <2>2, <2>3 DEF PurgeRespects, Sound, FileKept, Known, Listed, Clean
  <2> QED BY <1>1, <2>1, <2>4, PurgeRespectSound
<1>5. CASE Forget
  <2>1. Does(Shell, "purge", 8) /\ Purging
    BY <1>1, <1>5, StepOf, ServerAssumption DEF Forget, Does, Purging
  <2>2. /\ task'[Shell].at = 9 /\ Purging' /\ Same(t, task'[Shell]) /\ purged' = FALSE
        /\ UNCHANGED <<proxyFile, files, stack>>
        /\ ~inventory'.there /\ inventory'.entries = NoEntries
        /\ ~excused' => ~excused /\ t.ok
    <3>1. task[Shell].at = 8 /\ task[Shell].at \in 1..8
      BY <2>1 DEF Does
    <3>2. /\ task'[Shell].at = task[Shell].at + 1 /\ Purging' /\ purged' = FALSE
          /\ Same(task[Shell], task'[Shell])
      BY <1>2, <2>1, <3>1, PurgeGoesOn
    <3>3. inventory' = Unmanaged /\ excused' = (excused \/ ~t.ok) /\ UNCHANGED <<proxyFile, files, stack>>
      BY <1>5 DEF Forget
    <3>4. ~inventory'.there /\ inventory'.entries = NoEntries
      BY <3>3 DEF Unmanaged
    <3>5. ~excused' => ~excused /\ t.ok
      BY <3>3
    <3> QED BY <3>1, <3>2, <3>3, <3>4, <3>5
  <2>3. ~excused' => \A i \in Id : ~Listed(i) /\ ~Listed(i)'
    BY <2>1, <2>2 DEF Sound, Purges, Listed, NoEntries, Does
  <2>4. Purges'
    BY <2>1, <2>2, <2>3 DEF Sound, Purges, Same, Dirs, Does
  <2>5. PurgeRespects
    BY <2>2, <2>3, <2>4 DEF PurgeRespects, Sound, Known, Clean
  <2> QED BY <1>1, <2>1, <2>5, PurgeRespectSound
<1>6. CASE DropDirs
  <2>1. Does(Shell, "purge", 9) /\ Purging
    BY <1>1, <1>6, StepOf, ServerAssumption DEF DropDirs, Does, Purging
  <2>2. Last(Shell) = 9
    BY <2>1, LengthsAre DEF Last, Does
  <2>3. Finishes(Shell)
    BY <1>2, <2>1, <2>2 DEF Advances, Does
  <2>4. /\ ~Purging' /\ (purged' => t.ok /\ (t.all \/ t.left = {}))
        /\ UNCHANGED <<inventory, proxyFile, stack, excused>>
        /\ files' = IF t.all THEN [i \in Id |-> "none"] ELSE files
    BY <1>1, <1>6, <2>3, IdleIs DEF Finishes, Stops, Purging, DropDirs
  <2>5. Clean'
    <3> SUFFICES ASSUME purged', ~excused
                 PROVE  ~inventory.there /\ proxyFile = "none" /\ Dirs' = {}
      BY <2>4 DEF Clean
    <3>1. /\ ~inventory.there /\ proxyFile = "none"
          /\ \A i \in Dirs : Listed(i) \/ i \in t.left
          /\ \A i \in Id : ~Listed(i)
      BY <2>1, <2>4 DEF Sound, Purges, Does
    <3>2. Dirs' = {}
      BY <2>4, <3>1 DEF Dirs
    <3> QED BY <3>1, <3>2
  <2>6. PurgeRespects
    BY <2>1, <2>4, <2>5 DEF PurgeRespects, Sound, FileKept, Known, Listed, Purges, Dismantling, Does
  <2> QED BY <1>1, <2>1, <2>6, PurgeRespectSound
<1> QED BY <1>3, <1>4, <1>5, <1>6

----------------------------------------------------------------------------
(* Theorems *)

LEMMA SoundInit == Init => Sound
<1> SUFFICES ASSUME Init PROVE Sound
  OBVIOUS
<1>1. /\ \A k \in Worker : task[k] = Idle
      /\ task[Shell].kind = "none" /\ ~inventory.there /\ inventory.entries = NoEntries
      /\ served = {} /\ purged = FALSE /\ excused = FALSE
      /\ \A i \in Id : stack[i] = "none"
  BY IdleIs DEF Init, Unmanaged, Worker
<1>2. Alone /\ FileKept /\ Removed /\ Purges /\ Clean
  BY <1>1, IdleIs DEF Alone, FileKept, Removed, Purges, Clean, Purging, Running, NeedsFile,
    Dismantling, Worker
<1>3. ProxyReady /\ Serving /\ Known
  BY <1>1, IdleIs DEF ProxyReady, ReadyAt, Serving, ProxyServes, Known, Does, Worker
<1> QED BY <1>2, <1>3, TypedInit DEF Sound

LEMMA SoundNext ==
  ASSUME Careful, Sound, [Next]_vars
  PROVE  Sound'
<1>1. CASE Asked
  BY <1>1, BeginsSound
<1>2. ASSUME NEW k \in Worker, Work(k) PROVE Sound'
  <2>1. Typed /\ Moves(k) /\ (Purging => k = Shell)
    BY <1>2, WorkMoves, PurgeAlone DEF Sound
  <2>2. k \in Id \/ k = Shell
    BY DEF Worker
  <2>3. CASE ReadStatus(k) \/ WriteProxyFile(k) \/ RewriteInventory(k) \/ StartNewProxy(k)
             \/ ensureProxyRunning(k) \/ Refused(k)
    BY <2>3, StatusSound, FileSound, RewriteSound, ProxySound, FailsSound
  <2>4. CASE ReadInventory(k) /\ At(k, "plan")
    BY <2>4, PlanSound
  <2>5. CASE Assess(k) \/ KeepEntries(k) \/ WriteFiles(k) \/ (ReadInventory(k) /\ At(k, "look"))
    <3>1. ~Purging
      <4> SUFFICES ASSUME Purging, k = Shell PROVE FALSE
        BY <2>1
      <4>1. PICK step \in {"assess", "keep", "secrets", "manifest", "look"} : At(k, step)
        BY <2>5 DEF Assess, KeepEntries, WriteFiles
      <4> QED BY <2>1, <4>1, StepOf, ServerAssumption DEF Does, Purging
    <3> QED BY <2>5, <3>1, QuietSound
  <2>6. CASE Compose(k) \/ RemoveDir(k) \/ WriteEntry(k)
    <3>1. CASE k \in Id
      BY <2>1, <2>6, <3>1, ServerAssumption, ComposeSound, QuietSound, EntrySound
    <3>2. CASE k = Shell
      <4>1. PICK step \in {"up", "stop", "down", "rmdir", "register", "mark"} : At(k, step)
        BY <2>6 DEF Compose, RemoveDir, WriteEntry
      <4>2. Purging
        BY <2>1, <3>2, <4>1, StepOf, ServerAssumption DEF Does, Purging
      <4> QED BY <2>6, <3>2, <4>2, DismantleSound
    <3> QED BY <2>2, <3>1, <3>2
  <2>7. CASE k = Shell /\ ShellStep
    BY <2>7, ChooseSound, ListSound, SweepSound, DropSound DEF ShellStep
  <2> QED BY <1>2, <2>3, <2>4, <2>5, <2>6, <2>7 DEF Work, ServerStep, InstanceStep, ReadInventory
<1>3. ASSUME NEW k \in Worker, Fails(k) PROVE Sound'
  BY <1>3, FailsSound
<1>4. ASSUME NEW k \in Worker, ProxyReplaceFails(k) PROVE Sound'
  BY <1>4, ReplaceSound
<1>5. CASE Host \/ UNCHANGED vars
  BY <1>5, HostSound
<1> QED BY <1>1, <1>2, <1>3, <1>4, <1>5 DEF Next, Asked

LEMMA SoundAlways ==
  ASSUME Careful
  PROVE  Spec => []Sound
<1>1. Sound /\ [Next]_vars => Sound'
  BY SoundNext
<1> QED BY <1>1, SoundInit, PTL DEF Spec

\* An instance whose create or enable has succeeded runs on the shared network and, in
\* production, behind a running proxy, however the operations of the server interleave,
\* fail and crash (ensureProxyRunning, serverInit).
THEOREM ServedBehindProxy == ASSUME Careful PROVE Spec => []ProxyServes
<1>1. Sound => ProxyServes
  BY DEF Sound, Serving
<1> QED BY <1>1, SoundAlways, PTL

\* No instance with containers is missing from the inventory: neither a bootstrap that is
\* repeated nor a removal that stops half-way drops the entry of one that is still there,
\* unless two operations wrote the inventory at once or a purge ended with errors.
THEOREM NothingIsOrphaned == ASSUME Careful PROVE Spec => []NothingOrphaned
<1>1. Sound => NothingOrphaned
  BY DEF Sound, Known, NothingOrphaned
<1> QED BY <1>1, SoundAlways, PTL

\* A purge that reports success leaves a target the next `server init` finds clean.
THEOREM PurgeLeavesCleanSlate == ASSUME Careful PROVE Spec => []CleanSlate
<1>1. Sound => CleanSlate
  BY DEF Sound, Clean, CleanSlate, assessBootstrapTarget
<1> QED BY <1>1, SoundAlways, PTL
==============================================================================
