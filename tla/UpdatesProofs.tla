---------------------------- MODULE UpdatesProofs ----------------------------
(* Theorems about Updates, for any releases and bounds.                     *)
EXTENDS Updates, TLAPS

-----------------------------------------------------------------------------
(* Where each step stands on its path.                                      *)

LEMMA CorePlaces ==
    /\ Len(CorePath) = 15
    /\ \A p \in 1..15 :
        /\ CorePath[p] = "backup"   => p = 1
        /\ CorePath[p] = "snapshot" => p = 2
        /\ CorePath[p] = "enter"    => p = 3 \/ p = 11
        /\ CorePath[p] = "stop"     => p = 4
        /\ CorePath[p] = "pull"     => p = 5
        /\ CorePath[p] = "compose"  => p = 6
        /\ CorePath[p] = "env"      => p = 7
        /\ CorePath[p] = "manifest" => p = 8
        /\ CorePath[p] = "lock"     => p = 9
        /\ CorePath[p] = "up"       => p = 10
        /\ CorePath[p] = "migrate"  => p = 12
        /\ CorePath[p] = "plugins"  => p = 13
        /\ CorePath[p] = "health"   => p = 14
        /\ CorePath[p] = "exit"     => p = 15
        /\ CorePath[p] # "remount"
        /\ CorePath[p] \in {"migrate", "plugins", "health"} => p > 11
<1>1. Len(CorePath) = 15
  BY DEF CorePath
<1>2. ASSUME NEW p \in 1..15
      PROVE  \/ p = 1 \/ p = 2 \/ p = 3 \/ p = 4 \/ p = 5 \/ p = 6 \/ p = 7 \/ p = 8
             \/ p = 9 \/ p = 10 \/ p = 11 \/ p = 12 \/ p = 13 \/ p = 14 \/ p = 15
  OBVIOUS
<1> QED
  BY <1>1, <1>2 DEF CorePath

LEMMA LightPlaces ==
    /\ FrontendPath = PreviewPath
    /\ Len(FrontendPath) = 9
    /\ \A p \in 1..9 :
        /\ FrontendPath[p] = "snapshot" => p = 1
        /\ FrontendPath[p] = "compose"  => p = 2
        /\ FrontendPath[p] = "env"      => p = 3
        /\ FrontendPath[p] = "manifest" => p = 4
        /\ FrontendPath[p] = "lock"     => p = 5
        /\ FrontendPath[p] = "pull"     => p = 6
        /\ FrontendPath[p] = "up"       => p = 7
        /\ FrontendPath[p] = "remount"  => p = 8
        /\ FrontendPath[p] = "health"   => p = 9
        /\ FrontendPath[p] \notin {"backup", "enter", "stop", "migrate", "plugins", "exit"}
<1>1. Len(FrontendPath) = 9 /\ FrontendPath = PreviewPath
  BY DEF FrontendPath, PreviewPath
<1>2. ASSUME NEW p \in 1..9
      PROVE  \/ p = 1 \/ p = 2 \/ p = 3 \/ p = 4 \/ p = 5 \/ p = 6 \/ p = 7 \/ p = 8 \/ p = 9
  OBVIOUS
<1> QED
  BY <1>1, <1>2 DEF FrontendPath

LEMMA UndoPlaces ==
    /\ UndoCore = UndoPreview
    /\ Len(UndoCore) = 5 /\ Len(UndoFrontend) = 6
    /\ \A p \in 1..6 :
        /\ UndoFrontend[p] = "compose"  => p = 1
        /\ UndoFrontend[p] = "env"      => p = 2
        /\ UndoFrontend[p] = "manifest" => p = 3
        /\ UndoFrontend[p] = "lock"     => p = 4
        /\ UndoFrontend[p] = "up"       => p = 5
        /\ UndoFrontend[p] = "remount"  => p = 6
        /\ p # 6 => UndoCore[p] = UndoFrontend[p]
<1>1. Len(UndoCore) = 5 /\ Len(UndoFrontend) = 6 /\ UndoCore = UndoPreview
  BY DEF UndoCore, UndoFrontend, UndoPreview
<1>2. ASSUME NEW p \in 1..6
      PROVE  p = 1 \/ p = 2 \/ p = 3 \/ p = 4 \/ p = 5 \/ p = 6
  OBVIOUS
<1> QED
  BY <1>1, <1>2 DEF UndoCore, UndoFrontend

-----------------------------------------------------------------------------
(* Types                                                                    *)

ControlOK ==
    /\ phase \in {"idle", "run", "undo", "leave", "returned", "crashed"}
    /\ phase = "run" => pos \in 1..Len(Path[kind])
    /\ phase = "undo" => pos \in 1..Len(Undo[kind])
    /\ report \in {"none", "ok", "rolledBack", "restoreBackup", "aborted", "failed"}
    /\ {mishaps, failures} \subseteq Nat

LEMMA FirstIsConfig == First \in Config /\ 1 \in Version
  BY LatestAssumption DEF First, Config, Version

LEMMA PathOf ==
    /\ Path["core"] = CorePath /\ Undo["core"] = UndoCore
    /\ Path["frontend"] = FrontendPath /\ Undo["frontend"] = UndoFrontend
    /\ Path["preview"] = FrontendPath /\ Undo["preview"] = UndoCore
  BY LightPlaces, UndoPlaces DEF Kind, Path, Undo

LEMMA Lengths ==
    \A k \in Kind :
        /\ Len(Path[k]) = IF k = "core" THEN 15 ELSE 9
        /\ Len(Undo[k]) = IF k = "frontend" THEN 6 ELSE 5
<1> TAKE k \in Kind
<1>1. CASE k = "core"
  BY <1>1, PathOf, CorePlaces, UndoPlaces
<1>2. CASE k = "frontend"
  BY <1>2, PathOf, LightPlaces, UndoPlaces
<1>3. CASE k = "preview"
  BY <1>3, PathOf, LightPlaces, UndoPlaces
<1> QED
  BY <1>1, <1>2, <1>3 DEF Kind

\* Which step runs tells where the update stands, and of which kind it is.
LEMMA RunningPlaces ==
    ASSUME TypeOK
    PROVE  /\ Running("backup")   => kind = "core" /\ pos = 1
           /\ Running("snapshot") => pos = IF kind = "core" THEN 2 ELSE 1
           /\ Running("enter")    => kind = "core" /\ (pos = 3 \/ pos = 11)
           /\ Running("stop")     => kind = "core" /\ pos = 4
           /\ Running("pull")     => pos = IF kind = "core" THEN 5 ELSE 6
           /\ Running("compose")  => pos = IF kind = "core" THEN 6 ELSE 2
           /\ Running("env")      => pos = IF kind = "core" THEN 7 ELSE 3
           /\ Running("manifest") => pos = IF kind = "core" THEN 8 ELSE 4
           /\ Running("lock")     => pos = IF kind = "core" THEN 9 ELSE 5
           /\ Running("up")       => pos = IF kind = "core" THEN 10 ELSE 7
           /\ Running("migrate")  => kind = "core" /\ pos = 12
           /\ Running("plugins")  => kind = "core" /\ pos = 13
           /\ Running("remount")  => kind # "core" /\ pos = 8
           /\ Running("health")   => pos = IF kind = "core" THEN 14 ELSE 9
           /\ Running("exit")     => kind = "core" /\ pos = 15
<1>1. CASE phase = "run" /\ kind = "core"
  <2>1. pos \in 1..15 /\ \A s : Running(s) => CorePath[pos] = s
    BY <1>1, Lengths, PathOf DEF TypeOK, Running
  <2> QED
    BY <1>1, <2>1, CorePlaces
<1>2. CASE phase = "run" /\ kind # "core"
  <2>1. pos \in 1..9 /\ \A s : Running(s) => FrontendPath[pos] = s
    BY <1>2, Lengths, PathOf DEF TypeOK, Running, Kind
  <2> QED
    BY <1>2, <2>1, LightPlaces
<1> QED
  BY <1>1, <1>2 DEF Running

LEMMA UndoingPlaces ==
    ASSUME TypeOK
    PROVE  /\ Undoing("compose")  => pos = 1
           /\ Undoing("env")      => pos = 2
           /\ Undoing("manifest") => pos = 3
           /\ Undoing("lock")     => pos = 4
           /\ Undoing("up")       => pos = 5
           /\ Undoing("remount")  => kind = "frontend" /\ pos = 6
<1>1. CASE phase = "undo" /\ kind = "frontend"
  <2>1. pos \in 1..6 /\ \A s : Undoing(s) => UndoFrontend[pos] = s
    BY <1>1, Lengths, PathOf DEF TypeOK, Undoing
  <2> QED
    BY <1>1, <2>1, UndoPlaces
<1>2. CASE phase = "undo" /\ kind # "frontend"
  <2>1. pos \in 1..5 /\ \A s : Undoing(s) => UndoCore[pos] = s
    BY <1>2, Lengths, PathOf DEF TypeOK, Undoing, Kind
  <2>2. pos \in 1..6 /\ pos # 6 /\ UndoCore[pos] = UndoFrontend[pos]
    BY <2>1, UndoPlaces
  <2> QED
    BY <2>1, <2>2, UndoPlaces
<1> QED
  BY <1>1, <1>2 DEF Undoing

\* Whatever an action does to the instance, Advance and Break keep the control
\* state well-typed.
LEMMA ControlTyped ==
    ASSUME TypeOK, phase \in {"run", "undo"}, Advance \/ Break, kind' = kind
    PROVE  ControlOK'
<1> USE Lengths DEF TypeOK, ControlOK
<1>1. CASE Advance
  BY <1>1 DEF Advance, Route, Finish, WayOut
<1>2. CASE Break
  BY <1>2 DEF Break, Mishap, WayOut, Preparing
<1> QED
  BY <1>1, <1>2

LEMMA TypeInit == Init => TypeOK
<1> SUFFICES ASSUME Init PROVE TypeOK
  OBVIOUS
<1>1. disk \in [File -> Config] /\ backend \in [compose : Config, env : Config]
  BY FirstIsConfig DEF Init
<1>2. held \in [files : [File -> Config \cup {Unread}], schedule : BOOLEAN]
  BY DEF Init
<1>3. mounted \in {"none", "backend", "all"} /\ tar \in Version \cup {0}
  BY FirstIsConfig DEF Init
<1>4. {schedule, gate, traffic, recorded, destructive, backedUp, migrated} \subseteq BOOLEAN
  BY DEF Init
<1>5. /\ kind \in Kind /\ phase = "idle" /\ report = "none" /\ target \in Config
      /\ schema \in Version
  BY FirstIsConfig DEF Init, Kind
<1>6. {mishaps, failures, crashes, updates} \subseteq Nat
  BY DEF Init
<1> QED
  BY <1>1, <1>2, <1>3, <1>4, <1>5, <1>6 DEF TypeOK

LEMMA TypeNext == TypeOK /\ [Next]_vars => TypeOK'
<1> SUFFICES ASSUME TypeOK, [Next]_vars PROVE TypeOK'
  OBVIOUS
<1>1. CASE TakeBackup
  <2>1. ControlOK'
    BY <1>1, ControlTyped DEF TakeBackup, Running, plan
  <2> QED
    BY <1>1, <2>1 DEF TakeBackup, TypeOK, ControlOK, instance, plan
<1>2. CASE Snapshot
  <2>1. ControlOK'
    <3>1. CASE Advance \/ Break
      BY <1>2, <3>1, ControlTyped DEF Snapshot, Running, plan
    <3>2. CASE Mishap /\ pos' = pos + 1 /\ UNCHANGED <<phase, report>>
      <4>1. kind' = kind /\ phase = "run" /\ Path[kind][pos] = "snapshot"
        BY <1>2 DEF Snapshot, Running, plan
      <4>2. pos \in 1..Len(Path[kind]) /\ pos < Len(Path[kind])
        BY <4>1, Lengths, RunningPlaces DEF TypeOK, Running
      <4>3. pos' \in 1..Len(Path[kind])
        BY <3>2, <4>2, Lengths DEF TypeOK
      <4> QED
        BY <3>2, <4>1, <4>3 DEF Mishap, TypeOK, ControlOK
    <3> QED
      BY <1>2, <3>1, <3>2 DEF Snapshot
  <2> QED
    BY <1>2, <2>1 DEF Snapshot, TypeOK, ControlOK, instance, plan, File
<1>3. CASE EnterMaintenance
  <2>1. ControlOK'
    BY <1>3, ControlTyped DEF EnterMaintenance, Running, plan
  <2> QED
    BY <1>3, <2>1 DEF EnterMaintenance, TypeOK, ControlOK, plan
<1>4. CASE StopServices
  <2>1. ControlOK'
    BY <1>4, ControlTyped DEF StopServices, Running, plan
  <2> QED
    BY <1>4, <2>1 DEF StopServices, TypeOK, ControlOK, plan
<1>5. CASE Pull
  <2>1. ControlOK'
    BY <1>5, ControlTyped DEF Pull, Running, plan
  <2> QED
    BY <1>5, <2>1 DEF Pull, TypeOK, ControlOK, instance, plan
<1>6. ASSUME NEW f \in File, ApplyArtifact(f)
      PROVE  TypeOK'
  <2>1. ControlOK'
    BY <1>6, ControlTyped DEF ApplyArtifact, Running, plan
  <2> QED
    BY <1>6, <2>1 DEF ApplyArtifact, TypeOK, ControlOK, plan
<1>7. ASSUME NEW f \in File, RestoreArtifact(f)
      PROVE  TypeOK'
  <2>1. ControlOK'
    BY <1>7, ControlTyped DEF RestoreArtifact, Undoing, plan
  <2> QED
    BY <1>7, <2>1 DEF RestoreArtifact, TypeOK, ControlOK, plan
<1>8. CASE Up
  <2>1. ControlOK'
    BY <1>8, ControlTyped DEF Up, Doing, Running, Undoing, plan
  <2>2. Desired \in [compose : Config, env : Config]
    BY DEF Desired, TypeOK, File
  <2> QED
    BY <1>8, <2>1, <2>2 DEF Up, Recreate, TypeOK, ControlOK, plan
<1>9. CASE RunMigrations
  <2>1. ControlOK'
    BY <1>9, ControlTyped DEF RunMigrations, Running, plan
  <2> QED
    BY <1>9, <2>1 DEF RunMigrations, TypeOK, ControlOK, plan, Config
<1>10. CASE ReinstallPlugins
  <2>1. ControlOK'
    BY <1>10, ControlTyped DEF ReinstallPlugins, Running, plan
  <2> QED
    BY <1>10, <2>1 DEF ReinstallPlugins, TypeOK, ControlOK, plan, Config
<1>11. CASE RestorePluginState
  <2>1. ControlOK'
    <3>1. CASE Advance
      BY <1>11, <3>1, ControlTyped DEF RestorePluginState, Doing, Running, Undoing, plan
    <3>2. CASE phase = "run" /\ Mishap /\ pos' = pos + 1 /\ UNCHANGED <<phase, report>>
      <4>1. kind' = kind /\ Path[kind][pos] = "remount"
        BY <1>11, <3>2 DEF RestorePluginState, Doing, Running, Undoing, plan
      <4>2. pos \in 1..Len(Path[kind]) /\ pos < Len(Path[kind])
        BY <3>2, <4>1, Lengths, RunningPlaces DEF TypeOK, Running
      <4>3. pos' \in 1..Len(Path[kind])
        BY <3>2, <4>2, Lengths DEF TypeOK
      <4> QED
        BY <3>2, <4>1, <4>3 DEF Mishap, TypeOK, ControlOK
    <3>3. CASE phase = "undo" /\ Mishap /\ Finish
      BY <1>11, <3>3 DEF RestorePluginState, Mishap, Finish, WayOut, plan, TypeOK, ControlOK
    <3> QED
      BY <1>11, <3>1, <3>2, <3>3 DEF RestorePluginState, Doing, Running, Undoing
  <2> QED
    BY <1>11, <2>1 DEF RestorePluginState, TypeOK, ControlOK, plan
<1>12. CASE CheckHealth
  <2>1. ControlOK'
    BY <1>12, ControlTyped DEF CheckHealth, Running, plan
  <2> QED
    BY <1>12, <2>1 DEF CheckHealth, TypeOK, ControlOK, instance, plan
<1>13. CASE ExitMaintenance
  <2>1. ControlOK'
    BY <1>13, ControlTyped DEF ExitMaintenance, Running, plan
  <2> QED
    BY <1>13, <2>1 DEF ExitMaintenance, TypeOK, ControlOK, plan
<1>14. CASE SafeExitMaintenance
  <2>1. phase' = "returned" /\ report' = report /\ gate' \in BOOLEAN
    BY <1>14 DEF SafeExitMaintenance, TypeOK
  <2>2. mishaps' \in Nat /\ failures' \in Nat
    BY <1>14 DEF SafeExitMaintenance, Mishap, TypeOK
  <2> QED
    BY <1>14, <2>1, <2>2 DEF SafeExitMaintenance, TypeOK, plan
<1>15. CASE Crash
  BY <1>15 DEF Crash, TypeOK, instance, plan
<1>16. ASSUME NEW k \in Kind, StartUpdate(k)
       PROVE  TypeOK'
  <2>1. ControlOK'
    <3>1. kind' \in Kind /\ phase' = "run" /\ pos' = 1 /\ report' = "none"
      BY <1>16 DEF StartUpdate
    <3>2. 1 \in 1..Len(Path[kind'])
      BY <3>1, Lengths
    <3>3. mishaps' = 0 /\ failures' = failures
      BY <1>16 DEF StartUpdate
    <3>4. mishaps' \in Nat /\ failures' \in Nat
      BY <3>3 DEF TypeOK
    <3>5. pos' \in 1..Len(Path[kind'])
      BY <3>1, <3>2
    <3> QED
      BY <3>1, <3>4, <3>5 DEF ControlOK
  <2>2. /\ target' \in Config /\ destructive' \in BOOLEAN
        /\ held' \in [files : [File -> Config \cup {Unread}], schedule : BOOLEAN]
        /\ backedUp' \in BOOLEAN /\ migrated' \in BOOLEAN /\ updates' = updates + 1
    BY <1>16 DEF StartUpdate
  <2>3. UNCHANGED instance /\ crashes' = crashes
    BY <1>16 DEF StartUpdate
  <2>4. {schedule, gate, traffic, recorded, destructive, backedUp, migrated}' \subseteq BOOLEAN
    <3>1. {schedule, gate, traffic, recorded} \subseteq BOOLEAN
      BY DEF TypeOK
    <3>2. UNCHANGED <<schedule, gate, traffic, recorded>>
      BY <2>3 DEF instance
    <3> QED
      BY <2>2, <3>1, <3>2
  <2>5. kind' \in Kind /\ {mishaps, failures, crashes, updates}' \subseteq Nat
    BY <2>1, <2>2, <2>3, <1>16 DEF StartUpdate, TypeOK, ControlOK
  <2> QED
    BY <2>1, <2>2, <2>3, <2>4, <2>5 DEF TypeOK, ControlOK, instance
<1>17. CASE UNCHANGED vars
  BY <1>17 DEF vars, instance, plan, control, TypeOK
<1> QED
  BY <1>1, <1>2, <1>3, <1>4, <1>5, <1>6, <1>7, <1>8, <1>9, <1>10, <1>11, <1>12, <1>13,
     <1>14, <1>15, <1>16, <1>17 DEF Next, Step

\* The type invariant, whatever the releases and bounds.
THEOREM Typing == Spec => []TypeOK
  BY TypeInit, TypeNext, PTL DEF Spec


-----------------------------------------------------------------------------
(* What a step does to the control state                                    *)

LEMMA AdvanceCases ==
    ASSUME TypeOK, Advance, phase \in {"run", "undo"}
    PROVE  \/ pos < Len(Route) /\ pos' = pos + 1 /\ phase' = phase /\ report' = report
           \/ pos = Len(Route) /\ Finish
<1>1. Len(Route) \in Nat /\ pos \in 1..Len(Route)
  BY Lengths DEF TypeOK, Route
<1>2. CASE pos < Len(Route)
  BY <1>2 DEF Advance
<1>3. CASE Finish /\ ~(pos < Len(Route))
  BY <1>1, <1>3
<1> QED
  BY <1>2, <1>3, Zenon DEF Advance

LEMMA RunAdvances ==
    ASSUME TypeOK, Advance, phase = "run"
    PROVE  \/ pos < Len(Path[kind]) /\ pos' = pos + 1 /\ phase' = "run" /\ report' = report
           \/ pos = Len(Path[kind]) /\ phase' = "returned" /\ report' = "ok"
  BY AdvanceCases DEF Route, Finish

LEMMA UndoAdvances ==
    ASSUME TypeOK, Advance, phase = "undo"
    PROVE  \/ pos < Len(Undo[kind]) /\ pos' = pos + 1 /\ phase' = "undo" /\ report' = report
           \/ /\ pos = Len(Undo[kind]) /\ phase' \in {"leave", "returned"}
              /\ report' = IF migrated /\ destructive THEN "restoreBackup" ELSE "rolledBack"
  BY AdvanceCases DEF Route, Finish, WayOut

LEMMA RunBreaks ==
    ASSUME Break, phase = "run"
    PROVE  \/ Preparing /\ report' = "aborted" /\ phase' \in {"leave", "returned"}
           \/ ~Preparing /\ report' = report /\ phase' = "undo" /\ pos' = 1
  BY DEF Break

LEMMA UndoBreaks ==
    ASSUME Break, phase = "undo"
    PROVE  report' = "failed" /\ phase' \in {"leave", "returned"}
  BY DEF Break, WayOut, Preparing

LEMMA AdvanceMoves ==
    ASSUME Advance
    PROVE  /\ phase' = "run" => phase = "run" /\ pos' = pos + 1
           /\ phase' = "undo" => phase # "run" /\ pos' = pos + 1
  BY DEF Advance, Finish, WayOut

LEMMA BreakMoves ==
    ASSUME Break
    PROVE  /\ phase' # "run"
           /\ phase' = "undo" => phase = "run" /\ ~Preparing /\ pos' = 1 /\ report' = report
  BY DEF Break, WayOut

-----------------------------------------------------------------------------
(* The maintenance gate and the backup of a core update                     *)

\* MigrationGuarded looks at the steps that need the gate; the invariant says
\* from which step on it is up, the backup taken, and the database untouched.
Guard ==
    kind = "core" /\ phase = "run" =>
        /\ pos > 1 => backedUp
        /\ pos > 11 => gate
        /\ pos <= 12 => schema = start.schema

LEMMA GuardNext == TypeOK /\ Guard /\ [Next]_vars => Guard'
<1> SUFFICES ASSUME TypeOK, Guard, [Next]_vars, kind' = "core", phase' = "run"
             PROVE  (/\ pos > 1 => backedUp
                     /\ pos > 11 => gate
                     /\ pos <= 12 => schema = start.schema)'
  BY DEF Guard
<1> USE DEF Guard
<1>1. CASE TakeBackup
  BY <1>1, AdvanceMoves, BreakMoves, RunningPlaces DEF TakeBackup, instance, plan
<1>2. CASE Snapshot
  <2>1. pos = 2 /\ pos' = 3 /\ backedUp /\ schema = start.schema
    BY <1>2, AdvanceMoves, BreakMoves, RunningPlaces DEF Snapshot, Running, plan
  <2> QED
    BY <1>2, <2>1 DEF Snapshot, instance, plan
<1>3. CASE EnterMaintenance
  <2>1. /\ Advance
        /\ (pos = 3 /\ pos' = 4) \/ (pos = 11 /\ pos' = 12)
        /\ backedUp /\ schema = start.schema
    <3>1. Running("enter") /\ (Advance \/ Break) /\ kind = "core"
      BY <1>3, Zenon DEF EnterMaintenance, plan
    <3> QED
      BY <3>1, AdvanceMoves, BreakMoves, RunningPlaces DEF Running
  <2>2. gate' /\ UNCHANGED <<backedUp, schema, start>>
    BY <1>3, <2>1, BreakMoves DEF EnterMaintenance, plan
  <2> QED
    BY <2>1, <2>2
<1>4. CASE StopServices \/ Pull
  <2>1. CASE StopServices
    <3>1. /\ Running("stop") /\ (Advance \/ Break) /\ kind = "core"
          /\ UNCHANGED <<gate, schema, start, backedUp>>
      BY <2>1, Zenon DEF StopServices, plan
    <3> QED
      BY <3>1, AdvanceMoves, BreakMoves, RunningPlaces DEF Running
  <2>2. CASE Pull
    BY <2>2, AdvanceMoves, BreakMoves, RunningPlaces DEF Pull, Running, instance, plan
  <2> QED
    BY <1>4, <2>1, <2>2
<1>5. ASSUME NEW f \in File, ApplyArtifact(f)
      PROVE  (/\ pos > 1 => backedUp
              /\ pos > 11 => gate
              /\ pos <= 12 => schema = start.schema)'
  BY <1>5, AdvanceMoves, BreakMoves, RunningPlaces DEF ApplyArtifact, Running, File, plan
<1>6. ASSUME NEW f \in File, RestoreArtifact(f)
      PROVE  FALSE
  BY <1>6, AdvanceMoves, BreakMoves DEF RestoreArtifact, Undoing
<1>7. CASE Up
  BY <1>7, AdvanceMoves, BreakMoves, RunningPlaces DEF Up, Doing, Undoing, Running, plan
<1>8. CASE RunMigrations
  BY <1>8, AdvanceMoves, BreakMoves, RunningPlaces DEF RunMigrations, Running, plan
<1>9. CASE ReinstallPlugins \/ CheckHealth
  BY <1>9, AdvanceMoves, BreakMoves, RunningPlaces
     DEF ReinstallPlugins, CheckHealth, Running, instance, plan
<1>10. CASE RestorePluginState
  BY <1>10, AdvanceMoves, BreakMoves, RunningPlaces, UndoingPlaces
     DEF RestorePluginState, Doing, Undoing, plan
<1>11. CASE ExitMaintenance
  <2>1. Running("exit") /\ Advance /\ kind = "core"
    BY <1>11, BreakMoves DEF ExitMaintenance, plan
  <2>2. phase = "run" /\ pos = 15 /\ Len(Path[kind]) = 15
    BY <2>1, RunningPlaces, Lengths DEF Running, Kind
  <2> QED
    BY <2>1, <2>2, RunAdvances
<1>12. CASE SafeExitMaintenance \/ Crash
  BY <1>12 DEF SafeExitMaintenance, Crash
<1>13. ASSUME NEW k \in Kind, StartUpdate(k)
       PROVE  (/\ pos > 1 => backedUp
               /\ pos > 11 => gate
               /\ pos <= 12 => schema = start.schema)'
  BY <1>13 DEF StartUpdate, instance
<1>14. CASE UNCHANGED vars
  BY <1>14 DEF vars, instance, plan, control
<1> QED
  BY <1>1, <1>2, <1>3, <1>4, <1>5, <1>6, <1>7, <1>8, <1>9, <1>10, <1>11, <1>12, <1>13,
     <1>14 DEF Next, Step

\* While the database of a core update is migrated, its plugins reinstalled and
\* its health probed, the gate is up, and a changed database has a backup.
THEOREM GuardedMigration == Spec => []MigrationGuarded
<1>1. Init => Guard
  BY DEF Init, Guard
<1>2. TypeOK /\ Guard => MigrationGuarded
  BY CorePlaces, Lengths, PathOf DEF Guard, MigrationGuarded, TypeOK
<1> QED
  BY <1>1, <1>2, Typing, GuardNext, PTL DEF Spec


-----------------------------------------------------------------------------
(* What is reported, and when                                               *)

Telling ==
    /\ phase \in {"run", "undo"} => report = "none"
    /\ phase = "leave" => report # "ok"

LEMMA TellingNext == TypeOK /\ Telling /\ [Next]_vars => Telling'
<1> SUFFICES ASSUME TypeOK, Telling, [Next]_vars PROVE Telling'
  OBVIOUS
<1>1. ASSUME Advance, phase \in {"run", "undo"}
      PROVE  Telling'
  BY <1>1, RunAdvances, UndoAdvances DEF Telling
<1>2. ASSUME Break, phase \in {"run", "undo"}
      PROVE  Telling'
  BY <1>2, RunBreaks, UndoBreaks DEF Telling
<1>3. CASE TakeBackup \/ Snapshot \/ EnterMaintenance
  BY <1>1, <1>2, <1>3 DEF TakeBackup, Snapshot, EnterMaintenance, Running, Telling
<1>4. CASE StopServices \/ Pull
  BY <1>1, <1>2, <1>4 DEF StopServices, Pull, Running
<1>5. ASSUME NEW f \in File, ApplyArtifact(f) \/ RestoreArtifact(f)
      PROVE  Telling'
  BY <1>1, <1>2, <1>5 DEF ApplyArtifact, RestoreArtifact, Running, Undoing
<1>6. CASE Up \/ RunMigrations \/ ReinstallPlugins
  BY <1>1, <1>2, <1>6 DEF Up, Doing, Undoing, RunMigrations, ReinstallPlugins, Running
<1>7. CASE RestorePluginState
  <2>1. CASE Finish /\ phase = "undo"
    BY <2>1 DEF Finish, WayOut, Telling
  <2>2. CASE UNCHANGED <<phase, report>>
    BY <2>2 DEF Telling
  <2> QED
    BY <1>1, <1>7, <2>1, <2>2 DEF RestorePluginState, Doing, Undoing, Running
<1>8. CASE CheckHealth \/ ExitMaintenance
  BY <1>1, <1>2, <1>8 DEF CheckHealth, ExitMaintenance, Running
<1>9. CASE SafeExitMaintenance \/ Crash
  BY <1>9 DEF SafeExitMaintenance, Crash, Telling
<1>10. ASSUME NEW k \in Kind, StartUpdate(k)
       PROVE  Telling'
  BY <1>10 DEF StartUpdate, Telling
<1>11. CASE UNCHANGED vars
  BY <1>11 DEF vars, control, Telling
<1> QED
  BY <1>3, <1>4, <1>5, <1>6, <1>7, <1>8, <1>9, <1>10, <1>11 DEF Next, Step

THEOREM TellingHolds == Spec => []Telling
<1>1. Init => Telling
  BY DEF Init, Telling
<1> QED
  BY <1>1, Typing, TellingNext, PTL DEF Spec


-----------------------------------------------------------------------------
(* A complete update                                                        *)

\* How far a running update has come, in the instance: the files it has
\* written, the containers it has replaced, the database and the plugins.
Made ==
    /\ pos > (IF kind = "core" THEN 6 ELSE 2) => disk["compose"] = target
    /\ pos > (IF kind = "core" THEN 7 ELSE 3) => disk["env"] = target
    /\ pos > (IF kind = "core" THEN 8 ELSE 4) => disk["manifest"] = target
    /\ pos > (IF kind = "core" THEN 9 ELSE 5) => disk["lock"] = target
    /\ pos > (IF kind = "core" THEN 10 ELSE 7) =>
           backend = [compose |-> target, env |-> target] /\ traffic = TRUE
    /\ kind = "core" /\ pos > 12 => schema = target.image
    /\ kind = "core" /\ pos > 13 /\ recorded = TRUE => mounted = "all" /\ tar = target.stamp

Forward ==
    /\ phase = "run" => Made
    /\ SuccessIsComplete

LEMMA NotForward ==
    ASSUME phase' # "run", phase' # "returned" \/ report' # "ok"
    PROVE  Forward'
  BY DEF Forward, SuccessIsComplete

LEMMA BreakNotForward ==
    ASSUME Break, phase \in {"run", "undo"}
    PROVE  Forward'
  BY RunBreaks, UndoBreaks, NotForward


LEMMA UndoNotForward ==
    ASSUME TypeOK, Telling, phase = "undo", Advance \/ Break
    PROVE  Forward'
  BY UndoAdvances, UndoBreaks, NotForward

LEMMA MadeForward ==
    ASSUME phase' = "run", Made'
    PROVE  Forward'
  BY DEF Forward, SuccessIsComplete

LEMMA RunStands ==
    ASSUME TypeOK, Advance, phase = "run"
    PROVE  /\ kind \in Kind /\ pos \in Nat
           /\ pos < (IF kind = "core" THEN 15 ELSE 9) => phase' = "run" /\ pos' = pos + 1
           /\ pos = (IF kind = "core" THEN 15 ELSE 9) => phase' = "returned" /\ report' = "ok"
<1>1. kind \in Kind /\ pos \in 1..Len(Path[kind])
  BY DEF TypeOK
<1>2. Len(Path[kind]) = IF kind = "core" THEN 15 ELSE 9
  BY <1>1, Lengths
<1> QED
  BY <1>1, <1>2, RunAdvances

LEMMA ForwardNext == TypeOK /\ Telling /\ Forward /\ [Next]_vars => Forward'
<1> SUFFICES ASSUME TypeOK, Telling, Forward, [Next]_vars PROVE Forward'
  OBVIOUS
<1> USE BreakNotForward, UndoNotForward, RunStands, RunningPlaces, MadeForward
<1>1. CASE TakeBackup
  <2>1. CASE Advance /\ Running("backup")
    <3>1. phase' = "run" /\ pos' = 2 /\ kind' = "core"
      BY <1>1, <2>1 DEF TakeBackup, Running, plan, Kind
    <3> QED
      BY <3>1 DEF Made
  <2> QED
    BY <1>1, <2>1 DEF TakeBackup, Running
<1>2. CASE Snapshot
  <2>1. phase = "run" /\ pos = IF kind = "core" THEN 2 ELSE 1
    BY <1>2 DEF Snapshot, Running
  <2>2. CASE phase' = "run" /\ pos' = pos + 1
    <3>1. Made'
      BY <1>2, <2>1, <2>2 DEF Snapshot, Made, plan
    <3> QED
      BY <2>2, <3>1
  <2> QED
    BY <1>2, <2>1, <2>2 DEF Snapshot
<1>3. CASE EnterMaintenance
  <2>1. CASE Advance /\ Running("enter")
    <3>1. /\ phase = "run" /\ phase' = "run" /\ kind = "core" /\ (pos = 3 \/ pos = 11)
          /\ pos' = pos + 1
      BY <2>1 DEF Running
    <3>2. UNCHANGED <<disk, backend, traffic, schema, recorded, mounted, tar, kind, target>>
      BY <1>3 DEF EnterMaintenance, plan
    <3>3. Made'
      BY <3>1, <3>2 DEF Made, Forward
    <3> QED
      BY <3>1, <3>3
  <2> QED
    BY <1>3, <2>1 DEF EnterMaintenance, Running
<1>4. CASE StopServices
  <2>1. CASE Advance /\ Running("stop")
    <3>1. phase' = "run" /\ pos' = 5 /\ kind' = "core"
      BY <1>4, <2>1 DEF StopServices, Running, plan, Kind
    <3> QED
      BY <3>1 DEF Made
  <2> QED
    BY <1>4, <2>1 DEF StopServices, Running
<1>5. CASE Pull
  <2>1. CASE Advance /\ Running("pull")
    <3>1. /\ phase = "run" /\ phase' = "run" /\ pos' = pos + 1
          /\ pos = IF kind = "core" THEN 5 ELSE 6
      BY <2>1 DEF Running, TypeOK
    <3>2. UNCHANGED <<disk, backend, traffic, schema, recorded, mounted, tar, kind, target>>
      BY <1>5 DEF Pull, instance, plan
    <3> QED
      BY <3>1, <3>2 DEF Made, Forward
  <2> QED
    BY <1>5, <2>1 DEF Pull, Running
<1>6. ASSUME NEW f \in File, ApplyArtifact(f)
      PROVE  Forward'
  <2>1. CASE Advance /\ Running(f)
    <3>1. phase = "run" /\ kind \in Kind
      BY <2>1 DEF Running, TypeOK
    <3>2. /\ f = "compose"  => pos = IF kind = "core" THEN 6 ELSE 2
          /\ f = "env"      => pos = IF kind = "core" THEN 7 ELSE 3
          /\ f = "manifest" => pos = IF kind = "core" THEN 8 ELSE 4
          /\ f = "lock"     => pos = IF kind = "core" THEN 9 ELSE 5
      BY <2>1
    <3>3. phase' = "run" /\ pos' = pos + 1
      BY <2>1, <3>1, <3>2 DEF File
    <3>4. disk' = [disk EXCEPT ![f] = target]
      BY <1>6, <3>3, BreakMoves DEF ApplyArtifact
    <3>5. disk \in [File -> Config] /\ UNCHANGED <<backend, traffic, schema, recorded, mounted, tar, kind, target>>
      BY <1>6 DEF ApplyArtifact, plan, TypeOK
    <3>6. Made
      BY <3>1 DEF Forward
    <3>7. Made'
      BY <3>1, <3>2, <3>3, <3>4, <3>5, <3>6 DEF Made, File
    <3> QED
      BY <3>3, <3>7
  <2> QED
    BY <1>6, <2>1 DEF ApplyArtifact, Running
<1>7. ASSUME NEW f \in File, RestoreArtifact(f)
      PROVE  Forward'
  BY <1>7 DEF RestoreArtifact, Undoing
<1>8. CASE Up
  <2>1. CASE Advance /\ Running("up")
    <3>1. /\ phase = "run" /\ phase' = "run" /\ pos' = pos + 1
          /\ pos = IF kind = "core" THEN 10 ELSE 7
      BY <2>1 DEF Running, TypeOK
    <3>2. UNCHANGED <<disk, schema, recorded, tar, kind, target>>
      BY <1>8 DEF Up, plan
    <3>3. backend' = Desired /\ traffic' = TRUE
      BY <1>8, <2>1, <3>1, BreakMoves DEF Up, Recreate
    <3>4. Desired = [compose |-> target, env |-> target]
      BY <3>1 DEF Desired, Forward, Made
    <3> QED
      BY <3>1, <3>2, <3>3, <3>4 DEF Made, Forward
  <2>2. CASE Undoing("up")
    BY <1>8, <2>2 DEF Up, Undoing
  <2> QED
    BY <1>8, <2>1, <2>2 DEF Up, Doing, Running
<1>9. CASE RunMigrations
  <2>1. CASE Advance /\ Running("migrate")
    <3>1. phase = "run" /\ phase' = "run" /\ kind = "core" /\ pos = 12 /\ pos' = 13
      BY <2>1 DEF Running
    <3>2. UNCHANGED <<disk, backend, traffic, recorded, mounted, tar, kind, target>>
      BY <1>9 DEF RunMigrations, plan
    <3>3. schema' = backend.compose.image
      BY <1>9, <2>1, <3>1, BreakMoves DEF RunMigrations
    <3> QED
      BY <3>1, <3>2, <3>3 DEF Made, Forward
  <2> QED
    BY <1>9, <2>1 DEF RunMigrations, Running
<1>10. CASE ReinstallPlugins
  <2>1. CASE Advance /\ Running("plugins")
    <3>1. phase = "run" /\ phase' = "run" /\ kind = "core" /\ pos = 13 /\ pos' = 14
      BY <2>1 DEF Running
    <3>2. UNCHANGED <<disk, backend, traffic, schema, recorded, kind, target>>
      BY <1>10 DEF ReinstallPlugins, plan
    <3>3. ~Break
      BY <3>1, BreakMoves
    <3>4. recorded = TRUE => mounted' = "all" /\ tar' = target.stamp
      BY <1>10, <3>3 DEF ReinstallPlugins
    <3>5. Made'
      BY <3>1, <3>2, <3>4 DEF Made, Forward
    <3> QED
      BY <3>1, <3>5
  <2> QED
    BY <1>10, <2>1 DEF ReinstallPlugins, Running
<1>11. CASE RestorePluginState
  <2>1. CASE Running("remount") /\ phase' = "run" /\ pos' = pos + 1
    <3>1. UNCHANGED <<disk, backend, traffic, schema, recorded, tar, kind, target>>
      BY <1>11 DEF RestorePluginState, plan
    <3> QED
      BY <2>1, <3>1 DEF Made, Forward, Running
  <2>2. CASE Undoing("remount") /\ Finish
    BY <2>2, NotForward DEF Undoing, Finish, WayOut
  <2>3. CASE Running("remount") /\ Advance
    BY <2>1, <2>3 DEF Running, TypeOK
  <2>4. CASE Undoing("remount") /\ Advance
    BY <2>4 DEF Undoing
  <2> QED
    BY <1>11, <2>1, <2>2, <2>3, <2>4 DEF RestorePluginState, Doing, Running, Undoing
<1>12. CASE CheckHealth
  <2>1. CASE Advance /\ Running("health")
    <3>1. UNCHANGED <<disk, backend, gate, traffic, schema, recorded, mounted, tar, kind, target>>
      BY <1>12 DEF CheckHealth, instance, plan
    <3>2. phase = "run" /\ Made /\ disk \in [File -> Config]
      BY <2>1 DEF Running, Forward, TypeOK
    <3>3. CASE kind = "core"
      <4>1. phase' = "run" /\ pos = 14 /\ pos' = 15
        BY <2>1, <3>2, <3>3
      <4>2. Made'
        BY <3>1, <3>2, <3>3, <4>1 DEF Made
      <4> QED
        BY <4>1, <4>2
    <3>4. CASE kind # "core"
      <4>1. phase' = "returned" /\ pos = 9 /\ kind' # "core"
        BY <2>1, <3>1, <3>2, <3>4
      <4>2. disk = [f \in File |-> target]
        BY <3>2, <4>1, <3>4 DEF Made, File
      <4>3. backend = [compose |-> target, env |-> target] /\ traffic = TRUE
        BY <3>2, <4>1, <3>4 DEF Made
      <4> QED
        BY <4>1, <4>2, <4>3, <3>1 DEF Forward, SuccessIsComplete
    <3> QED
      BY <3>3, <3>4
  <2> QED
    BY <1>12, <2>1 DEF CheckHealth, Running
<1>13. CASE ExitMaintenance
  <2>1. CASE Advance /\ Running("exit")
    <3>1. UNCHANGED <<disk, backend, traffic, schema, recorded, mounted, tar, kind, target>>
      BY <1>13 DEF ExitMaintenance, plan
    <3>2. phase = "run" /\ Made /\ disk \in [File -> Config] /\ kind = "core" /\ pos = 15
      BY <2>1 DEF Running, Forward, TypeOK
    <3>3. phase' = "returned" /\ report' = "ok"
      BY <2>1, <3>2
    <3>4. ~Break
      BY <3>2, <3>3, RunBreaks DEF Preparing
    <3>5. gate' = FALSE
      BY <1>13, <3>4 DEF ExitMaintenance
    <3>6. /\ disk = [f \in File |-> target] /\ schema = target.image
          /\ backend = [compose |-> target, env |-> target] /\ traffic = TRUE
          /\ recorded = TRUE => mounted = "all" /\ tar = target.stamp
      BY <3>2 DEF Made, File
    <3> QED
      BY <3>1, <3>2, <3>3, <3>5, <3>6 DEF Forward, SuccessIsComplete
  <2> QED
    BY <1>13, <2>1 DEF ExitMaintenance, Running
<1>14. CASE SafeExitMaintenance \/ Crash
  BY <1>14, NotForward DEF SafeExitMaintenance, Crash, Telling
<1>15. ASSUME NEW k \in Kind, StartUpdate(k)
       PROVE  Forward'
  <2>1. phase' = "run" /\ pos' = 1
    BY <1>15 DEF StartUpdate
  <2> QED
    BY <2>1 DEF Made
<1>16. CASE UNCHANGED vars
  BY <1>16 DEF vars, instance, plan, control, Forward, Made, SuccessIsComplete
<1> QED
  BY <1>1, <1>2, <1>3, <1>4, <1>5, <1>6, <1>7, <1>8, <1>9, <1>10, <1>11, <1>12, <1>13,
     <1>14, <1>15, <1>16 DEF Next, Step

\* An update that reports success is complete, files, containers, database,
\* plugins and gate, whatever an earlier update or crash left behind.
THEOREM CompleteSuccess == Spec => []SuccessIsComplete
<1>1. Init => Forward
  BY DEF Init, Forward, SuccessIsComplete
<1>2. Forward => SuccessIsComplete
  BY DEF Forward
<1> QED
  BY <1>1, <1>2, Typing, TellingHolds, ForwardNext, PTL DEF Spec


-----------------------------------------------------------------------------
(* What an abort and a rollback say of the data                             *)

\* Nothing is mutated before the step whose failure no longer aborts.
Intact ==
    /\ disk = start.disk /\ schedule = start.schedule
    /\ backend = start.backend /\ schema = start.schema

Clean ==
    /\ Preparing => Intact
    /\ report = "aborted" => Intact

LEMMA CleanQuiet ==
    ASSUME TypeOK, Telling, Clean, phase \in {"run", "undo"}, Advance \/ Break,
           UNCHANGED <<disk, schedule, backend, schema, start, kind>>
    PROVE  Clean'
<1>1. Intact' <=> Intact
  BY DEF Intact
<1>2. Preparing' => Preparing
  BY AdvanceMoves, BreakMoves DEF Preparing, TypeOK
<1>3. report' = "aborted" => Preparing
  BY RunAdvances, UndoAdvances, RunBreaks, UndoBreaks DEF Telling
<1> QED
  BY <1>1, <1>2, <1>3 DEF Clean

\* Past that step, nothing is promised until the next update.
LEMMA CleanLate ==
    ASSUME TypeOK, Telling, phase \in {"run", "undo"}, ~Preparing, Advance \/ Break, kind' = kind
    PROVE  Clean'
<1>1. ~Preparing'
  BY AdvanceMoves, BreakMoves DEF Preparing, TypeOK
<1>2. report' # "aborted"
  BY RunAdvances, UndoAdvances, RunBreaks, UndoBreaks DEF Telling
<1> QED
  BY <1>1, <1>2 DEF Clean

LEMMA CleanNext == TypeOK /\ Telling /\ Clean /\ [Next]_vars => Clean'
<1> SUFFICES ASSUME TypeOK, Telling, Clean, [Next]_vars PROVE Clean'
  OBVIOUS
<1> USE RunningPlaces
<1>1. CASE TakeBackup
  BY <1>1, CleanQuiet DEF TakeBackup, Running, instance, plan
<1>2. CASE Snapshot
  <2>1. phase = "run" /\ UNCHANGED <<disk, schedule, backend, schema, start, kind>>
    BY <1>2 DEF Snapshot, Running, instance, plan
  <2>2. CASE UNCHANGED <<phase, report>> /\ pos' = pos + 1
    <3>1. Intact' <=> Intact
      BY <2>1 DEF Intact
    <3>2. Preparing' => Preparing
      BY <2>1, <2>2 DEF Preparing, TypeOK
    <3> QED
      BY <2>2, <3>1, <3>2 DEF Clean
  <2> QED
    BY <1>2, <2>1, <2>2, CleanQuiet DEF Snapshot
<1>3. CASE EnterMaintenance \/ StopServices
  BY <1>3, CleanQuiet DEF EnterMaintenance, StopServices, Running, plan
<1>4. CASE Pull
  BY <1>4, CleanQuiet DEF Pull, Running, instance, plan
<1>5. ASSUME NEW f \in File, ApplyArtifact(f)
      PROVE  Clean'
  <2>1. phase = "run" /\ ~Preparing /\ kind' = kind
    BY <1>5 DEF ApplyArtifact, Running, File, Preparing, plan
  <2> QED
    BY <1>5, <2>1, CleanLate DEF ApplyArtifact
<1>6. ASSUME NEW f \in File, RestoreArtifact(f)
      PROVE  Clean'
  BY <1>6, CleanLate DEF RestoreArtifact, Undoing, Preparing, plan
<1>7. CASE Up
  <2>1. phase \in {"run", "undo"} /\ ~Preparing /\ kind' = kind
    BY <1>7 DEF Up, Doing, Running, Undoing, Preparing, plan
  <2> QED
    BY <1>7, <2>1, CleanLate DEF Up
<1>8. CASE RunMigrations
  <2>1. phase = "run" /\ ~Preparing /\ kind' = kind
    BY <1>8 DEF RunMigrations, Running, Preparing, plan
  <2> QED
    BY <1>8, <2>1, CleanLate DEF RunMigrations
<1>9. CASE ReinstallPlugins
  BY <1>9, CleanQuiet DEF ReinstallPlugins, Running, plan
<1>10. CASE RestorePluginState
  <2>1. /\ phase \in {"run", "undo"} /\ ~Preparing
        /\ UNCHANGED <<disk, schedule, backend, schema, start, kind>>
    BY <1>10 DEF RestorePluginState, Doing, Running, Undoing, Preparing, plan
  <2>2. CASE Advance
    BY <2>1, <2>2, CleanLate
  <2>3. CASE phase' = phase /\ pos' = pos + 1 /\ report' = report
    BY <2>1, <2>3 DEF Clean, Preparing, Telling, TypeOK
  <2>4. CASE Finish /\ phase = "undo"
    BY <2>4 DEF Finish, WayOut, Clean, Preparing
  <2> QED
    BY <1>10, <2>1, <2>2, <2>3, <2>4 DEF RestorePluginState
<1>11. CASE CheckHealth
  BY <1>11, CleanQuiet DEF CheckHealth, Running, instance, plan
<1>12. CASE ExitMaintenance
  BY <1>12, CleanQuiet DEF ExitMaintenance, Running, plan
<1>13. CASE SafeExitMaintenance \/ Crash
  BY <1>13 DEF SafeExitMaintenance, Crash, Clean, Intact, Preparing, instance, plan
<1>14. ASSUME NEW k \in Kind, StartUpdate(k)
       PROVE  Clean'
  BY <1>14 DEF StartUpdate, Clean, Intact, instance
<1>15. CASE UNCHANGED vars
  BY <1>15 DEF vars, instance, plan, control, Clean, Intact, Preparing
<1> QED
  BY <1>1, <1>2, <1>3, <1>4, <1>5, <1>6, <1>7, <1>8, <1>9, <1>10, <1>11, <1>12, <1>13,
     <1>14, <1>15 DEF Next, Step

THEOREM CleanHolds == Spec => []Clean
<1>1. Init => Clean
  BY DEF Init, Clean, Intact
<1> QED
  BY <1>1, Typing, TellingHolds, CleanNext, PTL DEF Spec

\* An update that reports an abort has changed no file, container or database.
THEOREM CleanAborts == Spec => []AbortMutatesNothing
<1>1. Clean => AbortMutatesNothing
  BY DEF Clean, Intact, AbortMutatesNothing
<1> QED
  BY <1>1, CleanHolds, PTL

\* Unless migrations were attempted, an update has not touched the database.
Untouched ==
    /\ phase \in {"run", "undo"} /\ migrated = FALSE => schema = start.schema
    /\ report = "rolledBack" /\ destructive = TRUE => schema = start.schema

LEMMA UntouchedQuiet ==
    ASSUME TypeOK, Telling, Untouched, phase \in {"run", "undo"}, Advance \/ Break,
           UNCHANGED <<schema, start, destructive, migrated>>
    PROVE  Untouched'
<1>1. report' = "rolledBack" /\ destructive = TRUE => migrated = FALSE
  <2>1. CASE phase = "run"
    BY <2>1, RunAdvances, RunBreaks DEF Telling
  <2>2. CASE phase = "undo" /\ Break
    BY <2>2, UndoBreaks
  <2>3. CASE phase = "undo" /\ Advance
    <3>1. report' = "none" \/ report' = IF migrated /\ destructive THEN "restoreBackup" ELSE "rolledBack"
      BY <2>3, UndoAdvances DEF Telling
    <3> QED
      BY <3>1 DEF TypeOK
  <2> QED
    BY <2>1, <2>2, <2>3
<1> QED
  BY <1>1 DEF Untouched

LEMMA UntouchedNext == TypeOK /\ Telling /\ Untouched /\ [Next]_vars => Untouched'
<1> SUFFICES ASSUME TypeOK, Telling, Untouched, [Next]_vars PROVE Untouched'
  OBVIOUS
<1> USE UntouchedQuiet
<1>1. CASE TakeBackup \/ EnterMaintenance \/ StopServices \/ Pull
  BY <1>1 DEF TakeBackup, EnterMaintenance, StopServices, Pull, Running, instance, plan
<1>2. CASE Snapshot
  <2>1. phase = "run" /\ UNCHANGED <<schema, start, destructive, migrated>>
    BY <1>2 DEF Snapshot, Running, instance, plan
  <2>2. CASE UNCHANGED <<phase, report>>
    BY <2>1, <2>2 DEF Untouched
  <2> QED
    BY <1>2, <2>1, <2>2 DEF Snapshot
<1>3. ASSUME NEW f \in File, ApplyArtifact(f) \/ RestoreArtifact(f)
      PROVE  Untouched'
  BY <1>3 DEF ApplyArtifact, RestoreArtifact, Running, Undoing, plan
<1>4. CASE Up
  BY <1>4 DEF Up, Doing, Running, Undoing, plan
<1>5. CASE RunMigrations
  <2>1. phase = "run" /\ migrated' = TRUE /\ (Advance \/ Break)
    BY <1>5 DEF RunMigrations, Running
  <2>2. report' # "rolledBack"
    BY <2>1, RunAdvances, RunBreaks DEF Telling
  <2> QED
    BY <2>1, <2>2 DEF Untouched
<1>6. CASE ReinstallPlugins \/ CheckHealth \/ ExitMaintenance
  BY <1>6 DEF ReinstallPlugins, CheckHealth, ExitMaintenance, Running, instance, plan
<1>7. CASE RestorePluginState
  <2>1. phase \in {"run", "undo"} /\ UNCHANGED <<schema, start, destructive, migrated>>
    BY <1>7 DEF RestorePluginState, Doing, Running, Undoing, plan
  <2>2. CASE phase' = phase /\ report' = report
    BY <2>1, <2>2 DEF Untouched
  <2>3. CASE Finish /\ phase = "undo"
    <3>1. phase' \in {"leave", "returned"}
      BY <2>3 DEF Finish, WayOut
    <3>2. report' = IF migrated /\ destructive THEN "restoreBackup" ELSE "rolledBack"
      BY <2>3 DEF Finish
    <3>3. report' = "rolledBack" /\ destructive = TRUE => migrated = FALSE
      BY <3>2 DEF TypeOK
    <3> QED
      BY <2>1, <2>3, <3>1, <3>3 DEF Untouched
  <2> QED
    BY <1>7, <2>1, <2>2, <2>3 DEF RestorePluginState
<1>8. CASE SafeExitMaintenance \/ Crash
  BY <1>8 DEF SafeExitMaintenance, Crash, Untouched, instance, plan
<1>9. ASSUME NEW k \in Kind, StartUpdate(k)
      PROVE  Untouched'
  BY <1>9 DEF StartUpdate, Untouched, instance
<1>10. CASE UNCHANGED vars
  BY <1>10 DEF vars, instance, plan, control, Untouched
<1> QED
  BY <1>1, <1>2, <1>3, <1>4, <1>5, <1>6, <1>7, <1>8, <1>9, <1>10 DEF Next, Step

\* A rollback that does not point at the backup has left no destructive
\* migration behind.
THEOREM FlaggedLoss == Spec => []DataLossFlagged
<1>1. Init => Untouched
  BY DEF Init, Untouched
<1>2. Untouched => DataLossFlagged
  BY DEF Untouched, DataLossFlagged
<1> QED
  BY <1>1, <1>2, Typing, TellingHolds, UntouchedNext, PTL DEF Spec

-----------------------------------------------------------------------------
(* What a rollback restores                                                 *)

\* What the snapshot could read of a file, the rollback has put back.
Restored(f) == held.files[f] # Unread => disk[f] = start.disk[f]

Recreated ==
    /\ backend = [compose |-> disk["compose"], env |-> disk["env"]]
    /\ traffic = TRUE

\* Once taken, the snapshot is of the instance as the update found it; the
\* rollback works through it file by file.
Undone ==
    /\ (phase = "run" /\ pos > (IF kind = "core" THEN 2 ELSE 1)) \/ phase = "undo" =>
           /\ held.schedule = start.schedule
           /\ \A f \in File : held.files[f] # Unread => held.files[f] = start.disk[f]
    /\ phase = "undo" =>
           /\ pos > 1 => Restored("compose")
           /\ pos > 2 => Restored("env")
           /\ pos > 3 => Restored("manifest") /\ schedule = start.schedule
           /\ pos > 4 => Restored("lock")
           /\ pos > 5 => Recreated
    /\ RolledBack =>
           /\ \A f \in File : Restored(f)
           /\ schedule = start.schedule
           /\ Recreated

\* Forward, only the snapshot step bears on this.
LEMMA UndoneForward ==
    ASSUME TypeOK, Telling, Undone, phase = "run", pos # (IF kind = "core" THEN 2 ELSE 1),
           Advance \/ Break, UNCHANGED <<held, start, kind>>
    PROVE  Undone'
<1>1. report' \notin {"rolledBack", "restoreBackup"}
  BY RunAdvances, RunBreaks DEF Telling
<1>2. CASE phase' = "run"
  <2>1. pos' = pos + 1 /\ pos \in Nat
    BY <1>2, AdvanceMoves, BreakMoves DEF TypeOK
  <2>2. kind = "core" => pos > 2 \/ pos' \leq 2
    BY <2>1
  <2>3. kind # "core" => pos > 1 \/ pos' \leq 1
    BY <2>1
  <2> QED
    BY <1>1, <1>2, <2>1, <2>2, <2>3 DEF Undone, RolledBack
<1>3. CASE phase' = "undo"
  <2>1. pos' = 1 /\ ~Preparing
    BY <1>3, AdvanceMoves, BreakMoves
  <2>2. pos > (IF kind = "core" THEN 2 ELSE 1)
    BY <2>1 DEF Preparing, TypeOK
  <2> QED
    BY <1>1, <1>3, <2>1, <2>2 DEF Undone, RolledBack
<1>4. CASE phase' \notin {"run", "undo"}
  BY <1>1, <1>4 DEF Undone, RolledBack
<1> QED
  BY <1>2, <1>3, <1>4

\* A step of the rollback that breaks ends it in "failed".
LEMMA UndoneFailed ==
    ASSUME phase = "undo", Break
    PROVE  Undone'
  BY UndoBreaks DEF Undone, RolledBack

LEMMA UndoneNext == TypeOK /\ Telling /\ Clean /\ Undone /\ [Next]_vars => Undone'
<1> SUFFICES ASSUME TypeOK, Telling, Clean, Undone, [Next]_vars PROVE Undone'
  OBVIOUS
<1> USE RunningPlaces, UndoingPlaces
<1>1. CASE TakeBackup
  BY <1>1, UndoneForward DEF TakeBackup, Running, instance, plan
<1>2. CASE Snapshot
  <2>1. /\ phase = "run" /\ pos = IF kind = "core" THEN 2 ELSE 1
        /\ UNCHANGED <<start, kind>>
    BY <1>2 DEF Snapshot, Running, plan
  <2>2. disk = start.disk /\ schedule = start.schedule
    BY <2>1 DEF Clean, Preparing, Intact
  <2>3. CASE Break
    <3>1. Preparing
      BY <2>1 DEF Preparing
    <3>2. phase' \notin {"run", "undo"} /\ report' = "aborted"
      BY <2>1, <2>3, <3>1, RunBreaks
    <3> QED
      BY <3>2 DEF Undone, RolledBack
  <2>4. CASE Advance /\ held' = [files |-> disk, schedule |-> schedule]
    <3>1. phase' # "undo" /\ report' \notin {"rolledBack", "restoreBackup"}
      BY <2>1, <2>4, RunAdvances DEF Telling
    <3> QED
      BY <2>1, <2>2, <2>4, <3>1 DEF Undone, RolledBack
  <2>5. ASSUME NEW f \in {"compose", "env"}, UNCHANGED <<phase, report>>,
               held' = [files |-> [disk EXCEPT ![f] = Unread], schedule |-> schedule]
        PROVE  Undone'
    <3>1. phase' # "undo" /\ report' \notin {"rolledBack", "restoreBackup"}
      BY <2>1, <2>5 DEF Telling
    <3>2. \A g \in File : held'.files[g] # Unread => held'.files[g] = disk[g]
      BY <2>5 DEF TypeOK
    <3>3. held'.schedule = schedule
      BY <2>5
    <3> QED
      BY <2>1, <2>2, <3>1, <3>2, <3>3 DEF Undone, RolledBack
  <2> QED
    BY <1>2, <2>3, <2>4, <2>5 DEF Snapshot
<1>3. CASE EnterMaintenance \/ StopServices \/ Pull
  <2>1. phase = "run" /\ (Advance \/ Break) /\ UNCHANGED <<held, start, kind>>
    BY <1>3 DEF EnterMaintenance, StopServices, Pull, Running, plan
  <2>2. Running("enter") \/ Running("stop") \/ Running("pull")
    BY <1>3, Zenon DEF EnterMaintenance, StopServices, Pull
  <2>3. pos # IF kind = "core" THEN 2 ELSE 1
    BY <2>2
  <2> QED
    BY <2>1, <2>3, UndoneForward
<1>4. ASSUME NEW f \in File, ApplyArtifact(f)
      PROVE  Undone'
  BY <1>4, UndoneForward DEF ApplyArtifact, Running, File, plan
<1>5. ASSUME NEW f \in File, RestoreArtifact(f)
      PROVE  Undone'
  <2>1. phase = "undo" /\ UNCHANGED <<start, kind, held, backend, traffic>>
    BY <1>5 DEF RestoreArtifact, Undoing, plan
  <2>2. CASE Advance /\ ~Break
    <3>1. /\ f = "compose"  => pos = 1
          /\ f = "env"      => pos = 2
          /\ f = "manifest" => pos = 3
          /\ f = "lock"     => pos = 4
      BY <1>5 DEF RestoreArtifact
    <3>2. phase' = "undo" /\ pos' = pos + 1 /\ report' = report
      <4>1. kind \in Kind /\ pos < 5
        BY <3>1 DEF TypeOK, File
      <4> QED
        BY <2>1, <2>2, <4>1, UndoAdvances, Lengths
    <3>3. /\ disk' = [disk EXCEPT ![f] = IF held.files[f] = Unread THEN @ ELSE held.files[f]]
          /\ schedule' = IF f = "manifest" THEN held.schedule ELSE schedule
      BY <1>5, <2>2 DEF RestoreArtifact
    <3>4. held.files[f] # Unread => held.files[f] = start.disk[f]
      BY <2>1 DEF Undone
    <3>5. Restored(f)'
      BY <2>1, <3>3, <3>4 DEF Restored, TypeOK
    <3>6. \A g \in File \ {f} : Restored(g)' <=> Restored(g)
      BY <2>1, <3>3 DEF Restored, TypeOK
    <3>7. held.schedule = start.schedule
      BY <2>1 DEF Undone
    <3>8. ~RolledBack'
      BY <2>1, <3>2 DEF RolledBack, Telling
    <3>9. pos' <= 5
      BY <3>1, <3>2 DEF File
    <3> QED
      BY <2>1, <3>1, <3>2, <3>3, <3>5, <3>6, <3>7, <3>8, <3>9 DEF Undone, File
  <2> QED
    BY <1>5, <2>1, <2>2, UndoneFailed DEF RestoreArtifact
<1>6. CASE Up
  <2>1. CASE phase = "run"
    BY <1>6, <2>1, UndoneForward DEF Up, Doing, Undoing, plan
  <2>2. CASE phase = "undo" /\ ~Break
    <3>1. /\ pos = 5 /\ Advance /\ backend' = Desired /\ traffic' = TRUE
          /\ UNCHANGED <<disk, schedule, held, start, kind>>
      BY <1>6, <2>2 DEF Up, Doing, Running, Recreate, plan
    <3>2. Recreated'
      BY <3>1 DEF Recreated, Desired
    <3>3. schedule = start.schedule /\ \A f \in File : Restored(f)
      BY <2>2, <3>1 DEF Undone, File
    <3>4. schedule' = start'.schedule /\ \A f \in File : Restored(f)'
      BY <3>1, <3>3 DEF Restored
    <3>5. phase' # "run"
      BY <2>2, <3>1, AdvanceMoves
    <3>6. phase' = "undo" => /\ held'.schedule = start'.schedule
                             /\ \A f \in File : held'.files[f] # Unread => held'.files[f] = start'.disk[f]
      BY <2>2, <3>1 DEF Undone
    <3> QED
      BY <3>2, <3>4, <3>5, <3>6 DEF Undone, File
  <2>3. CASE phase = "undo" /\ Break
    BY <2>3, UndoneFailed
  <2> QED
    BY <1>6, <2>1, <2>2, <2>3 DEF Up, Doing, Running, Undoing
<1>7. CASE RunMigrations \/ ReinstallPlugins \/ CheckHealth \/ ExitMaintenance
  <2>1. phase = "run" /\ (Advance \/ Break) /\ UNCHANGED <<held, start, kind>>
    BY <1>7 DEF RunMigrations, ReinstallPlugins, CheckHealth, ExitMaintenance, Running, plan
  <2>2. Running("migrate") \/ Running("plugins") \/ Running("health") \/ Running("exit")
    BY <1>7, Zenon DEF RunMigrations, ReinstallPlugins, CheckHealth, ExitMaintenance
  <2>3. pos # IF kind = "core" THEN 2 ELSE 1
    BY <2>2
  <2> QED
    BY <2>1, <2>3, UndoneForward
<1>8. CASE RestorePluginState
  <2>1. UNCHANGED <<disk, schedule, backend, traffic, held, start, kind>>
    BY <1>8 DEF RestorePluginState, plan
  <2>2. CASE phase = "run" /\ Advance
    BY <1>8, <2>1, <2>2, UndoneForward DEF RestorePluginState, Doing, Undoing
  <2>3. CASE phase = "run" /\ pos' = pos + 1 /\ UNCHANGED <<phase, report>>
    <3>1. pos = 8 /\ kind # "core"
      BY <1>8, <2>3 DEF RestorePluginState, Doing, Undoing
    <3> QED
      BY <2>1, <2>3, <3>1 DEF Undone, RolledBack, Telling
  <2>4. CASE phase = "undo"
    <3>1. pos = 6 /\ (Advance \/ Finish)
      BY <1>8, <2>4 DEF RestorePluginState, Doing, Running
    <3>2. phase' # "undo" /\ phase' # "run"
      <4>1. CASE Finish
        BY <2>4, <4>1 DEF Finish, WayOut
      <4>2. CASE Advance
        <5>1. kind \in Kind /\ ~(pos < Len(Undo[kind]))
          BY <3>1, Lengths DEF TypeOK
        <5> QED
          BY <2>4, <4>2, <5>1, UndoAdvances
      <4> QED
        BY <3>1, <4>1, <4>2
    <3>3. (\A f \in File : Restored(f)) /\ schedule = start.schedule /\ Recreated
      BY <2>4, <3>1 DEF Undone, File
    <3>4. (\A f \in File : Restored(f)') /\ schedule' = start'.schedule /\ Recreated'
      BY <2>1, <3>3 DEF Restored, Recreated
    <3> QED
      BY <3>2, <3>4 DEF Undone
  <2> QED
    BY <1>8, <2>2, <2>3, <2>4 DEF RestorePluginState, Doing, Running, Undoing
<1>9. CASE SafeExitMaintenance \/ Crash
  BY <1>9 DEF SafeExitMaintenance, Crash, Undone, Restored, Recreated, RolledBack, instance, plan
<1>10. ASSUME NEW k \in Kind, StartUpdate(k)
       PROVE  Undone'
  BY <1>10 DEF StartUpdate, Undone, RolledBack
<1>11. CASE UNCHANGED vars
  BY <1>11 DEF vars, instance, plan, control, Undone, Restored, Recreated, RolledBack
<1> QED
  BY <1>1, <1>2, <1>3, <1>4, <1>5, <1>6, <1>7, <1>8, <1>9, <1>10, <1>11 DEF Next, Step

StartShape == start.disk \in [File -> Config]

LEMMA StartNext == TypeOK /\ StartShape /\ [Next]_vars => StartShape'
<1> SUFFICES ASSUME TypeOK, StartShape, [Next]_vars PROVE StartShape'
  OBVIOUS
<1>1. CASE Step \/ Crash \/ UNCHANGED vars
  <2>1. start' = start
    BY <1>1 DEF Step, TakeBackup, Snapshot, EnterMaintenance, StopServices, Pull, ApplyArtifact,
       RestoreArtifact, Up, RunMigrations, ReinstallPlugins, RestorePluginState, CheckHealth,
       ExitMaintenance, SafeExitMaintenance, Crash, plan, vars
  <2> QED
    BY <2>1 DEF StartShape
<1>2. ASSUME NEW k \in Kind, StartUpdate(k)
      PROVE  StartShape'
  BY <1>2 DEF StartUpdate, StartShape, TypeOK
<1> QED
  BY <1>1, <1>2 DEF Next

\* An update that reports a rollback has put every file and container back, if
\* its snapshot could read them all.
THEOREM Rollback == Spec => []RollbackRestores
<1>1. Init => Undone /\ StartShape
  BY FirstIsConfig DEF Init, Undone, RolledBack, StartShape
<1>2. TypeOK /\ StartShape /\ Undone => RollbackRestores
  <2> SUFFICES ASSUME TypeOK, StartShape, Undone, RolledBack,
                      \A f \in File : held.files[f] # Unread
               PROVE  RollbackRestores
    BY DEF RollbackRestores
  <2>1. \A f \in File : disk[f] = start.disk[f]
    BY DEF Undone, Restored
  <2>2. disk = start.disk
    BY <2>1 DEF TypeOK, StartShape
  <2> QED
    BY <2>2 DEF RollbackRestores, Undone, Recreated
<1> QED
  BY <1>1, <1>2, Typing, TellingHolds, CleanHolds, UndoneNext, StartNext, PTL DEF Spec

-----------------------------------------------------------------------------
(* The plugins of a frontend update                                         *)

\* An instance with its plugins in place and in the snapshot of its core.
Equipped == kind = "frontend" /\ start.safe = TRUE /\ recorded = TRUE

\* FrontendKeepsPlugins looks at the end. Until then the snapshot stays the one the
\* re-mount looks for; a running update that nothing went wrong in has lost the plugins
\* only between the recreate and the re-mount; a rollback has them everywhere or nowhere.
Kept ==
    Equipped =>
        /\ phase \in {"run", "undo"} =>
             tar \in Version /\ tar = start.disk["manifest"].stamp
        /\ phase = "run" /\ mishaps = 0 =>
             mounted = "all" \/ (mounted = "none" /\ pos = 8)
        /\ phase = "undo" =>
             mishaps > 0 /\ (mishaps = 1 => mounted \in {"all", "none"})
        /\ phase # "leave"
        /\ phase = "returned" /\ mishaps <= (IF report = "ok" THEN 0 ELSE 1) => mounted = "all"

\* A failure of a running step is the first one if nothing had failed before.
LEMMA KeptBroken ==
    ASSUME TypeOK, Kept, Break, phase \in {"run", "undo"},
           UNCHANGED <<kind, start, recorded, tar>>,
           mounted' \in {mounted, "none"}, mounted' = mounted \/ pos > 1
    PROVE  Kept'
<1> SUFFICES ASSUME Equipped' PROVE Kept'
  BY DEF Kept
<1>1. Equipped /\ mishaps' = mishaps + 1 /\ mishaps \in Nat
  BY DEF Equipped, Break, Mishap, TypeOK
<1>2. CASE phase = "run"
  <2>1. mishaps = 0 => mounted' \in {"all", "none"}
    BY <1>1, <1>2 DEF Kept
  <2>2. CASE Preparing
    <3>1. phase' = "returned" /\ pos = 1 /\ mounted' = mounted
      BY <1>1, <1>2, <2>2 DEF Break, Preparing, Equipped, TypeOK, Kept
    <3>2. mishaps = 0 => mounted' = "all"
      BY <1>1, <1>2, <3>1 DEF Kept
    <3> QED BY <1>1, <3>1, <3>2 DEF Kept
  <2>3. CASE ~Preparing
    <3>1. phase' = "undo"
      BY <1>2, <2>3 DEF Break
    <3> QED BY <1>1, <1>2, <2>1, <3>1 DEF Kept
  <2> QED BY <2>2, <2>3
<1>3. CASE phase = "undo"
  <2>1. phase' = "returned" /\ mishaps' > 1
    BY <1>1, <1>3 DEF Break, WayOut, Equipped, Kept
  <2> QED BY <1>1, <2>1 DEF Kept
<1> QED BY <1>2, <1>3

\* A step that succeeds and has nothing to do with the plugins.
LEMMA KeptDone ==
    ASSUME TypeOK, Kept, Advance, phase \in {"run", "undo"},
           UNCHANGED <<kind, start, recorded, tar, mounted>>,
           ~Running("remount"), phase = "undo" => pos < Len(Undo[kind])
    PROVE  Kept'
<1> SUFFICES ASSUME Equipped' PROVE Kept'
  BY DEF Kept
<1>1. Equipped /\ mishaps' = mishaps /\ mishaps \in Nat
  BY DEF Equipped, Advance, TypeOK
<1>2. CASE phase = "undo"
  <2>1. phase' = "undo"
    BY <1>2, AdvanceCases DEF Route
  <2> QED BY <1>1, <1>2, <2>1 DEF Kept
<1>3. CASE phase = "run"
  <2>1. pos # 8
    <3>1. pos \in 1..9
      BY <1>1, <1>3, Lengths DEF Equipped, TypeOK
    <3> QED BY <1>1, <1>3, <3>1, PathOf DEF Equipped, Running, FrontendPath
  <2>2. mishaps = 0 => mounted = "all"
    BY <1>1, <1>3, <2>1 DEF Kept
  <2>3. phase' = "run" \/ (phase' = "returned" /\ report' = "ok")
    BY <1>3, RunAdvances
  <2> QED BY <1>1, <1>3, <2>2, <2>3 DEF Kept
<1> QED BY <1>2, <1>3

LEMMA KeptNext == TypeOK /\ Kept /\ [Next]_vars => Kept'
<1> SUFFICES ASSUME TypeOK, Kept, [Next]_vars PROVE Kept'
  OBVIOUS
<1>1. CASE TakeBackup \/ EnterMaintenance \/ StopServices
  <2>1. kind = "core" /\ kind' = kind
    BY <1>1, RunningPlaces DEF TakeBackup, EnterMaintenance, StopServices, plan
  <2> QED BY <2>1 DEF Kept, Equipped
<1>2. CASE RunMigrations \/ ReinstallPlugins \/ ExitMaintenance
  <2>1. kind = "core" /\ kind' = kind
    BY <1>2, RunningPlaces DEF RunMigrations, ReinstallPlugins, ExitMaintenance, plan
  <2> QED BY <2>1 DEF Kept, Equipped
<1>3. CASE Snapshot
  <2>1. /\ phase = "run" /\ Running("snapshot")
        /\ UNCHANGED <<kind, start, recorded, tar, mounted>>
    BY <1>3 DEF Snapshot, Running, instance, plan
  <2>2. ~Running("remount")
    BY <2>1 DEF Running
  <2>3. CASE Advance \/ Break
    BY <2>1, <2>2, <2>3, KeptDone, KeptBroken
  <2>4. CASE Mishap /\ UNCHANGED phase
    BY <2>1, <2>4 DEF Mishap, Kept, Equipped, TypeOK
  <2> QED BY <1>3, <2>3, <2>4 DEF Snapshot
<1>4. CASE Pull \/ CheckHealth
  <2>1. /\ phase = "run" /\ (Running("pull") \/ Running("health")) /\ (Advance \/ Break)
        /\ UNCHANGED <<kind, start, recorded, tar, mounted>>
    BY <1>4 DEF Pull, CheckHealth, Running, instance, plan
  <2>2. ~Running("remount")
    BY <2>1 DEF Running
  <2> QED BY <2>1, <2>2, KeptDone, KeptBroken
<1>5. ASSUME NEW f \in File, ApplyArtifact(f) \/ RestoreArtifact(f)
      PROVE  Kept'
  <2>1. /\ Running(f) \/ Undoing(f)
        /\ Advance \/ Break
        /\ UNCHANGED <<kind, start, recorded, tar, mounted>>
    BY <1>5 DEF ApplyArtifact, RestoreArtifact, plan
  <2>2. phase \in {"run", "undo"} /\ ~Running("remount")
    BY <2>1 DEF Running, Undoing, File
  <2>3. phase = "undo" => pos < Len(Undo[kind])
    <3>1. phase = "undo" => pos <= 4 /\ pos \in Nat
      BY <2>1, UndoingPlaces DEF Running, File, TypeOK
    <3> QED BY <3>1, Lengths DEF TypeOK
  <2> QED BY <2>1, <2>2, <2>3, KeptDone, KeptBroken
<1>6. CASE Up
  <2>1. /\ Running("up") \/ Undoing("up")
        /\ Advance \/ Break
        /\ mounted' \in {mounted, "none"}
        /\ UNCHANGED <<kind, start, recorded, tar>>
    BY <1>6 DEF Up, Doing, Recreate, plan
  <2>2. phase \in {"run", "undo"} /\ pos > 1
    BY <2>1, RunningPlaces, UndoingPlaces DEF Running, Undoing
  <2>3. CASE Break
    BY <2>1, <2>2, <2>3, KeptBroken
  <2>4. CASE Advance
    <3>1. SUFFICES ASSUME Equipped' PROVE Kept'
      BY DEF Kept
    <3>2. Equipped /\ mishaps' = mishaps
      BY <2>1, <2>4, <3>1 DEF Equipped, Advance
    <3>3. CASE phase = "run"
      <4>1. pos = 7 /\ phase' = "run" /\ pos' = 8
        BY <2>1, <2>4, <3>2, <3>3, RunningPlaces, RunStands DEF Equipped, Undoing
      <4> QED BY <2>1, <3>2, <3>3, <4>1 DEF Kept
    <3>4. CASE phase = "undo"
      <4>1. pos = 5 /\ Len(Undo[kind]) = 6
        BY <2>1, <3>2, <3>4, UndoingPlaces, Lengths DEF Equipped, Running, Kind
      <4>2. phase' = "undo"
        BY <2>4, <3>4, <4>1, UndoAdvances
      <4> QED BY <2>1, <3>2, <3>4, <4>2 DEF Kept
    <3> QED BY <2>2, <3>3, <3>4
  <2> QED BY <2>1, <2>3, <2>4
<1>7. CASE RestorePluginState
  <2>1. SUFFICES ASSUME Equipped' PROVE Kept'
    BY DEF Kept
  <2>2. /\ Equipped /\ UNCHANGED <<start, tar>>
        /\ Running("remount") \/ Undoing("remount")
    BY <1>7, <2>1 DEF Equipped, RestorePluginState, Doing, plan
  <2>3. tar # 0 /\ tar = start.disk["manifest"].stamp
    BY <2>2 DEF Kept, Running, Undoing, Version
  <2>4. CASE phase = "run"
    <3>1. pos = 8
      BY <2>2, <2>4, RunningPlaces DEF Undoing
    <3>2. CASE Advance
      <4>1. phase' = "run" /\ mishaps' = mishaps
        BY <2>2, <2>4, <3>1, <3>2, RunStands DEF Equipped, Advance
      <4>2. mishaps = 0 => mounted \in {"all", "none"}
        BY <2>2, <2>4 DEF Kept
      <4>3. mounted' = IF mounted = "none" THEN "all" ELSE mounted
        BY <1>7, <2>3, <2>4, <3>2 DEF RestorePluginState, Mishap, Advance, TypeOK
      <4> QED BY <2>2, <2>4, <4>1, <4>2, <4>3 DEF Kept
    <3>3. CASE Mishap /\ UNCHANGED phase
      BY <2>2, <2>4, <3>3 DEF Mishap, Kept, TypeOK
    <3> QED BY <1>7, <2>4, <3>2, <3>3 DEF RestorePluginState
  <2>5. CASE phase = "undo"
    <3>1. pos = 6 /\ Len(Undo[kind]) = 6
      BY <2>2, <2>5, UndoingPlaces, Lengths DEF Running, Equipped, Kind
    <3>2. mishaps \in Nat /\ mishaps > 0 /\ (mishaps = 1 => mounted \in {"all", "none"})
      BY <2>2, <2>5 DEF Kept, TypeOK
    <3>3. CASE Advance
      <4>1. phase' = "returned" /\ mishaps' = mishaps
        <5>1. Len(Route) = 6 /\ mishaps' = mishaps
          BY <2>5, <3>1, <3>3 DEF Advance, Route
        <5>2. Finish
          BY <2>5, <3>1, <3>3, <5>1, AdvanceCases
        <5> QED BY <2>2, <2>5, <5>1, <5>2 DEF Finish, WayOut, Equipped
      <4>2. mounted' = IF mounted = "none" THEN "all" ELSE mounted
        BY <1>7, <2>3, <2>5, <3>3 DEF RestorePluginState, Mishap, Advance, TypeOK
      <4> QED BY <2>1, <3>2, <4>1, <4>2 DEF Kept
    <3>4. CASE Mishap /\ Finish
      <4>1. phase' = "returned" /\ mishaps' > 1
        BY <2>2, <2>5, <3>2, <3>4 DEF Mishap, Finish, WayOut, Equipped
      <4> QED BY <2>1, <3>2, <3>4, <4>1 DEF Kept, Mishap
    <3> QED BY <1>7, <2>5, <3>3, <3>4 DEF RestorePluginState
  <2> QED BY <2>2, <2>4, <2>5 DEF Running, Undoing
<1>8. CASE SafeExitMaintenance \/ Crash
  <2>1. UNCHANGED <<kind, start, recorded>>
    BY <1>8 DEF SafeExitMaintenance, Crash, instance, plan
  <2>2. phase = "leave" \/ phase' = "crashed"
    BY <1>8 DEF SafeExitMaintenance, Crash
  <2> QED BY <2>1, <2>2 DEF Kept, Equipped
<1>9. ASSUME NEW k \in Kind, StartUpdate(k)
      PROVE  Kept'
  <2>1. /\ phase' = "run" /\ mishaps' = 0 /\ UNCHANGED <<mounted, tar>>
        /\ start'.safe = (mounted = "all" /\ tar = disk["manifest"].stamp)
        /\ start'.disk = disk
    BY <1>9 DEF StartUpdate, instance
  <2>2. disk["manifest"].stamp \in Version
    BY DEF TypeOK, File, Config
  <2> QED BY <2>1, <2>2 DEF Kept, Equipped
<1>10. CASE UNCHANGED vars
  BY <1>10 DEF vars, instance, plan, control, Kept, Equipped
<1> QED
  BY <1>1, <1>2, <1>3, <1>4, <1>5, <1>6, <1>7, <1>8, <1>9, <1>10 DEF Next, Step

\* A frontend update leaves the plugins everywhere if it found them there and in the
\* snapshot, also when it is rolled back after a single failure (update.ts:658,678 re-mount
\* them from the snapshot of the running core, on both ways).
THEOREM PluginsSurvive == Spec => []FrontendKeepsPlugins
<1>1. Init => Kept
  BY DEF Init, Kept, Equipped
<1>2. TypeOK /\ Kept => FrontendKeepsPlugins
  BY DEF Kept, Equipped, FrontendKeepsPlugins, TypeOK
<1> QED
  BY <1>1, <1>2, Typing, KeptNext, PTL DEF Spec

=============================================================================
