------------------------------ MODULE Updates ------------------------------
(***************************************************************************)
(* The three updates of an instance: of the core (executeUpdate), of the   *)
(* frontend alone (executeFrontendUpdate) and of the mobile preview alone  *)
(* (executeMobilePreviewUpdate), with the seams app-actions gives them.    *)
(*                                                                         *)
(* An update is a path of steps; each awaits a file write, docker compose  *)
(* or a command in a container, and may fail half-way. A failure before    *)
(* anything is mutated aborts, a later one rolls back. The manager may die *)
(* between any two steps and comes back knowing nothing of the update.     *)
(* The per-instance lock of Operations keeps updates of one instance from  *)
(* overlapping, so this module has one instance and one update at a time.  *)
(***************************************************************************)
EXTENDS Naturals, Sequences

CONSTANTS
    Latest,       \* newest release of every product; 1 is the oldest
    Unread,       \* what the snapshot holds of a file it could not read
    MaxUpdates,   \* bound on updates started
    MaxMishaps,   \* bound on failed steps, over all updates
    MaxCrashes    \* bound on deaths of the manager in an update

ASSUME LatestAssumption == Latest \in Nat \ {0}
ASSUME BoundAssumption  == {MaxUpdates, MaxMishaps, MaxCrashes} \subseteq Nat

VARIABLES
    disk,      \* which configuration each file of the instance directory pins
    schedule,  \* the manifest carries a backupSchedule
    backend,   \* the files the backend container was created from
    gate,      \* the maintenance lock is in the backend container
    mounted,   \* where the plugins are: "none", "backend" (the marker's place) or "all"
    traffic,   \* frontend, worker and scheduler all run
    schema,    \* core version the database is migrated to
    recorded,  \* the database records installed plugins
    tar,       \* core version of the plugin snapshot on the volume, 0 if none
    kind, phase, pos,        \* the update and the step it is at
    target, destructive,     \* what the plan resolved
    held,      \* what the snapshot step captured
    backedUp, migrated,      \* backupId is set; migrationsAttempted
    report,    \* what the executor returns
    start,     \* the instance as the update found it; the code reads its manifest then,
               \* the rest is history
    mishaps,   \* history: failed steps of this update
    failures, crashes, updates

instance == <<disk, schedule, backend, gate, mounted, traffic, schema, recorded, tar>>
plan     == <<kind, target, destructive, start, updates>>
control  == <<phase, pos, report, mishaps, failures>>
vars     == <<instance, plan, control, held, backedUp, migrated, crashes>>

-----------------------------------------------------------------------------
Version == 1..Latest
File    == {"compose", "env", "manifest", "lock"}
Kind    == {"core", "frontend", "preview"}

\* The images and the version stamp of the core, and the other two products.
Config == [image : Version, stamp : Version, frontend : Version, preview : Version]

\* The files docker compose looks at when it decides what to recreate.
Desired == [compose |-> disk["compose"], env |-> disk["env"]]

\* Mutant: the gate is not closed again in the fresh backend.
CorePathNoReassert ==
    <<"backup", "snapshot", "enter", "stop", "pull", "compose", "env", "manifest", "lock",
      "up", "migrate", "plugins", "health", "exit">>

CorePath ==
    <<"backup", "snapshot", "enter", "stop", "pull", "compose", "env", "manifest", "lock",
      "up", "enter", "migrate", "plugins", "health", "exit">>
FrontendPath ==
    <<"snapshot", "compose", "env", "manifest", "lock", "pull", "up", "remount", "health">>
PreviewPath ==
    <<"snapshot", "compose", "env", "manifest", "lock", "pull", "up", "remount", "health">>

Path == [core |-> CorePath, frontend |-> FrontendPath, preview |-> PreviewPath]

\* The rollback closures; the frontend's also re-mounts the plugins.
\* Mutant: the core's rollback forgets the lock.
UndoCoreNoLock == <<"compose", "env", "manifest", "up">>
UndoCore     == <<"compose", "env", "manifest", "lock", "up">>
\* Mutant: the frontend's rollback recreates the containers and leaves it at that.
UndoFrontendBare == UndoCore
UndoFrontend == <<"compose", "env", "manifest", "lock", "up", "remount">>
UndoPreview  == <<"compose", "env", "manifest", "lock", "up">>
Undo == [core |-> UndoCore, frontend |-> UndoFrontend, preview |-> UndoPreview]

Busy == phase \in {"run", "undo", "leave"}

Running(step) == phase = "run" /\ Path[kind][pos] = step
Undoing(step) == phase = "undo" /\ Undo[kind][pos] = step
Doing(step)   == Running(step) \/ Undoing(step)

\* Mutant: the rollback relies on the recreated backend to have no gate.
WayOutReturns == "returned"

\* Core updates leave the maintenance gate once more on their way out.
WayOut == IF kind = "core" THEN "leave" ELSE "returned"

\* A rollback that cannot give the data back says so (requiresManualRestore).
Finish ==
    /\ report' = IF phase = "run" THEN "ok"
                 ELSE IF migrated /\ destructive THEN "restoreBackup" ELSE "rolledBack"
    /\ phase' = IF phase = "run" THEN "returned" ELSE WayOut
    /\ UNCHANGED pos

Route == IF phase = "run" THEN Path[kind] ELSE Undo[kind]

\* The step is done: the next one of the path, or the report.
Advance ==
    /\ IF pos < Len(Route)
       THEN pos' = pos + 1 /\ UNCHANGED <<phase, report>>
       ELSE Finish
    /\ UNCHANGED <<mishaps, failures>>

Mishap ==
    /\ failures < MaxMishaps
    /\ failures' = failures + 1
    /\ mishaps' = mishaps + 1

\* Mutant: the artifacts are applied among the steps whose failure aborts.
PreparingArtifacts == phase = "run" /\ pos <= IF kind = "core" THEN 9 ELSE 1

\* Steps whose failure aborts: nothing is mutated before "pull".
Preparing == phase = "run" /\ pos <= IF kind = "core" THEN 4 ELSE 1

\* The step's promise rejects.
Break ==
    /\ Mishap
    /\ \/ /\ Preparing
          /\ report' = "aborted"
          /\ phase' = IF kind = "core" /\ pos > 2 THEN "leave" ELSE "returned"
          /\ UNCHANGED pos
       \/ /\ phase = "run" /\ ~Preparing
          /\ phase' = "undo" /\ pos' = 1
          /\ UNCHANGED report
       \/ /\ phase = "undo"
          /\ report' = "failed"
          /\ phase' = WayOut
          /\ UNCHANGED pos

-----------------------------------------------------------------------------
First == [image |-> 1, stamp |-> 1, frontend |-> 1, preview |-> 1]

\* A healthy instance of the oldest release, with or without plugins.
Init ==
    /\ disk = [f \in File |-> First]
    /\ schedule \in BOOLEAN
    /\ backend = [compose |-> First, env |-> First]
    /\ gate = FALSE
    /\ recorded \in BOOLEAN
    /\ mounted = IF recorded THEN "all" ELSE "none"
    /\ tar = IF recorded THEN 1 ELSE 0
    /\ traffic = TRUE
    /\ schema = 1
    /\ kind = "core" /\ phase = "idle" /\ pos = 1
    /\ target = First
    /\ destructive = FALSE
    /\ held = [files |-> [f \in File |-> Unread], schedule |-> FALSE]
    /\ backedUp = FALSE /\ migrated = FALSE
    /\ report = "none"
    /\ start = [disk |-> disk, schedule |-> schedule, backend |-> backend, schema |-> schema,
                safe |-> recorded]
    /\ mishaps = 0 /\ failures = 0 /\ crashes = 0 /\ updates = 0

(* Plans *)

\* planUpdate: a core newer than the manifest's, with a frontend and a preview
\* that suit it; a destructive target only with the operator's consent.
PlanCore(c) ==
    /\ c.stamp > disk["manifest"].stamp
    /\ c.image = c.stamp

\* planFrontendUpdate; the core is rebuilt from the manifest's images and the
\* lock's version (releaseShapesFromLock).
PlanFrontend(c) ==
    /\ c.frontend > disk["manifest"].frontend
    /\ c = [disk["manifest"] EXCEPT !.stamp = disk["lock"].stamp, !.frontend = c.frontend]

PlanPreview(c) ==
    /\ c.preview > disk["manifest"].preview
    /\ c = [disk["manifest"] EXCEPT !.stamp = disk["lock"].stamp, !.preview = c.preview]

StartUpdate(k) ==
    /\ ~Busy
    /\ updates < MaxUpdates
    /\ updates' = updates + 1
    /\ kind' = k /\ phase' = "run" /\ pos' = 1
    /\ target' \in Config
    /\ k = "core"     => PlanCore(target')
    /\ k = "frontend" => PlanFrontend(target')
    /\ k = "preview"  => PlanPreview(target')
    /\ destructive' \in (IF k = "core" THEN BOOLEAN ELSE {FALSE})
    /\ start' = [disk |-> disk, schedule |-> schedule, backend |-> backend, schema |-> schema,
                 safe |-> mounted = "all" /\ tar = disk["manifest"].stamp]
    /\ held' = [files |-> [f \in File |-> Unread], schedule |-> FALSE]
    /\ backedUp' = FALSE /\ migrated' = FALSE
    /\ report' = "none"
    /\ mishaps' = 0
    /\ UNCHANGED <<instance, failures, crashes>>

(* Steps of the executors *)

\* instanceBackup: dump, metadata, archives; the manifest that makes it a
\* backup is written last.
TakeBackup ==
    /\ Running("backup")
    /\ \/ Advance /\ backedUp' = TRUE
       \/ Break /\ UNCHANGED backedUp
    /\ UNCHANGED <<instance, plan, held, migrated, crashes>>

\* The snapshot closure. A read error of compose.yaml or .env is swallowed,
\* one of the manifest or the lock is not.
Snapshot ==
    /\ Running("snapshot")
    /\ \/ /\ Advance
          /\ held' = [files |-> disk, schedule |-> schedule]
       \/ \E f \in {"compose", "env"} :
          /\ Mishap
          /\ pos' = pos + 1
          /\ held' = [files |-> [disk EXCEPT ![f] = Unread], schedule |-> schedule]
          /\ UNCHANGED <<phase, report>>
       \/ Break /\ UNCHANGED held
    /\ UNCHANGED <<instance, plan, backedUp, migrated, crashes>>

\* selfhelp:maintenance --enable, before the containers are replaced and again
\* in the new backend; a failed exec may have set the lock.
EnterMaintenance ==
    /\ Running("enter")
    /\ \/ Advance /\ gate' = TRUE
       \/ Break /\ gate' \in {gate, TRUE}
    /\ UNCHANGED <<disk, schedule, backend, mounted, traffic, schema, recorded, tar,
                   plan, held, backedUp, migrated, crashes>>

\* docker compose stop frontend worker scheduler; some may have stopped when
\* it fails.
StopServices ==
    /\ Running("stop")
    /\ \/ Advance /\ traffic' = FALSE
       \/ Break /\ traffic' \in {traffic, FALSE}
    /\ UNCHANGED <<disk, schedule, backend, gate, mounted, schema, recorded, tar,
                   plan, held, backedUp, migrated, crashes>>

\* docker compose pull, of the images compose.yaml names at that moment.
Pull ==
    /\ Running("pull")
    /\ Advance \/ Break
    /\ UNCHANGED <<instance, plan, held, backedUp, migrated, crashes>>

\* applyArtifacts writes the files one after the other, each atomically. The
\* manifest is built anew and has no backupSchedule.
ApplyArtifact(f) ==
    /\ Running(f)
    /\ \/ /\ Advance
          /\ disk' = [disk EXCEPT ![f] = target]
          /\ schedule' = (f # "manifest" /\ schedule)
       \/ Break /\ UNCHANGED <<disk, schedule>>
    /\ UNCHANGED <<backend, gate, mounted, traffic, schema, recorded, tar,
                   plan, held, backedUp, migrated, crashes>>

\* Mutant: an empty text is written back as well.
RestoreArtifactUnchecked(f) ==
    /\ Undoing(f)
    /\ \/ /\ Advance
          /\ disk' = [disk EXCEPT ![f] = held.files[f]]
          /\ schedule' = IF f = "manifest" THEN held.schedule ELSE schedule
       \/ Break /\ UNCHANGED <<disk, schedule>>
    /\ UNCHANGED <<backend, gate, mounted, traffic, schema, recorded, tar,
                   plan, held, backedUp, migrated, crashes>>

\* rollback writes back what the snapshot holds; an empty text is not written.
RestoreArtifact(f) ==
    /\ Undoing(f)
    /\ \/ /\ Advance
          /\ disk' = [disk EXCEPT ![f] = IF held.files[f] = Unread THEN @ ELSE held.files[f]]
          /\ schedule' = IF f = "manifest" THEN held.schedule ELSE schedule
       \/ Break /\ UNCHANGED <<disk, schedule>>
    /\ UNCHANGED <<backend, gate, mounted, traffic, schema, recorded, tar,
                   plan, held, backedUp, migrated, crashes>>

\* docker compose recreates the backend when its files changed: the container
\* layer goes, and with it the maintenance lock and the plugins' vendor tree.
Recreate ==
    /\ backend' = Desired
    /\ gate' = (gate /\ backend = Desired)
    /\ mounted' = IF backend = Desired THEN mounted ELSE "none"

\* docker compose up -d, forward and in the rollback. It starts what is
\* stopped; when it fails, any of its work may have been done.
Up ==
    /\ Doing("up")
    /\ \/ Advance /\ Recreate /\ traffic' = TRUE
       \/ /\ Break
          /\ Recreate \/ UNCHANGED <<backend, gate, mounted>>
          /\ traffic' \in BOOLEAN
    /\ UNCHANGED <<disk, schedule, schema, recorded, tar, plan, held, backedUp, migrated, crashes>>

\* Mutant: migrations count as attempted once they are through.
RunMigrationsThenMark ==
    /\ Running("migrate")
    /\ \/ Advance /\ schema' = backend.compose.image /\ migrated' = TRUE
       \/ Break /\ schema' \in {schema, backend.compose.image} /\ UNCHANGED migrated
    /\ UNCHANGED <<disk, schedule, backend, gate, mounted, traffic, recorded, tar,
                   plan, held, backedUp, crashes>>

\* doctrine:migrations:migrate in the backend that runs by now.
RunMigrations ==
    /\ Running("migrate")
    /\ migrated' = TRUE
    /\ \/ Advance /\ schema' = backend.compose.image
       \/ Break /\ schema' \in {schema, backend.compose.image}
    /\ UNCHANGED <<disk, schedule, backend, gate, mounted, traffic, recorded, tar,
                   plan, held, backedUp, crashes>>

\* Mutant: the new state is not propagated to worker and scheduler.
ReinstallPluginsBackendOnly ==
    /\ Running("plugins")
    /\ \/ /\ Advance
          /\ mounted' = IF recorded /\ mounted = "none" THEN "backend" ELSE mounted
          /\ tar' = IF recorded THEN target.stamp ELSE tar
       \/ Break /\ UNCHANGED <<mounted, tar>>
    /\ UNCHANGED <<disk, schedule, backend, gate, traffic, schema, recorded,
                   plan, held, backedUp, migrated, crashes>>

\* reinstallPluginsForCore: composer require each plugin in the backend, repair
\* (which writes the marker), remove every snapshot, take a new one, extract it
\* in worker and scheduler, restart.
ReinstallPlugins ==
    /\ Running("plugins")
    /\ \/ /\ Advance
          /\ mounted' = IF recorded THEN "all" ELSE mounted
          /\ tar' = IF recorded THEN target.stamp ELSE tar
       \/ Break /\ UNCHANGED <<mounted, tar>>
       \/ /\ recorded
          /\ Break
          /\ mounted' = IF mounted = "none" THEN "backend" ELSE mounted
          /\ tar' \in {tar, 0, target.stamp}
    /\ UNCHANGED <<disk, schedule, backend, gate, traffic, schema, recorded,
                   plan, held, backedUp, migrated, crashes>>

\* restorePluginStateAfterRecreate: when the marker is gone and there is a
\* snapshot for the core the manifest named when the update began, extract it
\* in all three services. Never fails the update.
RestorePluginState ==
    /\ Doing("remount")
    /\ \/ /\ Advance
          /\ mounted' = IF mounted = "none" /\ tar # 0 /\ tar = start.disk["manifest"].stamp
                        THEN "all" ELSE mounted
       \/ /\ Mishap
          /\ mounted' \in {mounted, IF mounted = "none" /\ tar # 0 THEN "backend" ELSE mounted}
          /\ IF phase = "run" THEN pos' = pos + 1 /\ UNCHANGED <<phase, report>> ELSE Finish
    /\ UNCHANGED <<disk, schedule, backend, gate, traffic, schema, recorded, tar,
                   plan, held, backedUp, migrated, crashes>>

\* The probe needs the frontend; an unhealthy report and a failed probe both
\* roll the update back.
CheckHealth ==
    /\ Running("health")
    /\ \/ traffic /\ Advance
       \/ Break
    /\ UNCHANGED <<instance, plan, held, backedUp, migrated, crashes>>

\* selfhelp:maintenance --disable once the update is healthy.
ExitMaintenance ==
    /\ Running("exit")
    /\ \/ Advance /\ gate' = FALSE
       \/ Break /\ gate' \in {gate, FALSE}
    /\ UNCHANGED <<disk, schedule, backend, mounted, traffic, schema, recorded, tar,
                   plan, held, backedUp, migrated, crashes>>

\* The same command after an abort or a rollback, its errors swallowed.
SafeExitMaintenance ==
    /\ phase = "leave"
    /\ phase' = "returned"
    /\ \/ gate' = FALSE /\ UNCHANGED <<mishaps, failures>>
       \/ Mishap /\ gate' = gate
    /\ UNCHANGED <<pos, report, disk, schedule, backend, mounted, traffic, schema, recorded, tar,
                   plan, held, backedUp, migrated, crashes>>

\* The manager dies in an update; nothing resumes or undoes it.
Crash ==
    /\ Busy
    /\ crashes < MaxCrashes
    /\ crashes' = crashes + 1
    /\ phase' = "crashed"
    /\ UNCHANGED <<pos, report, mishaps, failures, instance, plan, held, backedUp, migrated>>

-----------------------------------------------------------------------------
Step ==
    \/ TakeBackup \/ Snapshot \/ EnterMaintenance \/ StopServices \/ Pull
    \/ \E f \in File : ApplyArtifact(f) \/ RestoreArtifact(f)
    \/ Up \/ RunMigrations \/ ReinstallPlugins \/ RestorePluginState
    \/ CheckHealth \/ ExitMaintenance \/ SafeExitMaintenance

Next == Crash \/ Step \/ \E k \in Kind : StartUpdate(k)

Spec == Init /\ [][Next]_vars

\* The executor's continuations all run, as long as its process lives.
FairSpec == Spec /\ WF_vars(Step)

-----------------------------------------------------------------------------
(* Properties *)

\* Every variable keeps its shape, and the position stays within the path.
TypeOK ==
    /\ disk \in [File -> Config]
    /\ backend \in [compose : Config, env : Config]
    /\ {schedule, gate, traffic, recorded, destructive, backedUp, migrated} \subseteq BOOLEAN
    /\ mounted \in {"none", "backend", "all"}
    /\ schema \in Version
    /\ tar \in Version \cup {0}
    /\ kind \in Kind
    /\ phase \in {"idle", "run", "undo", "leave", "returned", "crashed"}
    /\ phase = "run" => pos \in 1..Len(Path[kind])
    /\ phase = "undo" => pos \in 1..Len(Undo[kind])
    /\ target \in Config
    /\ held \in [files : [File -> Config \cup {Unread}], schedule : BOOLEAN]
    /\ report \in {"none", "ok", "rolledBack", "restoreBackup", "aborted", "failed"}
    /\ {mishaps, failures, crashes, updates} \subseteq Nat

\* While the database is being migrated, its plugins are reinstalled and its
\* health is probed, a core update keeps the maintenance gate up; and whatever
\* it did to the database, a backup of this update precedes it.
MigrationGuarded ==
    kind = "core" /\ phase = "run" =>
        /\ Path["core"][pos] \in {"migrate", "plugins", "health"} => gate
        /\ schema # start.schema => backedUp /\ gate

\* An update that reports ok is complete: every file and container is the
\* target's, all services run ungated, and a core update has also migrated the
\* database and brought the plugins back everywhere, whatever an earlier
\* update or a crash had left behind.
SuccessIsComplete ==
    phase = "returned" /\ report = "ok" =>
        /\ disk = [f \in File |-> target]
        /\ backend = [compose |-> target, env |-> target]
        /\ traffic
        /\ kind = "core" =>
            /\ schema = target.image /\ ~gate
            /\ recorded => mounted = "all" /\ tar = target.stamp

RolledBack == report \in {"rolledBack", "restoreBackup"}

\* An update that reports a rollback has put every file and container back as
\* they were, and all services run, provided the snapshot read every file.
RollbackRestores ==
    (phase = "returned" /\ RolledBack /\ \A f \in File : held.files[f] # Unread) =>
        /\ disk = start.disk /\ schedule = start.schedule
        /\ backend = [compose |-> start.disk["compose"], env |-> start.disk["env"]]
        /\ traffic

\* A rollback that says nothing of the backup leaves no destructive migration
\* behind, not even half of one.
DataLossFlagged ==
    phase = "returned" /\ report = "rolledBack" /\ destructive => schema = start.schema

\* An update that reports nothing done has changed no file, container or
\* database of the instance.
AbortMutatesNothing ==
    phase = "returned" /\ report = "aborted" =>
        /\ disk = start.disk /\ schedule = start.schedule
        /\ backend = start.backend /\ schema = start.schema

\* A frontend update keeps the plugins, whether it goes through or is rolled
\* back after a single failure, if they were in place and snapshotted.
FrontendKeepsPlugins ==
    (phase = "returned" /\ kind = "frontend" /\ start.safe /\ recorded
        /\ mishaps <= IF report = "ok" THEN 0 ELSE 1)
        => mounted = "all"

\* A single failure, wherever it strikes, never leaves the instance stuck in
\* maintenance: the gate goes down unless the manager dies or more goes wrong.
GateLifts == gate ~> (~gate \/ crashes > 0 \/ mishaps > 1)

\* The rollback of a core update that got as far as the containers gives the
\* instance its plugins back: "restore the exact prior state".
PluginsSurviveRollback ==
    (phase = "returned" /\ RolledBack /\ start.safe /\ recorded /\ mishaps = 1)
        => mounted = "all"

\* "Nothing is mutated yet, so a failure here aborts cleanly": after an abort
\* the services that ran before the update run again.
AbortIsClean ==
    (phase = "returned" /\ report = "aborted" /\ crashes = 0 /\ mishaps = 1 /\ updates = 1)
        => traffic

\* The backup schedule is the operator's: an update does not take it away.
ScheduleKept ==
    phase = "returned" => schedule = start.schedule

=============================================================================
