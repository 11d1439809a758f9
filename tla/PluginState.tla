---------------------------- MODULE PluginState ----------------------------
(****************************************************************************)
(* Plugins of an instance (packages/core/src/plugin-state.ts and its        *)
(* callers): the CMS parks plugin operations in the database, and the       *)
(* manager carries them out with composer in the backend container, has the *)
(* backend finalize them, and copies the result to the other Symfony        *)
(* services through a snapshot on a volume.  Containers lose their file     *)
(* system when they are recreated, the database and the volume do not.      *)
(*                                                                          *)
(* The manager does one of these tasks at a time on an instance (the lock   *)
(* of module Operations); the CMS goes on beside it.  Each stage of a task  *)
(* is one command in a container.  What the commands of the backend do is   *)
(* taken from how the manager uses them and what its comments say of them.  *)
(* A plugin has a composer package; a purge is an uninstall here.           *)
(****************************************************************************)
EXTENDS Naturals, Sequences

CONSTANTS
  Prudent,        \* operators use the recovery only on a backend that does not boot
  Plugin,
  Follower,       \* the services beside the backend: worker and scheduler
  MaxVersion,     \* bound: versions of a plugin
  MaxParks,       \* bound: operations parked by the CMS
  MaxChanges,     \* bound: recreated containers, core updates, safe mode switched
  MaxMishaps      \* bound: commands that fail, deaths of the manager

ASSUME PluginStateAssumption ==
  /\ Prudent \in BOOLEAN /\ "backend" \notin Follower
  /\ {MaxVersion, MaxParks, MaxChanges, MaxMishaps} \subseteq Nat

Service == {"backend"} \union Follower

VARIABLES
  core,      \* version of the core, of which the snapshot bears the name
  rows,      \* [Plugin -> version, or 0]: table `plugins`
  on,        \* the plugins enabled in that table
  queue,     \* the parked operations, oldest first
  disk,      \* [Service -> composer state in the container]
  cache,     \* [Service -> plugins the compiled cache was built with, or Cold]
  runs,      \* [Service -> [Plugin -> version, or 0], or Dead]: what it has loaded
  snapshot,  \* the tar on the plugin volume
  safe,      \* the safe-mode marker in the backend
  task,      \* what the manager is doing
  inStep,    \* history: the last task ended with all services restarted on one state
  outcome,   \* history: how the last recovery ended, until something else happens
  count      \* [parks, changes, mishaps]

pluginsVars == <<core, rows, on, queue, disk, cache, runs, snapshot, safe, task, inStep, outcome, count>>

None == [p \in Plugin |-> 0]
Cold == {"cold"}
Dead == [p \in Plugin |-> MaxVersion + 1]
Baked == [vendor |-> None, bundles |-> {}, marker |-> FALSE]
NoSnapshot == [core |-> 0]
Torn(version) == [core |-> version, image |-> [Baked EXCEPT !.vendor = Dead]]

NoTask == [kind |-> "none", stage |-> "idle"]
Task(kind, stage, list) ==
  [kind |-> kind, stage |-> stage, left |-> list, done |-> FALSE, keep |-> FALSE,
   todo |-> Follower]

----------------------------------------------------------------------------
(* What containers do *)

\* The generated bundles file may name classes that are not there.
Loadable(s) == \A p \in disk[s].bundles : disk[s].vendor[p] > 0
Up == safe \/ Loadable("backend")

\* What is compiled into the cache, if the kernel boots: in safe mode no plugin.
Compiles(s) == Loadable(s) \/ (s = "backend" /\ safe)
Compiled(s) == IF s = "backend" /\ safe THEN {} ELSE disk[s].bundles

\* What a service loads when it starts: a warm cache decides which plugins it sees.
Booted(s) ==
  LET seen == IF cache[s] = Cold THEN disk[s].bundles ELSE cache[s]
  IN  IF s = "backend" /\ safe THEN None
      ELSE IF ~Loadable(s) THEN Dead
      ELSE [p \in Plugin |-> IF p \in seen /\ p \in disk[s].bundles THEN disk[s].vendor[p] ELSE 0]

\* `up` replaces every container by a fresh one.
Recreated ==
  /\ disk' = [s \in Service |-> Baked]
  /\ cache' = [s \in Service |-> Cold]
  /\ runs' = [s \in Service |-> None]
  /\ safe' = FALSE

\* The backend writes bundles file and plugin lock from the database.
Regenerate(enabled) ==
  disk' = [disk EXCEPT !["backend"].bundles = enabled, !["backend"].marker = TRUE]

Mishap == count.mishaps < MaxMishaps /\ count' = [count EXCEPT !.mishaps = @ + 1]
Change == count.changes < MaxChanges /\ count' = [count EXCEPT !.changes = @ + 1]

\* The CMS parks an operation it has verified, one at a time for a plugin.
Park(p) ==
  /\ Up /\ count.parks < MaxParks
  /\ \A i \in DOMAIN queue : queue[i].plugin # p
  /\ \E kind \in {"install", "update", "uninstall"}, version \in 1..MaxVersion :
       /\ (kind = "install") = (rows[p] = 0) /\ version # rows[p]
       /\ queue' = Append(queue, [plugin |-> p, kind |-> kind, version |-> version])
  /\ count' = [count EXCEPT !.parks = @ + 1]
  /\ UNCHANGED <<core, rows, on, disk, cache, runs, snapshot, safe, task, inStep, outcome>>

----------------------------------------------------------------------------
(* Tasks begin *)

\* The poller has seen parked operations.
Drain ==
  /\ task = NoTask /\ queue # <<>>
  /\ task' = Task("drain", "regain", queue) /\ outcome' = "none"
  /\ UNCHANGED <<core, rows, on, queue, disk, cache, runs, snapshot, safe, inStep, count>>

\* A change of address, environment or mailer, a restore: `up`, then the remount.
Recreate ==
  /\ task = NoTask /\ Change /\ Recreated
  /\ task' = Task("remount", "remount", <<>>)
  /\ inStep' = FALSE /\ outcome' = "none"
  /\ UNCHANGED <<core, rows, on, queue, snapshot>>

\* The same by hand, without the manager.
RecreateByHand ==
  /\ task = NoTask /\ Change /\ Recreated
  /\ inStep' = FALSE /\ outcome' = "none"
  /\ UNCHANGED <<core, rows, on, queue, snapshot, task>>

\* A core update has recreated the containers and goes on to the plugins, if any.
UpdateCore ==
  /\ task = NoTask /\ Change /\ Recreated
  /\ core' = core + 1
  /\ task' = IF rows = None THEN NoTask ELSE Task("reinstall", "require", <<>>)
  /\ inStep' = (rows = None) /\ outcome' = "none"
  /\ UNCHANGED <<rows, on, queue, snapshot>>

\* It is meant for a backend that does not boot.
Recover ==
  /\ task = NoTask
  /\ IF Prudent THEN ~Up /\ UNCHANGED count ELSE Change
  /\ \E keep \in BOOLEAN : task' = [Task("recover", "safe-on", <<>>) EXCEPT !.keep = keep]
  /\ outcome' = "none"
  /\ UNCHANGED <<core, rows, on, queue, disk, cache, runs, snapshot, safe, inStep>>

\* Safe mode switched by the operator: the marker only, by the console or directly.
SafeMode ==
  /\ task = NoTask /\ Change
  /\ safe' = ~safe /\ inStep' = FALSE /\ outcome' = "none"
  /\ UNCHANGED <<core, rows, on, queue, disk, cache, runs, snapshot, task>>

----------------------------------------------------------------------------
(* Operations of a drain *)

At(stage) == task.stage = stage
Goto(stage) == task' = [task EXCEPT !.stage = stage]
Op == Head(task.left)

\* The drain is over; in a recovery the repair comes next.
Drained(stage) == IF stage # "over" THEN Goto(stage)
                  ELSE IF task.kind = "recover" THEN Goto("repair") ELSE task' = NoTask

\* The queue without the operation of a plugin; it has at most one.
Unparked(p) ==
  LET its == {i \in DOMAIN queue : queue[i].plugin = p}
      at == CHOOSE i \in its : TRUE
  IN  IF its = {} THEN queue
      ELSE [i \in 1..(Len(queue) - 1) |-> queue[IF i < at THEN i ELSE i + 1]]

\* Mutant: a drain builds on whatever the backend has.
RegainNothing ==
  /\ At("regain") /\ Drained(IF task.left = <<>> THEN "over" ELSE "package")
  /\ UNCHANGED <<core, rows, on, queue, disk, cache, runs, snapshot, safe, inStep, outcome, count>>

\* A backend without marker gets the snapshot of this core back, if there is one.
Regain ==
  /\ At("regain")
  /\ IF disk["backend"].marker \/ snapshot.core # core \/ task.left = <<>>
     THEN UNCHANGED disk
     ELSE snapshot # Torn(core) /\ disk' = [disk EXCEPT !["backend"] = snapshot.image]
  /\ Drained(IF task.left = <<>> THEN "over" ELSE "package")
  /\ UNCHANGED <<core, rows, on, queue, cache, runs, snapshot, safe, inStep, outcome, count>>

\* composer require and the promotion of the artifacts, or composer remove, which is
\* allowed to fail.
Package ==
  /\ At("package") /\ Goto("finalize")
  /\ \/ disk' = [disk EXCEPT !["backend"].vendor[Op.plugin] =
                   IF Op.kind = "uninstall" THEN 0 ELSE Op.version]
     \/ Op.kind = "uninstall" /\ UNCHANGED disk
  /\ inStep' = FALSE
  /\ UNCHANGED <<core, rows, on, queue, cache, runs, snapshot, safe, outcome, count>>

NextOp == task' = [task EXCEPT !.left = Tail(@), !.done = TRUE,
                               !.stage = IF Len(task.left) > 1 THEN "package" ELSE "snapshot"]

\* The console boots the kernel.  An uninstall counts on it although composer has just
\* removed the classes; for a plugin found half removed (after a mishap) it may fail.
Finalizable ==
  \/ Up
  \/ Op.kind = "uninstall"
     /\ \A p \in disk["backend"].bundles \ {Op.plugin} : disk["backend"].vendor[p] > 0

Finalize ==
  LET p == Op.plugin
  IN  /\ At("finalize") /\ Finalizable
      /\ rows' = [rows EXCEPT ![p] = IF Op.kind = "uninstall" THEN 0 ELSE Op.version]
      /\ on' = IF Op.kind = "uninstall" THEN on \ {p} ELSE on
      /\ Regenerate(on')
      /\ queue' = Unparked(p)
      /\ IF Op.kind = "install" THEN Goto("enable") ELSE NextOp
      /\ UNCHANGED <<core, cache, runs, snapshot, safe, inStep, outcome, count>>

\* Mutant: the row of the earlier attempt is removed.
DropDuplicate ==
  /\ At("finalize") /\ Up /\ Op.kind = "install" /\ rows[Op.plugin] > 0
  /\ rows' = [rows EXCEPT ![Op.plugin] = 0] /\ Goto("enable")
  /\ UNCHANGED <<core, on, queue, disk, cache, runs, snapshot, safe, inStep, outcome, count>>

\* The row of an earlier attempt is there: "Duplicate entry", and a repair instead.
FinalizeAgain ==
  /\ At("finalize") /\ Up /\ Op.kind = "install" /\ rows[Op.plugin] > 0
  /\ Regenerate(on) /\ Goto("enable")
  /\ \/ UNCHANGED queue
     \/ queue' = Unparked(Op.plugin)
  /\ UNCHANGED <<core, rows, on, cache, runs, snapshot, safe, inStep, outcome, count>>

Enable ==
  /\ At("enable") /\ Up
  /\ on' = on \union {Op.plugin} /\ Regenerate(on')
  /\ NextOp
  /\ UNCHANGED <<core, rows, queue, cache, runs, snapshot, safe, inStep, outcome, count>>

\* run-operation stops after it has written the row.
HalfWritten ==
  /\ At("finalize") /\ Up /\ Op.kind = "install"
  /\ rows' = [rows EXCEPT ![Op.plugin] = Op.version]

\* A command of the operation fails, or the kernel does not boot.  The drain stops after it has taken the operation back.
OpFails ==
  /\ task.stage \in {"package", "finalize", "enable"}
  /\ \/ Mishap
     \/ ~Up /\ ~At("package") /\ (Finalizable => count.mishaps > 0) /\ UNCHANGED count
  /\ UNCHANGED rows \/ HalfWritten
  /\ Goto("cancel")
  /\ UNCHANGED <<core, on, queue, disk, cache, runs, snapshot, safe, inStep, outcome>>

Cancel ==
  /\ At("cancel")
  /\ \/ /\ Up /\ queue' = Unparked(Op.plugin)
        /\ UNCHANGED count
     \/ /\ UNCHANGED queue
        /\ \/ ~Up /\ UNCHANGED count
           \/ Mishap
  /\ Drained(IF task.done THEN "snapshot" ELSE "over")
  /\ UNCHANGED <<core, rows, on, disk, cache, runs, snapshot, safe, inStep, outcome>>

----------------------------------------------------------------------------
(* Snapshot, propagation and restart *)

\* reinstallPluginsForCore: every recorded plugin, against the new core.
Require ==
  /\ At("require") /\ Goto("repair")
  /\ disk' = [disk EXCEPT !["backend"].vendor = rows]
  /\ UNCHANGED <<core, rows, on, queue, cache, runs, snapshot, safe, inStep, outcome, count>>

\* selfhelp:plugin:repair, which a recovery tries and goes on without.
Repair ==
  /\ At("repair")
  /\ \/ Up /\ Regenerate(on) /\ UNCHANGED count
     \/ task.kind = "recover" /\ Mishap /\ UNCHANGED disk
  /\ \/ /\ task.kind = "reinstall" /\ Goto("snapshot")
        /\ UNCHANGED <<inStep, outcome>>
     \/ /\ task.kind = "recover" /\ ~task.keep /\ Goto("safe-off")
        /\ UNCHANGED <<inStep, outcome>>
     \/ /\ task.kind = "recover" /\ task.keep /\ task' = NoTask
        /\ inStep' = FALSE /\ outcome' = "safe"
  /\ UNCHANGED <<core, rows, on, queue, cache, runs, snapshot, safe>>

\* All old snapshots are removed and the state of the backend is archived.
Archive ==
  /\ At("snapshot") /\ Goto("sync")
  /\ snapshot' = [core |-> core, image |-> disk["backend"]]
  /\ UNCHANGED <<core, rows, on, queue, disk, cache, runs, safe, inStep, outcome, count>>

\* Mutant: the other services keep their own vendor directories.
SyncBundlesOnly(s) ==
  /\ At("sync") /\ s \in task.todo /\ snapshot # Torn(core)
  /\ disk' = [disk EXCEPT ![s].bundles = snapshot.image.bundles]
  /\ task' = [task EXCEPT !.todo = @ \ {s}]
  /\ UNCHANGED <<core, rows, on, queue, cache, runs, snapshot, safe, inStep, outcome, count>>

\* It is extracted in the other services.
Sync(s) ==
  /\ At("sync") /\ s \in task.todo /\ snapshot # Torn(core)
  /\ disk' = [disk EXCEPT ![s] = snapshot.image]
  /\ task' = [task EXCEPT !.todo = @ \ {s}]
  /\ UNCHANGED <<core, rows, on, queue, cache, runs, snapshot, safe, inStep, outcome, count>>

\* restorePluginStateIfNeeded: by the marker of the backend, for all services; any
\* failure is swallowed.
Remount ==
  /\ At("remount")
  /\ IF disk["backend"].marker \/ snapshot.core # core \/ snapshot = Torn(core)
     THEN task' = NoTask /\ inStep' = (rows = None) /\ UNCHANGED disk
     ELSE Goto("rebuild") /\ disk' = [s \in Service |-> snapshot.image] /\ UNCHANGED inStep
  /\ UNCHANGED <<core, rows, on, queue, cache, runs, snapshot, safe, outcome, count>>

\* Mutant: the caches compiled before stay.
KeepCaches ==
  /\ At("rebuild") \/ (At("sync") /\ task.todo = {})
  /\ Goto("restart")
  /\ UNCHANGED <<core, rows, on, queue, disk, cache, runs, snapshot, safe, inStep, outcome, count>>

\* cache:clear, which compiles it anew, or the removal of the cache.
RebuildCaches ==
  /\ At("rebuild") \/ (At("sync") /\ task.todo = {})
  /\ Goto("restart")
  /\ \E warm \in SUBSET {s \in Service : Compiles(s)} :
       cache' = [s \in Service |-> IF s \in warm THEN Compiled(s) ELSE Cold]
  /\ UNCHANGED <<core, rows, on, queue, disk, runs, snapshot, safe, inStep, outcome, count>>

\* A cold cache is compiled on the first request.
Restart ==
  /\ At("restart")
  /\ runs' = [s \in Service |-> Booted(s)]
  /\ cache' = [s \in Service |->
       IF cache[s] = Cold /\ Compiles(s) THEN Compiled(s) ELSE cache[s]]
  /\ Drained("over") /\ inStep' = TRUE
  /\ UNCHANGED <<core, rows, on, queue, disk, snapshot, safe, outcome, count>>

----------------------------------------------------------------------------
(* Recovery of a backend that does not boot *)

\* Mutant: safe mode is switched on by the console alone.
SafeOnByConsole ==
  /\ At("safe-on") /\ Up /\ safe' = TRUE
  /\ runs' = [runs EXCEPT !["backend"] = None]
  /\ task' = [task EXCEPT !.stage = "regain", !.left = queue]
  /\ UNCHANGED <<core, rows, on, queue, disk, cache, snapshot, inStep, outcome, count>>

\* By the console, or by its marker when the kernel is dead; then a restart, and the
\* operations that are parked now.
SafeOn ==
  /\ At("safe-on") /\ safe' = TRUE
  /\ runs' = [runs EXCEPT !["backend"] = None]
  /\ task' = [task EXCEPT !.stage = "regain", !.left = queue]
  /\ UNCHANGED <<core, rows, on, queue, disk, cache, snapshot, inStep, outcome, count>>

SafeOff ==
  /\ At("safe-off") /\ safe' = FALSE /\ Goto("probe")
  /\ UNCHANGED <<core, rows, on, queue, disk, cache, runs, snapshot, inStep, outcome, count>>

\* Mutant: the recovery does not look whether the backend boots.
NoProbe ==
  /\ At("probe") /\ task' = NoTask
  /\ outcome' = "recovered"
  /\ runs' = [runs EXCEPT !["backend"] = Booted("backend")]
  /\ UNCHANGED <<core, rows, on, queue, disk, cache, snapshot, safe, inStep, count>>

\* A real boot; if it fails safe mode stays on.
Probe ==
  /\ At("probe") /\ task' = NoTask
  /\ safe' = ~Loadable("backend")
  /\ outcome' = IF Loadable("backend") THEN "recovered" ELSE "safe"
  /\ runs' = [runs EXCEPT !["backend"] =
                IF Loadable("backend") THEN Booted("backend") ELSE None]
  /\ inStep' = FALSE  \* its cache may be the one of safe mode
  /\ UNCHANGED <<core, rows, on, queue, disk, cache, snapshot, count>>

----------------------------------------------------------------------------
(* Failures *)

\* A command outside of an operation fails, and with it the task.  A snapshot may be
\* removed and not written, or not to its end.  A core update rolls back: its containers
\* are recreated, nothing is mounted again.
Throw ==
  /\ task # NoTask /\ task.stage \notin {"package", "finalize", "enable", "cancel"}
  /\ ~(task.kind = "recover" /\ At("repair"))
  /\ \/ Mishap
     \/ /\ snapshot = Torn(core) /\ UNCHANGED count
        /\ At("sync") \/ (At("regain") /\ ~disk["backend"].marker /\ task.left # <<>>)
     \/ At("repair") /\ ~Up /\ task.kind = "reinstall" /\ UNCHANGED count
  /\ \/ UNCHANGED snapshot
     \/ At("snapshot") /\ snapshot' \in {NoSnapshot, Torn(core)}
  /\ IF task.kind = "reinstall"
     THEN core' = core - 1 /\ Recreated
     ELSE UNCHANGED <<core, disk, cache, runs, safe>>
  /\ task' = NoTask /\ inStep' = FALSE
  /\ UNCHANGED <<rows, on, queue, outcome>>

\* The manager dies; the command it was waiting for may have been done, which is the
\* death after the next step, or run-operation half done.
ManagerDies ==
  /\ task # NoTask /\ Mishap
  /\ UNCHANGED rows \/ HalfWritten
  /\ task' = NoTask /\ inStep' = FALSE
  /\ UNCHANGED <<core, on, queue, disk, cache, runs, snapshot, safe, outcome>>

----------------------------------------------------------------------------
(* The specification *)

PluginsInit ==
  /\ core = 1 /\ rows = None /\ on = {} /\ queue = <<>>
  /\ disk = [s \in Service |-> Baked]
  /\ cache = [s \in Service |-> Cold]
  /\ runs = [s \in Service |-> None]
  /\ snapshot = NoSnapshot /\ safe = FALSE /\ task = NoTask
  /\ inStep = TRUE /\ outcome = "none"
  /\ count = [parks |-> 0, changes |-> 0, mishaps |-> 0]

Proceed ==
  \/ Regain \/ Package \/ Finalize \/ FinalizeAgain \/ Enable \/ OpFails \/ Cancel
  \/ Require \/ Repair \/ Archive \/ (\E s \in Follower : Sync(s)) \/ Remount
  \/ RebuildCaches \/ Restart \/ SafeOn \/ SafeOff \/ Probe

PluginsNext ==
  \/ \E p \in Plugin : Park(p)
  \/ Drain \/ Recreate \/ RecreateByHand \/ UpdateCore \/ Recover \/ SafeMode
  \/ Proceed \/ Throw \/ ManagerDies

PluginsSpec == PluginsInit /\ [][PluginsNext]_pluginsVars

\* The poller, the stages of a task and an operator who repeats the recovery while the
\* backend does not boot, also when the instance was busy.
PluginsFairSpec == PluginsSpec /\ WF_pluginsVars(Drain) /\ WF_pluginsVars(Proceed) /\ SF_pluginsVars(Recover)

----------------------------------------------------------------------------
(* Properties *)

State == [vendor : [Plugin -> 0..MaxVersion], bundles : SUBSET Plugin, marker : BOOLEAN]
Stages == {"idle", "regain", "package", "finalize", "enable", "cancel", "require", "repair",
           "snapshot", "sync", "remount", "rebuild", "restart", "safe-on", "safe-off", "probe"}

PluginsTypeOK ==
  /\ rows \in [Plugin -> 0..MaxVersion] /\ on \subseteq {p \in Plugin : rows[p] > 0}
  /\ disk \in [Service -> State]
  /\ \A s \in Service : cache[s] = Cold \/ cache[s] \subseteq Plugin
  /\ snapshot \in {NoSnapshot} \union {Torn(c) : c \in 1..core + 1}
                  \union [core : 1..core + 1, image : State]
  /\ safe \in BOOLEAN /\ inStep \in BOOLEAN /\ outcome \in {"none", "recovered", "safe"}
  /\ task.stage \in Stages

\* "byte-identical state" (plugin-state.ts:29): whenever a drain, a reinstall or a remount
\* (not a recovery) has ended with the restart of the services, all of them run the same
\* plugins; as long as no command failed, exactly the enabled ones in the version the
\* database records.
ServicesFollow ==
  task = NoTask /\ inStep /\ ~safe =>
    /\ \A s \in Follower : runs[s] = runs["backend"]
    /\ count.mishaps = 0 =>
         runs["backend"] = [p \in Plugin |-> IF p \in on THEN rows[p] ELSE 0]

\* "If the probe boots cleanly the instance is recovered; if it still fatals, safe mode is
\* re-enabled so the instance stays up" (support.ts:522-524), whatever went wrong before.
RecoveryHolds ==
  task = NoTask /\ outcome # "none" =>
    /\ Up /\ runs["backend"] # Dead
    /\ safe = (outcome = "safe")

\* "this drain builds on top of every plugin already installed instead of silently
\* dropping them" (plugin-state.ts:319-321): after a task that ended with the restart of
\* the services every enabled plugin is installed in each.
NothingDropped ==
  task = NoTask /\ inStep =>
    \A s \in Service, p \in on : disk[s].vendor[p] > 0

\* A backend that does not boot is up again, in safe mode at least.
BackendComesBack == ~Up ~> Up

============================================================================
