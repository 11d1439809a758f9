----------------------------- MODULE Resolution -----------------------------
(***************************************************************************)
(* Which releases an instance runs: packages/resolver (core.ts), the plans *)
(* of packages/core/src/update/plan.ts, the actions of packages/app-actions *)
(* that choose releases (install, update, update-frontend,                 *)
(* update-mobile-preview) and those that rewrite what is installed from    *)
(* the instance's own files (set-address, set-env, clone, restore).        *)
(*                                                                         *)
(* A registry publishes core, frontend and preview releases and takes them *)
(* back or blocks them at any time.  A core names the frontends it needs   *)
(* (requiredFrontendRange), a frontend and a preview the cores they accept *)
(* (requiredCoreRange).  What an instance runs is written down twice: in   *)
(* its manifest and in its lock, one file after the other; the lock also   *)
(* keeps the range of the core, for the day its release is gone.           *)
(*                                                                         *)
(* One operation runs at a time (the instance lock, module Operations), so *)
(* an operation is: read the registry and the files and plan, write the    *)
(* manifest, write the lock, and finish or roll back.  The compose file    *)
(* and .env are written from the same plan, just before the manifest.  A   *)
(* clone is followed as the instance it is made from.  Left out: digests,  *)
(* services, and the gates about plugins, which are given no plugin        *)
(* (manifest.installedPlugins is never filled, README section 4).          *)
(***************************************************************************)
EXTENDS Naturals

CONSTANTS
  Core, Frontend, Preview,   \* versions, in semver order
  Plain,                     \* semver.coerce: a version without its prerelease
  Channel,                   \* release channels
  Catalogs,                  \* contents of the releases a registry may have
  Latest, NoRange, Absent, Idle, NoPreview

Catalog ==
  [core     : [Core -> [channel : Channel, needs : SUBSET Frontend, from : Core]],
   frontend : [Frontend -> [channel : Channel, accepts : SUBSET Core]],
   preview  : [Preview -> [channel : Channel, accepts : SUBSET Core]]]

Version == Core \cup Frontend \cup Preview

ASSUME VersionsAreOrdered == Version \subseteq Nat \ {0}
ASSUME CatalogsTyped == Catalogs \subseteq Catalog
ASSUME PlainTyped == Plain \in [Version -> Nat]
ASSUME NoPreviewIsOldest == NoPreview = 0
ASSUME NoRangeIsNone == \A range \in SUBSET Frontend : range # NoRange

VARIABLES
  catalog,    \* what is in each release, fixed by its signature
  offered,    \* the releases in the index that are not blocked
  manifest,   \* selfhelp.instance.json: the versions installed, or Absent
  lock,       \* selfhelp.lock.json: the core and its range, or Absent
  saved,      \* the manifest and lock in the backup a restore would name
  job         \* the operation under way, or Idle

vars == <<catalog, offered, manifest, lock, saved, job>>

Manifest == [core : Core, frontend : Frontend, preview : Preview \cup {NoPreview}]
Lock     == [core : Core, range : SUBSET Frontend \cup {NoRange}]
Files    == [manifest : Manifest, lock : Lock]
Kinds    == {"install", "update", "frontend", "preview", "rebuild", "clone",
             "restore", "rollback"}
Job      == [kind : Kinds, stage : {"planned", "manifest", "written"},
             new : Files, old : Files \cup {Absent}]

ASSUME NothingIsNothing == Idle \notin Job /\ Absent \notin Manifest \cup Lock \cup Files

Target(S) == S \cup {Latest}

TypeOK ==
  /\ catalog \in Catalogs
  /\ offered \in [core : SUBSET Core, frontend : SUBSET Frontend, preview : SUBSET Preview]
  /\ manifest \in Manifest \cup {Absent}
  /\ lock \in Lock \cup {Absent}
  /\ saved \in Files \cup {Absent}
  /\ job \in Job \cup {Idle}

Init ==
  /\ catalog \in Catalogs
  /\ offered \in [core : SUBSET Core, frontend : SUBSET Frontend, preview : SUBSET Preview]
  /\ manifest = Absent /\ lock = Absent /\ saved = Absent /\ job = Idle

-----------------------------------------------------------------------------
(* What a call sees of the registry: the index, and the signed release of  *)
(* every entry of the channel that is not blocked.                         *)

CoresOn(ch)     == {c \in offered.core : catalog.core[c].channel = ch}
FrontendsOn(ch) == {f \in offered.frontend : catalog.frontend[f].channel = ch}
PreviewsOn(ch)  == {p \in offered.preview : catalog.preview[p].channel = ch}

(* The head of a list sorted newest first: one element, or none.           *)
Newest(S) == {v \in S : \A w \in S : w <= v}

(* install.ts sorts coerced versions: a release and its prereleases tie.   *)
NewestPlain(S) == {v \in S : \A w \in S : Plain[w] <= Plain[v]}

Needs(c)    == catalog.core[c].needs
Accepts(f)  == catalog.frontend[f].accepts
Fits(c, f)  == f \in Needs(c) /\ c \in Accepts(f)

-----------------------------------------------------------------------------
(* The resolvers.  Each yields the set of releases the code may select: at *)
(* most one for exact versions, and none for `blocked` and `up_to_date`.   *)

(* instance install: the newest core of the channel, or the one asked for. *)
selectCoreRef(ch, t) ==
  IF t = Latest THEN NewestPlain(CoresOn(ch))
                ELSE {c \in CoresOn(ch) : Plain[c] = Plain[t]}

(* instance install: the newest frontend that fits, on coerced versions.   *)
pickCompatibleFrontend(c, ch) ==
  NewestPlain({f \in FrontendsOn(ch) : Plain[f] \in Needs(c) /\ Plain[c] \in Accepts(f)})

canDirectUpgrade(current, c) == current >= catalog.core[c].from

(* instance update: the newest newer core that can be reached directly.  A *)
(* core asked for by its version need only be reachable, not newer.        *)
resolveCoreTarget(current, ch, t) ==
  LET reachable == {c \in CoresOn(ch) : canDirectUpgrade(current, c)}
  IN IF t = Latest THEN Newest({c \in reachable : c > current})
                   ELSE {c \in reachable : c = t}

(* Mutant: the range of the core is not asked.                             *)
pickAnyFrontend(c, ch) == Newest({f \in FrontendsOn(ch) : c \in Accepts(f)})

pickFrontendForCore(c, ch) == Newest({f \in FrontendsOn(ch) : Fits(c, f)})

pickMobilePreviewForCore(c, ch) ==
  Newest({p \in PreviewsOn(ch) : c \in catalog.preview[p].accepts})

(* Mutant: a core update drops a preview it finds no successor for.        *)
previewOrNone(c, ch) ==
  LET picked == pickMobilePreviewForCore(c, ch)
  IN IF picked = {} THEN {NoPreview} ELSE picked

(* instance update moves an installed preview to the newest that accepts   *)
(* the new core and keeps the one it has when there is none.               *)
previewForUpdate(c, ch) ==
  LET picked == pickMobilePreviewForCore(c, ch)
  IN IF manifest.preview = NoPreview \/ picked = {} THEN {manifest.preview} ELSE picked

(* The range update-frontend enforces: that of the release the registry    *)
(* offers under the running core's coerced version, else the lock's.       *)
RequiredRanges(ch) ==
  LET live == {c \in CoresOn(ch) : Plain[c] = Plain[manifest.core]}
  IN IF live = {} THEN {lock.range} \ {NoRange} ELSE {Needs(c) : c \in live}

(* Mutant: without a live release of the core any frontend will do.        *)
resolveUnconstrained(ch, t) ==
  LET live == {c \in CoresOn(ch) : Plain[c] = Plain[manifest.core]}
      newer == {f \in FrontendsOn(ch) :
                  /\ f > manifest.frontend
                  /\ manifest.core \in Accepts(f)
                  /\ \A c \in live : f \in Needs(c)}
  IN IF t = Latest THEN Newest(newer) ELSE {f \in newer : f = t}

(* update-frontend: strictly newer, accepted by the core and accepting it; *)
(* nothing at all when the core's range is unknown (fail closed).          *)
resolveFrontendUpdate(ch, t) ==
  UNION {LET newer == {f \in FrontendsOn(ch) :
                         /\ f > manifest.frontend
                         /\ manifest.core \in Accepts(f)
                         /\ f \in range}
         IN IF t = Latest THEN Newest(newer) ELSE {f \in newer : f = t}
           : range \in RequiredRanges(ch)}

(* update-mobile-preview: strictly newer than the installed one, or than   *)
(* the sentinel 0.0.0 when there is none, and accepting the core.          *)
resolveMobilePreviewUpdate(ch, t) ==
  LET newer == {p \in PreviewsOn(ch) :
                  /\ p > manifest.preview
                  /\ manifest.core \in catalog.preview[p].accepts}
  IN IF t = Latest THEN Newest(newer) ELSE {p \in newer : p = t}

-----------------------------------------------------------------------------
(* Planning.                                                               *)

Installed == manifest # Absent /\ lock # Absent

Current == [manifest |-> manifest, lock |-> lock]

(* The files buildInstanceInstallArtifacts makes of a choice of releases:  *)
(* the lock records the range of the core it was given.                    *)
Artifacts(c, range, f, p) ==
  [manifest |-> [core |-> c, frontend |-> f, preview |-> p],
   lock     |-> [core |-> c, range |-> range]]

(* releaseShapesFromLock: the core as the lock has it, "*" for no range.   *)
LockedRange == IF lock.range = NoRange THEN Frontend ELSE lock.range

Plan(kind, files) ==
  /\ job' = [kind |-> kind, stage |-> "planned", new |-> files,
             old |-> IF Installed THEN Current ELSE Absent]
  /\ UNCHANGED <<catalog, offered, manifest, lock>>

(* Also the retry of a failed install, over the files it left.             *)
instanceInstall(ch, t) ==
  /\ job = Idle
  /\ \E c \in selectCoreRef(ch, t) : \E f \in pickCompatibleFrontend(c, ch) :
       LET picked == pickMobilePreviewForCore(c, ch)
       IN \E p \in IF picked = {} THEN {NoPreview} ELSE picked :
            Plan("install", Artifacts(c, Needs(c), f, p))
  /\ UNCHANGED saved

(* The backup every core update takes may become the one a restore names.  *)
instanceUpdate(ch, t) ==
  /\ job = Idle /\ Installed
  /\ \E c \in resolveCoreTarget(manifest.core, ch, t) :
       \E f \in pickFrontendForCore(c, ch), p \in previewForUpdate(c, ch) :
         Plan("update", Artifacts(c, Needs(c), f, p))
  /\ saved' \in {saved, Current}

instanceFrontendUpdate(ch, t) ==
  /\ job = Idle /\ Installed
  /\ \E f \in resolveFrontendUpdate(ch, t) :
       Plan("frontend", Artifacts(lock.core, LockedRange, f, manifest.preview))
  /\ UNCHANGED saved

instanceMobilePreviewUpdate(ch, t) ==
  /\ job = Idle /\ Installed
  /\ \E p \in resolveMobilePreviewUpdate(ch, t) :
       Plan("preview", Artifacts(lock.core, LockedRange, manifest.frontend, p))
  /\ UNCHANGED saved

(* set-address and set-env rewrite the manifest from the lock and leave    *)
(* the lock alone.                                                         *)
instanceRebuild ==
  /\ job = Idle /\ Installed
  /\ Plan("rebuild", [Artifacts(lock.core, LockedRange, manifest.frontend, manifest.preview)
                        EXCEPT !.lock = lock])
  /\ UNCHANGED saved

(* A clone is installed with both files made from those of its source.     *)
instanceClone ==
  /\ job = Idle /\ Installed
  /\ Plan("clone", Artifacts(lock.core, LockedRange, manifest.frontend, manifest.preview))
  /\ UNCHANGED saved

instanceBackup ==
  /\ job = Idle /\ Installed
  /\ saved' = Current
  /\ UNCHANGED <<catalog, offered, manifest, lock, job>>

instanceRestore ==
  /\ job = Idle /\ Installed
  /\ saved # Absent
  /\ Plan("restore", saved)
  /\ UNCHANGED saved

-----------------------------------------------------------------------------
(* Carrying a plan out.                                                    *)

(* A preflight that blocks, a migration or a MySQL major nobody approved,  *)
(* a backup or a pull that fails: all before the first file is written.    *)
Abandon ==
  /\ job # Idle /\ job.stage = "planned" /\ job.kind # "rollback"
  /\ job' = Idle
  /\ UNCHANGED <<catalog, offered, manifest, lock, saved>>

WriteManifest ==
  /\ job # Idle /\ job.stage = "planned"
  /\ manifest' = job.new.manifest
  /\ job' = IF job.kind = "rebuild" THEN Idle ELSE [job EXCEPT !.stage = "manifest"]
  /\ UNCHANGED <<catalog, offered, lock, saved>>

WriteLock ==
  /\ job # Idle /\ job.stage = "manifest"
  /\ lock' = job.new.lock
  /\ job' = [job EXCEPT !.stage = "written"]
  /\ UNCHANGED <<catalog, offered, manifest, saved>>

Finish ==
  /\ job # Idle /\ job.stage = "written"
  /\ job' = Idle
  /\ UNCHANGED <<catalog, offered, manifest, lock, saved>>

(* Mutant: the rollback forgets the lock.                                  *)
RollBackManifestOnly ==
  /\ job # Idle /\ job.stage = "written"
  /\ job.kind \in {"update", "frontend", "preview"}
  /\ job' = [kind |-> "rollback", stage |-> "planned",
             new |-> [job.old EXCEPT !.lock = lock], old |-> Absent]
  /\ UNCHANGED <<catalog, offered, manifest, lock, saved>>

(* An update whose start, migration or health check fails writes the       *)
(* snapshot of both files back, again one after the other.                 *)
RollBack ==
  /\ job # Idle /\ job.stage = "written"
  /\ job.kind \in {"update", "frontend", "preview"}
  /\ job' = [kind |-> "rollback", stage |-> "planned", new |-> job.old, old |-> Absent]
  /\ UNCHANGED <<catalog, offered, manifest, lock, saved>>

(* The manager dies in the middle: nothing takes an update up again.       *)
Crash ==
  /\ job # Idle
  /\ job' = Idle
  /\ UNCHANGED <<catalog, offered, manifest, lock, saved>>

(* The registry publishes, blocks, unblocks or withdraws one release.      *)
Toggle(S, v) == IF v \in S THEN S \ {v} ELSE S \cup {v}

PublishOrWithdraw ==
  /\ \/ \E c \in Core : offered' = [offered EXCEPT !.core = Toggle(@, c)]
     \/ \E f \in Frontend : offered' = [offered EXCEPT !.frontend = Toggle(@, f)]
     \/ \E p \in Preview : offered' = [offered EXCEPT !.preview = Toggle(@, p)]
  /\ UNCHANGED <<catalog, manifest, lock, saved, job>>

-----------------------------------------------------------------------------

Choose ==
  \E ch \in Channel :
    \/ \E t \in Target(Core) : instanceInstall(ch, t) \/ instanceUpdate(ch, t)
    \/ \E t \in Target(Frontend) : instanceFrontendUpdate(ch, t)
    \/ \E t \in Target(Preview) : instanceMobilePreviewUpdate(ch, t)

Next ==
  \/ Choose
  \/ instanceRebuild \/ instanceClone
  \/ instanceBackup \/ instanceRestore
  \/ Abandon \/ WriteManifest \/ WriteLock \/ Finish \/ RollBack
  \/ PublishOrWithdraw

Spec == Init /\ [][Next]_vars

(* The same with a manager that may die at any point.                      *)
CrashSpec == Init /\ [][Next \/ Crash]_vars

(* The same from an instance a manager before 1.6 installed, whose lock    *)
(* holds no range.                                                         *)
LegacyInit ==
  /\ catalog \in Catalogs
  /\ offered \in [core : SUBSET Core, frontend : SUBSET Frontend, preview : SUBSET Preview]
  /\ \E c \in Core, f \in Frontend :
       /\ Fits(c, f)
       /\ manifest = [core |-> c, frontend |-> f, preview |-> NoPreview]
       /\ lock = [core |-> c, range |-> NoRange]
  /\ saved = Absent /\ job = Idle

LegacySpec == LegacyInit /\ [][Next]_vars

-----------------------------------------------------------------------------
(* Properties.                                                             *)

(* The frontend installed is one the installed core accepts, and it        *)
(* accepts that core, whatever the registry published, blocked or withdrew *)
(* since, whichever operation wrote the files last and whether it was      *)
(* rolled back (update.ts:556-563, resolver core.ts:174-180).              *)
FrontendFits ==
  manifest # Absent => Fits(manifest.core, manifest.frontend)

(* But for a repeated install, a rollback and a restore, only a core       *)
(* update takes a frontend or a preview back to an older release, and      *)
(* nothing drops a preview (update.ts:152-157, shared.ts:487-492): not even a *)
(* core update that none of the published previews is compatible with.     *)
OnlyForward ==
  [][(manifest # Absent /\ job # Idle /\ job.kind \notin {"install", "restore", "rollback"}) =>
       /\ manifest.preview # NoPreview => manifest'.preview # NoPreview
       /\ job.kind # "update" => /\ manifest'.frontend >= manifest.frontend
                                 /\ manifest'.preview >= manifest.preview]_vars
=============================================================================
