--------------------------- MODULE SoftwareProofs ---------------------------
(***************************************************************************)
(* Theorems about the software an instance runs: the releases that are     *)
(* chosen for it (module Resolution) and the plugins its services have     *)
(* loaded (module PluginState).  The two have no state in common and are   *)
(* independent of one another; each part holds for any values of the       *)
(* constants of its own module.                                            *)
(***************************************************************************)
EXTENDS Resolution, PluginState, TLAPS

----------------------------------------------------------------------------
(**************************************************************************)
(* Module Resolution, for any versions, channels and catalogs.            *)
(**************************************************************************)

(* What the resolvers may choose                                           *)

LEMMA ResolversTyped ==
  ASSUME NEW ch \in Channel, TypeOK
  PROVE  /\ CoresOn(ch) \subseteq Core
         /\ FrontendsOn(ch) \subseteq Frontend
         /\ PreviewsOn(ch) \subseteq Preview
BY DEF TypeOK, CoresOn, FrontendsOn, PreviewsOn

LEMMA NeedsTyped ==
  ASSUME NEW c \in Core, TypeOK
  PROVE  Needs(c) \in SUBSET Frontend /\ Needs(c) # NoRange
BY CatalogsTyped, NoRangeIsNone DEF TypeOK, Catalog, Needs

LEMMA LockedRangeTyped ==
  ASSUME lock \in Lock
  PROVE  LockedRange \in SUBSET Frontend \cup {NoRange}
BY DEF LockedRange, Lock

LEMMA CoreTargetTyped ==
  ASSUME NEW ch \in Channel, NEW t \in Target(Core), TypeOK
  PROVE  /\ selectCoreRef(ch, t) \subseteq Core
         /\ \A current : resolveCoreTarget(current, ch, t) \subseteq Core
BY ResolversTyped DEF selectCoreRef, resolveCoreTarget, Newest, NewestPlain

LEMMA FrontendPicked ==
  ASSUME NEW ch \in Channel, NEW c \in Core, TypeOK
  PROVE  /\ pickCompatibleFrontend(c, ch) \subseteq Frontend
         /\ \A f \in pickFrontendForCore(c, ch) : f \in Frontend /\ Fits(c, f)
BY ResolversTyped DEF pickCompatibleFrontend, pickFrontendForCore, Newest, NewestPlain

LEMMA PreviewPicked ==
  ASSUME NEW ch \in Channel, NEW c \in Core, TypeOK
  PROVE  pickMobilePreviewForCore(c, ch) \subseteq Preview
BY ResolversTyped DEF pickMobilePreviewForCore, Newest

LEMMA FrontendUpdatePicked ==
  ASSUME NEW ch \in Channel, NEW t \in Target(Frontend), TypeOK,
         NEW f \in resolveFrontendUpdate(ch, t)
  PROVE  /\ f \in Frontend /\ f > manifest.frontend
         /\ manifest.core \in Accepts(f)
         /\ \E range \in RequiredRanges(ch) : f \in range
BY ResolversTyped DEF resolveFrontendUpdate, Newest

LEMMA PreviewUpdatePicked ==
  ASSUME NEW ch \in Channel, NEW t \in Target(Preview), TypeOK,
         NEW p \in resolveMobilePreviewUpdate(ch, t)
  PROVE  p \in Preview /\ p > manifest.preview
BY ResolversTyped DEF resolveMobilePreviewUpdate, Newest

LEMMA ArtifactsTyped ==
  ASSUME NEW c \in Core, NEW range \in SUBSET Frontend \cup {NoRange},
         NEW f \in Frontend, NEW p \in Preview \cup {NoPreview}
  PROVE  Artifacts(c, range, f, p) \in Files
BY DEF Artifacts, Files, Manifest, Lock

-----------------------------------------------------------------------------
(* Typing                                                                  *)

LEMMA InstalledTyped ==
  ASSUME TypeOK, Installed
  PROVE  manifest \in Manifest /\ lock \in Lock /\ Current \in Files
BY DEF TypeOK, Installed, Current, Files

\* A plan is a job whose files come from the registry, from a backup or from the instance.
LEMMA PlanTyped ==
  ASSUME TypeOK, NEW kind \in Kinds, NEW files \in Files, Plan(kind, files),
         saved' \in Files \cup {Absent}
  PROVE  TypeOK'
<1>1. job' \in Job
  <2>1. (IF Installed THEN Current ELSE Absent) \in Files \cup {Absent}
    BY InstalledTyped
  <2> QED BY <2>1 DEF Plan, Job
<1> QED BY <1>1 DEF Plan, TypeOK

LEMMA InstallPlans ==
  ASSUME TypeOK, NEW ch \in Channel, NEW t \in Target(Core), instanceInstall(ch, t)
  PROVE  \E c \in Core, f \in Frontend, p \in Preview \cup {NoPreview} :
           /\ f \in pickCompatibleFrontend(c, ch)
           /\ Plan("install", Artifacts(c, Needs(c), f, p))
<1>1. PICK c \in selectCoreRef(ch, t) : \E f \in pickCompatibleFrontend(c, ch) :
        LET picked == pickMobilePreviewForCore(c, ch)
        IN \E p \in IF picked = {} THEN {NoPreview} ELSE picked :
             Plan("install", Artifacts(c, Needs(c), f, p))
  BY DEF instanceInstall
<1>2. c \in Core
  BY <1>1, CoreTargetTyped
<1>3. PICK f \in pickCompatibleFrontend(c, ch) :
        \E p \in IF pickMobilePreviewForCore(c, ch) = {} THEN {NoPreview}
                 ELSE pickMobilePreviewForCore(c, ch) :
          Plan("install", Artifacts(c, Needs(c), f, p))
  BY <1>1
<1>4. f \in Frontend
  BY <1>2, <1>3, FrontendPicked
<1>5. PICK p \in IF pickMobilePreviewForCore(c, ch) = {} THEN {NoPreview}
                 ELSE pickMobilePreviewForCore(c, ch) :
        Plan("install", Artifacts(c, Needs(c), f, p))
  BY <1>3
<1>6. p \in Preview \cup {NoPreview}
  BY <1>2, <1>5, PreviewPicked
<1> QED BY <1>2, <1>3, <1>4, <1>5, <1>6

LEMMA UpdatePlans ==
  ASSUME TypeOK, NEW ch \in Channel, NEW t \in Target(Core), instanceUpdate(ch, t)
  PROVE  \E c \in Core, f \in Frontend, p \in Preview \cup {NoPreview} :
           /\ Fits(c, f)
           /\ manifest.preview # NoPreview => p # NoPreview
           /\ Plan("update", Artifacts(c, Needs(c), f, p))
<1>0. PICK c \in resolveCoreTarget(manifest.core, ch, t) :
        \E f \in pickFrontendForCore(c, ch), p \in previewForUpdate(c, ch) :
          Plan("update", Artifacts(c, Needs(c), f, p))
  BY DEF instanceUpdate
<1>1. PICK f \in pickFrontendForCore(c, ch), p \in previewForUpdate(c, ch) :
        Plan("update", Artifacts(c, Needs(c), f, p))
  BY <1>0
<1>2. c \in Core
  BY <1>0, CoreTargetTyped
<1>3. f \in Frontend /\ Fits(c, f)
  BY <1>1, <1>2, FrontendPicked
<1>4. manifest.preview \in Preview \cup {NoPreview}
  BY InstalledTyped DEF instanceUpdate, Manifest
<1>5. \A q \in pickMobilePreviewForCore(c, ch) : q \in Preview /\ q # NoPreview
  BY <1>2, PreviewPicked, VersionsAreOrdered, NoPreviewIsOldest DEF Version
<1>6. p \in Preview \cup {NoPreview} /\ (manifest.preview # NoPreview => p # NoPreview)
  BY <1>1, <1>4, <1>5 DEF previewForUpdate
<1> QED BY <1>1, <1>2, <1>3, <1>6

LEMMA ChooseTyped ==
  ASSUME TypeOK, Choose
  PROVE  TypeOK'
<1>1. PICK ch \in Channel :
        \/ \E t \in Target(Core) : instanceInstall(ch, t) \/ instanceUpdate(ch, t)
        \/ \E t \in Target(Frontend) : instanceFrontendUpdate(ch, t)
        \/ \E t \in Target(Preview) : instanceMobilePreviewUpdate(ch, t)
  BY DEF Choose
<1>2. CASE \E t \in Target(Core) : instanceInstall(ch, t)
  <2>1. PICK t \in Target(Core) : instanceInstall(ch, t)
    BY <1>2
  <2>2. PICK c \in Core, f \in Frontend, p \in Preview \cup {NoPreview} :
          Plan("install", Artifacts(c, Needs(c), f, p))
    BY <2>1, InstallPlans
  <2>3. Artifacts(c, Needs(c), f, p) \in Files
    BY ArtifactsTyped, NeedsTyped
  <2>4. saved' \in Files \cup {Absent}
    BY <2>1 DEF instanceInstall, TypeOK
  <2> QED BY <2>2, <2>3, <2>4, PlanTyped DEF Kinds
<1>3. CASE \E t \in Target(Core) : instanceUpdate(ch, t)
  <2>1. PICK t \in Target(Core) : instanceUpdate(ch, t)
    BY <1>3
  <2>2. PICK c \in Core, f \in Frontend, p \in Preview \cup {NoPreview} :
          Plan("update", Artifacts(c, Needs(c), f, p))
    BY <2>1, UpdatePlans
  <2>3. Artifacts(c, Needs(c), f, p) \in Files
    BY ArtifactsTyped, NeedsTyped
  <2>4. saved' \in Files \cup {Absent}
    BY <2>1, InstalledTyped DEF instanceUpdate, TypeOK
  <2> QED BY <2>2, <2>3, <2>4, PlanTyped DEF Kinds
<1>4. CASE \E t \in Target(Frontend) : instanceFrontendUpdate(ch, t)
  <2>1. PICK t \in Target(Frontend) : instanceFrontendUpdate(ch, t)
    BY <1>4
  <2>2. PICK f \in resolveFrontendUpdate(ch, t) :
          Plan("frontend", Artifacts(lock.core, LockedRange, f, manifest.preview))
    BY <2>1 DEF instanceFrontendUpdate
  <2>3. manifest \in Manifest /\ lock \in Lock
    BY <2>1, InstalledTyped DEF instanceFrontendUpdate
  <2>4. Artifacts(lock.core, LockedRange, f, manifest.preview) \in Files
    BY <2>2, <2>3, FrontendUpdatePicked, LockedRangeTyped, ArtifactsTyped DEF Manifest, Lock
  <2>5. saved' \in Files \cup {Absent}
    BY <2>1 DEF instanceFrontendUpdate, TypeOK
  <2> QED BY <2>2, <2>4, <2>5, PlanTyped DEF Kinds
<1>5. CASE \E t \in Target(Preview) : instanceMobilePreviewUpdate(ch, t)
  <2>1. PICK t \in Target(Preview) : instanceMobilePreviewUpdate(ch, t)
    BY <1>5
  <2>2. PICK p \in resolveMobilePreviewUpdate(ch, t) :
          Plan("preview", Artifacts(lock.core, LockedRange, manifest.frontend, p))
    BY <2>1 DEF instanceMobilePreviewUpdate
  <2>3. manifest \in Manifest /\ lock \in Lock
    BY <2>1, InstalledTyped DEF instanceMobilePreviewUpdate
  <2>4. Artifacts(lock.core, LockedRange, manifest.frontend, p) \in Files
    BY <2>2, <2>3, PreviewUpdatePicked, LockedRangeTyped, ArtifactsTyped DEF Manifest, Lock
  <2>5. saved' \in Files \cup {Absent}
    BY <2>1 DEF instanceMobilePreviewUpdate, TypeOK
  <2> QED BY <2>2, <2>4, <2>5, PlanTyped DEF Kinds
<1> QED BY <1>1, <1>2, <1>3, <1>4, <1>5

\* What an update would roll back to is there.
Undoable ==
  job # Idle /\ job.kind \in {"update", "frontend", "preview"} => job.old \in Files

LEMMA UndoableNext ==
  ASSUME TypeOK, Undoable, [Next]_vars
  PROVE  Undoable'
<1>1. \A kind, files :
        kind \in {"install", "rebuild", "clone", "restore"} /\ Plan(kind, files) => Undoable'
  BY DEF Plan, Undoable
<1>2. \A kind, files : Plan(kind, files) /\ Installed => Undoable'
  BY InstalledTyped DEF Plan, Undoable
<1>3. CASE Choose
  BY <1>1, <1>2, <1>3 DEF Choose, instanceInstall, instanceUpdate,
       instanceFrontendUpdate, instanceMobilePreviewUpdate
<1>4. CASE instanceRebuild \/ instanceClone \/ instanceRestore
  BY <1>1, <1>4 DEF instanceRebuild, instanceClone, instanceRestore
<1>5. CASE instanceBackup \/ Abandon \/ Finish \/ PublishOrWithdraw
  BY <1>5 DEF instanceBackup, Abandon, Finish, PublishOrWithdraw, Undoable
<1>6. CASE WriteManifest \/ WriteLock
  <2>1. job \in Job /\ job # Idle
    BY <1>6 DEF WriteManifest, WriteLock, TypeOK
  <2>2. job' = Idle \/ (job'.kind = job.kind /\ job'.old = job.old)
    BY <1>6, <2>1 DEF WriteManifest, WriteLock, Job
  <2> QED BY <2>1, <2>2 DEF Undoable
<1>7. CASE RollBack
  BY <1>7 DEF RollBack, Undoable
<1>8. CASE UNCHANGED vars
  BY <1>8 DEF vars, Undoable
<1> QED BY <1>3, <1>4, <1>5, <1>6, <1>7, <1>8 DEF Next

LEMMA TypedNext ==
  ASSUME TypeOK, Undoable, [Next]_vars
  PROVE  TypeOK'
<1>1. CASE Choose
  BY <1>1, ChooseTyped
<1>2. CASE instanceRebuild \/ instanceClone
  <2>1. manifest \in Manifest /\ lock \in Lock /\ saved' = saved
    BY <1>2, InstalledTyped DEF instanceRebuild, instanceClone
  <2>2. Artifacts(lock.core, LockedRange, manifest.frontend, manifest.preview) \in Files
    BY <2>1, LockedRangeTyped, ArtifactsTyped DEF Manifest, Lock
  <2>3. [Artifacts(lock.core, LockedRange, manifest.frontend, manifest.preview)
           EXCEPT !.lock = lock] \in Files
    BY <2>1, <2>2 DEF Files
  <2>4. saved' \in Files \cup {Absent}
    BY <2>1 DEF TypeOK
  <2> QED BY <1>2, <2>2, <2>3, <2>4, PlanTyped DEF instanceRebuild, instanceClone, Kinds
<1>3. CASE instanceBackup
  BY <1>3, InstalledTyped DEF instanceBackup, TypeOK
<1>4. CASE instanceRestore
  <2>1. saved \in Files /\ saved' = saved
    BY <1>4 DEF instanceRestore, TypeOK
  <2> QED BY <1>4, <2>1, PlanTyped DEF instanceRestore, Kinds
<1>5. CASE Abandon \/ Finish
  BY <1>5 DEF Abandon, Finish, TypeOK
<1>6. CASE WriteManifest \/ WriteLock
  <2>1. job \in Job /\ job.new.manifest \in Manifest /\ job.new.lock \in Lock
    BY <1>6 DEF WriteManifest, WriteLock, TypeOK, Job, Files
  <2>2. [job EXCEPT !.stage = "manifest"] \in Job /\ [job EXCEPT !.stage = "written"] \in Job
    BY <2>1 DEF Job
  <2> QED BY <1>6, <2>1, <2>2 DEF WriteManifest, WriteLock, TypeOK
<1>7. CASE PublishOrWithdraw
  BY <1>7 DEF PublishOrWithdraw, Toggle, TypeOK
<1>8. CASE RollBack
  <2>1. job \in Job /\ job.old \in Files /\ saved' = saved /\ manifest' = manifest /\ lock' = lock
    BY <1>8 DEF RollBack, TypeOK, Undoable
  <2>2. job' = [kind |-> "rollback", stage |-> "planned", new |-> job.old, old |-> Absent]
    BY <1>8 DEF RollBack
  <2>3. job' \in Job
    BY <2>1, <2>2 DEF Job, Kinds
  <2> QED BY <1>8, <2>1, <2>3 DEF RollBack, TypeOK
<1>9. CASE UNCHANGED vars
  BY <1>9 DEF vars, TypeOK
<1> QED BY <1>1, <1>2, <1>3, <1>4, <1>5, <1>6, <1>7, <1>8, <1>9 DEF Next

\* The variables stay within their types.
THEOREM Typing == Spec => []TypeOK
<1>1. Init => TypeOK /\ Undoable
  BY DEF Init, TypeOK, Undoable
<1>2. TypeOK /\ Undoable /\ [Next]_vars => (TypeOK /\ Undoable)'
  BY TypedNext, UndoableNext
<1> QED BY <1>1, <1>2, PTL DEF Spec

-----------------------------------------------------------------------------
(* Manifest and lock tell of one installation whose frontend fits          *)

\* The lock is of the core in the manifest and has its range, and the frontend fits it.
Sound(files) ==
  /\ files.lock.core = files.manifest.core
  /\ files.lock.range = Needs(files.manifest.core)
  /\ Fits(files.manifest.core, files.manifest.frontend)

\* No release has a prerelease suffix, which the install ignores.
NoPrereleases == \A v \in Version : Plain[v] = v

\* Between the two writes the manifest is the new one and the lock the old one.
FilesInv ==
  /\ FrontendFits
  /\ (job = Idle \/ job.stage # "manifest") /\ Installed => Sound(Current)
  /\ saved # Absent => Sound(saved)

JobInv ==
  job # Idle =>
    /\ Sound(job.new)
    /\ job.old # Absent => Sound(job.old)
    /\ job.stage \in {"manifest", "written"} => manifest = job.new.manifest
    /\ job.kind = "rebuild" => job.new.lock = lock /\ job.stage = "planned"

IInv == TypeOK /\ Undoable /\ FilesInv /\ JobInv

LEMMA RangeIsKept ==
  ASSUME TypeOK, Installed, Sound(Current)
  PROVE  LockedRange = Needs(manifest.core) /\ lock.core = manifest.core
<1>1. manifest.core \in Core
  BY InstalledTyped DEF Manifest
<1> QED BY <1>1, NeedsTyped DEF LockedRange, Sound, Current

LEMMA SoundArtifacts ==
  ASSUME NEW c, NEW f, NEW p, Fits(c, f)
  PROVE  Sound(Artifacts(c, Needs(c), f, p))
BY DEF Sound, Artifacts

\* The range update-frontend asks is that of the running core, live or from the lock.
LEMMA RequiredIsNeeded ==
  ASSUME TypeOK, NoPrereleases, Installed, Sound(Current),
         NEW ch \in Channel, NEW range \in RequiredRanges(ch)
  PROVE  range = Needs(manifest.core)
<1>1. manifest.core \in Core
  BY InstalledTyped DEF Manifest
<1>2. \A c \in CoresOn(ch) : Plain[c] = Plain[manifest.core] => c = manifest.core
  BY <1>1, ResolversTyped DEF NoPrereleases, Version
<1> QED BY <1>2 DEF RequiredRanges, Sound, Current

LEMMA PlanKeepsInv ==
  ASSUME IInv, job = Idle, NEW kind \in Kinds, NEW files, Sound(files), Plan(kind, files),
         kind = "rebuild" => files.lock = lock, saved' # Absent => Sound(saved')
  PROVE  FilesInv' /\ JobInv'
<1> USE DEF IInv
<1>1. Installed => Sound(Current)
  BY DEF FilesInv
<1>2. UNCHANGED <<catalog, manifest, lock>>
  BY DEF Plan
<1>3. \A x : Sound(x) = Sound(x)'
  BY <1>2 DEF Sound, Needs, Fits, Accepts
<1>4. FilesInv'
  BY <1>1, <1>2, <1>3 DEF FilesInv, FrontendFits, Installed, Current, Sound, Needs, Fits, Accepts
<1>5. JobInv'
  BY <1>1, <1>2 DEF JobInv, Plan, Sound, Needs, Fits, Accepts
<1> QED BY <1>4, <1>5

LEMMA ChooseKeepsInv ==
  ASSUME IInv, NoPrereleases, Choose
  PROVE  FilesInv' /\ JobInv'
<1> USE DEF IInv
<1>0. job = Idle /\ (Installed => Sound(Current)) /\ (saved # Absent => Sound(saved))
  BY DEF Choose, instanceInstall, instanceUpdate, instanceFrontendUpdate,
         instanceMobilePreviewUpdate, FilesInv
<1>1. PICK ch \in Channel :
        \/ \E t \in Target(Core) : instanceInstall(ch, t) \/ instanceUpdate(ch, t)
        \/ \E t \in Target(Frontend) : instanceFrontendUpdate(ch, t)
        \/ \E t \in Target(Preview) : instanceMobilePreviewUpdate(ch, t)
  BY DEF Choose
<1>2. CASE \E t \in Target(Core) : instanceInstall(ch, t)
  <2>1. PICK t \in Target(Core) : instanceInstall(ch, t)
    BY <1>2
  <2>2. PICK c \in Core, f \in Frontend, p \in Preview \cup {NoPreview} :
          /\ f \in pickCompatibleFrontend(c, ch)
          /\ Plan("install", Artifacts(c, Needs(c), f, p))
    BY <2>1, InstallPlans
  <2>3. Plain[c] = c /\ Plain[f] = f
    BY DEF NoPrereleases, Version
  <2>4. Fits(c, f)
    BY <2>2, <2>3 DEF pickCompatibleFrontend, NewestPlain, Fits
  <2>5. saved' = saved
    BY <2>1 DEF instanceInstall
  <2> QED BY <1>0, <2>2, <2>4, <2>5, SoundArtifacts, PlanKeepsInv DEF Kinds
<1>3. CASE \E t \in Target(Core) : instanceUpdate(ch, t)
  <2>1. PICK t \in Target(Core) : instanceUpdate(ch, t)
    BY <1>3
  <2>2. PICK c \in Core, f \in Frontend, p \in Preview \cup {NoPreview} :
          Fits(c, f) /\ Plan("update", Artifacts(c, Needs(c), f, p))
    BY <2>1, UpdatePlans
  <2>3. saved' # Absent => Sound(saved')
    BY <1>0, <2>1 DEF instanceUpdate
  <2> QED BY <1>0, <2>2, <2>3, SoundArtifacts, PlanKeepsInv DEF Kinds
<1>4. CASE \E t \in Target(Frontend) : instanceFrontendUpdate(ch, t)
  <2>1. PICK t \in Target(Frontend) : instanceFrontendUpdate(ch, t)
    BY <1>4
  <2>2. PICK f \in resolveFrontendUpdate(ch, t) :
          Plan("frontend", Artifacts(lock.core, LockedRange, f, manifest.preview))
    BY <2>1 DEF instanceFrontendUpdate
  <2>3. Installed /\ saved' = saved
    BY <2>1 DEF instanceFrontendUpdate
  <2>4. Fits(manifest.core, f)
    BY <1>0, <2>2, <2>3, FrontendUpdatePicked, RequiredIsNeeded DEF Fits
  <2>5. Artifacts(lock.core, LockedRange, f, manifest.preview)
          = Artifacts(manifest.core, Needs(manifest.core), f, manifest.preview)
    BY <1>0, <2>3, RangeIsKept
  <2> QED BY <1>0, <2>2, <2>3, <2>4, <2>5, SoundArtifacts, PlanKeepsInv DEF Kinds
<1>5. CASE \E t \in Target(Preview) : instanceMobilePreviewUpdate(ch, t)
  <2>1. PICK t \in Target(Preview) : instanceMobilePreviewUpdate(ch, t)
    BY <1>5
  <2>2. PICK p \in resolveMobilePreviewUpdate(ch, t) :
          Plan("preview", Artifacts(lock.core, LockedRange, manifest.frontend, p))
    BY <2>1 DEF instanceMobilePreviewUpdate
  <2>3. Installed /\ saved' = saved
    BY <2>1 DEF instanceMobilePreviewUpdate
  <2>4. Fits(manifest.core, manifest.frontend)
    BY <2>3 DEF FilesInv, FrontendFits, Installed
  <2>5. Artifacts(lock.core, LockedRange, manifest.frontend, p)
          = Artifacts(manifest.core, Needs(manifest.core), manifest.frontend, p)
    BY <1>0, <2>3, RangeIsKept
  <2> QED BY <1>0, <2>2, <2>3, <2>4, <2>5, SoundArtifacts, PlanKeepsInv DEF Kinds
<1> QED BY <1>1, <1>2, <1>3, <1>4, <1>5

\* The operations that plan from the files of the instance alone.
LEMMA RewriteKeepsInv ==
  ASSUME IInv, instanceRebuild \/ instanceClone \/ instanceRestore
  PROVE  FilesInv' /\ JobInv'
<1> USE DEF IInv
<1>1. job = Idle /\ Installed /\ saved' = saved
  BY DEF instanceRebuild, instanceClone, instanceRestore
<1>2. Sound(Current) /\ (saved # Absent => Sound(saved))
  BY <1>1 DEF FilesInv
<1>3. Fits(manifest.core, manifest.frontend)
  BY <1>1 DEF FilesInv, FrontendFits, Installed
<1> DEFINE Files0 == Artifacts(lock.core, LockedRange, manifest.frontend, manifest.preview)
<1>4. Sound(Files0)
  BY <1>1, <1>2, <1>3, RangeIsKept, SoundArtifacts
<1>5. CASE instanceRebuild
  <2>1. Sound([Files0 EXCEPT !.lock = lock]) /\ [Files0 EXCEPT !.lock = lock].lock = lock
    BY <1>1, <1>2, <1>3, RangeIsKept DEF Sound, Current, Artifacts
  <2>2. Plan("rebuild", [Files0 EXCEPT !.lock = lock])
    BY <1>5 DEF instanceRebuild
  <2> HIDE DEF Files0
  <2> QED BY <1>1, <1>2, <2>1, <2>2, PlanKeepsInv DEF Kinds
<1>6. CASE instanceClone
  <2>1. Plan("clone", Files0)
    BY <1>6 DEF instanceClone
  <2> HIDE DEF Files0
  <2> QED BY <1>1, <1>2, <1>4, <2>1, PlanKeepsInv DEF Kinds
<1>7. CASE instanceRestore
  BY <1>1, <1>2, <1>7, PlanKeepsInv DEF instanceRestore, Kinds
<1> QED BY <1>5, <1>6, <1>7

LEMMA WriteManifestKeepsInv ==
  ASSUME IInv, WriteManifest
  PROVE  FilesInv' /\ JobInv'
<1> USE DEF IInv
<1>1. job \in Job /\ job # Idle /\ Sound(job.new) /\ (saved # Absent => Sound(saved))
  BY DEF WriteManifest, TypeOK, JobInv, FilesInv
<1>2. UNCHANGED <<catalog, lock, saved>> /\ manifest' = job.new.manifest
  BY DEF WriteManifest
<1>3. FrontendFits'
  BY <1>1, <1>2 DEF FrontendFits, Sound, Fits, Needs, Accepts
<1>4. saved' # Absent => Sound(saved)'
  BY <1>1, <1>2 DEF Sound, Fits, Needs, Accepts
<1>5. CASE job.kind = "rebuild"
  <2>1. job' = Idle /\ job.new.lock = lock
    BY <1>1, <1>5 DEF WriteManifest, JobInv
  <2>2. Sound(Current)'
    BY <1>1, <1>2, <2>1 DEF Sound, Current, Fits, Needs, Accepts
  <2> QED BY <1>3, <1>4, <2>1, <2>2 DEF FilesInv, JobInv
<1>6. CASE job.kind # "rebuild"
  <2>1. job' = [job EXCEPT !.stage = "manifest"]
    BY <1>6 DEF WriteManifest
  <2>2. job' \in Job /\ job'.stage = "manifest" /\ job'.kind # "rebuild"
        /\ job'.new = job.new /\ job'.old = job.old
    BY <1>1, <1>6, <2>1 DEF Job
  <2>3. job' # Idle
    BY <2>2, NothingIsNothing
  <2>4. FilesInv'
    BY <1>3, <1>4, <2>2, <2>3 DEF FilesInv
  <2>5. Sound(job.new)' /\ (job.old # Absent => Sound(job.old)')
    BY <1>1, <1>2, <2>2 DEF JobInv, Sound, Fits, Needs, Accepts
  <2>6. JobInv'
    BY <1>2, <2>2, <2>5 DEF JobInv
  <2> QED BY <2>4, <2>6
<1> QED BY <1>5, <1>6

LEMMA WriteLockKeepsInv ==
  ASSUME IInv, WriteLock
  PROVE  FilesInv' /\ JobInv'
<1> USE DEF IInv
<1>1. /\ job \in Job /\ Sound(job.new) /\ (saved # Absent => Sound(saved))
      /\ manifest = job.new.manifest /\ job.kind # "rebuild" /\ FrontendFits
  BY DEF WriteLock, TypeOK, JobInv, FilesInv
<1>2. /\ UNCHANGED <<catalog, manifest, saved>> /\ lock' = job.new.lock
      /\ job' = [job EXCEPT !.stage = "written"]
  BY DEF WriteLock
<1>3. job'.stage = "written" /\ job'.kind = job.kind /\ job'.new = job.new /\ job'.old = job.old
  BY <1>1, <1>2 DEF Job
<1>4. Sound(Current)' /\ FrontendFits' /\ (saved' # Absent => Sound(saved)')
  BY <1>1, <1>2 DEF FrontendFits, Sound, Current, Fits, Needs, Accepts
<1>5. Sound(job.new)' /\ (job.old # Absent => Sound(job.old)')
  BY <1>1, <1>2, <1>3 DEF WriteLock, JobInv, Sound, Fits, Needs, Accepts
<1>6. JobInv'
  BY <1>1, <1>2, <1>3, <1>5 DEF JobInv
<1> QED BY <1>4, <1>6 DEF FilesInv

LEMMA NextKeepsInv ==
  ASSUME IInv, NoPrereleases, [Next]_vars
  PROVE  IInv'
<1> USE DEF IInv
<1>1. TypeOK' /\ Undoable'
  BY TypedNext, UndoableNext
<1>2. CASE instanceBackup
  <2>1. Sound(Current) /\ UNCHANGED <<catalog, manifest, lock, job>> /\ saved' = Current /\ job = Idle
    BY <1>2 DEF instanceBackup, FilesInv
  <2>2. Sound(Current)' /\ Sound(saved)'
    BY <2>1 DEF Sound, Current, Fits, Needs, Accepts
  <2> QED BY <1>1, <2>1, <2>2 DEF FilesInv, FrontendFits, JobInv, Fits, Needs, Accepts
<1>3. CASE Abandon \/ Finish
  <2>1. /\ job.stage # "manifest" /\ job' = Idle
        /\ UNCHANGED <<catalog, manifest, lock, saved>>
    BY <1>3 DEF Abandon, Finish
  <2>2. Sound(Current)' = Sound(Current) /\ Sound(saved)' = Sound(saved)
        /\ FrontendFits' = FrontendFits /\ Installed' = Installed
    BY <2>1 DEF Sound, Current, FrontendFits, Installed, Fits, Needs, Accepts
  <2> QED BY <1>1, <2>1, <2>2 DEF FilesInv, JobInv
<1>4. CASE RollBack
  <2>1. /\ job # Idle /\ job.old \in Files /\ Sound(job.old) /\ job.stage = "written"
        /\ UNCHANGED <<catalog, manifest, lock, saved>>
    BY <1>4, NothingIsNothing DEF RollBack, Undoable, JobInv
  <2>2. job' = [kind |-> "rollback", stage |-> "planned", new |-> job.old, old |-> Absent]
    BY <1>4 DEF RollBack
  <2>3. Sound(Current)' = Sound(Current) /\ Sound(saved)' = Sound(saved)
        /\ FrontendFits' = FrontendFits /\ Installed' = Installed
    BY <2>1 DEF Sound, Current, FrontendFits, Installed, Fits, Needs, Accepts
  <2>4. Sound(job.new)'
    BY <2>1, <2>2 DEF Sound, Fits, Needs, Accepts
  <2>5. FilesInv'
    BY <2>1, <2>2, <2>3 DEF FilesInv
  <2>6. JobInv'
    BY <2>2, <2>4 DEF JobInv
  <2> QED BY <1>1, <2>5, <2>6
<1>5. CASE PublishOrWithdraw \/ UNCHANGED vars
  <2>1. UNCHANGED <<catalog, manifest, lock, saved, job>>
    BY <1>5 DEF PublishOrWithdraw, vars
  <2> QED BY <1>1, <2>1 DEF FilesInv, JobInv, FrontendFits, Installed, Current, Sound, Fits, Needs, Accepts
<1> QED
  BY <1>1, <1>2, <1>3, <1>4, <1>5, ChooseKeepsInv, RewriteKeepsInv,
     WriteManifestKeepsInv, WriteLockKeepsInv DEF Next

\* The frontend installed always fits the core installed, whatever the registry did
\* since, as long as no release has a prerelease suffix.
THEOREM FrontendAlwaysFits ==
  ASSUME NoPrereleases
  PROVE  Spec => []FrontendFits
<1>1. Init => IInv
  BY DEF Init, IInv, TypeOK, Undoable, FilesInv, JobInv, FrontendFits, Installed
<1>2. IInv /\ [Next]_vars => IInv'
  BY NextKeepsInv
<1>3. IInv => FrontendFits
  BY DEF IInv, FilesInv
<1> QED BY <1>1, <1>2, <1>3, PTL DEF Spec

-----------------------------------------------------------------------------
(* Older releases come back by a core update, a restore or a rollback only *)

Forward(kind, old, new) ==
  /\ old.preview # NoPreview => new.preview # NoPreview
  /\ kind # "update" => new.frontend >= old.frontend /\ new.preview >= old.preview

MayGoBack == {"install", "restore", "rollback"}

\* What is planned and not yet written goes forward from what is installed.
ForwardInv ==
  job # Idle /\ job.stage = "planned" /\ job.kind \notin MayGoBack /\ manifest # Absent =>
    Forward(job.kind, manifest, job.new.manifest)

LEMMA SameIsForward ==
  ASSUME NEW kind, NEW old \in Manifest, NEW new,
         new.preview = old.preview, new.frontend = old.frontend
  PROVE  Forward(kind, old, new)
<1>1. old.frontend \in Nat /\ old.preview \in Nat
  BY VersionsAreOrdered, NoPreviewIsOldest DEF Manifest, Version
<1> QED BY <1>1 DEF Forward

LEMMA PlanForward ==
  ASSUME NEW kind, NEW files, Plan(kind, files),
         kind \notin MayGoBack => Forward(kind, manifest, files.manifest)
  PROVE  ForwardInv'
BY DEF Plan, ForwardInv, Forward, MayGoBack

LEMMA ChooseForward ==
  ASSUME TypeOK, Choose
  PROVE  ForwardInv'
<1>1. PICK ch \in Channel :
        \/ \E t \in Target(Core) : instanceInstall(ch, t) \/ instanceUpdate(ch, t)
        \/ \E t \in Target(Frontend) : instanceFrontendUpdate(ch, t)
        \/ \E t \in Target(Preview) : instanceMobilePreviewUpdate(ch, t)
  BY DEF Choose
<1>2. CASE \E t \in Target(Core) : instanceInstall(ch, t)
  BY <1>2, PlanForward DEF instanceInstall, MayGoBack
<1>3. CASE \E t \in Target(Core) : instanceUpdate(ch, t)
  <2>1. PICK c \in Core, f \in Frontend, p \in Preview \cup {NoPreview} :
          /\ manifest.preview # NoPreview => p # NoPreview
          /\ Plan("update", Artifacts(c, Needs(c), f, p))
    BY <1>3, UpdatePlans
  <2>2. Forward("update", manifest, Artifacts(c, Needs(c), f, p).manifest)
    BY <2>1 DEF Forward, Artifacts
  <2> QED BY <2>1, <2>2, PlanForward
<1>4. CASE \E t \in Target(Frontend) : instanceFrontendUpdate(ch, t)
  <2>1. PICK t \in Target(Frontend) : instanceFrontendUpdate(ch, t)
    BY <1>4
  <2>2. PICK f \in resolveFrontendUpdate(ch, t) :
          Plan("frontend", Artifacts(lock.core, LockedRange, f, manifest.preview))
    BY <2>1 DEF instanceFrontendUpdate
  <2>3. f \in Frontend /\ f > manifest.frontend /\ manifest \in Manifest
    BY <2>1, <2>2, FrontendUpdatePicked, InstalledTyped DEF instanceFrontendUpdate
  <2>4. {f, manifest.frontend, manifest.preview} \subseteq Nat
    BY <2>3, VersionsAreOrdered, NoPreviewIsOldest DEF Manifest, Version
  <2>5. Forward("frontend", manifest,
                Artifacts(lock.core, LockedRange, f, manifest.preview).manifest)
    BY <2>3, <2>4 DEF Forward, Artifacts
  <2> QED BY <2>2, <2>5, PlanForward
<1>5. CASE \E t \in Target(Preview) : instanceMobilePreviewUpdate(ch, t)
  <2>1. PICK t \in Target(Preview) : instanceMobilePreviewUpdate(ch, t)
    BY <1>5
  <2>2. PICK p \in resolveMobilePreviewUpdate(ch, t) :
          Plan("preview", Artifacts(lock.core, LockedRange, manifest.frontend, p))
    BY <2>1 DEF instanceMobilePreviewUpdate
  <2>3. p \in Preview /\ p > manifest.preview /\ manifest \in Manifest
    BY <2>1, <2>2, PreviewUpdatePicked, InstalledTyped DEF instanceMobilePreviewUpdate
  <2>4. {p, manifest.frontend, manifest.preview} \subseteq Nat /\ p # NoPreview
    BY <2>3, VersionsAreOrdered, NoPreviewIsOldest DEF Manifest, Version
  <2>5. Forward("preview", manifest,
                Artifacts(lock.core, LockedRange, manifest.frontend, p).manifest)
    BY <2>3, <2>4 DEF Forward, Artifacts
  <2> QED BY <2>2, <2>5, PlanForward
<1> QED BY <1>1, <1>2, <1>3, <1>4, <1>5

LEMMA NextForward ==
  ASSUME TypeOK, ForwardInv, [Next]_vars
  PROVE  ForwardInv'
<1>1. CASE instanceRebuild \/ instanceClone
  <2>1. manifest \in Manifest
    BY <1>1, InstalledTyped DEF instanceRebuild, instanceClone
  <2>2. \A kind, range : Forward(kind, manifest,
          Artifacts(lock.core, range, manifest.frontend, manifest.preview).manifest)
    BY <2>1, SameIsForward DEF Artifacts
  <2>3. [Artifacts(lock.core, LockedRange, manifest.frontend, manifest.preview)
           EXCEPT !.lock = lock].manifest
          = Artifacts(lock.core, LockedRange, manifest.frontend, manifest.preview).manifest
    BY DEF Artifacts
  <2> QED BY <1>1, <2>2, <2>3, PlanForward DEF instanceRebuild, instanceClone
<1>2. CASE instanceRestore
  BY <1>2, PlanForward DEF instanceRestore, MayGoBack
<1>3. CASE instanceBackup \/ Abandon \/ Finish
  BY <1>3 DEF instanceBackup, Abandon, Finish, ForwardInv, Forward
<1>4. CASE WriteManifest \/ WriteLock
  <2>1. job \in Job
    BY <1>4 DEF WriteManifest, WriteLock, TypeOK
  <2>2. job' = Idle \/ job'.stage # "planned"
    BY <1>4, <2>1 DEF WriteManifest, WriteLock, Job
  <2> QED BY <2>2 DEF ForwardInv
<1>5. CASE RollBack
  BY <1>5 DEF RollBack, ForwardInv, MayGoBack
<1>6. CASE PublishOrWithdraw \/ UNCHANGED vars
  BY <1>6 DEF PublishOrWithdraw, vars, ForwardInv, Forward
<1> QED BY <1>1, <1>2, <1>3, <1>4, <1>5, <1>6, ChooseForward DEF Next

\* Only a core update, a repeated install, a rollback or a restore takes a frontend or a
\* preview back, and no update, rebuild or clone drops a preview.
THEOREM GoesOnlyForward == Spec => OnlyForward
<1> DEFINE Step == (manifest # Absent /\ job # Idle
                      /\ job.kind \notin {"install", "restore", "rollback"}) =>
                     /\ manifest.preview # NoPreview => manifest'.preview # NoPreview
                     /\ job.kind # "update" => /\ manifest'.frontend >= manifest.frontend
                                               /\ manifest'.preview >= manifest.preview
<1>1. Init => ForwardInv
  BY DEF Init, ForwardInv
<1>2. TypeOK /\ ForwardInv /\ [Next]_vars => ForwardInv'
  BY NextForward
<1>3. ASSUME TypeOK, ForwardInv, [Next]_vars
      PROVE  Step
  <2>1. SUFFICES ASSUME manifest # Absent, job # Idle,
                        job.kind \notin {"install", "restore", "rollback"}
                 PROVE  Forward(job.kind, manifest, manifest')
    BY DEF Forward
  <2>2. manifest \in Manifest
    BY <1>3, <2>1 DEF TypeOK
  <2>3. CASE WriteManifest
    BY <1>3, <2>1, <2>3 DEF WriteManifest, ForwardInv, MayGoBack
  <2>4. CASE ~WriteManifest
    <3>1. manifest' = manifest
      BY <1>3, <2>1, <2>4 DEF Next, Choose, instanceInstall, instanceUpdate,
           instanceFrontendUpdate, instanceMobilePreviewUpdate, instanceRebuild,
           instanceClone, instanceBackup, instanceRestore, Abandon, WriteLock, Finish,
           RollBack, PublishOrWithdraw, vars
    <3> QED BY <2>2, <3>1, SameIsForward
  <2> QED BY <2>3, <2>4
<1>4. TypeOK /\ ForwardInv /\ [Next]_vars => [Step]_vars
  BY <1>3
<1> QED BY <1>1, <1>2, <1>4, Typing, PTL DEF Spec, OnlyForward

----------------------------------------------------------------------------
(**************************************************************************)
(* Module PluginState, for any plugins, services and bounds.              *)
(**************************************************************************)

(* What the manager is doing                                               *)

Ops == [plugin : Plugin, kind : {"install", "update", "uninstall"}, version : 1..MaxVersion]
Tasks ==
  [kind : {"drain", "remount", "reinstall", "recover"}, stage : Stages \ {"idle"},
   left : Seq(Ops), done : BOOLEAN, keep : BOOLEAN, todo : SUBSET Follower]

Operating == {"package", "finalize", "enable", "cancel"}
Draining == Operating \union {"regain"}
Spreading == {"snapshot", "sync", "restart"}
Path(kind) ==
  CASE kind = "drain" -> Draining \union Spreading
    [] kind = "remount" -> {"remount", "rebuild", "restart"}
    [] kind = "reinstall" -> {"require", "repair"} \union Spreading
    [] OTHER -> Draining \union Spreading \union {"safe-on", "repair", "safe-off", "probe"}

Archived == snapshot.core \in Nat /\ snapshot \in [core : {snapshot.core}, image : State]

Typed ==
  /\ core \in Nat /\ core > 0
  /\ rows \in [Plugin -> 0..MaxVersion] /\ on \subseteq {p \in Plugin : rows[p] > 0}
  /\ queue \in Seq(Ops)
  /\ disk \in [Service -> State]
  /\ cache = [s \in Service |-> cache[s]]
  /\ \A s \in Service : cache[s] = Cold \/ cache[s] \subseteq Plugin
  /\ runs = [s \in Service |-> runs[s]]
  /\ snapshot = NoSnapshot \/ snapshot = Torn(snapshot.core) \/ Archived
  /\ safe \in BOOLEAN /\ inStep \in BOOLEAN /\ outcome \in {"none", "recovered", "safe"}
  /\ count \in [parks : Nat, changes : Nat, mishaps : Nat]

Engaged ==
  /\ task = NoTask \/ (task \in Tasks /\ task.stage \in Path(task.kind))
  /\ task.stage \in Operating => task.left # <<>>
  /\ task.stage = "enable" => rows[Op.plugin] > 0
  /\ task.kind = "reinstall" => core > 1

----------------------------------------------------------------------------
(* A recovery and what it leaves behind *)

Recovering ==
  /\ task # NoTask => outcome = "none"
  /\ task.kind = "recover" /\ task.stage \notin {"safe-on", "probe"} =>
       safe /\ runs["backend"] = None
  /\ task.stage = "probe" => ~safe
  /\ RecoveryHolds

----------------------------------------------------------------------------
(* The services follow the backend *)

Before == Draining \union {"safe-on", "snapshot", "require", "remount"}
SameRuns == \A s \in Follower : runs[s] = runs["backend"]
SameDisk(all) == \A s \in all : disk[s] = disk["backend"]

Spread ==
  /\ task.stage \in Before \/ (task.stage = "repair" /\ task.kind = "reinstall") =>
       task.todo = Follower
  /\ task.stage = "remount" => \A s \in Service : runs[s] = None
  /\ task.stage = "sync" =>
       snapshot = [core |-> core, image |-> disk["backend"]] /\ SameDisk(Follower \ task.todo)
  /\ task.stage \in {"rebuild", "restart"} => SameDisk(Follower)
  /\ task.stage = "restart" => \A s \in Service : cache[s] \in {Cold, Compiled(s)}
  /\ task.kind # "recover" /\ inStep /\ ~safe => SameRuns

----------------------------------------------------------------------------
(* The backend agrees with the database as long as nothing went wrong *)

Recorded == [p \in Plugin |-> IF p \in on THEN rows[p] ELSE 0]
Good(image) == image.bundles = on /\ \A p \in on : image.vendor[p] = rows[p]

\* Each plugin has one operation, and one to be installed has no row.
Distinct(ops) == \A i, j \in DOMAIN ops : ops[i].plugin = ops[j].plugin => i = j
MayInstall(op) == op.kind = "install" => rows[op.plugin] = 0

Resting == {"idle", "regain", "remount", "rebuild", "sync", "restart"}

\* What the next task can build on.
Recoverable ==
  /\ IF disk["backend"].marker THEN Good(disk["backend"]) ELSE disk["backend"].bundles = {}
  /\ snapshot.core = core => Good(snapshot.image) /\ snapshot.image.marker
  /\ on # {} => snapshot.core = core

Stepwise ==
  LET backend == disk["backend"]
  IN  /\ task.stage \in Resting => Recoverable
      /\ task.stage = "package" => Good(backend)
      /\ task.stage = "finalize" =>
           /\ backend.bundles = on /\ \A p \in on \ {Op.plugin} : backend.vendor[p] = rows[p]
           /\ Op.kind # "uninstall" => backend.vendor[Op.plugin] = Op.version
      /\ task.stage = "enable" =>
           Good(backend) /\ backend.vendor[Op.plugin] = rows[Op.plugin] /\ backend.marker
      /\ task.stage = "require" => backend.bundles = {}
      /\ task.stage = "repair" => backend.bundles = {} /\ backend.vendor = rows
      /\ task.stage \in {"snapshot", "sync", "rebuild", "restart"} =>
           Good(backend) /\ backend.marker

\* The snapshot is not torn, and not of a later core.
Whole == snapshot # Torn(snapshot.core) /\ snapshot.core <= core
Lined ==
  /\ Distinct(task.left)
  /\ \A i \in DOMAIN task.left : (i = 1 /\ task.stage = "enable") \/ MayInstall(task.left[i])
  /\ task.stage = "regain" => task.left # <<>>

Ordered ==
  /\ task.kind # "recover" /\ task.stage # "cancel" /\ Whole
  /\ Distinct(queue) /\ \A i \in DOMAIN queue : MayInstall(queue[i])
  /\ task.kind = "drain" => Lined

Agrees ==
  /\ Ordered /\ Stepwise
  /\ task = NoTask /\ inStep /\ ~safe => runs["backend"] = Recorded

Unharmed == Prudent /\ count.mishaps = 0 => Agrees

----------------------------------------------------------------------------
(* Moves of the manager *)

LEMMA ServicesAre == "backend" \in Service /\ Follower \subseteq Service /\ "backend" \notin Follower
BY PluginStateAssumption DEF Service

\* The manager is at work, or it is idle.
LEMMA AtWork ==
  ASSUME Engaged, task.stage # "idle" \/ task # NoTask
  PROVE  task \in Tasks /\ task.stage \in Path(task.kind) /\ task # NoTask /\ task.stage # "idle"
<1>1. task # NoTask
  BY DEF NoTask
<1>2. task \in Tasks /\ task.stage \in Path(task.kind)
  BY <1>1 DEF Engaged
<1> QED BY <1>1, <1>2 DEF Tasks

LEMMA IdleIs == NoTask.stage = "idle" /\ NoTask.kind = "none"
BY DEF NoTask

LEMMA StagesAre ==
  /\ Draining \union Spreading \subseteq Stages \ {"idle"}
  /\ \A kind : Path(kind) \subseteq Stages \ {"idle"}
BY DEF Draining, Operating, Spreading, Stages, Path

\* A task has just begun.
LEMMA TaskIs ==
  ASSUME NEW kind \in {"drain", "remount", "reinstall", "recover"}, NEW stage \in Stages \ {"idle"},
         NEW list \in Seq(Ops)
  PROVE  LET t == Task(kind, stage, list)
         IN  /\ t \in Tasks /\ t.kind = kind /\ t.stage = stage /\ t.left = list
             /\ t.todo = Follower /\ t # NoTask
BY DEF Task, Tasks, NoTask

\* It goes on to another stage.
Moves(stage) ==
  /\ task' \in Tasks /\ task'.stage = stage /\ task'.kind = task.kind /\ task'.keep = task.keep
  /\ task'.todo = task.todo /\ task'.left = task.left /\ task'.done = task.done

LEMMA GotoIs ==
  ASSUME task \in Tasks, NEW stage \in Stages \ {"idle"}, Goto(stage)
  PROVE  Moves(stage)
BY DEF Goto, Moves, Tasks

LEMMA DrainedIs ==
  ASSUME task \in Tasks, NEW stage \in (Stages \ {"idle"}) \union {"over"}, Drained(stage)
  PROVE  \/ stage # "over" /\ Moves(stage)
         \/ stage = "over" /\ task.kind = "recover" /\ Moves("repair")
         \/ stage = "over" /\ task.kind # "recover" /\ task' = NoTask
<1>1. CASE stage # "over"
  BY <1>1, GotoIs DEF Drained
<1>2. CASE stage = "over" /\ task.kind = "recover"
  <2>1. "repair" \in Stages \ {"idle"}
    BY DEF Stages
  <2> QED BY <1>2, <2>1, GotoIs DEF Drained
<1>3. CASE stage = "over" /\ task.kind # "recover"
  BY <1>3 DEF Drained
<1> QED BY <1>1, <1>2, <1>3

\* One operation of a drain is done.
LEMMA NextOpIs ==
  ASSUME task \in Tasks, task.left # <<>>, NextOp
  PROVE  /\ task' \in Tasks /\ task'.kind = task.kind /\ task'.todo = task.todo
         /\ task'.left = Tail(task.left) /\ task'.left \in Seq(Ops)
         /\ \/ task'.stage = "package" /\ task'.left # <<>>
            \/ task'.stage = "snapshot"
<1>1. /\ Tail(task.left) \in Seq(Ops) /\ Len(task.left) \in Nat
      /\ Len(task.left) > 1 => Tail(task.left) # <<>>
  BY DEF Tasks
<1>2. {"package", "snapshot"} \subseteq Stages \ {"idle"}
  BY DEF Stages
<1> QED BY <1>1, <1>2 DEF NextOp, Tasks

\* The operation at hand.
LEMMA OpIs ==
  ASSUME task \in Tasks, task.left # <<>>
  PROVE  /\ Op \in Ops /\ Op = task.left[1] /\ 1 \in DOMAIN task.left
         /\ Op.plugin \in Plugin /\ Op.version \in 1..MaxVersion
         /\ Op.kind \in {"install", "update", "uninstall"}
<1>1. task.left \in Seq(Ops)
  BY DEF Tasks
<1>2. Op \in Ops /\ Op = task.left[1] /\ 1 \in DOMAIN task.left
  BY <1>1 DEF Op
<1> QED BY <1>2 DEF Ops

\* What is left of the queue was in it, and nothing of that plugin.
LEMMA UnparkedIs ==
  ASSUME queue \in Seq(Ops), NEW p
  PROVE  /\ Unparked(p) \in Seq(Ops)
         /\ Distinct(queue) =>
              /\ Distinct(Unparked(p))
              /\ \A i \in DOMAIN Unparked(p) : Unparked(p)[i].plugin # p
         /\ \A i \in DOMAIN Unparked(p) : \E j \in DOMAIN queue : Unparked(p)[i] = queue[j]
<1> DEFINE its == {i \in DOMAIN queue : queue[i].plugin = p}
<1>1. CASE its = {}
  BY <1>1 DEF Unparked
<1>2. CASE its # {}
  <2>1. PICK n \in Nat : n = Len(queue) /\ DOMAIN queue = 1..n
    OBVIOUS
  <2>2. PICK at \in 1..n : /\ queue[at].plugin = p
                          /\ Unparked(p) = [i \in 1..(n - 1) |-> queue[IF i < at THEN i ELSE i + 1]]
    BY <1>2, <2>1 DEF Unparked
  <2>3. PICK u : u = Unparked(p)
    OBVIOUS
  <2>4. \A i \in 1..(n - 1) : u[i] = queue[IF i < at THEN i ELSE i + 1] /\ u[i] \in Ops
    BY <2>1, <2>2, <2>3
  <2>5. DOMAIN u = 1..(n - 1) /\ u \in Seq(Ops)
    BY <2>2, <2>3, <2>4
  <2>6. \A i \in DOMAIN u : \E j \in DOMAIN queue : u[i] = queue[j]
    BY <2>1, <2>4, <2>5
  <2>7. ASSUME Distinct(queue), NEW i \in DOMAIN u PROVE u[i].plugin # p
    <3>1. PICK j \in 1..n : j # at /\ u[i] = queue[j]
      BY <2>4, <2>5
    <3> QED BY <2>1, <2>2, <2>7, <3>1 DEF Distinct
  <2>8. ASSUME Distinct(queue), NEW i \in DOMAIN u, NEW j \in DOMAIN u, u[i].plugin = u[j].plugin
        PROVE  i = j
    <3> DEFINE from(k) == IF k < at THEN k ELSE k + 1
    <3>1. from(i) \in 1..n /\ from(j) \in 1..n /\ u[i] = queue[from(i)] /\ u[j] = queue[from(j)]
      BY <2>4, <2>5
    <3>2. from(i) = from(j) => i = j
      BY <2>5
    <3> HIDE DEF from
    <3> QED BY <2>1, <2>8, <3>1, <3>2 DEF Distinct
  <2>9. Distinct(queue) => Distinct(u) /\ \A i \in DOMAIN u : u[i].plugin # p
    BY <2>7, <2>8 DEF Distinct
  <2> QED BY <2>3, <2>5, <2>6, <2>9
<1> QED BY <1>1, <1>2

----------------------------------------------------------------------------
(* Types *)

LEMMA BakedIs == Baked \in State /\ None \in [Plugin -> 0..MaxVersion]
BY PluginStateAssumption DEF Baked, State, None

LEMMA RecreatedIs ==
  ASSUME Recreated
  PROVE  /\ disk' \in [Service -> State] /\ cache' = [s \in Service |-> Cold]
         /\ runs' = [s \in Service |-> None] /\ safe' = FALSE
         /\ \A s \in Service : disk'[s] = Baked
BY BakedIs DEF Recreated

LEMMA ChangeIs ==
  ASSUME Typed
  PROVE  /\ Change => count' \in [parks : Nat, changes : Nat, mishaps : Nat]
                       /\ count'.mishaps = count.mishaps
         /\ Mishap => count' \in [parks : Nat, changes : Nat, mishaps : Nat]
                       /\ count'.mishaps = count.mishaps + 1
BY DEF Typed, Change, Mishap

LEMMA RegenerateIs ==
  ASSUME Typed, NEW enabled \in SUBSET Plugin, Regenerate(enabled)
  PROVE  /\ disk' \in [Service -> State]
         /\ \A s \in Follower : disk'[s] = disk[s]
         /\ disk'["backend"] = [disk["backend"] EXCEPT !.bundles = enabled, !.marker = TRUE]
         /\ disk'["backend"].bundles = enabled /\ disk'["backend"].marker = TRUE
         /\ disk'["backend"].vendor = disk["backend"].vendor
<1>1. disk \in [Service -> State] /\ "backend" \in Service
  BY ServicesAre DEF Typed
<1>2. disk' = [disk EXCEPT !["backend"] = [disk["backend"] EXCEPT !.bundles = enabled, !.marker = TRUE]]
  BY <1>1 DEF Regenerate
<1>3. [disk["backend"] EXCEPT !.bundles = enabled, !.marker = TRUE] \in State
  BY <1>1 DEF State
<1>4. /\ disk' \in [Service -> State] /\ \A s \in Follower : disk'[s] = disk[s]
      /\ disk'["backend"] = [disk["backend"] EXCEPT !.bundles = enabled, !.marker = TRUE]
  BY <1>1, <1>2, <1>3, ServicesAre
<1>5. disk["backend"] \in State
  BY <1>1
<1> QED BY <1>4, <1>5 DEF State

\* The snapshot of this core, if it is whole, holds a state of a service.
LEMMA SnapshotIs ==
  ASSUME Typed, snapshot.core = core, snapshot # Torn(core)
  PROVE  Archived /\ snapshot.image \in State
<1>1. snapshot # NoSnapshot
  BY DEF Typed, NoSnapshot
<1>2. Archived
  BY <1>1 DEF Typed
<1> QED BY <1>2 DEF Archived

LEMMA PluginsTypedInit == PluginsInit => Typed
<1> SUFFICES ASSUME PluginsInit PROVE Typed
  OBVIOUS
<1>1. rows \in [Plugin -> 0..MaxVersion] /\ disk \in [Service -> State]
  BY BakedIs DEF PluginsInit
<1>2. queue \in Seq(Ops)
  BY DEF PluginsInit
<1>3. cache = [s \in Service |-> Cold]
  BY DEF PluginsInit
<1>4. cache = [s \in Service |-> cache[s]] /\ \A s \in Service : cache[s] = Cold
  BY <1>3
<1>5. runs = [s \in Service |-> None]
  BY DEF PluginsInit
<1>6. runs = [s \in Service |-> runs[s]]
  BY <1>5
<1>7. on \subseteq {p \in Plugin : rows[p] > 0} /\ snapshot = NoSnapshot /\ core \in Nat /\ core > 0
  BY DEF PluginsInit
<1>8. safe \in BOOLEAN /\ inStep \in BOOLEAN /\ outcome \in {"none", "recovered", "safe"}
  BY DEF PluginsInit
<1>9. count \in [parks : Nat, changes : Nat, mishaps : Nat]
  BY DEF PluginsInit
<1> QED BY <1>1, <1>2, <1>4, <1>6, <1>7, <1>8, <1>9 DEF Typed

\* Rows, plugins enabled and queue stay.
LEMMA ParkTyped ==
  ASSUME Typed, NEW p \in Plugin, Park(p)
  PROVE  Typed'
<1>1. PICK kind \in {"install", "update", "uninstall"}, version \in 1..MaxVersion :
        queue' = Append(queue, [plugin |-> p, kind |-> kind, version |-> version])
  BY DEF Park
<1>2. [plugin |-> p, kind |-> kind, version |-> version] \in Ops
  BY DEF Ops
<1>3. queue' \in Seq(Ops)
  BY <1>1, <1>2 DEF Typed
<1>4. count' \in [parks : Nat, changes : Nat, mishaps : Nat]
  BY DEF Park, Typed
<1>5. UNCHANGED <<core, rows, on, disk, cache, runs, snapshot, safe, inStep, outcome>>
  BY DEF Park
<1> QED BY <1>3, <1>4, <1>5 DEF Typed, Archived

\* The services are all as the containers have them at first.
LEMMA RecreatedTyped ==
  ASSUME Typed, Recreated, UNCHANGED <<rows, on, snapshot>>, queue' \in Seq(Ops),
         core' \in Nat, core' > 0, inStep' \in BOOLEAN, outcome' \in {"none", "recovered", "safe"},
         count' \in [parks : Nat, changes : Nat, mishaps : Nat]
  PROVE  Typed'
<1>1. /\ disk' \in [Service -> State] /\ cache' = [s \in Service |-> Cold]
      /\ runs' = [s \in Service |-> None] /\ safe' = FALSE
  BY RecreatedIs
<1>2. cache' = [s \in Service |-> cache'[s]] /\ runs' = [s \in Service |-> runs'[s]]
        /\ \A s \in Service : cache'[s] = Cold
  BY <1>1
<1> QED BY <1>1, <1>2 DEF Typed, Archived

\* Only disks and what is loaded are changed.
LEMMA DiskTyped ==
  ASSUME Typed, disk' \in [Service -> State],
         UNCHANGED <<core, rows, on, cache, runs, snapshot, safe>>,
         queue' \in Seq(Ops), inStep' \in BOOLEAN, outcome' \in {"none", "recovered", "safe"},
         count' \in [parks : Nat, changes : Nat, mishaps : Nat]
  PROVE  Typed'
BY DEF Typed, Archived

LEMMA RowsTyped ==
  ASSUME Typed, disk' \in [Service -> State],
         UNCHANGED <<core, cache, runs, snapshot, safe, inStep, outcome>>,
         rows' \in [Plugin -> 0..MaxVersion], on' \subseteq {p \in Plugin : rows'[p] > 0},
         queue' \in Seq(Ops), count' \in [parks : Nat, changes : Nat, mishaps : Nat]
  PROVE  Typed'
BY DEF Typed, Archived

LEMMA TypedParts ==
  ASSUME Typed
  PROVE  /\ core \in Nat /\ core > 0 /\ queue \in Seq(Ops) /\ disk \in [Service -> State]
         /\ safe \in BOOLEAN /\ inStep \in BOOLEAN /\ outcome \in {"none", "recovered", "safe"}
         /\ count \in [parks : Nat, changes : Nat, mishaps : Nat]
BY DEF Typed

LEMMA BeginTyped ==
  ASSUME Typed, Engaged,
         Drain \/ Recreate \/ RecreateByHand \/ UpdateCore \/ Recover \/ SafeMode
  PROVE  Typed'
<1>1. CASE Drain
  BY <1>1 DEF Drain, Typed, Archived
<1>2. CASE Recreate
  <2>1. count' \in [parks : Nat, changes : Nat, mishaps : Nat]
    BY <1>2, ChangeIs DEF Recreate
  <2> QED BY <1>2, <2>1, TypedParts, RecreatedTyped DEF Recreate
<1>3. CASE RecreateByHand
  <2>1. count' \in [parks : Nat, changes : Nat, mishaps : Nat]
    BY <1>3, ChangeIs DEF RecreateByHand
  <2> QED BY <1>3, <2>1, TypedParts, RecreatedTyped DEF RecreateByHand
<1>4. CASE UpdateCore
  <2>1. count' \in [parks : Nat, changes : Nat, mishaps : Nat]
    BY <1>4, ChangeIs DEF UpdateCore
  <2>2. core' \in Nat /\ core' > 0 /\ inStep' \in BOOLEAN
    BY <1>4, TypedParts DEF UpdateCore
  <2> QED BY <1>4, <2>1, <2>2, TypedParts, RecreatedTyped DEF UpdateCore
<1>5. CASE Recover
  <2>1. count' \in [parks : Nat, changes : Nat, mishaps : Nat]
    BY <1>5, ChangeIs, TypedParts DEF Recover
  <2> QED BY <1>5, <2>1 DEF Recover, Typed, Archived
<1>6. CASE SafeMode
  <2>1. count' \in [parks : Nat, changes : Nat, mishaps : Nat]
    BY <1>6, ChangeIs DEF SafeMode
  <2> QED BY <1>6, <2>1 DEF SafeMode, Typed, Archived
<1> QED BY <1>1, <1>2, <1>3, <1>4, <1>5, <1>6

LEMMA RegainTyped ==
  ASSUME Typed, Engaged, Regain
  PROVE  Typed'
<1>1. disk' \in [Service -> State]
  <2>1. CASE UNCHANGED disk
    BY <2>1 DEF Typed
  <2>2. CASE snapshot.core = core /\ snapshot # Torn(core)
             /\ disk' = [disk EXCEPT !["backend"] = snapshot.image]
    BY <2>2, SnapshotIs DEF Typed
  <2> QED BY <2>1, <2>2 DEF Regain
<1> QED BY <1>1, TypedParts, DiskTyped DEF Regain

LEMMA PackageTyped ==
  ASSUME Typed, Engaged, Package
  PROVE  Typed'
<1>1. task \in Tasks /\ task.left # <<>>
  BY AtWork DEF Package, At, Engaged, Operating
<1>2. disk' \in [Service -> State]
  <2> DEFINE v == IF Op.kind = "uninstall" THEN 0 ELSE Op.version
  <2>1. Op.plugin \in Plugin /\ v \in 0..MaxVersion
    BY <1>1, OpIs, PluginStateAssumption
  <2> HIDE DEF v
  <2>2. CASE disk' = [disk EXCEPT !["backend"].vendor[Op.plugin] = v]
    <3> DEFINE new == [disk["backend"] EXCEPT !.vendor[Op.plugin] = v]
    <3>1. disk["backend"] \in State
      BY ServicesAre DEF Typed
    <3>2. new \in State
      BY <2>1, <3>1 DEF State
    <3>3. disk' = [disk EXCEPT !["backend"] = new]
      BY <2>2 DEF Typed
    <3> HIDE DEF new
    <3> QED BY <3>2, <3>3 DEF Typed
  <2>3. CASE UNCHANGED disk
    BY <2>3 DEF Typed
  <2> QED BY <2>2, <2>3 DEF Package, v
<1> QED BY <1>2, TypedParts, DiskTyped DEF Package

\* The rows after an operation.
LEMMA OperatedTyped ==
  ASSUME Typed, NEW p \in Plugin, NEW v \in 0..MaxVersion, rows' = [rows EXCEPT ![p] = v],
         v = 0 => p \notin on', on' \subseteq on \union {p}
  PROVE  rows' \in [Plugin -> 0..MaxVersion] /\ on' \subseteq {q \in Plugin : rows'[q] > 0}
<1>1. rows \in [Plugin -> 0..MaxVersion] /\ on \subseteq {q \in Plugin : rows[q] > 0}
  BY DEF Typed
<1>2. rows' \in [Plugin -> 0..MaxVersion]
  BY <1>1
<1>3. ASSUME NEW q \in on' PROVE q \in Plugin /\ rows'[q] > 0
  <2>1. CASE q = p
    BY <1>1, <1>3, <2>1, PluginStateAssumption
  <2>2. CASE q # p
    BY <1>1, <1>3, <2>2
  <2> QED BY <2>1, <2>2
<1> QED BY <1>2, <1>3

LEMMA FinalizeTyped ==
  ASSUME Typed, Engaged, Finalize
  PROVE  Typed'
<1>1. task \in Tasks /\ task.left # <<>>
  BY AtWork DEF Finalize, At, Engaged, Operating
<1>2. PICK p \in Plugin : p = Op.plugin
  BY <1>1, OpIs
<1>3. PICK v \in 0..MaxVersion : v = (IF Op.kind = "uninstall" THEN 0 ELSE Op.version)
  BY <1>1, OpIs, PluginStateAssumption
<1>4. /\ rows' = [rows EXCEPT ![p] = v]
      /\ on' = IF Op.kind = "uninstall" THEN on \ {p} ELSE on
      /\ Regenerate(on') /\ queue' = Unparked(p)
      /\ UNCHANGED <<core, cache, runs, snapshot, safe, inStep, outcome, count>>
  BY <1>2, <1>3 DEF Finalize
<1>5. v = 0 => p \notin on'
  <2>1. Op.kind = "uninstall" \/ v > 0
    BY <1>1, <1>3, OpIs
  <2> QED BY <1>3, <1>4, <2>1
<1>6. rows' \in [Plugin -> 0..MaxVersion] /\ on' \subseteq {q \in Plugin : rows'[q] > 0}
  BY <1>4, <1>5, OperatedTyped
<1>7. disk' \in [Service -> State]
  BY <1>4, <1>6, RegenerateIs
<1>8. queue' \in Seq(Ops)
  BY <1>4, UnparkedIs DEF Typed
<1> QED BY <1>4, <1>6, <1>7, <1>8, RowsTyped, TypedParts

LEMMA FinalizeAgainTyped ==
  ASSUME Typed, Engaged, FinalizeAgain
  PROVE  Typed'
<1>1. disk' \in [Service -> State]
  BY RegenerateIs DEF FinalizeAgain, Typed
<1>2. queue' \in Seq(Ops)
  BY UnparkedIs DEF FinalizeAgain, Typed
<1> QED BY <1>1, <1>2, TypedParts, DiskTyped DEF FinalizeAgain

LEMMA EnableTyped ==
  ASSUME Typed, Engaged, Enable
  PROVE  Typed'
<1>1. task \in Tasks /\ task.left # <<>> /\ rows[Op.plugin] > 0
  BY AtWork DEF Enable, At, Engaged, Operating
<1>2. PICK p \in Plugin : p = Op.plugin
  BY <1>1, OpIs
<1>3. rows' = rows /\ on' = on \union {p} /\ on' \subseteq {q \in Plugin : rows[q] > 0}
  BY <1>1, <1>2 DEF Enable, Typed
<1>4. disk' \in [Service -> State]
  BY <1>3, RegenerateIs DEF Enable
<1> QED BY <1>3, <1>4, TypedParts, RowsTyped DEF Enable, Typed

\* An installation half done leaves a row.
LEMMA HalfWrittenIs ==
  ASSUME Typed, Engaged, HalfWritten
  PROVE  /\ rows' \in [Plugin -> 0..MaxVersion] /\ on \subseteq {q \in Plugin : rows'[q] > 0}
         /\ \A q \in Plugin : rows[q] > 0 => rows'[q] > 0
<1>1. task \in Tasks /\ task.left # <<>>
  BY AtWork DEF HalfWritten, At, Engaged, Operating
<1>2. PICK p \in Plugin, v \in 1..MaxVersion : rows' = [rows EXCEPT ![p] = v]
  BY <1>1, OpIs DEF HalfWritten
<1>3. v \in 0..MaxVersion /\ v > 0
  BY PluginStateAssumption
<1> QED BY <1>2, <1>3 DEF Typed

LEMMA OpFailsTyped ==
  ASSUME Typed, Engaged, OpFails
  PROVE  Typed'
<1>1. rows' \in [Plugin -> 0..MaxVersion] /\ on \subseteq {q \in Plugin : rows'[q] > 0}
  BY HalfWrittenIs DEF OpFails, Typed
<1>2. count' \in [parks : Nat, changes : Nat, mishaps : Nat]
  BY ChangeIs, TypedParts DEF OpFails
<1>3. UNCHANGED <<core, on, queue, disk, cache, runs, snapshot, safe, inStep, outcome>>
  BY DEF OpFails
<1> QED BY <1>1, <1>2, <1>3, TypedParts, RowsTyped

LEMMA CancelTyped ==
  ASSUME Typed, Engaged, Cancel
  PROVE  Typed'
<1>1. queue' \in Seq(Ops)
  BY UnparkedIs DEF Cancel, Typed
<1>2. count' \in [parks : Nat, changes : Nat, mishaps : Nat]
  BY ChangeIs, TypedParts DEF Cancel
<1> QED BY <1>1, <1>2, TypedParts, DiskTyped DEF Cancel

LEMMA RequireTyped ==
  ASSUME Typed, Require
  PROVE  Typed'
<1> DEFINE new == [disk["backend"] EXCEPT !.vendor = rows]
<1>1. disk["backend"] \in State /\ rows \in [Plugin -> 0..MaxVersion]
  BY ServicesAre DEF Typed
<1>2. new \in State
  BY <1>1 DEF State
<1>3. disk' = [disk EXCEPT !["backend"] = new]
  BY DEF Require, Typed
<1> HIDE DEF new
<1>4. disk' \in [Service -> State]
  BY <1>2, <1>3 DEF Typed
<1> QED BY <1>4, TypedParts, DiskTyped DEF Require

LEMMA RepairTyped ==
  ASSUME Typed, Repair
  PROVE  Typed'
<1>1. disk' \in [Service -> State]
  BY RegenerateIs DEF Repair, Typed
<1>2. count' \in [parks : Nat, changes : Nat, mishaps : Nat]
  BY ChangeIs, TypedParts DEF Repair
<1>3. inStep' \in BOOLEAN /\ outcome' \in {"none", "recovered", "safe"}
  BY TypedParts DEF Repair
<1> QED BY <1>1, <1>2, <1>3, TypedParts, DiskTyped DEF Repair

LEMMA ArchiveTyped ==
  ASSUME Typed, Archive
  PROVE  Typed'
<1>1. disk["backend"] \in State /\ core \in Nat
  BY ServicesAre DEF Typed
<1>2. Archived'
  BY <1>1 DEF Archive, Archived
<1>3. UNCHANGED <<core, rows, on, queue, disk, cache, runs, safe, inStep, outcome, count>>
  BY DEF Archive
<1> QED BY <1>2, <1>3 DEF Typed

LEMMA SyncTyped ==
  ASSUME Typed, NEW s \in Follower, Sync(s), snapshot.core = core
  PROVE  Typed'
<1>1. snapshot.image \in State
  BY SnapshotIs DEF Sync
<1>2. disk' \in [Service -> State]
  BY <1>1 DEF Sync, Typed
<1> QED BY <1>2, TypedParts, DiskTyped DEF Sync

LEMMA RemountTyped ==
  ASSUME Typed, Remount
  PROVE  Typed'
<1>1. disk' \in [Service -> State]
  <2>1. CASE UNCHANGED disk
    BY <2>1 DEF Typed
  <2>2. CASE snapshot.core = core /\ snapshot # Torn(core) /\ disk' = [s \in Service |-> snapshot.image]
    BY <2>2, SnapshotIs
  <2> QED BY <2>1, <2>2 DEF Remount
<1>2. inStep' \in BOOLEAN
  BY TypedParts DEF Remount
<1> QED BY <1>1, <1>2, TypedParts, DiskTyped DEF Remount

LEMMA CompiledIs ==
  ASSUME Typed, NEW s \in Service
  PROVE  Compiled(s) \subseteq Plugin
<1>1. disk[s].bundles \subseteq Plugin
  BY DEF Typed, State
<1> QED BY <1>1 DEF Compiled

LEMMA RebuildTyped ==
  ASSUME Typed, RebuildCaches
  PROVE  Typed'
<1>1. PICK warm \in SUBSET {s \in Service : Compiles(s)} :
        cache' = [s \in Service |-> IF s \in warm THEN Compiled(s) ELSE Cold]
  BY DEF RebuildCaches
<1>2. cache' = [s \in Service |-> cache'[s]]
  BY <1>1
<1>3. \A s \in Service : cache'[s] = Cold \/ cache'[s] \subseteq Plugin
  BY <1>1, CompiledIs
<1>4. UNCHANGED <<core, rows, on, queue, disk, runs, snapshot, safe, inStep, outcome, count>>
  BY DEF RebuildCaches
<1> QED BY <1>2, <1>3, <1>4 DEF Typed, Archived

LEMMA RestartTyped ==
  ASSUME Typed, Restart
  PROVE  Typed'
<1>1. /\ runs' = [s \in Service |-> Booted(s)]
      /\ cache' = [s \in Service |->
                     IF cache[s] = Cold /\ Compiles(s) THEN Compiled(s) ELSE cache[s]]
  BY DEF Restart
<1>2. cache' = [s \in Service |-> cache'[s]] /\ runs' = [s \in Service |-> runs'[s]]
  BY <1>1
<1>3. \A s \in Service : cache'[s] = Cold \/ cache'[s] \subseteq Plugin
  BY <1>1, CompiledIs DEF Typed
<1>4. UNCHANGED <<core, rows, on, queue, disk, snapshot, safe, outcome, count>> /\ inStep' = TRUE
  BY DEF Restart
<1> QED BY <1>2, <1>3, <1>4 DEF Typed, Archived

LEMMA RecoveryTyped ==
  ASSUME Typed, SafeOn \/ SafeOff \/ Probe
  PROVE  Typed'
<1>1. runs' = [s \in Service |-> runs'[s]]
  BY DEF Typed, SafeOn, SafeOff, Probe
<1>2. safe' \in BOOLEAN /\ inStep' \in BOOLEAN /\ outcome' \in {"none", "recovered", "safe"}
  BY TypedParts DEF SafeOn, SafeOff, Probe
<1>3. UNCHANGED <<core, rows, on, queue, disk, cache, snapshot, count>>
  BY DEF SafeOn, SafeOff, Probe
<1> QED BY <1>1, <1>2, <1>3 DEF Typed, Archived

LEMMA ThrowTyped ==
  ASSUME Typed, Engaged, Throw
  PROVE  Typed'
<1>1. count' \in [parks : Nat, changes : Nat, mishaps : Nat]
  BY ChangeIs, TypedParts DEF Throw
<1>2. snapshot' = NoSnapshot \/ snapshot' = Torn(snapshot'.core) \/ Archived'
  <2>1. Torn(core).core = core
    BY DEF Torn
  <2> QED BY <2>1 DEF Throw, Typed, Archived
<1>3. UNCHANGED <<rows, on, queue, outcome>> /\ inStep' = FALSE
  BY DEF Throw
<1>4. CASE task.kind = "reinstall"
  <2>1. core' \in Nat /\ core' > 0 /\ Recreated
    BY <1>4 DEF Throw, Engaged, Typed
  <2>2. /\ disk' \in [Service -> State] /\ cache' = [s \in Service |-> Cold]
        /\ runs' = [s \in Service |-> None] /\ safe' = FALSE
    BY <2>1, RecreatedIs
  <2>3. cache' = [s \in Service |-> cache'[s]] /\ runs' = [s \in Service |-> runs'[s]]
          /\ \A s \in Service : cache'[s] = Cold
    BY <2>2
  <2> QED BY <1>1, <1>2, <1>3, <2>1, <2>2, <2>3 DEF Typed
<1>5. CASE task.kind # "reinstall"
  <2>1. UNCHANGED <<core, disk, cache, runs, safe>>
    BY <1>5 DEF Throw
  <2> QED BY <1>1, <1>2, <1>3, <2>1 DEF Typed
<1> QED BY <1>4, <1>5

LEMMA CrashTyped ==
  ASSUME Typed, Engaged, ManagerDies
  PROVE  Typed'
<1>1. rows' \in [Plugin -> 0..MaxVersion] /\ on \subseteq {q \in Plugin : rows'[q] > 0}
  BY HalfWrittenIs DEF ManagerDies, Typed
<1>2. count' \in [parks : Nat, changes : Nat, mishaps : Nat]
  BY ChangeIs DEF ManagerDies
<1>3. UNCHANGED <<core, on, queue, disk, cache, runs, snapshot, safe, outcome>> /\ inStep' = FALSE
  BY DEF ManagerDies
<1> QED BY <1>1, <1>2, <1>3 DEF Typed, Archived

LEMMA PluginsTypedNext ==
  ASSUME Typed, Engaged, task.stage = "sync" => snapshot.core = core, [PluginsNext]_pluginsVars
  PROVE  Typed'
<1>1. ASSUME NEW s \in Follower, Sync(s) PROVE Typed'
  BY <1>1, SyncTyped DEF Sync, At
<1>2. ASSUME NEW p \in Plugin, Park(p) PROVE Typed'
  BY <1>2, ParkTyped
<1>3. CASE Proceed
  <2>1. CASE Regain \/ Package \/ Finalize \/ FinalizeAgain \/ Enable
    BY <2>1, RegainTyped, PackageTyped, FinalizeTyped, FinalizeAgainTyped, EnableTyped
  <2>2. CASE OpFails \/ Cancel \/ Require \/ Repair \/ Archive
    BY <2>2, OpFailsTyped, CancelTyped, RequireTyped, RepairTyped, ArchiveTyped
  <2>3. CASE Remount \/ RebuildCaches \/ Restart \/ SafeOn \/ SafeOff \/ Probe
    BY <2>3, RemountTyped, RebuildTyped, RestartTyped, RecoveryTyped
  <2> QED BY <1>1, <1>3, <2>1, <2>2, <2>3 DEF Proceed
<1>4. CASE UNCHANGED pluginsVars
  BY <1>4 DEF pluginsVars, Typed, Archived
<1> QED BY <1>1, <1>2, <1>3, <1>4, BeginTyped, ThrowTyped, CrashTyped DEF PluginsNext

----------------------------------------------------------------------------
(* Where each action leads *)

\* The tasks that pass a stage.
LEMMA KindsAre ==
  ASSUME Engaged, task # NoTask
  PROVE  /\ task.stage \in Draining => task.kind \in {"drain", "recover"}
         /\ task.stage = "require" => task.kind = "reinstall"
         /\ task.stage = "repair" => task.kind \in {"reinstall", "recover"}
         /\ task.stage \in {"snapshot", "sync"} => task.kind \in {"drain", "reinstall", "recover"}
         /\ task.stage \in {"remount", "rebuild"} => task.kind = "remount"
         /\ task.stage \in {"safe-on", "safe-off", "probe"} => task.kind = "recover"
BY DEF Engaged, Path, Tasks, Draining, Operating, Spreading

\* It turns to the next operation, or to the snapshot.
Advances ==
  /\ task' \in Tasks /\ task'.kind = task.kind /\ task'.todo = task.todo
  /\ task'.left = Tail(task.left) /\ task'.left \in Seq(Ops)
  /\ (task'.stage = "package" /\ task'.left # <<>>) \/ task'.stage = "snapshot"

LEMMA AdvanceIs ==
  ASSUME task \in Tasks, task.left # <<>>, NextOp
  PROVE  Advances
BY NextOpIs DEF Advances

LEMMA RegainMoves ==
  ASSUME Engaged, Regain
  PROVE  /\ task \in Tasks /\ task.stage = "regain" /\ task.kind \in {"drain", "recover"}
         /\ \/ task.left # <<>> /\ Moves("package")
            \/ task.left = <<>> /\ task.kind = "recover" /\ Moves("repair")
            \/ task.left = <<>> /\ task.kind = "drain" /\ task' = NoTask
<1>1. task \in Tasks /\ task.stage = "regain" /\ task.kind \in {"drain", "recover"}
  BY AtWork, KindsAre DEF Regain, At, Draining
<1>2. "package" \in Stages \ {"idle"}
  BY DEF Stages
<1>3. CASE task.left = <<>>
  BY <1>1, <1>3, DrainedIs DEF Regain
<1>4. CASE task.left # <<>>
  BY <1>1, <1>2, <1>4, GotoIs DEF Regain, Drained
<1> QED BY <1>1, <1>3, <1>4

LEMMA OperatingIs ==
  ASSUME Engaged, task.stage \in Operating
  PROVE  /\ task \in Tasks /\ task.kind \in {"drain", "recover"} /\ task.left # <<>>
         /\ Op.plugin \in Plugin /\ Op.version \in 1..MaxVersion
         /\ Op.kind \in {"install", "update", "uninstall"}
<1>1. task \in Tasks /\ task.kind \in {"drain", "recover"}
  BY AtWork, KindsAre DEF Draining, Operating
<1>2. task.left # <<>>
  BY DEF Engaged
<1> QED BY <1>1, <1>2, OpIs

LEMMA PackageMoves ==
  ASSUME Engaged, Package
  PROVE  task.stage = "package" /\ Moves("finalize")
<1>1. "finalize" \in Stages \ {"idle"} /\ task.stage = "package" /\ task.stage \in Operating
  BY DEF Stages, Package, At, Operating
<1> QED BY <1>1, OperatingIs, GotoIs DEF Package

LEMMA FinalizeMoves ==
  ASSUME Engaged, Finalize
  PROVE  /\ task.stage = "finalize"
         /\ (Op.kind = "install" /\ Moves("enable")) \/ (Op.kind # "install" /\ Advances)
<1>1. "enable" \in Stages \ {"idle"} /\ task.stage = "finalize" /\ task.stage \in Operating
  BY DEF Stages, Finalize, At, Operating
<1> QED BY <1>1, OperatingIs, GotoIs, AdvanceIs DEF Finalize

LEMMA FinalizeAgainMoves ==
  ASSUME Engaged, FinalizeAgain
  PROVE  task.stage = "finalize" /\ Moves("enable") /\ rows[Op.plugin] > 0 /\ Op.kind = "install"
<1>1. "enable" \in Stages \ {"idle"} /\ task.stage = "finalize" /\ task.stage \in Operating
  BY DEF Stages, FinalizeAgain, At, Operating
<1> QED BY <1>1, OperatingIs, GotoIs DEF FinalizeAgain

LEMMA EnableMoves ==
  ASSUME Engaged, Enable
  PROVE  task.stage = "enable" /\ rows[Op.plugin] > 0 /\ Advances
<1>1. task.stage = "enable" /\ task.stage \in Operating
  BY DEF Enable, At, Operating
<1> QED BY <1>1, OperatingIs, AdvanceIs DEF Enable, Engaged

LEMMA OpFailsMoves ==
  ASSUME Engaged, OpFails
  PROVE  task.stage \in {"package", "finalize", "enable"} /\ Moves("cancel")
<1>1. /\ "cancel" \in Stages \ {"idle"} /\ task.stage \in Operating
      /\ task.stage \in {"package", "finalize", "enable"}
  BY DEF Stages, OpFails, Operating
<1> QED BY <1>1, OperatingIs, GotoIs DEF OpFails

LEMMA CancelMoves ==
  ASSUME Engaged, Cancel
  PROVE  /\ task.stage = "cancel"
         /\ \/ Moves("snapshot")
            \/ task.kind = "recover" /\ Moves("repair")
            \/ task.kind # "recover" /\ task' = NoTask
<1>1. "snapshot" \in Stages \ {"idle"} /\ task.stage = "cancel" /\ task.stage \in Operating
  BY DEF Stages, Cancel, At, Operating
<1>2. CASE task.done
  BY <1>1, <1>2, OperatingIs, GotoIs DEF Cancel, Drained
<1>3. CASE ~task.done
  BY <1>1, <1>3, OperatingIs, DrainedIs DEF Cancel
<1> QED BY <1>1, <1>2, <1>3

LEMMA RequireMoves ==
  ASSUME Engaged, Require
  PROVE  task.stage = "require" /\ task.kind = "reinstall" /\ Moves("repair")
<1>1. "repair" \in Stages \ {"idle"} /\ task.stage = "require" /\ task \in Tasks
  BY AtWork DEF Stages, Require, At
<1> QED BY <1>1, IdleIs, KindsAre, GotoIs DEF Require

LEMMA RepairMoves ==
  ASSUME Engaged, Repair
  PROVE  /\ task.stage = "repair" /\ task.kind \in {"reinstall", "recover"}
         /\ \/ task.kind = "reinstall" /\ Moves("snapshot") /\ UNCHANGED <<inStep, outcome>>
            \/ task.kind = "recover" /\ Moves("safe-off") /\ UNCHANGED <<inStep, outcome>>
            \/ task.kind = "recover" /\ task' = NoTask /\ inStep' = FALSE /\ outcome' = "safe"
<1>1. {"snapshot", "safe-off"} \subseteq Stages \ {"idle"} /\ task.stage = "repair" /\ task \in Tasks
  BY AtWork DEF Stages, Repair, At
<1> QED BY <1>1, IdleIs, KindsAre, GotoIs DEF Repair

LEMMA ArchiveMoves ==
  ASSUME Engaged, Archive
  PROVE  task.stage = "snapshot" /\ task \in Tasks /\ Moves("sync")
<1>1. "sync" \in Stages \ {"idle"} /\ task.stage = "snapshot" /\ task \in Tasks
  BY AtWork DEF Stages, Archive, At
<1> QED BY <1>1, GotoIs DEF Archive

LEMMA SyncMoves ==
  ASSUME Engaged, NEW s \in Follower, Sync(s)
  PROVE  /\ task.stage = "sync" /\ task \in Tasks /\ task' \in Tasks /\ task'.stage = "sync"
         /\ task'.kind = task.kind /\ task'.left = task.left /\ task'.todo = task.todo \ {s}
<1>1. task.stage = "sync" /\ task \in Tasks
  BY AtWork DEF Sync, At
<1> QED BY <1>1 DEF Sync, Tasks

LEMMA RemountMoves ==
  ASSUME Engaged, Remount
  PROVE  /\ task.stage = "remount" /\ task.kind = "remount" /\ task \in Tasks
         /\ \/ task' = NoTask /\ inStep' = (rows = None) /\ UNCHANGED disk
            \/ /\ Moves("rebuild") /\ UNCHANGED inStep
               /\ snapshot.core = core /\ snapshot # Torn(core) /\ ~disk["backend"].marker
               /\ disk' = [s \in Service |-> snapshot.image]
<1>1. "rebuild" \in Stages \ {"idle"} /\ task.stage = "remount" /\ task \in Tasks
  BY AtWork DEF Stages, Remount, At
<1>2. task.kind = "remount"
  BY <1>1, IdleIs, KindsAre
<1>3. CASE disk["backend"].marker \/ snapshot.core # core \/ snapshot = Torn(core)
  BY <1>1, <1>2, <1>3 DEF Remount
<1>4. CASE ~(disk["backend"].marker \/ snapshot.core # core \/ snapshot = Torn(core))
  BY <1>1, <1>2, <1>4, GotoIs DEF Remount
<1> QED BY <1>3, <1>4

LEMMA RebuildMoves ==
  ASSUME Engaged, RebuildCaches
  PROVE  /\ task.stage = "rebuild" \/ (task.stage = "sync" /\ task.todo = {})
         /\ task \in Tasks /\ Moves("restart")
<1>1. /\ "restart" \in Stages \ {"idle"} /\ task \in Tasks
      /\ task.stage = "rebuild" \/ (task.stage = "sync" /\ task.todo = {})
  BY AtWork DEF Stages, RebuildCaches, At
<1> QED BY <1>1, GotoIs DEF RebuildCaches

LEMMA RestartMoves ==
  ASSUME Engaged, Restart
  PROVE  /\ task.stage = "restart" /\ task \in Tasks
         /\ \/ task.kind = "recover" /\ Moves("repair")
            \/ task.kind # "recover" /\ task' = NoTask
<1>1. task.stage = "restart" /\ task \in Tasks
  BY AtWork DEF Restart, At
<1> QED BY <1>1, DrainedIs DEF Restart

LEMMA SafeOnMoves ==
  ASSUME Typed, Engaged, SafeOn
  PROVE  /\ task.stage = "safe-on" /\ task.kind = "recover" /\ task \in Tasks
         /\ task' \in Tasks /\ task'.stage = "regain" /\ task'.kind = "recover"
         /\ task'.left = queue /\ task'.todo = task.todo
<1>1. "regain" \in Stages \ {"idle"} /\ task.stage = "safe-on" /\ task \in Tasks
  BY AtWork DEF Stages, SafeOn, At
<1>2. task.kind = "recover" /\ queue \in Seq(Ops)
  BY <1>1, IdleIs, KindsAre DEF Typed
<1> QED BY <1>1, <1>2 DEF SafeOn, Tasks

LEMMA SafeOffMoves ==
  ASSUME Engaged, SafeOff
  PROVE  task.stage = "safe-off" /\ task.kind = "recover" /\ task \in Tasks /\ Moves("probe")
<1>1. "probe" \in Stages \ {"idle"} /\ task.stage = "safe-off" /\ task \in Tasks
  BY AtWork DEF Stages, SafeOff, At
<1> QED BY <1>1, IdleIs, KindsAre, GotoIs DEF SafeOff

LEMMA ProbeMoves ==
  ASSUME Engaged, Probe
  PROVE  task.stage = "probe" /\ task.kind = "recover" /\ task \in Tasks /\ task' = NoTask
<1>1. task.stage = "probe" /\ task \in Tasks
  BY AtWork DEF Probe, At
<1> QED BY <1>1, IdleIs, KindsAre DEF Probe

\* A task begins.
Begins(kind, stage) ==
  /\ task = NoTask /\ task' \in Tasks /\ task'.kind = kind /\ task'.stage = stage
  /\ task'.todo = Follower

\* A task without operations.
LEMMA BareTaskIs ==
  ASSUME NEW kind \in {"remount", "reinstall", "recover"}, NEW stage \in Stages \ {"idle"}
  PROVE  LET t == Task(kind, stage, <<>>)
         IN  t \in Tasks /\ t.kind = kind /\ t.stage = stage /\ t.todo = Follower
<1>1. <<>> \in Seq(Ops)
  OBVIOUS
<1> QED BY <1>1 DEF Task, Tasks

LEMMA DrainBegins == ASSUME Typed, Drain PROVE Begins("drain", "regain") /\ task'.left = queue
<1>1. "regain" \in Stages \ {"idle"} /\ queue \in Seq(Ops)
  BY DEF Typed, Stages
<1> QED BY <1>1, TaskIs DEF Drain, Begins

LEMMA RecreateBegins == ASSUME Recreate PROVE Begins("remount", "remount")
<1>1. "remount" \in Stages \ {"idle"}
  BY DEF Stages
<1>2. task = NoTask /\ task' = Task("remount", "remount", <<>>)
  BY DEF Recreate
<1> QED BY <1>1, <1>2, BareTaskIs DEF Begins

LEMMA UpdateBegins ==
  ASSUME UpdateCore
  PROVE  /\ core' = core + 1 /\ task = NoTask
         /\ (rows = None /\ task' = NoTask) \/ (rows # None /\ Begins("reinstall", "require"))
<1>1. "require" \in Stages \ {"idle"}
  BY DEF Stages
<1>2. /\ task = NoTask /\ core' = core + 1
      /\ task' = IF rows = None THEN NoTask ELSE Task("reinstall", "require", <<>>)
  BY DEF UpdateCore
<1> QED BY <1>1, <1>2, BareTaskIs DEF Begins

LEMMA RecoverBegins == ASSUME Recover PROVE Begins("recover", "safe-on")
<1> DEFINE t == Task("recover", "safe-on", <<>>)
<1>1. "safe-on" \in Stages \ {"idle"}
  BY DEF Stages
<1>2. t \in Tasks /\ t.kind = "recover" /\ t.stage = "safe-on" /\ t.todo = Follower
  BY <1>1, BareTaskIs
<1>3. PICK keep \in BOOLEAN : task' = [t EXCEPT !.keep = keep]
  BY DEF Recover
<1> HIDE DEF t
<1>4. task = NoTask
  BY DEF Recover
<1> QED BY <1>2, <1>3, <1>4 DEF Begins, Tasks

----------------------------------------------------------------------------
(* The manager is always somewhere on the path of its task *)

LEMMA IdleEngaged == ASSUME task' = NoTask PROVE Engaged'
BY DEF Engaged, NoTask, Operating

LEMMA BegunEngaged ==
  ASSUME NEW kind, NEW stage, Begins(kind, stage), stage \in Path(kind) \ Operating,
         kind = "reinstall" => core' > 1
  PROVE  Engaged'
BY DEF Begins, Engaged, Operating

LEMMA MovedEngaged ==
  ASSUME Engaged, task \in Tasks, NEW stage, Moves(stage), stage \in Path(task.kind),
         stage \in Operating => task.left # <<>>,
         stage = "enable" => rows'[Op.plugin] > 0, UNCHANGED core
  PROVE  Engaged'
<1>1. Op' = Op
  BY DEF Moves, Op
<1>2. task.kind = "reinstall" => core > 1
  BY IdleIs DEF Engaged
<1> QED BY <1>1, <1>2 DEF Moves, Engaged

LEMMA AdvancedEngaged ==
  ASSUME Engaged, task.kind \in {"drain", "recover"}, Advances
  PROVE  Engaged'
<1>1. {"package", "snapshot"} \subseteq Path(task.kind)
  BY DEF Path, Draining, Operating, Spreading
<1> QED BY <1>1 DEF Advances, Engaged, Operating

LEMMA PathsAre ==
  /\ \A kind \in {"drain", "recover"} : Draining \union Spreading \subseteq Path(kind)
  /\ Spreading \union {"require", "repair"} \subseteq Path("reinstall")
  /\ Path("remount") = {"remount", "rebuild", "restart"}
  /\ {"safe-on", "repair", "safe-off", "probe"} \subseteq Path("recover")
BY DEF Path, Draining, Operating, Spreading

LEMMA StagesApart ==
  /\ Operating = {"package", "finalize", "enable", "cancel"}
  /\ Draining = {"package", "finalize", "enable", "cancel", "regain"}
  /\ Spreading = {"snapshot", "sync", "restart"}
BY DEF Draining, Operating, Spreading

LEMMA EngagedInit == PluginsInit => Engaged
BY DEF PluginsInit, Engaged, NoTask, Operating

LEMMA BeginEngaged ==
  ASSUME Typed, Engaged,
         Drain \/ Recreate \/ RecreateByHand \/ UpdateCore \/ Recover \/ SafeMode
  PROVE  Engaged'
<1>1. CASE Drain
  BY <1>1, DrainBegins, BegunEngaged, PathsAre, StagesApart
<1>2. CASE Recreate
  BY <1>2, RecreateBegins, BegunEngaged, PathsAre, StagesApart
<1>3. CASE RecreateByHand \/ SafeMode
  BY <1>3, IdleEngaged DEF RecreateByHand, SafeMode
<1>4. CASE UpdateCore
  <2>1. core' > 1
    BY <1>4, TypedParts, UpdateBegins
  <2> QED BY <1>4, <2>1, UpdateBegins, IdleEngaged, BegunEngaged, PathsAre, StagesApart
<1>5. CASE Recover
  BY <1>5, RecoverBegins, BegunEngaged, PathsAre, StagesApart
<1> QED BY <1>1, <1>2, <1>3, <1>4, <1>5

LEMMA DrainEngaged ==
  ASSUME Typed, Engaged, Regain \/ Package \/ Finalize \/ FinalizeAgain \/ Enable \/ OpFails \/ Cancel
  PROVE  Engaged'
<1>1. UNCHANGED core
  BY DEF Regain, Package, Finalize, FinalizeAgain, Enable, OpFails, Cancel
<1>2. CASE Regain
  BY <1>1, <1>2, RegainMoves, MovedEngaged, IdleEngaged, PathsAre, StagesApart
<1>3. CASE task.stage \in Operating
  <2>1. task \in Tasks /\ task.kind \in {"drain", "recover"} /\ task.left # <<>>
    BY <1>3, OperatingIs
  <2>2. CASE Package
    BY <1>1, <2>1, <2>2, PackageMoves, MovedEngaged, PathsAre, StagesApart
  <2>3. CASE Finalize
    <3>1. CASE Op.kind = "install" /\ Moves("enable")
      <4>1. rows'[Op.plugin] > 0
        <5>1. rows' = [rows EXCEPT ![Op.plugin] = Op.version]
          BY <2>3, <3>1 DEF Finalize
        <5> QED BY <1>3, <5>1, OperatingIs DEF Typed
      <4> QED BY <1>1, <2>1, <3>1, <4>1, MovedEngaged, PathsAre, StagesApart
    <3>2. CASE Advances
      BY <2>1, <3>2, AdvancedEngaged
    <3> QED BY <2>3, <3>1, <3>2, FinalizeMoves
  <2>4. CASE FinalizeAgain
    <3>1. UNCHANGED rows
      BY <2>4 DEF FinalizeAgain
    <3> QED BY <1>1, <2>1, <2>4, <3>1, FinalizeAgainMoves, MovedEngaged, PathsAre, StagesApart
  <2>5. CASE Enable
    BY <2>1, <2>5, EnableMoves, AdvancedEngaged
  <2>6. CASE OpFails
    BY <1>1, <2>1, <2>6, OpFailsMoves, MovedEngaged, PathsAre, StagesApart
  <2>7. CASE Cancel
    BY <1>1, <2>1, <2>7, CancelMoves, MovedEngaged, IdleEngaged, PathsAre, StagesApart
  <2> QED BY <1>2, <2>2, <2>3, <2>4, <2>5, <2>6, <2>7
<1> QED
  BY <1>2, <1>3, StagesApart DEF Package, Finalize, FinalizeAgain, Enable, OpFails, Cancel, At

LEMMA SpreadEngaged ==
  ASSUME Typed, Engaged,
         \/ Require \/ Repair \/ Archive \/ (\E s \in Follower : Sync(s))
         \/ Remount \/ RebuildCaches \/ Restart
  PROVE  Engaged'
<1>1. UNCHANGED core
  BY DEF Require, Repair, Archive, Sync, Remount, RebuildCaches, Restart
<1>2. task \in Tasks /\ task.kind \in {"drain", "remount", "reinstall", "recover"}
  BY AtWork DEF Tasks, Require, Repair, Archive, Sync, Remount, RebuildCaches, Restart, At
<1>3. CASE Require
  BY <1>1, <1>2, <1>3, RequireMoves, MovedEngaged, PathsAre, StagesApart
<1>4. CASE Repair
  BY <1>1, <1>2, <1>4, RepairMoves, MovedEngaged, IdleEngaged, PathsAre, StagesApart
<1>5. CASE Archive
  <2>1. "sync" \in Path(task.kind)
    BY <1>2, <1>5, ArchiveMoves, IdleIs, KindsAre, PathsAre, StagesApart
  <2> QED BY <1>1, <1>2, <1>5, <2>1, ArchiveMoves, MovedEngaged, StagesApart
<1>6. ASSUME NEW s \in Follower, Sync(s) PROVE Engaged'
  <2>1. task.stage \in Path(task.kind) /\ (task.kind = "reinstall" => core > 1)
    BY <1>6, SyncMoves, AtWork DEF Engaged
  <2> QED BY <1>1, <1>6, <2>1, SyncMoves DEF Engaged, Operating
<1>7. CASE Remount
  BY <1>1, <1>2, <1>7, RemountMoves, MovedEngaged, IdleEngaged, PathsAre, StagesApart
<1>8. CASE RebuildCaches
  <2>1. "restart" \in Path(task.kind)
    BY <1>2, PathsAre, StagesApart
  <2> QED BY <1>1, <1>2, <1>8, <2>1, RebuildMoves, MovedEngaged, StagesApart
<1>9. CASE Restart
  BY <1>1, <1>2, <1>9, RestartMoves, MovedEngaged, IdleEngaged, PathsAre, StagesApart
<1> QED BY <1>3, <1>4, <1>5, <1>6, <1>7, <1>8, <1>9

LEMMA RecoveryEngaged ==
  ASSUME Typed, Engaged, SafeOn \/ SafeOff \/ Probe
  PROVE  Engaged'
<1>1. UNCHANGED core
  BY DEF SafeOn, SafeOff, Probe
<1>2. CASE SafeOn
  <2>1. "regain" \in Path("recover") /\ "regain" \notin Operating
    BY PathsAre, StagesApart
  <2>2. task' \in Tasks /\ task'.stage = "regain" /\ task'.kind = "recover"
    BY <1>2, SafeOnMoves
  <2> QED BY <2>1, <2>2 DEF Engaged
<1>3. CASE SafeOff
  BY <1>1, <1>3, SafeOffMoves, MovedEngaged, PathsAre, StagesApart
<1>4. CASE Probe
  BY <1>4, ProbeMoves, IdleEngaged
<1> QED BY <1>2, <1>3, <1>4

LEMMA EngagedNext == ASSUME Typed, Engaged, [PluginsNext]_pluginsVars PROVE Engaged'
<1>1. ASSUME UNCHANGED <<task, rows, core>> PROVE Engaged'
  <2>1. task' = task /\ rows' = rows /\ core' = core
    BY <1>1
  <2> QED BY <2>1 DEF Engaged, Op
<1>2. ASSUME NEW p \in Plugin, Park(p) PROVE Engaged'
  BY <1>1, <1>2 DEF Park
<1>3. CASE Throw \/ ManagerDies
  BY <1>3, IdleEngaged DEF Throw, ManagerDies
<1>4. CASE Proceed
  BY <1>4, DrainEngaged, SpreadEngaged, RecoveryEngaged DEF Proceed
<1>5. CASE UNCHANGED pluginsVars
  BY <1>1, <1>5 DEF pluginsVars
<1> QED BY <1>2, <1>3, <1>4, <1>5, BeginEngaged DEF PluginsNext

----------------------------------------------------------------------------
(* A recovery ends as it says *)

PluginIsThere == Plugin # {}

LEMMA NoneIs == ASSUME PluginIsThere PROVE None # Dead /\ None' = None /\ Dead' = Dead
<1>1. PICK p \in Plugin : TRUE
  BY DEF PluginIsThere
<1>2. None[p] = 0 /\ Dead[p] = MaxVersion + 1
  BY <1>1 DEF None, Dead
<1>3. None # Dead
  BY <1>2, PluginStateAssumption
<1> QED BY <1>3 DEF None, Dead

\* The stages of a recovery in safe mode.
InSafeMode == task.kind = "recover" /\ task.stage \notin {"safe-on", "probe"}

LEMMA ClearedRecovering ==
  ASSUME outcome' = "none", InSafeMode' => safe' /\ runs'["backend"] = None,
         task'.stage = "probe" => ~safe'
  PROVE  Recovering'
BY DEF Recovering, InSafeMode, RecoveryHolds

LEMMA EndedRecovering ==
  ASSUME outcome' = "none", task' = NoTask
  PROVE  Recovering'
BY ClearedRecovering, IdleIs DEF InSafeMode

\* Within a recovery the backend stays in safe mode.
LEMMA MovedRecovering ==
  ASSUME Recovering, task # NoTask, task.stage # "safe-on", UNCHANGED outcome, NEW stage, Moves(stage),
         stage # "probe", task.stage # "probe",
         safe /\ runs["backend"] = None => safe' /\ runs'["backend"] = None
  PROVE  Recovering'
BY ClearedRecovering DEF Recovering, Moves, InSafeMode

LEMMA AdvancedRecovering ==
  ASSUME Recovering, task # NoTask, task.stage \notin {"safe-on", "probe"}, Advances,
         UNCHANGED <<outcome, safe, runs>>
  PROVE  Recovering'
BY ClearedRecovering DEF Recovering, Advances, InSafeMode

LEMMA RecoveringInit == PluginsInit => Recovering
BY IdleIs DEF PluginsInit, Recovering, RecoveryHolds

LEMMA BeginRecovering ==
  ASSUME Typed, Drain \/ Recreate \/ RecreateByHand \/ UpdateCore \/ Recover \/ SafeMode
  PROVE  Recovering'
<1>1. outcome' = "none"
  BY DEF Drain, Recreate, RecreateByHand, UpdateCore, Recover, SafeMode
<1>2. \/ task' = NoTask \/ Begins("drain", "regain") \/ Begins("remount", "remount")
      \/ Begins("reinstall", "require") \/ Begins("recover", "safe-on")
  BY DrainBegins, RecreateBegins, UpdateBegins, RecoverBegins DEF RecreateByHand, SafeMode
<1> QED BY <1>1, <1>2, ClearedRecovering, EndedRecovering DEF Begins, InSafeMode

LEMMA DrainRecovering ==
  ASSUME Engaged, Recovering,
         Regain \/ Package \/ Finalize \/ FinalizeAgain \/ Enable \/ OpFails \/ Cancel
  PROVE  Recovering'
<1>1. UNCHANGED <<outcome, safe, runs>>
  BY DEF Regain, Package, Finalize, FinalizeAgain, Enable, OpFails, Cancel
<1>2. task.stage \in Draining
  BY StagesApart DEF Regain, Package, Finalize, FinalizeAgain, Enable, OpFails, Cancel, At
<1>3. task.stage \notin {"safe-on", "probe"} /\ task # NoTask
  BY <1>2, StagesApart, IdleIs
<1>4. outcome' = "none"
  BY <1>1, <1>3 DEF Recovering
<1>5. \/ task' = NoTask \/ Advances
      \/ \E stage \in {"package", "finalize", "enable", "cancel", "snapshot", "repair"} : Moves(stage)
  BY RegainMoves, PackageMoves, FinalizeMoves, FinalizeAgainMoves, EnableMoves, OpFailsMoves, CancelMoves
<1> QED BY <1>1, <1>3, <1>4, <1>5, EndedRecovering, AdvancedRecovering, MovedRecovering

LEMMA SpreadRecovering ==
  ASSUME Typed, Engaged, Recovering, PluginIsThere,
         \/ Require \/ Repair \/ Archive \/ (\E s \in Follower : Sync(s))
         \/ Remount \/ RebuildCaches \/ Restart
  PROVE  Recovering'
<1>1. /\ task # NoTask
      /\ task.stage \in {"require", "repair", "snapshot", "sync", "remount", "rebuild", "restart"}
  BY IdleIs DEF Require, Repair, Archive, Sync, Remount, RebuildCaches, Restart, At
<1>2. outcome = "none"
  BY <1>1 DEF Recovering
<1>3. CASE Repair
  <2>1. UNCHANGED <<safe, runs>>
    BY <1>3 DEF Repair
  <2>2. CASE outcome' = outcome
    BY <1>1, <1>3, <2>1, <2>2, RepairMoves, MovedRecovering, <1>2, EndedRecovering
  <2>3. CASE task.kind = "recover" /\ task' = NoTask /\ outcome' = "safe"
    <3>1. safe /\ runs["backend"] = None
      BY <1>1, <2>3 DEF Recovering
    <3> QED
      <4>1. task'.kind # "recover" /\ task'.stage # "probe" /\ safe' /\ runs'["backend"] = None /\ Up'
        BY <2>1, <2>3, <3>1, IdleIs DEF Up
      <4>2. runs'["backend"] # Dead'
        BY <4>1, NoneIs
      <4>3. safe' = TRUE
        BY <2>1, <4>1 DEF Typed
      <4> QED BY <2>3, <4>1, <4>2, <4>3 DEF Recovering, RecoveryHolds
  <2> QED BY <1>3, <2>2, <2>3, RepairMoves
<1>4. CASE Restart
  <2>1. UNCHANGED <<safe, outcome>> /\ runs' = [s \in Service |-> Booted(s)]
    BY <1>4 DEF Restart
  <2>2. safe => runs'["backend"] = None
    BY <2>1, ServicesAre DEF Booted
  <2> QED BY <1>1, <1>2, <1>4, <2>1, <2>2, RestartMoves, MovedRecovering, EndedRecovering
<1>5. ASSUME NEW s \in Follower, Sync(s) PROVE Recovering'
  <2>1. UNCHANGED <<outcome, safe, runs>>
    BY <1>5 DEF Sync
  <2> QED BY <1>1, <1>2, <1>5, <2>1, SyncMoves, ClearedRecovering DEF Recovering, InSafeMode
<1>6. CASE Require \/ Archive \/ Remount \/ RebuildCaches
  <2>1. UNCHANGED <<outcome, safe, runs>>
    BY <1>6 DEF Require, Archive, Remount, RebuildCaches
  <2>2. task' = NoTask \/ \E stage \in {"repair", "sync", "rebuild", "restart"} : Moves(stage)
    BY <1>6, RequireMoves, ArchiveMoves, RemountMoves, RebuildMoves
  <2> QED BY <1>1, <1>2, <2>1, <2>2, EndedRecovering, MovedRecovering
<1> QED BY <1>3, <1>4, <1>5, <1>6

\* A backend that boots has loaded no version that does not exist.
LEMMA BootedIs ==
  ASSUME Typed, PluginIsThere, ~safe, Loadable("backend")
  PROVE  Booted("backend") # Dead
<1>1. PICK p \in Plugin : TRUE
  BY DEF PluginIsThere
<1>2. disk["backend"].vendor \in [Plugin -> 0..MaxVersion]
  BY ServicesAre DEF Typed, State
<1>3. Booted("backend")[p] \in 0..MaxVersion
  BY <1>1, <1>2, PluginStateAssumption DEF Booted
<1>4. Dead[p] = MaxVersion + 1
  BY <1>1 DEF Dead
<1> QED BY <1>3, <1>4, PluginStateAssumption

LEMMA ProbeRecovering ==
  ASSUME Typed, Engaged, Recovering, PluginIsThere, Probe
  PROVE  Recovering'
<1>1. task' = NoTask /\ ~safe /\ UNCHANGED disk
  BY ProbeMoves DEF Recovering, Probe
<1>2. Loadable("backend")' = Loadable("backend")
  BY <1>1 DEF Loadable
<1>3. runs'["backend"] = IF Loadable("backend") THEN Booted("backend") ELSE None
  BY ServicesAre DEF Probe, Typed
<1>4. /\ safe' = ~Loadable("backend")
      /\ outcome' = IF Loadable("backend") THEN "recovered" ELSE "safe"
  BY DEF Probe
<1>5. Up'
  BY <1>2, <1>4 DEF Up
<1>6. runs'["backend"] # Dead'
  BY <1>1, <1>3, BootedIs, NoneIs
<1>7. safe' = (outcome' = "safe")
  BY <1>4
<1> QED BY <1>1, <1>5, <1>6, <1>7, IdleIs DEF Recovering, RecoveryHolds

LEMMA RecoveryRecovering ==
  ASSUME Typed, Engaged, Recovering, PluginIsThere, SafeOn \/ SafeOff \/ Probe
  PROVE  Recovering'
<1>1. CASE SafeOn
  <2>1. safe' /\ runs'["backend"] = None /\ UNCHANGED outcome
    BY <1>1, ServicesAre DEF SafeOn, Typed
  <2>2. task'.stage = "regain" /\ task # NoTask
    BY <1>1, SafeOnMoves, IdleIs
  <2> QED BY <2>1, <2>2, ClearedRecovering DEF Recovering
<1>2. CASE SafeOff
  <2>1. ~safe' /\ UNCHANGED outcome
    BY <1>2 DEF SafeOff
  <2>2. task'.stage = "probe" /\ task # NoTask
    BY <1>2, SafeOffMoves, IdleIs DEF Moves
  <2> QED BY <2>1, <2>2, ClearedRecovering DEF Recovering, InSafeMode
<1> QED BY <1>1, <1>2, ProbeRecovering

LEMMA RecoveringNext ==
  ASSUME Typed, Engaged, Recovering, PluginIsThere, [PluginsNext]_pluginsVars
  PROVE  Recovering'
<1>1. ASSUME UNCHANGED <<task, outcome, safe, runs, disk>> PROVE Recovering'
  <2>1. task' = task /\ outcome' = outcome /\ safe' = safe /\ runs' = runs /\ disk' = disk
    BY <1>1
  <2> QED BY <2>1 DEF Recovering, RecoveryHolds, Up, Loadable
<1>2. ASSUME NEW p \in Plugin, Park(p) PROVE Recovering'
  BY <1>1, <1>2 DEF Park
<1>3. CASE Throw \/ ManagerDies
  <2>1. task # NoTask /\ task' = NoTask /\ UNCHANGED outcome
    BY <1>3 DEF Throw, ManagerDies
  <2> QED BY <2>1, EndedRecovering DEF Recovering
<1>4. CASE Proceed
  BY <1>4, DrainRecovering, SpreadRecovering, RecoveryRecovering DEF Proceed
<1>5. CASE UNCHANGED pluginsVars
  BY <1>1, <1>5 DEF pluginsVars
<1> QED BY <1>2, <1>3, <1>4, <1>5, BeginRecovering DEF PluginsNext

----------------------------------------------------------------------------
(* One state in all services *)

LEMMA ElsewhereSpread ==
  ASSUME task'.stage \notin {"remount", "sync", "rebuild", "restart"},
         task'.stage \in Before \/ (task'.stage = "repair" /\ task'.kind = "reinstall") =>
           task'.todo = Follower,
         task'.kind # "recover" /\ inStep' /\ ~safe' => SameRuns'
  PROVE  Spread'
BY DEF Spread

LEMMA OutOfStep ==
  ASSUME task' = NoTask, inStep' = FALSE
  PROVE  Spread'
BY DEF Spread, NoTask, Before, Draining, Operating

\* What the services run is no matter of most steps.
LEMMA SameRunsStay ==
  ASSUME Spread, UNCHANGED <<runs, safe>>, inStep' => inStep,
         task.kind = "recover" => task'.kind = "recover" \/ ~inStep'
  PROVE  task'.kind # "recover" /\ inStep' /\ ~safe' => SameRuns'
<1>1. task'.kind # "recover" /\ inStep' /\ ~safe' => SameRuns
  BY DEF Spread
<1>2. SameRuns => SameRuns'
  BY DEF SameRuns
<1> QED BY <1>1, <1>2

LEMMA AllNoneIs ==
  ASSUME \A s \in Service : runs'[s] = None
  PROVE  SameRuns'
BY ServicesAre DEF SameRuns

LEMMA BeforeIs ==
  Before = {"package", "finalize", "enable", "cancel", "regain", "safe-on", "snapshot",
            "require", "remount"}
BY DEF Before, Draining, Operating

LEMMA SpreadInit == PluginsInit => Spread
<1> SUFFICES ASSUME PluginsInit PROVE Spread
  OBVIOUS
<1>1. task = NoTask /\ \A s \in Service : runs[s] = None
  BY DEF PluginsInit
<1> QED BY <1>1, IdleIs, BeforeIs, ServicesAre DEF Spread, SameRuns

LEMMA BeginSpread ==
  ASSUME Typed, Spread, Drain \/ Recreate \/ RecreateByHand \/ UpdateCore \/ Recover \/ SafeMode
  PROVE  Spread'
<1>1. CASE Drain
  <2>1. task.kind # "recover" /\ UNCHANGED <<runs, safe, inStep>>
    BY <1>1, IdleIs DEF Drain
  <2> QED BY <1>1, <2>1, DrainBegins, SameRunsStay, ElsewhereSpread DEF Begins
<1>2. CASE Recreate
  <2>1. inStep' = FALSE /\ \A s \in Service : runs'[s] = None
    BY <1>2 DEF Recreate, Recreated
  <2> QED BY <1>2, <2>1, RecreateBegins DEF Begins, Spread
<1>3. CASE RecreateByHand \/ SafeMode
  BY <1>3, OutOfStep DEF RecreateByHand, SafeMode
<1>4. CASE UpdateCore
  <2>1. \A s \in Service : runs'[s] = None
    BY <1>4 DEF UpdateCore, Recreated
  <2>2. CASE task' = NoTask
    BY <2>1, <2>2, AllNoneIs, ElsewhereSpread, IdleIs, BeforeIs
  <2> QED BY <1>4, <2>1, <2>2, UpdateBegins, AllNoneIs, ElsewhereSpread DEF Begins
<1>5. CASE Recover
  BY <1>5, RecoverBegins, ElsewhereSpread DEF Begins
<1> QED BY <1>1, <1>2, <1>3, <1>4, <1>5

LEMMA DrainSpread ==
  ASSUME Engaged, Spread,
         Regain \/ Package \/ Finalize \/ FinalizeAgain \/ Enable \/ OpFails \/ Cancel
  PROVE  Spread'
<1>1. UNCHANGED <<safe, runs>> /\ (inStep' => inStep)
  BY DEF Regain, Package, Finalize, FinalizeAgain, Enable, OpFails, Cancel
<1>2. task.stage \in Draining
  BY StagesApart DEF Regain, Package, Finalize, FinalizeAgain, Enable, OpFails, Cancel, At
<1>3. task.todo = Follower /\ task.kind \in {"drain", "recover"}
  BY <1>2, StagesApart, IdleIs, KindsAre, BeforeIs DEF Spread
<1>4. \/ task' = NoTask /\ task.kind # "recover"
      \/ Advances
      \/ \E stage \in {"package", "finalize", "enable", "cancel", "snapshot"} : Moves(stage)
      \/ Moves("repair") /\ task.kind = "recover"
  BY <1>3, RegainMoves, PackageMoves, FinalizeMoves, FinalizeAgainMoves, EnableMoves, OpFailsMoves,
     CancelMoves
<1>5. CASE task' = NoTask /\ task.kind # "recover"
  BY <1>1, <1>5, SameRunsStay, ElsewhereSpread, IdleIs, BeforeIs
<1>6. CASE Advances
  BY <1>1, <1>3, <1>6, SameRunsStay, ElsewhereSpread DEF Advances
<1>7. ASSUME NEW stage \in {"package", "finalize", "enable", "cancel", "snapshot"}, Moves(stage)
      PROVE  Spread'
  BY <1>1, <1>3, <1>7, SameRunsStay, ElsewhereSpread DEF Moves
<1>8. CASE Moves("repair") /\ task.kind = "recover"
  BY <1>1, <1>3, <1>8, SameRunsStay, ElsewhereSpread, BeforeIs DEF Moves
<1> QED BY <1>4, <1>5, <1>6, <1>7, <1>8

LEMMA SyncSpread ==
  ASSUME Typed, Engaged, Spread, NEW s \in Follower, Sync(s)
  PROVE  Spread'
<1>1. /\ task.stage = "sync" /\ task'.stage = "sync" /\ task'.todo = task.todo \ {s}
      /\ task'.kind = task.kind
  BY SyncMoves
<1>2. /\ disk' = [disk EXCEPT ![s] = snapshot.image]
      /\ UNCHANGED <<core, snapshot, runs, safe, inStep>>
  BY DEF Sync
<1>3. snapshot = [core |-> core, image |-> disk["backend"]] /\ SameDisk(Follower \ task.todo)
  BY <1>1 DEF Spread
<1>4. snapshot.image = disk["backend"]
  BY <1>3
<1>5. disk'["backend"] = disk["backend"] /\ disk'[s] = disk["backend"]
      /\ \A t \in Follower : t # s => disk'[t] = disk[t]
  BY <1>2, <1>4, ServicesAre DEF Typed
<1>6. SameDisk(Follower \ task.todo)'
  BY <1>1, <1>3, <1>5 DEF SameDisk
<1>7. snapshot' = [core |-> core', image |-> disk'["backend"]]
  BY <1>2, <1>3, <1>5
<1>8. task'.kind # "recover" /\ inStep' /\ ~safe' => SameRuns'
  BY <1>1, <1>2, SameRunsStay
<1> QED BY <1>1, <1>6, <1>7, <1>8, BeforeIs DEF Spread

LEMMA RebuildSpread ==
  ASSUME Typed, Engaged, Spread, RebuildCaches
  PROVE  Spread'
<1>1. /\ task.stage = "rebuild" \/ (task.stage = "sync" /\ task.todo = {})
      /\ task'.stage = "restart" /\ task'.kind = task.kind
  BY RebuildMoves DEF Moves
<1>2. SameDisk(Follower)
  <2>1. task.stage = "sync" /\ task.todo = {} => SameDisk(Follower \ {})
    BY DEF Spread
  <2>2. Follower \ {} = Follower
    OBVIOUS
  <2> QED BY <1>1, <2>1, <2>2 DEF Spread
<1>3. PICK warm \in SUBSET {s \in Service : Compiles(s)} :
        cache' = [s \in Service |-> IF s \in warm THEN Compiled(s) ELSE Cold]
  BY DEF RebuildCaches
<1>4. UNCHANGED <<disk, runs, safe, inStep>>
  BY DEF RebuildCaches
<1>5. \A s \in Service : cache'[s] \in {Cold, Compiled(s)}
  BY <1>3
<1>6. \A s \in Service : Compiled(s)' = Compiled(s)
  BY <1>4 DEF Compiled
<1>7. \A s \in Service : cache'[s] \in {Cold', Compiled(s)'}
  BY <1>5, <1>6 DEF Cold
<1>8. SameDisk(Follower)'
  BY <1>2, <1>4 DEF SameDisk
<1>9. task'.kind # "recover" /\ inStep' /\ ~safe' => SameRuns'
  BY <1>1, <1>4, SameRunsStay
<1> QED BY <1>1, <1>7, <1>8, <1>9, BeforeIs DEF Spread

\* With the same disk and no stale cache a follower loads what the backend loads.
LEMMA BootAlike ==
  ASSUME Typed, NEW s \in Follower, ~safe, disk[s] = disk["backend"],
         cache[s] \in {Cold, Compiled(s)}, cache["backend"] \in {Cold, Compiled("backend")}
  PROVE  Booted(s) = Booted("backend")
<1> DEFINE seen(t) == IF cache[t] = Cold THEN disk[t].bundles ELSE cache[t]
<1>1. Compiled(s) = disk[s].bundles /\ Compiled("backend") = disk["backend"].bundles
  BY ServicesAre DEF Compiled
<1>2. seen(s) = seen("backend")
  BY <1>1
<1>3. Loadable(s) <=> Loadable("backend")
  BY DEF Loadable
<1>4. \A t \in {s, "backend"} : Booted(t) =
        IF ~Loadable(t) THEN Dead
        ELSE [p \in Plugin |-> IF p \in seen(t) /\ p \in disk[t].bundles THEN disk[t].vendor[p] ELSE 0]
  BY DEF Booted
<1> HIDE DEF seen
<1> QED BY <1>2, <1>3, <1>4

LEMMA RestartSpread ==
  ASSUME Typed, Engaged, Spread, Restart
  PROVE  Spread'
<1>1. task.stage = "restart"
  BY RestartMoves
<1>2. runs' = [s \in Service |-> Booted(s)] /\ UNCHANGED safe
  BY DEF Restart
<1>3. SameDisk(Follower) /\ \A s \in Service : cache[s] \in {Cold, Compiled(s)}
  BY <1>1 DEF Spread
<1>4. ~safe' => SameRuns'
  <2> SUFFICES ASSUME ~safe, NEW s \in Follower PROVE runs'[s] = runs'["backend"]
    BY <1>2 DEF SameRuns
  <2>1. Booted(s) = Booted("backend")
    BY <1>3, ServicesAre, BootAlike DEF SameDisk
  <2> QED BY <1>2, <2>1, ServicesAre
<1>5. CASE task' = NoTask
  BY <1>4, <1>5, ElsewhereSpread, IdleIs, BeforeIs
<1>6. CASE Moves("repair") /\ task.kind = "recover"
  BY <1>6, ElsewhereSpread, BeforeIs DEF Moves
<1> QED BY <1>5, <1>6, RestartMoves

LEMMA WorkSpread ==
  ASSUME Typed, Engaged, Spread, Require \/ Repair \/ Archive \/ Remount
  PROVE  Spread'
<1>1. UNCHANGED <<safe, runs>>
  BY DEF Require, Repair, Archive, Remount
<1>2. CASE Require
  <2>1. UNCHANGED inStep
    BY <1>2 DEF Require
  <2>2. task.todo = Follower /\ task.kind = "reinstall"
    BY <1>2, RequireMoves, BeforeIs DEF Spread
  <2> QED BY <1>1, <1>2, <2>1, <2>2, RequireMoves, SameRunsStay, ElsewhereSpread DEF Moves
<1>3. CASE Repair
  <2>1. CASE task.kind = "reinstall" /\ Moves("snapshot") /\ UNCHANGED inStep
    <3>1. task.todo = Follower
      BY <1>3, <2>1, RepairMoves DEF Spread
    <3> QED BY <1>1, <2>1, <3>1, SameRunsStay, ElsewhereSpread DEF Moves
  <2>2. CASE task.kind = "recover" /\ Moves("safe-off")
    BY <2>2, ElsewhereSpread, BeforeIs DEF Moves
  <2>3. CASE task' = NoTask /\ inStep' = FALSE
    BY <2>3, OutOfStep
  <2> QED BY <1>3, <2>1, <2>2, <2>3, RepairMoves
<1>4. CASE Archive
  <2>1. task.todo = Follower /\ task'.stage = "sync" /\ task'.todo = Follower /\ task'.kind = task.kind
    BY <1>4, ArchiveMoves, BeforeIs DEF Spread, Moves
  <2>2. snapshot' = [core |-> core', image |-> disk'["backend"]] /\ UNCHANGED inStep
    BY <1>4 DEF Archive
  <2>3. SameDisk(Follower \ task.todo)'
    BY <2>1 DEF SameDisk
  <2>4. task'.kind # "recover" /\ inStep' /\ ~safe' => SameRuns'
    BY <1>1, <2>1, <2>2, SameRunsStay
  <2> QED BY <2>1, <2>2, <2>3, <2>4, BeforeIs DEF Spread
<1>5. CASE Remount
  <2>1. \A s \in Service : runs'[s] = None
    BY <1>1, <1>5, RemountMoves DEF Spread
  <2>2. CASE task' = NoTask
    BY <2>1, <2>2, AllNoneIs, ElsewhereSpread, IdleIs, BeforeIs
  <2>3. CASE Moves("rebuild") /\ disk' = [s \in Service |-> snapshot.image]
    <3>1. SameDisk(Follower)'
      BY <2>3, ServicesAre DEF SameDisk
    <3> QED BY <2>1, <2>3, <3>1, AllNoneIs, BeforeIs DEF Moves, Spread
  <2> QED BY <1>5, <2>2, <2>3, RemountMoves
<1> QED BY <1>2, <1>3, <1>4, <1>5

LEMMA RecoverySpread ==
  ASSUME Typed, Engaged, Spread, SafeOn \/ SafeOff \/ Probe
  PROVE  Spread'
<1>1. CASE SafeOn
  BY <1>1, SafeOnMoves, ElsewhereSpread, BeforeIs DEF Spread
<1>2. CASE SafeOff
  BY <1>2, SafeOffMoves, ElsewhereSpread, BeforeIs DEF Moves
<1>3. CASE Probe
  BY <1>3, ProbeMoves, OutOfStep DEF Probe
<1> QED BY <1>1, <1>2, <1>3

LEMMA SpreadNext == ASSUME Typed, Engaged, Spread, [PluginsNext]_pluginsVars PROVE Spread'
<1>1. ASSUME UNCHANGED <<core, disk, cache, runs, snapshot, safe, task, inStep>> PROVE Spread'
  <2>1. /\ core' = core /\ disk' = disk /\ cache' = cache /\ runs' = runs /\ snapshot' = snapshot
        /\ safe' = safe /\ task' = task /\ inStep' = inStep
    BY <1>1
  <2> QED BY <2>1 DEF Spread, SameDisk, SameRuns, Compiled
<1>2. ASSUME NEW p \in Plugin, Park(p) PROVE Spread'
  BY <1>1, <1>2 DEF Park
<1>3. CASE Throw \/ ManagerDies
  BY <1>3, OutOfStep DEF Throw, ManagerDies
<1>4. CASE Proceed
  BY <1>4, DrainSpread, SyncSpread, RebuildSpread, RestartSpread, WorkSpread, RecoverySpread DEF Proceed
<1>5. CASE UNCHANGED pluginsVars
  BY <1>1, <1>5 DEF pluginsVars
<1> QED BY <1>2, <1>3, <1>4, <1>5, BeginSpread DEF PluginsNext

----------------------------------------------------------------------------
(* Nothing went wrong: the backend has what the database records *)

Calm == Prudent /\ count.mishaps = 0 /\ Typed /\ Engaged /\ Spread /\ Agrees

LEMMA CalmIs ==
  ASSUME Calm
  PROVE  /\ Typed /\ Engaged /\ Spread /\ Ordered /\ Stepwise
         /\ task.kind # "recover" /\ task.stage # "cancel"
BY DEF Calm, Agrees, Ordered

\* What agrees with the database boots.
LEMMA GoodBoots ==
  ASSUME Typed, disk["backend"].bundles = {} \/ Good(disk["backend"])
  PROVE  Loadable("backend") /\ Up
<1>1. \A p \in on : rows[p] > 0
  BY DEF Typed
<1> QED BY <1>1 DEF Loadable, Up, Good

LEMMA RecoverableBoots ==
  ASSUME Typed, Recoverable
  PROVE  Up
BY GoodBoots DEF Recoverable

\* Neither snapshot nor database nor backend are touched.
LEMMA RecoverableStays ==
  ASSUME UNCHANGED <<snapshot, core, on, rows>>, disk'["backend"] = disk["backend"]
  PROVE  (Recoverable => Recoverable') /\ (Good(disk["backend"]) => Good(disk["backend"])')
BY DEF Recoverable, Good

LEMMA WholeStays ==
  ASSUME Whole, UNCHANGED <<snapshot, core>>
  PROVE  Whole'
<1>1. snapshot' = snapshot /\ core' = core
  OBVIOUS
<1> QED BY <1>1 DEF Whole, Torn, Baked, None, Dead

LEMMA OrderedStays ==
  ASSUME Ordered, UNCHANGED <<rows, queue, snapshot, core>>,
         task'.kind # "recover", task'.stage # "cancel",
         task'.kind = "drain" =>
           /\ task.kind = "drain" /\ task'.left = task.left
           /\ task.stage = "enable" => task'.stage = "enable"
           /\ task'.stage = "regain" => task.stage = "regain"
  PROVE  Ordered'
<1>1. rows' = rows /\ queue' = queue
  OBVIOUS
<1>2. Whole'
  BY WholeStays DEF Ordered
<1>3. (Distinct(queue) /\ \A i \in DOMAIN queue : MayInstall(queue[i]))'
  BY <1>1 DEF Ordered, MayInstall, Distinct
<1>4. ASSUME task'.kind = "drain"
      PROVE  Lined'
  BY <1>1, <1>4 DEF Ordered, Lined, MayInstall, Distinct
<1> QED BY <1>2, <1>3, <1>4 DEF Ordered

\* The manager is idle and has made no promise about what runs.
LEMMA IdleAgrees ==
  ASSUME task' = NoTask, Ordered', Recoverable',
         inStep' /\ ~safe' => runs'["backend"] = Recorded'
  PROVE  Agrees'
BY DEF Agrees, Stepwise, NoTask, Resting

LEMMA BusyAgrees ==
  ASSUME task' # NoTask, Ordered', Stepwise'
  PROVE  Agrees'
BY DEF Agrees

LEMMA NothingRecorded ==
  ASSUME Typed, rows = None
  PROVE  on = {} /\ Recorded = None
<1>1. on = {}
  BY DEF Typed, None
<1> QED BY <1>1 DEF Recorded, None

LEMMA AgreesInit == PluginsInit => Agrees
<1> SUFFICES ASSUME PluginsInit PROVE Agrees
  OBVIOUS
<1>1. /\ task.kind = "none" /\ task.stage = "idle" /\ snapshot.core = 0 /\ core = 1 /\ on = {}
      /\ disk["backend"] = Baked /\ queue = <<>> /\ rows = None /\ runs["backend"] = None
  BY ServicesAre, IdleIs DEF PluginsInit, NoSnapshot
<1>2. snapshot # Torn(snapshot.core)
  BY DEF PluginsInit, NoSnapshot, Torn
<1>3. Recoverable
  BY <1>1 DEF Recoverable, Good, Baked
<1>4. Recorded = None
  BY <1>1 DEF Recorded, None
<1>5. Ordered
  BY <1>1, <1>2 DEF Ordered, Distinct, Whole
<1> QED BY <1>1, <1>3, <1>4, <1>5 DEF Agrees, Stepwise, Resting

\* An operation the CMS has verified.
LEMMA ParkAgrees ==
  ASSUME Calm, NEW p \in Plugin, Park(p)
  PROVE  Agrees'
<1>1. PICK kind, version :
        /\ (kind = "install") = (rows[p] = 0)
        /\ queue' = Append(queue, [plugin |-> p, kind |-> kind, version |-> version])
  BY DEF Park
<1>2. /\ \A i \in DOMAIN queue : queue[i].plugin # p
      /\ UNCHANGED <<core, rows, on, disk, cache, runs, snapshot, safe, task, inStep>>
  BY DEF Park
<1>3. PICK n \in Nat : n = Len(queue) /\ DOMAIN queue = 1..n
  BY CalmIs, TypedParts
<1>4. PICK op : op = [plugin |-> p, kind |-> kind, version |-> version]
  OBVIOUS
<1>5. /\ DOMAIN queue' = 1..(n + 1) /\ queue'[n + 1] = op
      /\ \A i \in 1..n : queue'[i] = queue[i]
  BY <1>1, <1>3, <1>4, CalmIs, TypedParts
<1>6. MayInstall(op) /\ op.plugin = p
  BY <1>1, <1>4 DEF MayInstall
<1>7. Distinct(queue) /\ \A i \in DOMAIN queue : MayInstall(queue[i])
  BY CalmIs DEF Ordered
<1>8. Distinct(queue')
  BY <1>2, <1>3, <1>5, <1>6, <1>7 DEF Distinct
<1>9. \A i \in DOMAIN queue' : MayInstall(queue'[i])
  BY <1>3, <1>5, <1>6, <1>7
<1>10. /\ core' = core /\ rows' = rows /\ on' = on /\ disk' = disk /\ runs' = runs /\ safe' = safe
       /\ snapshot' = snapshot /\ task' = task /\ inStep' = inStep
  BY <1>2
<1>11. Ordered'
  <2>1. Whole' /\ (Distinct(queue) /\ \A i \in DOMAIN queue : MayInstall(queue[i]))'
    BY <1>8, <1>9, <1>10, CalmIs, WholeStays DEF Ordered, MayInstall, Distinct
  <2>2. (task.kind = "drain" => Lined)'
    BY <1>10, CalmIs DEF Ordered, Lined, MayInstall, Distinct
  <2> QED BY <1>10, <2>1, <2>2, CalmIs DEF Ordered
<1>12. Stepwise'
  BY <1>10, CalmIs DEF Stepwise, Recoverable, Good, Op
<1>13. task = NoTask /\ inStep /\ ~safe => runs["backend"] = Recorded
  BY DEF Calm, Agrees
<1> QED BY <1>10, <1>11, <1>12, <1>13 DEF Agrees, Recorded

LEMMA NoRecovery == ASSUME Calm, Recover PROVE FALSE
<1>1. ~Up /\ task.stage = "idle"
  BY IdleIs DEF Recover, Calm
<1> QED BY <1>1, CalmIs, RecoverableBoots DEF Stepwise, Resting

\* Containers are recreated, by the manager or by hand.
LEMMA RecreatedAgrees ==
  ASSUME Calm, task = NoTask, Recreated, UNCHANGED <<core, rows, on, queue, snapshot>>,
         inStep' = FALSE, task' = NoTask \/ Begins("remount", "remount")
  PROVE  Agrees'
<1>1. Ordered'
  BY CalmIs, OrderedStays, IdleIs DEF Begins
<1>2. disk'["backend"] = Baked
  BY RecreatedIs, ServicesAre
<1>3. Recoverable
  BY CalmIs, IdleIs DEF Stepwise, Resting
<1>4. Recoverable'
  BY <1>2, <1>3 DEF Recoverable, Good, Baked
<1>5. CASE task' = NoTask
  BY <1>1, <1>4, <1>5, IdleAgrees
<1>6. CASE Begins("remount", "remount")
  <2>1. Stepwise' /\ task' # NoTask
    BY <1>4, <1>6, IdleIs DEF Begins, Stepwise, Resting
  <2> QED BY <1>1, <2>1, BusyAgrees
<1> QED BY <1>5, <1>6

LEMMA UpdateAgrees ==
  ASSUME Calm, UpdateCore
  PROVE  Agrees'
<1>1. /\ core' = core + 1 /\ task = NoTask /\ Recreated /\ inStep' = (rows = None)
      /\ UNCHANGED <<rows, on, queue, snapshot>>
  BY DEF UpdateCore
<1>2. snapshot.core <= core /\ Whole
  BY CalmIs DEF Ordered, Whole
<1>3. snapshot.core \in Nat
  <2>1. NoSnapshot.core = 0
    BY DEF NoSnapshot
  <2>2. snapshot = NoSnapshot \/ snapshot.core \in Nat
    BY <1>2, CalmIs DEF Typed, Archived, Whole
  <2> QED BY <2>1, <2>2
<1>4. snapshot'.core # core' /\ Whole'
  <2>1. core \in Nat
    BY CalmIs, TypedParts
  <2>2. snapshot'.core # core' /\ snapshot'.core <= core'
    BY <1>1, <1>2, <1>3, <2>1
  <2>3. snapshot' = snapshot
    BY <1>1
  <2> QED BY <1>2, <2>2, <2>3 DEF Whole, Torn, Baked, None, Dead
<1>5. task'.kind \in {"none", "reinstall"} /\ task'.stage \in {"idle", "require"}
  BY <1>1, UpdateBegins, IdleIs DEF Begins
<1>6. Ordered'
  BY <1>1, <1>4, <1>5, CalmIs DEF Ordered, MayInstall, Distinct
<1>7. disk'["backend"] = Baked /\ Baked.bundles = {} /\ Baked.marker = FALSE
  BY <1>1, RecreatedIs, ServicesAre DEF Baked
<1>8. CASE rows = None /\ task' = NoTask
  <2>1. on' = {} /\ Recorded' = None'
    <3>1. on = {} /\ Recorded = None
      BY <1>8, CalmIs, NothingRecorded
    <3> QED BY <1>1, <3>1 DEF Recorded, None
  <2>2. Recoverable'
    BY <1>4, <1>7, <2>1 DEF Recoverable
  <2>3. runs'["backend"] = None
    BY <1>1, RecreatedIs, ServicesAre
  <2> QED BY <1>6, <1>8, <2>1, <2>2, <2>3, IdleAgrees DEF None
<1>9. CASE Begins("reinstall", "require")
  <2>1. Stepwise' /\ task' # NoTask
    BY <1>7, <1>9, IdleIs DEF Begins, Stepwise, Resting
  <2> QED BY <1>6, <2>1, BusyAgrees
<1> QED BY <1>8, <1>9, UpdateBegins

LEMMA BeginAgrees ==
  ASSUME Calm, Drain \/ Recreate \/ RecreateByHand \/ UpdateCore \/ Recover \/ SafeMode
  PROVE  Agrees'
<1>1. CASE Drain
  <2>1. /\ queue # <<>> /\ task = NoTask
        /\ UNCHANGED <<core, rows, on, queue, disk, snapshot>>
    BY <1>1 DEF Drain
  <2>2. Begins("drain", "regain") /\ task'.left = queue
    BY <1>1, CalmIs, DrainBegins
  <2>3. Ordered'
    <3>1. Whole' /\ (Distinct(queue) /\ \A i \in DOMAIN queue : MayInstall(queue[i]))'
      BY <2>1, CalmIs, WholeStays DEF Ordered, MayInstall, Distinct
    <3>2. Lined'
      BY <2>1, <2>2, CalmIs DEF Ordered, Lined, MayInstall, Distinct
    <3> QED BY <2>2, <3>1, <3>2 DEF Ordered, Begins
  <2>4. Recoverable'
    BY <2>1, CalmIs, IdleIs, RecoverableStays DEF Stepwise, Resting
  <2>5. Stepwise' /\ task' # NoTask
    BY <2>2, <2>4, IdleIs DEF Begins, Stepwise, Resting
  <2> QED BY <2>3, <2>5, BusyAgrees
<1>2. CASE Recreate
  BY <1>2, RecreateBegins, RecreatedAgrees DEF Recreate
<1>3. CASE RecreateByHand
  BY <1>3, RecreatedAgrees DEF RecreateByHand
<1>4. CASE SafeMode
  <2>1. /\ task' = NoTask /\ task = NoTask /\ inStep' = FALSE
        /\ UNCHANGED <<core, rows, on, queue, disk, snapshot>>
    BY <1>4 DEF SafeMode
  <2>2. Ordered'
    BY <2>1, CalmIs, OrderedStays, IdleIs
  <2>3. Recoverable'
    BY <2>1, CalmIs, IdleIs, RecoverableStays DEF Stepwise, Resting
  <2> QED BY <2>1, <2>2, <2>3, IdleAgrees
<1> QED BY <1>1, <1>2, <1>3, <1>4, UpdateAgrees, NoRecovery

----------------------------------------------------------------------------
(* A drain, step by step *)

\* The task stays within its stages, and goes on with the same operations.
LEMMA MovedOrdered ==
  ASSUME Calm, UNCHANGED <<rows, queue, snapshot, core>>, NEW stage, Moves(stage),
         stage \notin {"cancel", "regain"}, task.stage # "enable"
  PROVE  Ordered' /\ task' # NoTask
<1>1. Ordered /\ task.kind # "recover"
  BY CalmIs
<1>2. /\ task'.kind # "recover" /\ task'.stage # "cancel"
      /\ task'.kind = "drain" => task.kind = "drain" /\ task'.left = task.left
      /\ task'.stage # "regain"
  BY <1>1 DEF Moves
<1>3. task' # NoTask
  BY IdleIs DEF Moves, Tasks
<1> QED BY <1>1, <1>2, <1>3, OrderedStays

\* What a drain does is done by a drain.
LEMMA OperatingCalm ==
  ASSUME Calm, task.stage \in Operating
  PROVE  /\ task.kind = "drain" /\ task \in Tasks /\ task.left # <<>> /\ Lined
         /\ Op = task.left[1] /\ 1 \in DOMAIN task.left
         /\ Op.plugin \in Plugin /\ Op.version \in 1..MaxVersion
         /\ Op.kind \in {"install", "update", "uninstall"}
         /\ task.stage # "enable" => MayInstall(Op)
<1>1. task \in Tasks /\ task.kind \in {"drain", "recover"} /\ task.left # <<>>
  BY CalmIs, OperatingIs
<1>2. task.kind = "drain" /\ Lined
  BY <1>1, CalmIs DEF Ordered
<1>3. /\ Op = task.left[1] /\ 1 \in DOMAIN task.left
      /\ Op.plugin \in Plugin /\ Op.version \in 1..MaxVersion
      /\ Op.kind \in {"install", "update", "uninstall"}
  BY <1>1, OpIs
<1>4. task.stage # "enable" => MayInstall(Op)
  BY <1>2, <1>3 DEF Lined
<1> QED BY <1>1, <1>2, <1>3, <1>4

LEMMA RegainAgrees ==
  ASSUME Calm, Regain
  PROVE  Agrees'
<1>1. task.stage = "regain" /\ task.kind = "drain" /\ task.left # <<>>
  BY CalmIs, RegainMoves DEF Ordered, Lined
<1>2. Moves("package") /\ UNCHANGED <<rows, on, queue, snapshot, core>>
  BY <1>1, CalmIs, RegainMoves, IdleIs DEF Regain
<1>3. Recoverable
  BY <1>1, CalmIs DEF Stepwise, Resting
<1>4. CASE disk["backend"].marker \/ snapshot.core # core
  <2>1. Good(disk["backend"])
    BY <1>3, <1>4 DEF Recoverable, Good
  <2>2. UNCHANGED disk
    BY <1>4 DEF Regain
  <2>3. Good(disk["backend"])'
    BY <1>2, <2>1, <2>2 DEF Good
  <2>4. Stepwise'
    BY <1>2, <2>3 DEF Stepwise, Resting, Moves
  <2> QED BY <1>1, <1>2, <2>4, MovedOrdered, BusyAgrees
<1>5. CASE ~disk["backend"].marker /\ snapshot.core = core
  <2>1. disk'["backend"] = snapshot.image
    BY <1>1, <1>5, CalmIs, ServicesAre DEF Regain, Typed
  <2>2. Good(snapshot.image)
    BY <1>3, <1>5 DEF Recoverable
  <2>3. Good(disk["backend"])'
    BY <1>2, <2>1, <2>2 DEF Good
  <2>4. Stepwise'
    BY <1>2, <2>3 DEF Stepwise, Resting, Moves
  <2> QED BY <1>1, <1>2, <2>4, MovedOrdered, BusyAgrees
<1> QED BY <1>4, <1>5

LEMMA PackageAgrees ==
  ASSUME Calm, Package
  PROVE  Agrees'
<1>1. task.stage = "package" /\ Moves("finalize") /\ task.stage \in Operating
  BY CalmIs, PackageMoves DEF Operating
<1>2. UNCHANGED <<rows, on, queue, snapshot, core>>
  BY DEF Package
<1>3. Good(disk["backend"])
  BY <1>1, CalmIs DEF Stepwise
<1>4. Op' = Op
  BY <1>1 DEF Moves, Op
<1>5. /\ disk'["backend"].bundles = disk["backend"].bundles
      /\ \A p \in Plugin \ {Op.plugin} : disk'["backend"].vendor[p] = disk["backend"].vendor[p]
      /\ Op.kind # "uninstall" => disk'["backend"].vendor[Op.plugin] = Op.version
  <2>1. disk["backend"] \in State /\ "backend" \in Service
    BY CalmIs, ServicesAre DEF Typed
  <2>2. CASE Op.kind = "uninstall" /\ UNCHANGED disk
    BY <2>2
  <2>3. ASSUME NEW v, disk' = [disk EXCEPT !["backend"].vendor[Op.plugin] = v],
               v = IF Op.kind = "uninstall" THEN 0 ELSE Op.version
        PROVE  /\ disk'["backend"].bundles = disk["backend"].bundles
               /\ \A p \in Plugin \ {Op.plugin} :
                    disk'["backend"].vendor[p] = disk["backend"].vendor[p]
               /\ Op.kind # "uninstall" => disk'["backend"].vendor[Op.plugin] = Op.version
    <3>1. disk'["backend"] = [disk["backend"] EXCEPT !.vendor[Op.plugin] = v]
      BY <2>1, <2>3, CalmIs DEF Typed
    <3>2. /\ disk'["backend"].bundles = disk["backend"].bundles
          /\ disk'["backend"].vendor = [disk["backend"].vendor EXCEPT ![Op.plugin] = v]
      BY <2>1, <3>1 DEF State
    <3>3. DOMAIN disk["backend"].vendor = Plugin /\ Op.plugin \in Plugin
      BY <1>1, <2>1, OperatingCalm DEF State
    <3> QED BY <2>3, <3>2, <3>3
  <2> QED BY <2>2, <2>3 DEF Package
<1>6. on \subseteq Plugin
  BY CalmIs DEF Typed
<1>7. Stepwise'
  BY <1>1, <1>2, <1>3, <1>4, <1>5, <1>6 DEF Stepwise, Resting, Moves, Good
<1> QED BY <1>1, <1>2, <1>7, MovedOrdered, BusyAgrees

\* The rest of the drain fits what is recorded now.
LEMMA AdvancedOrdered ==
  ASSUME Calm, task.stage \in {"finalize", "enable"}, Advances, UNCHANGED <<snapshot, core>>,
         \A p \in Plugin : p # Op.plugin => rows'[p] = rows[p],
         (Distinct(queue) /\ \A i \in DOMAIN queue : MayInstall(queue[i]))'
  PROVE  Ordered' /\ task' # NoTask
<1>1. /\ task.kind = "drain" /\ task \in Tasks /\ task.left # <<>> /\ Lined
      /\ Op = task.left[1]
  BY OperatingCalm, StagesApart
<1>2. PICK n \in Nat : Len(task.left) = n + 1 /\ DOMAIN task.left = 1..(n + 1)
  BY <1>1 DEF Tasks
<1>3. PICK l : l = Tail(task.left)
  OBVIOUS
<1>4. /\ DOMAIN l = 1..n /\ \A i \in 1..n : l[i] = task.left[i + 1]
      /\ \A i \in 1..(n + 1) : task.left[i] \in Ops
  BY <1>1, <1>2, <1>3 DEF Tasks
<1>5. Distinct(l)
  <2>1. Distinct(task.left)
    BY <1>1 DEF Lined
  <2>2. ASSUME NEW i \in 1..n, NEW j \in 1..n, l[i].plugin = l[j].plugin PROVE i = j
    <3>1. i + 1 \in DOMAIN task.left /\ j + 1 \in DOMAIN task.left
      BY <1>2
    <3>2. task.left[i + 1].plugin = task.left[j + 1].plugin
      BY <1>4, <2>2
    <3>3. i + 1 = j + 1
      BY <2>1, <3>1, <3>2 DEF Distinct
    <3> QED BY <3>3
  <2> QED BY <1>4, <2>2 DEF Distinct
<1>6. ASSUME NEW i \in DOMAIN l, l[i].kind = "install" PROVE rows'[l[i].plugin] = 0
  <2>1. i + 1 \in 1..(n + 1) /\ i + 1 # 1 /\ 1 \in 1..(n + 1) /\ l[i] = task.left[i + 1]
    BY <1>4
  <2>2. l[i].plugin \in Plugin
    BY <1>4, <2>1 DEF Ops
  <2>3. l[i].plugin # Op.plugin
    BY <1>1, <1>2, <2>1 DEF Lined, Distinct
  <2>4. rows[l[i].plugin] = 0
    BY <1>1, <1>2, <1>6, <2>1 DEF Lined, MayInstall
  <2> QED BY <2>2, <2>3, <2>4
<1>7. task'.left = l /\ task'.kind = "drain" /\ task'.stage \in {"package", "snapshot"}
  BY <1>1, <1>3 DEF Advances
<1>8. Lined'
  BY <1>5, <1>6, <1>7 DEF Lined, Distinct, MayInstall
<1>9. Whole'
  BY CalmIs, WholeStays DEF Ordered
<1>10. Ordered'
  BY <1>7, <1>8, <1>9 DEF Ordered
<1> QED BY <1>7, <1>10, IdleIs

\* The queue holds no operation of this plugin any more.
LEMMA UnparkedFits ==
  ASSUME Calm, NEW p, queue' = Unparked(p), \A q \in Plugin : q # p => rows'[q] = rows[q]
  PROVE  (Distinct(queue) /\ \A i \in DOMAIN queue : MayInstall(queue[i]))'
<1>1. Distinct(queue) /\ \A i \in DOMAIN queue : MayInstall(queue[i])
  BY CalmIs DEF Ordered
<1>2. queue \in Seq(Ops)
  BY CalmIs, TypedParts
<1>3. PICK u : u = Unparked(p)
  OBVIOUS
<1>4. /\ Distinct(u) /\ \A i \in DOMAIN u : u[i].plugin # p
      /\ \A i \in DOMAIN u : \E j \in DOMAIN queue : u[i] = queue[j]
  BY <1>1, <1>2, <1>3, UnparkedIs
<1>5. \A j \in DOMAIN queue : queue[j].plugin \in Plugin
  <2>1. \A j \in DOMAIN queue : queue[j] \in Ops
    BY <1>2
  <2> QED BY <2>1 DEF Ops
<1>6. \A i \in DOMAIN u : u[i].plugin \in Plugin /\ MayInstall(u[i])
  BY <1>1, <1>4, <1>5
<1>7. \A i \in DOMAIN u : u[i].kind = "install" => rows'[u[i].plugin] = 0
  BY <1>4, <1>6 DEF MayInstall
<1>8. queue' = u
  BY <1>3
<1> QED BY <1>4, <1>7, <1>8 DEF MayInstall, Distinct

LEMMA EnablingOrdered ==
  ASSUME Calm, task.stage = "finalize", Moves("enable"), UNCHANGED <<snapshot, core>>,
         \A p \in Plugin : p # Op.plugin => rows'[p] = rows[p], queue' = Unparked(Op.plugin)
  PROVE  Ordered' /\ task' # NoTask
<1>1. task.kind = "drain" /\ task \in Tasks /\ Lined /\ Op = task.left[1] /\ 1 \in DOMAIN task.left
  BY OperatingCalm, StagesApart
<1>2. PICK l \in Seq(Ops) : l = task.left
  BY <1>1 DEF Tasks
<1>3. \A i \in DOMAIN l : i # 1 => l[i].plugin \in Plugin /\ l[i].plugin # Op.plugin /\ MayInstall(l[i])
  <2>1. \A i \in DOMAIN l : l[i] \in Ops
    BY <1>2
  <2>2. \A i \in DOMAIN l : i # 1 => l[i].plugin # Op.plugin /\ MayInstall(l[i])
    BY <1>1, <1>2 DEF Lined, Distinct
  <2> QED BY <2>1, <2>2 DEF Ops
<1>4. \A i \in DOMAIN l : i # 1 => (l[i].kind = "install" => rows'[l[i].plugin] = 0)
  BY <1>3 DEF MayInstall
<1>5. task'.left = l /\ task'.kind = "drain" /\ task'.stage = "enable"
  BY <1>1, <1>2 DEF Moves
<1>6. Lined'
  BY <1>1, <1>2, <1>4, <1>5 DEF Lined, Distinct, MayInstall
<1>7. Whole'
  BY CalmIs, WholeStays DEF Ordered
<1>8. Ordered'
  BY <1>5, <1>6, <1>7, UnparkedFits DEF Ordered
<1> QED BY <1>5, <1>8, IdleIs

LEMMA FinalizeAgrees ==
  ASSUME Calm, Finalize
  PROVE  Agrees'
<1>1. task.stage = "finalize" /\ task.stage \in Operating
  BY CalmIs, FinalizeMoves DEF Operating
<1>2. PICK p \in Plugin : p = Op.plugin
  BY <1>1, OperatingCalm
<1>3. PICK v : v = IF Op.kind = "uninstall" THEN 0 ELSE Op.version
  OBVIOUS
<1>4. /\ rows' = [rows EXCEPT ![p] = v]
      /\ on' = (IF Op.kind = "uninstall" THEN on \ {p} ELSE on)
      /\ Regenerate(on') /\ queue' = Unparked(p) /\ UNCHANGED <<core, snapshot>>
  BY <1>2, <1>3 DEF Finalize
<1>5. on \subseteq Plugin /\ on' \subseteq Plugin /\ DOMAIN rows = Plugin
  BY <1>4, CalmIs DEF Typed
<1>6. rows'[p] = v /\ \A q \in Plugin : q # p => rows'[q] = rows[q]
  BY <1>4, <1>5
<1>7. /\ disk'["backend"].bundles = on' /\ disk'["backend"].marker = TRUE
      /\ disk'["backend"].vendor = disk["backend"].vendor
  BY <1>4, <1>5, CalmIs, RegenerateIs
<1>8. /\ \A q \in on \ {p} : disk["backend"].vendor[q] = rows[q]
      /\ Op.kind # "uninstall" => disk["backend"].vendor[p] = Op.version
  BY <1>1, <1>2, CalmIs DEF Stepwise
<1>9. (Good(disk["backend"]) /\ disk["backend"].marker)'
  <2>1. ASSUME NEW q \in on' PROVE disk'["backend"].vendor[q] = rows'[q]
    <3>1. CASE q = p
      <4>1. Op.kind # "uninstall"
        BY <1>4, <2>1, <3>1
      <4> QED BY <1>3, <1>6, <1>7, <1>8, <3>1, <4>1
    <3>2. CASE q # p
      <4>1. q \in on \ {p} /\ q \in Plugin
        BY <1>4, <1>5, <2>1, <3>2
      <4> QED BY <1>6, <1>7, <1>8, <3>2, <4>1
    <3> QED BY <3>1, <3>2
  <2> QED BY <1>7, <2>1 DEF Good
<1>10. CASE Op.kind = "install" /\ Moves("enable")
  <2>1. Op' = Op /\ disk'["backend"].vendor[Op.plugin] = rows'[Op.plugin]
    BY <1>2, <1>3, <1>6, <1>7, <1>8, <1>10 DEF Moves, Op
  <2>2. Stepwise'
    BY <1>9, <1>10, <2>1 DEF Stepwise, Resting, Moves
  <2>3. Ordered' /\ task' # NoTask
    BY <1>1, <1>2, <1>4, <1>6, <1>10, EnablingOrdered
  <2> QED BY <2>2, <2>3, BusyAgrees
<1>11. CASE Advances
  <2>1. Stepwise'
    BY <1>9, <1>11 DEF Stepwise, Resting, Advances
  <2>2. Ordered' /\ task' # NoTask
    BY <1>1, <1>2, <1>4, <1>6, <1>11, UnparkedFits, AdvancedOrdered
  <2> QED BY <2>1, <2>2, BusyAgrees
<1> QED BY <1>10, <1>11, CalmIs, FinalizeMoves

LEMMA EnableAgrees ==
  ASSUME Calm, Enable
  PROVE  Agrees'
<1>1. task.stage = "enable" /\ task.stage \in Operating /\ Advances
  BY CalmIs, EnableMoves DEF Operating
<1>2. PICK p \in Plugin : p = Op.plugin
  BY <1>1, OperatingCalm
<1>3. /\ on' = on \union {p} /\ Regenerate(on') /\ UNCHANGED <<core, rows, queue, snapshot>>
  BY <1>2 DEF Enable
<1>4. on' \subseteq Plugin
  BY <1>3, CalmIs DEF Typed
<1>5. /\ disk'["backend"].bundles = on' /\ disk'["backend"].marker = TRUE
      /\ disk'["backend"].vendor = disk["backend"].vendor
  BY <1>3, <1>4, CalmIs, RegenerateIs
<1>6. Good(disk["backend"]) /\ disk["backend"].vendor[p] = rows[p]
  BY <1>1, <1>2, CalmIs DEF Stepwise
<1>7. (Good(disk["backend"]) /\ disk["backend"].marker)'
  BY <1>3, <1>5, <1>6 DEF Good
<1>8. Stepwise'
  BY <1>1, <1>7 DEF Stepwise, Resting, Advances
<1>9. Ordered' /\ task' # NoTask
  <2>1. (Distinct(queue) /\ \A i \in DOMAIN queue : MayInstall(queue[i]))'
    BY <1>3, CalmIs DEF Ordered, MayInstall, Distinct
  <2> QED BY <1>1, <1>3, <2>1, AdvancedOrdered
<1> QED BY <1>8, <1>9, BusyAgrees

\* An operation does not fail, for what it works on boots.
LEMMA NoFailure ==
  ASSUME Calm, count'.mishaps = 0
  PROVE  /\ ~FinalizeAgain /\ ~OpFails /\ ~Cancel /\ ~Throw /\ ~ManagerDies
         /\ ~SafeOn /\ ~SafeOff /\ ~Probe
<1>1. ~Mishap
  BY CalmIs, ChangeIs DEF Calm
<1>2. ASSUME FinalizeAgain PROVE FALSE
  <2>1. task.stage = "finalize" /\ task.stage \in Operating /\ Op.kind = "install" /\ rows[Op.plugin] > 0
    BY <1>2 DEF FinalizeAgain, At, Operating
  <2>2. rows[Op.plugin] = 0
    BY <2>1, OperatingCalm DEF MayInstall
  <2> QED BY <2>1, <2>2
<1>3. ASSUME OpFails PROVE FALSE
  <2>1. task.stage \in {"finalize", "enable"} /\ ~Up /\ (Finalizable => count.mishaps > 0)
    BY <1>1, <1>3 DEF OpFails, At
  <2>2. ~Finalizable
    BY <2>1 DEF Calm
  <2>3. CASE task.stage = "enable"
    BY <2>1, <2>3, CalmIs, GoodBoots DEF Stepwise
  <2>4. CASE task.stage = "finalize"
    <3>1. task.stage \in Operating
      BY <2>4 DEF Operating
    <3>2. \A q \in on : rows[q] > 0
      BY CalmIs DEF Typed
    <3>3. /\ disk["backend"].bundles = on
          /\ \A q \in on \ {Op.plugin} : disk["backend"].vendor[q] = rows[q]
          /\ Op.kind # "uninstall" => disk["backend"].vendor[Op.plugin] = Op.version
      BY <2>4, CalmIs DEF Stepwise
    <3>4. CASE Op.kind = "uninstall"
      BY <2>2, <3>2, <3>3, <3>4 DEF Finalizable
    <3>5. CASE Op.kind # "uninstall"
      <4>1. Op.version > 0
        BY <3>1, OperatingCalm
      <4>2. Loadable("backend")
        BY <3>2, <3>3, <3>5, <4>1 DEF Loadable
      <4> QED BY <2>1, <4>2 DEF Up
    <3> QED BY <3>4, <3>5
  <2> QED BY <2>1, <2>3, <2>4
<1>4. ASSUME Throw PROVE FALSE
  <2>1. CASE snapshot = Torn(core)
    <3>1. snapshot.core = core
      BY <2>1 DEF Torn
    <3> QED BY <2>1, <3>1, CalmIs DEF Ordered, Whole
  <2>2. CASE At("repair") /\ ~Up /\ task.kind = "reinstall"
    BY <2>2, CalmIs, GoodBoots DEF Stepwise, At
  <2> QED BY <1>1, <1>4, <2>1, <2>2 DEF Throw
<1>5. ASSUME Cancel PROVE FALSE
  BY <1>5, CalmIs DEF Cancel, At
<1>6. ASSUME SafeOn \/ SafeOff \/ Probe PROVE FALSE
  BY <1>6, CalmIs, SafeOnMoves, SafeOffMoves, ProbeMoves
<1> QED BY <1>1, <1>2, <1>3, <1>4, <1>5, <1>6 DEF ManagerDies

----------------------------------------------------------------------------
(* A reinstall, a remount and what every task ends with *)

LEMMA RequireAgrees ==
  ASSUME Calm, Require
  PROVE  Agrees'
<1>1. task.stage = "require" /\ Moves("repair") /\ UNCHANGED <<rows, on, queue, snapshot, core>>
  BY CalmIs, RequireMoves DEF Require
<1>2. disk["backend"].bundles = {}
  BY <1>1, CalmIs DEF Stepwise
<1>3. disk' = [disk EXCEPT !["backend"].vendor = rows] /\ disk["backend"] \in State
  BY CalmIs, ServicesAre DEF Require, Typed
<1>4. disk'["backend"].bundles = {} /\ disk'["backend"].vendor = rows
  BY <1>2, <1>3, CalmIs, ServicesAre DEF Typed, State
<1>5. Stepwise'
  BY <1>1, <1>4 DEF Stepwise, Resting, Moves
<1> QED BY <1>1, <1>5, MovedOrdered, BusyAgrees

LEMMA RepairAgrees ==
  ASSUME Calm, Repair
  PROVE  Agrees'
<1>1. task.stage = "repair" /\ Moves("snapshot") /\ UNCHANGED <<rows, on, queue, snapshot, core>>
  BY CalmIs, RepairMoves DEF Repair
<1>2. disk["backend"].vendor = rows /\ Regenerate(on) /\ on \subseteq Plugin
  BY <1>1, CalmIs DEF Stepwise, Repair, Typed
<1>3. /\ disk'["backend"].bundles = on /\ disk'["backend"].marker = TRUE
      /\ disk'["backend"].vendor = rows
  BY <1>2, CalmIs, RegenerateIs
<1>4. (Good(disk["backend"]) /\ disk["backend"].marker)'
  BY <1>1, <1>3 DEF Good
<1>5. Stepwise'
  BY <1>1, <1>4 DEF Stepwise, Resting, Moves
<1> QED BY <1>1, <1>5, MovedOrdered, BusyAgrees

LEMMA ArchiveAgrees ==
  ASSUME Calm, Archive
  PROVE  Agrees'
<1>1. task.stage = "snapshot" /\ Moves("sync") /\ UNCHANGED <<rows, on, queue, disk, core>>
  BY CalmIs, ArchiveMoves DEF Archive
<1>2. snapshot' = [core |-> core, image |-> disk["backend"]]
  BY DEF Archive
<1>3. Good(disk["backend"]) /\ disk["backend"].marker
  BY <1>1, CalmIs DEF Stepwise
<1>4. snapshot'.core = core' /\ snapshot'.image = disk'["backend"] /\ snapshot'.image.marker
  BY <1>1, <1>2, <1>3
<1>5. Whole'
  <2>1. core \in Nat
    BY CalmIs, TypedParts
  <2>2. snapshot' # Torn(snapshot'.core)
    <3>1. \A c : Torn(c).image.marker = FALSE
      BY DEF Torn, Baked
    <3> QED BY <1>4, <3>1
  <2> QED BY <1>1, <1>4, <2>1, <2>2 DEF Whole, Torn, Baked, None, Dead
<1>6. (Good(disk["backend"]) /\ Good(snapshot.image) /\ disk["backend"].marker)'
  BY <1>1, <1>3, <1>4 DEF Good
<1>7. Recoverable'
  BY <1>4, <1>6 DEF Recoverable
<1>8. Stepwise'
  BY <1>1, <1>6, <1>7 DEF Stepwise, Resting, Moves
<1>9. Ordered'
  <2>1. (Distinct(queue) /\ \A i \in DOMAIN queue : MayInstall(queue[i]))'
    BY <1>1, CalmIs DEF Ordered, MayInstall, Distinct
  <2>2. Lined => Lined'
    BY <1>1 DEF Lined, MayInstall, Distinct, Moves
  <2> QED BY <1>1, <1>5, <2>1, <2>2, CalmIs DEF Ordered, Moves
<1> QED BY <1>1, <1>8, <1>9, BusyAgrees, IdleIs DEF Moves, Tasks

LEMMA SyncAgrees ==
  ASSUME Calm, NEW s \in Follower, Sync(s)
  PROVE  Agrees'
<1>1. /\ task.stage = "sync" /\ task'.stage = "sync" /\ task'.kind = task.kind
      /\ task'.left = task.left
  BY CalmIs, SyncMoves
<1>2. UNCHANGED <<rows, on, queue, snapshot, core>> /\ disk'["backend"] = disk["backend"]
  BY CalmIs, ServicesAre DEF Sync, Typed
<1>3. Recoverable' /\ Good(disk["backend"])' /\ disk'["backend"].marker
  BY <1>1, <1>2, CalmIs, RecoverableStays DEF Stepwise, Resting
<1>4. Stepwise'
  BY <1>1, <1>3 DEF Stepwise, Resting
<1>5. Ordered'
  BY <1>1, <1>2, CalmIs, OrderedStays
<1> QED BY <1>1, <1>4, <1>5, IdleIs, BusyAgrees

LEMMA RemountAgrees ==
  ASSUME Calm, Remount
  PROVE  Agrees'
<1>1. /\ task.stage = "remount" /\ task.kind = "remount"
      /\ UNCHANGED <<rows, on, queue, snapshot, core, runs>>
  BY CalmIs, RemountMoves DEF Remount
<1>2. Recoverable
  BY <1>1, CalmIs DEF Stepwise, Resting
<1>3. CASE task' = NoTask /\ inStep' = (rows = None) /\ UNCHANGED disk
  <2>1. Ordered' /\ Recoverable'
    BY <1>1, <1>2, <1>3, CalmIs, OrderedStays, IdleIs, RecoverableStays
  <2>2. inStep' /\ ~safe' => runs'["backend"] = Recorded'
    <3>1. runs["backend"] = None
      BY <1>1, CalmIs, ServicesAre DEF Spread
    <3>2. rows = None => Recorded = None
      BY CalmIs, NothingRecorded
    <3>3. Recorded' = Recorded
      BY <1>1 DEF Recorded
    <3> QED BY <1>1, <1>3, <3>1, <3>2, <3>3
  <2> QED BY <1>3, <2>1, <2>2, IdleAgrees
<1>4. CASE /\ Moves("rebuild") /\ snapshot.core = core
           /\ disk' = [s \in Service |-> snapshot.image]
  <2>1. Good(snapshot.image) /\ snapshot.image.marker
    BY <1>2, <1>4 DEF Recoverable
  <2>2. disk'["backend"] = snapshot.image
    BY <1>4, ServicesAre
  <2>3. (Good(disk["backend"]) /\ Good(snapshot.image) /\ disk["backend"].marker
           /\ snapshot.image.marker)'
    BY <1>1, <2>1, <2>2 DEF Good
  <2>4. Recoverable'
    BY <1>1, <1>4, <2>3 DEF Recoverable
  <2>5. Stepwise'
    BY <1>4, <2>3, <2>4 DEF Stepwise, Resting, Moves
  <2> QED BY <1>1, <1>4, <2>5, MovedOrdered, BusyAgrees
<1> QED BY <1>3, <1>4, CalmIs, RemountMoves

LEMMA RebuildAgrees ==
  ASSUME Calm, RebuildCaches
  PROVE  Agrees'
<1>1. task.stage \in {"rebuild", "sync"} /\ Moves("restart")
  BY CalmIs, RebuildMoves
<1>2. UNCHANGED <<rows, on, queue, snapshot, core, disk>>
  BY DEF RebuildCaches
<1>3. Recoverable' /\ Good(disk["backend"])' /\ disk'["backend"].marker
  BY <1>1, <1>2, CalmIs, RecoverableStays DEF Stepwise, Resting
<1>4. Stepwise'
  BY <1>1, <1>3 DEF Stepwise, Resting, Moves
<1> QED BY <1>1, <1>2, <1>4, MovedOrdered, BusyAgrees

LEMMA RestartAgrees ==
  ASSUME Calm, Restart
  PROVE  Agrees'
<1>1. task.stage = "restart" /\ task' = NoTask
  BY CalmIs, RestartMoves
<1>2. /\ runs' = [s \in Service |-> Booted(s)]
      /\ UNCHANGED <<rows, on, queue, snapshot, core, disk, safe>>
  BY DEF Restart
<1>3. Recoverable /\ Good(disk["backend"])
  BY <1>1, CalmIs DEF Stepwise, Resting
<1>4. cache["backend"] \in {Cold, Compiled("backend")}
  BY <1>1, CalmIs, ServicesAre DEF Spread
<1>5. ~safe => Booted("backend") = Recorded
  <2> SUFFICES ASSUME ~safe PROVE Booted("backend") = Recorded
    OBVIOUS
  <2>1. Compiled("backend") = on /\ disk["backend"].bundles = on
    BY <1>3 DEF Compiled, Good
  <2>2. Loadable("backend")
    BY <1>3, CalmIs, GoodBoots
  <2>3. Booted("backend") = [p \in Plugin |-> IF p \in on THEN disk["backend"].vendor[p] ELSE 0]
    BY <1>4, <2>1, <2>2 DEF Booted
  <2> QED BY <1>3, <2>3 DEF Recorded, Good
<1>6. Recorded' = Recorded
  BY <1>2 DEF Recorded
<1>7. Ordered' /\ Recoverable'
  BY <1>1, <1>2, <1>3, CalmIs, OrderedStays, IdleIs, RecoverableStays
<1> QED BY <1>1, <1>2, <1>5, <1>6, <1>7, IdleAgrees, ServicesAre

LEMMA MishapsGrow ==
  ASSUME Typed, [PluginsNext]_pluginsVars
  PROVE  count'.mishaps \in {count.mishaps, count.mishaps + 1}
<1>1. ASSUME NEW p \in Plugin, Park(p) PROVE count'.mishaps = count.mishaps
  BY <1>1, TypedParts DEF Park
<1>2. CASE Drain \/ Recreate \/ RecreateByHand \/ UpdateCore \/ Recover \/ SafeMode
  BY <1>2, ChangeIs DEF Drain, Recreate, RecreateByHand, UpdateCore, Recover, SafeMode
<1>3. CASE Throw \/ ManagerDies
  BY <1>3, ChangeIs DEF Throw, ManagerDies
<1>4. CASE Proceed
  <2>1. CASE Regain \/ Package \/ Finalize \/ FinalizeAgain \/ Enable \/ OpFails \/ Cancel
    BY <2>1, ChangeIs DEF Regain, Package, Finalize, FinalizeAgain, Enable, OpFails, Cancel
  <2>2. CASE Require \/ Repair \/ Archive \/ (\E s \in Follower : Sync(s)) \/ Remount
    BY <2>2, ChangeIs DEF Require, Repair, Archive, Sync, Remount
  <2>3. CASE RebuildCaches \/ Restart \/ SafeOn \/ SafeOff \/ Probe
    BY <2>3 DEF RebuildCaches, Restart, SafeOn, SafeOff, Probe
  <2> QED BY <1>4, <2>1, <2>2, <2>3 DEF Proceed
<1>5. CASE UNCHANGED pluginsVars
  BY <1>5 DEF pluginsVars
<1> QED BY <1>1, <1>2, <1>3, <1>4, <1>5 DEF PluginsNext

LEMMA UnharmedNext ==
  ASSUME Typed, Engaged, Spread, Unharmed, [PluginsNext]_pluginsVars
  PROVE  Unharmed'
<1> SUFFICES ASSUME Prudent, count'.mishaps = 0 PROVE Agrees'
  BY DEF Unharmed
<1>1. count.mishaps = 0
  <2>1. count'.mishaps \in {count.mishaps, count.mishaps + 1} /\ count.mishaps \in Nat
    BY MishapsGrow DEF Typed
  <2> QED BY <2>1
<1>2. Calm
  BY <1>1 DEF Calm, Unharmed
<1>3. CASE UNCHANGED pluginsVars
  <2>1. /\ core' = core /\ rows' = rows /\ on' = on /\ disk' = disk /\ runs' = runs /\ safe' = safe
        /\ snapshot' = snapshot /\ task' = task /\ inStep' = inStep /\ queue' = queue
    BY <1>3 DEF pluginsVars
  <2>2. Whole' /\ (Distinct(queue) /\ \A i \in DOMAIN queue : MayInstall(queue[i]))'
    BY <1>2, <2>1, CalmIs, WholeStays DEF Ordered, MayInstall, Distinct
  <2>3. (task.kind = "drain" => Lined)'
    BY <1>2, <2>1, CalmIs DEF Ordered, Lined, MayInstall, Distinct
  <2>4. Ordered'
    BY <1>2, <2>1, <2>2, <2>3, CalmIs DEF Ordered
  <2>5. Stepwise'
    BY <1>2, <2>1, CalmIs DEF Stepwise, Recoverable, Good, Op
  <2>6. task = NoTask /\ inStep /\ ~safe => runs["backend"] = Recorded
    BY <1>2 DEF Calm, Agrees
  <2> QED BY <2>1, <2>4, <2>5, <2>6 DEF Agrees, Recorded
<1>4. CASE Proceed
  <2>1. CASE Regain \/ Package \/ Finalize \/ Enable
    BY <1>2, <2>1, RegainAgrees, PackageAgrees, FinalizeAgrees, EnableAgrees
  <2>2. CASE Require \/ Repair \/ Archive \/ (\E s \in Follower : Sync(s))
    BY <1>2, <2>2, RequireAgrees, RepairAgrees, ArchiveAgrees, SyncAgrees
  <2>3. CASE Remount \/ RebuildCaches \/ Restart
    BY <1>2, <2>3, RemountAgrees, RebuildAgrees, RestartAgrees
  <2> QED BY <1>2, <1>4, <2>1, <2>2, <2>3, NoFailure DEF Proceed
<1>5. ASSUME NEW p \in Plugin, Park(p) PROVE Agrees'
  BY <1>2, <1>5, ParkAgrees
<1> QED BY <1>2, <1>3, <1>4, <1>5, BeginAgrees, NoFailure DEF PluginsNext

----------------------------------------------------------------------------
(* The core a snapshot is of *)

\* A core update that failed leaves a snapshot of the core it was to install.
Dated ==
  /\ snapshot = NoSnapshot \/ snapshot.core \in 1..(core + 1)
  /\ task.kind = "reinstall" => snapshot.core <= core

LEMMA KindStays ==
  ASSUME Typed, Engaged, Proceed
  PROVE  task'.kind \in {task.kind, "none"}
<1>1. CASE Regain \/ Package \/ Finalize \/ FinalizeAgain \/ Enable \/ OpFails \/ Cancel
  BY <1>1, RegainMoves, PackageMoves, FinalizeMoves, FinalizeAgainMoves, EnableMoves, OpFailsMoves,
     CancelMoves, IdleIs DEF Moves, Advances
<1>2. CASE Require \/ Repair \/ Archive \/ (\E s \in Follower : Sync(s)) \/ Remount
  BY <1>2, RequireMoves, RepairMoves, ArchiveMoves, SyncMoves, RemountMoves, IdleIs DEF Moves
<1>3. CASE RebuildCaches \/ Restart \/ SafeOn \/ SafeOff \/ Probe
  BY <1>3, RebuildMoves, RestartMoves, SafeOnMoves, SafeOffMoves, ProbeMoves, IdleIs DEF Moves
<1> QED BY <1>1, <1>2, <1>3 DEF Proceed

LEMMA DatedStays ==
  ASSUME Dated, UNCHANGED <<core, snapshot>>, task'.kind = "reinstall" => task.kind = "reinstall"
  PROVE  Dated'
BY DEF Dated, NoSnapshot

LEMMA DatedNext ==
  ASSUME Typed, Engaged, Dated, [PluginsNext]_pluginsVars
  PROVE  Dated'
<1>1. core \in Nat /\ core > 0
  BY TypedParts
<1>2. CASE UpdateCore
  <2>1. core' = core + 1 /\ snapshot' = snapshot
    BY <1>2 DEF UpdateCore
  <2>2. snapshot = NoSnapshot => snapshot.core = 0
    BY DEF NoSnapshot
  <2> QED BY <1>1, <2>1, <2>2 DEF Dated, NoSnapshot
<1>3. CASE Archive
  BY <1>1, <1>3 DEF Archive, Dated
<1>4. CASE Throw
  <2>1. task' = NoTask
    BY <1>4 DEF Throw
  <2>2. Torn(core).core = core /\ NoSnapshot.core = 0
    BY DEF Torn, NoSnapshot
  <2>3. CASE task.kind = "reinstall"
    <3>1. core' = core - 1 /\ core > 1
      BY <1>4, <2>3 DEF Throw, Engaged
    <3>2. snapshot' = snapshot \/ snapshot' = NoSnapshot \/ snapshot' = Torn(core)
      BY <1>4 DEF Throw
    <3>3. snapshot' = NoSnapshot \/ snapshot'.core \in 1..core
      BY <1>1, <2>2, <2>3, <3>1, <3>2 DEF Dated
    <3> QED BY <1>1, <2>1, <3>1, <3>3, IdleIs DEF Dated, NoSnapshot
  <2>4. CASE task.kind # "reinstall"
    <3>1. core' = core /\ (snapshot' = snapshot \/ snapshot' = NoSnapshot \/ snapshot' = Torn(core))
      BY <1>4, <2>4 DEF Throw
    <3>2. snapshot' = NoSnapshot \/ snapshot'.core \in 1..(core + 1)
      BY <1>1, <2>2, <3>1 DEF Dated
    <3> QED BY <2>1, <3>1, <3>2, IdleIs DEF Dated, NoSnapshot
  <2> QED BY <2>3, <2>4
<1>5. CASE Proceed /\ ~Archive
  <2>1. UNCHANGED <<core, snapshot>>
    BY <1>5 DEF Proceed, Regain, Package, Finalize, FinalizeAgain, Enable, OpFails, Cancel, Require,
                Repair, Sync, Remount, RebuildCaches, Restart, SafeOn, SafeOff, Probe
  <2> QED BY <1>5, <2>1, KindStays, DatedStays
<1>6. CASE Drain \/ Recreate \/ RecreateByHand \/ Recover \/ SafeMode
  <2>1. UNCHANGED <<core, snapshot>>
    BY <1>6 DEF Drain, Recreate, RecreateByHand, Recover, SafeMode
  <2>2. task'.kind # "reinstall"
    BY <1>6, DrainBegins, RecreateBegins, RecoverBegins, IdleIs DEF Begins, RecreateByHand, SafeMode
  <2> QED BY <2>1, <2>2, DatedStays
<1>7. CASE ManagerDies
  <2>1. UNCHANGED <<core, snapshot>> /\ task' = NoTask
    BY <1>7 DEF ManagerDies
  <2> QED BY <2>1, DatedStays, IdleIs
<1>8. ASSUME NEW p \in Plugin, Park(p) PROVE Dated'
  BY <1>8, DatedStays DEF Park
<1>9. CASE UNCHANGED pluginsVars
  BY <1>9, DatedStays DEF pluginsVars
<1> QED BY <1>2, <1>3, <1>4, <1>5, <1>6, <1>7, <1>8, <1>9 DEF PluginsNext

LEMMA TypeIs == ASSUME Typed, Engaged, Dated PROVE PluginsTypeOK
<1>1. snapshot \in {NoSnapshot} \union {Torn(c) : c \in 1..core + 1}
                  \union [core : 1..core + 1, image : State]
  <2>1. CASE snapshot = NoSnapshot
    BY <2>1
  <2>2. CASE snapshot # NoSnapshot /\ snapshot = Torn(snapshot.core)
    BY <2>2 DEF Dated
  <2>3. CASE snapshot # NoSnapshot /\ Archived
    BY <2>3 DEF Dated, Archived
  <2> QED BY <2>1, <2>2, <2>3 DEF Typed
<1>2. task.stage \in Stages
  BY DEF Engaged, Tasks, NoTask, Stages
<1>3. \A s \in Service : cache[s] = Cold \/ cache[s] \subseteq Plugin
  BY DEF Typed
<1>4. /\ rows \in [Plugin -> 0..MaxVersion] /\ on \subseteq {p \in Plugin : rows[p] > 0}
      /\ disk \in [Service -> State]
      /\ safe \in BOOLEAN /\ inStep \in BOOLEAN /\ outcome \in {"none", "recovered", "safe"}
  BY DEF Typed
<1> QED BY <1>1, <1>2, <1>3, <1>4 DEF PluginsTypeOK

----------------------------------------------------------------------------
(* Theorems *)

LEMMA Invariance == PluginsSpec => [](Typed /\ Engaged /\ Spread /\ Unharmed)
<1>1. PluginsInit => Typed /\ Engaged /\ Spread /\ Unharmed
  BY PluginsTypedInit, EngagedInit, SpreadInit, AgreesInit DEF Unharmed
<1>2. Typed /\ Engaged /\ Spread /\ Unharmed /\ [PluginsNext]_pluginsVars =>
        (Typed /\ Engaged /\ Spread /\ Unharmed)'
  <2>1. ASSUME Spread, task.stage = "sync" PROVE snapshot.core = core
    BY <2>1 DEF Spread
  <2> QED BY <2>1, PluginsTypedNext, EngagedNext, SpreadNext, UnharmedNext
<1> QED BY <1>1, <1>2, PTL DEF PluginsSpec

\* Every variable has its type; a snapshot is at most of the next core,
\* left behind by a core update that failed.
THEOREM StateTyping == PluginsSpec => []PluginsTypeOK
<1>1. PluginsInit => Dated
  BY IdleIs DEF PluginsInit, Dated
<1>2. Typed /\ Engaged /\ Dated /\ [PluginsNext]_pluginsVars => Dated'
  BY DatedNext
<1>3. Typed /\ Engaged /\ Dated => PluginsTypeOK
  BY TypeIs
<1> QED BY <1>1, <1>2, <1>3, Invariance, PTL DEF PluginsSpec

\* "If the probe boots cleanly the instance is recovered; if it still fatals, safe mode is
\* re-enabled so the instance stays up" (support.ts:522-524): after every recovery, whatever
\* failed or crashed before, the backend boots and runs, in safe mode exactly if the
\* recovery said so.  There has to be a plugin: without one the model cannot tell a service
\* that has loaded nothing from a dead one.
THEOREM RecoveryIsHeld == ASSUME PluginIsThere PROVE PluginsSpec => []RecoveryHolds
<1>1. PluginsInit => Recovering
  BY RecoveringInit
<1>2. Typed /\ Engaged /\ Recovering /\ [PluginsNext]_pluginsVars => Recovering'
  BY RecoveringNext
<1>3. Recovering => RecoveryHolds
  BY DEF Recovering
<1> QED BY <1>1, <1>2, <1>3, Invariance, PTL DEF PluginsSpec

\* "byte-identical state" (plugin-state.ts:29): after a drain, a reinstall or a remount all
\* services run the same plugins, whatever has failed before.
ServicesAlike == task = NoTask /\ inStep /\ ~safe => SameRuns

THEOREM ServicesRunAlike == PluginsSpec => []ServicesAlike
<1>1. Spread => ServicesAlike
  BY IdleIs DEF Spread, ServicesAlike
<1> QED BY <1>1, Invariance, PTL

\* With operators who use the recovery on a broken backend only they run, as long as no
\* command failed, exactly the enabled plugins in the versions of the database.
THEOREM ServicesFollowDatabase == ASSUME Prudent PROVE PluginsSpec => []ServicesFollow
<1>1. Spread /\ Unharmed => ServicesFollow
  BY IdleIs DEF Spread, Unharmed, Agrees, ServicesFollow, SameRuns, Recorded
<1> QED BY <1>1, Invariance, PTL

=============================================================================
