------------------------------ MODULE Instances ------------------------------
(****************************************************************************)
(* The life of the instances of one server: install, clone, address, env    *)
(* and mailer changes, disable, keep, delete, enable, backup, update,       *)
(* restore, repair, and the clean-up of orphans.                            *)
(*                                                                          *)
(* What an operation changes is spread over places no transaction joins:    *)
(* the server inventory (one file for all instances), the instance's        *)
(* manifest, compose file, lock file and secrets, its containers and its    *)
(* database volume, its backups.  Each operation is a list of steps (Steps),*)
(* one per stretch of code between awaits that changes one of these places; *)
(* a step may fail, and then the operation stops where it is.  Operations   *)
(* hold the lock of one instance each (module Operations), so those of      *)
(* different instances interleave, and they share the inventory.            *)
(*                                                                          *)
(* .env is written with compose.yaml and not told apart from it; uploads    *)
(* and plugin volumes go with the database volume; a release is a number,   *)
(* and its migrations bring the schema to that number.                      *)
(****************************************************************************)
EXTENDS Naturals, Sequences, FiniteSets

CONSTANTS
  Id, Domain,      \* instance ids, and addresses (domain or localhost:port)
  NoDomain,        \* the address of a file that is not there
  Kinds,           \* the operations that are started
  Releases,        \* releases are 1..Releases
  MaxOps,          \* bound: operations and orphan clean-ups started
  MaxFaults,       \* bound: steps that fail though they could be done
  MaxEdits,        \* bound: changes users make to the content
  Careful          \* the operators keep to the precautions of Prudent

ASSUME InstancesAssumption ==
  /\ NoDomain \notin Domain
  /\ IsFiniteSet(Id)
  /\ {Releases, MaxOps, MaxFaults, MaxEdits} \subseteq Nat
  /\ Releases > 0
  /\ Careful \in BOOLEAN

VARIABLES
  inventory,  \* [Id -> [status, domain]]: inventory.json
  files,      \* [Id -> [manifest, compose, lock, secrets]]: the instance directory
  engine,     \* [Id -> [stack, release, volume, content, schema]]: Docker's side
  backups,    \* [Id -> Seq(snapshot)]: the backup directories, oldest first
  job,        \* [Id -> job]: the operation that holds the lock of an instance
  cleaner,    \* the orphan clean-up under way; it takes no lock
  broken,     \* history: instances an operation has failed on since their install
  stale,      \* history: some inventory write was based on an outdated read
  count       \* [ops, faults, edits]: what the bounds count

vars == <<inventory, files, engine, backups, job, cleaner, broken, stale, count>>

----------------------------------------------------------------------------
(* Values *)

Release == 1..Releases
Config == [domain : Domain, release : Release]
NoConfig == [domain |-> NoDomain, release |-> 0]   \* no such file

\* A removed, or never written, instance directory; its Docker resources; its entry.
NoFiles == [manifest |-> NoConfig, compose |-> NoConfig, lock |-> 0, secrets |-> 0]
NoEngine == [stack |-> "none", release |-> 0, volume |-> 0, content |-> 0, schema |-> 0]
Unlisted == [status |-> "unlisted", domain |-> NoDomain]
NoOne == [i \in Id |-> Unlisted]

Listed(inv, i) == inv[i].status # "unlisted"
\* The addresses an instance may take: any but those of other entries.
Claimed(i) == {inventory[j].domain : j \in {e \in Id \ {i} : Listed(inventory, e)}}
Free(i) == Domain \ Claimed(i)

\* Offline operations need a manifest and a lock to read, and pin what the lock says.
Readable(i) == files[i].manifest # NoConfig /\ files[i].lock # 0
Pinned(i, d) == [domain |-> d, release |-> files[i].lock]

\* What the database dump and the copied files of a backup hold; sound: no operation
\* had failed on the instance (of another one, the copied files may disagree).
Snapshot(i) == [config |-> files[i].manifest, content |-> engine[i].content,
                schema |-> engine[i].schema, sound |-> i \notin broken]
NoSnapshot == [config |-> NoConfig, content |-> 0, schema |-> 0, sound |-> FALSE]

Idle(k) == [kind |-> "none", on |-> k, at |-> 0, config |-> NoConfig, head |-> 0,
            seen |-> NoOne, snap |-> NoSnapshot, had |-> 0, saved |-> FALSE]
Resting == [phase |-> "rest"]
Cleaning(i) == cleaner.phase # "rest" /\ cleaner.on = i

Least(S) == CHOOSE n \in 1..(Cardinality(S) + 1) : n \notin S
\* A set of secrets nobody has: APP_SECRET, database passwords, JWT keys, ...
FreshSecrets == Least({files[i].secrets : i \in Id} \union {engine[i].volume : i \in Id})
\* A content no database, backup or running operation knows.
FreshContent ==
  Least({engine[i].content : i \in Id} \union {job[k].had : k \in Id} \union
        {job[k].snap.content : k \in Id} \union
        UNION {{backups[i][n].content : n \in DOMAIN backups[i]} : i \in Id})

----------------------------------------------------------------------------
(* The operations and their steps *)

WriteAll == <<"compose", "manifest", "lock", "look", "register">>   \* installInstance

InstallSteps == <<"reclaim", "secrets">> \o WriteAll \o <<"up", "provision">>
PrepareSteps == <<"secrets">> \o WriteAll              \* an install without start
CloneSteps == <<"renew">> \o WriteAll \o <<"copy", "up">>
AddressSteps == <<"compose", "manifest", "look", "relist", "up">>
EnvSteps == <<"manifest", "up">>
MailerSteps == <<"up">>
DisableSteps == <<"stop", "mark">>
EnableSteps == <<"up", "mark">>
DeleteSteps == <<"down", "rmdir", "unlist">>
RestoreSteps == <<"save", "stop", "import">> \o WriteAll \o <<"up">>
ImportSteps == <<"renew", "stop", "import">> \o WriteAll \o <<"up", "migrate">>
RepairSteps == <<"manifest", "enlist">>

Steps ==
  [install |-> InstallSteps, prepare |-> PrepareSteps, clone |-> CloneSteps,
   address |-> AddressSteps, env |-> EnvSteps, mailer |-> MailerSteps,
   disable |-> DisableSteps, keep |-> <<"down", "mark">>, enable |-> EnableSteps,
   delete |-> DeleteSteps, purge |-> <<"down", "wipe", "rmdir", "unlist">>,
   backup |-> <<"save">>, update |-> <<"save", "upgrade">>,
   restore |-> RestoreSteps, import |-> ImportSteps, repair |-> RepairSteps]

ASSUME KindsAssumption == Kinds \subseteq DOMAIN Steps

At(k, step) == job[k].kind # "none" /\ Steps[job[k].kind][job[k].at] = step
Busy(i) == \E k \in Id : job[k].kind # "none" /\ job[k].on = i
Deleting(i) == job[i].kind \in {"delete", "purge"}
Open(i) == engine[i].volume = files[i].secrets   \* the database accepts the secrets

\* What an operator has to keep to, since no code does: the target of a clone, of
\* an import and of an install without start has no database yet and is left alone
\* meanwhile; an install on a listed id is the retry of a failed one; the stack of a
\* disabled instance is not touched; a deleted instance is not repaired; orphans are
\* removed while nothing runs on their id.
Prudent(kind, k, i, c) ==
  Careful =>
    /\ \A e \in Id : e = i \/ job[e].on \in {i, k} => job[e].kind = "none"
    /\ ~Cleaning(i)
    /\ kind \in {"clone", "import", "prepare"} => engine[i].volume = 0
    /\ kind = "clone" => ~Listed(inventory, i)
    /\ kind \in {"install", "prepare"} =>
         /\ engine[i].schema > 0 /\ files[i].secrets > 0 => engine[i].schema = c.release
         /\ Listed(inventory, i) => i \in broken
    /\ kind \in {"address", "env", "mailer", "update", "restore"} =>
         inventory[i].status = "active"
    /\ kind = "repair" => files[i].compose # NoConfig

\* Operation kind starts on instance i under the lock of k, with what it has read.
Start(kind, k, i, c, s) ==
  /\ kind \in Kinds /\ count.ops < MaxOps
  /\ job[k].kind = "none"
  /\ Prudent(kind, k, i, c)
  /\ job' = [job EXCEPT ![k] = [kind |-> kind, on |-> i, at |-> 1, config |-> c,
               head |-> IF kind = "import" THEN files[i].lock ELSE 0,
               seen |-> IF kind \in {"disable", "keep", "delete", "purge", "enable", "repair"}
                        THEN inventory ELSE NoOne,
               snap |-> s, had |-> IF kind = "restore" THEN engine[i].content ELSE 0,
               saved |-> FALSE]]
  /\ count' = [count EXCEPT !.ops = @ + 1]
  /\ UNCHANGED <<inventory, files, engine, backups, cleaner, broken, stale>>

\* An install takes an address no other entry has; the registry gives the release.
Install(kind, i) ==
  \E d \in Free(i), r \in Release :
    Start(kind, i, i, [domain |-> d, release |-> r], NoSnapshot)

\* A clone has an id and an address that are not the source's; nothing else is asked.
Cloneable(k, i, d) == k # i /\ d # files[k].manifest.domain

\* It pins the source's release and holds the lock of the source.
Clone(k, i) ==
  /\ Readable(k)
  /\ \E d \in Domain : Cloneable(k, i, d) /\ Start("clone", k, i, Pinned(k, d), Snapshot(k))

SetAddress(i) ==
  Readable(i) /\ \E d \in Free(i) : Start("address", i, i, Pinned(i, d), NoSnapshot)

SetEnv(i) ==
  Readable(i) /\ Start("env", i, i, Pinned(i, files[i].manifest.domain), NoSnapshot)

SetMailer(i) ==
  /\ files[i].manifest # NoConfig /\ files[i].secrets # 0
  /\ Start("mailer", i, i, NoConfig, NoSnapshot)

\* planRemove: only what the inventory lists.
Remove(kind, i) == Listed(inventory, i) /\ Start(kind, i, i, NoConfig, NoSnapshot)

\* planEnable: only a disabled instance or one whose containers were removed.
Enable(i) ==
  /\ inventory[i].status \in {"disabled", "removed_keep_data"}
  /\ Start("enable", i, i, NoConfig, NoSnapshot)

Backup(i) == files[i].manifest # NoConfig /\ Start("backup", i, i, NoConfig, NoSnapshot)

Update(i) ==
  /\ Readable(i) /\ files[i].lock \in 1..(Releases - 1)
  /\ Start("update", i, i,
           [domain |-> files[i].manifest.domain, release |-> files[i].lock + 1], NoSnapshot)

\* A backup that can be read, is of this instance and passes its checksums.
Restorable(i) == DOMAIN backups[i]

\* The console restores onto the same instance, after a backup of its own.
Restore(i) ==
  \E n \in Restorable(i) : Start("restore", i, i, backups[i][n].config, backups[i][n])

\* restore --mode restore_as_clone --new-domain: the command line alone, onto the
\* directory of the instance that is named, which holds the backup.
Import(i) ==
  \E n \in Restorable(i), d \in Domain :
    Start("import", i, i, [backups[i][n].config EXCEPT !.domain = d], backups[i][n])

\* What repair makes a missing manifest from: the newest backup, else lock, compose and
\* inventory.
Source(i) ==
  IF backups[i] # <<>> THEN backups[i][Len(backups[i])].config
  ELSE IF Listed(inventory, i) /\ files[i].lock # 0 /\ files[i].compose # NoConfig
       THEN Pinned(i, inventory[i].domain)
       ELSE NoConfig

Repair(i) ==
  LET found == IF files[i].manifest # NoConfig THEN files[i].manifest ELSE Source(i)
  IN  found # NoConfig /\ Start("repair", i, i, found, NoSnapshot)

StartSome ==
  \E i \in Id :
    \/ \E kind \in {"install", "prepare"} : Install(kind, i)
    \/ \E k \in Id : Clone(k, i)
    \/ SetAddress(i) \/ SetEnv(i) \/ SetMailer(i) \/ Enable(i)
    \/ \E kind \in {"disable", "keep", "delete", "purge"} : Remove(kind, i)
    \/ Backup(i) \/ Update(i) \/ Restore(i) \/ Import(i) \/ Repair(i)

----------------------------------------------------------------------------
(* The steps *)

\* An operation that has run to its end without failure has written everything anew;
\* what is made of a snapshot that is not sound is not sound either.
Mends(j) ==
  \/ j.kind \in {"install", "delete", "purge"}
  \/ j.kind \in {"clone", "restore"} /\ j.snap.sound
Spoils(j) == j.kind \in {"clone", "restore", "import"} /\ ~j.snap.sound

\* The operation that holds lock k goes on with j, or is over.
Proceed(k, j) ==
  LET over == j.at = Len(Steps[j.kind])
  IN  /\ job' = [job EXCEPT ![k] = IF over THEN Idle(k) ELSE [j EXCEPT !.at = @ + 1]]
      /\ broken' = IF over /\ Mends(j) THEN broken \ {j.on}
                   ELSE IF over /\ Spoils(j) THEN broken \union {j.on} ELSE broken
      /\ UNCHANGED <<cleaner, count>>

\* Mutant: a restore leaves compose.yaml as it is.
RestoreKeepsCompose(k) ==
  LET i == job[k].on
      c == job[k].config
  IN  /\ \/ At(k, "compose") /\ files' = IF job[k].kind = "restore" THEN files
                                         ELSE [files EXCEPT ![i].compose = c]
         \/ At(k, "manifest") /\ files' = [files EXCEPT ![i].manifest = c]
         \/ At(k, "lock") /\ files' = [files EXCEPT ![i].lock = c.release]
      /\ Proceed(k, job[k])
      /\ UNCHANGED <<inventory, engine, backups, stale>>

WriteFile(k) ==
  LET i == job[k].on
      c == job[k].config
  IN  /\ \/ At(k, "compose") /\ files' = [files EXCEPT ![i].compose = c]
         \/ At(k, "manifest") /\ files' = [files EXCEPT ![i].manifest = c]
         \/ At(k, "lock") /\ files' = [files EXCEPT ![i].lock = c.release]
      /\ Proceed(k, job[k])
      /\ UNCHANGED <<inventory, engine, backups, stale>>

\* installInstance keeps the secrets of an earlier attempt; a clone and an import
\* always write new ones.
SecretsFor(k) ==
  IF At(k, "secrets") /\ files[job[k].on].secrets # 0 THEN files[job[k].on].secrets
  ELSE FreshSecrets

WriteSecrets(k) ==
  /\ At(k, "secrets") \/ At(k, "renew")
  /\ files' = [files EXCEPT ![job[k].on].secrets = SecretsFor(k)]
  /\ Proceed(k, job[k])
  /\ UNCHANGED <<inventory, engine, backups, stale>>

\* The inventory is read here and written a step later, as a whole.
Look(k) ==
  /\ At(k, "look")
  /\ Proceed(k, [job[k] EXCEPT !.seen = inventory])
  /\ UNCHANGED <<inventory, files, engine, backups, stale>>

\* Mutant: an address change leaves the entry at the old address.
AddressNotListed(k) ==
  LET old == job[k].seen[job[k].on]
      new == [status |-> "active", domain |-> job[k].config.domain]
      marks == [disable |-> "disabled", keep |-> "removed_keep_data", enable |-> "active"]
  IN  CASE At(k, "register") -> new
        [] At(k, "enlist") -> IF old = Unlisted THEN new ELSE old
        [] At(k, "relist") -> old
        [] At(k, "mark") -> [old EXCEPT !.status = marks[job[k].kind]]
        [] OTHER -> Unlisted

\* What the entry becomes; an address change and a mark leave a missing one missing.
Entry(k) ==
  LET old == job[k].seen[job[k].on]
      new == [status |-> "active", domain |-> job[k].config.domain]
      marks == [disable |-> "disabled", keep |-> "removed_keep_data", enable |-> "active"]
  IN  CASE At(k, "register") -> new
        [] At(k, "enlist") -> IF old = Unlisted THEN new ELSE old
        [] At(k, "relist") -> IF old = Unlisted THEN old ELSE [old EXCEPT !.domain = new.domain]
        [] At(k, "mark") -> [old EXCEPT !.status = marks[job[k].kind]]
        [] OTHER -> Unlisted

\* Repair and an address change do not write when there is nothing to write.
WriteInventory(k) ==
  LET wanted == [job[k].seen EXCEPT ![job[k].on] = Entry(k)]
      writes == At(k, "enlist") \/ At(k, "relist") => wanted # job[k].seen
  IN  /\ \E step \in {"register", "enlist", "relist", "mark", "unlist"} : At(k, step)
      /\ inventory' = IF writes THEN wanted ELSE inventory
      /\ stale' = (stale \/ (writes /\ job[k].seen # inventory))
      /\ Proceed(k, [job[k] EXCEPT !.seen = NoOne])
      /\ UNCHANGED <<files, engine, backups>>

\* Mutant: what is left of an earlier instance stays.
NotReclaimed(e, f) == e

\* Volumes without secrets belong to nobody: a fresh install removes them.
Reclaimed(e, f) == IF f.secrets = 0 THEN [e EXCEPT !.volume = 0, !.content = 0, !.schema = 0] ELSE e

\* MySQL takes its passwords from the secrets when it initialises an empty volume,
\* and never again.
Initialised(e, f) == IF e.volume = 0 THEN [e EXCEPT !.volume = f.secrets] ELSE e

Up(e, f) == [Initialised(e, f) EXCEPT !.stack = "up", !.release = f.compose.release]

Later(a, b) == IF a < b THEN b ELSE a
Migrated(e) == [e EXCEPT !.schema = Later(@, e.release)]
Provisioned(e) == [Migrated(e) EXCEPT !.content = IF @ = 0 THEN FreshContent ELSE @]

\* Only the database container is up for an import.
Loaded(e, f, d) ==
  [Initialised(e, f) EXCEPT !.content = d.content, !.schema = d.schema,
                            !.stack = IF @ = "none" THEN "stopped" ELSE @]

\* What the Docker step that is due makes of the containers and volumes.
Commanded(k) ==
  LET i == job[k].on
      e == engine[i]
      f == files[i]
  IN  CASE At(k, "reclaim") -> Reclaimed(e, f)
        [] At(k, "up") -> Up(e, f)
        [] At(k, "provision") -> Provisioned(e)
        [] At(k, "stop") -> [e EXCEPT !.stack = IF @ = "up" THEN "stopped" ELSE @]
        [] At(k, "down") -> [e EXCEPT !.stack = "none", !.release = 0]
        [] At(k, "wipe") -> [e EXCEPT !.volume = 0, !.content = 0, !.schema = 0]
        [] At(k, "import") -> Loaded(e, f, job[k].snap)
        [] At(k, "copy") -> Loaded(e, f, engine[k])
        [] At(k, "migrate") -> IF job[k].head \in {0, job[k].config.release} THEN e ELSE Migrated(e)

DockerSteps == {"reclaim", "up", "provision", "stop", "down", "wipe", "import", "copy", "migrate"}

\* What the step that is due needs in order to succeed.
Able(k) ==
  LET i == job[k].on
      e == engine[i]
      f == files[i]
      serving(j) == engine[j].stack = "up" /\ Open(j)
      loadable == f.compose # NoConfig /\ f.secrets # 0 /\ e.volume \in {0, f.secrets}
  IN  /\ At(k, "reclaim") => f.secrets # 0 \/ e.volume = 0 \/ e.stack = "none"
      /\ At(k, "up") => f.compose # NoConfig /\ f.secrets # 0
      /\ At(k, "stop") \/ At(k, "down") => f.compose # NoConfig
      /\ At(k, "wipe") => e.stack = "none"
      /\ At(k, "import") => loadable
      /\ At(k, "copy") => loadable /\ serving(k)
      /\ At(k, "provision") \/ At(k, "migrate") \/ At(k, "upgrade") => serving(i)
      /\ At(k, "save") => serving(i) /\ f.manifest # NoConfig /\ f.lock # 0

Docker(k) ==
  /\ \E step \in DockerSteps : At(k, step)
  /\ Able(k)
  /\ engine' = [engine EXCEPT ![job[k].on] = Commanded(k)]
  /\ Proceed(k, job[k])
  /\ UNCHANGED <<inventory, files, backups, stale>>

\* Mutant: a backup that exists already is thought to do.
SaveOnce(k) ==
  /\ At(k, "save") /\ Able(k)
  /\ backups' = IF backups[job[k].on] # <<>> THEN backups
                ELSE [backups EXCEPT ![job[k].on] = Append(@, Snapshot(job[k].on))]
  /\ Proceed(k, [job[k] EXCEPT !.saved = job[k].kind = "restore"])
  /\ UNCHANGED <<inventory, files, engine, stale>>

\* A backup of the instance (module Backups has its parts).
Save(k) ==
  /\ At(k, "save") /\ Able(k)
  /\ backups' = [backups EXCEPT ![job[k].on] = Append(@, Snapshot(job[k].on))]
  /\ Proceed(k, [job[k] EXCEPT !.saved = job[k].kind = "restore"])
  /\ UNCHANGED <<inventory, files, engine, stale>>

\* Mutant: the new lock is not written.
UpgradeKeepsLock(k) ==
  LET i == job[k].on
      c == job[k].config
  IN  /\ At(k, "upgrade") /\ Able(k)
      /\ files' = [files EXCEPT ![i] = [@ EXCEPT !.compose = c, !.manifest = c]]
      /\ engine' = [engine EXCEPT ![i] = Migrated([@ EXCEPT !.release = c.release])]
      /\ Proceed(k, job[k])
      /\ UNCHANGED <<inventory, backups, stale>>

\* An update that succeeds (module Updates has its steps and its rollback).
Upgrade(k) ==
  LET i == job[k].on
      c == job[k].config
  IN  /\ At(k, "upgrade") /\ Able(k)
      /\ files' = [files EXCEPT ![i] = [@ EXCEPT !.compose = c, !.manifest = c, !.lock = c.release]]
      /\ engine' = [engine EXCEPT ![i] = Migrated([@ EXCEPT !.release = c.release])]
      /\ Proceed(k, job[k])
      /\ UNCHANGED <<inventory, backups, stale>>

RemoveDir(k) ==
  LET i == job[k].on
  IN  /\ At(k, "rmdir")
      /\ files' = [files EXCEPT ![i] = NoFiles]
      /\ \/ UNCHANGED backups
         \/ job[k].kind = "purge" /\ backups' = [backups EXCEPT ![i] = <<>>]
      /\ Proceed(k, job[k])
      /\ UNCHANGED <<inventory, engine, stale>>

\* What a step that fails half way leaves behind: some of the directory, a
\* database that holds neither the old nor the new content.
Halfway(k) ==
  LET i == job[k].on
  IN  \/ UNCHANGED <<files, engine>>
      \/ /\ At(k, "rmdir") /\ UNCHANGED engine
         /\ \E gone \in SUBSET DOMAIN NoFiles :
              files' = [files EXCEPT ![i] =
                          [p \in DOMAIN NoFiles |-> IF p \in gone THEN NoFiles[p] ELSE @[p]]]
      \/ /\ At(k, "import") /\ Able(k) /\ UNCHANGED files
         /\ engine' = [engine EXCEPT ![i] = Loaded(@, files[i], NoSnapshot)]

\* A step cannot be done, or fails, or the manager dies: the operation ends there.
Fail(k) ==
  /\ job[k].kind # "none"
  /\ \/ ~Able(k) /\ UNCHANGED <<files, engine, count>>
     \/ /\ count.faults < MaxFaults
        /\ count' = [count EXCEPT !.faults = @ + 1]
        /\ Halfway(k)
  /\ broken' = IF At(k, "save") THEN broken ELSE broken \union {job[k].on}
  /\ job' = [job EXCEPT ![k] = Idle(k)]
  /\ UNCHANGED <<inventory, backups, cleaner, stale>>

----------------------------------------------------------------------------
(* Users, and the clean-up of orphans *)

Edit(i) ==
  /\ count.edits < MaxEdits
  /\ engine[i].stack = "up" /\ Open(i) /\ engine[i].schema # 0
  /\ engine' = [engine EXCEPT ![i].content = FreshContent]
  /\ job' = [job EXCEPT ![i].had =
               IF job[i].kind = "restore" /\ ~job[i].saved THEN FreshContent ELSE @]
  /\ count' = [count EXCEPT !.edits = @ + 1]
  /\ UNCHANGED <<inventory, files, backups, cleaner, broken, stale>>

\* scanInstanceOrphans: what the id has, unless the inventory lists it.
Scan(i) ==
  /\ cleaner.phase = "rest" /\ count.ops < MaxOps
  /\ Careful => ~Busy(i)
  /\ ~Listed(inventory, i)
  /\ cleaner' = [phase |-> "volumes", on |-> i, wipe |-> engine[i].volume # 0,
                 remove |-> files[i] # NoFiles \/ backups[i] # <<>>]
  /\ count' = [count EXCEPT !.ops = @ + 1]
  /\ UNCHANGED <<inventory, files, engine, backups, job, broken, stale>>

\* Docker refuses to remove a volume while there are containers that use it.
WipeOrphan ==
  LET i == cleaner.on
      refused == cleaner.wipe /\ engine[i].stack # "none"
  IN  /\ cleaner.phase = "volumes"
      /\ engine' = IF cleaner.wipe /\ ~refused
                   THEN [engine EXCEPT ![i] = [@ EXCEPT !.volume = 0, !.content = 0, !.schema = 0]]
                   ELSE engine
      /\ cleaner' = IF refused THEN Resting ELSE [cleaner EXCEPT !.phase = "directory"]
      /\ UNCHANGED <<inventory, files, backups, job, broken, stale, count>>

\* The whole directory goes, the backups in it included.
RemoveOrphan ==
  LET i == cleaner.on
  IN  /\ cleaner.phase = "directory"
      /\ files' = IF cleaner.remove THEN [files EXCEPT ![i] = NoFiles] ELSE files
      /\ backups' = IF cleaner.remove THEN [backups EXCEPT ![i] = <<>>] ELSE backups
      /\ cleaner' = Resting
      /\ UNCHANGED <<inventory, engine, job, broken, stale, count>>

----------------------------------------------------------------------------
(* The specification *)

\* Instances that run, ids never used, and ids whose instance was deleted with its
\* volumes kept.
Init ==
  /\ \E running, left \in SUBSET Id, own \in [Id -> 1..Cardinality(Id)] :
     \E address \in [running -> Domain] :
       /\ \A i, e \in Id : own[i] = own[e] => i = e
       /\ \A i, e \in running : address[i] = address[e] => i = e
       /\ left \intersect running = {}
       /\ inventory = [i \in Id |-> IF i \in running
                         THEN [status |-> "active", domain |-> address[i]] ELSE Unlisted]
       /\ files = [i \in Id |-> IF i \in running
                     THEN LET c == [domain |-> address[i], release |-> 1]
                          IN  [manifest |-> c, compose |-> c, lock |-> 1, secrets |-> own[i]]
                     ELSE NoFiles]
       /\ engine = [i \in Id |->
            IF i \notin running \union left THEN NoEngine
            ELSE [stack |-> IF i \in running THEN "up" ELSE "none",
                  release |-> IF i \in running THEN 1 ELSE 0,
                  volume |-> own[i], content |-> own[i], schema |-> 1]]
  /\ backups = [i \in Id |-> <<>>]
  /\ job = [k \in Id |-> Idle(k)]
  /\ cleaner = Resting
  /\ broken = {} /\ stale = FALSE
  /\ count = [ops |-> 0, faults |-> 0, edits |-> 0]

Step(k) ==
  \/ WriteFile(k) \/ WriteSecrets(k) \/ Look(k) \/ WriteInventory(k)
  \/ Docker(k) \/ Save(k) \/ Upgrade(k) \/ RemoveDir(k) \/ Fail(k)

Next ==
  \/ StartSome
  \/ \E k \in Id : Step(k)
  \/ \E i \in Id : Edit(i) \/ Scan(i)
  \/ WipeOrphan \/ RemoveOrphan

Spec == Init /\ [][Next]_vars

----------------------------------------------------------------------------
(* Properties *)

Settled(i) == ~Busy(i) /\ ~Cleaning(i) /\ i \notin broken

Listing == [status : {"unlisted", "active", "disabled", "removed_keep_data"},
            domain : Domain \union {NoDomain}]
Schema == Release \union {0}
Snapshots == [config : Config \union {NoConfig}, content : Nat, schema : Schema, sound : BOOLEAN]
Job ==
  [kind : {"none"} \union DOMAIN Steps, on : Id, at : Nat, config : Config \union {NoConfig},
   head : Schema, seen : [Id -> Listing], snap : Snapshots, had : Nat, saved : BOOLEAN]

\* The variables stay within their types, and an operation at one of its steps.
TypeOK ==
  /\ inventory \in [Id -> Listing]
  /\ files \in [Id -> [manifest : Config \union {NoConfig}, compose : Config \union {NoConfig},
                       lock : Schema, secrets : Nat]]
  /\ engine \in [Id -> [stack : {"none", "stopped", "up"}, release : Schema,
                        volume : Nat, content : Nat, schema : Schema]]
  /\ backups \in [Id -> Seq(Snapshots)]
  /\ job \in [Id -> Job]
  /\ \A k \in Id : job[k].kind # "none" => job[k].at \in 1..Len(Steps[job[k].kind])
  /\ cleaner \in {Resting} \union
       [phase : {"volumes", "directory"}, on : Id, wipe : BOOLEAN, remove : BOOLEAN]
  /\ broken \subseteq Id /\ stale \in BOOLEAN
  /\ count \in [ops : 0..MaxOps, faults : 0..MaxFaults, edits : 0..MaxEdits]

\* The secrets on disk are those the instance's database was initialised with: no
\* operation leaves an instance locked out of its own data (bootstrap.ts:325-329,
\* reclaimStaleInstanceVolumes).
CredentialsMatch ==
  \A i \in Id : files[i].secrets # 0 /\ engine[i].volume # 0 => Open(i)

\* Manifest, compose file and lock describe one release and one address, as each of
\* them is regenerated from the others later: after any sequence of operations none of
\* which failed, and again once a retried install, or a restore, has gone through.
FilesAgree ==
  \A i \in Id : Settled(i) =>
    /\ files[i].manifest = files[i].compose
    /\ files[i].lock = files[i].manifest.release

\* The containers run the release whose migrations the database has seen, across
\* updates, restores of older backups and regenerated configurations.
CodeFitsData ==
  \A i \in Id : Settled(i) /\ engine[i].stack = "up" /\ engine[i].schema # 0 =>
    engine[i].schema = engine[i].release

\* As long as no write was based on an outdated read, the inventory lists exactly the
\* instances that have a manifest, at their address, and a disabled one does not run.
InventoryTruthful ==
  \A i \in Id : Settled(i) /\ ~stale =>
    /\ Listed(inventory, i) <=> files[i].manifest # NoConfig
    /\ inventory[i].domain = files[i].manifest.domain
    /\ inventory[i].status = "disabled" => engine[i].stack # "up"

\* A restore of the console destroys no content it has not saved: what the database
\* held until the backup before the restore is in a backup (adapter.ts:431-434).
RestoreCanBeUndone ==
  \A k \in Id :
    LET i == job[k].on
    IN  job[k].kind = "restore" /\ engine[i].content # job[k].had /\ job[k].at > 3 =>
          \E n \in DOMAIN backups[i] : backups[i][n].content = job[k].had

\* An instance leaves the inventory by its own deletion alone: "Removing one instance
\* must never touch another instance" (remove.ts:6).
StaysListed ==
  [][\A i \in Id : Listed(inventory, i) /\ ~Listed(inventory', i) => Deleting(i)]_vars

\* Nothing but a write based on an outdated read breaks that: an entry goes away, or
\* changes, only under an operation on its own instance (lifecycle.ts:309-320).
OwnEntryOnly ==
  [][\A i \in Id : ~stale' =>
       /\ Listed(inventory, i) /\ ~Listed(inventory', i) => Deleting(i)
       /\ inventory'[i] # inventory[i] => Busy(i)]_vars

==============================================================================
