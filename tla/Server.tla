------------------------------- MODULE Server --------------------------------
(****************************************************************************)
(* What the instances of one server share: the inventory file, the proxy    *)
(* with its compose file, the Docker network; and the operations that make  *)
(* and unmake them: `server init`, `server start`, `server purge`, and the  *)
(* create, enable, disable and delete of an instance.                       *)
(*                                                                          *)
(* The first create initialises the server on its way.  An operation is a   *)
(* list of steps (Steps), one per stretch of code between awaits that reads *)
(* or changes what is shared; it may fail at any of them, and stops where   *)
(* it is.  Operations on different instances interleave, and the server     *)
(* commands take no lock.  Module Instances has the rest of an instance:    *)
(* addresses, secrets, volumes and releases are left out here.              *)
(****************************************************************************)
EXTENDS Naturals, Sequences, FiniteSets

CONSTANTS
  Id,          \* instance ids
  Shell,       \* the command line, where the server commands are given
  Mode,        \* [Id -> "production" or "local"]: what each instance is created as
  MaxOps,      \* bound: operations besides creates, and imports
  MaxFaults,   \* bound: steps that fail, crashes, and what others do to the host
  Careful      \* nothing else runs during a purge, and it is not interrupted

ASSUME ServerAssumption ==
  /\ Shell \notin Id
  /\ Mode \in [Id -> {"production", "local"}]
  /\ MaxOps \in Nat /\ MaxFaults \in Nat
  /\ Careful \in BOOLEAN

VARIABLES
  inventory,  \* [there, entries]: selfhelp.server.json
  proxyFile,  \* proxy/compose.yaml: the mode it was made for, or "none"
  proxy,      \* the Traefik container: the mode it runs for, or "down"
  network,    \* the shared Docker network exists
  foreign,    \* another web server of the host holds ports 80 and 443
  files,      \* [Id -> "none", "partial" or "whole"]: the instance directories
  stack,      \* [Id -> "none", "stopped" or "up"]: the instances' containers
  task,       \* [Worker -> task]: the operation on an instance, or of the shell
  served,     \* history: instances whose last operation left them running
  excused,    \* history: an outdated inventory was written, or a purge had errors
  purged,     \* the last operation is a purge that reported ok and met no unlisted directory
  count       \* [ops, faults]: what the bounds count

vars == <<inventory, proxyFile, proxy, network, foreign, files, stack,
          task, served, excused, purged, count>>

----------------------------------------------------------------------------
(* Values *)

Worker == Id \union {Shell}
NoEntries == [i \in Id |-> "unlisted"]
Unmanaged == [there |-> FALSE, entries |-> NoEntries]
With(entries) == [there |-> TRUE, entries |-> entries]
Listed(i) == inventory.entries[i] # "unlisted"
Dirs == {i \in Id : files[i] # "none"}   \* looksLikeInstanceState

InitSteps == <<"assess", "proxyfile", "keep", "rewrite", "proxy">>
InstallSteps == <<"reproxy", "secrets", "manifest", "look", "register", "up">>

Steps ==
  [create |-> <<"status">> \o InitSteps \o InstallSteps,
   enable |-> <<"plan", "reproxy", "up", "mark">>,
   disable |-> <<"plan", "stop", "mark">>,
   delete |-> <<"plan", "down", "rmdir", "mark">>,
   init |-> InitSteps,
   start |-> <<"choose", "reproxy">>,
   purge |-> <<"list", "sweep", "down", "rmdir", "mark",
               "dropproxy", "dropnetwork", "forget", "dropdirs">>]

Place(kind, step) == CHOOSE n \in DOMAIN Steps[kind] : Steps[kind][n] = step

Idle == [kind |-> "none", on |-> Shell, at |-> 0, mode |-> "local", import |-> FALSE,
         seen |-> NoEntries, todo |-> {}, left |-> {}, ok |-> TRUE, all |-> FALSE]

Running(k) == task[k].kind # "none"
At(k, step) == Running(k) /\ Steps[task[k].kind][task[k].at] = step
On(k) == task[k].on
Purging == task[Shell].kind = "purge"

----------------------------------------------------------------------------
(* What a target is found to be *)

assessBootstrapTarget ==
  IF inventory.there THEN "existing-managed"
  ELSE IF proxyFile # "none" \/ Dirs # {} THEN "conflict" ELSE "clean"

\* Mutant: without an import nothing that is found is continued.
ImportOnly(k) == task[k].import

\* A create goes on where an earlier attempt stopped: its own directory is no obstacle.
MayBootstrap(k) ==
  \/ assessBootstrapTarget = "clean"
  \/ task[k].import
  \/ task[k].kind = "create" /\ Dirs \subseteq {On(k)}

\* Something holds the network: its removal would be refused.
NetworkInUse == proxy # "down" \/ \E i \in Id : stack[i] = "up"

----------------------------------------------------------------------------
(* Starting an operation *)

Begin(k, t) ==
  /\ ~Running(k)
  /\ Careful => ~Purging
  /\ task' = [task EXCEPT ![k] = t]
  /\ purged' = FALSE
  /\ UNCHANGED <<inventory, proxyFile, proxy, network, foreign, files, stack, excused>>

OpOn(kind, i) == [Idle EXCEPT !.kind = kind, !.on = i, !.at = 1, !.mode = Mode[i]]

\* The instance is listed as active, its containers run, and so does its proxy.
Fine(i) ==
  /\ inventory.entries[i] = "active" /\ stack[i] = "up"
  /\ Mode[i] = "production" => proxy # "down"

\* Asked for again until the instance runs.
Create(i) ==
  /\ ~Fine(i) /\ inventory.entries[i] # "disabled"
  /\ Begin(i, OpOn("create", i))
  /\ served' = served \ {i}
  /\ UNCHANGED count

\* planEnable and planRemove refuse what the inventory does not list so.
Change(kind, i) ==
  /\ kind = "enable" => inventory.entries[i] = "disabled"
  /\ kind \in {"disable", "delete"} => Listed(i) /\ count.ops < MaxOps
  /\ Begin(i, OpOn(kind, i))
  /\ served' = served \ {i}
  /\ count' = IF kind = "enable" THEN count ELSE [count EXCEPT !.ops = @ + 1]

\* server init; with --import when the target is not clean.
InitServer(mode, import) ==
  /\ Begin(Shell, [Idle EXCEPT !.kind = "init", !.at = 1, !.mode = mode, !.import = import])
  /\ count.ops < MaxOps /\ count' = [count EXCEPT !.ops = @ + 1]
  /\ UNCHANGED served

\* What the refusal of a create asks for, when others' directories are in its way.
ImportServer ==
  /\ ~inventory.there /\ Cardinality(Dirs) > 1
  /\ Begin(Shell, [Idle EXCEPT !.kind = "init", !.at = 1, !.import = TRUE])
  /\ UNCHANGED <<served, count>>

StartProxy ==
  /\ Begin(Shell, [Idle EXCEPT !.kind = "start", !.at = 1])
  /\ count.ops < MaxOps /\ count' = [count EXCEPT !.ops = @ + 1]
  /\ UNCHANGED served

Purge(all) ==
  /\ Begin(Shell, [Idle EXCEPT !.kind = "purge", !.at = 1, !.all = all])
  /\ Careful => \A i \in Id : ~Running(i)
  /\ count.ops < MaxOps /\ count' = [count EXCEPT !.ops = @ + 1]
  /\ served' = {}

----------------------------------------------------------------------------
(* Going on *)

\* Worker k goes on with t at the step of that place; past the last one it is over.
GoTo(k, t, place) ==
  LET over == place > Len(Steps[t.kind])
      runs == t.kind \in {"create", "enable"} /\ t.ok
  IN  /\ task' = [task EXCEPT ![k] = IF over THEN Idle ELSE [t EXCEPT !.at = place]]
      /\ served' = IF over /\ runs THEN served \union {t.on} ELSE served
      /\ purged' = (over /\ t.kind = "purge" /\ t.ok /\ (t.all \/ t.left = {}))
      /\ UNCHANGED <<foreign, count>>

Proceed(k, t) == GoTo(k, t, t.at + 1)

\* An operation that fails is over; a purge notes the error and goes on: with the
\* next instance, or with the next thing to remove.
GiveUp(k) ==
  LET t == [task[k] EXCEPT !.ok = FALSE]
  IN  IF t.kind = "purge" /\ t.at \in {Place("purge", s) : s \in {"down", "rmdir", "mark"}}
      THEN GoTo(k, t, Place("purge", "sweep"))
      ELSE IF t.kind = "purge" THEN Proceed(k, t)
      ELSE /\ task' = [task EXCEPT ![k] = Idle]
           /\ UNCHANGED <<foreign, count, served, purged>>

\* What the step that is due needs in order to succeed.
Able(k) ==
  LET i == On(k)
  IN  /\ At(k, "assess") => MayBootstrap(k)
      /\ At(k, "look") \/ At(k, "plan") \/ At(k, "choose") => inventory.there
      /\ At(k, "plan") => Listed(i)
      /\ At(k, "up") => files[i] = "whole" /\ network
      /\ At(k, "stop") \/ At(k, "down") => files[i] # "none"
      /\ At(k, "dropnetwork") => ~NetworkInUse

\* The proxy can be brought up from the file there is: the ports are its own or free.
ProxyCanStart == proxyFile # "none" /\ (proxy # "down" \/ ~foreign)
----------------------------------------------------------------------------
(* The steps of server init *)

\* The adapter initialises the server when there is no inventory.
ReadStatus(k) ==
  /\ At(k, "status")
  /\ GoTo(k, task[k], IF inventory.there THEN Place("create", "reproxy") ELSE 2)
  /\ UNCHANGED <<inventory, proxyFile, proxy, network, files, stack, excused>>

Assess(k) ==
  /\ At(k, "assess") /\ Able(k)
  /\ Proceed(k, task[k])
  /\ UNCHANGED <<inventory, proxyFile, proxy, network, files, stack, excused>>

WriteProxyFile(k) ==
  /\ At(k, "proxyfile")
  /\ proxyFile' = task[k].mode
  /\ Proceed(k, task[k])
  /\ UNCHANGED <<inventory, proxy, network, files, stack, excused>>

\* The entries of an inventory that is there are carried over.
KeepEntries(k) ==
  /\ At(k, "keep")
  /\ Proceed(k, [task[k] EXCEPT !.seen = inventory.entries])
  /\ UNCHANGED <<inventory, proxyFile, proxy, network, files, stack, excused>>

\* An inventory is written as a whole, from what was read before.
WriteBack(k, entries) ==
  /\ inventory' = With(entries)
  /\ excused' = (excused \/ task[k].seen # inventory.entries)

\* Mutant: the new inventory is written as it was made, empty.
RewriteEmpty(k) ==
  /\ At(k, "rewrite")
  /\ inventory' = With(NoEntries)
  /\ excused' = (excused \/ task[k].seen # inventory.entries)
  /\ Proceed(k, [task[k] EXCEPT !.seen = NoEntries])
  /\ UNCHANGED <<proxyFile, proxy, network, files, stack>>

RewriteInventory(k) ==
  /\ At(k, "rewrite")
  /\ WriteBack(k, task[k].seen)
  /\ Proceed(k, [task[k] EXCEPT !.seen = NoEntries])
  /\ UNCHANGED <<proxyFile, proxy, network, files, stack>>

\* serverInit makes the network, and brings the proxy of a production server up.
StartNewProxy(k) ==
  /\ At(k, "proxy")
  /\ task[k].mode = "production" => ProxyCanStart
  /\ network' = TRUE
  /\ proxy' = IF task[k].mode = "production" THEN proxyFile ELSE proxy
  /\ Proceed(k, task[k])
  /\ UNCHANGED <<inventory, proxyFile, files, stack, excused>>

----------------------------------------------------------------------------
(* The steps of an instance's operation *)

\* Mutant: an instance is brought up and the proxy left as the init left it.
TrustTheInit(k) ==
  /\ At(k, "reproxy")
  /\ network' = TRUE
  /\ Proceed(k, task[k])
  /\ UNCHANGED <<inventory, proxyFile, proxy, files, stack, excused>>

\* Nothing is to be done for a local instance, nor without a proxy compose file.
NeedsProxy(k) == task[k].mode = "production" /\ proxyFile # "none"

\* Before an instance is brought up the network is made in either mode.
MakesNetwork(k) == task[k].kind # "start" \/ NeedsProxy(k)

ensureProxyRunning(k) ==
  /\ At(k, "reproxy")
  /\ NeedsProxy(k) => ProxyCanStart
  /\ network' = (network \/ MakesNetwork(k))
  /\ proxy' = IF NeedsProxy(k) THEN proxyFile ELSE proxy
  /\ Proceed(k, task[k])
  /\ UNCHANGED <<inventory, proxyFile, files, stack, excused>>

WriteFiles(k) ==
  /\ At(k, "secrets") \/ At(k, "manifest")
  /\ files' = [files EXCEPT ![On(k)] =
                 IF At(k, "manifest") THEN "whole" ELSE IF @ = "none" THEN "partial" ELSE @]
  /\ Proceed(k, task[k])
  /\ UNCHANGED <<inventory, proxyFile, proxy, network, stack, excused>>

\* The inventory is read here and written a step, or several, later.
ReadInventory(k) ==
  /\ At(k, "look") \/ At(k, "plan")
  /\ Able(k)
  /\ Proceed(k, [task[k] EXCEPT !.seen = inventory.entries])
  /\ UNCHANGED <<inventory, proxyFile, proxy, network, files, stack, excused>>

Status(kind) == CASE kind \in {"create", "enable"} -> "active"
                  [] kind = "disable" -> "disabled"
                  [] OTHER -> "unlisted"

WriteEntry(k) ==
  LET t == task[k]
  IN  /\ At(k, "register") \/ At(k, "mark")
      /\ WriteBack(k, [t.seen EXCEPT ![t.on] = Status(t.kind)])
      /\ IF t.kind = "purge" THEN GoTo(k, t, Place("purge", "sweep"))
         ELSE Proceed(k, [t EXCEPT !.seen = NoEntries])
      /\ UNCHANGED <<proxyFile, proxy, network, files, stack>>

Compose(k) ==
  /\ At(k, "up") \/ At(k, "stop") \/ At(k, "down")
  /\ Able(k)
  /\ stack' = [stack EXCEPT ![On(k)] =
                 IF At(k, "up") THEN "up"
                 ELSE IF At(k, "stop") /\ @ # "none" THEN "stopped" ELSE "none"]
  /\ Proceed(k, task[k])
  /\ UNCHANGED <<inventory, proxyFile, proxy, network, files, excused>>

RemoveDir(k) ==
  /\ At(k, "rmdir")
  /\ files' = [files EXCEPT ![On(k)] = "none"]
  /\ Proceed(k, task[k])
  /\ UNCHANGED <<inventory, proxyFile, proxy, network, stack, excused>>

----------------------------------------------------------------------------
(* The steps of server start and server purge *)

\* serverStartProxy takes the mode from the manifests of the listed instances.
ChooseMode ==
  LET production == \E i \in Id : Listed(i) /\ files[i] = "whole" /\ Mode[i] = "production"
  IN  /\ At(Shell, "choose") /\ Able(Shell)
      /\ Proceed(Shell, [task[Shell] EXCEPT !.mode = IF production THEN "production" ELSE "local"])
      /\ UNCHANGED <<inventory, proxyFile, proxy, network, files, stack, excused>>

ListInstances ==
  /\ At(Shell, "list")
  /\ Proceed(Shell, [task[Shell] EXCEPT !.todo = {i \in Id : Listed(i)},
                                    !.left = {i \in Dirs : ~Listed(i)}])
  /\ UNCHANGED <<inventory, proxyFile, proxy, network, files, stack, excused>>

\* instanceRemove of the next one, which reads the inventory anew.
Sweep ==
  LET t == task[Shell]
  IN  /\ At(Shell, "sweep")
      /\ IF t.todo = {} THEN GoTo(Shell, [t EXCEPT !.seen = NoEntries], Place("purge", "dropproxy"))
         ELSE \E i \in t.todo :
                LET rest == [t EXCEPT !.todo = @ \ {i}, !.on = i, !.seen = inventory.entries]
                IN  IF Listed(i) THEN Proceed(Shell, rest)
                    ELSE GoTo(Shell, [rest EXCEPT !.ok = FALSE], t.at)
      /\ UNCHANGED <<inventory, proxyFile, proxy, network, files, stack, excused>>

\* Mutant: only the container goes.
ProxyFileStays ==
  /\ At(Shell, "dropproxy")
  /\ proxy' = "down"
  /\ Proceed(Shell, task[Shell])
  /\ UNCHANGED <<inventory, proxyFile, network, files, stack, excused>>

\* The container is there when its compose file is.
DropProxy ==
  /\ At(Shell, "dropproxy")
  /\ proxy' = IF proxyFile = "none" THEN proxy ELSE "down"
  /\ proxyFile' = "none"
  /\ Proceed(Shell, task[Shell])
  /\ UNCHANGED <<inventory, network, files, stack, excused>>

DropNetwork ==
  /\ At(Shell, "dropnetwork") /\ Able(Shell)
  /\ network' = FALSE
  /\ Proceed(Shell, task[Shell])
  /\ UNCHANGED <<inventory, proxyFile, proxy, files, stack, excused>>

\* The inventory goes whatever could not be removed.
Forget ==
  /\ At(Shell, "forget")
  /\ inventory' = Unmanaged
  /\ excused' = (excused \/ ~task[Shell].ok)
  /\ Proceed(Shell, task[Shell])
  /\ UNCHANGED <<proxyFile, proxy, network, files, stack>>

\* --delete-backups takes instances/ as a whole.
DropDirs ==
  /\ At(Shell, "dropdirs")
  /\ files' = IF task[Shell].all THEN [i \in Id |-> "none"] ELSE files
  /\ Proceed(Shell, task[Shell])
  /\ UNCHANGED <<inventory, proxyFile, proxy, network, stack, excused>>

----------------------------------------------------------------------------
(* Failures, and the host *)

\* The proxy is wanted and cannot start.
NoProxy(k) ==
  /\ ~ProxyCanStart
  /\ (At(k, "proxy") /\ task[k].mode = "production") \/ (At(k, "reproxy") /\ NeedsProxy(k))

\* A step whose needs are not met; a proxy that does not start has its network made.
Refused(k) ==
  /\ Running(k) /\ (~Able(k) \/ NoProxy(k))
  /\ network' = (network \/ NoProxy(k))
  /\ GiveUp(k)
  /\ UNCHANGED <<inventory, proxyFile, proxy, files, stack, excused>>

Fault == count.faults < MaxFaults /\ count' = [count EXCEPT !.faults = @ + 1]

\* The file steps of a purge are not guarded; one that fails ends it, as a crash does.
Uncaught(k) == \E step \in {"list", "sweep", "forget", "dropdirs"} : At(k, step)

\* The disk is full, Docker does not answer, the process is killed.
Fails(k) ==
  /\ Running(k) /\ Fault
  /\ IF Purging /\ k = Shell /\ ~Uncaught(k)
     THEN /\ task' = [task EXCEPT ![k].ok = FALSE, ![k].at =
                        IF At(k, "dropproxy") \/ At(k, "dropnetwork") THEN @ + 1
                        ELSE Place("purge", "sweep")]
          /\ UNCHANGED purged
     ELSE /\ Careful => ~(Purging /\ k = Shell)
          /\ task' = [task EXCEPT ![k] = Idle]
          /\ UNCHANGED purged
  /\ UNCHANGED <<inventory, proxyFile, proxy, network, foreign, files, stack, served, excused>>

\* A proxy whose file has changed is replaced, and the new one does not start: what runs
\* behind it no longer does, and what is on its way there cannot count on it.
ProxyReplaceFails(k) ==
  /\ At(k, "proxy") \/ At(k, "reproxy")
  /\ task[k].mode = "production" /\ proxyFile # "none" /\ proxy \notin {"down", proxyFile}
  /\ Fault
  /\ proxy' = "down"
  /\ served' = {i \in served : Mode[i] = "local"}
  /\ task' = [w \in Worker |-> IF w = k \/ ~Running(w) THEN Idle ELSE [task[w] EXCEPT !.ok = FALSE]]
  /\ UNCHANGED <<inventory, proxyFile, network, foreign, files, stack, excused, purged>>

\* The manager dies with all it has under way.
Crash ==
  /\ \E i \in Id : Running(i)
  /\ Fault
  /\ task' = [k \in Worker |-> IF k = Shell THEN task[k] ELSE Idle]
  /\ UNCHANGED <<inventory, proxyFile, proxy, network, foreign, files, stack, served, excused, purged>>

\* Apache, say, is started, and stopped again.
PortsTaken ==
  /\ proxy = "down" /\ ~foreign /\ Fault
  /\ foreign' = TRUE
  /\ UNCHANGED <<inventory, proxyFile, proxy, network, files, stack, task, served, excused, purged>>

PortsFreed ==
  /\ foreign /\ foreign' = FALSE
  /\ UNCHANGED <<inventory, proxyFile, proxy, network, files, stack, task, served, excused, purged, count>>

\* docker network prune.
Prune ==
  /\ network /\ ~NetworkInUse /\ Fault
  /\ network' = FALSE
  /\ UNCHANGED <<inventory, proxyFile, proxy, foreign, files, stack, task, served, excused, purged>>

----------------------------------------------------------------------------
(* The server *)

Init ==
  /\ inventory = Unmanaged
  /\ proxyFile = "none" /\ proxy = "down" /\ network = FALSE
  /\ foreign \in BOOLEAN
  /\ files = [i \in Id |-> "none"] /\ stack = [i \in Id |-> "none"]
  /\ task = [k \in Worker |-> Idle]
  /\ served = {} /\ excused = FALSE /\ purged = FALSE
  /\ count = [ops |-> 0, faults |-> 0]

ServerStep(k) ==
  \/ ReadStatus(k) \/ Assess(k) \/ WriteProxyFile(k) \/ KeepEntries(k)
  \/ RewriteInventory(k) \/ StartNewProxy(k)

InstanceStep(k) ==
  \/ ensureProxyRunning(k) \/ WriteFiles(k) \/ ReadInventory(k)
  \/ WriteEntry(k) \/ Compose(k) \/ RemoveDir(k)

ShellStep ==
  \/ ChooseMode \/ ListInstances \/ Sweep
  \/ DropProxy \/ DropNetwork \/ Forget \/ DropDirs

Work(k) ==
  \/ ServerStep(k) \/ InstanceStep(k) \/ Refused(k)
  \/ k = Shell /\ ShellStep

Commands ==
  \/ \E mode \in {"production", "local"}, import \in BOOLEAN : InitServer(mode, import)
  \/ StartProxy
  \/ \E all \in BOOLEAN : Purge(all)

Host == Crash \/ PortsTaken \/ PortsFreed \/ Prune

Next ==
  \/ \E i \in Id : Create(i) \/ \E kind \in {"enable", "disable", "delete"} : Change(kind, i)
  \/ Commands \/ ImportServer
  \/ \E k \in Worker : Work(k) \/ Fails(k) \/ ProxyReplaceFails(k)
  \/ Host

\* Operations go on; the operators ask again for what does not run, import where they
\* are told to, and free the ports.
Fairness ==
  /\ \A k \in Worker : WF_vars(Work(k))
  /\ \A i \in Id : WF_vars(Create(i) \/ Change("enable", i))
  /\ WF_vars(ImportServer)
  /\ WF_vars(PortsFreed)

Spec == Init /\ [][Next]_vars /\ Fairness

----------------------------------------------------------------------------
(* Properties *)

Task ==
  [kind : {"none"} \union DOMAIN Steps, on : Worker, at : 0..12, mode : {"production", "local"},
   import : BOOLEAN, seen : [Id -> {"unlisted", "active", "disabled"}], todo : SUBSET Id,
   left : SUBSET Id, ok : BOOLEAN, all : BOOLEAN]

\* The variables stay within their types.
TypeOK ==
  /\ inventory \in [there : BOOLEAN, entries : [Id -> {"unlisted", "active", "disabled"}]]
  /\ proxyFile \in {"none", "production", "local"} /\ proxy \in {"down", "production", "local"}
  /\ network \in BOOLEAN /\ foreign \in BOOLEAN
  /\ files \in [Id -> {"none", "partial", "whole"}] /\ stack \in [Id -> {"none", "stopped", "up"}]
  /\ task \in [Worker -> Task]
  /\ served \subseteq Id /\ excused \in BOOLEAN /\ purged \in BOOLEAN
  /\ count \in [ops : 0..MaxOps, faults : 0..MaxFaults]

\* Whatever happened to the first `server init`: an instance whose create or enable has
\* succeeded runs on the shared network and, in production, behind a running proxy.  So
\* shared.ts 613-627, and "guarantee the shared proxy is up in production" of install.ts.
ProxyServes ==
  \A i \in served :
    /\ stack[i] = "up" /\ network
    /\ Mode[i] = "production" => proxy # "down"

\* "Import/repair must never orphan already-registered instances" (bootstrap.ts 108): an
\* instance with containers is in the inventory, unless two operations wrote it at once
\* or a purge ended with errors.
NothingOrphaned == excused \/ \A i \in Id : stack[i] # "none" => Listed(i)

\* "After a purge, `server init` starts from a clean slate" (bootstrap.ts 174), provided
\* that every instance directory belonged to a listed instance.
CleanSlate == purged /\ ~excused => assessBootstrapTarget = "clean"

\* An instance that is asked for again ends up running behind its proxy, whatever failed,
\* crashed or was removed before: no attempt leaves a server on which the next is refused
\* for good (bootstrap.ts 46-58).
EndsServed == \A i \in Id : <>[]Fine(i)

\* A production instance "gets its TLS cert" through the proxy (install.ts 229): refuted,
\* since the proxy keeps the mode of the first `server init`, and not among the properties.
HasCertificates ==
  \A i \in served : Mode[i] = "production" => proxy = "production"
==============================================================================
