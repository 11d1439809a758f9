----------------------------- MODULE Operations -----------------------------
(***************************************************************************)
(* The operation framework of the persistent manager process               *)
(* (apps/web/src/jobs.ts): OperationRunner.start drives one operation      *)
(* through the file-backed journal, the append-only audit log and the      *)
(* per-instance lockfile, and recoverInterrupted repairs the journal when  *)
(* the manager comes back after a crash.                                   *)
(*                                                                         *)
(* Every `await` of the code is a step boundary here: between two steps of *)
(* one operation, any other operation, the GUI's look at the locks, or a   *)
(* crash of the process may happen.                                        *)
(***************************************************************************)
EXTENDS Naturals, FiniteSets

CONSTANTS
    Op,           \* operation ids the journal may issue
    Instance,     \* managed instances
    NoInstance,   \* "instanceId: null": server-level work, takes no lock
    Target,       \* Target[op]: the instance the operation mutates
    Pid,          \* process ids the manager may be given when it boots
    NoOp,         \* "no lockfile"
    MaxCrashes,   \* bound on crashes of the manager
    MaxFaults     \* bound on I/O errors (disk full) it meets

ASSUME TargetAssumption == Target \in [Op -> Instance \cup {NoInstance}]
ASSUME NullAssumption   == NoOp \notin Op /\ NoInstance \notin Instance
ASSUME BoundAssumption  == MaxCrashes \in Nat /\ MaxFaults \in Nat

VARIABLES
    manager,   \* "up" serves requests, "booting" repairs the journal, "down"
    pid,       \* process.pid of the current incarnation
    pc,        \* where each operation's asynchronous code stands
    pidOf,     \* the pid each operation writes into its lockfile
    lock,      \* lock[i]: whose lockfile <i>.lock is on disk
    flushed,   \* operations whose lockfile payload reached the disk
    status,    \* journal record of each operation, "none" before create()
    audit,     \* the results audit.jsonl holds for each operation
    sweep,     \* records the boot's recoverInterrupted still has to visit
    probing,   \* instances whose lock holder() found stale and is removing
    crashes, faults

vars == <<manager, pid, pc, pidOf, lock, flushed, status, audit, sweep, probing, crashes, faults>>

disk    == <<status, audit>>
process == <<manager, pid, sweep, probing, crashes>>
locking == <<lock, flushed, pidOf>>

-----------------------------------------------------------------------------
(* States of one operation's code, in the order start() passes them.       *)

Waiting   == {"attempt", "judge", "steal", "retry"}   \* inside acquire()
Denying   == {"denyJournal", "denyAudit"}             \* the catch after acquire()
Finishing == {"complete", "auditOk", "fail", "auditFail"}
Owning    == {"auditStart", "body"} \cup Finishing \cup {"release", "unlink"}
Active    == Waiting \cup {"flush"} \cup Denying \cup Owning
PcStates  == {"none", "over", "dead"} \cup Active

Statuses  == {"none", "running", "succeeded", "failed"}
Results   == {"started", "succeeded", "failed", "denied"}

Locks(op) == Target[op] # NoInstance

\* One step of op's code, from one await to the next, in a live manager.
Step(op, from, to) ==
    /\ manager = "up"
    /\ pc[op] = from
    /\ pc' = [pc EXCEPT ![op] = to]

\* An I/O error makes the step's promise reject; the bound keeps them few.
Fault == faults < MaxFaults /\ faults' = faults + 1

\* readHolder(): the payload of the lockfile, null while it is missing,
\* empty or half-written.
Readable(i) == lock[i] \in flushed

\* A lock of another pid that no live program has. A recycled pid makes the
\* leftover look alive, so callers of this may also see FALSE.
Stale(i) == Readable(i) /\ pidOf[lock[i]] # pid

-----------------------------------------------------------------------------
Init ==
    /\ manager = "up"
    /\ pid \in Pid
    /\ pc = [op \in Op |-> "none"]
    /\ pidOf = [op \in Op |-> pid]
    /\ lock = [i \in Instance |-> NoOp]
    /\ flushed = {}
    /\ status = [op \in Op |-> "none"]
    /\ audit = [op \in Op |-> {}]
    /\ sweep = {}
    /\ probing = {}
    /\ crashes = 0
    /\ faults = 0

\* OperationJournal.create: the record appears, running, by an atomic rename.
Create(op) ==
    /\ Step(op, "none", IF Locks(op) THEN "attempt" ELSE "auditStart")
    /\ status' = [status EXCEPT ![op] = "running"]
    /\ pidOf' = [pidOf EXCEPT ![op] = pid]
    /\ UNCHANGED <<lock, flushed, audit, process, faults>>

(* InstanceLocks.acquire                                                   *)

\* Mutant: the lockfile is written with flag 'w', over whatever is there.
OpenLockOverwrites(op) ==
    /\ Step(op, "attempt", "flush") \/ Step(op, "retry", "flush")
    /\ lock' = [lock EXCEPT ![Target[op]] = op]
    /\ UNCHANGED <<flushed, pidOf, disk, process, faults>>

\* writeFile(flag 'wx') creates the lockfile, still empty, or fails to.
OpenLock(op) ==
    /\ UNCHANGED <<flushed, pidOf, disk, process>>
    /\ \/ /\ Step(op, "attempt", "flush") \/ Step(op, "retry", "flush")
          /\ lock[Target[op]] = NoOp
          /\ lock' = [lock EXCEPT ![Target[op]] = op]
          /\ UNCHANGED faults
       \/ /\ Step(op, "attempt", "denyJournal") \/ Step(op, "retry", "denyJournal")
          /\ Fault
          /\ UNCHANGED lock

\* ... and then writes its payload; on a full disk the empty file stays.
FlushLock(op) ==
    \/ /\ Step(op, "flush", "auditStart")
       /\ flushed' = flushed \cup {op}
       /\ UNCHANGED <<lock, pidOf, disk, process, faults>>
    \/ /\ Step(op, "flush", "denyJournal")
       /\ Fault
       /\ UNCHANGED <<locking, disk, process>>

\* EEXIST: the first attempt goes on to judge the holder, the second gives up.
LockExists(op) ==
    /\ Step(op, "attempt", "judge") \/ Step(op, "retry", "denyJournal")
    /\ lock[Target[op]] # NoOp
    /\ UNCHANGED <<locking, disk, process, faults>>

\* Mutant: the steal judgement forgets the exemption of its own pid and takes
\* any readable lock for a leftover.
JudgeHolderOwnPid(op) ==
    /\ \/ Step(op, "judge", "steal") /\ Readable(Target[op])
       \/ Step(op, "judge", "denyJournal")
    /\ UNCHANGED <<locking, disk, process, faults>>

\* readHolder and the staleness test, synchronous once the file is read.
JudgeHolder(op) ==
    /\ \/ Step(op, "judge", "steal") /\ Stale(Target[op])
       \/ Step(op, "judge", "denyJournal")
          \* Not stale, or stale but its pid has been recycled by a program.
    /\ UNCHANGED <<locking, disk, process, faults>>

\* rm(lockfile, force): whatever file is there by now.
StealLock(op) ==
    /\ Step(op, "steal", "retry")
    /\ lock' = [lock EXCEPT ![Target[op]] = NoOp]
    /\ UNCHANGED <<flushed, pidOf, disk, process, faults>>

(* OperationRunner.start                                                   *)

\* Mutant: a refusal is written into the journal in the audit log's words.
DenyJournalDenied(op) ==
    /\ Step(op, "denyJournal", "denyAudit")
    /\ status' = [status EXCEPT ![op] = "denied"]
    /\ UNCHANGED <<locking, audit, process, faults>>

\* A refused operation is journaled as failed and audited as denied; an I/O
\* error in either leaves the rest of the catch block undone.
DenyJournal(op) ==
    /\ UNCHANGED <<locking, audit, process>>
    /\ \/ /\ Step(op, "denyJournal", "denyAudit")
          /\ status' = [status EXCEPT ![op] = "failed"]
          /\ UNCHANGED faults
       \/ Step(op, "denyJournal", "over") /\ Fault /\ UNCHANGED status

DenyAudit(op) ==
    /\ UNCHANGED <<locking, status, process>>
    /\ \/ /\ Step(op, "denyAudit", "over")
          /\ audit' = [audit EXCEPT ![op] = @ \cup {"denied"}]
          /\ UNCHANGED faults
       \/ Step(op, "denyAudit", "over") /\ Fault /\ UNCHANGED audit

\* Mutant: the audit log is best effort, its errors are swallowed.
AuditStartBestEffort(op) ==
    /\ UNCHANGED <<locking, status, process>>
    /\ \/ /\ Step(op, "auditStart", "body")
          /\ audit' = [audit EXCEPT ![op] = @ \cup {"started"}]
          /\ UNCHANGED faults
       \/ Step(op, "auditStart", "body") /\ Fault /\ UNCHANGED audit

\* The 'started' entry precedes the work. It is outside the try, so when it
\* cannot be written start() rejects with the lock and the record as they are.
AuditStart(op) ==
    /\ UNCHANGED <<locking, status, process>>
    /\ \/ /\ Step(op, "auditStart", "body")
          /\ audit' = [audit EXCEPT ![op] = @ \cup {"started"}]
          /\ UNCHANGED faults
       \/ Step(op, "auditStart", "over") /\ Fault /\ UNCHANGED audit

\* The body (an instance action) returns or throws.
BodyEnds(op) ==
    /\ Step(op, "body", "complete") \/ Step(op, "body", "fail")
    /\ UNCHANGED <<locking, disk, process, faults>>

Complete(op) ==
    /\ UNCHANGED <<locking, audit, process>>
    /\ \/ /\ Step(op, "complete", "auditOk")
          /\ status' = [status EXCEPT ![op] = "succeeded"]
          /\ UNCHANGED faults
       \/ Step(op, "complete", "fail") /\ Fault /\ UNCHANGED status

\* Still inside the try: an audit error sends a completed operation to catch.
AuditSucceeded(op) ==
    /\ UNCHANGED <<locking, status, process>>
    /\ \/ /\ Step(op, "auditOk", "release")
          /\ audit' = [audit EXCEPT ![op] = @ \cup {"succeeded"}]
          /\ UNCHANGED faults
       \/ Step(op, "auditOk", "fail") /\ Fault /\ UNCHANGED audit

Fail(op) ==
    /\ UNCHANGED <<locking, audit, process>>
    /\ \/ /\ Step(op, "fail", "auditFail")
          /\ status' = [status EXCEPT ![op] = "failed"]
          /\ UNCHANGED faults
       \/ Step(op, "fail", "release") /\ Fault /\ UNCHANGED status

\* Mutant: release sits at the end of the try block instead of in finally.
AuditFailedSkipsRelease(op) ==
    /\ UNCHANGED <<locking, status, process>>
    /\ \/ /\ Step(op, "auditFail", "over")
          /\ audit' = [audit EXCEPT ![op] = @ \cup {"failed"}]
          /\ UNCHANGED faults
       \/ Step(op, "auditFail", "release") /\ Fault /\ UNCHANGED audit

AuditFailed(op) ==
    /\ UNCHANGED <<locking, status, process>>
    /\ \/ /\ Step(op, "auditFail", "release")
          /\ audit' = [audit EXCEPT ![op] = @ \cup {"failed"}]
          /\ UNCHANGED faults
       \/ Step(op, "auditFail", "release") /\ Fault /\ UNCHANGED audit

\* release(): read the lockfile, and only if it still is ours, remove it.
ReleaseLock(op) ==
    /\ \/ Step(op, "release", "unlink") /\ Locks(op) /\ Readable(Target[op]) /\ lock[Target[op]] = op
       \/ Step(op, "release", "over") /\ ~(Locks(op) /\ Readable(Target[op]) /\ lock[Target[op]] = op)
    /\ UNCHANGED <<locking, disk, process, faults>>

UnlinkLock(op) ==
    /\ Step(op, "unlink", "over")
    /\ lock' = [lock EXCEPT ![Target[op]] = NoOp]
    /\ UNCHANGED <<flushed, pidOf, disk, process, faults>>

(* InstanceLocks.holder: every instance summary (GUI list, poller tick)     *)

ProbeLock(i) ==
    /\ manager = "up"
    /\ Stale(i)
    /\ probing' = probing \cup {i}
    /\ UNCHANGED <<manager, pid, pc, sweep, crashes, locking, disk, faults>>

\* Mutant: holder() reports a stale lock as free and leaves the file alone.
ProbeRemovesNothing(i) ==
    /\ manager = "up"
    /\ i \in probing
    /\ probing' = probing \ {i}
    /\ UNCHANGED <<manager, pid, pc, sweep, crashes, locking, disk, faults>>

ProbeRemoves(i) ==
    /\ manager = "up"
    /\ i \in probing
    /\ probing' = probing \ {i}
    /\ lock' = [lock EXCEPT ![i] = NoOp]
    /\ UNCHANGED <<manager, pid, pc, sweep, crashes, flushed, pidOf, disk, faults>>

(* The process                                                             *)

\* Everything in memory is gone; the journal, audit log and lockfiles stay.
Crash ==
    /\ manager # "down"
    /\ crashes < MaxCrashes
    /\ crashes' = crashes + 1
    /\ manager' = "down"
    /\ pc' = [op \in Op |-> IF pc[op] \in Active THEN "dead" ELSE pc[op]]
    /\ sweep' = {}
    /\ probing' = {}
    /\ UNCHANGED <<pid, locking, disk, faults>>

\* startWebUi: list the records still running before anything else starts.
Boot ==
    /\ manager = "down"
    /\ manager' = "booting"
    /\ pid' \in Pid
    /\ sweep' = {op \in Op : status[op] = "running"}
    /\ UNCHANGED <<pc, probing, crashes, locking, disk, faults>>

\* Mutant: the repair keeps running beside new operations, on fresh lists.
RecoverInterruptedAnyTime(op) ==
    /\ manager # "down"
    /\ status[op] = "running"
    /\ sweep' = sweep \ {op}
    /\ status' = [status EXCEPT ![op] = "failed"]
    /\ UNCHANGED <<manager, pid, pc, probing, crashes, locking, audit, faults>>

\* Mutant: only the newest page of the journal is listed at boot.
RecoverInterruptedPaged(op) ==
    /\ manager = "booting"
    /\ op \in sweep
    /\ sweep' = {}
    /\ status' = [status EXCEPT ![op] = "failed"]
    /\ UNCHANGED <<manager, pid, pc, probing, crashes, locking, audit, faults>>

\* recoverInterrupted marks them failed one by one.
RecoverInterrupted(op) ==
    /\ manager = "booting"
    /\ op \in sweep
    /\ sweep' = sweep \ {op}
    /\ status' = [status EXCEPT ![op] = IF @ = "running" THEN "failed" ELSE @]
    /\ UNCHANGED <<manager, pid, pc, probing, crashes, locking, audit, faults>>

\* Only then does the server listen and the poller start.
Listen ==
    /\ manager = "booting"
    /\ sweep = {}
    /\ manager' = "up"
    /\ UNCHANGED <<pid, pc, sweep, probing, crashes, locking, disk, faults>>

-----------------------------------------------------------------------------
Acquire(op)  == OpenLock(op) \/ FlushLock(op) \/ LockExists(op) \/ JudgeHolder(op) \/ StealLock(op)
Deny(op)     == DenyJournal(op) \/ DenyAudit(op)
Run(op)      == AuditStart(op) \/ BodyEnds(op) \/ Complete(op) \/ AuditSucceeded(op) \/ Fail(op) \/ AuditFailed(op)
Release(op)  == ReleaseLock(op) \/ UnlinkLock(op)
Progress(op) == Acquire(op) \/ Deny(op) \/ Run(op) \/ Release(op)
Recover      == Boot \/ Listen \/ \E op \in Op : RecoverInterrupted(op)

Next ==
    \/ \E op \in Op : Create(op) \/ Progress(op)
    \/ \E i \in Instance : ProbeLock(i) \/ ProbeRemoves(i)
    \/ Crash
    \/ Recover

Spec == Init /\ [][Next]_vars

\* The event loop runs every pending continuation, a body ends, the service
\* manager restarts a dead manager, and each poller tick looks at every lock.
Fairness ==
    /\ \A op \in Op : WF_vars(Progress(op))
    /\ \A i \in Instance : WF_vars(ProbeLock(i)) /\ WF_vars(ProbeRemoves(i))
    /\ WF_vars(Recover)

FairSpec == Spec /\ Fairness

\* What the framework promises, read off the detailed state: an operation has
\* begun once the audit log shows it, works while its body runs, and its
\* outcome is what the journal shows.
Begun    == {op \in Op : "started" \in audit[op]}
Working  == {op \in Op : pc[op] = "body"}
Outcome  == [op \in Op |-> IF status[op] \in {"succeeded", "failed"} THEN status[op] ELSE "open"]

Promise == INSTANCE InstanceOperations WITH begun <- Begun, working <- Working, outcome <- Outcome

-----------------------------------------------------------------------------
(* Properties                                                              *)

\* Every variable keeps its shape, and the lockfile of an instance only ever
\* names an operation on that instance.
TypeOK ==
    /\ manager \in {"up", "booting", "down"}
    /\ pid \in Pid
    /\ pc \in [Op -> PcStates]
    /\ pidOf \in [Op -> Pid]
    /\ lock \in [Instance -> Op \cup {NoOp}]
    /\ flushed \in SUBSET Op
    /\ status \in [Op -> Statuses]
    /\ audit \in [Op -> SUBSET Results]
    /\ sweep \in SUBSET Op
    /\ probing \in SUBSET Instance
    /\ crashes \in Nat
    /\ faults \in Nat

\* "One mutating operation per instance": two operations never work on the
\* same instance at the same time, whether an operator, the CMS poller or the
\* backup scheduler started them.
MutualExclusion ==
    \A a, b \in Op :
        a # b /\ Locks(a) /\ pc[a] = "body" /\ pc[b] = "body" => Target[a] # Target[b]

\* The audit log and the journal tell the same story: no work goes on that
\* the log does not show as started, a refused operation never shows as
\* started, and a result in the log is the one the journal shows from then on,
\* whichever write failed and wherever the manager crashed.
AuditAgreesWithJournal ==
    \A op \in Op :
        /\ pc[op] = "body" => "started" \in audit[op]
        /\ ~({"started", "denied"} \subseteq audit[op])
        /\ "succeeded" \in audit[op] => status[op] = "succeeded"
        /\ audit[op] \cap {"failed", "denied"} # {} => status[op] = "failed"

\* Without an I/O error no operation that is over, refused or finished,
\* leaves its lockfile behind.
OverHoldsNoLock ==
    faults = 0 => \A op \in Op : pc[op] = "over" => \A i \in Instance : lock[i] # op

\* A record that shows a failure never turns into a success: the repair at
\* boot only fails operations nobody will finish.
FailedIsFinal ==
    [][\A op \in Op : status[op] = "failed" => status'[op] = "failed"]_vars

\* The detailed framework implements the abstract one: operations on one
\* instance take turns, and nothing is reported of work still going on.
KeepsPromise == Promise!Spec

\* Every record leaves "running", across crashes of the manager; only an I/O
\* error may leave one spinning.
RecordsSettle ==
    \A op \in Op : status[op] = "running" ~> (status[op] # "running" \/ faults > 0)

\* A lockfile left by a crash under another pid goes away by itself, as long
\* as no later boot is given that very pid.
LeftoverLockReclaimed ==
    \A i \in Instance, op \in Op :
        (lock[i] = op /\ op \in flushed /\ pc[op] = "dead")
            ~> (lock[i] # op \/ pidOf[op] = pid)

\* What jobs.ts says of a crashed manager's lockfile, without a condition on
\* pids: it does not keep its instance busy for ever.
CrashedLockFreed ==
    \A i \in Instance, op \in Op :
        (lock[i] = op /\ op \in flushed /\ pc[op] = "dead") ~> lock[i] # op

=============================================================================
