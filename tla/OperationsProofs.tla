--------------------------- MODULE OperationsProofs ---------------------------
(***************************************************************************)
(* Theorems about the operation framework, for every set of operations and *)
(* instances and any number of crashes and I/O errors.                     *)
(*                                                                         *)
(* The type invariant, the agreement of audit log and journal and the      *)
(* finality of failures hold wherever the manager runs. Mutual exclusion   *)
(* and the refinement of InstanceOperations hold where every incarnation   *)
(* of the manager has the same pid, as in its container image: there no    *)
(* lock is ever judged stale, and an operation keeps its lockfile from the *)
(* moment it opens it until it removes it.                                 *)
(***************************************************************************)
EXTENDS Operations, TLAPS

\* Every incarnation of the manager runs under one pid.
SinglePid == \A p, q \in Pid : p = q

\* What the journal and the audit log hold of an operation at each point of
\* its code.
StoryOf(op) ==
    /\ pc[op] = "none" => status[op] = "none" /\ audit[op] = {}
    /\ pc[op] \in Waiting \cup {"flush", "denyJournal", "auditStart"}
           => status[op] = "running" /\ audit[op] = {}
    /\ pc[op] = "denyAudit" => status[op] = "failed" /\ audit[op] = {}
    /\ pc[op] \in {"body", "complete"} => status[op] = "running" /\ audit[op] = {"started"}
    /\ pc[op] = "auditOk" => status[op] = "succeeded" /\ audit[op] = {"started"}
    /\ pc[op] = "fail" => status[op] \in {"running", "succeeded"} /\ audit[op] = {"started"}
    /\ pc[op] = "auditFail" => status[op] = "failed" /\ audit[op] = {"started"}

\* A result in the audit log is the one in the journal.
ResultsAgree(op) ==
    /\ ~({"started", "denied"} \subseteq audit[op])
    /\ "succeeded" \in audit[op] => status[op] = "succeeded"
    /\ audit[op] \cap {"failed", "denied"} # {} => status[op] = "failed"

\* While the manager is not up nothing is running, and the boot only repairs
\* records of operations that will never move again.
Quiet ==
    /\ manager # "up" => \A op \in Op : pc[op] \in {"none", "over", "dead"}
    /\ manager = "up" => sweep = {}
    /\ \A op \in sweep : pc[op] \in {"over", "dead"}

Story == Quiet /\ \A op \in Op : StoryOf(op) /\ ResultsAgree(op)

\* Under one pid nobody steals or cleans up a lock, so whoever opened the
\* lockfile of an instance still owns it.
Custody ==
    /\ probing = {}
    /\ \A op \in Op : pc[op] \notin {"steal", "retry"}
    /\ \A op \in Op : pc[op] \in {"attempt", "judge", "flush"} => Locks(op)
    /\ \A op \in Op : Locks(op) /\ pc[op] \in {"flush"} \cup Owning => lock[Target[op]] = op

\* Only an operation on its way between opening and unlinking its lockfile, or
\* one that died there, has a lockfile on disk, unless an I/O error struck.
Tenure ==
    /\ \A op \in Op : pc[op] \in Waiting \cup {"flush"} => Locks(op)
    /\ \A op \in Op : Locks(op) /\ pc[op] \in Owning => op \in flushed
    /\ faults = 0 => \A i \in Instance, op \in Op : lock[i] = op =>
                        Target[op] = i /\ pc[op] \in {"flush", "dead"} \cup Owning

-------------------------------------------------------------------------------
\* Every variable keeps its shape in every reachable state of jobs.ts' state
\* machine, whatever the pids, crashes and I/O errors.
THEOREM Typing == Spec => []TypeOK
<1> USE DEF PcStates, Active, Waiting, Denying, Finishing, Owning, Statuses, Results,
            disk, process, locking
<1>1. Init => TypeOK
  BY BoundAssumption DEF Init, TypeOK
<1>2. TypeOK /\ [Next]_vars => TypeOK'
  <2> SUFFICES ASSUME TypeOK, [Next]_vars
               PROVE  TypeOK'
    OBVIOUS
  <2> USE DEF TypeOK
  <2>1. ASSUME NEW op \in Op, Create(op)
        PROVE  TypeOK'
    BY <2>1 DEF Create, Step
  <2>2. ASSUME NEW op \in Op, Acquire(op)
        PROVE  TypeOK'
    <3>1. CASE OpenLock(op)
      BY <3>1 DEF OpenLock, Step, Fault
    <3>2. CASE FlushLock(op)
      BY <3>2 DEF FlushLock, Step, Fault
    <3>3. CASE LockExists(op)
      BY <3>3 DEF LockExists, Step
    <3>4. CASE JudgeHolder(op)
      BY <3>4 DEF JudgeHolder, Step
    <3>5. CASE StealLock(op)
      BY <3>5 DEF StealLock, Step
    <3>6. QED
      BY <2>2, <3>1, <3>2, <3>3, <3>4, <3>5 DEF Acquire
  <2>3. ASSUME NEW op \in Op, Deny(op)
        PROVE  TypeOK'
    <3>1. CASE DenyJournal(op)
      BY <3>1 DEF DenyJournal, Step, Fault
    <3>2. CASE DenyAudit(op)
      BY <3>2 DEF DenyAudit, Step, Fault
    <3>3. QED
      BY <2>3, <3>1, <3>2 DEF Deny
  <2>4. ASSUME NEW op \in Op, Run(op)
        PROVE  TypeOK'
    <3>1. CASE AuditStart(op)
      BY <3>1 DEF AuditStart, Step, Fault
    <3>2. CASE BodyEnds(op)
      BY <3>2 DEF BodyEnds, Step
    <3>3. CASE Complete(op)
      BY <3>3 DEF Complete, Step, Fault
    <3>4. CASE AuditSucceeded(op)
      BY <3>4 DEF AuditSucceeded, Step, Fault
    <3>5. CASE Fail(op)
      BY <3>5 DEF Fail, Step, Fault
    <3>6. CASE AuditFailed(op)
      BY <3>6 DEF AuditFailed, Step, Fault
    <3>7. QED
      BY <2>4, <3>1, <3>2, <3>3, <3>4, <3>5, <3>6 DEF Run
  <2>5. ASSUME NEW op \in Op, Release(op)
        PROVE  TypeOK'
    <3>1. CASE ReleaseLock(op)
      BY <3>1 DEF ReleaseLock, Step
    <3>2. CASE UnlinkLock(op)
      BY <3>2 DEF UnlinkLock, Step
    <3>3. QED
      BY <2>5, <3>1, <3>2 DEF Release
  <2>6. ASSUME NEW i \in Instance, ProbeLock(i) \/ ProbeRemoves(i)
        PROVE  TypeOK'
    BY <2>6 DEF ProbeLock, ProbeRemoves
  <2>7. CASE Crash
    BY <2>7 DEF Crash
  <2>8. CASE Recover
    BY <2>8 DEF Recover, Boot, Listen, RecoverInterrupted
  <2>9. CASE UNCHANGED vars
    BY <2>9 DEF vars
  <2>10. QED
    BY <2>1, <2>2, <2>3, <2>4, <2>5, <2>6, <2>7, <2>8, <2>9 DEF Next, Progress
<1>3. QED
  BY <1>1, <1>2, PTL DEF Spec

-------------------------------------------------------------------------------
\* Journal and audit log follow each operation's code step by step, through
\* crashes, repairs and failed writes.
THEOREM StoryHolds == Spec => []Story
<1> USE DEF Story, Quiet, StoryOf, ResultsAgree
<1>1. Init => Story
  BY DEF Init, Waiting
<1>2. TypeOK /\ Story /\ [Next]_vars => Story'
  <2> SUFFICES ASSUME TypeOK, Story, [Next]_vars
               PROVE  Story'
    OBVIOUS
  <2> USE DEF TypeOK, disk, process, locking, Step, Fault
  <2>1. ASSUME NEW op \in Op, Create(op)
        PROVE  Story'
    BY <2>1 DEF Create, Waiting
  <2>2. ASSUME NEW op \in Op, Acquire(op)
        PROVE  Story'
    BY <2>2 DEF Acquire, OpenLock, FlushLock, LockExists, JudgeHolder, StealLock, Waiting
  <2>3. ASSUME NEW op \in Op, Deny(op)
        PROVE  Story'
    BY <2>3 DEF Deny, DenyJournal, DenyAudit, Waiting
  <2>4. ASSUME NEW op \in Op, Run(op)
        PROVE  Story'
    <3> USE DEF Waiting
    <3>1. CASE AuditStart(op)
      BY <3>1 DEF AuditStart
    <3>2. CASE BodyEnds(op)
      BY <3>2 DEF BodyEnds
    <3>3. CASE Complete(op)
      BY <3>3 DEF Complete
    <3>4. CASE AuditSucceeded(op)
      BY <3>4 DEF AuditSucceeded
    <3>5. CASE Fail(op)
      BY <3>5 DEF Fail
    <3>6. CASE AuditFailed(op)
      BY <3>6 DEF AuditFailed
    <3>7. QED
      BY <2>4, <3>1, <3>2, <3>3, <3>4, <3>5, <3>6 DEF Run
  <2>5. ASSUME NEW op \in Op, Release(op)
        PROVE  Story'
    BY <2>5 DEF Release, ReleaseLock, UnlinkLock, Waiting
  <2>6. ASSUME NEW i \in Instance, ProbeLock(i) \/ ProbeRemoves(i)
        PROVE  Story'
    BY <2>6 DEF ProbeLock, ProbeRemoves
  <2>7. CASE Crash
    BY <2>7 DEF Crash, PcStates, Active, Waiting
  <2>8. CASE Recover
    <3>1. CASE Boot
      BY <3>1 DEF Boot, Waiting
    <3>2. CASE Listen
      BY <3>2 DEF Listen
    <3>3. ASSUME NEW op \in Op, RecoverInterrupted(op)
          PROVE  Story'
      BY <3>3 DEF RecoverInterrupted, Waiting
    <3>4. QED
      BY <2>8, <3>1, <3>2, <3>3 DEF Recover
  <2>9. CASE UNCHANGED vars
    BY <2>9 DEF vars
  <2>10. QED
    BY <2>1, <2>2, <2>3, <2>4, <2>5, <2>6, <2>7, <2>8, <2>9 DEF Next, Progress
<1>3. QED
  BY <1>1, <1>2, Typing, PTL DEF Spec

\* The audit log and the journal of jobs.ts never contradict each other.
THEOREM AuditAndJournal == Spec => []AuditAgreesWithJournal
<1>1. Story => AuditAgreesWithJournal
  BY DEF Story, StoryOf, ResultsAgree, AuditAgreesWithJournal
<1>2. QED
  BY <1>1, StoryHolds, PTL

\* Neither the runner nor the repair at boot turns a failed record into a
\* succeeded one.
THEOREM FailureIsFinal == Spec => FailedIsFinal
<1>1. TypeOK /\ Story /\ [Next]_vars
        => [\A op \in Op : status[op] = "failed" => status'[op] = "failed"]_vars
  <2> SUFFICES ASSUME TypeOK, Story, Next, NEW op \in Op, status[op] = "failed"
               PROVE  status'[op] = "failed"
    OBVIOUS
  <2> USE DEF TypeOK, Story, StoryOf, disk, process, locking, Step, Fault
  <2>1. ASSUME NEW o \in Op, Create(o)
        PROVE  status'[op] = "failed"
    BY <2>1 DEF Create
  <2>2. ASSUME NEW o \in Op, Progress(o)
        PROVE  status'[op] = "failed"
    BY <2>2 DEF Progress, Acquire, OpenLock, FlushLock, LockExists, JudgeHolder, StealLock,
                Deny, DenyJournal, DenyAudit, Run, AuditStart, BodyEnds, Complete,
                AuditSucceeded, Fail, AuditFailed, Release, ReleaseLock, UnlinkLock
  <2>3. CASE (\E i \in Instance : ProbeLock(i) \/ ProbeRemoves(i)) \/ Crash \/ Recover
    BY <2>3 DEF ProbeLock, ProbeRemoves, Crash, Recover, Boot, Listen, RecoverInterrupted
  <2>4. QED
    BY <2>1, <2>2, <2>3 DEF Next
<1>2. QED
  BY <1>1, Typing, StoryHolds, PTL DEF Spec, FailedIsFinal

-------------------------------------------------------------------------------
\* Under one pid, an operation keeps the lockfile of its instance from the
\* moment it creates it to the moment it unlinks it.
THEOREM CustodyHolds == ASSUME SinglePid PROVE Spec => []Custody
<1> USE DEF Custody, Owning, Finishing, Locks
<1>1. Init => Custody
  BY DEF Init
<1>2. TypeOK /\ Custody /\ [Next]_vars => Custody'
  <2> SUFFICES ASSUME TypeOK, Custody, [Next]_vars
               PROVE  Custody'
    OBVIOUS
  <2> USE DEF TypeOK, disk, process, locking, Step, Fault
  <2>1. \A i \in Instance : ~Stale(i)
    BY NullAssumption DEF Stale, Readable, SinglePid
  <2>2. ASSUME NEW op \in Op, Create(op)
        PROVE  Custody'
    BY <2>2 DEF Create
  <2>3. ASSUME NEW op \in Op, Acquire(op)
        PROVE  Custody'
    <3>1. pc[op] \in {"attempt", "judge", "flush"} => Target[op] \in Instance
      BY TargetAssumption
    <3>2. CASE OpenLock(op)
      BY <3>1, <3>2, TargetAssumption, NullAssumption DEF OpenLock
    <3>3. CASE FlushLock(op)
      BY <3>3 DEF FlushLock
    <3>4. CASE LockExists(op)
      BY <3>4 DEF LockExists
    <3>5. CASE JudgeHolder(op)
      BY <2>1, <3>1, <3>5 DEF JudgeHolder
    <3>6. QED
      BY <2>3, <3>2, <3>3, <3>4, <3>5 DEF Acquire, StealLock
  <2>4. ASSUME NEW op \in Op, Deny(op) \/ Run(op)
        PROVE  Custody'
    BY <2>4 DEF Deny, DenyJournal, DenyAudit, Run, AuditStart, BodyEnds, Complete,
                AuditSucceeded, Fail, AuditFailed
  <2>5. ASSUME NEW op \in Op, ReleaseLock(op)
        PROVE  Custody'
    BY <2>5 DEF ReleaseLock
  <2>6. ASSUME NEW op \in Op, UnlinkLock(op)
        PROVE  Custody'
    \* Only op itself owned the file it removes.
    <3>1. ASSUME NEW b \in Op, b # op, Locks(b), pc[b] \in {"flush"} \cup Owning
          PROVE  lock'[Target[b]] = b
      BY <2>6, <3>1, TargetAssumption DEF UnlinkLock
    <3>2. QED
      BY <2>6, <3>1 DEF UnlinkLock
  <2>7. ASSUME NEW i \in Instance, ProbeLock(i) \/ ProbeRemoves(i)
        PROVE  Custody'
    BY <2>1, <2>7 DEF ProbeLock, ProbeRemoves
  <2>8. CASE Crash \/ Recover
    BY <2>8 DEF Crash, Active, Recover, Boot, Listen, RecoverInterrupted
  <2>9. CASE UNCHANGED vars
    BY <2>9 DEF vars
  <2>10. QED
    BY <2>2, <2>3, <2>4, <2>5, <2>6, <2>7, <2>8, <2>9 DEF Next, Progress, Release
<1>3. QED
  BY <1>1, <1>2, Typing, PTL DEF Spec

\* In the container deployment two operations never work on one instance at
\* the same time, however many are started and however often the manager
\* crashes.
THEOREM Exclusion == ASSUME SinglePid PROVE Spec => []MutualExclusion
<1>1. Custody => MutualExclusion
  BY DEF Custody, MutualExclusion, Locks, Owning
<1>2. QED
  BY <1>1, CustodyHolds, PTL

\* acquire, release and the removal of leftovers hand lockfiles on and off
\* such that, wherever the manager runs, only a live or dead owner has one.
THEOREM TenureHolds == Spec => []Tenure
<1> USE DEF Tenure, Owning, Finishing, Waiting, Locks
<1>1. Init => Tenure
  BY NullAssumption DEF Init
<1>2. TypeOK /\ Tenure /\ [Next]_vars => Tenure'
  <2> SUFFICES ASSUME TypeOK, Tenure, [Next]_vars
               PROVE  Tenure'
    OBVIOUS
  <2> USE TargetAssumption, NullAssumption DEF TypeOK, disk, process, locking, Step, Fault
  <2>1. ASSUME NEW op \in Op, Create(op)
        PROVE  Tenure'
    BY <2>1 DEF Create
  <2>2. ASSUME NEW op \in Op, Acquire(op)
        PROVE  Tenure'
    <3>1. CASE OpenLock(op)
      BY <3>1 DEF OpenLock
    <3>2. CASE FlushLock(op)
      BY <3>2 DEF FlushLock
    <3>3. CASE LockExists(op) \/ JudgeHolder(op)
      BY <3>3 DEF LockExists, JudgeHolder
    <3>4. CASE StealLock(op)
      BY <3>4 DEF StealLock
    <3>5. QED
      BY <2>2, <3>1, <3>2, <3>3, <3>4 DEF Acquire
  <2>3. ASSUME NEW op \in Op, Deny(op) \/ Run(op)
        PROVE  Tenure'
    BY <2>3 DEF Deny, DenyJournal, DenyAudit, Run, AuditStart, BodyEnds, Complete,
                AuditSucceeded, Fail, AuditFailed
  <2>4. ASSUME NEW op \in Op, ReleaseLock(op)
        PROVE  Tenure'
    BY <2>4 DEF ReleaseLock, Readable
  <2>5. ASSUME NEW op \in Op, UnlinkLock(op)
        PROVE  Tenure'
    BY <2>5 DEF UnlinkLock
  <2>6. ASSUME NEW i \in Instance, ProbeLock(i) \/ ProbeRemoves(i)
        PROVE  Tenure'
    BY <2>6 DEF ProbeLock, ProbeRemoves
  <2>7. CASE Crash \/ Recover
    BY <2>7 DEF Crash, Active, Recover, Boot, Listen, RecoverInterrupted
  <2>8. CASE UNCHANGED vars
    BY <2>8 DEF vars
  <2>9. QED
    BY <2>1, <2>2, <2>3, <2>4, <2>5, <2>6, <2>7, <2>8 DEF Next, Progress, Release
<1>3. QED
  BY <1>1, <1>2, Typing, PTL DEF Spec

\* The finally block of OperationRunner.start does release: with no I/O error
\* an operation that is over has left no lockfile.
THEOREM OverIsClean == Spec => []OverHoldsNoLock
<1>1. Tenure => OverHoldsNoLock
  BY DEF Tenure, OverHoldsNoLock, Owning, Finishing
<1>2. QED
  BY <1>1, TenureHolds, PTL

-------------------------------------------------------------------------------
\* In the container deployment the framework implements the promise of
\* InstanceOperations: AuditStart is the abstract Begin, BodyEnds the End,
\* Complete the Succeed; every journaled failure is a Fail, a crash a Die, and
\* every other step changes nothing the promise speaks of.
THEOREM Refinement == ASSUME SinglePid PROVE Spec => KeepsPromise
<1> USE DEF Begun, Working, Outcome
<1>1. Init => Promise!Init
  BY DEF Init, Promise!Init
<1>2. TypeOK /\ Story /\ Custody /\ [Next]_vars => [Promise!Next]_(Promise!avars)
  <2> SUFFICES ASSUME TypeOK, Story, Custody, [Next]_vars
               PROVE  Promise!Next \/ UNCHANGED Promise!avars
    BY DEF Promise!avars
  <2> USE DEF TypeOK, disk, process, locking, Step, Fault, Story, StoryOf
  <2>1. ASSUME NEW op \in Op, Create(op) \/ Acquire(op) \/ Release(op)
        PROVE  UNCHANGED Promise!avars
    BY <2>1 DEF Create, Acquire, OpenLock, FlushLock, LockExists, JudgeHolder, StealLock,
                Release, ReleaseLock, UnlinkLock, Promise!avars
  <2>2. ASSUME NEW op \in Op, DenyJournal(op)
        PROVE  Promise!Fail(op) \/ UNCHANGED Promise!avars
    BY <2>2 DEF DenyJournal, Promise!Fail, Promise!avars
  <2>3. ASSUME NEW op \in Op, DenyAudit(op)
        PROVE  UNCHANGED Promise!avars
    BY <2>3 DEF DenyAudit, Promise!avars
  <2>4. ASSUME NEW op \in Op, AuditStart(op)
        PROVE  Promise!Begin(op) \/ UNCHANGED Promise!avars
    <3>1. ASSUME NEW w \in Working, Locks(op)
          PROVE  Target[w] # Target[op]
      BY <2>4, <3>1 DEF AuditStart, Custody, Locks, Owning
    <3>2. QED
      BY <2>4, <3>1 DEF AuditStart, Locks, Promise!Begin, Promise!avars
  <2>5. ASSUME NEW op \in Op, BodyEnds(op)
        PROVE  Promise!End(op)
    BY <2>5 DEF BodyEnds, Promise!End
  <2>6. ASSUME NEW op \in Op, Complete(op)
        PROVE  Promise!Succeed(op) \/ UNCHANGED Promise!avars
    BY <2>6 DEF Complete, Promise!Succeed, Promise!avars
  <2>7. ASSUME NEW op \in Op, AuditSucceeded(op) \/ AuditFailed(op)
        PROVE  UNCHANGED Promise!avars
    BY <2>7 DEF AuditSucceeded, AuditFailed, Promise!avars
  <2>8. ASSUME NEW op \in Op, Fail(op)
        PROVE  Promise!Fail(op) \/ UNCHANGED Promise!avars
    BY <2>8 DEF Fail, Promise!Fail, Promise!avars
  <2>9. ASSUME NEW i \in Instance, ProbeLock(i) \/ ProbeRemoves(i)
        PROVE  UNCHANGED Promise!avars
    BY <2>9 DEF ProbeLock, ProbeRemoves, Promise!avars
  <2>10. CASE Crash
    BY <2>10 DEF Crash, Active, Owning, Promise!Next, Promise!Die
  <2>11. CASE Boot \/ Listen
    BY <2>11 DEF Boot, Listen, Promise!avars
  <2>12. ASSUME NEW op \in Op, RecoverInterrupted(op)
         PROVE  Promise!Fail(op) \/ UNCHANGED Promise!avars
    BY <2>12 DEF RecoverInterrupted, Quiet, Promise!Fail, Promise!avars
  <2>13. CASE UNCHANGED vars
    BY <2>13 DEF vars, Promise!avars
  <2>14. QED
    BY <2>1, <2>2, <2>3, <2>4, <2>5, <2>6, <2>7, <2>8, <2>9, <2>10, <2>11, <2>12, <2>13
       DEF Next, Progress, Deny, Run, Recover, Promise!Next
<1>3. QED
  BY <1>1, <1>2, Typing, StoryHolds, CustodyHolds, PTL DEF Spec, KeepsPromise, Promise!Spec

=============================================================================
