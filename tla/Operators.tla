------------------------------ MODULE Operators ------------------------------
(***************************************************************************)
(* The operator registry and the sessions of the manager's web server.     *)
(*                                                                         *)
(* manager/operators.json holds the accounts.  Every edit of it - the CLI  *)
(* commands `admin create | disable | role grant | bootstrap-token` and    *)
(* the web server's first-run setup route - loads the whole table, changes *)
(* the copy and writes the copy back by rename.  Nothing orders two edits. *)
(* Sessions live in the memory of the web server: sign-in and setup start  *)
(* them, sign-out removes them, a restart of the server forgets them all.  *)
(*                                                                         *)
(* One task is one command or one request; the reads and writes of the     *)
(* file are steps of their own, since each is awaited.                     *)
(***************************************************************************)
EXTENDS Naturals, FiniteSets

CONSTANTS
    Task,          \* the commands and requests of a behaviour; bounds their number
    Email,         \* the (normalised) e-mail addresses operators use
    Role,          \* MANAGER_ROLES
    Owner,         \* "server_owner", the role of the first operator
    NoTask,        \* no bootstrap token
    MaxRestarts    \* bound on the restarts of the web server

ASSUME OperatorsAssumption ==
    /\ Owner \in Role /\ Email # {}
    /\ NoTask \notin Task
    /\ MaxRestarts \in Nat

VARIABLES
    table,         \* what manager/operators.json holds
    task,          \* the progress of every command and request
    sessions,      \* srv.sessions, in memory
    restarts,      \* restarts of the web server so far
    saved          \* history: every account the file has ever held

operatorsVars == <<table, task, sessions, restarts, saved>>

----------------------------------------------------------------------------
(* An account's id is the task that created it: each creates at most one.  *)

ManagerOperator == [id: Task, email: Email, roles: SUBSET Role, disabled: BOOLEAN]

OperatorTable == [operators: SUBSET ManagerOperator, token: Task \union {NoTask}]

Editing == {"create", "disable", "grant", "token", "setup"}
OnServer == {"setup", "login"}
Kind == Editing \union {"login"}

(* "idle" has not started, "read" holds its copy of the table, "saved" has *)
(* replaced the file and has not answered, "done" and "failed" are over.   *)
Progress == [pc: {"idle", "read", "saved", "done", "failed"},
             kind: Kind, email: Email, role: Role, copy: OperatorTable]

ManagerSession == [by: Task, operator: Task, email: Email, roles: SUBSET Role,
                   expired: BOOLEAN]

emptyOperatorTable == [operators |-> {}, token |-> NoTask]

OperatorsTypeOK ==
    /\ table \in OperatorTable
    /\ task \in [Task -> Progress]
    /\ sessions \subseteq ManagerSession
    /\ restarts \in 0..MaxRestarts
    /\ saved \subseteq ManagerOperator

OperatorsInit ==
    /\ table = emptyOperatorTable
    /\ task = [t \in Task |-> [pc |-> "idle", kind |-> "login", email |-> CHOOSE e \in Email : TRUE,
                              role |-> Owner, copy |-> emptyOperatorTable]]
    /\ sessions = {}
    /\ restarts = 0
    /\ saved = {}

----------------------------------------------------------------------------
(* What an edit makes of its copy, and when it throws instead.             *)

findOperatorByEmail(tbl, e) == {o \in tbl.operators : o.email = e}

isBootstrapRequired(tbl) == \A o \in tbl.operators : o.disabled

createOperator(tbl, t, e, r) ==
    [tbl EXCEPT !.operators = @ \union
        {[id |-> t, email |-> e, roles |-> {r}, disabled |-> FALSE]}]

disableOperator(tbl, e) ==
    [tbl EXCEPT !.operators = {IF o.email = e THEN [o EXCEPT !.disabled = TRUE] ELSE o : o \in @}]

(* Mutant: the role's name is not looked up in MANAGER_ROLES. *)
grantAnyRole(tbl, e, r) ==
    [tbl EXCEPT !.operators =
        {IF o.email = e THEN [o EXCEPT !.roles = @ \union {r, NoTask}] ELSE o : o \in @}]

grantRole(tbl, e, r) ==
    [tbl EXCEPT !.operators =
        {IF o.email = e THEN [o EXCEPT !.roles = @ \union {r}] ELSE o : o \in @}]

(* Mutant: an address that is taken is not looked up. *)
RefusedUnchecked(p) ==
    \/ p.kind = "setup" /\ ~isBootstrapRequired(p.copy)
    \/ p.kind \in {"disable", "grant"} /\ findOperatorByEmail(p.copy, p.email) = {}

Refused(p) ==
    \/ p.kind = "setup" /\ ~isBootstrapRequired(p.copy)
    \/ p.kind \in {"setup", "create"} /\ findOperatorByEmail(p.copy, p.email) # {}
    \/ p.kind \in {"disable", "grant"} /\ findOperatorByEmail(p.copy, p.email) = {}

Changed(t, p) ==
    CASE p.kind = "setup"   -> createOperator(p.copy, t, p.email, Owner)
      [] p.kind = "create"  -> createOperator(p.copy, t, p.email, p.role)
      [] p.kind = "disable" -> disableOperator(p.copy, p.email)
      [] p.kind = "grant"   -> grantRole(p.copy, p.email, p.role)
      [] p.kind = "token"   -> [p.copy EXCEPT !.token = t]

----------------------------------------------------------------------------
(* A command or a request: load, then either throw, save, or (sign-in)     *)
(* start the session from the copy.                                        *)

Load(t) ==
    /\ task[t].pc = "idle"
    /\ \E k \in Kind, e \in Email, r \in Role :
         /\ k \in {"create", "grant"} \/ r = Owner
         /\ task' = [task EXCEPT ![t] = [pc |-> "read", kind |-> k, email |-> e,
                                         role |-> r, copy |-> table]]
    /\ UNCHANGED <<table, sessions, restarts, saved>>

(* Past its last use the copy is garbage. *)
Stop(t, pc) == task' = [task EXCEPT ![t].pc = pc, ![t].copy = emptyOperatorTable]

(* 400 or 409 of the setup route, an error of the command. *)
Throw(t) ==
    /\ task[t].pc = "read" /\ task[t].kind \in Editing
    /\ Refused(task[t])
    /\ Stop(t, "failed")
    /\ UNCHANGED <<table, sessions, restarts, saved>>

(* The rename of FileOperatorStore.save replaces the whole file. *)
Save(t) ==
    /\ task[t].pc = "read" /\ task[t].kind \in Editing
    /\ ~Refused(task[t])
    /\ table' = Changed(t, task[t])
    /\ saved' = saved \union Changed(t, task[t]).operators
    /\ Stop(t, IF task[t].kind = "setup" THEN "saved" ELSE "done")
    /\ UNCHANGED <<sessions, restarts>>

(* The temporary file cannot be written, or a command is interrupted: the  *)
(* file keeps what it held.                                                *)
SaveFails(t) ==
    /\ task[t].pc = "read" /\ task[t].kind \in Editing
    /\ Stop(t, "failed")
    /\ UNCHANGED <<table, sessions, restarts, saved>>

startSession(t, o) ==
    sessions' = sessions \union
        {[by |-> t, operator |-> o.id, email |-> o.email, roles |-> o.roles, expired |-> FALSE]}

(* Mutant: setup signs its operator in before the table is on disk. *)
SetupSignsInFirst(t) ==
    /\ task[t].kind = "setup" /\ task[t].pc \in {"read", "saved"}
    /\ ~Refused(task[t])
    /\ startSession(t, [id |-> t, email |-> task[t].email, roles |-> {Owner}])
    /\ UNCHANGED <<table, task, restarts, saved>>

(* handleSetupOperator after its save: the operator it created signs in. *)
SetupSignsIn(t) ==
    /\ task[t].kind = "setup" /\ task[t].pc = "saved"
    /\ startSession(t, [id |-> t, email |-> task[t].email, roles |-> {Owner}])
    /\ Stop(t, "done")
    /\ UNCHANGED <<table, restarts, saved>>

(* handleLogin with the right password. *)
SignIn(t) ==
    /\ task[t].kind = "login" /\ task[t].pc = "read"
    /\ \E o \in findOperatorByEmail(task[t].copy, task[t].email) :
         /\ ~o.disabled
         /\ startSession(t, o)
    /\ Stop(t, "done")
    /\ UNCHANGED <<table, restarts, saved>>

(* Wrong password, no such operator, or a disabled one: 401. *)
SignInRefused(t) ==
    /\ task[t].kind = "login" /\ task[t].pc = "read"
    /\ Stop(t, "failed")
    /\ UNCHANGED <<table, sessions, restarts, saved>>

----------------------------------------------------------------------------
(* The sessions' own ends, and the server's.                               *)

(* An expired session stays in the table: nothing prunes it. *)
Expire(s) ==
    /\ ~s.expired
    /\ sessions' = (sessions \ {s}) \union {[s EXCEPT !.expired = TRUE]}
    /\ UNCHANGED <<table, task, restarts, saved>>

(* /api/logout, behind the gate that refuses an expired session. *)
Logout(s) ==
    /\ ~s.expired
    /\ sessions' = sessions \ {s}
    /\ UNCHANGED <<table, task, restarts, saved>>

RestartServer ==
    /\ restarts < MaxRestarts
    /\ restarts' = restarts + 1
    /\ sessions' = {}
    /\ task' = [t \in Task |->
                  IF task[t].kind \in OnServer /\ task[t].pc \in {"read", "saved"}
                  THEN [task[t] EXCEPT !.pc = "failed", !.copy = emptyOperatorTable]
                  ELSE task[t]]
    /\ UNCHANGED <<table, saved>>

OperatorsNext ==
    \/ \E t \in Task :
         \/ Load(t) \/ Throw(t) \/ Save(t) \/ SaveFails(t)
         \/ SetupSignsIn(t) \/ SignIn(t) \/ SignInRefused(t)
    \/ \E s \in sessions : Expire(s) \/ Logout(s)
    \/ RestartServer

OperatorsSpec == OperatorsInit /\ [][OperatorsNext]_operatorsVars

----------------------------------------------------------------------------
(* Properties.                                                             *)

(* No table that is ever written holds two accounts of one address,        *)
(* whichever edits overlap: an edit that overwrites another never merges   *)
(* with it (findOperatorByEmail returns the first match, so a second       *)
(* account could never sign in).                                           *)
OneAccountPerEmail ==
    \A o, p \in table.operators : o.email = p.email => o.id = p.id

(* Whoever holds a session signed in as an account that was on disk,       *)
(* enabled and with just these roles: a setup whose save fails, a          *)
(* sign-in beside an edit or a restart never leaves a session of an        *)
(* account that was never stored.                                          *)
SessionsWereStored ==
    \A s \in sessions :
        [id |-> s.operator, email |-> s.email, roles |-> s.roles, disabled |-> FALSE] \in saved

(* First-run setup creates an account only while the registry has no       *)
(* enabled operator (routes/auth.ts: "afterwards it permanently answers    *)
(* 409, so it can never be used to add accounts to a configured manager"). *)
SetupLocksItself ==
    [][\A t \in Task :
          task[t].kind = "setup" /\ task[t].pc = "read" /\ task'[t].pc = "saved"
              => isBootstrapRequired(table)]_operatorsVars
=============================================================================
