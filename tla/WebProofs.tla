------------------------------ MODULE WebProofs ------------------------------
(****************************************************************************)
(* Theorems about the web manager: the accounts and sessions of its         *)
(* operators (module Operators), the page that follows an operation through *)
(* a self-update of the manager (Console), and the window that asks for an  *)
(* update of an instance (UpdateDialog).  The three have no state in common *)
(* and are independent of one another; each part holds for any values of    *)
(* the constants of its own module.                                         *)
(****************************************************************************)
EXTENDS Operators, Console, UpdateDialog, TLAPS

----------------------------------------------------------------------------
(**************************************************************************)
(* Module Operators.                                                      *)
(**************************************************************************)

(* What an edit makes of a table                                           *)

Unique(tbl) == \A o, p \in tbl.operators : o.email = p.email => o.id = p.id

Account(t, p) ==
    [id |-> t, email |-> p.email, roles |-> {IF p.kind = "setup" THEN Owner ELSE p.role},
     disabled |-> FALSE]

LEMMA CreateIs ==
    ASSUME NEW tbl \in OperatorTable, NEW t \in Task, NEW e \in Email, NEW r \in Role
    PROVE  /\ createOperator(tbl, t, e, r) \in OperatorTable
           /\ createOperator(tbl, t, e, r).operators =
                tbl.operators \union {[id |-> t, email |-> e, roles |-> {r}, disabled |-> FALSE]}
<1>1. [id |-> t, email |-> e, roles |-> {r}, disabled |-> FALSE] \in ManagerOperator
  BY DEF ManagerOperator
<1> QED BY <1>1 DEF createOperator, OperatorTable

\* An edit of the accounts of one address leaves every id and address as it is.
LEMMA DisableIs ==
    ASSUME NEW tbl \in OperatorTable, NEW e \in Email
    PROVE  /\ disableOperator(tbl, e) \in OperatorTable
           /\ \A o \in disableOperator(tbl, e).operators :
                \E p \in tbl.operators : o.id = p.id /\ o.email = p.email
<1> DEFINE After(o) == IF o.email = e THEN [o EXCEPT !.disabled = TRUE] ELSE o
<1>1. disableOperator(tbl, e) = [tbl EXCEPT !.operators = {After(o) : o \in @}]
  BY DEF disableOperator
<1>2. \A o \in ManagerOperator :
        After(o) \in ManagerOperator /\ After(o).id = o.id /\ After(o).email = o.email
  BY DEF ManagerOperator
<1> HIDE DEF After
<1>3. tbl.operators \subseteq ManagerOperator
  BY DEF OperatorTable
<1>4. disableOperator(tbl, e).operators = {After(o) : o \in tbl.operators}
  BY <1>1 DEF OperatorTable
<1>5. disableOperator(tbl, e) \in OperatorTable
  <2>1. {After(o) : o \in tbl.operators} \in SUBSET ManagerOperator
    BY <1>2, <1>3
  <2> QED BY <1>1, <2>1 DEF OperatorTable
<1> QED BY <1>2, <1>3, <1>4, <1>5

LEMMA GrantIs ==
    ASSUME NEW tbl \in OperatorTable, NEW e \in Email, NEW r \in Role
    PROVE  /\ grantRole(tbl, e, r) \in OperatorTable
           /\ \A o \in grantRole(tbl, e, r).operators :
                \E p \in tbl.operators : o.id = p.id /\ o.email = p.email
<1> DEFINE After(o) == IF o.email = e THEN [o EXCEPT !.roles = @ \union {r}] ELSE o
<1>1. grantRole(tbl, e, r) = [tbl EXCEPT !.operators = {After(o) : o \in @}]
  BY DEF grantRole
<1>2. \A o \in ManagerOperator :
        After(o) \in ManagerOperator /\ After(o).id = o.id /\ After(o).email = o.email
  BY DEF ManagerOperator
<1> HIDE DEF After
<1>3. tbl.operators \subseteq ManagerOperator
  BY DEF OperatorTable
<1>4. grantRole(tbl, e, r).operators = {After(o) : o \in tbl.operators}
  BY <1>1 DEF OperatorTable
<1>5. grantRole(tbl, e, r) \in OperatorTable
  <2>1. {After(o) : o \in tbl.operators} \in SUBSET ManagerOperator
    BY <1>2, <1>3
  <2> QED BY <1>1, <2>1 DEF OperatorTable
<1> QED BY <1>2, <1>3, <1>4, <1>5

LEMMA ChangedIs ==
    ASSUME NEW t \in Task, NEW p \in Progress, p.kind \in Editing, ~Refused(p), Unique(p.copy)
    PROVE  /\ Changed(t, p) \in OperatorTable
           /\ Unique(Changed(t, p))
           /\ p.kind = "setup" => Account(t, p) \in Changed(t, p).operators
<1>1. p.copy \in OperatorTable /\ p.email \in Email /\ p.role \in Role /\ Owner \in Role
  BY OperatorsAssumption DEF Progress
<1>2. CASE p.kind \in {"setup", "create"}
  <2> DEFINE r == IF p.kind = "setup" THEN Owner ELSE p.role
  <2>1. Changed(t, p) = createOperator(p.copy, t, p.email, r) /\ r \in Role
    BY <1>1, <1>2 DEF Changed
  <2>2. \A o \in p.copy.operators : o.email # p.email
    BY <1>2 DEF Refused, findOperatorByEmail
  <2> HIDE DEF r
  <2>3. Changed(t, p) \in OperatorTable
        /\ Changed(t, p).operators = p.copy.operators \union
             {[id |-> t, email |-> p.email, roles |-> {r}, disabled |-> FALSE]}
    BY <1>1, <2>1, CreateIs
  <2>4. Unique(Changed(t, p))
    BY <2>2, <2>3 DEF Unique
  <2> QED BY <2>3, <2>4 DEF Account, r
<1>3. CASE p.kind = "disable"
  <2>1. Changed(t, p) = disableOperator(p.copy, p.email)
    BY <1>3 DEF Changed
  <2> QED BY <1>1, <1>3, <2>1, DisableIs DEF Unique
<1>4. CASE p.kind = "grant"
  <2>1. Changed(t, p) = grantRole(p.copy, p.email, p.role)
    BY <1>4 DEF Changed
  <2> QED BY <1>1, <1>4, <2>1, GrantIs DEF Unique
<1>5. CASE p.kind = "token"
  <2>1. Changed(t, p) = [p.copy EXCEPT !.token = t]
    BY <1>5 DEF Changed
  <2> QED BY <1>1, <1>5, <2>1 DEF OperatorTable, Unique
<1> QED BY <1>2, <1>3, <1>4, <1>5 DEF Editing

LEMMA EmptyIs == emptyOperatorTable \in OperatorTable /\ Unique(emptyOperatorTable)
BY DEF emptyOperatorTable, OperatorTable, Unique

----------------------------------------------------------------------------
(* OperatorsTyping, and one account for each address in every copy of the table     *)

Typed == OperatorsTypeOK /\ Unique(table) /\ \A t \in Task : Unique(task[t].copy)

\* The end of a task, with its copy gone.
LEMMA StopTyped ==
    ASSUME Typed, NEW t \in Task, NEW pc \in {"saved", "done", "failed"}, Stop(t, pc)
    PROVE  task' \in [Task -> Progress] /\ \A u \in Task : Unique(task'[u].copy)
<1>1. task \in [Task -> Progress]
  BY DEF Typed, OperatorsTypeOK
<1>2. [task[t] EXCEPT !.pc = pc, !.copy = emptyOperatorTable] \in Progress
  BY <1>1, EmptyIs DEF Progress
<1>3. task' = [task EXCEPT ![t] = [task[t] EXCEPT !.pc = pc, !.copy = emptyOperatorTable]]
  BY DEF Stop
<1>4. task'[t].copy = emptyOperatorTable /\ \A u \in Task \ {t} : task'[u] = task[u]
  BY <1>1, <1>3 DEF Progress
<1> QED BY <1>1, <1>2, <1>3, <1>4, EmptyIs DEF Typed

LEMMA SessionTyped ==
    ASSUME NEW t \in Task, NEW o, o.id \in Task, o.email \in Email, o.roles \in SUBSET Role,
           sessions \subseteq ManagerSession, startSession(t, o)
    PROVE  sessions' \subseteq ManagerSession
<1>1. [by |-> t, operator |-> o.id, email |-> o.email, roles |-> o.roles, expired |-> FALSE]
        \in ManagerSession
  BY DEF ManagerSession
<1> QED BY <1>1 DEF startSession

LEMMA OperatorsTypedNext ==
    ASSUME Typed, [OperatorsNext]_operatorsVars
    PROVE  Typed'
<1> USE DEF Typed
<1>1. /\ table \in OperatorTable /\ task \in [Task -> Progress]
      /\ sessions \subseteq ManagerSession /\ restarts \in 0..MaxRestarts
      /\ saved \subseteq ManagerOperator
  BY DEF OperatorsTypeOK
<1>2. ASSUME NEW t \in Task, Load(t) PROVE Typed'
  <2>1. PICK k \in Kind, e \in Email, r \in Role :
          task' = [task EXCEPT ![t] = [pc |-> "read", kind |-> k, email |-> e,
                                       role |-> r, copy |-> table]]
    BY <1>2 DEF Load
  <2>2. [pc |-> "read", kind |-> k, email |-> e, role |-> r, copy |-> table] \in Progress
    BY <1>1 DEF Progress
  <2>3. task'[t].copy = table /\ \A u \in Task \ {t} : task'[u] = task[u]
    BY <1>1, <2>1
  <2> QED BY <1>1, <1>2, <2>1, <2>2, <2>3 DEF Load, OperatorsTypeOK, Unique
<1>3. ASSUME NEW t \in Task, Throw(t) \/ SaveFails(t) \/ SignInRefused(t) PROVE Typed'
  <2>1. Stop(t, "failed") /\ UNCHANGED <<table, sessions, restarts, saved>>
    BY <1>3 DEF Throw, SaveFails, SignInRefused
  <2> QED BY <1>1, <2>1, StopTyped DEF OperatorsTypeOK, Unique
<1>4. ASSUME NEW t \in Task, Save(t) PROVE Typed'
  <2>1. task[t] \in Progress /\ Unique(task[t].copy) /\ task[t].kind \in Editing /\ ~Refused(task[t])
    BY <1>1, <1>4 DEF Save
  <2>2. Changed(t, task[t]) \in OperatorTable /\ Unique(Changed(t, task[t]))
    BY <2>1, ChangedIs
  <2>3. task' \in [Task -> Progress] /\ \A u \in Task : Unique(task'[u].copy)
    BY <1>4, StopTyped DEF Save
  <2>4. saved' \subseteq ManagerOperator
    BY <1>1, <1>4, <2>2 DEF Save, OperatorTable
  <2> QED BY <1>1, <1>4, <2>2, <2>3, <2>4 DEF Save, OperatorsTypeOK, Unique
<1>5. ASSUME NEW t \in Task, SetupSignsIn(t) PROVE Typed'
  <2>1. task[t].email \in Email /\ {Owner} \in SUBSET Role
    BY <1>1, OperatorsAssumption DEF Progress
  <2>2. sessions' \subseteq ManagerSession
    BY <1>1, <1>5, <2>1, SessionTyped DEF SetupSignsIn
  <2>3. task' \in [Task -> Progress] /\ \A u \in Task : Unique(task'[u].copy)
    BY <1>5, StopTyped DEF SetupSignsIn
  <2> QED BY <1>1, <1>5, <2>2, <2>3 DEF SetupSignsIn, OperatorsTypeOK, Unique
<1>6. ASSUME NEW t \in Task, SignIn(t) PROVE Typed'
  <2>1. PICK o \in findOperatorByEmail(task[t].copy, task[t].email) : startSession(t, o)
    BY <1>6 DEF SignIn
  <2>2. o \in ManagerOperator
    BY <1>1 DEF findOperatorByEmail, Progress, OperatorTable
  <2>3. sessions' \subseteq ManagerSession
    BY <1>1, <2>1, <2>2, SessionTyped DEF ManagerOperator
  <2>4. task' \in [Task -> Progress] /\ \A u \in Task : Unique(task'[u].copy)
    BY <1>6, StopTyped DEF SignIn
  <2> QED BY <1>1, <1>6, <2>3, <2>4 DEF SignIn, OperatorsTypeOK, Unique
<1>7. ASSUME NEW s \in sessions, Expire(s) \/ Logout(s) PROVE Typed'
  <2>1. s \in ManagerSession
    BY <1>1
  <2>2. [s EXCEPT !.expired = TRUE] \in ManagerSession
    BY <2>1 DEF ManagerSession
  <2>3. sessions' \subseteq ManagerSession
    BY <1>1, <1>7, <2>2 DEF Expire, Logout
  <2> QED BY <1>1, <1>7, <2>3 DEF Expire, Logout, OperatorsTypeOK, Unique
<1>8. CASE RestartServer
  <2> DEFINE Failed(t) == [task[t] EXCEPT !.pc = "failed", !.copy = emptyOperatorTable]
             Gone(t) == task[t].kind \in OnServer /\ task[t].pc \in {"read", "saved"}
  <2>1. \A t \in Task : Failed(t) \in Progress /\ Failed(t).copy = emptyOperatorTable
    BY <1>1, EmptyIs DEF Progress
  <2>2. task' = [t \in Task |-> IF Gone(t) THEN Failed(t) ELSE task[t]]
    BY <1>8 DEF RestartServer
  <2> HIDE DEF Failed, Gone
  <2>3. task' \in [Task -> Progress]
    BY <1>1, <2>1, <2>2
  <2>4. \A t \in Task : Unique(task'[t].copy)
    BY <2>1, <2>2, EmptyIs
  <2>5. restarts' \in 0..MaxRestarts
    <3>1. restarts < MaxRestarts /\ restarts' = restarts + 1
      BY <1>8 DEF RestartServer
    <3> QED BY <1>1, <3>1, OperatorsAssumption
  <2>6. OperatorsTypeOK'
    BY <1>1, <1>8, <2>3, <2>5 DEF RestartServer, OperatorsTypeOK
  <2> QED BY <1>8, <2>4, <2>6 DEF RestartServer, Unique
<1>9. CASE UNCHANGED operatorsVars
  BY <1>9 DEF operatorsVars, OperatorsTypeOK, Unique
<1> QED BY <1>2, <1>3, <1>4, <1>5, <1>6, <1>7, <1>8, <1>9 DEF OperatorsNext

LEMMA OperatorsTypedInit == OperatorsInit => Typed
<1>1. (CHOOSE e \in Email : TRUE) \in Email
  BY OperatorsAssumption
<1>2. OperatorsInit => task \in [Task -> Progress] /\ \A t \in Task : task[t].copy = emptyOperatorTable
  BY <1>1, OperatorsAssumption, EmptyIs DEF OperatorsInit, Progress, Kind, Editing
<1> QED BY <1>2, OperatorsAssumption, EmptyIs DEF OperatorsInit, Typed, OperatorsTypeOK

\* The variables stay within their types.
THEOREM OperatorsTyping == OperatorsSpec => []OperatorsTypeOK
<1>1. Typed => OperatorsTypeOK
  BY DEF Typed
<1> QED BY <1>1, OperatorsTypedInit, OperatorsTypedNext, PTL DEF OperatorsSpec

\* Whichever edits overlap, no table holds two accounts of one address.
THEOREM AddressesStayUnique == OperatorsSpec => []OneAccountPerEmail
<1>1. Typed => OneAccountPerEmail
  BY DEF Typed, Unique, OneAccountPerEmail
<1> QED BY <1>1, OperatorsTypedInit, OperatorsTypedNext, PTL DEF OperatorsSpec

----------------------------------------------------------------------------
(* Sessions are of accounts that were on disk                              *)

Stored(s) ==
    [id |-> s.operator, email |-> s.email, roles |-> s.roles, disabled |-> FALSE] \in saved

\* What is on disk, or was read from there, was saved; so was the account a setup signs in.
StoredAccounts ==
    /\ table.operators \subseteq saved
    /\ \A t \in Task :
         /\ task[t].copy.operators \subseteq saved
         /\ task[t].pc = "saved" => /\ task[t].kind = "setup"
                                    /\ [id |-> t, email |-> task[t].email, roles |-> {Owner},
                                        disabled |-> FALSE] \in saved

StoredInv == StoredAccounts /\ \A s \in sessions : Stored(s)

\* A task that goes on keeps the others, and its own address.
LEMMA StopKeeps ==
    ASSUME OperatorsTypeOK, NEW t \in Task, NEW pc \in {"saved", "done", "failed"}, Stop(t, pc)
    PROVE  /\ \A u \in Task \ {t} : task'[u] = task[u]
           /\ task'[t].pc = pc /\ task'[t].kind = task[t].kind /\ task'[t].email = task[t].email
           /\ task'[t].copy.operators = {}
<1>1. task \in [Task -> Progress]
  BY DEF OperatorsTypeOK
<1>2. task' = [task EXCEPT ![t] = [task[t] EXCEPT !.pc = pc, !.copy = emptyOperatorTable]]
  BY DEF Stop
<1>3. task'[t] = [task[t] EXCEPT !.pc = pc, !.copy = emptyOperatorTable]
      /\ \A u \in Task \ {t} : task'[u] = task[u]
  BY <1>1, <1>2
<1> QED BY <1>1, <1>3 DEF Progress, emptyOperatorTable

\* What a task that ends leaves, if it has saved nothing.
LEMMA StopStored ==
    ASSUME OperatorsTypeOK, StoredInv, NEW t \in Task, NEW pc \in {"done", "failed"}, Stop(t, pc),
           UNCHANGED <<table, saved>>
    PROVE  StoredAccounts'
BY StopKeeps DEF StoredInv, StoredAccounts

\* A session that is added is of an account in the history.
LEMMA SignedInStored ==
    ASSUME \A s \in sessions : Stored(s), saved' = saved, NEW t, NEW o, NEW e, NEW r,
           [id |-> o, email |-> e, roles |-> r, disabled |-> FALSE] \in saved,
           sessions' = sessions \union
             {[by |-> t, operator |-> o, email |-> e, roles |-> r, expired |-> FALSE]}
    PROVE  \A s \in sessions' : Stored(s)'
<1>1. TAKE s \in sessions'
<1>2. CASE s \in sessions
  <2>1. Stored(s)
    BY <1>2
  <2> QED BY <2>1 DEF Stored
<1>3. CASE s = [by |-> t, operator |-> o, email |-> e, roles |-> r, expired |-> FALSE]
  <2>1. s.operator = o /\ s.email = e /\ s.roles = r
    BY <1>3
  <2> QED BY <2>1 DEF Stored
<1> QED BY <1>2, <1>3

LEMMA StoredNext ==
    ASSUME Typed, StoredInv, [OperatorsNext]_operatorsVars
    PROVE  StoredInv'
<1> USE DEF Typed
<1>1. task \in [Task -> Progress]
  BY DEF OperatorsTypeOK
<1>2. ASSUME NEW t \in Task, Load(t) PROVE StoredInv'
  <2>1. PICK k \in Kind, e \in Email, r \in Role :
          task' = [task EXCEPT ![t] = [pc |-> "read", kind |-> k, email |-> e,
                                       role |-> r, copy |-> table]]
    BY <1>2 DEF Load
  <2>2. task'[t].copy = table /\ task'[t].pc = "read" /\ \A u \in Task \ {t} : task'[u] = task[u]
    BY <1>1, <2>1
  <2> QED BY <1>2, <2>2 DEF Load, StoredInv, StoredAccounts, Stored
<1>3. ASSUME NEW t \in Task, Throw(t) \/ SaveFails(t) \/ SignInRefused(t) PROVE StoredInv'
  <2>1. Stop(t, "failed") /\ UNCHANGED <<table, sessions, restarts, saved>>
    BY <1>3 DEF Throw, SaveFails, SignInRefused
  <2>2. \A s \in sessions' : Stored(s)'
    BY <2>1 DEF StoredInv, Stored
  <2> QED BY <2>1, <2>2, StopStored DEF StoredInv
<1>4. ASSUME NEW t \in Task, Save(t) PROVE StoredInv'
  <2>1. task[t] \in Progress /\ Unique(task[t].copy) /\ task[t].kind \in Editing /\ ~Refused(task[t])
    BY <1>1, <1>4 DEF Save
  <2>2. task[t].kind = "setup" => Account(t, task[t]) \in Changed(t, task[t]).operators
    BY <2>1, ChangedIs
  <2>3. /\ saved' = saved \union Changed(t, task[t]).operators
        /\ table' = Changed(t, task[t]) /\ sessions' = sessions
    BY <1>4 DEF Save
  <2>4. /\ \A u \in Task \ {t} : task'[u] = task[u]
        /\ task'[t].pc = IF task[t].kind = "setup" THEN "saved" ELSE "done"
        /\ task'[t].kind = task[t].kind /\ task'[t].email = task[t].email
        /\ task'[t].copy.operators = {}
    BY <1>4, StopKeeps DEF Save
  <2>5. task'[t].pc = "saved" =>
          /\ task'[t].kind = "setup"
          /\ [id |-> t, email |-> task'[t].email, roles |-> {Owner}, disabled |-> FALSE] \in saved'
    BY <2>2, <2>3, <2>4 DEF Account
  <2>6. \A s \in sessions' : Stored(s)'
    BY <2>3 DEF StoredInv, Stored
  <2> QED BY <2>3, <2>4, <2>5, <2>6 DEF StoredInv, StoredAccounts
<1>5. ASSUME NEW t \in Task, SetupSignsIn(t) PROVE StoredInv'
  <2>1. /\ Stop(t, "done") /\ UNCHANGED <<table, saved>>
        /\ sessions' = sessions \union {[by |-> t, operator |-> t, email |-> task[t].email,
                                         roles |-> {Owner}, expired |-> FALSE]}
        /\ [id |-> t, email |-> task[t].email, roles |-> {Owner}, disabled |-> FALSE] \in saved
    BY <1>5 DEF SetupSignsIn, startSession, StoredInv, StoredAccounts
  <2>2. \A s \in sessions' : Stored(s)'
    BY <2>1, SignedInStored DEF StoredInv
  <2> QED BY <2>1, <2>2, StopStored DEF StoredInv
<1>6. ASSUME NEW t \in Task, SignIn(t) PROVE StoredInv'
  <2>1. PICK o \in findOperatorByEmail(task[t].copy, task[t].email) :
          ~o.disabled /\ startSession(t, o)
    BY <1>6 DEF SignIn
  <2>2. o \in ManagerOperator /\ o \in saved
    BY <1>1 DEF findOperatorByEmail, Progress, OperatorTable, StoredInv, StoredAccounts
  <2>3. o = [id |-> o.id, email |-> o.email, roles |-> o.roles, disabled |-> FALSE]
    BY <2>1, <2>2 DEF ManagerOperator
  <2>4. Stop(t, "done") /\ UNCHANGED <<table, saved>>
    BY <1>6 DEF SignIn
  <2>5. \A s \in sessions' : Stored(s)'
    BY <2>1, <2>2, <2>3, <2>4, SignedInStored DEF startSession, StoredInv
  <2> QED BY <2>4, <2>5, StopStored DEF StoredInv
<1>7. ASSUME NEW s \in sessions, Expire(s) \/ Logout(s) PROVE StoredInv'
  <2>1. s \in ManagerSession /\ UNCHANGED <<table, task, saved>>
    BY <1>7 DEF OperatorsTypeOK, Expire, Logout
  <2>2. [s EXCEPT !.expired = TRUE].operator = s.operator
        /\ [s EXCEPT !.expired = TRUE].email = s.email
        /\ [s EXCEPT !.expired = TRUE].roles = s.roles
    BY <2>1 DEF ManagerSession
  <2>3. \A r \in sessions' : Stored(r)'
    BY <1>7, <2>1, <2>2 DEF Expire, Logout, StoredInv, Stored
  <2> QED BY <2>1, <2>3 DEF StoredInv, StoredAccounts
<1>8. CASE RestartServer
  <2> DEFINE Failed(t) == [task[t] EXCEPT !.pc = "failed", !.copy = emptyOperatorTable]
             Gone(t) == task[t].kind \in OnServer /\ task[t].pc \in {"read", "saved"}
  <2>1. \A t \in Task : Failed(t).pc = "failed" /\ Failed(t).copy.operators = {}
    BY <1>1 DEF Progress, emptyOperatorTable
  <2>2. task' = [t \in Task |-> IF Gone(t) THEN Failed(t) ELSE task[t]]
        /\ UNCHANGED <<table, saved>> /\ sessions' = {}
    BY <1>8 DEF RestartServer
  <2> HIDE DEF Failed, Gone
  <2>3. \A t \in Task : task'[t] = task[t]
                        \/ (task'[t].pc = "failed" /\ task'[t].copy.operators = {})
    BY <2>1, <2>2
  <2> QED BY <2>2, <2>3 DEF StoredInv, StoredAccounts
<1>9. CASE UNCHANGED operatorsVars
  BY <1>9 DEF operatorsVars, StoredInv, StoredAccounts, Stored
<1> QED BY <1>2, <1>3, <1>4, <1>5, <1>6, <1>7, <1>8, <1>9 DEF OperatorsNext

\* Whoever holds a session signed in as an account that was stored, enabled, with
\* these roles.
THEOREM SessionsAreOfStored == OperatorsSpec => []SessionsWereStored
<1>1. OperatorsInit => StoredInv
  BY DEF OperatorsInit, StoredInv, StoredAccounts, emptyOperatorTable
<1>2. Typed /\ StoredInv /\ [OperatorsNext]_operatorsVars => (Typed /\ StoredInv)'
  BY OperatorsTypedNext, StoredNext
<1>3. StoredInv => SessionsWereStored
  BY DEF StoredInv, Stored, SessionsWereStored
<1> QED BY <1>1, <1>2, <1>3, OperatorsTypedInit, PTL DEF OperatorsSpec

----------------------------------------------------------------------------
(**************************************************************************)
(* Module Console.                                                        *)
(**************************************************************************)

(* The types but for the bounds on drops and stops, which are counted.     *)
Answering == query \in [Queries -> QueryState]
Streaming == stream \in StreamState
Serving ==
    /\ op \in {"none", "running", "over"}
    /\ lock \in {"free", "held", "left"}
    /\ gui \in GuiState
    /\ tag \in Image
    /\ updater \in UpdaterState
    /\ session \in BOOLEAN
    /\ page \in {"login", "console"}
Counting == drops \in 0..MaxDrops /\ stops \in 0..MaxStops

LEMMA Parts == ConsoleTypeOK <=> Answering /\ Streaming /\ Serving /\ Counting
BY DEF ConsoleTypeOK, Answering, Streaming, Serving, Counting

LEMMA ConsoleTypedInit ==
    ASSUME ConsoleInit
    PROVE  ConsoleTypeOK
<1>1. Answering
    BY DEF ConsoleInit, Answering, unasked, QueryState, Answers
<1>2. Streaming
    BY DEF ConsoleInit, Streaming, closedStream, StreamState
<1>3. gui \in GuiState /\ tag \in Image /\ updater \in UpdaterState
    <2>1. PICK r \in Ref, i \in {"old", "new"} :
            gui = [up |-> TRUE, ref |-> r, image |-> IF r = "custom" THEN "custom" ELSE i]
        BY DEF ConsoleInit
    <2>2. gui \in GuiState
        BY <2>1 DEF GuiState, Ref, Image
    <2>3. tag \in Image
        BY DEF ConsoleInit, Image
    <2>4. updater \in UpdaterState
        BY DEF ConsoleInit, UpdaterState, Stages, Reports
    <2> QED BY <2>2, <2>3, <2>4
<1>4. Serving
    BY <1>3 DEF ConsoleInit, Serving
<1>5. Counting
    BY ConsoleAssumption DEF ConsoleInit, Counting
<1> QED BY <1>1, <1>2, <1>4, <1>5, Parts

(* A query thrown away or answered is a query.                             *)
LEMMA QueryKept ==
    ASSUME NEW s \in QueryState
    PROVE  Invalidated(s) \in QueryState /\ Shown(s) \in QueryState
BY DEF Invalidated, Shown, QueryState, Answers

LEMMA AllInvalidated ==
    ASSUME Answering
    PROVE  [q \in Queries |-> Invalidated(query[q])] \in [Queries -> QueryState]
BY QueryKept DEF Answering

LEMMA StreamKept ==
    ASSUME Streaming
    PROVE  Disconnected(stream) \in StreamState
BY DEF Streaming, Disconnected, StreamState

(* The operation is watched only once it is there.                         *)
Watched == "record" \in Queries /\ Mounted(query["record"]) => op # "none"

LEMMA AnsweringNext ==
    ASSUME ConsoleTypeOK, Watched, [ConsoleNext]_consoleVars
    PROVE  Answering'
<1> USE Parts
<1>1. ASSUME NEW q \in Queries, Read(q) \/ Poll(q)
      PROVE  Answering'
    <2>1. Current(q) \in {"error", "idle", "busy"} \/ (q = "record" /\ Current(q) = op)
        BY DEF Current
    <2>2. Current(q) \in Answers
        <3>1. CASE Read(q)
            BY <2>1, <3>1 DEF Read, Mounted, Watched, Serving, Answers
        <3>2. CASE Poll(q)
            BY <2>1, <3>2 DEF Poll, Mounted, Watched, Serving, Answers
        <3> QED BY <1>1, <3>1, <3>2
    <2>3. query[q] \in QueryState
        BY DEF Answering
    <2>4. [query[q] EXCEPT !.asked = "answered", !.answer = Current(q)] \in QueryState
        BY <2>2, <2>3 DEF QueryState
    <2>5. [query[q] EXCEPT !.asked = "asked", !.answer = "nothing"] \in QueryState
        BY <2>3 DEF QueryState, Answers
    <2> QED BY <1>1, <2>4, <2>5 DEF Read, Poll, Answering
<1>2. ASSUME NEW q \in Queries, Arrive(q)
      PROVE  Answering'
    BY <1>2, QueryKept DEF Arrive, Answering
<1>3. CASE onOpen \/ flush
    BY <1>3, AllInvalidated DEF onOpen, flush, Answering
<1>4. CASE Mount \/ Reload
    <2>1. unasked \in QueryState /\ [unasked EXCEPT !.asked = "asked"] \in QueryState
        BY DEF unasked, QueryState, Answers
    <2> QED BY <1>4, <2>1 DEF Mount, Reload, Answering
<1>5. CASE Watch
    <2>1. query["record"] \in QueryState
        BY <1>5 DEF Watch, Answering
    <2>2. [query["record"] EXCEPT !.asked = "asked"] \in QueryState
        BY <2>1 DEF QueryState
    <2> QED BY <1>5, <2>2 DEF Watch, Answering
<1>6. CASE create \/ acquire \/ append \/ complete \/ release \/ Connect \/ onOperation \/ Drop
    BY <1>6 DEF create, acquire, append, complete, release, Connect, onOperation, Drop,
         browser, Answering
<1>7. CASE WebStops \/ WebStarts \/ SelfUpdate \/ UNCHANGED consoleVars
    BY <1>7 DEF WebStops, WebStarts, SelfUpdate, checkSelfUpdate, ensureIdle, pull,
         applyFromSource, inspectWebContainer, reportCurrent, removeContainer, runContainer,
         browser, consoleVars, Answering
<1> QED BY <1>1, <1>2, <1>3, <1>4, <1>5, <1>6, <1>7 DEF ConsoleNext

LEMMA StreamingNext ==
    ASSUME ConsoleTypeOK, [ConsoleNext]_consoleVars
    PROVE  Streaming'
<1> USE Parts
<1>1. CASE create \/ append \/ complete
    BY <1>1 DEF create, append, complete, emit, Streaming, StreamState
<1>2. CASE Connect \/ onOpen \/ onOperation \/ flush
    BY <1>2 DEF Connect, onOpen, onOperation, flush, Streaming, StreamState
<1>3. CASE Drop \/ WebStops \/ removeContainer
    BY <1>3, StreamKept DEF Drop, WebStops, removeContainer, ServerGone, Streaming
<1>4. CASE Mount \/ Reload
    <2>1. closedStream \in StreamState
        BY DEF closedStream, StreamState
    <2>2. [closedStream EXCEPT !.state = "connecting"] \in StreamState
        BY <2>1 DEF StreamState
    <2> QED BY <1>4, <2>1, <2>2 DEF Mount, Reload, Streaming
<1>5. CASE \E q \in Queries : Read(q) \/ Arrive(q) \/ Poll(q)
    BY <1>5 DEF Read, Arrive, Poll, Streaming
<1>6. CASE acquire \/ release \/ Watch \/ WebStarts \/ UNCHANGED consoleVars
    BY <1>6 DEF acquire, release, Watch, WebStarts, browser, consoleVars, Streaming
<1>7. CASE checkSelfUpdate \/ ensureIdle \/ pull \/ applyFromSource \/ inspectWebContainer
             \/ reportCurrent \/ runContainer
    BY <1>7 DEF checkSelfUpdate, ensureIdle, pull, applyFromSource, inspectWebContainer,
         reportCurrent, runContainer, browser, Streaming
<1> QED BY <1>1, <1>2, <1>3, <1>4, <1>5, <1>6, <1>7 DEF ConsoleNext, SelfUpdate

(* A report, and the next stage, is one there is.                          *)
LEMMA UpdaterKept ==
    ASSUME updater \in UpdaterState
    PROVE  /\ \A r \in Reports : Report(r) => updater' \in UpdaterState
           /\ \A s \in Stages, b \in BOOLEAN :
                /\ [updater EXCEPT !.stage = s] \in UpdaterState
                /\ [updater EXCEPT !.stage = s, !.forced = b] \in UpdaterState
                /\ [updater EXCEPT !.stage = s, !.killed = b] \in UpdaterState
BY DEF Report, UpdaterState, Stages

LEMMA ServingNext ==
    ASSUME ConsoleTypeOK, [ConsoleNext]_consoleVars
    PROVE  Serving'
<1> USE Parts
<1>1. \A up \in BOOLEAN, image \in Image :
        /\ [gui EXCEPT !.up = up] \in GuiState
        /\ [gui EXCEPT !.up = up, !.image = image] \in GuiState
    BY DEF Serving, GuiState
<1>2. CASE create \/ acquire \/ append \/ complete \/ release
    BY <1>2 DEF create, acquire, append, complete, release, server, browser, Serving
<1>3. CASE \E q \in Queries : Read(q) \/ Arrive(q) \/ Poll(q)
    BY <1>3 DEF Read, Arrive, Poll, server, Serving
<1>4. CASE Connect \/ onOpen \/ onOperation \/ flush \/ Drop \/ Mount \/ Watch \/ Reload
    BY <1>4 DEF Connect, onOpen, onOperation, flush, Drop, Mount, Watch, Reload, server, Serving
<1>5. CASE WebStops \/ WebStarts
    BY <1>1, <1>5 DEF WebStops, WebStarts, ServerGone, ServerBoots, browser, Serving
<1>6. CASE checkSelfUpdate \/ ensureIdle \/ applyFromSource \/ inspectWebContainer
             \/ reportCurrent
    <2>1. updater \in UpdaterState
        BY DEF Serving
    <2>2. {"offline", "refused", "failed", "hint", "no_gui", "current"} \subseteq Reports
        BY DEF Reports
    <2>3. {"checked", "ready", "inspected"} \subseteq Stages
        BY DEF Stages
    <2>4. updater' \in UpdaterState
        BY <1>6, <2>1, <2>2, <2>3, UpdaterKept DEF checkSelfUpdate, ensureIdle,
             applyFromSource, inspectWebContainer, reportCurrent
    <2> QED BY <1>6, <2>4 DEF checkSelfUpdate, ensureIdle, applyFromSource,
             inspectWebContainer, reportCurrent, server, browser, Serving
<1>7. CASE pull
    <2>1. "failed" \in Reports /\ "pulled" \in Stages /\ updater \in UpdaterState
        BY DEF Reports, Stages, Serving
    <2>2. updater' \in UpdaterState
        BY <1>7, <2>1, UpdaterKept DEF pull
    <2>3. tag' \in Image
        BY <1>7 DEF pull, Pulled, Serving, Image
    <2> QED BY <1>7, <2>2, <2>3 DEF pull, server, browser, Serving
<1>8. CASE removeContainer \/ runContainer
    <2>1. updater' \in UpdaterState
        BY <1>8, UpdaterKept DEF removeContainer, runContainer, Serving, Stages, Reports
    <2>2. gui' \in GuiState
        BY <1>1, <1>8 DEF removeContainer, runContainer, ServerBoots, Serving
    <2> QED BY <1>8, <2>1, <2>2 DEF removeContainer, runContainer, ServerGone, ServerBoots,
             browser, Serving
<1>9. CASE UNCHANGED consoleVars
    BY <1>9 DEF consoleVars, Serving
<1> QED BY <1>2, <1>3, <1>4, <1>5, <1>6, <1>7, <1>8, <1>9 DEF ConsoleNext, SelfUpdate

LEMMA CountingNext ==
    ASSUME ConsoleTypeOK, [ConsoleNext]_consoleVars
    PROVE  Counting'
<1> USE Parts
<1>1. CASE Drop \/ WebStops
    BY <1>1, ConsoleAssumption DEF Drop, WebStops, Counting
<1>2. CASE create \/ acquire \/ append \/ complete \/ release
    BY <1>2 DEF create, acquire, append, complete, release, Counting
<1>3. CASE \E q \in Queries : Read(q) \/ Arrive(q) \/ Poll(q)
    BY <1>3 DEF Read, Arrive, Poll, Counting
<1>4. CASE Connect \/ onOpen \/ onOperation \/ flush \/ Mount \/ Watch \/ Reload \/ WebStarts
    BY <1>4 DEF Connect, onOpen, onOperation, flush, Mount, Watch, Reload, WebStarts, Counting
<1>5. CASE SelfUpdate \/ UNCHANGED consoleVars
    BY <1>5 DEF SelfUpdate, checkSelfUpdate, ensureIdle, pull, applyFromSource,
         inspectWebContainer, reportCurrent, removeContainer, runContainer, consoleVars, Counting
<1> QED BY <1>1, <1>2, <1>3, <1>4, <1>5 DEF ConsoleNext

LEMMA WatchedNext ==
    ASSUME ConsoleTypeOK, Watched, [ConsoleNext]_consoleVars
    PROVE  Watched'
<1> USE Parts
<1>1. op # "none" => op' # "none"
    <2>1. CASE create \/ acquire \/ append \/ complete \/ release
        BY <2>1 DEF create, acquire, append, complete, release, server
    <2>2. CASE \E q \in Queries : Read(q) \/ Arrive(q) \/ Poll(q)
        BY <2>2 DEF Read, Arrive, Poll, server
    <2>3. CASE Connect \/ onOpen \/ onOperation \/ flush \/ Drop \/ Mount \/ Watch \/ Reload
        BY <2>3 DEF Connect, onOpen, onOperation, flush, Drop, Mount, Watch, Reload, server
    <2>4. CASE WebStops \/ WebStarts \/ UNCHANGED consoleVars
        BY <2>4 DEF WebStops, WebStarts, ServerBoots, consoleVars
    <2>5. CASE SelfUpdate
        BY <2>5 DEF SelfUpdate, checkSelfUpdate, ensureIdle, pull, applyFromSource,
             inspectWebContainer, reportCurrent, removeContainer, runContainer, ServerBoots,
             server
    <2> QED BY <2>1, <2>2, <2>3, <2>4, <2>5 DEF ConsoleNext
<1>2. ASSUME "record" \in Queries, ~Mounted(query["record"]), Mounted(query'["record"])
      PROVE  Watch
    <2>1. Invalidated(query["record"]) = query["record"]
        BY <1>2 DEF Invalidated
    <2>2. query' # query
        BY <1>2
    <2>3. CASE \E q \in Queries : Read(q) \/ Arrive(q) \/ Poll(q)
        BY <1>2, <2>1, <2>3 DEF Read, Arrive, Poll, Mounted, Answering
    <2>4. CASE onOpen \/ flush
        BY <1>2, <2>1, <2>4 DEF onOpen, flush
    <2>5. CASE Mount \/ Reload
        BY <1>2, <2>5 DEF Mount, Reload, Mounted, unasked
    <2>6. CASE create \/ acquire \/ append \/ complete \/ release \/ Connect \/ onOperation
                 \/ Drop \/ WebStops \/ WebStarts \/ SelfUpdate \/ UNCHANGED consoleVars
        BY <2>2, <2>6 DEF create, acquire, append, complete, release, Connect, onOperation,
             Drop, WebStops, WebStarts, SelfUpdate, checkSelfUpdate, ensureIdle, pull,
             applyFromSource, inspectWebContainer, reportCurrent, removeContainer,
             runContainer, browser, consoleVars
    <2> QED BY <2>3, <2>4, <2>5, <2>6 DEF ConsoleNext
<1>3. CASE Watch
    BY <1>1, <1>3 DEF Watch, Watched
<1>4. CASE ~Watch
    BY <1>1, <1>2, <1>4 DEF Watched
<1> QED BY <1>3, <1>4

(* The variables stay within their types.                                  *)
THEOREM ConsoleTyping == ConsoleSpec => []ConsoleTypeOK
<1>1. ConsoleTypeOK /\ Watched /\ [ConsoleNext]_consoleVars => ConsoleTypeOK' /\ Watched'
    <2> SUFFICES ASSUME ConsoleTypeOK, Watched, [ConsoleNext]_consoleVars PROVE ConsoleTypeOK' /\ Watched'
        OBVIOUS
    <2>1. Answering' /\ Streaming' /\ Serving' /\ Counting'
        BY AnsweringNext, StreamingNext, ServingNext, CountingNext
    <2>2. ConsoleTypeOK'
        BY <2>1 DEF ConsoleTypeOK, Answering, Streaming, Serving, Counting
    <2> QED BY <2>2, WatchedNext
<1>2. ConsoleInit => Watched
    BY DEF ConsoleInit, Watched, Mounted, unasked
<1> QED BY <1>1, <1>2, ConsoleTypedInit, PTL DEF ConsoleSpec

----------------------------------------------------------------------------
(* What the self-update knows.  The official tag names the new image from  *)
(* the pulls on, and the container it has looked at stays until it removes *)
(* it: nobody else stops or starts it meanwhile.                           *)
Known ==
    /\ updater.stage \in {"pulled", "inspected", "removed"} /\ gui.ref # "custom" => tag = "new"
    /\ updater.stage = "inspected" => gui.up

LEMMA KnownNext ==
    ASSUME ConsoleTypeOK, Known, [ConsoleNext]_consoleVars
    PROVE  Known'
<1> USE Parts
<1>1. gui \in GuiState /\ updater \in UpdaterState
    BY DEF Serving
<1>2. CASE create \/ acquire \/ append \/ complete \/ release
    BY <1>2 DEF create, acquire, append, complete, release, Known
<1>3. CASE \E q \in Queries : Read(q) \/ Arrive(q) \/ Poll(q)
    BY <1>3 DEF Read, Arrive, Poll, Known
<1>4. CASE Connect \/ onOpen \/ onOperation \/ flush \/ Drop \/ Mount \/ Watch \/ Reload
    BY <1>4 DEF Connect, onOpen, onOperation, flush, Drop, Mount, Watch, Reload, Known
<1>5. CASE WebStops \/ WebStarts
    BY <1>1, <1>5 DEF WebStops, WebStarts, ServerBoots, Known
<1>6. CASE checkSelfUpdate \/ ensureIdle \/ applyFromSource \/ inspectWebContainer
             \/ reportCurrent
    BY <1>1, <1>6 DEF checkSelfUpdate, ensureIdle, applyFromSource, inspectWebContainer,
         reportCurrent, Report, Known, UpdaterState
<1>7. CASE pull
    BY <1>1, <1>7 DEF pull, Pulled, Report, Known, UpdaterState, GuiState, Ref
<1>8. CASE removeContainer \/ runContainer
    <2>1. gui'.ref = gui.ref /\ tag' = tag
        BY <1>1, <1>8 DEF removeContainer, runContainer, ServerBoots, GuiState
    <2>2. updater'.stage = "end" \/ (updater.stage = "inspected" /\ updater'.stage = "removed")
        BY <1>1, <1>8 DEF removeContainer, runContainer, Report, UpdaterState
    <2> QED BY <2>1, <2>2 DEF Known
<1>9. CASE UNCHANGED consoleVars
    BY <1>9 DEF consoleVars, Known
<1> QED BY <1>2, <1>3, <1>4, <1>5, <1>6, <1>7, <1>8, <1>9 DEF ConsoleNext, SelfUpdate

(* Whatever failed or went away before and beside it, the self-update says *)
(* "current" or "restarted" only of a console that runs the new image.     *)
THEOREM ReportIsTrue == ConsoleSpec => ReportTrue
<1> DEFINE Honest ==
      updater'.stage = "end" /\ updater'.report \in {"current", "restarted"}
        /\ updater.stage # "end"
        => gui'.up /\ (gui'.ref # "custom" => gui'.image = "new")
<1>1. ConsoleInit => Known
    BY DEF ConsoleInit, Known
<1>2. ConsoleTypeOK /\ Known /\ [ConsoleNext]_consoleVars => Known'
    BY KnownNext
<1>3. ASSUME ConsoleTypeOK, Known, [ConsoleNext]_consoleVars
      PROVE  Honest
    <2>1. gui \in GuiState /\ updater \in UpdaterState
        BY <1>3, Parts DEF Serving
    <2>2. CASE updater' = updater
        BY <2>2
    <2>3. CASE SelfUpdate
        <3>1. CASE checkSelfUpdate \/ ensureIdle \/ pull \/ applyFromSource
                     \/ inspectWebContainer
            BY <2>1, <3>1 DEF checkSelfUpdate, ensureIdle, pull, applyFromSource,
                 inspectWebContainer, Report, UpdaterState
        <3>2. CASE reportCurrent
            BY <1>3, <2>1, <3>2 DEF reportCurrent, isCurrent, Report, Known
        <3>3. CASE removeContainer \/ runContainer
            BY <1>3, <2>1, <3>3 DEF removeContainer, runContainer, ServerBoots, Report, Known,
                 UpdaterState, GuiState
        <3> QED BY <2>3, <3>1, <3>2, <3>3 DEF SelfUpdate
    <2>4. CASE \E q \in Queries : Read(q) \/ Arrive(q) \/ Poll(q)
        BY <2>2, <2>4 DEF Read, Arrive, Poll
    <2>5. CASE create \/ acquire \/ append \/ complete \/ release \/ Connect \/ onOpen
                 \/ onOperation \/ flush \/ Drop \/ Mount \/ Watch \/ Reload
                 \/ WebStops \/ WebStarts \/ UNCHANGED consoleVars
        BY <2>2, <2>5 DEF create, acquire, append, complete, release, Connect, onOpen,
             onOperation, flush, Drop, Mount, Watch, Reload, WebStops, WebStarts, consoleVars
    <2> HIDE DEF Honest
    <2> QED BY <1>3, <2>3, <2>4, <2>5 DEF ConsoleNext
<1>4. ConsoleTypeOK /\ Known /\ [ConsoleNext]_consoleVars => [Honest]_consoleVars
    BY <1>3
<1> QED BY <1>1, <1>2, <1>4, ConsoleTyping, PTL DEF ConsoleSpec, ReportTrue

----------------------------------------------------------------------------
(**************************************************************************)
(* Module UpdateDialog.                                                   *)
(**************************************************************************)

(* What the server chooses                                                 *)

LEMMA ResolveTyped ==
  ASSUME DialogTypeOK, NEW m \in Mode, NEW t \in Target, NEW test \in BOOLEAN
  PROVE  Resolve(m, t, test) \subseteq Version
BY DEF DialogTypeOK, Resolve, OnChannel

LEMMA PlanOfTyped ==
  ASSUME DialogTypeOK, NEW m \in Mode, NEW t \in Target, NEW test \in BOOLEAN
  PROVE  PlanOf(m, t, test) \subseteq Plan
<1>1. \A v \in Version : NeedsApproval(m, v) \in BOOLEAN
  BY DEF NeedsApproval
<1>2. \A v \in Resolve(m, t, test) : [version |-> v, major |-> NeedsApproval(m, v)] \in Plan
  BY <1>1, ResolveTyped DEF Plan
<1>3. [version |-> None, major |-> FALSE] \in Plan
  BY DEF Plan
<1> QED BY <1>2, <1>3 DEF PlanOf

LEMMA ApplyTyped ==
  ASSUME DialogTypeOK, NEW m \in Mode, NEW v \in Version, NEW test \in BOOLEAN, Apply(m, v, test)
  PROVE  /\ installed' \in [Mode -> Version] /\ mysql' \in Nat /\ channel' \in Channel
         /\ mysql = MajorOf[installed["core"]] => mysql' = MajorOf[installed'["core"]]
         /\ m # "core" => installed'["core"] = installed["core"]
         /\ m = "core" => installed'["core"] = v
BY MajorOfTyped DEF Apply, DialogTypeOK, Mode, Channel

-----------------------------------------------------------------------------
(* DialogTyping                                                                  *)

\* A dry run belongs to a window.
Asked == request # None => view # Closed

LEMMA ServerTyped ==
  ASSUME DialogTypeOK, Asked, RunJob \/ UpdateElsewhere \/ Publish
  PROVE  DialogTypeOK' /\ Asked'
<1>1. UNCHANGED <<view, request>>
  BY DEF RunJob, UpdateElsewhere, Publish
<1>2. CASE RunJob
  <2>1. job \in Job /\ job' = Idle /\ published' = published
    BY <1>2 DEF RunJob, DialogTypeOK
  <2>2. job.mode \in Mode /\ job.target \in Target /\ job.test \in BOOLEAN
    BY <2>1 DEF Job
  <2>3. installed' \in [Mode -> Version] /\ mysql' \in Nat /\ channel' \in Channel
    <3>1. CASE UNCHANGED <<installed, mysql, channel>>
      BY <3>1 DEF DialogTypeOK
    <3>2. CASE \E v \in Resolve(job.mode, job.target, job.test) :
                 Consented(job, v) /\ Apply(job.mode, v, job.test)
      BY <2>2, <3>2, ResolveTyped, ApplyTyped
    <3> QED BY <1>2, <3>1, <3>2 DEF RunJob
  <2> QED BY <1>1, <2>1, <2>3 DEF DialogTypeOK, Asked
<1>3. CASE UpdateElsewhere
  <2>1. PICK m \in Mode, test \in BOOLEAN : \E v \in Resolve(m, Latest, test) : Apply(m, v, test)
    BY <1>3 DEF UpdateElsewhere
  <2>2. PICK v \in Resolve(m, Latest, test) : Apply(m, v, test)
    BY <2>1
  <2>3. v \in Version
    BY ResolveTyped DEF Target
  <2>4. installed' \in [Mode -> Version] /\ mysql' \in Nat /\ channel' \in Channel
    BY <2>2, <2>3, ApplyTyped
  <2> QED BY <1>1, <1>3, <2>4 DEF UpdateElsewhere, DialogTypeOK, Asked
<1>4. CASE Publish
  BY <1>1, <1>4 DEF Publish, DialogTypeOK, Asked
<1> QED BY <1>2, <1>3, <1>4

\* The parts a body of the window changes, and what it sends.
WindowStep ==
  \/ \E m \in Mode : Open(m)
  \/ Close
  \/ \E t \in Target : ChangeTarget(t)
  \/ ChangeChannel
  \/ RunDryRun \/ AnswerDryRun \/ ShowPlan \/ DryRunFails
  \/ TickRisk \/ TickApproval
  \/ Execute

LEMMA ViewTyped ==
  ASSUME DialogTypeOK, Asked, WindowStep
  PROVE  view' \in View \cup {Closed}
<1>1. view # Closed => view \in View
  BY DEF DialogTypeOK
<1>2. CASE (\E m \in Mode : Open(m)) \/ Close
  <2>1. ASSUME NEW m \in Mode
        PROVE  [mode |-> m, target |-> Latest, test |-> FALSE, plan |-> None, risk |-> FALSE,
                approved |-> FALSE, warned |-> FALSE] \in View
    <3>1. Latest \in Target /\ None \in Plan \cup {None}
      BY DEF Target
    <3> QED BY <3>1 DEF View
  <2> QED BY <1>2, <2>1 DEF Open, Close
<1>3. CASE \E t \in Target : ChangeTarget(t)
  BY <1>1, <1>3 DEF ChangeTarget, resetPlan, View
<1>4. CASE ChangeChannel
  BY <1>1, <1>4 DEF ChangeChannel, resetPlan, View
<1>5. CASE RunDryRun \/ AnswerDryRun \/ DryRunFails
  BY <1>5 DEF RunDryRun, AnswerDryRun, DryRunFails, DialogTypeOK
<1>6. CASE ShowPlan
  <2>1. request \in Request /\ request.answer \in Plan /\ view \in View
    BY <1>1, <1>6 DEF ShowPlan, DialogTypeOK, Asked, Request
  <2>2. request.answer.major \in BOOLEAN /\ view.warned \in BOOLEAN
    BY <2>1 DEF Plan, View
  <2>3. (view.warned \/ request.answer.major) \in BOOLEAN
    BY <2>2
  <2> QED BY <1>6, <2>1, <2>3 DEF ShowPlan, View
<1>7. CASE TickRisk \/ TickApproval
  BY <1>1, <1>7 DEF TickRisk, TickApproval, Executable, View
<1>8. CASE Execute
  BY <1>8 DEF Execute, DialogTypeOK
<1> QED BY <1>2, <1>3, <1>4, <1>5, <1>6, <1>7, <1>8 DEF WindowStep

LEMMA RequestTyped ==
  ASSUME DialogTypeOK, Asked, WindowStep
  PROVE  request' \in Request \cup {None} /\ Asked'
<1>1. view # Closed => view \in View
  BY DEF DialogTypeOK
<1>2. request' \in Request \cup {None}
  <2>1. CASE RunDryRun
    BY <1>1, <2>1 DEF RunDryRun, View, Request
  <2>2. CASE AnswerDryRun
    <3>1. request \in Request /\ view \in View
      BY <1>1, <2>2 DEF AnswerDryRun, DialogTypeOK, Asked
    <3>2. PICK plan \in PlanOf(view.mode, request.target, request.test) :
            request' = [request EXCEPT !.answer = plan]
      BY <2>2 DEF AnswerDryRun
    <3>3. plan \in Plan
      BY <3>1, <3>2, PlanOfTyped DEF View, Request
    <3> QED BY <3>1, <3>2, <3>3 DEF Request
  <2>3. CASE ~RunDryRun /\ ~AnswerDryRun
    BY <2>3 DEF WindowStep, Open, Close, ChangeTarget, ChangeChannel, ShowPlan, DryRunFails,
         TickRisk, TickApproval, Execute, DialogTypeOK
  <2> QED BY <2>1, <2>2, <2>3
<1>3. Asked'
  <2>1. CASE RunDryRun \/ AnswerDryRun
    BY <2>1 DEF RunDryRun, AnswerDryRun, Asked
  <2>2. CASE ShowPlan \/ DryRunFails \/ Close \/ \E m \in Mode : Open(m)
    BY <2>2 DEF ShowPlan, DryRunFails, Close, Open, Asked
  <2>3. CASE Execute
    BY <2>3 DEF Execute, Asked
  <2>4. CASE ChangeChannel \/ TickRisk \/ TickApproval \/ \E t \in Target : ChangeTarget(t)
    <3>1. view \in View
      BY <1>1, <2>4 DEF ChangeChannel, TickRisk, TickApproval, ChangeTarget, Executable
    <3>2. view' \in View
      BY <3>1, <2>4 DEF ChangeChannel, TickRisk, TickApproval, ChangeTarget, resetPlan, View
    <3> QED BY <3>2, NothingIsNothing DEF Asked
  <2> QED BY <2>1, <2>2, <2>3, <2>4 DEF WindowStep
<1> QED BY <1>2, <1>3

LEMMA ExecuteTyped ==
  ASSUME DialogTypeOK, Execute
  PROVE  job' \in Job
<1>1. view \in View /\ view.plan # None /\ view.plan.version # None
  BY DEF Execute, MayExecute, Executable, DialogTypeOK
<1>2. view.plan \in Plan
  BY <1>1 DEF View
<1>3. view.plan.version \in Version
  BY <1>1, <1>2 DEF Plan
<1> QED BY <1>1, <1>3 DEF Execute, View, Job

LEMMA DialogTypedNext ==
  ASSUME DialogTypeOK, Asked, [DialogNext]_dialogVars
  PROVE  DialogTypeOK' /\ Asked'
<1>1. CASE RunJob \/ UpdateElsewhere \/ Publish
  BY <1>1, ServerTyped
<1>2. CASE WindowStep
  <2>1. UNCHANGED <<published, installed, mysql, channel>> /\ (Execute \/ job' = job)
    BY <1>2 DEF WindowStep, Open, Close, ChangeTarget, ChangeChannel, RunDryRun, AnswerDryRun,
         ShowPlan, DryRunFails, TickRisk, TickApproval, Execute
  <2>2. job' \in Job \cup {Idle}
    BY <2>1, ExecuteTyped DEF DialogTypeOK
  <2> QED BY <1>2, <2>1, <2>2, ViewTyped, RequestTyped DEF DialogTypeOK
<1>3. CASE UNCHANGED dialogVars
  BY <1>3 DEF dialogVars, DialogTypeOK, Asked
<1> QED BY <1>1, <1>2, <1>3 DEF DialogNext, WindowStep

LEMMA DialogTypedInit == DialogInit => DialogTypeOK /\ Asked
<1>1. SUFFICES ASSUME DialogInit PROVE DialogTypeOK /\ Asked
  OBVIOUS
<1>2. PICK v \in Version : /\ published = {v} /\ installed = [m \in Mode |-> v]
                           /\ mysql = MajorOf[v] /\ channel = ChannelOf[v]
  BY <1>1 DEF DialogInit
<1>3. mysql \in Nat /\ channel \in Channel
  BY <1>2, MajorOfTyped, ChannelOfTyped DEF Channel
<1> QED BY <1>1, <1>2, <1>3 DEF DialogInit, DialogTypeOK, Asked

\* The variables stay within their types.
THEOREM DialogTyping == DialogSpec => []DialogTypeOK
<1>1. DialogTypeOK /\ Asked /\ [DialogNext]_dialogVars => (DialogTypeOK /\ Asked)'
  BY DialogTypedNext
<1> QED BY <1>1, DialogTypedInit, PTL DEF DialogSpec

-----------------------------------------------------------------------------
(* A major is never upgraded unannounced                                   *)

\* The approval can be ticked only under a plan that asks for it, and other inputs
\* take it back; the MySQL image is the one of the core installed.
AnnouncedInv ==
  /\ mysql = MajorOf[installed["core"]]
  /\ view # Closed => /\ view.approved => view.warned
                      /\ view.plan # None /\ view.plan.major => view.warned
  /\ job # Idle => (job.approved => job.warned)

LEMMA RunsAnnounced ==
  ASSUME DialogTypeOK, AnnouncedInv, RunJob \/ UpdateElsewhere \/ Publish
  PROVE  AnnouncedInv'
<1>1. view' = view /\ (job' = Idle \/ job' = job)
  BY DEF RunJob, UpdateElsewhere, Publish
<1>2. mysql' = MajorOf[installed'["core"]]
  <2>1. CASE UNCHANGED <<installed, mysql>>
    BY <2>1 DEF AnnouncedInv
  <2>2. CASE RunJob /\ ~UNCHANGED <<installed, mysql>>
    <3>1. job.mode \in Mode /\ job.target \in Target /\ job.test \in BOOLEAN
      BY <2>2 DEF RunJob, DialogTypeOK, Job
    <3>2. \E v \in Resolve(job.mode, job.target, job.test) : Apply(job.mode, v, job.test)
      BY <2>2 DEF RunJob
    <3> QED BY <3>1, <3>2, ResolveTyped, ApplyTyped DEF AnnouncedInv
  <2>3. CASE UpdateElsewhere
    <3>1. PICK m \in Mode, test \in BOOLEAN : \E v \in Resolve(m, Latest, test) : Apply(m, v, test)
      BY <2>3 DEF UpdateElsewhere
    <3>2. Latest \in Target
      BY DEF Target
    <3> QED BY <3>1, <3>2, ResolveTyped, ApplyTyped DEF AnnouncedInv
  <2>4. CASE Publish
    BY <2>4 DEF Publish, AnnouncedInv
  <2> QED BY <2>1, <2>2, <2>3, <2>4
<1> QED BY <1>1, <1>2 DEF AnnouncedInv

LEMMA WindowAnnounced ==
  ASSUME DialogTypeOK, Asked, AnnouncedInv, WindowStep
  PROVE  AnnouncedInv'
<1>1. mysql' = MajorOf[installed'["core"]]
  BY DEF WindowStep, Open, Close, ChangeTarget, ChangeChannel, RunDryRun, AnswerDryRun,
     ShowPlan, DryRunFails, TickRisk, TickApproval, Execute, AnnouncedInv
<1>2. view # Closed => view \in View
  BY DEF DialogTypeOK
<1>3. CASE (\E m \in Mode : Open(m)) \/ Close
  BY <1>1, <1>3 DEF Open, Close, AnnouncedInv
<1>4. CASE ChangeChannel \/ \E t \in Target : ChangeTarget(t)
  <2>1. view \in View /\ job' = job
    BY <1>2, <1>4 DEF ChangeChannel, ChangeTarget
  <2>2. ~view'.approved /\ view'.plan = None
    BY <1>4, <2>1 DEF ChangeChannel, ChangeTarget, resetPlan, View
  <2> QED BY <1>1, <2>1, <2>2 DEF AnnouncedInv
<1>5. CASE RunDryRun \/ AnswerDryRun \/ DryRunFails
  BY <1>1, <1>5 DEF RunDryRun, AnswerDryRun, DryRunFails, AnnouncedInv
<1>6. CASE ShowPlan
  <2>1. view # Closed /\ view \in View /\ job' = job
    BY <1>2, <1>6 DEF ShowPlan, Asked
  <2>2. view' = [view EXCEPT !.plan = request.answer, !.warned = @ \/ request.answer.major]
    BY <1>6 DEF ShowPlan
  <2>3. view'.plan = request.answer /\ view'.approved = view.approved
        /\ view'.warned = (view.warned \/ request.answer.major)
    BY <2>1, <2>2 DEF View
  <2> QED BY <1>1, <2>1, <2>3 DEF AnnouncedInv
<1>7. CASE TickRisk
  <2>1. view # Closed /\ view \in View /\ job' = job /\ view' = [view EXCEPT !.risk = ~@]
    BY <1>2, <1>7 DEF TickRisk, Executable
  <2>2. view'.plan = view.plan /\ view'.approved = view.approved /\ view'.warned = view.warned
    BY <2>1 DEF View
  <2> QED BY <1>1, <2>1, <2>2 DEF AnnouncedInv
<1>8. CASE TickApproval
  <2>1. /\ view # Closed /\ view \in View /\ job' = job
        /\ view.plan # None /\ view.plan.major
        /\ view' = [view EXCEPT !.approved = ~@]
    BY <1>2, <1>8 DEF TickApproval, Executable
  <2>2. view'.plan = view.plan /\ view'.warned = view.warned
    BY <2>1 DEF View
  <2> QED BY <1>1, <2>1, <2>2 DEF AnnouncedInv
<1>9. CASE Execute
  <2>1. view # Closed /\ (view.approved => view.warned)
    BY <1>9 DEF Execute, MayExecute, Executable, AnnouncedInv
  <2>2. job'.approved = view.approved /\ job'.warned = view.warned
    BY <1>9 DEF Execute
  <2>3. view' = Closed \/ view' = view
    BY <1>9 DEF Execute
  <2> QED BY <1>1, <2>1, <2>2, <2>3 DEF AnnouncedInv
<1> QED BY <1>3, <1>4, <1>5, <1>6, <1>7, <1>8, <1>9 DEF WindowStep

\* No update of the window raises the MySQL major of a guarded core unless a plan that
\* announced it was on screen since the inputs last changed.
THEOREM MajorNeverUnannounced == DialogSpec => MajorWasAnnounced
<1> DEFINE Step == (job # Idle /\ \E v \in Version : installed'["core"] = v
                      /\ NeedsApproval("core", v)) => job.warned
<1>1. DialogInit => AnnouncedInv
  BY DEF DialogInit, AnnouncedInv, Mode
<1>2. DialogTypeOK /\ Asked /\ AnnouncedInv /\ [DialogNext]_dialogVars => AnnouncedInv'
  <2>1. UNCHANGED dialogVars /\ AnnouncedInv => AnnouncedInv'
    BY DEF dialogVars, AnnouncedInv
  <2> QED BY <2>1, RunsAnnounced, WindowAnnounced DEF DialogNext, WindowStep
<1>3. DialogTypeOK /\ Asked /\ [DialogNext]_dialogVars => (DialogTypeOK /\ Asked)'
  BY DialogTypedNext
<1>4. ASSUME DialogTypeOK, AnnouncedInv, [DialogNext]_dialogVars
      PROVE  Step
  <2>1. SUFFICES ASSUME job # Idle, NEW v \in Version, installed'["core"] = v,
                        NeedsApproval("core", v)
                 PROVE  job.warned
    OBVIOUS
  <2>2. MajorOf[v] > mysql /\ mysql \in Nat /\ mysql = MajorOf[installed["core"]]
    BY <1>4, <2>1 DEF NeedsApproval, DialogTypeOK, AnnouncedInv
  <2>3. installed'["core"] # installed["core"]
    BY <2>1, <2>2
  <2>4. RunJob
    BY <1>4, <2>1, <2>3 DEF DialogNext, UpdateElsewhere, Publish, Open, Close, ChangeTarget,
         ChangeChannel, RunDryRun, AnswerDryRun, ShowPlan, DryRunFails, TickRisk,
         TickApproval, Execute, dialogVars
  <2>5. job.mode \in Mode /\ job.target \in Target /\ job.test \in BOOLEAN
    BY <1>4, <2>1 DEF DialogTypeOK, Job
  <2>6. PICK w \in Resolve(job.mode, job.target, job.test) :
          Consented(job, w) /\ Apply(job.mode, w, job.test)
    BY <2>3, <2>4 DEF RunJob
  <2>7. w \in Version
    BY <1>4, <2>5, ResolveTyped
  <2>8. job.mode = "core" /\ w = v
    BY <1>4, <2>1, <2>3, <2>5, <2>6, <2>7, ApplyTyped
  <2>9. job.approved
    BY <2>1, <2>6, <2>8 DEF Consented
  <2> QED BY <1>4, <2>1, <2>9 DEF AnnouncedInv
<1>5. DialogTypeOK /\ AnnouncedInv /\ [DialogNext]_dialogVars => [Step]_dialogVars
  BY <1>4
<1> QED BY <1>1, <1>2, <1>3, <1>5, DialogTypedInit, PTL DEF DialogSpec, MajorWasAnnounced
==============================================================================
