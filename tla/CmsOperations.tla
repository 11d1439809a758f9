---------------------------- MODULE CmsOperations ----------------------------
(***************************************************************************)
(* Updates requested in the CMS of one instance, and the manager's side of *)
(* them: drainOperations and processNextOperation with the executor of     *)
(* app-actions, run by the poller of the web console under the instance's  *)
(* operation lock, or by the CLI's process-operations without it.          *)
(*                                                                         *)
(* Every write-back is a call into the backend container: it may be lost   *)
(* on the way, or arrive and its reply be lost. The update itself is the   *)
(* subject of Updates; here it begins, ends with one of its reports, or    *)
(* dies with the manager. The lock is the one Operations implements.       *)
(***************************************************************************)
EXTENDS Naturals, FiniteSets

CONSTANTS
    Request,       \* requests, numbered in the order they are made
    Nature,        \* kinds of requests the backend may offer, see Natures
    Drainer,       \* processes that drain the requests
    Console,       \* those that are the poller of the web console
    Setups,        \* sets of drainers that may be in service together
    MaxPerDrain,   \* requests per drain; 25 in the code
    Free, Gui, Dead,   \* the lock: nobody's, a GUI action's, left behind
    MaxLost,       \* bound on calls into the backend that fail
    MaxDeaths      \* bound on deaths of manager processes

\* A core update, a frontend or preview update, one that is destructive
\* without the risk accepted, one of another instance.
Natures == {"core", "light", "unapproved", "foreign"}

ASSUME RequestAssumption == Request \subseteq Nat \ {0}
ASSUME NatureAssumption  == Nature \subseteq Natures
ASSUME ConsoleAssumption == Console \subseteq Drainer
ASSUME SetupAssumption   == Setups \subseteq SUBSET Drainer
ASSUME LockAssumption    ==
    Free # Gui /\ Free # Dead /\ Gui # Dead /\ {Free, Gui, Dead} \cap Drainer = {}
ASSUME BoundAssumption   == {MaxPerDrain, MaxLost, MaxDeaths} \subseteq Nat

VARIABLES
    setup,    \* the drainers in service
    status,   \* of each request, in the backend; "none" before it is made
    nature,   \* what is requested
    at,       \* where each drainer is
    op,       \* the request it works on, 0 at first
    count,    \* requests it has finished in this drain
    out,      \* what its executor returned
    lock,     \* the instance's operation lock
    ran,      \* history: what became of the update of each request
    runs,     \* history: how often it was begun
    lost, deaths

requests == <<status, nature>>
drains   == <<at, op, count, out>>
history  == <<ran, runs>>
vars     == <<setup, requests, drains, lock, history, lost, deaths>>

-----------------------------------------------------------------------------
Outcome  == {"ok", "rolledBack", "rollbackFailed", "aborted"}
Terminal == {"succeeded", "failed", "rolled_back", "rollback_failed", "preflight_failed"}
Underway == {"accepted", "preflight_running", "backup_running", "update_running",
             "health_check_running"}

\* Mutant: a failed rollback is taken for one.
TerminalStatusLax(report) ==
    CASE report = "ok" -> "succeeded"
      [] report \in {"rolledBack", "rollbackFailed"} -> "rolled_back"
      [] OTHER -> "failed"

TerminalStatus(report) ==
    CASE report = "ok"             -> "succeeded"
      [] report = "rolledBack"     -> "rolled_back"
      [] report = "rollbackFailed" -> "rollback_failed"
      [] OTHER                     -> "failed"

\* The stages of a request that write a status back, and what follows them.
Posts == [accept    |-> "accepted",
          preflight |-> "preflight_running",
          backup    |-> "backup_running",
          updated   |-> "update_running",
          health    |-> "health_check_running"]

After == [core  |-> [accept |-> "preflight", preflight |-> "backup", backup |-> "update",
                     updating |-> "health", health |-> "answer"],
          light |-> [accept |-> "preflight", preflight |-> "update",
                     updating |-> "updated", updated |-> "health", health |-> "answer"]]

Stages == {"idle", "peek", "acquire", "fetch", "reject", "accept", "preflight", "backup",
           "update", "updating", "updated", "health", "answer", "fail", "leave"}

\* Stages in which the drainer owes the backend an answer.
Owing == Stages \ {"idle", "peek", "acquire", "fetch", "leave"}

Moves(d, stage) == at' = [at EXCEPT ![d] = stage]

\* The drain is over: its locals are gone.
Ends(d) ==
    /\ Moves(d, "idle")
    /\ op' = [op EXCEPT ![d] = 0]
    /\ count' = [count EXCEPT ![d] = 0]
    /\ out' = [out EXCEPT ![d] = "none"]

Goes(d, stage) ==
    /\ Moves(d, stage)
    /\ UNCHANGED <<op, count, out>>

\* A call into the backend fails.
Loses == lost < MaxLost /\ lost' = lost + 1

\* The next claimable operation: the oldest that nobody has taken up.
Offers(r) ==
    /\ status[r] = "requested"
    /\ \A q \in Request : q < r => status[q] # "requested"

Nothing == \A r \in Request : status[r] # "requested"

-----------------------------------------------------------------------------
Init ==
    /\ setup \in Setups
    /\ status = [r \in Request |-> "none"]
    /\ nature = [r \in Request |-> "core"]
    /\ at = [d \in Drainer |-> "idle"]
    /\ op = [d \in Drainer |-> 0]
    /\ count = [d \in Drainer |-> 0]
    /\ out = [d \in Drainer |-> "none"]
    /\ lock = Free
    /\ ran = [r \in Request |-> "no"]
    /\ runs = [r \in Request |-> 0]
    /\ lost = 0 /\ deaths = 0

\* The CMS records a request.
Ask(r) ==
    /\ status[r] = "none"
    /\ \A q \in Request : q < r => status[q] # "none"
    /\ status' = [status EXCEPT ![r] = "requested"]
    /\ \E n \in Nature : nature' = [nature EXCEPT ![r] = n]
    /\ UNCHANGED <<setup, drains, lock, history, lost, deaths>>

(* The poller of the console *)

\* A pass visits instances whose lock nobody holds.
Tick(d) ==
    /\ d \in setup \cap Console
    /\ at[d] = "idle"
    /\ lock = Free
    /\ Goes(d, "peek")
    /\ UNCHANGED <<setup, requests, lock, history, lost, deaths>>

\* peekPendingCmsWork; parked plugin operations are work, too. A request of
\* another instance makes the client throw.
Peek(d) ==
    /\ at[d] = "peek"
    /\ \/ /\ \E r \in Request : Offers(r) /\ nature[r] # "foreign"
          /\ Goes(d, "acquire")
          /\ UNCHANGED lost
       \/ /\ Nothing
          /\ Goes(d, "acquire") \/ Goes(d, "idle")
          /\ UNCHANGED lost
       \/ /\ \E r \in Request : Offers(r) /\ nature[r] = "foreign"
          /\ Goes(d, "idle")
          /\ UNCHANGED lost
       \/ Loses /\ Goes(d, "idle")
    /\ UNCHANGED <<setup, requests, lock, history, deaths>>

\* Mutant: the drain starts whoever holds the lock.
AcquireUnchecked(d) ==
    /\ at[d] = "acquire"
    /\ lock' = IF lock = Free THEN d ELSE lock
    /\ Goes(d, "fetch")
    /\ UNCHANGED <<setup, requests, history, lost, deaths>>

\* OperationRunner.start: the lock, or InstanceLockedError and the next tick.
Acquire(d) ==
    /\ at[d] = "acquire"
    /\ \/ lock = Free /\ lock' = d /\ Goes(d, "fetch")
       \/ lock # Free /\ Goes(d, "idle") /\ UNCHANGED lock
    /\ UNCHANGED <<setup, requests, history, lost, deaths>>

\* A GUI action of the operator on the same instance, from start to end.
GuiStarts ==
    /\ setup \cap Console # {}
    /\ lock = Free
    /\ lock' = Gui
    /\ UNCHANGED <<setup, requests, drains, history, lost, deaths>>

GuiEnds ==
    /\ lock = Gui
    /\ lock' = Free
    /\ UNCHANGED <<setup, requests, drains, history, lost, deaths>>

\* process-operations, once or every interval: no lock.
Invoke(d) ==
    /\ d \in setup \ Console
    /\ at[d] = "idle"
    /\ Goes(d, "fetch")
    /\ UNCHANGED <<setup, requests, lock, history, lost, deaths>>

(* drainOperations *)

Takes(d, r, stage) ==
    /\ Moves(d, stage)
    /\ op' = [op EXCEPT ![d] = r]
    /\ UNCHANGED <<count, out>>

\* Mutant: the approval is not verified.
FetchUnverified(d) ==
    /\ at[d] = "fetch"
    /\ \/ /\ count[d] < MaxPerDrain
          /\ \E r \in Request : Offers(r) /\ Takes(d, r, "accept")
          /\ UNCHANGED lost
       \/ /\ count[d] = MaxPerDrain \/ Nothing
          /\ Goes(d, "leave")
          /\ UNCHANGED lost
    /\ UNCHANGED <<setup, requests, lock, history, deaths>>

\* Mutant: one request more than the cap.
FetchOnceMore(d) ==
    /\ at[d] = "fetch"
    /\ \/ /\ count[d] <= MaxPerDrain
          /\ \E r \in Request :
                /\ Offers(r)
                /\ \/ nature[r] \in {"core", "light"} /\ Takes(d, r, "accept")
                   \/ nature[r] = "unapproved" /\ Takes(d, r, "reject")
                   \/ nature[r] = "foreign" /\ Goes(d, "leave")
          /\ UNCHANGED lost
       \/ /\ count[d] > MaxPerDrain \/ Nothing
          /\ Goes(d, "leave")
          /\ UNCHANGED lost
       \/ Loses /\ Goes(d, "leave")
    /\ UNCHANGED <<setup, requests, lock, history, deaths>>

\* Mutant: a request that is refused ends the drain, unanswered.
FetchThrows(d) ==
    /\ at[d] = "fetch"
    /\ \/ /\ count[d] < MaxPerDrain
          /\ \E r \in Request :
                /\ Offers(r)
                /\ IF nature[r] \in {"core", "light"} THEN Takes(d, r, "accept") ELSE Goes(d, "leave")
          /\ UNCHANGED lost
       \/ /\ count[d] = MaxPerDrain \/ Nothing
          /\ Goes(d, "leave")
          /\ UNCHANGED lost
       \/ Loses /\ Goes(d, "leave")
    /\ UNCHANGED <<setup, requests, lock, history, deaths>>

\* fetchPending and verifyUpdateApproval. The client itself refuses a request
\* of another instance: fetchPending throws, and the drain with it. Preflight
\* id, token and target are compared with those of the same request.
Fetch(d) ==
    /\ at[d] = "fetch"
    /\ \/ /\ count[d] < MaxPerDrain
          /\ \E r \in Request :
                /\ Offers(r)
                /\ \/ nature[r] \in {"core", "light"} /\ Takes(d, r, "accept")
                   \/ nature[r] = "unapproved" /\ Takes(d, r, "reject")
                   \/ nature[r] = "foreign" /\ Goes(d, "leave")
          /\ UNCHANGED lost
       \/ /\ count[d] = MaxPerDrain \/ Nothing
          /\ Goes(d, "leave")
          /\ UNCHANGED lost
       \/ Loses /\ Goes(d, "leave")
    /\ UNCHANGED <<setup, requests, lock, history, deaths>>

\* postStatus arrives and is answered, or fails before or after it arrived.
Arrives(d, s)  == status' = [status EXCEPT ![op[d]] = s] /\ UNCHANGED lost
Miscarries(d, s) == Loses /\ (status' = [status EXCEPT ![op[d]] = s] \/ UNCHANGED status)

\* A request that is destructive is one for a core update.
Following(d) == After[IF nature[op[d]] = "light" THEN "light" ELSE "core"][at[d]]

\* Mutant: a write-back that fails is passed over.
ReportPhaseAnyway(d) ==
    /\ at[d] \in DOMAIN Posts
    /\ Arrives(d, Posts[at[d]]) \/ Miscarries(d, Posts[at[d]])
    /\ Goes(d, Following(d))
    /\ UNCHANGED <<setup, nature, lock, history, deaths>>

\* A phase is written back before the next begins. When that fails, the
\* executor throws; only "accepted" is outside its try.
ReportPhase(d) ==
    /\ at[d] \in DOMAIN Posts
    /\ \/ Arrives(d, Posts[at[d]]) /\ Goes(d, Following(d))
       \/ /\ Miscarries(d, Posts[at[d]])
          /\ Goes(d, IF at[d] = "accept" THEN "leave" ELSE "fail")
    /\ UNCHANGED <<setup, nature, lock, history, deaths>>

\* Mutant: an update that is not executed is passed over in silence.
PrepareSilently(d) ==
    /\ at[d] = "update"
    /\ \/ /\ Goes(d, "updating")
          /\ ran' = [ran EXCEPT ![op[d]] = "begun"]
          /\ runs' = [runs EXCEPT ![op[d]] = @ + 1]
       \/ Goes(d, "fetch") /\ UNCHANGED history
       \/ Goes(d, "fail") /\ UNCHANGED history
    /\ UNCHANGED <<setup, requests, lock, lost, deaths>>

\* instanceUpdate and its kin up to the executor: it begins, or the plan is
\* blocked or up to date, or resolving the plan throws.
Prepare(d) ==
    /\ at[d] = "update"
    /\ \/ /\ Goes(d, "updating")
          /\ ran' = [ran EXCEPT ![op[d]] = "begun"]
          /\ runs' = [runs EXCEPT ![op[d]] = @ + 1]
       \/ /\ Moves(d, "answer")
          /\ out' = [out EXCEPT ![d] = "notExecuted"]
          /\ UNCHANGED <<op, count, history>>
       \/ Goes(d, "fail") /\ UNCHANGED history
    /\ UNCHANGED <<setup, requests, lock, lost, deaths>>

\* The update runs to its end, whatever that is.
Update(d) ==
    /\ at[d] = "updating"
    /\ \E o \in Outcome :
        /\ ran' = [ran EXCEPT ![op[d]] = o]
        /\ out' = [out EXCEPT ![d] = o]
    /\ Moves(d, Following(d))
    /\ UNCHANGED <<setup, op, count, runs, requests, lock, lost, deaths>>

Finishes(d) ==
    /\ Moves(d, "fetch")
    /\ op' = [op EXCEPT ![d] = 0]
    /\ count' = [count EXCEPT ![d] = @ + 1]
    /\ out' = [out EXCEPT ![d] = "none"]

Verdict(d) == CASE at[d] = "reject" -> "preflight_failed"
                [] at[d] = "fail"   -> "failed"
                [] OTHER            -> TerminalStatus(out[d])

\* Mutant: a last write-back that fails is followed by one that says "failed".
AnswerRetries(d) ==
    /\ at[d] \in {"reject", "fail", "answer"}
    /\ \/ /\ Arrives(d, Verdict(d))
          /\ Finishes(d)
       \/ Miscarries(d, Verdict(d)) /\ Goes(d, "fail")
    /\ UNCHANGED <<setup, nature, lock, history, deaths>>

\* The last write-back of a request; then the next one. When it fails, the
\* drain throws.
Answer(d) ==
    /\ at[d] \in {"reject", "fail", "answer"}
    /\ \/ /\ Arrives(d, Verdict(d))
          /\ Finishes(d)
       \/ Miscarries(d, Verdict(d)) /\ Goes(d, "leave")
    /\ UNCHANGED <<setup, nature, lock, history, deaths>>

\* The drain is over, or has thrown; the runner releases the lock either way.
Leave(d) ==
    /\ at[d] = "leave"
    /\ lock' = IF lock = d THEN Free ELSE lock
    /\ Ends(d)
    /\ UNCHANGED <<setup, requests, history, lost, deaths>>

(* Deaths *)

\* The console dies with its poller and its GUI actions. What it held may be
\* left behind: in the container nobody takes it for stale.
ConsoleDies ==
    /\ deaths < MaxDeaths
    /\ deaths' = deaths + 1
    /\ lock = Gui \/ \E d \in Console : at[d] # "idle"
    /\ lock' \in IF lock = Free THEN {Free} ELSE {Free, Dead}
    /\ at' = [d \in Drainer |-> IF d \in Console THEN "idle" ELSE at[d]]
    /\ op' = [d \in Drainer |-> IF d \in Console THEN 0 ELSE op[d]]
    /\ count' = [d \in Drainer |-> IF d \in Console THEN 0 ELSE count[d]]
    /\ out' = [d \in Drainer |-> IF d \in Console THEN "none" ELSE out[d]]
    /\ UNCHANGED <<setup, requests, history, lost>>

CommandDies(d) ==
    /\ d \notin Console
    /\ at[d] # "idle"
    /\ deaths < MaxDeaths
    /\ deaths' = deaths + 1
    /\ Ends(d)
    /\ UNCHANGED <<setup, requests, lock, history, lost>>

-----------------------------------------------------------------------------
Work(d) ==
    \/ Tick(d) \/ Peek(d) \/ Acquire(d) \/ Invoke(d) \/ Fetch(d) \/ ReportPhase(d)
    \/ Prepare(d) \/ Update(d) \/ Answer(d) \/ Leave(d)

Next ==
    \/ \E r \in Request : Ask(r)
    \/ GuiStarts \/ GuiEnds \/ ConsoleDies
    \/ \E d \in Drainer : Work(d) \/ CommandDies(d)

Spec == Init /\ [][Next]_vars

\* The interval fires again and again, GUI actions end, awaited calls return.
FairSpec == Spec /\ WF_vars(GuiEnds) /\ \A d \in Drainer : WF_vars(Work(d))

-----------------------------------------------------------------------------
(* Properties *)

\* Every variable keeps its shape, and no drain exceeds its cap.
TypeOK ==
    /\ setup \in Setups
    /\ status \in [Request -> {"none", "requested"} \cup Underway \cup Terminal]
    /\ nature \in [Request -> Natures]
    /\ at \in [Drainer -> Stages]
    /\ op \in [Drainer -> Request \cup {0}]
    /\ \A d \in Drainer : at[d] \in Owing => op[d] # 0
    /\ count \in [Drainer -> 0..MaxPerDrain]
    /\ out \in [Drainer -> Outcome \cup {"none", "notExecuted"}]
    /\ lock \in Drainer \cup {Free, Gui, Dead}
    /\ ran \in [Request -> {"no", "begun"} \cup Outcome]
    /\ runs \in [Request -> Nat]
    /\ {lost, deaths} \subseteq Nat

\* Updates of the instance that run, the operator's in the GUI included.
Updating == {d \in Drainer : at[d] = "updating"} \cup (IF lock = Gui THEN {Gui} ELSE {})

\* The poller drains under the lock the GUI actions take: an update from the
\* CMS and one from the GUI never run at the same time.
OneUpdateAtATime == \A x, y \in Updating : x = y

\* However write-backs fail and drains are repeated, a request is carried out
\* at most once.
AtMostOnce == \A r \in Request : runs[r] <= 1

\* What the CMS is told of a request is what has happened to the instance,
\* whatever was lost on the way.
NoFalseSuccess ==
    \A r \in Request :
        /\ status[r] = "succeeded"        => ran[r] = "ok"
        /\ status[r] = "rolled_back"      => ran[r] = "rolledBack"
        /\ status[r] = "rollback_failed"  => ran[r] = "rollbackFailed"
        /\ status[r] = "preflight_failed" => ran[r] = "no"

\* An answer is final: no later drain, retry or late write-back replaces it.
AnswerIsFinal ==
    [][\A r \in Request : status[r] \in Terminal => status'[r] = status[r]]_vars

\* A request that was taken up has a drain working on it, unless a write-back
\* was lost or a process died.
NothingAbandoned ==
    \A r \in Request :
        status[r] \in Underway =>
            \/ \E d \in Drainer : at[d] \in Owing /\ op[d] = r
            \/ lost + deaths > 0

\* Every request is answered, however many there are, if the operator leaves
\* the poller a chance to take the lock, unless a call was lost, a process died
\* or the backend offers a request of another instance.
Answered ==
    <>[](lock # Gui) =>
        \A r \in Request :
            status[r] = "requested" ~>
                \/ status[r] \in Terminal
                \/ lost + deaths > 0
                \/ \E q \in Request : status[q] = "requested" /\ nature[q] = "foreign"

\* The requests as the CMS sees them.
Answers == INSTANCE RequestAnswers WITH
    approved <- {r \in Request : status[r] # "none" /\ nature[r] \in {"core", "light"}},
    answer   <- [r \in Request |-> IF status[r] \in Terminal THEN status[r] ELSE "open"]

\* The drains keep what RequestAnswers promises the CMS.
KeepsPromise == Answers!Spec

\* "maps the execution report to a terminal status": an update that succeeded
\* is not reported failed.
FailureMeansFailure ==
    \A r \in Request : status[r] = "failed" => ran[r] # "ok"

=============================================================================
