------------------------- MODULE CmsOperationsProofs -------------------------
(* Theorems about CmsOperations, for any requests, drainers and bounds.     *)
EXTENDS CmsOperations, TLAPS

-----------------------------------------------------------------------------
(* The way of a request through its executor.                               *)

LEMMA PostsIs ==
    /\ DOMAIN Posts = {"accept", "preflight", "backup", "updated", "health"}
    /\ \A s \in DOMAIN Posts : Posts[s] \in Underway
BY DEF Posts, Underway

LEMMA FollowingIs ==
    ASSUME NEW d \in Drainer
    PROVE  /\ at[d] = "accept" => Following(d) = "preflight"
           /\ at[d] = "preflight" =>
                Following(d) = IF nature[op[d]] = "light" THEN "update" ELSE "backup"
           /\ at[d] = "backup" /\ nature[op[d]] # "light" => Following(d) = "update"
           /\ at[d] = "updating" =>
                Following(d) = IF nature[op[d]] = "light" THEN "updated" ELSE "health"
           /\ at[d] = "updated" /\ nature[op[d]] = "light" => Following(d) = "health"
           /\ at[d] = "health" => Following(d) = "answer"
BY DEF Following, After

LEMMA VerdictIs ==
    ASSUME NEW d \in Drainer
    PROVE  /\ Verdict(d) \in Terminal
           /\ at[d] = "reject" => Verdict(d) = "preflight_failed"
           /\ at[d] = "fail" => Verdict(d) = "failed"
           /\ at[d] = "answer" =>
                /\ Verdict(d) = "succeeded"       <=> out[d] = "ok"
                /\ Verdict(d) = "rolled_back"     <=> out[d] = "rolledBack"
                /\ Verdict(d) = "rollback_failed" <=> out[d] = "rollbackFailed"
                /\ Verdict(d) # "preflight_failed"
<1>1. TerminalStatus(out[d]) \in Terminal
  BY DEF TerminalStatus, Terminal
<1> QED
  BY <1>1 DEF Verdict, TerminalStatus, Terminal

-----------------------------------------------------------------------------
(* Typing                                                                   *)

\* A drain works on requests that were made, along the way of their nature.
OnItsWay ==
    \A d \in Drainer : at[d] \in Owing =>
        /\ status[op[d]] # "none"
        /\ count[d] < MaxPerDrain
        /\ at[d] = "backup"  => nature[op[d]] # "light"
        /\ at[d] = "updated" => nature[op[d]] = "light"

Typed == TypeOK /\ OnItsWay

LEMMA OwingIs ==
    Owing = {"reject", "accept", "preflight", "backup", "update", "updating",
             "updated", "health", "answer", "fail"}
BY DEF Owing, Stages

LEMMA TypedInit == Init => Typed
BY OwingIs, BoundAssumption DEF Init, Typed, TypeOK, OnItsWay, Natures, Stages

\* The steps that touch a drainer's own state and nothing else.
LEMMA TypedGoes ==
    ASSUME Typed, NEW d \in Drainer, NEW s \in Stages, Goes(d, s),
           s \in Owing =>
               /\ at[d] \in Owing
               /\ s = "backup"  => nature[op[d]] # "light"
               /\ s = "updated" => nature[op[d]] = "light",
           UNCHANGED <<setup, nature, runs, ran>>,
           lost' \in Nat, deaths' \in Nat,
           lock' \in Drainer \cup {Free, Gui, Dead},
           status' \in [Request -> {"none", "requested"} \cup Underway \cup Terminal],
           \A r \in Request : status[r] # "none" => status'[r] # "none"
    PROVE  Typed'
<1>1. at' = [at EXCEPT ![d] = s] /\ UNCHANGED <<op, count, out>>
  BY DEF Goes, Moves
<1>2. at' \in [Drainer -> Stages]
  BY <1>1 DEF Typed, TypeOK
<1>3. \A e \in Drainer : at'[e] \in Owing => at[e] \in Owing
  BY <1>1 DEF Typed, TypeOK
<1>4. \A e \in Drainer : at[e] \in Owing => op[e] \in Request
  BY DEF Typed, TypeOK
<1>5. TypeOK'
  BY <1>1, <1>2, <1>3 DEF Typed, TypeOK
<1>6. OnItsWay'
  BY <1>1, <1>3, <1>4 DEF Typed, TypeOK, OnItsWay
<1> QED
  BY <1>5, <1>6 DEF Typed

\* A drain that ends or finishes a request, or takes one up.
LEMMA TypedOver ==
    ASSUME Typed, NEW d \in Drainer,
           at' \in [Drainer -> Stages], op' \in [Drainer -> Request \cup {0}],
           count' \in [Drainer -> 0..MaxPerDrain],
           out' \in [Drainer -> Outcome \cup {"none", "notExecuted"}],
           \A e \in Drainer : e # d => at'[e] = at[e] /\ op'[e] = op[e] /\ count'[e] = count[e],
           at'[d] \in Owing =>
               /\ at'[d] \notin {"backup", "updated"}
               /\ op'[d] # 0 /\ status[op'[d]] # "none"
               /\ count'[d] < MaxPerDrain,
           UNCHANGED <<setup, nature, runs, ran>>,
           lost' \in Nat, deaths' \in Nat,
           lock' \in Drainer \cup {Free, Gui, Dead},
           status' \in [Request -> {"none", "requested"} \cup Underway \cup Terminal],
           \A q \in Request : status[q] # "none" => status'[q] # "none"
    PROVE  Typed'
<1>1. \A e \in Drainer : at[e] \in Owing => op[e] \in Request
  BY DEF Typed, TypeOK
<1>2. \A e \in Drainer : at'[e] \in Owing => op'[e] # 0
  BY DEF Typed, TypeOK
<1>3. TypeOK'
  BY <1>2 DEF Typed, TypeOK
<1>4. OnItsWay'
  BY <1>1 DEF Typed, TypeOK, OnItsWay
<1> QED
  BY <1>3, <1>4 DEF Typed

LEMMA TypedEnds ==
    ASSUME Typed, NEW d \in Drainer, Ends(d),
           UNCHANGED <<setup, requests, history, lost>>,
           deaths' \in Nat, lock' \in Drainer \cup {Free, Gui, Dead}
    PROVE  Typed'
<1>1. /\ at' \in [Drainer -> Stages] /\ op' \in [Drainer -> Request \cup {0}]
      /\ out' \in [Drainer -> Outcome \cup {"none", "notExecuted"}]
      /\ \A e \in Drainer : e # d => at'[e] = at[e] /\ op'[e] = op[e] /\ count'[e] = count[e]
      /\ at'[d] = "idle"
  BY DEF Ends, Moves, Typed, TypeOK, Stages
<1>2. count' \in [Drainer -> 0..MaxPerDrain]
  BY BoundAssumption DEF Ends, Typed, TypeOK
<1>3. lost \in Nat /\ status \in [Request -> {"none", "requested"} \cup Underway \cup Terminal]
  BY DEF Typed, TypeOK
<1> QED
  BY <1>1, <1>2, <1>3, OwingIs, TypedOver DEF requests, history

\* A write-back changes at most the status of the request it is about.
LEMMA Writing ==
    ASSUME Typed, NEW d \in Drainer, at[d] \in Owing,
           NEW v \in Underway \cup Terminal,
           Arrives(d, v) \/ Miscarries(d, v)
    PROVE  /\ status' \in [Request -> {"none", "requested"} \cup Underway \cup Terminal]
           /\ \A r \in Request : r # op[d] => status'[r] = status[r]
           /\ status'[op[d]] = v \/ status' = status
           /\ \A r \in Request : status[r] # "none" => status'[r] # "none"
           /\ lost' \in Nat /\ lost' >= lost
<1>1. op[d] \in Request
  BY DEF Typed, TypeOK
<1>2. status' = [status EXCEPT ![op[d]] = v] \/ status' = status
  BY DEF Arrives, Miscarries
<1>3. v # "none"
  BY DEF Underway, Terminal
<1>4. lost' = lost \/ lost' = lost + 1
  BY DEF Arrives, Miscarries, Loses
<1> QED
  BY <1>1, <1>2, <1>3, <1>4 DEF Typed, TypeOK

LEMMA ReportPhaseStages ==
    ASSUME Typed, NEW d \in Drainer, ReportPhase(d)
    PROVE  /\ at[d] \in Owing
           /\ Posts[at[d]] \in Underway
           /\ Arrives(d, Posts[at[d]]) \/ Miscarries(d, Posts[at[d]])
           /\ UNCHANGED <<setup, nature, lock, history, deaths>>
           /\ \E s \in {"preflight", "update", "backup", "health", "answer", "fail", "leave"} :
                /\ Goes(d, s)
                /\ s = "backup" => nature[op[d]] # "light"
                /\ s = "fail" => at[d] # "accept"
                /\ s = "preflight" => at[d] = "accept"
                /\ s \in {"backup", "update"} => at[d] \in {"preflight", "backup"}
                /\ s = "health" => at[d] = "updated"
                /\ s = "answer" => at[d] = "health"
                /\ s = "leave" => at[d] = "accept" /\ Miscarries(d, Posts[at[d]])
<1>1. at[d] \in {"accept", "preflight", "backup", "updated", "health"}
  BY PostsIs DEF ReportPhase
<1>2. at[d] \in Owing
  BY <1>1, OwingIs
<1>3. (at[d] = "backup" => nature[op[d]] # "light") /\ (at[d] = "updated" => nature[op[d]] = "light")
  BY <1>2 DEF Typed, OnItsWay
<1>4. \/ Goes(d, Following(d))
      \/ Miscarries(d, Posts[at[d]]) /\ Goes(d, IF at[d] = "accept" THEN "leave" ELSE "fail")
  BY DEF ReportPhase
<1>5. \E s \in {"preflight", "update", "backup", "health", "answer", "fail", "leave"} :
                /\ Goes(d, s)
                /\ s = "backup" => nature[op[d]] # "light"
                /\ s = "fail" => at[d] # "accept"
                /\ s = "preflight" => at[d] = "accept"
                /\ s \in {"backup", "update"} => at[d] \in {"preflight", "backup"}
                /\ s = "health" => at[d] = "updated"
                /\ s = "answer" => at[d] = "health"
                /\ s = "leave" => at[d] = "accept" /\ Miscarries(d, Posts[at[d]])
  <2>1. CASE Goes(d, Following(d))
    BY <1>1, <1>3, <2>1, FollowingIs
  <2>2. CASE Miscarries(d, Posts[at[d]]) /\ Goes(d, IF at[d] = "accept" THEN "leave" ELSE "fail")
    <3>1. CASE at[d] = "accept"
      BY <2>2, <3>1
    <3>2. CASE at[d] # "accept"
      BY <2>2, <3>2
    <3> QED
      BY <3>1, <3>2
  <2> QED
    BY <1>4, <2>1, <2>2
<1>6. UNCHANGED <<setup, nature, lock, history, deaths>>
  BY DEF ReportPhase
<1>7. Arrives(d, Posts[at[d]]) \/ Miscarries(d, Posts[at[d]])
  BY DEF ReportPhase
<1>8. Posts[at[d]] \in Underway
  BY PostsIs DEF ReportPhase
<1> QED
  BY <1>2, <1>5, <1>6, <1>7, <1>8

LEMMA TypedNext == Typed /\ [Next]_vars => Typed'
<1> SUFFICES ASSUME Typed, [Next]_vars PROVE Typed'
  OBVIOUS
<1> USE OwingIs
<1>a. /\ lost \in Nat /\ deaths \in Nat /\ lock \in Drainer \cup {Free, Gui, Dead}
      /\ status \in [Request -> {"none", "requested"} \cup Underway \cup Terminal]
      /\ \A d \in Drainer : at[d] \in Owing => op[d] \in Request
  BY DEF Typed, TypeOK
<1>b. \A d \in Drainer : at[d] \in Owing => status[op[d]] # "none"
  BY DEF Typed, OnItsWay
<1>0. CASE UNCHANGED vars
  BY <1>0 DEF vars, requests, drains, history, Typed, TypeOK, OnItsWay
<1>1. ASSUME NEW r \in Request, Ask(r) PROVE Typed'
  <2>1. /\ status[r] = "none" /\ status' = [status EXCEPT ![r] = "requested"]
        /\ \E n \in Nature : nature' = [nature EXCEPT ![r] = n]
        /\ UNCHANGED <<setup, drains, lock, history, lost, deaths>>
    BY <1>1 DEF Ask
  <2>2. nature' \in [Request -> Natures] /\ \A q \in Request : q # r => nature'[q] = nature[q]
    BY <2>1, NatureAssumption DEF Typed, TypeOK
  <2>3. TypeOK'
    BY <2>1, <2>2 DEF Typed, TypeOK, drains, history
  <2>4. OnItsWay'
    BY <1>a, <1>b, <2>1, <2>2 DEF Typed, OnItsWay, drains
  <2> QED
    BY <2>3, <2>4 DEF Typed
<1>2. CASE GuiStarts \/ GuiEnds
  <2>1. lock' \in {Free, Gui} /\ UNCHANGED <<setup, requests, drains, history, lost, deaths>>
    BY <1>2 DEF GuiStarts, GuiEnds
  <2> QED
    BY <2>1 DEF Typed, TypeOK, OnItsWay, requests, drains, history
<1>3. CASE ConsoleDies
  <2>1. /\ lock' \in {Free, Dead} \cup {lock}
        /\ deaths' = deaths + 1
        /\ at' = [d \in Drainer |-> IF d \in Console THEN "idle" ELSE at[d]]
        /\ op' = [d \in Drainer |-> IF d \in Console THEN 0 ELSE op[d]]
        /\ count' = [d \in Drainer |-> IF d \in Console THEN 0 ELSE count[d]]
        /\ out' = [d \in Drainer |-> IF d \in Console THEN "none" ELSE out[d]]
        /\ UNCHANGED <<setup, requests, history, lost>>
    BY <1>3 DEF ConsoleDies
  <2>2. \A d \in Drainer : at'[d] \in Owing => at'[d] = at[d] /\ op'[d] = op[d]
    BY <2>1
  <2>3. at' \in [Drainer -> Stages] /\ op' \in [Drainer -> Request \cup {0}]
    BY <2>1 DEF Typed, TypeOK, Stages
  <2>4. count' \in [Drainer -> 0..MaxPerDrain]
        /\ out' \in [Drainer -> Outcome \cup {"none", "notExecuted"}]
    BY <2>1, BoundAssumption DEF Typed, TypeOK
  <2>5. TypeOK'
    BY <2>1, <2>2, <2>3, <2>4 DEF Typed, TypeOK, requests, history
  <2>6. OnItsWay'
    BY <2>1, <2>2 DEF Typed, OnItsWay, requests
  <2> QED
    BY <2>5, <2>6 DEF Typed
<1>4. ASSUME NEW d \in Drainer, CommandDies(d) PROVE Typed'
  BY <1>4, <1>a, TypedEnds DEF CommandDies
<1>5. ASSUME NEW d \in Drainer, Tick(d) \/ Peek(d) \/ Invoke(d) PROVE Typed'
  <2>1. /\ UNCHANGED <<setup, requests, lock, history, deaths>>
        /\ lost' = lost \/ lost' = lost + 1
        /\ \E s \in {"peek", "acquire", "idle", "fetch"} : Goes(d, s)
    BY <1>5 DEF Tick, Peek, Invoke, Loses
  <2> QED
    BY <2>1, <1>a, TypedGoes DEF requests, history, Stages
<1>6. ASSUME NEW d \in Drainer, Acquire(d) PROVE Typed'
  BY <1>6, <1>a, TypedGoes DEF Acquire, requests, history, Stages
<1>7. ASSUME NEW d \in Drainer, Fetch(d) PROVE Typed'
  <2>1. UNCHANGED <<setup, requests, lock, history, deaths>> /\ (lost' = lost \/ lost' = lost + 1)
    BY <1>7 DEF Fetch, Loses
  <2>2. CASE Goes(d, "leave")
    BY <2>1, <2>2, <1>a, TypedGoes DEF requests, history, Stages
  <2>3. ASSUME count[d] < MaxPerDrain, NEW r \in Request, Offers(r),
               NEW s \in {"accept", "reject"}, Takes(d, r, s)
        PROVE  Typed'
    <3>1. count[d] < MaxPerDrain
      BY <2>3
    <3>2. /\ at' \in [Drainer -> Stages] /\ op' \in [Drainer -> Request \cup {0}]
          /\ UNCHANGED <<count, out>>
          /\ \A e \in Drainer : e # d => at'[e] = at[e] /\ op'[e] = op[e] /\ count'[e] = count[e]
          /\ at'[d] = s /\ op'[d] = r
      BY <2>3 DEF Takes, Moves, Typed, TypeOK, Stages
    <3>3. r # 0 /\ status[r] # "none"
      BY <2>3, RequestAssumption DEF Offers
    <3>4. /\ count' \in [Drainer -> 0..MaxPerDrain]
          /\ out' \in [Drainer -> Outcome \cup {"none", "notExecuted"}]
      BY <3>2 DEF Typed, TypeOK
    <3>5. count'[d] < MaxPerDrain
      BY <3>1, <3>2
    <3> QED
      BY <2>1, <3>2, <3>3, <3>4, <3>5, <1>a, TypedOver DEF requests, history
  <2> QED
    BY <1>7, <2>2, <2>3 DEF Fetch
<1>8. ASSUME NEW d \in Drainer, ReportPhase(d) PROVE Typed'
  <2>1. UNCHANGED <<setup, nature, lock, history, deaths>> /\ at[d] \in Owing
    BY <1>8, ReportPhaseStages
  <2>2. /\ status' \in [Request -> {"none", "requested"} \cup Underway \cup Terminal]
        /\ lost' \in Nat
        /\ \A r \in Request : status[r] # "none" => status'[r] # "none"
    BY <1>8, ReportPhaseStages, Writing
  <2>3. PICK s \in {"preflight", "update", "backup", "health", "answer", "fail", "leave"} :
            Goes(d, s) /\ (s = "backup" => nature[op[d]] # "light")
    BY <1>8, ReportPhaseStages
  <2> QED
    BY <2>1, <2>2, <2>3, <1>a, TypedGoes DEF history, Stages
<1>9. ASSUME NEW d \in Drainer, Prepare(d) PROVE Typed'
  <2>1. at[d] = "update" /\ UNCHANGED <<setup, requests, lock, lost, deaths>>
    BY <1>9 DEF Prepare
  <2>2. CASE Goes(d, "fail") /\ UNCHANGED history
    BY <2>1, <2>2, <1>a, TypedGoes DEF requests, history, Stages
  <2>3. CASE Moves(d, "answer") /\ out' = [out EXCEPT ![d] = "notExecuted"] /\ UNCHANGED <<op, count, history>>
    BY <2>1, <2>3, <1>a DEF Typed, TypeOK, OnItsWay, Moves, requests, history, Stages
  <2>4. CASE /\ Goes(d, "updating")
             /\ ran' = [ran EXCEPT ![op[d]] = "begun"]
             /\ runs' = [runs EXCEPT ![op[d]] = @ + 1]
    BY <2>1, <2>4, <1>a DEF Typed, TypeOK, OnItsWay, Goes, Moves, requests, Stages
  <2> QED
    BY <1>9, <2>2, <2>3, <2>4 DEF Prepare
<1>10. ASSUME NEW d \in Drainer, Update(d) PROVE Typed'
  <2>1. /\ at[d] = "updating" /\ UNCHANGED <<setup, op, count, runs, requests, lock, lost, deaths>>
        /\ \E o \in Outcome : ran' = [ran EXCEPT ![op[d]] = o] /\ out' = [out EXCEPT ![d] = o]
        /\ at' = [at EXCEPT ![d] = Following(d)]
    BY <1>10 DEF Update, Moves
  <2>2. Following(d) = IF nature[op[d]] = "light" THEN "updated" ELSE "health"
    BY <2>1, FollowingIs
  <2>3. ran' \in [Request -> {"no", "begun"} \cup Outcome] /\ out' \in [Drainer -> Outcome \cup {"none", "notExecuted"}]
    BY <2>1 DEF Typed, TypeOK
  <2>4. at' \in [Drainer -> Stages] /\ \A e \in Drainer : at'[e] \in Owing => at[e] \in Owing
    BY <2>1, <2>2 DEF Typed, TypeOK, Stages
  <2>5. TypeOK'
    BY <2>1, <2>3, <2>4 DEF Typed, TypeOK, requests
  <2>6. OnItsWay'
    BY <2>1, <2>2, <2>4, <1>a DEF Typed, TypeOK, OnItsWay, requests
  <2> QED
    BY <2>5, <2>6 DEF Typed
<1>11. ASSUME NEW d \in Drainer, Answer(d) PROVE Typed'
  <2>1. UNCHANGED <<setup, nature, lock, history, deaths>> /\ at[d] \in Owing
    BY <1>11 DEF Answer
  <2>2. /\ status' \in [Request -> {"none", "requested"} \cup Underway \cup Terminal]
        /\ lost' \in Nat
        /\ \A r \in Request : status[r] # "none" => status'[r] # "none"
    BY <1>11, <2>1, VerdictIs, Writing DEF Answer
  <2>3. CASE Goes(d, "leave")
    BY <2>1, <2>2, <2>3, <1>a, TypedGoes DEF history, Stages
  <2>4. CASE Finishes(d)
    <3>1. count[d] + 1 \in 0..MaxPerDrain
      BY <2>1, BoundAssumption DEF Typed, TypeOK, OnItsWay
    <3>2. /\ at' \in [Drainer -> Stages] /\ op' \in [Drainer -> Request \cup {0}]
          /\ out' \in [Drainer -> Outcome \cup {"none", "notExecuted"}]
          /\ \A e \in Drainer : e # d => at'[e] = at[e] /\ op'[e] = op[e] /\ count'[e] = count[e]
          /\ at'[d] = "fetch"
      BY <2>4 DEF Finishes, Moves, Typed, TypeOK, Stages
    <3>3. count' \in [Drainer -> 0..MaxPerDrain]
      BY <2>4, <3>1 DEF Finishes, Typed, TypeOK
    <3> QED
      BY <2>1, <2>2, <3>2, <3>3, <1>a, TypedOver DEF history
  <2> QED
    BY <1>11, <2>3, <2>4 DEF Answer
<1>12. ASSUME NEW d \in Drainer, Leave(d) PROVE Typed'
  <2>1. lock' \in {Free, lock}
    BY <1>12 DEF Leave
  <2> QED
    BY <1>12, <2>1, <1>a, TypedEnds DEF Leave
<1> QED
  BY <1>0, <1>1, <1>2, <1>3, <1>4, <1>5, <1>6, <1>7, <1>8, <1>9, <1>10, <1>11, <1>12 DEF Next, Work

LEMMA TypedAlways == Spec => []Typed
BY TypedInit, TypedNext, PTL DEF Spec

\* The type invariant, for any requests, drainers, caps and bounds: no drain
\* exceeds its cap, and one that owes an answer knows of which request.
THEOREM Typing == Spec => []TypeOK
<1>1. Typed => TypeOK
  BY DEF Typed
<1> QED
  BY <1>1, TypedAlways, PTL

-----------------------------------------------------------------------------
(* The lock and those who work                                              *)

\* One drainer serves the instance: either of the supported setups.
Sole == \A s \in Setups : \A d, e \in s : d = e

\* Only drainers in service work, the poller under the lock from the moment it
\* has acquired it, and GUI actions only where there is a console.
Held ==
    /\ \A d \in Drainer : at[d] # "idle" => d \in setup
    /\ \A d \in Console : at[d] \notin {"idle", "peek", "acquire"} => lock = d
    /\ lock = Gui => setup \cap Console # {}

LEMMA HeldInit == Init => Held
BY ConsoleAssumption, LockAssumption DEF Init, Held

\* What a drainer past acquiring does, short of releasing.
LEMMA HeldMoves ==
    ASSUME Typed, Held, NEW d \in Drainer, NEW s, at' = [at EXCEPT ![d] = s],
           at[d] \notin {"idle", "peek", "acquire"}, UNCHANGED <<setup, lock>>
    PROVE  Held'
BY ConsoleAssumption DEF Typed, TypeOK, Held

LEMMA HeldNext == Typed /\ Held /\ [Next]_vars => Held'
<1> SUFFICES ASSUME Typed, Held, [Next]_vars PROVE Held'
  OBVIOUS
<1> USE ConsoleAssumption, LockAssumption
<1>a. at \in [Drainer -> Stages]
  BY DEF Typed, TypeOK
<1>0. CASE UNCHANGED vars
  BY <1>0 DEF vars, requests, drains, history, Held
<1>1. ASSUME NEW r \in Request, Ask(r) PROVE Held'
  BY <1>1 DEF Ask, drains, Held
<1>2. CASE GuiStarts
  BY <1>2 DEF GuiStarts, drains, Held
<1>3. CASE GuiEnds
  BY <1>3 DEF GuiEnds, drains, Held
<1>4. CASE ConsoleDies
  <2>1. /\ at' = [d \in Drainer |-> IF d \in Console THEN "idle" ELSE at[d]]
        /\ UNCHANGED setup
    BY <1>4 DEF ConsoleDies
  <2>2. lock' \in {Free, Dead}
    BY <1>4 DEF ConsoleDies
  <2>3. \A d \in Drainer : /\ at'[d] # "idle" => at'[d] = at[d]
                           /\ d \in Console => at'[d] = "idle"
    BY <2>1
  <2> QED
    BY <2>1, <2>2, <2>3 DEF Held
<1>5. ASSUME NEW d \in Drainer, CommandDies(d) PROVE Held'
  BY <1>5, <1>a DEF CommandDies, Ends, Moves, Held
<1>6. ASSUME NEW d \in Drainer, Tick(d) \/ Invoke(d) PROVE Held'
  BY <1>6, <1>a DEF Tick, Invoke, Goes, Moves, Held
<1>7. ASSUME NEW d \in Drainer, Peek(d) PROVE Held'
  <2>1. /\ at[d] = "peek" /\ UNCHANGED <<setup, lock>>
        /\ at' = [at EXCEPT ![d] = "acquire"] \/ at' = [at EXCEPT ![d] = "idle"]
    BY <1>7 DEF Peek, Goes, Moves
  <2> QED
    BY <2>1, <1>a DEF Held
<1>8. ASSUME NEW d \in Drainer, Acquire(d) PROVE Held'
  BY <1>8, <1>a DEF Acquire, Goes, Moves, Held
<1>9. ASSUME NEW d \in Drainer, Fetch(d) \/ ReportPhase(d) \/ Prepare(d) \/ Update(d) \/ Answer(d)
      PROVE  Held'
  <2>1. at[d] \notin {"idle", "peek", "acquire"} /\ UNCHANGED <<setup, lock>>
    BY <1>9, PostsIs DEF Fetch, ReportPhase, Prepare, Update, Answer, requests
  <2>2. \E s : at' = [at EXCEPT ![d] = s]
    <3>1. CASE Fetch(d)
      BY <3>1 DEF Fetch, Takes, Goes, Moves
    <3>2. CASE ReportPhase(d)
      BY <3>2 DEF ReportPhase, Goes, Moves
    <3>3. CASE Prepare(d)
      BY <3>3 DEF Prepare, Goes, Moves
    <3>4. CASE Update(d)
      BY <3>4 DEF Update, Moves
    <3>5. CASE Answer(d)
      BY <3>5 DEF Answer, Finishes, Goes, Moves
    <3> QED
      BY <1>9, <3>1, <3>2, <3>3, <3>4, <3>5
  <2> QED
    BY <2>1, <2>2, HeldMoves
<1>10. ASSUME NEW d \in Drainer, Leave(d) PROVE Held'
  BY <1>10, <1>a DEF Leave, Ends, Moves, Held
<1> QED
  BY <1>0, <1>1, <1>2, <1>3, <1>4, <1>5, <1>6, <1>7, <1>8, <1>9, <1>10 DEF Next, Work

LEMMA HeldAlways == Spec => [](Typed /\ Held)
BY TypedInit, TypedNext, HeldInit, HeldNext, PTL DEF Spec

\* With one drainer in service, the poller's updates and the operator's never
\* overlap, for any number of requests.
THEOREM Exclusion == Sole => (Spec => []OneUpdateAtATime)
<1> SUFFICES ASSUME Sole PROVE Spec => []OneUpdateAtATime
  OBVIOUS
<1>1. Typed /\ Held => OneUpdateAtATime
  <2> SUFFICES ASSUME Typed, Held, NEW x \in Updating, NEW y \in Updating PROVE x = y
    BY DEF OneUpdateAtATime
  <2>1. \A d, e \in setup : d = e
    BY DEF Sole, Typed, TypeOK
  <2>2. \A z \in Updating :
            \/ z \in Drainer /\ at[z] = "updating" /\ z \in setup
            \/ z = Gui /\ lock = Gui
    BY DEF Updating, Held
  <2>3. ASSUME NEW d \in Drainer, at[d] = "updating", lock = Gui PROVE FALSE
    <3>1. d \in setup /\ setup \cap Console # {}
      BY <2>3 DEF Held
    <3>2. d \in Console
      BY <2>1, <3>1
    <3> QED
      BY <2>3, <3>2, LockAssumption DEF Held
  <2> QED
    BY <2>1, <2>2, <2>3
<1> QED
  BY <1>1, HeldAlways, PTL

-----------------------------------------------------------------------------
(* What has happened to a request, by how far its drain is                  *)

\* By the stage of the drain.
Tale(d) ==
    at[d] \in Owing =>
        /\ at[d] \in {"reject", "accept"} => status[op[d]] = "requested"
        /\ at[d] \notin {"reject", "accept"} => status[op[d]] \in Underway
        /\ at[d] # "reject" => nature[op[d]] \in {"core", "light"}
        /\ at[d] \in {"reject", "accept", "preflight", "backup", "update"} => ran[op[d]] = "no"
        /\ at[d] = "updating" => ran[op[d]] = "begun"
        /\ at[d] \in {"updated", "health"} => ran[op[d]] = out[d] /\ out[d] \in Outcome
        /\ at[d] = "answer" => \/ ran[op[d]] = out[d] /\ out[d] \in Outcome
                               \/ ran[op[d]] = "no" /\ out[d] = "notExecuted"
        /\ at[d] = "fail" => ran[op[d]] # "begun"

\* By its status in the backend.
Record(r) ==
    /\ status[r] \in {"none", "requested"} => ran[r] = "no"
    /\ status[r] \in Terminal => ran[r] # "begun"
    /\ status[r] = "succeeded"        => ran[r] = "ok"
    /\ status[r] = "rolled_back"      => ran[r] = "rolledBack"
    /\ status[r] = "rollback_failed"  => ran[r] = "rollbackFailed"
    /\ status[r] = "preflight_failed" => ran[r] = "no"
    /\ runs[r] = IF ran[r] = "no" THEN 0 ELSE 1

Story == (\A d \in Drainer : Tale(d)) /\ (\A r \in Request : Record(r))

IInv == Typed /\ Held /\ Story

LEMMA StoryInit == Init => Story
BY OwingIs DEF Init, Story, Tale, Record, Terminal

LEMMA Alone ==
    ASSUME Sole, Typed, Held, NEW d \in Drainer, at[d] # "idle"
    PROVE  \A e \in Drainer : e # d => at[e] = "idle"
BY DEF Sole, Typed, TypeOK, Held

\* A step of one drainer leaves the tales of the others alone.
LEMMA StoryStep ==
    ASSUME Sole, Typed, Held, Story, NEW d \in Drainer, at[d] # "idle",
           \A e \in Drainer : e # d => at'[e] = at[e],
           Tale(d)', \A r \in Request : Record(r)'
    PROVE  Story'
<1>1. \A e \in Drainer : e # d => at'[e] = "idle"
  BY Alone
<1>2. \A e \in Drainer : e # d => Tale(e)'
  BY <1>1, OwingIs DEF Tale
<1> QED
  BY <1>2 DEF Story

\* So does one that touches no request.
LEMMA StoryQuiet ==
    ASSUME Typed, Story, UNCHANGED <<status, nature, ran, runs>>,
           \A e \in Drainer :
               at'[e] \in Owing => at'[e] = at[e] /\ op'[e] = op[e] /\ out'[e] = out[e]
    PROVE  Story'
<1>1. \A e \in Drainer : Tale(e)'
  BY DEF Story, Tale
<1>2. \A r \in Request : Record(r)'
  BY DEF Story, Record
<1> QED
  BY <1>1, <1>2 DEF Story

LEMMA StoryAsk ==
    ASSUME Typed, Story, NEW r \in Request, Ask(r)
    PROVE  Story'
<1>1. /\ status[r] = "none" /\ status' = [status EXCEPT ![r] = "requested"]
      /\ \A q \in Request : q # r => nature'[q] = nature[q]
      /\ UNCHANGED <<at, op, out, ran, runs>>
  BY DEF Ask, drains, history, Typed, TypeOK
<1>2. \A d \in Drainer : at[d] \in Owing => op[d] \in Request /\ op[d] # r
  BY <1>1 DEF Typed, TypeOK, OnItsWay
<1>3. \A q \in Request : q # r => status'[q] = status[q]
  BY <1>1 DEF Typed, TypeOK
<1>4. status'[r] = "requested"
  BY <1>1 DEF Typed, TypeOK
<1>5. \A d \in Drainer : Tale(d)'
  BY <1>1, <1>2, <1>3 DEF Story, Tale
<1>6. \A q \in Request : Record(q)'
  BY <1>1, <1>3, <1>4 DEF Story, Record, Terminal
<1> QED
  BY <1>5, <1>6 DEF Story

LEMMA StoryFetch ==
    ASSUME Sole, Typed, Held, Story, NEW d \in Drainer, Fetch(d)
    PROVE  Story'
<1>0. at[d] = "fetch" /\ UNCHANGED <<status, nature, ran, runs>>
  BY DEF Fetch, requests, history
<1>1. CASE Goes(d, "leave")
  BY <1>0, <1>1, OwingIs, StoryQuiet DEF Goes, Moves, Typed, TypeOK
<1>2. ASSUME NEW r \in Request, Offers(r), NEW s \in {"accept", "reject"}, Takes(d, r, s),
             s = "accept" => nature[r] \in {"core", "light"}
      PROVE  Story'
  <2>1. at'[d] = s /\ op'[d] = r /\ \A e \in Drainer : e # d => at'[e] = at[e]
    BY <1>2 DEF Takes, Moves, Typed, TypeOK
  <2>2. status[r] = "requested" /\ ran[r] = "no"
    BY <1>2 DEF Offers, Story, Record
  <2>3. Tale(d)'
    BY <1>0, <1>2, <2>1, <2>2 DEF Tale
  <2>4. \A q \in Request : Record(q)'
    BY <1>0 DEF Story, Record
  <2> QED
    BY <1>0, <2>1, <2>3, <2>4, StoryStep
<1> QED
  BY <1>1, <1>2 DEF Fetch

LEMMA StoryReport ==
    ASSUME Sole, Typed, Held, Story, NEW d \in Drainer, ReportPhase(d)
    PROVE  Story'
<1>1. at[d] \in Owing /\ op[d] \in Request
  BY ReportPhaseStages DEF Typed, TypeOK
<1>2. UNCHANGED <<nature, ran, runs>>
  BY ReportPhaseStages DEF history
<1>3. PICK s \in {"preflight", "update", "backup", "health", "answer", "fail", "leave"} :
                /\ Goes(d, s)
                /\ s = "fail" => at[d] # "accept"
                /\ s = "preflight" => at[d] = "accept"
                /\ s \in {"backup", "update"} => at[d] \in {"preflight", "backup"}
                /\ s = "health" => at[d] = "updated"
                /\ s = "answer" => at[d] = "health"
                /\ s = "leave" => at[d] = "accept" /\ Miscarries(d, Posts[at[d]])
  BY ReportPhaseStages
<1>4. /\ at'[d] = s /\ op' = op /\ out' = out
      /\ \A e \in Drainer : e # d => at'[e] = at[e]
  BY <1>3 DEF Goes, Moves, Typed, TypeOK
<1>5. \A r \in Request : r # op[d] => status'[r] = status[r]
  BY <1>1, ReportPhaseStages, Writing
<1>6. status'[op[d]] \in Underway \/ status' = status
  BY <1>1, ReportPhaseStages, Writing
<1>7. status' = status /\ at[d] = "accept" => s \in {"preflight", "leave"}
  BY <1>3, <1>4
<1>8. at[d] = "accept" /\ s = "preflight" => status'[op[d]] \in Underway
  <2> SUFFICES ASSUME at[d] = "accept", s = "preflight" PROVE status'[op[d]] \in Underway
    OBVIOUS
  <2>1. Arrives(d, Posts[at[d]])
    BY <1>4, OwingIs DEF ReportPhase, Goes, Moves, Typed, TypeOK
  <2> QED
    BY <2>1, <1>1, ReportPhaseStages DEF Arrives, Typed, TypeOK
<1>9. at[d] \in {"accept", "preflight", "backup", "updated", "health"}
  BY PostsIs DEF ReportPhase
<1>10. s # "leave" => status'[op[d]] \in Underway
  <2>1. CASE at[d] = "accept"
    BY <1>3, <1>7, <1>8, <2>1
  <2>2. CASE at[d] # "accept"
    BY <1>1, <1>6, <1>9, <2>2 DEF Story, Tale
  <2> QED
    BY <2>1, <2>2
<1>11. Tale(d)'
  <2>1. s = "leave" => s \notin Owing
    BY OwingIs
  <2>2. /\ nature[op[d]] \in {"core", "light"}
        /\ at[d] \in {"accept", "preflight", "backup"} => ran[op[d]] = "no"
        /\ at[d] \in {"updated", "health"} => ran[op[d]] = out[d] /\ out[d] \in Outcome
    BY <1>1, <1>9 DEF Story, Tale
  <2>3. ran[op[d]] # "begun"
    BY <1>9, <2>2 DEF Outcome
  <2> QED
    BY <1>2, <1>3, <1>4, <1>9, <1>10, <2>1, <2>2, <2>3 DEF Tale
<1>12. \A r \in Request : Record(r)'
  <2>1. \A r \in Request : r # op[d] => Record(r)'
    BY <1>2, <1>5 DEF Story, Record
  <2>2. ASSUME NEW r \in Request, r = op[d] PROVE Record(r)'
    <3>1. Record(r)
      BY DEF Story
    <3>2. CASE status'[op[d]] \in Underway
      BY <1>2, <2>2, <3>1, <3>2 DEF Record, Underway, Terminal
    <3>3. CASE status' = status
      BY <1>2, <3>1, <3>3 DEF Record
    <3> QED
      BY <1>6, <3>2, <3>3
  <2> QED
    BY <2>1, <2>2
<1> QED
  BY <1>4, <1>9, <1>11, <1>12, StoryStep

LEMMA StoryPrepare ==
    ASSUME Sole, Typed, Held, Story, NEW d \in Drainer, Prepare(d)
    PROVE  Story'
<1>1. /\ at[d] = "update" /\ at[d] \in Owing /\ op[d] \in Request
      /\ UNCHANGED <<status, nature>> /\ op' = op
  BY OwingIs DEF Prepare, Goes, requests, Typed, TypeOK
<1>2. status[op[d]] \in Underway /\ nature[op[d]] \in {"core", "light"} /\ ran[op[d]] = "no"
  BY <1>1 DEF Story, Tale
<1>3. \A s : Moves(d, s) => at'[d] = s /\ \A e \in Drainer : e # d => at'[e] = at[e]
  BY DEF Moves, Typed, TypeOK
<1>4. CASE Goes(d, "fail") /\ UNCHANGED history
  <2>1. at'[d] = "fail" /\ UNCHANGED <<ran, runs>> /\ \A e \in Drainer : e # d => at'[e] = at[e]
    BY <1>4 DEF Goes, Moves, history, Typed, TypeOK
  <2>2. Tale(d)' /\ \A r \in Request : Record(r)'
    BY <1>1, <1>2, <2>1 DEF Story, Tale, Record
  <2> QED
    BY <1>1, <2>1, <2>2, StoryStep
<1>5. CASE Moves(d, "answer") /\ out' = [out EXCEPT ![d] = "notExecuted"] /\ UNCHANGED <<op, count, history>>
  <2>1. /\ at'[d] = "answer" /\ out'[d] = "notExecuted" /\ UNCHANGED <<ran, runs>>
        /\ \A e \in Drainer : e # d => at'[e] = at[e]
    BY <1>5 DEF Moves, history, Typed, TypeOK
  <2>2. Tale(d)' /\ \A r \in Request : Record(r)'
    BY <1>1, <1>2, <2>1 DEF Story, Tale, Record
  <2> QED
    BY <1>1, <2>1, <2>2, StoryStep
<1>6. CASE /\ Goes(d, "updating")
           /\ ran' = [ran EXCEPT ![op[d]] = "begun"]
           /\ runs' = [runs EXCEPT ![op[d]] = @ + 1]
  <2>1. at'[d] = "updating" /\ \A e \in Drainer : e # d => at'[e] = at[e]
    BY <1>6 DEF Goes, Moves, Typed, TypeOK
  <2>2. /\ \A r \in Request : r # op[d] => ran'[r] = ran[r] /\ runs'[r] = runs[r]
        /\ ran'[op[d]] = "begun" /\ runs'[op[d]] = runs[op[d]] + 1
    BY <1>1, <1>6 DEF Typed, TypeOK
  <2>3. Tale(d)'
    BY <1>1, <1>2, <2>1, <2>2 DEF Tale
  <2>4. \A r \in Request : r # op[d] => Record(r)'
    BY <1>1, <2>2 DEF Story, Record
  <2>5. ASSUME NEW r \in Request, r = op[d] PROVE Record(r)'
    <3>1. runs[r] = 0
      BY <1>2, <2>5 DEF Story, Record
    <3> QED
      BY <1>1, <1>2, <2>2, <2>5, <3>1 DEF Record, Underway, Terminal
  <2> QED
    BY <1>1, <2>1, <2>3, <2>4, <2>5, StoryStep
<1> QED
  BY <1>4, <1>5, <1>6 DEF Prepare

LEMMA StoryUpdate ==
    ASSUME Sole, Typed, Held, Story, NEW d \in Drainer, Update(d)
    PROVE  Story'
<1>1. /\ at[d] = "updating" /\ at[d] \in Owing /\ op[d] \in Request
      /\ UNCHANGED <<status, nature, op, runs>>
  BY OwingIs DEF Update, requests, Typed, TypeOK
<1>2. status[op[d]] \in Underway /\ nature[op[d]] \in {"core", "light"} /\ ran[op[d]] = "begun"
  BY <1>1 DEF Story, Tale
<1>3. PICK o \in Outcome : ran' = [ran EXCEPT ![op[d]] = o] /\ out' = [out EXCEPT ![d] = o]
  BY DEF Update
<1>4. at'[d] \in {"updated", "health"} /\ \A e \in Drainer : e # d => at'[e] = at[e]
  BY <1>1, FollowingIs DEF Update, Moves, Typed, TypeOK
<1>5. /\ \A r \in Request : r # op[d] => ran'[r] = ran[r]
      /\ ran'[op[d]] = o /\ out'[d] = o
  BY <1>1, <1>3 DEF Typed, TypeOK
<1>6. o # "no" /\ o # "begun"
  BY DEF Outcome
<1>7. Tale(d)'
  BY <1>1, <1>2, <1>4, <1>5 DEF Tale
<1>8. \A r \in Request : r # op[d] => Record(r)'
  BY <1>1, <1>5 DEF Story, Record
<1>9. ASSUME NEW r \in Request, r = op[d] PROVE Record(r)'
  <2>1. runs[r] = 1
    BY <1>2, <1>9 DEF Story, Record
  <2> QED
    BY <1>1, <1>2, <1>5, <1>6, <1>9, <2>1 DEF Record, Underway, Terminal
<1> QED
  BY <1>1, <1>4, <1>7, <1>8, <1>9, StoryStep

LEMMA VerdictTrue ==
    ASSUME Typed, Story, NEW d \in Drainer, at[d] \in {"reject", "fail", "answer"}
    PROVE  LET v == Verdict(d)
               what == ran[op[d]]
           IN  /\ v = "succeeded"        => what = "ok"
               /\ v = "rolled_back"      => what = "rolledBack"
               /\ v = "rollback_failed"  => what = "rollbackFailed"
               /\ v = "preflight_failed" => what = "no"
               /\ what # "begun"
<1>1. at[d] \in Owing
  BY OwingIs
<1>2. /\ at[d] = "reject" => ran[op[d]] = "no"
      /\ at[d] = "fail" => ran[op[d]] # "begun"
      /\ at[d] = "answer" => \/ ran[op[d]] = out[d] /\ out[d] \in Outcome
                             \/ ran[op[d]] = "no" /\ out[d] = "notExecuted"
  BY <1>1 DEF Story, Tale
<1>3. CASE at[d] = "reject"
  BY <1>2, <1>3, VerdictIs
<1>4. CASE at[d] = "fail"
  BY <1>2, <1>4, VerdictIs
<1>5. CASE at[d] = "answer"
  BY <1>2, <1>5, VerdictIs DEF Outcome
<1> QED
  BY <1>3, <1>4, <1>5

LEMMA StoryAnswer ==
    ASSUME Sole, Typed, Held, Story, NEW d \in Drainer, Answer(d)
    PROVE  Story'
<1>1. /\ at[d] \in {"reject", "fail", "answer"} /\ at[d] \in Owing /\ op[d] \in Request
      /\ UNCHANGED <<nature, ran, runs>>
  BY OwingIs DEF Answer, history, Typed, TypeOK
<1>2. Arrives(d, Verdict(d)) \/ Miscarries(d, Verdict(d))
  BY DEF Answer
<1>3. /\ Verdict(d) \in Terminal
      /\ \A r \in Request : r # op[d] => status'[r] = status[r]
      /\ status'[op[d]] = Verdict(d) \/ status' = status
  BY <1>1, <1>2, VerdictIs, Writing
<1>4. at'[d] \in {"fetch", "leave"} /\ \A e \in Drainer : e # d => at'[e] = at[e]
  BY DEF Answer, Finishes, Goes, Moves, Typed, TypeOK
<1>5. Tale(d)'
  BY <1>4, OwingIs DEF Tale
<1>6. \A r \in Request : r # op[d] => Record(r)'
  BY <1>1, <1>3 DEF Story, Record
<1>7. ASSUME NEW r \in Request, r = op[d] PROVE Record(r)'
  <2>1. Record(r)
    BY DEF Story
  <2>2. CASE status' = status
    BY <1>1, <2>1, <2>2 DEF Record
  <2>3. CASE status'[op[d]] = Verdict(d)
    <3>1. status'[r] \notin {"none", "requested"}
      BY <1>3, <1>7, <2>3 DEF Terminal
    <3> QED
      BY <1>1, <1>7, <2>1, <2>3, <3>1, VerdictTrue DEF Record
  <2> QED
    BY <1>3, <2>2, <2>3
<1> QED
  BY <1>1, <1>4, <1>5, <1>6, <1>7, StoryStep

LEMMA StoryNext == Sole => (IInv /\ [Next]_vars => Story')
<1> SUFFICES ASSUME Sole, Typed, Held, Story, [Next]_vars PROVE Story'
  BY DEF IInv
<1>a. at \in [Drainer -> Stages]
  BY DEF Typed, TypeOK
<1>0. CASE UNCHANGED vars
  BY <1>0, StoryQuiet DEF vars, requests, drains, history
<1>1. ASSUME NEW r \in Request, Ask(r) PROVE Story'
  BY <1>1, StoryAsk
<1>2. CASE GuiStarts \/ GuiEnds
  BY <1>2, StoryQuiet DEF GuiStarts, GuiEnds, requests, drains, history
<1>3. CASE ConsoleDies
  <2>1. /\ at' = [d \in Drainer |-> IF d \in Console THEN "idle" ELSE at[d]]
        /\ op' = [d \in Drainer |-> IF d \in Console THEN 0 ELSE op[d]]
        /\ out' = [d \in Drainer |-> IF d \in Console THEN "none" ELSE out[d]]
        /\ UNCHANGED <<status, nature, ran, runs>>
    BY <1>3 DEF ConsoleDies, requests, history
  <2>2. \A d \in Drainer : at'[d] \in Owing => at'[d] = at[d] /\ op'[d] = op[d] /\ out'[d] = out[d]
    BY <2>1, OwingIs
  <2> QED
    BY <2>1, <2>2, StoryQuiet
<1>4. ASSUME NEW d \in Drainer, CommandDies(d) \/ Leave(d) PROVE Story'
  <2>1. Ends(d) /\ UNCHANGED <<status, nature, ran, runs>>
    BY <1>4 DEF CommandDies, Leave, requests, history
  <2>2. \A e \in Drainer : at'[e] \in Owing => at'[e] = at[e] /\ op'[e] = op[e] /\ out'[e] = out[e]
    BY <2>1, OwingIs DEF Ends, Moves, Typed, TypeOK
  <2> QED
    BY <2>1, <2>2, StoryQuiet
<1>5. ASSUME NEW d \in Drainer, Tick(d) \/ Peek(d) \/ Acquire(d) \/ Invoke(d) PROVE Story'
  <2>1. /\ UNCHANGED <<status, nature, ran, runs>>
        /\ \E s \in {"peek", "acquire", "idle", "fetch"} : Goes(d, s)
    BY <1>5 DEF Tick, Peek, Acquire, Invoke, requests, history
  <2>2. \A e \in Drainer : at'[e] \in Owing => at'[e] = at[e] /\ op'[e] = op[e] /\ out'[e] = out[e]
    BY <2>1, <1>a, OwingIs DEF Goes, Moves
  <2> QED
    BY <2>1, <2>2, StoryQuiet
<1>6. ASSUME NEW d \in Drainer, Fetch(d) PROVE Story'
  BY <1>6, StoryFetch
<1>7. ASSUME NEW d \in Drainer, ReportPhase(d) PROVE Story'
  BY <1>7, StoryReport
<1>8. ASSUME NEW d \in Drainer, Prepare(d) PROVE Story'
  BY <1>8, StoryPrepare
<1>9. ASSUME NEW d \in Drainer, Update(d) PROVE Story'
  BY <1>9, StoryUpdate
<1>10. ASSUME NEW d \in Drainer, Answer(d) PROVE Story'
  BY <1>10, StoryAnswer
<1> QED
  BY <1>0, <1>1, <1>2, <1>3, <1>4, <1>5, <1>6, <1>7, <1>8, <1>9, <1>10 DEF Next, Work

\* With one drainer in service, stages, statuses and what has happened to the
\* instance go together: the inductive invariant behind what follows.
THEOREM StoryHolds == Sole => (Spec => []IInv)
<1> SUFFICES ASSUME Sole PROVE Spec => []IInv
  OBVIOUS
<1>1. Init => IInv
  BY TypedInit, HeldInit, StoryInit DEF IInv
<1>2. IInv /\ [Next]_vars => IInv'
  BY TypedNext, HeldNext, StoryNext DEF IInv
<1> QED
  BY <1>1, <1>2, PTL DEF Spec

\* Whatever write-backs are lost and however often drains are repeated, no
\* request is carried out twice.
THEOREM Once == Sole => (Spec => []AtMostOnce)
<1> SUFFICES ASSUME Sole PROVE Spec => []AtMostOnce
  OBVIOUS
<1>1. IInv => AtMostOnce
  BY DEF IInv, Story, Record, AtMostOnce
<1> QED
  BY <1>1, StoryHolds, PTL

\* The CMS is never told more than what has happened to the instance.
THEOREM Truth == Sole => (Spec => []NoFalseSuccess)
<1> SUFFICES ASSUME Sole PROVE Spec => []NoFalseSuccess
  OBVIOUS
<1>1. IInv => NoFalseSuccess
  BY DEF IInv, Story, Record, NoFalseSuccess
<1> QED
  BY <1>1, StoryHolds, PTL

\* Statuses change only by a write-back of the drain that works on the request,
\* or by asking for it.
LEMMA StatusSteps ==
    ASSUME Typed, [Next]_vars
    PROVE  \/ status' = status
           \/ \E r \in Request : Ask(r)
           \/ \E d \in Drainer :
                /\ ReportPhase(d) \/ Answer(d)
                /\ at[d] \in Owing /\ op[d] \in Request
                /\ \A q \in Request : q # op[d] => status'[q] = status[q]
<1>1. CASE UNCHANGED vars
  BY <1>1 DEF vars, requests
<1>2. CASE GuiStarts \/ GuiEnds \/ ConsoleDies
  BY <1>2 DEF GuiStarts, GuiEnds, ConsoleDies, requests
<1>3. ASSUME NEW d \in Drainer,
             \/ CommandDies(d) \/ Tick(d) \/ Peek(d) \/ Acquire(d) \/ Invoke(d) \/ Fetch(d)
             \/ Prepare(d) \/ Update(d) \/ Leave(d)
      PROVE  status' = status
  BY <1>3 DEF CommandDies, Tick, Peek, Acquire, Invoke, Fetch, Prepare, Update, Leave, requests
<1>4. ASSUME NEW d \in Drainer, ReportPhase(d) \/ Answer(d)
      PROVE  /\ at[d] \in Owing /\ op[d] \in Request
             /\ \A q \in Request : q # op[d] => status'[q] = status[q]
  <2>1. CASE ReportPhase(d)
    BY <2>1, ReportPhaseStages, Writing DEF Typed, TypeOK
  <2>2. CASE Answer(d)
    <3>1. /\ at[d] \in Owing
          /\ Arrives(d, Verdict(d)) \/ Miscarries(d, Verdict(d))
      BY <2>2, OwingIs DEF Answer
    <3> QED
      BY <3>1, VerdictIs, Writing DEF Typed, TypeOK
  <2> QED
    BY <1>4, <2>1, <2>2
<1> QED
  BY <1>1, <1>2, <1>3, <1>4 DEF Next, Work

\* No step replaces an answer.
THEOREM Finality == Sole => (Spec => AnswerIsFinal)
<1> SUFFICES ASSUME Sole PROVE Spec => AnswerIsFinal
  OBVIOUS
<1>1. IInv /\ [Next]_vars => [\A r \in Request : status[r] \in Terminal => status'[r] = status[r]]_vars
  <2> SUFFICES ASSUME IInv, [Next]_vars, NEW r \in Request, status[r] \in Terminal
               PROVE  status'[r] = status[r]
    OBVIOUS
  <2>1. ASSUME NEW q \in Request, Ask(q) PROVE status'[r] = status[r]
    BY <2>1 DEF Ask, IInv, Typed, TypeOK, Terminal
  <2>2. ASSUME NEW d \in Drainer, at[d] \in Owing PROVE op[d] # r
    <3>1. status[op[d]] = "requested" \/ status[op[d]] \in Underway
      BY <2>2 DEF IInv, Story, Tale
    <3> QED
      BY <3>1 DEF Underway, Terminal
  <2> QED
    BY <2>1, <2>2, StatusSteps DEF IInv
<1> QED
  BY <1>1, StoryHolds, PTL DEF Spec, AnswerIsFinal

-----------------------------------------------------------------------------
(* No request is left behind                                                *)

LEMMA Sums ==
    ASSUME NEW a \in Nat, NEW b \in Nat, NEW c \in Nat, NEW e \in Nat,
           c >= a, e >= b, a + b > 0
    PROVE  c + e > 0
OBVIOUS

\* A step that writes nothing back and keeps every drain at its request.
LEMMA NobodyLeaves ==
    ASSUME Typed, NothingAbandoned, status' = status,
           lost' >= lost, deaths' >= deaths, lost' \in Nat, deaths' \in Nat,
           \A e \in Drainer : at[e] \in Owing => at'[e] \in Owing /\ op'[e] = op[e]
    PROVE  NothingAbandoned'
<1>1. lost \in Nat /\ deaths \in Nat
  BY DEF Typed, TypeOK
<1> SUFFICES ASSUME NEW r \in Request, status[r] \in Underway
             PROVE  \/ \E e \in Drainer : at'[e] \in Owing /\ op'[e] = r
                    \/ lost' + deaths' > 0
  BY Zenon DEF NothingAbandoned
<1>2. CASE \E e \in Drainer : at[e] \in Owing /\ op[e] = r
  BY <1>2
<1>3. CASE lost + deaths > 0
  <2>1. lost' + deaths' > 0
    BY <1>1, <1>3, Sums
  <2> QED
    BY <2>1
<1> QED
  BY <1>2, <1>3 DEF NothingAbandoned

LEMMA AbandonedNext == Typed /\ NothingAbandoned /\ [Next]_vars => NothingAbandoned'
<1> SUFFICES ASSUME Typed, NothingAbandoned, [Next]_vars PROVE NothingAbandoned'
  OBVIOUS
<1>a. at \in [Drainer -> Stages] /\ lost \in Nat /\ deaths \in Nat
  BY DEF Typed, TypeOK
<1>0. CASE UNCHANGED vars
  BY <1>0, <1>a, NobodyLeaves DEF vars, requests, drains
<1>1. ASSUME NEW r \in Request, Ask(r) PROVE NothingAbandoned'
  <2>1. /\ status' = [status EXCEPT ![r] = "requested"]
        /\ UNCHANGED <<at, op, lost, deaths>>
    BY <1>1 DEF Ask, drains
  <2>2. \A q \in Request : status'[q] \in Underway => status[q] \in Underway
    BY <2>1 DEF Typed, TypeOK, Underway
  <2> QED
    BY <2>1, <2>2 DEF NothingAbandoned
<1>2. CASE GuiStarts \/ GuiEnds
  BY <1>2, <1>a, NobodyLeaves DEF GuiStarts, GuiEnds, requests, drains
<1>3. ASSUME ConsoleDies \/ \E d \in Drainer : CommandDies(d) PROVE NothingAbandoned'
  <2>1. deaths' = deaths + 1 /\ lost' = lost
    BY <1>3 DEF ConsoleDies, CommandDies
  <2>2. lost' + deaths' > 0
    BY <2>1, <1>a
  <2> QED
    BY <2>2 DEF NothingAbandoned
<1>4. ASSUME NEW d \in Drainer,
             Tick(d) \/ Peek(d) \/ Acquire(d) \/ Invoke(d) \/ Fetch(d) \/ Leave(d)
      PROVE  NothingAbandoned'
  <2>1. at[d] \notin Owing /\ status' = status /\ deaths' = deaths
    BY <1>4, OwingIs DEF Tick, Peek, Acquire, Invoke, Fetch, Leave, requests
  <2>2. lost' = lost \/ lost' = lost + 1
    BY <1>4 DEF Tick, Peek, Acquire, Invoke, Fetch, Leave, Loses
  <2>3. \A e \in Drainer : e # d => at'[e] = at[e] /\ op'[e] = op[e]
    BY <1>4 DEF Tick, Peek, Acquire, Invoke, Fetch, Leave, Ends, Takes, Goes, Moves, Typed, TypeOK
  <2> QED
    BY <2>1, <2>2, <2>3, <1>a, NobodyLeaves
<1>5. ASSUME NEW d \in Drainer, Prepare(d) \/ Update(d) PROVE NothingAbandoned'
  <2>1. status' = status /\ op' = op /\ lost' = lost /\ deaths' = deaths
    BY <1>5 DEF Prepare, Update, Goes, requests
  <2>2. at'[d] \in Owing /\ \A e \in Drainer : e # d => at'[e] = at[e]
    <3>1. CASE Prepare(d)
      BY <3>1, OwingIs DEF Prepare, Goes, Moves, Typed, TypeOK
    <3>2. CASE Update(d)
      BY <3>2, FollowingIs, OwingIs DEF Update, Moves, Typed, TypeOK
    <3> QED
      BY <1>5, <3>1, <3>2
  <2> QED
    BY <2>1, <2>2, <1>a, NobodyLeaves
<1>6. ASSUME NEW d \in Drainer, ReportPhase(d) PROVE NothingAbandoned'
  <2>1. /\ at[d] \in Owing /\ deaths' = deaths /\ lost' >= lost /\ lost' \in Nat
        /\ \A q \in Request : q # op[d] => status'[q] = status[q]
    BY <1>6, ReportPhaseStages, Writing
  <2>2. PICK s \in {"preflight", "update", "backup", "health", "answer", "fail", "leave"} :
            Goes(d, s) /\ (s = "leave" => Miscarries(d, Posts[at[d]]))
    BY <1>6, ReportPhaseStages
  <2>3. s = "leave" => lost' + deaths' > 0
    BY <2>1, <2>2, <1>a DEF Miscarries, Loses
  <2>4. s # "leave" => s \in Owing
    BY OwingIs
  <2>5. at'[d] = s /\ op' = op /\ \A e \in Drainer : e # d => at'[e] = at[e]
    BY <2>2 DEF Goes, Moves, Typed, TypeOK
  <2>6. CASE s = "leave"
    BY <2>3, <2>6 DEF NothingAbandoned
  <2>7. CASE s # "leave"
    <3> SUFFICES ASSUME NEW r \in Request, status'[r] \in Underway
                 PROVE  \/ \E e \in Drainer : at'[e] \in Owing /\ op'[e] = r
                        \/ lost' + deaths' > 0
      BY Zenon DEF NothingAbandoned
    <3>1. CASE r = op[d]
      BY <2>4, <2>5, <2>7, <3>1
    <3>2. CASE r # op[d]
      <4>1. (\E e \in Drainer : at[e] \in Owing /\ op[e] = r) \/ lost + deaths > 0
        BY <2>1, <3>2 DEF NothingAbandoned
      <4>2. CASE \E e \in Drainer : at[e] \in Owing /\ op[e] = r
        BY <2>5, <3>2, <4>2
      <4>3. CASE lost + deaths > 0
        <5>0. lost' \in Nat /\ deaths' \in Nat /\ lost' >= lost /\ deaths' >= deaths
          BY <2>1, <1>a
        <5>1. lost' + deaths' > 0
          BY <4>3, <5>0, <1>a, Sums
        <5> QED
          BY <5>1
      <4> QED
        BY <4>1, <4>2, <4>3
    <3> QED
      BY <3>1, <3>2
  <2> QED
    BY <2>6, <2>7
<1>7. ASSUME NEW d \in Drainer, Answer(d) PROVE NothingAbandoned'
  <2>1. at[d] \in Owing /\ deaths' = deaths /\ op[d] \in Request
    BY <1>7, OwingIs DEF Answer, Typed, TypeOK
  <2>2. CASE Miscarries(d, Verdict(d))
    <3>1. lost' + deaths' > 0
      BY <2>1, <2>2, <1>a DEF Miscarries, Loses
    <3> QED
      BY <3>1 DEF NothingAbandoned
  <2>3. CASE Arrives(d, Verdict(d)) /\ Finishes(d)
    <3>1. /\ \A q \in Request : q # op[d] => status'[q] = status[q]
          /\ status'[op[d]] = Verdict(d) /\ lost' = lost
      BY <2>1, <2>3 DEF Arrives, Typed, TypeOK
    <3>2. Verdict(d) \notin Underway
      BY VerdictIs DEF Underway, Terminal
    <3>3. \A e \in Drainer : e # d => at'[e] = at[e] /\ op'[e] = op[e]
      BY <2>3 DEF Finishes, Moves, Typed, TypeOK
    <3> QED
      BY <2>1, <3>1, <3>2, <3>3 DEF NothingAbandoned
  <2> QED
    BY <1>7, <2>2, <2>3 DEF Answer
<1> QED
  BY <1>0, <1>1, <1>2, <1>3, <1>4, <1>5, <1>6, <1>7 DEF Next, Work

\* A request that was taken up has a drain working on it, unless a write-back
\* was lost or a process died; for any drainers, alone or together.
THEOREM NoneAbandoned == Spec => []NothingAbandoned
<1>1. Init => NothingAbandoned
  BY DEF Init, NothingAbandoned, Underway
<1> QED
  BY <1>1, AbandonedNext, TypedInit, TypedNext, PTL DEF Spec

-----------------------------------------------------------------------------
(* The drains implement RequestAnswers                                      *)

Granted == {r \in Request : status[r] # "none" /\ nature[r] \in {"core", "light"}}
Told == [r \in Request |-> IF status[r] \in Terminal THEN status[r] ELSE "open"]

LEMMA PromiseInit == Init => Answers!Init
BY DEF Init, Answers!Init, Terminal

\* A step after which the CMS sees what it saw before.
LEMMA Unseen ==
    ASSUME Typed, UNCHANGED <<nature, ran>>,
           \A r \in Request :
               /\ status'[r] = "none" <=> status[r] = "none"
               /\ status'[r] = status[r] \/ (status[r] \notin Terminal /\ status'[r] \notin Terminal)
    PROVE  UNCHANGED Answers!avars
<1>1. Granted' = Granted
  BY DEF Granted
<1>2. Told' = Told
  BY DEF Told
<1> QED
  BY <1>1, <1>2 DEF Answers!avars, Granted, Told

LEMMA PromiseAsk ==
    ASSUME Typed, Story, NEW r \in Request, Ask(r)
    PROVE  [Answers!Next]_(Answers!avars)
<1>1. PICK n \in Nature : nature' = [nature EXCEPT ![r] = n]
  BY DEF Ask
<1>2. status[r] = "none" /\ status' = [status EXCEPT ![r] = "requested"] /\ UNCHANGED ran
  BY DEF Ask, history
<1>3. ran[r] = "no"
  BY <1>2 DEF Story, Record
<1>4. /\ \A q \in Request : q # r => nature'[q] = nature[q] /\ status'[q] = status[q]
      /\ nature'[r] = n /\ status'[r] = "requested"
  BY <1>1, <1>2 DEF Typed, TypeOK
<1>5. Told' = Told /\ Told[r] = "open"
  BY <1>2, <1>4 DEF Told, Terminal
<1>6. CASE n \in {"core", "light"}
  <2>1. Granted' = Granted \cup {r}
    BY <1>2, <1>4, <1>6 DEF Granted
  <2>2. Answers!Approve(r)
    BY <1>2, <1>3, <1>5, <2>1 DEF Answers!Approve, Granted, Told
  <2> QED
    BY <2>2 DEF Answers!Next
<1>7. CASE n \notin {"core", "light"}
  <2>1. Granted' = Granted
    BY <1>2, <1>4, <1>7 DEF Granted
  <2> QED
    BY <1>2, <1>5, <2>1 DEF Answers!avars, Granted, Told
<1> QED
  BY <1>6, <1>7

LEMMA PromisePrepare ==
    ASSUME Typed, Story, NEW d \in Drainer, Prepare(d)
    PROVE  [Answers!Next]_(Answers!avars)
<1>1. at[d] = "update" /\ op[d] \in Request /\ UNCHANGED <<status, nature>>
  BY OwingIs DEF Prepare, requests, Typed, TypeOK
<1>2. CASE UNCHANGED history
  BY <1>1, <1>2, Unseen DEF history
<1>3. CASE ran' = [ran EXCEPT ![op[d]] = "begun"]
  <2>1. status[op[d]] \in Underway /\ nature[op[d]] \in {"core", "light"} /\ ran[op[d]] = "no"
    BY <1>1, OwingIs DEF Story, Tale
  <2>2. op[d] \in Granted /\ Granted' = Granted
    BY <1>1, <2>1 DEF Granted, Underway
  <2>3. Told[op[d]] = "open" /\ Told' = Told
    BY <1>1, <2>1 DEF Told, Underway, Terminal
  <2>4. Answers!Carry(op[d])
    BY <1>3, <2>1, <2>2, <2>3 DEF Answers!Carry, Granted, Told
  <2> QED
    BY <1>1, <2>4 DEF Answers!Next
<1> QED
  BY <1>2, <1>3 DEF Prepare

LEMMA PromiseUpdate ==
    ASSUME Typed, Story, NEW d \in Drainer, Update(d)
    PROVE  [Answers!Next]_(Answers!avars)
<1>1. at[d] = "updating" /\ op[d] \in Request /\ UNCHANGED <<status, nature>>
  BY OwingIs DEF Update, requests, Typed, TypeOK
<1>2. ran[op[d]] = "begun"
  BY <1>1, OwingIs DEF Story, Tale
<1>3. \E o \in Outcome : ran' = [ran EXCEPT ![op[d]] = o]
  BY DEF Update
<1>4. Granted' = Granted /\ Told' = Told
  BY <1>1 DEF Granted, Told
<1>5. Answers!Complete(op[d])
  BY <1>2, <1>3, <1>4 DEF Answers!Complete, Answers!Outcome, Outcome, Granted, Told
<1> QED
  BY <1>1, <1>5 DEF Answers!Next

LEMMA PromiseAnswer ==
    ASSUME Typed, Story, NEW d \in Drainer, Answer(d)
    PROVE  [Answers!Next]_(Answers!avars)
<1>1. /\ at[d] \in {"reject", "fail", "answer"} /\ at[d] \in Owing /\ op[d] \in Request
      /\ UNCHANGED <<nature, ran>>
  BY OwingIs DEF Answer, history, Typed, TypeOK
<1>2. /\ Verdict(d) \in Terminal
      /\ \A r \in Request : r # op[d] => status'[r] = status[r]
      /\ status'[op[d]] = Verdict(d) \/ status' = status
  BY <1>1, VerdictIs, Writing DEF Answer
<1>3. CASE status' = status
  BY <1>1, <1>3, Unseen
<1>4. CASE status'[op[d]] = Verdict(d)
  <2>0. PICK r \in Request : r = op[d]
    BY <1>1
  <2>1. status[op[d]] = "requested" \/ status[op[d]] \in Underway
    BY <1>1 DEF Story, Tale
  <2>2. Told[r] = "open"
    BY <1>1, <2>0, <2>1 DEF Told, Underway, Terminal
  <2>3. Told' = [Told EXCEPT ![r] = Verdict(d)]
    BY <1>1, <2>0, <1>2, <1>4 DEF Told
  <2>4. Granted' = Granted
    BY <1>1, <1>2, <1>4, <2>1 DEF Granted, Underway, Terminal
  <2>5. Answers!Truthful(Verdict(d), ran[r])
    <3>1. /\ Verdict(d) = "succeeded"        => ran[op[d]] = "ok"
          /\ Verdict(d) = "rolled_back"      => ran[op[d]] = "rolledBack"
          /\ Verdict(d) = "rollback_failed"  => ran[op[d]] = "rollbackFailed"
          /\ Verdict(d) = "preflight_failed" => ran[op[d]] = "no"
          /\ ran[op[d]] # "begun"
      BY <1>1, VerdictTrue
    <3>2. \/ Verdict(d) = "succeeded" \/ Verdict(d) = "rolled_back" \/ Verdict(d) = "rollback_failed"
          \/ Verdict(d) = "preflight_failed" \/ Verdict(d) = "failed"
      BY <1>2 DEF Terminal
    <3> QED
      BY <2>0, <3>1, <3>2 DEF Answers!Truthful
  <2>6. Answers!Reply(r)
    <3>1. \E a \in {"succeeded", "rolled_back", "rollback_failed", "preflight_failed", "failed"} :
            Answers!Truthful(a, ran[r]) /\ Told' = [Told EXCEPT ![r] = a]
      <4>1. Verdict(d) \in {"succeeded", "rolled_back", "rollback_failed", "preflight_failed", "failed"}
        BY <1>2 DEF Terminal
      <4> QED
        BY <2>3, <2>5, <4>1, Zenon
    <3> QED
      BY <1>1, <2>2, <2>4, <3>1 DEF Answers!Reply, Granted, Told
  <2> QED
    BY <2>6 DEF Answers!Next
<1>5. status' = status \/ status'[op[d]] = Verdict(d)
  BY <1>2
<1> QED
  BY <1>3, <1>4, <1>5

\* With one drainer in service, what the CMS sees is what RequestAnswers
\* promises: approved requests are carried out at most once, others never, and
\* one truthful answer is given.
THEOREM Refinement == Sole => (Spec => KeepsPromise)
<1> SUFFICES ASSUME Sole PROVE Spec => KeepsPromise
  OBVIOUS
<1>1. IInv /\ [Next]_vars => [Answers!Next]_(Answers!avars)
  <2> SUFFICES ASSUME Typed, Held, Story, [Next]_vars PROVE [Answers!Next]_(Answers!avars)
    BY DEF IInv
  <2>1. CASE UNCHANGED vars
    BY <2>1, Unseen DEF vars, requests, history
  <2>2. ASSUME NEW r \in Request, Ask(r) PROVE [Answers!Next]_(Answers!avars)
    BY <2>2, PromiseAsk
  <2>3. CASE GuiStarts \/ GuiEnds \/ ConsoleDies
    BY <2>3, Unseen DEF GuiStarts, GuiEnds, ConsoleDies, requests, history
  <2>4. ASSUME NEW d \in Drainer,
               \/ CommandDies(d) \/ Tick(d) \/ Peek(d) \/ Acquire(d) \/ Invoke(d) \/ Fetch(d)
               \/ Leave(d)
        PROVE  [Answers!Next]_(Answers!avars)
    BY <2>4, Unseen DEF CommandDies, Tick, Peek, Acquire, Invoke, Fetch, Leave, requests, history
  <2>5. ASSUME NEW d \in Drainer, ReportPhase(d) PROVE [Answers!Next]_(Answers!avars)
    <3>1. /\ at[d] \in Owing /\ op[d] \in Request /\ UNCHANGED <<nature, ran>>
          /\ Posts[at[d]] \in Underway
          /\ Arrives(d, Posts[at[d]]) \/ Miscarries(d, Posts[at[d]])
      BY <2>5, ReportPhaseStages DEF history, Typed, TypeOK
    <3>2. /\ \A r \in Request : r # op[d] => status'[r] = status[r]
          /\ status'[op[d]] \in Underway \/ status' = status
      BY <3>1, Writing
    <3>3. status[op[d]] = "requested" \/ status[op[d]] \in Underway
      BY <3>1 DEF Story, Tale
    <3>4. \A r \in Request :
               /\ status'[r] = "none" <=> status[r] = "none"
               /\ status'[r] = status[r] \/ (status[r] \notin Terminal /\ status'[r] \notin Terminal)
      BY <3>2, <3>3 DEF Underway, Terminal
    <3> QED
      BY <3>1, <3>4, Unseen
  <2>6. ASSUME NEW d \in Drainer, Prepare(d) PROVE [Answers!Next]_(Answers!avars)
    BY <2>6, PromisePrepare
  <2>7. ASSUME NEW d \in Drainer, Update(d) PROVE [Answers!Next]_(Answers!avars)
    BY <2>7, PromiseUpdate
  <2>8. ASSUME NEW d \in Drainer, Answer(d) PROVE [Answers!Next]_(Answers!avars)
    BY <2>8, PromiseAnswer
  <2> QED
    BY <2>1, <2>2, <2>3, <2>4, <2>5, <2>6, <2>7, <2>8 DEF Next, Work
<1> QED
  BY <1>1, PromiseInit, StoryHolds, PTL DEF Spec, KeepsPromise, Answers!Spec

=============================================================================
