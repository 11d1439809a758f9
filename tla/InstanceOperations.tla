------------------------- MODULE InstanceOperations -------------------------
(***************************************************************************)
(* What the operation framework promises its callers, without lockfiles,   *)
(* journal writes or crashes in between: operations on one instance take   *)
(* turns, an operation works at most once, and an outcome is reported only *)
(* for an operation that is not working (any more).                        *)
(***************************************************************************)
CONSTANTS Op, Instance, NoInstance, Target

VARIABLES
    begun,     \* operations that were admitted, at any time
    working,   \* operations whose body is running
    outcome    \* what the journal reports

avars == <<begun, working, outcome>>

Init ==
    /\ begun = {}
    /\ working = {}
    /\ outcome = [op \in Op |-> "open"]

\* An admitted operation has its instance to itself.
Begin(op) ==
    /\ op \notin begun
    /\ outcome[op] = "open"
    /\ Target[op] # NoInstance => \A w \in working : Target[w] # Target[op]
    /\ begun' = begun \cup {op}
    /\ working' = working \cup {op}
    /\ UNCHANGED outcome

End(op) ==
    /\ op \in working
    /\ working' = working \ {op}
    /\ UNCHANGED <<begun, outcome>>

\* Success is reported once, of an operation that has worked to its end.
Succeed(op) ==
    /\ op \in begun \ working
    /\ outcome[op] = "open"
    /\ outcome' = [outcome EXCEPT ![op] = "succeeded"]
    /\ UNCHANGED <<begun, working>>

\* Failure may be reported of a refused, a finished or an interrupted
\* operation, and may still replace a success.
Fail(op) ==
    /\ op \notin working
    /\ outcome' = [outcome EXCEPT ![op] = "failed"]
    /\ UNCHANGED <<begun, working>>

\* The manager dies: all work stops.
Die ==
    /\ working' = {}
    /\ UNCHANGED <<begun, outcome>>

Next == Die \/ \E op \in Op : Begin(op) \/ End(op) \/ Succeed(op) \/ Fail(op)

Spec == Init /\ [][Next]_avars

=============================================================================
