--------------------------- MODULE RequestAnswers ---------------------------
(***************************************************************************)
(* What the CMS may expect of the manager, without drains, write-backs or  *)
(* locks: an approved request is carried out at most once, one that is not *)
(* approved never, and an answer is given once and claims no more than     *)
(* what has happened.                                                      *)
(***************************************************************************)
CONSTANT Request

VARIABLES
    approved,   \* requests that may be carried out
    ran,        \* what became of the update a request asks for
    answer      \* what the CMS was told

avars == <<approved, ran, answer>>

Outcome == {"ok", "rolledBack", "rollbackFailed", "aborted"}

Init ==
    /\ approved = {}
    /\ ran = [r \in Request |-> "no"]
    /\ answer = [r \in Request |-> "open"]

Approve(r) ==
    /\ ran[r] = "no" /\ answer[r] = "open"
    /\ approved' = approved \cup {r}
    /\ UNCHANGED <<ran, answer>>

Carry(r) ==
    /\ r \in approved
    /\ ran[r] = "no" /\ answer[r] = "open"
    /\ ran' = [ran EXCEPT ![r] = "begun"]
    /\ UNCHANGED <<approved, answer>>

Complete(r) ==
    /\ ran[r] = "begun"
    /\ \E o \in Outcome : ran' = [ran EXCEPT ![r] = o]
    /\ UNCHANGED <<approved, answer>>

\* Failure may be reported of anything that is not under way.
Truthful(a, what) ==
    CASE a = "succeeded"        -> what = "ok"
      [] a = "rolled_back"      -> what = "rolledBack"
      [] a = "rollback_failed"  -> what = "rollbackFailed"
      [] a = "preflight_failed" -> what = "no"
      [] a = "failed"           -> what # "begun"

Reply(r) ==
    /\ answer[r] = "open"
    /\ \E a \in {"succeeded", "rolled_back", "rollback_failed", "preflight_failed", "failed"} :
        /\ Truthful(a, ran[r])
        /\ answer' = [answer EXCEPT ![r] = a]
    /\ UNCHANGED <<approved, ran>>

Next == \E r \in Request : Approve(r) \/ Carry(r) \/ Complete(r) \/ Reply(r)

Spec == Init /\ [][Next]_avars

=============================================================================
