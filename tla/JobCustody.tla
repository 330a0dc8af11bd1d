----------------------------- MODULE JobCustody -----------------------------
(***************************************************************************)
(* What the service host promises about a job: the host holds it until the *)
(* executor admits it; whoever holds it releases it, once; it is executed  *)
(* at most once, and only after it was admitted.                           *)
(***************************************************************************)
CONSTANT Job

VARIABLE custody    \* job -> "none", "host", "admitted" or "executed"

Init == custody = [j \in Job |-> "none"]

Move(j, from, to) == custody[j] \in from /\ custody' = [custody EXCEPT ![j] = to]

Make(j)    == Move(j, {"none"}, "host")
Admit(j)   == Move(j, {"host"}, "admitted")
Execute(j) == Move(j, {"admitted"}, "executed")
Release(j) == Move(j, {"host", "admitted", "executed"}, "none")

Next == \E j \in Job : Make(j) \/ Admit(j) \/ Execute(j) \/ Release(j)

Spec == Init /\ [][Next]_custody
=============================================================================
