------------------------------ MODULE TaskPool ------------------------------
(***************************************************************************)
(* What a worker pool promises its owner.  A task accepted while the pool  *)
(* is open is run once; a pool that drains runs what it has accepted; a    *)
(* pool that discards may drop tasks not yet started, and drops each of    *)
(* them; and once the pool is closed nothing is queued or running.  A task *)
(* that is out may be given to an open pool again.                         *)
(***************************************************************************)
CONSTANT Task

VARIABLES
    fate,       \* task -> "out", "queued" or "running"
    phase       \* "open", "draining", "discarding" or "closed"

Init ==
    /\ fate = [i \in Task |-> "out"]
    /\ phase = "open"

Move(i, from, to) == fate[i] = from /\ fate' = [fate EXCEPT ![i] = to]

Accept(i)   == phase = "open" /\ Move(i, "out", "queued") /\ UNCHANGED phase
Run(i)      == phase \in {"open", "draining"} /\ Move(i, "queued", "running")
               /\ UNCHANGED phase
Complete(i) == Move(i, "running", "out") /\ UNCHANGED phase
Drop(i)     == phase = "discarding" /\ Move(i, "queued", "out") /\ UNCHANGED phase

Close == phase = "open" /\ phase' \in {"draining", "discarding"} /\ UNCHANGED fate

Shut ==
    /\ phase \in {"draining", "discarding"}
    /\ \A i \in Task : fate[i] = "out"
    /\ phase' = "closed"
    /\ UNCHANGED fate

Next == Close \/ Shut \/ \E i \in Task : Accept(i) \/ Run(i) \/ Complete(i) \/ Drop(i)

Spec == Init /\ [][Next]_<<fate, phase>>
=============================================================================
