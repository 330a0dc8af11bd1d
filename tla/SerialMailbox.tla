---------------------------- MODULE SerialMailbox ----------------------------
(***************************************************************************)
(* What work lanes promise their publishers: in each box accepted messages *)
(* are handed to the callback one at a time, in the order they were        *)
(* accepted, each exactly once, until the boxes are discarded; the         *)
(* messages still pending then are never handed over.                      *)
(***************************************************************************)
EXTENDS Sequences

CONSTANTS Box, Message, NoMessage

VARIABLES
    pending,    \* box -> accepted and not yet taken, oldest first
    running,    \* box -> the message in the callback, or NoMessage
    done,       \* box -> the messages whose callback has returned, in order
    closed      \* have the boxes been discarded?

Init ==
    /\ pending = [b \in Box |-> << >>]
    /\ running = [b \in Box |-> NoMessage]
    /\ done = [b \in Box |-> << >>]
    /\ closed = FALSE

Accept(b, m) ==
    /\ ~closed
    /\ pending' = [pending EXCEPT ![b] = Append(@, m)]
    /\ UNCHANGED <<running, done, closed>>

Begin(b) ==
    /\ ~closed
    /\ running[b] = NoMessage
    /\ pending[b] # << >>
    /\ running' = [running EXCEPT ![b] = Head(pending[b])]
    /\ pending' = [pending EXCEPT ![b] = Tail(@)]
    /\ UNCHANGED <<done, closed>>

End(b) ==
    /\ running[b] # NoMessage
    /\ done' = [done EXCEPT ![b] = Append(@, running[b])]
    /\ running' = [running EXCEPT ![b] = NoMessage]
    /\ UNCHANGED <<pending, closed>>

Discard ==
    /\ \A b \in Box : running[b] = NoMessage
    /\ pending' = [b \in Box |-> << >>]
    /\ closed' = TRUE
    /\ UNCHANGED <<running, done>>

Next == Discard \/ \E b \in Box : Begin(b) \/ End(b) \/ \E m \in Message : Accept(b, m)

Spec == Init /\ [][Next]_<<pending, running, done, closed>>
=============================================================================
