--------------------------- MODULE SerialWorkLane ---------------------------
(***************************************************************************)
(* TkSerialWorkLane: a bounded queue of messages of which at most one      *)
(* worker at a time runs the callback.  TryPublish holds the lane mutex    *)
(* throughout; Drain holds it only to enter and to leave, and pops and     *)
(* calls back without it.  Whoever is answered shouldSchedule = TRUE owes  *)
(* the lane one call of Drain.                                             *)
(*                                                                         *)
(* The lane's ring is seen at the level BoundedMpmcQueue establishes for   *)
(* one producer (the mutex) and one consumer (the state Draining): the     *)
(* producer wins a slot, then publishes it; the consumer takes the oldest  *)
(* published item, then releases its slot.                                 *)
(*                                                                         *)
(* An operator commented "variant" is a wrong form of the definition after *)
(* it, kept to see that a property notices it.                             *)
(***************************************************************************)
EXTENDS Naturals, Sequences

CONSTANTS Publisher,    \* threads that call TryPublish
          Drainer,      \* threads that call Drain
          Message, NoMessage, NoThread,
          Capacity,     \* slots of the lane's ring
          MaxMessages   \* maxMessages of every Drain call

Caller == Publisher \union Drainer      \* a callback may publish, too

ASSUME LaneAssumption ==
    /\ Capacity \in Nat /\ Capacity >= 2
    /\ MaxMessages \in Nat \ {0}
    /\ NoThread \notin Caller
    /\ NoMessage \notin Message
    /\ Publisher \cap Drainer = {}

VARIABLES
    state,      \* "Idle", "Scheduled" or "Draining"
    mutex,      \* the thread inside TryPublish's critical section
    queue,      \* published messages still in the ring, oldest first
    publishPc,  \* caller -> where it is in TryPublish
    message,    \* caller -> the message it is publishing
    drainPc,    \* drainer -> where it is in Drain
    current,    \* drainer -> the message it has taken
    drained,    \* drainer -> messages handled by this call of Drain
    owed,       \* history: shouldSchedule answers no Drain has used yet
    accepted,   \* history: messages published, in order
    invoked,    \* history: messages whose callback has returned, in order
    alive       \* FALSE once the lane is destroyed

vars == <<state, mutex, queue, publishPc, message, drainPc, current, drained,
          owed, accepted, invoked, alive>>

publishVars == <<publishPc, message>>
drainVars   == <<drainPc, current, drained>>
-----------------------------------------------------------------------------
HasReadyItem == queue # << >>

IsQuiescent == state = "Idle" /\ ~HasReadyItem

\* A slot is held until its object is moved out and its sequence stored.
HeldSlots == Len(queue) + (IF \E d \in Drainer : drainPc[d] = "popping" THEN 1 ELSE 0)

Full == HeldSlots >= Capacity

ShouldScheduleDraining(s) == s # "Scheduled"         \* variant: while draining

ShouldSchedule(s) == s = "Idle"

RemainsNever == FALSE                                \* variant: no second look

\* Leaving, Drain looks again: ready work means the lane is scheduled again.
Remains == HasReadyItem

CanStartAny(s) == s # "Idle"                         \* variant: two drains

CanStart(s) == s = "Scheduled"

BatchLeftOneMore(d) == drained[d] <= MaxMessages     \* variant: off by one

BatchLeft(d) == drained[d] < MaxMessages

Init ==
    /\ state = "Idle"
    /\ mutex = NoThread
    /\ queue = << >>
    /\ publishPc = [c \in Caller |-> "idle"]
    /\ message = [c \in Caller |-> NoMessage]
    /\ drainPc = [d \in Drainer |-> "idle"]
    /\ current = [d \in Drainer |-> NoMessage]
    /\ drained = [d \in Drainer |-> 0]
    /\ owed = 0
    /\ accepted = << >>
    /\ invoked = << >>
    /\ alive = TRUE
-----------------------------------------------------------------------------
(***************************************************************************)
(* TryPublish                                                              *)
(***************************************************************************)
\* A message is published once; one refused may be tried again.
Unpublished(m) ==
    /\ \A i \in DOMAIN accepted : accepted[i] # m
    /\ \A c \in Caller : message[c] # m

CanCall(c) == c \in Publisher \union {d \in Drainer : drainPc[d] = "calling"}

PublishLock(c, m) ==
    /\ alive
    /\ publishPc[c] = "idle" /\ CanCall(c)
    /\ Unpublished(m)
    /\ mutex = NoThread
    /\ mutex' = c
    /\ publishPc' = [publishPc EXCEPT ![c] = "claim"]
    /\ message' = [message EXCEPT ![c] = m]
    /\ UNCHANGED <<state, queue, drainVars, owed, accepted, invoked, alive>>

\* TryPush answers false: TK_ERROR_CAPACITY_EXCEEDED, the message stays with
\* the caller.
PublishRefused(c) ==
    /\ publishPc[c] = "claim"
    /\ Full
    /\ mutex' = NoThread
    /\ publishPc' = [publishPc EXCEPT ![c] = "idle"]
    /\ message' = [message EXCEPT ![c] = NoMessage]
    /\ UNCHANGED <<state, queue, drainVars, owed, accepted, invoked, alive>>

\* TryPush wins a slot; consumers do not see its item yet.
PublishClaim(c) ==
    /\ publishPc[c] = "claim"
    /\ ~Full
    /\ publishPc' = [publishPc EXCEPT ![c] = "store"]
    /\ UNCHANGED <<state, mutex, queue, message, drainVars, owed, accepted,
                   invoked, alive>>

\* TryPush stores the slot's sequence: the item is ready.
PublishStore(c) ==
    /\ publishPc[c] = "store"
    /\ queue' = Append(queue, message[c])
    /\ accepted' = Append(accepted, message[c])
    /\ publishPc' = [publishPc EXCEPT ![c] = "decide"]
    /\ UNCHANGED <<state, mutex, message, drainVars, owed, invoked, alive>>

\* Who schedules the lane, decided before the mutex is released.
PublishDecide(c) ==
    /\ publishPc[c] = "decide"
    /\ IF ShouldSchedule(state)
       THEN state' = "Scheduled" /\ owed' = owed + 1
       ELSE UNCHANGED <<state, owed>>
    /\ mutex' = NoThread
    /\ publishPc' = [publishPc EXCEPT ![c] = "idle"]
    /\ message' = [message EXCEPT ![c] = NoMessage]
    /\ UNCHANGED <<queue, drainVars, accepted, invoked, alive>>
-----------------------------------------------------------------------------
(***************************************************************************)
(* Drain                                                                   *)
(***************************************************************************)
\* In any state but Scheduled the call is refused: TK_ERROR_INVALID_STATE.
DrainBegin(d) ==
    /\ alive
    /\ drainPc[d] = "idle"
    /\ mutex = NoThread
    /\ CanStart(state)
    /\ state' = "Draining"
    /\ owed' = owed - 1
    /\ drainPc' = [drainPc EXCEPT ![d] = "loop"]
    /\ drained' = [drained EXCEPT ![d] = 0]
    /\ UNCHANGED <<mutex, queue, publishVars, current, accepted, invoked, alive>>

\* TryPop wins the oldest published item and moves it out.
DrainTake(d) ==
    /\ drainPc[d] = "loop"
    /\ BatchLeft(d)
    /\ HasReadyItem
    /\ current' = [current EXCEPT ![d] = Head(queue)]
    /\ queue' = Tail(queue)
    /\ drainPc' = [drainPc EXCEPT ![d] = "popping"]
    /\ UNCHANGED <<state, mutex, publishVars, drained, owed, accepted, invoked, alive>>

\* TryPop releases the slot; the callback is entered.
DrainCall(d) ==
    /\ drainPc[d] = "popping"
    /\ drainPc' = [drainPc EXCEPT ![d] = "calling"]
    /\ UNCHANGED <<state, mutex, queue, publishVars, current, drained, owed,
                   accepted, invoked, alive>>

DrainReturn(d) ==
    /\ drainPc[d] = "calling"
    /\ publishPc[d] = "idle"
    /\ invoked' = Append(invoked, current[d])
    /\ current' = [current EXCEPT ![d] = NoMessage]
    /\ drained' = [drained EXCEPT ![d] = @ + 1]
    /\ drainPc' = [drainPc EXCEPT ![d] = "loop"]
    /\ UNCHANGED <<state, mutex, queue, publishVars, owed, accepted, alive>>

\* TryPop answers false, or maxMessages have been handled.
DrainStop(d) ==
    /\ drainPc[d] = "loop"
    /\ ~BatchLeft(d) \/ ~HasReadyItem
    /\ drainPc' = [drainPc EXCEPT ![d] = "leaving"]
    /\ UNCHANGED <<state, mutex, queue, publishVars, current, drained, owed,
                   accepted, invoked, alive>>

DrainEnd(d) ==
    /\ drainPc[d] = "leaving"
    /\ mutex = NoThread
    /\ state' = IF Remains THEN "Scheduled" ELSE "Idle"
    /\ owed' = IF Remains THEN owed + 1 ELSE owed
    /\ drainPc' = [drainPc EXCEPT ![d] = "idle"]
    /\ UNCHANGED <<mutex, queue, publishVars, current, drained, accepted,
                   invoked, alive>>
-----------------------------------------------------------------------------
\* The destructor, called when no thread is inside the lane; the ring destroys
\* the messages it still holds.
Destroy ==
    /\ alive
    /\ \A c \in Caller : publishPc[c] = "idle"
    /\ \A d \in Drainer : drainPc[d] = "idle"
    /\ queue' = << >>
    /\ alive' = FALSE
    /\ UNCHANGED <<state, mutex, publishVars, drainVars, owed, accepted, invoked>>

PublishStep(c) == PublishRefused(c) \/ PublishClaim(c) \/ PublishStore(c)
                  \/ PublishDecide(c)

DrainStep(d) == DrainTake(d) \/ DrainCall(d) \/ DrainReturn(d) \/ DrainStop(d)
                \/ DrainEnd(d)

Next ==
    \/ \E c \in Caller, m \in Message : PublishLock(c, m)
    \/ \E c \in Caller : PublishStep(c)
    \/ \E d \in Drainer : DrainBegin(d) \/ DrainStep(d)
    \/ Destroy

Spec == Init /\ [][Next]_vars

\* Threads inside the lane keep running, a thread that finds the mutex free
\* again and again gets it, and a Drain that is owed is called.
FairSpec ==
    /\ Spec
    /\ \A c \in Caller : WF_vars(PublishStep(c))
    /\ \A d \in Drainer : SF_vars(DrainStep(d))
    /\ SF_vars(\E d \in Drainer : DrainBegin(d))
-----------------------------------------------------------------------------
TypeOK ==
    /\ state \in {"Idle", "Scheduled", "Draining"}
    /\ mutex \in Caller \union {NoThread}
    /\ queue \in Seq(Message)
    /\ publishPc \in [Caller -> {"idle", "claim", "store", "decide"}]
    /\ message \in [Caller -> Message \union {NoMessage}]
    /\ drainPc \in [Drainer -> {"idle", "loop", "popping", "calling", "leaving"}]
    /\ current \in [Drainer -> Message \union {NoMessage}]
    /\ drained \in [Drainer -> 0..MaxMessages]
    /\ owed \in Nat
    /\ accepted \in Seq(Message)
    /\ invoked \in Seq(Message)
    /\ alive \in BOOLEAN

Draining(d) == drainPc[d] # "idle"

\* The lane's ring has a single consumer and its callback is never entered by
\* two threads at once, although Drain runs both outside the mutex.
OneDrainer == \A d, e \in Drainer : Draining(d) /\ Draining(e) => d = e

\* Exactly one Drain is owed while the lane is Scheduled, none otherwise: the
\* ready queue of the pool never holds a lane twice, and a lane with a Drain on
\* its way is never forgotten.
OneReservation == owed = (IF state = "Scheduled" THEN 1 ELSE 0)

\* No message is stranded: unless its publisher is still inside TryPublish, a
\* published message finds its lane Scheduled or Draining.
NoStrandedMessage ==
    alive /\ HasReadyItem /\ mutex = NoThread => state # "Idle"

\* When IsQuiescent can answer true, each message accepted so far has had its
\* callback run to the end; TkWorkerScheduler::Stop(Drain) relies on it.
QuiescentMeansDone ==
    alive /\ mutex = NoThread /\ IsQuiescent => invoked = accepted

\* Messages whose callback has been entered: those handled and the one in a callback.
Begun == Len(invoked) + (IF \E d \in Drainer : drainPc[d] = "calling" THEN 1 ELSE 0)

\* A publication that meets a full ring meets Capacity accepted messages whose callback
\* has not been entered: no slot is lost, and the message being handled keeps none.
RefusedOnlyWhenFull ==
    \A c \in Caller : publishPc[c] = "claim" /\ Full => Len(accepted) - Begun >= Capacity

\* One serial callback, one Drain under way or owed for every lane that needs one, and
\* answers of IsQuiescent and TryPublish that the lane's history bears out.
LaneSafe ==
    /\ TypeOK
    /\ OneDrainer /\ OneReservation /\ NoStrandedMessage
    /\ QuiescentMeansDone /\ RefusedOnlyWhenFull

\* The lane keeps its promise to the publisher (the mailbox): order, no loss,
\* no duplicate, one message at a time.
RunningMessage ==
    IF \E d \in Drainer : drainPc[d] \in {"popping", "calling"}
    THEN current[CHOOSE d \in Drainer : drainPc[d] \in {"popping", "calling"}]
    ELSE NoMessage

Mailbox == INSTANCE SerialMailbox WITH
               Box <- {0}, pending <- [b \in {0} |-> queue],
               running <- [b \in {0} |-> RunningMessage],
               done <- [b \in {0} |-> invoked], closed <- ~alive

ImplementsMailbox == Mailbox!Spec

\* Each accepted message is eventually handled, provided that the Drain calls
\* the lane asked for are made, or the lane is destroyed first.
EveryMessageHandled ==
    \A m \in Message : (\E i \in DOMAIN accepted : accepted[i] = m)
                       ~> (~alive \/ \E i \in DOMAIN invoked : invoked[i] = m)
=============================================================================
