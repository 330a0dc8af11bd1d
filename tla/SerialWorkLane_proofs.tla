------------------------ MODULE SerialWorkLane_proofs ------------------------
(***************************************************************************)
(* Proofs about SerialWorkLane, for any set of threads and messages, any   *)
(* capacity and any batch size.  The invariants checked by TLC follow from *)
(* one inductive invariant, Inv, whose parts say who holds the mutex, who  *)
(* drains, where each accepted message is, and why none is stranded.       *)
(***************************************************************************)
EXTENDS SerialWorkLane, SequenceTheorems, TLAPS

\* The mutex is held exactly by the thread inside TryPublish.
MutexInv ==
    \A c \in Caller : /\ publishPc[c] # "idle" <=> mutex = c
                      /\ publishPc[c] # "idle" => message[c] \in Message

\* The state Draining stands for the one thread inside Drain.
DrainerInv ==
    /\ \A d \in Drainer : Draining(d) => state = "Draining"
    /\ state = "Draining" => \E d \in Drainer : Draining(d)

HasCurrent(d) == drainPc[d] \in {"popping", "calling"}

CurrentInv ==
    \A d \in Drainer : HasCurrent(d) => current[d] \in Message /\ drained[d] < MaxMessages

\* Only a publisher about to decide leaves a message in an idle lane.
StrandedInv ==
    alive /\ state = "Idle" /\ queue # << >> => \E c \in Caller : publishPc[c] = "decide"

\* Accepted messages are, in order: those handled, the one in hand, the queue.
InHand == IF \E d \in Drainer : HasCurrent(d) THEN 1 ELSE 0

OrderInv ==
    alive =>
      /\ Len(accepted) = Len(invoked) + InHand + Len(queue)
      /\ \A i \in 1..Len(invoked) : invoked[i] = accepted[i]
      /\ \A i \in 1..Len(queue) : queue[i] = accepted[Len(invoked) + InHand + i]
      /\ \A d \in Drainer : HasCurrent(d) => current[d] = accepted[Len(invoked) + 1]

DestroyedInv ==
    ~alive => /\ \A c \in Caller : publishPc[c] = "idle"
              /\ \A d \in Drainer : drainPc[d] = "idle"

Inv == TypeOK /\ MutexInv /\ DrainerInv /\ OneDrainer /\ OneReservation
       /\ CurrentInv /\ StrandedInv /\ DestroyedInv
-----------------------------------------------------------------------------
LEMMA InitInv == Init => Inv
  <1> SUFFICES ASSUME Init PROVE Inv
    OBVIOUS
  <1> USE LaneAssumption DEF Init
  <1>1. TypeOK
    BY DEF TypeOK
  <1>2. MutexInv
    BY DEF MutexInv, Caller
  <1>3. DrainerInv /\ OneDrainer
    BY DEF DrainerInv, OneDrainer, Draining
  <1>4. OneReservation
    BY DEF OneReservation
  <1>5. CurrentInv /\ StrandedInv /\ DestroyedInv
    BY DEF CurrentInv, HasCurrent, StrandedInv, DestroyedInv
  <1> QED
    BY <1>1, <1>2, <1>3, <1>4, <1>5 DEF Inv

LEMMA NextInv == Inv /\ [Next]_vars => Inv'
  <1> SUFFICES ASSUME Inv, [Next]_vars PROVE Inv'
    OBVIOUS
  <1> USE LaneAssumption DEF Inv, TypeOK, MutexInv, DrainerInv, OneDrainer, OneReservation,
          CurrentInv, HasCurrent, StrandedInv, DestroyedInv, Draining, HasReadyItem
  <1>1. ASSUME NEW c \in Caller, NEW m \in Message, PublishLock(c, m) PROVE Inv'
    BY <1>1 DEF PublishLock, drainVars
  <1>2. ASSUME NEW c \in Caller, PublishRefused(c) PROVE Inv'
    BY <1>2 DEF PublishRefused, drainVars
  <1>3. ASSUME NEW c \in Caller, PublishClaim(c) PROVE Inv'
    BY <1>3 DEF PublishClaim, drainVars
  <1>4. ASSUME NEW c \in Caller, PublishStore(c) PROVE Inv'
    BY <1>4 DEF PublishStore, drainVars
  <1>5. ASSUME NEW c \in Caller, PublishDecide(c) PROVE Inv'
    BY <1>5 DEF PublishDecide, ShouldSchedule, drainVars
  <1>6. ASSUME NEW d \in Drainer, DrainBegin(d) PROVE Inv'
    BY <1>6 DEF DrainBegin, CanStart, publishVars
  <1>7. ASSUME NEW d \in Drainer, DrainTake(d) PROVE Inv'
    BY <1>7 DEF DrainTake, BatchLeft, publishVars
  <1>8. ASSUME NEW d \in Drainer, DrainCall(d) PROVE Inv'
    BY <1>8 DEF DrainCall, publishVars
  <1>9. ASSUME NEW d \in Drainer, DrainReturn(d) PROVE Inv'
    BY <1>9 DEF DrainReturn, publishVars
  <1>10. ASSUME NEW d \in Drainer, DrainStop(d) PROVE Inv'
    BY <1>10 DEF DrainStop, publishVars
  <1>11. ASSUME NEW d \in Drainer, DrainEnd(d) PROVE Inv'
    BY <1>11 DEF DrainEnd, Remains, publishVars
  <1>12. CASE Destroy
    <2>1. queue' = << >> /\ alive' = FALSE
      BY <1>12 DEF Destroy
    <2>2. UNCHANGED <<state, mutex, publishPc, message, drainPc, current, drained,
                      owed, accepted, invoked>>
      BY <1>12 DEF Destroy, publishVars, drainVars
    <2>3. \A c \in Caller : publishPc[c] = "idle"
      BY <1>12 DEF Destroy
    <2>4. \A d \in Drainer : drainPc[d] = "idle"
      BY <1>12 DEF Destroy
    <2>5. TypeOK'
      <3>1. queue' \in Seq(Message)
        BY <2>1
      <3>2. alive' \in BOOLEAN
        BY <2>1
      <3>3. QED
        BY <2>2, <3>1, <3>2
    <2>6. MutexInv' /\ DrainerInv' /\ OneDrainer' /\ OneReservation' /\ CurrentInv'
      BY <2>2
    <2>7. StrandedInv' /\ DestroyedInv'
      BY <2>1, <2>2, <2>3, <2>4
    <2> QED
      BY <2>5, <2>6, <2>7
  <1>13. CASE UNCHANGED vars
    BY <1>13 DEF vars, publishVars, drainVars
  <1> QED
    BY <1>1, <1>2, <1>3, <1>4, <1>5, <1>6, <1>7, <1>8, <1>9, <1>10, <1>11, <1>12,
       <1>13 DEF Next, PublishStep, DrainStep
-----------------------------------------------------------------------------
\* The thread inside Drain alone decides whether a message is in hand.
LEMMA HandOfDrainer ==
  ASSUME Inv, NEW d \in Drainer, Draining(d)
  PROVE  InHand = IF HasCurrent(d) THEN 1 ELSE 0
  BY DEF Inv, OneDrainer, InHand, HasCurrent, Draining

LEMMA OrderInit == Init => OrderInv
  BY DEF Init, OrderInv, InHand, HasCurrent

LEMMA OrderNext == Inv /\ OrderInv /\ [Next]_vars => OrderInv'
  <1> SUFFICES ASSUME Inv, OrderInv, [Next]_vars PROVE OrderInv'
    OBVIOUS
  <1>t. TypeOK /\ TypeOK'
    BY NextInv DEF Inv
  <1>i. Inv'
    BY NextInv
  <1>0. ASSUME UNCHANGED <<accepted, invoked, queue, alive, drainPc, current>>
        PROVE  OrderInv'
    BY <1>0 DEF OrderInv, InHand, HasCurrent
  <1>1. ASSUME NEW c \in Caller, PublishStore(c) PROVE OrderInv'
    <2>1. InHand' = InHand /\ InHand \in 0..1
      BY <1>1 DEF PublishStore, InHand, HasCurrent, drainVars
    <2>2. message[c] \in Message
      BY <1>1 DEF PublishStore, Inv, MutexInv
    <2>3. /\ accepted' = Append(accepted, message[c])
          /\ queue' = Append(queue, message[c])
          /\ UNCHANGED <<invoked, alive, drainPc, current>>
      BY <1>1 DEF PublishStore, drainVars
    <2>4. /\ Len(accepted') = Len(accepted) + 1 /\ Len(queue') = Len(queue) + 1
          /\ \A i \in 1..Len(accepted) : accepted'[i] = accepted[i]
          /\ \A i \in 1..Len(queue) : queue'[i] = queue[i]
          /\ accepted'[Len(accepted) + 1] = message[c]
          /\ queue'[Len(queue) + 1] = message[c]
      BY <2>2, <2>3, <1>t DEF TypeOK
    <2>5. Len(accepted) \in Nat /\ Len(queue) \in Nat /\ Len(invoked) \in Nat
      BY <1>t DEF TypeOK
    <2>6. SUFFICES ASSUME alive PROVE OrderInv'
      BY <2>3 DEF OrderInv
    <2>7. Len(accepted) = Len(invoked) + InHand + Len(queue)
      BY <2>6 DEF OrderInv
    <2>8. \A i \in 1..Len(queue') : queue'[i] = accepted'[Len(invoked) + InHand + i]
      BY <2>1, <2>4, <2>5, <2>6, <2>7 DEF OrderInv
    <2>9. \A i \in 1..Len(invoked) : invoked[i] = accepted'[i]
      BY <2>1, <2>4, <2>5, <2>6, <2>7 DEF OrderInv
    <2>10. ASSUME NEW d \in Drainer, HasCurrent(d)
           PROVE  current[d] = accepted'[Len(invoked) + 1]
      <3>1. InHand = 1
        BY <2>10 DEF InHand
      <3> QED
        BY <3>1, <2>4, <2>5, <2>6, <2>7, <2>10 DEF OrderInv
    <2>11. \A d \in Drainer : HasCurrent(d)' <=> HasCurrent(d)
      BY <2>3 DEF HasCurrent
    <2>12. Len(accepted') = Len(invoked') + InHand' + Len(queue')
      BY <2>1, <2>3, <2>4, <2>5, <2>7
    <2>13. invoked' = invoked /\ current' = current /\ InHand' = InHand
      BY <2>1, <2>3
    <2> QED
      BY <2>8, <2>9, <2>10, <2>11, <2>12, <2>13 DEF OrderInv
  <1>2. ASSUME NEW d \in Drainer, DrainTake(d) PROVE OrderInv'
    <2>1. InHand = 0
      BY <1>2, HandOfDrainer DEF DrainTake, HasCurrent, Draining
    <2>2. InHand' = 1 /\ \A e \in Drainer : HasCurrent(e)' => e = d
      BY <1>2, <1>t, <1>i DEF DrainTake, Inv, OneDrainer, Draining, HasCurrent, InHand, TypeOK
    <2>3. /\ queue # << >> /\ queue' = Tail(queue)
          /\ current'[d] = Head(queue)
          /\ UNCHANGED <<accepted, invoked, alive>>
      BY <1>2, <1>t DEF DrainTake, HasReadyItem, TypeOK
    <2>4. /\ Len(queue') = Len(queue) - 1
          /\ \A i \in 1..Len(queue') : queue'[i] = queue[i + 1]
          /\ Head(queue) = queue[1] /\ Len(queue) \in Nat \ {0}
      BY <2>3, <1>t DEF TypeOK
    <2>5. SUFFICES ASSUME alive PROVE OrderInv'
      BY <2>3 DEF OrderInv
    <2>6. /\ Len(accepted) = Len(invoked) + Len(queue)
          /\ \A i \in 1..Len(invoked) : invoked[i] = accepted[i]
          /\ \A i \in 1..Len(queue) : queue[i] = accepted[Len(invoked) + i]
          /\ Len(invoked) \in Nat
      BY <1>t, <2>1, <2>5 DEF OrderInv, TypeOK
    <2>7. Len(accepted') = Len(invoked') + InHand' + Len(queue')
      BY <2>2, <2>3, <2>4, <2>6
    <2>8. \A i \in 1..Len(invoked') : invoked'[i] = accepted'[i]
      BY <2>3, <2>6
    <2>9. \A i \in 1..Len(queue') : queue'[i] = accepted'[Len(invoked') + InHand' + i]
      <3> SUFFICES ASSUME NEW i \in 1..Len(queue')
                   PROVE  queue'[i] = accepted'[Len(invoked') + InHand' + i]
        OBVIOUS
      <3>1. queue'[i] = queue[i + 1] /\ i + 1 \in 1..Len(queue)
        BY <2>4
      <3>2. queue[i + 1] = accepted[Len(invoked) + (i + 1)]
        BY <2>6, <3>1
      <3> QED
        <4>1. accepted'[Len(invoked') + InHand' + i] = accepted[Len(invoked) + 1 + i]
          BY <2>2, <2>3
        <4>2. Len(invoked) + 1 + i = Len(invoked) + (i + 1)
          BY <2>6
        <4> QED
          BY <3>1, <3>2, <4>1, <4>2
    <2>10. current'[d] = accepted'[Len(invoked') + 1]
      BY <2>3, <2>4, <2>6
    <2> QED
      BY <2>2, <2>7, <2>8, <2>9, <2>10 DEF OrderInv
  <1>3. ASSUME NEW d \in Drainer, DrainCall(d) PROVE OrderInv'
    <2>1. \A e \in Drainer : HasCurrent(e)' <=> HasCurrent(e)
      BY <1>3, <1>t DEF DrainCall, HasCurrent, TypeOK
    <2>2. InHand' = InHand
      BY <2>1 DEF InHand
    <2>3. UNCHANGED <<accepted, invoked, queue, alive, current>>
      BY <1>3 DEF DrainCall
    <2> QED
      BY <2>1, <2>2, <2>3 DEF OrderInv
  <1>4. ASSUME NEW d \in Drainer, DrainReturn(d) PROVE OrderInv'
    <2>1. InHand = 1 /\ current[d] \in Message
      BY <1>4, HandOfDrainer DEF DrainReturn, HasCurrent, Draining, Inv, CurrentInv
    <2>2. InHand' = 0 /\ \A e \in Drainer : ~HasCurrent(e)'
      BY <1>4, <1>t DEF DrainReturn, Inv, OneDrainer, Draining, HasCurrent, InHand, TypeOK
    <2>3. /\ invoked' = Append(invoked, current[d])
          /\ UNCHANGED <<accepted, queue, alive>>
          /\ HasCurrent(d)
      BY <1>4 DEF DrainReturn, HasCurrent
    <2>4. SUFFICES ASSUME alive PROVE OrderInv'
      BY <2>3 DEF OrderInv
    <2>5. /\ Len(invoked') = Len(invoked) + 1
          /\ invoked'[Len(invoked) + 1] = current[d]
          /\ \A i \in 1..Len(invoked) : invoked'[i] = invoked[i]
          /\ Len(invoked) \in Nat /\ Len(queue) \in Nat
      BY <1>t, <2>1, <2>3 DEF TypeOK
    <2>6. /\ Len(accepted) = Len(invoked) + 1 + Len(queue)
          /\ \A i \in 1..Len(invoked) : invoked[i] = accepted[i]
          /\ \A i \in 1..Len(queue) : queue[i] = accepted[Len(invoked) + 1 + i]
          /\ current[d] = accepted[Len(invoked) + 1]
      BY <2>1, <2>3, <2>4 DEF OrderInv
    <2>7. Len(accepted') = Len(invoked') + InHand' + Len(queue')
      BY <2>2, <2>3, <2>5, <2>6
    <2>8. \A i \in 1..Len(invoked') : invoked'[i] = accepted'[i]
      BY <2>3, <2>5, <2>6
    <2>9. \A i \in 1..Len(queue') : queue'[i] = accepted'[Len(invoked') + InHand' + i]
      BY <2>2, <2>3, <2>5, <2>6
    <2> QED
      BY <2>2, <2>7, <2>8, <2>9 DEF OrderInv
  <1>5. ASSUME NEW d \in Drainer, DrainBegin(d) \/ DrainStop(d) \/ DrainEnd(d)
        PROVE  OrderInv'
    <2>1. \A e \in Drainer : HasCurrent(e)' <=> HasCurrent(e)
      BY <1>5, <1>t DEF DrainBegin, DrainStop, DrainEnd, HasCurrent, TypeOK
    <2>2. InHand' = InHand
      BY <2>1 DEF InHand
    <2>3. UNCHANGED <<accepted, invoked, queue, alive, current>>
      BY <1>5 DEF DrainBegin, DrainStop, DrainEnd
    <2> QED
      BY <2>1, <2>2, <2>3 DEF OrderInv
  <1>6. ASSUME NEW c \in Caller, \/ \E m \in Message : PublishLock(c, m)
                                \/ PublishRefused(c) \/ PublishClaim(c) \/ PublishDecide(c)
        PROVE  OrderInv'
    BY <1>0, <1>6 DEF PublishLock, PublishRefused, PublishClaim, PublishDecide, drainVars
  <1>7. CASE Destroy
    BY <1>7 DEF Destroy, OrderInv
  <1>8. CASE UNCHANGED vars
    BY <1>0, <1>8 DEF vars, drainVars
  <1> QED
    BY <1>1, <1>2, <1>3, <1>4, <1>5, <1>6, <1>7, <1>8 DEF Next, PublishStep, DrainStep
-----------------------------------------------------------------------------
\* The inductive invariant holds in every reachable state.
THEOREM InvHolds == Spec => [](Inv /\ OrderInv)
  BY InitInv, NextInv, OrderInit, OrderNext, PTL DEF Spec

\* Every variable of the lane keeps its type; a drain never handles more than
\* maxMessages.
THEOREM TypeCorrect == Spec => []TypeOK
  BY InvHolds, PTL DEF Inv

\* For any number of workers calling Drain at any time, at most one is inside:
\* the callback and the ring's consumer side are serialized.
THEOREM SerialDrain == Spec => []OneDrainer
  BY InvHolds, PTL DEF Inv

\* One Drain is owed exactly while the lane is Scheduled.
THEOREM SingleReservation == Spec => []OneReservation
  BY InvHolds, PTL DEF Inv

\* A message published in a lane whose mutex is free is never in an idle lane:
\* the decision to leave Drain and the decision to schedule never miss each other.
THEOREM NothingStranded == Spec => []NoStrandedMessage
  <1>1. Inv => NoStrandedMessage
    BY LaneAssumption DEF Inv, StrandedInv, MutexInv, NoStrandedMessage, HasReadyItem, TypeOK
  <1> QED
    BY <1>1, InvHolds, PTL

\* When IsQuiescent answers true, every accepted message has been handled.
THEOREM QuiescentIsDone == Spec => []QuiescentMeansDone
  <1>1. Inv /\ OrderInv => QuiescentMeansDone
    <2> SUFFICES ASSUME Inv, OrderInv, alive, state = "Idle", queue = << >>
                 PROVE  invoked = accepted
      BY DEF QuiescentMeansDone, IsQuiescent, HasReadyItem
    <2>1. InHand = 0
      BY DEF Inv, DrainerInv, Draining, InHand, HasCurrent
    <2>2. Len(accepted) = Len(invoked)
      BY <2>1 DEF OrderInv, Inv, TypeOK
    <2> QED
      BY <2>2, SeqEqual DEF OrderInv, Inv, TypeOK
  <1> QED
    BY <1>1, InvHolds, PTL

\* TryPublish finds the ring full only when Capacity accepted messages wait for their
\* callback: one drainer at most, and the slot it still holds is that of a message not begun.
LEMMA RefusalIsJust == Spec => []RefusedOnlyWhenFull
  <1>1. Inv /\ OrderInv => RefusedOnlyWhenFull
    <2> SUFFICES ASSUME Inv, OrderInv, NEW c \in Caller, publishPc[c] = "claim", Full
                 PROVE  Len(accepted) - Begun >= Capacity
      BY DEF RefusedOnlyWhenFull
    <2> DEFINE popping == IF \E d \in Drainer : drainPc[d] = "popping" THEN 1 ELSE 0
               calling == IF \E d \in Drainer : drainPc[d] = "calling" THEN 1 ELSE 0
    <2>1. alive
      BY DEF Inv, TypeOK, DestroyedInv
    <2>2. Len(accepted) = Len(invoked) + InHand + Len(queue)
      BY <2>1 DEF OrderInv
    <2>3. InHand = popping + calling
      <3>1. \A d, e \in Drainer : drainPc[d] = "popping" /\ drainPc[e] = "calling" => FALSE
        BY DEF Inv, OneDrainer, Draining
      <3> QED
        BY <3>1 DEF InHand, HasCurrent
    <2>4. /\ Len(accepted) \in Nat /\ Len(invoked) \in Nat /\ Len(queue) \in Nat
          /\ popping \in Nat /\ calling \in Nat /\ Capacity \in Nat
      BY LaneAssumption DEF Inv, TypeOK
    <2>5. Len(queue) + popping >= Capacity
      BY DEF Full, HeldSlots
    <2>6. Begun = Len(invoked) + calling
      BY DEF Begun
    <2> HIDE DEF popping, calling
    <2> QED
      BY <2>2, <2>3, <2>4, <2>5, <2>6
  <1> QED
    BY <1>1, InvHolds, PTL

\* All of it, for any threads, messages, capacity and batch size.
THEOREM LaneIsSafe == Spec => []LaneSafe
  <1>1. TypeOK /\ OneDrainer /\ OneReservation /\ NoStrandedMessage
        /\ QuiescentMeansDone /\ RefusedOnlyWhenFull => LaneSafe
    BY DEF LaneSafe
  <1> QED
    BY <1>1, TypeCorrect, SerialDrain, SingleReservation, NothingStranded, QuiescentIsDone,
       RefusalIsJust, PTL
-----------------------------------------------------------------------------
LEMMA RunningOfDrainer ==
  ASSUME Inv, NEW d \in Drainer, HasCurrent(d)
  PROVE  RunningMessage = current[d]
  BY DEF Inv, OneDrainer, Draining, RunningMessage, HasCurrent

LEMMA RunningOfNobody ==
  ASSUME \A d \in Drainer : ~HasCurrent(d)
  PROVE  RunningMessage = NoMessage
  BY DEF RunningMessage, HasCurrent

LEMMA RunningUnchanged ==
  ASSUME UNCHANGED <<drainPc, current>>
  PROVE  RunningMessage' = RunningMessage
  BY DEF RunningMessage

\* Every lane, whatever its capacity, batch size and callers, is a serial
\* mailbox: accepted messages reach the callback in order, once, one at a time.
THEOREM LaneImplementsMailbox == Spec => ImplementsMailbox
  <1>1. Init => Mailbox!Init
    <2> SUFFICES ASSUME Init PROVE Mailbox!Init
      OBVIOUS
    <2>1. RunningMessage = NoMessage
      BY RunningOfNobody DEF Init, HasCurrent
    <2> QED
      BY <2>1 DEF Init, Mailbox!Init
  <1>2. ASSUME Inv, Inv', [Next]_vars
        PROVE  [Mailbox!Next]_<<[b \in {0} |-> queue], [b \in {0} |-> RunningMessage],
                                [b \in {0} |-> invoked], ~alive>>
    <2> DEFINE sees == <<[b \in {0} |-> queue], [b \in {0} |-> RunningMessage],
                         [b \in {0} |-> invoked], ~alive>>
    <2>t. TypeOK
      BY <1>2 DEF Inv
    <2>0. ASSUME UNCHANGED <<queue, invoked, alive>>, RunningMessage' = RunningMessage
          PROVE  UNCHANGED sees
      BY <2>0
    <2>1. ASSUME NEW c \in Caller, PublishStore(c) PROVE Mailbox!Next
      <3>1. message[c] \in Message /\ alive
        BY <1>2, <2>1 DEF PublishStore, Inv, MutexInv, DestroyedInv
      <3>2. RunningMessage' = RunningMessage
        BY <2>1, RunningUnchanged DEF PublishStore, drainVars
      <3>3. Mailbox!Accept(0, message[c])
        BY <2>1, <3>1, <3>2 DEF PublishStore, Mailbox!Accept
      <3> QED
        BY <3>1, <3>3 DEF Mailbox!Next
    <2>2. ASSUME NEW d \in Drainer, DrainTake(d) PROVE Mailbox!Next
      <3>1. \A e \in Drainer : ~HasCurrent(e)
        BY <1>2, <2>2 DEF DrainTake, Inv, OneDrainer, Draining, HasCurrent
      <3>2. RunningMessage = NoMessage
        BY <3>1, RunningOfNobody
      <3>3. drainPc' = [drainPc EXCEPT ![d] = "popping"] /\ current' = [current EXCEPT ![d] = Head(queue)]
        BY <2>2 DEF DrainTake
      <3>4. HasCurrent(d)'
        BY <3>3, <2>t DEF HasCurrent, TypeOK
      <3>5. RunningMessage' = current'[d]
        BY <1>2, <3>4 DEF Inv, OneDrainer, Draining, RunningMessage, HasCurrent
      <3>6. RunningMessage' = Head(queue)
        BY <3>3, <3>5, <2>t DEF TypeOK
      <3>7. alive
        BY <1>2, <2>2 DEF DrainTake, Inv, DestroyedInv
      <3>8. Mailbox!Begin(0)
        BY <2>2, <3>2, <3>6, <3>7 DEF DrainTake, HasReadyItem, Mailbox!Begin
      <3> QED
        BY <3>8 DEF Mailbox!Next
    <2>3. ASSUME NEW d \in Drainer, DrainCall(d) PROVE UNCHANGED sees
      <3>1. \A e \in Drainer : HasCurrent(e)' <=> HasCurrent(e)
        BY <2>3, <2>t DEF DrainCall, HasCurrent, TypeOK
      <3>2. current' = current
        BY <2>3 DEF DrainCall
      <3>3. RunningMessage' = RunningMessage
        BY <3>1, <3>2 DEF RunningMessage, HasCurrent
      <3> QED
        BY <2>0, <2>3, <3>3 DEF DrainCall
    <2>4. ASSUME NEW d \in Drainer, DrainReturn(d) PROVE Mailbox!Next
      <3>1. HasCurrent(d) /\ current[d] # NoMessage
        BY <1>2, <2>4, LaneAssumption DEF DrainReturn, HasCurrent, Inv, CurrentInv
      <3>2. RunningMessage = current[d]
        BY <1>2, <3>1, RunningOfDrainer
      <3>3. \A e \in Drainer : ~HasCurrent(e)'
        BY <1>2, <2>4, <2>t DEF DrainReturn, Inv, OneDrainer, Draining, HasCurrent, TypeOK
      <3>4. RunningMessage' = NoMessage
        BY <3>3 DEF RunningMessage, HasCurrent
      <3>5. Mailbox!End(0)
        BY <2>4, <3>1, <3>2, <3>4 DEF DrainReturn, Mailbox!End
      <3> QED
        BY <3>5 DEF Mailbox!Next
    <2>5. ASSUME NEW d \in Drainer, DrainBegin(d) \/ DrainStop(d) \/ DrainEnd(d)
          PROVE  UNCHANGED sees
      <3>1. \A e \in Drainer : HasCurrent(e)' <=> HasCurrent(e)
        BY <2>5, <2>t DEF DrainBegin, DrainStop, DrainEnd, HasCurrent, TypeOK
      <3>2. UNCHANGED <<current, queue, invoked, alive>>
        BY <2>5 DEF DrainBegin, DrainStop, DrainEnd
      <3>3. RunningMessage' = RunningMessage
        BY <3>1, <3>2 DEF RunningMessage, HasCurrent
      <3> QED
        BY <2>0, <3>2, <3>3
    <2>6. ASSUME NEW c \in Caller, \/ \E m \in Message : PublishLock(c, m)
                                  \/ PublishRefused(c) \/ PublishClaim(c) \/ PublishDecide(c)
          PROVE  UNCHANGED sees
      <3>1. UNCHANGED <<drainPc, current, queue, invoked, alive>>
        BY <2>6 DEF PublishLock, PublishRefused, PublishClaim, PublishDecide, drainVars
      <3> QED
        BY <2>0, <3>1, RunningUnchanged
    <2>7. ASSUME Destroy PROVE Mailbox!Next
      <3>1. \A d \in Drainer : ~HasCurrent(d)
        BY <2>7 DEF Destroy, HasCurrent
      <3>2. RunningMessage = NoMessage /\ RunningMessage' = RunningMessage
        BY <2>7, <3>1, RunningOfNobody, RunningUnchanged DEF Destroy, drainVars
      <3>3. Mailbox!Discard
        BY <2>7, <3>2 DEF Destroy, Mailbox!Discard
      <3> QED
        BY <3>3 DEF Mailbox!Next
    <2>8. CASE UNCHANGED vars
      BY <2>0, <2>8, RunningUnchanged DEF vars, drainVars
    <2> QED
      BY <1>2, <2>1, <2>2, <2>3, <2>4, <2>5, <2>6, <2>7, <2>8
         DEF Next, PublishStep, DrainStep
  <1>3. Spec => []Inv
    BY InvHolds, PTL
  <1> QED
    BY <1>1, <1>2, <1>3, PTL DEF Spec, ImplementsMailbox, Mailbox!Spec
=============================================================================
