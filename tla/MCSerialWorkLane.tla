-------------------------- MODULE MCSerialWorkLane ---------------------------
(***************************************************************************)
(* An instance of SerialWorkLane for TLC, and beside it one of the ring    *)
(* that it contains, with the fairness of both: a behaviour is one of the  *)
(* lane, or of the ring.                                                   *)
(***************************************************************************)
EXTENDS SerialWorkLane

CONSTANTS RingThread, Item, NoItem, StaleReads

VARIABLES
    part,                           \* "lane" or "ring"
    enqueuePosition, dequeuePosition, sequence, storage, pc, position, item, log, returned,
    ringAlive

ringVars == <<enqueuePosition, dequeuePosition, sequence, storage, pc, position, item, log,
              returned, ringAlive>>

Ring == INSTANCE BoundedMpmcQueue WITH Thread <- RingThread, alive <- ringAlive

BothInit == part \in {"lane", "ring"} /\ Init /\ Ring!Init

BothNext ==
    /\ UNCHANGED part
    /\ \/ part = "lane" /\ Next /\ UNCHANGED ringVars
       \/ part = "ring" /\ Ring!Next /\ UNCHANGED vars

\* The conditions of the two FairSpecs.
BothSpec ==
    /\ BothInit /\ [][BothNext]_<<part, vars, ringVars>>
    /\ \A c \in Caller : WF_vars(PublishStep(c))
    /\ \A d \in Drainer : SF_vars(DrainStep(d))
    /\ SF_vars(\E d \in Drainer : DrainBegin(d))
    /\ \A t \in RingThread : /\ WF_ringVars(Ring!PushStep(t) \/ Ring!PopStep(t))
                             /\ SF_ringVars(Ring!PushCasWin(t))
                             /\ SF_ringVars(Ring!PopCasWin(t))
-----------------------------------------------------------------------------
\* Each accepted message is handled (SerialWorkLane), and no TryPush or TryPop is caught for
\* ever in its retry loop (BoundedMpmcQueue).
WorkFinishes == EveryMessageHandled /\ Ring!OperationsFinish
=============================================================================
