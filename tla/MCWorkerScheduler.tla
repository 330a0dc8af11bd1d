-------------------------- MODULE MCWorkerScheduler --------------------------
(***************************************************************************)
(* Instances of WorkerScheduler for TLC: batches of one message, so a lane *)
(* with a backlog goes through the ready queue again, and exactly as many  *)
(* ready slots as lanes.                                                   *)
(***************************************************************************)
EXTENDS WorkerScheduler, TLC

Symmetry == Permutations(Client) \union Permutations(Worker)
            \union Permutations(Lane) \union Permutations(Message)
=============================================================================
