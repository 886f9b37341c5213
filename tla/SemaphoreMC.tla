------------------------------ MODULE SemaphoreMC ------------------------------
(* Small instances of Semaphore: the constants its configurations name. *)
EXTENDS Semaphore

\* Count-up (-2), the default (0) and a resource count.
MCInitialCounts == {-2, 0, 1}

\* Posts by one and by several, so that the signal and the broadcast both occur.
MCPostCounts == {1, 2}

================================================================================
