------------------------------ MODULE MCTasks ------------------------------
(* Instances of Tasks for TLC: model values and their symmetry.  Semaphore   *)
(* numbers are interchangeable, and so are the PCBs other than init's.       *)
EXTENDS Tasks, TLC

CONSTANTS t1, t2, t3, m1, m2

Symmetry == Permutations({t2, t3}) \cup Permutations({m1, m2})
=============================================================================
