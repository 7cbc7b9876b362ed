---------------------------- MODULE MCLinkedTasks ----------------------------
(* An instance of LinkedTasks for TLC, with the symmetry of MCTasks: the      *)
(* free list starts in any order, so PCBs remain interchangeable.             *)
EXTENDS LinkedTasks

CONSTANTS t1, t2, t3, m1, m2

Symmetry == Permutations({t2, t3}) \cup Permutations({m1, m2})

\* States are the same if they differ in history (woken, waitResult) or in the
\* directory of a free PCB only: no guard and no
\* invariant but TypeOK reads those.
View == <<running, readyqueue, freequeue, quantum_left, PID, pid, dir_usage, semafors,
          waiting, exiting, links, [t \in Task \ freequeue |-> dir[t]]>>
=============================================================================
