---------------------------- MODULE MCStatistics ----------------------------
(* An instance of Statistics for TLC. *)
EXTENDS Statistics

\* States are the same if they differ only in what no guard and neither property
\* needs: directories, how a waiting task was woken, and where the time of idle, of
\* free PCBs and of the processes in "queried" went.
Asked == Task \ (freequeue \cup queried)
View == <<running, readyqueue, freequeue, quantum_left, PID, pid, semafors, waiting, exiting,
          now, idled, queried \ {Idle}, [t \in Asked |-> <<stats[t], spent[t]>>],
          [t \in queried \cup {Idle} |-> <<stats[t].stamp, stats[t].created>>]>>
=============================================================================
