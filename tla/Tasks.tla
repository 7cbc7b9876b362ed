------------------------------- MODULE Tasks -------------------------------
(***************************************************************************)
(* Processes, the round-robin scheduler and the counting semaphores of     *)
(* ZeOS (sched.c, sem.c and the process calls of sys.c).                   *)
(*                                                                         *)
(* System calls and the clock interrupt run with interrupts off, so each   *)
(* handler is one step, up to the task switch it may end with.  A task     *)
(* that blocks inside sem_wait leaves the rest of that call on its kernel  *)
(* stack ("waiting"); the rest runs as part of the step that switches back *)
(* to it.  The loop of sys_exit over the semaphores is a loop of steps     *)
(* during which nothing else can run.                                      *)
(***************************************************************************)
EXTENDS Integers, Sequences, FiniteSets, Functions

CONSTANTS Task,       \* the PCBs of task[] that init_idle leaves over
          InitTask,   \* the PCB of init_task1
          Idle,       \* idle_task
          SemId,      \* semaphore numbers used by programs
          N_SEMAFORS,
          Quantum,    \* DEFAULT_QUANTUM
          MaxPid, MaxCount   \* bounds of the instance

NoId == "0xDEAD"
NoSem == -1

ASSUME TasksAssumption ==
  /\ IsFiniteSet(Task) /\ InitTask \in Task /\ Idle \notin Task
ASSUME NumbersAssumption ==
  /\ N_SEMAFORS \in Nat \ {0} /\ Quantum \in Nat \ {0}
  /\ MaxPid \in Nat /\ MaxCount \in Nat
ASSUME NamesAssumption == NoId \notin SemId

Sem == 0..N_SEMAFORS-1
Dead == -1            \* PID of a free PCB

VARIABLES
  running,        \* current()
  readyqueue,
  freequeue,      \* as a set: which free PCB is taken makes no difference
  quantum_left,
  PID,            \* the last PID given out
  pid,            \* task[t].PID
  dir,            \* which dir_pages entry a task uses
  dir_usage,
  semafors,
  waiting,        \* the semaphore whose sem_wait a task is suspended in
  woken,          \* how a suspended task left the blocked list (history)
  waitResult,     \* how the last resumed sem_wait was woken, what it returned
  exiting         \* loop index of destroy_owned_sems inside sys_exit

vars == <<running, readyqueue, freequeue, quantum_left, PID, pid, dir, dir_usage,
          semafors, waiting, woken, waitResult, exiting>>

NotExiting == -1
FreeSem == [id |-> NoId, count |-> 0, owner |-> Dead, used |-> 0, blocked |-> <<>>]

\* main: init_sched, init_idle, init_task1.  Idle has PID 0, init PID 1.
Init ==
  /\ running = InitTask
  /\ readyqueue = <<>>
  /\ freequeue = Task \ {InitTask}
  /\ quantum_left = Quantum
  /\ PID = 2
  /\ pid = [t \in Task |-> IF t = InitTask THEN 1 ELSE Dead]
  /\ dir = [t \in Task |-> InitTask]
  /\ dir_usage = [d \in Task |-> IF d = InitTask THEN 1 ELSE 0]
  /\ semafors = [s \in Sem |-> FreeSem]
  /\ waiting = [t \in Task |-> NoSem]
  /\ woken = [t \in Task |-> "no"]
  /\ waitResult = [woken |-> "no", ret |-> 0]
  /\ exiting = NotExiting

-----------------------------------------------------------------------------
(* Scheduling *)

\* Mutant: the destroyed semaphore is not counted up.
SemWaitResumes_KeepsUsed(t, sems, wait) ==
  /\ semafors' = sems
  /\ waiting' = [wait EXCEPT ![t] = NoSem]
  /\ woken' = [woken EXCEPT ![t] = "no"]
  /\ waitResult' = [woken |-> woken[t], ret |-> IF sems[wait[t]].used < 0 THEN -2 ELSE 0]

\* The rest of sem_wait when task t, suspended in it, runs again: used < 0
\* is taken to mean that the semaphore was destroyed (sem.c:75).
SemWaitResumes(t, sems, wait) ==
  LET s == wait[t]
      destroyed == sems[s].used < 0
  IN  /\ semafors' = IF destroyed THEN [sems EXCEPT ![s].used = @ + 1] ELSE sems
      /\ waiting' = [wait EXCEPT ![t] = NoSem]
      /\ woken' = [woken EXCEPT ![t] = "no"]
      /\ waitResult' = [woken |-> woken[t], ret |-> IF destroyed THEN -2 ELSE 0]

\* Mutants: the quantum is not renewed; the last ready task is taken.
sched_next_rr_KeepsQuantum(q, sems, wait) ==
  /\ quantum_left' = quantum_left - 1
  /\ IF q = <<>> THEN running' = Idle /\ readyqueue' = q
     ELSE running' = Head(q) /\ readyqueue' = Tail(q)
  /\ IF q # <<>> /\ wait[Head(q)] # NoSem
     THEN SemWaitResumes(Head(q), sems, wait)
     ELSE semafors' = sems /\ waiting' = wait /\ UNCHANGED <<woken, waitResult>>
sched_next_rr_LastFirst(q, sems, wait) ==
  LET n == Len(q)
  IN  /\ quantum_left' = Quantum
      /\ IF q = <<>> THEN running' = Idle /\ readyqueue' = q
         ELSE running' = q[n] /\ readyqueue' = SubSeq(q, 1, n - 1)
      /\ IF q # <<>> /\ wait[q[n]] # NoSem
         THEN SemWaitResumes(q[n], sems, wait)
         ELSE semafors' = sems /\ waiting' = wait /\ UNCHANGED <<woken, waitResult>>

\* sched_next_rr with ready list q, semaphores sems and suspended calls wait:
\* the first ready task or idle gets the CPU and goes on where it was left.
sched_next_rr(q, sems, wait) ==
  /\ quantum_left' = Quantum
  /\ IF q = <<>>
     THEN running' = Idle /\ readyqueue' = q
     ELSE running' = Head(q) /\ readyqueue' = Tail(q)
  /\ IF q # <<>> /\ wait[Head(q)] # NoSem
     THEN SemWaitResumes(Head(q), sems, wait)
     ELSE semafors' = sems /\ waiting' = wait /\ UNCHANGED <<woken, waitResult>>

processVars == <<freequeue, PID, pid, dir, dir_usage, exiting>>

\* clock_routine: scheduling()
ClockTick ==
  /\ exiting = NotExiting
  /\ UNCHANGED processVars
  /\ \/ /\ running = Idle /\ readyqueue = <<>>
        /\ quantum_left' = Quantum
        /\ UNCHANGED <<running, readyqueue, semafors, waiting, woken, waitResult>>
     \/ /\ running = Idle /\ readyqueue # <<>>
        /\ sched_next_rr(readyqueue, semafors, waiting)
     \/ /\ running # Idle /\ quantum_left > 1
        /\ quantum_left' = quantum_left - 1
        /\ UNCHANGED <<running, readyqueue, semafors, waiting, woken, waitResult>>
     \/ /\ running # Idle /\ quantum_left = 1
        /\ sched_next_rr(Append(readyqueue, running), semafors, waiting)

-----------------------------------------------------------------------------
(* Processes.  A failing call (-ENOMEM) changes nothing and is not a step. *)

InCall == running # Idle /\ exiting = NotExiting

\* Mutant: the PID counter stays.
NewProcess_SamePID(child) ==
  /\ child \in freequeue
  /\ freequeue' = freequeue \ {child}
  /\ UNCHANGED PID
  /\ pid' = [pid EXCEPT ![child] = PID + 1]
  /\ readyqueue' = Append(readyqueue, child)
  /\ UNCHANGED <<running, quantum_left, semafors, waiting, woken, waitResult, exiting>>

NewProcess(child) ==
  /\ child \in freequeue
  /\ freequeue' = freequeue \ {child}
  /\ PID' = PID + 1
  /\ pid' = [pid EXCEPT ![child] = PID + 1]
  /\ readyqueue' = Append(readyqueue, child)
  /\ UNCHANGED <<running, quantum_left, semafors, waiting, woken, waitResult, exiting>>

\* allocate_DIR: without a free entry the copied one stays, and is not counted.
allocate_DIR(child) ==
  \/ \E d \in Task: /\ dir_usage[d] = 0
                    /\ dir_usage' = [dir_usage EXCEPT ![d] = 1]
                    /\ dir' = [dir EXCEPT ![child] = d]
  \/ /\ \A d \in Task: dir_usage[d] # 0
     /\ dir' = [dir EXCEPT ![child] = dir[running]]
     /\ UNCHANGED dir_usage

Fork == /\ InCall /\ PID < MaxPid
        /\ \E child \in freequeue: NewProcess(child) /\ allocate_DIR(child)

\* Mutant: the thread is not counted as a user of the address space.
Clone_Uncounted ==
  /\ InCall /\ PID < MaxPid
  /\ \E child \in freequeue:
       /\ NewProcess(child)
       /\ dir' = [dir EXCEPT ![child] = dir[running]]
       /\ UNCHANGED dir_usage

Clone == /\ InCall /\ PID < MaxPid
         /\ \E child \in freequeue:
              /\ NewProcess(child)
              /\ dir' = [dir EXCEPT ![child] = dir[running]]
              /\ dir_usage' = [dir_usage EXCEPT ![dir[running]] = @ + 1]

\* Mutants: the blocked list is not emptied; used is one too low.
Unused_KeepsList(x) == [x EXCEPT !.id = NoId, !.used = 0 - Len(x.blocked)]
Unused_OneMore(x) == [x EXCEPT !.id = NoId, !.blocked = <<>>, !.used = -1 - Len(x.blocked)]
\* internal_sem_destroy: everyone blocked becomes ready; used counts, below
\* zero, the tasks that have to find out.
Unused(x) == [id |-> NoId, count |-> x.count, owner |-> x.owner,
              used |-> 0 - Len(x.blocked), blocked |-> <<>>]
\* (its mutant wakes only the first task)
internal_sem_destroy_WakesOne(s) ==
  /\ semafors' = [semafors EXCEPT ![s] = Unused(@)]
  /\ readyqueue' = IF semafors[s].blocked = <<>> THEN readyqueue
                   ELSE Append(readyqueue, Head(semafors[s].blocked))
  /\ woken' = [t \in Task |-> IF t \in Range(semafors[s].blocked) THEN "destroy" ELSE woken[t]]
internal_sem_destroy(s) ==
  /\ semafors' = [semafors EXCEPT ![s] = Unused(@)]
  /\ readyqueue' = readyqueue \o semafors[s].blocked
  /\ woken' = [t \in Task |-> IF t \in Range(semafors[s].blocked) THEN "destroy" ELSE woken[t]]

\* Mutant: the loop starts at the second semaphore.
ExitBegins_SkipsFirst ==
  /\ InCall
  /\ dir_usage' = [dir_usage EXCEPT ![dir[running]] = @ - 1]
  /\ exiting' = 1
  /\ UNCHANGED <<running, readyqueue, freequeue, quantum_left, PID, pid, dir,
                 semafors, waiting, woken, waitResult>>

\* sys_exit up to destroy_owned_sems
ExitBegins ==
  /\ InCall
  /\ dir_usage' = [dir_usage EXCEPT ![dir[running]] = @ - 1]
  /\ exiting' = 0
  /\ UNCHANGED <<running, readyqueue, freequeue, quantum_left, PID, pid, dir,
                 semafors, waiting, woken, waitResult>>

\* one turn of the loop of destroy_owned_sems
ExitDestroys ==
  /\ exiting \in Sem
  /\ IF semafors[exiting].used > 0 /\ semafors[exiting].owner = pid[running]
     THEN internal_sem_destroy(exiting)
     ELSE UNCHANGED <<semafors, readyqueue, woken>>
  /\ exiting' = exiting + 1
  /\ UNCHANGED <<running, freequeue, quantum_left, PID, pid, dir, dir_usage, waiting, waitResult>>

\* the rest of sys_exit
ExitEnds ==
  /\ exiting = N_SEMAFORS
  /\ pid' = [pid EXCEPT ![running] = Dead]
  /\ freequeue' = freequeue \cup {running}
  /\ exiting' = NotExiting
  /\ sched_next_rr(readyqueue, semafors, waiting)
  /\ UNCHANGED <<PID, dir, dir_usage>>

-----------------------------------------------------------------------------
(* Semaphores.  Calls that return -EINVAL change nothing. *)

\* get_semafor and the check of used: s is the semaphore numbered n.
Names(n, s) == /\ semafors[s].id = n /\ \A x \in 0..s-1: semafors[x].id # n
               /\ semafors[s].used > 0
\* get_free_semafor
IsFirstFree(s) == semafors[s].used = 0 /\ \A x \in 0..s-1: semafors[x].used # 0

sem_init(n, value) ==
  /\ InCall
  /\ \A s \in Sem: semafors[s].id # n
  /\ \E s \in Sem:
       /\ IsFirstFree(s)
       /\ semafors' = [semafors EXCEPT ![s] = [id |-> n, count |-> value, owner |-> pid[running],
                                               used |-> 1, blocked |-> <<>>]]
  /\ UNCHANGED <<running, readyqueue, quantum_left, waiting, woken, waitResult, processVars>>

sem_wait_takes(n) ==
  /\ InCall
  /\ \E s \in Sem: /\ Names(n, s) /\ semafors[s].count > 0
                   /\ semafors' = [semafors EXCEPT ![s].count = @ - 1]
  /\ UNCHANGED <<running, readyqueue, quantum_left, waiting, woken, waitResult, processVars>>

\* Mutant: the task that gets the CPU, not the caller, joins the blocked list.
sem_wait_blocks_SwitchFirst(n) ==
  /\ InCall
  /\ \E s \in Sem:
       /\ Names(n, s) /\ semafors[s].count = 0 /\ readyqueue # <<>>
       /\ sched_next_rr(readyqueue,
                        [semafors EXCEPT ![s].blocked = Append(@, Head(readyqueue))],
                        [waiting EXCEPT ![running] = s])
  /\ UNCHANGED processVars

\* The caller joins the blocked list and the CPU goes to another task.
sem_wait_blocks(n) ==
  /\ InCall
  /\ \E s \in Sem:
       /\ Names(n, s) /\ semafors[s].count = 0
       /\ sched_next_rr(readyqueue,
                        [semafors EXCEPT ![s].blocked = Append(@, running)],
                        [waiting EXCEPT ![running] = s])
  /\ UNCHANGED processVars

\* Mutant: the signal that wakes a task is also counted.
sem_signal_CountsToo(n) ==
  /\ InCall
  /\ \E s \in Sem:
       /\ Names(n, s) /\ semafors[s].count < MaxCount
       /\ IF semafors[s].blocked = <<>>
          THEN /\ semafors' = [semafors EXCEPT ![s].count = @ + 1]
               /\ UNCHANGED <<readyqueue, woken>>
          ELSE /\ semafors' = [semafors EXCEPT ![s].blocked = Tail(@), ![s].count = @ + 1]
               /\ readyqueue' = Append(readyqueue, Head(semafors[s].blocked))
               /\ woken' = [woken EXCEPT ![Head(semafors[s].blocked)] = "signal"]
  /\ UNCHANGED <<running, quantum_left, waiting, waitResult, processVars>>

sem_signal(n) ==
  /\ InCall
  /\ \E s \in Sem:
       /\ Names(n, s)
       /\ \/ /\ semafors[s].blocked = <<>> /\ semafors[s].count < MaxCount
             /\ semafors' = [semafors EXCEPT ![s].count = @ + 1]
             /\ UNCHANGED <<readyqueue, woken>>
          \/ /\ semafors[s].blocked # <<>>
             /\ semafors' = [semafors EXCEPT ![s].blocked = Tail(@)]
             /\ readyqueue' = Append(readyqueue, Head(semafors[s].blocked))
             /\ woken' = [woken EXCEPT ![Head(semafors[s].blocked)] = "signal"]
  /\ UNCHANGED <<running, quantum_left, waiting, waitResult, processVars>>

sem_destroy(n) ==
  /\ InCall
  /\ \E s \in Sem: /\ Names(n, s) /\ semafors[s].owner = pid[running]
                   /\ internal_sem_destroy(s)
  /\ UNCHANGED <<running, quantum_left, waiting, waitResult, processVars>>

SemCalls == \E n \in SemId:
  \/ \E value \in 0..MaxCount: sem_init(n, value)
  \/ sem_wait_takes(n) \/ sem_wait_blocks(n)
  \/ sem_signal(n)
  \/ sem_destroy(n)

Exit == ExitBegins \/ ExitDestroys \/ ExitEnds

Next == ClockTick \/ Fork \/ Clone \/ Exit \/ SemCalls

\* The timer keeps ticking and a kernel path, once begun, goes on.
Fairness == WF_vars(ClockTick) /\ WF_vars(ExitDestroys) /\ WF_vars(ExitEnds)

Spec == Init /\ [][Next]_vars
FairSpec == Spec /\ Fairness

-----------------------------------------------------------------------------
(* Properties *)

Semaphore == [id: SemId \cup {NoId}, count: Nat, owner: Nat \cup {Dead}, used: Int,
              blocked: Seq(Task)]

\* Types of all variables.
TypeOK ==
  /\ running \in Task \cup {Idle}
  /\ readyqueue \in Seq(Task)
  /\ freequeue \subseteq Task
  /\ quantum_left \in 1..Quantum
  /\ PID \in Nat
  /\ pid \in [Task -> Nat \cup {Dead}]
  /\ dir \in [Task -> Task]
  /\ dir_usage \in [Task -> Int]
  /\ semafors \in [Sem -> Semaphore]
  /\ waiting \in [Task -> Sem \cup {NoSem}]
  /\ woken \in [Task -> {"no", "signal", "destroy"}]
  /\ waitResult \in [woken: {"no", "signal", "destroy"}, ret: {0, -2}]
  /\ exiting \in Sem \cup {N_SEMAFORS, NotExiting}

Blocked(s) == Range(semafors[s].blocked)
NoDuplicates(q) == \A i, j \in 1..Len(q): q[i] = q[j] => i = j

\* The list anchor of a PCB is in one list at a time, and a PCB that is in none
\* has the CPU: list_del and list_add_tail of all the handlers never lose a task
\* or enter it twice.
OnePlace ==
  /\ NoDuplicates(readyqueue)
  /\ \A s \in Sem: NoDuplicates(semafors[s].blocked)
  /\ running \notin Range(readyqueue) \cup freequeue
  /\ Range(readyqueue) \cap freequeue = {}
  /\ \A s \in Sem: Blocked(s) \cap ({running} \cup Range(readyqueue) \cup freequeue) = {}
  /\ \A r, s \in Sem: r # s => Blocked(r) \cap Blocked(s) = {}
NoTaskLost == Task \subseteq {running} \cup freequeue \cup Range(readyqueue)
                             \cup UNION {Blocked(s): s \in Sem}

\* A positive counter and a blocked task never go together (sem_wait, sem_signal):
\* no signal is lost.  A semaphore that is not in use blocks nobody.
NoLostSignal == \A s \in Sem:
  semafors[s].blocked # <<>> => semafors[s].used > 0 /\ semafors[s].count = 0

\* A blocked or woken task is inside the sem_wait of the semaphore it waits for.
WaitersMatch == \A t \in Task, s \in Sem:
  /\ t \in Blocked(s) => waiting[t] = s
  /\ waiting[t] = s => t \in Blocked(s) \cup Range(readyqueue)

\* A semaphore whose used is -k is not lost: k tasks are on their way to count
\* it up to 0, where get_free_semafor finds it again (sem.c:75, sem.c:113).
Resumers(s) == {t \in Task: waiting[t] = s /\ t \notin Blocked(s)}
DestroyedIsReclaimable == \A s \in Sem: 0 - semafors[s].used <= Cardinality(Resumers(s))

\* Every semaphore in use belongs to one living process, the only one that may
\* destroy it and whose exit does: PIDs are not given out twice, and a semaphore
\* does not outlive its owner (destroy_owned_sems).  Its number names no other.
OwnersLive == \A s \in Sem: semafors[s].used > 0 =>
  /\ Cardinality({t \in Task \ freequeue: pid[t] = semafors[s].owner}) = 1
  /\ \A r \in Sem \ {s}: semafors[r].id # semafors[s].id

\* dir_usage counts the processes of an address space: free_user_pages runs with
\* the exit of the last one, never before (sys_clone, sys_exit, allocate_DIR).
UsesDir(d) == {t \in Task \ freequeue: dir[t] = d /\ ~(exiting # NotExiting /\ t = running)}
DirUsageCounts == \A d \in Task: dir_usage[d] = Cardinality(UsesDir(d))

\* Round robin starves nobody: a ready task runs.
ReadyRuns == \A t \in Task: (t \in Range(readyqueue)) ~> (running = t)

\* A destroyed semaphore becomes usable again.
SlotReclaimed == \A s \in Sem: (semafors[s].used < 0) ~> (semafors[s].used >= 0)

\* sem_wait returns -2 only to a task that was blocked when the semaphore was
\* destroyed: "The semaphore has been destroyed" (sem.c:75).
MinusTwoMeansDestroyed == waitResult.ret = -2 => waitResult.woken = "destroy"
=============================================================================
