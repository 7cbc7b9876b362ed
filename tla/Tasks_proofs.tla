---------------------------- MODULE Tasks_proofs ----------------------------
(***************************************************************************)
(* Proofs about processes, scheduling and semaphores (module Tasks), for   *)
(* any number of PCBs, semaphores and semaphore numbers.                   *)
(***************************************************************************)
EXTENDS Tasks, FiniteSetTheorems, TLAPS

\* Not only TypeOK: a process that is exiting has the CPU until it is gone.
TypeInv == TypeOK /\ (exiting # NotExiting => running # Idle)

-----------------------------------------------------------------------------
(* Types *)

\* One semaphore after each operation on it is a semaphore.
LEMMA SemaphoreType ==
  ASSUME NEW x \in Semaphore
  PROVE  /\ [x EXCEPT !.used = @ + 1] \in Semaphore
         /\ [x EXCEPT !.count = @ + 1] \in Semaphore
         /\ x.count > 0 => [x EXCEPT !.count = @ - 1] \in Semaphore
         /\ \A t \in Task: [x EXCEPT !.blocked = Append(@, t)] \in Semaphore
         /\ x.blocked # <<>> => [x EXCEPT !.blocked = Tail(@)] \in Semaphore
         /\ Unused(x) \in Semaphore
<1>1. /\ x.blocked \in Seq(Task) /\ Len(x.blocked) \in Nat
      /\ x.used \in Int /\ x.count \in Nat
  BY DEF Semaphore
<1>2. Unused(x) \in Semaphore
  BY <1>1 DEF Unused, Semaphore
<1>3. \A k \in Int: [x EXCEPT !.used = k] \in Semaphore
  BY DEF Semaphore
<1>4. \A k \in Nat: [x EXCEPT !.count = k] \in Semaphore
  BY DEF Semaphore
<1>5. \A q \in Seq(Task): [x EXCEPT !.blocked = q] \in Semaphore
  BY DEF Semaphore
<1>6. x.used + 1 \in Int /\ x.count + 1 \in Nat /\ (x.count > 0 => x.count - 1 \in Nat)
  BY <1>1
<1>7. \A t \in Task: Append(x.blocked, t) \in Seq(Task)
  BY <1>1
<1>8. x.blocked # <<>> => Tail(x.blocked) \in Seq(Task)
  BY <1>1
<1> QED
  BY <1>2, <1>3, <1>4, <1>5, <1>6, <1>7, <1>8

\* So one operation keeps the type of the semaphore table.
LEMMA SemaphoresType ==
  ASSUME NEW sems \in [Sem -> Semaphore], NEW s \in Sem
  PROVE  /\ [sems EXCEPT ![s].used = @ + 1] \in [Sem -> Semaphore]
         /\ [sems EXCEPT ![s].count = @ + 1] \in [Sem -> Semaphore]
         /\ sems[s].count > 0 => [sems EXCEPT ![s].count = @ - 1] \in [Sem -> Semaphore]
         /\ \A t \in Task: [sems EXCEPT ![s].blocked = Append(@, t)] \in [Sem -> Semaphore]
         /\ sems[s].blocked # <<>> => [sems EXCEPT ![s].blocked = Tail(@)] \in [Sem -> Semaphore]
         /\ [sems EXCEPT ![s] = Unused(@)] \in [Sem -> Semaphore]
<1>1. sems[s] \in Semaphore
  OBVIOUS
<1>2. \A y \in Semaphore: [sems EXCEPT ![s] = y] \in [Sem -> Semaphore]
  OBVIOUS
<1>3. /\ [sems EXCEPT ![s].used = @ + 1] \in [Sem -> Semaphore]
      /\ [sems EXCEPT ![s].count = @ + 1] \in [Sem -> Semaphore]
      /\ [sems EXCEPT ![s] = Unused(@)] \in [Sem -> Semaphore]
  BY <1>1, <1>2, SemaphoreType
<1>4. sems[s].count > 0 => [sems EXCEPT ![s].count = @ - 1] \in [Sem -> Semaphore]
  BY <1>1, <1>2, SemaphoreType
<1>5. \A t \in Task: [sems EXCEPT ![s].blocked = Append(@, t)] \in [Sem -> Semaphore]
  BY <1>1, <1>2, SemaphoreType
<1>6. sems[s].blocked # <<>> => [sems EXCEPT ![s].blocked = Tail(@)] \in [Sem -> Semaphore]
  BY <1>1, <1>2, SemaphoreType
<1> QED
  BY <1>3, <1>4, <1>5, <1>6

\* The types of what sched_next_rr changes.
LEMMA ScheduleType ==
  ASSUME TypeOK, NEW q \in Seq(Task), NEW sems \in [Sem -> Semaphore],
         NEW wait \in [Task -> Sem \cup {NoSem}], sched_next_rr(q, sems, wait)
  PROVE  /\ running' \in Task \cup {Idle}
         /\ readyqueue' \in Seq(Task)
         /\ quantum_left' \in 1..Quantum
         /\ semafors' \in [Sem -> Semaphore]
         /\ waiting' \in [Task -> Sem \cup {NoSem}]
         /\ woken' \in [Task -> {"no", "signal", "destroy"}]
         /\ waitResult' \in [woken: {"no", "signal", "destroy"}, ret: {0, -2}]
<1>1. quantum_left' \in 1..Quantum
  BY NumbersAssumption DEF sched_next_rr
<1>2. running' \in Task \cup {Idle} /\ readyqueue' \in Seq(Task)
  BY DEF sched_next_rr
<1>3. CASE q # <<>> /\ wait[Head(q)] # NoSem
  <2> DEFINE t == Head(q)
             s == wait[t]
  <2>1. t \in Task /\ s \in Sem
    BY <1>3
  <2>2. SemWaitResumes(t, sems, wait)
    BY <1>3 DEF sched_next_rr
  <2>4. semafors' \in [Sem -> Semaphore]
    BY <2>1, <2>2, SemaphoresType DEF SemWaitResumes
  <2>5. waiting' \in [Task -> Sem \cup {NoSem}]
    BY <2>2 DEF SemWaitResumes
  <2>6. woken' \in [Task -> {"no", "signal", "destroy"}]
    BY <2>2 DEF SemWaitResumes, TypeOK
  <2>7. waitResult' \in [woken: {"no", "signal", "destroy"}, ret: {0, -2}]
    BY <2>1, <2>2 DEF SemWaitResumes, TypeOK
  <2> QED
    BY <1>1, <1>2, <2>4, <2>5, <2>6, <2>7
<1>4. CASE ~(q # <<>> /\ wait[Head(q)] # NoSem)
  BY <1>1, <1>2, <1>4 DEF sched_next_rr, TypeOK
<1> QED
  BY <1>3, <1>4

\* The types of what internal_sem_destroy changes.
LEMMA DestroyType ==
  ASSUME TypeOK, NEW s \in Sem, internal_sem_destroy(s)
  PROVE  /\ readyqueue' \in Seq(Task)
         /\ semafors' \in [Sem -> Semaphore]
         /\ woken' \in [Task -> {"no", "signal", "destroy"}]
<1>1. semafors[s] \in Semaphore /\ semafors[s].blocked \in Seq(Task)
  BY DEF TypeOK, Semaphore
<1>2. semafors' \in [Sem -> Semaphore]
  BY SemaphoresType DEF internal_sem_destroy, TypeOK
<1> QED
  BY <1>1, <1>2 DEF internal_sem_destroy, TypeOK

\* init_sched, init_idle and init_task1 leave well-typed tables.
LEMMA InitTypeInv == Init => TypeInv
<1> SUFFICES ASSUME Init PROVE TypeInv
  OBVIOUS
<1>1. FreeSem \in Semaphore
  BY DEF FreeSem, Semaphore
<1> QED
  BY <1>1, TasksAssumption, NumbersAssumption DEF Init, TypeInv, TypeOK, NoSem, Dead, NotExiting

\* No system call and no clock tick breaks the types.
LEMMA NextTypeInv == TypeInv /\ [Next]_vars => TypeInv'
<1> SUFFICES ASSUME TypeInv, [Next]_vars PROVE TypeInv'
  OBVIOUS
<1> USE TasksAssumption, NumbersAssumption DEF TypeInv
<1>1. CASE ClockTick
  <2>1. CASE sched_next_rr(readyqueue, semafors, waiting)
    <3>1. readyqueue \in Seq(Task) /\ semafors \in [Sem -> Semaphore]
          /\ waiting \in [Task -> Sem \cup {NoSem}]
      BY DEF TypeOK
    <3> QED
      BY <1>1, <2>1, <3>1, ScheduleType DEF ClockTick, TypeOK, processVars
  <2>2. CASE running # Idle /\ sched_next_rr(Append(readyqueue, running), semafors, waiting)
    <3>1. Append(readyqueue, running) \in Seq(Task) /\ semafors \in [Sem -> Semaphore]
          /\ waiting \in [Task -> Sem \cup {NoSem}]
      BY <2>2 DEF TypeOK
    <3> QED
      BY <1>1, <2>2, <3>1, ScheduleType DEF ClockTick, TypeOK, processVars
  <2>3. CASE /\ quantum_left' \in 1..Quantum
             /\ UNCHANGED <<running, readyqueue, semafors, waiting, woken, waitResult>>
    BY <1>1, <2>3 DEF ClockTick, TypeOK, processVars
  <2>4. quantum_left \in 1..Quantum /\ Quantum \in 1..Quantum
    BY DEF TypeOK
  <2>5. quantum_left > 1 => quantum_left - 1 \in 1..Quantum
    BY <2>4
  <2> QED
    BY <1>1, <2>1, <2>2, <2>3, <2>4, <2>5 DEF ClockTick
<1>2. CASE Fork
  <2>1. PICK child \in freequeue: NewProcess(child) /\ allocate_DIR(child)
    BY <1>2 DEF Fork
  <2>2. child \in Task /\ running \in Task
    BY <1>2 DEF Fork, InCall, TypeOK
  <2>3. dir' \in [Task -> Task] /\ dir_usage' \in [Task -> Int]
    <3>1. ASSUME NEW d \in Task, dir_usage' = [dir_usage EXCEPT ![d] = 1],
                 dir' = [dir EXCEPT ![child] = d]
          PROVE  dir' \in [Task -> Task] /\ dir_usage' \in [Task -> Int]
      BY <3>1 DEF TypeOK
    <3>2. CASE dir' = [dir EXCEPT ![child] = dir[running]] /\ UNCHANGED dir_usage
      BY <2>2, <3>2 DEF TypeOK
    <3> QED
      BY <2>1, <3>1, <3>2 DEF allocate_DIR
  <2>4. readyqueue' \in Seq(Task) /\ freequeue' \subseteq Task
    BY <2>1, <2>2 DEF NewProcess, TypeOK
  <2>5. PID' \in Nat /\ pid' \in [Task -> Nat \cup {Dead}]
    BY <2>1, <2>2 DEF NewProcess, TypeOK
  <2> QED
    BY <2>1, <2>3, <2>4, <2>5 DEF NewProcess, TypeOK
<1>3. CASE Clone
  <2>1. PICK child \in freequeue:
          /\ NewProcess(child)
          /\ dir' = [dir EXCEPT ![child] = dir[running]]
          /\ dir_usage' = [dir_usage EXCEPT ![dir[running]] = @ + 1]
    BY <1>3 DEF Clone
  <2>2. child \in Task /\ running \in Task
    BY <1>3 DEF Clone, InCall, TypeOK
  <2>3. dir' \in [Task -> Task] /\ dir_usage' \in [Task -> Int]
    BY <2>1, <2>2 DEF TypeOK
  <2> QED
    BY <1>3, <2>1, <2>2, <2>3 DEF Clone, NewProcess, TypeOK
<1>4. CASE ExitBegins
  BY <1>4 DEF ExitBegins, InCall, TypeOK, Sem, NotExiting
<1>5. CASE ExitDestroys
  <2>1. exiting' \in Sem \cup {N_SEMAFORS} /\ exiting # NotExiting
    BY <1>5 DEF ExitDestroys, Sem, NotExiting
  <2>2. readyqueue' \in Seq(Task) /\ semafors' \in [Sem -> Semaphore]
        /\ woken' \in [Task -> {"no", "signal", "destroy"}]
    BY <1>5, DestroyType DEF ExitDestroys, TypeOK
  <2> QED
    BY <1>5, <2>1, <2>2 DEF ExitDestroys, TypeOK
<1>6. CASE ExitEnds
  <2>1. running \in Task /\ exiting # NotExiting
    BY <1>6 DEF ExitEnds, TypeOK, NotExiting
  <2>2. readyqueue \in Seq(Task) /\ semafors \in [Sem -> Semaphore]
        /\ waiting \in [Task -> Sem \cup {NoSem}]
    BY DEF TypeOK
  <2>3. pid' \in [Task -> Nat \cup {Dead}] /\ freequeue' \subseteq Task /\ exiting' = NotExiting
    BY <1>6, <2>1 DEF ExitEnds, TypeOK
  <2> QED
    BY <1>6, <2>2, <2>3, ScheduleType DEF ExitEnds, TypeOK
<1>7. CASE SemCalls
  <2>1. ASSUME NEW n \in SemId, NEW value \in 0..MaxCount, sem_init(n, value)
        PROVE  TypeInv'
    <3>1. PICK s \in Sem: semafors' = [semafors EXCEPT ![s] =
            [id |-> n, count |-> value, owner |-> pid[running], used |-> 1, blocked |-> <<>>]]
      BY <2>1 DEF sem_init
    <3>2. pid[running] \in Nat \cup {Dead}
      BY <2>1 DEF sem_init, InCall, TypeOK
    <3>3. [id |-> n, count |-> value, owner |-> pid[running], used |-> 1, blocked |-> <<>>] \in Semaphore
      BY <3>2 DEF Semaphore
    <3> QED
      BY <2>1, <3>1, <3>3 DEF sem_init, TypeOK, processVars
  <2>2. ASSUME NEW n \in SemId, sem_wait_takes(n)
        PROVE  TypeInv'
    <3>1. PICK s \in Sem: semafors[s].count > 0 /\ semafors' = [semafors EXCEPT ![s].count = @ - 1]
      BY <2>2 DEF sem_wait_takes
    <3>2. semafors \in [Sem -> Semaphore]
      BY DEF TypeOK
    <3>3. semafors' \in [Sem -> Semaphore]
      BY <3>1, <3>2, SemaphoresType
    <3> QED
      BY <2>2, <3>3 DEF sem_wait_takes, TypeOK, processVars
  <2>3. ASSUME NEW n \in SemId, sem_wait_blocks(n)
        PROVE  TypeInv'
    <3>1. PICK s \in Sem:
            sched_next_rr(readyqueue, [semafors EXCEPT ![s].blocked = Append(@, running)],
                          [waiting EXCEPT ![running] = s])
      BY <2>3 DEF sem_wait_blocks
    <3>2. running \in Task
      BY <2>3 DEF sem_wait_blocks, InCall, TypeOK
    <3>3. [semafors EXCEPT ![s].blocked = Append(@, running)] \in [Sem -> Semaphore]
      <4>1. semafors \in [Sem -> Semaphore]
        BY DEF TypeOK
      <4> QED
        BY <3>2, <4>1, SemaphoresType
    <3>4. [waiting EXCEPT ![running] = s] \in [Task -> Sem \cup {NoSem}] /\ readyqueue \in Seq(Task)
      BY DEF TypeOK
    <3> QED
      BY <2>3, <3>1, <3>3, <3>4, ScheduleType DEF sem_wait_blocks, InCall, TypeOK, processVars
  <2>4. ASSUME NEW n \in SemId, sem_signal(n)
        PROVE  TypeInv'
    <3>1. PICK s \in Sem:
            \/ /\ semafors' = [semafors EXCEPT ![s].count = @ + 1]
               /\ UNCHANGED <<readyqueue, woken>>
            \/ /\ semafors[s].blocked # <<>>
               /\ semafors' = [semafors EXCEPT ![s].blocked = Tail(@)]
               /\ readyqueue' = Append(readyqueue, Head(semafors[s].blocked))
               /\ woken' = [woken EXCEPT ![Head(semafors[s].blocked)] = "signal"]
      BY <2>4 DEF sem_signal
    <3>2. semafors[s] \in Semaphore /\ semafors[s].blocked \in Seq(Task)
      BY DEF TypeOK, Semaphore
    <3>3. semafors' \in [Sem -> Semaphore]
      <4>1. semafors \in [Sem -> Semaphore]
        BY DEF TypeOK
      <4>2. [semafors EXCEPT ![s].count = @ + 1] \in [Sem -> Semaphore]
        BY <4>1, SemaphoresType
      <4>3. semafors[s].blocked # <<>>
            => [semafors EXCEPT ![s].blocked = Tail(@)] \in [Sem -> Semaphore]
        BY <4>1, SemaphoresType
      <4> QED
        BY <3>1, <4>2, <4>3
    <3>4. readyqueue' \in Seq(Task) /\ woken' \in [Task -> {"no", "signal", "destroy"}]
      <4>1. readyqueue \in Seq(Task) /\ woken \in [Task -> {"no", "signal", "destroy"}]
        BY DEF TypeOK
      <4> HIDE DEF TypeInv
      <4>2. CASE UNCHANGED <<readyqueue, woken>>
        BY <4>1, <4>2
      <4>3. CASE /\ semafors[s].blocked # <<>>
                 /\ readyqueue' = Append(readyqueue, Head(semafors[s].blocked))
                 /\ woken' = [woken EXCEPT ![Head(semafors[s].blocked)] = "signal"]
        <5>1. Head(semafors[s].blocked) \in Task
          BY <3>2, <4>3
        <5> QED
          BY <4>1, <4>3, <5>1
      <4> QED
        BY <3>1, <4>2, <4>3
    <3> QED
      BY <2>4, <3>3, <3>4 DEF sem_signal, TypeOK, processVars
  <2>5. ASSUME NEW n \in SemId, sem_destroy(n)
        PROVE  TypeInv'
    <3>1. readyqueue' \in Seq(Task) /\ semafors' \in [Sem -> Semaphore]
          /\ woken' \in [Task -> {"no", "signal", "destroy"}]
      BY <2>5, DestroyType DEF sem_destroy
    <3> QED
      BY <2>5, <3>1 DEF sem_destroy, TypeOK, processVars
  <2> QED
    BY <1>7, <2>1, <2>2, <2>3, <2>4, <2>5 DEF SemCalls
<1>8. CASE UNCHANGED vars
  BY <1>8 DEF vars, TypeOK
<1> QED
  BY <1>1, <1>2, <1>3, <1>4, <1>5, <1>6, <1>7, <1>8 DEF Next, Exit

\* The types hold in every state; the other invariants rest on this one.
LEMMA TypeInvHolds == Spec => []TypeInv
<1> QED
  BY InitTypeInv, NextTypeInv, PTL DEF Spec

\* The variables keep their types whatever the programs call and whenever the
\* clock ticks.
THEOREM TypeCorrect == Spec => []TypeOK
<1>1. TypeInv => TypeOK
  BY DEF TypeInv
<1> QED
  BY <1>1, TypeInvHolds, PTL

-----------------------------------------------------------------------------
(* Lists *)

\* What the list operations do to the tasks in a list, for sequences over any set.
LEMMA EmptyList == Range(<<>>) = {} /\ NoDuplicates(<<>>)
  BY DEF Range, NoDuplicates

\* list_add_tail.
LEMMA AppendToList ==
  ASSUME NEW S, NEW q \in Seq(S), NEW x \in S
  PROVE  /\ Range(Append(q, x)) = Range(q) \cup {x}
         /\ NoDuplicates(q) /\ x \notin Range(q) => NoDuplicates(Append(q, x))
<1>1. Len(Append(q, x)) = Len(q) + 1 /\ Len(q) \in Nat
  OBVIOUS
<1>2. \A i \in 1..Len(q): Append(q, x)[i] = q[i]
  OBVIOUS
<1>3. Append(q, x)[Len(q) + 1] = x
  OBVIOUS
<1>4. DOMAIN q = 1..Len(q) /\ DOMAIN Append(q, x) = 1..Len(q) + 1
  OBVIOUS
<1>5. Range(Append(q, x)) = Range(q) \cup {x}
  BY <1>1, <1>2, <1>3, <1>4 DEF Range
<1>6. NoDuplicates(q) /\ x \notin Range(q) => NoDuplicates(Append(q, x))
  BY <1>1, <1>2, <1>3, <1>4 DEF Range, NoDuplicates
<1> QED
  BY <1>5, <1>6

\* list_first and list_del.
LEMMA HeadOfList ==
  ASSUME NEW S, NEW q \in Seq(S), q # <<>>, NoDuplicates(q)
  PROVE  /\ Head(q) \in Range(q) /\ Head(q) \in S
         /\ Range(Tail(q)) = Range(q) \ {Head(q)}
         /\ NoDuplicates(Tail(q)) /\ Tail(q) \in Seq(S)
<1>1. Len(q) \in Nat \ {0} /\ DOMAIN q = 1..Len(q) /\ Head(q) = q[1]
  OBVIOUS
<1>2. Tail(q) \in Seq(S) /\ Len(Tail(q)) = Len(q) - 1 /\ DOMAIN Tail(q) = 1..Len(q) - 1
  OBVIOUS
<1>3. \A i \in 1..Len(q) - 1: Tail(q)[i] = q[i + 1]
  OBVIOUS
<1>4. Head(q) \in Range(q) /\ Head(q) \in S
  BY <1>1 DEF Range
<1>5. NoDuplicates(Tail(q))
  BY <1>1, <1>2, <1>3 DEF NoDuplicates
<1>6. ASSUME NEW x \in Range(Tail(q)) PROVE x \in Range(q) \ {Head(q)}
  BY <1>1, <1>2, <1>3 DEF Range, NoDuplicates
<1>7. ASSUME NEW x \in Range(q) \ {Head(q)} PROVE x \in Range(Tail(q))
  <2>1. PICK i \in 1..Len(q): x = q[i]
    BY <1>1 DEF Range
  <2>2. i - 1 \in 1..Len(q) - 1 /\ Tail(q)[i - 1] = x
    BY <1>1, <1>3, <2>1
  <2> QED
    BY <1>2, <2>2 DEF Range
<1> QED
  BY <1>2, <1>4, <1>5, <1>6, <1>7

\* The loop of internal_sem_destroy.
LEMMA ConcatLists ==
  ASSUME NEW S, NEW p \in Seq(S), NEW q \in Seq(S)
  PROVE  /\ Range(p \o q) = Range(p) \cup Range(q)
         /\ NoDuplicates(p) /\ NoDuplicates(q) /\ Range(p) \cap Range(q) = {}
              => NoDuplicates(p \o q)
<1> DEFINE m == Len(p)
           n == Len(q)
<1>1. m \in Nat /\ n \in Nat /\ DOMAIN p = 1..m /\ DOMAIN q = 1..n
  OBVIOUS
<1>2. Len(p \o q) = m + n /\ DOMAIN (p \o q) = 1..m + n
  OBVIOUS
<1>3. \A i \in 1..m: (p \o q)[i] = p[i]
  OBVIOUS
<1>4. \A i \in m+1..m+n: (p \o q)[i] = q[i - m]
  OBVIOUS
<1>5. \A i \in 1..n: (p \o q)[m + i] = q[i]
  BY <1>1, <1>4
<1>6. Range(p \o q) \subseteq Range(p) \cup Range(q)
  <2> SUFFICES ASSUME NEW i \in 1..m+n PROVE (p \o q)[i] \in Range(p) \cup Range(q)
    BY <1>2 DEF Range
  <2>1. CASE i \in 1..m
    BY <1>1, <1>3, <2>1 DEF Range
  <2>2. CASE i \in m+1..m+n
    <3>1. i - m \in 1..n
      BY <1>1, <2>2
    <3> QED
      BY <1>1, <1>4, <2>2, <3>1 DEF Range
  <2> QED
    BY <1>1, <2>1, <2>2
<1>7. Range(p) \cup Range(q) \subseteq Range(p \o q)
  <2>1. ASSUME NEW i \in 1..m PROVE p[i] \in Range(p \o q)
    BY <1>1, <1>2, <1>3 DEF Range
  <2>2. ASSUME NEW i \in 1..n PROVE q[i] \in Range(p \o q)
    <3>1. m + i \in 1..m + n
      BY <1>1
    <3> QED
      BY <1>2, <1>5, <3>1 DEF Range
  <2> QED
    BY <1>1, <2>1, <2>2 DEF Range
<1>8. ASSUME NoDuplicates(p), NoDuplicates(q), Range(p) \cap Range(q) = {},
             NEW i \in 1..m+n, NEW j \in 1..m+n, (p \o q)[i] = (p \o q)[j]
      PROVE  i = j
  <2>1. CASE i <= m /\ j <= m
    BY <1>1, <1>3, <1>8, <2>1 DEF NoDuplicates
  <2>2. CASE i > m /\ j > m
    <3>1. q[i - m] = q[j - m] /\ i - m \in 1..n /\ j - m \in 1..n
      BY <1>1, <1>4, <1>8, <2>2
    <3> QED
      BY <1>1, <1>8, <3>1 DEF NoDuplicates
  <2>3. CASE i <= m /\ j > m
    <3>1. p[i] = q[j - m] /\ i \in 1..m /\ j - m \in 1..n
      BY <1>1, <1>3, <1>4, <1>8, <2>3
    <3> QED
      BY <1>1, <1>8, <3>1 DEF Range
  <2>4. CASE i > m /\ j <= m
    <3>1. q[i - m] = p[j] /\ j \in 1..m /\ i - m \in 1..n
      BY <1>1, <1>3, <1>4, <1>8, <2>4
    <3> QED
      BY <1>1, <1>8, <3>1 DEF Range
  <2> QED
    BY <1>1, <2>1, <2>2, <2>3, <2>4
<1> QED
  BY <1>2, <1>6, <1>7, <1>8 DEF NoDuplicates
-----------------------------------------------------------------------------
(***************************************************************************)
(* The lists and the suspended calls.  ListInv is stated for any values of *)
(* the lists, because it must also hold in the middle of the handlers that *)
(* end with sched_next_rr, when nobody has the CPU: then cpu is Idle.      *)
(***************************************************************************)

OnePlaceOf(cpu, q, free, sems) ==
  /\ NoDuplicates(q)
  /\ \A s \in Sem: NoDuplicates(sems[s].blocked)
  /\ cpu \notin Range(q) \cup free
  /\ Range(q) \cap free = {}
  /\ \A s \in Sem: Range(sems[s].blocked) \cap ({cpu} \cup Range(q) \cup free) = {}
  /\ \A r, s \in Sem: r # s => Range(sems[r].blocked) \cap Range(sems[s].blocked) = {}

NoTaskLostOf(cpu, q, free, sems) == \A t \in Task:
  t = cpu \/ t \in free \/ t \in Range(q) \/ \E s \in Sem: t \in Range(sems[s].blocked)

NoLostSignalOf(sems) == \A s \in Sem:
  sems[s].blocked # <<>> => sems[s].used > 0 /\ sems[s].count = 0

WaitersMatchOf(q, sems, wait) == \A t \in Task, s \in Sem:
  /\ t \in Range(sems[s].blocked) => wait[t] = s
  /\ wait[t] = s => t \in Range(sems[s].blocked) \cup Range(q)

ListInv(cpu, q, free, sems, wait) ==
  /\ OnePlaceOf(cpu, q, free, sems)
  /\ NoTaskLostOf(cpu, q, free, sems)
  /\ NoLostSignalOf(sems)
  /\ WaitersMatchOf(q, sems, wait)

\* sched_next_rr keeps the invariant when it starts with nobody on the CPU.
LEMMA ScheduleLists ==
  ASSUME NEW q \in Seq(Task), NEW sems \in [Sem -> Semaphore], NEW free \in SUBSET Task,
         NEW wait \in [Task -> Sem \cup {NoSem}],
         ListInv(Idle, q, free, sems, wait), sched_next_rr(q, sems, wait)
  PROVE  ListInv(running', readyqueue', free, semafors', waiting')
<1> USE TasksAssumption
<1>1. CASE q = <<>>
  <2>1. running' = Idle /\ readyqueue' = q /\ semafors' = sems /\ waiting' = wait
    BY <1>1 DEF sched_next_rr
  <2> QED
    BY <2>1
<1>2. CASE q # <<>>
  <2> DEFINE h == Head(q)
  <2>1. running' = h /\ readyqueue' = Tail(q)
    BY <1>2 DEF sched_next_rr
  <2>2. /\ h \in Range(q) /\ h \in Task
        /\ Range(Tail(q)) = Range(q) \ {h}
        /\ NoDuplicates(Tail(q))
    BY <1>2, HeadOfList DEF ListInv, OnePlaceOf
  <2>3. \A s \in Sem: semafors'[s].blocked = sems[s].blocked
                      /\ (sems[s].blocked # <<>> => semafors'[s] = sems[s])
    <3>1. CASE wait[h] = NoSem
      BY <1>2, <3>1 DEF sched_next_rr
    <3>2. CASE wait[h] # NoSem
      <4>1. SemWaitResumes(h, sems, wait) /\ wait[h] \in Sem
        BY <1>2, <2>2, <3>2 DEF sched_next_rr
      <4>2. CASE sems[wait[h]].used < 0
        <5>1. sems[wait[h]].blocked = <<>>
          <6>1. sems[wait[h]].used \in Int
            BY <4>1 DEF Semaphore
          <6> QED
            BY <4>1, <4>2, <6>1 DEF ListInv, NoLostSignalOf
        <5>2. semafors' = [sems EXCEPT ![wait[h]].used = @ + 1]
          BY <4>1, <4>2 DEF SemWaitResumes
        <5> QED
          BY <4>1, <5>1, <5>2 DEF Semaphore
      <4>3. CASE ~(sems[wait[h]].used < 0)
        BY <4>1, <4>3 DEF SemWaitResumes
      <4> QED
        BY <4>2, <4>3
    <3> QED
      BY <3>1, <3>2
  <2>4. waiting' = [wait EXCEPT ![h] = NoSem]
    <3>1. CASE wait[h] = NoSem
      BY <1>2, <2>2, <3>1 DEF sched_next_rr
    <3>2. CASE wait[h] # NoSem
      BY <1>2, <3>2 DEF sched_next_rr, SemWaitResumes
    <3> QED
      BY <3>1, <3>2
  <2>5. OnePlaceOf(h, Tail(q), free, semafors')
    BY <2>2, <2>3 DEF ListInv, OnePlaceOf
  <2>6. NoTaskLostOf(h, Tail(q), free, semafors')
    BY <2>2, <2>3 DEF ListInv, NoTaskLostOf
  <2>7. NoLostSignalOf(semafors')
    BY <2>3 DEF ListInv, NoLostSignalOf
  <2>8. WaitersMatchOf(Tail(q), semafors', waiting')
    BY <2>2, <2>3, <2>4 DEF ListInv, WaitersMatchOf, OnePlaceOf, Sem, NoSem
  <2> QED
    BY <2>1, <2>5, <2>6, <2>7, <2>8 DEF ListInv
<1> QED
  BY <1>1, <1>2

IInv == TypeInv /\ ListInv(running, readyqueue, freequeue, semafors, waiting)

\* Waking everyone who is blocked on a semaphore keeps the invariant.
LEMMA DestroyLists ==
  ASSUME IInv, NEW s \in Sem, internal_sem_destroy(s)
  PROVE  ListInv(running, readyqueue', freequeue, semafors', waiting)
<1> DEFINE b == semafors[s].blocked
<1>1. readyqueue \in Seq(Task) /\ b \in Seq(Task) /\ semafors \in [Sem -> Semaphore]
      /\ waiting \in [Task -> Sem \cup {NoSem}]
  BY DEF IInv, TypeInv, TypeOK, Semaphore
<1>2. Range(readyqueue) \cap Range(b) = {}
  BY DEF IInv, ListInv, OnePlaceOf
<1>3. Range(readyqueue') = Range(readyqueue) \cup Range(b) /\ NoDuplicates(readyqueue')
  <2>1. readyqueue' = readyqueue \o b
    BY DEF internal_sem_destroy
  <2>2. NoDuplicates(readyqueue) /\ NoDuplicates(b)
    BY DEF IInv, ListInv, OnePlaceOf
  <2> QED
    BY <1>1, <1>2, <2>1, <2>2, ConcatLists
<1>4. /\ semafors'[s].blocked = <<>>
      /\ \A r \in Sem \ {s}: semafors'[r] = semafors[r]
  BY <1>1 DEF internal_sem_destroy, Unused
<1>5. Range(semafors'[s].blocked) = {} /\ NoDuplicates(semafors'[s].blocked)
  BY <1>4, EmptyList
<1>6. OnePlaceOf(running, readyqueue', freequeue, semafors')
  BY <1>3, <1>4, <1>5 DEF IInv, ListInv, OnePlaceOf
<1>7. NoTaskLostOf(running, readyqueue', freequeue, semafors')
  BY <1>3, <1>4 DEF IInv, ListInv, NoTaskLostOf
<1>8. NoLostSignalOf(semafors')
  BY <1>4 DEF IInv, ListInv, NoLostSignalOf
<1>9. WaitersMatchOf(readyqueue', semafors', waiting)
  BY <1>3, <1>4, <1>5 DEF IInv, ListInv, WaitersMatchOf
<1> QED
  BY <1>6, <1>7, <1>8, <1>9 DEF ListInv

\* The task on the CPU is in no list and in no sem_wait.
LEMMA RunningIsNowhere ==
  ASSUME IInv
  PROVE  /\ running \notin Range(readyqueue) \cup freequeue
         /\ \A s \in Sem: running \notin Range(semafors[s].blocked)
         /\ running \in Task => waiting[running] = NoSem
<1>1. /\ running \notin Range(readyqueue) \cup freequeue
      /\ \A s \in Sem: running \notin Range(semafors[s].blocked)
  BY DEF IInv, ListInv, OnePlaceOf
<1>2. ASSUME running \in Task PROVE waiting[running] = NoSem
  <2>1. waiting[running] \in Sem \cup {NoSem}
    BY <1>2 DEF IInv, TypeInv, TypeOK
  <2> QED
    BY <1>1, <1>2, <2>1 DEF IInv, ListInv, WaitersMatchOf
<1> QED
  BY <1>1, <1>2

\* After list_add_tail(current, readyqueue) nobody has the CPU.
LEMMA PreemptLists ==
  ASSUME IInv, running \in Task
  PROVE  ListInv(Idle, Append(readyqueue, running), freequeue, semafors, waiting)
<1>1. readyqueue \in Seq(Task) /\ semafors \in [Sem -> Semaphore] /\ freequeue \subseteq Task
      /\ \A s \in Sem: semafors[s].blocked \in Seq(Task)
  BY DEF IInv, TypeInv, TypeOK, Semaphore
<1>2. /\ Range(Append(readyqueue, running)) = Range(readyqueue) \cup {running}
      /\ NoDuplicates(Append(readyqueue, running))
  BY <1>1, RunningIsNowhere, AppendToList DEF IInv, ListInv, OnePlaceOf
<1>3. Range(readyqueue) \subseteq Task /\ \A s \in Sem: Range(semafors[s].blocked) \subseteq Task
  BY <1>1 DEF Range
<1>4. OnePlaceOf(Idle, Append(readyqueue, running), freequeue, semafors)
  <2> DEFINE q == Append(readyqueue, running)
  <2>1. Idle \notin Range(q) \cup freequeue
    BY <1>1, <1>2, <1>3, TasksAssumption
  <2>2. OnePlaceOf(running, readyqueue, freequeue, semafors)
    BY DEF IInv, ListInv
  <2>3. Range(q) \cap freequeue = {}
    BY <1>2, <2>2 DEF OnePlaceOf
  <2>4. \A s \in Sem: Range(semafors[s].blocked) \cap ({Idle} \cup Range(q) \cup freequeue) = {}
    <3> SUFFICES ASSUME NEW s \in Sem, NEW t \in Range(semafors[s].blocked)
                 PROVE  t \notin {Idle} \cup Range(q) \cup freequeue
      OBVIOUS
    <3>1. t \notin Range(readyqueue) \cup freequeue /\ t # running
      BY <2>2 DEF OnePlaceOf
    <3>2. t # Idle
      BY <1>3, TasksAssumption
    <3> QED
      BY <1>2, <3>1, <3>2
  <2> HIDE DEF q
  <2> QED
    BY <1>2, <2>1, <2>2, <2>3, <2>4 DEF OnePlaceOf, q
<1>5. NoTaskLostOf(Idle, Append(readyqueue, running), freequeue, semafors)
  BY <1>2 DEF IInv, ListInv, NoTaskLostOf
<1>6. WaitersMatchOf(Append(readyqueue, running), semafors, waiting)
  BY <1>2 DEF IInv, ListInv, WaitersMatchOf
<1> QED
  BY <1>4, <1>5, <1>6 DEF IInv, ListInv
\* After list_add_tail(current, &s->blocked) nobody has the CPU.
LEMMA BlockLists ==
  ASSUME IInv, running \in Task, NEW s \in Sem,
         semafors[s].used > 0, semafors[s].count = 0
  PROVE  ListInv(Idle, readyqueue, freequeue, [semafors EXCEPT ![s].blocked = Append(@, running)],
                 [waiting EXCEPT ![running] = s])
<1> DEFINE b == semafors[s].blocked
           sems == [semafors EXCEPT ![s].blocked = Append(@, running)]
           wait == [waiting EXCEPT ![running] = s]
<1>1. /\ readyqueue \in Seq(Task) /\ freequeue \subseteq Task
      /\ semafors \in [Sem -> Semaphore] /\ waiting \in [Task -> Sem \cup {NoSem}]
  BY DEF IInv, TypeInv, TypeOK
<1>2. \A r \in Sem: semafors[r].blocked \in Seq(Task)
  BY <1>1 DEF Semaphore
<1>3. NoDuplicates(b) /\ running \notin Range(b)
  BY RunningIsNowhere DEF IInv, ListInv, OnePlaceOf
<1>4. sems[s].blocked = Append(b, running) /\ \A r \in Sem \ {s}: sems[r] = semafors[r]
  BY <1>1 DEF Semaphore
<1>5. sems[s].used > 0 /\ sems[s].count = 0
  BY <1>1 DEF Semaphore
<1>6. Range(sems[s].blocked) = Range(b) \cup {running} /\ NoDuplicates(sems[s].blocked)
  BY <1>2, <1>3, <1>4, AppendToList
<1>7. Range(readyqueue) \subseteq Task /\ \A r \in Sem: Range(semafors[r].blocked) \subseteq Task
  BY <1>1, <1>2 DEF Range
<1>8. \A r \in Sem \ {s}: sems[r].blocked = semafors[r].blocked
  BY <1>4
<1> HIDE DEF sems, wait
<1>9. OnePlaceOf(Idle, readyqueue, freequeue, sems)
  <2>1. \A r \in Sem: /\ NoDuplicates(sems[r].blocked)
                     /\ Range(sems[r].blocked) = Range(semafors[r].blocked)
                          \cup (IF r = s THEN {running} ELSE {})
    BY <1>6, <1>8 DEF IInv, ListInv, OnePlaceOf
  <2>2. \A r \in Sem: Range(sems[r].blocked) \cap ({Idle} \cup Range(readyqueue) \cup freequeue) = {}
    BY <1>1, <1>7, <2>1, RunningIsNowhere, TasksAssumption DEF IInv, ListInv, OnePlaceOf
  <2>3. \A q, r \in Sem: q # r => Range(sems[q].blocked) \cap Range(sems[r].blocked) = {}
    BY <2>1, RunningIsNowhere DEF IInv, ListInv, OnePlaceOf
  <2>4. Idle \notin Range(readyqueue) \cup freequeue
    BY <1>1, <1>7, TasksAssumption
  <2> QED
    BY <2>1, <2>2, <2>3, <2>4 DEF IInv, ListInv, OnePlaceOf
<1>10. NoTaskLostOf(Idle, readyqueue, freequeue, sems)
  BY <1>6, <1>8 DEF IInv, ListInv, NoTaskLostOf
<1>11. NoLostSignalOf(sems)
  BY <1>4, <1>5 DEF IInv, ListInv, NoLostSignalOf
<1>12. WaitersMatchOf(readyqueue, sems, wait)
  <2>1. \A t \in Task: wait[t] = IF t = running THEN s ELSE waiting[t]
    BY <1>1 DEF wait
  <2> QED
    BY <1>6, <1>8, <2>1, RunningIsNowhere DEF IInv, ListInv, WaitersMatchOf
<1> QED
  BY <1>9, <1>10, <1>11, <1>12 DEF ListInv, sems, wait

\* A signal takes the first task of the blocked list to the ready list.
LEMMA WakeLists ==
  ASSUME IInv, NEW s \in Sem, semafors[s].blocked # <<>>,
         semafors' = [semafors EXCEPT ![s].blocked = Tail(@)],
         readyqueue' = Append(readyqueue, Head(semafors[s].blocked))
  PROVE  ListInv(running, readyqueue', freequeue, semafors', waiting)
<1> DEFINE b == semafors[s].blocked
           h == Head(b)
<1>1. /\ readyqueue \in Seq(Task) /\ semafors \in [Sem -> Semaphore] /\ b \in Seq(Task)
  BY DEF IInv, TypeInv, TypeOK, Semaphore
<1>2. NoDuplicates(b) /\ NoDuplicates(readyqueue)
  BY DEF IInv, ListInv, OnePlaceOf
<1>3. /\ h \in Range(b) /\ h \in Task /\ Range(Tail(b)) = Range(b) \ {h} /\ NoDuplicates(Tail(b))
  BY <1>1, <1>2, HeadOfList
<1>4. h \notin Range(readyqueue)
  BY <1>3 DEF IInv, ListInv, OnePlaceOf
<1>5. Range(readyqueue') = Range(readyqueue) \cup {h} /\ NoDuplicates(readyqueue')
  BY <1>1, <1>2, <1>3, <1>4, AppendToList
<1>6. /\ semafors'[s].blocked = Tail(b)
      /\ semafors'[s].used = semafors[s].used /\ semafors'[s].count = semafors[s].count
      /\ \A r \in Sem \ {s}: semafors'[r] = semafors[r]
  BY <1>1 DEF Semaphore
<1>7. \A r \in Sem \ {s}: semafors'[r].blocked = semafors[r].blocked
  BY <1>6
<1>8. OnePlaceOf(running, readyqueue', freequeue, semafors')
  <2>1. ASSUME NEW r \in Sem
        PROVE  /\ NoDuplicates(semafors'[r].blocked)
               /\ Range(semafors'[r].blocked) =
                    IF r = s THEN Range(b) \ {h} ELSE Range(semafors[r].blocked)
    <3>1. CASE r = s
      BY <1>3, <1>6, <3>1
    <3>2. CASE r # s
      BY <1>7, <3>2 DEF IInv, ListInv, OnePlaceOf
    <3> QED
      BY <3>1, <3>2
  <2>2. ASSUME NEW r \in Sem PROVE h \notin Range(semafors'[r].blocked)
    <3>1. r # s => Range(semafors[r].blocked) \cap Range(b) = {}
      BY DEF IInv, ListInv, OnePlaceOf
    <3> QED
      BY <1>3, <2>1, <3>1
  <2>3. \A r \in Sem: Range(semafors'[r].blocked)
                       \cap ({running} \cup Range(readyqueue') \cup freequeue) = {}
    <3>1. \A r \in Sem: Range(semafors'[r].blocked) \subseteq Range(semafors[r].blocked)
      BY <2>1
    <3>2. \A r \in Sem: Range(semafors[r].blocked)
                         \cap ({running} \cup Range(readyqueue) \cup freequeue) = {}
      BY DEF IInv, ListInv, OnePlaceOf
    <3> QED
      BY ZenonT(60), <1>5, <2>2, <3>1, <3>2
  <2>4. \A q, r \in Sem: q # r => Range(semafors'[q].blocked) \cap Range(semafors'[r].blocked) = {}
    <3>1. \A r \in Sem: Range(semafors'[r].blocked) \subseteq Range(semafors[r].blocked)
      BY <2>1
    <3> QED
      BY <3>1 DEF IInv, ListInv, OnePlaceOf
  <2>5. h # running /\ h \notin freequeue
    BY <1>3 DEF IInv, ListInv, OnePlaceOf
  <2> QED
    BY ZenonT(60), <1>5, <2>1, <2>3, <2>4, <2>5 DEF IInv, ListInv, OnePlaceOf
<1>9. NoTaskLostOf(running, readyqueue', freequeue, semafors')
  <2> SUFFICES ASSUME NEW t \in Task, t # running, t \notin freequeue, t \notin Range(readyqueue')
               PROVE  \E r \in Sem: t \in Range(semafors'[r].blocked)
    BY DEF NoTaskLostOf
  <2>1. PICK r \in Sem: t \in Range(semafors[r].blocked)
    BY <1>5 DEF IInv, ListInv, NoTaskLostOf
  <2>2. t \in Range(semafors'[r].blocked)
    BY <1>3, <1>5, <1>6, <1>7, <2>1
  <2> QED
    BY <2>2
<1>10. NoLostSignalOf(semafors')
  BY <1>6 DEF IInv, ListInv, NoLostSignalOf
<1>11. WaitersMatchOf(readyqueue', semafors', waiting)
  BY <1>3, <1>5, <1>6, <1>7 DEF IInv, ListInv, WaitersMatchOf
<1> QED
  BY <1>8, <1>9, <1>10, <1>11 DEF ListInv

\* Operations that leave the lists alone.
LEMMA SameLists ==
  ASSUME IInv, NEW s \in Sem, NEW x,
         x.blocked = semafors[s].blocked,
         x.blocked # <<>> => x.used > 0 /\ x.count = 0,
         semafors' = [semafors EXCEPT ![s] = x]
  PROVE  ListInv(running, readyqueue, freequeue, semafors', waiting)
<1>1. semafors \in [Sem -> Semaphore]
  BY DEF IInv, TypeInv, TypeOK
<1>2. semafors'[s] = x /\ \A r \in Sem \ {s}: semafors'[r] = semafors[r]
  BY <1>1
<1>3. \A r \in Sem: semafors'[r].blocked = semafors[r].blocked
  BY <1>2
<1>4. NoLostSignalOf(semafors')
  BY <1>2 DEF IInv, ListInv, NoLostSignalOf
<1>5. OnePlaceOf(running, readyqueue, freequeue, semafors')
  BY <1>3 DEF IInv, ListInv, OnePlaceOf
<1>6. NoTaskLostOf(running, readyqueue, freequeue, semafors')
  BY <1>3 DEF IInv, ListInv, NoTaskLostOf
<1>7. WaitersMatchOf(readyqueue, semafors', waiting)
  BY <1>3 DEF IInv, ListInv, WaitersMatchOf
<1> QED
  BY <1>4, <1>5, <1>6, <1>7 DEF ListInv
\* At boot task 1 runs, idle is the idle task and every other PCB is free.
LEMMA InitLists == Init => ListInv(running, readyqueue, freequeue, semafors, waiting)
<1> SUFFICES ASSUME Init PROVE ListInv(running, readyqueue, freequeue, semafors, waiting)
  OBVIOUS
<1>1. /\ running = InitTask /\ readyqueue = <<>> /\ freequeue = Task \ {InitTask}
      /\ \A t \in Task: waiting[t] = NoSem
      /\ \A s \in Sem: semafors[s].blocked = <<>>
  BY DEF Init, FreeSem
<1>2. OnePlaceOf(running, readyqueue, freequeue, semafors)
  BY <1>1, EmptyList DEF OnePlaceOf
<1>3. NoTaskLostOf(running, readyqueue, freequeue, semafors) /\ NoLostSignalOf(semafors)
  BY <1>1 DEF NoTaskLostOf, NoLostSignalOf
<1>4. WaitersMatchOf(readyqueue, semafors, waiting)
  BY <1>1, EmptyList DEF WaitersMatchOf, Sem, NoSem
<1> QED
  BY <1>2, <1>3, <1>4 DEF ListInv

\* A new process takes its PCB from the free list to the ready list.
LEMMA NewProcessLists ==
  ASSUME IInv, NEW child, NewProcess(child)
  PROVE  ListInv(running', readyqueue', freequeue', semafors', waiting')
<1>1. /\ child \in freequeue /\ child \in Task /\ readyqueue \in Seq(Task)
      /\ freequeue' = freequeue \ {child} /\ readyqueue' = Append(readyqueue, child)
      /\ UNCHANGED <<running, semafors, waiting>>
  BY DEF NewProcess, IInv, TypeInv, TypeOK
<1>2. child \notin Range(readyqueue) /\ NoDuplicates(readyqueue)
  BY <1>1 DEF IInv, ListInv, OnePlaceOf
<1>3. Range(readyqueue') = Range(readyqueue) \cup {child} /\ NoDuplicates(readyqueue')
  BY <1>1, <1>2, AppendToList
<1>4. OnePlaceOf(running', readyqueue', freequeue', semafors')
  BY <1>1, <1>3 DEF IInv, ListInv, OnePlaceOf
<1>5. NoTaskLostOf(running', readyqueue', freequeue', semafors')
  BY <1>1, <1>3 DEF IInv, ListInv, NoTaskLostOf
<1>6. NoLostSignalOf(semafors') /\ WaitersMatchOf(readyqueue', semafors', waiting')
  BY <1>1, <1>3 DEF IInv, ListInv, NoLostSignalOf, WaitersMatchOf
<1> QED
  BY <1>4, <1>5, <1>6 DEF ListInv

\* No system call and no clock tick puts a task in two places or loses one.
LEMMA NextLists == IInv /\ [Next]_vars => ListInv(running, readyqueue, freequeue, semafors, waiting)'
<1> SUFFICES ASSUME IInv, [Next]_vars
             PROVE  ListInv(running', readyqueue', freequeue', semafors', waiting')
  OBVIOUS
<1>0. /\ readyqueue \in Seq(Task) /\ freequeue \in SUBSET Task /\ semafors \in [Sem -> Semaphore]
      /\ waiting \in [Task -> Sem \cup {NoSem}] /\ running \in Task \cup {Idle}
      /\ ListInv(running, readyqueue, freequeue, semafors, waiting)
  BY DEF IInv, TypeInv, TypeOK
<1>1. CASE ClockTick
  <2>1. freequeue' = freequeue
    BY <1>1 DEF ClockTick, processVars
  <2>2. CASE running = Idle /\ sched_next_rr(readyqueue, semafors, waiting)
    BY <1>0, <2>1, <2>2, ScheduleLists
  <2>3. CASE running # Idle /\ sched_next_rr(Append(readyqueue, running), semafors, waiting)
    <3>1. running \in Task /\ Append(readyqueue, running) \in Seq(Task)
      BY <1>0, <2>3
    <3> QED
      BY <1>0, <2>1, <2>3, <3>1, PreemptLists, ScheduleLists
  <2>4. CASE UNCHANGED <<running, readyqueue, semafors, waiting>>
    BY <1>0, <2>1, <2>4
  <2> QED
    BY <1>1, <2>2, <2>3, <2>4 DEF ClockTick
<1>2. CASE Fork \/ Clone
  BY <1>2, NewProcessLists DEF Fork, Clone
<1>3. CASE ExitBegins
  BY <1>0, <1>3 DEF ExitBegins
<1>4. CASE ExitDestroys
  <2>1. UNCHANGED <<running, freequeue, waiting>>
    BY <1>4 DEF ExitDestroys
  <2>2. CASE UNCHANGED <<semafors, readyqueue>>
    BY <1>0, <2>1, <2>2
  <2>3. CASE exiting \in Sem /\ internal_sem_destroy(exiting)
    BY <2>1, <2>3, DestroyLists
  <2> QED
    BY <1>4, <2>2, <2>3 DEF ExitDestroys
<1>5. CASE ExitEnds
  <2>1. running \in Task
    BY <1>5, NumbersAssumption DEF ExitEnds, IInv, TypeInv, TypeOK, NotExiting
  <2>2. freequeue' = freequeue \cup {running} /\ sched_next_rr(readyqueue, semafors, waiting)
    BY <1>5 DEF ExitEnds
  <2>3. Range(readyqueue) \subseteq Task /\ \A s \in Sem: Range(semafors[s].blocked) \subseteq Task
    BY <1>0 DEF Range, Semaphore
  <2>4. OnePlaceOf(Idle, readyqueue, freequeue', semafors)
    BY <1>0, <2>1, <2>2, <2>3, RunningIsNowhere, TasksAssumption DEF ListInv, OnePlaceOf
  <2>5. NoTaskLostOf(Idle, readyqueue, freequeue', semafors)
    BY <1>0, <2>2 DEF ListInv, NoTaskLostOf
  <2>6. ListInv(Idle, readyqueue, freequeue', semafors, waiting) /\ freequeue' \in SUBSET Task
    BY <1>0, <2>1, <2>2, <2>4, <2>5 DEF ListInv
  <2> QED
    BY <1>0, <2>2, <2>6, ScheduleLists
<1>6. CASE SemCalls
  <2>1. ASSUME NEW n \in SemId, NEW value \in 0..MaxCount, sem_init(n, value)
        PROVE  ListInv(running', readyqueue', freequeue', semafors', waiting')
    <3>1. PICK s \in Sem:
            /\ semafors[s].used = 0
            /\ semafors' = [semafors EXCEPT ![s] =
                 [id |-> n, count |-> value, owner |-> pid[running], used |-> 1, blocked |-> <<>>]]
      BY <2>1 DEF sem_init, IsFirstFree
    <3>2. semafors[s].blocked = <<>>
      BY <1>0, <3>1 DEF ListInv, NoLostSignalOf
    <3>3. ListInv(running, readyqueue, freequeue, semafors', waiting)
      BY <3>1, <3>2, SameLists
    <3> QED
      BY <2>1, <3>3 DEF sem_init, processVars
  <2>2. ASSUME NEW n \in SemId, sem_wait_takes(n)
        PROVE  ListInv(running', readyqueue', freequeue', semafors', waiting')
    <3>1. PICK s \in Sem: /\ semafors[s].count > 0
                          /\ semafors' = [semafors EXCEPT ![s] = [semafors[s] EXCEPT !.count = @ - 1]]
      BY <2>2 DEF sem_wait_takes
    <3>2. semafors[s].blocked = <<>>
      BY <1>0, <3>1 DEF ListInv, NoLostSignalOf
    <3>3. <<>> = [semafors[s] EXCEPT !.count = @ - 1].blocked
      BY <1>0, <3>2 DEF Semaphore
    <3>4. ListInv(running, readyqueue, freequeue, semafors', waiting)
      BY <3>1, <3>2, <3>3, SameLists
    <3> QED
      BY <2>2, <3>4 DEF sem_wait_takes, processVars
  <2>3. ASSUME NEW n \in SemId, sem_wait_blocks(n)
        PROVE  ListInv(running', readyqueue', freequeue', semafors', waiting')
    <3>1. running \in Task
      BY <1>0, <2>3 DEF sem_wait_blocks, InCall
    <3>2. PICK s \in Sem:
            /\ semafors[s].used > 0 /\ semafors[s].count = 0
            /\ sched_next_rr(readyqueue, [semafors EXCEPT ![s].blocked = Append(@, running)],
                             [waiting EXCEPT ![running] = s])
      BY <2>3 DEF sem_wait_blocks, Names
    <3>3. [semafors EXCEPT ![s].blocked = Append(@, running)] \in [Sem -> Semaphore]
          /\ [waiting EXCEPT ![running] = s] \in [Task -> Sem \cup {NoSem}]
      BY <1>0, <3>1, SemaphoresType
    <3> QED
      BY <1>0, <2>3, <3>1, <3>2, <3>3, BlockLists, ScheduleLists DEF sem_wait_blocks, processVars
  <2>4. ASSUME NEW n \in SemId, sem_signal(n)
        PROVE  ListInv(running', readyqueue', freequeue', semafors', waiting')
    <3>1. UNCHANGED <<running, freequeue, waiting>>
      BY <2>4 DEF sem_signal, processVars
    <3>2. PICK s \in Sem:
            \/ /\ semafors[s].blocked = <<>>
               /\ semafors' = [semafors EXCEPT ![s] = [semafors[s] EXCEPT !.count = @ + 1]]
               /\ UNCHANGED readyqueue
            \/ /\ semafors[s].blocked # <<>>
               /\ semafors' = [semafors EXCEPT ![s].blocked = Tail(@)]
               /\ readyqueue' = Append(readyqueue, Head(semafors[s].blocked))
      BY <2>4 DEF sem_signal
    <3>3. semafors[s].blocked = [semafors[s] EXCEPT !.count = @ + 1].blocked
      BY <1>0 DEF Semaphore
    <3>4. CASE semafors[s].blocked = <<>>
      <4>1. ListInv(running, readyqueue, freequeue, semafors', waiting)
        BY <3>2, <3>3, <3>4, SameLists
      <4> QED
        BY <3>1, <3>2, <3>4, <4>1
    <3>5. CASE semafors[s].blocked # <<>>
      BY <3>1, <3>2, <3>5, WakeLists
    <3> QED
      BY <3>4, <3>5
  <2>5. ASSUME NEW n \in SemId, sem_destroy(n)
        PROVE  ListInv(running', readyqueue', freequeue', semafors', waiting')
    BY <2>5, DestroyLists DEF sem_destroy, processVars
  <2> QED
    BY <1>6, <2>1, <2>2, <2>3, <2>4, <2>5 DEF SemCalls
<1>7. CASE UNCHANGED vars
  BY <1>0, <1>7 DEF vars
<1> QED
  BY <1>1, <1>2, <1>3, <1>4, <1>5, <1>6, <1>7 DEF Next, Exit

\* The inductive invariant holds in every state.
LEMMA InvariantHolds == Spec => []IInv
<1>1. Init => IInv
  BY InitTypeInv, InitLists DEF IInv
<1>2. IInv /\ [Next]_vars => IInv'
  BY NextTypeInv, NextLists DEF IInv
<1> QED
  BY <1>1, <1>2, PTL DEF Spec

\* No task is lost and none is in two lists at a time, whatever semaphores it
\* blocks on and in whatever order processes are created, woken and destroyed.
THEOREM EveryTaskInOnePlace == Spec => [](OnePlace /\ NoTaskLost)
<1>1. IInv => OnePlace
  BY DEF IInv, ListInv, OnePlaceOf, OnePlace, Blocked
<1>2. IInv => NoTaskLost
  BY DEF IInv, ListInv, NoTaskLostOf, NoTaskLost, Blocked
<1> QED
  BY <1>1, <1>2, InvariantHolds, PTL

\* No signal is lost: a semaphore with a blocked task has counted all its signals.
THEOREM SignalsAreNotLost == Spec => []NoLostSignal
<1>1. IInv => NoLostSignal
  BY DEF IInv, ListInv, NoLostSignalOf, NoLostSignal
<1> QED
  BY <1>1, InvariantHolds, PTL

\* A task is in the blocked list of a semaphore only inside sem_wait on it, and
\* once out of the list it is ready to finish that call.
THEOREM WaitersAreBlockedOrReady == Spec => []WaitersMatch
<1>1. IInv => WaitersMatch
  BY DEF IInv, ListInv, WaitersMatchOf, WaitersMatch, Blocked
<1> QED
  BY <1>1, InvariantHolds, PTL

-----------------------------------------------------------------------------
(***************************************************************************)
(* Counters.  dir_usage and the negative values of used count tasks, so    *)
(* these invariants are about cardinalities of sets of tasks.              *)
(***************************************************************************)

\* A list that holds every task once is as long as the set of its tasks.
LEMMA LengthOfList ==
  ASSUME NEW S, NEW q \in Seq(S), NoDuplicates(q)
  PROVE  IsFiniteSet(Range(q)) /\ Cardinality(Range(q)) = Len(q)
<1>1. Len(q) \in Nat /\ DOMAIN q = 1..Len(q)
  OBVIOUS
<1>2. q \in Bijection(1..Len(q), Range(q))
  BY <1>1 DEF Range, NoDuplicates, Bijection, Injection, Surjection, IsInjective
<1>3. IsFiniteSet(1..Len(q)) /\ Cardinality(1..Len(q)) = Len(q)
  BY <1>1, FS_Interval
<1>4. ExistsBijection(1..Len(q), Range(q))
  BY <1>2 DEF ExistsBijection
<1> QED
  BY <1>3, <1>4, FS_Bijection

\* For every count below zero there is a task that is still to finish sem_wait.
\* Stated, like ListInv, for the middle of a handler as well.
Suspended(wait, s) == {t \in Task: wait[t] = s}
ReclaimOf(sems, wait) == \A s \in Sem: 0 - sems[s].used <= Cardinality(Suspended(wait, s))

\* Sets of tasks are finite; their sizes are numbers.
LEMMA TasksCount ==
  ASSUME NEW S \in SUBSET Task
  PROVE  IsFiniteSet(S) /\ Cardinality(S) \in Nat
BY TasksAssumption, FS_Subset, FS_CardinalityType

LEMMA SuspendedCount ==
  ASSUME NEW wait, NEW s
  PROVE  IsFiniteSet(Suspended(wait, s)) /\ Cardinality(Suspended(wait, s)) \in Nat
BY TasksCount DEF Suspended

\* A resumed sem_wait counts the semaphore up and is one call less under way.
LEMMA ScheduleReclaims ==
  ASSUME NEW q \in Seq(Task), NEW sems \in [Sem -> Semaphore],
         NEW wait \in [Task -> Sem \cup {NoSem}],
         ReclaimOf(sems, wait), sched_next_rr(q, sems, wait)
  PROVE  ReclaimOf(semafors', waiting')
<1>1. CASE q # <<>> /\ wait[Head(q)] # NoSem
  <2> DEFINE h == Head(q)
             s == wait[h]
  <2>1. h \in Task /\ s \in Sem
    BY <1>1
  <2>2. SemWaitResumes(h, sems, wait)
    BY <1>1 DEF sched_next_rr
  <2>3. waiting' = [wait EXCEPT ![h] = NoSem]
    BY <2>2 DEF SemWaitResumes
  <2>4. NoSem \notin Sem
    BY DEF NoSem, Sem
  <2>5. ASSUME NEW r \in Sem, r # s
        PROVE  0 - semafors'[r].used <= Cardinality(Suspended(waiting', r))
    <3>1. semafors'[r] = sems[r]
      BY <2>2, <2>5 DEF SemWaitResumes
    <3>2. Suspended(waiting', r) = Suspended(wait, r)
      BY <2>1, <2>3, <2>4, <2>5 DEF Suspended
    <3> QED
      BY <3>1, <3>2 DEF ReclaimOf
  <2>6. 0 - semafors'[s].used <= Cardinality(Suspended(waiting', s))
    <3> DEFINE W == Suspended(wait, s)
    <3>1. Suspended(waiting', s) = W \ {h}
      BY <2>1, <2>3, <2>4 DEF Suspended
    <3>2. h \in W /\ IsFiniteSet(W) /\ Cardinality(W) \in Nat
      BY <2>1, SuspendedCount DEF Suspended
    <3>3. Cardinality(W \ {h}) = Cardinality(W) - 1 /\ Cardinality(W \ {h}) \in Nat
      BY <3>1, <3>2, FS_RemoveElement, SuspendedCount
    <3>4. 0 - sems[s].used <= Cardinality(W) /\ sems[s].used \in Int
      BY <2>1 DEF ReclaimOf, Semaphore
    <3>5. semafors'[s].used = IF sems[s].used < 0 THEN sems[s].used + 1 ELSE sems[s].used
      BY <2>1, <2>2 DEF SemWaitResumes, Semaphore
    <3> HIDE DEF W
    <3> QED
      BY <3>1, <3>2, <3>3, <3>4, <3>5
  <2> QED
    BY <2>5, <2>6 DEF ReclaimOf
<1>2. CASE ~(q # <<>> /\ wait[Head(q)] # NoSem)
  BY <1>2 DEF sched_next_rr, ReclaimOf
<1> QED
  BY <1>1, <1>2

\* internal_sem_destroy counts as many tasks as were blocked.
LEMMA DestroyReclaims ==
  ASSUME IInv, ReclaimOf(semafors, waiting), NEW s \in Sem, internal_sem_destroy(s)
  PROVE  ReclaimOf(semafors', waiting)
<1> DEFINE b == semafors[s].blocked
           W == Suspended(waiting, s)
<1>1. semafors \in [Sem -> Semaphore] /\ b \in Seq(Task) /\ Len(b) \in Nat
  BY DEF IInv, TypeInv, TypeOK, Semaphore
<1>2. NoDuplicates(b) /\ Range(b) \in SUBSET W
  <2>1. Range(b) \subseteq Task
    BY <1>1 DEF Range
  <2> QED
    BY <2>1 DEF IInv, ListInv, OnePlaceOf, WaitersMatchOf, Suspended
<1>3. IsFiniteSet(W) /\ Cardinality(W) \in Nat
  BY SuspendedCount
<1>4. Len(b) <= Cardinality(W)
  <2>1. Cardinality(Range(b)) = Len(b)
    BY <1>1, <1>2, LengthOfList
  <2> HIDE DEF W
  <2> QED
    BY <1>2, <1>3, <2>1, FS_Subset
<1>5. semafors'[s].used = 0 - Len(b)
  BY <1>1 DEF internal_sem_destroy, Unused
<1>6. \A r \in Sem \ {s}: semafors'[r] = semafors[r]
  BY <1>1 DEF internal_sem_destroy
<1> QED
  BY <1>1, <1>3, <1>4, <1>5, <1>6 DEF ReclaimOf

\* Operations that leave the waiting tasks alone and count no semaphore down.
LEMMA SameReclaims ==
  ASSUME TypeOK, ReclaimOf(semafors, waiting), NEW s \in Sem, NEW x \in Semaphore,
         x.used >= semafors[s].used,
         semafors' = [semafors EXCEPT ![s] = x]
  PROVE  ReclaimOf(semafors', waiting)
<1>1. semafors \in [Sem -> Semaphore] /\ semafors[s].used \in Int /\ x.used \in Int
  BY DEF TypeOK, Semaphore
<1>2. semafors'[s] = x /\ \A r \in Sem \ {s}: semafors'[r] = semafors[r]
  BY <1>1
<1>3. Cardinality(Suspended(waiting, s)) \in Nat
  BY SuspendedCount
<1> QED
  BY <1>1, <1>2, <1>3 DEF ReclaimOf

\* No call and no clock tick loses a destroyed semaphore.
LEMMA NextReclaims ==
  IInv /\ ReclaimOf(semafors, waiting) /\ [Next]_vars => ReclaimOf(semafors, waiting)'
<1> SUFFICES ASSUME IInv, ReclaimOf(semafors, waiting), [Next]_vars
             PROVE  ReclaimOf(semafors', waiting')
  OBVIOUS
<1>0. /\ readyqueue \in Seq(Task) /\ semafors \in [Sem -> Semaphore]
      /\ waiting \in [Task -> Sem \cup {NoSem}] /\ running \in Task \cup {Idle} /\ TypeOK
      /\ \A s \in Sem: semafors[s].used \in Int
  BY DEF IInv, TypeInv, TypeOK, Semaphore
<1>1. CASE ClockTick
  <2>1. CASE sched_next_rr(readyqueue, semafors, waiting)
    BY <1>0, <2>1, ScheduleReclaims
  <2>2. CASE running # Idle /\ sched_next_rr(Append(readyqueue, running), semafors, waiting)
    <3>1. Append(readyqueue, running) \in Seq(Task)
      BY <1>0, <2>2
    <3> QED
      BY <1>0, <2>2, <3>1, ScheduleReclaims
  <2> QED
    BY <1>1, <2>1, <2>2 DEF ClockTick
<1>2. CASE UNCHANGED <<semafors, waiting>>
  BY <1>2
<1>3. CASE ExitDestroys
  BY <1>3, DestroyReclaims DEF ExitDestroys
<1>4. CASE ExitEnds
  BY <1>0, <1>4, ScheduleReclaims DEF ExitEnds
<1>5. ASSUME NEW n \in SemId, NEW value \in 0..MaxCount, sem_init(n, value)
      PROVE  ReclaimOf(semafors', waiting')
  <2>1. PICK s \in Sem:
          /\ semafors[s].used = 0
          /\ semafors' = [semafors EXCEPT ![s] =
               [id |-> n, count |-> value, owner |-> pid[running], used |-> 1, blocked |-> <<>>]]
    BY <1>5 DEF sem_init, IsFirstFree
  <2> DEFINE x == [id |-> n, count |-> value, owner |-> pid[running], used |-> 1, blocked |-> <<>>]
  <2>2. x \in Semaphore /\ x.used >= semafors[s].used
    BY <1>5, <2>1 DEF sem_init, InCall, TypeOK, Semaphore, IInv, TypeInv
  <2>3. semafors' = [semafors EXCEPT ![s] = x]
    BY <2>1
  <2> HIDE DEF x
  <2>4. ReclaimOf(semafors', waiting)
    BY <1>0, <2>2, <2>3, SameReclaims
  <2> QED
    BY <1>5, <2>4 DEF sem_init
<1>6. ASSUME NEW n \in SemId, sem_wait_takes(n)
      PROVE  ReclaimOf(semafors', waiting')
  <2>1. PICK s \in Sem: /\ semafors[s].count > 0
                        /\ semafors' = [semafors EXCEPT ![s] = [semafors[s] EXCEPT !.count = @ - 1]]
    BY <1>6 DEF sem_wait_takes
  <2> DEFINE x == [semafors[s] EXCEPT !.count = @ - 1]
  <2>2. x \in Semaphore /\ x.used >= semafors[s].used
    <3>1. x \in Semaphore
      BY <1>0, <2>1, SemaphoreType
    <3>2. x.used = semafors[s].used
      BY <1>0 DEF Semaphore
    <3> QED
      BY <1>0, <3>1, <3>2
  <2>3. ReclaimOf(semafors', waiting)
    <3> HIDE DEF x
    <3> QED
      BY <1>0, <2>1, <2>2, SameReclaims DEF x
  <2> QED
    BY <1>6, <2>3 DEF sem_wait_takes
<1>7. ASSUME NEW n \in SemId, sem_wait_blocks(n)
      PROVE  ReclaimOf(semafors', waiting')
  <2>1. PICK s \in Sem:
          /\ semafors[s].used > 0
          /\ sched_next_rr(readyqueue, [semafors EXCEPT ![s].blocked = Append(@, running)],
                           [waiting EXCEPT ![running] = s])
    BY <1>7 DEF sem_wait_blocks, Names
  <2> DEFINE sems == [semafors EXCEPT ![s].blocked = Append(@, running)]
             wait == [waiting EXCEPT ![running] = s]
  <2>2. running \in Task /\ waiting[running] = NoSem
    BY <1>0, <1>7, RunningIsNowhere DEF sem_wait_blocks, InCall
  <2>3. sems \in [Sem -> Semaphore] /\ wait \in [Task -> Sem \cup {NoSem}]
    BY <1>0, <2>2, SemaphoresType
  <2>4. \A r \in Sem: sems[r].used = semafors[r].used
    BY <1>0 DEF Semaphore
  <2>5. \A r \in Sem \ {s}: Suspended(wait, r) = Suspended(waiting, r)
    BY <1>0, <2>2 DEF NoSem, Sem, Suspended
  <2>6. Cardinality(Suspended(wait, s)) \in Nat
    BY SuspendedCount
  <2> HIDE DEF sems, wait
  <2>7. ReclaimOf(sems, wait)
    BY <1>0, <2>1, <2>4, <2>5, <2>6 DEF ReclaimOf
  <2> QED
    BY <1>0, <2>1, <2>3, <2>7, ScheduleReclaims DEF sems, wait
<1>8. ASSUME NEW n \in SemId, sem_signal(n)
      PROVE  ReclaimOf(semafors', waiting')
  <2>1. PICK s \in Sem, x \in Semaphore:
          x.used >= semafors[s].used /\ semafors' = [semafors EXCEPT ![s] = x]
    <3>1. PICK s \in Sem:
            \/ semafors' = [semafors EXCEPT ![s] = [semafors[s] EXCEPT !.count = @ + 1]]
            \/ /\ semafors[s].blocked # <<>>
               /\ semafors' = [semafors EXCEPT ![s] = [semafors[s] EXCEPT !.blocked = Tail(@)]]
      BY <1>8 DEF sem_signal
    <3>2. /\ [semafors[s] EXCEPT !.count = @ + 1] \in Semaphore
          /\ semafors[s].blocked # <<>> => [semafors[s] EXCEPT !.blocked = Tail(@)] \in Semaphore
      BY <1>0, SemaphoreType
    <3>3. /\ [semafors[s] EXCEPT !.count = @ + 1].used = semafors[s].used
          /\ [semafors[s] EXCEPT !.blocked = Tail(@)].used = semafors[s].used
      BY <1>0 DEF Semaphore
    <3>4. \A y: y.used = semafors[s].used => y.used >= semafors[s].used
      BY <1>0
    <3> QED
      BY <3>1, <3>2, <3>3, <3>4, Zenon
  <2>2. ReclaimOf(semafors', waiting)
    BY <1>0, <2>1, SameReclaims
  <2> QED
    BY <1>8, <2>2 DEF sem_signal
<1>9. ASSUME NEW n \in SemId, sem_destroy(n)
      PROVE  ReclaimOf(semafors', waiting')
  BY <1>9, DestroyReclaims DEF sem_destroy
<1>10. CASE Fork \/ Clone \/ ExitBegins \/ UNCHANGED vars
  BY <1>2, <1>10 DEF Fork, Clone, NewProcess, ExitBegins, vars
<1> QED
  BY <1>1, <1>3, <1>4, <1>5, <1>6, <1>7, <1>8, <1>9, <1>10 DEF Next, Exit, SemCalls

\* No destroyed semaphore stays unusable for lack of a task to count it up: -k
\* always has k suspended calls behind it, so get_free_semafor finds it again.
THEOREM DestroyedComesBack == Spec => []DestroyedIsReclaimable
<1>1. Init => ReclaimOf(semafors, waiting)
  <2> SUFFICES ASSUME Init, NEW s \in Sem
               PROVE  0 - semafors[s].used <= Cardinality(Suspended(waiting, s))
    BY DEF ReclaimOf
  <2>1. semafors[s].used = 0
    BY DEF Init, FreeSem
  <2> QED
    BY <2>1, SuspendedCount
<1>2. IInv /\ ReclaimOf(semafors, waiting) => DestroyedIsReclaimable
  <2> SUFFICES ASSUME IInv, ReclaimOf(semafors, waiting), NEW s \in Sem
               PROVE  0 - semafors[s].used <= Cardinality(Resumers(s))
    BY DEF DestroyedIsReclaimable
  <2>1. semafors[s].used \in Int /\ Cardinality(Resumers(s)) \in Nat
    BY TasksCount DEF IInv, TypeInv, TypeOK, Semaphore, Resumers
  <2>2. CASE semafors[s].blocked = <<>>
    <3>1. Resumers(s) = Suspended(waiting, s)
      BY <2>2, EmptyList DEF Resumers, Blocked, Suspended
    <3> QED
      BY <3>1 DEF ReclaimOf
  <2>3. CASE semafors[s].blocked # <<>>
    BY <2>1, <2>3 DEF IInv, ListInv, NoLostSignalOf
  <2> QED
    BY <2>2, <2>3
<1> QED
  BY <1>1, <1>2, NextReclaims, InvariantHolds, PTL DEF Spec

-----------------------------------------------------------------------------
\* A fork always finds a directory of its own: while a PCB is free, fewer tasks
\* are alive than there are directories, so the branch of allocate_DIR that
\* shares the parent's without counting is never taken.
LEMMA FreeDirectory ==
  ASSUME TypeOK, DirUsageCounts, NEW child \in freequeue
  PROVE  \E d \in Task: dir_usage[d] = 0
<1> SUFFICES ASSUME \A d \in Task: dir_usage[d] # 0 PROVE FALSE
  OBVIOUS
<1> DEFINE Live == Task \ freequeue
           used == [t \in Live |-> dir[t]]
<1>1. freequeue \subseteq Task /\ dir \in [Task -> Task]
  BY DEF TypeOK
<1>2. used \in Surjection(Live, Task)
  <2>1. used \in [Live -> Task]
    BY <1>1
  <2>2. ASSUME NEW d \in Task PROVE \E t \in Live: used[t] = d
    <3>1. Cardinality(UsesDir(d)) # 0
      BY DEF DirUsageCounts
    <3>2. UsesDir(d) # {}
      BY <3>1, FS_EmptySet
    <3> QED
      BY <3>2 DEF UsesDir
  <2> QED
    BY <2>1, <2>2 DEF Surjection
<1>3. IsFiniteSet(Live) /\ Cardinality(Task) <= Cardinality(Live)
  BY <1>2, TasksCount, FS_Surjection
<1>4. Live \in SUBSET Task /\ Live # Task
  BY <1>1
<1>5. Cardinality(Live) <= Cardinality(Task) /\ Cardinality(Live) # Cardinality(Task)
  BY <1>4, TasksAssumption, FS_Subset
<1>6. Cardinality(Live) \in Nat /\ Cardinality(Task) \in Nat
  BY <1>4, TasksCount
<1> QED
  BY <1>3, <1>5, <1>6

\* Address spaces are counted by the handlers as they gain and lose users.
LEMMA NextDirs == IInv /\ DirUsageCounts /\ [Next]_vars => DirUsageCounts'
<1> SUFFICES ASSUME IInv, DirUsageCounts, [Next]_vars, NEW e \in Task
             PROVE  dir_usage'[e] = Cardinality(UsesDir(e)')
  BY DEF DirUsageCounts
<1>0. /\ freequeue \subseteq Task /\ dir \in [Task -> Task] /\ dir_usage \in [Task -> Int]
      /\ running \notin freequeue /\ TypeOK /\ dir_usage[e] = Cardinality(UsesDir(e))
  BY DEF IInv, TypeInv, TypeOK, ListInv, OnePlaceOf, DirUsageCounts
<1>1. IsFiniteSet(UsesDir(e)) /\ Cardinality(UsesDir(e)) \in Nat
  BY TasksCount DEF UsesDir
<1>2. ASSUME exiting = NotExiting, UNCHANGED processVars
      PROVE  dir_usage'[e] = Cardinality(UsesDir(e)')
  <2>1. UsesDir(e)' = UsesDir(e)
    BY <1>2 DEF UsesDir, processVars
  <2> QED
    BY <1>0, <1>2, <2>1 DEF processVars
<1>3. CASE ClockTick \/ SemCalls
  BY <1>2, <1>3 DEF ClockTick, SemCalls, sem_init, sem_wait_takes, sem_wait_blocks, sem_signal,
                    sem_destroy, InCall
<1>4. ASSUME NEW child \in freequeue, NewProcess(child), exiting = NotExiting,
             NEW d \in Task, dir' = [dir EXCEPT ![child] = d]
      PROVE  UsesDir(e)' = IF e = d THEN UsesDir(e) \cup {child} ELSE UsesDir(e)
  BY <1>0, <1>4 DEF NewProcess, UsesDir
<1>5. ASSUME NEW child \in freequeue PROVE child \notin UsesDir(e)
  BY <1>5 DEF UsesDir
<1>6. CASE Fork
  <2>1. PICK child \in freequeue: NewProcess(child) /\ allocate_DIR(child)
    BY <1>6 DEF Fork
  <2>2. PICK d \in Task: /\ dir_usage[d] = 0
                         /\ dir_usage' = [dir_usage EXCEPT ![d] = 1]
                         /\ dir' = [dir EXCEPT ![child] = d]
    BY <1>0, <2>1, FreeDirectory DEF allocate_DIR
  <2>3. UsesDir(e)' = IF e = d THEN UsesDir(e) \cup {child} ELSE UsesDir(e)
    BY <1>4, <1>6, <2>1, <2>2 DEF Fork, InCall
  <2>4. Cardinality(UsesDir(e) \cup {child}) = Cardinality(UsesDir(e)) + 1
    BY <1>1, <1>5, <2>1, FS_AddElement
  <2>5. dir_usage'[e] = IF e = d THEN 1 ELSE dir_usage[e]
    BY <1>0, <2>2
  <2> QED
    BY <1>0, <2>2, <2>3, <2>4, <2>5
<1>7. CASE Clone
  <2>1. PICK child \in freequeue:
          /\ NewProcess(child)
          /\ dir' = [dir EXCEPT ![child] = dir[running]]
          /\ dir_usage' = [dir_usage EXCEPT ![dir[running]] = @ + 1]
    BY <1>7 DEF Clone
  <2>2. dir[running] \in Task
    BY <1>0, <1>7 DEF Clone, InCall, TypeOK
  <2>3. UsesDir(e)' = IF e = dir[running] THEN UsesDir(e) \cup {child} ELSE UsesDir(e)
    BY <1>4, <1>7, <2>1, <2>2 DEF Clone, InCall
  <2>4. Cardinality(UsesDir(e) \cup {child}) = Cardinality(UsesDir(e)) + 1
    BY <1>1, <1>5, <2>1, FS_AddElement
  <2>5. dir_usage'[e] = IF e = dir[running] THEN dir_usage[e] + 1 ELSE dir_usage[e]
    BY <1>0, <2>1, <2>2
  <2> QED
    BY <1>0, <2>3, <2>4, <2>5
<1>8. CASE ExitBegins
  <2>1. running \in Task /\ dir[running] \in Task /\ exiting = NotExiting
        /\ exiting' # NotExiting /\ UNCHANGED <<running, freequeue, dir>>
    BY <1>0, <1>8 DEF ExitBegins, InCall, TypeOK, NotExiting
  <2>2. UsesDir(e)' = UsesDir(e) \ {running}
    BY <2>1 DEF UsesDir
  <2>3. running \in UsesDir(e) <=> e = dir[running]
    BY <1>0, <2>1 DEF UsesDir
  <2>4. Cardinality(UsesDir(e) \ {running}) =
          IF running \in UsesDir(e) THEN Cardinality(UsesDir(e)) - 1 ELSE Cardinality(UsesDir(e))
    BY <1>1, FS_RemoveElement
  <2>5. dir_usage'[e] = IF e = dir[running] THEN dir_usage[e] - 1 ELSE dir_usage[e]
    BY <1>0, <1>8, <2>1 DEF ExitBegins
  <2> QED
    BY <1>0, <2>2, <2>3, <2>4, <2>5
<1>9. CASE ExitDestroys
  <2>1. exiting # NotExiting /\ exiting' # NotExiting
    BY <1>9 DEF ExitDestroys, Sem, NotExiting
  <2>2. UsesDir(e)' = UsesDir(e)
    BY <1>9, <2>1 DEF ExitDestroys, UsesDir
  <2> QED
    BY <1>0, <1>9, <2>2 DEF ExitDestroys
<1>10. CASE ExitEnds
  <2>1. exiting # NotExiting /\ exiting' = NotExiting
    BY <1>10, NumbersAssumption DEF ExitEnds, NotExiting
  <2>2. UsesDir(e)' = UsesDir(e)
    BY <1>10, <2>1 DEF ExitEnds, UsesDir
  <2> QED
    BY <1>0, <1>10, <2>2 DEF ExitEnds
<1>11. CASE UNCHANGED vars
  BY <1>0, <1>11 DEF vars, UsesDir
<1> QED
  BY <1>3, <1>6, <1>7, <1>8, <1>9, <1>10, <1>11 DEF Next, Exit

\* dir_usage is the number of processes of an address space, so sys_exit frees
\* the pages with the last of them and not before.
THEOREM DirUsageIsCounted == Spec => []DirUsageCounts
<1>1. Init => DirUsageCounts
  <2> SUFFICES ASSUME Init, NEW d \in Task PROVE dir_usage[d] = Cardinality(UsesDir(d))
    BY DEF DirUsageCounts
  <2>1. UsesDir(d) = IF d = InitTask THEN {InitTask} ELSE {}
    BY TasksAssumption DEF Init, UsesDir
  <2> QED
    BY <2>1, FS_EmptySet, FS_Singleton DEF Init
<1> QED
  BY <1>1, NextDirs, InvariantHolds, PTL DEF Spec

-----------------------------------------------------------------------------
(***************************************************************************)
(* Owners of semaphores.  PIDs of living processes are different because   *)
(* none exceeds PID, the last one given out.  The loop of sys_exit keeps,  *)
(* step by step, that the semaphores it has passed are not its own any     *)
(* more: that is what makes it safe to free the PCB after the last one.    *)
(***************************************************************************)

PidsOf(free, pids, last) ==
  /\ \A t \in Task \ free: pids[t] \in Nat /\ pids[t] <= last
  /\ \A t, u \in Task \ free: pids[t] = pids[u] => t = u

NamesOf(sems) ==
  \A s \in Sem: sems[s].used > 0 =>
    /\ sems[s].id # NoId
    /\ \A r \in Sem \ {s}: sems[r].id # sems[s].id

OwnersOf(free, pids, sems) ==
  \A s \in Sem: sems[s].used > 0 => \E t \in Task \ free: pids[t] = sems[s].owner

DestroyedSoFar ==
  \A s \in Sem: s < exiting /\ semafors[s].used > 0 => semafors[s].owner # pid[running]

OwnerInv ==
  /\ PidsOf(freequeue, pid, PID)
  /\ NamesOf(semafors)
  /\ OwnersOf(freequeue, pid, semafors)
  /\ DestroyedSoFar

\* What resuming a suspended sem_wait leaves alone.
LEMMA ScheduleOwners ==
  ASSUME NEW q \in Seq(Task), NEW sems \in [Sem -> Semaphore],
         NEW wait \in [Task -> Sem \cup {NoSem}], sched_next_rr(q, sems, wait)
  PROVE  \A s \in Sem: /\ semafors'[s].id = sems[s].id /\ semafors'[s].owner = sems[s].owner
                       /\ semafors'[s].used > 0 => sems[s].used > 0
<1>1. CASE q # <<>> /\ wait[Head(q)] # NoSem
  <2> DEFINE w == wait[Head(q)]
  <2>1. w \in Sem /\ SemWaitResumes(Head(q), sems, wait)
    BY <1>1 DEF sched_next_rr
  <2>2. \A s \in Sem: sems[s] \in Semaphore /\ sems[s].used \in Int
    BY DEF Semaphore
  <2>3. CASE sems[w].used < 0
    <3>1. semafors' = [sems EXCEPT ![w].used = @ + 1]
      BY <2>1, <2>3 DEF SemWaitResumes
    <3>2. ASSUME NEW s \in Sem PROVE semafors'[s].id = sems[s].id /\ semafors'[s].owner = sems[s].owner
      BY <2>2, <3>1 DEF Semaphore
    <3>3. ASSUME NEW s \in Sem, semafors'[s].used > 0 PROVE sems[s].used > 0
      BY <2>1, <2>2, <2>3, <3>1, <3>3 DEF Semaphore
    <3> QED
      BY <3>2, <3>3
  <2>4. CASE ~(sems[w].used < 0)
    BY <2>1, <2>4 DEF SemWaitResumes
  <2> QED
    BY <2>3, <2>4
<1>2. CASE ~(q # <<>> /\ wait[Head(q)] # NoSem)
  BY <1>2 DEF sched_next_rr
<1> QED
  BY <1>1, <1>2

\* Operations after which no more semaphores are in use than before, under the
\* same numbers and owners, while processes stay as they are.
LEMMA SameOwners ==
  ASSUME OwnerInv, NEW sems,
         \A s \in Sem: /\ sems[s].used > 0 => /\ semafors[s].used > 0
                                              /\ sems[s].owner = semafors[s].owner
                                              /\ sems[s].id = semafors[s].id
                       /\ sems[s].id \in {semafors[s].id, NoId}
  PROVE  NamesOf(sems) /\ OwnersOf(freequeue, pid, sems)
BY DEF OwnerInv, NamesOf, OwnersOf

\* internal_sem_destroy takes a semaphore out of use.
LEMMA DestroyOwners ==
  ASSUME TypeOK, NEW s \in Sem, internal_sem_destroy(s)
  PROVE  /\ ~(semafors'[s].used > 0) /\ semafors'[s].id = NoId
         /\ \A r \in Sem \ {s}: semafors'[r] = semafors[r]
<1>1. semafors \in [Sem -> Semaphore] /\ Len(semafors[s].blocked) \in Nat
  BY DEF TypeOK, Semaphore
<1>2. semafors'[s] = Unused(semafors[s]) /\ \A r \in Sem \ {s}: semafors'[r] = semafors[r]
  BY <1>1 DEF internal_sem_destroy
<1> QED
  BY <1>1, <1>2 DEF Unused

\* No call and no clock tick leaves a semaphore in use without its owner.
LEMMA NextOwners == IInv /\ OwnerInv /\ [Next]_vars => OwnerInv'
<1> SUFFICES ASSUME IInv, OwnerInv, [Next]_vars PROVE OwnerInv'
  OBVIOUS
<1>0. /\ readyqueue \in Seq(Task) /\ semafors \in [Sem -> Semaphore]
      /\ waiting \in [Task -> Sem \cup {NoSem}] /\ running \in Task \cup {Idle} /\ TypeOK
      /\ running \notin freequeue /\ PID \in Nat /\ pid \in [Task -> Nat \cup {Dead}]
      /\ freequeue \subseteq Task /\ exiting \in Sem \cup {N_SEMAFORS, NotExiting}
      /\ \A s \in Sem: semafors[s] \in Semaphore /\ semafors[s].used \in Int
  BY DEF IInv, TypeInv, TypeOK, ListInv, OnePlaceOf, Semaphore
<1>1. ASSUME UNCHANGED <<freequeue, PID, pid>>, exiting' = NotExiting,
             \A s \in Sem: /\ semafors'[s].used > 0 => /\ semafors[s].used > 0
                                                       /\ semafors'[s].owner = semafors[s].owner
                                                       /\ semafors'[s].id = semafors[s].id
                           /\ semafors'[s].id \in {semafors[s].id, NoId}
      PROVE  OwnerInv'
  <2>1. NamesOf(semafors') /\ OwnersOf(freequeue, pid, semafors')
    BY <1>1, SameOwners
  <2>2. \A s \in Sem: ~(s < exiting')
    BY <1>1 DEF Sem, NotExiting
  <2> QED
    BY <1>1, <2>1, <2>2 DEF OwnerInv, DestroyedSoFar
<1>2. CASE ClockTick
  <2>1. UNCHANGED <<freequeue, PID, pid>> /\ exiting' = NotExiting
    BY <1>2 DEF ClockTick, processVars
  <2>2. CASE sched_next_rr(readyqueue, semafors, waiting)
    BY <1>0, <1>1, <2>1, <2>2, ScheduleOwners
  <2>3. CASE running # Idle /\ sched_next_rr(Append(readyqueue, running), semafors, waiting)
    <3>1. Append(readyqueue, running) \in Seq(Task)
      BY <1>0, <2>3
    <3> QED
      BY <1>0, <1>1, <2>1, <2>3, <3>1, ScheduleOwners
  <2>4. CASE UNCHANGED semafors
    BY <1>1, <2>1, <2>4
  <2> QED
    BY <1>2, <2>2, <2>3, <2>4 DEF ClockTick
<1>3. CASE Fork \/ Clone
  <2>1. PICK child \in freequeue: NewProcess(child)
    BY <1>3 DEF Fork, Clone
  <2>2. /\ freequeue' = freequeue \ {child} /\ PID' = PID + 1 /\ child \in Task
        /\ pid' = [pid EXCEPT ![child] = PID + 1] /\ UNCHANGED <<running, semafors, exiting>>
        /\ exiting = NotExiting
    BY <1>0, <1>3, <2>1 DEF NewProcess, Fork, Clone, InCall
  <2>3. \A t \in Task \ freequeue': \/ t = child /\ pid'[t] = PID + 1
                                    \/ t \in Task \ freequeue /\ t # child /\ pid'[t] = pid[t]
    BY <1>0, <2>2
  <2>4. PidsOf(freequeue', pid', PID')
    BY <1>0, <2>2, <2>3 DEF OwnerInv, PidsOf
  <2>5. OwnersOf(freequeue', pid', semafors')
    <3>1. \A t \in Task \ freequeue: t \in Task \ freequeue' /\ pid'[t] = pid[t]
      BY <1>0, <2>1, <2>2
    <3> QED
      BY <2>2, <3>1 DEF OwnerInv, OwnersOf
  <2>6. DestroyedSoFar'
    BY <1>0, <2>2 DEF DestroyedSoFar, Sem, NotExiting
  <2> QED
    BY <2>2, <2>4, <2>5, <2>6 DEF OwnerInv
<1>4. CASE ExitBegins
  <2>1. UNCHANGED <<freequeue, PID, pid, semafors>> /\ exiting' = 0
    BY <1>4 DEF ExitBegins
  <2>2. DestroyedSoFar'
    BY <2>1 DEF DestroyedSoFar, Sem
  <2> QED
    BY <2>1, <2>2 DEF OwnerInv
<1>5. CASE ExitDestroys
  <2>1. UNCHANGED <<freequeue, PID, pid, running>> /\ exiting \in Sem /\ exiting' = exiting + 1
    BY <1>5 DEF ExitDestroys
  <2>2. CASE semafors[exiting].used > 0 /\ semafors[exiting].owner = pid[running]
    <3>1. internal_sem_destroy(exiting)
      BY <1>5, <2>2 DEF ExitDestroys
    <3>2. /\ ~(semafors'[exiting].used > 0) /\ semafors'[exiting].id = NoId
          /\ \A r \in Sem \ {exiting}: semafors'[r] = semafors[r]
      BY <1>0, <2>1, <3>1, DestroyOwners
    <3>3. NamesOf(semafors') /\ OwnersOf(freequeue, pid, semafors')
      BY <3>2, SameOwners
    <3>4. \A s \in Sem: s < exiting' => s < exiting \/ s = exiting
      BY <2>1 DEF Sem
    <3>5. DestroyedSoFar'
      BY <2>1, <3>2, <3>4 DEF OwnerInv, DestroyedSoFar
    <3> QED
      BY <2>1, <3>3, <3>5 DEF OwnerInv
  <2>3. CASE ~(semafors[exiting].used > 0 /\ semafors[exiting].owner = pid[running])
    <3>1. UNCHANGED semafors
      BY <1>5, <2>3 DEF ExitDestroys
    <3>2. \A s \in Sem: s < exiting' => s < exiting \/ s = exiting
      BY <2>1 DEF Sem
    <3>3. DestroyedSoFar'
      BY <2>1, <2>3, <3>1, <3>2 DEF OwnerInv, DestroyedSoFar
    <3> QED
      BY <2>1, <3>1, <3>3 DEF OwnerInv
  <2> QED
    BY <2>2, <2>3
<1>6. CASE ExitEnds
  <2>1. /\ freequeue' = freequeue \cup {running} /\ pid' = [pid EXCEPT ![running] = Dead]
        /\ PID' = PID /\ exiting = N_SEMAFORS /\ exiting' = NotExiting
        /\ sched_next_rr(readyqueue, semafors, waiting)
    BY <1>6 DEF ExitEnds
  <2>2. \A s \in Sem: /\ semafors'[s].id = semafors[s].id /\ semafors'[s].owner = semafors[s].owner
                      /\ semafors'[s].used > 0 => semafors[s].used > 0
    BY <1>0, <2>1, ScheduleOwners
  <2>3. NamesOf(semafors')
    BY <2>2, SameOwners
  <2>4. \A t \in Task \ freequeue': t \in Task \ freequeue /\ pid'[t] = pid[t]
    BY <1>0, <2>1
  <2>5. PidsOf(freequeue', pid', PID')
    BY <2>1, <2>4 DEF OwnerInv, PidsOf
  <2>6. OwnersOf(freequeue', pid', semafors')
    <3> SUFFICES ASSUME NEW s \in Sem, semafors'[s].used > 0
                 PROVE  \E t \in Task \ freequeue': pid'[t] = semafors'[s].owner
      BY DEF OwnersOf
    <3>1. PICK t \in Task \ freequeue: pid[t] = semafors[s].owner
      BY <2>2 DEF OwnerInv, OwnersOf
    <3>2. s < exiting
      BY <2>1, NumbersAssumption DEF Sem
    <3>3. t # running
      BY <2>2, <3>1, <3>2 DEF OwnerInv, DestroyedSoFar
    <3> QED
      BY <1>0, <2>1, <2>2, <3>1, <3>3
  <2>7. DestroyedSoFar'
    BY <2>1 DEF DestroyedSoFar, Sem, NotExiting
  <2> QED
    BY <2>3, <2>5, <2>6, <2>7 DEF OwnerInv
<1>7. ASSUME NEW n \in SemId, NEW value \in 0..MaxCount, sem_init(n, value)
      PROVE  OwnerInv'
  <2>1. /\ running \in Task \ freequeue /\ exiting' = NotExiting
        /\ UNCHANGED <<freequeue, PID, pid>> /\ \A r \in Sem: semafors[r].id # n
    BY <1>0, <1>7 DEF sem_init, InCall, processVars
  <2>2. PICK s \in Sem: semafors' = [semafors EXCEPT ![s] =
          [id |-> n, count |-> value, owner |-> pid[running], used |-> 1, blocked |-> <<>>]]
    BY <1>7 DEF sem_init
  <2>3. /\ semafors'[s].id = n /\ semafors'[s].owner = pid[running] /\ semafors'[s].used = 1
        /\ \A r \in Sem \ {s}: semafors'[r] = semafors[r]
    BY <1>0, <2>2
  <2>4. NamesOf(semafors')
    BY <2>1, <2>3, NamesAssumption DEF OwnerInv, NamesOf
  <2>5. OwnersOf(freequeue, pid, semafors')
    BY <2>1, <2>3 DEF OwnerInv, OwnersOf
  <2>6. DestroyedSoFar'
    BY <2>1 DEF DestroyedSoFar, Sem, NotExiting
  <2> QED
    BY <2>1, <2>4, <2>5, <2>6 DEF OwnerInv
<1>8. ASSUME NEW n \in SemId, sem_wait_takes(n)
      PROVE  OwnerInv'
  <2>1. UNCHANGED <<freequeue, PID, pid>> /\ exiting' = NotExiting
    BY <1>8 DEF sem_wait_takes, InCall, processVars
  <2>2. PICK s \in Sem: semafors' = [semafors EXCEPT ![s].count = @ - 1]
    BY <1>8 DEF sem_wait_takes
  <2>3. \A r \in Sem: semafors'[r].used = semafors[r].used /\ semafors'[r].id = semafors[r].id
                      /\ semafors'[r].owner = semafors[r].owner
    BY <1>0, <2>2 DEF Semaphore
  <2> QED
    BY <1>1, <2>1, <2>3
<1>9. ASSUME NEW n \in SemId, sem_wait_blocks(n)
      PROVE  OwnerInv'
  <2>1. UNCHANGED <<freequeue, PID, pid>> /\ exiting' = NotExiting /\ running \in Task
    BY <1>0, <1>9 DEF sem_wait_blocks, InCall, processVars
  <2>2. PICK s \in Sem:
          sched_next_rr(readyqueue, [semafors EXCEPT ![s].blocked = Append(@, running)],
                        [waiting EXCEPT ![running] = s])
    BY <1>9 DEF sem_wait_blocks
  <2> DEFINE sems == [semafors EXCEPT ![s].blocked = Append(@, running)]
             wait == [waiting EXCEPT ![running] = s]
  <2>3. sems \in [Sem -> Semaphore] /\ wait \in [Task -> Sem \cup {NoSem}]
    BY <1>0, <2>1, SemaphoresType
  <2>4. \A r \in Sem: sems[r].used = semafors[r].used /\ sems[r].id = semafors[r].id
                      /\ sems[r].owner = semafors[r].owner
    BY <1>0 DEF Semaphore
  <2>5. sched_next_rr(readyqueue, sems, wait)
    BY <2>2
  <2> HIDE DEF sems, wait
  <2>6. \A r \in Sem: /\ semafors'[r].id = sems[r].id /\ semafors'[r].owner = sems[r].owner
                      /\ semafors'[r].used > 0 => sems[r].used > 0
    BY <1>0, <2>3, <2>5, ScheduleOwners
  <2> QED
    BY <1>1, <2>1, <2>4, <2>6
<1>10. ASSUME NEW n \in SemId, sem_signal(n)
      PROVE  OwnerInv'
  <2>1. UNCHANGED <<freequeue, PID, pid>> /\ exiting' = NotExiting
    BY <1>10 DEF sem_signal, InCall, processVars
  <2>2. PICK s \in Sem: \/ semafors' = [semafors EXCEPT ![s].count = @ + 1]
                        \/ semafors' = [semafors EXCEPT ![s] = [semafors[s] EXCEPT !.blocked = Tail(@)]]
    BY <1>10 DEF sem_signal
  <2>3. \A r \in Sem: semafors'[r].used = semafors[r].used /\ semafors'[r].id = semafors[r].id
                      /\ semafors'[r].owner = semafors[r].owner
    <3>1. CASE semafors' = [semafors EXCEPT ![s].count = @ + 1]
      BY <1>0, <3>1 DEF Semaphore
    <3>2. CASE semafors' = [semafors EXCEPT ![s] = [semafors[s] EXCEPT !.blocked = Tail(@)]]
      <4> DEFINE q == Tail(semafors[s].blocked)
      <4>1. semafors' = [semafors EXCEPT ![s] = [semafors[s] EXCEPT !.blocked = q]]
        BY <3>2
      <4> HIDE DEF q
      <4> QED
        BY <1>0, <4>1 DEF Semaphore
    <3> QED
      BY <2>2, <3>1, <3>2
  <2> QED
    BY <1>1, <2>1, <2>3
<1>11. ASSUME NEW n \in SemId, sem_destroy(n)
      PROVE  OwnerInv'
  <2>1. UNCHANGED <<freequeue, PID, pid>> /\ exiting' = NotExiting
    BY <1>11 DEF sem_destroy, InCall, processVars
  <2>2. PICK s \in Sem: internal_sem_destroy(s)
    BY <1>11 DEF sem_destroy
  <2>3. /\ ~(semafors'[s].used > 0) /\ semafors'[s].id = NoId
        /\ \A r \in Sem \ {s}: semafors'[r] = semafors[r]
    BY <1>0, <2>2, DestroyOwners
  <2> QED
    BY <1>1, <2>1, <2>3
<1>12. CASE UNCHANGED vars
  BY <1>12 DEF vars, OwnerInv, DestroyedSoFar
<1> QED
  BY <1>2, <1>3, <1>4, <1>5, <1>6, <1>7, <1>8, <1>9, <1>10, <1>11, <1>12
  DEF Next, Exit, SemCalls

\* A semaphore in use has one living owner, the process that can destroy it and
\* whose exit does, and a number that no other semaphore has.
THEOREM SemaphoresHaveOwners == Spec => []OwnersLive
<1>1. Init => OwnerInv
  <2> SUFFICES ASSUME Init PROVE OwnerInv
    OBVIOUS
  <2>1. \A s \in Sem: semafors[s].used = 0
    BY DEF Init, FreeSem
  <2>2. PidsOf(freequeue, pid, PID)
    BY TasksAssumption DEF Init, PidsOf
  <2> QED
    BY <2>1, <2>2 DEF OwnerInv, NamesOf, OwnersOf, DestroyedSoFar
<1>2. OwnerInv => OwnersLive
  <2> SUFFICES ASSUME OwnerInv, NEW s \in Sem, semafors[s].used > 0
               PROVE  Cardinality({t \in Task \ freequeue: pid[t] = semafors[s].owner}) = 1
    BY DEF OwnersLive, OwnerInv, NamesOf
  <2>1. PICK t \in Task \ freequeue: pid[t] = semafors[s].owner
    BY DEF OwnerInv, OwnersOf
  <2>2. {u \in Task \ freequeue: pid[u] = semafors[s].owner} = {t}
    BY <2>1 DEF OwnerInv, PidsOf
  <2> QED
    BY <2>2, FS_Singleton
<1> QED
  BY <1>1, <1>2, NextOwners, InvariantHolds, PTL DEF Spec
=============================================================================
