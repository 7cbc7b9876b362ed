----------------------------- MODULE LinkedTasks -----------------------------
(***************************************************************************)
(* The circular lists of list.c that hold the tasks of module Tasks.       *)
(*                                                                         *)
(* A PCB has one anchor, moved by hand between the ready list, the free    *)
(* list and the blocked list of every semaphore.  Each action is one of    *)
(* Tasks together with the pointer assignments its handler makes, which    *)
(* read the pointers only; LinksMatch says that both agree.                *)
(***************************************************************************)
EXTENDS Tasks, SequencesExt

\* Nodes: PCBs and the heads of the lists (of the blocked ones: the semaphores).
ReadyQueue == N_SEMAFORS
FreeQueue == N_SEMAFORS + 1
NULL == -1
ASSUME NodesAssumption == (Task \cup {Idle}) \cap (NULL..N_SEMAFORS+1) = {}
Node == Task \cup {Idle, ReadyQueue, FreeQueue} \cup Sem

VARIABLE links    \* the next and prev pointers of every node
linkedVars == <<vars, links>>

NoAnchor == [next |-> NULL, prev |-> NULL]

\* Node n[1] points to n[2] and so on, the last one to the first, and back.
IsRing(l, n) == \A i \in 1..Len(n):
  LET j == (i % Len(n)) + 1 IN l[n[i]].next = n[j] /\ l[n[j]].prev = n[i]

-----------------------------------------------------------------------------
(* list.c on the nodes l *)

INIT_LIST_HEAD(l, head) == [l EXCEPT ![head] = [next |-> head, prev |-> head]]

__list_add(l, new, prev, next) ==
  [l EXCEPT ![next].prev = new, ![new] = [next |-> next, prev |-> prev], ![prev].next = new]
list_add(l, new, head) == __list_add(l, new, head, l[head].next)
list_add_tail(l, new, head) == __list_add(l, new, l[head].prev, head)

\* Mutant: the neighbours forget the entry, the entry keeps its pointers.
list_del_KeepsAnchor(l, entry) ==
  [l EXCEPT ![l[entry].next].prev = l[entry].prev, ![l[entry].prev].next = l[entry].next]

list_del(l, entry) ==
  [l EXCEPT ![l[entry].next].prev = l[entry].prev, ![l[entry].prev].next = l[entry].next,
            ![entry] = NoAnchor]
list_empty(l, head) == l[head].next = head
list_first(l, head) == l[head].next

\* One turn of list_for_each_safe over a list whose entries become ready: the
\* nodes, "pos" and the look-ahead "n".
Turn(at, head) ==
  LET moved == list_add_tail(list_del(at.l, at.pos), at.pos, ReadyQueue)
  IN  IF at.pos = head THEN at ELSE [l |-> moved, pos |-> at.n, n |-> moved[at.n].next]

\* The loop over all of them.  No list is longer than the tasks.
EachToReady(l, head) ==
  LET after[i \in 0..Cardinality(Task)] ==
        IF i = 0 THEN [l |-> l, pos |-> l[head].next, n |-> l[l[head].next].next]
        ELSE Turn(after[i - 1], head)
  IN  after[Cardinality(Task)].l

-----------------------------------------------------------------------------
(* What the handlers do with the lists *)

update_process_state_rr(l, t, dst) ==
  LET out == IF l[t].next # NULL THEN list_del(l, t) ELSE l
  IN  IF t # Idle THEN list_add_tail(out, t, dst) ELSE out

\* sched_next_rr
TakeReady(l) ==
  IF list_empty(l, ReadyQueue) THEN l ELSE list_del(l, list_first(l, ReadyQueue))

BlockedToReady(s) == EachToReady(links, s)

TakeFree(l) == list_del(l, list_first(l, FreeQueue))

\* init_sched: the PCBs in the order of task[], the free list is a stack.
init_sched(order) ==
  LET empty == INIT_LIST_HEAD(INIT_LIST_HEAD([n \in Node |-> NoAnchor], FreeQueue), ReadyQueue)
      after[i \in 0..Len(order)] ==
        IF i = 0 THEN empty ELSE list_add(after[i - 1], order[i], FreeQueue)
  IN  after[Len(order)]

\* Then init_idle and init_task1 take one each.
LinkedInit ==
  /\ Init
  /\ \E order \in SetToSeqs(freequeue):
       links = TakeFree(TakeFree(init_sched(order \o <<InitTask, Idle>>)))

LinkedClockTick ==
  /\ ClockTick
  /\ links' = IF \/ running = Idle /\ ~list_empty(links, ReadyQueue)
                 \/ running # Idle /\ quantum_left = 1
              THEN TakeReady(update_process_state_rr(links, running, ReadyQueue))
              ELSE links

\* The child is the first of the free list; copy_data copies the parent's anchor too.
Born(child) ==
  /\ freequeue' = freequeue \ {child}
  /\ links' = list_add_tail([TakeFree(links) EXCEPT ![child] = links[running]],
                            child, ReadyQueue)
LinkedFork == ~list_empty(links, FreeQueue) /\ Fork /\ Born(list_first(links, FreeQueue))
LinkedClone == ~list_empty(links, FreeQueue) /\ Clone /\ Born(list_first(links, FreeQueue))

LinkedExitBegins == ExitBegins /\ UNCHANGED links
LinkedExitDestroys ==
  /\ ExitDestroys
  /\ links' = IF semafors[exiting].used > 0 /\ semafors[exiting].owner = pid[running]
              THEN BlockedToReady(exiting) ELSE links
LinkedExitEnds ==
  ExitEnds /\ links' = TakeReady(update_process_state_rr(links, running, FreeQueue))

linked_sem_init(n, value) == \E s \in Sem:
  IsFirstFree(s) /\ sem_init(n, value) /\ links' = INIT_LIST_HEAD(links, s)
linked_sem_wait(n) ==
  \/ sem_wait_takes(n) /\ UNCHANGED links
  \/ \E s \in Sem: /\ Names(n, s) /\ sem_wait_blocks(n)
                   /\ links' = TakeReady(update_process_state_rr(links, running, s))
linked_sem_signal(n) == \E s \in Sem:
  /\ Names(n, s) /\ sem_signal(n)
  /\ links' = IF list_empty(links, s) THEN links
              ELSE LET p == list_first(links, s)
                   IN  list_add_tail(list_del(links, p), p, ReadyQueue)
linked_sem_destroy(n) == \E s \in Sem:
  Names(n, s) /\ sem_destroy(n) /\ links' = BlockedToReady(s)

LinkedNext ==
  \/ LinkedClockTick \/ LinkedFork \/ LinkedClone
  \/ LinkedExitBegins \/ LinkedExitDestroys \/ LinkedExitEnds
  \/ \E n \in SemId: \/ \E value \in 0..MaxCount: linked_sem_init(n, value)
                     \/ linked_sem_wait(n) \/ linked_sem_signal(n) \/ linked_sem_destroy(n)

LinkedSpec == LinkedInit /\ [][LinkedNext]_linkedVars

-----------------------------------------------------------------------------
(* Properties *)

\* Each of the lists, followed forwards or backwards from its head, has just the
\* tasks it should have, in the order of Tasks; the anchor of the running task and
\* of idle is NULL, which update_process_state_rr takes for "in no list".  With it
\* no PCB is lost: each is running or found from one head (list.c and its users).
LinksMatch ==
  /\ IsRing(links, <<ReadyQueue>> \o readyqueue)
  /\ \E order \in SetToSeqs(freequeue): IsRing(links, <<FreeQueue>> \o order)
  /\ \A s \in Sem: semafors[s].used > 0 => IsRing(links, <<s>> \o semafors[s].blocked)
  /\ \A t \in {running, Idle}: links[t] = NoAnchor
  /\ NoTaskLost
=============================================================================
