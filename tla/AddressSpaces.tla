--------------------------- MODULE AddressSpaces ---------------------------
(***************************************************************************)
(* Frames and address spaces: alloc_frame, free_frame and the page tables  *)
(* of mm.c, allocate_DIR of sched.c, and what fork, clone and exit (sys.c) *)
(* do to them.  Kernel pages, which all tables share, are left out; code   *)
(* pages are shared and never written.  Any live task may make a call      *)
(* (module Tasks models whose turn it is), and a call is one step.         *)
(***************************************************************************)
EXTENDS Integers, FiniteSets, Functions

CONSTANTS Task, InitTask,
          TOTAL_PAGES, NUM_PAG_KERNEL, NUM_PAG_CODE, NUM_PAG_DATA,
          Value             \* what a data page can hold

ASSUME SpaceAssumption ==
  /\ InitTask \in Task /\ IsFiniteSet(Task)
  /\ {NUM_PAG_KERNEL, NUM_PAG_CODE, NUM_PAG_DATA} \subseteq Nat \ {0}
  /\ TOTAL_PAGES \in Nat
  \* the first program fits
  /\ TOTAL_PAGES > NUM_PAG_KERNEL + 2 * (NUM_PAG_CODE + NUM_PAG_DATA)

Frame == 0..TOTAL_PAGES-1
Page == 0..NUM_PAG_DATA-1    \* data pages, from PAG_LOG_INIT_DATA on
NoFrame == -1                \* alloc_frame's failure, and an entry that is 0
Dir == Task                  \* as many directories as PCBs

VARIABLES
  phys_mem,    \* the set of frames marked USED_FRAME
  memory,      \* contents of the frames
  pagusr_table,\* pagusr_table[d][page]
  alive, dir, dir_usage,
  stored       \* what the threads of an address space last stored (history)

vars == <<phys_mem, memory, pagusr_table, alive, dir, dir_usage, stored>>

-----------------------------------------------------------------------------
(* mm.c *)

\* Mutant: the loop runs one frame too far.
Available_OneMore(used) ==
  {f \in NUM_PAG_KERNEL..TOTAL_PAGES: (f - NUM_PAG_KERNEL) % 2 = 0 /\ f \notin used}

\* The frames alloc_frame finds: every other one from the kernel's on.
Available(used) == {f \in Frame: f >= NUM_PAG_KERNEL /\ (f - NUM_PAG_KERNEL) % 2 = 0 /\ f \notin used}

\* The place of f in the order in which alloc_frame finds the frames.
Rank(used, f) == Cardinality({g \in Available(used): g <= f})

\* alloc_frame n times; frames[i] is NoFrame from the first failure on.
alloc_frames(used, n) ==
  [i \in 1..n |-> IF \E f \in Available(used): Rank(used, f) = i
                  THEN CHOOSE f \in Available(used): Rank(used, f) = i
                  ELSE NoFrame]

\* free_frame for each of a set of frames
free_frames(used, frames) == used \ {f \in frames: f > NUM_PAG_KERNEL /\ f < TOTAL_PAGES}

\* Boot: frames for the code, then for the data of the first program.
BootFrames == alloc_frames(0..NUM_PAG_KERNEL-1, NUM_PAG_CODE + NUM_PAG_DATA)
CodeFrames == {BootFrames[i]: i \in 1..NUM_PAG_CODE}

Init ==
  /\ phys_mem = (0..NUM_PAG_KERNEL-1) \cup Range(BootFrames)
  /\ \E v \in Value: /\ memory = [f \in Frame |-> v]
                     /\ stored = [d \in Dir |-> [page \in Page |-> v]]
  /\ pagusr_table = [d \in Dir |-> [page \in Page |->
       IF d = InitTask THEN BootFrames[NUM_PAG_CODE + page + 1] ELSE NoFrame]]
  /\ alive = {InitTask}
  /\ dir = [t \in Task |-> InitTask]
  /\ dir_usage = [d \in Dir |-> IF d = InitTask THEN 1 ELSE 0]

-----------------------------------------------------------------------------
(* fork, clone, exit and the user's stores *)

\* Mutant: the parent's pages are not copied.
Copied_Nothing(d, frames) == memory

\* The parent's data pages, copied.  The code writes them through temporary entries of
\* the parent's own table, NUM_PAG_DATA pages further on, where no program has pages;
\* it deletes each entry after its page and reloads CR3 before the call ends, with
\* interrupts off, so no other step finds one.
Copied(d, frames) ==
  [f \in Frame |-> IF \E page \in Page: frames[page + 1] = f
                   THEN memory[pagusr_table[d][CHOOSE page \in Page: frames[page + 1] = f]]
                   ELSE memory[f]]

Fork(t, child) ==
  LET frames == alloc_frames(phys_mem, NUM_PAG_DATA)
      d == dir[t]
  IN  /\ child \notin alive
      /\ NoFrame \notin Range(frames)
      /\ phys_mem' = phys_mem \cup Range(frames)
      /\ alive' = alive \cup {child}
      \* allocate_DIR: the first unused directory, else the parent's, uncounted
      /\ \/ \E e \in Dir: dir_usage[e] = 0 /\ dir' = [dir EXCEPT ![child] = e]
                          /\ dir_usage' = [dir_usage EXCEPT ![e] = 1]
         \/ (\A e \in Dir: dir_usage[e] # 0) /\ dir' = [dir EXCEPT ![child] = d]
                                             /\ UNCHANGED dir_usage
      /\ memory' = Copied(d, frames)
      /\ pagusr_table' = [pagusr_table EXCEPT ![dir'[child]] = [page \in Page |-> frames[page + 1]]]
      /\ stored' = [stored EXCEPT ![dir'[child]] = stored[d]]


\* Mutant: the frames found before the failure stay allocated.
ForkFails_NoRollback(t) ==
  LET frames == alloc_frames(phys_mem, NUM_PAG_DATA)
  IN  /\ alive # Task /\ NoFrame \in Range(frames)
      /\ phys_mem' = phys_mem \cup (Range(frames) \ {NoFrame})
      /\ UNCHANGED <<memory, pagusr_table, alive, dir, dir_usage, stored>>

\* -ENOMEM: the frames found so far are freed again.
ForkFails(t) ==
  LET frames == alloc_frames(phys_mem, NUM_PAG_DATA)
      found == Range(frames) \ {NoFrame}
  IN  /\ alive # Task
      /\ NoFrame \in Range(frames)
      /\ phys_mem' = free_frames(phys_mem \cup found, found)
      /\ UNCHANGED <<memory, pagusr_table, alive, dir, dir_usage, stored>>

Clone(t, child) ==
  /\ child \notin alive
  /\ alive' = alive \cup {child}
  /\ dir' = [dir EXCEPT ![child] = dir[t]]
  /\ dir_usage' = [dir_usage EXCEPT ![dir[t]] = @ + 1]
  /\ UNCHANGED <<phys_mem, memory, pagusr_table, stored>>

\* Mutant: the pages go with the first thread.
LastUse_Any(d) == TRUE

LastUse(d) == dir_usage[d] = 1

Exit(t) ==
  LET d == dir[t]
  IN  /\ alive' = alive \ {t}
      /\ dir_usage' = [dir_usage EXCEPT ![d] = @ - 1]
      /\ IF LastUse(d)
         THEN /\ phys_mem' = free_frames(phys_mem, Range(pagusr_table[d]))
              /\ pagusr_table' = [pagusr_table EXCEPT ![d] = [page \in Page |-> NoFrame]]
         ELSE UNCHANGED <<phys_mem, pagusr_table>>
      /\ UNCHANGED <<memory, dir, stored>>

\* A thread in user mode stores to one of its pages.
Store(t, page, v) ==
  LET f == pagusr_table[dir[t]][page]
  IN  /\ f # NoFrame
      /\ memory' = [memory EXCEPT ![f] = v]
      /\ stored' = [stored EXCEPT ![dir[t]][page] = v]
      /\ UNCHANGED <<phys_mem, pagusr_table, alive, dir, dir_usage>>

Next == \E t \in alive:
  \/ \E child \in Task: Fork(t, child) \/ Clone(t, child)
  \/ ForkFails(t)
  \/ Exit(t)
  \/ \E page \in Page, v \in Value: Store(t, page, v)

Spec == Init /\ [][Next]_vars

-----------------------------------------------------------------------------
(* Properties *)

\* Frames, tables and counters hold values of their types.
TypeOK ==
  /\ phys_mem \subseteq Frame
  /\ memory \in [Frame -> Value]
  /\ pagusr_table \in [Dir -> [Page -> Frame \cup {NoFrame}]]
  /\ alive \subseteq Task
  /\ dir \in [Task -> Dir]
  /\ dir_usage \in [Dir -> 0..Cardinality(Task)]
  /\ stored \in [Dir -> [Page -> Value]]

InUse == {dir[t]: t \in alive}
Mapped(d) == Range(pagusr_table[d]) \ {NoFrame}

\* Every address space that is in use keeps all its data pages, no matter which
\* of its threads exit, in frames that are allocated and that no other address
\* space, the code or the kernel uses.
SpacesAreSeparate ==
  \A d \in InUse:
    /\ Cardinality(Mapped(d)) = NUM_PAG_DATA
    /\ Mapped(d) \subseteq phys_mem \ (CodeFrames \cup 0..NUM_PAG_KERNEL-1)
    /\ \A e \in InUse \ {d}: Mapped(d) \cap Mapped(e) = {}

\* A frame that is allocated is the kernel's, the code's or mapped by an address
\* space in use: neither the failing fork nor the exit of the last thread loses
\* one, though free_frame refuses frame NUM_PAG_KERNEL.
NoFrameIsLost ==
  phys_mem = (0..NUM_PAG_KERNEL-1) \cup CodeFrames \cup UNION {Mapped(d): d \in InUse}

\* A program reads back what it, or another thread of it, stored; a child starts
\* with what its parent had stored.  No other process gets in between.
ReadsOwnStores ==
  \A d \in InUse, page \in Page:
    pagusr_table[d][page] # NoFrame => memory[pagusr_table[d][page]] = stored[d][page]
=============================================================================
