------------------------ MODULE AddressSpaces_proofs ------------------------
(***************************************************************************)
(* Proofs about frames and address spaces (module AddressSpaces), for any  *)
(* number of tasks, frames and pages.                                      *)
(***************************************************************************)
EXTENDS AddressSpaces, FiniteSetTheorems, TLAPS

-----------------------------------------------------------------------------
(* alloc_frame *)

\* alloc_frame returns a free frame above the kernel's or -1, and n calls in a
\* row never return the same frame twice.
LEMMA AllocatedFrames ==
  ASSUME NEW used, NEW n \in Nat
  PROVE  LET frames == alloc_frames(used, n)
         IN  /\ frames \in [1..n -> Available(used) \cup {NoFrame}]
             /\ \A i, j \in 1..n: frames[i] = frames[j] /\ frames[i] # NoFrame => i = j
<1> DEFINE frames == alloc_frames(used, n)
<1>1. ASSUME NEW i \in 1..n
      PROVE  \/ frames[i] = NoFrame
             \/ frames[i] \in Available(used) /\ Rank(used, frames[i]) = i
  <2>1. CASE \E f \in Available(used): Rank(used, f) = i
    <3>1. frames[i] = CHOOSE f \in Available(used): Rank(used, f) = i
      BY <2>1 DEF alloc_frames
    <3> QED
      BY <2>1, <3>1
  <2>2. CASE ~ \E f \in Available(used): Rank(used, f) = i
    BY <2>2 DEF alloc_frames
  <2> QED
    BY <2>1, <2>2
<1>2. DOMAIN frames = 1..n /\ frames = [i \in 1..n |-> frames[i]]
  BY DEF alloc_frames
<1> HIDE DEF frames
<1>3. frames \in [1..n -> Available(used) \cup {NoFrame}]
  BY <1>1, <1>2
<1>4. \A i, j \in 1..n: frames[i] = frames[j] /\ frames[i] # NoFrame => i = j
  BY <1>1
<1> QED
  BY <1>3, <1>4 DEF frames

\* Different free frames have different places.
LEMMA RankIsUnique ==
  ASSUME NEW used, NEW f \in Available(used), NEW g \in Available(used),
         Rank(used, f) = Rank(used, g)
  PROVE  f = g
<1> DEFINE Upto(h) == {k \in Available(used): k <= h}
<1>1. f \in Nat /\ g \in Nat
  BY DEF Available, Frame
<1>2. ASSUME NEW h \in Available(used) PROVE IsFiniteSet(Upto(h))
  <2>1. Upto(h) \subseteq Frame /\ IsFiniteSet(Frame)
    <3>1. TOTAL_PAGES - 1 \in Int
      BY SpaceAssumption
    <3> QED
      BY <3>1, FS_Interval DEF Available, Frame
  <2> QED
    BY <2>1, FS_Subset
<1>3. Cardinality(Upto(f)) = Cardinality(Upto(g))
  BY DEF Rank
<1>4. f \in Upto(f) /\ g \in Upto(g)
  BY <1>1
<1>5. CASE f <= g
  <2>1. Upto(f) \subseteq Upto(g)
    BY <1>1, <1>5 DEF Available, Frame
  <2>2. Upto(f) = Upto(g)
    <3> HIDE DEF Upto
    <3> QED
      BY <1>2, <1>3, <2>1, FS_Subset
  <2>3. g <= f
    BY <1>4, <2>2
  <2> QED
    BY <1>1, <1>5, <2>3
<1>6. CASE g <= f
  <2>1. Upto(g) \subseteq Upto(f)
    BY <1>1, <1>6 DEF Available, Frame
  <2>2. Upto(f) = Upto(g)
    <3> HIDE DEF Upto
    <3> QED
      BY <1>2, <1>3, <2>1, FS_Subset
  <2>3. f <= g
    BY <1>4, <2>2
  <2> QED
    BY <1>1, <1>6, <2>3
<1> QED
  BY <1>1, <1>5, <1>6

\* At boot there are enough frames: the i-th is NUM_PAG_KERNEL + 2(i-1).
LEMMA BootFramesFound ==
  LET n == NUM_PAG_CODE + NUM_PAG_DATA
  IN  /\ BootFrames \in [1..n -> Frame]
      /\ \A i \in 1..n: BootFrames[i] = NUM_PAG_KERNEL + 2 * (i - 1)
<1> DEFINE n == NUM_PAG_CODE + NUM_PAG_DATA
           used == 0..NUM_PAG_KERNEL-1
           place(i) == NUM_PAG_KERNEL + 2 * (i - 1)
<1>0. n \in Nat /\ NUM_PAG_KERNEL \in Nat \ {0} /\ TOTAL_PAGES \in Nat
      /\ TOTAL_PAGES > NUM_PAG_KERNEL + 2 * n
  BY SpaceAssumption
<1>1. ASSUME NEW i \in 1..n
      PROVE  place(i) \in Available(used) /\ Rank(used, place(i)) = i
  <2> HIDE DEF n
  <2>1. place(i) \in Available(used)
    <3>1. place(i) \in Frame /\ place(i) >= NUM_PAG_KERNEL
      BY <1>0 DEF Frame
    <3>2. (place(i) - NUM_PAG_KERNEL) % 2 = 0
      <4>1. place(i) - NUM_PAG_KERNEL = 2 * (i - 1) /\ i - 1 \in Nat
        BY <1>0
      <4>2. \A k \in Nat: (2 * k) % 2 = 0
        OBVIOUS
      <4> QED
        BY <4>1, <4>2
    <3>3. place(i) \notin used
      BY <1>0, <3>1
    <3> QED
      BY <3>1, <3>2, <3>3 DEF Available
  <2> DEFINE S == {g \in Available(used): g <= place(i)}
             b == [j \in 1..i |-> place(j)]
  <2>2. b \in Bijection(1..i, S)
    <3>1. \A j \in 1..i: place(j) \in S
      <4> SUFFICES ASSUME NEW j \in 1..i PROVE place(j) \in S
        OBVIOUS
      <4>1. j - 1 \in Nat /\ place(j) <= place(i) /\ place(j) \in Int
        BY <1>0
      <4>2. place(j) \in Frame /\ place(j) >= NUM_PAG_KERNEL /\ place(j) \notin used
        BY <1>0 DEF Frame
      <4>3. (place(j) - NUM_PAG_KERNEL) % 2 = 0
        <5>1. place(j) - NUM_PAG_KERNEL = 2 * (j - 1)
          BY <1>0
        <5>2. \A k \in Nat: (2 * k) % 2 = 0
          OBVIOUS
        <5> QED
          BY <4>1, <5>1, <5>2
      <4> QED
        BY <4>1, <4>2, <4>3 DEF Available
    <3>2. \A g \in S: \E j \in 1..i: g = place(j)
      <4> SUFFICES ASSUME NEW g \in S PROVE \E j \in 1..i: g = place(j)
        OBVIOUS
      <4>1. g \in Nat /\ g >= NUM_PAG_KERNEL /\ (g - NUM_PAG_KERNEL) % 2 = 0 /\ g <= place(i)
        BY DEF Available, Frame
      <4>2. g - NUM_PAG_KERNEL \in Nat
        BY <1>0, <4>1
      <4>3. \A k \in Nat: k % 2 = 0 => \E m \in Nat: k = 2 * m
        OBVIOUS
      <4>4. PICK m \in Nat: g - NUM_PAG_KERNEL = 2 * m
        BY <4>1, <4>2, <4>3
      <4>5. m + 1 \in 1..i /\ g = place(m + 1)
        BY <1>0, <4>1, <4>4
      <4> QED
        BY <4>5
    <3>3. \A j, k \in 1..i: place(j) = place(k) => j = k
      BY <1>0
    <3>4. b \in [1..i -> S] /\ \A j \in 1..i: b[j] = place(j)
      BY <3>1
    <3> HIDE DEF b, S, place
    <3> QED
      BY <3>2, <3>3, <3>4 DEF Bijection, Injection, Surjection, IsInjective
  <2>3. Cardinality(S) = i
    <3> HIDE DEF S, b
    <3>1. i \in Nat /\ ExistsBijection(1..i, S)
      BY <2>2 DEF ExistsBijection
    <3> QED
      BY <3>1, FS_CountingElements
  <2> QED
    BY <2>1, <2>3 DEF Rank
<1>2. ASSUME NEW i \in 1..n PROVE BootFrames[i] = place(i)
  <2> DEFINE f == CHOOSE f \in Available(used): Rank(used, f) = i
  <2>1. place(i) \in Available(used) /\ Rank(used, place(i)) = i
    BY <1>1
  <2>2. f \in Available(used) /\ Rank(used, f) = i
    BY <2>1
  <2>3. BootFrames[i] = f
    BY <2>1 DEF BootFrames, alloc_frames
  <2> HIDE DEF f, place
  <2> QED
    BY <2>1, <2>2, <2>3, RankIsUnique
<1>3. ASSUME NEW i \in 1..n PROVE BootFrames[i] \in Frame
  BY <1>0, <1>2, <1>3 DEF Frame
<1>4. BootFrames \in [1..n -> Frame]
  <2>1. DOMAIN BootFrames = 1..n /\ BootFrames = [i \in 1..n |-> BootFrames[i]]
    BY DEF BootFrames, alloc_frames
  <2> HIDE DEF n
  <2> QED
    BY <1>3, <2>1
<1> QED
  BY <1>2, <1>4

-----------------------------------------------------------------------------
(***************************************************************************)
(* The inductive invariant.  dir_usage has to count the users of a         *)
(* directory: only then does a fork get a directory that nobody uses, and  *)
(* the last exit, and no other, give the frames back.  The properties say  *)
(* how many frames a space has; the invariant says that its pages are all  *)
(* present and in different frames, which is what the steps preserve.      *)
(***************************************************************************)

KernelFrames == 0..NUM_PAG_KERNEL-1
Users(d) == {t \in alive: dir[t] = d}

UsageCounts == \A d \in Dir: dir_usage[d] = Cardinality(Users(d))

Whole(table) == /\ table \in [Page -> Frame]
                /\ \A p, q \in Page: table[p] = table[q] => p = q

Separate ==
  \A d \in InUse:
    /\ Whole(pagusr_table[d])
    /\ Range(pagusr_table[d]) \subseteq phys_mem \ (CodeFrames \cup KernelFrames)
    /\ \A e \in InUse \ {d}: Range(pagusr_table[d]) \cap Range(pagusr_table[e]) = {}

Accounted == phys_mem = KernelFrames \cup CodeFrames \cup UNION {Range(pagusr_table[d]): d \in InUse}

Stored == \A d \in InUse, page \in Page: memory[pagusr_table[d][page]] = stored[d][page]

SpaceInv == TypeOK /\ UsageCounts /\ Separate /\ Accounted /\ Stored

\* Sets of tasks are finite.
LEMMA TaskSets ==
  ASSUME NEW S \in SUBSET Task
  PROVE  IsFiniteSet(S) /\ Cardinality(S) \in 0..Cardinality(Task)
<1>1. IsFiniteSet(S) /\ Cardinality(S) <= Cardinality(Task)
  BY SpaceAssumption, FS_Subset
<1>2. Cardinality(S) \in Nat /\ Cardinality(Task) \in Nat
  BY <1>1, SpaceAssumption, FS_CardinalityType
<1> QED
  BY <1>1, <1>2

\* The code occupies the frame after the kernel's, the one free_frame refuses:
\* so the frames of the data pages are all frames that it does free.
LEMMA CodeFramesFirst ==
  /\ CodeFrames \subseteq Frame
  /\ NUM_PAG_KERNEL \in CodeFrames
  /\ KernelFrames \subseteq Frame
  /\ \A f \in Frame \ (CodeFrames \cup KernelFrames): f > NUM_PAG_KERNEL /\ f < TOTAL_PAGES
<1>1. /\ NUM_PAG_KERNEL \in Nat \ {0} /\ NUM_PAG_CODE \in Nat \ {0} /\ NUM_PAG_DATA \in Nat \ {0}
      /\ TOTAL_PAGES \in Nat /\ TOTAL_PAGES > NUM_PAG_KERNEL
  BY SpaceAssumption
<1>2. 1..NUM_PAG_CODE \subseteq 1..NUM_PAG_CODE + NUM_PAG_DATA /\ 1 \in 1..NUM_PAG_CODE
  BY <1>1
<1>3. CodeFrames \subseteq Frame
  BY <1>2, BootFramesFound DEF CodeFrames
<1>4. BootFrames[1] = NUM_PAG_KERNEL
  BY <1>1, <1>2, BootFramesFound
<1>5. NUM_PAG_KERNEL \in CodeFrames
  BY <1>2, <1>4 DEF CodeFrames
<1>6. KernelFrames \subseteq Frame
  BY <1>1 DEF KernelFrames, Frame
<1>7. ASSUME NEW f \in Frame \ (CodeFrames \cup KernelFrames)
      PROVE  f > NUM_PAG_KERNEL /\ f < TOTAL_PAGES
  BY <1>1, <1>5 DEF KernelFrames, Frame
<1> QED
  BY <1>3, <1>5, <1>6, <1>7

\* The directory of a living task is in use; an uncounted one is not.
LEMMA UsersOfDirectories ==
  ASSUME TypeOK, UsageCounts
  PROVE  /\ InUse \subseteq Dir
         /\ \A d \in Dir: d \in InUse <=> dir_usage[d] # 0
         /\ \A d \in Dir: IsFiniteSet(Users(d)) /\ Cardinality(Users(d)) \in Nat
<1>1. InUse \subseteq Dir
  BY DEF InUse, TypeOK
<1>2. ASSUME NEW d \in Dir PROVE IsFiniteSet(Users(d)) /\ Cardinality(Users(d)) \in Nat
  BY TaskSets DEF Users, TypeOK
<1>3. ASSUME NEW d \in Dir PROVE d \in InUse <=> dir_usage[d] # 0
  <2>1. d \in InUse <=> Users(d) # {}
    BY DEF InUse, Users
  <2>2. Users(d) # {} <=> Cardinality(Users(d)) # 0
    BY <1>2, FS_EmptySet
  <2> QED
    BY <2>1, <2>2 DEF UsageCounts
<1> QED
  BY <1>1, <1>2, <1>3

\* There are as many directories as PCBs, so a fork finds one that is unused
\* (and the branch of allocate_DIR that shares the parent's is never taken).
LEMMA FreeDirectory ==
  ASSUME TypeOK, UsageCounts, NEW child \in Task \ alive
  PROVE  \E e \in Dir: dir_usage[e] = 0
<1> SUFFICES ASSUME \A e \in Dir: dir_usage[e] # 0 PROVE FALSE
  OBVIOUS
<1> DEFINE used == [t \in alive |-> dir[t]]
<1>1. used \in Surjection(alive, Task)
  <2>1. used \in [alive -> Task]
    BY DEF TypeOK, Dir
  <2>2. ASSUME NEW d \in Task PROVE \E t \in alive: used[t] = d
    BY UsersOfDirectories DEF InUse, Dir
  <2> QED
    BY <2>1, <2>2 DEF Surjection
<1>2. IsFiniteSet(alive) /\ Cardinality(alive) \in Nat /\ Cardinality(Task) \in Nat
  BY TaskSets DEF TypeOK
<1>3. Cardinality(Task) <= Cardinality(alive)
  <2> HIDE DEF used
  <2> QED
    BY <1>1, <1>2, FS_Surjection
<1>4. alive \in SUBSET Task /\ alive # Task
  BY DEF TypeOK
<1>5. Cardinality(alive) <= Cardinality(Task) /\ Cardinality(alive) # Cardinality(Task)
  BY <1>4, SpaceAssumption, FS_Subset
<1> QED
  BY <1>2, <1>3, <1>5

\* The counters stay within their type, whoever the users are.
LEMMA CountsAreTyped ==
  ASSUME alive \subseteq Task, UsageCounts, NEW D, dir_usage \in [Dir -> D]
  PROVE  dir_usage \in [Dir -> 0..Cardinality(Task)]
<1>1. \A d \in Dir: dir_usage[d] \in 0..Cardinality(Task)
  BY TaskSets DEF UsageCounts, Users
<1> QED
  BY <1>1

\* init_mm and the boot of the first program.
LEMMA InitSpaces == Init => SpaceInv
<1> SUFFICES ASSUME Init PROVE SpaceInv
  OBVIOUS
<1> DEFINE n == NUM_PAG_CODE + NUM_PAG_DATA
           T == pagusr_table[InitTask]
<1>0. /\ NUM_PAG_KERNEL \in Nat \ {0} /\ NUM_PAG_CODE \in Nat \ {0} /\ NUM_PAG_DATA \in Nat \ {0}
      /\ InitTask \in Task /\ TOTAL_PAGES \in Nat
  BY SpaceAssumption
<1>1. /\ BootFrames \in [1..n -> Frame] /\ Range(BootFrames) \subseteq Frame
      /\ \A i \in 1..n: BootFrames[i] = NUM_PAG_KERNEL + 2 * (i - 1)
  BY BootFramesFound DEF Range
<1>2. \A page \in Page: NUM_PAG_CODE + page + 1 \in 1..n
  BY <1>0 DEF Page
<1>3. T = [page \in Page |-> BootFrames[NUM_PAG_CODE + page + 1]]
  BY <1>0 DEF Init, Dir
<1>4. Whole(T)
  <2>1. T \in [Page -> Frame]
    BY <1>1, <1>2, <1>3
  <2>2. ASSUME NEW p \in Page, NEW q \in Page, T[p] = T[q] PROVE p = q
    <3>1. T[p] = NUM_PAG_KERNEL + 2 * (NUM_PAG_CODE + p) /\ T[q] = NUM_PAG_KERNEL + 2 * (NUM_PAG_CODE + q)
      BY <1>0, <1>1, <1>2, <1>3 DEF Page
    <3>2. p \in Int /\ q \in Int /\ NUM_PAG_CODE \in Int /\ NUM_PAG_KERNEL \in Int
      BY <1>0 DEF Page
    <3>3. NUM_PAG_KERNEL + 2 * (NUM_PAG_CODE + p) = NUM_PAG_KERNEL + 2 * (NUM_PAG_CODE + q)
      BY <2>2, <3>1, Zenon
    <3> QED
      BY <3>2, <3>3
  <2> QED
    BY <2>1, <2>2 DEF Whole
<1>5. Range(BootFrames) = CodeFrames \cup Range(T)
  <2>1. \A i \in 1..n: i \in 1..NUM_PAG_CODE \/ \E page \in Page: i = NUM_PAG_CODE + page + 1
    <3> SUFFICES ASSUME NEW i \in 1..n, i \notin 1..NUM_PAG_CODE
                 PROVE  \E page \in Page: i = NUM_PAG_CODE + page + 1
      OBVIOUS
    <3>1. i - NUM_PAG_CODE - 1 \in Page /\ i = NUM_PAG_CODE + (i - NUM_PAG_CODE - 1) + 1
      BY <1>0 DEF Page
    <3> QED
      BY <3>1
  <2>2. 1..NUM_PAG_CODE \subseteq 1..n
    BY <1>0
  <2>3. DOMAIN BootFrames = 1..n /\ DOMAIN T = Page /\ \A page \in Page: T[page] = BootFrames[NUM_PAG_CODE + page + 1]
    BY <1>1, <1>3
  <2> HIDE DEF n, T
  <2>4. Range(T) \subseteq Range(BootFrames)
    BY <1>2, <2>3 DEF Range
  <2>5. CodeFrames \subseteq Range(BootFrames)
    BY <2>2, <2>3 DEF Range, CodeFrames
  <2>6. Range(BootFrames) \subseteq CodeFrames \cup Range(T)
    BY <2>1, <2>3 DEF Range, CodeFrames
  <2> QED
    BY <2>4, <2>5, <2>6
<1>6. Range(T) \cap (CodeFrames \cup KernelFrames) = {}
  <2> SUFFICES ASSUME NEW page \in Page PROVE T[page] \notin CodeFrames \cup KernelFrames
    BY <1>3 DEF Range
  <2>1. T[page] = NUM_PAG_KERNEL + 2 * (NUM_PAG_CODE + page)
    BY <1>0, <1>1, <1>2, <1>3 DEF Page
  <2>2. T[page] \notin KernelFrames
    BY <1>0, <2>1 DEF KernelFrames, Page
  <2>3. ASSUME NEW i \in 1..NUM_PAG_CODE PROVE BootFrames[i] # T[page]
    <3>1. i \in 1..n
      BY <1>0
    <3>2. BootFrames[i] = NUM_PAG_KERNEL + 2 * (i - 1)
      BY <1>1, <3>1
    <3> QED
      BY <1>0, <2>1, <3>2 DEF Page
  <2> QED
    BY <2>2, <2>3 DEF CodeFrames
<1>7. InUse = {InitTask} /\ alive = {InitTask} /\ phys_mem = KernelFrames \cup Range(BootFrames)
  <2>1. alive = {InitTask} /\ dir[InitTask] = InitTask
    BY <1>0 DEF Init
  <2> QED
    BY <2>1 DEF Init, InUse, KernelFrames
<1>8. UsageCounts
  <2> SUFFICES ASSUME NEW d \in Dir PROVE dir_usage[d] = Cardinality(Users(d))
    BY DEF UsageCounts
  <2>1. Users(d) = IF d = InitTask THEN {InitTask} ELSE {}
    BY <1>0 DEF Init, Users
  <2> QED
    BY <2>1, FS_EmptySet, FS_Singleton DEF Init
<1>9. TypeOK
  <2>1. phys_mem \subseteq Frame
    BY <1>1, <1>7, CodeFramesFirst
  <2>2. memory \in [Frame -> Value] /\ stored \in [Dir -> [Page -> Value]]
    BY DEF Init
  <2>3. pagusr_table \in [Dir -> [Page -> Frame \cup {NoFrame}]]
    BY <1>1, <1>2 DEF Init
  <2>4. dir \in [Task -> Dir] /\ alive \subseteq Task
    BY <1>0 DEF Init, Dir
  <2>5. dir_usage \in [Dir -> {0, 1}]
    BY DEF Init
  <2>6. dir_usage \in [Dir -> 0..Cardinality(Task)]
    BY <1>8, <2>4, <2>5, CountsAreTyped
  <2> QED
    BY <2>1, <2>2, <2>3, <2>4, <2>6 DEF TypeOK
<1>10. Separate
  BY <1>4, <1>5, <1>6, <1>7 DEF Separate
<1>11. Accounted
  BY <1>5, <1>7 DEF Accounted
<1>12. Stored
  <2>1. PICK v \in Value: /\ memory = [f \in Frame |-> v]
                          /\ stored = [d \in Dir |-> [page \in Page |-> v]]
    BY DEF Init
  <2> SUFFICES ASSUME NEW page \in Page PROVE memory[T[page]] = stored[InitTask][page]
    BY <1>7 DEF Stored
  <2>2. T[page] \in Frame
    BY <1>4 DEF Whole
  <2> QED
    BY <1>0, <2>1, <2>2 DEF Dir
<1> QED
  BY <1>8, <1>9, <1>10, <1>11, <1>12 DEF SpaceInv

\* fork: the child gets a directory nobody uses and frames nobody uses, filled
\* with what the parent's pages hold.
LEMMA ForkSpaces ==
  ASSUME SpaceInv, NEW t \in alive, NEW child \in Task, Fork(t, child)
  PROVE  SpaceInv'
<1> DEFINE n == NUM_PAG_DATA
           frames == alloc_frames(phys_mem, n)
           d == dir[t]
           T == [page \in Page |-> frames[page + 1]]
<1>0. /\ TypeOK /\ UsageCounts /\ Separate /\ Accounted /\ Stored
      /\ alive \subseteq Task /\ dir \in [Task -> Dir] /\ dir_usage \in [Dir -> 0..Cardinality(Task)]
      /\ pagusr_table \in [Dir -> [Page -> Frame \cup {NoFrame}]] /\ phys_mem \subseteq Frame
      /\ memory \in [Frame -> Value] /\ stored \in [Dir -> [Page -> Value]]
      /\ n \in Nat \ {0} /\ d \in InUse /\ d \in Dir /\ child \notin alive
  BY SpaceAssumption DEF SpaceInv, TypeOK, Fork, InUse
<1>1. /\ frames \in [1..n -> Available(phys_mem)]
      /\ \A i, j \in 1..n: frames[i] = frames[j] => i = j
  <2>1. NoFrame \notin Range(frames)
    BY DEF Fork
  <2>2. /\ frames \in [1..n -> Available(phys_mem) \cup {NoFrame}]
        /\ \A i, j \in 1..n: frames[i] = frames[j] /\ frames[i] # NoFrame => i = j
    BY <1>0, AllocatedFrames
  <2> HIDE DEF frames
  <2> QED
    BY <2>1, <2>2 DEF Range
<1>2. Available(phys_mem) \subseteq Frame \ phys_mem
  BY DEF Available
<1>3. \A page \in Page: page + 1 \in 1..n
  BY <1>0 DEF Page
<1>4. \A i \in 1..n: i - 1 \in Page /\ i = (i - 1) + 1
  BY <1>0 DEF Page
<1>5. PICK e \in Dir: /\ dir_usage[e] = 0 /\ dir' = [dir EXCEPT ![child] = e]
                      /\ dir_usage' = [dir_usage EXCEPT ![e] = 1]
  <2>1. \E e \in Dir: dir_usage[e] = 0
    BY <1>0, FreeDirectory
  <2> QED
    BY <2>1 DEF Fork
<1>6. e \notin InUse /\ dir'[child] = e
  BY <1>0, <1>5, UsersOfDirectories
<1>7. /\ pagusr_table' = [pagusr_table EXCEPT ![e] = T] /\ stored' = [stored EXCEPT ![e] = stored[d]]
      /\ memory' = Copied(d, frames) /\ phys_mem' = phys_mem \cup Range(frames)
      /\ alive' = alive \cup {child}
  BY <1>6 DEF Fork
<1> HIDE DEF frames, d
<1>8. Whole(T)
  BY <1>1, <1>2, <1>3 DEF Whole, Page
<1>9. Range(T) = Range(frames) /\ Range(T) \subseteq Frame \ phys_mem
  <2>1. DOMAIN T = Page /\ DOMAIN frames = 1..n
    BY <1>1
  <2>2. Range(T) = Range(frames)
    BY <1>3, <1>4, <2>1 DEF Range
  <2>3. Range(frames) \subseteq Frame \ phys_mem
    BY <1>1, <1>2 DEF Range
  <2> QED
    BY <2>2, <2>3
<1>10. InUse' = InUse \cup {e}
  <2>1. \A u \in alive: dir'[u] = dir[u]
    BY <1>0, <1>5
  <2> QED
    BY <1>6, <1>7, <2>1 DEF InUse
<1>11. pagusr_table'[e] = T /\ \A x \in InUse: x # e /\ pagusr_table'[x] = pagusr_table[x]
  BY <1>0, <1>6, <1>7, UsersOfDirectories
<1>12. \A x \in InUse: Range(pagusr_table[x]) \subseteq phys_mem \ (CodeFrames \cup KernelFrames)
  BY <1>0 DEF Separate
<1>13. CodeFrames \cup KernelFrames \subseteq phys_mem
  BY <1>0 DEF Accounted
<1> HIDE DEF T
<1>14. UsageCounts'
  <2> SUFFICES ASSUME NEW x \in Dir PROVE dir_usage'[x] = Cardinality(Users(x)')
    BY DEF UsageCounts
  <2>1. Users(x)' = IF x = e THEN {child} ELSE Users(x)
    <3>1. x = e => Users(x) = {}
      BY <1>0, <1>6 DEF Users, InUse
    <3>2. Users(x)' = IF x = e THEN Users(x) \cup {child} ELSE Users(x)
      BY <1>0, <1>5, <1>7 DEF Users
    <3> QED
      BY <3>1, <3>2
  <2>2. dir_usage'[x] = IF x = e THEN 1 ELSE dir_usage[x]
    BY <1>0, <1>5
  <2> QED
    BY <1>0, <2>1, <2>2, FS_Singleton DEF UsageCounts
<1>15. \A page \in Page: pagusr_table[d][page] \in Frame
  BY <1>0 DEF Separate, Whole
<1>16. /\ \A page \in Page: memory'[T[page]] = memory[pagusr_table[d][page]]
       /\ \A f \in Frame \ Range(T): memory'[f] = memory[f]
       /\ memory' \in [Frame -> Value]
  <2>1. \A page \in Page: frames[page + 1] = T[page]
    BY DEF T
  <2>2. memory' = [f \in Frame |->
          IF \E page \in Page: T[page] = f
          THEN memory[pagusr_table[d][CHOOSE page \in Page: frames[page + 1] = f]] ELSE memory[f]]
    BY <1>7, <2>1 DEF Copied
  <2>3. ASSUME NEW f \in Frame, \E page \in Page: T[page] = f
        PROVE  \E page \in Page: T[page] = f /\ memory'[f] = memory[pagusr_table[d][page]]
    <3> DEFINE p == CHOOSE page \in Page: frames[page + 1] = f
    <3>1. p \in Page /\ frames[p + 1] = f
      BY <2>1, <2>3
    <3>2. memory'[f] = memory[pagusr_table[d][p]]
      BY <2>2, <2>3
    <3> HIDE DEF p
    <3> QED
      BY <2>1, <3>1, <3>2
  <2>4. ASSUME NEW page \in Page PROVE memory'[T[page]] = memory[pagusr_table[d][page]]
    <3>1. T[page] \in Frame
      BY <1>8 DEF Whole
    <3>2. PICK p \in Page: T[p] = T[page] /\ memory'[T[page]] = memory[pagusr_table[d][p]]
      BY <2>3, <3>1
    <3> QED
      BY <1>8, <3>2 DEF Whole
  <2>5. ASSUME NEW f \in Frame \ Range(T) PROVE memory'[f] = memory[f]
    <3>1. ~ \E page \in Page: T[page] = f
      BY DEF T, Range
    <3> QED
      BY <2>2, <3>1
  <2>6. \A f \in Frame: memory'[f] \in Value
    <3> SUFFICES ASSUME NEW f \in Frame PROVE memory'[f] \in Value
      OBVIOUS
    <3>1. CASE \E page \in Page: T[page] = f
      BY <1>0, <1>15, <2>3, <3>1
    <3>2. CASE ~ \E page \in Page: T[page] = f
      BY <1>0, <2>2, <3>2
    <3> QED
      BY <3>1, <3>2
  <2>7. DOMAIN memory' = Frame /\ memory' = [f \in Frame |-> memory'[f]]
    BY <2>2
  <2>8. memory' \in [Frame -> Value]
    BY <2>6, <2>7
  <2> QED
    BY <2>4, <2>5, <2>8
<1>17. TypeOK'
  <2>1. phys_mem' \subseteq Frame /\ alive' \subseteq Task /\ dir' \in [Task -> Dir]
    BY <1>0, <1>5, <1>7, <1>9
  <2>2. pagusr_table' \in [Dir -> [Page -> Frame \cup {NoFrame}]]
    BY <1>0, <1>7, <1>8 DEF Whole
  <2>3. stored' \in [Dir -> [Page -> Value]]
    BY <1>0, <1>7
  <2>4. dir_usage' \in [Dir -> Nat]
    <3>1. dir_usage \in [Dir -> Nat]
      BY <1>0
    <3> QED
      BY <1>5, <3>1
  <2>5. dir_usage' \in [Dir -> 0..Cardinality(Task)]
    <3>1. \A x \in Dir: dir_usage'[x] \in 0..Cardinality(Task)
      <4> SUFFICES ASSUME NEW x \in Dir PROVE dir_usage'[x] \in 0..Cardinality(Task)
        OBVIOUS
      <4>1. dir_usage'[x] = Cardinality(Users(x)')
        BY <1>14 DEF UsageCounts
      <4>2. Users(x)' \subseteq Task
        BY <2>1 DEF Users
      <4> QED
        BY <4>1, <4>2, TaskSets
    <3> QED
      BY <2>4, <3>1
  <2> QED
    BY <1>16, <2>1, <2>2, <2>3, <2>5 DEF TypeOK
<1>18. Separate'
  <2> SUFFICES ASSUME NEW x \in InUse \cup {e}
               PROVE  /\ Whole(pagusr_table'[x])
                      /\ Range(pagusr_table'[x]) \subseteq phys_mem' \ (CodeFrames \cup KernelFrames)
                      /\ \A y \in (InUse \cup {e}) \ {x}:
                           Range(pagusr_table'[x]) \cap Range(pagusr_table'[y]) = {}
    BY <1>10 DEF Separate
  <2>1. CASE x = e
    BY <1>7, <1>8, <1>9, <1>11, <1>12, <1>13, <2>1
  <2>2. CASE x \in InUse
    <3>1. x # e /\ pagusr_table'[x] = pagusr_table[x]
      BY <1>11, <2>2
    <3>2. Whole(pagusr_table[x]) /\ Range(pagusr_table[x]) \subseteq phys_mem \ (CodeFrames \cup KernelFrames)
      BY <1>0, <2>2 DEF Separate
    <3>3. \A y \in InUse \ {x}: Range(pagusr_table'[x]) \cap Range(pagusr_table'[y]) = {}
      BY <1>0, <1>11, <2>2, <3>1 DEF Separate
    <3>4. Range(pagusr_table'[x]) \cap Range(pagusr_table'[e]) = {}
      BY <1>9, <1>11, <3>1, <3>2
    <3> QED
      BY <1>7, <3>1, <3>2, <3>3, <3>4
  <2> QED
    BY <2>1, <2>2
<1>19. Accounted'
  <2> DEFINE mapped == UNION {Range(pagusr_table[x]): x \in InUse}
             mappedNext == UNION {Range(pagusr_table'[x]): x \in InUse \cup {e}}
  <2>1. ASSUME NEW f PROVE f \in mappedNext <=> f \in mapped \/ f \in Range(T)
    <3>1. f \in mappedNext <=> \E x \in InUse \cup {e}: f \in Range(pagusr_table'[x])
      OBVIOUS
    <3>2. f \in mapped <=> \E x \in InUse: f \in Range(pagusr_table[x])
      OBVIOUS
    <3> QED
      BY <1>11, <3>1, <3>2
  <2>2. phys_mem = KernelFrames \cup CodeFrames \cup mapped
    BY <1>0 DEF Accounted
  <2>3. phys_mem' = KernelFrames \cup CodeFrames \cup mappedNext
    <3> HIDE DEF mapped, mappedNext
    <3> QED
      BY <1>7, <1>9, <2>1, <2>2
  <2> QED
    BY <1>10, <2>3 DEF Accounted, KernelFrames
<1>20. Stored'
  <2> SUFFICES ASSUME NEW x \in InUse \cup {e}, NEW page \in Page
               PROVE  memory'[pagusr_table'[x][page]] = stored'[x][page]
    BY <1>10 DEF Stored
  <2>1. CASE x = e
    <3>1. stored'[e] = stored[d]
      BY <1>0, <1>7
    <3>2. memory[pagusr_table[d][page]] = stored[d][page]
      BY <1>0 DEF Stored
    <3> QED
      BY <1>11, <1>16, <2>1, <3>1, <3>2
  <2>2. CASE x \in InUse
    <3>1. pagusr_table[x][page] \in Range(pagusr_table[x]) /\ pagusr_table[x][page] \in Frame
      BY <1>0, <2>2 DEF Separate, Whole, Range
    <3>2. pagusr_table[x][page] \notin Range(T)
      BY <1>9, <1>12, <2>2, <3>1
    <3>3. memory'[pagusr_table[x][page]] = memory[pagusr_table[x][page]]
      BY <1>16, <3>1, <3>2
    <3>4. stored'[x] = stored[x]
      BY <1>0, <1>7, <1>11, <2>2, UsersOfDirectories
    <3> QED
      BY <1>0, <1>11, <2>2, <3>3, <3>4 DEF Stored
  <2> QED
    BY <2>1, <2>2
<1> QED
  BY <1>14, <1>17, <1>18, <1>19, <1>20 DEF SpaceInv

\* A failing fork gives back exactly the frames it took.
LEMMA ForkFailsSpaces ==
  ASSUME SpaceInv, NEW t \in alive, ForkFails(t)
  PROVE  UNCHANGED vars
<1> DEFINE frames == alloc_frames(phys_mem, NUM_PAG_DATA)
           found == Range(frames) \ {NoFrame}
<1>1. frames \in [1..NUM_PAG_DATA -> Available(phys_mem) \cup {NoFrame}]
  BY SpaceAssumption, AllocatedFrames
<1>2. found \subseteq Available(phys_mem)
  <2> HIDE DEF frames
  <2> QED
    BY <1>1 DEF Range
<1>3. CodeFrames \cup KernelFrames \subseteq phys_mem
  BY DEF SpaceInv, Accounted
<1>4. \A f \in found: f \notin phys_mem /\ f > NUM_PAG_KERNEL /\ f < TOTAL_PAGES
  <2> SUFFICES ASSUME NEW f \in found
               PROVE  f \notin phys_mem /\ f > NUM_PAG_KERNEL /\ f < TOTAL_PAGES
    OBVIOUS
  <2>1. f \in Frame /\ f \notin phys_mem
    BY <1>2 DEF Available
  <2> QED
    BY <1>3, <2>1, CodeFramesFirst
<1>5. phys_mem' = free_frames(phys_mem \cup found, found)
      /\ UNCHANGED <<memory, pagusr_table, alive, dir, dir_usage, stored>>
  BY DEF ForkFails
<1> HIDE DEF found
<1>6. phys_mem' = phys_mem
  BY <1>4, <1>5 DEF free_frames
<1> QED
  BY <1>5, <1>6 DEF vars

\* Calls that change the users of the address spaces in use, and nothing else.
LEMMA SameSpaces ==
  ASSUME SpaceInv, TypeOK', UsageCounts', InUse' = InUse,
         UNCHANGED <<phys_mem, memory, pagusr_table, stored>>
  PROVE  SpaceInv'
<1>1. Separate'
  BY DEF SpaceInv, Separate
<1>2. Accounted'
  BY DEF SpaceInv, Accounted
<1>3. Stored'
  BY DEF SpaceInv, Stored
<1> QED
  BY <1>1, <1>2, <1>3 DEF SpaceInv

\* clone: one more user of the caller's address space.
LEMMA CloneSpaces ==
  ASSUME SpaceInv, NEW t \in alive, NEW child \in Task, Clone(t, child)
  PROVE  SpaceInv'
<1>0. /\ TypeOK /\ UsageCounts /\ alive \subseteq Task /\ dir \in [Task -> Dir]
      /\ dir_usage \in [Dir -> 0..Cardinality(Task)] /\ dir[t] \in Dir
  BY DEF SpaceInv, TypeOK
<1>1. /\ child \notin alive /\ alive' = alive \cup {child} /\ dir' = [dir EXCEPT ![child] = dir[t]]
      /\ dir_usage' = [dir_usage EXCEPT ![dir[t]] = @ + 1]
      /\ UNCHANGED <<phys_mem, memory, pagusr_table, stored>>
  BY DEF Clone
<1>2. UsageCounts'
  <2> SUFFICES ASSUME NEW x \in Dir PROVE dir_usage'[x] = Cardinality(Users(x)')
    BY DEF UsageCounts
  <2>1. Users(x)' = IF x = dir[t] THEN Users(x) \cup {child} ELSE Users(x)
    BY <1>0, <1>1 DEF Users
  <2>2. IsFiniteSet(Users(x)) /\ child \notin Users(x)
    BY <1>0, <1>1, UsersOfDirectories DEF Users
  <2>3. Cardinality(Users(x) \cup {child}) = Cardinality(Users(x)) + 1
    BY <2>2, FS_AddElement
  <2>4. dir_usage'[x] = IF x = dir[t] THEN dir_usage[x] + 1 ELSE dir_usage[x]
    BY <1>0, <1>1
  <2> QED
    BY <1>0, <2>1, <2>3, <2>4 DEF UsageCounts
<1>3. InUse' = InUse
  <2>1. \A u \in alive: dir'[u] = dir[u]
    BY <1>0, <1>1
  <2>2. dir'[child] = dir[t]
    BY <1>0, <1>1
  <2> QED
    BY <1>1, <2>1, <2>2 DEF InUse
<1>4. dir_usage' \in [Dir -> Nat] /\ alive' \subseteq Task /\ dir' \in [Task -> Dir]
  <2>1. dir_usage \in [Dir -> Nat]
    BY <1>0
  <2> QED
    BY <1>0, <1>1, <2>1
<1>5. \A x \in Dir: dir_usage'[x] \in 0..Cardinality(Task)
  <2> SUFFICES ASSUME NEW x \in Dir PROVE dir_usage'[x] \in 0..Cardinality(Task)
    OBVIOUS
  <2>1. dir_usage'[x] = Cardinality(Users(x)') /\ Users(x)' \subseteq Task
    BY <1>2, <1>4 DEF UsageCounts, Users
  <2> QED
    BY <2>1, TaskSets
<1>6. TypeOK'
  BY <1>0, <1>1, <1>4, <1>5 DEF TypeOK
<1> QED
  BY <1>1, <1>2, <1>3, <1>6, SameSpaces

\* exit: the frames go back when, and only when, the last user is gone.
LEMMA ExitSpaces ==
  ASSUME SpaceInv, NEW t \in alive, Exit(t)
  PROVE  SpaceInv'
<1> DEFINE d == dir[t]
<1>0. /\ TypeOK /\ UsageCounts /\ Separate /\ Accounted /\ Stored
      /\ alive \subseteq Task /\ dir \in [Task -> Dir] /\ dir_usage \in [Dir -> 0..Cardinality(Task)]
      /\ phys_mem \subseteq Frame /\ pagusr_table \in [Dir -> [Page -> Frame \cup {NoFrame}]]
      /\ d \in Dir /\ d \in InUse
  BY DEF SpaceInv, TypeOK, InUse
<1>1. /\ alive' = alive \ {t} /\ dir_usage' = [dir_usage EXCEPT ![d] = @ - 1]
      /\ UNCHANGED <<memory, dir, stored>>
  BY DEF Exit
<1>2. \A x \in Dir: IsFiniteSet(Users(x)) /\ Cardinality(Users(x)) \in Nat
  BY <1>0, UsersOfDirectories
<1> HIDE DEF d
<1>3. t \in Users(d) /\ \A x \in Dir: t \in Users(x) => x = d
  BY DEF Users, d
<1>4. UsageCounts'
  <2> SUFFICES ASSUME NEW x \in Dir PROVE dir_usage'[x] = Cardinality(Users(x)')
    BY DEF UsageCounts
  <2>1. Users(x)' = Users(x) \ {t}
    BY <1>1 DEF Users
  <2>2. Cardinality(Users(x) \ {t}) = IF x = d THEN Cardinality(Users(x)) - 1 ELSE Cardinality(Users(x))
    BY <1>2, <1>3, FS_RemoveElement
  <2>3. dir_usage'[x] = IF x = d THEN dir_usage[x] - 1 ELSE dir_usage[x]
    BY <1>0, <1>1
  <2> QED
    BY <1>0, <2>1, <2>2, <2>3 DEF UsageCounts
<1>5. alive' \subseteq Task /\ dir_usage' \in [Dir -> 0..Cardinality(Task)]
  <2>1. alive' \subseteq Task
    BY <1>0, <1>1
  <2>2. \A x \in Dir: dir_usage'[x] \in 0..Cardinality(Task)
    <3> SUFFICES ASSUME NEW x \in Dir PROVE dir_usage'[x] \in 0..Cardinality(Task)
      OBVIOUS
    <3>1. dir_usage'[x] = Cardinality(Users(x)') /\ Users(x)' \subseteq Task
      BY <1>4, <2>1 DEF UsageCounts, Users
    <3> QED
      BY <3>1, TaskSets
  <2>3. dir_usage' \in [Dir -> Int]
    <3>1. dir_usage \in [Dir -> Int]
      BY <1>0
    <3>2. dir_usage[d] - 1 \in Int
      BY <1>0, <3>1
    <3> QED
      BY <1>1, <3>1, <3>2
  <2> QED
    BY <2>1, <2>2, <2>3
<1>6. CASE ~LastUse(d)
  <2>1. UNCHANGED <<phys_mem, pagusr_table>>
    BY <1>6 DEF Exit, d
  <2>2. TypeOK'
    BY <1>0, <1>1, <1>5, <2>1 DEF TypeOK
  <2>3. InUse' = InUse
    <3>1. PICK u \in Users(d): u # t
      <4>1. Cardinality(Users(d)) # 1
        BY <1>0, <1>6 DEF LastUse, UsageCounts
      <4>2. Users(d) # {t}
        BY <4>1, FS_Singleton
      <4> QED
        BY <1>3, <4>2
    <3>2. u \in alive \ {t} /\ dir[u] = d
      BY <3>1 DEF Users
    <3> QED
      BY <1>1, <3>2 DEF InUse, d
  <2> QED
    BY <1>1, <1>4, <2>1, <2>2, <2>3, SameSpaces
<1>7. CASE LastUse(d)
  <2> DEFINE R == Range(pagusr_table[d])
  <2>1. /\ phys_mem' = free_frames(phys_mem, R)
        /\ pagusr_table' = [pagusr_table EXCEPT ![d] = [page \in Page |-> NoFrame]]
    BY <1>7 DEF Exit, d
  <2>2. InUse' = InUse \ {d}
    <3>1. Users(d) = {t}
      <4>1. Cardinality(Users(d)) = 1
        BY <1>0, <1>7 DEF LastUse, UsageCounts
      <4>2. PICK u: Users(d) = {u}
        BY <1>0, <1>2, <4>1, FS_Singleton
      <4> QED
        BY <1>3, <4>2
    <3> QED
      BY <1>1, <3>1 DEF InUse, Users, d
  <2>3. \A x \in InUse \ {d}: pagusr_table'[x] = pagusr_table[x]
    BY <1>0, <2>1, UsersOfDirectories
  <2>4. R \subseteq phys_mem \ (CodeFrames \cup KernelFrames)
    BY <1>0 DEF Separate
  <2>5. phys_mem' = phys_mem \ R
    <3>1. \A f \in R: f > NUM_PAG_KERNEL /\ f < TOTAL_PAGES
      BY <1>0, <2>4, CodeFramesFirst
    <3> QED
      BY <2>1, <3>1 DEF free_frames
  <2>6. \A x \in InUse \ {d}: Range(pagusr_table[x]) \cap R = {}
    BY <1>0 DEF Separate
  <2> HIDE DEF R
  <2>7. TypeOK'
    <3>1. [page \in Page |-> NoFrame] \in [Page -> Frame \cup {NoFrame}]
      OBVIOUS
    <3>2. pagusr_table' \in [Dir -> [Page -> Frame \cup {NoFrame}]]
      BY <1>0, <2>1, <3>1
    <3>3. phys_mem' \subseteq Frame
      BY <1>0, <2>5
    <3> QED
      BY <1>0, <1>1, <1>5, <3>2, <3>3 DEF TypeOK
  <2>8. Separate'
    <3> SUFFICES ASSUME NEW x \in InUse \ {d}
                 PROVE  /\ Whole(pagusr_table'[x])
                        /\ Range(pagusr_table'[x]) \subseteq phys_mem' \ (CodeFrames \cup KernelFrames)
                        /\ \A y \in (InUse \ {d}) \ {x}:
                             Range(pagusr_table'[x]) \cap Range(pagusr_table'[y]) = {}
      BY <2>2 DEF Separate
    <3>1. /\ Whole(pagusr_table[x])
          /\ Range(pagusr_table[x]) \subseteq phys_mem \ (CodeFrames \cup KernelFrames)
          /\ \A y \in InUse \ {x}: Range(pagusr_table[x]) \cap Range(pagusr_table[y]) = {}
      BY <1>0 DEF Separate
    <3> QED
      BY <2>3, <2>5, <2>6, <3>1
  <2>9. Accounted'
    <3> DEFINE mapped == UNION {Range(pagusr_table[x]): x \in InUse}
               mappedNext == UNION {Range(pagusr_table'[x]): x \in InUse \ {d}}
    <3>1. ASSUME NEW f PROVE f \in mappedNext <=> f \in mapped /\ f \notin R
      <4>1. f \in mappedNext <=> \E x \in InUse \ {d}: f \in Range(pagusr_table'[x])
        OBVIOUS
      <4>2. f \in mapped <=> \E x \in InUse: f \in Range(pagusr_table[x])
        OBVIOUS
      <4>3. f \in R <=> f \in Range(pagusr_table[d])
        BY DEF R
      <4> QED
        BY <2>3, <2>6, <4>1, <4>2, <4>3
    <3>2. phys_mem = KernelFrames \cup CodeFrames \cup mapped
      BY <1>0 DEF Accounted
    <3>3. phys_mem' = KernelFrames \cup CodeFrames \cup mappedNext
      <4> HIDE DEF mapped, mappedNext
      <4> QED
        BY <2>4, <2>5, <3>1, <3>2
    <3> QED
      BY <2>2, <3>3 DEF Accounted, KernelFrames
  <2>10. Stored'
    BY <1>0, <1>1, <2>2, <2>3 DEF Stored
  <2> QED
    BY <1>4, <2>7, <2>8, <2>9, <2>10 DEF SpaceInv
<1> QED
  BY <1>6, <1>7

\* A store changes the page of the address space it is made in, and no other.
LEMMA StoreSpaces ==
  ASSUME SpaceInv, NEW t \in alive, NEW page \in Page, NEW v \in Value, Store(t, page, v)
  PROVE  SpaceInv'
<1> DEFINE d == dir[t]
           f == pagusr_table[d][page]
<1>0. /\ TypeOK /\ UsageCounts /\ Separate /\ Accounted /\ Stored /\ d \in InUse /\ d \in Dir
      /\ memory \in [Frame -> Value] /\ stored \in [Dir -> [Page -> Value]] /\ InUse \subseteq Dir
  BY UsersOfDirectories DEF SpaceInv, TypeOK, InUse
<1>1. f \in Frame
  BY <1>0 DEF Separate, Whole
<1>2. /\ memory' = [memory EXCEPT ![f] = v] /\ stored' = [stored EXCEPT ![d][page] = v]
      /\ UNCHANGED <<phys_mem, pagusr_table, alive, dir, dir_usage>>
  BY DEF Store
<1>3. TypeOK'
  <2>1. memory' \in [Frame -> Value] /\ stored' \in [Dir -> [Page -> Value]]
    BY <1>0, <1>2
  <2> QED
    BY <1>0, <1>2, <2>1 DEF TypeOK
<1>4. UsageCounts' /\ Separate' /\ Accounted'
  <2>1. UsageCounts'
    BY <1>0, <1>2 DEF UsageCounts, Users
  <2>2. InUse' = InUse
    BY <1>2 DEF InUse
  <2>3. Separate' /\ Accounted'
    BY <1>0, <1>2, <2>2 DEF Separate, Accounted
  <2> QED
    BY <2>1, <2>3
<1>5. Stored'
  <2> SUFFICES ASSUME NEW x \in InUse, NEW p \in Page
               PROVE  memory'[pagusr_table[x][p]] = stored'[x][p]
    BY <1>2 DEF Stored, InUse
  <2>1. pagusr_table[x][p] \in Frame /\ memory[pagusr_table[x][p]] = stored[x][p] /\ x \in Dir
    BY <1>0 DEF Separate, Whole, Stored
  <2>2. CASE x = d /\ p = page
    BY <1>0, <1>1, <1>2, <2>2
  <2>3. CASE ~(x = d /\ p = page)
    <3>1. pagusr_table[x][p] # f
      <4>1. CASE x = d
        BY <1>0, <2>3, <4>1 DEF Separate, Whole
      <4>2. CASE x # d
        <5>1. Range(pagusr_table[x]) \cap Range(pagusr_table[d]) = {}
          BY <1>0, <4>2 DEF Separate
        <5>2. pagusr_table[x][p] \in Range(pagusr_table[x]) /\ f \in Range(pagusr_table[d])
          BY <1>0 DEF Separate, Whole, Range
        <5> QED
          BY <5>1, <5>2
      <4> QED
        BY <4>1, <4>2
    <3>2. stored'[x][p] = stored[x][p]
      BY <1>0, <1>2, <2>1, <2>3
    <3> HIDE DEF f
    <3> QED
      BY <1>0, <1>2, <2>1, <3>1, <3>2
  <2> QED
    BY <2>2, <2>3
<1> QED
  BY <1>3, <1>4, <1>5 DEF SpaceInv

\* The invariant holds whichever tasks call fork, clone and exit and store.
LEMMA SpaceInvHolds == Spec => []SpaceInv
<1>1. SpaceInv /\ [Next]_vars => SpaceInv'
  <2> SUFFICES ASSUME SpaceInv, [Next]_vars PROVE SpaceInv'
    OBVIOUS
  <2>1. ASSUME UNCHANGED vars PROVE SpaceInv'
    <3>1. InUse' = InUse /\ TypeOK' /\ UsageCounts'
      BY <2>1 DEF vars, SpaceInv, InUse, TypeOK, UsageCounts, Users
    <3> QED
      BY <2>1, <3>1, SameSpaces DEF vars
  <2>2. CASE Next
    BY <2>1, <2>2, ForkSpaces, ForkFailsSpaces, CloneSpaces, ExitSpaces, StoreSpaces DEF Next
  <2> QED
    BY <2>1, <2>2 DEF Next
<1> QED
  BY <1>1, InitSpaces, PTL DEF Spec

-----------------------------------------------------------------------------
(* The properties of module AddressSpaces *)

\* The tables keep their types.
THEOREM SpaceTypes == Spec => []TypeOK
<1>1. SpaceInv => TypeOK
  BY DEF SpaceInv
<1> QED
  BY <1>1, SpaceInvHolds, PTL

\* An entry of a whole table is a frame, never NoFrame.
LEMMA MappedFrames ==
  ASSUME SpaceInv, NEW d \in InUse
  PROVE  Mapped(d) = Range(pagusr_table[d]) /\ Whole(pagusr_table[d])
<1>1. Whole(pagusr_table[d])
  BY DEF SpaceInv, Separate
<1>2. NoFrame \notin Range(pagusr_table[d])
  BY <1>1 DEF Whole, Range, NoFrame, Frame
<1> QED
  BY <1>1, <1>2 DEF Mapped

\* No matter which of its threads exit and which forks succeed or fail, an
\* address space keeps all its pages, in frames of its own.
THEOREM SpacesStaySeparate == Spec => []SpacesAreSeparate
<1>1. SpaceInv => SpacesAreSeparate
  <2> SUFFICES ASSUME SpaceInv, NEW d \in InUse
               PROVE  /\ Cardinality(Mapped(d)) = NUM_PAG_DATA
                      /\ Mapped(d) \subseteq phys_mem \ (CodeFrames \cup KernelFrames)
                      /\ \A e \in InUse \ {d}: Mapped(d) \cap Mapped(e) = {}
    BY DEF SpacesAreSeparate, KernelFrames
  <2>1. Cardinality(Mapped(d)) = NUM_PAG_DATA
    <3> DEFINE T == pagusr_table[d]
    <3>1. T \in Bijection(Page, Range(T))
      BY MappedFrames DEF Whole, Range, Bijection, Injection, Surjection, IsInjective
    <3>2. IsFiniteSet(Page) /\ Cardinality(Page) = NUM_PAG_DATA
      <4>1. NUM_PAG_DATA \in Nat \ {0}
        BY SpaceAssumption
      <4>2. NUM_PAG_DATA - 1 \in Int /\ ~(0 > NUM_PAG_DATA - 1) /\ NUM_PAG_DATA - 1 - 0 + 1 = NUM_PAG_DATA
        BY <4>1
      <4> QED
        BY <4>2, FS_Interval DEF Page
    <3> HIDE DEF T
    <3>3. Cardinality(Range(T)) = NUM_PAG_DATA
      BY <3>1, <3>2, FS_Bijection DEF ExistsBijection
    <3> QED
      BY <3>3, MappedFrames DEF T
  <2>2. Mapped(d) \subseteq phys_mem \ (CodeFrames \cup KernelFrames)
    BY MappedFrames DEF SpaceInv, Separate
  <2>3. \A e \in InUse \ {d}: Mapped(d) \cap Mapped(e) = {}
    BY MappedFrames DEF SpaceInv, Separate
  <2> QED
    BY <2>1, <2>2, <2>3
<1> QED
  BY <1>1, SpaceInvHolds, PTL

\* Every allocated frame has a user: no path of fork and exit leaks one.
THEOREM FramesAreAccountedFor == Spec => []NoFrameIsLost
<1>1. SpaceInv => NoFrameIsLost
  <2> SUFFICES ASSUME SpaceInv PROVE NoFrameIsLost
    OBVIOUS
  <2>1. \A d \in InUse: Mapped(d) = Range(pagusr_table[d])
    BY MappedFrames
  <2>2. UNION {Mapped(d): d \in InUse} = UNION {Range(pagusr_table[d]): d \in InUse}
    BY <2>1
  <2> QED
    BY <2>2 DEF SpaceInv, Accounted, NoFrameIsLost, KernelFrames
<1> QED
  BY <1>1, SpaceInvHolds, PTL

\* What a program stored, it reads back, and a child starts with its parent's data.
THEOREM StoresAreKept == Spec => []ReadsOwnStores
<1>1. SpaceInv => ReadsOwnStores
  BY DEF SpaceInv, Stored, ReadsOwnStores
<1> QED
  BY <1>1, SpaceInvHolds, PTL
=============================================================================
