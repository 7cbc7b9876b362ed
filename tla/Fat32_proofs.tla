---------------------------- MODULE Fat32_proofs ----------------------------
(***************************************************************************)
(* Proofs about the FAT32 driver (module Fat32), for disks of any size,    *)
(* any names and any calls.                                                *)
(***************************************************************************)
EXTENDS Fat32, FiniteSetTheorems, WellFoundedInduction, TLAPS

Fats == [Cluster -> FatValue]
Slots == [Slot -> Entry]
Hints == Cluster \cup {FatSize, NoHint}

\* Bytes of the FAT region are the only ones that can read as FAT words.
WordsInPlace(d) ==
  \A c \in Cluster, s \in Slot: d.dir[c][s] = Words => c = 0 /\ s < EntriesPerSector
Disks == {d \in [fat: Fats, dir: [Cluster -> Slots]]: WordsInPlace(d)}

-----------------------------------------------------------------------------
(* Numbers and sequences *)

\* Induction, for a property of numbers given as a set.
LEMMA CountUp ==
  ASSUME NEW P \in SUBSET Nat, 0 \in P, \A n \in P: n + 1 \in P
  PROVE  P = Nat
<1> DEFINE R == OpToRel(<, Nat)
<1> SUFFICES ASSUME Nat \ P # {} PROVE FALSE
  OBVIOUS
<1>1. IsWellFoundedOn(R, Nat)
  BY NatLessThanWellFounded
<1>2. \A x, y \in Nat: y < x => <<y, x>> \in R
  BY DEF OpToRel
<1> HIDE DEF R
<1>3. PICK n \in Nat \ P: \A y \in Nat \ P: ~(<<y, n>> \in R)
  BY <1>1, WFMin
<1>4. n - 1 \in Nat /\ n - 1 + 1 = n /\ n - 1 < n
  BY <1>3
<1>5. n - 1 \in P
  BY <1>2, <1>3, <1>4
<1> QED
  BY <1>3, <1>4, <1>5

\* The same for the numbers up to n.
LEMMA CountUpTo ==
  ASSUME NEW n \in Nat, NEW P, 0 \in P, \A i \in 0..n: i # n /\ i \in P => i + 1 \in P
  PROVE  0..n \subseteq P
<1> DEFINE Q == {i \in Nat: i <= n => i \in P}
<1>1. 0 \in Q /\ \A i \in Q: i + 1 \in Q
  OBVIOUS
<1>2. Q \in SUBSET Nat
  OBVIOUS
<1> HIDE DEF Q
<1>3. Q = Nat
  BY <1>1, <1>2, CountUp
<1> QED
  BY <1>3 DEF Q

\* Every set of numbers has its minimum.
LEMMA Minimum ==
  ASSUME NEW T \in SUBSET Nat, T # {}
  PROVE  Min(T) \in T /\ \A y \in T: Min(T) <= y
<1> DEFINE R == OpToRel(<, Nat)
<1>1. IsWellFoundedOn(R, Nat)
  BY NatLessThanWellFounded
<1>2. \A x, y \in Nat: y < x => <<y, x>> \in R
  BY DEF OpToRel
<1> HIDE DEF R
<1>3. PICK x \in T: \A y \in T: ~(<<y, x>> \in R)
  BY <1>1, WFMin
<1>4. \A y \in T: x <= y
  <2> SUFFICES ASSUME NEW y \in T PROVE x <= y
    OBVIOUS
  <2>1. x \in Nat /\ y \in Nat /\ ~(y < x)
    BY <1>2, <1>3
  <2> QED
    BY <2>1
<1> QED
  BY <1>3, <1>4 DEF Min

LEMMA Clusters ==
  /\ FatSize \in Nat /\ Cluster \subseteq Nat /\ 0 \in Cluster /\ EOC \notin Cluster
  /\ Diverges \notin Cluster /\ EOC # 0 /\ Diverges # 0 /\ Full \notin Cluster /\ Full = EOC
  /\ RootCluster \in Cluster /\ RootCluster # 0
  /\ Dir1Cluster \in Cluster /\ Dir1Cluster # 0 /\ Dir1Cluster # RootCluster
  /\ File0Cluster \in Cluster /\ File0Cluster # 0 /\ File0Cluster # RootCluster
  /\ Dir1Cluster # File0Cluster
  /\ \A c \in Cluster: c <= File0Cluster => c < LoadedWords
<1>1. /\ FatSize \in Nat /\ FatSize > 0 /\ RootCluster \in 2..FatSize-1
      /\ RootCluster + 2 < FatSize \div 4
  BY GeometryAssumption
<1>2. RootCluster + 2 < FatSize
  BY <1>1
<1> QED
  BY <1>1, <1>2 DEF Cluster, EOC, Diverges, Full, Dir1Cluster, File0Cluster, LoadedWords

LEMMA SlotsAreNumbers == Slot \subseteq Nat
  BY DEF Slot

LEMMA FirstSlot == 0 \in Slot
<1>1. /\ SectorsPerCluster \in Nat /\ SectorsPerCluster > 0
      /\ EntriesPerSector \in Nat /\ EntriesPerSector > 0
  BY GeometryAssumption
<1>2. SectorsPerCluster * EntriesPerSector \in Nat /\ SectorsPerCluster * EntriesPerSector > 0
  BY <1>1
<1> QED
  BY <1>2 DEF Slot

LEMMA Ending ==
  ASSUME NEW S, NEW q \in Seq(S), NEW x \in S
  PROVE  /\ Append(q, x) \in Seq(S) /\ Append(q, x) # <<>> /\ Last(Append(q, x)) = x
         /\ q \o <<x>> \in Seq(S) /\ q \o <<x>> # <<>> /\ Last(q \o <<x>>) = x
BY DEF Last

-----------------------------------------------------------------------------
(* Chains *)

\* s follows the table f from c on and stays within A.
Path(f, c, A, s) ==
  /\ s \in Seq(A) /\ s # <<>> /\ s[1] = c
  /\ \A i \in 1..Len(s): i # Len(s) => f[s[i]] # EOC /\ s[i + 1] = f[s[i]]

\* A contains what it leads to.
Closed(f, A) == A \subseteq Cluster /\ \A x \in A: f[x] # EOC => f[x] \in A

\* The position of a cluster in its chain, counted from behind: what makes loops end.
Ranks == [Cluster -> 0..FatSize-1]
Descends(f, A, r) == \A x \in A: f[x] # EOC => r[f[x]] < r[x]

LEMMA ConcatIndices ==
  ASSUME NEW S, NEW p \in Seq(S), NEW q \in Seq(S)
  PROVE  /\ p \o q \in Seq(S) /\ Len(p \o q) = Len(p) + Len(q)
         /\ \A i \in 1..Len(p): (p \o q)[i] = p[i]
         /\ \A i \in 1..Len(q): (p \o q)[Len(p) + i] = q[i]
OBVIOUS

Preceded(S, x, q, s) ==
  /\ s \in Seq(S) /\ s # <<>> /\ Len(s) = Len(q) + 1 /\ s[1] = x
  /\ \A i \in 1..Len(q): s[i + 1] = q[i]
  /\ s[Len(s)] = q[Len(q)] /\ Len(q) \in Nat \ {0}
LEMMA PrecededBy ==
  ASSUME NEW S, NEW x \in S, NEW q \in Seq(S), q # <<>>
  PROVE  Preceded(S, x, q, <<x>> \o q)
<1>1. Len(q) \in Nat \ {0}
  OBVIOUS
<1>2. <<x>> \in Seq(S) /\ Len(<<x>>) = 1 /\ <<x>>[1] = x
  OBVIOUS
<1> DEFINE w == <<x>>
<1> HIDE DEF w
<1>3. w \in Seq(S) /\ Len(w) = 1 /\ w[1] = x
  BY <1>2 DEF w
<1>4. /\ w \o q \in Seq(S) /\ Len(w \o q) = Len(q) + 1 /\ (w \o q)[1] = x
      /\ \A i \in 1..Len(q): (w \o q)[i + 1] = q[i]
  <2>1. w \in Seq(S)
    BY <1>3
  <2>2. /\ w \o q \in Seq(S) /\ Len(w \o q) = Len(w) + Len(q)
        /\ \A i \in 1..Len(w): (w \o q)[i] = w[i]
        /\ \A i \in 1..Len(q): (w \o q)[Len(w) + i] = q[i]
    BY <2>1, ConcatIndices
  <2>3. 1 \in 1..1 /\ 1 + Len(q) = Len(q) + 1 /\ \A i \in 1..Len(q): 1 + i = i + 1
    BY <1>1
  <2> QED
    BY <1>3, <2>2, <2>3
<1>5. w \o q # <<>> /\ Len(q) \in 1..Len(q)
  BY <1>1, <1>4
<1>6. (w \o q)[Len(w \o q)] = q[Len(q)]
  BY <1>4, <1>5
<1> QED
  BY <1>1, <1>4, <1>5, <1>6 DEF w, Preceded

LEMMA OneCluster ==
  ASSUME NEW f, NEW A, NEW x \in A
  PROVE  Path(f, x, A, <<x>> \o <<>>) /\ Last(<<x>> \o <<>>) = x
<1>1. <<x>> \o <<>> = <<x>>
  OBVIOUS
<1> QED
  BY <1>1 DEF Path, Last

LEMMA OneMore ==
  ASSUME NEW f, NEW A, NEW x \in A, f[x] # EOC, NEW q, Path(f, f[x], A, q)
  PROVE  Path(f, x, A, <<x>> \o q) /\ Last(<<x>> \o q) = Last(q)
<1> DEFINE s == <<x>> \o q
<1>1. q \in Seq(A) /\ q # <<>> /\ q[1] = f[x]
  BY DEF Path
<1>2. /\ s \in Seq(A) /\ s # <<>> /\ Len(s) = Len(q) + 1 /\ s[1] = x
      /\ \A i \in 1..Len(q): s[i + 1] = q[i]
      /\ s[Len(s)] = q[Len(q)] /\ Len(q) \in Nat \ {0}
  <2>1. Preceded(A, x, q, s)
    BY <1>1, PrecededBy
  <2> QED
    BY <2>1 DEF Preceded
<1> HIDE DEF s
<1>3. ASSUME NEW i \in 1..Len(s), i # Len(s) PROVE f[s[i]] # EOC /\ s[i + 1] = f[s[i]]
  <2>1. CASE i = 1
    <3>1. 1 \in 1..Len(q)
      BY <1>2
    <3> QED
      BY <1>1, <1>2, <2>1, <3>1
  <2>2. CASE i # 1
    <3>1. PICK j \in 1..Len(q): i = j + 1 /\ j # Len(q) /\ j + 1 \in 1..Len(q)
      <4>1. i - 1 \in 1..Len(q) /\ i = (i - 1) + 1 /\ i - 1 # Len(q) /\ (i - 1) + 1 \in 1..Len(q)
        BY <1>2, <1>3, <2>2
      <4> QED
        BY <4>1
    <3>2. s[i] = q[j] /\ s[i + 1] = q[j + 1]
      BY <1>2, <3>1
    <3>3. f[q[j]] # EOC /\ q[j + 1] = f[q[j]]
      BY <3>1 DEF Path
    <3> QED
      BY <3>2, <3>3
  <2> QED
    BY <2>1, <2>2
<1>4. Path(f, x, A, s)
  BY <1>2, <1>3 DEF Path
<1> QED
  BY <1>2, <1>4 DEF Last, s

\* The recursion of Chain, up to n clusters further on.
ChainRow(f, k, shorter) ==
  [x \in Cluster |-> <<x>> \o (IF k = 0 \/ f[x] = EOC THEN <<>> ELSE shorter[f[x]])]
ChainLoop(f, n, from) == from = [k \in 0..n |-> ChainRow(f, k, from[k - 1])]

LEMMA FirstRow == ASSUME NEW f, NEW g, NEW h PROVE ChainRow(f, 0, g) = ChainRow(f, 0, h)
BY DEF ChainRow

LEMMA ChainLoops ==
  ASSUME NEW f
  PROVE  \A n \in Nat: \E from: ChainLoop(f, n, from)
<1> DEFINE P == {n \in Nat: \E from: ChainLoop(f, n, from)}
<1>1. 0 \in P
  <2> DEFINE g == [k \in 0..0 |-> ChainRow(f, 0, f)]
  <2>1. g = [k \in 0..0 |-> ChainRow(f, k, g[k - 1])]
    BY FirstRow
  <2>2. ChainLoop(f, 0, g)
    BY <2>1 DEF ChainLoop
  <2> QED
    BY <2>2
<1>2. ASSUME NEW n \in P PROVE n + 1 \in P
  <2>1. PICK g: ChainLoop(f, n, g)
    OBVIOUS
  <2>2. n \in Nat /\ n + 1 \in Nat
    OBVIOUS
  <2> DEFINE h == [k \in 0..n+1 |-> ChainRow(f, k, g[k - 1])]
  <2>3. \A k \in 0..n: h[k] = g[k]
    BY <2>1, <2>2 DEF ChainLoop
  <2>4. \A k \in 0..n+1: k # 0 => k - 1 \in 0..n
    BY <2>2
  <2>5. ASSUME NEW k \in 0..n+1
        PROVE  ChainRow(f, k, h[k - 1]) = ChainRow(f, k, g[k - 1])
    <3> HIDE DEF h
    <3>1. CASE k = 0
      BY <3>1, FirstRow
    <3>2. CASE k # 0
      <4>1. h[k - 1] = g[k - 1]
        BY <2>3, <2>4, <3>2
      <4> QED
        BY <4>1
    <3> QED
      BY <3>1, <3>2
  <2>6. h = [k \in 0..n+1 |-> ChainRow(f, k, h[k - 1])]
    BY <2>5
  <2>7. ChainLoop(f, n + 1, h)
    BY <2>6 DEF ChainLoop
  <2> QED
    BY <2>2, <2>7
<1>3. P = Nat
  <2> HIDE DEF P
  <2>1. P \in SUBSET Nat
    BY DEF P
  <2> QED
    BY <1>1, <1>2, <2>1, CountUp
<1> QED
  BY <1>3

LEMMA RanksAreNumbers ==
  ASSUME NEW r \in Ranks, NEW x \in Cluster
  PROVE  r[x] \in Nat /\ r[x] < FatSize
BY Clusters DEF Ranks

\* Chain stays within what its first cluster leads to; it finds the end of a chain
\* whose ranks descend, as no rank is above its limit.
LEMMA ChainIsPath ==
  ASSUME NEW f, NEW A, Closed(f, A), NEW c \in A
  PROVE  /\ Path(f, c, A, Chain(f, c))
         /\ \A r \in Ranks: Descends(f, A, r) => Ends(f, c)
<1>0. FatSize \in Nat /\ A \subseteq Cluster /\ c \in Cluster
  BY Clusters DEF Closed
<1>1. PICK from: ChainLoop(f, FatSize, from) /\ Chain(f, c) = from[FatSize][c]
  <2> DEFINE g == CHOOSE from: ChainLoop(f, FatSize, from)
  <2>1. ChainLoop(f, FatSize, g)
    BY <1>0, ChainLoops
  <2>2. Chain(f, c) = g[FatSize][c]
    BY DEF Chain, ChainLoop, ChainRow
  <2> QED
    BY <2>1, <2>2
<1>3. ASSUME NEW k \in 0..FatSize, NEW x \in Cluster
      PROVE  /\ k = 0 \/ f[x] = EOC => from[k][x] = <<x>> \o <<>>
             /\ k # 0 /\ f[x] # EOC => from[k][x] = <<x>> \o from[k - 1][f[x]]
  <2> DEFINE g == from[k - 1]
  <2>1. from[k] = ChainRow(f, k, g)
    BY <1>1 DEF ChainLoop
  <2> HIDE DEF g
  <2>2. from[k][x] = <<x>> \o (IF k = 0 \/ f[x] = EOC THEN <<>> ELSE g[f[x]])
    BY <2>1 DEF ChainRow
  <2>3. k = 0 \/ f[x] = EOC => from[k][x] = <<x>> \o <<>>
    BY <2>2
  <2>4. k # 0 /\ f[x] # EOC => from[k][x] = <<x>> \o g[f[x]]
    BY <2>2
  <2> QED
    BY <2>3, <2>4 DEF g
<1> DEFINE Good(k) == \A x \in A:
             /\ Path(f, x, A, from[k][x])
             /\ \A r \in Ranks: Descends(f, A, r) /\ r[x] <= k => f[Last(from[k][x])] = EOC
           P == {k \in 0..FatSize: Good(k)}
<1>4. 0 \in P
  <2>1. ASSUME NEW x \in A PROVE from[0][x] = <<x>> \o <<>>
    <3>1. 0 \in 0..FatSize /\ x \in Cluster
      BY <1>0
    <3> HIDE DEF P
    <3> QED
      BY <1>3, <3>1, Zenon
  <2>2. ASSUME NEW x \in A, NEW r \in Ranks, Descends(f, A, r), r[x] <= 0
        PROVE  f[x] = EOC
    <3>1. x \in Cluster /\ (f[x] # EOC => f[x] \in Cluster /\ r[f[x]] < r[x])
      BY <1>0, <2>2 DEF Closed, Descends
    <3>2. f[x] # EOC => r[f[x]] \in Nat /\ r[x] \in Nat
      BY <1>0, <3>1, RanksAreNumbers
    <3> QED
      BY <2>2, <3>1, <3>2
  <2>3. 0 \in 0..FatSize
    BY <1>0
  <2>4. Good(0)
    BY <2>1, <2>2, OneCluster
  <2> QED
    BY <2>3, <2>4
<1>5. ASSUME NEW k \in 0..FatSize, k # FatSize, Good(k) PROVE Good(k + 1)
  <2>1. k + 1 \in 0..FatSize /\ k + 1 # 0 /\ (k + 1) - 1 = k /\ k \in Nat
    BY <1>0, <1>5
  <2> SUFFICES ASSUME NEW x \in A
               PROVE  /\ Path(f, x, A, from[k + 1][x])
                      /\ \A r \in Ranks: Descends(f, A, r) /\ r[x] <= k + 1
                                          => f[Last(from[k + 1][x])] = EOC
    OBVIOUS
  <2>2. x \in Cluster
    BY <1>0
  <2>3. CASE f[x] = EOC
    <3>1. from[k + 1][x] = <<x>> \o <<>>
      BY <1>3, <2>1, <2>2, <2>3
    <3> QED
      BY <2>3, <3>1, OneCluster
  <2>4. CASE f[x] # EOC
    <3>1. from[k + 1][x] = <<x>> \o from[k][f[x]]
      BY <1>3, <2>1, <2>2, <2>4
    <3>2. f[x] \in A
      BY <2>4 DEF Closed
    <3>3. Path(f, f[x], A, from[k][f[x]])
      BY <1>5, <3>2
    <3>4. ASSUME NEW r \in Ranks, Descends(f, A, r), r[x] <= k + 1
          PROVE  f[Last(from[k][f[x]])] = EOC
      <4>1. r[f[x]] < r[x] /\ f[x] \in Cluster
        BY <1>0, <2>4, <3>2, <3>4 DEF Descends
      <4>2. r[f[x]] \in Nat /\ r[x] \in Nat
        BY <2>2, <4>1, RanksAreNumbers
      <4>3. r[f[x]] <= k
        BY <2>1, <3>4, <4>1, <4>2
      <4> QED
        BY <1>5, <3>2, <3>4, <4>3
    <3> QED
      BY <2>4, <3>1, <3>3, <3>4, OneMore
  <2> QED
    BY <2>3, <2>4
<1>6. 0..FatSize \subseteq P
  <2>1. \A k \in 0..FatSize: k # FatSize /\ k \in P => k + 1 \in P
    BY <1>0, <1>5
  <2> HIDE DEF P
  <2> QED
    BY <1>0, <1>4, <2>1, CountUpTo
<1>7. Good(FatSize)
  BY <1>0, <1>6
<1>8. \A r \in Ranks: r[c] <= FatSize
  BY <1>0, RanksAreNumbers
<1> QED
  BY <1>1, <1>7, <1>8 DEF Ends

-----------------------------------------------------------------------------
(***************************************************************************)
(* A sound file system.  NoSharedClusters and ReferencesAllocated say that *)
(* the references of the entries in allocated clusters are different and   *)
(* allocated.  What the calls preserve is more: the same of all entries on *)
(* disk, also of those left behind in the clusters of deleted directories, *)
(* which may be allocated again; that nothing refers to the root or to     *)
(* cluster 0, where createFile writes when a directory is missing; and     *)
(* that ranks descend along the chains, which is why there are no cycles.  *)
(***************************************************************************)

FatLinks(f) == {c \in Cluster: f[c] \notin {0, EOC}}
InUse(f) == {c \in Cluster: f[c] # 0}

Falls(f, r) == \A c \in FatLinks(f): r[f[c]] < r[c]

LinkSound(f) ==
  /\ \A c, e \in FatLinks(f): f[c] = f[e] => c = e
  /\ \A c \in FatLinks(f): f[c] # RootCluster /\ f[c] # 0 /\ f[f[c]] # 0
  /\ f[0] = EOC /\ f[RootCluster] # 0
  /\ \E r \in [Cluster -> Nat]: Falls(f, r)

\* The cluster h is the one an entry may name: in use, not by a link, nor the root.
Nameable(f, h) == /\ h # 0 /\ h # RootCluster /\ f[h] # 0
                  /\ \A e \in FatLinks(f): f[e] # h
EntrySound(f, d) ==
  /\ \A c \in Cluster, s \in Slot: IsLive(d.dir[c][s]) => Nameable(f, d.dir[c][s].cluster)
  /\ \A c, e \in Cluster, s, t \in Slot:
       IsLive(d.dir[c][s]) /\ IsLive(d.dir[e][t]) /\ d.dir[c][s].cluster = d.dir[e][t].cluster
       => c = e /\ s = t

Sound(f, d) == LinkSound(f) /\ EntrySound(f, d)

LEMMA EntryTypes ==
  ASSUME NEW d \in Disks, NEW c \in Cluster, NEW s \in Slot
  PROVE  d.fat \in Fats /\ d.dir \in [Cluster -> Slots] /\ d.dir[c] \in Slots /\ d.dir[c][s] \in Entry
         /\ d.dir[c][s].cluster \in Cluster /\ d.dir[c][s].name \in Names
         /\ WordsInPlace(d)
<1>1. d.fat \in Fats /\ d.dir \in [Cluster -> Slots] /\ d.dir[c] \in Slots /\ d.dir[c][s] \in Entry
      /\ WordsInPlace(d)
  BY DEF Disks, Slots
<1>2. \A e \in Entry: e.cluster \in Cluster /\ e.name \in Names
  BY Clusters, GeometryAssumption DEF Entry, Words, Blank
<1> QED
  BY <1>1, <1>2

LEMMA LinksLead ==
  ASSUME NEW f \in Fats, NEW c \in Cluster
  PROVE  /\ f[c] # EOC => f[c] \in Cluster
         /\ c \in FatLinks(f) => f[c] \in Cluster
BY DEF Fats, FatValue, FatLinks

LEMMA ClustersAreFinite ==
  /\ IsFiniteSet(Cluster) /\ Cardinality(Cluster) = FatSize
  /\ \A S \in SUBSET Cluster: IsFiniteSet(S) /\ Cardinality(S) \in Nat
<1>1. FatSize \in Nat /\ FatSize > 0
  BY GeometryAssumption
<1>2. IsFiniteSet(0..FatSize-1) /\ Cardinality(0..FatSize-1) = FatSize
  BY <1>1, FS_Interval
<1>3. IsFiniteSet(Cluster) /\ Cardinality(Cluster) = FatSize
  BY <1>2 DEF Cluster
<1> QED
  BY <1>3, FS_Subset, FS_CardinalityType

\* Ranks can be counted: by the number of clusters that rank lower.
LEMMA RanksAreBounded ==
  ASSUME NEW f \in Fats, LinkSound(f)
  PROVE  \E r \in Ranks: Falls(f, r) /\ r[0] = 0 /\ \A x \in Cluster \ {0}: r[x] # 0
<1>1. PICK q \in [Cluster -> Nat]: Falls(f, q)
  BY DEF LinkSound
<1> DEFINE p == [x \in Cluster |-> IF x = 0 THEN 0 ELSE q[x] + 1]
           Lower(x) == {y \in Cluster: p[y] < p[x]}
           r == [x \in Cluster |-> Cardinality(Lower(x))]
<1>2. p \in [Cluster -> Nat] /\ p[0] = 0 /\ \A x \in Cluster \ {0}: p[x] > 0
  BY Clusters
<1>3. ASSUME NEW c \in FatLinks(f) PROVE f[c] \in Cluster /\ c \in Cluster /\ p[f[c]] < p[c]
  <2>1. c \in Cluster /\ f[c] \in Cluster /\ q[f[c]] < q[c] /\ f[c] # 0 /\ c # 0
    BY <1>1, LinksLead DEF LinkSound, Falls, FatLinks
  <2>2. q[f[c]] \in Nat /\ q[c] \in Nat
    BY <2>1
  <2> QED
    BY <2>1, <2>2
<1> HIDE DEF p
<1>4. ASSUME NEW x \in Cluster
      PROVE  /\ IsFiniteSet(Lower(x)) /\ Cardinality(Lower(x)) \in 0..FatSize-1
             /\ x # 0 => Cardinality(Lower(x)) # 0
             /\ x = 0 => Cardinality(Lower(x)) = 0
  <2>1. Lower(x) \subseteq Cluster \ {x}
    BY <1>2
  <2>2. IsFiniteSet(Cluster \ {x}) /\ Cardinality(Cluster \ {x}) = FatSize - 1
    BY ClustersAreFinite, FS_RemoveElement
  <2>3. IsFiniteSet(Lower(x)) /\ Cardinality(Lower(x)) <= FatSize - 1
    BY <2>1, <2>2, FS_Subset
  <2>4. Cardinality(Lower(x)) \in Nat /\ FatSize \in Nat
    BY <2>3, FS_CardinalityType, Clusters
  <2>5. x # 0 => 0 \in Lower(x)
    BY <1>2, Clusters
  <2>6. x = 0 => Lower(x) = {}
    <3>1. ASSUME NEW y \in Cluster, x = 0 PROVE ~(p[y] < p[x])
      <4>1. p[y] \in Nat /\ p[x] = 0
        BY <1>2, <3>1
      <4> QED
        BY <4>1
    <3> QED
      BY <3>1
  <2>7. (Cardinality(Lower(x)) = 0) <=> (Lower(x) = {})
    BY <2>3, FS_EmptySet
  <2> QED
    BY <2>3, <2>4, <2>5, <2>6, <2>7
<1>5. ASSUME NEW x \in Cluster, NEW y \in Cluster, p[y] < p[x]
      PROVE  Cardinality(Lower(y)) < Cardinality(Lower(x))
  <2>1. y \in Lower(x) /\ y \notin Lower(y)
    BY <1>2, <1>5
  <2>2. Lower(y) \subseteq Lower(x) \ {y}
    BY <1>2, <1>5
  <2>3. IsFiniteSet(Lower(x)) /\ Cardinality(Lower(x)) \in 0..FatSize-1
    BY <1>4
  <2>4. IsFiniteSet(Lower(x) \ {y}) /\ Cardinality(Lower(x) \ {y}) = Cardinality(Lower(x)) - 1
    BY <2>1, <2>3, FS_RemoveElement
  <2>5. Cardinality(Lower(y)) <= Cardinality(Lower(x) \ {y})
    BY <2>2, <2>4, FS_Subset
  <2>6. Cardinality(Lower(y)) \in 0..FatSize-1
    BY <1>4
  <2> QED
    BY <2>3, <2>4, <2>5, <2>6, Clusters
<1> HIDE DEF Lower
<1>6. r \in Ranks
  BY <1>4 DEF Ranks
<1>7. Falls(f, r)
  BY <1>3, <1>5 DEF Falls
<1>8. r[0] = 0 /\ \A x \in Cluster \ {0}: r[x] # 0
  BY <1>4, Clusters
<1> QED
  BY <1>6, <1>7, <1>8

\* From a cluster in use, a chain leads to its end through clusters in use.
LEMMA ChainsOfSound ==
  ASSUME NEW f \in Fats, LinkSound(f)
  PROVE  /\ Closed(f, InUse(f)) /\ Closed(f, InUse(f) \ {0})
         /\ \A r: Falls(f, r) => Descends(f, InUse(f), r)
         /\ \A c \in InUse(f): Path(f, c, InUse(f), Chain(f, c)) /\ Ends(f, c)
<1>1. /\ \A c \in InUse(f): f[c] # EOC => c \in FatLinks(f) /\ f[c] \in Cluster
      /\ \A c \in FatLinks(f): f[c] # 0 /\ f[f[c]] # 0
  BY LinksLead DEF LinkSound, FatLinks, InUse
<1>2. Closed(f, InUse(f)) /\ Closed(f, InUse(f) \ {0})
  BY <1>1 DEF Closed, InUse
<1>3. \A r: Falls(f, r) => Descends(f, InUse(f), r)
  BY <1>1 DEF Falls, Descends
<1>4. PICK r \in Ranks: Falls(f, r)
  BY RanksAreBounded
<1> QED
  BY <1>2, <1>3, <1>4, ChainIsPath

-----------------------------------------------------------------------------
(* What the calls do to the table *)

\* A cluster that was free is marked and becomes nobody's.
Marked(f, i, g) ==
  /\ g \in Fats /\ LinkSound(g) /\ Nameable(g, i) /\ g[i] = EOC
  /\ InUse(f) \subseteq InUse(g) /\ FatLinks(g) = FatLinks(f)
  /\ \A c \in FatLinks(f): g[c] = f[c]
LEMMA MarkCluster ==
  ASSUME NEW f \in Fats, LinkSound(f), NEW i \in Cluster, f[i] = 0
  PROVE  Marked(f, i, [f EXCEPT ![i] = EOC])
<1> DEFINE g == [f EXCEPT ![i] = EOC]
<1>1. /\ g \in Fats /\ g[i] = EOC /\ EOC # 0 /\ \A c \in Cluster \ {i}: g[c] = f[c]
  BY Clusters DEF Fats, FatValue
<1> HIDE DEF g
<1>2. FatLinks(g) = FatLinks(f) /\ \A c \in FatLinks(f): g[c] = f[c]
  BY <1>1 DEF FatLinks
<1>3. InUse(f) \subseteq InUse(g)
  BY <1>1 DEF InUse
<1>4. \A c \in FatLinks(f): f[c] \in Cluster /\ f[c] # i
  BY LinksLead DEF LinkSound, FatLinks
<1>5. i # 0 /\ i # RootCluster
  BY Clusters DEF LinkSound
<1>6. LinkSound(g)
  <2>1. \A c, e \in FatLinks(g): g[c] = g[e] => c = e
    BY <1>2 DEF LinkSound
  <2>2. \A c \in FatLinks(g): g[c] # RootCluster /\ g[c] # 0 /\ g[g[c]] # 0
    BY <1>1, <1>2, <1>4 DEF LinkSound
  <2>3. g[0] = EOC /\ g[RootCluster] # 0
    BY <1>1, <1>5, Clusters DEF LinkSound
  <2>4. \E r \in [Cluster -> Nat]: Falls(g, r)
    BY <1>2 DEF LinkSound, Falls
  <2> QED
    BY <2>1, <2>2, <2>3, <2>4 DEF LinkSound
<1>7. Nameable(g, i)
  BY <1>1, <1>2, <1>4, <1>5 DEF Nameable
<1> QED
  BY <1>1, <1>2, <1>3, <1>6, <1>7 DEF Marked, g

\* The same, and the last cluster of a chain is linked to it.
Extended(f, l, i, g) ==
  /\ g \in Fats /\ LinkSound(g) /\ g[i] = EOC
  /\ InUse(f) \subseteq InUse(g) /\ FatLinks(g) = FatLinks(f) \cup {l}
  /\ g[l] = i /\ \A c \in FatLinks(f): g[c] = f[c]
LEMMA LinkCluster ==
  ASSUME NEW f \in Fats, LinkSound(f), NEW i \in Cluster, f[i] = 0,
         NEW l \in Cluster, f[l] = EOC, l # 0
  PROVE  Extended(f, l, i, [[f EXCEPT ![l] = i] EXCEPT ![i] = EOC])
<1> DEFINE g == [[f EXCEPT ![l] = i] EXCEPT ![i] = EOC]
<1>1. /\ g \in Fats /\ g[i] = EOC /\ EOC # 0 /\ i # l /\ g[l] = i
      /\ \A c \in Cluster \ {i, l}: g[c] = f[c]
  BY Clusters DEF Fats, FatValue
<1> HIDE DEF g
<1>2. i # 0 /\ i # RootCluster /\ i # EOC
  BY Clusters DEF LinkSound
<1>3. /\ FatLinks(g) = FatLinks(f) \cup {l} /\ l \notin FatLinks(f) /\ i \notin FatLinks(f)
      /\ \A c \in FatLinks(f): g[c] = f[c]
  BY <1>1, <1>2 DEF FatLinks
<1>4. InUse(f) \subseteq InUse(g)
  BY <1>1, <1>2 DEF InUse
<1>5. \A c \in FatLinks(f): f[c] \in Cluster /\ f[c] # i
  BY LinksLead DEF LinkSound, FatLinks
<1>6. PICK r \in [Cluster -> Nat]: Falls(f, r)
  BY DEF LinkSound
<1> DEFINE q == [x \in Cluster |-> IF x = i THEN 0 ELSE r[x] + 1]
<1>7. q \in [Cluster -> Nat] /\ q[i] = 0 /\ \A x \in Cluster \ {i}: q[x] = r[x] + 1
  OBVIOUS
<1> HIDE DEF q
<1>8. Falls(g, q)
  <2>1. ASSUME NEW c \in FatLinks(f) PROVE q[g[c]] < q[c]
    <3>1. c \in Cluster \ {i} /\ f[c] \in Cluster \ {i} /\ r[f[c]] < r[c] /\ g[c] = f[c]
      BY <1>3, <1>5, <1>6 DEF Falls, FatLinks
    <3>2. r[f[c]] \in Nat /\ r[c] \in Nat /\ q[f[c]] = r[f[c]] + 1 /\ q[c] = r[c] + 1
      BY <1>7, <3>1
    <3> QED
      BY <3>1, <3>2
  <2>2. q[g[l]] < q[l]
    <3>1. q[g[l]] = 0 /\ q[l] = r[l] + 1 /\ r[l] \in Nat
      BY <1>1, <1>7
    <3> QED
      BY <3>1
  <2> QED
    BY <1>3, <2>1, <2>2 DEF Falls
<1>9. LinkSound(g)
  <2>1. \A c, e \in FatLinks(g): g[c] = g[e] => c = e
    BY <1>1, <1>3, <1>5 DEF LinkSound
  <2>2. \A c \in FatLinks(g): g[c] # RootCluster /\ g[c] # 0 /\ g[g[c]] # 0
    <3>1. \A c \in FatLinks(f): f[c] # RootCluster /\ f[c] # 0 /\ f[f[c]] # 0
      BY DEF LinkSound
    <3>2. \A c \in FatLinks(f): g[f[c]] # 0
      BY <1>1, <1>2, <1>5, <3>1
    <3> QED
      BY <1>1, <1>2, <1>3, <3>1, <3>2
  <2>3. g[0] = EOC /\ g[RootCluster] # 0
    BY <1>1, <1>2, Clusters DEF LinkSound
  <2> QED
    BY <1>7, <1>8, <2>1, <2>2, <2>3 DEF LinkSound
<1> QED
  BY <1>1, <1>3, <1>4, <1>9 DEF Extended, g

\* A chain, which begins with what an entry names, is freed.
LEMMA FreeChain ==
  ASSUME NEW f \in Fats, LinkSound(f), NEW h \in Cluster, Nameable(f, h)
  PROVE  LET g == deleteFATchain(f, h)
         IN  /\ g \in Fats /\ LinkSound(g) /\ Ends(f, h)
             /\ \A c \in Cluster: g[c] = 0 \/ g[c] = f[c]
             /\ \A x \in Cluster: Nameable(f, x) /\ x # h => Nameable(g, x)
<1> DEFINE s == Chain(f, h)
           D == Range(Chain(f, h))
           g == deleteFATchain(f, h)
<1>1. Closed(f, InUse(f) \ {0}) /\ h \in InUse(f) \ {0} /\ h \in InUse(f)
  BY ChainsOfSound DEF Nameable, InUse
<1>2. Path(f, h, InUse(f) \ {0}, s) /\ Ends(f, h)
  BY <1>1, ChainIsPath, ChainsOfSound
<1>3. /\ s \in Seq(InUse(f) \ {0}) /\ Len(s) \in Nat \ {0} /\ s[1] = h
      /\ \A i \in 1..Len(s): i # Len(s) => f[s[i]] # EOC /\ s[i + 1] = f[s[i]]
  BY <1>2 DEF Path
<1> HIDE DEF s
<1>4. D = {s[i]: i \in 1..Len(s)} /\ \A i \in 1..Len(s): s[i] \in InUse(f) \ {0}
  BY <1>3 DEF Range, s
<1>5. h \in D /\ D \subseteq InUse(f) \ {0}
  <2>1. 1 \in 1..Len(s)
    BY <1>3
  <2> QED
    BY <1>3, <1>4, <2>1
<1>6. ASSUME NEW x \in D, x # h PROVE \E y \in D \cap FatLinks(f): f[y] = x
  <2>1. PICK i \in 1..Len(s): x = s[i]
    BY <1>4
  <2>2. i - 1 \in 1..Len(s) /\ i - 1 # Len(s) /\ (i - 1) + 1 = i
    BY <1>3, <1>6, <2>1
  <2>3. f[s[i - 1]] # EOC /\ x = f[s[i - 1]] /\ s[i - 1] \in D
    BY <1>3, <1>4, <2>1, <2>2
  <2>4. x # 0 /\ s[i - 1] \in Cluster
    BY <1>5, <2>3 DEF InUse
  <2> QED
    BY <2>3, <2>4 DEF FatLinks
<1>7. /\ g \in Fats /\ \A c \in Cluster: g[c] = IF c \in D THEN 0 ELSE f[c]
  BY Clusters DEF deleteFATchain, Fats, FatValue
<1> HIDE DEF D, g
<1>8. /\ FatLinks(g) = FatLinks(f) \ D /\ \A c \in FatLinks(g): g[c] = f[c]
  BY <1>7 DEF FatLinks
<1>9. ASSUME NEW x \in Cluster, Nameable(f, x), x # h PROVE x \notin D /\ Nameable(g, x)
  <2>1. x \notin D
    BY <1>6, <1>9 DEF Nameable
  <2> QED
    BY <1>7, <1>8, <1>9, <2>1 DEF Nameable
<1>10. ASSUME NEW c \in FatLinks(g) PROVE f[c] \notin D /\ f[c] \in Cluster
  <2>1. c \in FatLinks(f) /\ c \notin D /\ f[c] # h
    BY <1>8 DEF Nameable
  <2>2. \A y \in FatLinks(f): f[y] = f[c] => y = c
    BY <2>1 DEF LinkSound
  <2> QED
    BY <1>6, <2>1, <2>2, LinksLead DEF FatLinks
<1>11. RootCluster \notin D
  BY <1>6 DEF LinkSound, Nameable
<1>12. LinkSound(g)
  <2>1. \A c, e \in FatLinks(g): g[c] = g[e] => c = e
    BY <1>8 DEF LinkSound
  <2>2. \A c \in FatLinks(g): g[c] # RootCluster /\ g[c] # 0 /\ g[g[c]] # 0
    BY <1>7, <1>8, <1>10 DEF LinkSound
  <2>3. g[0] = EOC /\ g[RootCluster] # 0
    BY <1>5, <1>7, <1>11, Clusters DEF LinkSound
  <2>4. \E r \in [Cluster -> Nat]: Falls(g, r)
    BY <1>8 DEF LinkSound, Falls
  <2> QED
    BY <2>1, <2>2, <2>3, <2>4 DEF LinkSound
<1> QED
  BY <1>2, <1>7, <1>9, <1>12 DEF g

\* Entries that stay, while their clusters stay in use.
LEMMA FewerEntries ==
  ASSUME NEW f, NEW d \in Disks, EntrySound(f, d), NEW g, NEW e \in Disks,
         \A c \in Cluster, s \in Slot: IsLive(e.dir[c][s]) =>
           /\ e.dir[c][s] = d.dir[c][s]
           /\ Nameable(f, d.dir[c][s].cluster) => Nameable(g, d.dir[c][s].cluster)
  PROVE  EntrySound(g, e)
BY DEF EntrySound

\* An entry that names a cluster nobody named.
IsNamed(d, i) == \E c \in Cluster, s \in Slot: IsLive(d.dir[c][s]) /\ d.dir[c][s].cluster = i
LEMMA OneEntryMore ==
  ASSUME NEW f, NEW d \in Disks, EntrySound(f, d), NEW i \in Cluster, Nameable(f, i),
         ~IsNamed(d, i), NEW c0 \in Cluster, NEW s0 \in Slot, NEW e \in Disks,
         \A c \in Cluster, s \in Slot: IsLive(e.dir[c][s]) =>
           \/ e.dir[c][s] = d.dir[c][s]
           \/ c = c0 /\ s = s0 /\ e.dir[c][s].cluster = i
  PROVE  EntrySound(f, e)
<1>1. ASSUME NEW c \in Cluster, NEW s \in Slot, IsLive(e.dir[c][s])
      PROVE  /\ Nameable(f, e.dir[c][s].cluster)
             /\ e.dir[c][s].cluster # i => e.dir[c][s] = d.dir[c][s]
             /\ e.dir[c][s].cluster = i => c = c0 /\ s = s0
  <2>1. CASE e.dir[c][s] = d.dir[c][s]
    <3>1. e.dir[c][s].cluster # i
      BY <1>1, <2>1 DEF IsNamed
    <3> QED
      BY <1>1, <2>1, <3>1 DEF EntrySound
  <2>2. CASE c = c0 /\ s = s0 /\ e.dir[c][s].cluster = i
    BY <2>2
  <2> QED
    BY <1>1, <2>1, <2>2
<1>2. ASSUME NEW c \in Cluster, NEW b \in Cluster, NEW s \in Slot, NEW t \in Slot,
             IsLive(e.dir[c][s]), IsLive(e.dir[b][t]), e.dir[c][s].cluster = e.dir[b][t].cluster
      PROVE  c = b /\ s = t
  BY <1>1, <1>2 DEF EntrySound
<1> QED
  BY <1>1, <1>2 DEF EntrySound

-----------------------------------------------------------------------------
(* allocateCluster *)

Start(hint) == IF hint = NoHint THEN 2 ELSE hint

WithCluster(f, start, linked, i) ==
  LET g == IF linked THEN [f EXCEPT ![Last(Chain(f, start))] = i] ELSE f
  IN  [g EXCEPT ![i] = EOC]

\* What it returns for a, for any table.
Taken(a, f, hint, start, linked) ==
  /\ a.cluster \in Cluster /\ f[a.cluster] = 0
  /\ a.cluster >= Start(hint) /\ a.hint = a.cluster + 1
  /\ a.fat = WithCluster(f, start, linked, a.cluster)
NoneTaken(a, f, hint) == a.cluster = Full /\ a.fat = f /\ a.hint = hint
AllocationOf(a, f, hint, start, linked) ==
  /\ a.fat \in Fats /\ a.hint \in Hints
  /\ NoneTaken(a, f, hint) \/ Taken(a, f, hint, start, linked)

LEMMA Allocation ==
  ASSUME NEW f \in Fats, NEW hint \in Hints, NEW start, NEW linked \in BOOLEAN
  PROVE  AllocationOf(allocateCluster(f, hint, start, linked), f, hint, start, linked)
<1> DEFINE avail == {i \in Cluster: i >= Start(hint) /\ f[i] = 0}
           i == Min(avail)
           g == WithCluster(f, start, linked, i)
           a == allocateCluster(f, hint, start, linked)
<1>1. a = IF avail = {} THEN [cluster |-> Full, fat |-> f, hint |-> hint]
          ELSE [cluster |-> i, fat |-> g, hint |-> i + 1]
  BY DEF allocateCluster, Start, WithCluster
<1>2. avail # {} => i \in avail
  <2>1. avail \in SUBSET Nat
    BY Clusters
  <2> HIDE DEF avail
  <2> QED
    BY <2>1, Minimum
<1>3. avail # {} => i \in Cluster /\ i # Full /\ f[i] = 0 /\ i >= Start(hint) /\ i + 1 \in Hints
  <2>1. \A x \in Cluster: x + 1 \in Hints
    BY Clusters DEF Cluster, Hints
  <2> QED
    BY <1>2, <2>1, Clusters
<1>4. avail # {} => g \in Fats
  <2> DEFINE b == IF linked THEN [f EXCEPT ![Last(Chain(f, start))] = i] ELSE f
  <2>1. avail # {} => b \in Fats
    BY <1>3 DEF Fats, FatValue
  <2>2. g = [b EXCEPT ![i] = EOC]
    BY DEF WithCluster
  <2> HIDE DEF b
  <2> QED
    BY <2>1, <2>2 DEF Fats, FatValue
<1> SUFFICES AllocationOf(a, f, hint, start, linked)
  OBVIOUS
<1> HIDE DEF avail, i, a, g
<1>5. CASE avail = {}
  <2>1. a.cluster = Full /\ a.fat = f /\ a.hint = hint
    BY <1>1, <1>5
  <2>2. NoneTaken(a, f, hint)
    BY <2>1 DEF NoneTaken
  <2> QED
    BY <2>1, <2>2, Zenon DEF AllocationOf
<1>6. CASE avail # {}
  <2>1. a.cluster = i /\ a.fat = g /\ a.hint = i + 1
    BY <1>1, <1>6
  <2>2. a.fat = WithCluster(f, start, linked, a.cluster)
    BY <2>1 DEF g
  <2>3. Taken(a, f, hint, start, linked)
    BY <1>3, <1>6, <2>1, <2>2, Zenon DEF Taken
  <2> QED
    BY <1>3, <1>4, <1>6, <2>1, <2>3, Zenon DEF AllocationOf
<1> QED
  BY <1>5, <1>6

\* The last cluster of a chain, which is where a directory is extended.
LEMMA LastInChain ==
  ASSUME NEW f \in Fats, LinkSound(f), NEW start \in InUse(f) \ {0}
  PROVE  LET l == Last(Chain(f, start)) IN l \in InUse(f) \ {0} /\ f[l] = EOC
<1> DEFINE q == Chain(f, start)
<1>1. start \in InUse(f)
  OBVIOUS
<1>2. f[Last(q)] = EOC /\ Path(f, start, InUse(f) \ {0}, q)
  BY <1>1, ChainsOfSound, ChainIsPath DEF Ends
<1>3. q \in Seq(InUse(f) \ {0}) /\ q # <<>>
  BY <1>2 DEF Path
<1> HIDE DEF q
<1>4. q[Len(q)] \in InUse(f) \ {0}
  BY <1>3
<1> QED
  BY <1>2, <1>4 DEF Last, q

\* In a sound file system it takes a cluster of nobody's.
SoundAllocation(a, f, d, linked) ==
  /\ Sound(a.fat, d) /\ InUse(f) \subseteq InUse(a.fat)
  /\ a.cluster # Full => /\ a.cluster \in InUse(a.fat) /\ ~IsNamed(d, a.cluster)
                         /\ a.cluster # 0 /\ a.cluster # RootCluster
                         /\ ~linked => Nameable(a.fat, a.cluster)

LEMMA AllocationIsSound ==
  ASSUME NEW f \in Fats, NEW d \in Disks, Sound(f, d), NEW a, NEW hint, NEW start,
         NEW linked \in BOOLEAN, AllocationOf(a, f, hint, start, linked),
         linked => start \in InUse(f) \ {0}
  PROVE  SoundAllocation(a, f, d, linked)
<1>1. LinkSound(f) /\ EntrySound(f, d)
  BY DEF Sound
<1>2. CASE NoneTaken(a, f, hint)
  BY <1>2 DEF NoneTaken, SoundAllocation
<1>3. CASE Taken(a, f, hint, start, linked)
  <2>1. a.cluster \in Cluster /\ f[a.cluster] = 0
    BY <1>3 DEF Taken
  <2> DEFINE i == a.cluster
  <2>2. i # 0 /\ i # RootCluster /\ ~IsNamed(d, i)
    BY <1>1, <2>1, Clusters DEF LinkSound, EntrySound, Nameable, IsNamed
  <2>3. /\ a.fat \in Fats /\ LinkSound(a.fat) /\ a.fat[i] = EOC /\ InUse(f) \subseteq InUse(a.fat)
        /\ ~linked => Nameable(a.fat, i)
        /\ \A x \in Cluster: Nameable(f, x) => Nameable(a.fat, x)
    <3>1. CASE ~linked
      <4>1. a.fat = [f EXCEPT ![i] = EOC]
        BY <1>3, <3>1 DEF Taken, WithCluster
      <4>2. /\ a.fat \in Fats /\ LinkSound(a.fat) /\ Nameable(a.fat, i) /\ a.fat[i] = EOC
            /\ InUse(f) \subseteq InUse(a.fat) /\ FatLinks(a.fat) = FatLinks(f)
            /\ \A c \in FatLinks(f): a.fat[c] = f[c]
        <5>1. Marked(f, i, a.fat)
          BY <1>1, <2>1, <4>1, MarkCluster
        <5> QED
          BY <5>1 DEF Marked
      <4>3. \A x \in Cluster: Nameable(f, x) => Nameable(a.fat, x)
        BY <4>2 DEF Nameable, InUse
      <4> QED
        BY <4>2, <4>3
    <3>2. CASE linked
      <4> DEFINE l == Last(Chain(f, start))
      <4>1. a.fat = [[f EXCEPT ![l] = i] EXCEPT ![i] = EOC]
        BY <1>3, <3>2 DEF Taken, WithCluster
      <4>2. start \in InUse(f) \ {0} /\ start \in InUse(f)
        BY <3>2
      <4>3. f[l] = EOC /\ l \in InUse(f) \ {0}
        BY <1>1, <4>2, LastInChain
      <4> HIDE DEF l
      <4>5. l \in Cluster /\ l # 0
        BY <4>3 DEF InUse
      <4>6. /\ a.fat \in Fats /\ LinkSound(a.fat) /\ a.fat[i] = EOC
            /\ InUse(f) \subseteq InUse(a.fat) /\ FatLinks(a.fat) = FatLinks(f) \cup {l}
            /\ a.fat[l] = i /\ \A c \in FatLinks(f): a.fat[c] = f[c]
        <5>1. Extended(f, l, i, a.fat)
          BY <1>1, <2>1, <4>1, <4>3, <4>5, LinkCluster
        <5> QED
          BY <5>1 DEF Extended
      <4>7. \A x \in Cluster: Nameable(f, x) => Nameable(a.fat, x)
        BY <2>1, <4>6 DEF Nameable, InUse
      <4> QED
        BY <3>2, <4>6, <4>7
    <3> QED
      BY <3>1, <3>2
  <2>4. EntrySound(a.fat, d)
    <3>1. \A c \in Cluster, s \in Slot: d.dir[c][s].cluster \in Cluster
      BY EntryTypes
    <3> QED
      BY <1>1, <2>3, <3>1, FewerEntries
  <2>5. i \in InUse(a.fat)
    BY <2>1, <2>3, Clusters DEF InUse
  <2> QED
    BY <2>2, <2>3, <2>4, <2>5 DEF SoundAllocation, Sound
<1> QED
  BY <1>2, <1>3 DEF AllocationOf

\* No cluster from h on has been used yet: it is free, and its first slot ends a
\* directory.
Unused(f, d, h) ==
  h \in Nat /\ \A x \in Cluster: x >= h => f[x] = 0 /\ d.dir[x][0] = End

\* The first cluster behind those of the image that allocateCluster may return.
From(h) == IF Start(h) > File0Cluster THEN Start(h) ELSE File0Cluster + 1
LEMMA FromIs ==
  ASSUME NEW h \in Hints
  PROVE  /\ From(h) \in Nat /\ From(h) > File0Cluster /\ File0Cluster \in Nat
         /\ \A i \in Cluster: i >= Start(h) =>
              /\ i > File0Cluster => i >= From(h)
              /\ From(i + 1) \in Nat
              /\ \A x \in Cluster: x >= From(i + 1) => x > i /\ x >= From(h)
<1>1. h \in Nat /\ File0Cluster \in Nat /\ Start(h) \in Nat
  BY Clusters, GeometryAssumption DEF Hints, NoHint, Start, File0Cluster
<1>2. \A i \in Cluster: i \in Nat /\ Start(i + 1) = i + 1
  BY Clusters DEF Start, NoHint, Cluster
<1> QED
  BY <1>1, <1>2, Clusters DEF From

\* The clusters behind those of the image that a session has not used are blank.
Fresh(f, h, d) == Unused(f, d, From(h))

LEMMA AllocationIsFresh ==
  ASSUME NEW f \in Fats, LinkSound(f), NEW d, NEW a, NEW hint \in Hints, NEW start,
         NEW linked \in BOOLEAN, AllocationOf(a, f, hint, start, linked),
         linked => start \in InUse(f) \ {0}, Fresh(f, hint, d)
  PROVE  /\ Fresh(a.fat, a.hint, d)
         /\ a.cluster # Full => /\ a.cluster \in Cluster
                                /\ a.cluster > File0Cluster => a.cluster >= From(hint)
<1>1. CASE NoneTaken(a, f, hint)
  BY <1>1 DEF NoneTaken
<1>2. CASE Taken(a, f, hint, start, linked)
  <2> DEFINE i == a.cluster
             l == Last(Chain(f, start))
  <2>1. i \in Cluster /\ i >= Start(hint) /\ a.hint = i + 1
    BY <1>2 DEF Taken
  <2>2. linked => l \in InUse(f)
    BY LastInChain
  <2>3. \A x \in Cluster: x # i /\ ~(linked /\ x = l) => a.fat[x] = f[x]
    <3>1. a.fat = [(IF linked THEN [f EXCEPT ![l] = i] ELSE f) EXCEPT ![i] = EOC]
      BY <1>2 DEF Taken, WithCluster
    <3> HIDE DEF i, l
    <3>2. CASE linked
      BY <3>1, <3>2 DEF Fats
    <3>3. CASE ~linked
      BY <3>1, <3>3 DEF Fats
    <3> QED
      BY <3>2, <3>3
  <2> HIDE DEF i, l
  <2>4. ASSUME NEW x \in Cluster, x >= From(i + 1) PROVE a.fat[x] = 0 /\ d.dir[x][0] = End
    <3>1. x >= From(hint) /\ x # i
      BY <2>1, <2>4, FromIs, Clusters
    <3>2. f[x] = 0 /\ d.dir[x][0] = End
      BY <3>1 DEF Fresh, Unused
    <3> QED
      BY <2>2, <2>3, <3>1, <3>2 DEF InUse
  <2>5. From(i + 1) \in Nat /\ (i > File0Cluster => i >= From(hint))
    BY <2>1, FromIs
  <2> QED
    BY <2>1, <2>4, <2>5 DEF Fresh, Unused, i
<1> QED
  BY <1>1, <1>2 DEF AllocationOf

-----------------------------------------------------------------------------
(* searchFile *)

LEMMA LiveEntry ==
  ASSUME NEW d, NEW c, NEW s, IsLive(EntryAt(d, c, s))
  PROVE  EntryAt(d, c, s) = d.dir[c][s] /\ IsLive(d.dir[c][s])
BY DEF EntryAt, IsLive, End, Opaque, Blank

SearchRow(d, f, path, fuel, shorter) ==
  LET depth == Len(path)
  IN  [k \in 1..depth+1 |-> [c \in Cluster |->
        IF k > depth THEN Found(c, TRUE)
        ELSE IF fuel = 0 THEN Found(Diverges, FALSE)
        ELSE LET stops == EndSlots(d, c) \cup Matches(d, c, path[k])
                 e == EntryAt(d, c, Min(stops))
             IN  IF stops = {} THEN IF f[c] = EOC THEN Found(0, FALSE)
                                    ELSE shorter[k][f[c]]
                 ELSE IF e.kind = "end" THEN Found(0, FALSE)
                 ELSE IF e.kind = "dir" THEN shorter[k + 1][e.cluster]
                 ELSE Found(e.cluster, FALSE)]]
SearchLoop(d, f, path, n, search) ==
  search = [fuel \in 0..n |-> SearchRow(d, f, path, fuel, search[fuel - 1])]

LEMMA FirstSearch ==
  ASSUME NEW d, NEW f, NEW path, NEW g, NEW h
  PROVE  SearchRow(d, f, path, 0, g) = SearchRow(d, f, path, 0, h)
BY DEF SearchRow

LEMMA SearchLoops ==
  ASSUME NEW d, NEW f, NEW path
  PROVE  \A n \in Nat: \E search: SearchLoop(d, f, path, n, search)
<1> DEFINE P == {n \in Nat: \E search: SearchLoop(d, f, path, n, search)}
<1>1. 0 \in P
  <2> DEFINE g == [k \in 0..0 |-> SearchRow(d, f, path, 0, f)]
  <2>1. g = [k \in 0..0 |-> SearchRow(d, f, path, k, g[k - 1])]
    BY FirstSearch
  <2>2. SearchLoop(d, f, path, 0, g)
    BY <2>1 DEF SearchLoop
  <2> QED
    BY <2>2
<1>2. ASSUME NEW n \in P PROVE n + 1 \in P
  <2>1. PICK g: SearchLoop(d, f, path, n, g)
    OBVIOUS
  <2>2. n \in Nat /\ n + 1 \in Nat
    OBVIOUS
  <2> DEFINE h == [k \in 0..n+1 |-> SearchRow(d, f, path, k, g[k - 1])]
  <2>3. \A k \in 0..n: h[k] = g[k]
    BY <2>1, <2>2 DEF SearchLoop
  <2>4. \A k \in 0..n+1: k # 0 => k - 1 \in 0..n
    BY <2>2
  <2>5. ASSUME NEW k \in 0..n+1
        PROVE  SearchRow(d, f, path, k, h[k - 1]) = SearchRow(d, f, path, k, g[k - 1])
    <3> HIDE DEF h
    <3>1. CASE k = 0
      BY <3>1, FirstSearch
    <3>2. CASE k # 0
      <4>1. h[k - 1] = g[k - 1]
        BY <2>3, <2>4, <3>2
      <4> QED
        BY <4>1
    <3> QED
      BY <3>1, <3>2
  <2>6. h = [k \in 0..n+1 |-> SearchRow(d, f, path, k, h[k - 1])]
    BY <2>5
  <2>7. SearchLoop(d, f, path, n + 1, h)
    BY <2>6 DEF SearchLoop
  <2> QED
    BY <2>2, <2>7
<1>3. P = Nat
  <2> HIDE DEF P
  <2>1. P \in SUBSET Nat
    BY DEF P
  <2> QED
    BY <1>1, <1>2, <2>1, CountUp
<1> QED
  BY <1>3

\* Where one turn of the search gets from cluster c: to the end, to the next
\* cluster, or to what a live entry names.
SearchStep(d, f, k, c, g, x) ==
  \/ x.cluster = 0
  \/ f[c] # EOC /\ x = g[k][f[c]]
  \/ \E s \in Slot: /\ IsLive(d.dir[c][s])
                    /\ \/ x.cluster = d.dir[c][s].cluster
                       \/ x = g[k + 1][d.dir[c][s].cluster]

LEMMA SearchSteps ==
  ASSUME NEW d, NEW f, NEW path, NEW n, NEW g, NEW k \in 1..Len(path)+1, NEW c \in Cluster
  PROVE  LET x == SearchRow(d, f, path, n, g)[k][c]
         IN  /\ k > Len(path) => x.cluster = c
             /\ ~(k > Len(path)) /\ n = 0 => x.cluster = Diverges
             /\ ~(k > Len(path)) /\ n # 0 => SearchStep(d, f, k, c, g, x)
<1> DEFINE x == SearchRow(d, f, path, n, g)[k][c]
           stops == EndSlots(d, c) \cup Matches(d, c, path[k])
           e == EntryAt(d, c, Min(stops))
<1>1. x = IF k > Len(path) THEN Found(c, TRUE)
          ELSE IF n = 0 THEN Found(Diverges, FALSE)
          ELSE IF stops = {} THEN IF f[c] = EOC THEN Found(0, FALSE) ELSE g[k][f[c]]
          ELSE IF e.kind = "end" THEN Found(0, FALSE)
          ELSE IF e.kind = "dir" THEN g[k + 1][e.cluster]
          ELSE Found(e.cluster, FALSE)
  BY DEF SearchRow
<1> HIDE DEF x
<1>2. \A b \in BOOLEAN: \A y: Found(y, b).cluster = y
  BY DEF Found
<1>3. ASSUME ~(k > Len(path)), n # 0 PROVE SearchStep(d, f, k, c, g, x)
  <2>1. CASE stops = {}
    BY <1>1, <1>2, <1>3, <2>1 DEF SearchStep
  <2>2. CASE stops # {} /\ e.kind = "end"
    BY <1>1, <1>2, <1>3, <2>2 DEF SearchStep
  <2>3. CASE stops # {} /\ e.kind # "end"
    <3>1. stops \in SUBSET Nat /\ stops \subseteq Slot
      BY SlotsAreNumbers DEF EndSlots, Matches
    <3>2. Min(stops) \in stops
      <4> HIDE DEF stops
      <4> QED
        BY <2>3, <3>1, Minimum
    <3>3. Min(stops) \in Slot /\ IsLive(e)
      BY <2>3, <3>1, <3>2 DEF EndSlots, Matches
    <3>4. e = d.dir[c][Min(stops)] /\ IsLive(d.dir[c][Min(stops)])
      BY <3>3, LiveEntry
    <3>5. x.cluster = e.cluster \/ x = g[k + 1][e.cluster]
      BY <1>1, <1>2, <1>3, <2>3
    <3> QED
      BY <3>3, <3>4, <3>5 DEF SearchStep
  <2> QED
    BY <2>1, <2>2, <2>3
<1>4. k > Len(path) => x.cluster = c
  BY <1>1, <1>2
<1>5. ~(k > Len(path)) /\ n = 0 => x.cluster = Diverges
  BY <1>1, <1>2
<1> QED
  BY <1>3, <1>4, <1>5 DEF x

\* The search stays within a closed set that the entries in it do not leave; it
\* comes to an end where ranks descend along the chains.
LEMMA SearchStays ==
  ASSUME NEW d, NEW f, NEW A, Closed(f, A), 0 \in A, RootCluster \in A,
         \A c \in A, s \in Slot: IsLive(d.dir[c][s]) => d.dir[c][s].cluster \in A,
         NEW path, Len(path) \in Nat
  PROVE  /\ searchFile(d, f, path) \in A \cup {Diverges}
         /\ \A r \in Ranks: Descends(f, A, r) => searchFile(d, f, path) \in A
<1> DEFINE depth == Len(path)
           top == FatSize * (depth + 1)
           W(k) == FatSize * (depth - k)
<1>0. depth \in Nat /\ FatSize \in Nat /\ A \subseteq Cluster /\ Diverges \notin A
  BY Clusters DEF Closed
<1> HIDE DEF depth
<1>1. \A m \in Nat: FatSize * m \in Nat /\ FatSize * (m + 1) = FatSize * m + FatSize
  BY <1>0
<1>2. /\ top \in Nat
      /\ \A k \in 1..depth: /\ W(k) \in Nat /\ W(k) + FatSize <= top
                            /\ k # depth => W(k) = W(k + 1) + FatSize
  <2>1. top \in Nat
    BY <1>0, <1>1
  <2>2. ASSUME NEW k \in 1..depth
        PROVE  /\ W(k) \in Nat
               /\ k # depth => W(k) = W(k + 1) + FatSize
    <3>1. depth - k \in Nat /\ (k # depth => depth - (k + 1) \in Nat /\ (depth - (k + 1)) + 1 = depth - k)
      BY <1>0
    <3> QED
      BY <1>1, <3>1
  <2>3. ASSUME NEW k \in 1..depth PROVE W(k) + FatSize <= top
    <3>1. depth - k \in Nat /\ k \in Nat /\ (depth - k) + 1 + k = depth + 1
      BY <1>0
    <3>2. FatSize * k \in Nat
      BY <1>1, <3>1
    <3>3. FatSize * (((depth - k) + 1) + k) = FatSize * ((depth - k) + 1) + FatSize * k
      BY <1>0, <3>1
    <3>4. FatSize * ((depth - k) + 1) = W(k) + FatSize
      BY <1>1, <3>1
    <3>5. top = W(k) + FatSize + FatSize * k
      BY <3>1, <3>3, <3>4
    <3> QED
      BY <1>0, <2>2, <3>2, <3>5
  <2> QED
    BY <2>1, <2>2, <2>3
<1> HIDE DEF top, W
<1>3. PICK search: SearchLoop(d, f, path, top, search)
                   /\ searchFile(d, f, path) = search[top][1][RootCluster].cluster
  <2> DEFINE g == CHOOSE search: SearchLoop(d, f, path, top, search)
  <2>1. SearchLoop(d, f, path, top, g)
    BY <1>2, SearchLoops
  <2>2. searchFile(d, f, path) = g[top][1][RootCluster].cluster
    BY DEF searchFile, recursiveSearch, SearchLoop, SearchRow, top, depth
  <2> QED
    BY <2>1, <2>2
<1>4. ASSUME NEW n \in 0..top, NEW k \in 1..depth+1, NEW c \in A
      PROVE  /\ k > depth => search[n][k][c].cluster = c
             /\ ~(k > depth) /\ n = 0 => search[n][k][c].cluster = Diverges
             /\ ~(k > depth) /\ n # 0 => SearchStep(d, f, k, c, search[n - 1], search[n][k][c])
  <2>1. search[n] = SearchRow(d, f, path, n, search[n - 1])
    BY <1>3 DEF SearchLoop
  <2>2. c \in Cluster
    BY <1>0
  <2> QED
    BY <2>1, <2>2, SearchSteps DEF depth
<1> DEFINE Fine(n, k, c) ==
             /\ search[n][k][c].cluster \in A \cup {Diverges}
             /\ \A r \in Ranks: Descends(f, A, r) /\ (k <= depth => r[c] + 1 + W(k) <= n)
                                => search[n][k][c].cluster \in A
           P == {n \in 0..top: \A k \in 1..depth+1, c \in A: Fine(n, k, c)}
<1>5. 0 \in P
  <2> SUFFICES ASSUME NEW k \in 1..depth+1, NEW c \in A PROVE Fine(0, k, c)
    BY <1>2
  <2>1. 0 \in 0..top /\ k \in Nat
    BY <1>0, <1>2
  <2>2. CASE k > depth
    <3>1. search[0][k][c].cluster = c
      BY <1>4, <2>1, <2>2
    <3> QED
      BY <3>1
  <2>3. CASE ~(k > depth)
    <3>1. search[0][k][c].cluster = Diverges
      BY <1>4, <2>1, <2>3
    <3>2. \A r \in Ranks: k <= depth /\ ~(r[c] + 1 + W(k) <= 0)
      <4>1. k \in 1..depth
        BY <1>0, <2>1, <2>3
      <4>2. W(k) \in Nat /\ c \in Cluster
        BY <1>0, <1>2, <4>1
      <4> QED
        BY <4>1, <4>2, RanksAreNumbers
    <3> QED
      BY <3>1, <3>2
  <2> QED
    BY <2>2, <2>3
<1>6. ASSUME NEW n \in 0..top, n # top, n \in P PROVE n + 1 \in P
  <2>1. n + 1 \in 0..top /\ n + 1 # 0 /\ (n + 1) - 1 = n /\ n \in Nat
    BY <1>2, <1>6
  <2>2. \A k \in 1..depth+1, c \in A: Fine(n, k, c)
    BY <1>6
  <2> HIDE DEF P
  <2>3. ASSUME NEW k \in 1..depth+1, NEW c \in A PROVE Fine(n + 1, k, c)
    <3>0. c \in Cluster /\ k \in Nat
      BY <1>0
    <3> DEFINE x == search[n + 1][k][c]
    <3>1. CASE k > depth
      <4>1. x.cluster = c
        BY <1>4, <2>1, <3>1
      <4> QED
        BY <4>1
    <3>2. CASE ~(k > depth)
      <4>1. k \in 1..depth /\ k + 1 \in 1..depth+1 /\ k <= depth
        BY <1>0, <3>0, <3>2
      <4>2. SearchStep(d, f, k, c, search[n], x)
        BY <1>4, <2>1, <3>2
      <4> HIDE DEF x
      <4>3. CASE x.cluster = 0
        BY <4>3 DEF x
      <4>4. CASE f[c] # EOC /\ x = search[n][k][f[c]]
        <5>1. f[c] \in A /\ f[c] \in Cluster
          BY <1>0, <4>4 DEF Closed
        <5>2. Fine(n, k, f[c])
          BY <2>2, <5>1
        <5>3. ASSUME NEW r \in Ranks, Descends(f, A, r), r[c] + 1 + W(k) <= n + 1
              PROVE  r[f[c]] + 1 + W(k) <= n
          <6>1. r[f[c]] < r[c] /\ r[f[c]] \in Nat /\ r[c] \in Nat /\ W(k) \in Nat
            BY <1>2, <3>0, <4>1, <4>4, <5>1, <5>3, RanksAreNumbers DEF Descends
          <6> QED
            BY <2>1, <5>3, <6>1
        <5> QED
          BY <4>1, <4>4, <5>2, <5>3 DEF x
      <4>5. ASSUME NEW s \in Slot, IsLive(d.dir[c][s]), x.cluster = d.dir[c][s].cluster
            PROVE  Fine(n + 1, k, c)
        BY <4>5 DEF x
      <4>6. ASSUME NEW s \in Slot, IsLive(d.dir[c][s]), x = search[n][k + 1][d.dir[c][s].cluster]
            PROVE  Fine(n + 1, k, c)
        <5> DEFINE b == d.dir[c][s].cluster
        <5>1. b \in A /\ b \in Cluster
          BY <1>0, <4>6
        <5>2. Fine(n, k + 1, b)
          BY <2>2, <4>1, <5>1
        <5> HIDE DEF b
        <5>3. ASSUME NEW r \in Ranks, r[c] + 1 + W(k) <= n + 1, k + 1 <= depth
              PROVE  r[b] + 1 + W(k + 1) <= n
          <6>1. r[b] < FatSize /\ r[b] \in Nat /\ r[c] \in Nat
            BY <3>0, <5>1, RanksAreNumbers
          <6>2. k # depth /\ k + 1 \in 1..depth
            BY <1>0, <4>1, <5>3
          <6>3. W(k) = W(k + 1) + FatSize /\ W(k + 1) \in Nat
            BY <1>2, <4>1, <6>2
          <6>4. r[b] + 1 <= FatSize
            BY <1>0, <6>1
          <6>5. W(k + 1) + FatSize <= n
            BY <1>0, <2>1, <5>3, <6>1, <6>3
          <6> HIDE DEF W
          <6> QED
            BY <1>0, <2>1, <6>1, <6>3, <6>4, <6>5
        <5> QED
          BY <4>1, <4>6, <5>2, <5>3 DEF x, b
      <4> QED
        BY <4>2, <4>3, <4>4, <4>5, <4>6 DEF SearchStep
    <3> QED
      BY <3>1, <3>2
  <2> QED
    BY <2>1, <2>3 DEF P
<1>7. 0..top \subseteq P
  <2> HIDE DEF P
  <2> QED
    BY <1>2, <1>5, <1>6, CountUpTo
<1>8. Fine(top, 1, RootCluster)
  BY <1>0, <1>2, <1>7
<1>9. ASSUME NEW r \in Ranks, 1 <= depth PROVE r[RootCluster] + 1 + W(1) <= top
  <2>1. 1 \in 1..depth
    BY <1>0, <1>9
  <2>2. W(1) \in Nat /\ W(1) + FatSize <= top
    BY <1>2, <2>1
  <2>3. r[RootCluster] \in Nat /\ r[RootCluster] < FatSize
    BY <1>0, RanksAreNumbers
  <2> QED
    BY <1>0, <1>2, <2>2, <2>3
<1> QED
  BY <1>3, <1>8, <1>9

-----------------------------------------------------------------------------
(* Sector writes *)

LEMMA EntryKinds ==
  /\ {End, Deleted, Words, Dot, Opaque} \subseteq Entry
  /\ Words \notin {End, Deleted, Dot, Opaque}
  /\ \A e \in {End, Deleted, Words, Dot, Opaque}: ~IsLive(e)
  /\ \A kind \in {"file", "dir"}, n \in Names, c \in Cluster:
       /\ Live(kind, n, c) \in Entry /\ Live(kind, n, c) # Words
       /\ IsLive(Live(kind, n, c)) /\ Live(kind, n, c).cluster = c
<1>1. Dir1 \in Names /\ 0 \in Cluster
  BY Clusters, GeometryAssumption
<1>2. /\ {End, Deleted, Words, Dot, Opaque} \subseteq Entry
      /\ Words \notin {End, Deleted, Dot, Opaque}
      /\ \A e \in {End, Deleted, Words, Dot, Opaque}: ~IsLive(e)
  BY <1>1 DEF End, Deleted, Words, Dot, Opaque, Blank, Entry, IsLive
<1>3. ASSUME NEW kind \in {"file", "dir"}, NEW n \in Names, NEW c \in Cluster
      PROVE  /\ Live(kind, n, c) \in Entry /\ Live(kind, n, c) # Words
             /\ IsLive(Live(kind, n, c)) /\ Live(kind, n, c).cluster = c
  BY <1>1 DEF Live, Words, Blank, Entry, IsLive
<1> QED
  BY <1>2, <1>3

\* The slots may be those of cluster c.
SlotsOf(c, slots) ==
  slots \in Slots /\ \A s \in Slot: slots[s] = Words => c = 0 /\ s < EntriesPerSector

LEMMA SlotsOfDisk ==
  ASSUME NEW d \in Disks, NEW c \in Cluster
  PROVE  SlotsOf(c, d.dir[c])
BY DEF SlotsOf, Disks, WordsInPlace

\* A disk that has the slots of another, but for those of cluster c.
SlotsPut(d, c, slots, e) ==
  /\ e \in Disks /\ e.dir[c] = slots /\ \A x \in Cluster \ {c}: e.dir[x] = d.dir[x]

LEMMA PutSlots ==
  ASSUME NEW d \in Disks, NEW f \in Fats, NEW c \in Cluster, NEW slots, SlotsOf(c, slots),
         NEW e, e = [fat |-> f, dir |-> [d.dir EXCEPT ![c] = slots]]
  PROVE  SlotsPut(d, c, slots, e)
<1>1. d.dir \in [Cluster -> Slots] /\ WordsInPlace(d)
  BY DEF Disks
<1>2. /\ e.fat = f /\ e.dir \in [Cluster -> Slots] /\ e.dir[c] = slots
      /\ \A x \in Cluster \ {c}: e.dir[x] = d.dir[x]
  BY <1>1 DEF SlotsOf
<1>3. WordsInPlace(e)
  BY <1>1, <1>2 DEF WordsInPlace, SlotsOf
<1>4. e \in [fat: Fats, dir: [Cluster -> Slots]]
  BY <1>1 DEF SlotsOf
<1> QED
  BY <1>2, <1>3, <1>4 DEF SlotsPut, Disks

LEMMA DiskFields ==
  ASSUME NEW d \in Disks
  PROVE  d = [fat |-> d.fat, dir |-> d.dir] /\ d.fat \in Fats /\ d.dir \in [Cluster -> Slots]
BY DEF Disks

\* Slot s becomes e, if there is a slot s.
SlotSet(slots, s, e, new) == new = [slots EXCEPT ![s] = e]
SlotNow(c, slots, s, e, new) ==
  SlotsOf(c, new) /\ \A t \in Slot: new[t] = IF t = s THEN e ELSE slots[t]
LEMMA SlotWritten ==
  ASSUME NEW c \in Cluster, NEW slots, SlotsOf(c, slots), NEW s, NEW e \in Entry, e # Words,
         NEW new, SlotSet(slots, s, e, new)
  PROVE  SlotNow(c, slots, s, e, new)
<1>1. new \in Slots /\ \A t \in Slot: new[t] = IF t = s THEN e ELSE slots[t]
  BY DEF SlotsOf, Slots, SlotSet
<1> QED
  BY <1>1 DEF SlotsOf, SlotNow

LEMMA FatReplaced ==
  ASSUME NEW d \in Disks, NEW f \in Fats, NEW slots \in Slots,
         NEW e, e = [d EXCEPT !.fat = f, !.dir[0] = slots]
  PROVE  e = [fat |-> f, dir |-> [d.dir EXCEPT ![0] = slots]]
<1>1. d \in [fat: Fats, dir: [Cluster -> Slots]]
  BY DEF Disks
<1> QED
  BY <1>1

LEMMA CopiedFat ==
  ASSUME NEW d \in Disks, NEW f \in Fats
  PROVE  /\ SlotsPut(d, 0, FatSector(d.dir[0]), copyFATtoDisk(d, f))
         /\ \A s \in Slot: \/ FatSector(d.dir[0])[s] = Words
                           \/ FatSector(d.dir[0])[s] = d.dir[0][s]
<1>1. 0 \in Cluster /\ SlotsOf(0, d.dir[0])
  BY Clusters, SlotsOfDisk
<1>2. SlotsOf(0, FatSector(d.dir[0]))
  <2>1. FatSector(d.dir[0]) \in Slots
    BY <1>1, EntryKinds DEF FatSector, SlotsOf, Slots
  <2>2. \A s \in Slot: FatSector(d.dir[0])[s] = Words => s < EntriesPerSector
    BY <1>1 DEF FatSector, SlotsOf
  <2> QED
    BY <2>1, <2>2 DEF SlotsOf
<1>3. copyFATtoDisk(d, f) = [fat |-> f, dir |-> [d.dir EXCEPT ![0] = FatSector(d.dir[0])]]
  <2>1. FatSector(d.dir[0]) \in Slots
    BY <1>2 DEF SlotsOf
  <2> QED
    BY <2>1, FatReplaced DEF copyFATtoDisk
<1>4. \A s \in Slot: \/ FatSector(d.dir[0])[s] = Words
                     \/ FatSector(d.dir[0])[s] = d.dir[0][s]
  BY DEF FatSector
<1> QED
  BY <1>1, <1>2, <1>3, <1>4, PutSlots

\* The sector with slot s of slots is written to d: in cluster 0 the sector of the FAT
\* keeps what d has there, unless it is the one written.
SectorPut(d, c, s, slots, e) ==
  /\ SlotsPut(d, c, e.dir[c], e) /\ SlotsOf(c, e.dir[c])
  /\ \A t \in Slot: \/ e.dir[c][t] = slots[t]
                    \/ c = 0 /\ t # s /\ e.dir[c][t] = d.dir[c][t]
  /\ c # 0 => e.dir[c] = slots /\ e.fat = d.fat
LEMMA WrittenSector ==
  ASSUME NEW d \in Disks, NEW buf \in Disks, NEW c \in Cluster, NEW slots, SlotsOf(c, slots),
         NEW s \in Slot
  PROVE  SectorPut(d, c, s, slots, WriteSector(d, buf, c, s, slots))
<1> DEFINE e == WriteSector(d, buf, c, s, slots)
           kept == [x \in Slot |-> IF x < EntriesPerSector THEN d.dir[0][x] ELSE slots[x]]
<1>1. /\ d = [fat |-> d.fat, dir |-> d.dir] /\ d.fat \in Fats /\ buf.fat \in Fats
      /\ d.dir \in [Cluster -> Slots]
  BY DiskFields
<1>2. CASE c = 0 /\ s < EntriesPerSector
  <2>1. e = [fat |-> buf.fat, dir |-> [d.dir EXCEPT ![c] = slots]]
    BY <1>1, <1>2 DEF WriteSector
  <2> HIDE DEF e
  <2>2. SlotsPut(d, c, slots, e)
    BY <1>1, <2>1, PutSlots
  <2>3. SectorPut(d, c, s, slots, e)
    BY <1>2, <2>2 DEF SectorPut, SlotsPut
  <2> QED
    BY <2>3 DEF e
<1>3. CASE c = 0 /\ ~(s < EntriesPerSector)
  <2>1. e = [fat |-> d.fat, dir |-> [d.dir EXCEPT ![c] = kept]]
    BY <1>1, <1>3 DEF WriteSector
  <2>2. kept \in Slots /\ SlotsOf(c, kept)
    BY <1>1, <1>3, SlotsOfDisk DEF SlotsOf, Slots
  <2>3. \A x \in Slot: kept[x] = slots[x] \/ (x # s /\ kept[x] = d.dir[c][x])
    BY <1>3
  <2> HIDE DEF e, kept
  <2>4. SlotsPut(d, c, kept, e)
    BY <1>1, <2>1, <2>2, PutSlots
  <2>5. SectorPut(d, c, s, slots, e)
    BY <1>3, <2>2, <2>3, <2>4 DEF SectorPut, SlotsPut
  <2> QED
    BY <2>5 DEF e
<1>4. CASE c # 0
  <2>1. e = [fat |-> d.fat, dir |-> [d.dir EXCEPT ![c] = slots]]
    BY <1>1, <1>4 DEF WriteSector
  <2> HIDE DEF e
  <2>2. SlotsPut(d, c, slots, e)
    BY <1>1, <2>1, PutSlots
  <2>3. SectorPut(d, c, s, slots, e)
    BY <2>1, <2>2 DEF SectorPut, SlotsPut
  <2> QED
    BY <2>3 DEF e
<1> QED
  BY <1>2, <1>3, <1>4

EndPut(d, c, s, e) ==
  /\ e \in Disks
  /\ \A x \in Cluster, t \in Slot: e.dir[x][t] = IF x = c /\ t = s THEN End ELSE d.dir[x][t]
LEMMA EndWritten ==
  ASSUME NEW d \in Disks, NEW c \in Cluster, NEW s
  PROVE  EndPut(d, c, s, [d EXCEPT !.dir[c][s] = End])
<1> DEFINE e == [d EXCEPT !.dir[c][s] = End]
           slots == [d.dir[c] EXCEPT ![s] = End]
<1>1. d = [fat |-> d.fat, dir |-> d.dir] /\ d.fat \in Fats /\ d.dir \in [Cluster -> Slots]
  BY DiskFields
<1>2. e = [fat |-> d.fat, dir |-> [d.dir EXCEPT ![c] = slots]]
  BY <1>1
<1>3. SlotNow(c, d.dir[c], s, End, slots)
  <2>1. End \in Entry /\ End # Words /\ SlotsOf(c, d.dir[c]) /\ SlotSet(d.dir[c], s, End, slots)
    BY EntryKinds, SlotsOfDisk DEF SlotSet
  <2> HIDE DEF slots
  <2> QED
    BY <2>1, SlotWritten
<1> HIDE DEF e, slots
<1>4. SlotsPut(d, c, slots, e)
  BY <1>1, <1>2, <1>3, PutSlots DEF SlotNow
<1>5. EndPut(d, c, s, e)
  BY <1>3, <1>4 DEF SlotsPut, SlotNow, EndPut
<1> QED
  BY <1>5 DEF e

\* Every live entry of e is one of d.
NoEntryMore(d, e) == \A c \in Cluster, s \in Slot: IsLive(e.dir[c][s]) => e.dir[c][s] = d.dir[c][s]
LEMMA NoEntriesMore ==
  ASSUME NEW f, NEW d \in Disks, NEW e \in Disks, Sound(f, d), NoEntryMore(d, e)
  PROVE  Sound(f, e)
BY FewerEntries DEF Sound, NoEntryMore

\* All that e has and d has not are end marks.
OnlyEnds(d, e) == \A c \in Cluster, s \in Slot: \/ e.dir[c][s] = d.dir[c][s]
                                              \/ e.dir[c][s] = End
LEMMA EndsAdded ==
  ASSUME NEW d \in Disks, NEW e \in Disks, OnlyEnds(d, e)
  PROVE  /\ NoEntryMore(d, e)
         /\ \A f, h: Fresh(f, h, d) => Fresh(f, h, e)
         /\ \A c \in Cluster: d.dir[c][0] = End => e.dir[c][0] = End
<1>1. 0 \in Slot
  BY FirstSlot
<1> QED
  BY <1>1, EntryKinds DEF OnlyEnds, NoEntryMore, Fresh, Unused

\* The sector writes of a growing directory for which there is no cluster left.
LEMMA StaleOnes ==
  ASSUME NEW d \in Disks, NEW c \in Cluster, NEW e \in StaleWrites(d, c)
  PROVE  e \in Disks /\ OnlyEnds(d, e) /\ e.fat = d.fat
<1>1. \E x \in Cluster: \E those: e = WithEnds(d, x, those)
  BY DEF StaleWrites
<1>2. PICK x \in Cluster: \E those: e = WithEnds(d, x, those)
  BY <1>1
<1>3. PICK those: e = WithEnds(d, x, those)
  BY <1>2
<1> DEFINE slots == [s \in Slot |-> IF s \in those THEN End ELSE d.dir[x][s]]
<1>4. /\ d = [fat |-> d.fat, dir |-> d.dir] /\ d.fat \in Fats /\ d.dir \in [Cluster -> Slots]
  BY DiskFields
<1>5. e = [fat |-> d.fat, dir |-> [d.dir EXCEPT ![x] = slots]]
  BY <1>3, <1>4 DEF WithEnds
<1>6. slots \in Slots /\ SlotsOf(x, slots)
  BY <1>4, SlotsOfDisk, EntryKinds DEF SlotsOf, Slots
<1>7. \A s \in Slot: slots[s] = d.dir[x][s] \/ slots[s] = End
  OBVIOUS
<1> HIDE DEF slots
<1>8. SlotsPut(d, x, slots, e)
  BY <1>4, <1>5, <1>6, PutSlots
<1> QED
  BY <1>5, <1>7, <1>8 DEF SlotsPut, OnlyEnds

-----------------------------------------------------------------------------
(* createFile *)

\* What a directory that grows may leave behind: the allocation b, and at most one
\* more sector write, which adds no entry.
Grown(g, f, h, d, sound) ==
  /\ g.b.fat \in Fats /\ g.b.hint \in Hints /\ g.hung \in BOOLEAN
  /\ \/ g.images = <<>>
     \/ \E e \in Disks: g.images = <<e>> /\ OnlyEnds(d, e)
  /\ sound => Sound(g.b.fat, d) /\ ~g.hung
  /\ sound /\ Fresh(f, h, d) => Fresh(g.b.fat, g.b.hint, d)

LEMMA Growing ==
  ASSUME NEW c \in Cluster, NEW a, a.fat \in Fats, a.hint \in Hints, NEW d \in Disks,
         NEW g \in GrowDirectory(c, a, d)
  PROVE  Grown(g, a.fat, a.hint, d, Sound(a.fat, d) /\ c \in InUse(a.fat))
<1> DEFINE grown(linked) == allocateCluster(a.fat, a.hint, c, linked)
           images(b) == IF b.cluster # Full THEN {<<[d EXCEPT !.dir[b.cluster][0] = End]>>}
                        ELSE {<<>>} \cup {<<e>>: e \in StaleWrites(d, c)}
           linkings == IF c = 0 THEN {FALSE} ELSE BOOLEAN
<1>1. PICK linked \in linkings:
        g \in IF linked /\ ~Ends(a.fat, c) THEN {[b |-> a, images |-> <<>>, hung |-> TRUE]}
              ELSE {[b |-> grown(linked), images |-> im, hung |-> FALSE]: im \in images(grown(linked))}
  BY DEF GrowDirectory
<1>2. linked \in BOOLEAN /\ (linked => c # 0)
  OBVIOUS
<1> DEFINE b == grown(linked)
<1>3. AllocationOf(b, a.fat, a.hint, c, linked)
  BY <1>2, Allocation
<1>5. ASSUME NEW x \in Cluster, NEW s
      PROVE  LET e == [d EXCEPT !.dir[x][s] = End] IN e \in Disks /\ OnlyEnds(d, e)
  <2> DEFINE e == [d EXCEPT !.dir[x][s] = End]
  <2>1. EndPut(d, x, s, e)
    BY EndWritten
  <2> HIDE DEF e
  <2>2. e \in Disks /\ OnlyEnds(d, e)
    BY <2>1 DEF OnlyEnds, EndPut
  <2> QED
    BY <2>2 DEF e
<1>6. CASE linked /\ ~Ends(a.fat, c)
  <2>1. g = [b |-> a, images |-> <<>>, hung |-> TRUE]
    BY <1>1, <1>6
  <2>2. ~(Sound(a.fat, d) /\ c \in InUse(a.fat))
    BY <1>6, ChainsOfSound DEF Sound
  <2>3. g.b = a /\ g.images = <<>> /\ g.hung = TRUE
    BY <2>1
  <2> QED
    BY <2>2, <2>3 DEF Grown
<1>7. CASE ~(linked /\ ~Ends(a.fat, c))
  <2>1. PICK im \in images(b): g = [b |-> b, images |-> im, hung |-> FALSE]
    BY <1>1, <1>7
  <2>2. g.b = b /\ g.images = im /\ g.hung = FALSE
    BY <2>1
  <2>3. im = <<>> \/ \E e \in Disks: im = <<e>> /\ OnlyEnds(d, e)
    <3>1. CASE b.cluster # Full
      <4>1. b.cluster \in Cluster
        BY <1>3, <3>1 DEF AllocationOf, NoneTaken, Taken
      <4>2. im = <<[d EXCEPT !.dir[b.cluster][0] = End]>>
        BY <3>1
      <4> HIDE DEF b, images
      <4> QED
        BY <1>5, <4>1, <4>2
    <3>2. CASE b.cluster = Full
      <4>1. im = <<>> \/ \E e \in StaleWrites(d, c): im = <<e>>
        BY <3>2
      <4> HIDE DEF b, images
      <4> QED
        BY <4>1, StaleOnes
    <3> QED
      BY <3>1, <3>2
  <2> HIDE DEF b, images, linkings
  <2>4. b.fat \in Fats /\ b.hint \in Hints
    BY <1>3 DEF AllocationOf
  <2>5. ASSUME Sound(a.fat, d), c \in InUse(a.fat) PROVE Sound(b.fat, d)
    <3>1. linked => c \in InUse(a.fat) \ {0}
      BY <1>2, <2>5
    <3>2. SoundAllocation(b, a.fat, d, linked)
      BY <1>2, <1>3, <2>5, <3>1, AllocationIsSound
    <3> QED
      BY <3>2 DEF SoundAllocation
  <2>6. ASSUME Sound(a.fat, d), c \in InUse(a.fat), Fresh(a.fat, a.hint, d)
        PROVE  Fresh(b.fat, b.hint, d)
    <3>1. linked => c \in InUse(a.fat) \ {0}
      BY <1>2, <2>6
    <3> QED
      BY <1>2, <1>3, <2>6, <3>1, AllocationIsFresh DEF Sound
  <2> QED
    BY <2>2, <2>3, <2>4, <2>5, <2>6 DEF Grown
<1> QED
  BY <1>6, <1>7

\* The same after a call that returned ret, a cluster behind those of the image if it is
\* past File0Cluster.
FreshAfter(f, h, d, ret) ==
  Fresh(f, h, d) /\ (ret > File0Cluster => ret \in Cluster /\ d.dir[ret][0] = End)

\* What holds of every outcome of a call: the types, and that it leaves a sound
\* file system sound and ends in it, and the unused clusters as they were.
OutcomeFine(out) ==
  /\ out.fat \in Fats /\ out.hint \in Hints /\ out.hung \in BOOLEAN
  /\ out.images \in Seq(Disks) /\ out.images # <<>>
  /\ Sound(fat, disk) => Sound(out.fat, Last(out.images)) /\ ~out.hung
  /\ Sound(fat, disk) /\ Fresh(fat, whereClusters, disk)
       => FreshAfter(out.fat, out.hint, Last(out.images), out.ret)

LEMMA FineOutcome ==
  ASSUME NEW f \in Fats, NEW h \in Hints, NEW images \in Seq(Disks), images # <<>>, NEW ret,
         NEW stuck \in BOOLEAN, Sound(fat, disk) => Sound(f, Last(images)) /\ ~stuck,
         Sound(fat, disk) /\ Fresh(fat, whereClusters, disk) => FreshAfter(f, h, Last(images), ret)
  PROVE  OutcomeFine(Outcome(f, h, images, ret, stuck))
<1> DEFINE out == Outcome(f, h, images, ret, stuck)
<1>1. /\ out.fat = f /\ out.hint = h /\ out.images = images /\ out.hung = stuck
      /\ out.ret = ret
  BY DEF Outcome
<1> HIDE DEF out
<1>2. OutcomeFine(out)
  BY <1>1, Zenon DEF OutcomeFine
<1> QED
  BY <1>2 DEF out

LEMMA FineIfUnchanged ==
  ASSUME fat \in Fats, whereClusters \in Hints, disk \in Disks
  PROVE  /\ OutcomeFine(Unchanged(-1))
         /\ ~Sound(fat, disk) => OutcomeFine(Hang)
<1>1. <<disk>> \in Seq(Disks) /\ <<disk>> # <<>> /\ Last(<<disk>>) = disk
  BY DEF Last
<1> DEFINE images == <<disk>>
<1>2. images \in Seq(Disks) /\ images # <<>> /\ Last(images) = disk
  BY <1>1
<1>3. /\ Unchanged(-1) = Outcome(fat, whereClusters, images, -1, FALSE)
      /\ Hang = Outcome(fat, whereClusters, images, 0, TRUE)
  BY DEF Unchanged, Hang
<1> HIDE DEF images
<1>4. Fresh(fat, whereClusters, disk) => FreshAfter(fat, whereClusters, disk, -1)
  BY GeometryAssumption DEF FreshAfter, File0Cluster
<1>5. OutcomeFine(Outcome(fat, whereClusters, images, -1, FALSE))
  BY <1>2, <1>4, FineOutcome
<1>6. ~Sound(fat, disk) => OutcomeFine(Outcome(fat, whereClusters, images, 0, TRUE))
  BY <1>2, FineOutcome
<1> QED
  BY <1>3, <1>5, <1>6

\* The slots of the directory with the new entry: one live entry more, which names
\* cluster i.
EntryPut(c, s, i, slots) ==
  /\ SlotsOf(c, slots)
  /\ \A t \in Slot: IsLive(slots[t]) => \/ slots[t] = disk.dir[c][t]
                                        \/ t = s /\ slots[t].cluster = i
LEMMA PutEntry ==
  ASSUME disk \in Disks, NEW c \in Cluster, NEW s \in Slot, NEW i \in Cluster,
         NEW name \in Names, NEW kind \in {"file", "dir"}
  PROVE  EntryPut(c, s, i, WithEndMark([disk.dir[c] EXCEPT ![s] = Live(kind, name, i)], s))
<1> DEFINE e == Live(kind, name, i)
           with == [disk.dir[c] EXCEPT ![s] = e]
           marked == [with EXCEPT ![s + 1] = End]
<1>1. e \in Entry /\ e # Words /\ e.cluster = i
  BY EntryKinds
<1>2. SlotsOf(c, disk.dir[c]) /\ SlotSet(disk.dir[c], s, e, with)
  BY SlotsOfDisk DEF SlotSet
<1> HIDE DEF e
<1>3. SlotSet(with, s + 1, End, marked)
  BY DEF SlotSet
<1>4. WithEndMark(with, s) = IF LastInSector(s) THEN with ELSE marked
  BY DEF WithEndMark
<1> HIDE DEF with, marked
<1>5. SlotNow(c, disk.dir[c], s, e, with)
  BY <1>1, <1>2, SlotWritten
<1>6. End \in Entry /\ End # Words /\ ~IsLive(End)
  BY EntryKinds
<1>7. SlotNow(c, with, s + 1, End, marked)
  <2>1. SlotsOf(c, with)
    BY <1>5 DEF SlotNow
  <2> QED
    BY <1>3, <1>6, <2>1, SlotWritten
<1>8. EntryPut(c, s, i, with)
  BY <1>1, <1>5 DEF EntryPut, SlotNow
<1>9. EntryPut(c, s, i, marked)
  BY <1>6, <1>7, <1>8 DEF EntryPut, SlotNow
<1>10. EntryPut(c, s, i, WithEndMark(with, s))
  BY <1>4, <1>8, <1>9
<1> QED
  BY <1>10 DEF with, e

LEMMA Joined ==
  ASSUME NEW S, NEW q \in Seq(S), q # <<>>, NEW im
  PROVE  /\ im = <<>> => q \o im = q
         /\ \A e \in S: im = <<e>> => q \o im \in Seq(S) /\ q \o im # <<>> /\ Last(q \o im) = e
<1>1. im = <<>> => q \o im = q
  OBVIOUS
<1>2. ASSUME NEW e \in S
      PROVE  q \o <<e>> \in Seq(S) /\ q \o <<e>> # <<>> /\ Last(q \o <<e>>) = e
  <2>1. Len(q \o <<e>>) = Len(q) + 1 /\ (q \o <<e>>)[Len(q) + 1] = e
    OBVIOUS
  <2>2. q \o <<e>> \in Seq(S) /\ q \o <<e>> # <<>>
    BY <2>1
  <2> QED
    BY <2>1, <2>2 DEF Last
<1> QED
  BY <1>1, <1>2

LEMMA Appended ==
  ASSUME NEW S, NEW q \in Seq(S), NEW e \in S, NEW im, im = Append(q, e)
  PROVE  im \in Seq(S) /\ im # <<>> /\ Last(im) = e
BY DEF Last

LEMMA Three ==
  ASSUME NEW S, NEW a \in S, NEW b \in S, NEW c \in S
  PROVE  <<a, b, c>> \in Seq(S) /\ <<a, b, c>> # <<>> /\ Last(<<a, b, c>>) = c
BY DEF Last

LEMMA AddEntryIsFine ==
  ASSUME fat \in Fats, whereClusters \in Hints, disk \in Disks,
         NEW c \in Cluster, Sound(fat, disk) => c \in InUse(fat), NEW s \in Slot,
         NEW name \in Names, NEW kind \in {"file", "dir"}, NEW out \in AddEntry(c, s, name, kind)
  PROVE  OutcomeFine(out)
<1> DEFINE a == allocateCluster(fat, whereClusters, 0, FALSE)
           d1 == copyFATtoDisk(disk, a.fat)
           slots == WithEndMark([disk.dir[c] EXCEPT ![s] = Live(kind, name, a.cluster)], s)
           d2 == WriteSector(d1, disk, c, s, slots)
           written == CreateWrites(d1, d2)
           d3 == [d2 EXCEPT !.dir[c][s + 1] = End]
<1>1. out \in IF a.cluster = Full THEN {Unchanged(-1)}
              ELSE IF ~LastInSector(s) THEN {Outcome(a.fat, a.hint, written, a.cluster, FALSE)}
              ELSE IF ~LastInCluster(s)
              THEN {Outcome(a.fat, a.hint, Append(written, d3), a.cluster, FALSE)}
              ELSE {Outcome(g.b.fat, g.b.hint, written \o g.images, a.cluster, g.hung):
                    g \in GrowDirectory(c, a, d2)}
  BY DEF AddEntry
<1>2. AllocationOf(a, fat, whereClusters, 0, FALSE)
  BY Allocation
<1> HIDE DEF a
<1>3. CASE a.cluster = Full
  BY <1>1, <1>3, FineIfUnchanged
<1>4. CASE a.cluster # Full
  <2>1. a.fat \in Fats /\ a.hint \in Hints /\ a.cluster \in Cluster
    BY <1>2, <1>4 DEF AllocationOf, Taken, NoneTaken
  <2>2. /\ SlotsPut(disk, 0, FatSector(disk.dir[0]), d1)
        /\ \A t \in Slot: \/ FatSector(disk.dir[0])[t] = Words
                          \/ FatSector(disk.dir[0])[t] = disk.dir[0][t]
    BY <2>1, CopiedFat
  <2>3. d1 \in Disks
    BY <2>2 DEF SlotsPut
  <2>4. EntryPut(c, s, a.cluster, slots)
    BY <2>1, PutEntry
  <2> HIDE DEF d1, slots
  <2>5. SectorPut(d1, c, s, slots, d2) /\ SlotsPut(d1, c, d2.dir[c], d2)
    BY <2>3, <2>4, WrittenSector DEF EntryPut, SectorPut
  <2>6. d2 \in Disks
    BY <2>5 DEF SlotsPut
  <2> HIDE DEF d2
  <2>7. ASSUME Sound(fat, disk) PROVE Sound(a.fat, d2) /\ c \in InUse(a.fat)
    <3>1. SoundAllocation(a, fat, disk, FALSE)
      BY <1>2, <2>7, AllocationIsSound
    <3>2. /\ LinkSound(a.fat) /\ EntrySound(a.fat, disk) /\ c \in InUse(a.fat)
          /\ ~IsNamed(disk, a.cluster) /\ Nameable(a.fat, a.cluster)
      BY <1>4, <2>7, <3>1 DEF SoundAllocation, Sound
    <3>3. \A x \in Cluster, t \in Slot: IsLive(d2.dir[x][t]) =>
             \/ d2.dir[x][t] = disk.dir[x][t]
             \/ x = c /\ t = s /\ d2.dir[x][t].cluster = a.cluster
      <4> SUFFICES ASSUME NEW x \in Cluster, NEW t \in Slot, IsLive(d2.dir[x][t])
                   PROVE  \/ d2.dir[x][t] = disk.dir[x][t]
                          \/ x = c /\ t = s /\ d2.dir[x][t].cluster = a.cluster
        OBVIOUS
      <4>1. d1.dir[x][t] = disk.dir[x][t] \/ ~IsLive(d1.dir[x][t])
        BY <2>2, EntryKinds DEF SlotsPut
      <4>2. CASE x = c
        BY <2>4, <2>5, <4>1, <4>2 DEF SectorPut, EntryPut
      <4>3. CASE x # c
        BY <2>5, <4>1, <4>3 DEF SlotsPut
      <4> QED
        BY <4>2, <4>3
    <3>4. EntrySound(a.fat, d2)
      BY <2>1, <2>6, <3>2, <3>3, OneEntryMore
    <3> QED
      BY <3>2, <3>4 DEF Sound
  <2>8. written \in Seq(Disks) /\ written # <<>> /\ Last(written) = d2
    BY <2>3, <2>6, Three DEF CreateWrites
  <2>12. ASSUME Sound(fat, disk), Fresh(fat, whereClusters, disk)
         PROVE  FreshAfter(a.fat, a.hint, d2, a.cluster)
    <3>1. c \in InUse(fat) /\ LinkSound(fat) /\ 0 \in InUse(fat)
      BY <2>12, Clusters DEF Sound, LinkSound, InUse
    <3>2. /\ Fresh(a.fat, a.hint, disk)
          /\ a.cluster > File0Cluster => a.cluster >= From(whereClusters)
      BY <1>2, <1>4, <2>12, <3>1, AllocationIsFresh
    <3>3. ASSUME NEW x \in Cluster, x >= From(whereClusters) PROVE d2.dir[x][0] = End
      <4>1. fat[x] = 0 /\ disk.dir[x][0] = End
        BY <2>12, <3>3 DEF Fresh, Unused
      <4>2. x # c /\ x # 0
        BY <3>1, <4>1 DEF InUse
      <4> QED
        BY <2>2, <2>5, <4>1, <4>2 DEF SlotsPut
    <3>4. ASSUME NEW x \in Cluster, x >= From(a.hint) PROVE x >= From(whereClusters)
      <4>1. a.cluster >= Start(whereClusters) /\ a.hint = a.cluster + 1
        BY <1>2, <1>4 DEF AllocationOf, NoneTaken, Taken
      <4> QED
        BY <2>1, <3>4, <4>1, FromIs
    <3>5. Fresh(a.fat, a.hint, d2)
      BY <3>2, <3>3, <3>4 DEF Fresh, Unused
    <3> QED
      BY <2>1, <3>2, <3>3, <3>5 DEF FreshAfter
  <2> HIDE DEF written
  <2>9. CASE ~LastInSector(s)
    <3>1. out = Outcome(a.fat, a.hint, written, a.cluster, FALSE)
      BY <1>1, <1>4, <2>9
    <3> QED
      BY <2>1, <2>7, <2>8, <2>12, <3>1, FineOutcome
  <2>10. CASE LastInSector(s) /\ ~LastInCluster(s)
    <3>1. out = Outcome(a.fat, a.hint, Append(written, d3), a.cluster, FALSE)
      BY <1>1, <1>4, <2>10
    <3>2. EndPut(d2, c, s + 1, d3)
      BY <2>6, EndWritten
    <3> HIDE DEF d3
    <3>3. d3 \in Disks /\ OnlyEnds(d2, d3)
      BY <3>2 DEF EndPut, OnlyEnds
    <3>4. Sound(fat, disk) => Sound(a.fat, d3)
      BY <2>6, <2>7, <3>3, NoEntriesMore, EndsAdded
    <3>7. Sound(fat, disk) /\ Fresh(fat, whereClusters, disk)
            => FreshAfter(a.fat, a.hint, d3, a.cluster)
      BY <2>6, <2>12, <3>3, EndsAdded DEF FreshAfter
    <3> DEFINE images == Append(written, d3)
    <3>5. images \in Seq(Disks) /\ images # <<>> /\ Last(images) = d3
      <4>1. images = Append(written, d3) /\ written \in Seq(Disks) /\ d3 \in Disks
        BY <2>8, <3>3
      <4> HIDE DEF images
      <4>2. images \in Seq(Disks) /\ images # <<>>
        BY <4>1
      <4>3. Last(images) = d3
        BY <4>1 DEF Last
      <4> QED
        BY <4>2, <4>3
    <3> HIDE DEF images
    <3>6. OutcomeFine(Outcome(a.fat, a.hint, images, a.cluster, FALSE))
      BY <2>1, <3>4, <3>5, <3>7, FineOutcome
    <3> QED
      BY <3>1, <3>6 DEF images
  <2>11. CASE LastInSector(s) /\ LastInCluster(s)
    <3>1. PICK g \in GrowDirectory(c, a, d2):
            out = Outcome(g.b.fat, g.b.hint, written \o g.images, a.cluster, g.hung)
      BY <1>1, <1>4, <2>11
    <3>2. Grown(g, a.fat, a.hint, d2, Sound(a.fat, d2) /\ c \in InUse(a.fat))
      BY <2>1, <2>6, Growing
    <3>3. /\ g.b.fat \in Fats /\ g.b.hint \in Hints /\ g.hung \in BOOLEAN
          /\ Sound(fat, disk) => Sound(g.b.fat, d2) /\ ~g.hung
      BY <2>7, <3>2 DEF Grown
    <3> DEFINE images == written \o g.images
    <3>4. /\ images \in Seq(Disks) /\ images # <<>>
          /\ Last(images) \in Disks /\ OnlyEnds(d2, Last(images))
      <4>1. CASE g.images = <<>>
        <5>1. images = written
          BY <2>8, <4>1, Joined
        <5> QED
          BY <2>6, <2>8, <5>1 DEF OnlyEnds
      <4>2. ASSUME NEW e \in Disks, g.images = <<e>>, OnlyEnds(d2, e)
            PROVE  images \in Seq(Disks) /\ images # <<>> /\ Last(images) = e
        BY <2>8, <4>2, Joined
      <4> HIDE DEF images
      <4> QED
        BY <3>2, <4>1, <4>2 DEF Grown
    <3>5. Sound(fat, disk) => Sound(g.b.fat, Last(images))
      <4> HIDE DEF images
      <4> QED
        BY <2>6, <3>3, <3>4, NoEntriesMore, EndsAdded
    <3> HIDE DEF images
    <3>7. ASSUME Sound(fat, disk), Fresh(fat, whereClusters, disk)
          PROVE  FreshAfter(g.b.fat, g.b.hint, Last(images), a.cluster)
      <4>1. FreshAfter(a.fat, a.hint, d2, a.cluster)
        BY <2>12, <3>7
      <4>2. Fresh(g.b.fat, g.b.hint, d2)
        BY <2>7, <3>2, <3>7, <4>1 DEF Grown, FreshAfter
      <4> QED
        BY <2>6, <3>4, <4>1, <4>2, EndsAdded DEF FreshAfter
    <3>6. OutcomeFine(Outcome(g.b.fat, g.b.hint, images, a.cluster, g.hung))
      BY <3>3, <3>4, <3>5, <3>7, FineOutcome
    <3> QED
      BY <3>1, <3>6 DEF images
  <2> QED
    BY <2>9, <2>10, <2>11
<1> QED
  BY <1>3, <1>4

\* searchFile for the tables and disks of the system.
LEMMA SearchIsFine ==
  ASSUME NEW d \in Disks, NEW f \in Fats, NEW path, Len(path) \in Nat
  PROVE  /\ searchFile(d, f, path) \in Cluster \cup {Diverges}
         /\ Sound(f, d) => searchFile(d, f, path) \in InUse(f)
<1>1. Closed(f, Cluster)
  BY LinksLead DEF Closed
<1>2. \A c \in Cluster, s \in Slot: d.dir[c][s].cluster \in Cluster
  BY EntryTypes
<1>3. searchFile(d, f, path) \in Cluster \cup {Diverges}
  BY <1>1, <1>2, SearchStays, Clusters
<1>4. ASSUME Sound(f, d) PROVE searchFile(d, f, path) \in InUse(f)
  <2>1. LinkSound(f) /\ EntrySound(f, d)
    BY <1>4 DEF Sound
  <2>2. Closed(f, InUse(f)) /\ \A r: Falls(f, r) => Descends(f, InUse(f), r)
    BY <2>1, ChainsOfSound
  <2>3. 0 \in InUse(f) /\ RootCluster \in InUse(f)
    BY <2>1, Clusters DEF LinkSound, InUse
  <2>4. \A c \in InUse(f), s \in Slot: IsLive(d.dir[c][s]) => d.dir[c][s].cluster \in InUse(f)
    BY <1>2, <2>1 DEF EntrySound, Nameable, InUse
  <2>5. PICK r \in Ranks: Falls(f, r)
    BY <2>1, RanksAreBounded
  <2>6. Descends(f, InUse(f), r)
    BY <2>2, <2>5
  <2> QED
    BY <2>2, <2>3, <2>4, <2>6, SearchStays
<1> QED
  BY <1>3, <1>4

LEMMA CreateIsFine ==
  ASSUME fat \in Fats, whereClusters \in Hints, disk \in Disks, NEW path, Len(path) \in Nat,
         NEW name \in Names, NEW kind \in {"file", "dir"}, NEW out \in createFile(path, name, kind)
  PROVE  OutcomeFine(out)
<1> DEFINE dirCluster == searchFile(disk, fat, path)
           visited == Chain(fat, dirCluster)
           withEnd == {i \in DOMAIN visited: EndSlots(disk, visited[i]) # {}}
           c == visited[Min(withEnd)]
<1>1. out \in IF dirCluster = Diverges THEN {Hang}
              ELSE IF withEnd # {} THEN AddEntry(c, Min(EndSlots(disk, c)), name, kind)
              ELSE IF Ends(fat, dirCluster) THEN {Unchanged(-1)} ELSE {Hang}
  BY DEF createFile
<1>2. /\ dirCluster \in Cluster \cup {Diverges}
      /\ Sound(fat, disk) => dirCluster \in InUse(fat)
  BY SearchIsFine
<1> HIDE DEF dirCluster
<1>3. Diverges \notin InUse(fat)
  BY Clusters DEF InUse
<1>4. CASE dirCluster = Diverges
  BY <1>1, <1>2, <1>3, <1>4, FineIfUnchanged
<1>5. CASE dirCluster # Diverges /\ withEnd # {}
  <2>1. Path(fat, dirCluster, Cluster, visited)
    <3>1. Closed(fat, Cluster)
      BY LinksLead DEF Closed
    <3> QED
      BY <1>2, <1>5, <3>1, ChainIsPath
  <2>2. Sound(fat, disk) => Path(fat, dirCluster, InUse(fat), visited)
    BY <1>2, ChainsOfSound DEF Sound
  <2>3. visited \in Seq(Cluster) /\ (Sound(fat, disk) => visited \in Seq(InUse(fat)))
    BY <2>1, <2>2 DEF Path
  <2> HIDE DEF visited
  <2>4. Min(withEnd) \in DOMAIN visited /\ EndSlots(disk, c) # {}
    <3>1. withEnd \in SUBSET Nat
      BY <2>3
    <3>2. Min(withEnd) \in withEnd
      <4> HIDE DEF withEnd
      <4> QED
        BY <1>5, <3>1, Minimum
    <3> QED
      BY <3>2
  <2>5. c \in Cluster /\ (Sound(fat, disk) => c \in InUse(fat))
    BY <2>3, <2>4
  <2> HIDE DEF c, withEnd
  <2>6. Min(EndSlots(disk, c)) \in Slot
    <3>1. EndSlots(disk, c) \in SUBSET Nat /\ EndSlots(disk, c) \subseteq Slot
      BY SlotsAreNumbers DEF EndSlots
    <3> QED
      BY <2>4, <3>1, Minimum
  <2>7. out \in AddEntry(c, Min(EndSlots(disk, c)), name, kind)
    BY <1>1, <1>5
  <2> QED
    BY <2>5, <2>6, <2>7, AddEntryIsFine
<1>6. CASE dirCluster # Diverges /\ withEnd = {}
  <2>1. Sound(fat, disk) => Ends(fat, dirCluster)
    BY <1>2, ChainsOfSound DEF Sound
  <2> HIDE DEF withEnd
  <2> QED
    BY <1>1, <1>6, <2>1, FineIfUnchanged
<1> QED
  BY <1>4, <1>5, <1>6

-----------------------------------------------------------------------------
(* deleteFile *)

ScanState ==
  [fat: Fats, buf: Disks, images: Seq(Disks) \ {<<>>}, ret: {0, NotFound}, hung: BOOLEAN,
   at: FatValue]

\* The disk is sound, ranks still descend, and the buffer holds cluster c.
GoesWell(st, r) == Sound(st.fat, Last(st.images)) /\ ~st.hung /\ Falls(st.fat, r)
InBuffer(st, c) == st.buf.dir[c] = Last(st.images).dir[c]
StillUnused(st, h) == Unused(st.fat, Last(st.images), h)

Scanned(st, c, new) ==
  /\ new \in ScanState /\ new.at = st.at
  /\ \A r: GoesWell(st, r) /\ InBuffer(st, c) => GoesWell(new, r) /\ InBuffer(new, c)
  /\ \A h: StillUnused(st, h) /\ c < h => StillUnused(new, h)

EntryGone(st, f, d1, d2, c, slots, new) ==
  new = [st EXCEPT !.fat = f, !.images = @ \o <<d1, d2>>, !.buf.dir[c] = slots]
LEMMA Deletion ==
  ASSUME NEW st \in ScanState, NEW c \in Cluster, NEW f \in Fats, NEW slots, SlotsOf(c, slots),
         NEW d1 \in Disks, NEW d2 \in Disks,
         NEW new, EntryGone(st, f, d1, d2, c, slots, new)
  PROVE  /\ new \in ScanState /\ new.fat = f /\ Last(new.images) = d2 /\ new.buf.dir[c] = slots
         /\ new.ret = st.ret /\ new.hung = st.hung /\ new.at = st.at
<1> DEFINE images == st.images \o <<d1, d2>>
           buf == [st.buf EXCEPT !.dir[c] = slots]
<1>1. st.images \in Seq(Disks) /\ st.images # <<>> /\ st.buf \in Disks
  BY DEF ScanState
<1>2. images \in Seq(Disks) /\ images # <<>> /\ Last(images) = d2
  BY <1>1 DEF Last
<1>3. SlotsPut(st.buf, c, slots, buf)
  <2>1. st.buf = [fat |-> st.buf.fat, dir |-> st.buf.dir] /\ st.buf.fat \in Fats
    BY <1>1, DiskFields
  <2>2. buf = [fat |-> st.buf.fat, dir |-> [st.buf.dir EXCEPT ![c] = slots]]
    BY <2>1
  <2> HIDE DEF buf
  <2> QED
    BY <1>1, <2>1, <2>2, PutSlots
<1>4. buf \in Disks /\ buf.dir[c] = slots
  BY <1>3 DEF SlotsPut
<1>5. new = [st EXCEPT !.fat = f, !.images = images, !.buf = buf]
  BY DEF ScanState, EntryGone
<1> HIDE DEF images, buf
<1>6. /\ new \in ScanState /\ new.fat = f /\ new.images = images /\ new.buf = buf
      /\ new.ret = st.ret /\ new.hung = st.hung /\ new.at = st.at
  BY <1>2, <1>4, <1>5 DEF ScanState
<1> QED
  BY <1>2, <1>4, <1>6

LEMMA DeleteEntryIsFine ==
  ASSUME NEW st \in ScanState, NEW c \in Cluster, NEW s \in Slot, IsLive(st.buf.dir[c][s])
  PROVE  Scanned(st, c, DeleteEntry(st, c, s))
<1> DEFINE head == st.buf.dir[c][s].cluster
           f == deleteFATchain(st.fat, head)
           slots == [st.buf.dir[c] EXCEPT ![s] = Deleted]
           d == Last(st.images)
           d1 == copyFATtoDisk(d, f)
           d2 == WriteSector(d1, st.buf, c, s, slots)
           new == DeleteEntry(st, c, s)
<1>1. new = IF ~Ends(st.fat, head) THEN [st EXCEPT !.hung = TRUE]
            ELSE [st EXCEPT !.fat = f, !.images = @ \o <<d1, d2>>, !.buf.dir[c] = d2.dir[c]]
  BY DEF DeleteEntry
<1>2. /\ st.fat \in Fats /\ st.buf \in Disks /\ head \in Cluster
      /\ st.images \in Seq(Disks) /\ st.images # <<>>
  BY EntryTypes DEF ScanState
<1>3. d \in Disks
  BY <1>2 DEF Last
<1>4. f \in Fats
  BY <1>2, Clusters DEF deleteFATchain, Fats, FatValue
<1>5. SlotsOf(c, st.buf.dir[c]) /\ SlotSet(st.buf.dir[c], s, Deleted, slots)
  BY <1>2, SlotsOfDisk DEF SlotSet
<1> HIDE DEF new, d, f, slots
<1>6. SlotNow(c, st.buf.dir[c], s, Deleted, slots)
  BY <1>5, EntryKinds, SlotWritten
<1>7. /\ SlotsPut(d, 0, FatSector(d.dir[0]), d1)
      /\ \A t \in Slot: \/ FatSector(d.dir[0])[t] = Words
                        \/ FatSector(d.dir[0])[t] = d.dir[0][t]
  BY <1>3, <1>4, CopiedFat
<1>8. d1 \in Disks /\ SlotsOf(c, slots)
  BY <1>6, <1>7 DEF SlotsPut, SlotNow
<1> HIDE DEF d1
<1>14. SectorPut(d1, c, s, slots, d2)
  BY <1>2, <1>8, WrittenSector
<1> HIDE DEF d2
<1>9. /\ SectorPut(d1, c, s, slots, d2)
      /\ SlotsPut(d1, c, d2.dir[c], d2) /\ SlotsOf(c, d2.dir[c])
  BY <1>14 DEF SectorPut
<1>10. d2 \in Disks
  BY <1>9 DEF SlotsPut
<1>11. ASSUME NEW r, GoesWell(st, r), InBuffer(st, c)
       PROVE  Ends(st.fat, head) /\ Sound(f, d2) /\ Falls(f, r)
  <2>1. LinkSound(st.fat) /\ EntrySound(st.fat, d) /\ Falls(st.fat, r) /\ st.buf.dir[c] = d.dir[c]
    BY <1>11 DEF GoesWell, Sound, InBuffer, d
  <2>2. Nameable(st.fat, head) /\ IsLive(d.dir[c][s]) /\ d.dir[c][s].cluster = head
    BY <2>1 DEF EntrySound
  <2>3. /\ LinkSound(f) /\ Ends(st.fat, head)
        /\ \A x \in Cluster: f[x] = 0 \/ f[x] = st.fat[x]
        /\ \A x \in Cluster: Nameable(st.fat, x) /\ x # head => Nameable(f, x)
    BY <1>2, <2>1, <2>2, FreeChain DEF f
  <2>4. \A x \in Cluster, t \in Slot: IsLive(d2.dir[x][t]) =>
          d2.dir[x][t] = d.dir[x][t] /\ ~(x = c /\ t = s)
    <3> SUFFICES ASSUME NEW x \in Cluster, NEW t \in Slot, IsLive(d2.dir[x][t])
                 PROVE  d2.dir[x][t] = d.dir[x][t] /\ ~(x = c /\ t = s)
      OBVIOUS
    <3>1. d1.dir[x][t] = d.dir[x][t] \/ ~IsLive(d1.dir[x][t])
      BY <1>7, EntryKinds DEF SlotsPut
    <3>2. CASE x = c
      <4>1. slots[t] = IF t = s THEN Deleted ELSE d.dir[x][t]
        BY <1>6, <2>1, <3>2 DEF SlotNow
      <4>2. d2.dir[x][t] = slots[t] \/ (t # s /\ d2.dir[x][t] = d1.dir[x][t])
        BY <1>9, <3>2 DEF SectorPut
      <4> QED
        BY <3>1, <4>1, <4>2, EntryKinds
    <3>3. CASE x # c
      BY <1>9, <3>1, <3>3 DEF SlotsPut
    <3> QED
      BY <3>2, <3>3
  <2>5. \A x \in Cluster, t \in Slot: IsLive(d2.dir[x][t]) =>
          /\ d2.dir[x][t] = d.dir[x][t]
          /\ Nameable(st.fat, d.dir[x][t].cluster) => Nameable(f, d.dir[x][t].cluster)
    <3> SUFFICES ASSUME NEW x \in Cluster, NEW t \in Slot, IsLive(d2.dir[x][t])
                 PROVE  /\ d2.dir[x][t] = d.dir[x][t]
                        /\ Nameable(st.fat, d.dir[x][t].cluster)
                           => Nameable(f, d.dir[x][t].cluster)
      OBVIOUS
    <3>1. d2.dir[x][t] = d.dir[x][t] /\ ~(x = c /\ t = s) /\ IsLive(d.dir[x][t])
      BY <2>4
    <3>2. d.dir[x][t].cluster # head
      BY <2>1, <2>2, <3>1 DEF EntrySound
    <3>3. d.dir[x][t].cluster \in Cluster
      BY <1>3, EntryTypes
    <3> QED
      BY <2>3, <3>1, <3>2, <3>3
  <2>6. EntrySound(f, d2)
    BY <1>3, <1>10, <2>1, <2>5, FewerEntries
  <2>7. Falls(f, r)
    BY <2>1, <2>3 DEF Falls, FatLinks
  <2> QED
    BY <2>3, <2>6, <2>7 DEF Sound
<1>12. CASE ~Ends(st.fat, head)
  <2>1. new \in ScanState /\ new.at = st.at
    BY <1>1, <1>12 DEF ScanState
  <2>2. \A r: ~(GoesWell(st, r) /\ InBuffer(st, c))
    BY <1>11, <1>12
  <2>3. \A h: StillUnused(st, h) => StillUnused(new, h)
    BY <1>1, <1>12 DEF ScanState, StillUnused
  <2> QED
    BY <2>1, <2>2, <2>3 DEF Scanned, new
<1>13. CASE Ends(st.fat, head)
  <2>1. EntryGone(st, f, d1, d2, c, d2.dir[c], new)
    BY <1>1, <1>13 DEF EntryGone
  <2>2. /\ new \in ScanState /\ new.fat = f /\ Last(new.images) = d2 /\ new.buf.dir[c] = d2.dir[c]
        /\ new.ret = st.ret /\ new.hung = st.hung /\ new.at = st.at
    BY <1>4, <1>8, <1>9, <1>10, <2>1, Deletion
  <2>4. ASSUME NEW r, GoesWell(st, r), InBuffer(st, c) PROVE GoesWell(new, r) /\ InBuffer(new, c)
    <3>1. Sound(f, d2) /\ Falls(f, r)
      BY <1>11, <2>4
    <3>2. ~new.hung
      BY <2>2, <2>4 DEF GoesWell
    <3> QED
      BY <2>2, <3>1, <3>2 DEF GoesWell, InBuffer
  <2>5. ASSUME NEW h, StillUnused(st, h), c < h PROVE StillUnused(new, h)
    <3>1. h \in Nat /\ \A x \in Cluster: x >= h => st.fat[x] = 0 /\ d.dir[x][0] = End
      BY <2>5 DEF StillUnused, Unused, d
    <3>2. \A x \in Cluster: x >= h => x # c /\ x # 0
      BY <2>5, <3>1, Clusters
    <3>3. \A x \in Cluster: st.fat[x] = 0 => f[x] = 0
      BY DEF f, deleteFATchain
    <3>4. \A x \in Cluster: x # c /\ x # 0 => d2.dir[x] = d.dir[x]
      BY <1>7, <1>9 DEF SlotsPut
    <3> QED
      BY <2>2, <3>1, <3>2, <3>3, <3>4 DEF StillUnused, Unused
  <2> QED
    BY <2>2, <2>4, <2>5 DEF Scanned, new
<1> QED
  BY <1>12, <1>13

LEMMA ScanSlotIsFine ==
  ASSUME NEW st \in ScanState, NEW c \in Cluster, NEW s \in Slot, NEW name
  PROVE  Scanned(st, c, ScanSlot(st, c, s, name))
<1> DEFINE e == EntryAt(st.buf, c, s)
           new == ScanSlot(st, c, s, name)
<1>1. new = IF st.ret = NotFound \/ st.hung THEN st
            ELSE IF e.kind = "end" THEN [st EXCEPT !.ret = NotFound]
            ELSE IF IsLive(e) /\ e.name = name THEN DeleteEntry(st, c, s)
            ELSE st
  BY DEF ScanSlot
<1>2. IsLive(e) => IsLive(st.buf.dir[c][s])
  BY LiveEntry
<1> HIDE DEF e, new
<1>3. Scanned(st, c, st)
  BY DEF Scanned
<1>4. Scanned(st, c, [st EXCEPT !.ret = NotFound])
  <2> DEFINE ended == [st EXCEPT !.ret = NotFound]
  <2>1. /\ ended \in ScanState /\ ended.at = st.at /\ ended.fat = st.fat
        /\ ended.images = st.images /\ ended.hung = st.hung /\ ended.buf = st.buf
    BY DEF ScanState
  <2> HIDE DEF ended
  <2>2. Scanned(st, c, ended)
    BY <2>1 DEF Scanned, GoesWell, InBuffer, StillUnused
  <2> QED
    BY <2>2 DEF ended
<1>5. IsLive(e) => Scanned(st, c, DeleteEntry(st, c, s))
  BY <1>2, DeleteEntryIsFine
<1>6. new = st \/ new = [st EXCEPT !.ret = NotFound] \/ (IsLive(e) /\ new = DeleteEntry(st, c, s))
  BY <1>1
<1>7. Scanned(st, c, new)
  BY <1>3, <1>4, <1>5, <1>6
<1> QED
  BY <1>7 DEF new

\* The scan of the cluster st.at, slot by slot.
ScanRow(st, name, k, before) ==
  IF k = 0 THEN [st EXCEPT !.buf = Last(st.images)] ELSE ScanSlot(before, st.at, k - 1, name)
ScanLoop(st, name, n, upTo) == upTo = [k \in 0..n |-> ScanRow(st, name, k, upTo[k - 1])]

LEMMA ScanLoops ==
  ASSUME NEW st, NEW name
  PROVE  \A n \in Nat: \E upTo: ScanLoop(st, name, n, upTo)
<1> DEFINE P == {n \in Nat: \E upTo: ScanLoop(st, name, n, upTo)}
<1>0. \A g, h: ScanRow(st, name, 0, g) = ScanRow(st, name, 0, h)
  BY DEF ScanRow
<1>1. 0 \in P
  <2> DEFINE g == [k \in 0..0 |-> ScanRow(st, name, 0, st)]
  <2>1. g = [k \in 0..0 |-> ScanRow(st, name, k, g[k - 1])]
    BY <1>0
  <2>2. ScanLoop(st, name, 0, g)
    BY <2>1 DEF ScanLoop
  <2> QED
    BY <2>2
<1>2. ASSUME NEW n \in P PROVE n + 1 \in P
  <2>1. PICK g: ScanLoop(st, name, n, g)
    OBVIOUS
  <2>2. n \in Nat /\ n + 1 \in Nat
    OBVIOUS
  <2> DEFINE h == [k \in 0..n+1 |-> ScanRow(st, name, k, g[k - 1])]
  <2>3. \A k \in 0..n: h[k] = g[k]
    BY <2>1, <2>2 DEF ScanLoop
  <2>4. \A k \in 0..n+1: k # 0 => k - 1 \in 0..n
    BY <2>2
  <2>5. ASSUME NEW k \in 0..n+1
        PROVE  ScanRow(st, name, k, h[k - 1]) = ScanRow(st, name, k, g[k - 1])
    <3> HIDE DEF h
    <3>1. CASE k = 0
      BY <3>1, <1>0
    <3>2. CASE k # 0
      <4>1. h[k - 1] = g[k - 1]
        BY <2>3, <2>4, <3>2
      <4> QED
        BY <4>1
    <3> QED
      BY <3>1, <3>2
  <2>6. h = [k \in 0..n+1 |-> ScanRow(st, name, k, h[k - 1])]
    BY <2>5
  <2>7. ScanLoop(st, name, n + 1, h)
    BY <2>6 DEF ScanLoop
  <2> QED
    BY <2>2, <2>7
<1>3. P = Nat
  <2> HIDE DEF P
  <2>1. P \in SUBSET Nat
    BY DEF P
  <2> QED
    BY <1>1, <1>2, <2>1, CountUp
<1> QED
  BY <1>3

LEMMA SlotCount ==
  /\ Cardinality(Slot) \in Nat
  /\ \A k \in 1..Cardinality(Slot): k - 1 \in Slot /\ k - 1 \in 0..Cardinality(Slot)
<1> DEFINE n == SectorsPerCluster * EntriesPerSector
<1>1. n \in Nat
  BY GeometryAssumption
<1>2. Slot = 0..n-1
  BY DEF Slot
<1> HIDE DEF n
<1>3. Cardinality(0..n-1) = n
  BY <1>1, FS_Interval
<1> QED
  BY <1>1, <1>2, <1>3

\* The cluster is scanned, and the next one is what the table says after that.
Visited(st, new) ==
  /\ new \in ScanState /\ new.at = new.fat[st.at]
  /\ \A r: GoesWell(st, r) => GoesWell(new, r)
  /\ \A h: StillUnused(st, h) /\ st.at < h => StillUnused(new, h)

LEMMA ScanClusterIsFine ==
  ASSUME NEW st \in ScanState, st.at \in Cluster, NEW name
  PROVE  Visited(st, ScanCluster(st, name))
<1> DEFINE N == Cardinality(Slot)
           c == st.at
           start == [st EXCEPT !.buf = Last(st.images)]
<1>0. N \in Nat /\ \A k \in 1..N: k - 1 \in Slot /\ k - 1 \in 0..N
  BY SlotCount
<1>1. PICK upTo: /\ ScanLoop(st, name, N, upTo)
                 /\ ScanCluster(st, name) = [upTo[N] EXCEPT !.at = upTo[N].fat[c]]
  <2> DEFINE g == CHOOSE upTo: ScanLoop(st, name, N, upTo)
  <2>1. ScanLoop(st, name, N, g)
    BY <1>0, ScanLoops
  <2>2. ScanCluster(st, name) = [g[N] EXCEPT !.at = g[N].fat[c]]
    BY DEF ScanCluster, ScanLoop, ScanRow
  <2> QED
    BY <2>1, <2>2
<1> HIDE DEF N
<1>2. st.images \in Seq(Disks) /\ st.images # <<>>
  BY DEF ScanState
<1>3. /\ start \in ScanState /\ start.at = c
      /\ \A r: GoesWell(st, r) => GoesWell(start, r) /\ InBuffer(start, c)
      /\ \A h: StillUnused(st, h) => StillUnused(start, h)
  <2>1. Last(st.images) \in Disks
    BY <1>2 DEF Last
  <2>2. /\ start \in ScanState /\ start.at = c /\ start.buf = Last(st.images)
        /\ start.fat = st.fat /\ start.images = st.images /\ start.hung = st.hung
    BY <2>1 DEF ScanState
  <2> HIDE DEF start, c
  <2> QED
    BY <2>2 DEF GoesWell, InBuffer, StillUnused
<1> DEFINE Good(k) == /\ upTo[k] \in ScanState /\ upTo[k].at = c
                      /\ \A r: GoesWell(st, r) => GoesWell(upTo[k], r) /\ InBuffer(upTo[k], c)
                      /\ \A h: StillUnused(st, h) /\ c < h => StillUnused(upTo[k], h)
           P == {k \in 0..N: Good(k)}
<1>4. 0 \in P
  <2>1. 0 \in 0..N
    BY <1>0
  <2>2. upTo[0] = start
    BY <1>1, <2>1 DEF ScanLoop, ScanRow
  <2> HIDE DEF start
  <2> QED
    BY <1>3, <2>1, <2>2
<1>5. ASSUME NEW k \in 0..N, k # N, k \in P PROVE k + 1 \in P
  <2>1. /\ k + 1 \in 0..N /\ k + 1 # 0 /\ (k + 1) - 1 = k /\ k + 1 \in 1..N
    BY <1>0, <1>5
  <2>2. k \in Slot
    BY <1>0, <2>1
  <2>3. upTo[k + 1] = ScanSlot(upTo[k], c, k, name)
    <3>1. upTo[k + 1] = ScanRow(st, name, k + 1, upTo[(k + 1) - 1])
      BY <1>1, <2>1 DEF ScanLoop
    <3> QED
      BY <2>1, <3>1 DEF ScanRow
  <2>4. Good(k)
    BY <1>5
  <2> HIDE DEF c
  <2>5. Scanned(upTo[k], c, upTo[k + 1])
    <3>1. c \in Cluster
      BY DEF c
    <3> QED
      BY <2>2, <2>3, <2>4, <3>1, ScanSlotIsFine
  <2>6. Good(k + 1)
    BY <2>4, <2>5 DEF Scanned
  <2> QED
    BY <2>1, <2>6
<1>6. Good(N)
  <2> HIDE DEF P
  <2>1. 0..N \subseteq P
    BY <1>0, <1>4, <1>5, CountUpTo
  <2> QED
    BY <1>0, <2>1 DEF P
<1> DEFINE end == upTo[N]
           new == [end EXCEPT !.at = end.fat[c]]
<1>7. end \in ScanState /\ end.fat[c] \in FatValue
  BY <1>6 DEF ScanState, Fats
<1>8. /\ \A r: GoesWell(st, r) => GoesWell(end, r)
      /\ \A h: StillUnused(st, h) /\ c < h => StillUnused(end, h)
      /\ ScanCluster(st, name) = new
  BY <1>1, <1>6
<1> HIDE DEF end, c
<1>9. /\ new \in ScanState /\ new.at = end.fat[c] /\ new.fat = end.fat
      /\ new.images = end.images /\ new.hung = end.hung
  BY <1>7 DEF ScanState
<1> HIDE DEF new
<1>10. Visited(st, new)
  BY <1>8, <1>9 DEF Visited, GoesWell, StillUnused, c
<1> QED
  BY <1>8, <1>10

\* The visits of the clusters of a directory.
Stopped(st) == st.ret = NotFound \/ st.hung \/ st.at = EOC
VisitRow(start, name, k, before) ==
  IF k = 0 THEN start ELSE IF Stopped(before) THEN before ELSE ScanCluster(before, name)
VisitLoop(start, name, n, visit) == visit = [k \in 0..n |-> VisitRow(start, name, k, visit[k - 1])]

LEMMA VisitLoops ==
  ASSUME NEW start, NEW name
  PROVE  \A n \in Nat: \E visit: VisitLoop(start, name, n, visit)
<1> DEFINE P == {n \in Nat: \E visit: VisitLoop(start, name, n, visit)}
<1>0. \A g, h: VisitRow(start, name, 0, g) = VisitRow(start, name, 0, h)
  BY DEF VisitRow
<1>1. 0 \in P
  <2> DEFINE g == [k \in 0..0 |-> VisitRow(start, name, 0, start)]
  <2>1. g = [k \in 0..0 |-> VisitRow(start, name, k, g[k - 1])]
    BY <1>0
  <2>2. VisitLoop(start, name, 0, g)
    BY <2>1 DEF VisitLoop
  <2> QED
    BY <2>2
<1>2. ASSUME NEW n \in P PROVE n + 1 \in P
  <2>1. PICK g: VisitLoop(start, name, n, g)
    OBVIOUS
  <2>2. n \in Nat /\ n + 1 \in Nat
    OBVIOUS
  <2> DEFINE h == [k \in 0..n+1 |-> VisitRow(start, name, k, g[k - 1])]
  <2>3. \A k \in 0..n: h[k] = g[k]
    BY <2>1, <2>2 DEF VisitLoop
  <2>4. \A k \in 0..n+1: k # 0 => k - 1 \in 0..n
    BY <2>2
  <2>5. ASSUME NEW k \in 0..n+1
        PROVE  VisitRow(start, name, k, h[k - 1]) = VisitRow(start, name, k, g[k - 1])
    <3> HIDE DEF h
    <3>1. CASE k = 0
      BY <3>1, <1>0
    <3>2. CASE k # 0
      <4>1. h[k - 1] = g[k - 1]
        BY <2>3, <2>4, <3>2
      <4> QED
        BY <4>1
    <3> QED
      BY <3>1, <3>2
  <2>6. h = [k \in 0..n+1 |-> VisitRow(start, name, k, h[k - 1])]
    BY <2>5
  <2>7. VisitLoop(start, name, n + 1, h)
    BY <2>6 DEF VisitLoop
  <2> QED
    BY <2>2, <2>7
<1>3. P = Nat
  <2> HIDE DEF P
  <2>1. P \in SUBSET Nat
    BY DEF P
  <2> QED
    BY <1>1, <1>2, <2>1, CountUp
<1> QED
  BY <1>3

\* How many clusters the scan has left to visit, at most.
Counting(r) == r \in Ranks /\ r[0] = 0 /\ \A x \in Cluster \ {0}: r[x] # 0
Left(r, at) == IF at = EOC THEN 0 ELSE r[at] + 1

\* A cluster that was freed while it was scanned leads to cluster 0, the last one.
LEMMA FewerLeft ==
  ASSUME NEW f \in Fats, LinkSound(f), NEW r, Counting(r), Falls(f, r), NEW c \in Cluster
  PROVE  Left(r, f[c]) < Left(r, c) /\ Left(r, f[c]) \in Nat /\ Left(r, c) \in Nat
<1>1. c # EOC /\ 0 # EOC /\ 0 \in Cluster
  BY Clusters
<1>2. \A x \in Cluster: r[x] \in Nat
  BY RanksAreNumbers DEF Counting
<1>3. Left(r, c) = r[c] + 1
  BY <1>1 DEF Left
<1>4. CASE f[c] = EOC
  BY <1>2, <1>3, <1>4 DEF Left
<1>5. CASE f[c] = 0
  <2>1. c # 0
    BY <1>1, <1>5 DEF LinkSound
  <2>2. r[c] # 0 /\ r[0] = 0
    BY <2>1 DEF Counting
  <2>3. Left(r, f[c]) = 1
    BY <1>1, <1>5, <2>2 DEF Left
  <2> QED
    BY <1>2, <1>3, <2>2, <2>3
<1>6. CASE f[c] # EOC /\ f[c] # 0
  <2>1. c \in FatLinks(f)
    BY <1>6 DEF FatLinks
  <2>2. r[f[c]] < r[c] /\ f[c] \in Cluster
    BY <2>1, LinksLead DEF Falls
  <2>3. Left(r, f[c]) = r[f[c]] + 1
    BY <1>6 DEF Left
  <2> QED
    BY <1>2, <1>3, <2>2, <2>3
<1> QED
  BY <1>4, <1>5, <1>6

\* The next cluster is in use, or there is none.
InChain(st) == st.at = EOC \/ st.at \in InUse(st.fat)

LEMMA DeleteIsFine ==
  ASSUME fat \in Fats, whereClusters \in Hints, disk \in Disks, NEW path, Len(path) \in Nat,
         NEW name
  PROVE  OutcomeFine(deleteFile(path, name))
<1> DEFINE dirCluster == searchFile(disk, fat, path)
           start == [fat |-> fat, buf |-> disk, images |-> <<disk>>, ret |-> 0,
                     hung |-> FALSE, at |-> dirCluster]
<1>0. FatSize \in Nat
  BY Clusters
<1>1. PICK visit: /\ VisitLoop(start, name, FatSize, visit)
                  /\ deleteFile(path, name) =
                       IF dirCluster = Diverges THEN Hang
                       ELSE Outcome(visit[FatSize].fat, whereClusters, visit[FatSize].images,
                                    visit[FatSize].ret,
                                    visit[FatSize].hung \/ (visit[FatSize].ret # NotFound
                                                            /\ visit[FatSize].at # EOC))
  <2> DEFINE g == CHOOSE visit: VisitLoop(start, name, FatSize, visit)
  <2>1. VisitLoop(start, name, FatSize, g)
    BY <1>0, VisitLoops
  <2>2. deleteFile(path, name) =
          IF dirCluster = Diverges THEN Hang
          ELSE Outcome(g[FatSize].fat, whereClusters, g[FatSize].images, g[FatSize].ret,
                       g[FatSize].hung \/ (g[FatSize].ret # NotFound /\ g[FatSize].at # EOC))
    BY DEF deleteFile, VisitLoop, VisitRow, Stopped
  <2> QED
    BY <2>1, <2>2
<1>2. /\ dirCluster \in Cluster \cup {Diverges}
      /\ Sound(fat, disk) => dirCluster \in InUse(fat)
  BY SearchIsFine
<1>3. Diverges \notin InUse(fat)
  BY Clusters DEF InUse
<1> HIDE DEF dirCluster
<1>4. CASE dirCluster = Diverges
  BY <1>1, <1>2, <1>3, <1>4, FineIfUnchanged
<1>5. CASE dirCluster # Diverges
  <2>1. dirCluster \in Cluster /\ dirCluster # EOC /\ dirCluster \in FatValue
    BY <1>2, <1>5, Clusters DEF FatValue
  <2>2. <<disk>> \in Seq(Disks) /\ <<disk>> # <<>> /\ Last(<<disk>>) = disk
    BY DEF Last
  <2>3. /\ start \in ScanState /\ start.at = dirCluster /\ start.fat = fat /\ start.hung = FALSE
        /\ start.images = <<disk>>
    BY <2>1, <2>2 DEF ScanState
  <2> HIDE DEF start
  <2> DEFINE Good(k) == /\ visit[k] \in ScanState
                        /\ \A r: Counting(r) /\ Sound(fat, disk) /\ Falls(fat, r) =>
                             /\ GoesWell(visit[k], r)
                             /\ \/ visit[k].ret = NotFound
                                \/ Left(r, visit[k].at) <= FatSize - k
                             /\ InChain(visit[k])
                             /\ \A h: Unused(fat, disk, h) => StillUnused(visit[k], h)
             P == {k \in 0..FatSize: Good(k)}
  <2>4. 0 \in P
    <3>1. 0 \in 0..FatSize
      BY <1>0
    <3>2. visit[0] = start
      BY <1>1, <3>1 DEF VisitLoop, VisitRow
    <3>3. ASSUME NEW r, Counting(r), Sound(fat, disk), Falls(fat, r)
          PROVE  /\ GoesWell(start, r) /\ Left(r, start.at) <= FatSize - 0
                 /\ InChain(start) /\ \A h: Unused(fat, disk, h) => StillUnused(start, h)
      <4>1. r[dirCluster] \in Nat /\ r[dirCluster] < FatSize
        BY <2>1, <3>3, RanksAreNumbers DEF Counting
      <4>2. Left(r, start.at) = r[dirCluster] + 1
        BY <2>1, <2>3 DEF Left
      <4>3. GoesWell(start, r)
        BY <2>2, <2>3, <3>3 DEF GoesWell
      <4>4. InChain(start)
        BY <1>2, <2>3, <3>3 DEF InChain
      <4>5. \A h: Unused(fat, disk, h) => StillUnused(start, h)
        BY <2>2, <2>3 DEF StillUnused
      <4> QED
        BY <1>0, <4>1, <4>2, <4>3, <4>4, <4>5
    <3> QED
      BY <2>3, <3>1, <3>2, <3>3
  <2>5. ASSUME NEW k \in 0..FatSize, k # FatSize, k \in P PROVE k + 1 \in P
    <3>1. k + 1 \in 0..FatSize /\ k + 1 # 0 /\ (k + 1) - 1 = k /\ k \in Nat
      BY <1>0, <2>5
    <3>2. Good(k)
      BY <2>5
    <3> DEFINE st == visit[k]
               new == visit[k + 1]
    <3>3. new = IF Stopped(st) THEN st ELSE ScanCluster(st, name)
      <4>1. visit[k + 1] = VisitRow(start, name, k + 1, visit[(k + 1) - 1])
        BY <1>1, <3>1 DEF VisitLoop
      <4> QED
        BY <3>1, <4>1 DEF VisitRow
    <3>4. CASE Stopped(st)
      <4>1. new = st
        BY <3>3, <3>4
      <4>2. ASSUME NEW r, GoesWell(st, r), st.ret # NotFound PROVE Left(r, st.at) <= FatSize - (k + 1)
        <5>1. st.at = EOC
          BY <3>4, <4>2 DEF Stopped, GoesWell
        <5>2. Left(r, st.at) = 0
          BY <5>1 DEF Left
        <5> QED
          BY <1>0, <3>1, <5>2
      <4> HIDE DEF st, new
      <4>3. Good(k + 1)
        BY <3>2, <4>1, <4>2 DEF st, new
      <4> QED
        BY <3>1, <4>3
    <3>5. CASE ~Stopped(st)
      <4>1. st.at \in Cluster /\ st.ret # NotFound /\ st \in ScanState
        BY <3>2, <3>5 DEF Stopped, ScanState, FatValue
      <4>2. Visited(st, new)
        <5>1. new = ScanCluster(st, name)
          BY <3>3, <3>5
        <5> HIDE DEF st, new
        <5> QED
          BY <4>1, <5>1, ScanClusterIsFine
      <4>3. ASSUME NEW r, Counting(r), Sound(fat, disk), Falls(fat, r)
            PROVE  /\ GoesWell(new, r) /\ Left(r, new.at) <= FatSize - (k + 1)
                   /\ InChain(new) /\ \A h: Unused(fat, disk, h) => StillUnused(new, h)
        <5>1. /\ GoesWell(st, r) /\ Left(r, st.at) <= FatSize - k
              /\ InChain(st) /\ \A h: Unused(fat, disk, h) => StillUnused(st, h)
          BY <3>2, <4>1, <4>3
        <5> HIDE DEF st, new
        <5>2. GoesWell(new, r) /\ new.at = new.fat[st.at] /\ new.fat \in Fats
          BY <4>2, <5>1 DEF Visited, ScanState
        <5>3. LinkSound(new.fat) /\ Falls(new.fat, r)
          BY <5>2 DEF GoesWell, Sound
        <5>4. /\ Left(r, new.at) < Left(r, st.at) /\ Left(r, new.at) \in Nat
              /\ Left(r, st.at) \in Nat
          BY <4>1, <4>3, <5>2, <5>3, FewerLeft
        <5>5. InChain(new)
          <6>1. new.at = EOC \/ new.at = 0 \/ st.at \in FatLinks(new.fat)
            BY <4>1, <5>2 DEF FatLinks
          <6>2. 0 \in InUse(new.fat) /\ \A x \in FatLinks(new.fat): new.fat[x] \in InUse(new.fat)
            <7>1. \A x \in FatLinks(new.fat): x \in Cluster /\ new.fat[x] \in Cluster
              BY <5>2, LinksLead DEF FatLinks
            <7> QED
              BY <5>3, <7>1, Clusters DEF LinkSound, InUse
          <6> QED
            BY <5>2, <6>1, <6>2 DEF InChain
        <5>6. ASSUME NEW h, Unused(fat, disk, h) PROVE StillUnused(new, h)
          <6>1. StillUnused(st, h) /\ h \in Nat /\ st.at \in Nat /\ st.fat[st.at] # 0
            BY <4>1, <5>1, <5>6, Clusters DEF InChain, InUse, Unused
          <6>2. st.at < h
            BY <4>1, <6>1 DEF StillUnused, Unused
          <6> QED
            BY <4>2, <6>1, <6>2 DEF Visited
        <5> QED
          BY <1>0, <3>1, <5>1, <5>2, <5>4, <5>5, <5>6
      <4>4. new \in ScanState
        BY <4>2 DEF Visited
      <4> HIDE DEF st, new
      <4>5. Good(k + 1)
        BY <4>3, <4>4 DEF new
      <4> QED
        BY <3>1, <4>5
    <3> QED
      BY <3>4, <3>5
  <2>6. Good(FatSize)
    <3> HIDE DEF P
    <3>1. 0..FatSize \subseteq P
      BY <1>0, <2>4, <2>5, CountUpTo
    <3> QED
      BY <1>0, <3>1 DEF P
  <2> DEFINE done == visit[FatSize]
             stuck == done.hung \/ (done.ret # NotFound /\ done.at # EOC)
  <2>7. /\ done.fat \in Fats /\ done.images \in Seq(Disks) /\ done.images # <<>>
        /\ done.hung \in BOOLEAN /\ done.at \in FatValue /\ done.ret \in {0, NotFound}
    BY <2>6 DEF ScanState
  <2>8. ASSUME Sound(fat, disk)
        PROVE  /\ Sound(done.fat, Last(done.images)) /\ ~stuck
               /\ Fresh(fat, whereClusters, disk)
                    => FreshAfter(done.fat, whereClusters, Last(done.images), done.ret)
    <3>1. LinkSound(fat)
      BY <2>8 DEF Sound
    <3>2. PICK r \in Ranks: Counting(r) /\ Falls(fat, r)
      BY <3>1, RanksAreBounded DEF Counting
    <3>3. /\ GoesWell(done, r)
          /\ \/ done.ret = NotFound
             \/ Left(r, done.at) <= FatSize - FatSize
          /\ \A h: Unused(fat, disk, h) => StillUnused(done, h)
      BY <2>6, <2>8, <3>2
    <3> HIDE DEF done
    <3>4. done.at # EOC => Left(r, done.at) > 0
      <4>1. done.at # EOC => done.at \in Cluster
        BY <2>7 DEF FatValue
      <4> QED
        BY <4>1, RanksAreNumbers DEF Left
    <3>5. FatSize - FatSize = 0
      BY <1>0
    <3>6. done.at # EOC => Left(r, done.at) \in Nat
      <4>1. done.at # EOC => done.at \in Cluster
        BY <2>7 DEF FatValue
      <4> QED
        BY <4>1, RanksAreNumbers DEF Left
    <3>7. done.ret # NotFound => done.at = EOC
      BY <3>3, <3>4, <3>5, <3>6
    <3>8. ~(done.ret > File0Cluster)
      BY <2>7, GeometryAssumption DEF NotFound, File0Cluster
    <3> QED
      BY <3>3, <3>7, <3>8 DEF GoesWell, Fresh, FreshAfter, StillUnused
  <2>9. deleteFile(path, name) = Outcome(done.fat, whereClusters, done.images, done.ret, stuck)
    BY <1>1, <1>5
  <2>10. stuck \in BOOLEAN
    BY <2>7
  <2> HIDE DEF done, stuck
  <2> QED
    BY <2>7, <2>8, <2>9, <2>10, FineOutcome
<1> QED
  BY <1>4, <1>5

-----------------------------------------------------------------------------
(* Boot *)

LEMMA TablesRead ==
  ASSUME NEW d \in Disks, NEW f \in readFATfromDisk(d)
  PROVE  f \in Fats
<1>1. PICK junk \in [Overwritten(d) \cap 0..LoadedWords-1 -> {0, EOC}]:
        f = [c \in Cluster |-> IF c >= LoadedWords THEN 0
                               ELSE IF c \in DOMAIN junk THEN junk[c] ELSE d.fat[c]]
  BY DEF readFATfromDisk
<1>2. d.fat \in Fats /\ 0 \in FatValue /\ EOC \in FatValue
  BY DiskFields, Clusters DEF FatValue
<1> QED
  BY <1>1, <1>2 DEF Fats

\* The FAT words of the clusters are those of the slots of the FAT sector.
LEMMA WordsOfSlots ==
  ASSUME NEW c \in Cluster
  PROVE  c \div WordsPerEntry \in Slot /\ c \div WordsPerEntry < EntriesPerSector
<1> DEFINE q == c \div WordsPerEntry
<1>1. /\ WordsPerEntry \in Nat /\ WordsPerEntry > 0 /\ EntriesPerSector \in Nat
      /\ EntriesPerSector > 0 /\ SectorsPerCluster \in Nat /\ SectorsPerCluster > 0
      /\ c \in Nat /\ c < EntriesPerSector * WordsPerEntry
  BY GeometryAssumption DEF Cluster
<1>2. q \in Nat /\ q * WordsPerEntry <= c
  BY <1>1
<1> HIDE DEF q
<1>3. q < EntriesPerSector
  <2>1. ASSUME q >= EntriesPerSector PROVE FALSE
    <3>1. q * WordsPerEntry >= EntriesPerSector * WordsPerEntry
      BY <1>1, <1>2, <2>1
    <3>2. q * WordsPerEntry \in Nat /\ EntriesPerSector * WordsPerEntry \in Nat
      BY <1>1, <1>2
    <3> QED
      BY <1>1, <1>2, <3>1, <3>2
  <2> QED
    BY <1>1, <1>2, <2>1
<1>4. EntriesPerSector <= SectorsPerCluster * EntriesPerSector
      /\ SectorsPerCluster * EntriesPerSector \in Nat
  BY <1>1
<1>5. q \in 0..SectorsPerCluster*EntriesPerSector-1
  BY <1>1, <1>2, <1>3, <1>4
<1> QED
  BY <1>3, <1>5 DEF q, Slot

Image(c, s) ==
  IF c = 0 /\ s < EntriesPerSector THEN Words
  ELSE IF c = RootCluster /\ s = 0 THEN Live("dir", Dir1, Dir1Cluster)
  ELSE IF c = Dir1Cluster /\ s <= 1 THEN Dot
  ELSE IF c = Dir1Cluster /\ s = 2 THEN Deleted
  ELSE IF c = Dir1Cluster /\ s = 3 THEN Live("file", File0, File0Cluster)
  ELSE IF c = File0Cluster /\ s = 0 THEN Opaque
  ELSE End

LEMMA ImageEntries ==
  ASSUME NEW c \in Cluster, NEW s \in Slot
  PROVE  /\ ImageDisk.dir[c][s] = Image(c, s) /\ Image(c, s) \in Entry
         /\ Image(c, s) = Words => c = 0 /\ s < EntriesPerSector
         /\ IsLive(Image(c, s)) =>
              \/ c = RootCluster /\ s = 0 /\ Image(c, s).cluster = Dir1Cluster
              \/ c = Dir1Cluster /\ s = 3 /\ Image(c, s).cluster = File0Cluster
<1>1. ImageDisk.dir[c][s] = Image(c, s)
  BY DEF ImageDisk, Image
<1>2. /\ Dir1 \in Names /\ File0 \in Names /\ Dir1Cluster \in Cluster /\ File0Cluster \in Cluster
      /\ "dir" \in {"file", "dir"} /\ "file" \in {"file", "dir"}
  BY GeometryAssumption, Clusters
<1> DEFINE a == Live("dir", Dir1, Dir1Cluster)
           b == Live("file", File0, File0Cluster)
<1>3. /\ a \in Entry /\ a # Words /\ a.cluster = Dir1Cluster
      /\ b \in Entry /\ b # Words /\ b.cluster = File0Cluster
  BY <1>2, EntryKinds
<1>4. Image(c, s) = IF c = 0 /\ s < EntriesPerSector THEN Words
                    ELSE IF c = RootCluster /\ s = 0 THEN a
                    ELSE IF c = Dir1Cluster /\ s <= 1 THEN Dot
                    ELSE IF c = Dir1Cluster /\ s = 2 THEN Deleted
                    ELSE IF c = Dir1Cluster /\ s = 3 THEN b
                    ELSE IF c = File0Cluster /\ s = 0 THEN Opaque
                    ELSE End
  BY DEF Image
<1> HIDE DEF a, b
<1>5. Image(c, s) \in Entry
  BY <1>3, <1>4, EntryKinds
<1>6. Image(c, s) = Words => c = 0 /\ s < EntriesPerSector
  BY <1>3, <1>4, EntryKinds
<1>7. IsLive(Image(c, s)) =>
        \/ c = RootCluster /\ s = 0 /\ Image(c, s).cluster = Dir1Cluster
        \/ c = Dir1Cluster /\ s = 3 /\ Image(c, s).cluster = File0Cluster
  BY <1>3, <1>4, EntryKinds
<1> QED
  BY <1>1, <1>5, <1>6, <1>7

LEMMA ImageIsDisk ==
  /\ ImageDisk \in Disks
  /\ \A f \in readFATfromDisk(ImageDisk):
       /\ f \in Fats /\ Sound(f, ImageDisk)
       /\ Unused(f, ImageDisk, File0Cluster + 1)
<1>0. ImageDisk = [fat |-> ImageDisk.fat, dir |-> ImageDisk.dir] /\ ImageDisk.fat = ImageFat
  BY DEF ImageDisk
<1>1. ImageFat \in Fats
  BY Clusters DEF ImageFat, Fats, FatValue
<1>2. ImageDisk.dir \in [Cluster -> Slots]
  <2>1. ImageDisk.dir = [c \in Cluster |-> [s \in Slot |-> Image(c, s)]]
    BY DEF ImageDisk, Image
  <2>2. \A c \in Cluster: [s \in Slot |-> Image(c, s)] \in Slots
    BY ImageEntries DEF Slots
  <2> QED
    BY <2>1, <2>2
<1>3. WordsInPlace(ImageDisk)
  BY ImageEntries DEF WordsInPlace
<1>4. ImageDisk \in Disks
  <2> DEFINE d == ImageDisk
  <2>1. d = [fat |-> d.fat, dir |-> d.dir] /\ d.fat \in Fats /\ d.dir \in [Cluster -> Slots]
    BY <1>0, <1>1, <1>2
  <2>2. WordsInPlace(d)
    BY <1>3
  <2> HIDE DEF d
  <2>3. d \in Disks
    BY <2>1, <2>2 DEF Disks
  <2> QED
    BY <2>3 DEF d
<1>5. Overwritten(ImageDisk) = {}
  <2> SUFFICES ASSUME NEW c \in Cluster
               PROVE  ImageDisk.dir[0][c \div WordsPerEntry].kind = "words"
    BY DEF Overwritten
  <2> DEFINE q == c \div WordsPerEntry
  <2>1. q \in Slot /\ q < EntriesPerSector /\ 0 \in Cluster
    BY WordsOfSlots, Clusters
  <2> HIDE DEF q
  <2>2. ImageDisk.dir[0][q] = Words
    BY <2>1, ImageEntries DEF Image
  <2>3. ImageDisk.dir[0][q].kind = "words"
    BY <2>2 DEF Words, Blank
  <2> QED
    BY <2>3 DEF q
<1>6. ASSUME NEW f \in readFATfromDisk(ImageDisk)
      PROVE  /\ f \in Fats /\ Sound(f, ImageDisk)
             /\ Unused(f, ImageDisk, File0Cluster + 1)
  <2>1. f \in Fats
    BY <1>4, TablesRead
  <2>2. ASSUME NEW c \in Cluster PROVE f[c] = IF c <= File0Cluster THEN EOC ELSE 0
    <3>1. PICK junk \in [Overwritten(ImageDisk) \cap 0..LoadedWords-1 -> {0, EOC}]:
            f = [x \in Cluster |-> IF x >= LoadedWords THEN 0
                                   ELSE IF x \in DOMAIN junk THEN junk[x] ELSE ImageDisk.fat[x]]
      BY DEF readFATfromDisk
    <3>2. c \notin DOMAIN junk
      BY <1>5
    <3>3. f[c] = IF c >= LoadedWords THEN 0 ELSE ImageDisk.fat[c]
      BY <3>1, <3>2
    <3>4. ImageDisk.fat[c] = IF c <= File0Cluster THEN EOC ELSE 0
      BY <1>0 DEF ImageFat
    <3>5. c <= File0Cluster => ~(c >= LoadedWords)
      BY Clusters DEF LoadedWords
    <3> QED
      BY <3>3, <3>4, <3>5
  <2>3. FatLinks(f) = {}
    BY <2>2 DEF FatLinks
  <2>4. 0 <= File0Cluster /\ RootCluster <= File0Cluster /\ Dir1Cluster <= File0Cluster
        /\ File0Cluster <= File0Cluster
    BY GeometryAssumption DEF Dir1Cluster, File0Cluster
  <2>5. f[0] = EOC /\ f[RootCluster] = EOC /\ f[Dir1Cluster] = EOC /\ f[File0Cluster] = EOC
    BY <2>2, <2>4, Clusters
  <2>6. LinkSound(f)
    <3>1. [x \in Cluster |-> 0] \in [Cluster -> Nat]
      OBVIOUS
    <3>2. Falls(f, [x \in Cluster |-> 0])
      BY <2>3 DEF Falls
    <3> QED
      BY <2>3, <2>5, <3>1, <3>2, Clusters DEF LinkSound
  <2>7. Nameable(f, Dir1Cluster) /\ Nameable(f, File0Cluster)
    BY <2>3, <2>5, Clusters DEF Nameable
  <2>8. EntrySound(f, ImageDisk)
    <3>1. ASSUME NEW c \in Cluster, NEW s \in Slot, IsLive(ImageDisk.dir[c][s])
          PROVE  \/ c = RootCluster /\ s = 0 /\ ImageDisk.dir[c][s].cluster = Dir1Cluster
                 \/ c = Dir1Cluster /\ s = 3 /\ ImageDisk.dir[c][s].cluster = File0Cluster
      BY <3>1, ImageEntries
    <3>2. ASSUME NEW c \in Cluster, NEW s \in Slot, IsLive(ImageDisk.dir[c][s])
          PROVE  Nameable(f, ImageDisk.dir[c][s].cluster)
      BY <2>7, <3>1, <3>2
    <3>3. ASSUME NEW c \in Cluster, NEW e \in Cluster, NEW s \in Slot, NEW t \in Slot,
                 IsLive(ImageDisk.dir[c][s]), IsLive(ImageDisk.dir[e][t]),
                 ImageDisk.dir[c][s].cluster = ImageDisk.dir[e][t].cluster
          PROVE  c = e /\ s = t
      BY <3>1, <3>3, Clusters
    <3> QED
      BY <3>2, <3>3 DEF EntrySound
  <2>9. Unused(f, ImageDisk, File0Cluster + 1)
    <3>1. File0Cluster \in Nat /\ RootCluster < File0Cluster /\ Dir1Cluster < File0Cluster
      BY GeometryAssumption DEF Dir1Cluster, File0Cluster
    <3>2. ASSUME NEW x \in Cluster, x >= File0Cluster + 1
          PROVE  f[x] = 0 /\ ImageDisk.dir[x][0] = End
      <4>1. /\ x \in Nat /\ ~(x <= File0Cluster) /\ x # 0 /\ x # RootCluster /\ x # Dir1Cluster
            /\ x # File0Cluster
        BY <3>1, <3>2, Clusters
      <4>2. Image(x, 0) = End
        BY <4>1 DEF Image
      <4> QED
        BY <2>2, <4>1, <4>2, FirstSlot, ImageEntries
    <3> QED
      BY <3>1, <3>2 DEF Unused
  <2> QED
    BY <2>1, <2>6, <2>8, <2>9 DEF Sound
<1> QED
  BY <1>4, <1>6

-----------------------------------------------------------------------------
(***************************************************************************)
(* The state machine.  In the first session, from the image on, the file   *)
(* system is sound; a boot reads back only a part of the table, and what   *)
(* holds in every session is the types.                                    *)
(***************************************************************************)

StateTypes ==
  /\ fat \in Fats /\ whereClusters \in Hints /\ disk \in Disks /\ hung \in BOOLEAN
  /\ ops \in 0..MaxOps /\ sessions \in 1..MaxSessions
FirstSession == sessions = 1 => Sound(fat, disk) /\ ~hung
\* Whatever the hint, the clusters behind those of the image are blank from it on.
FreshSession == sessions = 1 => Fresh(fat, whereClusters, disk)
FatInv == StateTypes /\ FirstSession /\ FreshSession

LEMMA FatInit == Init => FatInv
<1> SUFFICES ASSUME Init PROVE FatInv
  OBVIOUS
<1>1. disk \in Disks /\ fat \in Fats /\ Sound(fat, disk)
  BY ImageIsDisk DEF Init
<1>2. whereClusters \in Hints
  BY HintAssumption DEF Init, Hints
<1>3. hung = FALSE /\ ops \in 0..MaxOps /\ sessions \in 1..MaxSessions
  BY GeometryAssumption DEF Init
<1>4. Fresh(fat, whereClusters, disk)
  <2>1. Unused(fat, disk, File0Cluster + 1)
    BY ImageIsDisk DEF Init
  <2>2. \A x \in Cluster: x >= From(whereClusters) => x >= File0Cluster + 1
    BY <1>2, FromIs, Clusters
  <2> QED
    BY <1>2, <2>1, <2>2, FromIs DEF Fresh, Unused
<1> QED
  BY <1>1, <1>2, <1>3, <1>4 DEF FatInv, StateTypes, FirstSession, FreshSession

LEMMA PathLengths == ASSUME NEW path \in Paths PROVE Len(path) \in Nat
BY GeometryAssumption DEF Paths

LEMMA ReturnKeeps ==
  ASSUME FatInv, Running, NEW out, OutcomeFine(out),
         NEW op, NEW path, NEW name, NEW kind, Return(op, path, name, kind, out)
  PROVE  FatInv'
<1>1. /\ fat' = out.fat /\ whereClusters' = out.hint /\ disk' = Last(out.images)
      /\ hung' = out.hung /\ ops' = ops + 1 /\ sessions' = sessions
  BY DEF Return
<1>2. ops' \in 0..MaxOps
  BY <1>1, GeometryAssumption DEF Running, FatInv, StateTypes
<1>3. Last(out.images) \in Disks
  BY DEF OutcomeFine, Last
<1>4. StateTypes'
  BY <1>1, <1>2, <1>3 DEF FatInv, StateTypes, OutcomeFine
<1>5. FirstSession'
  BY <1>1 DEF FatInv, FirstSession, OutcomeFine
<1>6. FreshSession'
  <2>1. sessions = 1 => Fresh(out.fat, out.hint, Last(out.images))
    BY DEF FatInv, FirstSession, FreshSession, OutcomeFine, FreshAfter
  <2> QED
    BY <1>1, <2>1 DEF FreshSession
<1> QED
  BY <1>4, <1>5, <1>6 DEF FatInv

LEMMA ResetKeeps ==
  ASSUME FatInv, NEW d \in Disks, NEW call, Reset(d, call), ops' \in 0..MaxOps
  PROVE  FatInv'
<1>1. /\ sessions < MaxSessions /\ sessions' = sessions + 1 /\ disk' = d
      /\ fat' \in readFATfromDisk(d) /\ whereClusters' \in DiskHints /\ hung' = FALSE
  BY DEF Reset, initializeFAT
<1>2. fat' \in Fats /\ whereClusters' \in Hints
  BY <1>1, TablesRead, HintAssumption DEF Hints
<1>3. sessions' \in 1..MaxSessions /\ sessions' # 1
  BY <1>1, GeometryAssumption DEF FatInv, StateTypes
<1>4. StateTypes'
  BY <1>1, <1>2, <1>3 DEF StateTypes
<1> QED
  BY <1>3, <1>4 DEF FatInv, FirstSession, FreshSession

LEMMA ResetDuringKeeps ==
  ASSUME FatInv, Running, NEW out, OutcomeFine(out), NEW call, ResetDuring(out, call)
  PROVE  FatInv'
<1>1. PICK i \in 2..Len(out.images)-1: Reset(out.images[i], call)
  BY DEF ResetDuring
<1>2. out.images[i] \in Disks
  BY <1>1 DEF OutcomeFine
<1>3. ops' \in 0..MaxOps
  BY GeometryAssumption DEF ResetDuring, Running, FatInv, StateTypes
<1> QED
  BY <1>1, <1>2, <1>3, ResetKeeps

LEMMA FatStep == FatInv /\ [Next]_vars => FatInv'
<1> SUFFICES ASSUME FatInv, [Next]_vars PROVE FatInv'
  OBVIOUS
<1>1. fat \in Fats /\ whereClusters \in Hints /\ disk \in Disks /\ ops \in 0..MaxOps
  BY DEF FatInv, StateTypes
<1>2. ASSUME NEW path \in Paths, NEW name \in Names, NEW kind \in {"file", "dir"},
             Create(path, name, kind)
      PROVE  FatInv'
  <2>1. PICK out \in createFile(path, name, kind): Return("create", path, name, kind, out)
    BY <1>2 DEF Create
  <2>2. OutcomeFine(out)
    BY <1>1, <2>1, PathLengths, CreateIsFine
  <2>3. Running
    BY <1>2 DEF Create
  <2> QED
    BY <2>1, <2>2, <2>3, ReturnKeeps
<1>3. ASSUME NEW path \in Paths, NEW name \in Names, NEW kind \in {"file", "dir"},
             CrashInCreate(path, name, kind)
      PROVE  FatInv'
  <2>1. PICK out \in createFile(path, name, kind): \E call: ResetDuring(out, call)
    BY <1>3 DEF CrashInCreate
  <2>2. OutcomeFine(out)
    BY <1>1, <2>1, PathLengths, CreateIsFine
  <2>3. Running
    BY <1>3 DEF CrashInCreate
  <2> QED
    BY <2>1, <2>2, <2>3, ResetDuringKeeps
<1>4. ASSUME NEW path \in Paths, NEW name \in Names, Delete(path, name) PROVE FatInv'
  <2>1. OutcomeFine(deleteFile(path, name))
    BY <1>1, PathLengths, DeleteIsFine
  <2>2. Running /\ Return("delete", path, name, "file", deleteFile(path, name))
    BY <1>4 DEF Delete
  <2> QED
    BY <2>1, <2>2, ReturnKeeps
<1>5. ASSUME NEW path \in Paths, NEW name \in Names, CrashInDelete(path, name) PROVE FatInv'
  <2>1. OutcomeFine(deleteFile(path, name))
    BY <1>1, PathLengths, DeleteIsFine
  <2>2. Running /\ \E call: ResetDuring(deleteFile(path, name), call)
    BY <1>5 DEF CrashInDelete
  <2> QED
    BY <2>1, <2>2, ResetDuringKeeps
<1>6. CASE Reboot
  BY <1>1, <1>6, ResetKeeps DEF Reboot
<1>7. CASE UNCHANGED vars
  BY <1>7 DEF vars, FatInv, StateTypes, FirstSession, FreshSession
<1> QED
  BY <1>2, <1>3, <1>4, <1>5, <1>6, <1>7 DEF Next

LEMMA FatHolds == Spec => []FatInv
<1>1. Init => FatInv
  BY FatInit
<1>2. FatInv /\ [Next]_vars => FatInv'
  BY FatStep
<1> QED
  BY <1>1, <1>2, PTL DEF Spec

\* Every variable keeps its type, in every session and after any reset: bytes of
\* directory entries never come to lie outside their sector, nor FAT words in a
\* directory, whatever table a boot reads back (readFATfromDisk).
THEOREM TypesHold == Spec => []TypeOK
<1>1. FatInv => TypeOK
  <2> SUFFICES ASSUME FatInv PROVE TypeOK
    OBVIOUS
  <2>1. StateTypes
    BY DEF FatInv
  <2>2. disk.fat \in Fats /\ disk.dir \in [Cluster -> Slots] /\ WordsInPlace(disk)
    BY <2>1 DEF StateTypes, Disks
  <2> QED
    BY <2>1, <2>2 DEF StateTypes, TypeOK, Fats, Slots, Hints, WordsInPlace
<1> QED
  BY <1>1, FatHolds, PTL

\* In the first session no call loops for ever and every chain has an end, for a
\* disk of any size: the loops of createFile, deleteFile and allocateCluster and the
\* recursion of recursiveSearch follow ranks that descend.
THEOREM ChainsEndInSession == Spec => [](sessions = 1 => ChainsEnd)
<1>1. FatInv => (sessions = 1 => ChainsEnd)
  <2> SUFFICES ASSUME FatInv, sessions = 1 PROVE ChainsEnd
    OBVIOUS
  <2>1. fat \in Fats /\ LinkSound(fat) /\ ~hung
    BY DEF FatInv, StateTypes, FirstSession, Sound
  <2>2. \A c \in InUse(fat): Ends(fat, c)
    BY <2>1, ChainsOfSound
  <2> QED
    BY <2>1, <2>2 DEF ChainsEnd, InUse
<1> QED
  BY <1>1, FatHolds, PTL

\* In the first session what an entry, a link of a chain or the boot record names is
\* in use in memory, so allocateCluster never hands it out again while it is named.
THEOREM ReferencesAllocatedInSession == Spec => [](sessions = 1 => ReferencesAllocated)
<1>1. FatInv => (sessions = 1 => ReferencesAllocated)
  <2> SUFFICES ASSUME FatInv, sessions = 1 PROVE ReferencesAllocated
    OBVIOUS
  <2>1. LinkSound(fat) /\ EntrySound(fat, disk)
    BY DEF FatInv, FirstSession, Sound
  <2>2. ASSUME NEW p \in Entries PROVE fat[EntryAtPos(p).cluster] # 0
    <3>1. p[1] \in Cluster /\ p[2] \in Slot /\ IsLive(disk.dir[p[1]][p[2]])
      BY DEF Entries
    <3> QED
      BY <2>1, <3>1 DEF EntrySound, Nameable, EntryAtPos
  <2>3. \A c \in Links: fat[fat[c]] # 0
    BY <2>1 DEF LinkSound, Links, FatLinks
  <2>4. fat[RootCluster] # 0
    BY <2>1 DEF LinkSound
  <2> QED
    BY <2>2, <2>3, <2>4 DEF ReferencesAllocated
<1> QED
  BY <1>1, FatHolds, PTL

LEMMA CountedBy ==
  ASSUME NEW S, IsFiniteSet(S), NEW g, g = [x \in S |-> g[x]],
         \A x, y \in S: g[x] = g[y] => x = y
  PROVE  /\ IsFiniteSet({g[x]: x \in S})
         /\ Cardinality({g[x]: x \in S}) = Cardinality(S)
<1> DEFINE T == {g[x]: x \in S}
<1>1. g \in [S -> T]
  OBVIOUS
<1>2. g \in Bijection(S, T)
  BY <1>1 DEF Bijection, Injection, Surjection, IsInjective
<1>3. ExistsBijection(S, T)
  BY <1>2 DEF ExistsBijection
<1> HIDE DEF T
<1>4. IsFiniteSet(T) /\ Cardinality(T) = Cardinality(S)
  BY <1>3, FS_Bijection
<1> QED
  BY <1>4 DEF T

\* In the first session no two entries, and no entry and link, name the same cluster,
\* whatever createFile, deleteFile and the growth of directories did: the sum of
\* NoSharedClusters, from the difference of the names one by one.
THEOREM NoSharedClustersInSession == Spec => [](sessions = 1 => NoSharedClusters)
<1>1. FatInv => (sessions = 1 => NoSharedClusters)
  <2> SUFFICES ASSUME FatInv, sessions = 1 PROVE NoSharedClusters
    OBVIOUS
  <2>1. LinkSound(fat) /\ EntrySound(fat, disk)
    BY DEF FatInv, FirstSession, Sound
  <2> DEFINE byLink == [c \in Links |-> fat[c]]
             byEntry == [p \in Entries |-> EntryAtPos(p).cluster]
             A == {byLink[c]: c \in Links}
             B == {byEntry[p]: p \in Entries}
  <2>2. IsFiniteSet(Links) /\ IsFiniteSet(Entries)
    <3>1. Links \subseteq Cluster /\ Entries \subseteq Cluster \X Slot
      BY DEF Links, Entries
    <3>2. IsFiniteSet(Slot)
      <4> DEFINE n == SectorsPerCluster * EntriesPerSector
      <4>1. n \in Nat
        BY GeometryAssumption
      <4>2. Slot = 0..n-1
        BY DEF Slot
      <4> HIDE DEF n
      <4> QED
        BY <4>1, <4>2, FS_Interval
    <3>3. IsFiniteSet(Cluster \X Slot)
      BY <3>2, ClustersAreFinite, FS_Product
    <3> QED
      BY <3>1, <3>3, ClustersAreFinite, FS_Subset
  <2>3. \A c, e \in Links: byLink[c] = byLink[e] => c = e
    BY <2>1 DEF LinkSound, Links, FatLinks
  <2>4. \A p \in Entries: /\ p \in Cluster \X Slot /\ p = <<p[1], p[2]>>
                          /\ IsLive(disk.dir[p[1]][p[2]])
                          /\ byEntry[p] = disk.dir[p[1]][p[2]].cluster
                          /\ Nameable(fat, byEntry[p])
    <3> SUFFICES ASSUME NEW p \in Entries
                 PROVE  /\ p \in Cluster \X Slot /\ p = <<p[1], p[2]>>
                        /\ IsLive(disk.dir[p[1]][p[2]])
                        /\ byEntry[p] = disk.dir[p[1]][p[2]].cluster
                        /\ Nameable(fat, byEntry[p])
      OBVIOUS
    <3>1. p \in Cluster \X Slot /\ IsLive(disk.dir[p[1]][p[2]])
      BY DEF Entries
    <3>2. byEntry[p] = disk.dir[p[1]][p[2]].cluster
      BY DEF EntryAtPos
    <3>3. Nameable(fat, disk.dir[p[1]][p[2]].cluster)
      BY <2>1, <3>1 DEF EntrySound
    <3> QED
      BY <3>1, <3>2, <3>3
  <2>5. ASSUME NEW p \in Entries, NEW q \in Entries, byEntry[p] = byEntry[q] PROVE p = q
    <3> HIDE DEF byEntry
    <3>1. p[1] = q[1] /\ p[2] = q[2]
      BY <2>1, <2>4, <2>5 DEF EntrySound
    <3> QED
      BY <2>4, <3>1
  <2>6. IsFiniteSet(A) /\ Cardinality(A) = Cardinality(Links)
    BY <2>2, <2>3, CountedBy
  <2>7. IsFiniteSet(B) /\ Cardinality(B) = Cardinality(Entries)
    <3>1. \A p, q \in Entries: byEntry[p] = byEntry[q] => p = q
      BY <2>5
    <3>2. byEntry = [p \in Entries |-> byEntry[p]]
      OBVIOUS
    <3> HIDE DEF byEntry
    <3> QED
      BY <2>2, <3>1, <3>2, CountedBy
  <2>8. A \cap B = {}
    <3>1. \A c \in Links, p \in Entries: byLink[c] # byEntry[p]
      <4>1. \A c \in Links: c \in FatLinks(fat) /\ byLink[c] = fat[c]
        BY DEF Links, FatLinks
      <4> HIDE DEF byEntry, byLink
      <4> QED
        BY <2>4, <4>1 DEF Nameable
    <3> HIDE DEF byEntry, byLink
    <3> QED
      BY <3>1
  <2>9. RootCluster \notin A \cup B
    <3>1. \A c \in Links: byLink[c] # RootCluster
      BY <2>1 DEF LinkSound, Links, FatLinks
    <3>2. \A p \in Entries: byEntry[p] # RootCluster
      <4> HIDE DEF byEntry
      <4> QED
        BY <2>4 DEF Nameable
    <3> HIDE DEF byEntry, byLink
    <3> QED
      BY <3>1, <3>2
  <2> DEFINE named == {fat[c]: c \in Links} \cup {EntryAtPos(p).cluster: p \in Entries}
                      \cup {RootCluster}
  <2>10. named = (A \cup B) \cup {RootCluster}
    OBVIOUS
  <2>11. NoSharedClusters <=> Cardinality(named) = Cardinality(Links) + Cardinality(Entries) + 1
    BY DEF NoSharedClusters
  <2> HIDE DEF A, B, named
  <2>12. IsFiniteSet(A \cup B) /\ Cardinality(A \cup B) = Cardinality(A) + Cardinality(B)
    <3>1. Cardinality(A) \in Nat /\ Cardinality(B) \in Nat
      BY <2>6, <2>7, FS_CardinalityType
    <3>3. Cardinality(A \cap B) = 0
      BY <2>8, FS_EmptySet, Zenon
    <3>2. /\ IsFiniteSet(A \cup B)
          /\ Cardinality(A \cup B) = Cardinality(A) + Cardinality(B) - Cardinality(A \cap B)
      BY <2>6, <2>7, FS_Union
    <3> QED
      BY <3>1, <3>2, <3>3
  <2>13. Cardinality((A \cup B) \cup {RootCluster}) = Cardinality(A \cup B) + 1
    BY <2>9, <2>12, FS_AddElement
  <2> QED
    BY <2>6, <2>7, <2>10, <2>11, <2>12, <2>13
<1> QED
  BY <1>1, FatHolds, PTL

\* In the first session, whatever hint FSInfo holds, a directory that was just made is
\* empty, though createFile does not clear its cluster, unless it gets one the image had
\* already used: allocateCluster hands out the others in order, and nothing is ever
\* written to one that it has not reached yet.  (The next boot takes its hint from
\* FSInfo again, which is never written, so it may give clusters back.)
THEOREM NewDirectoriesAreEmpty ==
  ASSUME MaxSessions = 1
  PROVE  Spec => NewDirectoryIsEmpty
<1> DEFINE Empty == last'.op = "create" /\ last'.kind = "dir" /\ last'.ret > File0Cluster
                    => EntryAt(disk', last'.ret, 0) = End
<1>1. FatInv /\ [Next]_vars => [Empty]_vars
  <2> SUFFICES ASSUME FatInv, Next PROVE Empty
    OBVIOUS
  <2>1. /\ fat \in Fats /\ whereClusters \in Hints /\ disk \in Disks
        /\ sessions = 1 /\ ~(sessions < MaxSessions)
    BY DEF FatInv, StateTypes
  <2>2. Sound(fat, disk) /\ Fresh(fat, whereClusters, disk)
    BY <2>1 DEF FatInv, FirstSession, FreshSession
  <2>3. ASSUME NEW path \in Paths, NEW name \in Names, NEW kind \in {"file", "dir"},
               Create(path, name, kind)
        PROVE  Empty
    <3>1. PICK out \in createFile(path, name, kind): Return("create", path, name, kind, out)
      BY <2>3 DEF Create
    <3>2. OutcomeFine(out)
      BY <2>1, <3>1, PathLengths, CreateIsFine
    <3>3. last'.ret = out.ret /\ disk' = Last(out.images)
      BY <3>1 DEF Return, Call
    <3>4. last'.ret > File0Cluster => disk'.dir[last'.ret][0] = End
      BY <2>2, <3>2, <3>3 DEF OutcomeFine, FreshAfter
    <3>5. End.kind # "words"
      BY DEF End, Blank
    <3> QED
      BY <3>4, <3>5 DEF EntryAt
  <2>4. ASSUME NEW path \in Paths, NEW name \in Names, Delete(path, name) PROVE Empty
    BY <2>4 DEF Delete, Return, Call
  <2>5. ASSUME NEW path \in Paths, NEW name \in Names, NEW kind \in {"file", "dir"},
               CrashInCreate(path, name, kind)
        PROVE  Empty
    BY <2>1, <2>5 DEF CrashInCreate
  <2>6. ASSUME NEW path \in Paths, NEW name \in Names, CrashInDelete(path, name) PROVE Empty
    BY <2>1, <2>6 DEF CrashInDelete
  <2>7. CASE Reboot
    BY <2>1, <2>7 DEF Reboot, Reset
  <2> QED
    BY <2>3, <2>4, <2>5, <2>6, <2>7 DEF Next
<1> QED
  BY <1>1, FatHolds, PTL DEF Spec, NewDirectoryIsEmpty

-----------------------------------------------------------------------------
(***************************************************************************)
(* What single calls promise, in every session.  These properties assume   *)
(* that the table is Consistent before the call, which says of one state   *)
(* what is needed; of the sessions before it only NamesInv is left.  Calls *)
(* name directories that exist (AnyPath = FALSE): in a missing one         *)
(* createFile writes to the FAT region.                                    *)
(***************************************************************************)

LEMMA CountedOnce ==
  ASSUME NEW S, IsFiniteSet(S), NEW g, g = [x \in S |-> g[x]]
  PROVE  LET T == {g[x]: x \in S}
         IN  /\ IsFiniteSet(T) /\ Cardinality(T) \in Nat /\ Cardinality(S) \in Nat
             /\ Cardinality(T) <= Cardinality(S)
             /\ Cardinality(T) = Cardinality(S) => \A x, y \in S: g[x] = g[y] => x = y
<1> DEFINE T == {g[x]: x \in S}
<1>1. g \in [S -> T] /\ \A t \in T: \E x \in S: g[x] = t
  OBVIOUS
<1> HIDE DEF T
<1>2. g \in Surjection(S, T)
  BY <1>1 DEF Surjection
<1>3. /\ IsFiniteSet(T) /\ Cardinality(T) <= Cardinality(S)
      /\ Cardinality(T) = Cardinality(S) <=> g \in Injection(S, T)
  BY <1>2, FS_Surjection
<1>4. Cardinality(T) \in Nat /\ Cardinality(S) \in Nat
  BY <1>3, FS_CardinalityType
<1>5. g \in Injection(S, T) => \A x, y \in S: g[x] = g[y] => x = y
  BY DEF Injection, IsInjective
<1> QED
  BY <1>3, <1>4, <1>5 DEF T

LEMMA LinksAndEntriesAreFinite == IsFiniteSet(Links) /\ IsFiniteSet(Entries)
<1>1. Links \subseteq Cluster /\ Entries \subseteq Cluster \X Slot
  BY DEF Links, Entries
<1>2. IsFiniteSet(Slot)
  <2> DEFINE n == SectorsPerCluster * EntriesPerSector
  <2>1. n \in Nat
    BY GeometryAssumption
  <2>2. Slot = 0..n-1
    BY DEF Slot
  <2> HIDE DEF n
  <2> QED
    BY <2>1, <2>2, FS_Interval
<1>3. IsFiniteSet(Cluster \X Slot)
  BY <1>2, ClustersAreFinite, FS_Product
<1> QED
  BY <1>1, <1>3, ClustersAreFinite, FS_Subset

\* Nothing is named twice.
NamedOnce ==
  /\ \A c, e \in Links: fat[c] = fat[e] => c = e
  /\ \A p, q \in Entries: EntryAtPos(p).cluster = EntryAtPos(q).cluster => p = q
  /\ \A p \in Entries, c \in Links: EntryAtPos(p).cluster # fat[c]
  /\ \A c \in Links: fat[c] # RootCluster
  /\ \A p \in Entries: EntryAtPos(p).cluster # RootCluster

\* The sum in NoSharedClusters says so.
LEMMA SumSaysOnce == NoSharedClusters => NamedOnce
<1> SUFFICES ASSUME NoSharedClusters PROVE NamedOnce
  OBVIOUS
<1> DEFINE byLink == [c \in Links |-> fat[c]]
           byEntry == [p \in Entries |-> EntryAtPos(p).cluster]
           A == {byLink[c]: c \in Links}
           B == {byEntry[p]: p \in Entries}
           L == Cardinality(Links)
           E == Cardinality(Entries)
           named == {fat[c]: c \in Links} \cup {EntryAtPos(p).cluster: p \in Entries}
                    \cup {RootCluster}
<1>1. named = (A \cup B) \cup {RootCluster}
  OBVIOUS
<1>2. Cardinality(named) = L + E + 1
  BY DEF NoSharedClusters
<1>3. /\ \A c \in Links: byLink[c] = fat[c]
      /\ \A p \in Entries: byEntry[p] = EntryAtPos(p).cluster
      /\ byLink = [c \in Links |-> byLink[c]] /\ byEntry = [p \in Entries |-> byEntry[p]]
  OBVIOUS
<1>4. /\ \A c \in Links: byLink[c] \in A
      /\ \A p \in Entries: byEntry[p] \in B
  OBVIOUS
<1> HIDE DEF byLink, byEntry, named
<1>5. /\ IsFiniteSet(A) /\ Cardinality(A) \in Nat /\ L \in Nat /\ Cardinality(A) <= L
      /\ Cardinality(A) = L => \A x, y \in Links: byLink[x] = byLink[y] => x = y
  BY <1>3, LinksAndEntriesAreFinite, CountedOnce
<1>6. /\ IsFiniteSet(B) /\ Cardinality(B) \in Nat /\ E \in Nat /\ Cardinality(B) <= E
      /\ Cardinality(B) = E => \A x, y \in Entries: byEntry[x] = byEntry[y] => x = y
  BY <1>3, LinksAndEntriesAreFinite, CountedOnce
<1> HIDE DEF A, B, L, E
<1>7. /\ IsFiniteSet(A \cup B) /\ Cardinality(A \cup B) \in Nat
      /\ Cardinality(A \cup B) = Cardinality(A) + Cardinality(B) - Cardinality(A \cap B)
  BY <1>5, <1>6, FS_Union, FS_CardinalityType
<1>8. /\ IsFiniteSet(A \cap B) /\ Cardinality(A \cap B) \in Nat
      /\ Cardinality(A \cap B) = 0 <=> A \cap B = {}
  BY <1>5, FS_Intersection, FS_EmptySet, FS_CardinalityType
<1>9. Cardinality((A \cup B) \cup {RootCluster})
        = IF RootCluster \in A \cup B THEN Cardinality(A \cup B) ELSE Cardinality(A \cup B) + 1
  BY <1>7, FS_AddElement
<1>10. /\ Cardinality(A) = L /\ Cardinality(B) = E /\ Cardinality(A \cap B) = 0
       /\ RootCluster \notin A \cup B
  BY <1>1, <1>2, <1>5, <1>6, <1>7, <1>8, <1>9
<1>11. /\ \A x, y \in Links: byLink[x] = byLink[y] => x = y
       /\ \A x, y \in Entries: byEntry[x] = byEntry[y] => x = y
  BY <1>5, <1>6, <1>10
<1>12. A \cap B = {}
  BY <1>8, <1>10
<1>13. \A p \in Entries, c \in Links: byEntry[p] # byLink[c]
  BY <1>4, <1>12
<1>14. /\ \A c \in Links: byLink[c] # RootCluster
       /\ \A p \in Entries: byEntry[p] # RootCluster
  BY <1>4, <1>10
<1> QED
  BY <1>3, <1>11, <1>13, <1>14 DEF NamedOnce

\* Stops of a search.
Stops(d, c, name) == EndSlots(d, c) \cup Matches(d, c, name)
LEMMA FirstStop ==
  ASSUME NEW d, NEW c, NEW name, Stops(d, c, name) # {}
  PROVE  LET s == Min(Stops(d, c, name))
         IN  /\ s \in Stops(d, c, name) /\ s \in Slot
             /\ \A t \in Stops(d, c, name): s <= t
             /\ EntryAt(d, c, s).kind # "end" => IsLive(EntryAt(d, c, s))
<1>1. Stops(d, c, name) \in SUBSET Nat /\ Stops(d, c, name) \subseteq Slot
  BY SlotsAreNumbers DEF Stops, EndSlots, Matches
<1> DEFINE s == Min(Stops(d, c, name))
<1>2. s \in Stops(d, c, name) /\ \A t \in Stops(d, c, name): s <= t
  BY <1>1, Minimum
<1> HIDE DEF s
<1>3. EntryAt(d, c, s).kind # "end" => IsLive(EntryAt(d, c, s))
  BY <1>2 DEF Stops, EndSlots, Matches
<1> QED
  BY <1>1, <1>2, <1>3 DEF s

\* The search ends with a directory, or with anything else.
Reached(c) == Found(c, TRUE)
Missed(c) == Found(c, FALSE)
LEMMA FoundFields ==
  \A c: Reached(c).cluster = c /\ Reached(c).isDir /\ Missed(c).cluster = c /\ ~Missed(c).isDir
BY DEF Reached, Missed, Found

\* One turn of the search in cluster c, with g the search with less fuel.
Turn(d, f, name, k, c, g) ==
  LET e == EntryAt(d, c, Min(Stops(d, c, name)))
  IN  IF Stops(d, c, name) = {} THEN IF f[c] = EOC THEN Missed(0) ELSE g[k][f[c]]
      ELSE IF e.kind = "end" THEN Missed(0)
      ELSE IF e.kind = "dir" THEN g[k + 1][e.cluster]
      ELSE Missed(e.cluster)
Top(path) == FatSize * (Len(path) + 1)
SearchTurn(d, f, path, search, n, k, c) ==
  search[n][k][c] = IF k > Len(path) THEN Reached(c)
                    ELSE IF n = 0 THEN Missed(Diverges)
                    ELSE Turn(d, f, path[k], k, c, search[n - 1])
Searches(d, f, path, search) ==
  /\ recursiveSearch(d, f, path) = search[Top(path)][1][RootCluster]
  /\ \A n \in 0..Top(path), k \in 1..Len(path)+1, c \in Cluster:
       SearchTurn(d, f, path, search, n, k, c)

LEMMA SearchTurns ==
  ASSUME NEW d, NEW f, NEW path, Len(path) \in Nat
  PROVE  Top(path) \in Nat /\ \E search: Searches(d, f, path, search)
<1>1. Top(path) \in Nat
  BY Clusters DEF Top
<1> DEFINE g == CHOOSE search: SearchLoop(d, f, path, Top(path), search)
<1>2. SearchLoop(d, f, path, Top(path), g)
  BY <1>1, SearchLoops
<1>3. recursiveSearch(d, f, path) = g[Top(path)][1][RootCluster]
  BY DEF recursiveSearch, SearchLoop, SearchRow, Top
<1> HIDE DEF g
<1>4. ASSUME NEW n \in 0..Top(path), NEW k \in 1..Len(path)+1, NEW c \in Cluster
      PROVE  SearchTurn(d, f, path, g, n, k, c)
  <2>1. g[n] = SearchRow(d, f, path, n, g[n - 1])
    BY <1>2 DEF SearchLoop
  <2> DEFINE h == g[n - 1]
  <2>2. h = g[n - 1]
    OBVIOUS
  <2> HIDE DEF h
  <2>3. SearchRow(d, f, path, n, h)[k][c]
          = IF k > Len(path) THEN Reached(c)
            ELSE IF n = 0 THEN Missed(Diverges)
            ELSE Turn(d, f, path[k], k, c, h)
    BY DEF SearchRow, Turn, Stops, Reached, Missed
  <2> QED
    BY <2>1, <2>2, <2>3 DEF SearchTurn
<1> QED
  BY <1>1, <1>3, <1>4 DEF Searches

\* What can be reached from a cluster of B by links and entries is in B.
DirClosed(d, f, B) ==
  Closed(f, B) /\ \A c \in B, s \in Slot: IsLive(d.dir[c][s]) => d.dir[c][s].cluster \in B

\* A directory that is found lies in every closed set that contains the root.
LEMMA SearchInside ==
  ASSUME NEW d, NEW f, NEW B, DirClosed(d, f, B), RootCluster \in B,
         NEW path, Len(path) \in Nat, recursiveSearch(d, f, path).isDir
  PROVE  recursiveSearch(d, f, path).cluster \in B
<1> DEFINE top == Top(path)
<1>1. PICK g: Searches(d, f, path, g)
  BY SearchTurns
<1>2. top \in Nat
  BY SearchTurns
<1>0. B \subseteq Cluster
  BY DEF DirClosed, Closed
<1> HIDE DEF top
<1> DEFINE Inside(x) == x.isDir => x.cluster \in B
           P == {n \in 0..top: \A k \in 1..Len(path)+1, c \in B: Inside(g[n][k][c])}
<1>3. \A n \in 0..top, k \in 1..Len(path)+1, c \in Cluster: SearchTurn(d, f, path, g, n, k, c)
  BY <1>1 DEF Searches, top
<1>4. 0 \in P
  <2>1. 0 \in 0..top
    BY <1>2
  <2>2. ASSUME NEW k \in 1..Len(path)+1, NEW c \in B PROVE Inside(g[0][k][c])
    <3>1. SearchTurn(d, f, path, g, 0, k, c)
      BY <1>0, <1>3, <2>1
    <3> QED
      BY <3>1, FoundFields DEF SearchTurn
  <2> QED
    BY <2>1, <2>2
<1>5. ASSUME NEW n \in 0..top, n # top, n \in P PROVE n + 1 \in P
  <2>1. n + 1 \in 0..top /\ n + 1 # 0 /\ (n + 1) - 1 = n
    BY <1>2, <1>5
  <2>2. \A k \in 1..Len(path)+1, c \in B: Inside(g[n][k][c])
    BY <1>5
  <2> HIDE DEF P
  <2>3. ASSUME NEW k \in 1..Len(path)+1, NEW c \in B PROVE Inside(g[n + 1][k][c])
    <3> DEFINE x == g[n + 1][k][c]
               h == g[n]
    <3>1. x = IF k > Len(path) THEN Reached(c) ELSE Turn(d, f, path[k], k, c, h)
      <4>1. SearchTurn(d, f, path, g, n + 1, k, c)
        BY <1>0, <1>3, <2>1
      <4> QED
        BY <2>1, <4>1 DEF SearchTurn
    <3>2. \A j \in 1..Len(path)+1, y \in B: Inside(h[j][y])
      BY <2>2
    <3> HIDE DEF x, h
    <3>3. CASE k > Len(path)
      BY <3>1, <3>3, FoundFields DEF x
    <3>4. CASE ~(k > Len(path))
      <4>1. k + 1 \in 1..Len(path)+1
        BY <3>4
      <4> DEFINE S == Stops(d, c, path[k])
                 s == Min(S)
                 e == EntryAt(d, c, s)
      <4>2. x = IF S = {} THEN IF f[c] = EOC THEN Missed(0) ELSE h[k][f[c]]
                ELSE IF e.kind = "end" THEN Missed(0)
                ELSE IF e.kind = "dir" THEN h[k + 1][e.cluster]
                ELSE Missed(e.cluster)
        BY <3>1, <3>4 DEF Turn
      <4>3. S # {} => s \in Slot /\ (e.kind # "end" => IsLive(e))
        BY FirstStop
      <4>4. S # {} /\ e.kind # "end" => e = d.dir[c][s] /\ IsLive(d.dir[c][s])
        BY <4>3, LiveEntry
      <4> HIDE DEF S, s, e
      <4>5. S # {} /\ e.kind # "end" => e.cluster \in B
        BY <4>3, <4>4 DEF DirClosed
      <4>6. f[c] # EOC => f[c] \in B
        BY DEF DirClosed, Closed
      <4> QED
        BY <3>2, <4>1, <4>2, <4>5, <4>6, FoundFields DEF x
    <3> QED
      BY <3>3, <3>4 DEF x
  <2> QED
    BY <2>1, <2>3 DEF P
<1>6. 0..top \subseteq P
  <2> HIDE DEF P
  <2> QED
    BY <1>2, <1>4, <1>5, CountUpTo
<1>7. Inside(g[top][1][RootCluster])
  <2>1. top \in 0..top /\ 1 \in 1..Len(path)+1
    BY <1>2
  <2> QED
    BY <1>6, <2>1
<1> QED
  BY <1>1, <1>7 DEF Searches, top

-----------------------------------------------------------------------------
(* createFile, write by write *)

\* No entry names cluster 0.
NamesClusters(d) == \A c \in Cluster, s \in Slot: IsLive(d.dir[c][s]) => d.dir[c][s].cluster # 0

LEMMA FewerNames ==
  ASSUME NEW d, NEW e, NamesClusters(d), NoEntryMore(d, e)
  PROVE  NamesClusters(e)
BY DEF NamesClusters, NoEntryMore

\* The disk after the FAT write, and after the entry write into slot s of cluster c (in
\* cluster 0 the sector of the FAT stays what it is, unless the entry is in it).
FatWritten(a, d1) ==
  /\ d1 \in Disks /\ d1.fat = a.fat
  /\ \A x \in Cluster \ {0}: d1.dir[x] = disk.dir[x]
  /\ \A t \in Slot: d1.dir[0][t] = Words \/ d1.dir[0][t] = disk.dir[0][t]
EntryWritten(a, c, s, name, kind, d1, d2) ==
  /\ d2 \in Disks /\ (c # 0 => d2.fat = a.fat)
  /\ \A x \in Cluster \ {c}: d2.dir[x] = d1.dir[x]
  /\ \A t \in Slot: \/ d2.dir[c][t] = IF t = s THEN Live(kind, name, a.cluster)
                                      ELSE IF t = s + 1 /\ ~LastInSector(s) THEN End
                                      ELSE disk.dir[c][t]
                    \/ c = 0 /\ t # s /\ d2.dir[c][t] = d1.dir[c][t]

LEMMA FatWrite ==
  ASSUME disk \in Disks, NEW a, a.fat \in Fats
  PROVE  FatWritten(a, copyFATtoDisk(disk, a.fat))
<1> DEFINE d1 == copyFATtoDisk(disk, a.fat)
<1>1. /\ SlotsPut(disk, 0, FatSector(disk.dir[0]), d1)
      /\ \A t \in Slot: \/ FatSector(disk.dir[0])[t] = Words
                        \/ FatSector(disk.dir[0])[t] = disk.dir[0][t]
  BY CopiedFat
<1>2. d1.fat = a.fat
  BY DEF copyFATtoDisk, Disks
<1> HIDE DEF d1
<1>3. FatWritten(a, d1)
  BY <1>1, <1>2 DEF SlotsPut, FatWritten
<1> QED
  BY <1>3 DEF d1

\* The sector buffer with the new entry.
NewSlots(slots, a, c, s, name, kind) ==
  slots = WithEndMark([disk.dir[c] EXCEPT ![s] = Live(kind, name, a.cluster)], s)
LEMMA EntryWrite ==
  ASSUME disk \in Disks, NEW a, a.cluster \in Cluster, NEW d1, FatWritten(a, d1),
         NEW c \in Cluster, NEW s \in Slot, NEW name \in Names, NEW kind \in {"file", "dir"},
         NEW slots, NewSlots(slots, a, c, s, name, kind),
         NEW d2, d2 = WriteSector(d1, disk, c, s, slots)
  PROVE  EntryWritten(a, c, s, name, kind, d1, d2)
<1> DEFINE e == Live(kind, name, a.cluster)
           with == [disk.dir[c] EXCEPT ![s] = e]
           marked == [with EXCEPT ![s + 1] = End]
<1>1. e \in Entry /\ e # Words
  BY EntryKinds
<1>2. SlotsOf(c, disk.dir[c]) /\ SlotSet(disk.dir[c], s, e, with)
  BY SlotsOfDisk DEF SlotSet
<1>3. slots = IF LastInSector(s) THEN with ELSE marked
  BY DEF NewSlots, WithEndMark
<1>4. SlotSet(with, s + 1, End, marked)
  BY DEF SlotSet
<1>5. e = Live(kind, name, a.cluster)
  OBVIOUS
<1> HIDE DEF e, with, marked
<1>6. SlotNow(c, disk.dir[c], s, e, with)
  BY <1>1, <1>2, SlotWritten
<1>7. SlotNow(c, with, s + 1, End, marked)
  <2>1. SlotsOf(c, with) /\ End \in Entry /\ End # Words
    BY <1>6, EntryKinds DEF SlotNow
  <2> QED
    BY <1>4, <2>1, SlotWritten
<1>8. /\ SlotsOf(c, slots)
      /\ \A t \in Slot: slots[t] = IF t = s THEN e ELSE IF t = s + 1 /\ ~LastInSector(s) THEN End
                                   ELSE disk.dir[c][t]
  <2>0. s \in Nat /\ s # s + 1
    BY SlotsAreNumbers
  <2>1. CASE LastInSector(s)
    BY <1>3, <1>6, <2>1 DEF SlotNow
  <2>2. CASE ~LastInSector(s)
    BY <1>3, <1>6, <1>7, <2>0, <2>2 DEF SlotNow
  <2> QED
    BY <2>1, <2>2
<1>9. d1 \in Disks /\ d1.fat = a.fat
  BY DEF FatWritten
<1>10. SectorPut(d1, c, s, slots, d2)
  BY <1>8, <1>9, WrittenSector
<1> QED
  BY <1>5, <1>8, <1>9, <1>10 DEF SectorPut, SlotsPut, EntryWritten

\* The end mark a growing directory writes: somewhere, and in a free cluster if
\* there is one.
MarkWritten(c, s, d2, e) ==
  /\ e \in Disks /\ e.fat = d2.fat
  /\ \A x \in Cluster, t \in Slot: \/ e.dir[x][t] = d2.dir[x][t]
                                   \/ /\ e.dir[x][t] = End
                                      /\ CanGrow => fat[x] = 0 \/ (x = c /\ t = s + 1)

LEMMA MarkWrite ==
  ASSUME NEW d2 \in Disks, NEW c \in Cluster, NEW s, NEW x \in Cluster, NEW t,
         CanGrow => fat[x] = 0 \/ (x = c /\ t = s + 1)
  PROVE  MarkWritten(c, s, d2, [d2 EXCEPT !.dir[x][t] = End])
<1> DEFINE e == [d2 EXCEPT !.dir[x][t] = End]
<1>1. EndPut(d2, x, t, e)
  BY EndWritten
<1>2. e.fat = d2.fat
  BY DEF Disks
<1> HIDE DEF e
<1>3. MarkWritten(c, s, d2, e)
  BY <1>1, <1>2 DEF EndPut, MarkWritten
<1> QED
  BY <1>3 DEF e

\* The images of a call that adds an entry.
AddImages(im, c, s, d1, d2) ==
  /\ im \in Seq(Disks) /\ Len(im) \in 3..4 /\ im[2] = d1 /\ im[3] = d2
  /\ Last(im) = d2 \/ MarkWritten(c, s, d2, Last(im))
LEMMA ThreeImages ==
  ASSUME disk \in Disks, NEW c, NEW s, NEW d1 \in Disks, NEW d2 \in Disks
  PROVE  AddImages(CreateWrites(d1, d2), c, s, d1, d2)
<1> DEFINE im == CreateWrites(d1, d2)
<1>1. im = <<disk, d1, d2>>
  BY DEF CreateWrites
<1>2. im \in Seq(Disks) /\ Len(im) = 3 /\ im[2] = d1 /\ im[3] = d2
  BY <1>1
<1> HIDE DEF im
<1>3. AddImages(im, c, s, d1, d2)
  BY <1>2 DEF AddImages, Last
<1> QED
  BY <1>3 DEF im

LEMMA OneAppended ==
  ASSUME NEW S, NEW q \in Seq(S), NEW e \in S
  PROVE  /\ Append(q, e) \in Seq(S) /\ Len(Append(q, e)) = Len(q) + 1
         /\ \A i \in 1..Len(q): Append(q, e)[i] = q[i]
         /\ Append(q, e)[Len(q) + 1] = e
OBVIOUS

LEMMA FourImages ==
  ASSUME disk \in Disks, NEW c, NEW s, NEW d1 \in Disks, NEW d2 \in Disks,
         NEW e, MarkWritten(c, s, d2, e)
  PROVE  /\ AddImages(Append(CreateWrites(d1, d2), e), c, s, d1, d2)
         /\ AddImages(CreateWrites(d1, d2) \o <<e>>, c, s, d1, d2)
<1> DEFINE w == CreateWrites(d1, d2)
           im == Append(w, e)
<1>0. e \in Disks
  BY DEF MarkWritten
<1>1. w = <<disk, d1, d2>>
  BY DEF CreateWrites
<1>2. w \in Seq(Disks) /\ Len(w) = 3 /\ w[2] = d1 /\ w[3] = d2
  BY <1>1
<1> HIDE DEF w
<1>3. im = w \o <<e>>
  BY <1>2
<1>4. im = Append(w, e)
  OBVIOUS
<1> HIDE DEF im
<1>6. im \in Seq(Disks) /\ Len(im) = Len(w) + 1 /\ im[Len(w) + 1] = e /\ \A i \in 1..Len(w): im[i] = w[i]
  <2>1. w \in Seq(Disks)
    BY <1>2
  <2> QED
    BY <1>0, <1>4, <2>1, OneAppended
<1>7. Len(im) = 4 /\ im[2] = d1 /\ im[3] = d2 /\ im[4] = e
  BY <1>2, <1>6
<1>5. AddImages(im, c, s, d1, d2)
  <2>1. Last(im) = e /\ Len(im) \in 3..4
    BY <1>7 DEF Last
  <2> QED
    BY <1>6, <1>7, <2>1 DEF AddImages
<1> QED
  BY <1>3, <1>5 DEF im, w

\* The cluster a call takes for its file is the first free one, so of two free ones one
\* is left.
NewCluster == allocateCluster(fat, whereClusters, 0, FALSE)
LEMMA FirstTaken ==
  ASSUME fat \in Fats, whereClusters \in Hints, NEW a, a = NewCluster
  PROVE  /\ a.fat \in Fats /\ a.hint \in Hints
         /\ a.cluster = Full => a.fat = fat /\ a.hint = whereClusters
         /\ a.cluster # Full => /\ a.cluster \in Cluster /\ fat[a.cluster] = 0
                                /\ a.fat = [fat EXCEPT ![a.cluster] = EOC]
                                /\ a.hint = a.cluster + 1 /\ a.cluster >= Start(whereClusters)
                                /\ CanGrow => \E x \in Cluster: a.fat[x] = 0 /\ x >= a.hint
<1> DEFINE avail == {i \in Cluster: i >= Start(whereClusters) /\ fat[i] = 0}
           i == Min(avail)
           g == [fat EXCEPT ![i] = EOC]
<1>1. a = IF avail = {} THEN [cluster |-> Full, fat |-> fat, hint |-> whereClusters]
          ELSE [cluster |-> i, fat |-> g, hint |-> i + 1]
  BY DEF NewCluster, allocateCluster, Start
<1>2. avail # {} => i \in avail /\ \A y \in avail: i <= y
  <2>1. avail \in SUBSET Nat
    BY Clusters
  <2> HIDE DEF avail
  <2> QED
    BY <2>1, Minimum
<1>3. \A y \in avail: y \in Cluster /\ y >= Start(whereClusters) /\ fat[y] = 0
  OBVIOUS
<1>4. g = [fat EXCEPT ![i] = EOC]
  OBVIOUS
<1>5. CanGrow => \E x, y \in avail: x # y
  BY DEF CanGrow, Start
<1> HIDE DEF avail, i, g
<1>6. CASE avail = {}
  <2>1. a.cluster = Full /\ a.fat = fat /\ a.hint = whereClusters
    BY <1>1, <1>6
  <2> QED
    BY <2>1
<1>7. CASE avail # {}
  <2>1. a.cluster = i /\ a.fat = g /\ a.hint = i + 1
    BY <1>1, <1>7
  <2>2. i \in Cluster /\ fat[i] = 0 /\ i >= Start(whereClusters) /\ i # Full
    BY <1>2, <1>3, <1>7, Clusters
  <2>3. /\ g \in Fats /\ g[i] = EOC /\ \A x \in Cluster \ {i}: g[x] = fat[x]
    BY <1>4, <2>2 DEF Fats, FatValue
  <2>4. i + 1 \in Hints
    <3>1. i \in 0..FatSize-1 /\ FatSize \in Nat
      BY <2>2, Clusters DEF Cluster
    <3> QED
      BY <3>1 DEF Hints, Cluster
  <2>5. ASSUME CanGrow PROVE \E x \in Cluster: g[x] = 0 /\ x >= i + 1
    <3>1. PICK x \in avail: x # i /\ i <= x
      BY <1>2, <1>5, <1>7, <2>5
    <3>2. x \in Cluster /\ fat[x] = 0
      BY <1>3, <3>1
    <3>3. x >= i + 1
      BY <2>2, <3>1, <3>2, Clusters
    <3> QED
      BY <2>3, <3>1, <3>2, <3>3
  <2> QED
    BY <1>4, <2>1, <2>2, <2>3, <2>4, <2>5
<1> QED
  BY <1>6, <1>7

LEMMA StartIsACluster ==
  ASSUME whereClusters \in Hints, whereClusters # 0
  PROVE  Start(whereClusters) \in Nat /\ Start(whereClusters) > 0
<1>1. FatSize \in Nat /\ FatSize > 0 /\ Cluster \subseteq Nat
  BY Clusters, GeometryAssumption
<1> QED
  BY <1>1 DEF Start, Hints, NoHint

LEMMA GrowthWrites ==
  ASSUME fat \in Fats, whereClusters \in Hints, whereClusters # 0,
         NEW a, a = NewCluster, a.cluster # Full,
         NEW c \in Cluster, NEW s \in Slot, NEW d2 \in Disks, NEW g \in GrowDirectory(c, a, d2)
  PROVE  /\ g.b.hint # 0
         /\ g.images = <<>> \/ \E e: g.images = <<e>> /\ MarkWritten(c, s, d2, e)
<1> DEFINE grown(linked) == allocateCluster(a.fat, a.hint, c, linked)
           images(b) == IF b.cluster # Full THEN {<<[d2 EXCEPT !.dir[b.cluster][0] = End]>>}
                        ELSE {<<>>} \cup {<<e>>: e \in StaleWrites(d2, c)}
           linkings == IF c = 0 THEN {FALSE} ELSE BOOLEAN
<1>1. PICK linked \in linkings:
        g \in IF linked /\ ~Ends(a.fat, c) THEN {[b |-> a, images |-> <<>>, hung |-> TRUE]}
              ELSE {[b |-> grown(linked), images |-> im, hung |-> FALSE]: im \in images(grown(linked))}
  BY DEF GrowDirectory
<1>2. linked \in BOOLEAN
  OBVIOUS
<1> DEFINE b == grown(linked)
<1>3. /\ a.cluster \in Cluster /\ a.fat \in Fats /\ a.hint \in Hints /\ a.hint # 0
      /\ a.fat = [fat EXCEPT ![a.cluster] = EOC]
  <2>1. /\ a.cluster \in Cluster /\ a.hint = a.cluster + 1
        /\ a.fat \in Fats /\ a.hint \in Hints
        /\ a.fat = [fat EXCEPT ![a.cluster] = EOC]
    BY FirstTaken
  <2>2. a.cluster \in Nat
    BY <2>1, Clusters
  <2> QED
    BY <2>1, <2>2
<1>10. a.fat \in Fats /\ a.hint \in Hints
  BY <1>3
<1>4. AllocationOf(b, a.fat, a.hint, c, linked)
  BY <1>2, <1>10, Allocation
<1>5. b.hint # 0
  <2>1. CASE Taken(b, a.fat, a.hint, c, linked)
    <3> HIDE DEF b
    <3>1. b.cluster \in Nat /\ b.hint = b.cluster + 1
      BY <2>1, Clusters DEF Taken
    <3> QED
      BY <3>1
  <2>2. CASE NoneTaken(b, a.fat, a.hint)
    BY <1>3, <2>2 DEF NoneTaken
  <2> QED
    BY <1>4, <2>1, <2>2 DEF AllocationOf
<1>6. b.cluster # Full => b.cluster \in Cluster /\ fat[b.cluster] = 0
  <2> SUFFICES ASSUME b.cluster # Full PROVE b.cluster \in Cluster /\ fat[b.cluster] = 0
    OBVIOUS
  <2>1. b.cluster \in Cluster /\ a.fat[b.cluster] = 0
    BY <1>4 DEF AllocationOf, Taken, NoneTaken
  <2> HIDE DEF b
  <2>2. b.cluster # a.cluster
    BY <1>3, <2>1, Clusters DEF Fats
  <2> QED
    BY <1>3, <2>1, <2>2 DEF Fats
<1>7. CanGrow => b.cluster # Full
  <2> SUFFICES ASSUME CanGrow PROVE b.cluster # Full
    OBVIOUS
  <2>1. PICK x \in Cluster: a.fat[x] = 0 /\ x >= a.hint
    BY FirstTaken
  <2> DEFINE avail == {i \in Cluster: i >= Start(a.hint) /\ a.fat[i] = 0}
  <2>2. a.hint # NoHint
    <3>1. a.hint = a.cluster + 1 /\ a.cluster \in 0..FatSize-1 /\ FatSize \in Nat
      BY FirstTaken, Clusters DEF Cluster
    <3> HIDE DEF b
    <3> QED
      BY <3>1 DEF NoHint
  <2>3. x \in avail
    BY <2>1, <2>2 DEF Start
  <2>4. avail # {} => Min(avail) \in Cluster
    <3>1. avail \in SUBSET Nat /\ avail \subseteq Cluster
      BY Clusters
    <3> HIDE DEF avail
    <3> QED
      BY <3>1, Minimum
  <2>5. b.cluster = IF avail = {} THEN Full ELSE Min(avail)
    BY DEF allocateCluster, Start
  <2> HIDE DEF avail, b
  <2> QED
    BY <2>3, <2>4, <2>5, Clusters
<1>8. CASE linked /\ ~Ends(a.fat, c)
  <2>1. g = [b |-> a, images |-> <<>>, hung |-> TRUE]
    BY <1>1, <1>8
  <2>2. g.b = a /\ g.images = <<>>
    BY <2>1
  <2> QED
    BY <1>3, <2>2
<1>9. CASE ~(linked /\ ~Ends(a.fat, c))
  <2>1. PICK im \in images(b): g = [b |-> b, images |-> im, hung |-> FALSE]
    BY <1>1, <1>9
  <2>2. g.b = b /\ g.images = im
    BY <2>1
  <2>3. im = <<>> \/ \E e: im = <<e>> /\ MarkWritten(c, s, d2, e)
    <3>1. CASE b.cluster # Full
      <4>1. im = <<[d2 EXCEPT !.dir[b.cluster][0] = End]>>
        BY <3>1
      <4> HIDE DEF b, images
      <4>2. MarkWritten(c, s, d2, [d2 EXCEPT !.dir[b.cluster][0] = End])
        BY <1>6, <3>1, MarkWrite
      <4> QED
        BY <4>1, <4>2
    <3>2. CASE b.cluster = Full
      <4>1. im = <<>> \/ \E e \in StaleWrites(d2, c): im = <<e>>
        BY <3>2
      <4>2. ~CanGrow
        BY <1>7, <3>2
      <4>3. ASSUME NEW e \in StaleWrites(d2, c) PROVE MarkWritten(c, s, d2, e)
        BY <4>2, StaleOnes DEF MarkWritten, OnlyEnds
      <4> HIDE DEF b, images
      <4> QED
        BY <4>1, <4>3
    <3> QED
      BY <3>1, <3>2
  <2> QED
    BY <1>5, <2>2, <2>3
<1> QED
  BY <1>8, <1>9

\* A call that adds an entry: the disk after its writes.
Adds(out, c, s, name, kind, a, d1, d2) ==
  /\ a.cluster \in Cluster /\ a.cluster # 0 /\ fat[a.cluster] = 0 /\ a.cluster >= Start(whereClusters)
  /\ a.fat \in Fats /\ a.fat = [fat EXCEPT ![a.cluster] = EOC]
  /\ FatWritten(a, d1) /\ EntryWritten(a, c, s, name, kind, d1, d2)
  /\ AddImages(out.images, c, s, d1, d2) /\ out.ret = a.cluster
\* A call that writes nothing.
Idle(out) == out.images = <<disk>> /\ out.ret \in {-1, 0}

LEMMA AddEntryWrites ==
  ASSUME fat \in Fats, whereClusters \in Hints, whereClusters # 0, disk \in Disks,
         NEW c \in Cluster, NEW s \in Slot,
         NEW name \in Names, NEW kind \in {"file", "dir"}, NEW out \in AddEntry(c, s, name, kind)
  PROVE  /\ out.hint # 0
         /\ Idle(out) \/ \E a, d1, d2: Adds(out, c, s, name, kind, a, d1, d2)
<1> DEFINE a == NewCluster
           d1 == copyFATtoDisk(disk, a.fat)
           slots == WithEndMark([disk.dir[c] EXCEPT ![s] = Live(kind, name, a.cluster)], s)
           d2 == WriteSector(d1, disk, c, s, slots)
           written == CreateWrites(d1, d2)
           d3 == [d2 EXCEPT !.dir[c][s + 1] = End]
<1>1. out \in IF a.cluster = Full THEN {Unchanged(-1)}
              ELSE IF ~LastInSector(s) THEN {Outcome(a.fat, a.hint, written, a.cluster, FALSE)}
              ELSE IF ~LastInCluster(s)
              THEN {Outcome(a.fat, a.hint, Append(written, d3), a.cluster, FALSE)}
              ELSE {Outcome(g.b.fat, g.b.hint, written \o g.images, a.cluster, g.hung):
                    g \in GrowDirectory(c, a, d2)}
  BY DEF AddEntry, NewCluster
<1>2. a = NewCluster
  OBVIOUS
<1> HIDE DEF a
<1>3. CASE a.cluster = Full
  <2>1. out = Unchanged(-1)
    BY <1>1, <1>3
  <2>2. out.images = <<disk>> /\ out.hint = whereClusters /\ out.ret = -1
    BY <2>1 DEF Unchanged, Outcome
  <2> QED
    BY <2>2 DEF Idle
<1>4. CASE a.cluster # Full
  <2>1. /\ a.cluster \in Cluster /\ fat[a.cluster] = 0 /\ a.cluster >= Start(whereClusters)
        /\ a.fat \in Fats /\ a.fat = [fat EXCEPT ![a.cluster] = EOC] /\ a.hint = a.cluster + 1
    BY <1>2, <1>4, FirstTaken
  <2>2. a.cluster # 0 /\ a.hint # 0
    <3>1. a.cluster \in Nat
      BY <2>1, Clusters
    <3> QED
      BY <2>1, <3>1, StartIsACluster
  <2>3. FatWritten(a, d1)
    BY <2>1, FatWrite
  <2> HIDE DEF d1
  <2>10. NewSlots(slots, a, c, s, name, kind) /\ d2 = WriteSector(d1, disk, c, s, slots)
    BY DEF NewSlots
  <2> HIDE DEF slots, d2
  <2>4. EntryWritten(a, c, s, name, kind, d1, d2)
    BY <2>1, <2>3, <2>10, EntryWrite
  <2>5. d1 \in Disks /\ d2 \in Disks
    BY <2>3, <2>4 DEF FatWritten, EntryWritten
  <2>6. ASSUME AddImages(out.images, c, s, d1, d2), out.ret = a.cluster
        PROVE  Adds(out, c, s, name, kind, a, d1, d2)
    BY <2>1, <2>2, <2>3, <2>4, <2>6, Zenon DEF Adds
  <2>7. CASE ~LastInSector(s)
    <3>1. out = Outcome(a.fat, a.hint, written, a.cluster, FALSE)
      BY <1>1, <1>4, <2>7
    <3>2. out.images = written /\ out.ret = a.cluster /\ out.hint = a.hint
      BY <3>1 DEF Outcome
    <3>3. AddImages(written, c, s, d1, d2)
      BY <2>5, ThreeImages
    <3> HIDE DEF written
    <3> QED
      BY <2>2, <2>6, <3>2, <3>3
  <2>8. CASE LastInSector(s) /\ ~LastInCluster(s)
    <3>1. out = Outcome(a.fat, a.hint, Append(written, d3), a.cluster, FALSE)
      BY <1>1, <1>4, <2>8
    <3>2. out.images = Append(written, d3) /\ out.ret = a.cluster /\ out.hint = a.hint
      BY <3>1 DEF Outcome
    <3>3. MarkWritten(c, s, d2, d3)
      BY <2>5, MarkWrite
    <3> HIDE DEF d3
    <3>4. AddImages(Append(written, d3), c, s, d1, d2)
      BY <2>5, <3>3, FourImages
    <3> HIDE DEF written
    <3> QED
      BY <2>2, <2>6, <3>2, <3>4
  <2>9. CASE LastInSector(s) /\ LastInCluster(s)
    <3>1. PICK g \in GrowDirectory(c, a, d2):
            out = Outcome(g.b.fat, g.b.hint, written \o g.images, a.cluster, g.hung)
      BY <1>1, <1>4, <2>9
    <3>2. out.images = written \o g.images /\ out.ret = a.cluster /\ out.hint = g.b.hint
      BY <3>1 DEF Outcome
    <3>3. /\ g.b.hint # 0
          /\ g.images = <<>> \/ \E e: g.images = <<e>> /\ MarkWritten(c, s, d2, e)
      BY <1>2, <1>4, <2>5, GrowthWrites
    <3>4. CASE g.images = <<>>
      <4>1. written \in Seq(Disks) /\ written # <<>>
        BY <2>5, Three DEF CreateWrites
      <4>2. AddImages(written, c, s, d1, d2)
        BY <2>5, ThreeImages
      <4> HIDE DEF written
      <4>3. out.images = written
        BY <3>2, <3>4, <4>1
      <4> QED
        BY <2>6, <3>2, <3>3, <4>2, <4>3
    <3>5. ASSUME NEW e, g.images = <<e>>, MarkWritten(c, s, d2, e)
          PROVE  Adds(out, c, s, name, kind, a, d1, d2)
      <4>1. AddImages(written \o <<e>>, c, s, d1, d2)
        BY <2>5, <3>5, FourImages
      <4> HIDE DEF written
      <4> QED
        BY <2>6, <3>2, <3>5, <4>1
    <3> QED
      BY <3>2, <3>3, <3>4, <3>5
  <2> QED
    BY <2>2, <2>7, <2>8, <2>9
<1> QED
  BY <1>3, <1>4

\* Slot s of cluster c holds the first end mark of the directory at cluster dir.
Chosen(dir, c, s) ==
  /\ dir \in Cluster /\ c \in Cluster /\ s \in EndSlots(disk, c)
  /\ \A t \in EndSlots(disk, c): s <= t
  /\ \E i \in 1..Len(Chain(fat, dir)):
       /\ c = Chain(fat, dir)[i]
       /\ \A j \in 1..i-1: EndSlots(disk, Chain(fat, dir)[j]) = {}

LEMMA CreateSteps ==
  ASSUME fat \in Fats, whereClusters \in Hints, whereClusters # 0, disk \in Disks,
         NEW path, Len(path) \in Nat, NEW name \in Names, NEW kind \in {"file", "dir"},
         NEW out \in createFile(path, name, kind)
  PROVE  /\ out.hint # 0
         /\ \/ Idle(out)
            \/ \E c \in Cluster, s \in Slot: \E a, d1, d2:
                 Chosen(searchFile(disk, fat, path), c, s) /\ Adds(out, c, s, name, kind, a, d1, d2)
<1> DEFINE dirCluster == searchFile(disk, fat, path)
           visited == Chain(fat, dirCluster)
           withEnd == {i \in DOMAIN visited: EndSlots(disk, visited[i]) # {}}
           i == Min(withEnd)
           c == visited[i]
           s == Min(EndSlots(disk, c))
<1>1. out \in IF dirCluster = Diverges THEN {Hang}
              ELSE IF withEnd # {} THEN AddEntry(c, s, name, kind)
              ELSE IF Ends(fat, dirCluster) THEN {Unchanged(-1)} ELSE {Hang}
  BY DEF createFile
<1>2. dirCluster \in Cluster \cup {Diverges}
  BY SearchIsFine
<1>3. /\ Unchanged(-1).hint = whereClusters /\ Idle(Unchanged(-1))
      /\ Hang.hint = whereClusters /\ Idle(Hang)
  BY DEF Unchanged, Hang, Outcome, Idle
<1>4. dirCluster = searchFile(disk, fat, path) /\ visited = Chain(fat, dirCluster)
  OBVIOUS
<1> HIDE DEF dirCluster
<1>5. CASE dirCluster = Diverges
  BY <1>1, <1>3, <1>5
<1>6. CASE dirCluster # Diverges /\ withEnd = {}
  BY <1>1, <1>3, <1>6
<1>7. CASE dirCluster # Diverges /\ withEnd # {}
  <2>1. Path(fat, dirCluster, Cluster, visited)
    <3>1. Closed(fat, Cluster)
      BY LinksLead DEF Closed
    <3> QED
      BY <1>2, <1>7, <3>1, ChainIsPath
  <2>2. visited \in Seq(Cluster)
    BY <2>1 DEF Path
  <2> HIDE DEF visited
  <2>3. \A j \in withEnd: j \in 1..Len(visited) /\ EndSlots(disk, visited[j]) # {}
    BY <2>2
  <2>4. \A j \in 1..Len(visited): EndSlots(disk, visited[j]) # {} => j \in withEnd
    BY <2>2
  <2>5. i \in withEnd /\ \A j \in withEnd: i <= j
    <3>1. withEnd \in SUBSET Nat
      BY <2>2
    <3> HIDE DEF withEnd
    <3> QED
      BY <1>7, <3>1, Minimum
  <2>6. c = visited[i]
    OBVIOUS
  <2> HIDE DEF withEnd, i, c
  <2>7. c \in Cluster /\ EndSlots(disk, c) # {} /\ i \in 1..Len(visited)
    BY <2>2, <2>3, <2>5, <2>6
  <2>8. s \in EndSlots(disk, c) /\ s \in Slot /\ \A t \in EndSlots(disk, c): s <= t
    <3>1. EndSlots(disk, c) \in SUBSET Nat /\ EndSlots(disk, c) \subseteq Slot
      BY SlotsAreNumbers DEF EndSlots
    <3> QED
      BY <2>7, <3>1, Minimum
  <2> HIDE DEF s
  <2>9. \A j \in 1..i-1: EndSlots(disk, visited[j]) = {}
    <3> SUFFICES ASSUME NEW j \in 1..i-1, EndSlots(disk, visited[j]) # {} PROVE FALSE
      OBVIOUS
    <3>1. j \in 1..Len(visited) /\ ~(i <= j)
      BY <2>7
    <3> QED
      BY <2>4, <2>5, <3>1
  <2>10. Chosen(dirCluster, c, s)
    BY <1>2, <1>4, <1>7, <2>6, <2>7, <2>8, <2>9 DEF Chosen
  <2>11. out \in AddEntry(c, s, name, kind)
    BY <1>1, <1>7
  <2>12. out.hint # 0 /\ (Idle(out) \/ \E a, d1, d2: Adds(out, c, s, name, kind, a, d1, d2))
    BY <2>7, <2>8, <2>11, AddEntryWrites
  <2> QED
    BY <1>4, <2>7, <2>8, <2>10, <2>12
<1> QED
  BY <1>5, <1>6, <1>7

\* Every image of a creation names clusters only, if the disk does.
LEMMA AddNames ==
  ASSUME disk \in Disks, NamesClusters(disk), NEW c \in Cluster, NEW s \in Slot, NEW name \in Names,
         NEW kind \in {"file", "dir"}, NEW out, NEW a, NEW d1, NEW d2,
         Adds(out, c, s, name, kind, a, d1, d2)
  PROVE  NamesClusters(d1) /\ NamesClusters(d2) /\ NamesClusters(Last(out.images))
<1>1. NamesClusters(d1)
  BY EntryKinds, Clusters DEF Adds, FatWritten, NamesClusters
<1>2. NamesClusters(d2)
  <2>1. /\ \A x \in Cluster \ {c}: d2.dir[x] = d1.dir[x]
        /\ \A t \in Slot: \/ d2.dir[c][t] = IF t = s THEN Live(kind, name, a.cluster)
                                            ELSE IF t = s + 1 /\ ~LastInSector(s) THEN End
                                            ELSE disk.dir[c][t]
                          \/ d2.dir[c][t] = d1.dir[c][t]
    BY DEF Adds, EntryWritten
  <2>2. Live(kind, name, a.cluster).cluster # 0 /\ ~IsLive(End)
    BY EntryKinds DEF Adds
  <2>3. ASSUME NEW x \in Cluster, NEW t \in Slot, IsLive(d2.dir[x][t]) PROVE d2.dir[x][t].cluster # 0
    <3>1. CASE x = c
      BY <1>1, <2>1, <2>2, <2>3, <3>1 DEF NamesClusters
    <3>2. CASE x # c
      BY <1>1, <2>1, <2>3, <3>2 DEF NamesClusters
    <3> QED
      BY <3>1, <3>2
  <2> QED
    BY <2>3 DEF NamesClusters
<1>3. CASE Last(out.images) = d2
  BY <1>1, <1>2, <1>3
<1>4. CASE MarkWritten(c, s, d2, Last(out.images))
  <2>1. NoEntryMore(d2, Last(out.images))
    BY <1>4, EntryKinds DEF MarkWritten, NoEntryMore
  <2> QED
    BY <1>1, <1>2, <2>1, FewerNames
<1> QED
  BY <1>1, <1>2, <1>3, <1>4 DEF Adds, AddImages

-----------------------------------------------------------------------------
(* deleteFile, write by write *)

\* The clusters that links and entries of allocated clusters can lead to.
Used == InUse(fat) \ {0}
NoCluster0 == fat \in Fats /\ disk \in Disks /\ ReferencesAllocated /\ NamesClusters(disk)
LEMMA UsedIsClosed ==
  ASSUME NoCluster0
  PROVE  /\ DirClosed(disk, fat, Used) /\ RootCluster \in Used
         /\ \A c \in InUse(fat), s \in Slot: IsLive(disk.dir[c][s]) =>
              <<c, s>> \in Entries /\ EntryAtPos(<<c, s>>) = disk.dir[c][s]
<1>0. fat \in Fats /\ disk \in Disks /\ ReferencesAllocated /\ NamesClusters(disk)
  BY DEF NoCluster0
<1>1. RootCluster \in Used
  BY <1>0, Clusters DEF Used, InUse, ReferencesAllocated
<1>2. ASSUME NEW c \in InUse(fat), NEW s \in Slot, IsLive(disk.dir[c][s])
      PROVE  <<c, s>> \in Entries /\ EntryAtPos(<<c, s>>) = disk.dir[c][s]
  BY <1>2 DEF Entries, EntryAtPos, InUse
<1>3. Closed(fat, Used)
  <2>1. ASSUME NEW c \in Used, fat[c] # EOC PROVE fat[c] \in Used
    <3>1. c \in Links /\ fat[c] \in Cluster
      BY <1>0, <2>1, LinksLead DEF Used, InUse, Links
    <3>2. fat[fat[c]] # 0 /\ fat[c] # 0
      BY <1>0, <3>1 DEF ReferencesAllocated, Links
    <3> QED
      BY <3>1, <3>2 DEF Used, InUse
  <2> QED
    BY <2>1 DEF Closed, Used, InUse
<1>4. ASSUME NEW c \in Used, NEW s \in Slot, IsLive(disk.dir[c][s])
      PROVE  disk.dir[c][s].cluster \in Used
  <2>1. c \in InUse(fat) /\ c \in Cluster
    BY DEF Used, InUse
  <2>2. <<c, s>> \in Entries /\ EntryAtPos(<<c, s>>) = disk.dir[c][s]
    BY <1>2, <1>4, <2>1
  <2>3. fat[disk.dir[c][s].cluster] # 0
    BY <1>0, <2>2 DEF ReferencesAllocated
  <2>4. disk.dir[c][s].cluster \in Cluster /\ disk.dir[c][s].cluster # 0
    BY <1>0, <1>4, <2>1, EntryTypes DEF NamesClusters
  <2> QED
    BY <2>3, <2>4 DEF Used, InUse
<1> QED
  BY <1>1, <1>2, <1>3, <1>4 DEF DirClosed

\* What is found from the root, and what its links lead to.
Findable(dir) == \A B: DirClosed(disk, fat, B) /\ RootCluster \in B => dir \in B
InReach(dir, x) == \A B: Closed(fat, B) /\ dir \in B => x \in B
Orderly(dir) == NoCluster0 /\ NamedOnce /\ Findable(dir)

\* The table f after chains of the entries at G were freed.
Freed(f) == {c \in Cluster: fat[c] # 0 /\ f[c] = 0}
Cleared(f, G) ==
  /\ f \in Fats /\ \A c \in Cluster: f[c] = 0 \/ f[c] = fat[c]
  /\ G \subseteq Entries
  /\ \A c \in Freed(f): \/ \E p \in G: EntryAtPos(p).cluster = c
                        \/ \E x \in Freed(f) \cap Links: fat[x] = c

\* What the chain of an entry consists of.
LEMMA ChainOfEntry ==
  ASSUME NEW A, A \subseteq Used, NEW f, Closed(f, A), \A x \in A: f[x] = fat[x], NEW k \in A,
         fat \in Fats
  PROVE  LET D == Range(Chain(f, k))
         IN  k \in D /\ D \subseteq A /\ \A x \in D: x # k => \E y \in D \cap Links: fat[y] = x
<1> DEFINE s == Chain(f, k)
           D == Range(Chain(f, k))
<1>1. Path(f, k, A, s)
  BY ChainIsPath
<1>2. /\ s \in Seq(A) /\ Len(s) \in Nat \ {0} /\ s[1] = k
      /\ \A i \in 1..Len(s): i # Len(s) => f[s[i]] # EOC /\ s[i + 1] = f[s[i]]
  BY <1>1 DEF Path
<1> HIDE DEF s
<1>3. D = {s[i]: i \in 1..Len(s)} /\ \A i \in 1..Len(s): s[i] \in A
  BY <1>2 DEF Range, s
<1> HIDE DEF D
<1>4. k \in D /\ D \subseteq A
  <2>1. 1 \in 1..Len(s)
    BY <1>2
  <2> QED
    BY <1>2, <1>3, <2>1
<1>5. ASSUME NEW x \in D, x # k PROVE \E y \in D \cap Links: fat[y] = x
  <2>1. PICK i \in 1..Len(s): x = s[i]
    BY <1>3
  <2>2. i - 1 \in 1..Len(s) /\ i - 1 # Len(s) /\ (i - 1) + 1 = i
    BY <1>2, <1>5, <2>1
  <2>3. f[s[i - 1]] # EOC /\ x = f[s[i - 1]] /\ s[i - 1] \in D
    BY <1>2, <1>3, <2>1, <2>2
  <2>4. s[i - 1] \in A /\ s[i - 1] \in Cluster /\ fat[s[i - 1]] # 0
    BY <1>4, <2>3 DEF Used, InUse
  <2>5. s[i - 1] \in Links /\ fat[s[i - 1]] = x
    BY <2>3, <2>4 DEF Links
  <2> QED
    BY <2>3, <2>5
<1> QED
  BY <1>4, <1>5 DEF D

\* One entry more is deleted: its chain was nobody else's, and the directory that
\* is scanned is not part of it.
LEMMA OneMoreCleared ==
  ASSUME NEW dir, Orderly(dir), NEW f, NEW G, Cleared(f, G),
         NEW p \in Entries, p \notin G, p[1] \in Used, p[1] \notin Freed(f), InReach(dir, p[1]),
         NEW g, g = deleteFATchain(f, EntryAtPos(p).cluster)
  PROVE  Cleared(g, G \cup {p}) /\ p[1] \notin Freed(g)
<1> DEFINE k == EntryAtPos(p).cluster
           A == Used \ Freed(f)
           D == Range(Chain(f, k))
<1>0. NoCluster0 /\ NamedOnce /\ Findable(dir) /\ fat \in Fats
  BY DEF Orderly, NoCluster0
<1>1. DirClosed(disk, fat, Used) /\ RootCluster \in Used
  BY <1>0, UsedIsClosed
<1>2. p[1] \in Cluster /\ p[2] \in Slot /\ IsLive(disk.dir[p[1]][p[2]])
      /\ k = disk.dir[p[1]][p[2]].cluster
  BY DEF Entries, EntryAtPos
<1>3. k \in Used
  BY <1>1, <1>2 DEF DirClosed
<1>4. k \notin Freed(f)
  BY <1>0 DEF Cleared, NamedOnce
<1>5. f \in Fats /\ (\A x \in A: f[x] = fat[x]) /\ A \subseteq Used
  BY DEF Cleared, Freed, Used, InUse
<1>6. Closed(f, A)
  <2>1. ASSUME NEW x \in A, f[x] # EOC PROVE f[x] \in A
    <3>1. f[x] = fat[x] /\ x \in Used /\ x \in Cluster /\ fat[x] # 0
      BY <1>5 DEF Used, InUse
    <3>2. fat[x] \in Used
      BY <1>1, <2>1, <3>1 DEF DirClosed, Closed
    <3>3. x \in Links
      BY <2>1, <3>1 DEF Links
    <3>4. fat[x] \notin Freed(f)
      BY <1>0, <3>3 DEF Cleared, NamedOnce
    <3> QED
      BY <3>1, <3>2, <3>4
  <2> QED
    BY <2>1 DEF Closed, Used, InUse
<1>7. k \in A
  BY <1>3, <1>4
<1> HIDE DEF A, k
<1>8. k \in D /\ D \subseteq A /\ \A x \in D: x # k => \E y \in D \cap Links: fat[y] = x
  BY <1>0, <1>5, <1>6, <1>7, ChainOfEntry
<1>9. g \in Fats /\ \A x \in Cluster: g[x] = IF x \in D THEN 0 ELSE f[x]
  BY <1>5, Clusters DEF deleteFATchain, Fats, FatValue, k
<1> HIDE DEF D
<1>10. D \subseteq Used
  BY <1>8 DEF A
<1>11. Freed(g) = Freed(f) \cup D
  BY <1>9, <1>10 DEF Freed, Used, InUse
<1>12. Cleared(g, G \cup {p})
  <2>1. \A c \in Cluster: g[c] = 0 \/ g[c] = fat[c]
    BY <1>9 DEF Cleared
  <2>2. G \cup {p} \subseteq Entries
    BY DEF Cleared
  <2>3. ASSUME NEW c \in Freed(g)
        PROVE  \/ \E q \in G \cup {p}: EntryAtPos(q).cluster = c
               \/ \E x \in Freed(g) \cap Links: fat[x] = c
    <3>1. CASE c \in Freed(f)
      BY <1>11, <3>1 DEF Cleared
    <3>2. CASE c \in D
      BY <1>8, <1>11, <3>2 DEF k
    <3> QED
      BY <1>11, <3>1, <3>2
  <2> QED
    BY <1>9, <2>1, <2>2, <2>3 DEF Cleared
<1>13. p[1] \notin D
  <2> SUFFICES ASSUME p[1] \in D PROVE FALSE
    OBVIOUS
  <2> DEFINE B == Used \ D
  <2>1. RootCluster \in B
    BY <1>0, <1>1, <1>8 DEF NamedOnce, k
  <2>2. ASSUME NEW x \in B, fat[x] # EOC PROVE fat[x] \in B
    <3>1. fat[x] \in Used /\ x \in Links
      BY <1>1, <2>2 DEF DirClosed, Closed, Links, Used, InUse
    <3>2. fat[x] \notin D
      BY <1>0, <1>8, <3>1 DEF NamedOnce, k
    <3> QED
      BY <3>1, <3>2
  <2>3. ASSUME NEW x \in B, NEW t \in Slot, IsLive(disk.dir[x][t]) PROVE disk.dir[x][t].cluster \in B
    <3>1. disk.dir[x][t].cluster \in Used
      BY <1>1, <2>3 DEF DirClosed
    <3>2. x \in InUse(fat)
      BY DEF Used
    <3>3. <<x, t>> \in Entries /\ EntryAtPos(<<x, t>>) = disk.dir[x][t]
      BY <1>0, <2>3, <3>2, UsedIsClosed
    <3>4. <<x, t>> # p
      <4>1. <<x, t>>[1] = x /\ x \notin D
        OBVIOUS
      <4> QED
        BY <4>1
    <3>5. EntryAtPos(<<x, t>>).cluster \notin D
      BY <1>0, <1>8, <3>3, <3>4 DEF NamedOnce, k
    <3> QED
      BY <3>1, <3>3, <3>5
  <2>4. B \subseteq Cluster
    BY DEF Used, InUse
  <2> HIDE DEF B
  <2>5. Closed(fat, B) /\ DirClosed(disk, fat, B)
    BY <2>2, <2>3, <2>4 DEF Closed, DirClosed
  <2>6. p[1] \in B
    BY <1>0, <2>1, <2>5 DEF Findable, InReach
  <2> QED
    BY <2>6 DEF B
<1> QED
  BY <1>11, <1>12, <1>13

\* A disk on which at most entries of the name point to a free cluster.
Harmless(d, name) ==
  \A c \in Cluster, s \in Slot:
    d.fat[c] # 0 /\ IsLive(d.dir[c][s]) /\ d.fat[d.dir[c][s].cluster] = 0 => d.dir[c][s].name = name
Named(G, name) == \A p \in G: EntryAtPos(p).name = name
LEMMA ClearedIsHarmless ==
  ASSUME NoCluster0, NamedOnce, NEW f, NEW G, Cleared(f, G), NEW name, Named(G, name),
         NEW d \in Disks, d.fat = f, NoEntryMore(disk, d)
  PROVE  Harmless(d, name)
<1> SUFFICES ASSUME NEW c \in Cluster, NEW s \in Slot, f[c] # 0, IsLive(d.dir[c][s]),
                    f[d.dir[c][s].cluster] = 0
             PROVE  d.dir[c][s].name = name
  BY DEF Harmless
<1> DEFINE k == d.dir[c][s].cluster
           p == <<c, s>>
<1>1. c \in InUse(fat) /\ k \in Cluster
  BY EntryTypes DEF Cleared, InUse
<1>2. d.dir[c][s] = disk.dir[c][s] /\ IsLive(disk.dir[c][s])
  BY DEF NoEntryMore
<1>3. p \in Entries /\ EntryAtPos(p) = disk.dir[c][s]
  BY <1>1, <1>2, UsedIsClosed
<1>4. fat[k] # 0
  BY <1>2, <1>3 DEF NoCluster0, ReferencesAllocated
<1>5. k \in Freed(f)
  BY <1>1, <1>4 DEF Freed
<1> HIDE DEF p
<1>6. \E q \in G: EntryAtPos(q).cluster = k
  BY <1>2, <1>3, <1>5 DEF Cleared, NamedOnce
<1>7. p \in G
  BY <1>2, <1>3, <1>6 DEF Cleared, NamedOnce
<1> QED
  BY <1>2, <1>3, <1>7 DEF Named

\* The scan of a directory, after the entries at G were deleted: every disk it has
\* written is harmless, and it has not freed the cluster it is in.
Deleting(st, name, dir, G) ==
  /\ Cleared(st.fat, G) /\ Named(G, name)
  /\ \A p \in G: ~IsLive(Last(st.images).dir[p[1]][p[2]])
  /\ st.at # EOC => st.at \in Used /\ st.at \notin Freed(st.fat) /\ InReach(dir, st.at)
  /\ \A i \in 2..Len(st.images): Harmless(st.images[i], name)
Tracked(st, name, dir) ==
  /\ st \in ScanState /\ NoEntryMore(disk, st.buf)
  /\ \A i \in 1..Len(st.images): NoEntryMore(disk, st.images[i])
  /\ Orderly(dir) => \E G: Deleting(st, name, dir, G)
InCluster(st, c) == st.at = c /\ InBuffer(st, c)

LEMMA TwoMore ==
  ASSUME NEW S, NEW q \in Seq(S), NEW x \in S, NEW y \in S, NEW r, r = q \o <<x, y>>
  PROVE  /\ Len(r) = Len(q) + 2 /\ Len(q) \in Nat
         /\ \A i \in 1..Len(q): r[i] = q[i]
         /\ r[Len(q) + 1] = x /\ r[Len(q) + 2] = y
OBVIOUS

\* The images of the two sector writes.
LEMMA BothWrites ==
  ASSUME NEW d \in Disks, NoEntryMore(disk, d), NEW f \in Fats, NEW buf \in Disks, NEW c \in Cluster,
         buf.dir[c] = d.dir[c], NEW s \in Slot, NEW slots, slots = [buf.dir[c] EXCEPT ![s] = Deleted],
         NEW d1, d1 = copyFATtoDisk(d, f), NEW d2, d2 = WriteSector(d1, buf, c, s, slots)
  PROVE  /\ d1 \in Disks /\ d2 \in Disks /\ SlotsOf(c, d2.dir[c])
         /\ NoEntryMore(d, d1) /\ NoEntryMore(d, d2)
         /\ d1.fat = f /\ (c # 0 => d2.fat = f)
         /\ ~IsLive(d2.dir[c][s])
<1>1. SlotsOf(c, buf.dir[c]) /\ SlotSet(buf.dir[c], s, Deleted, slots)
  BY SlotsOfDisk DEF SlotSet
<1>2. SlotNow(c, buf.dir[c], s, Deleted, slots)
  BY <1>1, EntryKinds, SlotWritten
<1>3. /\ SlotsPut(d, 0, FatSector(d.dir[0]), d1)
      /\ \A t \in Slot: \/ FatSector(d.dir[0])[t] = Words
                        \/ FatSector(d.dir[0])[t] = d.dir[0][t]
  BY CopiedFat
<1>4. d1 \in Disks /\ SlotsOf(c, slots)
  BY <1>2, <1>3 DEF SlotsPut, SlotNow
<1>11. SectorPut(d1, c, s, slots, d2)
  BY <1>4, WrittenSector
<1>5. SectorPut(d1, c, s, slots, d2) /\ SlotsPut(d1, c, d2.dir[c], d2)
  BY <1>11 DEF SectorPut
<1>6. NoEntryMore(d, d1)
  <2>1. ASSUME NEW x \in Cluster, NEW t \in Slot, IsLive(d1.dir[x][t]) PROVE d1.dir[x][t] = d.dir[x][t]
    <3>1. CASE x = 0
      BY <1>3, <2>1, <3>1, EntryKinds DEF SlotsPut
    <3>2. CASE x # 0
      BY <1>3, <3>2 DEF SlotsPut
    <3> QED
      BY <3>1, <3>2
  <2> QED
    BY <2>1 DEF NoEntryMore
<1>7. \A t \in Slot: \/ d2.dir[c][t] = IF t = s THEN Deleted ELSE d.dir[c][t]
                     \/ t # s /\ d2.dir[c][t] = d1.dir[c][t]
  BY <1>2, <1>5 DEF SectorPut, SlotNow
<1>8. NoEntryMore(d, d2)
  <2>1. ASSUME NEW x \in Cluster, NEW t \in Slot, IsLive(d2.dir[x][t]) PROVE d2.dir[x][t] = d.dir[x][t]
    <3>1. CASE x = c
      BY <1>6, <1>7, <2>1, <3>1, EntryKinds DEF NoEntryMore
    <3>2. CASE x # c
      <4>1. d2.dir[x] = d1.dir[x]
        BY <1>5, <3>2 DEF SlotsPut
      <4> QED
        BY <1>6, <2>1, <4>1 DEF NoEntryMore
    <3> QED
      BY <3>1, <3>2
  <2> QED
    BY <2>1 DEF NoEntryMore
<1>9. d1.fat = f
  BY DEF copyFATtoDisk, Disks
<1>10. c # 0 => d2.fat = f
  BY <1>5, <1>9 DEF SectorPut
<1> QED
  BY <1>4, <1>5, <1>6, <1>7, <1>8, <1>9, <1>10, EntryKinds DEF SlotsPut, SectorPut

LEMMA StillFewer ==
  ASSUME NEW a, NEW b, NEW e, NoEntryMore(a, b), NoEntryMore(b, e)
  PROVE  NoEntryMore(a, e)
BY DEF NoEntryMore

LEMMA DeleteEntryTracked ==
  ASSUME NEW st, NEW name, NEW dir, Tracked(st, name, dir), NEW c \in Cluster, InCluster(st, c),
         NEW s \in Slot, IsLive(st.buf.dir[c][s]), st.buf.dir[c][s].name = name
  PROVE  LET new == DeleteEntry(st, c, s) IN Tracked(new, name, dir) /\ InCluster(new, c)
<1> DEFINE head == st.buf.dir[c][s].cluster
           f == deleteFATchain(st.fat, head)
           slots == [st.buf.dir[c] EXCEPT ![s] = Deleted]
           d == Last(st.images)
           d1 == copyFATtoDisk(d, f)
           d2 == WriteSector(d1, st.buf, c, s, slots)
           new == DeleteEntry(st, c, s)
<1>1. new = IF ~Ends(st.fat, head) THEN [st EXCEPT !.hung = TRUE]
            ELSE [st EXCEPT !.fat = f, !.images = @ \o <<d1, d2>>, !.buf.dir[c] = d2.dir[c]]
  BY DEF DeleteEntry
<1>2. /\ st \in ScanState /\ st.fat \in Fats /\ st.buf \in Disks
      /\ st.images \in Seq(Disks) /\ st.images # <<>>
  BY DEF Tracked, ScanState
<1>3. d \in Disks /\ d = st.images[Len(st.images)] /\ Len(st.images) \in 1..Len(st.images)
      /\ Len(st.images) \in Nat
  BY <1>2 DEF Last
<1>4. f \in Fats /\ f = deleteFATchain(st.fat, head)
  BY <1>2, Clusters DEF deleteFATchain, Fats, FatValue
<1>5. NoEntryMore(disk, d) /\ st.buf.dir[c] = d.dir[c] /\ st.at = c
  BY <1>3 DEF Tracked, InCluster, InBuffer
<1>6. slots = [st.buf.dir[c] EXCEPT ![s] = Deleted] /\ d1 = copyFATtoDisk(d, f)
      /\ d2 = WriteSector(d1, st.buf, c, s, slots)
  OBVIOUS
<1>16. d = Last(st.images) /\ head = st.buf.dir[c][s].cluster
  OBVIOUS
<1> HIDE DEF new, d, f, slots, d1, d2, head
<1>7. /\ d1 \in Disks /\ d2 \in Disks /\ SlotsOf(c, d2.dir[c])
      /\ NoEntryMore(d, d1) /\ NoEntryMore(d, d2)
      /\ d1.fat = f /\ (c # 0 => d2.fat = f)
      /\ ~IsLive(d2.dir[c][s])
  BY <1>2, <1>3, <1>4, <1>5, <1>6, BothWrites
<1>8. CASE ~Ends(st.fat, head)
  <2>1. new = [st EXCEPT !.hung = TRUE]
    BY <1>1, <1>8
  <2>2. /\ new \in ScanState /\ new.fat = st.fat /\ new.buf = st.buf /\ new.images = st.images
        /\ new.at = st.at
    BY <1>2, <2>1 DEF ScanState
  <2>3. Tracked(new, name, dir)
    BY <2>2 DEF Tracked, Deleting
  <2>4. InCluster(new, c)
    BY <2>2 DEF InCluster, InBuffer
  <2> QED
    BY <2>3, <2>4 DEF new
<1>9. CASE Ends(st.fat, head)
  <2>1. EntryGone(st, f, d1, d2, c, d2.dir[c], new)
    BY <1>1, <1>9 DEF EntryGone
  <2>2. /\ new \in ScanState /\ new.fat = f /\ Last(new.images) = d2 /\ new.buf.dir[c] = d2.dir[c]
        /\ new.at = st.at
    BY <1>2, <1>4, <1>7, <2>1, Deletion
  <2>3. new.images = st.images \o <<d1, d2>> /\ \A x \in Cluster \ {c}: new.buf.dir[x] = st.buf.dir[x]
    BY <1>2, <2>1 DEF EntryGone, ScanState, Disks
  <2>4. /\ Len(new.images) = Len(st.images) + 2
        /\ \A i \in 1..Len(st.images): new.images[i] = st.images[i]
        /\ new.images[Len(st.images) + 1] = d1 /\ new.images[Len(st.images) + 2] = d2
    BY <1>2, <1>7, <2>3, TwoMore
  <2>5. NoEntryMore(disk, d1) /\ NoEntryMore(disk, d2)
    BY <1>5, <1>7, StillFewer
  <2>6. ASSUME NEW i \in 1..Len(new.images) PROVE NoEntryMore(disk, new.images[i])
    <3>1. i \in 1..Len(st.images) \/ i = Len(st.images) + 1 \/ i = Len(st.images) + 2
      BY <1>3, <2>4
    <3> QED
      BY <2>4, <2>5, <3>1 DEF Tracked
  <2>7. NoEntryMore(disk, new.buf)
    <3>1. \A x \in Cluster: new.buf.dir[x] = IF x = c THEN d2.dir[c] ELSE st.buf.dir[x]
      BY <1>7, <2>2, <2>3
    <3> QED
      BY <2>5, <3>1 DEF Tracked, NoEntryMore
  <2>8. ASSUME Orderly(dir), NEW G, Deleting(st, name, dir, G)
        PROVE  \E H: Deleting(new, name, dir, H)
    <3> DEFINE p == <<c, s>>
               H == G \cup {p}
    <3>1. /\ Cleared(st.fat, G) /\ Named(G, name)
          /\ \A q \in G: ~IsLive(d.dir[q[1]][q[2]])
          /\ c \in Used /\ c \notin Freed(st.fat) /\ InReach(dir, c)
          /\ \A i \in 2..Len(st.images): Harmless(st.images[i], name)
      BY <1>5, <1>16, <2>8, Clusters DEF Deleting
    <3>2. IsLive(d.dir[c][s]) /\ d.dir[c][s].name = name /\ d.dir[c][s].cluster = head
      BY <1>5, <1>16
    <3>3. disk.dir[c][s] = d.dir[c][s]
      BY <1>5, <3>2 DEF NoEntryMore
    <3>4. NoCluster0 /\ NamedOnce /\ c \in InUse(fat)
      BY <2>8, <3>1 DEF Orderly, Used
    <3>5. p \in Entries /\ EntryAtPos(p) = disk.dir[c][s] /\ p[1] = c /\ p[2] = s
      BY <3>2, <3>3, <3>4, UsedIsClosed
    <3> HIDE DEF p
    <3>6. p \notin G
      BY <3>1, <3>2, <3>5
    <3>7. Cleared(f, H) /\ p[1] \notin Freed(f)
      <4>1. f = deleteFATchain(st.fat, EntryAtPos(p).cluster)
        BY <1>4, <3>2, <3>3, <3>5
      <4>2. p[1] \in Used /\ p[1] \notin Freed(st.fat) /\ InReach(dir, p[1])
        BY <3>1, <3>5
      <4> QED
        BY <2>8, <3>1, <3>5, <3>6, <4>1, <4>2, OneMoreCleared
    <3>8. Named(H, name)
      BY <3>1, <3>2, <3>3, <3>5 DEF Named
    <3>9. \A q \in H: ~IsLive(d2.dir[q[1]][q[2]])
      <4>1. \A q \in G: q[1] \in Cluster /\ q[2] \in Slot
        BY <3>1 DEF Cleared, Entries
      <4>2. \A q \in G: IsLive(d2.dir[q[1]][q[2]]) => d2.dir[q[1]][q[2]] = d.dir[q[1]][q[2]]
        BY <1>7, <4>1 DEF NoEntryMore
      <4> QED
        BY <1>7, <3>1, <3>5, <4>2
    <3> HIDE DEF H
    <3>10. c # 0
      BY <3>1 DEF Used
    <3>11. Harmless(d1, name) /\ Harmless(d2, name)
      BY <1>7, <2>5, <3>4, <3>7, <3>8, <3>10, ClearedIsHarmless
    <3>12. ASSUME NEW i \in 2..Len(new.images) PROVE Harmless(new.images[i], name)
      <4>1. i \in 2..Len(st.images) \/ i = Len(st.images) + 1 \/ i = Len(st.images) + 2
        BY <1>3, <2>4
      <4>2. 2..Len(st.images) \subseteq 1..Len(st.images)
        BY <1>3
      <4> QED
        BY <2>4, <3>1, <3>11, <4>1, <4>2
    <3>13. Deleting(new, name, dir, H)
      BY <1>5, <2>2, <3>1, <3>5, <3>7, <3>8, <3>9, <3>12 DEF Deleting
    <3> QED
      BY <3>13
  <2>9. Tracked(new, name, dir)
    <3>1. Orderly(dir) => \E H: Deleting(new, name, dir, H)
      BY <2>8 DEF Tracked
    <3> QED
      BY <2>2, <2>6, <2>7, <3>1 DEF Tracked
  <2>10. InCluster(new, c)
    BY <1>5, <1>7, <2>2 DEF InCluster, InBuffer
  <2> QED
    BY <2>9, <2>10 DEF new
<1> QED
  BY <1>8, <1>9

LEMMA ScanSlotTracked ==
  ASSUME NEW st, NEW name, NEW dir, Tracked(st, name, dir), NEW c \in Cluster, InCluster(st, c),
         NEW s \in Slot, NEW new, new = ScanSlot(st, c, s, name)
  PROVE  Tracked(new, name, dir) /\ InCluster(new, c)
<1> DEFINE e == EntryAt(st.buf, c, s)
<1>1. new = IF st.ret = NotFound \/ st.hung THEN st
            ELSE IF e.kind = "end" THEN [st EXCEPT !.ret = NotFound]
            ELSE IF IsLive(e) /\ e.name = name THEN DeleteEntry(st, c, s)
            ELSE st
  BY DEF ScanSlot
<1>2. IsLive(e) => IsLive(st.buf.dir[c][s]) /\ e = st.buf.dir[c][s]
  BY LiveEntry
<1> HIDE DEF e
<1>3. CASE new = st
  BY <1>3
<1>4. CASE new = [st EXCEPT !.ret = NotFound]
  <2>1. /\ new \in ScanState /\ new.fat = st.fat /\ new.buf = st.buf /\ new.images = st.images
        /\ new.at = st.at
    BY <1>4 DEF Tracked, ScanState
  <2>2. Tracked(new, name, dir)
    BY <2>1 DEF Tracked, Deleting
  <2> QED
    BY <2>1, <2>2 DEF InCluster, InBuffer
<1>5. CASE IsLive(e) /\ e.name = name /\ new = DeleteEntry(st, c, s)
  BY <1>2, <1>5, DeleteEntryTracked
<1> QED
  BY <1>1, <1>3, <1>4, <1>5

\* From a cluster that is not freed the scan goes on to one that is not freed.
LEMMA NextTracked ==
  ASSUME NEW dir, Orderly(dir), NEW f, NEW G, Cleared(f, G),
         NEW c, c \in Used, c \notin Freed(f), InReach(dir, c), f[c] # EOC
  PROVE  f[c] \in Used /\ f[c] \notin Freed(f) /\ InReach(dir, f[c])
<1>0. NoCluster0 /\ NamedOnce
  BY DEF Orderly
<1>1. c \in Cluster /\ f[c] = fat[c] /\ fat[c] # 0
  BY DEF Cleared, Freed, Used, InUse
<1>2. DirClosed(disk, fat, Used)
  BY <1>0, UsedIsClosed
<1>3. fat[c] \in Used /\ c \in Links
  BY <1>1, <1>2 DEF DirClosed, Closed, Links
<1>4. fat[c] \notin Freed(f)
  BY <1>0, <1>3 DEF Cleared, NamedOnce
<1>5. InReach(dir, fat[c])
  BY <1>1 DEF InReach, Closed
<1> QED
  BY <1>1, <1>3, <1>4, <1>5

LEMMA ScanClusterTracked ==
  ASSUME NEW st, NEW name, NEW dir, Tracked(st, name, dir), st.at \in Cluster
  PROVE  Tracked(ScanCluster(st, name), name, dir)
<1> DEFINE N == Cardinality(Slot)
           c == st.at
           start == [st EXCEPT !.buf = Last(st.images)]
<1>0. N \in Nat /\ \A k \in 1..N: k - 1 \in Slot /\ k - 1 \in 0..N
  BY SlotCount
<1>1. PICK upTo: /\ ScanLoop(st, name, N, upTo)
                 /\ ScanCluster(st, name) = [upTo[N] EXCEPT !.at = upTo[N].fat[c]]
  <2> DEFINE g == CHOOSE upTo: ScanLoop(st, name, N, upTo)
  <2>1. ScanLoop(st, name, N, g)
    BY <1>0, ScanLoops
  <2>2. ScanCluster(st, name) = [g[N] EXCEPT !.at = g[N].fat[c]]
    BY DEF ScanCluster, ScanLoop, ScanRow
  <2> QED
    BY <2>1, <2>2
<1> HIDE DEF N
<1>2. st \in ScanState /\ st.images \in Seq(Disks) /\ st.images # <<>>
  BY DEF Tracked, ScanState
<1>3. Tracked(start, name, dir) /\ InCluster(start, c)
  <2>1. Last(st.images) \in Disks /\ NoEntryMore(disk, Last(st.images))
    BY <1>2 DEF Last, Tracked
  <2>2. /\ start \in ScanState /\ start.at = c /\ start.buf = Last(st.images)
        /\ start.fat = st.fat /\ start.images = st.images
    BY <1>2, <2>1 DEF ScanState
  <2>3. c = st.at
    OBVIOUS
  <2> HIDE DEF start, c
  <2>4. Tracked(start, name, dir)
    BY <2>1, <2>2, <2>3 DEF Tracked, Deleting
  <2> QED
    BY <2>2, <2>4 DEF InCluster, InBuffer
<1> DEFINE Good(k) == Tracked(upTo[k], name, dir) /\ InCluster(upTo[k], c)
           P == {k \in 0..N: Good(k)}
<1>4. 0 \in P
  <2>1. 0 \in 0..N
    BY <1>0
  <2>2. upTo[0] = start
    BY <1>1, <2>1 DEF ScanLoop, ScanRow
  <2> HIDE DEF start
  <2> QED
    BY <1>3, <2>1, <2>2
<1>5. ASSUME NEW k \in 0..N, k # N, k \in P PROVE k + 1 \in P
  <2>1. /\ k + 1 \in 0..N /\ k + 1 # 0 /\ (k + 1) - 1 = k /\ k + 1 \in 1..N
    BY <1>0, <1>5
  <2>2. k \in Slot
    BY <1>0, <2>1
  <2>3. upTo[k + 1] = ScanSlot(upTo[k], c, k, name)
    <3>1. upTo[k + 1] = ScanRow(st, name, k + 1, upTo[(k + 1) - 1])
      BY <1>1, <2>1 DEF ScanLoop
    <3> QED
      BY <2>1, <3>1 DEF ScanRow
  <2>4. Good(k)
    BY <1>5
  <2> HIDE DEF c
  <2>5. Good(k + 1)
    <3>1. c \in Cluster
      BY DEF c
    <3> QED
      BY <2>2, <2>3, <2>4, <3>1, ScanSlotTracked
  <2> QED
    BY <2>1, <2>5
<1>6. Good(N)
  <2> HIDE DEF P
  <2>1. 0..N \subseteq P
    BY <1>0, <1>4, <1>5, CountUpTo
  <2> QED
    BY <1>0, <2>1 DEF P
<1> DEFINE end == upTo[N]
           new == [end EXCEPT !.at = end.fat[c]]
<1>7. Tracked(end, name, dir) /\ end.at = c /\ c \in Cluster
  BY <1>6 DEF InCluster
<1>8. ScanCluster(st, name) = new
  BY <1>1
<1>11. end \in ScanState /\ end.fat[c] \in FatValue
  BY <1>7 DEF Tracked, ScanState, Fats
<1> HIDE DEF end, c
<1>9. /\ new \in ScanState /\ new.at = end.fat[c] /\ new.fat = end.fat
      /\ new.images = end.images /\ new.buf = end.buf
  BY <1>11 DEF ScanState
<1> HIDE DEF new
<1>10. ASSUME Orderly(dir), NEW G, Deleting(end, name, dir, G) PROVE Deleting(new, name, dir, G)
  <2>1. Cleared(end.fat, G) /\ c \in Used /\ c \notin Freed(end.fat) /\ InReach(dir, c)
    BY <1>7, <1>10, Clusters DEF Deleting
  <2>2. new.at # EOC => new.at \in Used /\ new.at \notin Freed(new.fat) /\ InReach(dir, new.at)
    BY <1>9, <1>10, <2>1, NextTracked
  <2> QED
    BY <1>9, <1>10, <2>2 DEF Deleting
<1>12. Tracked(new, name, dir)
  BY <1>7, <1>9, <1>10 DEF Tracked
<1> QED
  BY <1>8, <1>12

\* What a deletion leaves behind, at any point.
Deletes(out, name, dir) ==
  /\ out.hint = whereClusters /\ out.images \in Seq(Disks) /\ out.images # <<>>
  /\ \A i \in 1..Len(out.images): NoEntryMore(disk, out.images[i])
  /\ Orderly(dir) => \A i \in 2..Len(out.images): Harmless(out.images[i], name)

LEMMA DeleteSteps ==
  ASSUME fat \in Fats, disk \in Disks, NEW path, Len(path) \in Nat, NEW name
  PROVE  Deletes(deleteFile(path, name), name, searchFile(disk, fat, path))
<1> DEFINE dirCluster == searchFile(disk, fat, path)
           start == [fat |-> fat, buf |-> disk, images |-> <<disk>>, ret |-> 0,
                     hung |-> FALSE, at |-> dirCluster]
           out == deleteFile(path, name)
<1>0. FatSize \in Nat
  BY Clusters
<1>1. PICK visit: /\ VisitLoop(start, name, FatSize, visit)
                  /\ out = IF dirCluster = Diverges THEN Hang
                           ELSE Outcome(visit[FatSize].fat, whereClusters, visit[FatSize].images,
                                    visit[FatSize].ret,
                                    visit[FatSize].hung \/ (visit[FatSize].ret # NotFound
                                                            /\ visit[FatSize].at # EOC))
  <2> DEFINE g == CHOOSE visit: VisitLoop(start, name, FatSize, visit)
  <2>1. VisitLoop(start, name, FatSize, g)
    BY <1>0, VisitLoops
  <2>2. out =
          IF dirCluster = Diverges THEN Hang
          ELSE Outcome(g[FatSize].fat, whereClusters, g[FatSize].images, g[FatSize].ret,
                       g[FatSize].hung \/ (g[FatSize].ret # NotFound /\ g[FatSize].at # EOC))
    BY DEF deleteFile, VisitLoop, VisitRow, Stopped
  <2> QED
    BY <2>1, <2>2
<1>2. dirCluster \in Cluster \cup {Diverges}
  BY SearchIsFine
<1>3. dirCluster = searchFile(disk, fat, path)
  OBVIOUS
<1>4. <<disk>> \in Seq(Disks) /\ <<disk>> # <<>> /\ Last(<<disk>>) = disk
      /\ Len(<<disk>>) = 1 /\ <<disk>>[1] = disk /\ NoEntryMore(disk, disk)
  BY DEF Last, NoEntryMore
<1> HIDE DEF dirCluster, out
<1>5. CASE dirCluster = Diverges
  <2>1. out.hint = whereClusters /\ out.images = <<disk>>
    BY <1>1, <1>5 DEF Hang, Outcome
  <2> DEFINE im == <<disk>>
  <2>2. im \in Seq(Disks) /\ im # <<>> /\ Len(im) = 1 /\ im[1] = disk /\ out.images = im
    BY <1>4, <2>1
  <2> HIDE DEF im
  <2>3. Deletes(out, name, dirCluster)
    BY <1>4, <2>1, <2>2 DEF Deletes
  <2> QED
    BY <2>3 DEF dirCluster, out
<1>6. CASE dirCluster # Diverges
  <2>1. dirCluster \in Cluster /\ dirCluster # EOC /\ dirCluster \in FatValue
    BY <1>2, <1>6, Clusters DEF FatValue
  <2>2. /\ start \in ScanState /\ start.at = dirCluster /\ start.fat = fat
        /\ start.images = <<disk>> /\ start.buf = disk
    BY <1>4, <2>1 DEF ScanState
  <2> HIDE DEF start
  <2>3. Tracked(start, name, dirCluster)
    <3>1. ASSUME Orderly(dirCluster) PROVE Deleting(start, name, dirCluster, {})
      <4>1. Freed(fat) = {} /\ Cleared(fat, {}) /\ Named({}, name)
        BY DEF Freed, Cleared, Named
      <4>2. dirCluster \in Used
        BY <3>1, UsedIsClosed DEF Orderly, Findable
      <4>3. InReach(dirCluster, dirCluster)
        BY DEF InReach
      <4>4. \A i \in 2..Len(start.images): Harmless(start.images[i], name)
        BY <1>4, <2>2
      <4> QED
        BY <2>2, <4>1, <4>2, <4>3, <4>4 DEF Deleting
    <3> QED
      BY <1>4, <2>2, <3>1 DEF Tracked
  <2> DEFINE Good(k) == Tracked(visit[k], name, dirCluster)
             P == {k \in 0..FatSize: Good(k)}
  <2>4. 0 \in P
    <3>1. 0 \in 0..FatSize
      BY <1>0
    <3>2. visit[0] = start
      BY <1>1, <3>1 DEF VisitLoop, VisitRow
    <3> QED
      BY <2>3, <3>1, <3>2
  <2>5. ASSUME NEW k \in 0..FatSize, k # FatSize, k \in P PROVE k + 1 \in P
    <3>1. k + 1 \in 0..FatSize /\ k + 1 # 0 /\ (k + 1) - 1 = k /\ k \in Nat
      BY <1>0, <2>5
    <3>2. Good(k)
      BY <2>5
    <3> DEFINE st == visit[k]
               new == visit[k + 1]
    <3>3. new = IF Stopped(st) THEN st ELSE ScanCluster(st, name)
      <4>1. visit[k + 1] = VisitRow(start, name, k + 1, visit[(k + 1) - 1])
        BY <1>1, <3>1 DEF VisitLoop
      <4> QED
        BY <3>1, <4>1 DEF VisitRow
    <3>4. ~Stopped(st) => st.at \in Cluster
      BY <3>2 DEF Stopped, Tracked, ScanState, FatValue
    <3> HIDE DEF st, new
    <3>5. Tracked(new, name, dirCluster)
      BY <3>2, <3>3, <3>4, ScanClusterTracked DEF st
    <3> QED
      BY <3>1, <3>5 DEF new
  <2>6. Good(FatSize)
    <3> HIDE DEF P
    <3>1. 0..FatSize \subseteq P
      BY <1>0, <2>4, <2>5, CountUpTo
    <3> QED
      BY <1>0, <3>1 DEF P
  <2> DEFINE done == visit[FatSize]
             stuck == done.hung \/ (done.ret # NotFound /\ done.at # EOC)
  <2>7. out = Outcome(done.fat, whereClusters, done.images, done.ret, stuck)
    BY <1>1, <1>6
  <2>8. Tracked(done, name, dirCluster)
    BY <2>6
  <2> HIDE DEF done, stuck
  <2>9. out.hint = whereClusters /\ out.images = done.images
    BY <2>7 DEF Outcome
  <2>10. done.images \in Seq(Disks) /\ done.images # <<>>
    BY <2>8 DEF Tracked, ScanState
  <2>11. Deletes(out, name, dirCluster)
    BY <2>8, <2>9, <2>10 DEF Deletes, Tracked, Deleting
  <2> QED
    BY <2>11 DEF dirCluster, out
<1> QED
  BY <1>5, <1>6

-----------------------------------------------------------------------------
(***************************************************************************)
(* What holds in every session besides the types: nothing names cluster 0, *)
(* where the FAT region is.  The hint on disk must not name it either.     *)
(***************************************************************************)

NamesInv == whereClusters # 0 /\ NamesClusters(disk)

LEMMA NamesAfterReset ==
  ASSUME 0 \notin DiskHints, NEW d, NamesClusters(d), NEW call, Reset(d, call)
  PROVE  NamesInv'
<1>1. disk' = d /\ whereClusters' \in DiskHints
  BY DEF Reset, initializeFAT
<1>2. NamesClusters(disk')
  BY <1>1
<1> QED
  BY <1>1, <1>2 DEF NamesInv, NamesClusters

LEMMA NamesInit == ASSUME 0 \notin DiskHints PROVE Init => NamesInv
<1> SUFFICES ASSUME Init PROVE NamesInv
  OBVIOUS
<1>1. whereClusters # 0 /\ disk = ImageDisk
  BY DEF Init
<1>2. Dir1Cluster # 0 /\ File0Cluster # 0
  BY GeometryAssumption DEF Dir1Cluster, File0Cluster
<1>3. \A c \in Cluster, s \in Slot: IsLive(disk.dir[c][s]) => disk.dir[c][s].cluster # 0
  BY <1>1, <1>2, ImageEntries
<1> QED
  BY <1>1, <1>3 DEF NamesInv, NamesClusters

\* The images a reset inside a creation can leave.
CrashLeaves(d, path, name, kind, out) ==
  \E c \in Cluster, s \in Slot: \E a, d1, d2:
    /\ Chosen(searchFile(disk, fat, path), c, s) /\ Adds(out, c, s, name, kind, a, d1, d2)
    /\ d = d1 \/ d = d2
LEMMA CrashImages ==
  ASSUME fat \in Fats, whereClusters \in Hints, disk \in Disks, NamesInv,
         NEW path, Len(path) \in Nat, NEW name \in Names, NEW kind \in {"file", "dir"},
         NEW out \in createFile(path, name, kind), NEW i \in 2..Len(out.images)-1
  PROVE  CrashLeaves(out.images[i], path, name, kind, out)
<1>1. \/ Idle(out)
      \/ \E c \in Cluster, s \in Slot: \E a, d1, d2:
           Chosen(searchFile(disk, fat, path), c, s) /\ Adds(out, c, s, name, kind, a, d1, d2)
  BY CreateSteps DEF NamesInv
<1>2. ~Idle(out)
  <2> SUFFICES ASSUME Idle(out) PROVE FALSE
    OBVIOUS
  <2>1. Len(out.images) = 1
    BY DEF Idle
  <2> QED
    BY <2>1
<1>7. PICK c \in Cluster, s \in Slot: \E a, d1, d2:
        Chosen(searchFile(disk, fat, path), c, s) /\ Adds(out, c, s, name, kind, a, d1, d2)
  BY <1>1, <1>2
<1>3. PICK a, d1, d2:
        /\ c \in Cluster /\ s \in Slot
        /\ Chosen(searchFile(disk, fat, path), c, s) /\ Adds(out, c, s, name, kind, a, d1, d2)
  BY <1>7
<1>4. AddImages(out.images, c, s, d1, d2)
  BY <1>3 DEF Adds
<1>5. i = 2 \/ i = 3
  <2>1. Len(out.images) \in 3..4
    BY <1>4 DEF AddImages
  <2>2. \A n \in 3..4: \A j \in 2..n-1: j = 2 \/ j = 3
    OBVIOUS
  <2> QED
    BY <2>1, <2>2
<1>6. out.images[i] = d1 \/ out.images[i] = d2
  BY <1>4, <1>5 DEF AddImages
<1> QED
  BY <1>3, <1>6 DEF CrashLeaves

LEMMA NamesStep == ASSUME 0 \notin DiskHints PROVE FatInv /\ NamesInv /\ [Next]_vars => NamesInv'
<1> SUFFICES ASSUME FatInv, NamesInv, [Next]_vars PROVE NamesInv'
  OBVIOUS
<1>1. /\ fat \in Fats /\ whereClusters \in Hints /\ disk \in Disks
      /\ whereClusters # 0 /\ NamesClusters(disk)
  BY DEF FatInv, StateTypes, NamesInv
<1>2. ASSUME NEW path \in Paths, NEW name \in Names, NEW kind \in {"file", "dir"},
             Create(path, name, kind)
      PROVE  NamesInv'
  <2>1. PICK out \in createFile(path, name, kind): Return("create", path, name, kind, out)
    BY <1>2 DEF Create
  <2>2. /\ out.hint # 0
        /\ \/ Idle(out)
           \/ \E c \in Cluster, s \in Slot: \E a, d1, d2:
                Chosen(searchFile(disk, fat, path), c, s) /\ Adds(out, c, s, name, kind, a, d1, d2)
    BY <1>1, <2>1, PathLengths, CreateSteps
  <2>3. NamesClusters(Last(out.images))
    <3>1. CASE Idle(out)
      BY <1>1, <3>1 DEF Idle, Last
    <3>2. CASE ~Idle(out)
      BY <1>1, <2>2, <3>2, AddNames
    <3> QED
      BY <3>1, <3>2
  <2>4. disk' = Last(out.images) /\ whereClusters' = out.hint
    BY <2>1 DEF Return
  <2>5. NamesClusters(disk')
    BY <2>3, <2>4
  <2> QED
    BY <2>2, <2>4, <2>5 DEF NamesInv, NamesClusters
<1>3. ASSUME NEW path \in Paths, NEW name \in Names, NEW kind \in {"file", "dir"},
             CrashInCreate(path, name, kind)
      PROVE  NamesInv'
  <2>1. PICK out \in createFile(path, name, kind): \E call: ResetDuring(out, call)
    BY <1>3 DEF CrashInCreate
  <2>10. PICK call: ResetDuring(out, call)
    BY <2>1
  <2>2. PICK i \in 2..Len(out.images)-1: Reset(out.images[i], call)
    BY <2>10 DEF ResetDuring
  <2>3. NamesClusters(out.images[i])
    <3>2. CrashLeaves(out.images[i], path, name, kind, out)
      BY <1>1, <2>1, <2>2, PathLengths, CrashImages
    <3>3. PICK c \in Cluster, s \in Slot: \E a, d1, d2:
            /\ Adds(out, c, s, name, kind, a, d1, d2)
            /\ out.images[i] = d1 \/ out.images[i] = d2
      BY <3>2 DEF CrashLeaves
    <3>1. PICK a, d1, d2:
            /\ c \in Cluster /\ s \in Slot
            /\ Adds(out, c, s, name, kind, a, d1, d2)
            /\ out.images[i] = d1 \/ out.images[i] = d2
      BY <3>3
    <3> QED
      BY <1>1, <3>1, AddNames
  <2> QED
    BY <2>2, <2>3, NamesAfterReset
<1>4. ASSUME NEW path \in Paths, NEW name \in Names
      PROVE  Deletes(deleteFile(path, name), name, searchFile(disk, fat, path))
  BY <1>1, PathLengths, DeleteSteps
<1>5. ASSUME NEW path \in Paths, NEW name \in Names, Delete(path, name) PROVE NamesInv'
  <2> DEFINE out == deleteFile(path, name)
  <2>1. Return("delete", path, name, "file", out)
    BY <1>5 DEF Delete
  <2>2. out.hint = whereClusters /\ out.images \in Seq(Disks) /\ out.images # <<>>
        /\ \A i \in 1..Len(out.images): NoEntryMore(disk, out.images[i])
    BY <1>4 DEF Deletes
  <2> HIDE DEF out
  <2>3. NoEntryMore(disk, Last(out.images))
    <3>1. Len(out.images) \in 1..Len(out.images)
      BY <2>2
    <3> QED
      BY <2>2, <3>1 DEF Last
  <2>4. disk' = Last(out.images) /\ whereClusters' = whereClusters
    BY <2>1, <2>2 DEF Return
  <2>5. NamesClusters(disk')
    BY <1>1, <2>3, <2>4, FewerNames
  <2> QED
    BY <1>1, <2>4, <2>5 DEF NamesInv, NamesClusters
<1>6. ASSUME NEW path \in Paths, NEW name \in Names, CrashInDelete(path, name) PROVE NamesInv'
  <2> DEFINE out == deleteFile(path, name)
             call == Call("crash in delete", path, name, "file", 0)
  <2>10. ResetDuring(out, call)
    BY <1>6 DEF CrashInDelete
  <2>1. PICK i \in 2..Len(out.images)-1: Reset(out.images[i], call)
    BY <2>10 DEF ResetDuring
  <2>2. out.images \in Seq(Disks) /\ \A j \in 1..Len(out.images): NoEntryMore(disk, out.images[j])
    BY <1>4 DEF Deletes
  <2> HIDE DEF out
  <2>3. NoEntryMore(disk, out.images[i])
    BY <2>2
  <2> QED
    BY <1>1, <2>1, <2>3, FewerNames, NamesAfterReset
<1>7. CASE Reboot
  BY <1>1, <1>7, NamesAfterReset DEF Reboot
<1>8. CASE UNCHANGED vars
  BY <1>8 DEF vars, NamesInv, NamesClusters
<1> QED
  BY <1>2, <1>3, <1>5, <1>6, <1>7, <1>8 DEF Next

LEMMA NamesHold == ASSUME 0 \notin DiskHints PROVE Spec => [](FatInv /\ NamesInv)
<1>1. Init => NamesInv
  BY NamesInit
<1>2. FatInv /\ NamesInv /\ [Next]_vars => NamesInv'
  BY NamesStep
<1> QED
  BY <1>1, <1>2, FatHolds, PTL DEF Spec

LEMMA CrashCall == ASSUME NEW out, NEW call, ResetDuring(out, call) PROVE last' = call
BY DEF ResetDuring, Reset

\* A consistent table.
LEMMA ConsistentIsOrderly ==
  ASSUME FatInv, NamesInv, Consistent
  PROVE  NoCluster0 /\ NamedOnce
BY SumSaysOnce DEF FatInv, StateTypes, NamesInv, Consistent, NoCluster0

\* The directory of a call is in use, and so are the clusters of its chain.
LEMMA FoundIsUsed ==
  ASSUME NoCluster0, NEW path, Len(path) \in Nat, AnyPath = FALSE, Callable(path)
  PROVE  LET dir == searchFile(disk, fat, path)
         IN  /\ dir \in Used /\ Findable(dir)
             /\ \A c, s: Chosen(dir, c, s) => c \in Used
<1> DEFINE dir == searchFile(disk, fat, path)
<1>1. recursiveSearch(disk, fat, path).isDir
  BY DEF Callable
<1>2. dir = recursiveSearch(disk, fat, path).cluster
  BY DEF searchFile
<1>3. Findable(dir)
  BY <1>1, <1>2, SearchInside DEF Findable
<1>4. DirClosed(disk, fat, Used) /\ RootCluster \in Used
  BY UsedIsClosed
<1> HIDE DEF dir
<1>5. dir \in Used
  BY <1>3, <1>4 DEF Findable
<1>6. ASSUME NEW c, NEW s, Chosen(dir, c, s) PROVE c \in Used
  <2>1. Path(fat, dir, Used, Chain(fat, dir))
    BY <1>4, <1>5, ChainIsPath DEF DirClosed
  <2> QED
    BY <1>6, <2>1 DEF Path, Chosen
<1> QED
  BY <1>3, <1>5, <1>6 DEF dir

\* No entry of the disk names a free cluster, but for some.
LEMMA Dangling ==
  ASSUME disk' \in Disks, NEW e \in DanglingOnDisk'
  PROVE  \E c \in Cluster, s \in Slot:
           /\ disk'.fat[c] # 0 /\ e = disk'.dir[c][s] /\ IsLive(e) /\ disk'.fat[e.cluster] = 0
<1>1. PICK c \in Cluster: disk'.fat[c] # 0 /\ e \in Range(disk'.dir[c])
  BY DEF DanglingOnDisk
<1>2. IsLive(e) /\ disk'.fat[e.cluster] = 0
  BY DEF DanglingOnDisk
<1>3. DOMAIN disk'.dir[c] = Slot
  BY EntryTypes, FirstSlot DEF Slots
<1>4. PICK s \in Slot: e = disk'.dir[c][s]
  BY <1>1, <1>3 DEF Range
<1> QED
  BY <1>1, <1>2, <1>4

LEMMA AddedSafely ==
  ASSUME NoCluster0, Consistent, whereClusters \in Hints, NEW c \in Used, NEW s \in Slot,
         NEW name \in Names, NEW kind \in {"file", "dir"}, NEW out, NEW a, NEW d1, NEW d2,
         Adds(out, c, s, name, kind, a, d1, d2), NEW d, d = d1 \/ d = d2,
         NEW x \in Cluster, NEW t \in Slot, d.fat[x] # 0, IsLive(d.dir[x][t])
  PROVE  d.fat[d.dir[x][t].cluster] # 0
<1>1. fat \in Fats /\ disk \in Disks /\ ReferencesAllocated /\ c \in Cluster /\ c # 0 /\ fat[c] # 0
  BY DEF NoCluster0, Used, InUse
<1>2. /\ a.cluster \in Cluster /\ a.cluster # 0 /\ fat[a.cluster] = 0 /\ a.cluster >= Start(whereClusters)
      /\ a.fat = [fat EXCEPT ![a.cluster] = EOC]
      /\ FatWritten(a, d1) /\ EntryWritten(a, c, s, name, kind, d1, d2)
  BY DEF Adds
<1>3. d.fat = a.fat
  BY <1>1, <1>2 DEF FatWritten, EntryWritten
<1>4. \A y \in Cluster: a.fat[y] = IF y = a.cluster THEN EOC ELSE fat[y]
  BY <1>1, <1>2 DEF Fats
<1>5. EOC # 0
  BY Clusters
<1> DEFINE e == Live(kind, name, a.cluster)
<1>6. IsLive(e) /\ e.cluster = a.cluster
  BY <1>2, EntryKinds
<1>7. e = Live(kind, name, a.cluster)
  OBVIOUS
<1> HIDE DEF e
<1>8. d.dir[x][t] = disk.dir[x][t] \/ (x = c /\ d.dir[x][t] = e)
  <2>1. \A y \in Cluster, r \in Slot: IsLive(d1.dir[y][r]) => d1.dir[y][r] = disk.dir[y][r]
    BY <1>2, EntryKinds DEF FatWritten
  <2>2. \A y \in Cluster, r \in Slot:
          IsLive(d2.dir[y][r]) => d2.dir[y][r] = disk.dir[y][r] \/ (y = c /\ d2.dir[y][r] = e)
    <3> SUFFICES ASSUME NEW y \in Cluster, NEW r \in Slot, IsLive(d2.dir[y][r])
                 PROVE  d2.dir[y][r] = disk.dir[y][r] \/ (y = c /\ d2.dir[y][r] = e)
      OBVIOUS
    <3>1. CASE y = c
      <4>1. d2.dir[c][r] = e \/ d2.dir[c][r] = End \/ d2.dir[c][r] = disk.dir[c][r]
        BY <1>1, <1>2, <1>7 DEF EntryWritten
      <4> QED
        BY <3>1, <4>1, EntryKinds
    <3>2. CASE y # c
      <4>1. d2.dir[y] = d1.dir[y]
        BY <1>2, <3>2 DEF EntryWritten
      <4> QED
        BY <2>1, <4>1
    <3> QED
      BY <3>1, <3>2
  <2> QED
    BY <2>1, <2>2
<1>9. CASE x = c /\ d.dir[x][t] = e
  BY <1>2, <1>3, <1>4, <1>5, <1>6, <1>9
<1>10. CASE d.dir[x][t] = disk.dir[x][t]
  <2>1. fat[x] # 0
    <3> SUFFICES ASSUME fat[x] = 0 PROVE FALSE
      OBVIOUS
    <3>1. x = a.cluster
      BY <1>3, <1>4
    <3>2. whereClusters # NoHint => x >= whereClusters
      BY <1>2, <3>1 DEF Start
    <3>3. ~IsLive(disk.dir[x][t])
      BY <3>2 DEF Consistent
    <3> QED
      BY <1>10, <3>3
  <2>2. <<x, t>> \in Entries /\ EntryAtPos(<<x, t>>) = disk.dir[x][t]
    <3>1. x \in InUse(fat) /\ IsLive(disk.dir[x][t])
      BY <1>10, <2>1 DEF InUse
    <3> QED
      BY <3>1, UsedIsClosed
  <2>3. fat[disk.dir[x][t].cluster] # 0
    BY <1>1, <2>2 DEF ReferencesAllocated
  <2>4. disk.dir[x][t].cluster \in Cluster
    BY <1>1, EntryTypes
  <2> QED
    BY <1>3, <1>4, <1>5, <1>10, <2>3, <2>4
<1> QED
  BY <1>8, <1>9, <1>10

\* Whatever write of createFile a reset prevents, no entry on disk names a cluster that
\* the FAT on disk holds as free, in any session in which the table was consistent
\* before the call: the FAT is written before the entry, the cluster was nobody's, and
\* it holds no old directory.  Callers only name directories that exist; in a missing one
\* createFile writes to the FAT region, and then the entry may get there first.
THEOREM CreationIsCrashSafe ==
  ASSUME AnyPath = FALSE, 0 \notin DiskHints
  PROVE  Spec => CreateIsCrashSafe
<1> DEFINE Safe == last'.op = "crash in create" /\ Consistent => DanglingOnDisk' \subseteq DanglingOnDisk
<1>1. FatInv /\ NamesInv /\ [Next]_vars => [Safe]_vars
  <2> SUFFICES ASSUME FatInv, NamesInv, Next PROVE Safe
    OBVIOUS
  <2>1. /\ fat \in Fats /\ whereClusters \in Hints /\ disk \in Disks
    BY DEF FatInv, StateTypes
  <2>2. disk' \in Disks
    BY FatStep DEF FatInv, StateTypes
  <2>3. ASSUME NEW path \in Paths, NEW name \in Names, NEW kind \in {"file", "dir"},
               CrashInCreate(path, name, kind), Consistent
        PROVE  DanglingOnDisk' = {}
    <3>1. NoCluster0
      BY <2>3, ConsistentIsOrderly
    <3>2. PICK out \in createFile(path, name, kind): \E call: ResetDuring(out, call)
      BY <2>3 DEF CrashInCreate
    <3>8. PICK call: ResetDuring(out, call)
      BY <3>2
    <3>3. PICK i \in 2..Len(out.images)-1: Reset(out.images[i], call)
      BY <3>8 DEF ResetDuring
    <3>4. disk' = out.images[i]
      BY <3>3 DEF Reset
    <3>9. CrashLeaves(out.images[i], path, name, kind, out)
      BY <2>1, <3>2, <3>3, PathLengths, CrashImages
    <3>10. PICK c \in Cluster, s \in Slot: \E a, d1, d2:
             /\ Chosen(searchFile(disk, fat, path), c, s) /\ Adds(out, c, s, name, kind, a, d1, d2)
             /\ out.images[i] = d1 \/ out.images[i] = d2
      BY <3>9 DEF CrashLeaves
    <3>5. PICK a, d1, d2:
            /\ c \in Cluster /\ s \in Slot
            /\ Chosen(searchFile(disk, fat, path), c, s) /\ Adds(out, c, s, name, kind, a, d1, d2)
            /\ out.images[i] = d1 \/ out.images[i] = d2
      BY <3>10
    <3>6. c \in Used
      <4>1. Callable(path)
        BY <2>3 DEF CrashInCreate
      <4> QED
        BY <3>1, <3>5, <4>1, PathLengths, FoundIsUsed
    <3>7. \A x \in Cluster, t \in Slot: disk'.fat[x] # 0 /\ IsLive(disk'.dir[x][t])
                                        => disk'.fat[disk'.dir[x][t].cluster] # 0
      BY <2>1, <2>3, <3>1, <3>4, <3>5, <3>6, AddedSafely
    <3> QED
      BY <2>2, <3>7, Dangling
  <2>4. ASSUME NEW path \in Paths, NEW name \in Names, NEW kind \in {"file", "dir"},
               Create(path, name, kind)
        PROVE  Safe
    BY <2>4 DEF Create, Return, Call
  <2>5. ASSUME NEW path \in Paths, NEW name \in Names, Delete(path, name) PROVE Safe
    BY <2>5 DEF Delete, Return, Call
  <2>6. ASSUME NEW path \in Paths, NEW name \in Names, CrashInDelete(path, name) PROVE Safe
    <3> DEFINE call == Call("crash in delete", path, name, "file", 0)
    <3>1. last' = call
      BY <2>6, CrashCall DEF CrashInDelete
    <3>2. call.op = "crash in delete"
      BY DEF Call
    <3> HIDE DEF call
    <3> QED
      BY <3>1, <3>2
  <2>7. CASE Reboot
    BY <2>7 DEF Reboot, Reset, Booted, Call
  <2> QED
    BY <2>3, <2>4, <2>5, <2>6, <2>7 DEF Next
<1>2. Spec => [](FatInv /\ NamesInv)
  BY NamesHold
<1> QED
  BY <1>1, <1>2, PTL DEF Spec, CreateIsCrashSafe

\* A reset inside deleteFile leaves at most entries of the name being deleted on free
\* clusters, in any session in which the table was consistent before the call: it
\* frees the chains of the entries it deletes, which are nobody else's, and never the
\* directory that it scans.
THEOREM DeletionDanglesOnlyItsVictim ==
  ASSUME AnyPath = FALSE, 0 \notin DiskHints
  PROVE  Spec => DeleteDanglesOnlyItsVictim
<1> DEFINE Only == last'.op = "crash in delete" /\ Consistent
                   => \A e \in DanglingOnDisk' \ DanglingOnDisk: e.name = last'.name
<1>1. FatInv /\ NamesInv /\ [Next]_vars => [Only]_vars
  <2> SUFFICES ASSUME FatInv, NamesInv, Next PROVE Only
    OBVIOUS
  <2>1. fat \in Fats /\ disk \in Disks
    BY DEF FatInv, StateTypes
  <2>2. disk' \in Disks
    BY FatStep DEF FatInv, StateTypes
  <2>3. ASSUME NEW path \in Paths, NEW name \in Names, CrashInDelete(path, name), Consistent
        PROVE  \A e \in DanglingOnDisk': e.name = last'.name
    <3> DEFINE out == deleteFile(path, name)
               dir == searchFile(disk, fat, path)
               call == Call("crash in delete", path, name, "file", 0)
    <3>1. NoCluster0 /\ NamedOnce
      BY <2>3, ConsistentIsOrderly
    <3>2. PICK i \in 2..Len(out.images)-1: Reset(out.images[i], call)
      BY <2>3 DEF CrashInDelete, ResetDuring
    <3>3. disk' = out.images[i] /\ last' = call
      BY <3>2 DEF Reset
    <3>4. last'.name = name
      BY <3>3 DEF Call
    <3>5. Orderly(dir)
      <4>1. Callable(path)
        BY <2>3 DEF CrashInDelete
      <4> QED
        BY <3>1, <4>1, PathLengths, FoundIsUsed DEF Orderly
    <3>6. Deletes(out, name, dir)
      BY <2>1, PathLengths, DeleteSteps
    <3> HIDE DEF out, dir, call
    <3>7. Harmless(disk', name)
      BY <3>3, <3>5, <3>6 DEF Deletes
    <3>8. \A c \in Cluster, s \in Slot:
            disk'.fat[c] # 0 /\ IsLive(disk'.dir[c][s]) /\ disk'.fat[disk'.dir[c][s].cluster] = 0
            => disk'.dir[c][s].name = name
      BY <3>7 DEF Harmless
    <3> QED
      BY <2>2, <3>4, <3>8, Dangling
  <2>4. ASSUME NEW path \in Paths, NEW name \in Names, NEW kind \in {"file", "dir"},
               Create(path, name, kind)
        PROVE  Only
    BY <2>4 DEF Create, Return, Call
  <2>5. ASSUME NEW path \in Paths, NEW name \in Names, Delete(path, name) PROVE Only
    BY <2>5 DEF Delete, Return, Call
  <2>6. ASSUME NEW path \in Paths, NEW name \in Names, NEW kind \in {"file", "dir"},
               CrashInCreate(path, name, kind)
        PROVE  Only
    <3> DEFINE call == Call("crash in create", path, name, kind, 0)
    <3>1. last' = call
      BY <2>6, CrashCall DEF CrashInCreate
    <3>2. call.op = "crash in create"
      BY DEF Call
    <3> HIDE DEF call
    <3> QED
      BY <3>1, <3>2
  <2>7. CASE Reboot
    BY <2>7 DEF Reboot, Reset, Booted, Call
  <2> QED
    BY <2>3, <2>4, <2>5, <2>6, <2>7 DEF Next
<1>2. Spec => [](FatInv /\ NamesInv)
  BY NamesHold
<1> QED
  BY <1>1, <1>2, PTL DEF Spec, DeleteDanglesOnlyItsVictim

-----------------------------------------------------------------------------
(* Finding what was created *)

\* Outside of cluster 0 entries are read as they are.
LEMMA EntryInDirectory ==
  ASSUME NEW d \in Disks, NEW c \in Cluster \ {0}, NEW s \in Slot
  PROVE  EntryAt(d, c, s) = d.dir[c][s]
<1>1. d.dir[c][s] \in Entry /\ d.dir[c][s] # Words
  BY EntryTypes DEF WordsInPlace
<1>2. \A e \in Entry: e # Words => e.kind # "words"
  BY DEF Entry
<1> QED
  BY <1>1, <1>2 DEF EntryAt

\* The disk d after an entry was put in slot s of cluster c, as far as used clusters go.
After(d, c, s, name) ==
  /\ d \in Disks /\ NamesClusters(d)
  /\ \A x \in Used: d.fat[x] = fat[x]
  /\ \A x \in Used, t \in Slot: x # c \/ t < s => d.dir[x][t] = disk.dir[x][t]
  /\ IsLive(d.dir[c][s]) /\ d.dir[c][s].name = name

LEMMA AfterAdding ==
  ASSUME NoCluster0, CanGrow, NEW c \in Used, NEW s \in Slot,
         NEW name \in Names, NEW kind \in {"file", "dir"}, NEW out, NEW a, NEW d1, NEW d2,
         Adds(out, c, s, name, kind, a, d1, d2)
  PROVE  After(Last(out.images), c, s, name)
<1> DEFINE e == Live(kind, name, a.cluster)
           d == Last(out.images)
<1>1. fat \in Fats /\ disk \in Disks /\ NamesClusters(disk) /\ c \in Cluster /\ c # 0 /\ s \in Nat
  BY SlotsAreNumbers DEF NoCluster0, Used, InUse
<1>2. /\ a.cluster \in Cluster /\ fat[a.cluster] = 0 /\ a.fat = [fat EXCEPT ![a.cluster] = EOC]
      /\ FatWritten(a, d1) /\ EntryWritten(a, c, s, name, kind, d1, d2)
      /\ AddImages(out.images, c, s, d1, d2)
  BY DEF Adds
<1>3. e.name = name /\ IsLive(e)
  BY <1>2, EntryKinds DEF Live
<1>4. e = Live(kind, name, a.cluster) /\ d = Last(out.images)
  OBVIOUS
<1>5. NamesClusters(d)
  BY <1>1, AddNames
<1> HIDE DEF e, d
<1>6. d2 \in Disks /\ d2.fat = a.fat
  BY <1>1, <1>2 DEF EntryWritten
<1>7. \A x \in Used: a.fat[x] = fat[x] /\ x \in Cluster /\ x # 0 /\ fat[x] # 0
  BY <1>2 DEF Used, InUse
<1>8. ASSUME NEW x \in Used, NEW t \in Slot, x # c \/ t < s PROVE d2.dir[x][t] = disk.dir[x][t]
  <2>0. t \in Nat
    BY SlotsAreNumbers
  <2>1. CASE x = c
    <3>1. t # s /\ t # s + 1
      BY <1>1, <1>8, <2>0, <2>1
    <3> QED
      BY <1>1, <1>2, <2>1, <3>1 DEF EntryWritten
  <2>2. CASE x # c
    <3>1. d2.dir[x] = d1.dir[x] /\ d1.dir[x] = disk.dir[x]
      BY <1>2, <1>7, <2>2 DEF EntryWritten, FatWritten
    <3> QED
      BY <3>1
  <2> QED
    BY <2>1, <2>2
<1>9. d2.dir[c][s] = e
  BY <1>2, <1>4 DEF EntryWritten
<1>10. CASE d = d2
  <2>1. \A x \in Used: d2.fat[x] = fat[x]
    BY <1>6, <1>7
  <2>2. IsLive(d2.dir[c][s]) /\ d2.dir[c][s].name = name
    BY <1>3, <1>9
  <2>3. After(d2, c, s, name)
    BY <1>5, <1>6, <1>8, <1>10, <2>1, <2>2 DEF After
  <2> QED
    BY <1>10, <2>3 DEF d
<1>11. CASE MarkWritten(c, s, d2, d)
  <2>1. d \in Disks /\ d.fat = a.fat
    BY <1>6, <1>11 DEF MarkWritten
  <2>2. \A x \in Used, t \in Slot: d.dir[x][t] = d2.dir[x][t] \/ (x = c /\ t = s + 1)
    BY <1>7, <1>11 DEF MarkWritten
  <2>3. ASSUME NEW x \in Used, NEW t \in Slot, x # c \/ t < s PROVE d.dir[x][t] = disk.dir[x][t]
    <3>1. t \in Nat
      BY SlotsAreNumbers
    <3>2. ~(x = c /\ t = s + 1)
      BY <1>1, <2>3, <3>1
    <3> QED
      BY <1>8, <2>2, <2>3, <3>2
  <2>4. d.dir[c][s] = e
    <3>1. s # s + 1
      BY <1>1
    <3> QED
      BY <1>9, <2>2, <3>1
  <2>5. \A x \in Used: d.fat[x] = fat[x]
    BY <1>7, <2>1
  <2>6. IsLive(d.dir[c][s]) /\ d.dir[c][s].name = name
    BY <1>3, <2>4
  <2>7. After(d, c, s, name)
    BY <1>5, <2>1, <2>3, <2>5, <2>6 DEF After
  <2> QED
    BY <2>7 DEF d
<1>12. After(d, c, s, name)
  BY <1>2, <1>4, <1>10, <1>11 DEF AddImages
<1> QED
  BY <1>12 DEF d

\* The stops of a search, in a cluster whose slots are the same, up to slot s at least.
LEMMA SameSlots ==
  ASSUME NEW d \in Disks, disk \in Disks, NEW x \in Used, NEW n,
         \A t \in Slot: d.dir[x][t] = disk.dir[x][t]
  PROVE  /\ Stops(d, x, n) = Stops(disk, x, n) /\ EndSlots(d, x) = EndSlots(disk, x)
         /\ \A t \in Slot: EntryAt(d, x, t) = EntryAt(disk, x, t)
<1>1. x \in Cluster \ {0}
  BY DEF Used, InUse
<1>2. \A t \in Slot: EntryAt(d, x, t) = EntryAt(disk, x, t)
  BY <1>1, EntryInDirectory
<1> QED
  BY <1>2 DEF Stops, EndSlots, Matches

LEMMA SameStop ==
  ASSUME NEW d \in Disks, disk \in Disks, NEW x \in Used, NEW n, NEW s \in Slot,
         \A t \in Slot: t < s => d.dir[x][t] = disk.dir[x][t],
         Stops(disk, x, n) # {}, Min(Stops(disk, x, n)) < s
  PROVE  LET m == Min(Stops(disk, x, n))
         IN  /\ Stops(d, x, n) # {} /\ Min(Stops(d, x, n)) = m
             /\ EntryAt(d, x, m) = EntryAt(disk, x, m)
<1> DEFINE S == Stops(disk, x, n)
           R == Stops(d, x, n)
           m == Min(S)
           k == Min(R)
<1>1. x \in Cluster \ {0} /\ Slot \subseteq Nat
  BY SlotsAreNumbers DEF Used, InUse
<1>2. \A t \in Slot: t < s => EntryAt(d, x, t) = EntryAt(disk, x, t)
  BY <1>1, EntryInDirectory
<1>3. m \in S /\ m \in Slot /\ \A t \in S: m <= t
  BY FirstStop
<1>4. \A t \in Slot: t < s => (t \in S <=> t \in R)
  BY <1>2 DEF Stops, EndSlots, Matches
<1>5. m < s
  OBVIOUS
<1>6. R # {} => k \in R /\ k \in Slot /\ \A t \in R: k <= t
  BY FirstStop
<1> HIDE DEF S, R, m, k
<1>7. m \in R
  BY <1>3, <1>4, <1>5
<1>8. k <= m /\ k \in Slot /\ k \in R /\ k \in Nat /\ m \in Nat /\ s \in Nat
  BY <1>1, <1>3, <1>6, <1>7
<1>9. k \in S
  BY <1>4, <1>5, <1>8
<1>10. k = m
  BY <1>3, <1>8, <1>9
<1>11. EntryAt(d, x, m) = EntryAt(disk, x, m)
  BY <1>2, <1>3, <1>5
<1> QED
  BY <1>7, <1>10, <1>11 DEF R, S, k, m

\* The first end mark of the directory is where the entry goes, so the search finds
\* it, or an older one of the same name.
FindsAt(g, top, k, x) == \A m \in 0..top: g[m][k][x].cluster # 0
LEMMA FoundInDirectory ==
  ASSUME NoCluster0, NEW dir \in Used, NEW c \in Used, NEW s, Chosen(dir, c, s),
         NEW name, NEW d, After(d, c, s, name),
         NEW path, Len(path) \in Nat, NEW g, Searches(d, d.fat, Append(path, name), g)
  PROVE  FindsAt(g, Top(Append(path, name)), Len(path) + 1, dir)
<1> DEFINE q == Append(path, name)
           L == Len(path) + 1
           top == Top(q)
           chain == Chain(fat, dir)
<1>1. /\ Len(q) = L /\ q[L] = name /\ L \in 1..Len(q)+1 /\ L + 1 \in 1..Len(q)+1
      /\ L + 1 > Len(q) /\ ~(L > Len(q))
  OBVIOUS
<1>2. top \in Nat
  <2>1. Len(q) \in Nat
    BY <1>1
  <2> HIDE DEF q
  <2> QED
    BY <2>1, SearchTurns
<1>3. \A n \in 0..top, k \in 1..Len(q)+1, x \in Cluster: SearchTurn(d, d.fat, q, g, n, k, x)
  BY DEF Searches
<1>4. /\ d \in Disks /\ disk \in Disks /\ NamesClusters(d)
      /\ \A x \in Used: d.fat[x] = fat[x] /\ x \in Cluster /\ x # 0
      /\ \A x \in Used, t \in Slot: x # c \/ t < s => d.dir[x][t] = disk.dir[x][t]
      /\ IsLive(d.dir[c][s]) /\ d.dir[c][s].name = name
  BY DEF After, NoCluster0, Used, InUse
<1>5. Diverges # 0 /\ 0 \in Cluster /\ EOC # 0
  BY Clusters DEF Diverges
<1> HIDE DEF q, L, top
<1>6. ASSUME NEW m \in 0..top, m # 0, NEW x \in Used,
             Stops(d, x, name) # {}, EntryAt(d, x, Min(Stops(d, x, name))).kind # "end"
      PROVE  g[m][L][x].cluster # 0
  <2> DEFINE S == Stops(d, x, name)
             e == EntryAt(d, x, Min(S))
  <2>1. IsLive(e) /\ Min(S) \in Slot
    BY <1>6, FirstStop
  <2>2. e = d.dir[x][Min(S)]
    BY <2>1, LiveEntry
  <2>3. e.cluster # 0 /\ e.cluster \in Cluster
    BY <1>4, <2>1, <2>2, EntryTypes DEF NamesClusters
  <2>4. m - 1 \in 0..top
    BY <1>2, <1>6
  <2>5. g[m][L][x] = IF e.kind = "dir" THEN g[m - 1][L + 1][e.cluster] ELSE Missed(e.cluster)
    <3>1. SearchTurn(d, d.fat, q, g, m, L, x)
      BY <1>1, <1>3, <1>4
    <3>2. g[m][L][x] = Turn(d, d.fat, name, L, x, g[m - 1])
      BY <1>1, <1>6, <3>1 DEF SearchTurn
    <3> QED
      BY <1>6, <3>2 DEF Turn
  <2> HIDE DEF e, S
  <2>6. g[m - 1][L + 1][e.cluster] = Reached(e.cluster)
    <3>1. SearchTurn(d, d.fat, q, g, m - 1, L + 1, e.cluster)
      BY <1>1, <1>3, <2>3, <2>4
    <3> QED
      BY <1>1, <3>1 DEF SearchTurn
  <2> QED
    BY <2>3, <2>5, <2>6, FoundFields
<1>7. ASSUME NEW x \in Used PROVE g[0][L][x].cluster # 0
  <2>1. SearchTurn(d, d.fat, q, g, 0, L, x)
    BY <1>1, <1>2, <1>3, <1>4
  <2> QED
    BY <1>1, <1>5, <2>1, FoundFields DEF SearchTurn
<1>8. PICK i \in 1..Len(chain): /\ c = chain[i] /\ \A j \in 1..i-1: EndSlots(disk, chain[j]) = {}
  BY DEF Chosen
<1>9. /\ chain \in Seq(Used) /\ chain[1] = dir
      /\ \A j \in 1..Len(chain): j # Len(chain) => fat[chain[j]] # EOC /\ chain[j + 1] = fat[chain[j]]
  <2>1. Path(fat, dir, Used, chain)
    BY UsedIsClosed, ChainIsPath DEF DirClosed
  <2> QED
    BY <2>1 DEF Path
<1>10. s \in EndSlots(disk, c) /\ s \in Slot /\ \A t \in EndSlots(disk, c): s <= t
  BY DEF Chosen, EndSlots
<1> HIDE DEF chain
<1>11. FindsAt(g, top, L, c)
  <2> SUFFICES ASSUME NEW m \in 0..top, m # 0 PROVE g[m][L][c].cluster # 0
    BY <1>7 DEF FindsAt
  <2> DEFINE S == Stops(d, c, name)
             k == Min(S)
  <2>1. EntryAt(d, c, s) = d.dir[c][s]
    BY <1>4, <1>10, EntryInDirectory
  <2>2. s \in S
    BY <1>4, <1>10, <2>1 DEF Stops, Matches
  <2>3. k \in S /\ k \in Slot /\ k <= s
    BY <2>2, FirstStop
  <2>4. EntryAt(d, c, k).kind # "end"
    <3>1. CASE k = s
      <4>1. IsLive(EntryAt(d, c, k))
        BY <1>4, <2>1, <3>1
      <4> HIDE DEF k
      <4> QED
        BY <4>1 DEF IsLive
    <3>2. CASE k # s
      <4> HIDE DEF k, S
      <4>1. k < s
        <5>1. k \in Nat /\ s \in Nat
          BY <1>10, <2>3, SlotsAreNumbers
        <5> QED
          BY <2>3, <3>2, <5>1
      <4>2. EntryAt(d, c, k) = EntryAt(disk, c, k)
        BY <1>4, <2>3, <4>1, EntryInDirectory
      <4>3. k \notin EndSlots(disk, c)
        BY <1>10, <2>3, <4>1, SlotsAreNumbers
      <4> QED
        BY <2>3, <4>2, <4>3 DEF EndSlots
    <3> QED
      BY <3>1, <3>2
  <2> QED
    BY <1>6, <2>2, <2>4
<1> DEFINE P == {j \in 0..i-1: FindsAt(g, top, L, chain[i - j])}
<1>12. 0 \in P
  <2>1. i - 0 = i /\ 0 \in 0..i-1
    OBVIOUS
  <2> QED
    BY <1>8, <1>11, <2>1
<1>13. ASSUME NEW j \in 0..i-1, j # i - 1, j \in P PROVE j + 1 \in P
  <2> DEFINE l == i - (j + 1)
  <2>1. j + 1 \in 0..i-1 /\ l \in 1..i-1 /\ l \in 1..Len(chain) /\ l # Len(chain) /\ l + 1 = i - j
    BY <1>8, <1>9, <1>13
  <2>2. FindsAt(g, top, L, chain[l + 1])
    BY <1>13, <2>1
  <2> DEFINE x == chain[l]
  <2>7. l = i - (j + 1)
    OBVIOUS
  <2> HIDE DEF P, l
  <2>3. x \in Used /\ EndSlots(disk, x) = {} /\ fat[x] # EOC /\ chain[l + 1] = fat[x]
    <3>1. EndSlots(disk, chain[l]) = {}
      BY <1>8, <2>1
    <3>2. fat[chain[l]] # EOC /\ chain[l + 1] = fat[chain[l]] /\ chain[l] \in Used
      BY <1>9, <2>1
    <3> QED
      BY <3>1, <3>2
  <2>4. x # c
    BY <1>10, <2>3
  <2> HIDE DEF x
  <2>5. EndSlots(d, x) = {}
    BY <1>4, <2>3, <2>4, SameSlots
  <2>6. FindsAt(g, top, L, x)
    <3> SUFFICES ASSUME NEW m \in 0..top, m # 0 PROVE g[m][L][x].cluster # 0
      BY <1>7, <2>3 DEF FindsAt
    <3>1. CASE Stops(d, x, name) # {}
      <4> DEFINE k == Min(Stops(d, x, name))
      <4>1. k \in Slot
        BY <3>1, FirstStop
      <4> HIDE DEF k
      <4>2. EntryAt(d, x, k).kind # "end"
        BY <2>5, <4>1 DEF EndSlots
      <4> QED
        BY <1>6, <2>3, <3>1, <4>2 DEF k
    <3>2. CASE Stops(d, x, name) = {}
      <4>1. SearchTurn(d, d.fat, q, g, m, L, x)
        BY <1>1, <1>3, <1>4, <2>3
      <4>2. g[m][L][x] = Turn(d, d.fat, name, L, x, g[m - 1])
        BY <1>1, <4>1 DEF SearchTurn
      <4>3. d.fat[x] = fat[x]
        BY <1>4, <2>3
      <4>4. g[m][L][x] = g[m - 1][L][fat[x]]
        BY <2>3, <3>2, <4>2, <4>3 DEF Turn
      <4>5. m - 1 \in 0..top
        BY <1>2
      <4> QED
        BY <2>2, <2>3, <4>4, <4>5 DEF FindsAt
    <3> QED
      BY <3>1, <3>2
  <2> QED
    BY <2>1, <2>6, <2>7 DEF P, x
<1>14. FindsAt(g, top, L, chain[1])
  <2> HIDE DEF P
  <2>1. 0..i-1 \subseteq P
    <3>1. i - 1 \in Nat
      BY <1>9
    <3> QED
      BY <1>12, <1>13, <3>1, CountUpTo
  <2>2. i - 1 \in 0..i-1 /\ i - (i - 1) = 1
    BY <1>9
  <2> QED
    BY <2>1, <2>2 DEF P
<1> QED
  BY <1>9, <1>14 DEF top, q, L

\* Where the old search finds directory dir, the new one goes there too.
LEMMA SearchFollows ==
  ASSUME NoCluster0, NEW dir, NEW c \in Used, NEW s, Chosen(dir, c, s),
         NEW name, NEW d, After(d, c, s, name),
         NEW path \in Seq(Names), NEW g, Searches(disk, fat, path, g),
         NEW h, Searches(d, d.fat, Append(path, name), h),
         FindsAt(h, Top(Append(path, name)), Len(path) + 1, dir),
         g[Top(path)][1][RootCluster].isDir, g[Top(path)][1][RootCluster].cluster = dir
  PROVE  FindsAt(h, Top(Append(path, name)), 1, RootCluster)
<1> DEFINE q == Append(path, name)
           L == Len(path) + 1
           top == Top(q)
           old == Top(path)
<1>1. /\ Len(q) = L /\ L \in Nat /\ Len(path) \in Nat
      /\ \A k \in 1..L: k \in 1..Len(q)+1 /\ ~(k > Len(q)) /\ (~(k > Len(path)) => q[k] = path[k])
      /\ \A k \in 1..L: k \in 1..Len(path)+1
      /\ \A k \in 1..L: ~(k > Len(path)) => k + 1 \in 1..L
      /\ \A k \in 1..L: k > Len(path) => k = L
  OBVIOUS
<1>2. top \in Nat /\ old \in Nat
  <2>1. Len(q) \in Nat /\ Len(path) \in Nat
    BY <1>1
  <2> HIDE DEF q
  <2> QED
    BY <2>1, SearchTurns
<1>3. /\ \A n \in 0..old, k \in 1..L, x \in Cluster: SearchTurn(disk, fat, path, g, n, k, x)
      /\ \A n \in 0..top, k \in 1..L, x \in Cluster: SearchTurn(d, d.fat, q, h, n, k, x)
  BY <1>1 DEF Searches
<1>4. /\ d \in Disks /\ disk \in Disks
      /\ \A x \in Used: d.fat[x] = fat[x] /\ x \in Cluster /\ x # 0
      /\ \A x \in Used, t \in Slot: x # c \/ t < s => d.dir[x][t] = disk.dir[x][t]
  BY DEF After, NoCluster0, Used, InUse
<1>5. Diverges # 0
  BY Clusters DEF Diverges
<1>6. DirClosed(disk, fat, Used) /\ RootCluster \in Used
  BY UsedIsClosed
<1>7. s \in EndSlots(disk, c) /\ s \in Slot
  BY DEF Chosen, EndSlots
<1>8. FindsAt(h, top, L, dir)
  OBVIOUS
<1>9. 1 \in 1..L
  OBVIOUS
<1>20. g[old][1][RootCluster].isDir /\ g[old][1][RootCluster].cluster = dir
  OBVIOUS
<1> HIDE DEF q, L, top, old
<1> DEFINE Finds(x) == x.isDir /\ x.cluster = dir
           P == {n \in 0..old: \A k \in 1..L, x \in Used: Finds(g[n][k][x]) => FindsAt(h, top, k, x)}
<1>10. ASSUME NEW k \in 1..L, NEW x \in Used, k > Len(path), NEW n \in 0..old, Finds(g[n][k][x])
       PROVE  FindsAt(h, top, k, x)
  <2>1. SearchTurn(disk, fat, path, g, n, k, x)
    BY <1>3, <1>4
  <2>2. g[n][k][x] = Reached(x)
    BY <1>10, <2>1 DEF SearchTurn
  <2>3. x = dir /\ k = L
    BY <1>1, <1>10, <2>2, FoundFields
  <2> QED
    BY <1>8, <2>3
<1>11. 0 \in P
  <2>1. ASSUME NEW k \in 1..L, NEW x \in Used, Finds(g[0][k][x]), ~(k > Len(path)) PROVE FALSE
    <3>1. SearchTurn(disk, fat, path, g, 0, k, x)
      BY <1>2, <1>3, <1>4
    <3>2. g[0][k][x] = Missed(Diverges)
      BY <2>1, <3>1 DEF SearchTurn
    <3> QED
      BY <2>1, <3>2, FoundFields
  <2>2. 0 \in 0..old
    BY <1>2
  <2> QED
    BY <1>10, <2>1, <2>2
<1>12. ASSUME NEW n \in 0..old, n # old, n \in P PROVE n + 1 \in P
  <2>1. n + 1 \in 0..old /\ n + 1 # 0 /\ (n + 1) - 1 = n
    BY <1>2, <1>12
  <2>2. \A k \in 1..L, x \in Used: Finds(g[n][k][x]) => FindsAt(h, top, k, x)
    BY <1>12
  <2> HIDE DEF P
  <2>3. ASSUME NEW k \in 1..L, NEW x \in Used, Finds(g[n + 1][k][x]), ~(k > Len(path))
        PROVE  FindsAt(h, top, k, x)
    <3> DEFINE name1 == path[k]
               S == Stops(disk, x, name1)
               R == Stops(d, x, name1)
               e == EntryAt(disk, x, Min(S))
               b == EntryAt(d, x, Min(R))
               was == g[n + 1][k][x]
    <3>1. was = IF S = {} THEN IF fat[x] = EOC THEN Missed(0) ELSE g[n][k][fat[x]]
                ELSE IF e.kind = "end" THEN Missed(0)
                ELSE IF e.kind = "dir" THEN g[n][k + 1][e.cluster]
                ELSE Missed(e.cluster)
      <4>1. SearchTurn(disk, fat, path, g, n + 1, k, x)
        BY <1>3, <1>4, <2>1
      <4>2. was = Turn(disk, fat, path[k], k, x, g[(n + 1) - 1])
        BY <2>1, <2>3, <4>1 DEF SearchTurn
      <4>3. was = Turn(disk, fat, path[k], k, x, g[n])
        BY <2>1, <4>2
      <4> HIDE DEF was
      <4> QED
        BY <4>3 DEF Turn
    <3>2. Finds(was)
      BY <2>3
    <3>3. SearchTurn(d, d.fat, q, h, 0, k, x)
      BY <1>2, <1>3, <1>4
    <3>4. h[0][k][x].cluster # 0
      BY <1>1, <1>5, <3>3, FoundFields DEF SearchTurn
    <3> SUFFICES ASSUME NEW m \in 0..top, m # 0 PROVE h[m][k][x].cluster # 0
      BY <3>4 DEF FindsAt
    <3>5. h[m][k][x] = IF R = {} THEN IF fat[x] = EOC THEN Missed(0) ELSE h[m - 1][k][fat[x]]
                       ELSE IF b.kind = "end" THEN Missed(0)
                       ELSE IF b.kind = "dir" THEN h[m - 1][k + 1][b.cluster]
                       ELSE Missed(b.cluster)
      <4>1. SearchTurn(d, d.fat, q, h, m, k, x)
        BY <1>3, <1>4
      <4>2. h[m][k][x] = Turn(d, d.fat, path[k], k, x, h[m - 1])
        BY <1>1, <2>3, <4>1 DEF SearchTurn
      <4>3. d.fat[x] = fat[x]
        BY <1>4
      <4> QED
        BY <4>2, <4>3 DEF Turn
    <3>6. m - 1 \in 0..top
      BY <1>2
    <3> DEFINE z == Min(S)
    <3>7. S # {} => z \in S /\ z \in Slot /\ (\A t \in S: z <= t) /\ (e.kind # "end" => IsLive(e))
      BY FirstStop
    <3>8. e.kind # "end" /\ S # {} => e = disk.dir[x][z] /\ IsLive(disk.dir[x][z])
      BY <3>7, LiveEntry
    <3>9. x = c => s \in S
      BY <1>7 DEF Stops
    <3>10. EntryAt(disk, c, s).kind = "end"
      BY <1>7 DEF EndSlots
    <3>11. x # c => R = S /\ (S # {} => b = e)
      <4> SUFFICES ASSUME x # c PROVE R = S /\ (S # {} => b = e)
        OBVIOUS
      <4>1. R = S /\ \A t \in Slot: EntryAt(d, x, t) = EntryAt(disk, x, t)
        BY <1>4, SameSlots
      <4> QED
        BY <3>7, <4>1
    <3>12. S # {} /\ e.kind # "end" /\ x = c => R # {} /\ b = e
      <4> SUFFICES ASSUME S # {}, e.kind # "end", x = c PROVE R # {} /\ b = e
        OBVIOUS
      <4>1. z <= s /\ z # s
        BY <3>7, <3>9, <3>10
      <4>2. z < s
        <5>1. z \in Nat /\ s \in Nat
          BY <1>7, <3>7, SlotsAreNumbers
        <5> HIDE DEF z
        <5> QED
          BY <4>1, <5>1
      <4>3. \A t \in Slot: t < s => d.dir[x][t] = disk.dir[x][t]
        BY <1>4
      <4> QED
        BY <1>4, <1>7, <4>2, <4>3, SameStop
    <3> HIDE DEF was, S, R, e, b, z
    <3>13. CASE S = {}
      <4>1. fat[x] # EOC /\ was = g[n][k][fat[x]]
        BY <3>1, <3>2, <3>13, FoundFields
      <4>2. R = {}
        BY <3>9, <3>11, <3>13
      <4>3. fat[x] \in Used
        BY <1>6, <4>1 DEF DirClosed, Closed
      <4>4. FindsAt(h, top, k, fat[x])
        BY <2>2, <3>2, <4>1, <4>3
      <4> QED
        BY <3>5, <3>6, <4>1, <4>2, <4>4 DEF FindsAt
    <3>14. CASE S # {}
      <4>1. e.kind # "end" /\ e.kind = "dir" /\ was = g[n][k + 1][e.cluster]
        BY <3>1, <3>2, <3>14, FoundFields
      <4>2. R # {} /\ b = e
        BY <3>11, <3>12, <3>14, <4>1
      <4>3. e.cluster \in Used
        BY <1>6, <3>7, <3>8, <3>14, <4>1 DEF DirClosed
      <4>4. k + 1 \in 1..L
        BY <1>1, <2>3
      <4>5. FindsAt(h, top, k + 1, e.cluster)
        BY <2>2, <3>2, <4>1, <4>3, <4>4
      <4> QED
        BY <3>5, <3>6, <4>1, <4>2, <4>5 DEF FindsAt
    <3> QED
      BY <3>13, <3>14
  <2> QED
    BY <1>10, <2>1, <2>3 DEF P
<1>13. 0..old \subseteq P
  <2> HIDE DEF P
  <2> QED
    BY <1>2, <1>11, <1>12, CountUpTo
<1>14. old \in P
  BY <1>2, <1>13
<1>15. FindsAt(h, top, 1, RootCluster)
  BY <1>6, <1>9, <1>14, <1>20
<1> QED
  BY <1>15 DEF top, q

\* What createFile reports as created is found again with the FAT that is on disk, in
\* any session in which the table was consistent before the call: neither the links
\* on the way to the directory nor the slots before the new entry change, and an end
\* mark never comes to lie before the entry, as long as the directory can grow.
THEOREM CreationIsDurable ==
  ASSUME AnyPath = FALSE, 0 \notin DiskHints
  PROVE  Spec => CreateIsDurable
<1> DEFINE Lasts == last'.op = "create" /\ last'.ret > 0 /\ Consistent /\ CanGrow
                    => searchFile(disk', disk'.fat, Append(last'.path, last'.name)) # 0
<1>1. FatInv /\ NamesInv /\ [Next]_vars => [Lasts]_vars
  <2> SUFFICES ASSUME FatInv, NamesInv, Next PROVE Lasts
    OBVIOUS
  <2>1. /\ fat \in Fats /\ whereClusters \in Hints /\ disk \in Disks /\ whereClusters # 0
    BY DEF FatInv, StateTypes, NamesInv
  <2>3. ASSUME NEW path \in Paths, NEW name \in Names, NEW kind \in {"file", "dir"},
               Create(path, name, kind), Consistent, CanGrow, last'.ret > 0
        PROVE  searchFile(disk', disk'.fat, Append(last'.path, last'.name)) # 0
    <3>1. NoCluster0
      BY <2>3, ConsistentIsOrderly
    <3>2. PICK out \in createFile(path, name, kind): Return("create", path, name, kind, out)
      BY <2>3 DEF Create
    <3>3. disk' = Last(out.images) /\ last'.ret = out.ret /\ last'.path = path /\ last'.name = name
      BY <3>2 DEF Return, Call
    <3> DEFINE dir == searchFile(disk, fat, path)
               d == Last(out.images)
    <3>21. PICK c \in Cluster, s \in Slot: \E a, d1, d2:
            Chosen(dir, c, s) /\ Adds(out, c, s, name, kind, a, d1, d2)
      <4>1. ~Idle(out)
        BY <2>3, <3>3 DEF Idle
      <4> QED
        BY <2>1, <4>1, PathLengths, CreateSteps
    <3>4. PICK a, d1, d2:
            /\ c \in Cluster /\ s \in Slot
            /\ Chosen(dir, c, s) /\ Adds(out, c, s, name, kind, a, d1, d2)
      BY <3>21
    <3>5. dir \in Used /\ c \in Used
      <4>1. Callable(path)
        BY <2>3 DEF Create
      <4> QED
        BY <3>1, <3>4, <4>1, PathLengths, FoundIsUsed
    <3>6. recursiveSearch(disk, fat, path).isDir /\ recursiveSearch(disk, fat, path).cluster = dir
      BY <2>3 DEF Create, Callable, searchFile
    <3>7. After(d, c, s, name)
      BY <2>3, <3>1, <3>4, <3>5, AfterAdding
    <3>8. path \in Seq(Names) /\ Len(path) \in Nat
      BY PathLengths DEF Paths
    <3>9. Len(Append(path, name)) \in Nat /\ Top(Append(path, name)) \in 0..Top(Append(path, name))
      <4>1. Len(Append(path, name)) \in Nat
        BY <3>8
      <4> QED
        BY <4>1, SearchTurns
    <3> HIDE DEF dir, d
    <3>10. PICK g: Searches(disk, fat, path, g)
      BY <3>8, SearchTurns
    <3>11. PICK h: Searches(d, d.fat, Append(path, name), h)
      BY <3>9, SearchTurns
    <3>12. FindsAt(h, Top(Append(path, name)), Len(path) + 1, dir)
      BY <3>1, <3>4, <3>5, <3>7, <3>8, <3>11, FoundInDirectory
    <3>13. g[Top(path)][1][RootCluster].isDir /\ g[Top(path)][1][RootCluster].cluster = dir
      BY <3>6, <3>10 DEF Searches
    <3>14. FindsAt(h, Top(Append(path, name)), 1, RootCluster)
      BY <3>1, <3>4, <3>5, <3>7, <3>8, <3>10, <3>11, <3>12, <3>13, SearchFollows
    <3>15. recursiveSearch(d, d.fat, Append(path, name)).cluster # 0
      BY <3>9, <3>11, <3>14 DEF Searches, FindsAt
    <3>16. searchFile(d, d.fat, Append(path, name)) # 0
      BY <3>15 DEF searchFile
    <3> QED
      BY <3>3, <3>16 DEF d
  <2>4. ASSUME NEW path \in Paths, NEW name \in Names, NEW kind \in {"file", "dir"},
               CrashInCreate(path, name, kind)
        PROVE  Lasts
    <3> DEFINE call == Call("crash in create", path, name, kind, 0)
    <3>1. last' = call
      BY <2>4, CrashCall DEF CrashInCreate
    <3>2. call.op = "crash in create"
      BY DEF Call
    <3> HIDE DEF call
    <3> QED
      BY <3>1, <3>2
  <2>5. ASSUME NEW path \in Paths, NEW name \in Names, Delete(path, name) PROVE Lasts
    BY <2>5 DEF Delete, Return, Call
  <2>6. ASSUME NEW path \in Paths, NEW name \in Names, CrashInDelete(path, name) PROVE Lasts
    <3> DEFINE call == Call("crash in delete", path, name, "file", 0)
    <3>1. last' = call
      BY <2>6, CrashCall DEF CrashInDelete
    <3>2. call.op = "crash in delete"
      BY DEF Call
    <3> HIDE DEF call
    <3> QED
      BY <3>1, <3>2
  <2>7. CASE Reboot
    BY <2>7 DEF Reboot, Reset, Booted, Call
  <2>8. ASSUME NEW path \in Paths, NEW name \in Names, NEW kind \in {"file", "dir"},
               Create(path, name, kind)
        PROVE  Lasts
    BY <2>3, <2>8
  <2> QED
    BY <2>4, <2>5, <2>6, <2>7, <2>8 DEF Next
<1>2. Spec => [](FatInv /\ NamesInv)
  BY NamesHold
<1> QED
  BY <1>1, <1>2, PTL DEF Spec, CreateIsDurable

-----------------------------------------------------------------------------
(***************************************************************************)
(* What a call changes, in one session: chains of different names have no  *)
(* cluster in common, and a scan shows what the slots up to the first end  *)
(* mark hold.                                                              *)
(***************************************************************************)

\* Two walks from a cluster to the end of its chain are the same, if the tables
\* agree along the first.
LEMMA PathsAgree ==
  ASSUME NEW f, NEW g, NEW c, NEW s, Path(f, c, Cluster, s), f[s[Len(s)]] = EOC,
         NEW r, Path(g, c, Cluster, r), g[r[Len(r)]] = EOC,
         \A i \in 1..Len(s): g[s[i]] = f[s[i]]
  PROVE  r = s
<1>1. /\ s \in Seq(Cluster) /\ Len(s) \in Nat \ {0} /\ s[1] = c
      /\ \A i \in 1..Len(s): i # Len(s) => f[s[i]] # EOC /\ s[i + 1] = f[s[i]]
  BY DEF Path
<1>2. /\ r \in Seq(Cluster) /\ Len(r) \in Nat \ {0} /\ r[1] = c
      /\ \A i \in 1..Len(r): i # Len(r) => g[r[i]] # EOC /\ r[i + 1] = g[r[i]]
  BY DEF Path
<1> DEFINE n == Len(s)
           P == {k \in 0..n: k = 0 \/ (k <= Len(r) /\ s[k] = r[k])}
<1>3. n \in Nat /\ n = Len(s) /\ 1 \in 1..n
  BY <1>1
<1>4. 0 \in P
  BY <1>3
<1>5. ASSUME NEW k \in 0..n, k # n, k \in P PROVE k + 1 \in P
  <2>1. k + 1 \in 0..n
    BY <1>3, <1>5
  <2>2. CASE k = 0
    BY <1>1, <1>2, <2>1, <2>2
  <2>3. CASE k # 0
    <3>1. k \in 1..n /\ k \in 1..Len(r) /\ s[k] = r[k]
      BY <1>2, <1>3, <1>5, <2>3
    <3>2. f[s[k]] # EOC /\ s[k + 1] = f[s[k]] /\ g[r[k]] = f[s[k]]
      BY <1>1, <1>3, <1>5, <3>1
    <3>3. k # Len(r)
      BY <3>2
    <3>4. r[k + 1] = g[r[k]]
      BY <1>2, <3>1, <3>3
    <3>5. k + 1 <= Len(r)
      BY <1>2, <3>1, <3>3
    <3> QED
      BY <2>1, <3>2, <3>4, <3>5
  <2> QED
    BY <2>2, <2>3
<1>6. \A k \in 1..n: k <= Len(r) /\ s[k] = r[k]
  <2> HIDE DEF P
  <2>1. 0..n \subseteq P
    BY <1>3, <1>4, <1>5, CountUpTo
  <2> QED
    BY <1>3, <2>1 DEF P
<1>7. n = Len(r)
  <2>1. n \in 1..n /\ n <= Len(r) /\ s[n] = r[n]
    BY <1>1, <1>3, <1>6
  <2>2. g[r[n]] = EOC /\ n \in 1..Len(r)
    BY <1>2, <1>3, <2>1
  <2> QED
    BY <1>2, <2>2
<1> QED
  BY <1>1, <1>2, <1>3, <1>6, <1>7

\* A cluster in use that no link leads to.
Opening(f, c) == c \in InUse(f) /\ \A e \in FatLinks(f): f[e] # c

\* What a sound table says of a chain.
ChainOf(f, c, s) ==
  /\ Path(f, c, Cluster, s) /\ f[s[Len(s)]] = EOC
  /\ s \in Seq(Cluster) /\ Len(s) \in Nat \ {0} /\ s[1] = c
  /\ \A i \in 1..Len(s): /\ s[i] \in InUse(f)
                         /\ i # Len(s) => /\ s[i] \in FatLinks(f) /\ s[i + 1] = f[s[i]]
                                          /\ i + 1 \in 1..Len(s)
LEMMA SoundChain ==
  ASSUME NEW f \in Fats, LinkSound(f), NEW c \in InUse(f)
  PROVE  ChainOf(f, c, Chain(f, c))
<1> DEFINE s == Chain(f, c)
<1>1. Path(f, c, InUse(f), s) /\ Ends(f, c)
  BY ChainsOfSound
<1>2. s = Chain(f, c)
  OBVIOUS
<1> HIDE DEF s
<1>3. /\ s \in Seq(InUse(f)) /\ Len(s) \in Nat \ {0} /\ s[1] = c /\ s # <<>>
      /\ \A i \in 1..Len(s): i # Len(s) => f[s[i]] # EOC /\ s[i + 1] = f[s[i]]
  BY <1>1 DEF Path
<1>4. InUse(f) \subseteq Cluster
  BY DEF InUse
<1>5. s \in Seq(Cluster) /\ \A i \in 1..Len(s): s[i] \in InUse(f)
  BY <1>3, <1>4
<1>6. Path(f, c, Cluster, s)
  BY <1>3, <1>5 DEF Path
<1>7. f[s[Len(s)]] = EOC
  BY <1>1, <1>2 DEF Ends, Last
<1>8. \A i \in 1..Len(s): i # Len(s) => s[i] \in FatLinks(f) /\ i + 1 \in 1..Len(s)
  BY <1>3, <1>5 DEF FatLinks, InUse
<1>9. ChainOf(f, c, s)
  BY <1>3, <1>5, <1>6, <1>7, <1>8 DEF ChainOf
<1> QED
  BY <1>9 DEF s

\* Chains of different heads have no cluster in common.
LEMMA ChainsApart ==
  ASSUME NEW f, LinkSound(f), NEW y, NEW z, Opening(f, y), Opening(f, z), y # z,
         NEW s, ChainOf(f, y, s), NEW r, ChainOf(f, z, r)
  PROVE  \A i \in 1..Len(s), j \in 1..Len(r): s[i] # r[j]
<1> DEFINE n == Len(s)
           P == {k \in 0..n: k = 0 \/ \A j \in 1..Len(r): s[k] # r[j]}
<1>1. /\ n \in Nat \ {0} /\ n = Len(s) /\ s[1] = y
      /\ \A i \in 1..n: i # n => s[i] \in FatLinks(f) /\ s[i + 1] = f[s[i]]
  BY DEF ChainOf
<1>2. /\ Len(r) \in Nat \ {0} /\ r[1] = z
      /\ \A i \in 1..Len(r): i # Len(r) => r[i] \in FatLinks(f) /\ r[i + 1] = f[r[i]]
  BY DEF ChainOf
<1>3. ASSUME NEW j \in 1..Len(r), j # 1
      PROVE  j - 1 \in 1..Len(r) /\ r[j - 1] \in FatLinks(f) /\ r[j] = f[r[j - 1]]
  <2>1. j - 1 \in 1..Len(r) /\ j - 1 # Len(r) /\ (j - 1) + 1 = j
    BY <1>2, <1>3
  <2> QED
    BY <1>2, <2>1
<1> HIDE DEF n
<1>4. 0 \in P
  BY <1>1
<1>5. ASSUME NEW k \in 0..n, k # n, k \in P PROVE k + 1 \in P
  <2>1. k + 1 \in 0..n
    BY <1>1, <1>5
  <2> SUFFICES ASSUME NEW j \in 1..Len(r), s[k + 1] = r[j] PROVE FALSE
    BY <2>1
  <2>2. CASE k = 0
    <3>1. r[j] = y
      BY <1>1, <2>2
    <3>2. j # 1
      BY <1>2, <3>1
    <3> QED
      BY <1>3, <3>1, <3>2 DEF Opening
  <2>3. CASE k # 0
    <3>1. k \in 1..n /\ \A i \in 1..Len(r): s[k] # r[i]
      BY <1>1, <1>5, <2>3
    <3>2. s[k] \in FatLinks(f) /\ s[k + 1] = f[s[k]]
      BY <1>1, <1>5, <3>1
    <3>3. j # 1
      BY <1>2, <3>2 DEF Opening
    <3>4. f[s[k]] = f[r[j - 1]] /\ r[j - 1] \in FatLinks(f) /\ j - 1 \in 1..Len(r)
      BY <1>3, <3>2, <3>3
    <3> QED
      BY <3>1, <3>2, <3>4 DEF LinkSound
  <2> QED
    BY <2>2, <2>3
<1>6. 0..n \subseteq P
  <2> HIDE DEF P
  <2> QED
    BY <1>1, <1>4, <1>5, CountUpTo
<1>7. \A k \in 1..n: k \in 0..n /\ k # 0
  BY <1>1
<1> QED
  BY <1>6, <1>7 DEF n

LEMMA SlotsBelow == ASSUME NEW m \in Slot PROVE m \in Nat /\ \A x \in 0..m-1: x \in Slot
<1> DEFINE n == SectorsPerCluster * EntriesPerSector
<1>1. n \in Nat /\ Slot = 0..n-1
  BY GeometryAssumption DEF Slot
<1> HIDE DEF n
<1> QED
  BY <1>1

\* Slot t of the i-th cluster of a chain comes before the first end mark.
Shown(d, s, i, t) ==
  /\ i \in 1..Len(s) /\ t \in Slot
  /\ \A j \in 1..i-1: EndSlots(d, s[j]) = {}
  /\ \A u \in EndSlots(d, s[i]): t < u
Shows(d, s, e) == \E i \in 1..Len(s), t \in Slot: Shown(d, s, i, t) /\ e = EntryAt(d, s[i], t)

LEMMA ListingShows ==
  ASSUME NEW d, NEW f, NEW c, NEW s, s = Chain(f, c), s \in Seq(Cluster)
  PROVE  \A e: e \in Listing(d, f, c) <=> IsLive(e) /\ Shows(d, s, e)
<1> DEFINE ended == {i \in DOMAIN s: EndSlots(d, s[i]) # {}}
           before(i) == IF i \in ended THEN 0..Min(EndSlots(d, s[i]))-1 ELSE Slot
           upTo == IF ended = {} THEN Len(s) ELSE Min(ended)
<1>1. Listing(d, f, c) = {e \in UNION {{EntryAt(d, s[i], t): t \in before(i)}: i \in 1..upTo}: IsLive(e)}
  BY DEF Listing
<1>2. Len(s) \in Nat /\ ended \subseteq 1..Len(s)
  BY Zenon, SMT
<1>3. \A i \in 1..Len(s): i \in ended <=> EndSlots(d, s[i]) # {}
  OBVIOUS
<1>4. \A x: EndSlots(d, x) \in SUBSET Nat /\ EndSlots(d, x) \subseteq Slot
  BY SlotsAreNumbers DEF EndSlots
<1>5. ended # {} => upTo \in ended /\ \A j \in ended: upTo <= j
  <2>1. ended \in SUBSET Nat
    BY <1>2
  <2> HIDE DEF ended
  <2> QED
    BY <2>1, Minimum
<1>6. ended = {} => upTo = Len(s)
  OBVIOUS
<1> HIDE DEF upTo, ended
<1>7. \A i \in 1..Len(s): i \in 1..upTo <=> \A j \in 1..i-1: EndSlots(d, s[j]) = {}
  <2> SUFFICES ASSUME NEW i \in 1..Len(s)
               PROVE  i \in 1..upTo <=> \A j \in 1..i-1: EndSlots(d, s[j]) = {}
    OBVIOUS
  <2>0. \A j \in 1..i-1: j \in 1..Len(s) /\ j < i
    BY <1>2
  <2>1. CASE ended = {}
    BY <1>2, <1>3, <1>6, <2>0, <2>1
  <2>2. CASE ended # {}
    <3>1. upTo \in 1..Len(s) /\ upTo \in ended /\ \A j \in ended: upTo <= j
      BY <1>2, <1>5, <2>2
    <3>2. ASSUME i \in 1..upTo, NEW j \in 1..i-1 PROVE EndSlots(d, s[j]) = {}
      <4>1. j \notin ended
        BY <1>2, <2>0, <3>1, <3>2
      <4> QED
        BY <1>3, <2>0, <4>1
    <3>3. ASSUME i \notin 1..upTo PROVE ~(\A j \in 1..i-1: EndSlots(d, s[j]) = {})
      <4>1. upTo \in 1..i-1
        BY <1>2, <3>1, <3>3
      <4> QED
        BY <1>3, <3>1, <4>1
    <3> QED
      BY <3>2, <3>3
  <2> QED
    BY <2>1, <2>2
<1>8. upTo \in 0..Len(s)
  <2>1. CASE ended = {}
    BY <1>2, <1>6, <2>1
  <2>2. CASE ended # {}
    <3>1. upTo \in 1..Len(s)
      BY <1>2, <1>5, <2>2
    <3> QED
      BY <1>2, <3>1
  <2> QED
    BY <2>1, <2>2
<1>9. \A i \in 1..Len(s): \A t: t \in before(i) <=> t \in Slot /\ \A u \in EndSlots(d, s[i]): t < u
  <2> SUFFICES ASSUME NEW i \in 1..Len(s), NEW t
               PROVE  t \in before(i) <=> t \in Slot /\ \A u \in EndSlots(d, s[i]): t < u
    OBVIOUS
  <2>1. CASE EndSlots(d, s[i]) = {}
    BY <1>3, <2>1
  <2>2. CASE EndSlots(d, s[i]) # {}
    <3> DEFINE m == Min(EndSlots(d, s[i]))
    <3>1. m \in EndSlots(d, s[i]) /\ m \in Slot /\ \A u \in EndSlots(d, s[i]): m <= u
      BY <1>4, <2>2, Minimum
    <3>2. before(i) = 0..m-1
      BY <1>3, <2>2
    <3>3. \A u \in EndSlots(d, s[i]): u \in Nat
      BY <1>4
    <3> HIDE DEF m, before
    <3>4. m \in Nat /\ \A x \in 0..m-1: x \in Slot
      BY <3>1, SlotsBelow
    <3>5. t \in 0..m-1 => t \in Slot /\ \A u \in EndSlots(d, s[i]): t < u
      BY <3>1, <3>3, <3>4
    <3>6. t \in Slot /\ t < m => t \in 0..m-1
      BY <3>4, SlotsAreNumbers
    <3> QED
      BY <3>1, <3>2, <3>5, <3>6
  <2> QED
    BY <2>1, <2>2
<1> HIDE DEF before
<1> SUFFICES ASSUME NEW e, IsLive(e) PROVE e \in Listing(d, f, c) <=> Shows(d, s, e)
  BY <1>1
<1>10. e \in Listing(d, f, c) <=> \E i \in 1..upTo: \E t \in before(i): e = EntryAt(d, s[i], t)
  BY <1>1
<1>11. ASSUME NEW i \in 1..upTo, NEW t \in before(i), e = EntryAt(d, s[i], t) PROVE Shows(d, s, e)
  <2>1. i \in 1..Len(s)
    BY <1>2, <1>8
  <2>2. Shown(d, s, i, t)
    BY <1>7, <1>9, <2>1 DEF Shown
  <2> QED
    BY <1>11, <2>1, <2>2 DEF Shows, Shown
<1>12. ASSUME NEW i \in 1..Len(s), NEW t \in Slot, Shown(d, s, i, t), e = EntryAt(d, s[i], t)
       PROVE  \E j \in 1..upTo: \E u \in before(j): e = EntryAt(d, s[j], u)
  BY <1>7, <1>9, <1>12 DEF Shown
<1> QED
  BY <1>10, <1>11, <1>12 DEF Shows

\* Two disks that look alike in the clusters of a chain show the same.
LEMMA AlikeShow ==
  ASSUME NEW d, NEW e, NEW s,
         \A i \in 1..Len(s), t \in Slot: EntryAt(e, s[i], t) = EntryAt(d, s[i], t)
  PROVE  \A x: Shows(e, s, x) <=> Shows(d, s, x)
<1>1. \A i \in 1..Len(s): EndSlots(e, s[i]) = EndSlots(d, s[i])
  BY DEF EndSlots
<1>2. ASSUME NEW i \in 1..Len(s), NEW t \in Slot PROVE Shown(e, s, i, t) <=> Shown(d, s, i, t)
  <2>1. \A j \in 1..i-1: EndSlots(e, s[j]) = EndSlots(d, s[j])
    <3>1. \A j \in 1..i-1: j \in 1..Len(s)
      OBVIOUS
    <3> QED
      BY <1>1, <3>1
  <2> QED
    BY <1>1, <2>1 DEF Shown
<1> QED
  BY <1>2 DEF Shows

\* What the boot record or an entry names.
IsNamedBy(d, h) == h = RootCluster \/ IsNamed(d, h)

\* A directory that is found is named so.
LEMMA FoundIsNamed ==
  ASSUME NEW d \in Disks, NEW f \in Fats, NEW path, Len(path) \in Nat, recursiveSearch(d, f, path).isDir
  PROVE  IsNamedBy(d, recursiveSearch(d, f, path).cluster)
<1> DEFINE top == Top(path)
<1>1. PICK g: Searches(d, f, path, g)
  BY SearchTurns
<1>2. top \in Nat
  BY SearchTurns
<1> HIDE DEF top
<1> DEFINE Fine(x) == x.isDir => IsNamedBy(d, x.cluster)
           P == {n \in 0..top: \A k \in 1..Len(path)+1, c \in Cluster:
                                 (k > Len(path) => IsNamedBy(d, c)) => Fine(g[n][k][c])}
<1>3. \A n \in 0..top, k \in 1..Len(path)+1, c \in Cluster: SearchTurn(d, f, path, g, n, k, c)
  BY <1>1 DEF Searches, top
<1>4. 0 \in P
  <2>1. 0 \in 0..top
    BY <1>2
  <2>2. ASSUME NEW k \in 1..Len(path)+1, NEW c \in Cluster, k > Len(path) => IsNamedBy(d, c)
        PROVE  Fine(g[0][k][c])
    <3>1. SearchTurn(d, f, path, g, 0, k, c)
      BY <1>3, <2>1
    <3> QED
      BY <2>2, <3>1, FoundFields DEF SearchTurn
  <2> QED
    BY <2>1, <2>2
<1>5. ASSUME NEW n \in 0..top, n # top, n \in P PROVE n + 1 \in P
  <2>1. n + 1 \in 0..top /\ n + 1 # 0 /\ (n + 1) - 1 = n
    BY <1>2, <1>5
  <2>2. \A k \in 1..Len(path)+1, c \in Cluster: (k > Len(path) => IsNamedBy(d, c)) => Fine(g[n][k][c])
    BY <1>5
  <2> HIDE DEF P
  <2>3. ASSUME NEW k \in 1..Len(path)+1, NEW c \in Cluster, k > Len(path) => IsNamedBy(d, c)
        PROVE  Fine(g[n + 1][k][c])
    <3> DEFINE x == g[n + 1][k][c]
               h == g[n]
    <3>1. x = IF k > Len(path) THEN Reached(c) ELSE Turn(d, f, path[k], k, c, h)
      <4>1. SearchTurn(d, f, path, g, n + 1, k, c)
        BY <1>3, <2>1
      <4> QED
        BY <2>1, <4>1 DEF SearchTurn
    <3>2. \A j \in 1..Len(path)+1, y \in Cluster: (j > Len(path) => IsNamedBy(d, y)) => Fine(h[j][y])
      BY <2>2
    <3> HIDE DEF x, h
    <3>3. CASE k > Len(path)
      BY <2>3, <3>1, <3>3, FoundFields DEF x
    <3>4. CASE ~(k > Len(path))
      <4>1. k + 1 \in 1..Len(path)+1
        BY <3>4
      <4> DEFINE S == Stops(d, c, path[k])
                 s == Min(S)
                 e == EntryAt(d, c, s)
      <4>2. x = IF S = {} THEN IF f[c] = EOC THEN Missed(0) ELSE h[k][f[c]]
                ELSE IF e.kind = "end" THEN Missed(0)
                ELSE IF e.kind = "dir" THEN h[k + 1][e.cluster]
                ELSE Missed(e.cluster)
        BY <3>1, <3>4 DEF Turn
      <4>3. S # {} => s \in Slot /\ (e.kind # "end" => IsLive(e))
        BY FirstStop
      <4>4. S # {} /\ e.kind # "end" => e = d.dir[c][s] /\ IsLive(d.dir[c][s])
        BY <4>3, LiveEntry
      <4> HIDE DEF S, s, e
      <4>5. S # {} /\ e.kind # "end" => e.cluster \in Cluster /\ IsNamedBy(d, e.cluster)
        BY <4>3, <4>4, EntryTypes DEF IsNamedBy, IsNamed
      <4>6. f[c] # EOC => f[c] \in Cluster
        BY LinksLead
      <4>7. CASE S = {}
        BY <3>2, <3>4, <4>2, <4>6, <4>7, FoundFields DEF x
      <4>8. CASE S # {} /\ e.kind = "dir"
        <5>1. x = h[k + 1][e.cluster]
          BY <4>2, <4>8
        <5>2. Fine(h[k + 1][e.cluster])
          BY <3>2, <4>1, <4>5, <4>8
        <5> QED
          BY <5>1, <5>2 DEF x
      <4>9. CASE S # {} /\ e.kind # "dir"
        BY <4>2, <4>9, FoundFields DEF x
      <4> QED
        BY <4>7, <4>8, <4>9
    <3> QED
      BY <3>3, <3>4
  <2> QED
    BY <2>1, <2>3 DEF P
<1>6. 0..top \subseteq P
  <2> HIDE DEF P
  <2> QED
    BY <1>2, <1>4, <1>5, CountUpTo
<1>7. Fine(g[top][1][RootCluster])
  <2>1. top \in 0..top /\ 1 \in 1..Len(path)+1
    BY <1>2
  <2>2. RootCluster \in Cluster /\ IsNamedBy(d, RootCluster)
    BY Clusters, GeometryAssumption DEF IsNamedBy, Cluster
  <2> QED
    BY <1>6, <2>1, <2>2
<1> QED
  BY <1>1, <1>7 DEF Searches, top

\* In a sound file system such names are heads, the table is orderly, and the clusters
\* of Directories are such names.
LEMMA NamesAreHeads ==
  ASSUME NEW f, NEW d \in Disks, Sound(f, d), NEW h, IsNamedBy(d, h)
  PROVE  Opening(f, h) /\ h # 0 /\ h \in Cluster
<1>1. CASE h = RootCluster
  <2>1. RootCluster \in Cluster /\ RootCluster # 0
    BY GeometryAssumption DEF Cluster
  <2> QED
    BY <1>1, <2>1 DEF Opening, InUse, Sound, LinkSound
<1>2. CASE IsNamed(d, h)
  <2>1. h \in Cluster /\ Nameable(f, h)
    BY <1>2, EntryTypes DEF IsNamed, Sound, EntrySound
  <2> QED
    BY <2>1 DEF Opening, InUse, Nameable
<1> QED
  BY <1>1, <1>2 DEF IsNamedBy

LEMMA SoundIsOrderly ==
  ASSUME fat \in Fats, disk \in Disks, Sound(fat, disk)
  PROVE  NoCluster0 /\ NamedOnce
<1>1. LinkSound(fat) /\ EntrySound(fat, disk)
  BY DEF Sound
<1>2. Links = FatLinks(fat)
  BY DEF Links, FatLinks
<1>3. ASSUME NEW p \in Entries
      PROVE  /\ p[1] \in Cluster /\ p[2] \in Slot /\ p = <<p[1], p[2]>>
             /\ IsLive(disk.dir[p[1]][p[2]]) /\ EntryAtPos(p) = disk.dir[p[1]][p[2]]
  BY DEF Entries, EntryAtPos
<1>4. \A p \in Entries: Nameable(fat, EntryAtPos(p).cluster)
  BY <1>1, <1>3 DEF EntrySound
<1>5. \A p, q \in Entries: EntryAtPos(p).cluster = EntryAtPos(q).cluster => p = q
  BY <1>1, <1>3 DEF EntrySound
<1>6. NamedOnce
  BY <1>1, <1>2, <1>4, <1>5 DEF NamedOnce, LinkSound, Nameable
<1>7. ReferencesAllocated
  BY <1>1, <1>2, <1>4 DEF ReferencesAllocated, LinkSound, Nameable
<1>8. NamesClusters(disk)
  BY <1>1 DEF NamesClusters, EntrySound, Nameable
<1> QED
  BY <1>6, <1>7, <1>8 DEF NoCluster0

LEMMA DirectoriesAreNamed == \A h \in Directories: IsNamedBy(disk, h)
BY DEF Directories, IsNamedBy, IsNamed, Entries, EntryAtPos

LEMMA LastSlot ==
  ASSUME NEW s \in Slot, s + 1 \notin Slot
  PROVE  LastInSector(s) /\ LastInCluster(s)
<1> DEFINE n == SectorsPerCluster
           e == EntriesPerSector
<1>1. n \in Nat /\ n > 0 /\ e \in Nat /\ e > 0
  BY GeometryAssumption
<1>2. n * e \in Nat
  BY <1>1
<1>3. s = n * e - 1
  <2> DEFINE m == n * e
  <2>1. s \in 0..m-1 /\ s + 1 \notin 0..m-1 /\ m \in Nat
    BY <1>2 DEF Slot
  <2> HIDE DEF m
  <2>2. s = m - 1
    BY <2>1
  <2> QED
    BY <2>2 DEF m
<1>4. s = (n - 1) * e + (e - 1)
  BY <1>1, <1>3
<1>5. ASSUME NEW q \in Nat, NEW x \in Nat, x > 0, NEW r \in 0..x-1 PROVE (q * x + r) % x = r
  BY <1>5, SMTT(60)
<1> HIDE DEF n, e
<1>6. n - 1 \in Nat /\ e - 1 \in 0..e-1
  BY <1>1
<1>7. s % e = e - 1
  BY <1>1, <1>4, <1>5, <1>6
<1> QED
  BY <1>3, <1>7 DEF LastInSector, LastInCluster, n, e

LEMMA AfterLast ==
  ASSUME NEW s \in Slot
  PROVE  /\ s \in Nat /\ (LastInCluster(s) <=> s + 1 \notin Slot)
         /\ ~LastInSector(s) => s + 1 \in Slot
<1> DEFINE m == SectorsPerCluster * EntriesPerSector
<1>1. m \in Nat /\ Slot = 0..m-1
  BY GeometryAssumption DEF Slot
<1>2. LastInCluster(s) <=> s = m - 1
  BY DEF LastInCluster
<1> HIDE DEF m
<1>3. s \in Nat /\ (LastInCluster(s) <=> s + 1 \notin Slot)
  BY <1>1, <1>2
<1> QED
  BY <1>1, <1>3, LastSlot

\* A cluster that ends its chain is all of it.
LEMMA AloneInChain ==
  ASSUME NEW f \in Fats, NEW c \in Cluster, f[c] = EOC
  PROVE  Chain(f, c) = <<c>> /\ Last(Chain(f, c)) = c /\ Ends(f, c)
<1> DEFINE s == Chain(f, c)
<1>1. Path(f, c, {c}, s)
  <2>1. Closed(f, {c})
    BY DEF Closed
  <2> QED
    BY <2>1, ChainIsPath
<1>2. s = Chain(f, c)
  OBVIOUS
<1> HIDE DEF s
<1>3. s \in Seq({c}) /\ s # <<>> /\ Len(s) = 1 /\ s[1] = c
  <2>1. s \in Seq({c}) /\ s # <<>> /\ s[1] = c /\ \A i \in 1..Len(s): i # Len(s) => f[s[i]] # EOC
    BY <1>1 DEF Path
  <2>2. 1 \in 1..Len(s) /\ Len(s) \in Nat
    BY <2>1
  <2>3. Len(s) = 1
    BY <2>1, <2>2
  <2> QED
    BY <2>1, <2>3
<1>4. s = <<c>>
  BY <1>3
<1>5. Last(s) = c
  BY <1>3 DEF Last
<1> QED
  BY <1>2, <1>4, <1>5 DEF Ends

(***************************************************************************)
(* What is allocated in one session lies behind the hint, and a cluster    *)
(* with an end mark is the last of its directory, as long as there are     *)
(* clusters to grow by.                                                    *)
(***************************************************************************)

Ahead(f, h) == \A x \in Cluster: x >= Start(h) /\ x > File0Cluster => f[x] = 0
LinksFull(f, h, d) == h # FatSize => \A x \in FatLinks(f), s \in Slot: d.dir[x][s].kind # "end"
GrowInv == Ahead(fat, whereClusters) /\ LinksFull(fat, whereClusters, disk)

\* Then there is a free cluster, unless the hint is past all of them.
LEMMA Room ==
  ASSUME NEW f, NEW h \in Hints, h # FatSize, Ahead(f, h)
  PROVE  \E x \in Cluster: x >= Start(h) /\ f[x] = 0
<1> DEFINE x == FatSize - 1
<1>1. FatSize \in Nat /\ RootCluster \in 2..FatSize-1 /\ RootCluster + 2 < FatSize \div 4
  BY GeometryAssumption
<1>2. RootCluster + 2 < x /\ x \in Cluster
  BY <1>1 DEF Cluster
<1>3. x >= Start(h)
  BY <1>1 DEF Start, Hints, Cluster, NoHint
<1>4. x > File0Cluster
  BY <1>2 DEF File0Cluster
<1> HIDE DEF x
<1> QED
  BY <1>2, <1>3, <1>4 DEF Ahead

LEMMA FirstFree ==
  ASSUME NEW f \in Fats, NEW hint \in Hints, NEW start, NEW linked \in BOOLEAN,
         NEW x \in Cluster, x >= Start(hint), f[x] = 0
  PROVE  Taken(allocateCluster(f, hint, start, linked), f, hint, start, linked)
<1> DEFINE avail == {i \in Cluster: i >= Start(hint) /\ f[i] = 0}
           a == allocateCluster(f, hint, start, linked)
<1>1. AllocationOf(a, f, hint, start, linked)
  BY Allocation
<1>2. x \in avail
  OBVIOUS
<1>3. a.cluster = IF avail = {} THEN Full ELSE Min(avail)
  BY DEF allocateCluster, Start
<1>4. avail # {} => Min(avail) \in Cluster
  <2>1. avail \in SUBSET Nat /\ avail \subseteq Cluster
    BY Clusters
  <2> HIDE DEF avail
  <2> QED
    BY <2>1, Minimum
<1> HIDE DEF avail, a
<1>5. a.cluster # Full
  BY <1>2, <1>3, <1>4, Clusters
<1>6. Taken(a, f, hint, start, linked)
  BY <1>1, <1>5 DEF AllocationOf, NoneTaken
<1> QED
  BY <1>6 DEF a

\* A full directory whose last cluster is c grows by cluster i, linked or not.
GrownBy(g, a, c, i, d2) ==
  /\ i \in Cluster /\ a.fat[i] = 0 /\ i >= Start(a.hint)
  /\ g.images = <<[d2 EXCEPT !.dir[i][0] = End]>> /\ g.b.hint = i + 1
  /\ g.b.fat[i] = EOC /\ g.b.fat[c] \in {EOC, i} /\ \A x \in Cluster \ {i, c}: g.b.fat[x] = a.fat[x]
LEMMA GrowthLinks ==
  ASSUME NEW c \in Cluster, NEW a, a.fat \in Fats, a.hint \in Hints, a.fat[c] = EOC,
         NEW d2, NEW g \in GrowDirectory(c, a, d2)
  PROVE  /\ a.hint = FatSize \/ ~Ahead(a.fat, a.hint) \/ \E i: GrownBy(g, a, c, i, d2)
         /\ (\E x \in Cluster: a.fat[x] = 0 /\ x >= Start(a.hint)) => \E i: GrownBy(g, a, c, i, d2)
         /\ (g.b.fat = a.fat /\ g.b.hint = a.hint) \/ \E i: GrownBy(g, a, c, i, d2)
<1> DEFINE grown(linked) == allocateCluster(a.fat, a.hint, c, linked)
           images(b) == IF b.cluster # Full THEN {<<[d2 EXCEPT !.dir[b.cluster][0] = End]>>}
                        ELSE {<<>>} \cup {<<e>>: e \in StaleWrites(d2, c)}
           linkings == IF c = 0 THEN {FALSE} ELSE BOOLEAN
<1>1. PICK linked \in linkings:
        g \in IF linked /\ ~Ends(a.fat, c) THEN {[b |-> a, images |-> <<>>, hung |-> TRUE]}
              ELSE {[b |-> grown(linked), images |-> im, hung |-> FALSE]: im \in images(grown(linked))}
  BY DEF GrowDirectory
<1>2. linked \in BOOLEAN
  OBVIOUS
<1> DEFINE b == grown(linked)
<1>3. Ends(a.fat, c) /\ Last(Chain(a.fat, c)) = c
  BY AloneInChain
<1>4. PICK im \in images(b): g = [b |-> b, images |-> im, hung |-> FALSE]
  BY <1>1, <1>3
<1>5. g.b = b /\ g.images = im
  BY <1>4
<1>6. ASSUME Taken(b, a.fat, a.hint, c, linked) PROVE GrownBy(g, a, c, b.cluster, d2)
  <2> DEFINE i == b.cluster
             f == b.fat
  <2>1. /\ i \in Cluster /\ a.fat[i] = 0 /\ i >= Start(a.hint) /\ b.hint = i + 1
        /\ f = WithCluster(a.fat, c, linked, i)
    BY <1>6 DEF Taken
  <2>2. im = <<[d2 EXCEPT !.dir[i][0] = End]>>
    BY <2>1, Clusters
  <2> HIDE DEF b, images, f, i
  <2>3. i # c
    BY <2>1, Clusters
  <2>4. f[i] = EOC /\ f[c] \in {EOC, i} /\ \A x \in Cluster \ {i, c}: f[x] = a.fat[x]
    <3>1. f = [(IF linked THEN [a.fat EXCEPT ![c] = i] ELSE a.fat) EXCEPT ![i] = EOC]
      BY <1>3, <2>1 DEF WithCluster
    <3>2. CASE linked
      BY <2>1, <2>3, <3>1, <3>2 DEF Fats
    <3>3. CASE ~linked
      BY <2>1, <2>3, <3>1, <3>3 DEF Fats
    <3> QED
      BY <3>2, <3>3
  <2>5. GrownBy(g, a, c, i, d2)
    BY <1>5, <2>1, <2>2, <2>4 DEF GrownBy, f
  <2> QED
    BY <2>5 DEF i
<1>7. AllocationOf(b, a.fat, a.hint, c, linked)
  BY <1>2, Allocation
<1>8. ASSUME NEW x \in Cluster, a.fat[x] = 0, x >= Start(a.hint) PROVE Taken(b, a.fat, a.hint, c, linked)
  BY <1>2, <1>8, FirstFree
<1> HIDE DEF b, images, linkings
<1>9. NoneTaken(b, a.fat, a.hint) => g.b.fat = a.fat /\ g.b.hint = a.hint
  BY <1>5 DEF NoneTaken
<1>10. ASSUME a.hint # FatSize, Ahead(a.fat, a.hint) PROVE \E i: GrownBy(g, a, c, i, d2)
  <2>1. PICK x \in Cluster: x >= Start(a.hint) /\ a.fat[x] = 0
    BY <1>10, Room
  <2> QED
    BY <1>6, <1>8, <2>1
<1> QED
  BY <1>6, <1>7, <1>8, <1>9, <1>10 DEF AllocationOf

\* What is left once e is in slot s of cluster c, the last of its directory: the mark
\* after it, in the next slot or in the first one of a cluster i the directory may be
\* linked to, and everything else in use as it was.
Leaves(f, h, d, c, s, e) ==
  /\ whereClusters # FatSize /\ Start(h) \in Nat /\ Start(h) >= Start(whereClusters)
  /\ \A x \in Cluster: x >= Start(h) /\ x # c => f[x] = fat[x]
  /\ \A x \in FatLinks(f): x \in FatLinks(fat) \/ (x = c /\ s + 1 \notin Slot)
  /\ \A x \in Used: x # c => f[x] = fat[x]
  /\ \A x \in Used, t \in Slot: d.dir[x][t] = IF x = c /\ t = s THEN e
                                              ELSE IF x = c /\ t = s + 1 THEN End ELSE disk.dir[x][t]
  /\ s + 1 \in Slot => f[c] = EOC
  /\ s + 1 \notin Slot => \E i \in Cluster: fat[i] = 0 /\ f[i] = EOC /\ d.dir[i][0] = End
                                            /\ f[c] \in {EOC, i}
Stays(out) == out.fat = fat /\ out.hint = whereClusters /\ Last(out.images) = disk /\ ~(out.ret > 0)
Adding(out, c, s, name, kind) ==
  /\ out.ret \in Cluster /\ out.ret # 0 /\ fat[c] = EOC
  /\ \/ out.hint = FatSize /\ ~CanGrow
     \/ Leaves(out.fat, out.hint, Last(out.images), c, s, Live(kind, name, out.ret))

LEMMA LastImages ==
  ASSUME NEW d1, NEW d2, NEW e
  PROVE  /\ Last(CreateWrites(d1, d2)) = d2
         /\ Last(CreateWrites(d1, d2) \o <<e>>) = e
         /\ Append(CreateWrites(d1, d2), e) = CreateWrites(d1, d2) \o <<e>>
<1> DEFINE S == {disk, d1, d2, e}
           w == CreateWrites(d1, d2)
<1>1. w = <<disk, d1, d2>>
  BY DEF CreateWrites
<1>2. w \in Seq(S) /\ e \in S /\ Last(w) = d2
  BY <1>1 DEF Last
<1> HIDE DEF w, S
<1>3. Last(w \o <<e>>) = e
  BY <1>2, Ending
<1>4. Append(w, e) = w \o <<e>>
  BY <1>2
<1> QED
  BY <1>2, <1>3, <1>4 DEF w

LEMMA StartOfNext == ASSUME NEW x \in Cluster PROVE Start(x + 1) = x + 1 /\ x + 1 \in Nat
<1>1. x \in 0..FatSize-1 /\ FatSize \in Nat
  BY Clusters DEF Cluster
<1> QED
  BY <1>1 DEF Start, NoHint

LEMMA AddEntryLeaves ==
  ASSUME fat \in Fats, whereClusters \in Hints, disk \in Disks, Sound(fat, disk), GrowInv,
         NEW c \in InUse(fat), NEW s \in EndSlots(disk, c),
         NEW name \in Names, NEW kind \in {"file", "dir"}, NEW out \in AddEntry(c, s, name, kind)
  PROVE  Stays(out) \/ Adding(out, c, s, name, kind)
<1> DEFINE a == NewCluster
           d1 == copyFATtoDisk(disk, a.fat)
           slots == WithEndMark([disk.dir[c] EXCEPT ![s] = Live(kind, name, a.cluster)], s)
           d2 == WriteSector(d1, disk, c, s, slots)
           written == CreateWrites(d1, d2)
           d3 == [d2 EXCEPT !.dir[c][s + 1] = End]
           e == Live(kind, name, a.cluster)
<1>1. out \in IF a.cluster = Full THEN {Unchanged(-1)}
              ELSE IF ~LastInSector(s) THEN {Outcome(a.fat, a.hint, written, a.cluster, FALSE)}
              ELSE IF ~LastInCluster(s)
              THEN {Outcome(a.fat, a.hint, Append(written, d3), a.cluster, FALSE)}
              ELSE {Outcome(g.b.fat, g.b.hint, written \o g.images, a.cluster, g.hung):
                    g \in GrowDirectory(c, a, d2)}
  BY DEF AddEntry, NewCluster
<1>2. a = NewCluster
  OBVIOUS
<1> HIDE DEF a
<1>3. CASE a.cluster = Full
  <2>1. out = Unchanged(-1)
    BY <1>1, <1>3
  <2>2. out.images = <<disk>> /\ out.fat = fat /\ out.hint = whereClusters /\ out.ret = -1
    BY <2>1 DEF Unchanged, Outcome
  <2> QED
    BY <2>2 DEF Stays, Last
<1>4. CASE a.cluster # Full
  <2>1. /\ a.cluster \in Cluster /\ fat[a.cluster] = 0 /\ a.cluster >= Start(whereClusters)
        /\ a.fat \in Fats /\ a.fat = [fat EXCEPT ![a.cluster] = EOC] /\ a.hint = a.cluster + 1
        /\ a.hint \in Hints
        /\ CanGrow => \E x \in Cluster: a.fat[x] = 0 /\ x >= a.hint
    BY <1>2, <1>4, FirstTaken
  <2>2. /\ LinkSound(fat) /\ fat[0] = EOC /\ EOC # 0 /\ a.cluster \in Nat /\ a.cluster # 0
        /\ c \in Cluster /\ fat[c] # 0 /\ s \in Slot
    BY <2>1, Clusters DEF Sound, LinkSound, InUse, EndSlots
  <2>3. FatWritten(a, d1)
    BY <2>1, FatWrite
  <2>4. s \in Nat /\ (LastInCluster(s) <=> s + 1 \notin Slot) /\ (~LastInSector(s) => s + 1 \in Slot)
    BY <2>2, AfterLast
  <2>5. whereClusters # FatSize
    <3>1. a.cluster < FatSize /\ FatSize # NoHint /\ a.cluster \in Nat /\ FatSize \in Nat
      BY <2>1, Clusters DEF Cluster, NoHint
    <3> QED
      BY <2>1, <3>1 DEF Start
  <2>6. fat[c] = EOC
    <3>1. CASE c = 0
      BY <2>2, <3>1
    <3>2. CASE c # 0
      <4>1. disk.dir[c][s].kind = "end"
        BY <2>2, <3>2, EntryInDirectory DEF EndSlots
      <4>2. c \notin FatLinks(fat)
        BY <2>2, <2>5, <4>1 DEF GrowInv, LinksFull
      <4> QED
        BY <2>2, <4>2 DEF FatLinks
    <3> QED
      BY <3>1, <3>2
  <2>7. a.fat[a.cluster] = EOC /\ \A x \in Cluster \ {a.cluster}: a.fat[x] = fat[x]
    BY <2>1 DEF Fats
  <2>8. a.cluster # c /\ a.fat[c] = EOC
    BY <2>1, <2>2, <2>6, <2>7
  <2>9. Start(a.hint) = a.hint /\ a.hint \in Nat /\ a.hint >= Start(whereClusters) /\ Start(whereClusters) \in Nat
    <3>1. Start(a.hint) = a.hint /\ a.hint \in Nat
      BY <2>1, StartOfNext
    <3>2. Start(whereClusters) \in Nat
      BY Clusters DEF Start, Hints, NoHint
    <3> QED
      BY <2>1, <2>2, <3>1, <3>2
  <2>10. NewSlots(slots, a, c, s, name, kind) /\ d2 = WriteSector(d1, disk, c, s, slots)
    BY DEF NewSlots
  <2>30. e = Live(kind, name, a.cluster)
    OBVIOUS
  <2> HIDE DEF d1, slots, d2
  <2>11. EntryWritten(a, c, s, name, kind, d1, d2)
    BY <2>1, <2>2, <2>3, <2>10, EntryWrite
  <2>12. d1 \in Disks /\ d2 \in Disks
    BY <2>3, <2>11 DEF FatWritten, EntryWritten
  <2> HIDE DEF e
  <2>13. \A x \in Used: x \in Cluster /\ x # 0 /\ fat[x] # 0 /\ x # a.cluster
    BY <2>1 DEF Used, InUse
  <2>14. \A x \in Used, t \in Slot: d2.dir[x][t] = IF x = c /\ t = s THEN e
                                              ELSE IF x = c /\ t = s + 1 /\ ~LastInSector(s) THEN End
                                              ELSE disk.dir[x][t]
    BY <2>3, <2>11, <2>13, <2>30 DEF FatWritten, EntryWritten
  <2>15. \A x \in Cluster: x >= a.hint => x # a.cluster /\ a.fat[x] = fat[x]
    <3> SUFFICES ASSUME NEW x \in Cluster, x >= a.hint PROVE x # a.cluster
      BY <2>7
    <3>1. x \in Nat
      BY Clusters
    <3> QED
      BY <2>1, <2>2, <3>1
  <2>16. FatLinks(a.fat) = FatLinks(fat)
    BY <2>1, <2>2, <2>7 DEF FatLinks
  <2>17. ASSUME NEW d, \A x \in Used, t \in Slot: d.dir[x][t] = IF x = c /\ t = s THEN e
                                       ELSE IF x = c /\ t = s + 1 THEN End ELSE disk.dir[x][t],
                s + 1 \in Slot
         PROVE  Leaves(a.fat, a.hint, d, c, s, e)
    BY <2>5, <2>7, <2>8, <2>9, <2>13, <2>15, <2>16, <2>17 DEF Leaves
  <2>18. ASSUME out.ret = a.cluster, Leaves(out.fat, out.hint, Last(out.images), c, s, e)
         PROVE  Adding(out, c, s, name, kind)
    BY <2>1, <2>2, <2>6, <2>18, <2>30 DEF Adding
  <2>19. CASE ~LastInSector(s)
    <3>1. out = Outcome(a.fat, a.hint, written, a.cluster, FALSE)
      BY <1>1, <1>4, <2>19
    <3>2. out.images = written /\ out.ret = a.cluster /\ out.hint = a.hint /\ out.fat = a.fat
      BY <3>1 DEF Outcome
    <3>3. Last(written) = d2
      BY LastImages
    <3>4. Leaves(a.fat, a.hint, d2, c, s, e)
      BY <2>4, <2>14, <2>17, <2>19
    <3> HIDE DEF written
    <3> QED
      BY <2>18, <3>2, <3>3, <3>4
  <2>20. CASE LastInSector(s) /\ ~LastInCluster(s)
    <3>1. out = Outcome(a.fat, a.hint, Append(written, d3), a.cluster, FALSE)
      BY <1>1, <1>4, <2>20
    <3>2. out.images = Append(written, d3) /\ out.ret = a.cluster /\ out.hint = a.hint /\ out.fat = a.fat
      BY <3>1 DEF Outcome
    <3>4. EndPut(d2, c, s + 1, d3)
      BY <2>2, <2>12, EndWritten
    <3> HIDE DEF d3
    <3>7. Append(CreateWrites(d1, d2), d3) = CreateWrites(d1, d2) \o <<d3>>
      BY LastImages
    <3>8. Last(CreateWrites(d1, d2) \o <<d3>>) = d3
      BY LastImages
    <3>3. Last(out.images) = d3
      BY <3>2, <3>7, <3>8
    <3> HIDE DEF written
    <3>5. \A x \in Used, t \in Slot: d3.dir[x][t] = IF x = c /\ t = s THEN e
                                       ELSE IF x = c /\ t = s + 1 THEN End ELSE disk.dir[x][t]
      <4>1. s # s + 1
        BY <2>4
      <4> QED
        BY <2>13, <2>14, <2>20, <3>4, <4>1 DEF EndPut
    <3>6. Leaves(a.fat, a.hint, d3, c, s, e)
      BY <2>4, <2>17, <2>20, <3>5
    <3> QED
      BY <2>18, <3>2, <3>3, <3>6
  <2>21. CASE LastInSector(s) /\ LastInCluster(s)
    <3>1. PICK g \in GrowDirectory(c, a, d2):
            out = Outcome(g.b.fat, g.b.hint, written \o g.images, a.cluster, g.hung)
      BY <1>1, <1>4, <2>21
    <3>2. out.images = written \o g.images /\ out.ret = a.cluster /\ out.hint = g.b.hint /\ out.fat = g.b.fat
      BY <3>1 DEF Outcome
    <3>3. s + 1 \notin Slot
      BY <2>4, <2>21
    <3>4. Ahead(a.fat, a.hint)
      <4>1. \A x \in Cluster: x >= a.hint => x >= Start(whereClusters)
        BY <2>9, Clusters
      <4> QED
        BY <2>9, <2>15, <4>1 DEF Ahead, GrowInv
    <3>5. /\ a.hint = FatSize \/ \E i: GrownBy(g, a, c, i, d2)
          /\ (\E x \in Cluster: a.fat[x] = 0 /\ x >= Start(a.hint)) => \E i: GrownBy(g, a, c, i, d2)
          /\ g.b.hint = a.hint \/ \E i: GrownBy(g, a, c, i, d2)
      BY <2>1, <2>2, <2>8, <3>4, GrowthLinks
    <3>6. CASE ~(\E i: GrownBy(g, a, c, i, d2))
      <4>1. out.hint = FatSize
        BY <3>2, <3>5, <3>6
      <4>2. ~CanGrow
        BY <2>1, <2>9, <3>5, <3>6
      <4> QED
        BY <2>1, <2>2, <2>6, <3>2, <4>1, <4>2 DEF Adding
    <3>7. ASSUME NEW i, GrownBy(g, a, c, i, d2) PROVE Adding(out, c, s, name, kind)
      <4> DEFINE d == [d2 EXCEPT !.dir[i][0] = End]
                 f == g.b.fat
      <4>1. /\ i \in Cluster /\ a.fat[i] = 0 /\ i >= a.hint /\ g.images = <<d>> /\ g.b.hint = i + 1
            /\ f[i] = EOC /\ f[c] \in {EOC, i} /\ \A x \in Cluster \ {i, c}: f[x] = a.fat[x]
        BY <2>9, <3>7 DEF GrownBy
      <4>2. EndPut(d2, i, 0, d)
        BY <2>12, <4>1, EndWritten
      <4>3. out.images = written \o <<d>> /\ Last(written \o <<d>>) = d
        BY <3>2, <4>1, LastImages
      <4>31. f = g.b.fat
        OBVIOUS
      <4> HIDE DEF d, written, f
      <4>4. i # c /\ i # a.cluster /\ fat[i] = 0 /\ i \notin Used
        BY <2>2, <2>7, <2>8, <2>13, <2>15, <4>1, Clusters
      <4>5. Start(i + 1) = i + 1 /\ i + 1 \in Nat /\ i + 1 >= Start(whereClusters) /\ i + 1 > a.hint
        <5>1. i \in Nat /\ Start(i + 1) = i + 1
          BY <4>1, StartOfNext, Clusters
        <5> QED
          BY <2>9, <4>1, <5>1
      <4>6. \A x \in Cluster: x >= i + 1 /\ x # c => f[x] = fat[x]
        <5> SUFFICES ASSUME NEW x \in Cluster, x >= i + 1, x # c PROVE f[x] = fat[x]
          OBVIOUS
        <5>1. x # i /\ x >= a.hint
          <6>1. x \in Nat /\ i \in Nat
            BY <4>1, Clusters
          <6> QED
            BY <2>9, <4>5, <6>1
        <5> QED
          BY <2>15, <4>1, <5>1
      <4>7. \A x \in FatLinks(f): x \in FatLinks(fat) \/ (x = c /\ s + 1 \notin Slot)
        <5>1. \A x \in FatLinks(f): x = c \/ x \in FatLinks(a.fat)
          BY <4>1 DEF FatLinks
        <5> QED
          BY <2>16, <3>3, <5>1
      <4>8. \A x \in Used: x # c => f[x] = fat[x]
        BY <2>7, <2>13, <4>1, <4>4
      <4>9. \A x \in Used, t \in Slot: d.dir[x][t] = IF x = c /\ t = s THEN e
                                       ELSE IF x = c /\ t = s + 1 THEN End ELSE disk.dir[x][t]
        <5>1. \A x \in Used, t \in Slot: x # i /\ x \in Cluster /\ t # s + 1
          BY <2>13, <3>3, <4>4
        <5>2. \A x \in Used, t \in Slot: d.dir[x][t] = d2.dir[x][t]
          BY <4>2, <5>1 DEF EndPut
        <5> QED
          BY <2>14, <5>1, <5>2
      <4>10. d.dir[i][0] = End
        BY <4>1, <4>2, FirstSlot DEF EndPut
      <4>11. Leaves(f, i + 1, d, c, s, e)
        BY <2>5, <3>3, <4>1, <4>4, <4>5, <4>6, <4>7, <4>8, <4>9, <4>10, SMTT(60) DEF Leaves
      <4> QED
        BY <2>18, <3>2, <4>1, <4>3, <4>11, <4>31
    <3> QED
      BY <3>6, <3>7
  <2> QED
    BY <2>19, <2>20, <2>21
<1> QED
  BY <1>3, <1>4

LEMMA CreateLeaves ==
  ASSUME fat \in Fats, whereClusters \in Hints, disk \in Disks, Sound(fat, disk), GrowInv,
         NEW path, Len(path) \in Nat, NEW name \in Names, NEW kind \in {"file", "dir"},
         NEW out \in createFile(path, name, kind)
  PROVE  \/ Stays(out)
         \/ \E c \in InUse(fat), s \in Slot: Chosen(searchFile(disk, fat, path), c, s)
                                             /\ Adding(out, c, s, name, kind)
<1> DEFINE dirCluster == searchFile(disk, fat, path)
           visited == Chain(fat, dirCluster)
           withEnd == {i \in DOMAIN visited: EndSlots(disk, visited[i]) # {}}
           i == Min(withEnd)
           c == visited[i]
           s == Min(EndSlots(disk, c))
<1>1. out \in IF dirCluster = Diverges THEN {Hang}
              ELSE IF withEnd # {} THEN AddEntry(c, s, name, kind)
              ELSE IF Ends(fat, dirCluster) THEN {Unchanged(-1)} ELSE {Hang}
  BY DEF createFile
<1>2. dirCluster \in InUse(fat) /\ LinkSound(fat) /\ dirCluster \in Cluster
  BY SearchIsFine DEF Sound, InUse
<1>3. Stays(Unchanged(-1)) /\ Stays(Hang)
  <2>1. Last(<<disk>>) = disk
    BY DEF Last
  <2> QED
    BY <2>1 DEF Unchanged, Hang, Outcome, Stays
<1>4. dirCluster = searchFile(disk, fat, path) /\ visited = Chain(fat, dirCluster)
  OBVIOUS
<1> HIDE DEF dirCluster
<1>6. CASE withEnd = {} \/ dirCluster = Diverges
  BY <1>1, <1>3, <1>6
<1>7. CASE withEnd # {} /\ dirCluster # Diverges
  <2>1. Path(fat, dirCluster, InUse(fat), visited)
    BY <1>2, ChainsOfSound
  <2>2. visited \in Seq(InUse(fat))
    BY <2>1 DEF Path
  <2> HIDE DEF visited
  <2>3. \A j \in withEnd: j \in 1..Len(visited) /\ EndSlots(disk, visited[j]) # {}
    BY <2>2
  <2>4. \A j \in 1..Len(visited): EndSlots(disk, visited[j]) # {} => j \in withEnd
    BY <2>2
  <2>5. i \in withEnd /\ \A j \in withEnd: i <= j
    <3>1. withEnd \in SUBSET Nat
      BY <2>2
    <3> HIDE DEF withEnd
    <3> QED
      BY <1>7, <3>1, Minimum
  <2>6. c = visited[i]
    OBVIOUS
  <2> HIDE DEF withEnd, i, c
  <2>7. c \in InUse(fat) /\ EndSlots(disk, c) # {} /\ i \in 1..Len(visited) /\ c \in Cluster
    BY <2>2, <2>3, <2>5, <2>6 DEF InUse
  <2>8. s \in EndSlots(disk, c) /\ s \in Slot /\ \A t \in EndSlots(disk, c): s <= t
    <3>1. EndSlots(disk, c) \in SUBSET Nat /\ EndSlots(disk, c) \subseteq Slot
      BY SlotsAreNumbers DEF EndSlots
    <3> QED
      BY <2>7, <3>1, Minimum
  <2> HIDE DEF s
  <2>9. \A j \in 1..i-1: EndSlots(disk, visited[j]) = {}
    <3> SUFFICES ASSUME NEW j \in 1..i-1, EndSlots(disk, visited[j]) # {} PROVE FALSE
      OBVIOUS
    <3>1. j \in 1..Len(visited) /\ ~(i <= j)
      BY <2>7
    <3> QED
      BY <2>4, <2>5, <3>1
  <2>10. Chosen(dirCluster, c, s)
    BY <1>2, <1>4, <1>7, <2>6, <2>7, <2>8, <2>9 DEF Chosen
  <2>11. out \in AddEntry(c, s, name, kind)
    BY <1>1, <1>7
  <2>12. Stays(out) \/ Adding(out, c, s, name, kind)
    BY <2>7, <2>8, <2>11, AddEntryLeaves
  <2> QED
    BY <1>4, <2>7, <2>8, <2>10, <2>12
<1> QED
  BY <1>6, <1>7

Grows(f, h, d) == Ahead(f, h) /\ LinksFull(f, h, d)
LEMMA NoneAhead == ASSUME NEW f, NEW d PROVE Grows(f, FatSize, d)
<1>1. \A x \in Cluster: ~(x >= Start(FatSize))
  <2>1. FatSize \in Nat /\ Start(FatSize) = FatSize
    BY Clusters DEF Start, NoHint
  <2> QED
    BY <2>1 DEF Cluster
<1> QED
  BY <1>1 DEF Grows, Ahead, LinksFull

LEMMA GrowInit == Init => GrowInv
<1> SUFFICES ASSUME Init PROVE GrowInv
  OBVIOUS
<1>1. ImageDisk \in Disks /\ fat \in readFATfromDisk(ImageDisk) /\ whereClusters \in Hints
  BY ImageIsDisk, HintAssumption DEF Init, Hints
<1>2. PICK junk \in [Overwritten(ImageDisk) \cap 0..LoadedWords-1 -> {0, EOC}]:
        fat = [x \in Cluster |-> IF x >= LoadedWords THEN 0
                               ELSE IF x \in DOMAIN junk THEN junk[x] ELSE ImageDisk.fat[x]]
  BY <1>1 DEF readFATfromDisk
<1>3. \A x \in Cluster: ImageDisk.fat[x] \in {0, EOC}
  BY DEF ImageDisk, ImageFat
<1>4. FatLinks(fat) = {}
  BY <1>2, <1>3 DEF FatLinks
<1>5. File0Cluster \in Nat
  BY GeometryAssumption DEF File0Cluster
<1>6. Unused(fat, ImageDisk, File0Cluster + 1)
  BY <1>1, ImageIsDisk
<1>7. \A x \in Cluster: x > File0Cluster => x >= File0Cluster + 1
  BY <1>5, Clusters
<1> QED
  BY <1>4, <1>6, <1>7 DEF GrowInv, Ahead, LinksFull, Unused

LEMMA CreateGrows ==
  ASSUME fat \in Fats, whereClusters \in Hints, disk \in Disks, Sound(fat, disk), GrowInv,
         NEW c \in InUse(fat), NEW s \in Slot, NEW dir, Chosen(dir, c, s),
         NEW name \in Names, NEW kind \in {"file", "dir"}, NEW e, e.kind \in {"file", "dir"},
         fat[c] = EOC,
         NEW f, NEW h, NEW d, LinkSound(f), Leaves(f, h, d, c, s, e)
  PROVE  Grows(f, h, d)
<1>1. /\ Start(h) \in Nat /\ Start(h) >= Start(whereClusters) /\ whereClusters # FatSize
      /\ \A x \in Cluster: x >= Start(h) /\ x # c => f[x] = fat[x]
      /\ \A x \in FatLinks(f): x \in FatLinks(fat) \/ (x = c /\ s + 1 \notin Slot)
      /\ \A x \in Used, t \in Slot: d.dir[x][t] = IF x = c /\ t = s THEN e
                                          ELSE IF x = c /\ t = s + 1 THEN End ELSE disk.dir[x][t]
  BY DEF Leaves
<1>2. Start(whereClusters) \in Nat
  BY Clusters DEF Start, Hints, NoHint
<1>3. Ahead(fat, whereClusters) /\ LinksFull(fat, whereClusters, disk)
  BY DEF GrowInv
<1>4. Ahead(f, h)
  <2> SUFFICES ASSUME NEW x \in Cluster, x >= Start(h), x > File0Cluster PROVE f[x] = 0
    BY DEF Ahead
  <2>1. x >= Start(whereClusters)
    BY <1>1, <1>2, Clusters
  <2>2. fat[x] = 0
    BY <1>3, <2>1 DEF Ahead
  <2>3. x # c
    BY <2>2 DEF InUse
  <2> QED
    BY <1>1, <2>2, <2>3
<1>5. LinksFull(f, h, d)
  <2> SUFFICES ASSUME NEW x \in FatLinks(f), NEW t \in Slot PROVE d.dir[x][t].kind # "end"
    BY DEF LinksFull
  <2>0. x # 0 /\ x \in Cluster
    BY DEF LinkSound, FatLinks
  <2>1. CASE x \in FatLinks(fat)
    <3>1. x \in Used /\ x # c
      BY <2>0, <2>1, Clusters DEF FatLinks, Used, InUse
    <3>2. d.dir[x][t] = disk.dir[x][t]
      BY <1>1, <3>1
    <3> QED
      BY <1>1, <1>3, <2>1, <3>2 DEF LinksFull
  <2>2. CASE x = c /\ s + 1 \notin Slot
    <3>1. x \in Used
      BY <2>0, <2>2 DEF Used
    <3>2. CASE t = s
      BY <1>1, <2>2, <3>1, <3>2
    <3>3. CASE t # s
      <4>1. t # s + 1
        BY <2>2
      <4>2. d.dir[x][t] = disk.dir[x][t]
        BY <1>1, <3>1, <3>3, <4>1
      <4>3. t \notin EndSlots(disk, x)
        <5>1. t \in 0..s
          <6>1. t \in Nat /\ s \in Nat /\ ~(t > s)
            <7> DEFINE m == SectorsPerCluster * EntriesPerSector
            <7>1. m \in Nat /\ Slot = 0..m-1
              BY GeometryAssumption DEF Slot
            <7> HIDE DEF m
            <7> QED
              BY <2>2, <7>1
          <6> QED
            BY <6>1
        <5>2. s \in Nat /\ ~(s <= t)
          BY <3>3, <5>1, SlotsAreNumbers
        <5> QED
          BY <2>2, <5>2 DEF Chosen
      <4>4. EntryAt(disk, x, t) = disk.dir[x][t]
        BY <2>0, EntryInDirectory
      <4> QED
        BY <4>2, <4>3, <4>4 DEF EndSlots
    <3> QED
      BY <3>2, <3>3
  <2> QED
    BY <1>1, <2>1, <2>2
<1> QED
  BY <1>4, <1>5 DEF Grows

\* The chain of a cluster an entry may name, and the listing of a directory whose
\* chain and slots are the same.
LEMMA ChainUsed ==
  ASSUME fat \in Fats, LinkSound(fat), NEW y \in Used, NEW s, s = Chain(fat, y)
  PROVE  /\ ChainOf(fat, y, s) /\ s \in Seq(Cluster) /\ Len(s) \in Nat \ {0} /\ s[1] = y
         /\ \A i \in 1..Len(s): s[i] \in Used /\ s[i] \in Cluster /\ s[i] # 0 /\ fat[s[i]] # 0
<1>1. y \in InUse(fat) /\ y \in InUse(fat) \ {0}
  BY DEF Used
<1>2. ChainOf(fat, y, s)
  BY <1>1, SoundChain
<1>3. Path(fat, y, InUse(fat) \ {0}, s)
  BY <1>1, ChainsOfSound, ChainIsPath
<1>4. s \in Seq(InUse(fat) \ {0})
  BY <1>3 DEF Path
<1> QED
  BY <1>2, <1>4 DEF ChainOf, Used, InUse

LEMMA SameListing ==
  ASSUME disk \in Disks, NEW d \in Disks, NEW f, NEW y, NEW s, s = Chain(fat, y), s = Chain(f, y),
         s \in Seq(Cluster), \A i \in 1..Len(s): s[i] \in Cluster \ {0},
         \A i \in 1..Len(s), t \in Slot: d.dir[s[i]][t] = disk.dir[s[i]][t]
  PROVE  Listing(d, f, y) = Listing(disk, fat, y)
<1>1. \A i \in 1..Len(s), t \in Slot: EntryAt(d, s[i], t) = EntryAt(disk, s[i], t)
  BY EntryInDirectory
<1>2. \A x: Shows(d, s, x) <=> Shows(disk, s, x)
  BY <1>1, AlikeShow
<1>3. \A x: x \in Listing(d, f, y) <=> IsLive(x) /\ Shows(d, s, x)
  BY ListingShows
<1>4. \A x: x \in Listing(disk, fat, y) <=> IsLive(x) /\ Shows(disk, s, x)
  BY ListingShows
<1> QED
  BY <1>2, <1>3, <1>4

\* The entry e in slot k of the last cluster, where the first end mark was.
EntryAdded(d, s, m, k, e, q) ==
  /\ m \in Nat \ {0} /\ m = Len(s) /\ k \in EndSlots(disk, s[m])
  /\ \A u \in EndSlots(disk, s[m]): k <= u
  /\ e.kind # "end"
  /\ \A j \in 1..m-1: EndSlots(disk, s[j]) = {}
  /\ \A j \in 1..m-1, t \in Slot: EntryAt(d, s[j], t) = EntryAt(disk, s[j], t)
  /\ \A t \in Slot: EntryAt(d, s[m], t) = IF t = k THEN e ELSE IF t = k + 1 THEN End
                                           ELSE EntryAt(disk, s[m], t)
  /\ \A j \in 1..m: q[j] = s[j]
  /\ Len(q) = m \/ (Len(q) = m + 1 /\ 0 \in EndSlots(d, q[m + 1]))
LEMMA GrownShows ==
  ASSUME NEW d, NEW s, NEW m, NEW k, NEW e, NEW q, EntryAdded(d, s, m, k, e, q)
  PROVE  \A x: Shows(d, q, x) <=> Shows(disk, s, x) \/ x = e
<1>0. /\ m \in Nat \ {0} /\ m = Len(s) /\ k \in EndSlots(disk, s[m])
      /\ \A u \in EndSlots(disk, s[m]): k <= u
      /\ e.kind # "end"
      /\ \A j \in 1..m-1: EndSlots(disk, s[j]) = {}
      /\ \A j \in 1..m-1, t \in Slot: EntryAt(d, s[j], t) = EntryAt(disk, s[j], t)
      /\ \A t \in Slot: EntryAt(d, s[m], t) = IF t = k THEN e ELSE IF t = k + 1 THEN End
                                               ELSE EntryAt(disk, s[m], t)
      /\ \A j \in 1..m: q[j] = s[j]
      /\ Len(q) = m \/ (Len(q) = m + 1 /\ 0 \in EndSlots(d, q[m + 1]))
  BY DEF EntryAdded
<1> USE <1>0
<1>1. k \in Slot /\ k \in Nat /\ m \in 1..m /\ Slot \subseteq Nat
  BY SlotsAreNumbers DEF EndSlots
<1>2. \A j \in 1..m: j # m => j \in 1..m-1
  OBVIOUS
<1>3. ASSUME NEW j \in 1..m, NEW t \in Slot PROVE Shown(disk, s, j, t) <=> (j # m \/ t < k)
  <2>1. \A i \in 1..j-1: i \in 1..m-1
    OBVIOUS
  <2>2. \A i \in 1..j-1: EndSlots(disk, s[i]) = {}
    BY <2>1
  <2>3. CASE j # m
    <3>1. EndSlots(disk, s[j]) = {}
      BY <1>2, <2>3
    <3> QED
      BY <2>2, <2>3, <3>1 DEF Shown
  <2>4. CASE j = m
    <3>1. (\A u \in EndSlots(disk, s[m]): t < u) <=> t < k
      <4>1. \A u \in EndSlots(disk, s[m]): u \in Nat /\ k <= u
        BY <1>1 DEF EndSlots
      <4> QED
        BY <1>1, <4>1
    <3> QED
      BY <2>2, <2>4, <3>1 DEF Shown
  <2> QED
    BY <2>3, <2>4
<1>4. \A j \in 1..m-1: EndSlots(d, s[j]) = {}
  <2>1. \A j \in 1..m-1: EndSlots(d, s[j]) = EndSlots(disk, s[j])
    BY DEF EndSlots
  <2> QED
    BY <2>1
<1>5. \A u \in EndSlots(d, s[m]): u \in Nat /\ u > k
  <2> SUFFICES ASSUME NEW u \in EndSlots(d, s[m]) PROVE u \in Nat /\ u > k
    OBVIOUS
  <2>1. u \in Slot /\ EntryAt(d, s[m], u).kind = "end" /\ u \in Nat
    BY <1>1 DEF EndSlots
  <2>2. CASE u = k + 1
    BY <1>1, <2>2
  <2>3. CASE u # k + 1
    <3>1. u # k /\ u \in EndSlots(disk, s[m])
      BY <2>1, <2>3 DEF EndSlots
    <3> QED
      BY <1>1, <2>1, <3>1
  <2> QED
    BY <2>2, <2>3
<1>6. ASSUME NEW t \in Slot PROVE (\A u \in EndSlots(d, s[m]): t < u) <=> t <= k
  <2>1. ASSUME t <= k PROVE \A u \in EndSlots(d, s[m]): t < u
    BY <1>1, <1>5, <2>1
  <2>2. ASSUME ~(t <= k) PROVE \E u \in EndSlots(d, s[m]): ~(t < u)
    <3>1. t >= k + 1 /\ t \in Nat
      BY <1>1, <2>2
    <3>2. k + 1 \in Slot
      <4> DEFINE n == SectorsPerCluster * EntriesPerSector
      <4>1. n \in Nat /\ Slot = 0..n-1
        BY GeometryAssumption DEF Slot
      <4> HIDE DEF n
      <4> QED
        BY <1>1, <3>1, <4>1
    <3>3. EntryAt(d, s[m], k + 1) = End /\ k + 1 # k
      BY <1>1, <3>2
    <3>4. k + 1 \in EndSlots(d, s[m])
      BY <3>2, <3>3 DEF EndSlots, End, Blank
    <3> QED
      BY <1>1, <3>1, <3>4
  <2> QED
    BY <2>1, <2>2
<1>7. ASSUME NEW j \in 1..Len(q), NEW t \in Slot
      PROVE  Shown(d, q, j, t) <=> j \in 1..m /\ (j # m \/ t <= k)
  <2>1. CASE j \in 1..m
    <3>1. \A i \in 1..j-1: i \in 1..m-1 /\ i \in 1..m
      BY <2>1
    <3>2. \A i \in 1..j-1: EndSlots(d, q[i]) = {}
      BY <1>4, <3>1
    <3>3. CASE j # m
      <4>1. EndSlots(d, q[j]) = {}
        BY <1>2, <1>4, <2>1, <3>3
      <4> QED
        BY <2>1, <3>2, <3>3, <4>1 DEF Shown
    <3>4. CASE j = m
      <4>1. EndSlots(d, q[j]) = EndSlots(d, s[m])
        BY <2>1, <3>4
      <4> QED
        BY <1>6, <2>1, <3>2, <3>4, <4>1 DEF Shown
    <3> QED
      BY <3>3, <3>4
  <2>2. CASE j \notin 1..m
    <3>1. j = m + 1 /\ 0 \in EndSlots(d, q[j])
      BY <2>2
    <3>2. ~(t < 0)
      BY <1>1
    <3> QED
      BY <2>2, <3>1, <3>2 DEF Shown
  <2> QED
    BY <2>1, <2>2
<1>8. m \in 1..Len(q) /\ \A j \in 1..m: j \in 1..Len(q)
  BY <1>1
<1>9. ASSUME NEW x, Shows(d, q, x) PROVE Shows(disk, s, x) \/ x = e
  <2>1. PICK j \in 1..Len(q), t \in Slot: Shown(d, q, j, t) /\ x = EntryAt(d, q[j], t)
    BY <1>9 DEF Shows
  <2>2. j \in 1..m /\ (j # m \/ t <= k) /\ x = EntryAt(d, s[j], t)
    BY <1>7, <2>1
  <2>3. CASE j # m
    <3>1. x = EntryAt(disk, s[j], t) /\ Shown(disk, s, j, t)
      BY <1>2, <1>3, <2>2, <2>3
    <3> QED
      BY <2>2, <3>1 DEF Shows
  <2>4. CASE j = m /\ t = k
    BY <2>2, <2>4
  <2>5. CASE j = m /\ t # k
    <3>1. t < k /\ t # k + 1
      BY <1>1, <2>2, <2>5
    <3>2. x = EntryAt(disk, s[j], t) /\ Shown(disk, s, j, t)
      BY <1>3, <2>2, <2>5, <3>1
    <3> QED
      BY <2>2, <3>2 DEF Shows
  <2> QED
    BY <2>3, <2>4, <2>5
<1>10. ASSUME NEW x, Shows(disk, s, x) PROVE Shows(d, q, x)
  <2>1. PICK j \in 1..m, t \in Slot: Shown(disk, s, j, t) /\ x = EntryAt(disk, s[j], t)
    BY <1>10 DEF Shows
  <2>2. j # m \/ t < k
    BY <1>3, <2>1
  <2>3. Shown(d, q, j, t)
    BY <1>1, <1>7, <1>8, <2>2
  <2>4. x = EntryAt(d, s[j], t)
    <3>1. CASE j # m
      BY <1>2, <2>1, <3>1
    <3>2. CASE j = m
      <4>1. t # k /\ t # k + 1
        BY <1>1, <2>2, <3>2
      <4> QED
        BY <2>1, <3>2, <4>1
    <3> QED
      BY <3>1, <3>2
  <2> QED
    BY <1>8, <2>3, <2>4 DEF Shows
<1>11. Shows(d, q, e)
  <2>1. Shown(d, q, m, k)
    BY <1>1, <1>7, <1>8
  <2>2. e = EntryAt(d, q[m], k)
    BY <1>1
  <2> QED
    BY <1>1, <1>8, <2>1, <2>2 DEF Shows
<1> QED
  BY <1>9, <1>10, <1>11

\* Where the entry goes: the last cluster of the chain of its directory.
LEMMA ChosenIsLast ==
  ASSUME fat \in Fats, disk \in Disks, LinkSound(fat), NEW dir \in Used, NEW c, NEW s,
         Chosen(dir, c, s), fat[c] = EOC, NEW q, q = Chain(fat, dir)
  PROVE  /\ c = q[Len(q)] /\ s \in EndSlots(disk, c) /\ \A t \in EndSlots(disk, c): s <= t
         /\ \A j \in 1..Len(q)-1: EndSlots(disk, q[j]) = {}
<1>1. PICK i \in 1..Len(q): c = q[i] /\ \A j \in 1..i-1: EndSlots(disk, q[j]) = {}
  BY DEF Chosen
<1>2. ChainOf(fat, dir, q)
  BY ChainUsed
<1>3. i = Len(q)
  <2>1. i # Len(q) => q[i] \in FatLinks(fat)
    BY <1>2 DEF ChainOf
  <2> QED
    BY <1>1, <2>1 DEF FatLinks
<1> QED
  BY <1>1, <1>3 DEF Chosen

\* Directories other than dir list what they did.
LEMMA OthersListSame ==
  ASSUME fat \in Fats, disk \in Disks, Sound(fat, disk), NEW f \in Fats, NEW d \in Disks, Sound(f, d),
         NEW dir, IsNamedBy(disk, dir), NEW c, NEW s, Chosen(dir, c, s), fat[c] = EOC,
         NEW e, NEW h, Leaves(f, h, d, c, s, e),
         NEW y, y # dir, IsNamedBy(disk, y), IsNamedBy(d, y)
  PROVE  Listing(d, f, y) = Listing(disk, fat, y)
<1>1. LinkSound(fat) /\ LinkSound(f)
  BY DEF Sound
<1>2. Opening(fat, dir) /\ Opening(fat, y) /\ Opening(f, y) /\ dir # 0 /\ y # 0
  BY NamesAreHeads
<1>3. dir \in Used /\ y \in Used /\ y \in InUse(f)
  BY <1>2 DEF Opening, Used
<1> DEFINE q == Chain(fat, dir)
           r == Chain(fat, y)
           z == Chain(f, y)
<1>4. q = Chain(fat, dir) /\ r = Chain(fat, y) /\ z = Chain(f, y)
  OBVIOUS
<1> HIDE DEF q, r, z
<1>5. ChainOf(fat, dir, q) /\ Len(q) \in Nat \ {0}
  BY <1>1, <1>3, <1>4, ChainUsed
<1>6. /\ ChainOf(fat, y, r) /\ r \in Seq(Cluster) /\ Len(r) \in Nat \ {0}
      /\ \A i \in 1..Len(r): r[i] \in Used /\ r[i] \in Cluster /\ r[i] # 0 /\ fat[r[i]] # 0
  BY <1>1, <1>3, <1>4, ChainUsed
<1>7. ChainOf(f, y, z)
  BY <1>1, <1>3, <1>4, SoundChain
<1>8. c = q[Len(q)]
  BY <1>1, <1>3, <1>4, ChosenIsLast
<1>9. \A i \in 1..Len(r): r[i] # c
  <2>1. \A j \in 1..Len(q), i \in 1..Len(r): q[j] # r[i]
    BY <1>1, <1>2, <1>5, <1>6, ChainsApart
  <2>2. Len(q) \in 1..Len(q)
    BY <1>5
  <2> QED
    BY <1>8, <2>1, <2>2
<1>10. \A x \in Used: x # c => f[x] = fat[x] /\ \A t \in Slot: d.dir[x][t] = disk.dir[x][t]
  BY DEF Leaves
<1>11. \A i \in 1..Len(r): f[r[i]] = fat[r[i]] /\ \A t \in Slot: d.dir[r[i]][t] = disk.dir[r[i]][t]
  BY <1>6, <1>9, <1>10
<1>12. z = r
  <2>1. Path(fat, y, Cluster, r) /\ fat[r[Len(r)]] = EOC
    BY <1>6 DEF ChainOf
  <2>2. Path(f, y, Cluster, z) /\ f[z[Len(z)]] = EOC
    BY <1>7 DEF ChainOf
  <2>3. \A i \in 1..Len(r): f[r[i]] = fat[r[i]]
    BY <1>11
  <2> QED
    BY <2>1, <2>2, <2>3, PathsAgree
<1>13. \A i \in 1..Len(r): r[i] \in Cluster \ {0}
  BY <1>6
<1>14. r = Chain(fat, y) /\ r = Chain(f, y) /\ r \in Seq(Cluster)
  BY <1>4, <1>6, <1>12
<1>15. \A i \in 1..Len(r), t \in Slot: d.dir[r[i]][t] = disk.dir[r[i]][t]
  BY <1>11
<1> QED
  BY <1>13, <1>14, <1>15, SameListing

\* The chain of the directory after the entry was added: the same, or one cluster more.
LEMMA ChainGrows ==
  ASSUME fat \in Fats, disk \in Disks, Sound(fat, disk), NEW f \in Fats, NEW d \in Disks, Sound(f, d),
         NEW dir \in Used, NEW c, NEW s, Chosen(dir, c, s), fat[c] = EOC,
         NEW e, NEW h, Leaves(f, h, d, c, s, e),
         NEW q, q = Chain(fat, dir), NEW z, z = Chain(f, dir)
  PROVE  /\ z \in Seq(Cluster) /\ \A j \in 1..Len(q): z[j] = q[j]
         /\ Len(z) = Len(q) \/ (Len(z) = Len(q) + 1 /\ 0 \in EndSlots(d, z[Len(q) + 1]))
<1>1. LinkSound(fat) /\ LinkSound(f)
  BY DEF Sound
<1>2. /\ ChainOf(fat, dir, q) /\ q \in Seq(Cluster) /\ Len(q) \in Nat \ {0} /\ q[1] = dir
      /\ \A i \in 1..Len(q): q[i] \in Used /\ q[i] \in Cluster /\ q[i] # 0 /\ fat[q[i]] # 0
  BY <1>1, ChainUsed
<1>3. c = q[Len(q)] /\ Len(q) \in 1..Len(q)
  BY <1>1, <1>2, ChosenIsLast
<1>4. \A x \in Used: x # c => f[x] = fat[x]
  BY DEF Leaves
<1>5. c \in Used /\ c \in Cluster /\ fat[0] = EOC /\ EOC # 0 /\ EOC \notin Cluster
  BY <1>1, <1>2, <1>3, Clusters DEF LinkSound
<1>6. \A i \in 1..Len(q): i # Len(q) => q[i] # c /\ f[q[i]] = fat[q[i]] /\ fat[q[i]] # EOC
                                        /\ q[i + 1] = fat[q[i]]
  <2> SUFFICES ASSUME NEW i \in 1..Len(q), i # Len(q)
               PROVE  q[i] # c /\ f[q[i]] = fat[q[i]] /\ fat[q[i]] # EOC /\ q[i + 1] = fat[q[i]]
    OBVIOUS
  <2>1. q[i] \in FatLinks(fat) /\ q[i + 1] = fat[q[i]]
    BY <1>2 DEF ChainOf
  <2>2. fat[q[i]] # EOC
    BY <2>1 DEF FatLinks
  <2> QED
    BY <1>2, <1>4, <2>1, <2>2
<1>7. dir \in InUse(f)
  <2>1. s + 1 \in Slot => f[c] = EOC
    BY DEF Leaves
  <2>2. s + 1 \notin Slot => \E i \in Cluster: fat[i] = 0 /\ f[c] \in {EOC, i}
    BY DEF Leaves
  <2>3. f[c] # 0
    BY <1>5, <2>1, <2>2
  <2>4. dir \in Cluster /\ fat[dir] # 0
    BY DEF Used, InUse
  <2> QED
    BY <1>4, <2>3, <2>4 DEF InUse
<1>8. ChainOf(f, dir, z)
  BY <1>1, <1>7, SoundChain
<1>9. Path(f, dir, Cluster, z) /\ f[z[Len(z)]] = EOC /\ z \in Seq(Cluster)
  BY <1>8 DEF ChainOf
<1>10. CASE f[c] = EOC
  <2>1. \A i \in 1..Len(q): f[q[i]] = fat[q[i]]
    BY <1>3, <1>6, <1>10
  <2>2. Path(fat, dir, Cluster, q) /\ fat[q[Len(q)]] = EOC
    BY <1>2 DEF ChainOf
  <2>3. z = q
    BY <1>9, <2>1, <2>2, PathsAgree
  <2> QED
    BY <1>9, <2>3
<1>11. CASE f[c] # EOC
  <2>1. PICK i \in Cluster: fat[i] = 0 /\ f[i] = EOC /\ d.dir[i][0] = End /\ f[c] = i
    BY <1>11 DEF Leaves
  <2> DEFINE w == q \o <<i>>
  <2>2. /\ w \in Seq(Cluster) /\ Len(w) = Len(q) + 1 /\ w[Len(q) + 1] = i
        /\ \A j \in 1..Len(q): w[j] = q[j]
    BY <1>2
  <2> HIDE DEF w
  <2>3. Len(w) \in Nat \ {0} /\ w # <<>> /\ w[1] = dir /\ f[w[Len(w)]] = EOC
    <3>1. 1 \in 1..Len(q)
      BY <1>2
    <3> QED
      BY <1>2, <2>1, <2>2, <3>1
  <2>4. \A j \in 1..Len(w): j # Len(w) => f[w[j]] # EOC /\ w[j + 1] = f[w[j]]
    <3> SUFFICES ASSUME NEW j \in 1..Len(w), j # Len(w) PROVE f[w[j]] # EOC /\ w[j + 1] = f[w[j]]
      OBVIOUS
    <3>1. j \in 1..Len(q)
      BY <1>2, <2>2
    <3>2. CASE j = Len(q)
      BY <1>3, <1>11, <2>1, <2>2, <3>1, <3>2
    <3>3. CASE j # Len(q)
      <4>1. j + 1 \in 1..Len(q)
        BY <1>2, <3>1, <3>3
      <4> QED
        BY <1>6, <2>2, <3>1, <3>3, <4>1
    <3> QED
      BY <3>2, <3>3
  <2>5. Path(f, dir, Cluster, w)
    BY <2>2, <2>3, <2>4 DEF Path
  <2>6. \A j \in 1..Len(w): f[w[j]] = f[w[j]]
    OBVIOUS
  <2>7. z = w
    BY <1>9, <2>3, <2>5, <2>6, PathsAgree
  <2>8. 0 \in EndSlots(d, i)
    <3>1. i # 0
      BY <1>5, <2>1
    <3>2. 0 \in Slot
      BY FirstSlot
    <3>3. EntryAt(d, i, 0) = End
      BY <2>1, <3>1, <3>2, EntryInDirectory
    <3> QED
      BY <3>2, <3>3 DEF EndSlots, End, Blank
  <2> QED
    BY <2>2, <2>7, <2>8
<1> QED
  BY <1>10, <1>11

\* The directory itself lists the entry besides.
LEMMA DirectoryListsOneMore ==
  ASSUME fat \in Fats, disk \in Disks, Sound(fat, disk), NEW f \in Fats, NEW d \in Disks, Sound(f, d),
         NEW dir, IsNamedBy(disk, dir), NEW c, NEW s, Chosen(dir, c, s), fat[c] = EOC,
         NEW e, IsLive(e), NEW h, Leaves(f, h, d, c, s, e)
  PROVE  Listing(d, f, dir) = Listing(disk, fat, dir) \cup {e}
<1> DEFINE q == Chain(fat, dir)
           z == Chain(f, dir)
           m == Len(q)
<1>0. q = Chain(fat, dir) /\ z = Chain(f, dir) /\ m = Len(q)
  OBVIOUS
<1> HIDE DEF q, z
<1>1. LinkSound(fat) /\ Opening(fat, dir) /\ dir # 0
  BY NamesAreHeads DEF Sound
<1>2. dir \in Used
  BY <1>1 DEF Opening, Used
<1>3. /\ q \in Seq(Cluster) /\ Len(q) \in Nat \ {0} /\ ChainOf(fat, dir, q)
      /\ \A i \in 1..Len(q): q[i] \in Used /\ q[i] \in Cluster /\ q[i] # 0
  BY <1>0, <1>1, <1>2, ChainUsed
<1>4. /\ c = q[Len(q)] /\ s \in EndSlots(disk, c) /\ \A t \in EndSlots(disk, c): s <= t
      /\ \A j \in 1..Len(q)-1: EndSlots(disk, q[j]) = {}
  BY <1>0, <1>1, <1>2, ChosenIsLast
<1>5. /\ z \in Seq(Cluster) /\ \A j \in 1..Len(q): z[j] = q[j]
      /\ Len(z) = Len(q) \/ (Len(z) = Len(q) + 1 /\ 0 \in EndSlots(d, z[Len(q) + 1]))
  BY <1>0, <1>2, ChainGrows
<1>6. \A x \in Used, t \in Slot: d.dir[x][t] = IF x = c /\ t = s THEN e
                                            ELSE IF x = c /\ t = s + 1 THEN End ELSE disk.dir[x][t]
  BY DEF Leaves
<1>7. \A i \in 1..m, t \in Slot: EntryAt(d, q[i], t) = d.dir[q[i]][t] /\ EntryAt(disk, q[i], t) = disk.dir[q[i]][t]
  <2>1. \A i \in 1..m: q[i] \in Cluster \ {0}
    BY <1>3
  <2> QED
    BY <2>1, EntryInDirectory
<1>8. m \in Nat \ {0} /\ m \in 1..m /\ \A j \in 1..m-1: j \in 1..m /\ j # m
  BY <1>3
<1>9. \A j \in 1..m-1: q[j] # c
  <2>1. \A j \in 1..m-1: q[j] \in FatLinks(fat)
    BY <1>3, <1>8 DEF ChainOf
  <2> QED
    BY <2>1 DEF FatLinks
<1>10. \A j \in 1..m-1, t \in Slot: EntryAt(d, q[j], t) = EntryAt(disk, q[j], t)
  <2> SUFFICES ASSUME NEW j \in 1..m-1, NEW t \in Slot PROVE EntryAt(d, q[j], t) = EntryAt(disk, q[j], t)
    OBVIOUS
  <2>1. q[j] \in Used /\ q[j] # c /\ j \in 1..m
    BY <1>3, <1>8, <1>9
  <2> QED
    BY <1>6, <1>7, <2>1
<1>11. \A t \in Slot: EntryAt(d, q[m], t) = IF t = s THEN e ELSE IF t = s + 1 THEN End
                                            ELSE EntryAt(disk, q[m], t)
  <2> SUFFICES ASSUME NEW t \in Slot
               PROVE  EntryAt(d, q[m], t) = IF t = s THEN e ELSE IF t = s + 1 THEN End
                                            ELSE EntryAt(disk, q[m], t)
    OBVIOUS
  <2>1. q[m] \in Used /\ q[m] = c
    BY <1>3, <1>4, <1>8
  <2> QED
    BY <1>6, <1>7, <1>8, <2>1
<1>12. e.kind # "end"
  BY DEF IsLive
<1>13. \A x: Shows(d, z, x) <=> Shows(disk, q, x) \/ x = e
  <2>1. s \in EndSlots(disk, q[m]) /\ \A t \in EndSlots(disk, q[m]): s <= t
    BY <1>4
  <2>2. \A j \in 1..m-1: EndSlots(disk, q[j]) = {}
    BY <1>4
  <2>3. \A j \in 1..m: z[j] = q[j]
    BY <1>5
  <2>4. Len(z) = m \/ (Len(z) = m + 1 /\ 0 \in EndSlots(d, z[m + 1]))
    BY <1>5
  <2>5. m = Len(q)
    BY <1>0
  <2> HIDE DEF m
  <2>6. m \in Nat \ {0} /\ m = Len(q)
    BY <1>8, <2>5
  <2>7. EntryAdded(d, q, m, s, e, z)
    BY <1>10, <1>11, <1>12, <2>1, <2>2, <2>3, <2>4, <2>6 DEF EntryAdded
  <2> QED
    BY <2>7, GrownShows
<1>14. \A x: (x \in Listing(d, f, dir) <=> IsLive(x) /\ Shows(d, z, x))
  BY <1>0, <1>5, ListingShows
<1>15. \A x: (x \in Listing(disk, fat, dir) <=> IsLive(x) /\ Shows(disk, q, x))
  BY <1>0, <1>3, ListingShows
<1>16. \A x: x \in Listing(d, f, dir) <=> x \in Listing(disk, fat, dir) \cup {e}
  BY <1>13, <1>14, <1>15
<1> QED
  BY <1>16

-----------------------------------------------------------------------------
(* What a deletion changes *)

\* What a scan of one cluster preserves, slot by slot, holds at its end.
LEMMA ScanReaches ==
  ASSUME NEW st, NEW name, NEW P, <<0, [st EXCEPT !.buf = Last(st.images)]>> \in P,
         \A k \in Slot: \A x: <<k, x>> \in P => <<k + 1, ScanSlot(x, st.at, k, name)>> \in P
  PROVE  \E end: /\ <<Cardinality(Slot), end>> \in P
                 /\ ScanCluster(st, name) = [end EXCEPT !.at = end.fat[st.at]]
<1> DEFINE N == Cardinality(Slot)
           c == st.at
           start == [st EXCEPT !.buf = Last(st.images)]
<1>0. N \in Nat /\ \A k \in 1..N: k - 1 \in Slot /\ k - 1 \in 0..N
  BY SlotCount
<1>1. PICK upTo: /\ ScanLoop(st, name, N, upTo)
                 /\ ScanCluster(st, name) = [upTo[N] EXCEPT !.at = upTo[N].fat[c]]
  <2> DEFINE g == CHOOSE upTo: ScanLoop(st, name, N, upTo)
  <2>1. ScanLoop(st, name, N, g)
    BY <1>0, ScanLoops
  <2>2. ScanCluster(st, name) = [g[N] EXCEPT !.at = g[N].fat[c]]
    BY DEF ScanCluster, ScanLoop, ScanRow
  <2> QED
    BY <2>1, <2>2
<1> HIDE DEF N
<1> DEFINE R == {k \in 0..N: <<k, upTo[k]>> \in P}
<1>2. 0 \in R
  <2>1. 0 \in 0..N
    BY <1>0
  <2>2. upTo[0] = start
    BY <1>1, <2>1 DEF ScanLoop, ScanRow
  <2>3. <<0, start>> \in P
    OBVIOUS
  <2> HIDE DEF start
  <2> QED
    BY <2>1, <2>2, <2>3
<1>3. ASSUME NEW k \in 0..N, k # N, k \in R PROVE k + 1 \in R
  <2>1. /\ k + 1 \in 0..N /\ k + 1 # 0 /\ (k + 1) - 1 = k /\ k + 1 \in 1..N
    BY <1>0, <1>3
  <2>2. k \in Slot
    BY <1>0, <2>1
  <2>3. upTo[k + 1] = ScanSlot(upTo[k], c, k, name)
    <3>1. upTo[k + 1] = ScanRow(st, name, k + 1, upTo[(k + 1) - 1])
      BY <1>1, <2>1 DEF ScanLoop
    <3> QED
      BY <2>1, <3>1 DEF ScanRow
  <2>4. <<k, upTo[k]>> \in P
    BY <1>3
  <2> QED
    BY <2>1, <2>2, <2>3, <2>4
<1>4. <<N, upTo[N]>> \in P
  <2> HIDE DEF R
  <2>1. 0..N \subseteq R
    BY <1>0, <1>2, <1>3, CountUpTo
  <2> QED
    BY <1>0, <2>1 DEF R
<1> QED
  BY <1>1, <1>4 DEF N

\* What the visit of a cluster preserves holds of the outcome.
LEMMA VisitReaches ==
  ASSUME NEW path, NEW name, searchFile(disk, fat, path) # Diverges, NEW P,
         [fat |-> fat, buf |-> disk, images |-> <<disk>>, ret |-> 0, hung |-> FALSE,
          at |-> searchFile(disk, fat, path)] \in P,
         \A x \in P: ~Stopped(x) => ScanCluster(x, name) \in P
  PROVE  \E done \in P:
           deleteFile(path, name) = Outcome(done.fat, whereClusters, done.images, done.ret,
                                            done.hung \/ (done.ret # NotFound /\ done.at # EOC))
<1> DEFINE dirCluster == searchFile(disk, fat, path)
           start == [fat |-> fat, buf |-> disk, images |-> <<disk>>, ret |-> 0,
                     hung |-> FALSE, at |-> dirCluster]
<1>0. FatSize \in Nat
  BY Clusters
<1>1. PICK visit: /\ VisitLoop(start, name, FatSize, visit)
                  /\ deleteFile(path, name) =
                       IF dirCluster = Diverges THEN Hang
                       ELSE Outcome(visit[FatSize].fat, whereClusters, visit[FatSize].images,
                                    visit[FatSize].ret,
                                    visit[FatSize].hung \/ (visit[FatSize].ret # NotFound
                                                            /\ visit[FatSize].at # EOC))
  <2> DEFINE g == CHOOSE visit: VisitLoop(start, name, FatSize, visit)
  <2>1. VisitLoop(start, name, FatSize, g)
    BY <1>0, VisitLoops
  <2>2. deleteFile(path, name) =
          IF dirCluster = Diverges THEN Hang
          ELSE Outcome(g[FatSize].fat, whereClusters, g[FatSize].images, g[FatSize].ret,
                       g[FatSize].hung \/ (g[FatSize].ret # NotFound /\ g[FatSize].at # EOC))
    BY DEF deleteFile, VisitLoop, VisitRow, Stopped
  <2> QED
    BY <2>1, <2>2
<1>2. dirCluster # Diverges /\ start \in P
  OBVIOUS
<1> HIDE DEF dirCluster, start
<1> DEFINE R == {k \in 0..FatSize: visit[k] \in P}
<1>3. 0 \in R
  <2>1. 0 \in 0..FatSize
    BY <1>0
  <2>2. visit[0] = start
    BY <1>1, <2>1 DEF VisitLoop, VisitRow
  <2> QED
    BY <1>2, <2>1, <2>2
<1>4. ASSUME NEW k \in 0..FatSize, k # FatSize, k \in R PROVE k + 1 \in R
  <2>1. k + 1 \in 0..FatSize /\ k + 1 # 0 /\ (k + 1) - 1 = k
    BY <1>0, <1>4
  <2>2. visit[k + 1] = IF Stopped(visit[k]) THEN visit[k] ELSE ScanCluster(visit[k], name)
    <3>1. visit[k + 1] = VisitRow(start, name, k + 1, visit[(k + 1) - 1])
      BY <1>1, <2>1 DEF VisitLoop
    <3> QED
      BY <2>1, <3>1 DEF VisitRow
  <2>3. visit[k] \in P
    BY <1>4
  <2> QED
    BY <2>1, <2>2, <2>3
<1>5. visit[FatSize] \in P
  <2> HIDE DEF R
  <2>1. 0..FatSize \subseteq R
    BY <1>0, <1>3, <1>4, CountUpTo
  <2> QED
    BY <1>0, <2>1 DEF R
<1> QED
  BY <1>1, <1>2, <1>5

\* One deletion: the entry's slot alone changes, outside the FAT sector, and clusters
\* are freed; or it does not end and nothing changes.
Erases(st, c, s, new) ==
  /\ new \in ScanState /\ new.at = st.at /\ new.ret = st.ret /\ InBuffer(new, c)
  /\ \A x \in Cluster: new.fat[x] \in {0, st.fat[x]}
  /\ \/ new.hung /\ Last(new.images) = Last(st.images)
     \/ /\ new.hung = st.hung
        /\ \A x \in Cluster \ {0}, t \in Slot:
             Last(new.images).dir[x][t] = IF x = c /\ t = s THEN Deleted
                                          ELSE Last(st.images).dir[x][t]
LEMMA DeleteEntryErases ==
  ASSUME NEW st \in ScanState, NEW c \in Cluster, InBuffer(st, c), NEW s \in Slot,
         NEW new, new = DeleteEntry(st, c, s)
  PROVE  Erases(st, c, s, new)
<1> DEFINE head == st.buf.dir[c][s].cluster
           f == deleteFATchain(st.fat, head)
           slots == [st.buf.dir[c] EXCEPT ![s] = Deleted]
           d == Last(st.images)
           d1 == copyFATtoDisk(d, f)
           d2 == WriteSector(d1, st.buf, c, s, slots)
<1>1. new = IF ~Ends(st.fat, head) THEN [st EXCEPT !.hung = TRUE]
            ELSE [st EXCEPT !.fat = f, !.images = @ \o <<d1, d2>>, !.buf.dir[c] = d2.dir[c]]
  BY DEF DeleteEntry
<1>2. /\ st.fat \in Fats /\ st.buf \in Disks
      /\ st.images \in Seq(Disks) /\ st.images # <<>>
  BY DEF ScanState
<1>3. d \in Disks
  BY <1>2 DEF Last
<1>4. f \in Fats /\ \A x \in Cluster: f[x] \in {0, st.fat[x]}
  BY <1>2, Clusters DEF deleteFATchain, Fats, FatValue
<1>5. SlotsOf(c, st.buf.dir[c]) /\ SlotSet(st.buf.dir[c], s, Deleted, slots)
  BY <1>2, SlotsOfDisk DEF SlotSet
<1>6. st.buf.dir[c] = d.dir[c] /\ d = Last(st.images)
  BY DEF InBuffer
<1> HIDE DEF d, f, slots
<1>7. SlotNow(c, st.buf.dir[c], s, Deleted, slots)
  BY <1>5, EntryKinds, SlotWritten
<1>8. SlotsPut(d, 0, FatSector(d.dir[0]), d1)
  BY <1>3, <1>4, CopiedFat
<1>9. d1 \in Disks /\ SlotsOf(c, slots)
  BY <1>7, <1>8 DEF SlotsPut, SlotNow
<1> HIDE DEF d1
<1>14. SectorPut(d1, c, s, slots, d2)
  BY <1>2, <1>9, WrittenSector
<1> HIDE DEF d2
<1>10. SlotsPut(d1, c, d2.dir[c], d2) /\ SlotsOf(c, d2.dir[c])
  BY <1>14 DEF SectorPut
<1>11. d2 \in Disks /\ (c # 0 => d2.dir[c] = slots)
  BY <1>10, <1>14 DEF SlotsPut, SectorPut
<1>12. CASE ~Ends(st.fat, head)
  <2>1. /\ new \in ScanState /\ new.fat = st.fat /\ new.buf = st.buf /\ new.images = st.images
        /\ new.at = st.at /\ new.ret = st.ret /\ new.hung
    BY <1>1, <1>12 DEF ScanState
  <2> QED
    BY <2>1 DEF Erases, InBuffer
<1>13. CASE Ends(st.fat, head)
  <2>1. EntryGone(st, f, d1, d2, c, d2.dir[c], new)
    BY <1>1, <1>13 DEF EntryGone
  <2>2. /\ new \in ScanState /\ new.fat = f /\ Last(new.images) = d2 /\ new.buf.dir[c] = d2.dir[c]
        /\ new.ret = st.ret /\ new.hung = st.hung /\ new.at = st.at
    BY <1>4, <1>9, <1>10, <1>11, <2>1, Deletion
  <2>3. ASSUME NEW x \in Cluster \ {0}, NEW t \in Slot
        PROVE  d2.dir[x][t] = IF x = c /\ t = s THEN Deleted ELSE d.dir[x][t]
    <3>1. CASE x = c
      BY <1>6, <1>7, <1>11, <3>1 DEF SlotNow
    <3>2. CASE x # c
      <4>1. d2.dir[x] = d1.dir[x]
        BY <1>10, <3>2 DEF SlotsPut
      <4>2. d1.dir[x] = d.dir[x]
        BY <1>8 DEF SlotsPut
      <4> QED
        BY <3>2, <4>1, <4>2
    <3> QED
      BY <3>1, <3>2
  <2> QED
    BY <1>4, <1>6, <1>11, <2>2, <2>3 DEF Erases, InBuffer
<1> QED
  BY <1>12, <1>13

\* A step of the scan deletes the entry of its slot, ends with the end mark, or goes on.
LEMMA ScanSlotErases ==
  ASSUME NEW st \in ScanState, NEW c \in Cluster, InBuffer(st, c), NEW s \in Slot, NEW name,
         NEW new, new = ScanSlot(st, c, s, name)
  PROVE  LET e == EntryAt(st.buf, c, s)
         IN  \/ (st.ret = NotFound \/ st.hung) /\ new = st
             \/ ~(st.ret = NotFound \/ st.hung)
                /\ \/ e.kind = "end" /\ new = [st EXCEPT !.ret = NotFound]
                   \/ IsLive(e) /\ e.name = name /\ Erases(st, c, s, new)
                   \/ e.kind # "end" /\ ~(IsLive(e) /\ e.name = name) /\ new = st
<1> DEFINE e == EntryAt(st.buf, c, s)
<1>1. new = IF st.ret = NotFound \/ st.hung THEN st
            ELSE IF e.kind = "end" THEN [st EXCEPT !.ret = NotFound]
            ELSE IF IsLive(e) /\ e.name = name THEN DeleteEntry(st, c, s)
            ELSE st
  BY DEF ScanSlot
<1>2. new = DeleteEntry(st, c, s) => Erases(st, c, s, new)
  BY DeleteEntryErases
<1> HIDE DEF e
<1>3. \/ (st.ret = NotFound \/ st.hung) /\ new = st
      \/ ~(st.ret = NotFound \/ st.hung)
         /\ \/ e.kind = "end" /\ new = [st EXCEPT !.ret = NotFound]
            \/ IsLive(e) /\ e.name = name /\ Erases(st, c, s, new)
            \/ e.kind # "end" /\ ~(IsLive(e) /\ e.name = name) /\ new = st
  BY <1>1, <1>2
<1> QED
  BY <1>3 DEF e

\* A deletion frees clusters and writes no end mark.
Shrunk(f, d) ==
  /\ \A x \in Cluster: f[x] \in {0, fat[x]}
  /\ \A x \in Cluster \ {0}, t \in Slot: d.dir[x][t].kind = "end" => disk.dir[x][t].kind = "end"
Shrinking(st) == st \in ScanState /\ Shrunk(st.fat, Last(st.images))

LEMMA ErasedShrinks ==
  ASSUME NEW st, Shrinking(st), NEW c, NEW s, NEW new, Erases(st, c, s, new)
  PROVE  Shrinking(new)
<1>1. \A x \in Cluster: new.fat[x] \in {0, fat[x]}
  BY DEF Shrinking, Shrunk, Erases
<1>2. Deleted.kind # "end"
  BY DEF Deleted, Blank
<1>3. ASSUME NEW x \in Cluster \ {0}, NEW t \in Slot, Last(new.images).dir[x][t].kind = "end"
      PROVE  disk.dir[x][t].kind = "end"
  <2>1. CASE Last(new.images) = Last(st.images)
    BY <1>3, <2>1 DEF Shrinking, Shrunk
  <2>2. CASE Last(new.images).dir[x][t] = IF x = c /\ t = s THEN Deleted ELSE Last(st.images).dir[x][t]
    <3>1. Last(st.images).dir[x][t].kind = "end"
      BY <1>2, <1>3, <2>2
    <3> QED
      BY <3>1 DEF Shrinking, Shrunk
  <2> QED
    BY <2>1, <2>2 DEF Erases
<1> QED
  BY <1>1, <1>3 DEF Shrinking, Shrunk, Erases

LEMMA ScanClusterShrinks ==
  ASSUME NEW st, Shrinking(st), st.at \in Cluster, NEW name
  PROVE  Shrinking(ScanCluster(st, name))
<1> DEFINE c == st.at
           start == [st EXCEPT !.buf = Last(st.images)]
           P == {y \in Nat \X ScanState: Shrinking(y[2]) /\ InBuffer(y[2], c)}
<1>1. st \in ScanState /\ Last(st.images) \in Disks
  BY DEF Shrinking, ScanState, Last
<1>2. <<0, start>> \in P
  <2>1. start \in ScanState /\ start.fat = st.fat /\ start.images = st.images /\ start.buf = Last(st.images)
    BY <1>1 DEF ScanState
  <2> HIDE DEF start, c
  <2>2. Shrinking(start) /\ InBuffer(start, c)
    BY <2>1 DEF Shrinking, InBuffer
  <2> QED
    BY <2>1, <2>2
<1>3. ASSUME NEW k \in Slot, NEW x, <<k, x>> \in P PROVE <<k + 1, ScanSlot(x, c, k, name)>> \in P
  <2> DEFINE new == ScanSlot(x, c, k, name)
             e == EntryAt(x.buf, c, k)
  <2>1. x \in ScanState /\ Shrinking(x) /\ InBuffer(x, c) /\ c \in Cluster
    BY <1>3
  <2>2. new = ScanSlot(x, c, k, name)
    OBVIOUS
  <2> HIDE DEF new, c
  <2>3. new = x \/ new = [x EXCEPT !.ret = NotFound] \/ Erases(x, c, k, new)
    <3>1. \/ (x.ret = NotFound \/ x.hung) /\ new = x
          \/ ~(x.ret = NotFound \/ x.hung)
             /\ \/ e.kind = "end" /\ new = [x EXCEPT !.ret = NotFound]
                \/ IsLive(e) /\ e.name = name /\ Erases(x, c, k, new)
                \/ e.kind # "end" /\ ~(IsLive(e) /\ e.name = name) /\ new = x
      BY <2>1, <2>2, ScanSlotErases
    <3> QED
      BY <3>1
  <2>4. Shrinking(new) /\ InBuffer(new, c) /\ new \in ScanState
    <3>1. CASE new = x
      BY <2>1, <3>1
    <3>2. CASE new = [x EXCEPT !.ret = NotFound]
      <4>1. new \in ScanState /\ new.fat = x.fat /\ new.images = x.images /\ new.buf = x.buf
        BY <2>1, <3>2 DEF ScanState
      <4> QED
        BY <2>1, <4>1 DEF Shrinking, InBuffer
    <3>3. CASE Erases(x, c, k, new)
      <4>1. Shrinking(new)
        BY <2>1, <3>3, ErasedShrinks
      <4> QED
        BY <3>3, <4>1 DEF Erases
    <3> QED
      BY <2>3, <3>1, <3>2, <3>3
  <2>5. k + 1 \in Nat
    BY SlotsAreNumbers
  <2>6. <<k + 1, new>> \in P
    BY <2>4, <2>5
  <2> QED
    BY <2>2, <2>6
<1>4. \E end: /\ <<Cardinality(Slot), end>> \in P
              /\ ScanCluster(st, name) = [end EXCEPT !.at = end.fat[st.at]]
  <2>1. <<0, [st EXCEPT !.buf = Last(st.images)]>> \in P
    BY <1>2
  <2>2. \A k \in Slot: \A x: <<k, x>> \in P => <<k + 1, ScanSlot(x, st.at, k, name)>> \in P
    BY <1>3
  <2> HIDE DEF P
  <2> QED
    BY <2>1, <2>2, ScanReaches
<1>5. PICK end: /\ <<Cardinality(Slot), end>> \in P
                /\ ScanCluster(st, name) = [end EXCEPT !.at = end.fat[st.at]]
  BY <1>4
<1> DEFINE new == ScanCluster(st, name)
<1>6. Shrinking(end)
  BY <1>5
<1>7. new = [end EXCEPT !.at = end.fat[st.at]]
  BY <1>5
<1> HIDE DEF new, P
<1>8. new \in ScanState /\ new.fat = end.fat /\ new.images = end.images
  BY <1>6, <1>7 DEF Shrinking, ScanState, Fats
<1>9. Shrinking(new)
  BY <1>6, <1>8 DEF Shrinking
<1> QED
  BY <1>9 DEF new

LEMMA DeleteShrinks ==
  ASSUME fat \in Fats, disk \in Disks, NEW path, NEW name, searchFile(disk, fat, path) \in Cluster,
         NEW out, out = deleteFile(path, name)
  PROVE  out.hint = whereClusters /\ Shrunk(out.fat, Last(out.images))
<1> DEFINE dirCluster == searchFile(disk, fat, path)
           start == [fat |-> fat, buf |-> disk, images |-> <<disk>>, ret |-> 0, hung |-> FALSE,
                     at |-> dirCluster]
           P == {x \in ScanState: Shrinking(x)}
<1>1. start \in P
  <2>1. <<disk>> \in Seq(Disks) /\ <<disk>> # <<>> /\ Last(<<disk>>) = disk
    BY DEF Last
  <2>2. start \in ScanState /\ start.fat = fat /\ start.images = <<disk>>
    BY <2>1 DEF ScanState, FatValue
  <2> HIDE DEF start
  <2>3. Shrinking(start)
    BY <2>1, <2>2 DEF Shrinking, Shrunk
  <2> QED
    BY <2>2, <2>3
<1>2. ASSUME NEW x \in P, ~Stopped(x) PROVE ScanCluster(x, name) \in P
  <2>1. Shrinking(x) /\ x.at \in Cluster
    BY <1>2 DEF Stopped, ScanState, FatValue
  <2>2. Shrinking(ScanCluster(x, name))
    BY <2>1, ScanClusterShrinks
  <2> QED
    BY <2>2 DEF Shrinking
<1>3. searchFile(disk, fat, path) # Diverges
  BY Clusters
<1>4. \E done \in P:
           deleteFile(path, name) = Outcome(done.fat, whereClusters, done.images, done.ret,
                                            done.hung \/ (done.ret # NotFound /\ done.at # EOC))
  <2>1. [fat |-> fat, buf |-> disk, images |-> <<disk>>, ret |-> 0, hung |-> FALSE,
          at |-> searchFile(disk, fat, path)] \in P
    BY <1>1
  <2>2. \A x \in P: ~Stopped(x) => ScanCluster(x, name) \in P
    BY <1>2
  <2> HIDE DEF P
  <2> QED
    BY <1>3, <2>1, <2>2, VisitReaches
<1>5. PICK done \in P:
           deleteFile(path, name) = Outcome(done.fat, whereClusters, done.images, done.ret,
                                            done.hung \/ (done.ret # NotFound /\ done.at # EOC))
  BY <1>4
<1>6. out.fat = done.fat /\ out.images = done.images /\ out.hint = whereClusters
  BY <1>5 DEF Outcome
<1> QED
  BY <1>6 DEF Shrinking

LEMMA DeleteGrows ==
  ASSUME fat \in Fats, disk \in Disks, LinkSound(fat), GrowInv, NEW f, NEW d, Shrunk(f, d)
  PROVE  Grows(f, whereClusters, d)
<1>1. Ahead(fat, whereClusters) /\ LinksFull(fat, whereClusters, disk)
  BY DEF GrowInv
<1>2. Ahead(f, whereClusters)
  BY <1>1 DEF Ahead, Shrunk
<1>3. \A x \in FatLinks(f): x \in FatLinks(fat) /\ x # 0 /\ x \in Cluster
  BY DEF FatLinks, Shrunk, LinkSound
<1>4. LinksFull(f, whereClusters, d)
  BY <1>1, <1>3 DEF LinksFull, Shrunk
<1> QED
  BY <1>2, <1>4 DEF Grows

(***************************************************************************)
(* A deletion takes every entry of the name away that a scan shows: the    *)
(* chain s of the directory is swept, slot by slot, up to the end mark.    *)
(***************************************************************************)

Victim(e, name) == IsLive(e) /\ e.name = name
Kept(d, s, name) ==
  \A x \in Cluster \ {0}, t \in Slot:
    \/ d.dir[x][t] = disk.dir[x][t]
    \/ /\ d.dir[x][t] = Deleted /\ Victim(disk.dir[x][t], name)
       /\ \E i \in 1..Len(s): x = s[i]
CleanTo(d, s, name, j, k) ==
  \A i \in 1..Len(s), t \in Slot: i < j \/ (i = j /\ t < k) => ~Victim(d.dir[s[i]][t], name)
AllGone(d, s, name) ==
  \A i \in 1..Len(s), t \in Slot: Shown(disk, s, i, t) => ~Victim(d.dir[s[i]][t], name)
Swept(st, s, name, j, k) ==
  /\ Kept(Last(st.images), s, name)
  /\ \/ st.hung
     \/ st.ret = NotFound /\ AllGone(Last(st.images), s, name)
     \/ st.ret # NotFound /\ CleanTo(Last(st.images), s, name, j, k)
\* A chain of directory clusters.
Sweepable(s) ==
  /\ s \in Seq(Cluster) /\ Len(s) \in Nat \ {0}
  /\ \A i \in 1..Len(s): s[i] \in Cluster \ {0}

LEMMA KeptEnds ==
  ASSUME disk \in Disks, NEW d \in Disks, NEW s, NEW name, Kept(d, s, name), NEW x \in Cluster \ {0}
  PROVE  EndSlots(d, x) = EndSlots(disk, x)
<1>1. \A t \in Slot: EntryAt(d, x, t) = d.dir[x][t] /\ EntryAt(disk, x, t) = disk.dir[x][t]
  BY EntryInDirectory
<1>2. Deleted.kind # "end" /\ \A e: IsLive(e) => e.kind # "end"
  BY DEF Deleted, Blank, IsLive
<1>3. \A t \in Slot: d.dir[x][t].kind = "end" <=> disk.dir[x][t].kind = "end"
  BY <1>2 DEF Kept, Victim
<1> QED
  BY <1>1, <1>3 DEF EndSlots

\* The slot is cleaned.
LEMMA OneMoreSwept ==
  ASSUME NEW s, Sweepable(s), NEW j \in 1..Len(s), NEW k \in Slot, NEW name, NEW d,
         CleanTo(d, s, name, j, k), ~Victim(d.dir[s[j]][k], name)
  PROVE  CleanTo(d, s, name, j, k + 1)
<1> SUFFICES ASSUME NEW i \in 1..Len(s), NEW t \in Slot, i < j \/ (i = j /\ t < k + 1)
             PROVE  ~Victim(d.dir[s[i]][t], name)
  BY DEF CleanTo
<1>1. i < j \/ (i = j /\ t < k) \/ (i = j /\ t = k)
  BY SlotsAreNumbers
<1> QED
  BY <1>1 DEF CleanTo

\* At the end mark everything that is shown has been seen.
LEMMA EndIsAll ==
  ASSUME NEW s, Sweepable(s), NEW j \in 1..Len(s), NEW k \in EndSlots(disk, s[j]), NEW name, NEW d,
         CleanTo(d, s, name, j, k)
  PROVE  AllGone(d, s, name)
<1> SUFFICES ASSUME NEW i \in 1..Len(s), NEW t \in Slot, Shown(disk, s, i, t)
             PROVE  ~Victim(d.dir[s[i]][t], name)
  BY DEF AllGone
<1>1. ~(j \in 1..i-1)
  BY DEF Shown
<1>2. i <= j
  BY <1>1 DEF Sweepable
<1>3. i = j => t < k
  BY DEF Shown
<1>4. i < j \/ (i = j /\ t < k)
  BY <1>2, <1>3
<1> QED
  BY <1>4 DEF CleanTo

LEMMA ErasedSweeps ==
  ASSUME NEW s, Sweepable(s), NEW j \in 1..Len(s), NEW k \in Slot, NEW name,
         NEW st, st.ret # NotFound, ~st.hung, Swept(st, s, name, j, k),
         Victim(Last(st.images).dir[s[j]][k], name),
         NEW new, Erases(st, s[j], k, new)
  PROVE  Swept(new, s, name, j, k + 1)
<1> DEFINE d == Last(st.images)
           e == Last(new.images)
<1>1. Kept(d, s, name) /\ CleanTo(d, s, name, j, k)
  BY DEF Swept
<1>2. new.ret # NotFound
  BY DEF Erases
<1>3. CASE new.hung /\ e = d
  BY <1>1, <1>3 DEF Swept
<1>4. CASE \A x \in Cluster \ {0}, t \in Slot: e.dir[x][t] = IF x = s[j] /\ t = k THEN Deleted ELSE d.dir[x][t]
  <2> HIDE DEF d, e
  <2>0. \A i \in 1..Len(s): s[i] \in Cluster \ {0}
    BY DEF Sweepable
  <2>1. ~Victim(Deleted, name)
    BY EntryKinds DEF Victim
  <2>2. Victim(d.dir[s[j]][k], name)
    BY DEF d
  <2>3. Kept(e, s, name)
    <3> SUFFICES ASSUME NEW x \in Cluster \ {0}, NEW t \in Slot
                 PROVE  \/ e.dir[x][t] = disk.dir[x][t]
                        \/ /\ e.dir[x][t] = Deleted /\ Victim(disk.dir[x][t], name)
                           /\ \E i \in 1..Len(s): x = s[i]
      BY DEF Kept
    <3>1. CASE x = s[j] /\ t = k
      <4>1. e.dir[x][t] = Deleted
        BY <1>4, <3>1
      <4>2. d.dir[x][t] = disk.dir[x][t]
        BY <1>1, <2>1, <2>2, <3>1 DEF Kept
      <4> QED
        BY <2>2, <3>1, <4>1, <4>2
    <3>2. CASE ~(x = s[j] /\ t = k)
      <4>1. e.dir[x][t] = d.dir[x][t]
        BY <1>4, <3>2
      <4> QED
        BY <1>1, <4>1 DEF Kept
    <3> QED
      BY <3>1, <3>2
  <2>4. CleanTo(e, s, name, j, k)
    <3> SUFFICES ASSUME NEW i \in 1..Len(s), NEW t \in Slot, i < j \/ (i = j /\ t < k)
                 PROVE  ~Victim(e.dir[s[i]][t], name)
      BY DEF CleanTo
    <3>1. ~Victim(d.dir[s[i]][t], name)
      BY <1>1 DEF CleanTo
    <3>2. e.dir[s[i]][t] = Deleted \/ e.dir[s[i]][t] = d.dir[s[i]][t]
      BY <1>4, <2>0
    <3> QED
      BY <2>1, <3>1, <3>2
  <2>5. e.dir[s[j]][k] = Deleted
    BY <1>4, <2>0
  <2>6. CleanTo(e, s, name, j, k + 1)
    BY <2>1, <2>4, <2>5, OneMoreSwept
  <2> QED
    BY <1>2, <2>3, <2>6 DEF Swept, e
<1> QED
  BY <1>3, <1>4 DEF Erases

LEMMA ScanSlotSweeps ==
  ASSUME disk \in Disks, NEW s, Sweepable(s), NEW j \in 1..Len(s), NEW k \in Slot, NEW name,
         NEW st \in ScanState, InBuffer(st, s[j]), Swept(st, s, name, j, k),
         NEW new, new = ScanSlot(st, s[j], k, name)
  PROVE  Swept(new, s, name, j, k + 1)
<1> DEFINE d == Last(st.images)
           c == s[j]
           e == EntryAt(st.buf, c, k)
<1>1. c \in Cluster \ {0} /\ d \in Disks /\ st.buf \in Disks
  BY DEF Sweepable, ScanState, Last
<1>2. e = d.dir[c][k] /\ d.dir[c][k] = EntryAt(d, c, k)
  <2>1. e = st.buf.dir[c][k]
    BY <1>1, EntryInDirectory
  <2>2. st.buf.dir[c] = d.dir[c]
    BY DEF InBuffer
  <2>3. d.dir[c][k] = EntryAt(d, c, k)
    BY <1>1, EntryInDirectory
  <2> QED
    BY <2>1, <2>2, <2>3
<1>3. Kept(d, s, name)
  BY DEF Swept
<1>4. c = s[j] /\ c \in Cluster /\ d = Last(st.images)
  BY <1>1
<1>5. \/ (st.ret = NotFound \/ st.hung) /\ new = st
      \/ ~(st.ret = NotFound \/ st.hung)
         /\ \/ e.kind = "end" /\ new = [st EXCEPT !.ret = NotFound]
            \/ IsLive(e) /\ e.name = name /\ Erases(st, c, k, new)
            \/ e.kind # "end" /\ ~(IsLive(e) /\ e.name = name) /\ new = st
  BY <1>4, ScanSlotErases
<1> HIDE DEF c, d, e
<1>6. CASE (st.ret = NotFound \/ st.hung) /\ new = st
  BY <1>6 DEF Swept
<1>7. CASE ~(st.ret = NotFound \/ st.hung) /\ e.kind = "end" /\ new = [st EXCEPT !.ret = NotFound]
  <2>1. CleanTo(d, s, name, j, k)
    BY <1>4, <1>7 DEF Swept
  <2>2. k \in EndSlots(disk, c)
    <3>1. k \in EndSlots(d, c)
      BY <1>2, <1>7 DEF EndSlots
    <3> QED
      BY <1>1, <1>3, <3>1, KeptEnds
  <2>3. AllGone(d, s, name)
    BY <1>4, <2>1, <2>2, EndIsAll
  <2>4. new.ret = NotFound /\ new.images = st.images
    BY <1>7 DEF ScanState
  <2> QED
    BY <1>3, <1>4, <2>3, <2>4 DEF Swept
<1>8. CASE ~(st.ret = NotFound \/ st.hung) /\ IsLive(e) /\ e.name = name /\ Erases(st, c, k, new)
  <2>1. Victim(Last(st.images).dir[s[j]][k], name)
    BY <1>2, <1>4, <1>8 DEF Victim
  <2>2. Erases(st, s[j], k, new)
    BY <1>4, <1>8
  <2> QED
    BY <1>8, <2>1, <2>2, ErasedSweeps
<1>9. CASE ~(st.ret = NotFound \/ st.hung) /\ ~(IsLive(e) /\ e.name = name) /\ new = st
  <2>1. CleanTo(d, s, name, j, k) /\ ~Victim(d.dir[s[j]][k], name)
    BY <1>2, <1>4, <1>9 DEF Swept, Victim
  <2>2. CleanTo(d, s, name, j, k + 1)
    BY <2>1, OneMoreSwept
  <2> QED
    BY <1>3, <1>4, <1>9, <2>2 DEF Swept
<1> QED
  BY <1>5, <1>6, <1>7, <1>8, <1>9

LEMMA BelowCount == \A t \in Slot: t < Cardinality(Slot)
<1> DEFINE n == SectorsPerCluster * EntriesPerSector
<1>1. n \in Nat
  BY GeometryAssumption
<1>2. Slot = 0..n-1
  BY DEF Slot
<1> HIDE DEF n
<1>3. Cardinality(0..n-1) = n
  BY <1>1, FS_Interval
<1> QED
  BY <1>1, <1>2, <1>3

\* Where the scan goes on after the first j - 1 clusters.
Place(s, j) == IF j = Len(s) + 1 THEN EOC ELSE s[j]
Sweeping(st, s, name, dir, j) ==
  Tracked(st, name, dir) /\ Swept(st, s, name, j, 0) /\ st.at = Place(s, j)

LEMMA StartOfSweep ==
  ASSUME NEW s, Sweepable(s), NEW name
  PROVE  Kept(disk, s, name) /\ CleanTo(disk, s, name, 1, 0)
<1>1. \A i \in 1..Len(s), t \in Slot: ~(i < 1 \/ (i = 1 /\ t < 0))
  BY SlotsAreNumbers
<1> QED
  BY <1>1 DEF Kept, CleanTo

LEMMA NextOfSweep ==
  ASSUME NEW s, Sweepable(s), NEW j \in 1..Len(s), NEW name, NEW d,
         CleanTo(d, s, name, j, Cardinality(Slot))
  PROVE  CleanTo(d, s, name, j + 1, 0)
<1> SUFFICES ASSUME NEW i \in 1..Len(s), NEW t \in Slot, i < j + 1 \/ (i = j + 1 /\ t < 0)
             PROVE  ~Victim(d.dir[s[i]][t], name)
  BY DEF CleanTo
<1>1. t < Cardinality(Slot) /\ ~(t < 0)
  BY BelowCount, SlotsAreNumbers
<1>2. i < j \/ i = j
  BY <1>1
<1> QED
  BY <1>1, <1>2 DEF CleanTo

LEMMA ScanClusterSweeps ==
  ASSUME disk \in Disks, fat \in Fats, NEW dir, Orderly(dir), NEW s, Sweepable(s), ChainOf(fat, dir, s),
         NEW name, NEW j \in 1..Len(s), NEW st, Sweeping(st, s, name, dir, j)
  PROVE  Sweeping(ScanCluster(st, name), s, name, dir, j + 1)
<1> DEFINE c == s[j]
           start == [st EXCEPT !.buf = Last(st.images)]
           P == {y \in Nat \X ScanState: /\ Tracked(y[2], name, dir) /\ InCluster(y[2], c)
                                         /\ Swept(y[2], s, name, j, y[1])}
<1>0. c \in Cluster \ {0} /\ c # EOC /\ Len(s) \in Nat
  BY Clusters DEF Sweepable
<1>1. /\ st \in ScanState /\ Tracked(st, name, dir) /\ Last(st.images) \in Disks
      /\ NoEntryMore(disk, Last(st.images)) /\ st.at = c /\ Swept(st, s, name, j, 0)
  BY <1>0 DEF Sweeping, Place, Tracked, ScanState, Last
<1>2. <<0, start>> \in P
  <2>1. /\ start \in ScanState /\ start.fat = st.fat /\ start.images = st.images
        /\ start.buf = Last(st.images) /\ start.at = st.at /\ start.ret = st.ret /\ start.hung = st.hung
    BY <1>1 DEF ScanState
  <2> HIDE DEF start, c
  <2>2. Tracked(start, name, dir)
    BY <1>1, <2>1 DEF Tracked, Deleting
  <2>3. InCluster(start, c)
    BY <1>1, <2>1 DEF InCluster, InBuffer
  <2>4. Swept(start, s, name, j, 0)
    BY <1>1, <2>1 DEF Swept
  <2> QED
    BY <2>1, <2>2, <2>3, <2>4
<1>3. ASSUME NEW k \in Slot, NEW x, <<k, x>> \in P PROVE <<k + 1, ScanSlot(x, c, k, name)>> \in P
  <2> DEFINE new == ScanSlot(x, c, k, name)
  <2>1. x \in ScanState /\ Tracked(x, name, dir) /\ InCluster(x, c) /\ Swept(x, s, name, j, k)
    BY <1>3
  <2>2. new = ScanSlot(x, c, k, name) /\ c = s[j] /\ c \in Cluster
    BY <1>0
  <2> HIDE DEF new, c
  <2>3. Tracked(new, name, dir) /\ InCluster(new, c)
    BY <2>1, <2>2, ScanSlotTracked
  <2>4. Swept(new, s, name, j, k + 1)
    <3>1. InBuffer(x, s[j]) /\ new = ScanSlot(x, s[j], k, name)
      BY <2>1, <2>2 DEF InCluster
    <3> QED
      BY <2>1, <3>1, ScanSlotSweeps
  <2>5. new \in ScanState /\ k + 1 \in Nat
    BY <2>3, SlotsAreNumbers DEF Tracked
  <2>6. <<k + 1, new>> \in P
    BY <2>3, <2>4, <2>5
  <2> QED
    BY <2>2, <2>6
<1>4. \E end: /\ <<Cardinality(Slot), end>> \in P
              /\ ScanCluster(st, name) = [end EXCEPT !.at = end.fat[st.at]]
  <2>1. <<0, [st EXCEPT !.buf = Last(st.images)]>> \in P
    BY <1>2
  <2>2. \A k \in Slot: \A x: <<k, x>> \in P => <<k + 1, ScanSlot(x, st.at, k, name)>> \in P
    BY <1>1, <1>3
  <2> HIDE DEF P
  <2> QED
    BY <2>1, <2>2, ScanReaches
<1>5. PICK end: /\ <<Cardinality(Slot), end>> \in P
                /\ ScanCluster(st, name) = [end EXCEPT !.at = end.fat[st.at]]
  BY <1>4
<1> DEFINE new == ScanCluster(st, name)
<1>6. /\ Tracked(end, name, dir) /\ end.at = c /\ Swept(end, s, name, j, Cardinality(Slot))
      /\ end \in ScanState
  BY <1>5 DEF InCluster
<1>7. new = [end EXCEPT !.at = end.fat[c]]
  BY <1>1, <1>5
<1>8. Tracked(new, name, dir)
  BY <1>0, <1>1, ScanClusterTracked
<1>14. c = s[j]
  OBVIOUS
<1> HIDE DEF new, P, c
<1>9. /\ new.fat = end.fat /\ new.images = end.images /\ new.hung = end.hung /\ new.ret = end.ret
      /\ new.at = end.fat[c]
  BY <1>6, <1>7 DEF ScanState
<1>10. end.fat[c] = fat[c]
  <2>1. PICK G: Deleting(end, name, dir, G)
    BY <1>6 DEF Tracked
  <2>2. Cleared(end.fat, G) /\ c \in Used /\ c \notin Freed(end.fat)
    BY <1>0, <1>6, <2>1 DEF Deleting
  <2> QED
    BY <1>0, <2>2 DEF Cleared, Freed, Used, InUse
<1>11. fat[c] = Place(s, j + 1)
  <2>1. CASE j = Len(s)
    BY <1>14, <2>1 DEF ChainOf, Place
  <2>2. CASE j # Len(s)
    <3>1. j + 1 # Len(s) + 1
      BY <1>0, <2>2
    <3>2. s[j + 1] = fat[s[j]]
      BY <2>2 DEF ChainOf
    <3> QED
      BY <1>14, <3>1, <3>2 DEF Place
  <2> QED
    BY <2>1, <2>2
<1>12. Swept(new, s, name, j + 1, 0)
  <2>1. CleanTo(Last(end.images), s, name, j, Cardinality(Slot))
          => CleanTo(Last(end.images), s, name, j + 1, 0)
    BY NextOfSweep
  <2> QED
    BY <1>6, <1>9, <2>1 DEF Swept
<1>13. Sweeping(new, s, name, dir, j + 1)
  BY <1>8, <1>9, <1>10, <1>11, <1>12 DEF Sweeping
<1> QED
  BY <1>13 DEF new

\* A deletion frees clusters and takes away the entries of the name.
DeletesName(f, d, s, name) ==
  /\ \A x \in Cluster: f[x] \in {0, fat[x]}
  /\ Kept(d, s, name) /\ AllGone(d, s, name)

LEMMA DeleteSweeps ==
  ASSUME disk \in Disks, fat \in Fats, NEW path, NEW name, NEW dir, dir = searchFile(disk, fat, path),
         Orderly(dir), dir \in Used, NEW s, Sweepable(s), ChainOf(fat, dir, s),
         NEW out, out = deleteFile(path, name), ~out.hung
  PROVE  DeletesName(out.fat, Last(out.images), s, name)
<1> DEFINE start == [fat |-> fat, buf |-> disk, images |-> <<disk>>, ret |-> 0, hung |-> FALSE,
                     at |-> dir]
           P == {x \in ScanState: \E j \in 1..Len(s)+1: Sweeping(x, s, name, dir, j)}
<1>0. /\ dir \in Cluster /\ dir # EOC /\ dir # Diverges /\ s[1] = dir /\ dir \in FatValue
      /\ 1 \in 1..Len(s)+1 /\ 1 # Len(s) + 1 /\ Len(s) \in Nat
  BY Clusters DEF Used, InUse, Sweepable, ChainOf, FatValue
<1>1. start \in P
  <2>1. <<disk>> \in Seq(Disks) /\ <<disk>> # <<>> /\ Last(<<disk>>) = disk
        /\ Len(<<disk>>) = 1 /\ <<disk>>[1] = disk /\ NoEntryMore(disk, disk)
    BY DEF Last, NoEntryMore
  <2>2. /\ start \in ScanState /\ start.fat = fat /\ start.images = <<disk>> /\ start.buf = disk
        /\ start.at = dir /\ start.ret = 0 /\ start.hung = FALSE
    BY <1>0, <2>1 DEF ScanState
  <2> HIDE DEF start
  <2>3. Tracked(start, name, dir)
    <3>1. Deleting(start, name, dir, {})
      <4>1. Freed(fat) = {} /\ Cleared(fat, {}) /\ Named({}, name)
        BY DEF Freed, Cleared, Named
      <4>2. InReach(dir, dir)
        BY DEF InReach
      <4>3. \A i \in 2..Len(start.images): Harmless(start.images[i], name)
        BY <2>1, <2>2
      <4> QED
        BY <2>2, <4>1, <4>2, <4>3 DEF Deleting
    <3>2. \A i \in 1..Len(start.images): NoEntryMore(disk, start.images[i])
      <4> DEFINE im == <<disk>>
      <4>1. Len(im) = 1 /\ im[1] = disk /\ start.images = im
        BY <2>1, <2>2
      <4>2. NoEntryMore(disk, disk)
        BY <2>1
      <4> HIDE DEF im
      <4>3. \A i \in 1..Len(im): im[i] = disk
        BY <4>1
      <4> QED
        BY <4>1, <4>2, <4>3
    <3> QED
      BY <2>1, <2>2, <3>1, <3>2 DEF Tracked
  <2>4. Swept(start, s, name, 1, 0)
    <3>1. Kept(disk, s, name) /\ CleanTo(disk, s, name, 1, 0)
      BY StartOfSweep
    <3>2. start.ret # NotFound
      BY <2>2 DEF NotFound
    <3> QED
      BY <2>1, <2>2, <3>1, <3>2 DEF Swept
  <2>5. Sweeping(start, s, name, dir, 1)
    BY <1>0, <2>2, <2>3, <2>4 DEF Sweeping, Place
  <2> QED
    BY <1>0, <2>2, <2>5
<1>2. ASSUME NEW x \in P, ~Stopped(x) PROVE ScanCluster(x, name) \in P
  <2>1. PICK j \in 1..Len(s)+1: Sweeping(x, s, name, dir, j)
    BY <1>2
  <2>2. j \in 1..Len(s) /\ j + 1 \in 1..Len(s)+1
    <3>1. j # Len(s) + 1
      BY <1>2, <2>1 DEF Stopped, Sweeping, Place
    <3> QED
      BY <1>0, <3>1
  <2>3. Sweeping(ScanCluster(x, name), s, name, dir, j + 1)
    BY <2>1, <2>2, ScanClusterSweeps
  <2>4. ScanCluster(x, name) \in ScanState
    BY <2>3 DEF Sweeping, Tracked
  <2> QED
    BY <2>2, <2>3, <2>4
<1>3. \E done \in P:
           deleteFile(path, name) = Outcome(done.fat, whereClusters, done.images, done.ret,
                                            done.hung \/ (done.ret # NotFound /\ done.at # EOC))
  <2>1. [fat |-> fat, buf |-> disk, images |-> <<disk>>, ret |-> 0, hung |-> FALSE,
          at |-> searchFile(disk, fat, path)] \in P
    BY <1>1
  <2>2. \A x \in P: ~Stopped(x) => ScanCluster(x, name) \in P
    BY <1>2
  <2>3. searchFile(disk, fat, path) # Diverges
    BY <1>0
  <2> HIDE DEF P
  <2> QED
    BY <2>1, <2>2, <2>3, VisitReaches
<1>4. PICK done \in P:
           deleteFile(path, name) = Outcome(done.fat, whereClusters, done.images, done.ret,
                                            done.hung \/ (done.ret # NotFound /\ done.at # EOC))
  BY <1>3
<1>5. PICK j \in 1..Len(s)+1: Sweeping(done, s, name, dir, j)
  BY <1>4
<1>6. /\ out.fat = done.fat /\ out.images = done.images
      /\ out.hung = (done.hung \/ (done.ret # NotFound /\ done.at # EOC))
  BY <1>4 DEF Outcome
<1>7. ~done.hung /\ (done.ret = NotFound \/ done.at = EOC)
  BY <1>6
<1> HIDE DEF P
<1>8. Kept(Last(done.images), s, name)
  BY <1>5 DEF Sweeping, Swept
<1>9. AllGone(Last(done.images), s, name)
  <2>1. CASE done.ret = NotFound
    BY <1>5, <1>7, <2>1 DEF Sweeping, Swept
  <2>2. CASE done.ret # NotFound
    <3>1. done.at = EOC /\ CleanTo(Last(done.images), s, name, j, 0)
      BY <1>5, <1>7, <2>2 DEF Sweeping, Swept
    <3>2. j = Len(s) + 1
      <4>1. j # Len(s) + 1 => s[j] \in Cluster
        BY <1>0 DEF Sweepable
      <4> QED
        BY <1>5, <3>1, <4>1, Clusters DEF Sweeping, Place
    <3>3. \A i \in 1..Len(s): i < j
      BY <1>0, <3>2
    <3> QED
      BY <3>1, <3>3 DEF CleanTo, AllGone
  <2> QED
    BY <2>1, <2>2
<1>10. \A x \in Cluster: done.fat[x] \in {0, fat[x]}
  <2>1. PICK G: Deleting(done, name, dir, G)
    BY <1>5 DEF Sweeping, Tracked
  <2> QED
    BY <2>1 DEF Deleting, Cleared
<1> QED
  BY <1>6, <1>8, <1>9, <1>10 DEF DeletesName

\* A chain that is left is what it was.
LEMMA ChainIsLeft ==
  ASSUME fat \in Fats, LinkSound(fat), NEW f \in Fats, LinkSound(f),
         \A x \in Cluster: f[x] \in {0, fat[x]}, NEW y \in InUse(f)
  PROVE  Chain(f, y) = Chain(fat, y)
<1> DEFINE z == Chain(f, y)
           r == Chain(fat, y)
<1>0. z = Chain(f, y) /\ r = Chain(fat, y)
  OBVIOUS
<1> HIDE DEF z, r
<1>1. y \in InUse(fat)
  BY DEF InUse
<1>2. ChainOf(f, y, z) /\ ChainOf(fat, y, r)
  BY <1>0, <1>1, SoundChain
<1>3. \A i \in 1..Len(z): fat[z[i]] = f[z[i]]
  BY <1>2 DEF ChainOf, InUse
<1>4. Path(f, y, Cluster, z) /\ f[z[Len(z)]] = EOC /\ Path(fat, y, Cluster, r) /\ fat[r[Len(r)]] = EOC
  BY <1>2 DEF ChainOf
<1>5. r = z
  BY <1>3, <1>4, PathsAgree
<1> QED
  BY <1>0, <1>5

\* Directories other than dir list what they did.
LEMMA OthersStay ==
  ASSUME fat \in Fats, disk \in Disks, Sound(fat, disk), NEW f \in Fats, NEW d \in Disks, Sound(f, d),
         NEW dir, IsNamedBy(disk, dir), NEW s, s = Chain(fat, dir), NEW name, DeletesName(f, d, s, name),
         NEW y, y # dir, IsNamedBy(disk, y), IsNamedBy(d, y)
  PROVE  Listing(d, f, y) = Listing(disk, fat, y)
<1>1. LinkSound(fat) /\ LinkSound(f)
  BY DEF Sound
<1>2. Opening(fat, dir) /\ Opening(fat, y) /\ Opening(f, y) /\ dir # 0 /\ y # 0
  BY NamesAreHeads
<1>3. dir \in Used /\ y \in Used /\ y \in InUse(f)
  BY <1>2 DEF Opening, Used
<1> DEFINE r == Chain(fat, y)
<1>4. r = Chain(fat, y)
  OBVIOUS
<1> HIDE DEF r
<1>5. ChainOf(fat, dir, s)
  BY <1>1, <1>3, ChainUsed
<1>6. /\ ChainOf(fat, y, r) /\ r \in Seq(Cluster) /\ Len(r) \in Nat \ {0}
      /\ \A i \in 1..Len(r): r[i] \in Cluster /\ r[i] # 0
  BY <1>1, <1>3, <1>4, ChainUsed
<1>7. \A j \in 1..Len(s), i \in 1..Len(r): s[j] # r[i]
  BY <1>1, <1>2, <1>5, <1>6, ChainsApart
<1>8. \A x \in Cluster: f[x] \in {0, fat[x]}
  BY DEF DeletesName
<1>9. r = Chain(f, y)
  BY <1>1, <1>3, <1>4, <1>8, ChainIsLeft
<1>10. \A i \in 1..Len(r): r[i] \in Cluster \ {0}
  BY <1>6
<1>11. \A i \in 1..Len(r), t \in Slot: d.dir[r[i]][t] = disk.dir[r[i]][t]
  <2> SUFFICES ASSUME NEW i \in 1..Len(r), NEW t \in Slot PROVE d.dir[r[i]][t] = disk.dir[r[i]][t]
    OBVIOUS
  <2>1. ~\E j \in 1..Len(s): r[i] = s[j]
    BY <1>7
  <2>2. r[i] \in Cluster \ {0}
    BY <1>10
  <2> QED
    BY <2>1, <2>2 DEF DeletesName, Kept
<1>12. r \in Seq(Cluster)
  BY <1>6
<1> QED
  BY <1>4, <1>9, <1>10, <1>11, <1>12, SameListing

\* The directory itself lists what it did without the name.
LEMMA DirectoryLosesName ==
  ASSUME fat \in Fats, disk \in Disks, Sound(fat, disk), NEW f \in Fats, NEW d \in Disks, Sound(f, d),
         NEW dir, IsNamedBy(disk, dir), IsNamedBy(d, dir), NEW s, s = Chain(fat, dir), NEW name,
         DeletesName(f, d, s, name)
  PROVE  Listing(d, f, dir) = {e \in Listing(disk, fat, dir): e.name # name}
<1>1. LinkSound(fat) /\ LinkSound(f)
  BY DEF Sound
<1>2. Opening(fat, dir) /\ Opening(f, dir) /\ dir # 0
  BY NamesAreHeads
<1>3. dir \in Used /\ dir \in InUse(f)
  BY <1>2 DEF Opening, Used
<1>4. /\ s \in Seq(Cluster) /\ Len(s) \in Nat \ {0}
      /\ \A i \in 1..Len(s): s[i] \in Cluster /\ s[i] # 0
  BY <1>1, <1>3, ChainUsed
<1>5. Kept(d, s, name) /\ AllGone(d, s, name) /\ \A x \in Cluster: f[x] \in {0, fat[x]}
  BY DEF DeletesName
<1>6. s = Chain(f, dir)
  BY <1>1, <1>3, <1>5, ChainIsLeft
<1>7. \A i \in 1..Len(s): s[i] \in Cluster \ {0} /\ EndSlots(d, s[i]) = EndSlots(disk, s[i])
  BY <1>4, <1>5, KeptEnds
<1>8. \A i \in 1..Len(s), t \in Slot: Shown(d, s, i, t) <=> Shown(disk, s, i, t)
  <2> SUFFICES ASSUME NEW i \in 1..Len(s), NEW t \in Slot PROVE Shown(d, s, i, t) <=> Shown(disk, s, i, t)
    OBVIOUS
  <2>1. \A j \in 1..i-1: j \in 1..Len(s)
    BY <1>4
  <2>2. \A j \in 1..i-1: EndSlots(d, s[j]) = EndSlots(disk, s[j])
    BY <1>7, <2>1
  <2>3. EndSlots(d, s[i]) = EndSlots(disk, s[i])
    BY <1>7
  <2> QED
    BY <2>2, <2>3 DEF Shown
<1>9. \A i \in 1..Len(s), t \in Slot: EntryAt(d, s[i], t) = d.dir[s[i]][t]
                                      /\ EntryAt(disk, s[i], t) = disk.dir[s[i]][t]
  BY <1>7, EntryInDirectory
<1>10. \A i \in 1..Len(s), t \in Slot: \/ d.dir[s[i]][t] = disk.dir[s[i]][t]
                                       \/ /\ d.dir[s[i]][t] = Deleted
                                          /\ Victim(disk.dir[s[i]][t], name)
  BY <1>5, <1>7 DEF Kept
<1>11. ASSUME NEW x, IsLive(x), Shows(d, s, x) PROVE Shows(disk, s, x) /\ x.name # name
  <2>1. PICK i \in 1..Len(s), t \in Slot: Shown(d, s, i, t) /\ x = EntryAt(d, s[i], t)
    BY <1>11 DEF Shows
  <2>2. x = d.dir[s[i]][t] /\ Shown(disk, s, i, t)
    BY <1>8, <1>9, <2>1
  <2>3. x.name # name
    BY <1>5, <1>11, <2>2 DEF AllGone, Victim
  <2>4. x = EntryAt(disk, s[i], t)
    BY <1>9, <1>10, <1>11, <2>2, EntryKinds
  <2> QED
    BY <2>2, <2>3, <2>4 DEF Shows
<1>12. ASSUME NEW x, IsLive(x), Shows(disk, s, x), x.name # name PROVE Shows(d, s, x)
  <2>1. PICK i \in 1..Len(s), t \in Slot: Shown(disk, s, i, t) /\ x = EntryAt(disk, s[i], t)
    BY <1>12 DEF Shows
  <2>2. x = disk.dir[s[i]][t] /\ Shown(d, s, i, t)
    BY <1>8, <1>9, <2>1
  <2>3. x = EntryAt(d, s[i], t)
    BY <1>9, <1>10, <1>12, <2>2 DEF Victim
  <2> QED
    BY <2>2, <2>3 DEF Shows
<1>13. \A x: (x \in Listing(d, f, dir) <=> IsLive(x) /\ Shows(d, s, x))
  BY <1>4, <1>6, ListingShows
<1>14. \A x: (x \in Listing(disk, fat, dir) <=> IsLive(x) /\ Shows(disk, s, x))
  BY <1>4, ListingShows
<1>15. \A x: x \in Listing(d, f, dir) <=> x \in Listing(disk, fat, dir) /\ x.name # name
  BY <1>11, <1>12, <1>13, <1>14
<1> QED
  BY <1>15

-----------------------------------------------------------------------------
(* The steps of one session *)

LEMMA DirectoriesStayNamed == \A h \in Directories': IsNamedBy(disk', h)
<1> SUFFICES ASSUME NEW h \in Directories' PROVE IsNamedBy(disk', h)
  OBVIOUS
<1>1. h = RootCluster \/ \E p \in Entries': (disk'.dir[p[1]][p[2]]).cluster = h
  BY DEF Directories, EntryAtPos
<1>2. \A p \in Entries': p[1] \in Cluster /\ p[2] \in Slot /\ IsLive(disk'.dir[p[1]][p[2]])
  BY DEF Entries
<1> QED
  BY <1>1, <1>2 DEF IsNamedBy, IsNamed

OneSession == sessions = 1 /\ FatInv /\ GrowInv
LEMMA InOneSession ==
  ASSUME OneSession
  PROVE  /\ fat \in Fats /\ whereClusters \in Hints /\ disk \in Disks /\ Sound(fat, disk)
         /\ LinkSound(fat) /\ GrowInv
BY DEF OneSession, FatInv, StateTypes, FirstSession, Sound

LEMMA CreateKeepsGrow ==
  ASSUME OneSession, NEW path \in Paths, NEW name \in Names, NEW kind \in {"file", "dir"},
         NEW out \in createFile(path, name, kind)
  PROVE  Grows(out.fat, out.hint, Last(out.images))
<1>1. /\ fat \in Fats /\ whereClusters \in Hints /\ disk \in Disks /\ Sound(fat, disk)
      /\ LinkSound(fat) /\ GrowInv /\ Len(path) \in Nat
  BY InOneSession, PathLengths
<1>2. LinkSound(out.fat)
  BY <1>1, CreateIsFine DEF OutcomeFine, Sound
<1>3. CASE Stays(out)
  BY <1>1, <1>3 DEF Stays, GrowInv, Grows
<1>4. CASE ~Stays(out)
  <2> DEFINE dir == searchFile(disk, fat, path)
  <2>1. \E c \in InUse(fat), s \in Slot: Chosen(dir, c, s) /\ Adding(out, c, s, name, kind)
    BY <1>1, <1>4, CreateLeaves
  <2> HIDE DEF dir
  <2>2. PICK c \in InUse(fat), s \in Slot: Chosen(dir, c, s) /\ Adding(out, c, s, name, kind)
    BY <2>1
  <2>3. CASE out.hint = FatSize
    BY <2>3, NoneAhead
  <2>4. CASE out.hint # FatSize
    <3> DEFINE e == Live(kind, name, out.ret)
    <3>1. /\ fat[c] = EOC /\ out.ret \in Cluster
          /\ Leaves(out.fat, out.hint, Last(out.images), c, s, e)
      BY <2>2, <2>4 DEF Adding
    <3>2. e.kind \in {"file", "dir"}
      BY DEF Live
    <3> HIDE DEF e
    <3> QED
      BY <1>1, <1>2, <2>2, <3>1, <3>2, CreateGrows
  <2> QED
    BY <2>3, <2>4
<1> QED
  BY <1>3, <1>4

LEMMA DeleteKeepsGrow ==
  ASSUME OneSession, NEW path \in Paths, NEW name, NEW out, out = deleteFile(path, name)
  PROVE  Grows(out.fat, out.hint, Last(out.images))
<1>1. /\ fat \in Fats /\ whereClusters \in Hints /\ disk \in Disks /\ Sound(fat, disk)
      /\ LinkSound(fat) /\ GrowInv /\ Len(path) \in Nat
  BY InOneSession, PathLengths
<1>2. searchFile(disk, fat, path) \in Cluster
  BY <1>1, SearchIsFine DEF InUse
<1>3. out.hint = whereClusters /\ Shrunk(out.fat, Last(out.images))
  BY <1>1, <1>2, DeleteShrinks
<1> QED
  BY <1>1, <1>3, DeleteGrows

LEMMA GrowStep ==
  ASSUME MaxSessions = 1, FatInv, GrowInv, [Next]_vars
  PROVE  GrowInv'
<1>1. sessions = 1 /\ ~(sessions < MaxSessions)
  BY DEF FatInv, StateTypes
<1>2. OneSession
  BY <1>1 DEF OneSession
<1>3. ASSUME NEW out, Grows(out.fat, out.hint, Last(out.images)),
             NEW op, NEW path, NEW name, NEW kind, Return(op, path, name, kind, out)
      PROVE  GrowInv'
  <2>1. fat' = out.fat /\ whereClusters' = out.hint /\ disk' = Last(out.images)
    BY <1>3 DEF Return
  <2>2. Ahead(fat', whereClusters') /\ LinksFull(fat', whereClusters', disk')
    BY <1>3, <2>1 DEF Grows
  <2> QED
    BY <2>2 DEF GrowInv
<1>4. ASSUME NEW path \in Paths, NEW name \in Names, NEW kind \in {"file", "dir"},
             Create(path, name, kind)
      PROVE  GrowInv'
  <2>1. PICK out \in createFile(path, name, kind): Return("create", path, name, kind, out)
    BY <1>4 DEF Create
  <2>2. Grows(out.fat, out.hint, Last(out.images))
    BY <1>2, CreateKeepsGrow
  <2> QED
    BY <1>3, <2>1, <2>2
<1>5. ASSUME NEW path \in Paths, NEW name \in Names, Delete(path, name)
      PROVE  GrowInv'
  <2> DEFINE out == deleteFile(path, name)
  <2>1. Return("delete", path, name, "file", out)
    BY <1>5 DEF Delete
  <2>2. out = deleteFile(path, name)
    OBVIOUS
  <2> HIDE DEF out
  <2>3. Grows(out.fat, out.hint, Last(out.images))
    BY <1>2, <2>2, DeleteKeepsGrow
  <2> QED
    BY <1>3, <2>1, <2>3
<1>6. ASSUME NEW path \in Paths, NEW name \in Names, NEW kind \in {"file", "dir"},
             CrashInCreate(path, name, kind)
      PROVE  FALSE
  BY <1>1, <1>6 DEF CrashInCreate
<1>7. ASSUME NEW path \in Paths, NEW name \in Names, CrashInDelete(path, name) PROVE FALSE
  BY <1>1, <1>7 DEF CrashInDelete
<1>8. ASSUME Reboot PROVE FALSE
  BY <1>1, <1>8 DEF Reboot, Reset
<1>9. CASE UNCHANGED vars
  BY <1>9 DEF vars, GrowInv, Ahead, LinksFull
<1>10. CASE Next
  BY <1>4, <1>5, <1>6, <1>7, <1>8, <1>10 DEF Next
<1> QED
  BY <1>9, <1>10

\* What a creation changes in the listings.
LEMMA CreateLists ==
  ASSUME OneSession, NEW path \in Paths, NEW name \in Names, NEW kind \in {"file", "dir"},
         NEW out \in createFile(path, name, kind), NamesDirectory(path), CanGrow,
         NEW dir, dir = searchFile(disk, fat, path), NEW f, f = out.fat, NEW d, d = Last(out.images),
         NEW y, IsNamedBy(disk, y), IsNamedBy(d, y)
  PROVE  /\ out.ret > 0 /\ y = dir =>
              Listing(d, f, y) = Listing(disk, fat, y) \cup {Live(kind, name, out.ret)}
         /\ ~(out.ret > 0 /\ y = dir) => Listing(d, f, y) = Listing(disk, fat, y)
<1>1. /\ fat \in Fats /\ whereClusters \in Hints /\ disk \in Disks /\ Sound(fat, disk)
      /\ LinkSound(fat) /\ GrowInv /\ Len(path) \in Nat
  BY InOneSession, PathLengths
<1>2. f \in Fats /\ d \in Disks /\ Sound(f, d)
  BY <1>1, CreateIsFine DEF OutcomeFine, Last
<1>3. IsNamedBy(disk, dir)
  BY <1>1, FoundIsNamed DEF NamesDirectory, searchFile
<1>4. CASE Stays(out)
  BY <1>4 DEF Stays
<1>5. CASE ~Stays(out)
  <2>1. \E c \in InUse(fat), s \in Slot: Chosen(dir, c, s) /\ Adding(out, c, s, name, kind)
    BY <1>1, <1>5, CreateLeaves
  <2>2. PICK c \in InUse(fat), s \in Slot: Chosen(dir, c, s) /\ Adding(out, c, s, name, kind)
    BY <2>1
  <2> DEFINE e == Live(kind, name, out.ret)
  <2>3. /\ fat[c] = EOC /\ out.ret \in Cluster /\ out.ret # 0
        /\ Leaves(f, out.hint, d, c, s, e)
    BY <2>2 DEF Adding
  <2>4. IsLive(e)
    BY <2>3, EntryKinds
  <2>5. out.ret > 0
    <3>1. out.ret \in Nat /\ out.ret # 0
      BY <2>3, Clusters
    <3> QED
      BY <3>1
  <2>6. e = Live(kind, name, out.ret)
    OBVIOUS
  <2> HIDE DEF e
  <2>7. CASE y = dir
    BY <1>1, <1>2, <1>3, <2>2, <2>3, <2>4, <2>5, <2>6, <2>7, DirectoryListsOneMore
  <2>8. CASE y # dir
    BY <1>1, <1>2, <1>3, <2>2, <2>3, <2>8, OthersListSame
  <2> QED
    BY <2>7, <2>8
<1> QED
  BY <1>4, <1>5

\* What a deletion changes in the listings.
LEMMA DeleteLists ==
  ASSUME OneSession, NEW path \in Paths, NEW name, NEW out, out = deleteFile(path, name),
         NamesDirectory(path),
         NEW dir, dir = searchFile(disk, fat, path), NEW f, f = out.fat, NEW d, d = Last(out.images),
         NEW y, IsNamedBy(disk, y), IsNamedBy(d, y)
  PROVE  /\ y = dir => Listing(d, f, y) = {e \in Listing(disk, fat, y): e.name # name}
         /\ y # dir => Listing(d, f, y) = Listing(disk, fat, y)
<1>1. /\ fat \in Fats /\ whereClusters \in Hints /\ disk \in Disks /\ Sound(fat, disk)
      /\ LinkSound(fat) /\ GrowInv /\ Len(path) \in Nat
  BY InOneSession, PathLengths
<1>2. f \in Fats /\ d \in Disks /\ Sound(f, d) /\ ~out.hung
  BY <1>1, DeleteIsFine DEF OutcomeFine, Last
<1>3. IsNamedBy(disk, dir)
  BY <1>1, FoundIsNamed DEF NamesDirectory, searchFile
<1>4. Opening(fat, dir) /\ dir # 0
  BY <1>1, <1>3, NamesAreHeads
<1>5. dir \in Used
  BY <1>4 DEF Opening, Used
<1>6. Orderly(dir)
  <2>1. NoCluster0 /\ NamedOnce
    BY <1>1, SoundIsOrderly
  <2>2. Findable(dir)
    BY <1>1, SearchInside DEF Findable, NamesDirectory, searchFile
  <2> QED
    BY <2>1, <2>2 DEF Orderly
<1> DEFINE s == Chain(fat, dir)
<1>7. s = Chain(fat, dir)
  OBVIOUS
<1> HIDE DEF s
<1>8. ChainOf(fat, dir, s) /\ Sweepable(s)
  BY <1>1, <1>5, <1>7, ChainUsed DEF Sweepable
<1>9. DeletesName(f, d, s, name)
  BY <1>1, <1>2, <1>5, <1>6, <1>8, DeleteSweeps
<1>10. CASE y = dir
  BY <1>1, <1>2, <1>3, <1>7, <1>9, <1>10, DirectoryLosesName
<1>11. CASE y # dir
  BY <1>1, <1>2, <1>3, <1>7, <1>9, <1>11, OthersStay
<1> QED
  BY <1>10, <1>11

\* createFile and deleteFile change one name in one directory and no other listing:
\* in the first session, whatever hint the disk holds and whatever other calls were
\* made, also in missing directories; as long as a creation has clusters to grow by.
THEOREM CallsKeepListings ==
  ASSUME MaxSessions = 1
  PROVE  Spec => CallsChangeOneName
<1> DEFINE Listed ==
      last'.op \in {"create", "delete"} /\ NamesDirectory(last'.path)
      /\ (last'.op = "create" => CanGrow) =>
         \A c \in Directories \cap Directories':
           LET before == Listing(disk, fat, c)
               added == IF last'.op = "create" /\ last'.ret > 0
                        THEN {Live(last'.kind, last'.name, last'.ret)} ELSE {}
               left == IF last'.op = "delete" THEN {e \in before: e.name # last'.name} ELSE before
           IN  Listing(disk', fat', c) =
                 IF c = searchFile(disk, fat, last'.path) THEN left \cup added ELSE before
<1>1. FatInv /\ GrowInv /\ [Next]_vars => [Listed]_vars
  <2> SUFFICES ASSUME FatInv, GrowInv, Next PROVE Listed
    OBVIOUS
  <2>1. OneSession /\ ~(sessions < MaxSessions)
    BY DEF OneSession, FatInv, StateTypes
  <2>2. \A c \in Directories \cap Directories': IsNamedBy(disk, c) /\ IsNamedBy(disk', c)
    BY DirectoriesAreNamed, DirectoriesStayNamed
  <2>3. ASSUME NEW path \in Paths, NEW name \in Names, NEW kind \in {"file", "dir"},
               Create(path, name, kind)
        PROVE  Listed
    <3>1. PICK out \in createFile(path, name, kind): Return("create", path, name, kind, out)
      BY <2>3 DEF Create
    <3>2. /\ fat' = out.fat /\ disk' = Last(out.images)
          /\ last'.op = "create" /\ last'.path = path /\ last'.name = name /\ last'.kind = kind
          /\ last'.ret = out.ret
      BY <3>1 DEF Return, Call
    <3> SUFFICES ASSUME NamesDirectory(path), CanGrow, NEW c \in Directories \cap Directories'
                 PROVE  Listing(disk', fat', c) =
                          IF c = searchFile(disk, fat, path)
                          THEN Listing(disk, fat, c)
                               \cup (IF out.ret > 0 THEN {Live(kind, name, out.ret)} ELSE {})
                          ELSE Listing(disk, fat, c)
      BY <3>2
    <3> DEFINE dir == searchFile(disk, fat, path)
               d == disk'
               f == fat'
    <3>3. dir = searchFile(disk, fat, path) /\ d = Last(out.images) /\ f = out.fat
      BY <3>2
    <3>4. IsNamedBy(disk, c) /\ IsNamedBy(d, c)
      BY <2>2
    <3> HIDE DEF dir, d, f
    <3>5. /\ out.ret > 0 /\ c = dir =>
               Listing(d, f, c) = Listing(disk, fat, c) \cup {Live(kind, name, out.ret)}
          /\ ~(out.ret > 0 /\ c = dir) => Listing(d, f, c) = Listing(disk, fat, c)
      BY <2>1, <3>1, <3>3, <3>4, CreateLists
    <3>6. Listing(d, f, c) = IF c = dir
                             THEN Listing(disk, fat, c)
                                  \cup (IF out.ret > 0 THEN {Live(kind, name, out.ret)} ELSE {})
                             ELSE Listing(disk, fat, c)
      BY <3>5
    <3> QED
      BY <3>6 DEF d, f, dir
  <2>4. ASSUME NEW path \in Paths, NEW name \in Names, Delete(path, name) PROVE Listed
    <3> DEFINE out == deleteFile(path, name)
    <3>1. Return("delete", path, name, "file", out)
      BY <2>4 DEF Delete
    <3>7. out = deleteFile(path, name)
      OBVIOUS
    <3> HIDE DEF out
    <3>2. /\ fat' = out.fat /\ disk' = Last(out.images)
          /\ last'.op = "delete" /\ last'.path = path /\ last'.name = name
      BY <3>1 DEF Return, Call
    <3> SUFFICES ASSUME NamesDirectory(path), NEW c \in Directories \cap Directories'
                 PROVE  Listing(disk', fat', c) =
                          IF c = searchFile(disk, fat, path)
                          THEN {e \in Listing(disk, fat, c): e.name # name}
                          ELSE Listing(disk, fat, c)
      BY <3>2
    <3> DEFINE dir == searchFile(disk, fat, path)
               d == disk'
               f == fat'
    <3>3. dir = searchFile(disk, fat, path) /\ d = Last(out.images) /\ f = out.fat
      BY <3>2
    <3>4. IsNamedBy(disk, c) /\ IsNamedBy(d, c)
      BY <2>2
    <3> HIDE DEF dir, d, f
    <3>5. /\ c = dir => Listing(d, f, c) = {e \in Listing(disk, fat, c): e.name # name}
          /\ c # dir => Listing(d, f, c) = Listing(disk, fat, c)
      BY <2>1, <3>3, <3>4, <3>7, DeleteLists
    <3>6. Listing(d, f, c) = IF c = dir THEN {e \in Listing(disk, fat, c): e.name # name}
                             ELSE Listing(disk, fat, c)
      BY <3>5
    <3> QED
      BY <3>6 DEF d, f, dir
  <2>5. ASSUME NEW path \in Paths, NEW name \in Names, NEW kind \in {"file", "dir"},
               CrashInCreate(path, name, kind)
        PROVE  FALSE
    BY <2>1, <2>5 DEF CrashInCreate
  <2>6. ASSUME NEW path \in Paths, NEW name \in Names, CrashInDelete(path, name) PROVE FALSE
    BY <2>1, <2>6 DEF CrashInDelete
  <2>7. ASSUME Reboot PROVE FALSE
    BY <2>1, <2>7 DEF Reboot, Reset
  <2> HIDE DEF Listed
  <2> QED
    BY <2>3, <2>4, <2>5, <2>6, <2>7 DEF Next
<1>2. Init => FatInv /\ GrowInv
  BY FatInit, GrowInit
<1>3. FatInv /\ GrowInv /\ [Next]_vars => (FatInv /\ GrowInv)'
  BY FatStep, GrowStep
<1> QED
  BY <1>1, <1>2, <1>3, PTL DEF Spec, CallsChangeOneName
=============================================================================
