--------------------------- MODULE FileData_proofs ---------------------------
(***************************************************************************)
(* Proofs about readFile and writeFile (module FileData), for clusters and *)
(* sectors of any size, files of any length and calls of any size.         *)
(***************************************************************************)
EXTENDS FileData, FiniteSetTheorems, WellFoundedInduction, TLAPS

-----------------------------------------------------------------------------
(* Numbers *)

\* Induction, for a property of numbers given as a set.
LEMMA CountUp ==
  ASSUME NEW P \in SUBSET Nat, 0 \in P, \A n \in P: n + 1 \in P
  PROVE  P = Nat
<1> DEFINE R == OpToRel(<, Nat)
<1> SUFFICES ASSUME Nat \ P # {} PROVE FALSE
  OBVIOUS
<1>1. IsWellFoundedOn(R, Nat)
  BY NatLessThanWellFounded
<1>2. \A x, y \in Nat: y < x => <<y, x>> \in R
  BY DEF OpToRel
<1> HIDE DEF R
<1>3. PICK n \in Nat \ P: \A y \in Nat \ P: ~(<<y, n>> \in R)
  BY <1>1, WFMin
<1>4. n - 1 \in Nat /\ n - 1 + 1 = n /\ n - 1 < n
  BY <1>3
<1>5. n - 1 \in P
  BY <1>2, <1>3, <1>4
<1> QED
  BY <1>3, <1>4, <1>5

\* The same for the numbers up to n.
LEMMA CountUpTo ==
  ASSUME NEW n \in Nat, NEW P, 0 \in P, \A i \in 0..n: i # n /\ i \in P => i + 1 \in P
  PROVE  0..n \subseteq P
<1> DEFINE Q == {i \in Nat: i <= n => i \in P}
<1>1. 0 \in Q /\ \A i \in Q: i + 1 \in Q
  OBVIOUS
<1>2. Q \in SUBSET Nat
  OBVIOUS
<1> HIDE DEF Q
<1>3. Q = Nat
  BY <1>1, <1>2, CountUp
<1> QED
  BY <1>3 DEF Q

\* Every set of numbers has its minimum.
LEMMA Minimum ==
  ASSUME NEW T \in SUBSET Nat, T # {}
  PROVE  Min(T) \in T /\ \A y \in T: Min(T) <= y
<1> DEFINE R == OpToRel(<, Nat)
<1>1. IsWellFoundedOn(R, Nat)
  BY NatLessThanWellFounded
<1>2. \A x, y \in Nat: y < x => <<y, x>> \in R
  BY DEF OpToRel
<1> HIDE DEF R
<1>3. PICK x \in T: \A y \in T: ~(<<y, x>> \in R)
  BY <1>1, WFMin
<1>4. \A y \in T: x <= y
  <2> SUFFICES ASSUME NEW y \in T PROVE x <= y
    OBVIOUS
  <2>1. x \in Nat /\ y \in Nat /\ ~(y < x)
    BY <1>2, <1>3
  <2> QED
    BY <2>1
<1> QED
  BY <1>3, <1>4 DEF Min

\* Division: quotient and remainder, and that there is one pair of them only.
LEMMA Division ==
  ASSUME NEW n \in Nat, NEW d \in Nat \ {0}
  PROVE  /\ n \div d \in Nat /\ n % d \in 0..d-1 /\ n % d \in Nat
         /\ n = d * (n \div d) + (n % d)
<1>1. n \div d \in Nat
  OBVIOUS
<1>2. n % d \in 0..d-1 /\ n % d \in Nat
  OBVIOUS
<1>3. n = d * (n \div d) + (n % d)
  OBVIOUS
<1> QED
  BY <1>1, <1>2, <1>3

LEMMA Product ==
  ASSUME NEW a \in Nat, NEW b \in Nat
  PROVE  a * b \in Nat /\ b * a = a * b
OBVIOUS

LEMMA Larger ==
  ASSUME NEW d \in Nat \ {0}, NEW q \in Nat, NEW p \in Nat, q < p
  PROVE  d * q + d <= d * p /\ d * q \in Nat /\ d * p \in Nat
<1>1. PICK e \in Nat: p = q + 1 + e
  <2>1. p - q - 1 \in Nat /\ p = q + 1 + (p - q - 1)
    OBVIOUS
  <2> QED
    BY <2>1
<1>2. d * p = d * q + d + d * e
  BY <1>1
<1>3. d * e \in Nat /\ d * q \in Nat /\ d * p \in Nat
  BY Product
<1> QED
  BY <1>2, <1>3

LEMMA OneQuotient ==
  ASSUME NEW d \in Nat \ {0}, NEW q \in Nat, NEW p \in Nat, NEW r \in 0..d-1, NEW s \in 0..d-1,
         d * q + r = d * p + s
  PROVE  q = p /\ r = s
<1>1. d * q \in Nat /\ d * p \in Nat
  BY Product
<1>2. ~(q < p)
  <2> SUFFICES ASSUME q < p PROVE FALSE
    OBVIOUS
  <2>1. d * q + d <= d * p
    BY Larger
  <2> QED
    BY <1>1, <2>1
<1>3. ~(p < q)
  <2> SUFFICES ASSUME p < q PROVE FALSE
    OBVIOUS
  <2>1. d * p + d <= d * q
    BY Larger
  <2> QED
    BY <1>1, <2>1
<1>4. q = p
  BY <1>2, <1>3
<1> QED
  BY <1>1, <1>4

LEMMA Quotient ==
  ASSUME NEW d \in Nat \ {0}, NEW q \in Nat, NEW r \in 0..d-1
  PROVE  (d * q + r) \div d = q /\ (d * q + r) % d = r
<1> DEFINE n == d * q + r
<1>1. d * q \in Nat
  BY Product
<1>2. n \in Nat /\ n = d * q + r
  BY <1>1
<1> HIDE DEF n
<1>3. n \div d \in Nat /\ n % d \in 0..d-1 /\ n = d * (n \div d) + (n % d)
  BY <1>2, Division
<1>4. n \div d = q /\ n % d = r
  BY <1>2, <1>3, OneQuotient
<1> QED
  BY <1>4 DEF n

LEMMA QuotientGrows ==
  ASSUME NEW d \in Nat \ {0}, NEW m \in Nat, NEW n \in Nat, m <= n
  PROVE  m \div d <= n \div d
<1>1. /\ m \div d \in Nat /\ m % d \in 0..d-1 /\ m = d * (m \div d) + (m % d)
      /\ n \div d \in Nat /\ n % d \in 0..d-1 /\ n = d * (n \div d) + (n % d)
  BY Division
<1> SUFFICES ASSUME n \div d < m \div d PROVE FALSE
  BY <1>1
<1>2. d * (n \div d) + d <= d * (m \div d) /\ d * (n \div d) \in Nat /\ d * (m \div d) \in Nat
  BY <1>1, Larger
<1> QED
  BY <1>1, <1>2

-----------------------------------------------------------------------------
(* Where a byte of a file lies *)

LEMMA Geometry ==
  /\ SectorsPerCluster \in Nat \ {0} /\ BytesPerSector \in Nat \ {0}
  /\ BytesPerCluster \in Nat \ {0} /\ BytesPerCluster = BytesPerSector * SectorsPerCluster
  /\ FileClusters \in Nat \ {0} /\ MaxSize \in Nat \ {0} /\ LastCluster \in Nat /\ LastCluster > 2
  /\ Cluster \subseteq Nat \ {0, 1} /\ EOC \notin Cluster /\ Free \notin Cluster /\ EOC # Free
  /\ \A c \in Cluster: c <= LastCluster
<1>1. SectorsPerCluster \in Nat \ {0} /\ BytesPerSector \in Nat \ {0}
  BY DiskAssumption
<1>2. BytesPerCluster \in Nat \ {0} /\ BytesPerCluster = BytesPerSector * SectorsPerCluster
  BY <1>1 DEF BytesPerCluster
<1> QED
  BY <1>1, <1>2, DiskAssumption DEF Cluster, EOC, Free

\* The cluster within the file, the sector within the cluster and the byte within the
\* sector of the byte at offset b.
Cl(b) == b \div BytesPerCluster
Sec(b) == (b % BytesPerCluster) \div BytesPerSector
Off(b) == b % BytesPerSector

LEMMA SectorParts ==
  ASSUME NEW n \in 0..SectorsPerCluster-1, NEW r \in 0..BytesPerSector-1
  PROVE  /\ BytesPerSector * n + r \in 0..BytesPerCluster-1
         /\ BytesPerSector * n + BytesPerSector <= BytesPerCluster
<1>1. BytesPerSector * n + BytesPerSector <= BytesPerSector * SectorsPerCluster
  BY Geometry, Larger
<1>2. BytesPerSector * n \in Nat
  BY Geometry
<1> QED
  BY <1>1, <1>2, Geometry

LEMMA SameParts ==
  ASSUME NEW b \in Nat, NEW q \in Nat, NEW n \in 0..SectorsPerCluster-1,
         NEW r \in 0..BytesPerSector-1, b = BytesPerCluster * q + (BytesPerSector * n + r)
  PROVE  Cl(b) = q /\ Sec(b) = n /\ Off(b) = r
<1> DEFINE rest == BytesPerSector * n + r
<1>1. rest \in 0..BytesPerCluster-1
  BY SectorParts
<1>2. rest \div BytesPerSector = n
  BY Geometry, Quotient
<1>3. b = BytesPerSector * (SectorsPerCluster * q + n) + r
  <2>1. BytesPerCluster * q = BytesPerSector * (SectorsPerCluster * q)
    BY Geometry
  <2> QED
    BY <2>1, Geometry
<1>4. SectorsPerCluster * q + n \in Nat
  BY Geometry
<1>5. b % BytesPerSector = r
  <2> DEFINE k == SectorsPerCluster * q + n
  <2>1. k \in Nat /\ b = BytesPerSector * k + r
    BY <1>3, <1>4
  <2> HIDE DEF k
  <2>2. (BytesPerSector * k + r) % BytesPerSector = r
    BY <2>1, Geometry, Quotient
  <2> QED
    BY <2>1, <2>2
<1>7. b = BytesPerCluster * q + rest
  OBVIOUS
<1> HIDE DEF rest
<1>6. b \div BytesPerCluster = q /\ b % BytesPerCluster = rest
  BY <1>1, <1>7, Geometry, Quotient
<1> QED
  BY <1>2, <1>5, <1>6 DEF Cl, Sec, Off

LEMMA Parts ==
  ASSUME NEW b \in Nat
  PROVE  /\ Cl(b) \in Nat /\ Sec(b) \in 0..SectorsPerCluster-1 /\ Off(b) \in 0..BytesPerSector-1
         /\ b = BytesPerCluster * Cl(b) + (BytesPerSector * Sec(b) + Off(b))
         /\ b % BytesPerCluster = BytesPerSector * Sec(b) + Off(b)
<1>0. /\ b \div BytesPerCluster \in Nat /\ b % BytesPerCluster \in 0..BytesPerCluster-1
      /\ b = BytesPerCluster * (b \div BytesPerCluster) + (b % BytesPerCluster)
  BY Geometry, Division
<1> DEFINE rest == b % BytesPerCluster
           q == b \div BytesPerCluster
<1>1. q \in Nat /\ rest \in Nat /\ rest < BytesPerCluster /\ b = BytesPerCluster * q + rest
  BY <1>0, Geometry
<1> HIDE DEF rest, q
<1> DEFINE n == rest \div BytesPerSector
           r == rest % BytesPerSector
<1>2. n \in Nat /\ r \in 0..BytesPerSector-1 /\ rest = BytesPerSector * n + r
  BY <1>1, Geometry, Division
<1> HIDE DEF n, r
<1>3. n \in 0..SectorsPerCluster-1
  <2> SUFFICES ASSUME n >= SectorsPerCluster PROVE FALSE
    BY <1>2, Geometry
  <2>1. BytesPerSector * n >= BytesPerSector * SectorsPerCluster
    <3>1. CASE n = SectorsPerCluster
      BY <3>1, Geometry
    <3>2. CASE n # SectorsPerCluster
      <4>1. SectorsPerCluster < n
        BY <1>2, <3>2, Geometry
      <4> QED
        BY <1>2, <4>1, Geometry, Larger
    <3> QED
      BY <3>1, <3>2
  <2>2. BytesPerSector * n \in Nat
    BY <1>2, Geometry
  <2> QED
    BY <1>1, <1>2, <2>1, <2>2, Geometry
<1>4. Cl(b) = q /\ Sec(b) = n /\ Off(b) = r
  BY <1>1, <1>2, <1>3, SameParts
<1> QED
  BY <1>1, <1>2, <1>3, <1>4 DEF rest

\* The sectors of a cluster are its own.
LEMMA SectorOfCluster ==
  ASSUME NEW c \in Nat, NEW n \in 0..SectorsPerCluster-1
  PROVE  ClusterOf(getDiskSector(c, n)) = c /\ getDiskSector(c, n) % SectorsPerCluster = n
<1>1. getDiskSector(c, n) = SectorsPerCluster * c + n
  BY Geometry DEF getDiskSector
<1> QED
  BY <1>1, Geometry, Quotient DEF ClusterOf

LEMMA SectorsOfDisk ==
  ASSUME NEW c \in Cluster, NEW n \in 0..SectorsPerCluster
  PROVE  getDiskSector(c, n) \in Sector /\ getDiskSector(c, n) \in Nat
<1>1. c \in Nat /\ 2 <= c /\ c < LastCluster + 2 /\ 2 \in Nat /\ LastCluster + 2 \in Nat
      /\ c + 1 \in Nat /\ c + 1 < LastCluster + 2
  BY Geometry DEF Cluster
<1>2. SectorsPerCluster * (c + 1) + SectorsPerCluster <= SectorsPerCluster * (LastCluster + 2)
  BY <1>1, Geometry, Larger
<1>3. SectorsPerCluster * (c + 1) = SectorsPerCluster * c + SectorsPerCluster
  BY <1>1, Geometry
<1>4. SectorsPerCluster * 2 <= SectorsPerCluster * c
  <2>1. CASE c = 2
    BY <2>1, Geometry
  <2>2. CASE 2 < c
    <3>1. SectorsPerCluster * 2 + SectorsPerCluster <= SectorsPerCluster * c
      BY <1>1, <2>2, Geometry, Larger
    <3> QED
      BY <1>1, <3>1, Geometry
  <2> QED
    BY <1>1, <2>1, <2>2
<1>5. /\ SectorsPerCluster * 2 \in Nat /\ SectorsPerCluster * c \in Nat
      /\ SectorsPerCluster * (LastCluster + 2) \in Nat
  BY <1>1, Geometry
<1>6. /\ getDiskSector(c, n) = SectorsPerCluster * c + n
      /\ getDiskSector(2, 0) = SectorsPerCluster * 2
      /\ getDiskSector(LastCluster + 2, 0) = SectorsPerCluster * (LastCluster + 2)
  BY <1>1, <1>5, Geometry DEF getDiskSector
<1> QED
  BY <1>2, <1>3, <1>4, <1>5, <1>6, Geometry DEF Sector

\* Byte k of a call that stays inside one cluster.
LEMMA PlaceInCluster ==
  ASSUME NEW size \in Nat, NEW startByte \in Nat, InsideCluster(size, startByte),
         NEW k \in 0..size-1
  PROVE  LET j == (Off(startByte) + k) \div BytesPerSector
         IN  /\ j \in 0..SectorEnds(size, startByte)
             /\ Cl(startByte + k) = Cl(startByte)
             /\ Sec(startByte + k) = Sec(startByte) + j
             /\ Off(startByte + k) = (Off(startByte) + k) % BytesPerSector
<1> DEFINE r == Off(startByte)
           q == Cl(startByte)
           n == Sec(startByte)
           m == r + k
           j == m \div BytesPerSector
           i == m % BytesPerSector
<1>1. /\ q \in Nat /\ n \in 0..SectorsPerCluster-1 /\ r \in 0..BytesPerSector-1
      /\ startByte = BytesPerCluster * q + (BytesPerSector * n + r)
      /\ startByte % BytesPerCluster = BytesPerSector * n + r
  BY Parts
<1> HIDE DEF r, q, n
<1>2. m \in Nat /\ m <= r + size - 1 /\ r + size - 1 \in Nat
  BY <1>1, Geometry
<1>3. m \div BytesPerSector <= (r + size - 1) \div BytesPerSector
  BY <1>2, Geometry, QuotientGrows
<1>4. SectorEnds(size, startByte) = (r + size - 1) \div BytesPerSector
  BY <1>2 DEF SectorEnds, r, Off
<1>5. (r + size - 1) \div BytesPerSector \in Nat
  BY <1>2, Geometry, Division
<1>6. j \in Nat /\ i \in 0..BytesPerSector-1 /\ m = BytesPerSector * j + i
  BY <1>2, Geometry, Division
<1>7. j \in 0..SectorEnds(size, startByte)
  BY <1>3, <1>4, <1>5, <1>6
<1>8. BytesPerSector * n + m < BytesPerCluster
  <2>1. BytesPerSector * n + r + size <= BytesPerCluster
    BY <1>1 DEF InsideCluster
  <2>2. BytesPerSector * n \in Nat
    BY <1>1, Geometry
  <2> QED
    BY <1>1, <2>1, <2>2, Geometry
<1> HIDE DEF j, i, m
<1>9. n + j \in 0..SectorsPerCluster-1
  <2> SUFFICES ASSUME SectorsPerCluster <= n + j PROVE FALSE
    BY <1>1, <1>6, Geometry
  <2>1. BytesPerSector * (n + j) = BytesPerSector * n + BytesPerSector * j
    BY <1>1, <1>6, Geometry
  <2>2. BytesPerSector * SectorsPerCluster <= BytesPerSector * (n + j)
    <3>1. CASE n + j = SectorsPerCluster
      BY <3>1, Geometry
    <3>2. CASE SectorsPerCluster < n + j
      <4>1. n + j \in Nat
        BY <1>1, <1>6
      <4>2. BytesPerSector * SectorsPerCluster + BytesPerSector <= BytesPerSector * (n + j)
        BY <3>2, <4>1, Geometry, Larger
      <4> QED
        BY <4>1, <4>2, Geometry
    <3> QED
      BY <1>1, <1>6, <3>1, <3>2, Geometry
  <2>3. BytesPerSector * n \in Nat /\ BytesPerSector * j \in Nat
    BY <1>1, <1>6, Geometry
  <2> QED
    BY <1>2, <1>6, <1>8, <2>1, <2>2, <2>3, Geometry
<1>10. startByte + k = BytesPerCluster * q + (BytesPerSector * (n + j) + i)
  <2>1. BytesPerSector * (n + j) = BytesPerSector * n + BytesPerSector * j
    BY <1>1, <1>6, Geometry
  <2>2. BytesPerSector * n \in Nat /\ BytesPerSector * j \in Nat /\ BytesPerCluster * q \in Nat
    BY <1>1, <1>6, Geometry
  <2>3. r + k = BytesPerSector * j + i
    BY <1>6 DEF m
  <2> QED
    BY <1>1, <1>6, <2>1, <2>2, <2>3, Geometry
<1>11. Cl(startByte + k) = q /\ Sec(startByte + k) = n + j /\ Off(startByte + k) = i
  <2>1. startByte + k \in Nat
    OBVIOUS
  <2> QED
    BY <1>1, <1>6, <1>9, <1>10, <2>1, SameParts
<1>12. j = (Off(startByte) + k) \div BytesPerSector /\ i = (Off(startByte) + k) % BytesPerSector
  BY Zenon DEF j, i, m, r
<1> QED
  BY <1>7, <1>11, <1>12, Zenon DEF q, n

-----------------------------------------------------------------------------
(* Chains *)

Fats == [Cluster -> {Free, EOC} \cup Cluster]

\* p leads from cluster c to the end of its chain in the table t.
IsChain(t, c, p) ==
  /\ p \in Seq(Cluster) /\ p # <<>> /\ p[1] = c /\ t[p[Len(p)]] = EOC
  /\ \A i \in 1..Len(p): i # Len(p) => t[p[i]] = p[i + 1]

Injective(p) == \A i, j \in 1..Len(p): p[i] = p[j] => i = j

\* The recursion of Chain, up to n clusters further on.
ChainRow(t, k, shorter) ==
  [x \in Cluster |-> <<x>> \o (IF k = 0 \/ t[x] \notin Cluster THEN <<>> ELSE shorter[t[x]])]
ChainLoop(t, n, from) == from = [k \in 0..n |-> ChainRow(t, k, from[k - 1])]

LEMMA FirstRow == ASSUME NEW t, NEW g, NEW h PROVE ChainRow(t, 0, g) = ChainRow(t, 0, h)
BY DEF ChainRow

LEMMA ChainLoops ==
  ASSUME NEW t
  PROVE  \A n \in Nat: \E from: ChainLoop(t, n, from)
<1> DEFINE P == {n \in Nat: \E from: ChainLoop(t, n, from)}
<1>1. 0 \in P
  <2> DEFINE g == [k \in 0..0 |-> ChainRow(t, 0, t)]
  <2>1. g = [k \in 0..0 |-> ChainRow(t, k, g[k - 1])]
    BY FirstRow
  <2>2. ChainLoop(t, 0, g)
    BY <2>1 DEF ChainLoop
  <2> QED
    BY <2>2
<1>2. ASSUME NEW n \in P PROVE n + 1 \in P
  <2>1. PICK g: ChainLoop(t, n, g)
    OBVIOUS
  <2>2. n \in Nat /\ n + 1 \in Nat
    OBVIOUS
  <2> DEFINE h == [k \in 0..n+1 |-> ChainRow(t, k, g[k - 1])]
  <2>3. \A k \in 0..n: h[k] = g[k]
    BY <2>1, <2>2 DEF ChainLoop
  <2>4. \A k \in 0..n+1: k # 0 => k - 1 \in 0..n
    BY <2>2
  <2>5. ASSUME NEW k \in 0..n+1
        PROVE  ChainRow(t, k, h[k - 1]) = ChainRow(t, k, g[k - 1])
    <3> HIDE DEF h
    <3>1. CASE k = 0
      BY <3>1, FirstRow
    <3>2. CASE k # 0
      <4>1. h[k - 1] = g[k - 1]
        BY <2>3, <2>4, <3>2
      <4> QED
        BY <4>1
    <3> QED
      BY <3>1, <3>2
  <2>6. h = [k \in 0..n+1 |-> ChainRow(t, k, h[k - 1])]
    BY <2>5
  <2>7. ChainLoop(t, n + 1, h)
    BY <2>6 DEF ChainLoop
  <2> QED
    BY <2>2, <2>7
<1>3. P = Nat
  <2> HIDE DEF P
  <2>1. P \in SUBSET Nat
    BY DEF P
  <2> QED
    BY <1>1, <1>2, <2>1, CountUp
<1> QED
  BY <1>3

\* The last j + 1 clusters of a chain.
Ending(p, j) == [i \in 1..j+1 |-> p[Len(p) - (j + 1) + i]]

LEMMA OneAtTheEnd ==
  ASSUME NEW p \in Seq(Cluster), p # <<>>
  PROVE  <<p[Len(p)]>> \o <<>> = Ending(p, 0)
<1>1. <<p[Len(p)]>> \o <<>> = <<p[Len(p)]>> /\ Len(p) \in Nat
  OBVIOUS
<1>2. Ending(p, 0) = [i \in 1..1 |-> p[Len(p)]]
  BY <1>1 DEF Ending
<1> QED
  BY <1>1, <1>2

LEMMA OneMoreBefore ==
  ASSUME NEW p \in Seq(Cluster), NEW j \in Nat, j + 1 < Len(p)
  PROVE  <<p[Len(p) - (j + 1)]>> \o Ending(p, j) = Ending(p, j + 1)
<1> DEFINE n == Len(p)
           x == p[n - (j + 1)]
           q == Ending(p, j)
<1>1. n \in Nat /\ j + 1 < n /\ j \in Nat
  OBVIOUS
<1>2. q \in Seq(Cluster) /\ Len(q) = j + 1 /\ \A i \in 1..j+1: q[i] = p[n - (j + 1) + i]
  <2>1. q = [i \in 1..j+1 |-> p[n - (j + 1) + i]]
    BY DEF Ending
  <2>2. \A i \in 1..j+1: n - (j + 1) + i \in 1..n
    BY <1>1
  <2> HIDE DEF q, n
  <2>3. \A i \in 1..j+1: p[n - (j + 1) + i] \in Cluster
    BY <2>2 DEF n
  <2> QED
    BY <1>1, <2>1, <2>3
<1> HIDE DEF q
<1>3. x \in Cluster
  <2>1. n - (j + 1) \in 1..n
    BY <1>1
  <2> QED
    BY <2>1
<1> HIDE DEF x
<1> DEFINE s == <<x>> \o q
<1>4. s \in Seq(Cluster) /\ Len(s) = j + 2 /\ s[1] = x /\ \A i \in 2..j+2: s[i] = q[i - 1]
  BY <1>1, <1>2, <1>3
<1> HIDE DEF s
<1>5. s = [i \in 1..j+2 |-> s[i]]
  BY <1>4
<1>6. ASSUME NEW i \in 1..j+2 PROVE s[i] = p[n - (j + 2) + i]
  <2>1. CASE i = 1
    <3>1. n - (j + 2) + 1 = n - (j + 1)
      BY <1>1
    <3> QED
      BY <1>4, <2>1, <3>1 DEF x
  <2>2. CASE i # 1
    <3>1. i \in 2..j+2 /\ i - 1 \in 1..j+1 /\ n - (j + 1) + (i - 1) = n - (j + 2) + i
      BY <1>1, <2>2
    <3>2. s[i] = q[i - 1] /\ q[i - 1] = p[n - (j + 1) + (i - 1)]
      BY <1>2, <1>4, <3>1
    <3> QED
      BY <3>1, <3>2
  <2> QED
    BY <2>1, <2>2
<1>7. s = [i \in 1..j+2 |-> p[n - (j + 2) + i]]
  BY <1>5, <1>6
<1>8. (j + 1) + 1 = j + 2
  BY <1>1
<1>9. s = Ending(p, j + 1)
  BY <1>7, <1>8 DEF Ending, n
<1> QED
  BY <1>9 DEF s, x, q

LEMMA ChainsAreShort ==
  ASSUME NEW p \in Seq(Cluster), Injective(p)
  PROVE  Len(p) <= LastCluster /\ Len(p) \in Nat
<1>1. /\ Len(p) \in Nat /\ Len(p) \in Int /\ 1 \in Int /\ 2 \in Int /\ LastCluster \in Int
      /\ LastCluster > 2
  BY Geometry
<1>2. IsFiniteSet(Cluster) /\ Cardinality(Cluster) = LastCluster - 1
  <2>1. /\ IsFiniteSet(2..LastCluster)
        /\ Cardinality(2..LastCluster) = IF 2 > LastCluster THEN 0 ELSE LastCluster-2+1
    BY <1>1, FS_Interval
  <2> QED
    BY <1>1, <2>1 DEF Cluster
<1>3. Cardinality(1..Len(p)) = Len(p)
  <2>1. Cardinality(1..Len(p)) = IF 1 > Len(p) THEN 0 ELSE Len(p)-1+1
    BY <1>1, FS_Interval
  <2> QED
    BY <1>1, <2>1
<1>4. p \in [1..Len(p) -> Cluster]
  OBVIOUS
<1>5. p \in Injection(1..Len(p), Cluster)
  BY <1>4 DEF Injection, IsInjective, Injective
<1>6. Cardinality(1..Len(p)) <= Cardinality(Cluster)
  BY <1>2, <1>5, FS_Injection
<1> QED
  BY <1>1, <1>2, <1>3, <1>6

LEMMA ChainIs ==
  ASSUME NEW t, NEW c, NEW p, IsChain(t, c, p), Injective(p)
  PROVE  Chain(t, c) = p
<1> DEFINE n == Len(p)
<1>0. /\ n \in Nat \ {0} /\ n <= LastCluster /\ LastCluster \in Nat /\ p \in Seq(Cluster)
      /\ c \in Cluster /\ p[1] = c
  <2>1. p \in Seq(Cluster) /\ p # <<>> /\ p[1] = c
    BY DEF IsChain
  <2>2. p[1] \in Cluster
    BY <2>1
  <2> QED
    BY <2>1, <2>2, ChainsAreShort, Geometry
<1>1. PICK from: ChainLoop(t, LastCluster, from) /\ Chain(t, c) = from[LastCluster][c]
  <2> DEFINE g == CHOOSE from: ChainLoop(t, LastCluster, from)
  <2>1. ChainLoop(t, LastCluster, g)
    BY <1>0, ChainLoops
  <2>2. Chain(t, c) = g[LastCluster][c]
    BY DEF Chain, ChainLoop, ChainRow
  <2> QED
    BY <2>1, <2>2
<1>2. ASSUME NEW k \in 0..LastCluster, NEW x \in Cluster
      PROVE  /\ t[x] \notin Cluster => from[k][x] = <<x>> \o <<>>
             /\ k # 0 /\ t[x] \in Cluster => from[k][x] = <<x>> \o from[k - 1][t[x]]
  <2> DEFINE g == from[k - 1]
  <2>1. from[k] = ChainRow(t, k, g)
    BY <1>1 DEF ChainLoop
  <2> HIDE DEF g
  <2>2. from[k][x] = <<x>> \o (IF k = 0 \/ t[x] \notin Cluster THEN <<>> ELSE g[t[x]])
    BY <2>1 DEF ChainRow
  <2>3. t[x] \notin Cluster => from[k][x] = <<x>> \o <<>>
    BY <2>2
  <2>4. k # 0 /\ t[x] \in Cluster => from[k][x] = <<x>> \o g[t[x]]
    BY <2>2
  <2> QED
    BY <2>3, <2>4 DEF g
<1> HIDE DEF n
<1> DEFINE P == {j \in 0..n-1: \A k \in j..LastCluster: from[k][p[n - j]] = Ending(p, j)}
<1>3. 0 \in P
  <2> SUFFICES ASSUME NEW k \in 0..LastCluster PROVE from[k][p[n]] = Ending(p, 0)
    BY <1>0
  <2>1. p[n] \in Cluster /\ t[p[n]] \notin Cluster
    BY <1>0, Geometry DEF IsChain, n
  <2>2. from[k][p[n]] = <<p[n]>> \o <<>>
    BY <1>2, <2>1
  <2>3. <<p[n]>> \o <<>> = Ending(p, 0)
    BY <1>0, OneAtTheEnd DEF n
  <2> QED
    BY <2>2, <2>3
<1>4. ASSUME NEW j \in 0..n-1, j # n - 1, j \in P PROVE j + 1 \in P
  <2>1. j + 1 \in 0..n-1 /\ j \in Nat /\ j + 1 < n
    BY <1>0, <1>4
  <2> SUFFICES ASSUME NEW k \in j+1..LastCluster PROVE from[k][p[n - (j + 1)]] = Ending(p, j + 1)
    BY <2>1
  <2>2. k \in 0..LastCluster /\ k # 0 /\ k - 1 \in j..LastCluster
    BY <1>0, <2>1
  <2> DEFINE x == p[n - (j + 1)]
  <2>3. x \in Cluster /\ t[x] = p[n - j] /\ p[n - j] \in Cluster
    <3>1. /\ n - (j + 1) \in 1..n /\ n - (j + 1) # n /\ n - (j + 1) + 1 = n - j /\ n - j \in 1..n
      BY <1>0, <2>1
    <3>2. t[p[n - (j + 1)]] = p[n - (j + 1) + 1]
      BY <3>1 DEF IsChain, n
    <3>3. p[n - (j + 1)] \in Cluster /\ p[n - j] \in Cluster
      <4>1. \A i \in 1..n: p[i] \in Cluster
        BY <1>0 DEF n
      <4> QED
        BY <3>1, <4>1
    <3> QED
      BY <3>1, <3>2, <3>3
  <2> HIDE DEF x
  <2>4. from[k][x] = <<x>> \o from[k - 1][t[x]]
    BY <1>2, <2>2, <2>3
  <2>5. from[k - 1][p[n - j]] = Ending(p, j)
    BY <1>4, <2>2
  <2>6. <<x>> \o Ending(p, j) = Ending(p, j + 1)
    BY <1>0, <2>1, OneMoreBefore DEF n, x
  <2>7. from[k][x] = Ending(p, j + 1)
    BY <2>3, <2>4, <2>5, <2>6
  <2> QED
    BY <2>7 DEF x
<1>5. n - 1 \in P
  <2>1. n - 1 \in Nat /\ \A j \in 0..n-1: j # n - 1 /\ j \in P => j + 1 \in P
    BY <1>0, <1>4
  <2> HIDE DEF P
  <2>2. 0..n-1 \subseteq P
    BY <1>3, <2>1, CountUpTo
  <2> QED
    BY <2>1, <2>2
<1>6. from[LastCluster][p[n - (n - 1)]] = Ending(p, n - 1)
  <2>1. LastCluster \in n-1..LastCluster
    BY <1>0
  <2> QED
    BY <1>5, <2>1
<1>7. n - (n - 1) = 1 /\ (n - 1) + 1 = n /\ \A i \in 1..n: n - n + i = i
  BY <1>0
<1>8. Ending(p, n - 1) = p
  <2>1. Ending(p, n - 1) = [i \in 1..n |-> p[i]]
    BY <1>7 DEF Ending, n
  <2> QED
    BY <1>0, <2>1 DEF n
<1> QED
  BY <1>0, <1>1, <1>6, <1>7, <1>8

\* The files' chains in the table t are m, and no cluster is in two places of them.
Separate(m) ==
  \A f, g \in File: \A i \in 1..Len(m[f]), j \in 1..Len(m[g]):
    m[f][i] = m[g][j] => f = g /\ i = j
Owns(t, heads, m) ==
  m \in [File -> Seq(Cluster)] /\ (\A f \in File: IsChain(t, heads[f], m[f])) /\ Separate(m)

LEMMA OwnedChains ==
  ASSUME NEW t, NEW heads, NEW m, Owns(t, heads, m), NEW f \in File
  PROVE  Chain(t, heads[f]) = m[f] /\ m[f] \in Seq(Cluster) /\ IsChain(t, heads[f], m[f])
<1>1. IsChain(t, heads[f], m[f]) /\ Injective(m[f]) /\ m[f] \in Seq(Cluster)
  BY DEF Owns, Separate, Injective
<1> QED
  BY <1>1, ChainIs

LEMMA InTheChain ==
  ASSUME NEW t, NEW c, NEW p, IsChain(t, c, p), NEW j \in 1..Len(p)
  PROVE  /\ p[j] \in Cluster /\ t[p[j]] \in Cluster \cup {EOC} /\ t[p[j]] # Free
         /\ (j = Len(p) <=> t[p[j]] = EOC)
         /\ j # Len(p) => j + 1 \in 1..Len(p) /\ t[p[j]] = p[j + 1]
<1>1. p \in Seq(Cluster) /\ Len(p) \in Nat
  BY DEF IsChain
<1>2. \A k \in 1..Len(p): p[k] \in Cluster
  BY <1>1
<1>3. CASE j = Len(p)
  BY <1>2, <1>3, Geometry DEF IsChain
<1>4. CASE j # Len(p)
  <2>1. j + 1 \in 1..Len(p)
    BY <1>1, <1>4
  <2>2. t[p[j]] = p[j + 1] /\ p[j + 1] \in Cluster
    BY <1>2, <1>4, <2>1 DEF IsChain
  <2> QED
    BY <1>2, <1>4, <2>1, <2>2, Geometry
<1> QED
  BY <1>3, <1>4

LEMMA SameChain ==
  ASSUME NEW t, NEW u, NEW c, NEW p, IsChain(t, c, p), \A j \in 1..Len(p): u[p[j]] = t[p[j]]
  PROVE  IsChain(u, c, p)
<1>1. p \in Seq(Cluster) /\ p # <<>> /\ Len(p) \in 1..Len(p)
  BY DEF IsChain
<1> QED
  BY <1>1 DEF IsChain

LEMMA LongerChain ==
  ASSUME NEW t, NEW u, NEW c, NEW p, IsChain(t, c, p), NEW i \in Cluster,
         u[p[Len(p)]] = i, u[i] = EOC, \A j \in 1..Len(p): j # Len(p) => u[p[j]] = t[p[j]]
  PROVE  IsChain(u, c, Append(p, i))
<1> DEFINE s == Append(p, i)
           n == Len(p)
<1>1. p \in Seq(Cluster) /\ p # <<>> /\ n \in Nat \ {0} /\ p[1] = c
  BY DEF IsChain
<1>2. /\ s \in Seq(Cluster) /\ s # <<>> /\ Len(s) = n + 1 /\ s[n + 1] = i
      /\ \A j \in 1..n: s[j] = p[j]
  BY <1>1
<1> HIDE DEF s
<1>3. s[1] = c
  BY <1>1, <1>2
<1>4. ASSUME NEW j \in 1..Len(s), j # Len(s) PROVE u[s[j]] = s[j + 1]
  <2>1. j \in 1..n
    BY <1>1, <1>2, <1>4
  <2>2. CASE j = n
    BY <1>2, <2>1, <2>2
  <2>3. CASE j # n
    <3>1. j + 1 \in 1..n
      BY <1>1, <2>1, <2>3
    <3>2. u[p[j]] = t[p[j]] /\ t[p[j]] = p[j + 1]
      BY <2>1, <2>3 DEF IsChain
    <3> QED
      BY <1>2, <2>1, <3>1, <3>2
  <2> QED
    BY <2>2, <2>3
<1>5. u[s[Len(s)]] = EOC
  BY <1>2
<1> QED
  BY <1>2, <1>3, <1>4, <1>5 DEF IsChain, s

\* A free cluster is taken: alone, or at the end of a file.
LEMMA TakeAlone ==
  ASSUME NEW t \in Fats, NEW heads, NEW m, Owns(t, heads, m), NEW i \in Cluster, t[i] = Free,
         NEW u, u = [t EXCEPT ![i] = EOC]
  PROVE  u \in Fats /\ Owns(u, heads, m)
<1>1. u \in Fats
  BY DEF Fats
<1>2. ASSUME NEW f \in File PROVE IsChain(u, heads[f], m[f])
  <2>1. IsChain(t, heads[f], m[f])
    BY OwnedChains
  <2>2. \A j \in 1..Len(m[f]): m[f][j] \in Cluster /\ m[f][j] # i
    BY <2>1, InTheChain
  <2>3. \A j \in 1..Len(m[f]): u[m[f][j]] = t[m[f][j]]
    BY <2>2 DEF Fats
  <2> QED
    BY <2>1, <2>3, SameChain
<1> QED
  BY <1>1, <1>2 DEF Owns

LEMMA LastOfFile ==
  ASSUME NEW t \in Fats, NEW heads, NEW m, Owns(t, heads, m), NEW f \in File
  PROVE  /\ Len(m[f]) \in 1..Len(m[f]) /\ Len(m[f]) \in Nat
         /\ m[f][Len(m[f])] \in Cluster /\ t[m[f][Len(m[f])]] = EOC
<1>1. m[f] \in Seq(Cluster) /\ IsChain(t, heads[f], m[f])
  BY OwnedChains
<1> DEFINE p == m[f]
<1> HIDE DEF p
<1>2. p \in Seq(Cluster) /\ p # <<>> /\ t[p[Len(p)]] = EOC
  BY <1>1 DEF IsChain, p
<1>3. Len(p) \in 1..Len(p) /\ Len(p) \in Nat /\ p[Len(p)] \in Cluster
  BY <1>2
<1> QED
  BY <1>2, <1>3 DEF p

\* The table with i linked behind l, and the files' chains with i at the end of f's.
Linked(t, u, l, i) ==
  u \in Fats /\ u[l] = i /\ u[i] = EOC /\ \A x \in Cluster: x # l /\ x # i => u[x] = t[x]
Grown(m, w, f, i) ==
  w \in [File -> Seq(Cluster)] /\ w[f] = Append(m[f], i) /\ \A g \in File \ {f}: w[g] = m[g]

LEMMA TakeAtEnd ==
  ASSUME NEW t \in Fats, NEW heads, NEW m, Owns(t, heads, m), NEW i \in Cluster, t[i] = Free,
         NEW f \in File, NEW l, l = m[f][Len(m[f])],
         NEW u, Linked(t, u, l, i), NEW w, Grown(m, w, f, i)
  PROVE  Owns(u, heads, w)
<1> DEFINE n == Len(m[f])
<1>0. \A g \in File: m[g] \in Seq(Cluster) /\ IsChain(t, heads[g], m[g]) /\ Len(m[g]) \in Nat
  BY OwnedChains
<1>1. n \in 1..n /\ n \in Nat
  BY LastOfFile
<1>2. \A g \in File: \A j \in 1..Len(m[g]): m[g][j] \in Cluster /\ m[g][j] # i
  BY <1>0, InTheChain
<1>4. u[l] = i /\ u[i] = EOC /\ \A x \in Cluster: x # l /\ x # i => u[x] = t[x]
  BY DEF Linked
<1>5. w \in [File -> Seq(Cluster)] /\ w[f] = Append(m[f], i) /\ \A g \in File \ {f}: w[g] = m[g]
  BY DEF Grown
<1>6. ASSUME NEW g \in File PROVE IsChain(u, heads[g], w[g])
  <2>1. CASE g = f
    <3>1. \A j \in 1..n: j # n => m[f][j] # l
      BY <1>0, <1>1 DEF Owns, Separate
    <3>2. \A j \in 1..n: j # n => u[m[f][j]] = t[m[f][j]]
      BY <1>2, <1>4, <3>1
    <3> DEFINE p == m[f]
               c == heads[f]
    <3>3. /\ IsChain(t, c, p) /\ u[p[Len(p)]] = i /\ u[i] = EOC
          /\ \A j \in 1..Len(p): j # Len(p) => u[p[j]] = t[p[j]]
      BY <1>0, <1>4, <3>2
    <3>4. w[g] = Append(p, i) /\ heads[g] = c
      BY <1>5, <2>1
    <3> HIDE DEF p, c
    <3>5. IsChain(u, c, Append(p, i))
      BY <3>3, LongerChain
    <3> QED
      BY <3>4, <3>5
  <2>2. CASE g # f
    <3>1. \A j \in 1..Len(m[g]): m[g][j] # l
      BY <1>1, <2>2 DEF Owns, Separate
    <3>2. \A j \in 1..Len(m[g]): u[m[g][j]] = t[m[g][j]]
      BY <1>2, <1>4, <3>1
    <3>3. \A c, p: /\ IsChain(t, c, p)
                   /\ \A j \in 1..Len(p): u[p[j]] = t[p[j]]
                   => IsChain(u, c, p)
      BY SameChain
    <3> QED
      BY <1>0, <1>5, <2>2, <3>2, <3>3, Zenon
  <2> QED
    BY <2>1, <2>2
<1>7. Separate(w)
  <2> SUFFICES ASSUME NEW g \in File, NEW h \in File, NEW j \in 1..Len(w[g]),
                      NEW k \in 1..Len(w[h]), w[g][j] = w[h][k]
               PROVE  g = h /\ j = k
    BY DEF Separate
  <2>1. ASSUME NEW e \in File, NEW x \in 1..Len(w[e])
        PROVE  \/ x \in 1..Len(m[e]) /\ w[e][x] = m[e][x] /\ w[e][x] # i
               \/ e = f /\ x = n + 1 /\ w[e][x] = i
    <3>1. CASE e = f
      <4>1. /\ Len(w[e]) = n + 1 /\ w[e][n + 1] = i
            /\ \A y \in 1..n: w[e][y] = m[f][y]
        BY <1>0, <1>5, <3>1
      <4> QED
        BY <1>1, <1>2, <3>1, <4>1
    <3>2. CASE e # f
      BY <1>2, <1>5, <3>2
    <3> QED
      BY <3>1, <3>2
  <2> HIDE DEF n
  <2>2. CASE w[g][j] = i
    BY <2>1, <2>2
  <2>3. CASE w[g][j] # i
    <3>1. j \in 1..Len(m[g]) /\ w[g][j] = m[g][j] /\ k \in 1..Len(m[h]) /\ w[h][k] = m[h][k]
      BY <2>1, <2>3
    <3>2. m[g][j] = m[h][k]
      BY <3>1
    <3>3. Separate(m)
      BY DEF Owns
    <3> QED
      BY <3>1, <3>2, <3>3 DEF Separate
  <2> QED
    BY <2>2, <2>3
<1> QED
  BY <1>5, <1>6, <1>7 DEF Owns

\* An allocation takes the first free cluster from the hint on.
LEMMA FirstFree ==
  ASSUME NEW t, NEW hint \in 2..LastCluster+1, Available(t, hint) # {},
         NEW i, i = Min(Available(t, hint))
  PROVE  i \in Cluster /\ t[i] = Free /\ i + 1 \in 2..LastCluster+1
<1> DEFINE T == Available(t, hint)
<1>1. T \in SUBSET Nat /\ T # {} /\ \A x \in T: x \in Cluster /\ t[x] = Free
  BY Geometry DEF Available
<1> HIDE DEF T
<1>2. Min(T) \in T
  BY <1>1, Minimum
<1>3. i \in Cluster /\ t[i] = Free
  BY <1>1, <1>2 DEF T
<1> QED
  BY <1>3, Geometry DEF Cluster

\* What an allocation makes of the table t: u.
TakenFrom(t, u, i) ==
  /\ i \in Cluster /\ t[i] = Free /\ u[i] = EOC /\ u \in Fats
  /\ \A x \in Cluster \ {i}: u[x] = t[x] \/ (t[x] = EOC /\ u[x] = i)

\* The cluster an allocation takes in the table t, and the table it makes of it.
IsNext(t, hint, i) ==
  hint \in 2..LastCluster+1 /\ Available(t, hint) # {} /\ i = Min(Available(t, hint))
TableWith(t, start, linked, i) ==
  LET s == IF linked THEN [t EXCEPT ![Last(Chain(t, start))] = i] ELSE t
  IN  [s EXCEPT ![i] = EOC]

LEMMA Allocation ==
  ASSUME NEW t \in Fats, NEW heads, NEW m, Owns(t, heads, m), NEW f \in File, NEW linked \in BOOLEAN,
         NEW hint, NEW i, IsNext(t, hint, i), NEW u, u = TableWith(t, heads[f], linked, i)
  PROVE  /\ TakenFrom(t, u, i) /\ i + 1 \in 2..LastCluster+1
         /\ \E w: Owns(u, heads, w) /\ \A g \in File: w[g] = m[g] \/ w[g] = Append(m[g], i)
<1> DEFINE s == IF linked THEN [t EXCEPT ![Last(Chain(t, heads[f]))] = i] ELSE t
<1>0. u = [s EXCEPT ![i] = EOC]
  BY DEF TableWith
<1>1. i \in Cluster /\ t[i] = Free /\ i + 1 \in 2..LastCluster+1
  BY FirstFree DEF IsNext
<1>2. CASE ~linked
  <2>1. u = [t EXCEPT ![i] = EOC]
    BY <1>0, <1>2
  <2>2. u \in Fats /\ Owns(u, heads, m)
    BY <1>1, <2>1, TakeAlone
  <2>3. u[i] = EOC /\ \A x \in Cluster \ {i}: u[x] = t[x]
    BY <1>1, <2>1 DEF Fats
  <2> QED
    BY <1>1, <2>2, <2>3 DEF TakenFrom
<1>3. CASE linked
  <2> DEFINE l == m[f][Len(m[f])]
             w == [g \in File |-> IF g = f THEN Append(m[g], i) ELSE m[g]]
  <2>1. Chain(t, heads[f]) = m[f]
    BY OwnedChains
  <2>2. s = [t EXCEPT ![l] = i]
    BY <1>3, <2>1 DEF Last
  <2>10. u = [s EXCEPT ![i] = EOC]
    BY <1>0
  <2>3. l \in Cluster /\ l # i /\ t[l] = EOC
    BY <1>1, LastOfFile, Geometry
  <2>7. l = m[f][Len(m[f])]
    OBVIOUS
  <2>8. Grown(m, w, f, i)
    <3>1. m \in [File -> Seq(Cluster)]
      BY DEF Owns
    <3> QED
      BY <1>1, <3>1 DEF Grown
  <2>9. \A g \in File: w[g] = m[g] \/ w[g] = Append(m[g], i)
    OBVIOUS
  <2> HIDE DEF l, w, s
  <2>4. s \in Fats /\ s[l] = i /\ \A x \in Cluster: x # l => s[x] = t[x]
    BY <1>1, <2>2, <2>3 DEF Fats
  <2>5. Linked(t, u, l, i)
    BY <1>1, <2>3, <2>4, <2>10 DEF Fats, Linked
  <2>6. Owns(u, heads, w)
    BY <1>1, <2>5, <2>7, <2>8, TakeAtEnd
  <2> QED
    BY <1>1, <2>3, <2>5, <2>6, <2>9 DEF TakenFrom, Linked
<1> QED
  BY <1>2, <1>3

-----------------------------------------------------------------------------
(* Where a write gets to *)

LEMMA PrefixIs ==
  ASSUME NEW p \in Seq(Cluster), NEW q \in Seq(Cluster)
  PROVE  IsPrefix(p, q) <=> Len(p) <= Len(q) /\ \A i \in 1..Len(p): p[i] = q[i]
<1>1. Len(p) \in Nat /\ Len(q) \in Nat
  OBVIOUS
<1>2. SubSeq(p, 1, Len(p)) = [i \in 1..Len(p) |-> p[i]]
  BY <1>1
<1>3. Len(p) <= Len(q) => SubSeq(q, 1, Len(p)) = [i \in 1..Len(p) |-> q[i]]
  BY <1>1
<1>4. ASSUME [i \in 1..Len(p) |-> p[i]] = [i \in 1..Len(p) |-> q[i]], NEW i \in 1..Len(p)
      PROVE  p[i] = q[i]
  BY <1>4
<1> QED
  BY <1>1, <1>2, <1>3, <1>4 DEF IsPrefix

LEMMA PrefixGrows ==
  ASSUME NEW p \in Seq(Cluster), NEW q \in Seq(Cluster), NEW i \in Cluster, IsPrefix(p, q)
  PROVE  IsPrefix(p, Append(q, i))
<1>1. Len(p) <= Len(q) /\ \A j \in 1..Len(p): p[j] = q[j]
  BY PrefixIs
<1> DEFINE s == Append(q, i)
<1>2. s \in Seq(Cluster) /\ Len(s) = Len(q) + 1 /\ \A j \in 1..Len(q): s[j] = q[j]
  OBVIOUS
<1> HIDE DEF s
<1>3. Len(p) \in Nat /\ Len(q) \in Nat
  OBVIOUS
<1>4. Len(p) <= Len(s) /\ \A j \in 1..Len(p): p[j] = s[j]
  BY <1>1, <1>2, <1>3
<1>5. IsPrefix(p, s)
  BY <1>2, <1>4, PrefixIs
<1> QED
  BY <1>5 DEF s

Position ==
  [cluster: Cluster, num: 0..SectorsPerCluster, sector: Nat, fat: Fats, hint: 2..LastCluster+1]

\* The clusters of a call: those of the file before it, and those taken since.
Own(t, K, u) == K \cup {c \in Cluster: t[c] = Free /\ u[c] # Free}

\* The call has changed the table from t to u.
Follows(t, K, u) ==
  /\ \A c \in Cluster: t[c] # Free => u[c] # Free
  /\ \A c \in Own(t, K, u): u[c] \in Own(t, K, u) \cup {EOC}

\* The sector is one of the cluster's, or the one after them.
Located(pos) ==
  \E k \in 0..SectorsPerCluster:
    pos.sector = getDiskSector(pos.cluster, k) /\ (pos.num < SectorsPerCluster => k = pos.num)

Extends(u, heads, d) ==
  \E m: Owns(u, heads, m) /\ \A g \in File: IsPrefix(d[g], m[g])

\* A position of a write of the file with the clusters K, which began with the
\* table t.
Reached(t, K, heads, d, pos) ==
  /\ pos \in Position /\ pos.cluster \in Own(t, K, pos.fat)
  /\ Follows(t, K, pos.fat) /\ Located(pos) /\ Extends(pos.fat, heads, d)

LEMMA ExtendsOnce ==
  ASSUME NEW t \in Fats, NEW heads, NEW d \in [File -> Seq(Cluster)], Extends(t, heads, d),
         NEW f \in File, NEW linked \in BOOLEAN,
         NEW hint, NEW i, IsNext(t, hint, i), NEW u, u = TableWith(t, heads[f], linked, i)
  PROVE  TakenFrom(t, u, i) /\ Extends(u, heads, d) /\ i + 1 \in 2..LastCluster+1
<1>1. PICK m: Owns(t, heads, m) /\ \A g \in File: IsPrefix(d[g], m[g])
  BY DEF Extends
<1>2. /\ TakenFrom(t, u, i) /\ i + 1 \in 2..LastCluster+1
      /\ \E w: Owns(u, heads, w) /\ \A g \in File: w[g] = m[g] \/ w[g] = Append(m[g], i)
  BY <1>1, Allocation
<1>3. PICK w: Owns(u, heads, w) /\ \A g \in File: w[g] = m[g] \/ w[g] = Append(m[g], i)
  BY <1>2
<1>4. i \in Cluster
  BY <1>2 DEF TakenFrom
<1>5. ASSUME NEW g \in File PROVE IsPrefix(d[g], w[g])
  <2>1. m[g] \in Seq(Cluster) /\ d[g] \in Seq(Cluster) /\ IsPrefix(d[g], m[g])
    BY <1>1 DEF Owns
  <2>2. IsPrefix(d[g], Append(m[g], i))
    BY <1>4, <2>1, PrefixGrows
  <2> QED
    BY <1>3, <2>1, <2>2
<1>6. Extends(u, heads, d)
  BY <1>3, <1>5 DEF Extends
<1> QED
  BY <1>2, <1>6

LEMMA FollowsOnce ==
  ASSUME NEW t \in Fats, NEW K \in SUBSET Cluster, NEW v \in Fats, Follows(t, K, v), NEW u, NEW i,
         TakenFrom(v, u, i)
  PROVE  /\ Follows(t, K, u) /\ Own(t, K, v) \subseteq Own(t, K, u)
         /\ i \in Own(t, K, u)
<1>1. \A c \in Cluster: v[c] # Free => u[c] # Free
  BY Geometry DEF TakenFrom
<1>2. Own(t, K, u) = Own(t, K, v) \cup {i}
  <2>1. t[i] = Free /\ i \in Cluster /\ u[i] # Free
    BY Geometry DEF TakenFrom, Follows
  <2>2. \A c \in Cluster \ {i}: u[c] = Free <=> v[c] = Free
    BY <2>1, Geometry DEF TakenFrom
  <2> QED
    BY <2>1, <2>2, <1>1 DEF Own, Follows
<1>3. \A c \in Own(t, K, u): u[c] \in Own(t, K, u) \cup {EOC}
  <2> SUFFICES ASSUME NEW c \in Own(t, K, u) PROVE u[c] \in Own(t, K, u) \cup {EOC}
    OBVIOUS
  <2>1. CASE c = i
    BY <2>1 DEF TakenFrom
  <2>2. CASE c # i
    <3>1. c \in Own(t, K, v) /\ c \in Cluster
      BY <1>2, <2>2 DEF Own
    <3>2. u[c] = v[c] \/ u[c] = i
      BY <2>2, <3>1 DEF TakenFrom
    <3>3. v[c] \in Own(t, K, v) \cup {EOC}
      BY <3>1 DEF Follows
    <3> QED
      BY <1>2, <3>2, <3>3
  <2> QED
    BY <2>1, <2>2
<1> QED
  BY <1>1, <1>2, <1>3 DEF Follows

\* A sector end that finds a free cluster if it needs one.
CanGoOn(pos) ==
  \/ pos.num < SectorsPerCluster \/ pos.fat[pos.cluster] # EOC
  \/ Available(pos.fat, pos.hint) # {}

LEMMA EntersAtTheStart ==
  ASSUME NEW pos, pos.num = SectorsPerCluster, pos.sector = getDiskSector(pos.cluster, 0)
  PROVE  Located(pos)
<1>1. 0 \in 0..SectorsPerCluster /\ ~(pos.num < SectorsPerCluster)
  BY Geometry
<1> QED
  BY <1>1 DEF Located

LEMMA FullAtTheEnd ==
  ASSUME NEW pos \in Position, ~(pos.num < SectorsPerCluster)
  PROVE  pos.num = SectorsPerCluster
BY Geometry DEF Position

LEMMA SectorNumber ==
  ASSUME NEW c \in Cluster, NEW n \in 0..SectorsPerCluster
  PROVE  getDiskSector(c, n) \in Nat /\ getDiskSector(c, n) + 1 = getDiskSector(c, n + 1)
<1>1. getDiskSector(c, n) \in Nat
  BY SectorsOfDisk
<1>2. c * SectorsPerCluster \in Nat
  BY Geometry DEF Cluster
<1> QED
  BY <1>1, <1>2, Geometry DEF getDiskSector

\* It gets to pos2 and keeps the clusters it has.
Gets(t, K, heads, d, pos, pos2) ==
  Reached(t, K, heads, d, pos2) /\ Own(t, K, pos.fat) \subseteq Own(t, K, pos2.fat)

LEMMA WriteStep ==
  ASSUME NEW t \in Fats, NEW K \in SUBSET Cluster, NEW heads, NEW d \in [File -> Seq(Cluster)],
         NEW f \in File, NEW linked \in BOOLEAN,
         NEW pos, Reached(t, K, heads, d, pos), CanGoOn(pos),
         NEW pos2, pos2 = WriteCrosses(pos, heads[f], linked)
  PROVE  Gets(t, K, heads, d, pos, pos2)
<1>1. /\ pos \in Position /\ pos.cluster \in Own(t, K, pos.fat)
      /\ Follows(t, K, pos.fat) /\ Located(pos) /\ Extends(pos.fat, heads, d)
  BY DEF Reached
<1>2. /\ pos.cluster \in Cluster /\ pos.num \in 0..SectorsPerCluster /\ pos.sector \in Nat
      /\ pos.fat \in Fats /\ pos.hint \in 2..LastCluster+1
  BY <1>1 DEF Position
<1>3. CASE pos.num < SectorsPerCluster
  <2>1. pos2 = [pos EXCEPT !.num = @ + 1, !.sector = @ + 1]
    BY <1>3 DEF WriteCrosses, NextInCluster
  <2>2. /\ pos2.fat = pos.fat /\ pos2.cluster = pos.cluster
        /\ pos2.num = pos.num + 1 /\ pos2.sector = pos.sector + 1
        /\ pos2 \in [cluster: {pos.cluster}, num: {pos.num + 1}, sector: {pos.sector + 1},
                     fat: {pos.fat}, hint: {pos.hint}]
    BY <1>1, <2>1 DEF Position
  <2>3. pos.sector = getDiskSector(pos.cluster, pos.num)
    BY <1>1, <1>3 DEF Located
  <2> DEFINE c == pos.cluster
             n == pos.num
  <2>4. pos2.sector = getDiskSector(c, n + 1) /\ n + 1 \in 0..SectorsPerCluster
    <3>1. c \in Cluster /\ n \in 0..SectorsPerCluster
      BY <1>2
    <3>2. n + 1 \in 0..SectorsPerCluster
      BY <1>2, <1>3, Geometry
    <3>3. pos2.sector = getDiskSector(c, n) + 1
      BY <2>2, <2>3
    <3> HIDE DEF c, n
    <3>4. getDiskSector(c, n) + 1 = getDiskSector(c, n + 1)
      BY <3>1, SectorNumber
    <3> QED
      BY <3>2, <3>3, <3>4
  <2>6. pos2 \in Position
    BY <1>2, <2>2, <2>4 DEF Position
  <2>5. Located(pos2)
    BY <2>2, <2>4 DEF Located
  <2> QED
    BY <1>1, <2>2, <2>5, <2>6 DEF Reached, Gets
<1>4. CASE ~(pos.num < SectorsPerCluster) /\ pos.fat[pos.cluster] # EOC
  <2> DEFINE c == pos.fat[pos.cluster]
  <2>1. c \in Own(t, K, pos.fat) /\ c \in Cluster
    <3>1. c \in Own(t, K, pos.fat)
      BY <1>1, <1>4 DEF Follows
    <3> QED
      BY <3>1 DEF Own
  <2>2. pos2 = EnterCluster([pos EXCEPT !.cluster = c])
    BY <1>4 DEF WriteCrosses
  <2> HIDE DEF c
  <2>3. /\ pos2.fat = pos.fat /\ pos2.cluster = c
        /\ pos2.num = pos.num /\ pos2.sector = getDiskSector(c, 0)
        /\ pos2.hint = pos.hint
        /\ pos2 \in [cluster: {c}, num: {pos.num}, sector: {getDiskSector(c, 0)},
                     fat: {pos.fat}, hint: {pos.hint}]
    BY <1>1, <2>2 DEF EnterCluster, Position
  <2>4. getDiskSector(c, 0) \in Nat
    BY <2>1, SectorsOfDisk, Geometry
  <2>5. pos2 \in Position
    BY <1>2, <2>1, <2>3, <2>4 DEF Position
  <2>6. Located(pos2)
    BY <1>1, <1>4, <2>3, FullAtTheEnd, EntersAtTheStart
  <2> QED
    BY <1>1, <2>1, <2>3, <2>5, <2>6 DEF Reached, Gets
<1>5. CASE ~(pos.num < SectorsPerCluster) /\ pos.fat[pos.cluster] = EOC
  <2> DEFINE v == pos.fat
             i == Min(Available(v, pos.hint))
             u == TableWith(v, heads[f], linked, i)
  <2>1. IsNext(v, pos.hint, i)
    <3>1. Available(pos.fat, pos.hint) # {}
      BY <1>5 DEF CanGoOn
    <3> QED
      BY <1>2, <3>1, Zenon DEF IsNext
  <2>2. pos2 = EnterCluster([pos EXCEPT !.cluster = i, !.fat = u, !.hint = i + 1])
    BY <1>5 DEF WriteCrosses, Allocated, TableWith
  <2>7. u = TableWith(v, heads[f], linked, i)
    OBVIOUS
  <2>9. v \in Fats /\ v = pos.fat
    BY <1>2
  <2> HIDE DEF v, i, u
  <2> DEFINE h == pos.hint
  <2>11. IsNext(v, h, i) /\ Extends(v, heads, d)
    BY <1>1, <2>1, <2>9
  <2> HIDE DEF h
  <2>3. TakenFrom(v, u, i) /\ Extends(u, heads, d) /\ i + 1 \in 2..LastCluster+1
    BY <2>7, <2>9, <2>11, ExtendsOnce
  <2>4. i \in Cluster /\ u \in Fats
    BY <2>3 DEF TakenFrom
  <2>5. /\ Follows(t, K, u) /\ Own(t, K, v) \subseteq Own(t, K, u)
        /\ i \in Own(t, K, u)
    BY <1>1, <2>3, <2>9, FollowsOnce
  <2>6. /\ pos2.fat = u /\ pos2.cluster = i
        /\ pos2.num = pos.num /\ pos2.sector = getDiskSector(i, 0)
        /\ pos2.hint = i + 1
        /\ pos2 \in [cluster: {i}, num: {pos.num}, sector: {getDiskSector(i, 0)},
                     fat: {u}, hint: {i + 1}]
    BY <1>1, <2>2 DEF EnterCluster, Position
  <2>8. pos2 \in Position
    <3>1. getDiskSector(i, 0) \in Nat
      BY <2>4, SectorsOfDisk, Geometry
    <3> QED
      BY <1>2, <2>3, <2>4, <2>6, <3>1 DEF Position
  <2>10. Located(pos2)
    BY <1>1, <1>5, <2>6, FullAtTheEnd, EntersAtTheStart
  <2> QED
    BY <2>3, <2>5, <2>6, <2>8, <2>9, <2>10 DEF Reached, Gets
<1> QED
  BY <1>3, <1>4, <1>5

\* The recursion of WritePositions and ReadPositions, up to n sector ends.
Crosses(call, linked, head, pos) ==
  IF call = "read" THEN ReadCrosses(pos) ELSE WriteCrosses(pos, head, linked)
Row(call, linked, head, s, i, before) ==
  IF i = 0 THEN s ELSE Crosses(call, i - 1 \in linked, head, before)
Loop(call, linked, head, s, n, at) ==
  at = [i \in 0..n |-> Row(call, linked, head, s, i, at[i - 1])]

LEMMA Loops ==
  ASSUME NEW call, NEW linked, NEW head, NEW s
  PROVE  \A n \in Nat: \E at: Loop(call, linked, head, s, n, at)
<1> DEFINE P == {n \in Nat: \E at: Loop(call, linked, head, s, n, at)}
<1>0. \A g, h: Row(call, linked, head, s, 0, g) = Row(call, linked, head, s, 0, h)
  BY DEF Row
<1>1. 0 \in P
  <2> DEFINE g == [k \in 0..0 |-> Row(call, linked, head, s, 0, s)]
  <2>1. g = [k \in 0..0 |-> Row(call, linked, head, s, k, g[k - 1])]
    BY <1>0
  <2>2. Loop(call, linked, head, s, 0, g)
    BY <2>1 DEF Loop
  <2> QED
    BY <2>2
<1>2. ASSUME NEW n \in P PROVE n + 1 \in P
  <2>1. PICK g: Loop(call, linked, head, s, n, g)
    OBVIOUS
  <2>2. n \in Nat /\ n + 1 \in Nat
    OBVIOUS
  <2> DEFINE h == [k \in 0..n+1 |-> Row(call, linked, head, s, k, g[k - 1])]
  <2>3. \A k \in 0..n: h[k] = g[k]
    BY <2>1, <2>2 DEF Loop
  <2>4. \A k \in 0..n+1: k # 0 => k - 1 \in 0..n
    BY <2>2
  <2>5. ASSUME NEW k \in 0..n+1
        PROVE  Row(call, linked, head, s, k, h[k - 1]) = Row(call, linked, head, s, k, g[k - 1])
    <3> HIDE DEF h
    <3>1. CASE k = 0
      BY <1>0, <3>1
    <3>2. CASE k # 0
      <4>1. h[k - 1] = g[k - 1]
        BY <2>3, <2>4, <3>2
      <4> QED
        BY <4>1
    <3> QED
      BY <3>1, <3>2
  <2>6. h = [k \in 0..n+1 |-> Row(call, linked, head, s, k, h[k - 1])]
    BY <2>5
  <2>7. Loop(call, linked, head, s, n + 1, h)
    BY <2>6 DEF Loop
  <2> QED
    BY <2>2, <2>7
<1>3. P = Nat
  <2> HIDE DEF P
  <2>1. P \in SUBSET Nat
    BY DEF P
  <2> QED
    BY <1>1, <1>2, <2>1, CountUp
<1> QED
  BY <1>3

LEMMA LoopStep ==
  ASSUME NEW call, NEW linked, NEW head, NEW s, NEW at,
         Loop(call, linked, head, s, MaxSize, at)
  PROVE  /\ at[0] = s
         /\ \A i \in 0..MaxSize-1: at[i + 1] = Crosses(call, i \in linked, head, at[i])
<1>1. at = [i \in 0..MaxSize |-> Row(call, linked, head, s, i, at[i - 1])]
  BY DEF Loop
<1>2. at[0] = s
  <2>1. 0 \in 0..MaxSize
    BY Geometry
  <2> QED
    BY <1>1, <2>1 DEF Row
<1>3. ASSUME NEW i \in 0..MaxSize-1 PROVE at[i + 1] = Crosses(call, i \in linked, head, at[i])
  <2>1. i + 1 \in 0..MaxSize /\ i + 1 # 0 /\ (i + 1) - 1 = i
    BY Geometry
  <2>2. at[i + 1] = Row(call, linked, head, s, i + 1, at[(i + 1) - 1])
    BY <1>1, <2>1
  <2>3. at[i + 1] = Crosses(call, (i + 1) - 1 \in linked, head, at[(i + 1) - 1])
    BY <2>1, <2>2 DEF Row
  <2> QED
    BY <2>1, <2>3
<1> QED
  BY <1>2, <1>3

LEMMA Written ==
  ASSUME NEW f, NEW startByte, NEW linked, NEW at, at = WritePositions(f, startByte, linked)
  PROVE  /\ at[0] = Start(f, startByte)
         /\ \A i \in 0..MaxSize-1: at[i + 1] = WriteCrosses(at[i], first[f], i \in linked)
<1> DEFINE s == Start(f, startByte)
           P(g) == g = [i \in 0..MaxSize |-> IF i = 0 THEN s ELSE WriteCrosses(g[i - 1], first[f], i - 1 \in linked)]
<1>1. MaxSize \in Nat
  BY Geometry
<1>2. PICK g: Loop("write", linked, first[f], s, MaxSize, g)
  BY <1>1, Loops
<1>3. P(g)
  BY <1>2 DEF Loop, Row, Crosses
<1>4. at = CHOOSE h: P(h)
  BY DEF WritePositions
<1>5. P(at)
  BY <1>3, <1>4
<1>6. Loop("write", linked, first[f], s, MaxSize, at)
  BY <1>5 DEF Loop, Row, Crosses
<1>7. \A i \in 0..MaxSize-1: Crosses("write", i \in linked, first[f], at[i]) = WriteCrosses(at[i], first[f], i \in linked)
  BY DEF Crosses
<1> HIDE DEF P, s
<1>8. /\ at[0] = s
      /\ \A i \in 0..MaxSize-1: at[i + 1] = Crosses("write", i \in linked, first[f], at[i])
  BY <1>6, LoopStep
<1> QED
  BY <1>7, <1>8 DEF s

LEMMA Read ==
  ASSUME NEW f, NEW startByte, NEW at, at = ReadPositions(f, startByte)
  PROVE  /\ at[0] = Start(f, startByte)
         /\ \A i \in 0..MaxSize-1: at[i + 1] = ReadCrosses(at[i])
<1> DEFINE s == Start(f, startByte)
           P(g) == g = [i \in 0..MaxSize |-> IF i = 0 THEN s ELSE ReadCrosses(g[i - 1])]
<1>1. MaxSize \in Nat
  BY Geometry
<1>2. PICK g: Loop("read", {}, first[f], s, MaxSize, g)
  BY <1>1, Loops
<1>3. P(g)
  BY <1>2 DEF Loop, Row, Crosses
<1>4. at = CHOOSE h: P(h)
  BY DEF ReadPositions
<1>5. P(at)
  BY <1>3, <1>4
<1>6. Loop("read", {}, first[f], s, MaxSize, at)
  BY <1>5 DEF Loop, Row, Crosses
<1>7. \A i \in 0..MaxSize-1: Crosses("read", i \in {}, first[f], at[i]) = ReadCrosses(at[i])
  BY DEF Crosses
<1> HIDE DEF P, s
<1>8. /\ at[0] = s
      /\ \A i \in 0..MaxSize-1: at[i + 1] = Crosses("read", i \in {}, first[f], at[i])
  BY <1>6, LoopStep
<1> QED
  BY <1>7, <1>8 DEF s

LEMMA EndsOfCall ==
  ASSUME NEW size \in 0..MaxSize, NEW startByte \in Nat
  PROVE  SectorEnds(size, startByte) \in 0..MaxSize /\ SectorEnds(size, startByte) \in Nat
<1>1. CASE size = 0
  BY <1>1, Geometry DEF SectorEnds
<1>2. CASE size # 0
  <2> DEFINE r == startByte % BytesPerSector
             x == r + size - 1
             q == x \div BytesPerSector
  <2>1. r \in 0..BytesPerSector-1 /\ size \in Nat \ {0} /\ size <= MaxSize
    BY <1>2, Geometry, Division
  <2>5. SectorEnds(size, startByte) = q
    BY <1>2 DEF SectorEnds
  <2> HIDE DEF r
  <2>2. x \in Nat /\ x < size + BytesPerSector
    BY <2>1, Geometry
  <2> HIDE DEF x
  <2>3. q \in Nat /\ x % BytesPerSector \in Nat /\ x = BytesPerSector * q + (x % BytesPerSector)
    BY <2>2, Geometry, Division
  <2> HIDE DEF q
  <2>4. ~(size < q)
    <3> SUFFICES ASSUME size < q PROVE FALSE
      OBVIOUS
    <3>1. BytesPerSector * size + BytesPerSector <= BytesPerSector * q /\ BytesPerSector * size \in Nat
      BY <2>1, <2>3, Geometry, Larger
    <3>2. size <= BytesPerSector * size
      <4>1. size * 1 + size <= size * BytesPerSector \/ BytesPerSector = 1
        BY <2>1, Geometry, Larger
      <4> QED
        BY <2>1, <3>1, <4>1, Geometry
    <3>3. BytesPerSector * q \in Nat
      BY <2>3, Geometry
    <3> QED
      BY <2>1, <2>2, <2>3, <3>1, <3>2, <3>3, Geometry
  <2> QED
    BY <2>1, <2>3, <2>4, <2>5, Geometry
<1> QED
  BY <1>1, <1>2

\* A call starts in one of the clusters of its file.
LEMMA StartOfCall ==
  ASSUME NEW m, Owns(fat, first, m), NEW f \in File, NEW startByte \in Nat,
         startByte < SizeInFile(f)
  PROVE  /\ Cl(startByte) + 1 \in 1..Len(m[f])
         /\ m[f][Cl(startByte) + 1] \in Cluster
         /\ LET c == m[f][Cl(startByte) + 1]
                n == Sec(startByte)
            IN  /\ Start(f, startByte) = [cluster |-> c, num |-> n, sector |-> getDiskSector(c, n),
                                          fat |-> fat, hint |-> whereClusters]
                /\ n \in 0..SectorsPerCluster-1
<1> DEFINE p == m[f]
           q == Cl(startByte)
<1>1. Chain(fat, first[f]) = p /\ p \in Seq(Cluster)
  BY OwnedChains
<1>2. startByte < BytesPerCluster * Len(p)
  BY <1>1 DEF SizeInFile
<1>3. /\ q \in Nat /\ Sec(startByte) \in 0..SectorsPerCluster-1
      /\ BytesPerCluster * q <= startByte /\ BytesPerCluster * q \in Nat
  <2>1. /\ q \in Nat /\ Sec(startByte) \in 0..SectorsPerCluster-1 /\ Off(startByte) \in 0..BytesPerSector-1
        /\ startByte = BytesPerCluster * q + (BytesPerSector * Sec(startByte) + Off(startByte))
    BY Parts
  <2> HIDE DEF q
  <2>2. BytesPerSector * Sec(startByte) + Off(startByte) \in 0..BytesPerCluster-1
    BY <2>1, SectorParts
  <2>3. BytesPerCluster * q \in Nat
    BY <2>1, Geometry
  <2> QED
    BY <2>1, <2>2, <2>3, Geometry
<1>4. Start(f, startByte) = [cluster |-> p[q + 1], num |-> Sec(startByte),
                             sector |-> getDiskSector(p[q + 1], Sec(startByte)),
                             fat |-> fat, hint |-> whereClusters]
  BY <1>1 DEF Start, Cl, Sec
<1> HIDE DEF p, q
<1>5. Len(p) \in Nat
  BY <1>1
<1>6. q < Len(p)
  <2> SUFFICES ASSUME Len(p) <= q PROVE FALSE
    BY <1>3, <1>5
  <2>1. CASE Len(p) = q
    BY <1>2, <1>3, <1>5, <2>1
  <2>2. CASE Len(p) < q
    <3>1. BytesPerCluster * Len(p) + BytesPerCluster <= BytesPerCluster * q /\ BytesPerCluster * Len(p) \in Nat
      BY <1>3, <1>5, <2>2, Geometry, Larger
    <3> QED
      BY <1>2, <1>3, <3>1, Geometry
  <2> QED
    BY <1>3, <1>5, <2>1, <2>2
<1>7. q + 1 \in 1..Len(p)
  BY <1>3, <1>5, <1>6
<1>8. p[q + 1] \in Cluster
  BY <1>1, <1>7
<1>9. Sec(startByte) \in 0..SectorsPerCluster-1
  BY <1>3
<1> QED
  BY <1>4, <1>7, <1>8, <1>9, Zenon DEF p, q

LEMMA ClustersOfChain ==
  ASSUME NEW t, NEW c, NEW p, IsChain(t, c, p)
  PROVE  /\ Range(p) \in SUBSET Cluster /\ \A x \in Range(p): t[x] \in Range(p) \cup {EOC}
         /\ \A j \in 1..Len(p): p[j] \in Range(p)
         /\ \A x \in Range(p): \E j \in 1..Len(p): x = p[j]
<1>1. p \in Seq(Cluster) /\ DOMAIN p = 1..Len(p)
  BY DEF IsChain
<1>2. \A x \in Range(p): \E j \in 1..Len(p): x = p[j]
  BY <1>1 DEF Range
<1>3. \A j \in 1..Len(p): p[j] \in Range(p) /\ p[j] \in Cluster
  BY <1>1 DEF Range
<1>4. ASSUME NEW x \in Range(p) PROVE t[x] \in Range(p) \cup {EOC} /\ x \in Cluster
  <2>1. PICK j \in 1..Len(p): x = p[j]
    BY <1>2
  <2>2. /\ j = Len(p) <=> t[p[j]] = EOC
        /\ j # Len(p) => j + 1 \in 1..Len(p) /\ t[p[j]] = p[j + 1]
    BY InTheChain
  <2> QED
    BY <1>3, <2>1, <2>2
<1> QED
  BY <1>2, <1>3, <1>4

LEMMA StartIsReached ==
  ASSUME fat \in Fats, whereClusters \in 2..LastCluster+1,
         NEW m, Owns(fat, first, m), NEW d, \A g \in File: IsPrefix(d[g], m[g]),
         NEW f \in File, NEW startByte \in Nat, startByte < SizeInFile(f)
  PROVE  Reached(fat, Range(m[f]), first, d, Start(f, startByte))
<1> DEFINE K == Range(m[f])
           c == m[f][Cl(startByte) + 1]
           n == Sec(startByte)
           pos == Start(f, startByte)
<1>1. /\ Cl(startByte) + 1 \in 1..Len(m[f]) /\ c \in Cluster /\ n \in 0..SectorsPerCluster-1
      /\ pos = [cluster |-> c, num |-> n, sector |-> getDiskSector(c, n),
                fat |-> fat, hint |-> whereClusters]
  BY StartOfCall
<1>2. IsChain(fat, first[f], m[f])
  BY OwnedChains
<1>3. K \in SUBSET Cluster /\ c \in K /\ \A x \in K: fat[x] \in K \cup {EOC}
  BY <1>1, <1>2, ClustersOfChain
<1> HIDE DEF K, c, n, pos
<1>4. Own(fat, K, fat) = K
  BY DEF Own
<1>5. n \in 0..SectorsPerCluster /\ getDiskSector(c, n) \in Nat
  BY <1>1, Geometry, SectorsOfDisk
<1>6. pos \in Position
  BY <1>1, <1>5 DEF Position
<1>7. Located(pos)
  BY <1>1, <1>5 DEF Located
<1>8. Follows(fat, K, fat)
  BY <1>3, <1>4 DEF Follows
<1>9. Extends(fat, first, d)
  BY DEF Extends
<1>10. Reached(fat, K, first, d, pos)
  BY <1>1, <1>3, <1>4, <1>6, <1>7, <1>8, <1>9 DEF Reached
<1> QED
  BY <1>10 DEF K, pos

\* The positions of a write up to its n-th sector end.
Writing(head, linked, n, at) ==
  \A i \in 0..n-1: CanGoOn(at[i]) /\ at[i + 1] = WriteCrosses(at[i], head, i \in linked)
AllReached(t, K, heads, d, n, at) ==
  \A i \in 0..n: /\ Reached(t, K, heads, d, at[i])
                 /\ Own(t, K, at[i].fat) \subseteq Own(t, K, at[n].fat)

LEMMA WriteGoesOn ==
  ASSUME NEW t \in Fats, NEW K \in SUBSET Cluster, NEW heads, NEW d \in [File -> Seq(Cluster)],
         NEW f \in File, NEW linked, NEW n \in Nat, NEW at,
         Reached(t, K, heads, d, at[0]), Writing(heads[f], linked, n, at)
  PROVE  AllReached(t, K, heads, d, n, at)
<1> DEFINE own(i) == Own(t, K, at[i].fat)
           P == {i \in 0..n: /\ Reached(t, K, heads, d, at[i])
                             /\ \A j \in 0..i: own(j) \subseteq own(i)}
<1>1. \A l \in BOOLEAN, x \in Position: Reached(t, K, heads, d, x) /\ CanGoOn(x) =>
        Gets(t, K, heads, d, x, WriteCrosses(x, heads[f], l))
  BY WriteStep
<1>2. 0 \in P
  OBVIOUS
<1>3. ASSUME NEW i \in 0..n, i # n, i \in P PROVE i + 1 \in P
  <2>1. i \in 0..n-1 /\ i + 1 \in 0..n /\ \A j \in 0..i+1: j \in 0..i \/ j = i + 1
    BY <1>3
  <2>2. CanGoOn(at[i]) /\ at[i + 1] = WriteCrosses(at[i], heads[f], i \in linked)
    BY <2>1 DEF Writing
  <2>3. Reached(t, K, heads, d, at[i]) /\ \A j \in 0..i: own(j) \subseteq own(i)
    BY <1>3
  <2>4. Reached(t, K, heads, d, at[i + 1]) /\ own(i) \subseteq own(i + 1)
    <3>1. (i \in linked) \in BOOLEAN /\ at[i] \in Position
      BY <2>3 DEF Reached
    <3>2. Gets(t, K, heads, d, at[i], WriteCrosses(at[i], heads[f], i \in linked))
      BY <1>1, <2>2, <2>3, <3>1
    <3> QED
      BY <2>2, <3>2 DEF Gets
  <2> HIDE DEF own
  <2>5. \A j \in 0..i+1: own(j) \subseteq own(i + 1)
    BY <2>1, <2>3, <2>4
  <2> QED
    BY <2>1, <2>4, <2>5
<1> HIDE DEF P
<1>4. 0..n \subseteq P
  BY <1>2, <1>3, CountUpTo
<1>5. n \in P
  BY <1>4
<1> QED
  BY <1>4, <1>5 DEF P, own, AllReached

LEMMA WriteReaches ==
  ASSUME fat \in Fats, whereClusters \in 2..LastCluster+1,
         NEW m, Owns(fat, first, m), NEW d \in [File -> Seq(Cluster)],
         \A g \in File: IsPrefix(d[g], m[g]),
         NEW f \in File, NEW size \in 0..MaxSize, NEW startByte \in Nat, NEW linked,
         Callable(f, size, startByte, linked),
         NEW at, at = WritePositions(f, startByte, linked)
  PROVE  AllReached(fat, Range(m[f]), first, d, SectorEnds(size, startByte), at)
<1> DEFINE K == Range(m[f])
           n == SectorEnds(size, startByte)
<1>1. n \in Nat /\ n \in 0..MaxSize
  BY EndsOfCall
<1>2. startByte < SizeInFile(f)
  BY DEF Callable
<1>3. \A i \in 0..n-1: CanGoOn(at[i])
  BY DEF Callable, DiskFull, CanGoOn
<1>4. at[0] = Start(f, startByte) /\ \A i \in 0..n-1: at[i + 1] = WriteCrosses(at[i], first[f], i \in linked)
  <2>1. at[0] = Start(f, startByte) /\ \A i \in 0..MaxSize-1: at[i + 1] = WriteCrosses(at[i], first[f], i \in linked)
    BY Written
  <2>2. \A i \in 0..n-1: i \in 0..MaxSize-1
    BY <1>1, Geometry
  <2> QED
    BY <2>1, <2>2
<1>5. K \in SUBSET Cluster
  <2>1. IsChain(fat, first[f], m[f])
    BY OwnedChains
  <2> QED
    BY <2>1, ClustersOfChain
<1>6. Reached(fat, K, first, d, at[0])
  BY <1>2, <1>4, StartIsReached
<1> HIDE DEF K, n
<1>7. Writing(first[f], linked, n, at)
  BY <1>3, <1>4 DEF Writing
<1>8. AllReached(fat, K, first, d, n, at)
  BY <1>1, <1>5, <1>6, <1>7, WriteGoesOn
<1> QED
  BY <1>8 DEF K, n

-----------------------------------------------------------------------------
(* Calls that stay inside one cluster *)

At(c, n, t, h) ==
  [cluster |-> c, num |-> n, sector |-> getDiskSector(c, n), fat |-> t, hint |-> h]

LEMMA NextSector ==
  ASSUME NEW c \in Cluster, NEW n \in 0..SectorsPerCluster-1, NEW t, NEW h
  PROVE  NextInCluster(At(c, n, t, h)) = At(c, n + 1, t, h)
<1>1. n \in 0..SectorsPerCluster
  BY Geometry
<1> DEFINE s == getDiskSector(c, n)
           next == getDiskSector(c, n + 1)
<1>2. s + 1 = next /\ s \in Nat
  BY <1>1, SectorNumber
<1> DEFINE pos == At(c, n, t, h)
           pos2 == [pos EXCEPT !.num = @ + 1, !.sector = @ + 1]
<1>3. pos = [cluster |-> c, num |-> n, sector |-> s, fat |-> t, hint |-> h]
  BY DEF At
<1>4. At(c, n + 1, t, h) = [cluster |-> c, num |-> n + 1, sector |-> next, fat |-> t, hint |-> h]
  BY DEF At
<1>5. NextInCluster(pos) = pos2
  BY DEF NextInCluster
<1> HIDE DEF s, next, pos
<1>7. /\ pos \in [cluster: {c}, num: {n}, sector: {s}, fat: {t}, hint: {h}]
      /\ pos.num = n /\ pos.sector = s
  BY <1>3
<1>8. pos2 \in [cluster: {c}, num: {n + 1}, sector: {next}, fat: {t}, hint: {h}]
  BY <1>2, <1>7
<1> HIDE DEF pos2
<1>6. pos2 = [cluster |-> c, num |-> n + 1, sector |-> next, fat |-> t, hint |-> h]
  BY <1>8
<1> QED
  BY <1>4, <1>5, <1>6 DEF pos

\* Up to the n-th sector end the loop goes from sector to sector.
OnAndOn(n, at) == \A i \in 0..n-1: at[i].num < SectorsPerCluster => at[i + 1] = NextInCluster(at[i])
Straight(c, k, t, h, n, at) == \A i \in 0..n: at[i] = At(c, k + i, t, h)

LEMMA StraightOn ==
  ASSUME NEW c \in Cluster, NEW k \in Nat, NEW n \in Nat, k + n < SectorsPerCluster,
         NEW t, NEW h, NEW at, at[0] = At(c, k, t, h), OnAndOn(n, at)
  PROVE  Straight(c, k, t, h, n, at)
<1> DEFINE P == {i \in 0..n: at[i] = At(c, k + i, t, h)}
<1>1. 0 \in P
  BY Geometry
<1>2. ASSUME NEW i \in 0..n, i # n, i \in P PROVE i + 1 \in P
  <2>1. i \in 0..n-1 /\ i + 1 \in 0..n /\ k + i \in 0..SectorsPerCluster-1 /\ (k + i) + 1 = k + (i + 1)
    BY <1>2, Geometry
  <2>2. at[i] = At(c, k + i, t, h)
    BY <1>2
  <2>3. at[i].num = k + i
    BY <2>2 DEF At
  <2>4. at[i + 1] = NextInCluster(at[i])
    BY <2>1, <2>3, Geometry DEF OnAndOn
  <2> DEFINE j == k + i
  <2>5. j \in 0..SectorsPerCluster-1 /\ j + 1 = k + (i + 1) /\ at[i] = At(c, j, t, h)
    BY <2>1, <2>2
  <2> HIDE DEF j
  <2>6. NextInCluster(At(c, j, t, h)) = At(c, j + 1, t, h)
    BY <2>5, NextSector
  <2>7. at[i + 1] = At(c, k + (i + 1), t, h)
    BY <2>4, <2>5, <2>6
  <2> QED
    BY <2>1, <2>7
<1> HIDE DEF P
<1>3. 0..n \subseteq P
  BY <1>1, <1>2, CountUpTo
<1> QED
  BY <1>3 DEF P, Straight

\* The last sector a call in one cluster comes to is one of the cluster's.
LEMMA EndsInCluster ==
  ASSUME NEW size \in 0..MaxSize, NEW startByte \in Nat, InsideCluster(size, startByte)
  PROVE  Sec(startByte) + SectorEnds(size, startByte) < SectorsPerCluster
<1>1. Sec(startByte) \in 0..SectorsPerCluster-1 /\ Off(startByte) \in 0..BytesPerSector-1
  BY Parts
<1>2. CASE size = 0
  BY <1>1, <1>2, Geometry DEF SectorEnds
<1>3. CASE size # 0
  <2> DEFINE k == size - 1
             j == (Off(startByte) + k) \div BytesPerSector
  <2>1. size \in Nat /\ k \in 0..size-1 /\ startByte + k \in Nat
    BY <1>3, Geometry
  <2>2. Sec(startByte + k) = Sec(startByte) + j
    BY <2>1, PlaceInCluster
  <2>3. Off(startByte) + k = (startByte % BytesPerSector) + size - 1
    BY <1>1, <2>1, Geometry DEF Off
  <2>4. SectorEnds(size, startByte) = j
    BY <1>3, <2>3 DEF SectorEnds
  <2> HIDE DEF k, j
  <2>5. Sec(startByte + k) \in 0..SectorsPerCluster-1
    BY <2>1, Parts
  <2> QED
    BY <2>2, <2>4, <2>5, Geometry
<1> QED
  BY <1>2, <1>3

\* Where byte b of a file with the clusters p lies.
Spot(p, b) == <<getDiskSector(p[Cl(b) + 1], Sec(b)), Off(b)>>

InCluster(f, m, startByte, n, at) ==
  Straight(m[f][Cl(startByte) + 1], Sec(startByte), fat, whereClusters, n, at)

LEMMA CallsInCluster ==
  ASSUME NEW m, Owns(fat, first, m), NEW f \in File, NEW size \in 0..MaxSize, NEW startByte \in Nat,
         startByte < SizeInFile(f), InsideCluster(size, startByte),
         NEW at, NEW linked,
         at = WritePositions(f, startByte, linked) \/ at = ReadPositions(f, startByte)
  PROVE  InCluster(f, m, startByte, SectorEnds(size, startByte), at)
<1> DEFINE c == m[f][Cl(startByte) + 1]
           k == Sec(startByte)
           n == SectorEnds(size, startByte)
<1>1. c \in Cluster /\ k \in 0..SectorsPerCluster-1 /\ Start(f, startByte) = At(c, k, fat, whereClusters)
  BY StartOfCall DEF At
<1>2. n \in 0..MaxSize /\ n \in Nat /\ k + n < SectorsPerCluster
  BY EndsOfCall, EndsInCluster
<1> HIDE DEF c, k, n
<1>3. \A i \in 0..n-1: i \in 0..MaxSize-1
  BY <1>2, Geometry
<1>4. at[0] = Start(f, startByte) /\ OnAndOn(n, at)
  <2>1. CASE at = WritePositions(f, startByte, linked)
    <3>1. /\ at[0] = Start(f, startByte)
          /\ \A i \in 0..MaxSize-1: at[i + 1] = WriteCrosses(at[i], first[f], i \in linked)
      BY <2>1, Written
    <3> QED
      BY <1>3, <3>1 DEF OnAndOn, WriteCrosses
  <2>2. CASE at = ReadPositions(f, startByte)
    <3>1. at[0] = Start(f, startByte) /\ \A i \in 0..MaxSize-1: at[i + 1] = ReadCrosses(at[i])
      BY <2>2, Read
    <3> QED
      BY <1>3, <3>1 DEF OnAndOn, ReadCrosses
  <2> QED
    BY <2>1, <2>2
<1>5. Straight(c, k, fat, whereClusters, n, at)
  BY <1>1, <1>2, <1>4, StraightOn
<1> QED
  BY <1>5 DEF InCluster, c, k, n

\* Byte k goes where the file's clusters say, to a sector the loop visits.
Placed(p, startByte, n, at, k) ==
  /\ Place(at, startByte, k) = Spot(p, startByte + k)
  /\ \E j \in 0..n: Place(at, startByte, k)[1] = at[j].sector
  /\ Cl(startByte + k) = Cl(startByte)

LEMMA PlacesInCluster ==
  ASSUME NEW m, NEW f \in File, NEW size \in 0..MaxSize, NEW startByte \in Nat,
         InsideCluster(size, startByte),
         NEW at, InCluster(f, m, startByte, SectorEnds(size, startByte), at), NEW k \in 0..size-1
  PROVE  Placed(m[f], startByte, SectorEnds(size, startByte), at, k)
<1> DEFINE j == (Off(startByte) + k) \div BytesPerSector
           c == m[f][Cl(startByte) + 1]
<1>1. /\ j \in 0..SectorEnds(size, startByte)
      /\ Cl(startByte + k) = Cl(startByte)
      /\ Sec(startByte + k) = Sec(startByte) + j
      /\ Off(startByte + k) = (Off(startByte) + k) % BytesPerSector
  <2>1. size \in Nat
    BY Geometry
  <2> QED
    BY <2>1, PlaceInCluster
<1>2. Place(at, startByte, k) = <<at[j].sector, (Off(startByte) + k) % BytesPerSector>>
  BY DEF Place, Off
<1> HIDE DEF j
<1>3. at[j] = At(c, Sec(startByte) + j, fat, whereClusters)
  BY <1>1 DEF InCluster, Straight
<1>4. at[j].sector = getDiskSector(c, Sec(startByte) + j)
  BY <1>3 DEF At
<1> QED
  BY <1>1, <1>2, <1>4 DEF Spot, Placed

-----------------------------------------------------------------------------
(* The invariant *)

Files(t, heads) == [f \in File |-> Chain(t, heads[f])]

\* Every byte of a file lies where the file's clusters say.
Stored(m, sectors, bytes) ==
  \A f \in File, b \in Byte: Cl(b) < Len(m[f]) => sectors[Spot(m[f], b)[1]][Spot(m[f], b)[2]] = bytes[f][b]

Buffers == [Sector -> [0..BytesPerSector-1 -> Data \cup {NoData}]]

Types ==
  /\ fat \in Fats /\ fatOnDisk \in Fats /\ whereClusters \in 2..LastCluster+1
  /\ disk \in Buffers
  /\ contents \in [File -> [Byte -> Data \cup {NoData}]]
  /\ crossed \in BOOLEAN /\ writes \in 0..MaxWrites

\* The tables t in memory and u on disk.
Tables(t, u, heads) ==
  /\ Owns(t, heads, Files(t, heads)) /\ Owns(u, heads, Files(u, heads))
  /\ \A f \in File: IsPrefix(Files(u, heads)[f], Files(t, heads)[f])

IndInv ==
  /\ Types
  /\ Tables(fat, fatOnDisk, first)
  /\ ~crossed => Stored(Files(fat, first), disk, contents)

LEMMA FilesAre ==
  ASSUME NEW t, NEW heads, NEW m, Owns(t, heads, m)
  PROVE  Files(t, heads) = m
<1>1. \A f \in File: Chain(t, heads[f]) = m[f]
  BY OwnedChains
<1>2. m = [f \in File |-> m[f]]
  BY DEF Owns
<1> QED
  BY <1>1, <1>2 DEF Files

LEMMA PrefixOfItself == ASSUME NEW p PROVE Len(p) \in Nat => IsPrefix(p, p)
BY DEF IsPrefix

\* A file system whose tables agree.
LEMMA SameTables ==
  ASSUME NEW t, NEW heads, NEW m, Owns(t, heads, m)
  PROVE  Tables(t, t, heads)
<1>1. Files(t, heads) = m
  BY FilesAre
<1>2. \A f \in File: IsPrefix(m[f], m[f])
  <2>1. \A f \in File: m[f] \in Seq(Cluster)
    BY DEF Owns
  <2>2. \A f \in File: Len(m[f]) \in Nat
    BY <2>1
  <2> QED
    BY <2>2, PrefixOfItself
<1> QED
  BY <1>1, <1>2 DEF Tables

\* The image the program starts with: the chain of every file, laid out in the table.
Layouts == [File -> UNION {[1..n -> Cluster]: n \in 1..FileClusters}]
Places(chain) == {p \in File \X (1..FileClusters): p[2] \in DOMAIN chain[p[1]]}
Cell(chain, p) == chain[p[1]][p[2]]
Link(chain, p) == IF p[2] + 1 \in DOMAIN chain[p[1]] THEN chain[p[1]][p[2] + 1] ELSE EOC
Layout(chain) ==
  [c \in Cluster |-> IF \E p \in Places(chain): c = Cell(chain, p)
                     THEN Link(chain, CHOOSE p \in Places(chain): c = Cell(chain, p)) ELSE Free]

LEMMA FileOfImage ==
  ASSUME NEW chain \in Layouts, NEW f \in File
  PROVE  /\ chain[f] \in Seq(Cluster) /\ Len(chain[f]) \in 1..FileClusters
         /\ DOMAIN chain[f] = 1..Len(chain[f])
         /\ \A i \in 1..Len(chain[f]): chain[f][i] \in Cluster
<1> DEFINE p == chain[f]
<1>1. p \in UNION {[1..n -> Cluster]: n \in 1..FileClusters}
  BY DEF Layouts
<1> HIDE DEF p
<1>2. PICK n \in 1..FileClusters: p \in [1..n -> Cluster]
  BY <1>1
<1>3. n \in Nat
  BY Geometry
<1>4. p \in Seq(Cluster) /\ DOMAIN p = 1..n /\ \A i \in 1..n: p[i] \in Cluster
  BY <1>2, <1>3
<1>5. Len(p) = n
  BY <1>2, <1>3, <1>4
<1> QED
  BY <1>4, <1>5 DEF p

LEMMA PlacesOfImage ==
  ASSUME NEW chain \in Layouts
  PROVE  /\ \A f \in File: \A i \in 1..Len(chain[f]):
              /\ <<f, i>> \in Places(chain) /\ Cell(chain, <<f, i>>) = chain[f][i]
              /\ Link(chain, <<f, i>>) = IF i + 1 \in 1..Len(chain[f]) THEN chain[f][i + 1] ELSE EOC
         /\ \A p \in Places(chain): Cell(chain, p) \in Cluster /\ Link(chain, p) \in Cluster \cup {EOC}
<1>1. \A f \in File: /\ Len(chain[f]) \in 1..FileClusters /\ DOMAIN chain[f] = 1..Len(chain[f])
                     /\ \A i \in 1..Len(chain[f]): chain[f][i] \in Cluster
  BY FileOfImage
<1>2. ASSUME NEW f \in File, NEW i \in 1..Len(chain[f])
      PROVE  /\ <<f, i>> \in Places(chain) /\ Cell(chain, <<f, i>>) = chain[f][i]
             /\ Link(chain, <<f, i>>) = IF i + 1 \in 1..Len(chain[f]) THEN chain[f][i + 1] ELSE EOC
  <2>1. i \in 1..FileClusters /\ i \in DOMAIN chain[f]
    BY <1>1, Geometry
  <2>2. <<f, i>> \in File \X (1..FileClusters) /\ <<f, i>>[1] = f /\ <<f, i>>[2] = i
    BY <2>1
  <2>3. DOMAIN chain[f] = 1..Len(chain[f])
    BY <1>1
  <2> QED
    BY <2>1, <2>2, <2>3 DEF Places, Cell, Link
<1>3. ASSUME NEW p \in Places(chain)
      PROVE  Cell(chain, p) \in Cluster /\ Link(chain, p) \in Cluster \cup {EOC}
  <2> DEFINE q == chain[p[1]]
             i == p[2]
  <2>1. p[1] \in File /\ i \in DOMAIN q
    BY DEF Places
  <2>2. DOMAIN q = 1..Len(q) /\ \A j \in 1..Len(q): q[j] \in Cluster
    BY <1>1, <2>1
  <2>3. Cell(chain, p) = q[i] /\ Link(chain, p) = IF i + 1 \in DOMAIN q THEN q[i + 1] ELSE EOC
    BY DEF Cell, Link
  <2> HIDE DEF q, i
  <2> QED
    BY <2>1, <2>2, <2>3
<1> QED
  BY <1>2, <1>3

LEMMA TableOfImage ==
  ASSUME NEW chain \in Layouts,
         \A p, q \in Places(chain): Cell(chain, p) = Cell(chain, q) => p = q
  PROVE  /\ Layout(chain) \in Fats
         /\ \A p \in Places(chain): Layout(chain)[Cell(chain, p)] = Link(chain, p)
<1> DEFINE the(c) == CHOOSE p \in Places(chain): c = Cell(chain, p)
<1>1. \A p \in Places(chain): Cell(chain, p) \in Cluster /\ Link(chain, p) \in Cluster \cup {EOC}
  BY PlacesOfImage
<1>2. ASSUME NEW c \in Cluster, \E p \in Places(chain): c = Cell(chain, p)
      PROVE  the(c) \in Places(chain) /\ c = Cell(chain, the(c)) /\ Layout(chain)[c] = Link(chain, the(c))
  BY <1>2 DEF Layout
<1>3. ASSUME NEW c \in Cluster, ~\E p \in Places(chain): c = Cell(chain, p)
      PROVE  Layout(chain)[c] = Free
  BY <1>3 DEF Layout
<1> HIDE DEF the
<1>4. \A c \in Cluster: Layout(chain)[c] \in {Free, EOC} \cup Cluster
  BY <1>1, <1>2, <1>3
<1>5. Layout(chain) = [c \in Cluster |-> Layout(chain)[c]]
  BY DEF Layout
<1>6. ASSUME NEW p \in Places(chain) PROVE Layout(chain)[Cell(chain, p)] = Link(chain, p)
  <2> DEFINE c == Cell(chain, p)
  <2>1. c \in Cluster /\ \E q \in Places(chain): c = Cell(chain, q)
    BY <1>1
  <2>2. c = Cell(chain, p)
    OBVIOUS
  <2> HIDE DEF c
  <2>3. the(c) \in Places(chain) /\ c = Cell(chain, the(c)) /\ Layout(chain)[c] = Link(chain, the(c))
    BY <1>2, <2>1
  <2>4. the(c) = p
    BY <2>2, <2>3
  <2> QED
    BY <2>3, <2>4 DEF c
<1>7. Layout(chain) \in Fats
  BY <1>4, <1>5 DEF Fats
<1> QED
  BY <1>6, <1>7

LEMMA Image ==
  ASSUME NEW chain \in Layouts,
         \A p, q \in Places(chain): Cell(chain, p) = Cell(chain, q) => p = q
  PROVE  Layout(chain) \in Fats /\ Owns(Layout(chain), [f \in File |-> chain[f][1]], chain)
<1> DEFINE t == Layout(chain)
<1>1. t \in Fats /\ \A p \in Places(chain): t[Cell(chain, p)] = Link(chain, p)
  BY TableOfImage
<1> HIDE DEF t
<1>2. \A f \in File: \A i \in 1..Len(chain[f]):
        /\ <<f, i>> \in Places(chain) /\ Cell(chain, <<f, i>>) = chain[f][i]
        /\ Link(chain, <<f, i>>) = IF i + 1 \in 1..Len(chain[f]) THEN chain[f][i + 1] ELSE EOC
  BY PlacesOfImage
<1>3. \A f \in File: chain[f] \in Seq(Cluster) /\ Len(chain[f]) \in 1..FileClusters
  BY FileOfImage
<1>4. ASSUME NEW f \in File PROVE IsChain(t, chain[f][1], chain[f])
  <2> DEFINE p == chain[f]
             n == Len(p)
  <2>1. p \in Seq(Cluster) /\ n \in Nat \ {0} /\ n \in 1..n /\ p # <<>>
    BY <1>3, Geometry
  <2>2. ASSUME NEW i \in 1..n PROVE t[p[i]] = IF i + 1 \in 1..n THEN p[i + 1] ELSE EOC
    <3> DEFINE x == <<f, i>>
    <3>1. x \in Places(chain) /\ Cell(chain, x) = p[i]
      BY <1>2
    <3>2. Link(chain, x) = IF i + 1 \in 1..n THEN p[i + 1] ELSE EOC
      BY <1>2
    <3> HIDE DEF x, p, n
    <3> QED
      BY <1>1, <3>1, <3>2
  <2> HIDE DEF p, n
  <2>3. t[p[n]] = EOC
    BY <2>1, <2>2
  <2>4. \A i \in 1..n: i # n => t[p[i]] = p[i + 1]
    BY <2>1, <2>2
  <2> QED
    BY <2>1, <2>3, <2>4 DEF IsChain, p, n
<1>5. Separate(chain)
  <2> SUFFICES ASSUME NEW f \in File, NEW g \in File, NEW i \in 1..Len(chain[f]),
                      NEW j \in 1..Len(chain[g]), chain[f][i] = chain[g][j]
               PROVE  f = g /\ i = j
    BY DEF Separate
  <2> DEFINE p == <<f, i>>
             q == <<g, j>>
  <2>1. p \in Places(chain) /\ Cell(chain, p) = chain[f][i]
    BY <1>2
  <2>2. q \in Places(chain) /\ Cell(chain, q) = chain[g][j]
    BY <1>2
  <2>3. p = q => f = g /\ i = j
    OBVIOUS
  <2> HIDE DEF p, q
  <2> QED
    BY <2>1, <2>2, <2>3
<1>6. chain \in [File -> Seq(Cluster)]
  BY <1>3 DEF Layouts
<1> QED
  BY <1>1, <1>4, <1>5, <1>6 DEF Owns, t

LEMMA FirstOfInit ==
  ASSUME Init
  PROVE  \E chain \in Layouts:
           /\ \A p, q \in Places(chain): Cell(chain, p) = Cell(chain, q) => p = q
           /\ first = [f \in File |-> chain[f][1]]
           /\ fat = Layout(chain) /\ fatOnDisk = fat
<1>1. PICK chain \in [File -> UNION {[1..n -> Cluster]: n \in 1..FileClusters}]:
        LET places == {p \in File \X (1..FileClusters): p[2] \in DOMAIN chain[p[1]]}
            at(p) == chain[p[1]][p[2]]
            next(p) == IF p[2] + 1 \in DOMAIN chain[p[1]] THEN chain[p[1]][p[2] + 1] ELSE EOC
        IN
        /\ \A p, q \in places: at(p) = at(q) => p = q
        /\ first = [f \in File |-> chain[f][1]]
        /\ fat = [c \in Cluster |-> IF \E p \in places: c = at(p)
                                    THEN next(CHOOSE p \in places: c = at(p)) ELSE Free]
        /\ fatOnDisk = fat
  BY Zenon DEF Init
<1>2. chain \in Layouts
  BY DEF Layouts
<1>3. fat = Layout(chain)
  BY <1>1, Zenon DEF Layout, Places, Cell, Link
<1>4. \A p, q \in Places(chain): Cell(chain, p) = Cell(chain, q) => p = q
  BY <1>1, Zenon DEF Places, Cell
<1> QED
  BY <1>1, <1>2, <1>3, <1>4

LEMMA InitHolds == Init => IndInv
<1> SUFFICES ASSUME Init PROVE IndInv
  OBVIOUS
<1>1. PICK chain \in Layouts:
        /\ \A p, q \in Places(chain): Cell(chain, p) = Cell(chain, q) => p = q
        /\ first = [f \in File |-> chain[f][1]]
        /\ fat = Layout(chain) /\ fatOnDisk = fat
  BY FirstOfInit
<1>2. fat \in Fats /\ Owns(fat, first, chain)
  BY <1>1, Image
<1>3. Tables(fat, fatOnDisk, first)
  BY <1>1, <1>2, SameTables
<1>4. /\ whereClusters = 2 /\ crossed = FALSE /\ writes = 0
      /\ disk = [s \in Sector |-> [b \in 0..BytesPerSector-1 |-> NoData]]
      /\ contents = [f \in File |-> [b \in Byte |-> NoData]]
  BY DEF Init
<1>5. Types
  <2>1. disk \in Buffers /\ contents \in [File -> [Byte -> Data \cup {NoData}]]
    BY <1>4 DEF Buffers
  <2>2. MaxWrites \in Nat
    BY DiskAssumption
  <2>3. whereClusters \in 2..LastCluster+1 /\ writes \in 0..MaxWrites
    BY <1>4, <2>2, Geometry
  <2>4. fat \in Fats /\ fatOnDisk \in Fats /\ crossed \in BOOLEAN
    BY <1>1, <1>2, <1>4
  <2> QED
    BY <2>1, <2>3, <2>4 DEF Types
<1>6. Stored(Files(fat, first), disk, contents)
  <2>1. Files(fat, first) = chain
    BY <1>2, FilesAre
  <2> SUFFICES ASSUME NEW f \in File, NEW b \in Byte, Cl(b) < Len(chain[f])
               PROVE  disk[Spot(chain[f], b)[1]][Spot(chain[f], b)[2]] = contents[f][b]
    BY <2>1 DEF Stored
  <2>2. b \in Nat /\ Cl(b) \in Nat /\ Sec(b) \in 0..SectorsPerCluster /\ Off(b) \in 0..BytesPerSector-1
    <3>1. b \in Nat
      BY Geometry DEF Byte
    <3> QED
      BY <3>1, Parts, Geometry
  <2>3. chain[f][Cl(b) + 1] \in Cluster
    <3>1. Cl(b) + 1 \in 1..Len(chain[f])
      BY <2>2, FileOfImage
    <3> QED
      BY <3>1, FileOfImage
  <2>4. Spot(chain[f], b)[1] \in Sector /\ Spot(chain[f], b)[2] \in 0..BytesPerSector-1
    BY <2>2, <2>3, SectorsOfDisk DEF Spot
  <2> QED
    BY <1>4, <2>4
<1> QED
  BY <1>3, <1>5, <1>6 DEF IndInv

-----------------------------------------------------------------------------
(* What a write does to the sectors *)

\* The k-th byte is the last one that goes to p.
LastFor(w, size, p, k) == w[k] = p /\ \A j \in k+1..size-1: w[j] # p
After(sectors, f, size, startByte, tag, w, visited) ==
  LET latest(p) == CHOOSE k \in 0..size-1: /\ w[k] = p
                                           /\ \A j \in k+1..size-1: w[j] # p
  IN  [s \in Sector |->
        IF s \in visited
        THEN [b \in 0..BytesPerSector-1 |->
               IF <<s, b>> \in Range(w)
               THEN [file |-> f, tag |-> tag, byte |-> startByte + latest(<<s, b>>)]
               ELSE sectors[s][b]]
        ELSE sectors[s]]

LEMMA LastOne ==
  ASSUME NEW size \in Nat, NEW w, NEW p, NEW i \in 0..size-1, w[i] = p
  PROVE  \E k \in 0..size-1: LastFor(w, size, p, k)
<1> DEFINE T == {x \in 0..size-1: w[size - 1 - x] = p}
<1>1. size - 1 - i \in 0..size-1 /\ size - 1 - (size - 1 - i) = i
  OBVIOUS
<1>2. T \in SUBSET Nat /\ T # {}
  <2> DEFINE y == size - 1 - i
  <2>1. y \in 0..size-1 /\ size - 1 - y = i
    BY <1>1
  <2> HIDE DEF y
  <2>2. w[size - 1 - y] = p
    BY <2>1
  <2>3. y \in T
    BY <2>1, <2>2, Zenon
  <2>4. \A x \in T: x \in Nat
    OBVIOUS
  <2> HIDE DEF T
  <2> QED
    BY <2>3, <2>4
<1> DEFINE x == Min(T)
<1>3. x \in T /\ \A y \in T: x <= y
  <2> HIDE DEF T
  <2> QED
    BY <1>2, Minimum
<1> DEFINE k == size - 1 - x
<1>4. x \in 0..size-1 /\ w[k] = p
  BY <1>3
<1> HIDE DEF x
<1>5. k \in 0..size-1
  BY <1>4
<1>6. ASSUME NEW j \in k+1..size-1, w[j] = p PROVE FALSE
  <2>1. size - 1 - j \in 0..size-1 /\ size - 1 - (size - 1 - j) = j /\ size - 1 - j < x
    BY <1>4, <1>5
  <2>2. size - 1 - j \in T
    BY <1>6, <2>1
  <2> HIDE DEF T
  <2>3. x <= size - 1 - j
    BY <1>3, <2>2
  <2> QED
    BY <1>4, <2>1, <2>3
<1>7. LastFor(w, size, p, k)
  BY <1>4, <1>6 DEF LastFor
<1> QED
  BY <1>5, <1>7

\* What becomes of the sectors: only visited ones change, only in the bytes written,
\* and a byte that goes to a place of its own is there afterwards.
Updates(sectors, new, f, size, startByte, tag, w, visited) ==
  /\ \A s \in Sector: new[s] # sectors[s] => s \in visited
  /\ \A s \in Sector, b \in 0..BytesPerSector-1:
       /\ <<s, b>> \notin Range(w) => new[s][b] = sectors[s][b]
       /\ \A k \in 0..size-1:
            s \in visited /\ w[k] = <<s, b>> /\ (\A j \in 0..size-1: w[j] = w[k] => j = k) =>
              new[s][b] = [file |-> f, tag |-> tag, byte |-> startByte + k]

LEMMA WriteSectors ==
  ASSUME NEW sectors \in Buffers, NEW f \in File, NEW size \in Nat, NEW startByte \in Nat,
         NEW tag \in Nat, NEW w, DOMAIN w = 0..size-1, NEW visited,
         NEW new, new = After(sectors, f, size, startByte, tag, w, visited)
  PROVE  new \in Buffers /\ Updates(sectors, new, f, size, startByte, tag, w, visited)
<1> DEFINE latest(p) == CHOOSE k \in 0..size-1: LastFor(w, size, p, k)
<1>1. ASSUME NEW p \in Range(w) PROVE latest(p) \in 0..size-1 /\ w[latest(p)] = p
  <2>1. \E i \in 0..size-1: w[i] = p
    BY DEF Range
  <2>2. \E k \in 0..size-1: LastFor(w, size, p, k)
    BY <2>1, LastOne
  <2>3. latest(p) \in 0..size-1 /\ LastFor(w, size, p, latest(p))
    BY <2>2
  <2> QED
    BY <2>3 DEF LastFor
<1>2. new = [s \in Sector |->
               IF s \in visited
               THEN [b \in 0..BytesPerSector-1 |->
                      IF <<s, b>> \in Range(w)
                      THEN [file |-> f, tag |-> tag, byte |-> startByte + latest(<<s, b>>)]
                      ELSE sectors[s][b]]
               ELSE sectors[s]]
  BY Zenon DEF After, LastFor
<1> HIDE DEF latest
<1>3. ASSUME NEW s \in Sector, s \notin visited PROVE new[s] = sectors[s]
  BY <1>2, <1>3
<1>4. ASSUME NEW s \in Sector, s \in visited
      PROVE  new[s] = [b \in 0..BytesPerSector-1 |->
                        IF <<s, b>> \in Range(w)
                        THEN [file |-> f, tag |-> tag, byte |-> startByte + latest(<<s, b>>)]
                        ELSE sectors[s][b]]
  BY <1>2, <1>4
<1>5. \A s \in Sector: sectors[s] \in [0..BytesPerSector-1 -> Data \cup {NoData}]
  BY DEF Buffers
<1>6. ASSUME NEW s \in Sector, NEW b \in 0..BytesPerSector-1, <<s, b>> \notin Range(w)
      PROVE  new[s][b] = sectors[s][b]
  <2>1. CASE s \in visited
    BY <1>4, <1>6, <2>1
  <2>2. CASE s \notin visited
    BY <1>3, <2>2
  <2> QED
    BY <2>1, <2>2
<1>7. ASSUME NEW s \in Sector, NEW b \in 0..BytesPerSector-1, NEW k \in 0..size-1,
             s \in visited, w[k] = <<s, b>>, \A j \in 0..size-1: w[j] = w[k] => j = k
      PROVE  new[s][b] = [file |-> f, tag |-> tag, byte |-> startByte + k]
  <2>1. <<s, b>> \in Range(w)
    BY <1>7 DEF Range
  <2>2. latest(<<s, b>>) = k
    BY <1>1, <1>7, <2>1
  <2>3. new[s][b] = [file |-> f, tag |-> tag, byte |-> startByte + latest(<<s, b>>)]
    BY <1>4, <1>7, <2>1
  <2> QED
    BY <2>2, <2>3
<1>8. \A s \in Sector: new[s] \in [0..BytesPerSector-1 -> Data \cup {NoData}]
  <2> SUFFICES ASSUME NEW s \in Sector PROVE new[s] \in [0..BytesPerSector-1 -> Data \cup {NoData}]
    OBVIOUS
  <2>1. CASE s \notin visited
    BY <1>3, <1>5, <2>1
  <2>2. CASE s \in visited
    <3>1. ASSUME NEW b \in 0..BytesPerSector-1, <<s, b>> \in Range(w)
          PROVE  [file |-> f, tag |-> tag, byte |-> startByte + latest(<<s, b>>)] \in Data
      <4>1. startByte + latest(<<s, b>>) \in Nat
        BY <1>1, <3>1
      <4> QED
        BY <4>1 DEF Data
    <3>2. \A b \in 0..BytesPerSector-1: sectors[s][b] \in Data \cup {NoData}
      BY <1>5
    <3> QED
      BY <1>4, <2>2, <3>1, <3>2
  <2> QED
    BY <2>1, <2>2
<1>9. new \in Buffers
  BY <1>2, <1>8 DEF Buffers
<1> QED
  BY <1>3, <1>6, <1>7, <1>9 DEF Updates

-----------------------------------------------------------------------------
(* The steps *)

Put(size, startByte, at) == [k \in 0..size-1 |-> Place(at, startByte, k)]
Visited(n, at) == {at[i].sector: i \in 0..n}

LEMMA Offset == Byte \subseteq Nat
BY Geometry DEF Byte

LEMMA WriteSets ==
  ASSUME NEW f, NEW size, NEW startByte, NEW linked, NEW tag,
         NEW at, at = WritePositions(f, startByte, linked),
         writeFile(f, size, startByte, tag, linked)
  PROVE  /\ disk' = After(disk, f, size, startByte, tag, Put(size, startByte, at),
                          Visited(SectorEnds(size, startByte), at))
         /\ fat' = at[SectorEnds(size, startByte)].fat
         /\ whereClusters' = at[SectorEnds(size, startByte)].hint
<1>1. /\ fat' = at[SectorEnds(size, startByte)].fat
      /\ whereClusters' = at[SectorEnds(size, startByte)].hint
  BY Zenon DEF writeFile
<1>2. disk' = After(disk, f, size, startByte, tag,
                    Put(size, startByte, WritePositions(f, startByte, linked)),
                    Visited(SectorEnds(size, startByte), WritePositions(f, startByte, linked)))
  BY Zenon DEF writeFile, After, Put, Visited
<1> QED
  BY <1>1, <1>2

LEMMA TablesOwn ==
  ASSUME NEW t, NEW u, NEW heads, Tables(t, u, heads)
  PROVE  /\ Owns(t, heads, Files(t, heads)) /\ Files(u, heads) \in [File -> Seq(Cluster)]
         /\ \A f \in File: IsPrefix(Files(u, heads)[f], Files(t, heads)[f])
         /\ \A f \in File: Chain(t, heads[f]) = Files(t, heads)[f]
BY DEF Tables, Owns, Files

\* Every position of a write, and the tables it ends with.
LEMMA WriteGets ==
  ASSUME IndInv, NEW f \in File, NEW size \in 0..MaxSize, NEW startByte \in Byte,
         NEW linked, Callable(f, size, startByte, linked),
         NEW at, at = WritePositions(f, startByte, linked)
  PROVE  AllReached(fat, Chains(fat, f), first, Files(fatOnDisk, first), SectorEnds(size, startByte), at)
<1> DEFINE m == Files(fat, first)
           d == Files(fatOnDisk, first)
<1>1. fat \in Fats /\ whereClusters \in 2..LastCluster+1
  BY DEF IndInv, Types
<1>2. Tables(fat, fatOnDisk, first)
  BY DEF IndInv
<1>3. Owns(fat, first, m) /\ d \in [File -> Seq(Cluster)] /\ \A g \in File: IsPrefix(d[g], m[g])
  BY <1>2, TablesOwn
<1>4. Range(m[f]) = Chains(fat, f)
  BY DEF Files, Chains
<1>5. startByte \in Nat
  BY Offset
<1> HIDE DEF m, d
<1>6. AllReached(fat, Range(m[f]), first, d, SectorEnds(size, startByte), at)
  BY <1>1, <1>3, <1>5, WriteReaches
<1> QED
  BY <1>4, <1>6 DEF d

LEMMA LastReached ==
  ASSUME NEW t, NEW K, NEW heads, NEW d, NEW n \in Nat, NEW at, AllReached(t, K, heads, d, n, at)
  PROVE  Reached(t, K, heads, d, at[n])
BY DEF AllReached

\* The tables after a write.
LEMMA ExtendedTables ==
  ASSUME NEW u, NEW heads, NEW t, Owns(t, heads, Files(t, heads)), Extends(u, heads, Files(t, heads))
  PROVE  Tables(u, t, heads)
<1>1. PICK m: Owns(u, heads, m) /\ \A g \in File: IsPrefix(Files(t, heads)[g], m[g])
  BY DEF Extends
<1>2. Files(u, heads) = m
  BY <1>1, FilesAre
<1> QED
  BY <1>1, <1>2 DEF Tables

LEMMA WriteTables ==
  ASSUME IndInv, NEW f \in File, NEW size \in 0..MaxSize, NEW startByte \in Byte,
         NEW linked, Write(f, size, startByte, linked)
  PROVE  /\ fat' \in Fats /\ whereClusters' \in 2..LastCluster+1
         /\ Tables(fat, fatOnDisk, first)' /\ disk' \in Buffers
<1> DEFINE at == WritePositions(f, startByte, linked)
           n == SectorEnds(size, startByte)
           d == Files(fatOnDisk, first)
<1>1. /\ Callable(f, size, startByte, linked) /\ writeFile(f, size, startByte, writes, linked)
      /\ first' = first /\ fatOnDisk' = fatOnDisk
  BY DEF Write
<1>2. AllReached(fat, Chains(fat, f), first, d, n, at)
  BY <1>1, WriteGets
<1>3. /\ disk' = After(disk, f, size, startByte, writes, Put(size, startByte, at), Visited(n, at))
      /\ fat' = at[n].fat /\ whereClusters' = at[n].hint
  BY <1>1, WriteSets
<1>4. startByte \in Nat /\ n \in Nat /\ size \in Nat
  BY Offset, EndsOfCall, Geometry
<1> HIDE DEF at, n
<1>5. at[n] \in Position /\ Extends(at[n].fat, first, d)
  BY <1>2, <1>4, LastReached DEF Reached
<1>6. fat' \in Fats /\ whereClusters' \in 2..LastCluster+1
  BY <1>3, <1>5 DEF Position
<1>7. Tables(fat, fatOnDisk, first)'
  <2>1. Owns(fatOnDisk, first, d)
    BY DEF IndInv, Tables
  <2>2. Extends(fat', first, d)
    BY <1>3, <1>5
  <2>3. Tables(fat', fatOnDisk, first)
    BY <2>1, <2>2, ExtendedTables
  <2> QED
    BY <1>1, <2>3
<1>8. disk' \in Buffers
  <2>1. disk \in Buffers /\ writes \in Nat
    <3>1. MaxWrites \in Nat
      BY DiskAssumption
    <3> QED
      BY <3>1 DEF IndInv, Types
  <2>2. DOMAIN Put(size, startByte, at) = 0..size-1
    BY DEF Put
  <2> QED
    BY <1>3, <1>4, <2>1, <2>2, WriteSectors
<1> QED
  BY <1>6, <1>7, <1>8

LEMMA SpotOnDisk ==
  ASSUME NEW t, NEW heads, NEW m, Owns(t, heads, m), NEW f \in File, NEW b \in Nat, Cl(b) < Len(m[f])
  PROVE  /\ Cl(b) + 1 \in 1..Len(m[f]) /\ m[f][Cl(b) + 1] \in Cluster
         /\ Spot(m[f], b)[1] \in Sector /\ Spot(m[f], b)[2] \in 0..BytesPerSector-1
         /\ Spot(m[f], b) = <<Spot(m[f], b)[1], Spot(m[f], b)[2]>>
<1>1. Cl(b) \in Nat /\ Sec(b) \in 0..SectorsPerCluster /\ Off(b) \in 0..BytesPerSector-1
  BY Parts, Geometry
<1>2. m[f] \in Seq(Cluster)
  BY OwnedChains
<1> DEFINE p == m[f]
           c == p[Cl(b) + 1]
<1>3. Cl(b) + 1 \in 1..Len(p)
  BY <1>1, <1>2
<1>4. c \in Cluster
  BY <1>2, <1>3
<1>5. Spot(p, b) = <<getDiskSector(c, Sec(b)), Off(b)>>
  BY DEF Spot
<1> HIDE DEF p, c
<1>6. getDiskSector(c, Sec(b)) \in Sector
  BY <1>1, <1>4, SectorsOfDisk
<1>7. /\ Spot(p, b)[1] \in Sector /\ Spot(p, b)[2] \in 0..BytesPerSector-1
      /\ Spot(p, b) = <<Spot(p, b)[1], Spot(p, b)[2]>>
  BY <1>1, <1>5, <1>6
<1> QED
  BY <1>3, <1>4, <1>7 DEF c, p

\* No two bytes lie in one place.
LEMMA SpotsDiffer ==
  ASSUME NEW t, NEW heads, NEW m, Owns(t, heads, m), NEW f \in File, NEW g \in File,
         NEW b \in Nat, NEW a \in Nat, Cl(b) < Len(m[f]), Cl(a) < Len(m[g]),
         Spot(m[f], b) = Spot(m[g], a)
  PROVE  f = g /\ b = a
<1> DEFINE c == m[f][Cl(b) + 1]
           e == m[g][Cl(a) + 1]
<1>1. c \in Cluster /\ e \in Cluster /\ Cl(b) + 1 \in 1..Len(m[f]) /\ Cl(a) + 1 \in 1..Len(m[g])
  BY SpotOnDisk
<1>2. /\ Cl(b) \in Nat /\ Sec(b) \in 0..SectorsPerCluster-1
      /\ b = BytesPerCluster * Cl(b) + (BytesPerSector * Sec(b) + Off(b))
  BY Parts
<1>3. /\ Cl(a) \in Nat /\ Sec(a) \in 0..SectorsPerCluster-1
      /\ a = BytesPerCluster * Cl(a) + (BytesPerSector * Sec(a) + Off(a))
  BY Parts
<1>4. getDiskSector(c, Sec(b)) = getDiskSector(e, Sec(a)) /\ Off(b) = Off(a)
  BY DEF Spot
<1>5. Separate(m)
  BY DEF Owns
<1>6. c = e => f = g /\ Cl(b) + 1 = Cl(a) + 1
  BY <1>1, <1>5 DEF Separate
<1> HIDE DEF c, e
<1>7. c \in Nat /\ e \in Nat
  BY <1>1, Geometry
<1>8. c = e /\ Sec(b) = Sec(a)
  <2>1. ClusterOf(getDiskSector(c, Sec(b))) = c /\ getDiskSector(c, Sec(b)) % SectorsPerCluster = Sec(b)
    BY <1>2, <1>7, SectorOfCluster
  <2>2. ClusterOf(getDiskSector(e, Sec(a))) = e /\ getDiskSector(e, Sec(a)) % SectorsPerCluster = Sec(a)
    BY <1>3, <1>7, SectorOfCluster
  <2> QED
    BY <1>4, <2>1, <2>2
<1>9. f = g /\ Cl(b) = Cl(a)
  BY <1>2, <1>3, <1>6, <1>8
<1> QED
  BY <1>2, <1>3, <1>4, <1>8, <1>9

\* The bytes of a write that stays inside one cluster, and where they go.
Land(p, size, startByte, n, at) ==
  \A k \in 0..size-1:
    /\ Cl(startByte + k) < Len(p) /\ startByte + k \in Nat
    /\ Put(size, startByte, at)[k] = Spot(p, startByte + k)
    /\ Spot(p, startByte + k)[1] \in Visited(n, at)
    /\ \A j \in 0..size-1: Put(size, startByte, at)[j] = Put(size, startByte, at)[k] => j = k

LEMMA BytesInCluster ==
  ASSUME NEW m, Owns(fat, first, m), NEW f \in File, NEW size \in 0..MaxSize, NEW startByte \in Nat,
         startByte < SizeInFile(f), InsideCluster(size, startByte),
         NEW at, InCluster(f, m, startByte, SectorEnds(size, startByte), at)
  PROVE  Land(m[f], size, startByte, SectorEnds(size, startByte), at)
<1>0. size \in Nat
  BY Geometry
<1>1. Cl(startByte) + 1 \in 1..Len(m[f]) /\ Cl(startByte) \in Nat
  BY StartOfCall, Parts
<1>2. ASSUME NEW k \in 0..size-1
      PROVE  /\ Cl(startByte + k) < Len(m[f]) /\ startByte + k \in Nat
             /\ Put(size, startByte, at)[k] = Spot(m[f], startByte + k)
             /\ Spot(m[f], startByte + k)[1] \in Visited(SectorEnds(size, startByte), at)
  <2>1. /\ Place(at, startByte, k) = Spot(m[f], startByte + k)
        /\ \E j \in 0..SectorEnds(size, startByte): Place(at, startByte, k)[1] = at[j].sector
        /\ Cl(startByte + k) = Cl(startByte)
    <3>1. Placed(m[f], startByte, SectorEnds(size, startByte), at, k)
      BY PlacesInCluster
    <3> QED
      BY <3>1 DEF Placed
  <2>2. Put(size, startByte, at)[k] = Place(at, startByte, k)
    BY DEF Put
  <2>3. Spot(m[f], startByte + k)[1] \in Visited(SectorEnds(size, startByte), at)
    BY <2>1 DEF Visited
  <2>4. startByte + k \in Nat /\ Cl(startByte) < Len(m[f])
    <3>1. m[f] \in Seq(Cluster)
      BY OwnedChains
    <3>2. Len(m[f]) \in Nat
      BY <3>1
    <3> QED
      BY <1>0, <1>1, <3>2
  <2> QED
    BY <2>1, <2>2, <2>3, <2>4
<1>3. ASSUME NEW k \in 0..size-1, NEW j \in 0..size-1,
             Put(size, startByte, at)[j] = Put(size, startByte, at)[k]
      PROVE  j = k
  <2> DEFINE a == startByte + j
             b == startByte + k
  <2>1. a \in Nat /\ b \in Nat /\ Cl(a) < Len(m[f]) /\ Cl(b) < Len(m[f]) /\ Spot(m[f], a) = Spot(m[f], b)
    BY <1>2, <1>3
  <2>3. a = b => j = k
    BY <1>0
  <2> HIDE DEF a, b
  <2>2. a = b
    BY <2>1, SpotsDiffer
  <2> QED
    BY <2>2, <2>3
<1> QED
  BY <1>2, <1>3 DEF Land

LEMMA WriteContents ==
  ASSUME Types, NEW f \in File, NEW size \in 0..MaxSize, NEW startByte \in Byte,
         NEW linked, Write(f, size, startByte, linked)
  PROVE  /\ contents' \in [File -> [Byte -> Data \cup {NoData}]]
         /\ \A g \in File, b \in Byte:
              contents'[g][b] = IF g = f /\ b \in startByte..startByte+size-1
                                THEN [file |-> f, tag |-> writes, byte |-> b] ELSE contents[g][b]
<1> DEFINE bytes == [b \in Byte |-> IF b \in startByte..startByte+size-1
                                    THEN [file |-> f, tag |-> writes, byte |-> b]
                                    ELSE contents[f][b]]
<1>1. contents' = [contents EXCEPT ![f] = bytes] /\ contents \in [File -> [Byte -> Data \cup {NoData}]]
  BY DEF Write, Types
<1>2. writes \in Nat
  <2>1. MaxWrites \in Nat
    BY DiskAssumption
  <2> QED
    BY <2>1 DEF Types
<1>3. bytes \in [Byte -> Data \cup {NoData}]
  <2>1. \A b \in Byte: [file |-> f, tag |-> writes, byte |-> b] \in Data
    BY <1>2, Offset DEF Data
  <2>2. \A b \in Byte: contents[f][b] \in Data \cup {NoData}
    BY <1>1
  <2> QED
    BY <2>1, <2>2
<1>4. \A b \in Byte: bytes[b] = IF b \in startByte..startByte+size-1
                                THEN [file |-> f, tag |-> writes, byte |-> b] ELSE contents[f][b]
  OBVIOUS
<1> HIDE DEF bytes
<1> QED
  BY <1>1, <1>3, <1>4

\* As long as the bytes of a write stay inside one cluster, the others stay where
\* they are.
LEMMA WriteStored ==
  ASSUME IndInv, NEW f \in File, NEW size \in 0..MaxSize, NEW startByte \in Byte,
         NEW linked, Write(f, size, startByte, linked), ~crossed'
  PROVE  Stored(Files(fat, first), disk, contents)'
<1> DEFINE m == Files(fat, first)
           at == WritePositions(f, startByte, linked)
           n == SectorEnds(size, startByte)
           w == Put(size, startByte, at)
           visited == Visited(n, at)
<1>1. /\ Callable(f, size, startByte, linked) /\ writeFile(f, size, startByte, writes, linked)
      /\ first' = first /\ ~crossed /\ InsideCluster(size, startByte)
  BY DEF Write
<1>2. startByte < SizeInFile(f) /\ startByte \in Nat /\ n \in Nat /\ size \in Nat
  BY <1>1, Offset, EndsOfCall, Geometry DEF Callable
<1>3. Owns(fat, first, m) /\ Stored(m, disk, contents) /\ Types
  BY <1>1, TablesOwn DEF IndInv
<1> HIDE DEF m
<1>4. InCluster(f, m, startByte, n, at)
  BY <1>1, <1>2, <1>3, CallsInCluster
<1>5. /\ disk' = After(disk, f, size, startByte, writes, w, visited)
      /\ fat' = at[n].fat
  BY <1>1, WriteSets
<1>6. fat' = fat
  <2> DEFINE c == m[f][Cl(startByte) + 1]
             k == Sec(startByte)
  <2>1. Straight(c, k, fat, whereClusters, n, at)
    BY <1>4 DEF InCluster
  <2> HIDE DEF at, n, c, k
  <2>2. at[n] = At(c, k + n, fat, whereClusters)
    BY <1>2, <2>1 DEF Straight
  <2>3. at[n].fat = fat
    BY <2>2 DEF At
  <2> QED
    BY <1>5, <2>3
<1>7. Files(fat, first)' = m
  BY <1>1, <1>6 DEF m
<1>8. \A k \in 0..size-1:
        /\ Cl(startByte + k) < Len(m[f]) /\ startByte + k \in Nat
        /\ w[k] = Spot(m[f], startByte + k) /\ Spot(m[f], startByte + k)[1] \in visited
        /\ \A j \in 0..size-1: w[j] = w[k] => j = k
  <2>1. Land(m[f], size, startByte, n, at)
    BY <1>1, <1>2, <1>3, <1>4, BytesInCluster
  <2> QED
    BY <2>1 DEF Land
<1>9. DOMAIN w = 0..size-1 /\ disk \in Buffers /\ writes \in Nat
  <2>1. MaxWrites \in Nat
    BY DiskAssumption
  <2> QED
    BY <1>3, <2>1 DEF Types, Put
<1> HIDE DEF at, n, w, visited
<1>10. \A s \in Sector, b \in 0..BytesPerSector-1:
         /\ <<s, b>> \notin Range(w) => disk'[s][b] = disk[s][b]
         /\ \A k \in 0..size-1:
              s \in visited /\ w[k] = <<s, b>> /\ (\A j \in 0..size-1: w[j] = w[k] => j = k) =>
                disk'[s][b] = [file |-> f, tag |-> writes, byte |-> startByte + k]
  <2>1. Updates(disk, disk', f, size, startByte, writes, w, visited)
    BY <1>2, <1>5, <1>9, WriteSectors
  <2> QED
    BY <2>1 DEF Updates
<1>11. \A g \in File, b \in Byte:
         contents'[g][b] = IF g = f /\ b \in startByte..startByte+size-1
                           THEN [file |-> f, tag |-> writes, byte |-> b] ELSE contents[g][b]
  BY <1>3, WriteContents
<1>12. ASSUME NEW g \in File, NEW b \in Byte, Cl(b) < Len(m[g])
       PROVE  disk'[Spot(m[g], b)[1]][Spot(m[g], b)[2]] = contents'[g][b]
  <2> DEFINE s == Spot(m[g], b)[1]
             o == Spot(m[g], b)[2]
  <2>1. b \in Nat
    BY Offset
  <2>2. s \in Sector /\ o \in 0..BytesPerSector-1 /\ Spot(m[g], b) = <<s, o>>
    BY <1>3, <1>12, <2>1, SpotOnDisk
  <2>5. disk[s][o] = contents[g][b]
    BY <1>3, <1>12 DEF Stored
  <2> HIDE DEF s, o
  <2>3. CASE g = f /\ b \in startByte..startByte+size-1
    <3> DEFINE k == b - startByte
    <3>1. k \in 0..size-1 /\ startByte + k = b
      BY <1>2, <2>1, <2>3
    <3> HIDE DEF k
    <3>2. /\ w[k] = Spot(m[f], b) /\ Spot(m[f], b)[1] \in visited
          /\ \A j \in 0..size-1: w[j] = w[k] => j = k
      BY <1>8, <3>1
    <3>3. w[k] = <<s, o>> /\ s \in visited
      BY <2>2, <2>3, <3>2 DEF s
    <3>4. disk'[s][o] = [file |-> f, tag |-> writes, byte |-> b]
      BY <1>10, <2>2, <3>1, <3>2, <3>3
    <3>5. contents'[g][b] = [file |-> f, tag |-> writes, byte |-> b]
      BY <1>11, <2>3
    <3> QED
      BY <3>4, <3>5 DEF s, o
  <2>4. CASE ~(g = f /\ b \in startByte..startByte+size-1)
    <3>1. <<s, o>> \notin Range(w)
      <4> SUFFICES ASSUME NEW k \in 0..size-1, w[k] = <<s, o>> PROVE FALSE
        BY <1>9 DEF Range
      <4> DEFINE a == startByte + k
      <4>1. a \in Nat /\ Cl(a) < Len(m[f]) /\ w[k] = Spot(m[f], a)
        BY <1>8
      <4>3. a \in startByte..startByte+size-1
        BY <1>2
      <4> HIDE DEF a
      <4>2. Spot(m[g], b) = Spot(m[f], a)
        BY <2>2, <4>1
      <4>4. g = f /\ b = a
        BY <1>3, <1>12, <2>1, <4>1, <4>2, SpotsDiffer
      <4> QED
        BY <2>4, <4>3, <4>4
    <3>2. disk'[s][o] = disk[s][o]
      BY <1>10, <2>2, <3>1
    <3>3. contents'[g][b] = contents[g][b]
      BY <1>11, <2>4
    <3> QED
      BY <2>5, <3>2, <3>3 DEF s, o
  <2> QED
    BY <2>3, <2>4
<1> QED
  BY <1>7, <1>12 DEF Stored

\* createFile takes i for the file and, if the directory grows, j for it.
OneTaken(t, hint, u, i) == IsNext(t, hint, i) /\ u = [t EXCEPT ![i] = EOC]
Grows(i, j) ==
  /\ OneTaken(fatOnDisk', i + 1, fat', j) /\ whereClusters' = j + 1
  /\ disk' = [disk EXCEPT ![getDiskSector(j, 0)][0] = NoData]

LEMMA CreateSets ==
  ASSUME NEW grows \in BOOLEAN, createFile(grows), whereClusters \in 2..LastCluster+1
  PROVE  \E i: /\ OneTaken(fat, whereClusters, fatOnDisk', i)
               /\ \/ fat' = fatOnDisk' /\ whereClusters' = i + 1 /\ disk' = disk
                  \/ \E j: Grows(i, j)
<1> DEFINE pos == [cluster |-> Free, fat |-> fat, hint |-> whereClusters]
           new == Allocated(pos, Free, FALSE)
           more == Allocated(new, Free, FALSE)
           i == Min(Available(fat, whereClusters))
<1>1. Available(fat, whereClusters) # {} /\ fatOnDisk' = new.fat /\ Created(grows, new, more)
  BY DEF createFile
<1>2. pos.fat = fat /\ pos.hint = whereClusters
  OBVIOUS
<1>3. new = [pos EXCEPT !.cluster = i, !.fat = [fat EXCEPT ![i] = EOC], !.hint = i + 1]
  BY <1>2 DEF Allocated
<1>5. OneTaken(fat, whereClusters, [fat EXCEPT ![i] = EOC], i) /\ i + 1 \in 2..LastCluster+1
  <2>1. IsNext(fat, whereClusters, i)
    BY <1>1 DEF IsNext
  <2> HIDE DEF i
  <2> QED
    BY <2>1, FirstFree DEF OneTaken, IsNext
<1> DEFINE j == Min(Available(new.fat, new.hint))
<1>6. more = [new EXCEPT !.cluster = j, !.fat = [new.fat EXCEPT ![j] = EOC], !.hint = j + 1]
  BY DEF Allocated
<1> HIDE DEF i, new, more
<1>4. new.fat = [fat EXCEPT ![i] = EOC] /\ new.hint = i + 1
      /\ new \in [cluster: {i}, fat: {[fat EXCEPT ![i] = EOC]}, hint: {i + 1}]
  BY <1>3
<1>7. CASE ~grows
  BY <1>1, <1>4, <1>5, <1>7 DEF Created
<1>8. CASE grows
  <2>1. Available(new.fat, new.hint) # {}
    BY <1>1, <1>8 DEF Created
  <2>2. IsNext(fatOnDisk', i + 1, j)
    BY <1>1, <1>4, <1>5, <2>1 DEF IsNext
  <2> HIDE DEF j
  <2>3. more.cluster = j /\ more.fat = [new.fat EXCEPT ![j] = EOC] /\ more.hint = j + 1
    BY <1>4, <1>6
  <2>4. /\ fat' = more.fat /\ whereClusters' = more.hint
        /\ disk' = [disk EXCEPT ![getDiskSector(more.cluster, 0)][0] = NoData]
    BY <1>1, <1>8 DEF Created
  <2>5. Grows(i, j)
    BY <1>1, <2>2, <2>3, <2>4 DEF Grows, OneTaken
  <2> QED
    BY <1>1, <1>4, <1>5, <2>5
<1> QED
  BY <1>7, <1>8

LEMMA TakenOne ==
  ASSUME NEW t \in Fats, NEW heads, NEW m, Owns(t, heads, m), NEW hint, NEW u, NEW i,
         OneTaken(t, hint, u, i)
  PROVE  /\ i \in Cluster /\ t[i] = Free /\ i + 1 \in 2..LastCluster+1
         /\ u \in Fats /\ Owns(u, heads, m)
<1>1. i \in Cluster /\ t[i] = Free /\ i + 1 \in 2..LastCluster+1
  BY FirstFree DEF OneTaken, IsNext
<1> QED
  BY <1>1, TakeAlone DEF OneTaken

\* The end mark of a new directory cluster lies on no byte of a file.
LEMMA MarkStored ==
  ASSUME NEW t \in Fats, NEW heads, NEW m, Owns(t, heads, m), NEW j \in Cluster, t[j] = Free,
         disk \in Buffers, NEW new, new = [disk EXCEPT ![getDiskSector(j, 0)][0] = NoData]
  PROVE  new \in Buffers /\ (Stored(m, disk, contents) => Stored(m, new, contents))
<1> DEFINE q == getDiskSector(j, 0)
<1>1. q \in Sector /\ 0 \in 0..BytesPerSector-1 /\ j \in Nat /\ 0 \in 0..SectorsPerCluster-1
      /\ 0 \in 0..SectorsPerCluster
  BY SectorsOfDisk, Geometry
<1>2. ClusterOf(q) = j
  BY <1>1, SectorOfCluster
<1> HIDE DEF q
<1>3. new = [disk EXCEPT ![q][0] = NoData]
  BY DEF q
<1>4. new \in Buffers
  <2> DEFINE old == disk[q]
             marked == [old EXCEPT ![0] = NoData]
  <2>1. old \in [0..BytesPerSector-1 -> Data \cup {NoData}]
    BY <1>1 DEF Buffers
  <2>2. new = [disk EXCEPT ![q] = marked]
    BY <1>3
  <2> HIDE DEF old
  <2>3. marked \in [0..BytesPerSector-1 -> Data \cup {NoData}]
    BY <2>1
  <2> HIDE DEF marked
  <2> QED
    BY <1>1, <2>2, <2>3 DEF Buffers
<1>5. \A s \in Sector: s # q => new[s] = disk[s]
  BY <1>3 DEF Buffers
<1>6. ASSUME Stored(m, disk, contents), NEW f \in File, NEW b \in Byte, Cl(b) < Len(m[f])
      PROVE  new[Spot(m[f], b)[1]][Spot(m[f], b)[2]] = contents[f][b]
  <2> DEFINE c == m[f][Cl(b) + 1]
             s == Spot(m[f], b)[1]
  <2>1. b \in Nat
    BY Offset
  <2>2. Cl(b) + 1 \in 1..Len(m[f]) /\ c \in Cluster /\ s \in Sector
    BY <1>6, <2>1, SpotOnDisk
  <2>3. IsChain(t, heads[f], m[f])
    BY OwnedChains
  <2>4. t[c] # Free
    BY <2>2, <2>3, InTheChain, Geometry
  <2>5. s = getDiskSector(c, Sec(b)) /\ Sec(b) \in 0..SectorsPerCluster-1
    BY <2>1, Parts DEF Spot
  <2>6. disk[s][Spot(m[f], b)[2]] = contents[f][b]
    BY <1>6 DEF Stored
  <2> HIDE DEF c, s
  <2>7. c \in Nat
    BY <2>2, Geometry
  <2>8. ClusterOf(s) = c
    BY <2>5, <2>7, SectorOfCluster
  <2>9. new[s] = disk[s]
    BY <1>2, <1>5, <2>2, <2>4, <2>8
  <2> QED
    BY <2>6, <2>9 DEF s
<1> QED
  BY <1>4, <1>6 DEF Stored

LEMMA createFileStep == ASSUME IndInv, NEW grows \in BOOLEAN, createFile(grows) PROVE IndInv'
<1> DEFINE m == Files(fat, first)
<1>1. /\ first' = first /\ contents' = contents /\ crossed' = crossed
      /\ writes' = writes
  BY DEF createFile, Created
<1>2. Types /\ Owns(fat, first, m)
  BY TablesOwn DEF IndInv
<1>4. fat \in Fats /\ whereClusters \in 2..LastCluster+1 /\ disk \in Buffers
  BY <1>2 DEF Types
<1>11. ~crossed => Stored(m, disk, contents)
  BY DEF IndInv
<1>3. PICK i: /\ OneTaken(fat, whereClusters, fatOnDisk', i)
              /\ \/ fat' = fatOnDisk' /\ whereClusters' = i + 1 /\ disk' = disk
                 \/ \E j: Grows(i, j)
  BY <1>4, CreateSets
<1> HIDE DEF m
<1>5. i + 1 \in 2..LastCluster+1 /\ fatOnDisk' \in Fats /\ Owns(fatOnDisk', first, m)
  BY <1>2, <1>3, <1>4, TakenOne
<1>6. /\ fat' \in Fats /\ Owns(fat', first, m) /\ whereClusters' \in 2..LastCluster+1
      /\ disk' \in Buffers /\ (~crossed => Stored(m, disk', contents))
  <2>1. CASE fat' = fatOnDisk' /\ whereClusters' = i + 1 /\ disk' = disk
    BY <1>4, <1>5, <1>11, <2>1
  <2>2. ASSUME NEW j, Grows(i, j)
        PROVE  /\ fat' \in Fats /\ Owns(fat', first, m) /\ whereClusters' \in 2..LastCluster+1
               /\ disk' \in Buffers /\ (~crossed => Stored(m, disk', contents))
    <3>1. /\ OneTaken(fatOnDisk', i + 1, fat', j) /\ whereClusters' = j + 1
          /\ disk' = [disk EXCEPT ![getDiskSector(j, 0)][0] = NoData]
      BY <2>2 DEF Grows
    <3> DEFINE t == fatOnDisk'
    <3>2. t \in Fats /\ Owns(t, first, m)
      BY <1>5
    <3> HIDE DEF t
    <3>3. OneTaken(t, i + 1, fat', j)
      BY <3>1 DEF t
    <3>4. /\ j \in Cluster /\ t[j] = Free /\ j + 1 \in 2..LastCluster+1
          /\ fat' \in Fats /\ Owns(fat', first, m)
      BY <3>2, <3>3, TakenOne
    <3>5. disk' \in Buffers /\ (Stored(m, disk, contents) => Stored(m, disk', contents))
      BY <1>4, <3>1, <3>2, <3>4, MarkStored
    <3> QED
      BY <1>11, <3>1, <3>4, <3>5
  <2> QED
    BY <1>3, <2>1, <2>2
<1>7. Files(fat', first) = m /\ Files(fatOnDisk', first) = m
  BY <1>5, <1>6, FilesAre
<1>8. Types'
  BY <1>1, <1>2, <1>5, <1>6 DEF Types, Buffers, Sector, getDiskSector
<1>9. Tables(fat, fatOnDisk, first)'
  <2>1. Tables(fat', fat', first)
    BY <1>6, SameTables
  <2>2. \A f \in File: IsPrefix(m[f], m[f])
    BY <1>7, <2>1 DEF Tables
  <2> QED
    BY <1>1, <1>5, <1>6, <1>7, <2>2 DEF Tables
<1>10. (~crossed => Stored(Files(fat, first), disk, contents))'
  BY <1>1, <1>6, <1>7
<1> QED
  BY <1>8, <1>9, <1>10 DEF IndInv

LEMMA ResetStep == IndInv /\ Reset => IndInv'
<1> SUFFICES ASSUME IndInv, Reset PROVE IndInv'
  OBVIOUS
<1> DEFINE m == Files(fat, first)
           d == Files(fatOnDisk, first)
<1>1. /\ first' = first /\ disk' = disk /\ contents' = contents /\ crossed' = crossed
      /\ writes' = writes /\ fatOnDisk' = fatOnDisk /\ fat' = fatOnDisk /\ whereClusters' = 2
  BY DEF Reset
<1>2. /\ Types /\ Owns(fat, first, m) /\ Owns(fatOnDisk, first, d)
      /\ \A f \in File: IsPrefix(d[f], m[f])
  BY DEF IndInv, Tables
<1>3. Types'
  <2>1. 2 \in 2..LastCluster+1
    BY Geometry
  <2> QED
    BY <1>1, <1>2, <2>1 DEF Types
<1>4. Tables(fat, fatOnDisk, first)'
  <2>1. Tables(fatOnDisk, fatOnDisk, first)
    BY <1>2, SameTables
  <2> QED
    BY <1>1, <2>1
<1>5. ASSUME ~crossed PROVE Stored(d, disk, contents)
  <2>1. Stored(m, disk, contents)
    BY <1>5 DEF IndInv
  <2> HIDE DEF m, d
  <2> SUFFICES ASSUME NEW f \in File, NEW b \in Byte, Cl(b) < Len(d[f])
               PROVE  disk[Spot(d[f], b)[1]][Spot(d[f], b)[2]] = contents[f][b]
    BY DEF Stored
  <2> DEFINE p == d[f]
             q == m[f]
  <2>2. p \in Seq(Cluster) /\ q \in Seq(Cluster) /\ IsPrefix(p, q)
    BY <1>2 DEF Owns
  <2>3. Cl(b) < Len(p)
    OBVIOUS
  <2>4. Cl(b) \in Nat
    BY Offset, Parts
  <2> HIDE DEF p, q
  <2>5. Len(p) <= Len(q) /\ \A j \in 1..Len(p): p[j] = q[j]
    BY <2>2, PrefixIs
  <2>6. Len(p) \in Nat /\ Len(q) \in Nat
    BY <2>2
  <2>7. Cl(b) + 1 \in 1..Len(p) /\ Cl(b) < Len(q)
    BY <2>3, <2>4, <2>5, <2>6
  <2>8. Spot(p, b) = Spot(q, b)
    BY <2>5, <2>7 DEF Spot
  <2>9. disk[Spot(q, b)[1]][Spot(q, b)[2]] = contents[f][b]
    BY <2>1, <2>7 DEF Stored, q
  <2> QED
    BY <2>8, <2>9 DEF p
<1>6. (~crossed => Stored(Files(fat, first), disk, contents))'
  BY <1>1, <1>5
<1> QED
  BY <1>3, <1>4, <1>6 DEF IndInv

LEMMA WriteKeeps ==
  ASSUME IndInv, NEW f \in File, NEW size \in 0..MaxSize, NEW startByte \in Byte,
         NEW linked, Write(f, size, startByte, linked)
  PROVE  IndInv'
<1>1. /\ fat' \in Fats /\ whereClusters' \in 2..LastCluster+1
      /\ Tables(fat, fatOnDisk, first)' /\ disk' \in Buffers
  BY WriteTables
<1>2. Types
  BY DEF IndInv
<1>3. contents' \in [File -> [Byte -> Data \cup {NoData}]]
  BY <1>2, WriteContents
<1>4. fatOnDisk' = fatOnDisk /\ crossed' \in BOOLEAN /\ writes' = writes + 1 /\ writes < MaxWrites
  BY DEF Write
<1>5. MaxWrites \in Nat
  BY DiskAssumption
<1>6. writes' \in 0..MaxWrites
  BY <1>2, <1>4, <1>5 DEF Types
<1>7. Types'
  BY <1>1, <1>2, <1>3, <1>4, <1>6 DEF Types
<1>8. (~crossed => Stored(Files(fat, first), disk, contents))'
  BY WriteStored
<1> QED
  BY <1>1, <1>7, <1>8 DEF IndInv

LEMMA NextHolds == IndInv /\ [Next]_vars => IndInv'
<1> SUFFICES ASSUME IndInv, [Next]_vars PROVE IndInv'
  OBVIOUS
<1>1. CASE \E f \in File, size \in Sizes, startByte \in Byte:
             \E linked \in SUBSET (0..SectorEnds(size, startByte)-1): Write(f, size, startByte, linked)
  BY <1>1, WriteKeeps, DiskAssumption
<1>2. CASE \E grows \in BOOLEAN: createFile(grows)
  BY <1>2, createFileStep
<1>3. CASE Reset
  BY <1>3, ResetStep
<1>4. CASE UNCHANGED vars
  BY <1>4 DEF vars, IndInv, Types, Tables
<1> QED
  BY <1>1, <1>2, <1>3, <1>4 DEF Next

LEMMA Inductive == Spec => []IndInv
BY InitHolds, NextHolds, PTL DEF Spec

-----------------------------------------------------------------------------
(* What holds of every file system and every history of calls *)

\* readFile and writeFile only leave values of their types in the FAT, in the sectors
\* and in the hint.
THEOREM TypesHold == Spec => []TypeOK
<1>1. IndInv => TypeOK
  <2> SUFFICES ASSUME Types PROVE TypeOK
    BY DEF IndInv
  <2>1. {fat, fatOnDisk} \subseteq [Cluster -> {Free, EOC} \cup Cluster]
    BY DEF Types, Fats
  <2>2. ASSUME NEW s \in Sector, NEW b \in 0..BytesPerSector-1
        PROVE  disk[s][b] = NoData \/ disk[s][b] \in Data
    <3>1. disk[s] \in [0..BytesPerSector-1 -> Data \cup {NoData}]
      BY DEF Types, Buffers
    <3> QED
      BY <3>1
  <2> QED
    BY <2>1, <2>2 DEF Types, TypeOK
<1> QED
  BY <1>1, Inductive, PTL

LEMMA SoundChain ==
  ASSUME NEW t, NEW m, Owns(t, first, m), NEW f \in File
  PROVE  /\ t[Last(Chain(t, first[f]))] = EOC
         /\ \A g \in File \ {f}: Chains(t, f) \cap Chains(t, g) = {}
<1>1. \A g \in File: Chain(t, first[g]) = m[g] /\ IsChain(t, first[g], m[g])
  BY OwnedChains
<1>2. t[Last(Chain(t, first[f]))] = EOC
  BY <1>1 DEF IsChain, Last
<1>3. ASSUME NEW g \in File \ {f}, NEW c \in Chains(t, f), c \in Chains(t, g) PROVE FALSE
  <2>1. PICK i \in 1..Len(m[f]): c = m[f][i]
    BY <1>1, ClustersOfChain DEF Chains
  <2>2. PICK j \in 1..Len(m[g]): c = m[g][j]
    BY <1>1, <1>3, ClustersOfChain DEF Chains
  <2>3. m[f][i] = m[g][j] /\ f # g
    BY <2>1, <2>2
  <2> QED
    BY <2>3 DEF Owns, Separate
<1> QED
  BY <1>2, <1>3

\* Writes of any length, with an allocateCluster that links the new cluster or not,
\* creations and resets keep the chains of the files apart and closed, in memory and on
\* disk, and the chain on disk the beginning of the one in memory.
THEOREM ChainsStaySound == Spec => []ChainsSound
<1>1. IndInv => ChainsSound
  <2> SUFFICES ASSUME IndInv PROVE ChainsSound
    OBVIOUS
  <2> DEFINE m == Files(fat, first)
             d == Files(fatOnDisk, first)
  <2>1. /\ Owns(fat, first, m) /\ Owns(fatOnDisk, first, d)
        /\ \A f \in File: IsPrefix(d[f], m[f])
    BY DEF IndInv, Tables
  <2>2. \A f \in File: m[f] = Chain(fat, first[f]) /\ d[f] = Chain(fatOnDisk, first[f])
    BY DEF Files
  <2> HIDE DEF m, d
  <2>3. ASSUME NEW f \in File
        PROVE  /\ fat[Last(Chain(fat, first[f]))] = EOC
               /\ \A g \in File \ {f}: Chains(fat, f) \cap Chains(fat, g) = {}
    BY <2>1, SoundChain
  <2>4. ASSUME NEW f \in File
        PROVE  /\ fatOnDisk[Last(Chain(fatOnDisk, first[f]))] = EOC
               /\ \A g \in File \ {f}: Chains(fatOnDisk, f) \cap Chains(fatOnDisk, g) = {}
    BY <2>1, SoundChain
  <2> QED
    BY <2>1, <2>2, <2>3, <2>4 DEF ChainsSound
<1> QED
  BY <1>1, Inductive, PTL

LEMMA SameCluster ==
  ASSUME NEW b \in Byte, NEW a \in Nat, Cl(a) = Cl(b)
  PROVE  a \in Byte
<1>1. b \in Nat /\ FileClusters \in Nat \ {0} /\ BytesPerCluster \in Nat \ {0}
  BY Offset, Geometry
<1> DEFINE q == Cl(b)
<1>2. /\ q \in Nat /\ Sec(b) \in 0..SectorsPerCluster-1 /\ Off(b) \in 0..BytesPerSector-1
      /\ b = BytesPerCluster * q + (BytesPerSector * Sec(b) + Off(b))
  BY <1>1, Parts
<1>3. /\ q = Cl(a) /\ Sec(a) \in 0..SectorsPerCluster-1 /\ Off(a) \in 0..BytesPerSector-1
      /\ a = BytesPerCluster * q + (BytesPerSector * Sec(a) + Off(a))
  BY Parts
<1> HIDE DEF q
<1>4. /\ BytesPerSector * Sec(b) + Off(b) \in 0..BytesPerCluster-1
      /\ BytesPerSector * Sec(a) + Off(a) \in 0..BytesPerCluster-1
  BY <1>2, <1>3, SectorParts
<1>5. BytesPerCluster * FileClusters \in Nat /\ BytesPerCluster * q \in Nat
      /\ FileClusters * BytesPerCluster = BytesPerCluster * FileClusters
  BY <1>1, <1>2
<1>6. q < FileClusters
  <2> SUFFICES ASSUME FileClusters <= q PROVE FALSE
    BY <1>1, <1>2
  <2>1. BytesPerCluster * FileClusters <= BytesPerCluster * q
    <3>1. CASE q = FileClusters
      BY <1>5, <3>1
    <3>2. CASE FileClusters < q
      <4>1. BytesPerCluster * FileClusters + BytesPerCluster <= BytesPerCluster * q
        BY <1>1, <1>2, <3>2, Larger
      <4> QED
        BY <1>1, <1>5, <4>1
    <3> QED
      BY <1>1, <1>2, <3>1, <3>2
  <2>2. b < BytesPerCluster * FileClusters
    BY <1>1, <1>5 DEF Byte
  <2> QED
    BY <1>1, <1>2, <1>4, <1>5, <2>1, <2>2
<1>7. BytesPerCluster * q + BytesPerCluster <= BytesPerCluster * FileClusters
  BY <1>1, <1>2, <1>6, Larger
<1> QED
  BY <1>1, <1>3, <1>4, <1>5, <1>7 DEF Byte

\* As long as no write has left the cluster it started in, a read of bytes of one cluster
\* returns what the last writes to these bytes of this file stored, in a file system of
\* any size, with clusters and sectors of any size and files anywhere on the disk.
THEOREM ReadsAreRight == Spec => []ReadsReturnWhatWasWritten
<1>1. IndInv => ReadsReturnWhatWasWritten
  <2> SUFFICES ASSUME IndInv, ~crossed, NEW f \in File, NEW size \in 0..MaxSize, NEW startByte \in Byte,
                      startByte < SizeInFile(f), InsideCluster(size, startByte)
               PROVE  readFile(f, size, startByte) = [k \in 0..size-1 |-> contents[f][startByte + k]]
    BY DEF ReadsReturnWhatWasWritten
  <2> DEFINE m == Files(fat, first)
             at == ReadPositions(f, startByte)
             n == SectorEnds(size, startByte)
  <2>1. Owns(fat, first, m) /\ Stored(m, disk, contents)
    BY TablesOwn DEF IndInv
  <2>2. startByte \in Nat /\ size \in Nat
    BY Offset, Geometry
  <2> HIDE DEF m
  <2>3. readFile(f, size, startByte) =
          [k \in 0..size-1 |-> disk[Place(at, startByte, k)[1]][Place(at, startByte, k)[2]]]
    BY DEF readFile
  <2>6. at = ReadPositions(f, startByte)
    OBVIOUS
  <2> HIDE DEF at
  <2>4. InCluster(f, m, startByte, n, at)
    BY <2>1, <2>2, <2>6, CallsInCluster
  <2>5. ASSUME NEW k \in 0..size-1
        PROVE  disk[Place(at, startByte, k)[1]][Place(at, startByte, k)[2]] = contents[f][startByte + k]
    <3>1. /\ Cl(startByte + k) < Len(m[f]) /\ startByte + k \in Nat
          /\ Put(size, startByte, at)[k] = Spot(m[f], startByte + k)
      <4>1. Land(m[f], size, startByte, n, at)
        BY <2>1, <2>2, <2>4, BytesInCluster
      <4> QED
        BY <4>1 DEF Land
    <3>2. Placed(m[f], startByte, n, at, k)
      BY <2>2, <2>4, PlacesInCluster
    <3>3. Place(at, startByte, k) = Spot(m[f], startByte + k) /\ Cl(startByte + k) = Cl(startByte)
      BY <3>2 DEF Placed
    <3>4. startByte + k \in Byte
      BY <3>1, <3>3, SameCluster
    <3> QED
      BY <2>1, <3>1, <3>3, <3>4 DEF Stored
  <2> QED
    BY <2>3, <2>5
<1> QED
  BY <1>1, Inductive, PTL

\* The sector of a position is one of a cluster of the call, or the one after it.
LEMMA NearOwn ==
  ASSUME NEW K \in SUBSET Cluster, NEW t, NEW heads, NEW d, NEW pos, Reached(t, K, heads, d, pos)
  PROVE  \/ ClusterOf(pos.sector) \in Own(t, K, pos.fat)
         \/ ClusterOf(pos.sector - 1) \in Own(t, K, pos.fat)
<1> DEFINE c == pos.cluster
           s == pos.sector
<1>1. c \in Own(t, K, pos.fat) /\ c \in Cluster
  BY DEF Reached, Position
<1>2. PICK k \in 0..SectorsPerCluster: s = getDiskSector(c, k)
  BY DEF Reached, Located
<1> HIDE DEF c, s
<1>3. CASE k # SectorsPerCluster
  <2>1. k \in 0..SectorsPerCluster-1 /\ c \in Nat
    BY <1>1, <1>3, Geometry
  <2>2. ClusterOf(s) = c
    BY <1>2, <2>1, SectorOfCluster
  <2> QED
    BY <1>1, <2>2 DEF s
<1>4. CASE k = SectorsPerCluster
  <2>1. SectorsPerCluster - 1 \in 0..SectorsPerCluster-1 /\ c \in Nat
        /\ SectorsPerCluster - 1 \in 0..SectorsPerCluster
    BY <1>1, Geometry
  <2>2. /\ getDiskSector(c, SectorsPerCluster - 1) \in Nat
        /\ getDiskSector(c, SectorsPerCluster - 1) + 1 = getDiskSector(c, SectorsPerCluster - 1 + 1)
    BY <1>1, <2>1, SectorNumber
  <2>3. SectorsPerCluster - 1 + 1 = SectorsPerCluster
    BY Geometry
  <2>4. s - 1 = getDiskSector(c, SectorsPerCluster - 1)
    BY <1>2, <1>4, <2>2, <2>3
  <2>5. ClusterOf(s - 1) = c
    BY <2>1, <2>4, SectorOfCluster
  <2> QED
    BY <1>1, <2>5 DEF s
<1> QED
  BY <1>3, <1>4

LEMMA Damage ==
  ASSUME IndInv, NEW f \in File, NEW size \in 0..MaxSize, NEW startByte \in Byte,
         NEW linked, Write(f, size, startByte, linked), NEW s \in Changed
  PROVE  LET own == Chains(fat, f) \cup Taken
         IN  ClusterOf(s) \in own \/ ClusterOf(s - 1) \in own
<1> DEFINE at == WritePositions(f, startByte, linked)
           n == SectorEnds(size, startByte)
           w == Put(size, startByte, at)
           visited == Visited(n, at)
           K == Chains(fat, f)
           d == Files(fatOnDisk, first)
<1>1. Callable(f, size, startByte, linked) /\ writeFile(f, size, startByte, writes, linked)
  BY DEF Write
<1>2. disk' = After(disk, f, size, startByte, writes, w, visited) /\ fat' = at[n].fat
  BY <1>1, WriteSets
<1>3. AllReached(fat, K, first, d, n, at)
  BY <1>1, WriteGets
<1>4. startByte \in Nat /\ n \in Nat /\ size \in Nat
  BY Offset, EndsOfCall, Geometry
<1>5. DOMAIN w = 0..size-1 /\ disk \in Buffers /\ writes \in Nat
  <2>1. MaxWrites \in Nat
    BY DiskAssumption
  <2> QED
    BY <2>1 DEF IndInv, Types, Put
<1>6. K \in SUBSET Cluster
  <2>1. Owns(fat, first, Files(fat, first)) /\ Files(fat, first)[f] = Chain(fat, first[f])
    BY TablesOwn DEF IndInv
  <2>2. IsChain(fat, first[f], Chain(fat, first[f]))
    BY <2>1, OwnedChains
  <2> QED
    BY <2>2, ClustersOfChain DEF Chains
<1> HIDE DEF at, n, w, K, d
<1>7. s \in Sector /\ disk'[s] # disk[s]
  BY DEF Changed
<1>8. PICK i \in 0..n: s = at[i].sector
  <2>1. Updates(disk, disk', f, size, startByte, writes, w, visited)
    BY <1>2, <1>4, <1>5, WriteSectors
  <2>2. s \in visited
    BY <1>7, <2>1 DEF Updates
  <2> QED
    BY <2>2 DEF Visited
<1>9. Reached(fat, K, first, d, at[i]) /\ Own(fat, K, at[i].fat) \subseteq Own(fat, K, at[n].fat)
  BY <1>3 DEF AllReached
<1>10. ClusterOf(s) \in Own(fat, K, at[i].fat) \/ ClusterOf(s - 1) \in Own(fat, K, at[i].fat)
  BY <1>6, <1>8, <1>9, NearOwn
<1>11. Own(fat, K, at[n].fat) = K \cup Taken
  BY <1>2 DEF Own, Taken
<1> QED
  BY <1>9, <1>10, <1>11 DEF K

\* A write of any length, wherever the file's clusters are, changes only sectors of the
\* file and of clusters it has just taken, and the one sector behind such a cluster.
THEOREM DamageIsLimited == Spec => DamageIsOneSector
<1> DEFINE A == \A f \in File: writes' # writes /\ contents'[f] # contents[f] =>
                  \A s \in Changed: LET own == Chains(fat, f) \cup Taken
                                    IN  ClusterOf(s) \in own \/ ClusterOf(s - 1) \in own
<1>1. IndInv /\ [Next]_vars => [A]_vars
  <2> SUFFICES ASSUME IndInv, Next, NEW f \in File, writes' # writes, contents'[f] # contents[f],
                      NEW s \in Changed
               PROVE  LET own == Chains(fat, f) \cup Taken
                      IN  ClusterOf(s) \in own \/ ClusterOf(s - 1) \in own
    OBVIOUS
  <2>1. CASE (\E grows \in BOOLEAN: createFile(grows)) \/ Reset
    BY <2>1 DEF createFile, Created, Reset
  <2>2. ASSUME NEW g \in File, NEW size \in 0..MaxSize, NEW startByte \in Byte,
               NEW linked, Write(g, size, startByte, linked)
        PROVE  LET own == Chains(fat, f) \cup Taken
               IN  ClusterOf(s) \in own \/ ClusterOf(s - 1) \in own
    <3>1. contents \in [File -> [Byte -> Data \cup {NoData}]]
      BY DEF IndInv, Types
    <3>2. f = g
      BY <2>2, <3>1 DEF Write
    <3> QED
      BY <2>2, <3>2, Damage
  <2> QED
    BY <2>1, <2>2, DiskAssumption DEF Next
<1> QED
  BY <1>1, Inductive, PTL DEF Spec, DamageIsOneSector
=============================================================================
