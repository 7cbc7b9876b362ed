------------------------------ MODULE FileData ------------------------------
(***************************************************************************)
(* readFile and writeFile of file-system/fat32.c: which bytes of which     *)
(* sectors a call that starts at a byte offset reads or writes.  The loops *)
(* move byte by byte; what is kept of them is the list of sectors they     *)
(* visit, where each byte of the caller's buffer goes, and the clusters a  *)
(* write adds to the FAT.                                                  *)
(***************************************************************************)
EXTENDS Integers, Sequences, FiniteSets, SequencesExt

CONSTANTS File, SectorsPerCluster, BytesPerSector,
          LastCluster,         \* clusters are 2..LastCluster
          FileClusters,        \* the most clusters a file has on the image
          Sizes, MaxSize,      \* of the buffers written, and of any buffer
          MaxWrites, MaxCreates, MaxResets   \* bounds of the instance

ASSUME DiskAssumption ==
  /\ {SectorsPerCluster, BytesPerSector, FileClusters, MaxSize} \subseteq Nat \ {0}
  /\ LastCluster \in Nat \ 0..2 /\ Sizes \subseteq 0..MaxSize
  /\ {MaxWrites, MaxCreates, MaxResets} \subseteq Nat

Cluster == 2..LastCluster
Free == 0
EOC == LastCluster + 1           \* every value above 0x0FFFFFF7
BytesPerCluster == SectorsPerCluster * BytesPerSector
Byte == 0..FileClusters*BytesPerCluster-1   \* offsets in the files of the image

\* Sectors by number, and one cluster of them after the last that is used.
getDiskSector(c, offset) == c * SectorsPerCluster + offset
Sector == getDiskSector(2, 0)..getDiskSector(LastCluster + 2, 0)-1
NoData == [byte |-> -1]

VARIABLES
  fat, whereClusters,   \* FAT[] and the allocation hint
  fatOnDisk,            \* the FAT sector on disk
  first,                \* the first cluster of every file
  disk,                 \* disk[sector][byte]
  contents,             \* what programs wrote where (history)
  crossed,              \* a write has left the cluster it started in (history)
  writes, creates, resets   \* bounded

vars == <<fat, whereClusters, fatOnDisk, first, disk, contents, crossed, writes, creates, resets>>

\* The files of the image lie anywhere on it: no cluster is in two places of them.
Init ==
  \E chain \in [File -> UNION {[1..n -> Cluster]: n \in 1..FileClusters}]:
    LET places == {p \in File \X (1..FileClusters): p[2] \in DOMAIN chain[p[1]]}
        at(p) == chain[p[1]][p[2]]
        next(p) == IF p[2] + 1 \in DOMAIN chain[p[1]] THEN chain[p[1]][p[2] + 1] ELSE EOC
    IN
    /\ \A p, q \in places: at(p) = at(q) => p = q
    /\ first = [f \in File |-> chain[f][1]]
    /\ fat = [c \in Cluster |-> IF \E p \in places: c = at(p)
                                THEN next(CHOOSE p \in places: c = at(p)) ELSE Free]
    /\ fatOnDisk = fat
    /\ whereClusters = 2
    /\ disk = [s \in Sector |-> [b \in 0..BytesPerSector-1 |-> NoData]]
    /\ contents = [f \in File |-> [b \in Byte |-> NoData]]
    /\ crossed = FALSE
    /\ writes = 0 /\ creates = 0 /\ resets = 0

-----------------------------------------------------------------------------
(* Which sectors a call visits *)

\* The clusters from c on, as far as the FAT leads.
Chain(g, c) ==
  LET from[k \in 0..LastCluster] == [x \in Cluster |->
        <<x>> \o (IF k = 0 \/ g[x] \notin Cluster THEN <<>> ELSE from[k - 1][g[x]])]
  IN  from[LastCluster][c]
Chains(g, f) == Range(Chain(g, first[f]))

\* Mutant: the sector number within the cluster is left out.
Start_ClusterOnly(f, startByte) ==
  LET c == Chain(fat, first[f])[startByte \div BytesPerCluster + 1]
  IN  [cluster |-> c, num |-> 0, sector |-> getDiskSector(c, 0), fat |-> fat, hint |-> whereClusters]

\* The position the calls start from.  clusterSectorNum is "num".
Start(f, startByte) ==
  LET c == Chain(fat, first[f])[startByte \div BytesPerCluster + 1]
      n == (startByte % BytesPerCluster) \div BytesPerSector
  IN  [cluster |-> c, num |-> n, sector |-> getDiskSector(c, n), fat |-> fat, hint |-> whereClusters]

\* The clusters an allocation may take.
Available(g, hint) == {c \in Cluster: c >= hint /\ g[c] = Free}

\* Mutant: the cluster at the hint is taken, free or not.
Allocated_Unchecked(pos, start, linked) ==
  LET i == pos.hint
      g == IF linked THEN [pos.fat EXCEPT ![Last(Chain(pos.fat, start))] = i] ELSE pos.fat
  IN  [pos EXCEPT !.cluster = i, !.fat = [g EXCEPT ![i] = EOC], !.hint = i + 1]

\* Mutant: the hint skips a cluster.
Allocated_SkipsOne(pos, start, linked) ==
  LET i == Min(Available(pos.fat, pos.hint))
      g == IF linked THEN [pos.fat EXCEPT ![Last(Chain(pos.fat, start))] = i] ELSE pos.fat
  IN  [pos EXCEPT !.cluster = i, !.fat = [g EXCEPT ![i] = EOC], !.hint = i + 2]

\* allocateCluster(startingCluster): "linked" is what the uninitialised newFile
\* makes of it, TRUE if it happens to be 0.
Allocated(pos, start, linked) ==
  LET i == Min(Available(pos.fat, pos.hint))
      g == IF linked THEN [pos.fat EXCEPT ![Last(Chain(pos.fat, start))] = i] ELSE pos.fat
  IN  [pos EXCEPT !.cluster = i, !.fat = [g EXCEPT ![i] = EOC], !.hint = i + 1]

NextInCluster(pos) == [pos EXCEPT !.num = @ + 1, !.sector = @ + 1]
EnterCluster(pos) == [pos EXCEPT !.sector = getDiskSector(pos.cluster, 0)]

\* The end of a sector: the test lets num reach sectorsPerCluster, one past the
\* last sector of the cluster.
ReadCrosses(pos) ==
  IF pos.num < SectorsPerCluster THEN NextInCluster(pos)
  ELSE EnterCluster([pos EXCEPT !.cluster = pos.fat[pos.cluster], !.num = 0])

\* Mutant: the chain is never consulted, every sector follows the last one.
WriteCrosses_Straight(pos, start, linked) == NextInCluster(pos)

\* writeFile does not reset num when it enters a cluster.
WriteCrosses(pos, start, linked) ==
  IF pos.num < SectorsPerCluster THEN NextInCluster(pos)
  ELSE IF pos.fat[pos.cluster] # EOC THEN EnterCluster([pos EXCEPT !.cluster = pos.fat[pos.cluster]])
  ELSE EnterCluster(Allocated(pos, start, linked))

\* The position after i sector ends.  newFile is uninitialised anew in every
\* allocateCluster: "linked" are the sector ends whose allocation links its cluster.
WritePositions(f, startByte, linked) ==
  LET start == Start(f, startByte)
      at[i \in 0..MaxSize] == IF i = 0 THEN start
                              ELSE WriteCrosses(at[i - 1], first[f], i - 1 \in linked)
  IN  at
ReadPositions(f, startByte) ==
  LET start == Start(f, startByte)
      at[i \in 0..MaxSize] == IF i = 0 THEN start ELSE ReadCrosses(at[i - 1])
  IN  at

\* Mutant: the copy starts at the beginning of the sector.
Place_NoOffset(at, startByte, k) == <<at[k \div BytesPerSector].sector, k % BytesPerSector>>

\* Where byte k of the buffer goes: sector and byte within the sector.
Place(at, startByte, k) ==
  LET n == (startByte % BytesPerSector) + k
  IN  <<at[n \div BytesPerSector].sector, n % BytesPerSector>>

-----------------------------------------------------------------------------
(* The calls *)

SizeInFile(f) == BytesPerCluster * Len(Chain(fat, first[f]))

\* How many sector ends the loop of a call comes to.
SectorEnds(size, startByte) ==
  IF size = 0 THEN 0 ELSE ((startByte % BytesPerSector) + size - 1) \div BytesPerSector

\* A sector end for which allocateCluster finds nothing.
DiskFull(pos) ==
  /\ ~(pos.num < SectorsPerCluster) /\ pos.fat[pos.cluster] = EOC
  /\ Available(pos.fat, pos.hint) = {}

\* A call may start anywhere in the file's clusters (past them the walk along the
\* FAT leaves the table), and the disk has the clusters it adds (without one,
\* writeFile goes on at a sector number far past the disk).
Callable(f, size, startByte, linked) ==
  /\ startByte < SizeInFile(f)
  /\ LET at == WritePositions(f, startByte, linked)
     IN  ~\E i \in 0..SectorEnds(size, startByte)-1: DiskFull(at[i])
InsideCluster(size, startByte) == (startByte % BytesPerCluster) + size <= BytesPerCluster

\* The loop writes back every sector it visits, as it leaves it, so of two bytes for
\* one place the later one stays.
writeFile(f, size, startByte, tag, linked) ==
  LET at == WritePositions(f, startByte, linked)
      n == SectorEnds(size, startByte)
      visited == {at[i].sector: i \in 0..n}
      written == [k \in 0..size-1 |-> Place(at, startByte, k)]
      latest(p) == CHOOSE k \in 0..size-1: /\ written[k] = p
                                           /\ \A j \in k+1..size-1: written[j] # p
  IN  /\ disk' = [s \in Sector |->
                   IF s \in visited
                   THEN [b \in 0..BytesPerSector-1 |->
                          IF <<s, b>> \in Range(written)
                          THEN [file |-> f, tag |-> tag, byte |-> startByte + latest(<<s, b>>)]
                          ELSE disk[s][b]]
                   ELSE disk[s]]
      /\ fat' = at[n].fat
      /\ whereClusters' = at[n].hint

\* What readFile copies to the buffer.
readFile(f, size, startByte) ==
  LET at == ReadPositions(f, startByte)
  IN  [k \in 0..size-1 |-> disk[Place(at, startByte, k)[1]][Place(at, startByte, k)[2]]]

\* Every write brings data of its own: its number.
Write(f, size, startByte, linked) ==
  /\ writes < MaxWrites
  /\ Callable(f, size, startByte, linked)
  /\ writeFile(f, size, startByte, writes, linked)
  /\ contents' = [contents EXCEPT ![f] = [b \in Byte |->
       IF b \in startByte..startByte+size-1 THEN [file |-> f, tag |-> writes, byte |-> b]
       ELSE contents[f][b]]]
  /\ crossed' = (crossed \/ ~InsideCluster(size, startByte))
  /\ writes' = writes + 1
  /\ UNCHANGED <<first, fatOnDisk, creates, resets>>

\* What createFile leaves of the table and the disk: "new" for the file; if the entry
\* is the last of its cluster the directory grows, by "more".  The entries of the
\* directory's own clusters and its other sectors are no part of the model.
Created(grows, new, more) ==
  /\ grows => Available(new.fat, new.hint) # {}
  /\ fat' = IF grows THEN more.fat ELSE new.fat
  /\ whereClusters' = IF grows THEN more.hint ELSE new.hint
  /\ disk' = IF grows THEN [disk EXCEPT ![getDiskSector(more.cluster, 0)][0] = NoData] ELSE disk
  /\ creates' = creates + 1
  /\ UNCHANGED <<first, contents, crossed, writes, resets>>

\* Mutant: the table goes to the disk from the new entry on (no rounding down to
\* the start of its sector).
createFile_FromEntryOn(grows) ==
  /\ creates < MaxCreates
  /\ Available(fat, whereClusters) # {}
  /\ LET new == Allocated([cluster |-> Free, fat |-> fat, hint |-> whereClusters], Free, FALSE)
     IN  /\ fatOnDisk' = [c \in Cluster |-> IF c >= new.cluster THEN new.fat[c] ELSE fatOnDisk[c]]
         /\ Created(grows, new, Allocated(new, Free, FALSE))

\* createFile for another file: what it does to the FAT.  Its sector goes to the
\* disk as it is in memory, with the clusters that writes have added since, but
\* before the directory grows.
createFile(grows) ==
  /\ creates < MaxCreates
  /\ Available(fat, whereClusters) # {}
  /\ LET new == Allocated([cluster |-> Free, fat |-> fat, hint |-> whereClusters], Free, FALSE)
     IN  fatOnDisk' = new.fat /\ Created(grows, new, Allocated(new, Free, FALSE))

\* A crash or restart between two calls: initializeFAT reads the FAT again.
Reset ==
  /\ resets < MaxResets
  /\ resets' = resets + 1
  /\ fat' = fatOnDisk
  /\ whereClusters' = 2
  /\ UNCHANGED <<fatOnDisk, first, disk, contents, crossed, writes, creates>>

Next ==
  \/ \E f \in File, size \in Sizes, startByte \in Byte:
       \E linked \in SUBSET (0..SectorEnds(size, startByte)-1): Write(f, size, startByte, linked)
  \/ \E grows \in BOOLEAN: createFile(grows)
  \/ Reset

Spec == Init /\ [][Next]_vars

-----------------------------------------------------------------------------
(* Properties *)

Data == [file: File, tag: Nat, byte: Nat]

\* The FAT and the sectors hold values of their types.
TypeOK ==
  /\ {fat, fatOnDisk} \subseteq [Cluster -> {Free, EOC} \cup Cluster]
  /\ whereClusters \in 2..LastCluster+1
  /\ \A s \in Sector, b \in 0..BytesPerSector-1: disk[s][b] = NoData \/ disk[s][b] \in Data
  /\ crossed \in BOOLEAN /\ writes \in 0..MaxWrites

\* As long as calls stay inside one cluster at a time, a read returns for every
\* byte what the last write to that byte of that file stored, whatever was written
\* to other bytes, other clusters and other files.
ReadsReturnWhatWasWritten ==
  ~crossed => \A f \in File, size \in 0..MaxSize, startByte \in Byte:
    startByte < SizeInFile(f) /\ InsideCluster(size, startByte) =>
      readFile(f, size, startByte) = [k \in 0..size-1 |-> contents[f][startByte + k]]

\* Whatever its length, a write keeps the chains of the files apart and closed: it
\* extends the FAT with clusters no file uses.  The same is true on disk, where a
\* chain is always the beginning of the one in memory: a reset at any time costs
\* a file the clusters its writes have added at its end, and nothing else.
ChainsSound ==
  /\ \A t \in {fat, fatOnDisk}, f \in File:
       /\ t[Last(Chain(t, first[f]))] = EOC
       /\ \A g \in File \ {f}: Chains(t, f) \cap Chains(t, g) = {}
  /\ \A f \in File: IsPrefix(Chain(fatOnDisk, first[f]), Chain(fat, first[f]))

ClusterOf(s) == s \div SectorsPerCluster
Changed == {s \in Sector: disk'[s] # disk[s]}
Taken == {c \in Cluster: fat[c] = Free /\ fat'[c] # Free}

\* A write past the end of a cluster damages nothing but the one sector that follows
\* each cluster of the file on the disk: all others it changes belong to the file or
\* to clusters it has just taken.
DamageIsOneSector ==
  [][\A f \in File: writes' # writes /\ contents'[f] # contents[f] =>
       \A s \in Changed: LET own == Chains(fat, f) \cup Taken
                         IN  ClusterOf(s) \in own \/ ClusterOf(s - 1) \in own]_vars
=============================================================================
