------------------------------- MODULE Fat32 -------------------------------
(***************************************************************************)
(* The FAT32 driver of file-system/fat32.c as its callers see it: the FAT  *)
(* kept in memory, the allocation hint, the FAT and the directory sectors  *)
(* on disk, and createFile / deleteFile / searchFile over them.  File data *)
(* is the subject of module FileData.                                      *)
(*                                                                         *)
(* A file-system call runs with interrupts off, so a call is one step; the *)
(* sector writes it issues are kept in order in "images", because the      *)
(* machine may be reset between any two of them.                           *)
(***************************************************************************)
EXTENDS Integers, Sequences, FiniteSets, SequencesExt

CONSTANTS FatSize,            \* FAT_SIZE, entries of the in-memory table
          SectorsPerCluster,
          EntriesPerSector,   \* bytesPerSector / 32
          WordsPerEntry,      \* FAT words that share the bytes of an entry (8)
          RootCluster,        \* extendedBootRecord.rootClusterNum
          Names,              \* file names in use
          Dir1, File0,        \* the names mkfs and the image script put there
          DiskHints,          \* what FSInfo may hold in whereClusters
          AnyPath,            \* TRUE: callers also name files and missing directories
          MaxDepth, MaxOps, MaxSessions  \* bounds of the instance

\* One FAT sector holds the whole table: copyFATtoDisk is defined behaviour
\* only there (FATsectorStart = 0, fat32.c:130), and the one byte of the cluster
\* number that getDirectoryEntry reads (fat32.c:235) is all of it.
ASSUME GeometryAssumption ==
  /\ {FatSize, SectorsPerCluster, EntriesPerSector, WordsPerEntry} \subseteq Nat \ {0}
  /\ FatSize = EntriesPerSector * WordsPerEntry
  /\ RootCluster \in 2..FatSize-1
  /\ RootCluster + 2 < FatSize \div 4 \* the image fits in what boot loads
  /\ Dir1 \in Names /\ File0 \in Names
  /\ AnyPath \in BOOLEAN
  /\ {MaxDepth, MaxOps} \subseteq Nat /\ MaxSessions \in Nat \ {0}

Cluster == 0..FatSize-1
EOC == FatSize                    \* 0x0FFFFFFF and every end-of-chain value
NoHint == FatSize + 1             \* 0xFFFFFFFF
Full == FatSize                   \* allocateCluster's 0x0FFFFFFF
Slot == 0..SectorsPerCluster*EntriesPerSector-1
LoadedWords == FatSize \div 4     \* "for (j=0; j<128; j+=4)", fat32.c:157

ASSUME HintAssumption == DiskHints \subseteq Cluster \cup {FatSize, NoHint}

\* Directory entries.  "words" marks 32 bytes of the FAT region that still hold
\* FAT words; "opaque" is how such bytes and those of a file look when they are read
\* as an entry.
Blank(kind) == [kind |-> kind, name |-> Dir1, cluster |-> 0]
End == Blank("end")
Deleted == Blank("deleted")
Dot == Blank("dot")
Words == Blank("words")
Opaque == Blank("opaque")
Live(kind, name, c) == [kind |-> kind, name |-> name, cluster |-> c]
IsLive(e) == e.kind \in {"file", "dir"}
Entry == {Words} \cup [kind: {"end", "deleted", "dot", "opaque", "file", "dir"}, name: Names, cluster: Cluster]

VARIABLES
  fat,            \* FAT[], in memory
  whereClusters,  \* fsInfoStruct.whereClusters, in memory only
  disk,           \* the FAT region and the directory sectors on disk
  hung,           \* a loop or recursion of the driver does not end
  last,           \* what the last call was and what it returned
  ops, sessions   \* calls and boots so far (bounded)

vars == <<fat, whereClusters, disk, hung, last, ops, sessions>>

-----------------------------------------------------------------------------
(* Reading directories and following chains *)

\* What getDirectoryEntry sees in slot s of cluster c: bytes of the FAT region
\* read as "end" when the low byte of their first word is 0.
EntryAt(d, c, s) ==
  LET e == d.dir[c][s]
  IN  IF e.kind # "words" THEN e
      ELSE IF d.fat[s * WordsPerEntry] = 0 THEN End ELSE Opaque

\* The clusters visited from c by following the FAT up to the end-of-chain
\* mark.  A free entry holds 0 and leads to cluster 0.
Chain(f, c) ==
  LET from[k \in 0..FatSize] == [x \in Cluster |->
        <<x>> \o (IF k = 0 \/ f[x] = EOC THEN <<>> ELSE from[k - 1][f[x]])]
  IN from[FatSize][c]
Ends(f, c) == f[Last(Chain(f, c))] = EOC

EndSlots(d, c) == {s \in Slot: EntryAt(d, c, s).kind = "end"}
Matches(d, c, n) == {s \in Slot: IsLive(EntryAt(d, c, s)) /\ EntryAt(d, c, s).name = n}

\* searchFile is 0 when nothing is found, Diverges when the recursion does not
\* end.  A file that matches one part of the path ends the search at once.
Diverges == FatSize + 2
Found(c, isDir) == [cluster |-> c, isDir |-> isDir]
recursiveSearch(d, f, path) ==
  LET depth == Len(path)
      search[fuel \in 0..FatSize * (depth + 1)] == [k \in 1..depth+1 |-> [c \in Cluster |->
        IF k > depth THEN Found(c, TRUE)
        ELSE IF fuel = 0 THEN Found(Diverges, FALSE)
        ELSE LET stops == EndSlots(d, c) \cup Matches(d, c, path[k])
                 e == EntryAt(d, c, Min(stops))
             IN  IF stops = {} THEN IF f[c] = EOC THEN Found(0, FALSE)
                                    ELSE search[fuel - 1][k][f[c]]
                 ELSE IF e.kind = "end" THEN Found(0, FALSE)
                 ELSE IF e.kind = "dir" THEN search[fuel - 1][k + 1][e.cluster]
                 ELSE Found(e.cluster, FALSE)]]
  IN search[FatSize * (depth + 1)][1][RootCluster]
searchFile(d, f, path) == recursiveSearch(d, f, path).cluster

(* The FAT, in memory and on disk *)

\* Mutants of allocateCluster: the cluster is not marked, the new cluster points
\* back to the chain, the hint is ignored.
allocateCluster_Unmarked(f, hint, start, linked) ==
  LET avail == {i \in Cluster: i >= (IF hint = NoHint THEN 2 ELSE hint) /\ f[i] = 0}
  IN  [cluster |-> IF avail = {} THEN Full ELSE Min(avail), fat |-> f, hint |-> hint]
allocateCluster_Backlink(f, hint, start, linked) ==
  LET avail == {i \in Cluster: i >= hint /\ f[i] = 0}
      g == IF linked THEN [f EXCEPT ![Last(Chain(f, start))] = Min(avail)] ELSE f
  IN  IF avail = {} THEN [cluster |-> Full, fat |-> f, hint |-> hint]
      ELSE [cluster |-> Min(avail), fat |-> [g EXCEPT ![Min(avail)] = IF linked THEN start ELSE EOC],
            hint |-> Min(avail) + 1]
allocateCluster_FirstFree(f, hint, start, linked) ==
  LET avail == {i \in Cluster: i >= 2 /\ f[i] = 0}
      g == IF linked THEN [f EXCEPT ![Last(Chain(f, start))] = Min(avail)] ELSE f
  IN  IF avail = {} THEN [cluster |-> Full, fat |-> f, hint |-> hint]
      ELSE [cluster |-> Min(avail), fat |-> [g EXCEPT ![Min(avail)] = EOC], hint |-> Min(avail) + 1]

\* allocateCluster: newFile is not initialised when there is a chain to extend,
\* so whether the new cluster is linked to it is up to the caller's "linked".
allocateCluster(f, hint, start, linked) ==
  LET from == IF hint = NoHint THEN 2 ELSE hint
      avail == {i \in Cluster: i >= from /\ f[i] = 0}
      i == Min(avail)
      g == IF linked THEN [f EXCEPT ![Last(Chain(f, start))] = i] ELSE f
  IN  IF avail = {} THEN [cluster |-> Full, fat |-> f, hint |-> hint]
      ELSE [cluster |-> i, fat |-> [g EXCEPT ![i] = EOC], hint |-> i + 1]

\* Mutant: one cluster too many is freed.
deleteFATchain_OneMore(f, c) ==
  [x \in Cluster |-> IF x \in Range(Chain(f, c)) \/ x = c + 1 THEN 0 ELSE f[x]]

deleteFATchain(f, c) == [x \in Cluster |-> IF x \in Range(Chain(f, c)) THEN 0 ELSE f[x]]

\* The first sector of cluster 0 is the FAT sector (getDiskSector, fat32.c:266).
FatSector(slots) == [s \in Slot |-> IF s < EntriesPerSector THEN Words ELSE slots[s]]
\* Mutants: the table does not reach the disk, or reaches the wrong cluster.
copyFATtoDisk_NotWritten(d, f) == d
copyFATtoDisk_Misplaced(d, f) == [d EXCEPT !.fat = f, !.dir[1] = FatSector(d.dir[1])]

copyFATtoDisk(d, f) == [d EXCEPT !.fat = f, !.dir[0] = FatSector(d.dir[0])]

\* Words whose bytes an entry, or an end mark in their first byte, has replaced.
Overwritten(d) == {c \in Cluster:
  LET k == d.dir[0][c \div WordsPerEntry].kind
  IN  k # "words" /\ (k = "end" => c % WordsPerEntry = 0)}

\* The tables readFATfromDisk can produce: a quarter of each sector is parsed,
\* the rest of FAT[] keeps the zeros of a fresh boot.  Bytes of an entry, read
\* as a word, are in use and no link (name characters) or free (zeros).
readFATfromDisk(d) ==
  {[c \in Cluster |-> IF c >= LoadedWords THEN 0
                      ELSE IF c \in DOMAIN junk THEN junk[c] ELSE d.fat[c]]:
   junk \in [Overwritten(d) \cap 0..LoadedWords-1 -> {0, EOC}]}

\* idewrite of the sector with slot s, whose buffer was read as buf: writing back a
\* buffer of the FAT sector also restores the FAT words it holds.  No other sector of
\* a cluster differs from the buffer, but the FAT sector does once the table is saved.
WriteSector(d, buf, c, s, slots) ==
  IF c # 0 THEN [d EXCEPT !.dir[c] = slots]
  ELSE IF s < EntriesPerSector THEN [d EXCEPT !.fat = buf.fat, !.dir[0] = slots]
  ELSE [d EXCEPT !.dir[0] = [x \in Slot |-> IF x < EntriesPerSector THEN d.dir[0][x] ELSE slots[x]]]

-----------------------------------------------------------------------------
(* createFile *)

Outcome(f, hint, images, ret, stuck) ==
  [fat |-> f, hint |-> hint, images |-> images, ret |-> ret, hung |-> stuck]
Unchanged(ret) == Outcome(fat, whereClusters, <<disk>>, ret, FALSE)
Hang == Outcome(fat, whereClusters, <<disk>>, 0, TRUE)

LastInSector(s) == s % EntriesPerSector = EntriesPerSector - 1
LastInCluster(s) == s = SectorsPerCluster * EntriesPerSector - 1

\* First slot of the sector behind the one that begins at p (cluster and slot).
NextSector(p) == IF p[2] + EntriesPerSector \in Slot THEN <<p[1], p[2] + EntriesPerSector>>
                 ELSE <<p[1] + 1, 0>>
WithEnds(d, c, slots) ==
  [d EXCEPT !.dir[c] = [s \in Slot |-> IF s \in slots THEN End ELSE d.dir[c][s]]]

\* ideread and idewrite when idesetblock refuses the block number (0x0FFFFFFF as a
\* cluster, ide.c:236): the registers hold the number of the sector written last, and
\* each transfer may move them on (Advances in IdeDriver).  The sector read is written
\* back, or over the one behind it, with an end mark in front.  What a copied sector
\* holds behind the mark no scan reads (each entry brings a mark of its own along), so
\* it is blank here.
StaleWrites(d, c) ==
  LET written == <<c, (SectorsPerCluster - 1) * EntriesPerSector>>
      read == {written, NextSector(written)}
      OnDisk(places) == {p \in places: p[1] \in Cluster}
  IN  {WithEnds(d, p[1], {p[2]}): p \in OnDisk(read)}
      \cup {WithEnds(d, p[1], p[2]..p[2]+EntriesPerSector-1):
            p \in OnDisk({NextSector(q): q \in read})}

\* Where the end-of-directory mark goes after the last slot of cluster c.
\* d is the disk and a the allocation made so far.
GrowDirectory(c, a, d) ==
  LET grown(linked) == allocateCluster(a.fat, a.hint, c, linked)
      linkings == IF c = 0 THEN {FALSE} ELSE BOOLEAN
      images(b) == IF b.cluster # Full THEN {<<[d EXCEPT !.dir[b.cluster][0] = End]>>}
                   ELSE {<<>>} \cup {<<e>>: e \in StaleWrites(d, c)}
  IN  UNION {IF linked /\ ~Ends(a.fat, c) THEN {[b |-> a, images |-> <<>>, hung |-> TRUE]}
             ELSE {[b |-> grown(linked), images |-> im, hung |-> FALSE]: im \in images(grown(linked))}
             : linked \in linkings}

\* Mutants: the end mark overwrites the entry; the entry is written first.
WithEndMark_OnEntry(slots, s) == [slots EXCEPT ![s] = End]
CreateWrites_EntryFirst(withFat, withEntry) ==
  <<disk, [withEntry EXCEPT !.fat = disk.fat], withEntry>>

\* The end mark follows the new entry in the same sector write, if it fits.
WithEndMark(slots, s) == IF LastInSector(s) THEN slots ELSE [slots EXCEPT ![s + 1] = End]

\* The disk after the FAT write and after the entry write.
CreateWrites(withFat, withEntry) == <<disk, withFat, withEntry>>

\* The entry is written in slot s of cluster c, the first end mark found.
AddEntry(c, s, name, kind) ==
  LET a == allocateCluster(fat, whereClusters, 0, FALSE)
      d1 == copyFATtoDisk(disk, a.fat)
      slots == WithEndMark([disk.dir[c] EXCEPT ![s] = Live(kind, name, a.cluster)], s)
      d2 == WriteSector(d1, disk, c, s, slots)
      written == CreateWrites(d1, d2)
  IN  IF a.cluster = Full THEN {Unchanged(-1)}
      ELSE IF ~LastInSector(s) THEN {Outcome(a.fat, a.hint, written, a.cluster, FALSE)}
      ELSE IF ~LastInCluster(s)
      THEN {Outcome(a.fat, a.hint, Append(written, [d2 EXCEPT !.dir[c][s + 1] = End]), a.cluster, FALSE)}
      ELSE {Outcome(g.b.fat, g.b.hint, written \o g.images, a.cluster, g.hung): g \in GrowDirectory(c, a, d2)}

createFile(path, name, kind) ==
  LET dirCluster == searchFile(disk, fat, path)
      visited == Chain(fat, dirCluster)
      withEnd == {i \in DOMAIN visited: EndSlots(disk, visited[i]) # {}}
      c == visited[Min(withEnd)]
  IN  IF dirCluster = Diverges THEN {Hang}
      ELSE IF withEnd # {} THEN AddEntry(c, Min(EndSlots(disk, c)), name, kind)
      ELSE IF Ends(fat, dirCluster) THEN {Unchanged(-1)} ELSE {Hang}

-----------------------------------------------------------------------------
(* deleteFile: the scan does not stop at the entry it deletes *)

NotFound == -2

\* Mutant: the entry is not marked deleted.
DeleteEntry_Unmarked(st, c, s) ==
  LET f == deleteFATchain(st.fat, st.buf.dir[c][s].cluster)
  IN  [st EXCEPT !.fat = f, !.images = Append(@, copyFATtoDisk(Last(@), f))]

\* One matching entry of the sector buffer: its chain is freed and saved, then
\* the buffer is written back with the entry marked 0xE5.
DeleteEntry(st, c, s) ==
  LET head == st.buf.dir[c][s].cluster
      f == deleteFATchain(st.fat, head)
      slots == [st.buf.dir[c] EXCEPT ![s] = Deleted]
      d1 == copyFATtoDisk(Last(st.images), f)
      d2 == WriteSector(d1, st.buf, c, s, slots)
  IN  IF ~Ends(st.fat, head) THEN [st EXCEPT !.hung = TRUE]
      ELSE [st EXCEPT !.fat = f, !.images = @ \o <<d1, d2>>, !.buf.dir[c] = d2.dir[c]]

\* Mutant: the scan ends with the first entry it deletes.
ScanSlot_Return(st, c, s, name) ==
  LET e == EntryAt(st.buf, c, s)
  IN  IF st.ret = NotFound \/ st.hung THEN st
      ELSE IF e.kind = "end" THEN [st EXCEPT !.ret = NotFound]
      ELSE IF IsLive(e) /\ e.name = name THEN [DeleteEntry(st, c, s) EXCEPT !.ret = NotFound]
      ELSE st

ScanSlot(st, c, s, name) ==
  LET e == EntryAt(st.buf, c, s)
  IN  IF st.ret = NotFound \/ st.hung THEN st
      ELSE IF e.kind = "end" THEN [st EXCEPT !.ret = NotFound]
      ELSE IF IsLive(e) /\ e.name = name THEN DeleteEntry(st, c, s)
      ELSE st

ScanCluster(st, name) ==
  LET upTo[k \in 0..Cardinality(Slot)] ==
        IF k = 0 THEN [st EXCEPT !.buf = Last(st.images)]
        ELSE ScanSlot(upTo[k - 1], st.at, k - 1, name)
      scanned == upTo[Cardinality(Slot)]
  IN  [scanned EXCEPT !.at = scanned.fat[st.at]]

deleteFile(path, name) ==
  LET dirCluster == searchFile(disk, fat, path)
      visit[k \in 0..FatSize] ==
        IF k = 0 THEN [fat |-> fat, buf |-> disk, images |-> <<disk>>, ret |-> 0,
                       hung |-> FALSE, at |-> dirCluster]
        ELSE LET st == visit[k - 1]
             IN  IF st.ret = NotFound \/ st.hung \/ st.at = EOC THEN st ELSE ScanCluster(st, name)
      done == visit[FatSize]
  IN  IF dirCluster = Diverges THEN Hang
      ELSE Outcome(done.fat, whereClusters, done.images, done.ret,
                   done.hung \/ (done.ret # NotFound /\ done.at # EOC))

-----------------------------------------------------------------------------
(* The state machine *)

\* An image as diskStartup.sh makes it: /DIR1 with its dot entries, a file that
\* was removed again and one that is there.
Dir1Cluster == RootCluster + 1
File0Cluster == RootCluster + 2
ImageFat == [c \in Cluster |-> IF c <= File0Cluster THEN EOC ELSE 0]
ImageDisk ==
  [fat |-> ImageFat,
   dir |-> [c \in Cluster |-> [s \in Slot |->
     IF c = 0 /\ s < EntriesPerSector THEN Words
     ELSE IF c = RootCluster /\ s = 0 THEN Live("dir", Dir1, Dir1Cluster)
     ELSE IF c = Dir1Cluster /\ s <= 1 THEN Dot
     ELSE IF c = Dir1Cluster /\ s = 2 THEN Deleted
     ELSE IF c = Dir1Cluster /\ s = 3 THEN Live("file", File0, File0Cluster)
     ELSE IF c = File0Cluster /\ s = 0 THEN Opaque
     ELSE End]]]

Call(op, path, name, kind, ret) ==
  [op |-> op, path |-> path, name |-> name, kind |-> kind, ret |-> ret]
Booted == Call("boot", <<>>, Dir1, "dir", 0)

\* initializeFAT on boot
initializeFAT(d) == /\ fat' \in readFATfromDisk(d)
                    /\ whereClusters' \in DiskHints
                    /\ hung' = FALSE

Init ==
  /\ fat \in readFATfromDisk(ImageDisk)
  /\ whereClusters \in DiskHints
  /\ disk = ImageDisk
  /\ hung = FALSE
  /\ last = Booted
  /\ ops = 0 /\ sessions = 1

Paths == UNION {[1..k -> Names]: k \in 0..MaxDepth}
Callable(path) == AnyPath \/ recursiveSearch(disk, fat, path).isDir

Return(op, path, name, kind, out) ==
  /\ fat' = out.fat
  /\ whereClusters' = out.hint
  /\ disk' = Last(out.images)
  /\ hung' = out.hung
  /\ last' = Call(op, path, name, kind, out.ret)
  /\ ops' = ops + 1
  /\ UNCHANGED sessions

Running == ~hung /\ ops < MaxOps

Create(path, name, kind) ==
  /\ Running /\ Callable(path)
  /\ \E out \in createFile(path, name, kind): Return("create", path, name, kind, out)

Delete(path, name) ==
  /\ Running /\ Callable(path)
  /\ Return("delete", path, name, "file", deleteFile(path, name))

\* The machine is reset; d is what the disk holds.
Reset(d, call) ==
  /\ sessions < MaxSessions
  /\ sessions' = sessions + 1
  /\ disk' = d
  /\ initializeFAT(d)
  /\ last' = call

Reboot == Reset(disk, Booted) /\ UNCHANGED ops

\* Reset after some, not all, of a call's sector writes.
ResetDuring(out, call) ==
  /\ \E i \in 2..Len(out.images)-1: Reset(out.images[i], call)
  /\ ops' = ops + 1

CrashInCreate(path, name, kind) ==
  /\ Running /\ sessions < MaxSessions /\ Callable(path)
  /\ \E out \in createFile(path, name, kind):
       ResetDuring(out, Call("crash in create", path, name, kind, 0))

CrashInDelete(path, name) ==
  /\ Running /\ sessions < MaxSessions /\ Callable(path)
  /\ ResetDuring(deleteFile(path, name), Call("crash in delete", path, name, "file", 0))

Next ==
  \/ \E path \in Paths, name \in Names:
       \/ \E kind \in {"file", "dir"}: \/ Create(path, name, kind)
                                       \/ CrashInCreate(path, name, kind)
       \/ Delete(path, name)
       \/ CrashInDelete(path, name)
  \/ Reboot

Spec == Init /\ [][Next]_vars

-----------------------------------------------------------------------------
(* Properties *)

FatValue == Cluster \cup {EOC}

\* Types of all variables; bytes of the FAT region are the only ones that can
\* read as FAT words.
TypeOK ==
  /\ fat \in [Cluster -> FatValue]
  /\ whereClusters \in Cluster \cup {FatSize, NoHint}
  /\ disk.fat \in [Cluster -> FatValue]
  /\ disk.dir \in [Cluster -> [Slot -> Entry]]
  /\ \A c \in Cluster, s \in Slot: disk.dir[c][s] = Words => c = 0 /\ s < EntriesPerSector
  /\ hung \in BOOLEAN
  /\ ops \in 0..MaxOps /\ sessions \in 1..MaxSessions

\* The live entries stored in allocated clusters.
Entries == {p \in Cluster \X Slot: fat[p[1]] # 0 /\ IsLive(disk.dir[p[1]][p[2]])}
EntryAtPos(p) == disk.dir[p[1]][p[2]]

\* The clusters that lead to another one of their chain.
Links == {c \in Cluster: fat[c] \notin {0, EOC}}

\* Two files, a file and a directory, or two links of chains never share a
\* cluster, whatever createFile, deleteFile and directory growth did before
\* (allocateCluster, deleteFATchain): everything that names a cluster names one of
\* its own.
NoSharedClusters ==
  LET entries == Entries
      named == {fat[c]: c \in Links} \cup {EntryAtPos(p).cluster: p \in entries} \cup {RootCluster}
  IN  Cardinality(named) = Cardinality(Links) + Cardinality(entries) + 1

\* Neither a directory entry nor a link of a chain nor the boot record names a
\* cluster that is free in memory: a later allocateCluster could give that cluster to
\* another file.
ReferencesAllocated ==
  /\ fat[RootCluster] # 0
  /\ \A p \in Entries: fat[EntryAtPos(p).cluster] # 0
  /\ \A c \in Links: fat[fat[c]] # 0

\* No chain has a cycle and no call loops for ever (the while loops of
\* createFile, deleteFile and allocateCluster, the recursions of
\* recursiveSearch and deleteFATchain have no other bound).
ChainsEnd == ~hung /\ \A c \in Cluster: fat[c] # 0 => Ends(fat, c)

\* A new directory is empty, though createFile does not clear its cluster: within a
\* session allocateCluster never returns a cluster it returned before, and the free
\* clusters of the image are blank.  Clusters the image does use come back after a
\* deletion if they lie at or above the hint, which FSInfo may hold (fat32.c:66) since
\* mkfs leaves 2 there and Linux the cluster it used last; such a directory starts with
\* what was written there, and is excepted.
NewDirectoryIsEmpty ==
  [][last'.op = "create" /\ last'.kind = "dir" /\ last'.ret > File0Cluster
     => EntryAt(disk', last'.ret, 0) = End]_vars

\* What a scan of the directory at cluster c comes across: the live entries of its
\* chain up to the first end mark.
Listing(d, f, c) ==
  LET chain == Chain(f, c)
      ended == {i \in DOMAIN chain: EndSlots(d, chain[i]) # {}}
      before(i) == IF i \in ended THEN 0..Min(EndSlots(d, chain[i]))-1 ELSE Slot
      upTo == IF ended = {} THEN Len(chain) ELSE Min(ended)
  IN  {e \in UNION {{EntryAt(d, chain[i], s): s \in before(i)}: i \in 1..upTo}: IsLive(e)}

Directories == {RootCluster} \cup
  {EntryAtPos(p).cluster: p \in {x \in Entries: EntryAtPos(x).kind = "dir"}}
NamesDirectory(path) == recursiveSearch(disk, fat, path).isDir

\* With no cluster left to grow by, the end mark of a full directory goes wherever
\* the registers of the last command point (StaleWrites).
CanGrow == LET from == IF whereClusters = NoHint THEN 2 ELSE whereClusters
           IN  \E i, j \in Cluster: i # j /\ i >= from /\ j >= from /\ fat[i] = 0 /\ fat[j] = 0

\* A call in a directory changes that name in that directory and nothing else that
\* anyone can see: createFile adds the entry it returns, also where the directory
\* has to grow, deleteFile takes every entry of the name away, though createFile
\* accepts a name twice, and the listing of every other directory that is left is
\* what it was (sector buffers, end marks, reused slots, growth).
CallsChangeOneName ==
  [][last'.op \in {"create", "delete"} /\ NamesDirectory(last'.path)
     /\ (last'.op = "create" => CanGrow) =>
       \A c \in Directories \cap Directories':
         LET before == Listing(disk, fat, c)
             added == IF last'.op = "create" /\ last'.ret > 0
                      THEN {Live(last'.kind, last'.name, last'.ret)} ELSE {}
             left == IF last'.op = "delete" THEN {e \in before: e.name # last'.name} ELSE before
         IN  Listing(disk', fat', c) =
               IF c = searchFile(disk, fat, last'.path) THEN left \cup added ELSE before]_vars

\* The table in memory knows every cluster allocated on disk (readFATfromDisk may
\* have lost some), describes a sound file system, and the clusters allocateCluster
\* can still hand out hold no old directory.
Consistent ==
  /\ \A c \in Cluster: disk.fat[c] # 0 => fat[c] # 0
  /\ NoSharedClusters /\ ReferencesAllocated
  /\ \A c \in Cluster: fat[c] = 0 /\ (whereClusters # NoHint => c >= whereClusters)
                      => \A s \in Slot: ~IsLive(disk.dir[c][s])

\* A reset inside createFile, on a consistent table, leaves no new entry that
\* names a cluster the FAT on disk holds as free.
DanglingOnDisk == {e \in UNION {Range(disk.dir[c]): c \in {x \in Cluster: disk.fat[x] # 0}}:
                     IsLive(e) /\ disk.fat[e.cluster] = 0}
CreateIsCrashSafe ==
  [][last'.op = "crash in create" /\ Consistent => DanglingOnDisk' \subseteq DanglingOnDisk]_vars

\* A reset inside deleteFile, which frees the chain before it marks the entry,
\* leaves at most entries of the name being deleted behind on a free cluster,
\* if the table was consistent.
DeleteDanglesOnlyItsVictim ==
  [][last'.op = "crash in delete" /\ Consistent
     => \A e \in DanglingOnDisk' \ DanglingOnDisk: e.name = last'.name]_vars

\* What createFile reported as created can be found with the FAT that is on disk,
\* not only with the one in memory: the link of a directory extension, which is
\* made after the table was written, is saved before an entry relies on it.  Without a
\* cluster left to grow by, the end mark may come to lie before the entry.
CreateIsDurable ==
  [][last'.op = "create" /\ last'.ret > 0 /\ Consistent /\ CanGrow
     => searchFile(disk', disk'.fat, Append(last'.path, last'.name)) # 0]_vars

-----------------------------------------------------------------------------
(* What a comment of the code promises and the code does not do *)

\* A boot reads the whole table, "Read all FAT sectors" (fat32.c:150), so createFile
\* never hands out the cluster of a file that is in a directory, of this session or
\* an earlier one.
CreatedIsNobodys ==
  [][last'.op = "create" /\ last'.ret > 0
     => \A p \in Entries: EntryAtPos(p).cluster # last'.ret]_vars
=============================================================================
