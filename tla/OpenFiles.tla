----------------------------- MODULE OpenFiles -----------------------------
(***************************************************************************)
(* The open-file calls of sys.c: the channel table in every PCB, the one   *)
(* open file table, and sys_open, sys_close, sys_read, sys_write,          *)
(* sys_lseek and sys_unlink over them.  Of the file system only what these *)
(* calls see is kept: which first cluster a path leads to, and that        *)
(* clusters are handed out upwards from the allocation hint, which         *)
(* initialize_FAT32 takes from FSInfo and nothing writes back.             *)
(*                                                                         *)
(* System calls run with interrupts off: a call is one step.  Programs use *)
(* descriptors they were given and have not closed ("held"); the screen    *)
(* (fd 1) and numbers never given out are not modelled.                    *)
(***************************************************************************)
EXTENDS Integers

CONSTANTS Proc, InitProc,
          File,                \* paths programs name
          OldFiles,            \* those on the disk at boot
          BootHint,            \* FSInfo's hint: mkfs leaves 2, Linux the cluster it used last
          OPEN_FILE_TABLE_SIZE, CHANNEL_TABLE_SIZE,
          LastCluster,         \* clusters a file can start at: 1..LastCluster
          MaxOffset,           \* bound of the instance
          Shares               \* TRUE: programs fork while they hold descriptors

ASSUME ProgramsAssumption ==
  InitProc \in Proc /\ OldFiles \subseteq File /\ Shares \in BOOLEAN
ASSUME SizesAssumption ==
  /\ {OPEN_FILE_TABLE_SIZE, CHANNEL_TABLE_SIZE} \subseteq Nat \ {0}
  /\ {LastCluster, MaxOffset} \subseteq Nat
ASSUME HintAssumption == BootHint \in 1..LastCluster+1

NoCluster == 0
Cluster == 1..LastCluster
Offset == 0..MaxOffset
LECTURA == 0
ESCRIPTURA == 1
Mode == {LECTURA, ESCRIPTURA}

Entry == 0..OPEN_FILE_TABLE_SIZE-1
Fd == 2..OPEN_FILE_TABLE_SIZE+1

\* Channel slots the calls index.  Those from CHANNEL_TABLE_SIZE on lie past the
\* table, in the low end of the PCB's kernel stack, which holds zeros and is
\* taken to be too deep for any call to use.
Channel == 0..OPEN_FILE_TABLE_SIZE+1

VARIABLES
  channel,          \* channel[p][i]: fd and OFT_entry_num of slot i of p's PCB
  open_file_table,
  cluster,          \* the first cluster a path leads to on disk, or NoCluster
  whereClusters,    \* no cluster from here on was handed out since boot
  image,            \* files that still are the ones found at boot (history)
  alive,            \* processes that run programs
  held              \* held[p][fd]: what p opened as fd and has not closed (history)

vars == <<channel, open_file_table, cluster, whereClusters, image, alive, held>>

NoEntry == [startCluster |-> NoCluster, openCount |-> 0, access_offset |-> 0, permissions |-> -1]
NoChannel == [fd |-> 0, OFT_entry_num |-> -1]
Nothing == [fd \in {} |-> NoCluster]
Held(p) == DOMAIN held[p]
EntryOf(p, fd) == channel[p][fd - 2].OFT_entry_num

Init ==
  /\ channel = [p \in Proc |-> [i \in Channel |-> NoChannel]]
  /\ open_file_table = [e \in Entry |-> NoEntry]
  /\ whereClusters = BootHint
  /\ cluster \in [File -> 0..LastCluster]
  /\ \A f \in File: cluster[f] # NoCluster <=> f \in OldFiles
  /\ \A f, g \in OldFiles: cluster[f] = cluster[g] => f = g
  /\ image = OldFiles
  /\ alive = {InitProc}
  /\ held = [p \in Proc |-> Nothing]

-----------------------------------------------------------------------------
(* sys_open *)

Created(f, c) ==
  /\ cluster' = [cluster EXCEPT ![f] = c]
  /\ whereClusters' = c + 1
  /\ image' = image \ {f}

IsUnused(c) == \A f \in File: cluster[f] # c

\* Mutant: the search for a cluster starts over, whatever the hint says.
createFile_FirstFree(f) == \E c \in Cluster: IsUnused(c) /\ Created(f, c)

\* createFile as sys_open sees it, in a directory that exists.  Directories and
\* files that grow may take clusters in between.
createFile(f) == \E c \in Cluster: c >= whereClusters /\ IsUnused(c) /\ Created(f, c)

\* The cluster of f, after creating it if it is not there (-EIO if that fails).
Resolve(f) ==
  IF cluster[f] # NoCluster THEN UNCHANGED <<cluster, whereClusters, image>> ELSE createFile(f)

\* Mutant: an entry is taken to be free when its offset is 0.
IsFirstFree_ByOffset(e) ==
  /\ open_file_table[e].access_offset = 0
  /\ \A d \in 0..e-1: open_file_table[d].access_offset # 0

\* The inner loop of sys_open stops at e.
IsFirstFree(e) ==
  /\ open_file_table[e].startCluster = NoCluster
  /\ \A d \in 0..e-1: open_file_table[d].startCluster # NoCluster

HasFreeSlot(p) == \E i \in 0..CHANNEL_TABLE_SIZE-1: channel[p][i].fd # i + 2

\* What the descriptor opened by a step on f stands for.
Opened(f) == [file |-> f, cluster |-> cluster'[f], image |-> f \in image']

\* The inner loop reuses the index of the outer one, so the slot that is filled
\* is the one with the entry's number, not the one found free.
sys_open(p, f, mode) ==
  /\ Resolve(f)
  /\ HasFreeSlot(p)
  /\ \E e \in Entry:
       /\ IsFirstFree(e)
       /\ channel' = [channel EXCEPT ![p][e] = [fd |-> e + 2, OFT_entry_num |-> e]]
       /\ open_file_table' = [open_file_table EXCEPT ![e] =
            [startCluster |-> cluster'[f], openCount |-> 1, access_offset |-> 0, permissions |-> mode]]
       /\ held' = [held EXCEPT ![p] =
            [fd \in Held(p) \cup {e + 2} |->
               IF fd = e + 2 THEN Opened(f) ELSE held[p][fd]]]
  /\ UNCHANGED alive

\* -EMFILE: the file was created all the same.
sys_open_fails(p, f) ==
  /\ Resolve(f)
  /\ ~HasFreeSlot(p) \/ \A e \in Entry: open_file_table[e].startCluster # NoCluster
  /\ UNCHANGED <<channel, open_file_table, alive, held>>

(* sys_close *)

\* Mutant: both tables are indexed by fd.
ClosedEntry_SameSlot(p, fd) == channel[p][fd].OFT_entry_num

ClosedEntry(p, fd) == EntryOf(p, fd)

\* Mutant: only the field that marks the entry is reset.
Flagged_Only(entry) == [entry EXCEPT !.startCluster = NoCluster]

Flagged(entry) == NoEntry

\* Slot fd, which belongs to descriptor fd + 2, is tested and cleared in place of
\* slot fd - 2.  When the test fails the call returns -EBADF and changes nothing.
sys_close(p, fd) ==
  /\ channel[p][fd].fd = fd + 2
  /\ LET e == ClosedEntry(p, fd)
     IN  open_file_table' = [open_file_table EXCEPT ![e] =
           IF @.openCount > 1 THEN [@ EXCEPT !.openCount = @ - 1] ELSE Flagged(@)]
  /\ channel' = [channel EXCEPT ![p][fd].fd = 0]
  /\ held' = [held EXCEPT ![p] = [d \in Held(p) \ {fd} |-> held[p][d]]]
  /\ UNCHANGED <<cluster, whereClusters, image, alive>>

(* sys_read, sys_write and sys_lseek *)

\* 0 when the call may go on: the entry is open, in the mode asked for.  The
\* process's own channel slot is not looked at.
check_fd(p, fd, permissions) ==
  /\ open_file_table[EntryOf(p, fd)].startCluster # NoCluster
  /\ open_file_table[EntryOf(p, fd)].permissions = permissions

MoveTo(p, fd, offset) ==
  /\ offset \in Offset
  /\ open_file_table' = [open_file_table EXCEPT ![EntryOf(p, fd)].access_offset = offset]
  /\ UNCHANGED <<channel, cluster, whereClusters, image, alive, held>>

AccessOffset(p, fd) == open_file_table[EntryOf(p, fd)].access_offset

\* readFile and writeFile always return 0, so there is no -EIO.
sys_read(p, fd, nbytes) == check_fd(p, fd, LECTURA) /\ MoveTo(p, fd, AccessOffset(p, fd) + nbytes)
sys_write(p, fd, nbytes) == check_fd(p, fd, ESCRIPTURA) /\ MoveTo(p, fd, AccessOffset(p, fd) + nbytes)

\* SEEK_SET; with SEEK_CUR the distance is relative.  Here the channel is tested.
sys_lseek(p, fd, offset) == channel[p][fd - 2].fd = fd /\ MoveTo(p, fd, offset)

(* sys_unlink, fork and exit *)

\* The descriptors of other processes are not consulted, nor the caller's.
sys_unlink(p, f) ==
  /\ cluster[f] # NoCluster
  /\ cluster' = [cluster EXCEPT ![f] = NoCluster]
  /\ image' = image \ {f}
  /\ UNCHANGED <<channel, open_file_table, whereClusters, alive, held>>

\* copy_data copies the whole PCB, channel table included; openCount stays.
sys_fork(p, child) ==
  /\ child \notin alive
  /\ Shares \/ Held(p) = {}
  /\ alive' = alive \cup {child}
  /\ channel' = [channel EXCEPT ![child] = channel[p]]
  /\ held' = [held EXCEPT ![child] = held[p]]
  /\ UNCHANGED <<open_file_table, cluster, whereClusters, image>>

\* sys_exit closes nothing.  The first program never exits (user.c).
sys_exit(p) ==
  /\ p # InitProc
  /\ alive' = alive \ {p}
  /\ held' = [held EXCEPT ![p] = Nothing]
  /\ UNCHANGED <<channel, open_file_table, cluster, whereClusters, image>>

UseDescriptor(p, fd) ==
  \/ sys_close(p, fd)
  \/ \E n \in Offset: sys_read(p, fd, n) \/ sys_write(p, fd, n) \/ sys_lseek(p, fd, n)

Next == \E p \in alive:
  \/ \E f \in File: (\E mode \in Mode: sys_open(p, f, mode)) \/ sys_open_fails(p, f) \/ sys_unlink(p, f)
  \/ \E fd \in Held(p): UseDescriptor(p, fd)
  \/ \E child \in Proc: sys_fork(p, child)
  \/ sys_exit(p)

Spec == Init /\ [][Next]_vars

-----------------------------------------------------------------------------
(* Properties *)

OpenEntry == [startCluster: Cluster, openCount: {1}, access_offset: Offset, permissions: Mode]

\* The tables hold values of their types, and an entry of the open file table is
\* reset as a whole: free exactly when startCluster is 0.
TypeOK ==
  /\ channel \in [Proc -> [Channel -> [fd: {0} \cup Fd, OFT_entry_num: {-1} \cup Entry]]]
  /\ open_file_table \in [Entry -> {NoEntry} \cup OpenEntry]
  /\ cluster \in [File -> {NoCluster} \cup Cluster]
  /\ whereClusters \in 1..LastCluster+1
  /\ image \subseteq OldFiles
  /\ alive \subseteq Proc
  /\ DOMAIN held = Proc
  /\ \A p \in Proc: /\ Held(p) \subseteq Fd
                    /\ \A fd \in Held(p): held[p][fd] \in [file: File, cluster: Cluster, image: BOOLEAN]

\* A descriptor a program holds leads through its channel slot to an open entry
\* with the cluster its file had when it was opened, though open fills a slot it
\* did not look for and close clears a slot that is not the descriptor's.
DescriptorsReachTheirFile ==
  \A p \in Proc: \A fd \in Held(p):
    /\ EntryOf(p, fd) \in Entry
    /\ open_file_table[EntryOf(p, fd)].startCluster = held[p][fd].cluster

\* unlink frees the clusters of files that are still open.  A descriptor left
\* behind never reaches the clusters of another file, because the allocation hint
\* only grows while the system is up (fat32.c:376, 388).  The hint starts where
\* FSInfo says, and the image may hold files at and above it: unlinked while open,
\* only those can lose their cluster to another file.
StaleDescriptorsReachNoOtherFile ==
  \A p \in Proc: \A fd \in Held(p), f \in File:
    LET opened == held[p][fd]
    IN  cluster[f] = opened.cluster =>
          f = opened.file \/ (opened.image /\ opened.cluster >= BootHint)

\* Open entries no process holds a descriptor of.
Orphans == {e \in Entry: /\ open_file_table[e].startCluster # NoCluster
                         /\ \A p \in alive: e + 2 \notin Held(p)}

\* Entries of the open file table are lost only by a process that exits while it
\* holds them, and are then lost for good: exit closes nothing, and no later call
\* reclaims an entry.
OrphansComeFromExit ==
  [][/\ Orphans \subseteq Orphans'
     /\ \A e \in Orphans' \ Orphans: \E p \in alive \ alive': e + 2 \in Held(p)]_vars

\* The descriptor a program sees.
View(p, fd) ==
  IF fd \notin Held(p) THEN NoEntry
  ELSE LET entry == open_file_table[EntryOf(p, fd)]
       IN  [cluster |-> entry.startCluster, offset |-> entry.access_offset,
            mode |-> entry.permissions]
Views == [p \in Proc |-> [fd \in Fd |-> View(p, fd)]]

\* The calls implement descriptors that belong to one process each, as long as
\* programs fork while they hold none.
D == INSTANCE Descriptors WITH NoDescriptor <- NoEntry, desc <- Views
ImplementsDescriptors == D!Spec

\* sys.c:291: "If the open file count is greater than 1 the entry should not be
\* cleared yet": an entry two processes hold stays open when one closes it.
SharedEntriesStayOpen ==
  \A p \in alive: \A fd \in Held(p): open_file_table[EntryOf(p, fd)].startCluster # NoCluster

=============================================================================
