# Verification of the ZeOS file system kernel

ZeOS is a small teaching kernel for i386; this repository adds a FAT32 file
system on a polled IDE disk, file descriptors with an open file table, processes
with `fork`/`clone`, a round-robin scheduler and counting semaphores.  This
directory holds TLA+ models of those parts, the TLC runs that check them and
proofs that TLAPS checks.

Everything in the kernel runs with interrupts off: system calls and the clock
interrupt enter through interrupt gates and no code re-enables interrupts
(`cpu_idle` does, in the idle task).  A handler is therefore one step of a model.
What remains to interleave is: whole calls of several processes, the clock tick
between any two of them, the second half of a `sem_wait` that blocked, a reset of the
machine between two sector writes of one call, and the disk drive, which works
on its own between any two accesses to its registers.

## 1. Inventory

| Component | Source | State | Operations | Interacts with |
|---|---|---|---|---|
| FAT32 metadata | `file-system/fat32.c` | `FAT[]`, `fsInfoStruct.whereClusters` (memory), FAT region and directories (disk) | `initializeFAT`, `searchFile`, `createFile`, `deleteFile`, `allocateCluster`, `deleteFATchain`, `copyFATtoDisk` | called by `sys_open`, `sys_unlink`; calls the IDE driver |
| File data | `file-system/fat32.c` | data sectors, chains in `FAT[]` | `readFile`, `writeFile` | called by `sys_read`, `sys_write` |
| Open files | `zeos_full/sys.c` | `open_file_table[]`, `channel_table` of each PCB | `sys_open/close/read/write/lseek/unlink` | `fork` copies PCBs, `exit` frees them |
| Processes, scheduler | `zeos_full/sched.c`, `sys.c` | `readyqueue`, `freequeue`, `quantum_left`, `PID`, `dir_usage[]` | `sys_fork/clone/exit`, `scheduling` on each tick | semaphores use the same list anchor |
| Semaphores | `zeos_full/sem.c` | `semafors[]` with blocked lists | `sem_init/wait/signal/destroy`, `destroy_owned_sems` | block and wake tasks; `exit` destroys |
| Frames, address spaces | `zeos_full/mm.c` | `phys_mem[]`, page tables | `alloc_frame`, `free_frame`, `set_user_pages`, `free_user_pages` | `fork`, `exit` |
| IDE driver | `disk-driver/ide.c` | device registers, `havedisk0/1`, `proso_blocks` | `ideinit`, `idewrite`, `ideread`, `idesetblock`, `idewait`, `ide_check_disk` | polled by FAT32; shares the registers with the drive |
| Statistics | `sched.c`, `sys.c`, `entry.S` | `struct stats` of each PCB | `init_stats`, `user2system`, `system2user`, `finish*Time`, `sys_getstats` | stamped by every kernel entry, exit and task switch |
| Lists | `list.c`, `include/list.h` | the anchors in PCBs, queue heads and semaphores | `list_add(_tail)`, `list_del`, `list_first`, `list_for_each_safe` | used by scheduler, `fork`, `clone`, semaphores |
| Rest | `entry.S`, `io.c`, `libc.c`, `hardware.c`, boot | - | entry code, console, loader | - |

What makes each hard, and what correctness means there:

* **FAT32 metadata.** Three copies of the truth (memory FAT, disk FAT,
  directories) are updated one after the other; directories grow; the allocation
  hint only goes up, from a number the driver never writes back; a deletion keeps scanning; a boot reads only part of the
  FAT.  Correct: no cluster has two owners, nothing in use is free, no chain
  loops, what was created is found, what was deleted is not, and a reset between
  two writes leaves only what the write order allows.
* **File data.** Byte offsets, sector ends and cluster ends do not coincide.
  Correct: a read returns the last write; a write stays in its file.
* **Open files.** Two tables indexed in two ways; entries are shared after
  `fork` and forgotten by `exit`.  Correct: a descriptor is a private object that
  leads to the file it was opened for until it is closed.
* **IDE driver.** The drive is a second process: it goes busy, ready or wrong
  between two polls.  Correct: no command reaches a drive that is at work, a call
  that returns has moved its own block or nothing, every call returns.
* **Statistics.** Time is a difference of stamps that are made for the running
  task only, while handlers end on other tasks than they began on.  Correct: what
  is charged to a process is the time it spent there.
* **Lists.** An anchor is in at most one list, and is copied with its PCB by
  `fork` and `clone`.  Correct: each list is a ring of just its tasks.
* **Processes and semaphores.** One list anchor per PCB is moved among four kinds
  of lists; `used` of a semaphore doubles as a count of tasks that still have to
  find out about its destruction.  Correct: every task is in exactly one place,
  no signal is lost, semaphores and address spaces die with their last user and
  become usable again, ready tasks run.
* **Address spaces.** Frames are shared by threads, copied by `fork`, freed by
  the last exit.  Correct: no two address spaces share a data frame, none is
  lost, a thread reads what its own address space stored.

`PROJECT.json` lists the hazards line by line with the properties that cover them.

## 2. Modules

| Module | What it is |
|---|---|
| `Fat32` | FAT32 metadata, with boots and resets |
| `FileData`, `MCFileData` | `readFile`/`writeFile`; symmetry for TLC |
| `OpenFiles` | channel tables and open file table |
| `Descriptors` | abstract specification: descriptors private to a process |
| `OpenFiles_proofs` | TLAPS proofs about `OpenFiles`, including the refinement of `Descriptors` |
| `Tasks`, `MCTasks` | scheduler, processes, semaphores; model values and symmetry for TLC |
| `LinkedTasks`, `MCLinkedTasks` | `Tasks` together with the pointers of its lists; model values, symmetry and view |
| `Statistics`, `MCStatistics` | `Tasks` together with the time statistics; view |
| `IdeDriver`, `MCIdeDriver` | the IDE driver and its drive; the test patterns |
| `AddressSpaces` | frames and page tables |
| `Fat32_proofs`, `FileData_proofs`, `Tasks_proofs`, `LinkedTasks_proofs`, `Statistics_proofs`, `IdeDriver_proofs`, `AddressSpaces_proofs` | TLAPS proofs about the module of that name |

Definitions have the names of the functions they translate wherever there is one.
Operators whose comment begins with "Mutant" (or named `X_Something` next to an
operator `X`) are plausible bugs of `X`.  They are not used by the
specifications; they show, one per property and run, that the property notices.

### Fat32

State: `fat` is `FAT[]`, `whereClusters` the hint, `disk` holds the FAT region
and the slots of every cluster as a directory.  Cluster 0 of `getDiskSector` is
the first FAT sector, so `disk.dir[0]` begins with bytes of the FAT (`Words`);
a directory entry written there overwrites FAT words, and a write of the FAT
overwrites the entry.  `createFile` and `deleteFile` return an outcome: the new
table and hint, the returned number, and `images`, the disk after each sector
write in the order of the code.  `Create` and `Delete` take the last image;
`CrashInCreate` and `CrashInDelete` take an inner one and boot from it, with
`initializeFAT` reading what `readFATfromDisk` reads: the first 32 of every 128
words.  `newFile`, which `allocateCluster` reads uninitialised, is the
nondeterministic `linked`; `StaleWrites` is what a read and a write after a refused
block number do, with the registers where the last sector left them or moved on by
a transfer; loops and recursions that do not end set `hung`.

Abstractions: names are model values (`split_filename` and the 11-byte format are
left out); a file's cluster used as a directory reads as empty slots; the table
is one FAT sector.  Beyond 128 clusters `copyFATtoDisk` indexes its stack buffer
out of bounds and `getDirectoryEntry` reads one signed byte of the cluster
number, so nothing is defined that could be modelled.

### FileData

`Start` is the position a byte offset leads to, `ReadCrosses` and `WriteCrosses`
what the two loops do at a sector end, with the `clusterSectorNum` test as coded
(it lets the number reach `sectorsPerCluster`, one past the last sector).
`writeFile` collects the places of all bytes.  The history `contents` is what
programs believe they stored; a byte on disk carries the number of its write, so
that no two writes store the same.  The files of the image have chains of up to
`FileClusters` clusters, anywhere and in any order (`Init`).  Calls start inside the
file: past its end both functions walk the FAT out of the array.  `Callable` asks for
the free clusters a call adds and no others, so a full disk takes every call that
stays in the file; a call that finds none goes on at a sector number past the disk.
`newFile` is uninitialised anew in each `allocateCluster`, so `linked` is the set of the
sector ends whose allocation links its cluster.

`fatOnDisk` is the FAT sector on disk.  `writeFile` leaves it alone; `createFile`
(of some other file: only what it does to the FAT is kept) saves the sector as it
is in memory, before it takes a second cluster for a directory that `grows`; `Reset` loads it again.  The table is one FAT sector whose words are
all loaded, which is the case of the first 32 clusters; what a boot does to the
others is `Fat32`'s subject.

### OpenFiles and Descriptors

`channel[p][i]` is slot `i` of the PCB of `p`, `open_file_table[e]` an entry.
`sys_open` fills the slot with the *entry's* number, because the inner loop
reuses the index of the outer one; `sys_close` tests and clears slot `fd`, not
`fd - 2`, and clears the entry of slot `fd - 2`.  Slots past
`CHANNEL_TABLE_SIZE` are modelled because `sys_open` reaches them: they lie in
the low end of the PCB's kernel stack.  `held` is history: which descriptors a
program was given and has not closed.  Programs use only those (`UseDescriptor`);
the calls check descriptor numbers incompletely and index the tables with any
number, which is not modelled.  `Shares = FALSE` restricts `fork` to processes that
hold no descriptor.

`whereClusters` starts at `BootHint`, what FSInfo holds: `mkfs` leaves 2 there, Linux the
cluster it used last, and the driver never rewrites it.  Files of the image
(`OldFiles`) may lie on either side of it.  `image` is history: which paths still lead
to the files found at boot.

`Descriptors` promises: an open gives a process a descriptor it did not hold,
with offset 0; a read, write or seek moves the offset of that one descriptor;
a close or an exit removes it; nothing else changes any descriptor.  `Views` is
the refinement mapping.

### Tasks

`running`, `readyqueue`, `freequeue` and the `blocked` lists are the places of a
PCB.  A task that blocks in `sem_wait` keeps the number of its semaphore in
`waiting`: the rest of the C function lies on its kernel stack and runs when
`sched_next_rr` gives it the CPU again (`SemWaitResumes`).  `sys_exit` is three
actions so that its loop over the semaphores can be written one turn per step;
no other action is enabled while `exiting` is set.  `freequeue` is a set, as
which free PCB is taken does not matter.  Calls that return an error without
effect are not steps.  `woken` and `waitResult` are history.

### LinkedTasks

`links` holds `next` and `prev` of every PCB and every list head (a semaphore is
the head of its blocked list).  Each action is the one of `Tasks` and, beside it,
the pointer assignments of the same handler, which read pointers only: what
`list_first` finds decides which PCB `fork` takes, `list_empty` whether a signal
wakes anybody.  `LinksMatch` compares both.  `EachToReady` is the loop of
`list_for_each_safe`, `Turn` one turn of it with the look-ahead pointer, `init_sched`
the loop that fills the free list.  The free list starts in any order, which keeps
PCBs interchangeable.  `NodesAssumption`: no PCB is the head of a list.

### Statistics

A step is one whole visit to the kernel: the running task spends `u` in user mode,
then `s` in the handler.  `SAVE_ALL` stamps it, the handler of `Tasks` runs,
`RESTORE_ALL` stamps whatever task it ended on; `sched_next_rr` stamps the task
that leaves and the one that comes.  Time is that of `get_ticks` (the time stamp
counter), so it passes in any amounts and not with the clock interrupt.  `spent` is
history: where the time went.  The stamp is called `elapsed_total_ticks`, the time
of creation `remaining_ticks` in the code.  The first switch to idle goes to
`cpu_idle`, past `RESTORE_ALL`, and stamps nothing (`idled`, `Resumed`).

### IdeDriver

One action per access that matters: a poll that ends its loop, the block number
and the command, one turn of the loop that waits for the data request, the
transfer.  `ideread` and `idewrite` are the same lines but for the command and
the direction.  `times` stops at 5, as only `times > 4` is tested.  The drive is external:
busy after a command, then a data request, or an error (ERR or DF) before it or
after the data of a write; the block registers may have moved on by one when a
transfer ends.  A block past the end is always refused, other faults are counted by
`MaxFaults`.  An absent drive reads as status 0.  The drive is one of two clients'
(`client`): the file system, with any block number; or `ide_check_disk`, whose call
in `main` is commented out (`zeos_full/system.c:87`) but which is the driver's only
test.  `refused` is history: `idesetblock` has refused a number in some call, its
callers went on with the registers as they were, and the calls' promises end there.

### AddressSpaces

`phys_mem` is the set of used frames, `pagusr_table[d]` the data pages of
directory `d`.  `alloc_frame` looks at every other frame, so a series of calls finds
the free ones of those in ascending order: `alloc_frames` is given by their `Rank`.
`Copied` is one step: `fork` writes the child's pages through temporary entries of the
parent's table, in pages no program uses, deletes each after its page and reloads CR3
(`zeos_full/sys.c:411-420`), all with interrupts off and before it returns.  No other
step could find such an entry, so none is kept, and neither is the TLB.
`free_frame` refuses the first user frame (`>` for `>=`), which boot gives to the
code.  `Store` stands for user programs, the only environment action.  `allocate_DIR`
lets a child share its parent's directory when none is free; `Fork` has that branch,
and the proofs show that no state takes it, as there are as many directories as PCBs.

## 3. Runs

| Run | Question | Bounds | Why they are enough |
|---|---|---|---|
| `fat_session` | Is the file system sound during a session? | 21 clusters, 2 sectors of 3 entries per cluster, paths up to 2 deep, 4 calls, hint at 2, 4 or 19 | DIR1 has two free slots: a second creation makes it grow (linked or not), a third uses the new cluster; from hint 19 the third allocation fails, between file and directory growth; from hint 2 clusters of the image come back after a deletion; duplicates, nested directories, missing directories and files used as directories all occur |
| `fat_reboot` | What survives resets? | 24 clusters of which 6 are loaded at boot, 4 calls, 3 boots | resets before, inside and after each call, also after a boot that forgot clusters |
| `fat_reload` | violation: created clusters are nobody's | 2 calls, 2 boots | |
| `tasks_safety` | Are tasks, list pointers, semaphores, PIDs and directories accounted for? | 3 PCBs and idle, 2 semaphores, PIDs to 5, counts to 1, quantum 1 | every PCB and directory is used again, two tasks block and one destroys, either semaphore may be reused while waiters of its last life are still ready |
| `tasks_fair` | Do ready tasks run, do destroyed semaphores come back? | 1 semaphore, quantum 2, no symmetry | |
| `sem_destroyed` | violation: -2 means destroyed | 1 semaphore | |
| `open_files` | Do descriptors work? | 2 processes, 2 paths, 3 entries, 2 channel slots, 3 clusters, one path in the image at any cluster, hint at 2 | the file of the image lies below, at or above the hint; all slots and entries run out; one entry lies past the channel table; unlink and re-creation of an open path |
| `open_shared` | violation: shared entries stay open | `Shares = TRUE` | |
| `file_data` | Do reads and writes agree, and what does a reset cost? | 2 files of 1 or 2 clusters of 2x2 bytes, anywhere on a disk of 5 clusters, calls of 1, 3 or 6 bytes, 2 writes, 1 creation, 1 reset | every offset, every alignment, up to three sector ends and two allocations per call, linked or not, neighbours owned by either file or free, full disks included; the FAT saved before, between or after the writes |
| `spaces` | Are address spaces separate and frames accounted for? | 3 tasks, 2 data pages, 14 frames | a third address space finds one frame and rolls back |
| `ide` | Does the driver agree with its drive? | disk of 6 blocks, refusals from number 9, 3 calls of the file system or the whole self test, 1 fault | numbers in range, just past the end and refused; a fault in any phase of any call; either drive or none; the self test uses blocks 1, 2, 3 and 5 and runs past the end twice |
| `stats` | Are the statistics true? | 2 tasks and idle, 1 semaphore, 4 ticks, at most 2 at once in user mode and in a handler | a child is born, runs, is switched out, blocks, dies and its PCB is born again, at different times |

Properties worth knowing before reading the definitions:

* `fat_session`: `NoSharedClusters`, `ReferencesAllocated`, `ChainsEnd` hold
  without conditions.  `CallsChangeOneName` compares what can be seen in every
  directory before and after a call.  `NewDirectoryIsEmpty` excepts directories in
  clusters the image had in use (all up to `File0Cluster`): a hint at or below such
  a cluster hands it out again after a deletion.  `CallsChangeOneName` assumes, of a creation, that a cluster for
  the directory to grow by is left (`CanGrow`), without which it does not hold.
* `fat_reboot`: `CreateIsCrashSafe`, `DeleteDanglesOnlyItsVictim`,
  `CreateIsDurable` are about single calls on a table that is `Consistent`: what is on
  disk in use is in use in memory, nothing is named twice, what is named is allocated,
  the root included, and what can still be allocated holds no old directory.
  A boot that forgot clusters leaves no such table.  `CreateIsDurable` also needs
  `CanGrow`: on a full disk the end mark may land before the entry it belongs behind.
* `open_files`: `StaleDescriptorsReachNoOtherFile` excepts files of the image that are
  not below `BootHint`.  `OrphansComeFromExit` says that entries leak through `exit` and
  in no other way, and never come back.
* `tasks_safety`: `VIEW` merges states that differ only in the histories `woken`
  and `waitResult` or in the directory of a free PCB.  No guard and no invariant of
  the run but `TypeOK` reads them.
* `stats`: `VIEW` drops what neither guards nor the two invariants read.  A process
  is compared with the truth until somebody asks for its statistics: see
  section 4.  Blocked time counts as ready time, as the code has it.
* `file_data`: `ChainsSound` says that on disk a chain is always the beginning of
  the one in memory, so a reset costs a file the clusters added at its end at most.
  `DamageIsOneSector` allows one sector behind each cluster the file has or takes.
* `ide`: `CallsAreAtomic` excepts two cases the driver does not notice: an error
  after the data of a write, and calls after a refused number.  Fairness: weak for
  the driver (it polls with interrupts off and nothing takes the CPU from it), for
  the drive (an attached drive answers every command), for the next call of
  `ide_check_disk`.  `CallsReturn` and `SelfTestEnds` except a device fault, which
  the request loop does not test; then it polls for ever.
* `tasks_fair`: fairness is weak fairness of the clock tick and of the two
  actions inside `sys_exit`.  The timer interrupt keeps coming and a kernel path
  goes on by itself; nothing is assumed of programs, which need not make any call.

Deadlock is checked where the system always has a next step (`Tasks`, whose clock
ticks).  The other instances end at their bounds on calls, offsets, time or tasks.

## 4. Where the code departs from its comments

Three disagreements are runs of their own (see `findings` in `PROJECT.json`):
the boot that loads a quarter of the FAT (`fat_reload`), the signalled waiter that
takes the -2 of a destroyed one (`sem_destroyed`) and descriptors shared by `fork`
without a count (`open_shared`).  The others are visible in the definitions and not
runs:

* `writeFile` writes past the end of a cluster: "There are remaining sectors in the
  cluster" (`file-system/fat32.c:444`) is decided by a test that lets
  `clusterSectorNum` reach `sectorsPerCluster`, and the number is not reset in the
  next cluster.  `DamageIsOneSector` bounds what that costs.
* `ideread` and `idewrite` promise -1 in case of error (`disk-driver/ide.h:23`).
  They return 0 when the drive fails after it took the data and when `idesetblock`
  refused the number; a device fault or an absent drive keeps them polling (`main`
  ignores the -1 of `ideinit`).  `fat32.c` looks at no result of theirs.
* `sys_getstats` charges the time since the stamp to system mode, also for a process
  that is ready or blocked, and subtracts the time of creation from the stamp,
  where it stays: the next charge counts that time again.  `idle` is not stamped
  when it gets the CPU, so its time off the CPU counts as system time.
* `deleteFile` returns -2 (`NotFound`) after it deleted the file, when its scan
  reaches the end mark; `user.c` then prints "Unlink unsuccessful".
* `createFile` in a missing directory writes into cluster 0, the FAT region.
* clusters freed below the hint are never allocated again, so allocation fails
  with "No available clusters" on a disk that has some.
* `sys_close` refuses a descriptor whose slot `fd` does not hold `fd + 2`.
* `sys_open` fills channel slots past the table.
* `sys_unlink` announces a check whether the file is open in another process
  (`zeos_full/sys.c:313`) and makes none.
* The hint of FSInfo is read at boot and never rewritten.  What the driver took itself
  stays taken for the session, but a file of the image at or above the hint can be
  unlinked while it is open and its cluster given to another file, which the old
  descriptor then reads and writes; and a directory made in such a cluster, or in any
  freed one after the next boot, starts with the old contents, as `createFile` does not
  clear it.
* An open that fails with `-EMFILE` leaves the file it created.
* `sem_wait` returns -1 when it succeeds without blocking.

## 5. Proofs

All proofs are checked by TLAPS to the last leaf, with no assumption but the
`ASSUME`s of the modules on their constants, except where a theorem states another
hypothesis: `Shares = FALSE` in `OpenFiles_proofs`, and in `Fat32_proofs` those of
`NewDirectoriesAreEmpty`, of the theorems about resets inside calls, and of
`CallsKeepListings` (`MaxSessions = 1`).

`Fat32_proofs`, for disks of any size, any names, any calls and resets anywhere:

* `TypesHold`, in every session: `WordsInPlace` says that only bytes of the FAT region
  read as FAT words, whatever sector a call or a stray block number hits.
* `ChainsEndInSession`, `ReferencesAllocatedInSession`, `NoSharedClustersInSession`, in
  the first session.  They cannot hold later: a boot loads a quarter of the table, and
  `fat_reload` shows a cluster handed out twice after it.  `FatInv` adds to the
  types that the state of the first session is `Sound`, which is more than the three
  say in two ways.  `EntrySound` speaks of every live entry on disk, not only those
  in allocated clusters: a deleted directory leaves its entries behind, and its
  cluster may be allocated again.  `Nameable` and `LinkSound` keep the root and
  cluster 0 unnamed, as `createFile` writes to cluster 0 when a directory is missing.
  Against cycles `LinkSound` has a rank for every cluster that descends along the
  links (`Falls`).  The rank need not stay the same: `LinkCluster` chooses another when
  an allocation links a cluster, `RanksAreBounded` one below `FatSize`.
* With such a rank every recursive function of the module (`Chain`,
  `recursiveSearch`, the two scans of `deleteFile`) reaches its end within its
  fuel, so `hung` is never set (`ChainIsPath`, `SearchStays`, `ScanClusterIsFine`).
  That such a function exists at all goes by induction over the fuel (`ChainLoops`,
  `SearchLoops`, `ScanLoops`, `VisitLoops`).
* Each operation has a lemma that its outcome is fine, which means: sound, whatever
  `newFile` was and whatever a write hit (`AddEntryIsFine`, `CreateIsFine`,
  `DeleteEntryIsFine`, `DeleteIsFine`).
* `NewDirectoriesAreEmpty`, for one session and any hint.  `Fresh` is the invariant: no
  cluster from the hint on, but for those of the image, is in use or has an entry in
  its first slot.
* `CreationIsCrashSafe`, `DeletionDanglesOnlyItsVictim`, `CreationIsDurable`, in every
  session, under two hypotheses.  `AnyPath = FALSE`: callers name directories that exist;
  in a missing one `createFile` writes its entry to cluster 0, which may be the FAT,
  and TLC finds `CreateIsCrashSafe` violated by it.  `0 \notin DiskHints`: FSInfo does not
  send the allocation to cluster 0.  After a boot that forgot clusters nothing of
  `Sound` is left, so the invariant of these theorems is only `FatInv` with
  `NamesInv`, that neither the hint nor an entry names cluster 0.  The
  rest is `Consistent`, which the properties assume of the state before the call, and
  that yields `NamedOnce`: `NoSharedClusters` counts names, and a sum of sizes equal
  to the size of the union leaves no cluster in two places (`SumSaysOnce`).
  `Used`, the clusters the table in memory has in use, is closed under its links and
  what entries name (`UsedIsClosed`), so a search from the root never leaves it.
* `createFile` is followed write by write (`NewCluster`, `AddEntryWrites`, `CreateSteps`):
  the table goes to disk before the entry, and the cluster in it was free, not before
  the hint, and holds no old entry.  `deleteFile` is followed by an invariant
  of its two scans (`Deleting`, `ScanSlotTracked`, `ScanClusterTracked`): what has been
  freed so far are chains of entries of the deleted name, which nothing else
  names, and never the directory being scanned.  For `CreationIsDurable` the search on
  the new disk is followed turn by turn (`SearchFollows`): the links and slots it
  passes on its way are those of the old one, up to the entry (`FoundInDirectory`).
* `CallsKeepListings`, `Spec => CallsChangeOneName` in the first session, for any hint on
  disk and any calls, also in missing directories.  The invariant is
  `FatInv /\ GrowInv`.  While the hint is not past the end, `GrowInv` says what growing
  a directory needs: the clusters from the hint on, but for those of the image, are
  free (`Ahead`), and a cluster with a link holds no end mark (`LinksFull`), so the
  first end mark a search meets is in the last cluster of its chain, the one that
  growing links.
  `ListingShows` says of `Listing`, which folds over a chain, which slots it shows
  (`Shows`).  A chain of one name has no cluster of another (`ChainsApart`), and stays
  what it was when its clusters keep their links (`PathsAgree`), so it is enough to
  follow the one directory named by the call: after a creation it shows its old
  slots and the new entry, behind them or in a cluster linked for it (`GrownShows`),
  and the two scans of a deletion erase the name from every slot shown and nothing
  else (`ScanReaches`, `VisitReaches`, `AllGone`, `Kept`).

`Tasks_proofs`, for any number of PCBs, semaphores and any quantum:

* `TypeCorrect`.  `TypeInv` is `TypeOK` with the fact that makes it inductive: only
  a task, never idle, is inside `sys_exit`.
* `EveryTaskInOnePlace`, `SignalsAreNotLost`, `WaitersAreBlockedOrReady` follow
  from the inductive invariant `IInv == TypeInv /\ ListInv`.  `OnePlace` is not
  inductive: that `sem_signal` puts a task back into the ready list without doubling
  it needs that blocked lists are disjoint, that `SemWaitResumes` changes no list
  needs that a suspended task is blocked or ready, and that `internal_sem_destroy`
  may append a whole list needs that semaphores not in use block nobody.
  Each list operation of the kernel has a lemma on sequences (`AppendToList`,
  `HeadOfList`, `ConcatLists`), each way of using them a lemma on the invariant
  (`PreemptLists`, `BlockLists`, `WakeLists`, `DestroyLists`, `ScheduleLists`).
* `DestroyedComesBack`, `DirUsageIsCounted`: given `IInv`, `DestroyedIsReclaimable`
  and `DirUsageCounts` are inductive themselves.  Both compare a counter with the
  size of a set of tasks; `LengthOfList` turns a blocked list without doubles into
  such a set.
* `SemaphoresHaveOwners` from `OwnerInv`: living processes have different PIDs because
  none exceeds the last one given out; a used semaphore has a number nobody else has
  and a living owner; and `DestroyedSoFar`, the invariant of the loop of `sys_exit`:
  what the loop has passed no longer belongs to the process, which is what lets
  `ExitEnds` free its PCB.

`LinkedTasks_proofs`, for the same constants:

* `ListsAreRings`: `LinkedSpec => []LinksMatch`.  `LinkedSpec` implements `Spec`
  (`LinkedImplementsTasks`), so the abstract lists have `IInv`; it says they are
  disjoint, without which no pointer assignment keeps the other lists intact.
  `LinksInv` adds an order of the free list, which `Tasks` leaves open, and rings for
  the heads of semaphores in use only: what `sem_destroy` leaves in a head is never
  looked at before `INIT_LIST_HEAD`.  `TakeFirst` and `AddLast` say, for a family of
  disjoint rings, that `list_del` and `list_add_tail` are `Tail` and `Append`; a
  `NULL` anchor is what tells `update_process_state_rr` not to delete.  The two loops
  (`AllToReady` for `list_for_each_safe`, `InitSched`) go by induction over the
  number of turns.  Its middle state is a list of which the first `n` entries are in
  the ready list, the look-ahead pointer still being the next one.

`Statistics_proofs`, for the same constants and any times:

* `StampsAreNeverAhead`, `TimeIsCharged` from `StatInv`, on top of `IInv`: each
  task's statistics agree with the truth but for the time since its last stamp.
  Where that time will be charged depends on whether the task is the running
  one, so the proof goes through the places of every task before and after each
  handler.

`IdeDriver_proofs`, for a disk of any size, any data and any numbers of calls and
faults, and any interleaving of driver and drive:

* `IdeTypes`, `CommandsWait`, `CallsDoAllOrNothing`, `SelfTestIsRight` from `IdeInv`.
  `Phases` says what the drive may be doing at each point of the driver (the driver
  is never one phase behind it), `Progress` what has happened to the call's block by
  then, `Faultless` that without faults only a block past the end is refused, and
  `Measured` is the loop invariant of `ide_check_disk`: how far the loops have come,
  and that what the script has written is still there.

`AddressSpaces_proofs`, for any number of tasks, frames and pages:

* `SpaceTypes`, `SpacesStaySeparate`, `FramesAreAccountedFor`, `StoresAreKept` from
  `SpaceInv`.  `dir_usage` has to be the exact number of users of a directory:
  only then is the directory a fork takes nobody's and does the last exit, and
  no other, free the frames.  That no frame is lost although `free_frame` refuses one
  needs that this one is the code's (`CodeFramesFirst`).  What `alloc_frames` finds is
  free, and twice nothing (`RankIsUnique`).

`OpenFiles_proofs`, for any number of processes, files, entries and slots, under
the hypothesis `Shares = FALSE` (which `open_shared` shows to be necessary):

* `TypeCorrect`, `DescriptorsAreRight`, `StaleDescriptorsAreHarmless` from
  `IInv == TypeOK /\ DescriptorInv /\ ClusterInv`.  The surprising part is why the
  wrong indices of `sys_open` and `sys_close` are harmless to a descriptor's own
  entry: a held descriptor `fd` always has the entry `fd - 2` in slot `fd - 2`, no
  two processes hold the same one, and what `sys_close` clears of slot `fd` is the
  number in it, never its entry.
* `Implementation`: `Spec => ImplementsDescriptors`, with one lemma per call that
  maps it to a step of `Descriptors` or to a stutter.

* `EntriesAreLostByExitOnly` for the action property `OrphansComeFromExit`.

`FileData_proofs`, for any files, clusters and sectors of any size, calls of any
length, and any layout of the files on the image:

* `TypesHold`, `ChainsStaySound`, `ReadsAreRight`, and `DamageIsLimited` for the action
  property, from `IndInv`, the conjunction of `Types`, `Tables` and, until a write
  leaves its cluster, `Stored`.  `ChainsSound` says what `Chain` returns and is no use
  for a step that changes the table, so `Tables` states the same of explicit sequences
  of clusters: every file owns one, no cluster is in two places of them, and on disk a
  file owns the beginning of what it owns in memory (`FilesAre`, `ChainIs`).
  `Stored` says of every byte of every file where it lies on disk.
* A write follows its own loop: `Reached` is the invariant of the positions the loop
  comes to, one per sector end.  The cluster is one of the file's or one just taken
  (`Own`), the sector is in it or is the one behind it (`Located`), the table so far
  leaves every other chain alone (`Follows`) and lengthens that of the file at most at
  its end (`Extends`).  `WriteStep` takes one sector end, `WriteReaches` all of them.
  That `num` reaches `SectorsPerCluster` and is not reset shows here: the sector
  behind a cluster is the most `Located` can say, and it is what makes
  `DamageIsOneSector` true and nothing stronger.
* A call inside one cluster goes straight through its sectors (`StraightOn`,
  `CallsInCluster`), and byte `b` of a file lies where division says
  (`PlacesInCluster`, `Parts`); two bytes never lie in the same place
  (`SpotsDiffer`), so a write changes no byte but its own (`WriteStored`).
* `Image`: every layout of `Init` is such a family of chains.

Not provable here, and left to TLC: the liveness properties of `tasks_fair` and
`ide` (fairness and `ENABLED` are out of the prover's reach).  Induction over a number
goes through when the statement is a set of numbers (`Least` and `CountUp` in
`LinkedTasks_proofs`).  Every other property of a passing run is stated by a theorem.

## 6. Plan

Order of work, most important behaviour first; all of it is done.

1. `Fat32` with resets.  2. `Tasks` and its proofs.  3. `OpenFiles`, `Descriptors`
and their proofs.  4. `FileData`.  5. `AddressSpaces`.  6. `IdeDriver`.
7. What a call promises about a directory (`CallsChangeOneName`); the FAT in memory
and on disk for the clusters `writeFile` adds.  8. `Statistics` and `LinkedTasks`.
9. Proofs about `Tasks`, `LinkedTasks`, `Statistics`, `IdeDriver`, `AddressSpaces`.
10. Proofs about `Fat32`.  11. Proofs about `FileData`.  12. Proofs of what single
calls of `Fat32` promise, `CallsChangeOneName` last.

## 7. Not modelled

* Calls with descriptor numbers never given out and negative offsets, clusters from
  128 on: they index tables and stack buffers out of bounds, and undefined
  behaviour of that kind has no bounded set of outcomes.
* A sector access that fails inside a call of `fat32.c`: `IdeDriver` has the
  failures, `Fat32` and `FileData` take every access as one step that succeeds.
  (The buffers are on the stack and used whatever they hold.)
* Context switching, TSS, CR3 and the TLB, segmentation, descriptor tables, boot and
  build code: hardware state that no property here speaks of.
* The console, the keyboard, string functions, copies to and from user memory and
  their checks.
* `user.c` and `FStest`: programs that call what is modelled.
* The support code in `soa_supportE3/` and `zeos_*.c`, which is not linked.
