-------------------------- MODULE OpenFiles_proofs --------------------------
(***************************************************************************)
(* Proofs about OpenFiles for every number of processes, files, clusters   *)
(* and table sizes, when programs fork only while they hold no descriptor. *)
(***************************************************************************)
EXTENDS OpenFiles, TLAPS

\* A held descriptor's slot holds the entry of the same number, which is open with
\* the cluster the file had; two processes hold different descriptors.
DescriptorInv ==
  /\ \A p \in Proc: \A fd \in Held(p):
       /\ EntryOf(p, fd) = fd - 2
       /\ open_file_table[fd - 2].startCluster = held[p][fd].cluster
  /\ \A p, q \in Proc: p # q => Held(p) \cap Held(q) = {}
  /\ \A p \in Proc \ alive: Held(p) = {}

\* Clusters are handed out once: no two paths share one, those handed out since
\* boot lie below the hint, and a descriptor's cluster is its own file's or
\* nobody's, unless the file came from the image with a cluster the hint had not
\* passed.
ClusterInv ==
  /\ BootHint <= whereClusters
  /\ \A f \in File \ image: cluster[f] < whereClusters
  /\ \A f, g \in File: cluster[f] = cluster[g] /\ cluster[f] # NoCluster => f = g
  /\ \A p \in Proc: \A fd \in Held(p): held[p][fd].image \/ held[p][fd].cluster < whereClusters
  /\ StaleDescriptorsReachNoOtherFile

IInv == TypeOK /\ DescriptorInv /\ ClusterInv

\* The tables are empty and nobody holds a descriptor: IInv holds at boot.
LEMMA InitIInv == Init => IInv
<1> SUFFICES ASSUME Init PROVE IInv
  OBVIOUS
<1>1. \A p \in Proc: Held(p) = {}
  BY DEF Init, Held, Nothing
<1>2. TypeOK
  <2>1. channel \in [Proc -> [Channel -> [fd: {0} \cup Fd, OFT_entry_num: {-1} \cup Entry]]]
    BY DEF Init, NoChannel
  <2>2. open_file_table \in [Entry -> {NoEntry} \cup OpenEntry]
    BY DEF Init
  <2>3. cluster \in [File -> {NoCluster} \cup Cluster]
    BY SizesAssumption DEF Init, NoCluster, Cluster
  <2>4. whereClusters \in 1..LastCluster+1
    BY HintAssumption DEF Init
  <2>5. alive \subseteq Proc /\ DOMAIN held = Proc /\ image \subseteq OldFiles
    BY ProgramsAssumption DEF Init
  <2> QED BY <1>1, <2>1, <2>2, <2>3, <2>4, <2>5 DEF TypeOK
<1>3. DescriptorInv
  BY <1>1 DEF DescriptorInv
<1>4. ClusterInv
  <2>1. BootHint <= whereClusters /\ \A f \in File \ image: cluster[f] < whereClusters
    BY HintAssumption, SizesAssumption DEF Init, NoCluster
  <2>2. \A f, g \in File: cluster[f] = cluster[g] /\ cluster[f] # NoCluster => f = g
    BY DEF Init
  <2> QED BY <1>1, <2>1, <2>2 DEF ClusterInv, StaleDescriptorsReachNoOtherFile
<1> QED BY <1>2, <1>3, <1>4 DEF IInv

\* What resolving a path does: the path leads to a cluster no other path leads to,
\* the other paths are left alone and the hint does not go down.
LEMMA ResolveFacts ==
  ASSUME IInv, NEW f \in File, Resolve(f)
  PROVE  /\ cluster' \in [File -> {NoCluster} \cup Cluster]
         /\ whereClusters' \in 1..LastCluster+1 /\ image' \subseteq image
         /\ whereClusters <= whereClusters'
         /\ cluster'[f] \in Cluster
         /\ \A g \in File \ image': cluster'[g] < whereClusters'
         /\ \A g, h \in File: cluster'[g] = cluster'[h] /\ cluster'[g] # NoCluster => g = h
         /\ \A p \in Proc: \A fd \in Held(p), g \in File:
              cluster'[g] = held[p][fd].cluster =>
                g = held[p][fd].file \/ (held[p][fd].image /\ held[p][fd].cluster >= BootHint)
<1> USE SizesAssumption, HintAssumption DEF NoCluster, Cluster
<1>0. \A p \in Proc: \A fd \in Held(p):
        /\ held[p][fd].cluster \in 1..LastCluster
        /\ held[p][fd].image \/ held[p][fd].cluster < whereClusters
        /\ \A g \in File: cluster[g] = held[p][fd].cluster =>
             g = held[p][fd].file \/ (held[p][fd].image /\ held[p][fd].cluster >= BootHint)
  BY DEF IInv, TypeOK, ClusterInv, StaleDescriptorsReachNoOtherFile
<1>1. CASE cluster[f] # NoCluster
  BY <1>0, <1>1 DEF Resolve, IInv, TypeOK, ClusterInv
<1>2. CASE cluster[f] = NoCluster
  <2>1. PICK c \in Cluster: c >= whereClusters /\ IsUnused(c) /\ Created(f, c)
    BY <1>2 DEF Resolve, createFile
  <2>2. /\ whereClusters' = c + 1 /\ image' = image \ {f}
        /\ \A g \in File: cluster'[g] = IF g = f THEN c ELSE cluster[g]
        /\ cluster' \in [File -> {NoCluster} \cup Cluster]
    BY <2>1 DEF Created, IInv, TypeOK
  <2>3. whereClusters \in 1..LastCluster+1 /\ BootHint <= whereClusters
    BY DEF IInv, TypeOK, ClusterInv
  <2>4. \A g \in File \ image': cluster'[g] < whereClusters'
    BY <2>1, <2>2, <2>3 DEF IInv, TypeOK, ClusterInv
  <2>5. \A g, h \in File: cluster'[g] = cluster'[h] /\ cluster'[g] # NoCluster => g = h
    BY <2>1, <2>2 DEF IInv, ClusterInv, IsUnused
  <2>6. ASSUME NEW p \in Proc, NEW fd \in Held(p), NEW g \in File, cluster'[g] = held[p][fd].cluster
        PROVE  g = held[p][fd].file \/ (held[p][fd].image /\ held[p][fd].cluster >= BootHint)
    <3>1. CASE g # f
      BY <1>0, <2>2, <2>6, <3>1
    <3>2. CASE g = f
      <4>1. held[p][fd].cluster = c
        BY <2>2, <2>6, <3>2
      <4> QED BY <1>0, <2>1, <2>3, <4>1
    <3> QED BY <3>1, <3>2
  <2> QED BY <2>1, <2>2, <2>3, <2>4, <2>5, <2>6
<1> QED BY <1>1, <1>2

-----------------------------------------------------------------------------
(* IInv is inductive: one lemma per call *)

\* The guard of fork when programs fork only with no descriptors.
Private == Shares = FALSE

\* What a call leaves of the invariant when it changes neither the descriptors
\* held nor the paths: the tables need only keep the slots that are in use.
LEMMA SameHeld ==
  ASSUME IInv, UNCHANGED <<cluster, whereClusters, image, held>>
  PROVE  ClusterInv'
BY DEF IInv, ClusterInv, StaleDescriptorsReachNoOtherFile, Held

\* The slot and entry indices a descriptor stands for.
LEMMA DescriptorNumbers ==
  /\ \A e \in Entry: e + 2 \in Fd /\ e \in Channel /\ (e + 2) - 2 = e
  /\ \A fd \in Fd: fd - 2 \in Entry /\ fd - 2 \in Channel /\ fd \in Channel /\ fd \in Int
BY SizesAssumption DEF Entry, Fd, Channel

\* The entry of a descriptor that is held is open.
LEMMA HeldIsOpen ==
  ASSUME IInv, NEW p \in Proc, NEW fd \in Held(p)
  PROVE  open_file_table[fd - 2].startCluster # NoCluster
<1>1. held[p][fd] \in [file: File, cluster: Cluster, image: BOOLEAN]
  BY DEF IInv, TypeOK
<1>2. open_file_table[fd - 2].startCluster = held[p][fd].cluster
  BY DEF IInv, DescriptorInv
<1> QED BY <1>1, <1>2, SizesAssumption DEF Cluster, NoCluster

\* sys_open gives p a descriptor nobody holds, because its entry was free.
LEMMA OpenIInv ==
  ASSUME IInv, NEW p \in alive, NEW f \in File, NEW mode \in Mode, sys_open(p, f, mode)
  PROVE  IInv'
<1> p \in Proc
  BY DEF IInv, TypeOK
<1>0. Resolve(f) /\ alive' = alive
  BY DEF sys_open
<1>1. PICK e \in Entry:
       /\ IsFirstFree(e)
       /\ channel' = [channel EXCEPT ![p][e] = [fd |-> e + 2, OFT_entry_num |-> e]]
       /\ open_file_table' = [open_file_table EXCEPT ![e] =
            [startCluster |-> cluster'[f], openCount |-> 1, access_offset |-> 0, permissions |-> mode]]
       /\ held' = [held EXCEPT ![p] =
            [fd \in Held(p) \cup {e + 2} |->
               IF fd = e + 2 THEN Opened(f) ELSE held[p][fd]]]
  BY DEF sys_open
<1>2. open_file_table[e].startCluster = NoCluster
  BY <1>1 DEF IsFirstFree
<1>3. /\ cluster' \in [File -> {NoCluster} \cup Cluster]
      /\ whereClusters' \in 1..LastCluster+1 /\ image' \subseteq image
      /\ whereClusters <= whereClusters'
      /\ cluster'[f] \in Cluster
      /\ \A g \in File \ image': cluster'[g] < whereClusters'
      /\ \A g, h \in File: cluster'[g] = cluster'[h] /\ cluster'[g] # NoCluster => g = h
      /\ \A q \in Proc: \A fd \in Held(q), g \in File:
           cluster'[g] = held[q][fd].cluster =>
             g = held[q][fd].file \/ (held[q][fd].image /\ held[q][fd].cluster >= BootHint)
  BY <1>0, ResolveFacts
<1>4. e + 2 \in Fd /\ e \in Channel /\ (e + 2) - 2 = e
  BY DescriptorNumbers
<1>5. /\ DOMAIN held' = Proc
      /\ held'[p] = [fd \in Held(p) \cup {e + 2} |->
            IF fd = e + 2 THEN Opened(f) ELSE held[p][fd]]
      /\ \A q \in Proc \ {p}: held'[q] = held[q]
  BY <1>1 DEF IInv, TypeOK
<1>6. /\ Held(p)' = Held(p) \cup {e + 2}
      /\ \A q \in Proc \ {p}: Held(q)' = Held(q)
      /\ held'[p][e + 2] = [file |-> f, cluster |-> cluster'[f], image |-> f \in image']
  BY <1>5 DEF Held, Opened
<1>7. \A q \in Proc: \A fd \in Held(q):
        /\ fd \in Fd /\ fd \in Int /\ fd - 2 # e /\ fd # e + 2
        /\ held'[q][fd] = held[q][fd]
  <2> SUFFICES ASSUME NEW q \in Proc, NEW fd \in Held(q)
               PROVE /\ fd \in Fd /\ fd \in Int /\ fd - 2 # e /\ fd # e + 2
                     /\ held'[q][fd] = held[q][fd]
    OBVIOUS
  <2>1. fd \in Fd /\ fd \in Int
    BY DescriptorNumbers DEF IInv, TypeOK
  <2>2. open_file_table[fd - 2].startCluster # NoCluster
    BY HeldIsOpen
  <2>3. fd - 2 # e /\ fd # e + 2
    BY <1>2, <1>4, <2>1, <2>2
  <2>4. held'[q][fd] = held[q][fd]
    BY <1>5, <2>3
  <2> QED BY <2>1, <2>3, <2>4
<1>8. TypeOK'
  <2>1. channel' \in [Proc -> [Channel -> [fd: {0} \cup Fd, OFT_entry_num: {-1} \cup Entry]]]
    BY <1>1, <1>4 DEF IInv, TypeOK
  <2>2. open_file_table' \in [Entry -> {NoEntry} \cup OpenEntry]
    BY <1>1, <1>3, SizesAssumption DEF IInv, TypeOK, OpenEntry, Offset
  <2>3. \A q \in Proc: /\ Held(q)' \subseteq Fd
                       /\ \A fd \in Held(q)': held'[q][fd] \in [file: File, cluster: Cluster, image: BOOLEAN]
    <3>1. Held(p)' \subseteq Fd /\ held'[p][e + 2] \in [file: File, cluster: Cluster, image: BOOLEAN]
      BY <1>3, <1>4, <1>6 DEF IInv, TypeOK
    <3>2. \A q \in Proc: \A fd \in Held(q): held'[q][fd] \in [file: File, cluster: Cluster, image: BOOLEAN]
      BY <1>7 DEF IInv, TypeOK
    <3>3. \A q \in Proc: \A fd \in Held(q)': fd \in Held(q) \/ (q = p /\ fd = e + 2)
      BY <1>6
    <3>4. \A q \in Proc: Held(q)' \subseteq Fd
      BY <1>6, <3>1 DEF IInv, TypeOK
    <3> QED BY <3>1, <3>2, <3>3, <3>4
  <2>4. alive' \subseteq Proc /\ image' \subseteq OldFiles
    BY <1>0, <1>3 DEF IInv, TypeOK
  <2> QED BY <1>3, <1>5, <2>1, <2>2, <2>3, <2>4 DEF TypeOK
<1>9. DescriptorInv'
  <2>1. \A q \in Proc: \A i \in Channel: ~(q = p /\ i = e) => channel'[q][i] = channel[q][i]
    BY <1>1 DEF IInv, TypeOK
  <2>2. channel'[p][e].OFT_entry_num = e /\ open_file_table'[e].startCluster = cluster'[f]
    BY <1>1, <1>4 DEF IInv, TypeOK
  <2>3. \A d \in Entry \ {e}: open_file_table'[d] = open_file_table[d]
    BY <1>1 DEF IInv, TypeOK
  <2>4. ASSUME NEW q \in Proc, NEW fd \in Held(q)'
        PROVE  /\ EntryOf(q, fd)' = fd - 2
               /\ open_file_table'[fd - 2].startCluster = held'[q][fd].cluster
    <3>1. CASE fd = e + 2
      BY <1>4, <1>6, <1>7, <2>2, <3>1 DEF EntryOf
    <3>2. CASE fd # e + 2
      BY <1>6, <1>7, <2>1, <2>3, <3>2, DescriptorNumbers DEF EntryOf, IInv, DescriptorInv
    <3> QED BY <3>1, <3>2
  <2>5. \A q, r \in Proc: q # r => Held(q)' \cap Held(r)' = {}
    BY <1>6, <1>7 DEF IInv, DescriptorInv
  <2>6. \A q \in Proc \ alive': Held(q)' = {}
    BY <1>0, <1>6 DEF IInv, DescriptorInv
  <2> QED BY <2>4, <2>5, <2>6 DEF DescriptorInv
<1>10. ClusterInv'
  <2>0. /\ whereClusters \in Int /\ whereClusters' \in Int
        /\ BootHint \in Int /\ BootHint <= whereClusters
    BY <1>3, SizesAssumption, HintAssumption DEF IInv, TypeOK, ClusterInv
  <2>1. ASSUME NEW q \in Proc, NEW fd \in Held(q)'
        PROVE  /\ held'[q][fd].image \/ held'[q][fd].cluster < whereClusters'
               /\ \A g \in File: cluster'[g] = held'[q][fd].cluster =>
                    \/ g = held'[q][fd].file
                    \/ held'[q][fd].image /\ held'[q][fd].cluster >= BootHint
    <3>1. CASE fd \in Held(q)
      <4>1. /\ held[q][fd].image \/ held[q][fd].cluster < whereClusters
            /\ held[q][fd].cluster \in Cluster
        BY <3>1 DEF IInv, TypeOK, ClusterInv
      <4>2. held[q][fd].cluster \in Int
        BY <4>1, SizesAssumption DEF Cluster
      <4> QED BY <1>3, <1>7, <2>0, <3>1, <4>1, <4>2
    <3>2. CASE fd \notin Held(q)
      <4>1. q = p /\ fd = e + 2
        BY <1>6, <3>2
      <4>2. /\ held'[q][fd].file = f /\ held'[q][fd].cluster = cluster'[f]
            /\ held'[q][fd].image = (f \in image')
        BY <1>6, <4>1
      <4>3. cluster'[f] # NoCluster
        BY <1>3, SizesAssumption DEF Cluster, NoCluster
      <4>4. held'[q][fd].image \/ held'[q][fd].cluster < whereClusters'
        BY <1>3, <4>2
      <4>5. \A g \in File: cluster'[g] = held'[q][fd].cluster => g = held'[q][fd].file
        BY <1>3, <4>2, <4>3
      <4> QED BY <4>4, <4>5
    <3> QED BY <3>1, <3>2
  <2> QED BY <1>3, <2>0, <2>1 DEF ClusterInv, StaleDescriptorsReachNoOtherFile, Held
<1> QED BY <1>8, <1>9, <1>10 DEF IInv

\* sys_close clears the entry of a descriptor nobody else holds, and a slot whose
\* entry number stays.
LEMMA CloseIInv ==
  ASSUME IInv, NEW p \in alive, NEW fd \in Held(p), sys_close(p, fd)
  PROVE  IInv'
<1>1. p \in Proc /\ fd \in Fd /\ fd - 2 \in Entry /\ fd \in Channel /\ fd - 2 \in Channel
  BY DescriptorNumbers DEF IInv, TypeOK
<1>2. EntryOf(p, fd) = fd - 2 /\ open_file_table[fd - 2].startCluster # NoCluster
  BY <1>1, SizesAssumption DEF IInv, TypeOK, DescriptorInv, Cluster, NoCluster
<1>3. open_file_table[fd - 2] \in OpenEntry
  BY <1>1, <1>2 DEF IInv, TypeOK, NoEntry
<1>4. ~(open_file_table[fd - 2].openCount > 1)
  BY <1>3 DEF OpenEntry
<1>5. /\ open_file_table' = [open_file_table EXCEPT ![fd - 2] = NoEntry]
      /\ channel' = [channel EXCEPT ![p][fd].fd = 0]
      /\ held' = [held EXCEPT ![p] = [d \in Held(p) \ {fd} |-> held[p][d]]]
      /\ UNCHANGED <<cluster, whereClusters, image, alive>>
  BY <1>1, <1>2, <1>4 DEF sys_close, ClosedEntry, Flagged
<1>6. /\ DOMAIN held' = Proc
      /\ held'[p] = [d \in Held(p) \ {fd} |-> held[p][d]]
      /\ \A q \in Proc \ {p}: held'[q] = held[q]
  BY <1>1, <1>5 DEF IInv, TypeOK
<1>7. /\ Held(p)' = Held(p) \ {fd}
      /\ \A q \in Proc \ {p}: Held(q)' = Held(q)
      /\ \A q \in Proc: \A d \in Held(q)': held'[q][d] = held[q][d]
  BY <1>6 DEF Held
<1>8. \A q \in Proc: \A d \in Held(q)': d \in Held(q) /\ d \in Fd /\ d # fd
  <2>1. \A q \in Proc \ {p}: fd \notin Held(q)
    BY <1>1 DEF IInv, DescriptorInv
  <2> QED BY <1>7, <2>1 DEF IInv, TypeOK
<1>9. TypeOK'
  <2>1. channel' \in [Proc -> [Channel -> [fd: {0} \cup Fd, OFT_entry_num: {-1} \cup Entry]]]
    <3>1. channel[p] \in [Channel -> [fd: {0} \cup Fd, OFT_entry_num: {-1} \cup Entry]]
      BY <1>1 DEF IInv, TypeOK
    <3>2. [channel[p] EXCEPT ![fd].fd = 0] \in [Channel -> [fd: {0} \cup Fd, OFT_entry_num: {-1} \cup Entry]]
      BY <1>1, <3>1
    <3> QED BY <1>1, <1>5, <3>2 DEF IInv, TypeOK
  <2>2. open_file_table' \in [Entry -> {NoEntry} \cup OpenEntry]
    BY <1>5 DEF IInv, TypeOK
  <2>3. \A q \in Proc: /\ Held(q)' \subseteq Fd
                       /\ \A d \in Held(q)': held'[q][d] \in [file: File, cluster: Cluster, image: BOOLEAN]
    BY <1>7, <1>8 DEF IInv, TypeOK
  <2> QED BY <1>5, <1>6, <2>1, <2>2, <2>3 DEF IInv, TypeOK
<1>10. DescriptorInv'
  <2>1. \A q \in Proc: \A i \in Channel: channel'[q][i].OFT_entry_num = channel[q][i].OFT_entry_num
    BY <1>1, <1>5 DEF IInv, TypeOK
  <2>2. \A d \in Entry \ {fd - 2}: open_file_table'[d] = open_file_table[d]
    BY <1>5 DEF IInv, TypeOK
  <2>3. ASSUME NEW q \in Proc, NEW d \in Held(q)'
        PROVE  /\ EntryOf(q, d)' = d - 2
               /\ open_file_table'[d - 2].startCluster = held'[q][d].cluster
    <3>1. d \in Held(q) /\ d - 2 \in Entry /\ d - 2 \in Channel /\ d - 2 # fd - 2
      BY <1>1, <1>8, DescriptorNumbers
    <3> QED BY <1>7, <2>1, <2>2, <3>1 DEF EntryOf, IInv, DescriptorInv
  <2>4. \A q, r \in Proc: q # r => Held(q)' \cap Held(r)' = {}
    BY <1>8 DEF IInv, DescriptorInv
  <2>5. \A q \in Proc \ alive': Held(q)' = {}
    BY <1>5, <1>7 DEF IInv, DescriptorInv
  <2> QED BY <2>3, <2>4, <2>5 DEF DescriptorInv
<1>11. ClusterInv'
  BY <1>5, <1>7, <1>8 DEF IInv, ClusterInv, StaleDescriptorsReachNoOtherFile
<1> QED BY <1>9, <1>10, <1>11 DEF IInv

\* read, write and lseek change one offset, of an entry that is open.
LEMMA MoveIInv ==
  ASSUME IInv, NEW p \in alive, NEW fd \in Held(p), NEW n, MoveTo(p, fd, n)
  PROVE  IInv'
<1>1. p \in Proc /\ fd \in Fd /\ fd - 2 \in Entry
  BY DescriptorNumbers DEF IInv, TypeOK
<1>2. EntryOf(p, fd) = fd - 2 /\ open_file_table[fd - 2].startCluster # NoCluster
  BY <1>1, SizesAssumption DEF IInv, TypeOK, DescriptorInv, Cluster, NoCluster
<1>3. open_file_table[fd - 2] \in OpenEntry
  BY <1>1, <1>2 DEF IInv, TypeOK, NoEntry
<1>4. /\ n \in Offset
      /\ open_file_table' = [open_file_table EXCEPT ![fd - 2].access_offset = n]
      /\ UNCHANGED <<channel, cluster, whereClusters, image, alive, held>>
  BY <1>2 DEF MoveTo
<1>5. TypeOK'
  <2>1. [open_file_table[fd - 2] EXCEPT !.access_offset = n] \in OpenEntry
    BY <1>3, <1>4 DEF OpenEntry
  <2>2. open_file_table' \in [Entry -> {NoEntry} \cup OpenEntry]
    BY <1>1, <1>4, <2>1 DEF IInv, TypeOK
  <2> QED BY <1>4, <2>2 DEF IInv, TypeOK, Held
<1>6. DescriptorInv'
  <2>1. \A d \in Entry: open_file_table'[d].startCluster = open_file_table[d].startCluster
    BY <1>3, <1>4 DEF IInv, TypeOK, OpenEntry
  <2> QED BY <1>4, <2>1, DescriptorNumbers DEF IInv, TypeOK, DescriptorInv, Held, EntryOf
<1>7. ClusterInv'
  BY <1>4, SameHeld
<1> QED BY <1>5, <1>6, <1>7 DEF IInv

\* unlink takes a path away and nothing else.
LEMMA UnlinkIInv ==
  ASSUME IInv, NEW p \in alive, NEW f \in File, sys_unlink(p, f)
  PROVE  IInv'
<1>1. TypeOK'
  BY DEF IInv, TypeOK, sys_unlink, Held
<1>2. DescriptorInv'
  BY DEF IInv, DescriptorInv, sys_unlink, Held, EntryOf
<1>3. \A g \in File: cluster'[g] = IF g = f THEN NoCluster ELSE cluster[g]
  BY DEF IInv, TypeOK, sys_unlink
<1>4. \A q \in Proc: \A fd \in Held(q): held[q][fd].cluster # NoCluster
  BY SizesAssumption DEF IInv, TypeOK, Cluster, NoCluster
<1>5. NoCluster < whereClusters
  BY SizesAssumption DEF IInv, TypeOK, NoCluster
<1>6. ClusterInv'
  BY <1>3, <1>4, <1>5 DEF IInv, ClusterInv, StaleDescriptorsReachNoOtherFile, sys_unlink, Held
<1> QED BY <1>1, <1>2, <1>6 DEF IInv

\* A child starts with its parent's tables and, being forked by a program that
\* holds no descriptor, with none of its own.
LEMMA ForkIInv ==
  ASSUME IInv, Private, NEW p \in alive, NEW child \in Proc, sys_fork(p, child)
  PROVE  IInv'
<1>1. p \in Proc /\ Held(p) = {}
  BY DEF IInv, TypeOK, sys_fork, Private
<1>2. /\ DOMAIN held' = Proc
      /\ Held(child)' = {}
      /\ \A q \in Proc \ {child}: held'[q] = held[q] /\ Held(q)' = Held(q)
      /\ \A q \in Proc \ {child}: channel'[q] = channel[q]
      /\ UNCHANGED <<open_file_table, cluster, whereClusters, image>>
  BY <1>1 DEF IInv, TypeOK, sys_fork, Held
<1>3. TypeOK'
  <2>1. channel' \in [Proc -> [Channel -> [fd: {0} \cup Fd, OFT_entry_num: {-1} \cup Entry]]]
    BY <1>1 DEF IInv, TypeOK, sys_fork
  <2>2. alive' \subseteq Proc
    BY DEF IInv, TypeOK, sys_fork
  <2> QED BY <1>2, <2>1, <2>2 DEF IInv, TypeOK
<1>4. DescriptorInv'
  <2>1. alive \subseteq alive'
    BY DEF sys_fork
  <2> QED BY <1>2, <2>1 DEF IInv, DescriptorInv, EntryOf
<1>5. ClusterInv'
  BY <1>2 DEF IInv, ClusterInv, StaleDescriptorsReachNoOtherFile
<1> QED BY <1>3, <1>4, <1>5 DEF IInv

\* A process that exits holds nothing any more; its tables stay.
LEMMA ExitIInv ==
  ASSUME IInv, NEW p \in alive, sys_exit(p)
  PROVE  IInv'
<1>1. p \in Proc
  BY DEF IInv, TypeOK
<1>2. /\ DOMAIN held' = Proc
      /\ Held(p)' = {}
      /\ \A q \in Proc \ {p}: held'[q] = held[q] /\ Held(q)' = Held(q)
      /\ UNCHANGED <<channel, open_file_table, cluster, whereClusters, image>>
  BY <1>1 DEF IInv, TypeOK, sys_exit, Held, Nothing
<1>3. TypeOK'
  <2>1. alive' \subseteq Proc
    BY DEF IInv, TypeOK, sys_exit
  <2> QED BY <1>2, <2>1 DEF IInv, TypeOK
<1>4. DescriptorInv'
  <2>1. alive' = alive \ {p}
    BY DEF sys_exit
  <2> QED BY <1>2, <2>1 DEF IInv, DescriptorInv, EntryOf
<1>5. ClusterInv'
  BY <1>2 DEF IInv, ClusterInv, StaleDescriptorsReachNoOtherFile
<1> QED BY <1>3, <1>4, <1>5 DEF IInv

\* An open that fails with -EMFILE may have created its file, and did no more.
LEMMA OpenFailsIInv ==
  ASSUME IInv, NEW p \in alive, NEW f \in File, sys_open_fails(p, f)
  PROVE  IInv'
<1>1. Resolve(f) /\ UNCHANGED <<channel, open_file_table, alive, held>>
  BY DEF sys_open_fails
<1>2. /\ cluster' \in [File -> {NoCluster} \cup Cluster]
      /\ whereClusters' \in 1..LastCluster+1 /\ image' \subseteq image
      /\ whereClusters <= whereClusters'
      /\ cluster'[f] \in Cluster
      /\ \A g \in File \ image': cluster'[g] < whereClusters'
      /\ \A g, h \in File: cluster'[g] = cluster'[h] /\ cluster'[g] # NoCluster => g = h
      /\ \A q \in Proc: \A fd \in Held(q), g \in File:
           cluster'[g] = held[q][fd].cluster =>
             g = held[q][fd].file \/ (held[q][fd].image /\ held[q][fd].cluster >= BootHint)
  BY <1>1, ResolveFacts
<1>3. TypeOK'
  BY <1>1, <1>2 DEF IInv, TypeOK, Held
<1>4. DescriptorInv'
  BY <1>1 DEF IInv, DescriptorInv, Held, EntryOf
<1>5. BootHint <= whereClusters'
  BY <1>2, HintAssumption, SizesAssumption DEF IInv, TypeOK, ClusterInv
<1>6. ASSUME NEW q \in Proc, NEW fd \in Held(q)
      PROVE  held[q][fd].image \/ held[q][fd].cluster < whereClusters'
  <2>1. /\ held[q][fd].image \/ held[q][fd].cluster < whereClusters
        /\ held[q][fd].cluster \in Cluster
    BY DEF IInv, TypeOK, ClusterInv
  <2>2. whereClusters \in Int /\ whereClusters' \in Int /\ held[q][fd].cluster \in Int
    BY <1>2, <2>1, SizesAssumption DEF IInv, TypeOK, Cluster
  <2> QED BY <1>2, <2>1, <2>2
<1>7. ClusterInv'
  BY <1>1, <1>2, <1>5, <1>6 DEF ClusterInv, StaleDescriptorsReachNoOtherFile, Held
<1> QED BY <1>3, <1>4, <1>7 DEF IInv

\* IInv is preserved by every step.
LEMMA NextIInv == ASSUME Private, IInv, [Next]_vars PROVE IInv'
<1>1. CASE UNCHANGED vars
  BY <1>1 DEF vars, IInv, TypeOK, DescriptorInv, ClusterInv, StaleDescriptorsReachNoOtherFile, Held, EntryOf
<1>2. CASE Next
  <2>1. PICK p \in alive:
          \/ \E f \in File: (\E mode \in Mode: sys_open(p, f, mode)) \/ sys_open_fails(p, f) \/ sys_unlink(p, f)
          \/ \E fd \in Held(p): UseDescriptor(p, fd)
          \/ \E child \in Proc: sys_fork(p, child)
          \/ sys_exit(p)
    BY <1>2 DEF Next
  <2>2. CASE \E f \in File: (\E mode \in Mode: sys_open(p, f, mode)) \/ sys_open_fails(p, f) \/ sys_unlink(p, f)
    BY <2>2, OpenIInv, OpenFailsIInv, UnlinkIInv
  <2>3. CASE \E fd \in Held(p): UseDescriptor(p, fd)
    <3>1. PICK fd \in Held(p): UseDescriptor(p, fd)
      BY <2>3
    <3>2. CASE sys_close(p, fd)
      BY <3>2, CloseIInv
    <3>3. CASE \E n: MoveTo(p, fd, n)
      BY <3>3, MoveIInv
    <3> QED BY <3>1, <3>2, <3>3 DEF UseDescriptor, sys_read, sys_write, sys_lseek
  <2>4. CASE \E child \in Proc: sys_fork(p, child)
    BY <2>4, ForkIInv
  <2>5. CASE sys_exit(p)
    BY <2>5, ExitIInv
  <2> QED BY <2>1, <2>2, <2>3, <2>4, <2>5
<1> QED BY <1>1, <1>2

-----------------------------------------------------------------------------
(* What follows for every behaviour *)

\* The tables stay well typed when programs fork only while they hold nothing.
THEOREM TypeCorrect == ASSUME Private PROVE Spec => []TypeOK
<1>1. IInv => TypeOK
  BY DEF IInv
<1> QED BY <1>1, InitIInv, NextIInv, PTL DEF Spec

\* Whatever the table sizes, the mix of slot and entry numbers in open and close
\* never leads a held descriptor to a wrong or a closed entry.
THEOREM DescriptorsAreRight == ASSUME Private PROVE Spec => []DescriptorsReachTheirFile
<1>1. IInv => DescriptorsReachTheirFile
  BY DescriptorNumbers DEF IInv, TypeOK, DescriptorInv, DescriptorsReachTheirFile
<1> QED BY <1>1, InitIInv, NextIInv, PTL DEF Spec

\* Whatever hint FSInfo holds at boot and wherever the image's files lie, a
\* descriptor of an unlinked file never reaches another file's clusters, except
\* one of an image file that lay at or above that hint.
THEOREM StaleDescriptorsAreHarmless ==
  ASSUME Private PROVE Spec => []StaleDescriptorsReachNoOtherFile
<1>1. IInv => StaleDescriptorsReachNoOtherFile
  BY DEF IInv, ClusterInv
<1> QED BY <1>1, InitIInv, NextIInv, PTL DEF Spec

-----------------------------------------------------------------------------
(* OpenFiles implements Descriptors *)

\* A descriptor that is held is a descriptor of the abstract specification.
LEMMA ViewOfHeld ==
  ASSUME IInv, NEW p \in Proc, NEW fd \in Held(p)
  PROVE  /\ View(p, fd) = [cluster |-> open_file_table[fd - 2].startCluster,
                           offset |-> open_file_table[fd - 2].access_offset,
                           mode |-> open_file_table[fd - 2].permissions]
         /\ View(p, fd) # NoEntry
<1>1. View(p, fd) = [cluster |-> open_file_table[fd - 2].startCluster,
                     offset |-> open_file_table[fd - 2].access_offset,
                     mode |-> open_file_table[fd - 2].permissions]
  BY DEF View, IInv, DescriptorInv
<1>2. View(p, fd) # NoEntry
  <2>1. "startCluster" \notin DOMAIN View(p, fd)
    BY <1>1
  <2>2. "startCluster" \in DOMAIN NoEntry
    BY DEF NoEntry
  <2> QED BY <2>1, <2>2
<1> QED BY <1>1, <1>2

\* Views of two states differ only where something a descriptor depends on does.
LEMMA SameView ==
  ASSUME IInv, IInv', NEW p \in Proc, NEW fd \in Fd,
         fd \in Held(p)' <=> fd \in Held(p),
         fd \in Held(p) => open_file_table'[fd - 2] = open_file_table[fd - 2]
  PROVE  View(p, fd)' = View(p, fd)
BY DEF View, IInv, DescriptorInv

\* sys_open is Open of the descriptor with the entry's number.
LEMMA OpenImplements ==
  ASSUME IInv, IInv', NEW p \in alive, NEW f \in File, NEW mode \in Mode, sys_open(p, f, mode)
  PROVE  D!Next
<1>1. p \in Proc
  BY DEF IInv, TypeOK
<1>2. PICK e \in Entry:
       /\ IsFirstFree(e)
       /\ open_file_table' = [open_file_table EXCEPT ![e] =
            [startCluster |-> cluster'[f], openCount |-> 1, access_offset |-> 0, permissions |-> mode]]
       /\ held' = [held EXCEPT ![p] =
            [fd \in Held(p) \cup {e + 2} |->
               IF fd = e + 2 THEN Opened(f) ELSE held[p][fd]]]
  BY DEF sys_open
<1>3. open_file_table[e].startCluster = NoCluster
  BY <1>2 DEF IsFirstFree
<1>4. e + 2 \in Fd /\ (e + 2) - 2 = e /\ \A fd \in Fd: fd # e + 2 => fd - 2 # e
  BY DescriptorNumbers DEF Fd, Entry
<1>5. cluster'[f] \in Cluster
  BY ResolveFacts DEF sys_open
<1>6. \A q \in Proc: e + 2 \notin Held(q)
  BY <1>3, <1>4, HeldIsOpen
<1>7. /\ Held(p)' = Held(p) \cup {e + 2}
      /\ \A q \in Proc \ {p}: Held(q)' = Held(q)
  BY <1>1, <1>2 DEF IInv, TypeOK, Held
<1>8. ASSUME NEW q \in Proc, NEW fd \in Fd, ~(q = p /\ fd = e + 2)
      PROVE  View(q, fd)' = View(q, fd)
  <2>1. fd \in Held(q)' <=> fd \in Held(q)
    BY <1>7, <1>8
  <2>2. fd \in Held(q) => open_file_table'[fd - 2] = open_file_table[fd - 2]
    BY <1>2, <1>4, <1>6, DescriptorNumbers DEF IInv, TypeOK
  <2> QED BY <2>1, <2>2, SameView
<1>9. View(p, e + 2)' = [cluster |-> cluster'[f], offset |-> 0, mode |-> mode]
  <2>1. open_file_table'[e] =
          [startCluster |-> cluster'[f], openCount |-> 1, access_offset |-> 0, permissions |-> mode]
    BY <1>2 DEF IInv, TypeOK
  <2>2. e + 2 \in Held(p)'
    BY <1>7
  <2>3. EntryOf(p, e + 2)' = e
    BY <1>1, <1>4, <2>2 DEF IInv, DescriptorInv
  <2> QED BY <2>1, <2>2, <2>3 DEF View
<1>10. Views' = [Views EXCEPT ![p][e + 2] = [cluster |-> cluster'[f], offset |-> 0, mode |-> mode]]
  BY <1>1, <1>4, <1>8, <1>9 DEF Views
<1>11. Views[p][e + 2] = NoEntry
  BY <1>1, <1>4, <1>6 DEF Views, View
<1>12. Views'[p][e + 2] = [cluster |-> cluster'[f], offset |-> 0, mode |-> mode]
  BY <1>1, <1>4, <1>9 DEF Views
<1>13. Views'[p][e + 2] \in [cluster: Cluster, offset: {0}, mode: Mode]
  BY <1>5, <1>12
<1>14. Views' = [Views EXCEPT ![p][e + 2] = Views'[p][e + 2]]
  BY <1>10, <1>12
<1>15. D!Open(p, e + 2)
  BY <1>11, <1>13, <1>14 DEF D!Open, D!Changes
<1> QED BY <1>1, <1>4, <1>15 DEF D!Next

\* A close that succeeds is Close of that descriptor and of no other.
LEMMA CloseImplements ==
  ASSUME IInv, IInv', NEW p \in alive, NEW fd \in Held(p), sys_close(p, fd)
  PROVE  D!Next
<1>1. p \in Proc /\ fd \in Fd /\ \A d \in Fd: d # fd => d - 2 # fd - 2
  BY DescriptorNumbers DEF IInv, TypeOK
<1>2. EntryOf(p, fd) = fd - 2
  BY <1>1 DEF IInv, DescriptorInv
<1>3. \A e \in Entry: e # fd - 2 => open_file_table'[e] = open_file_table[e]
  BY <1>2 DEF sys_close, ClosedEntry, IInv, TypeOK
<1>4. /\ Held(p)' = Held(p) \ {fd}
      /\ \A q \in Proc \ {p}: Held(q)' = Held(q)
  BY <1>1 DEF sys_close, IInv, TypeOK, Held
<1>5. ASSUME NEW q \in Proc, NEW d \in Fd, ~(q = p /\ d = fd)
      PROVE  View(q, d)' = View(q, d)
  <2>1. d \in Held(q)' <=> d \in Held(q)
    BY <1>4, <1>5
  <2>2. d \in Held(q) => d # fd
    BY <1>1, <1>5 DEF IInv, DescriptorInv
  <2>3. d \in Held(q) => open_file_table'[d - 2] = open_file_table[d - 2]
    BY <1>1, <1>3, <2>2, DescriptorNumbers
  <2> QED BY <2>1, <2>3, SameView
<1>6. View(p, fd)' = NoEntry
  BY <1>4 DEF View
<1>7. Views' = [Views EXCEPT ![p][fd] = NoEntry]
  BY <1>1, <1>5, <1>6 DEF Views
<1>8. Views[p][fd] # NoEntry
  BY <1>1, ViewOfHeld DEF Views
<1>9. D!Close(p, fd)
  BY <1>7, <1>8 DEF D!Close
<1> QED BY <1>1, <1>9 DEF D!Next

\* read, write and lseek are Move of that descriptor and of no other.
LEMMA MoveImplements ==
  ASSUME IInv, IInv', NEW p \in alive, NEW fd \in Held(p), NEW n, MoveTo(p, fd, n)
  PROVE  D!Next
<1>1. p \in Proc /\ fd \in Fd /\ fd - 2 \in Entry /\ \A d \in Fd: d # fd => d - 2 # fd - 2
  BY DescriptorNumbers DEF IInv, TypeOK
<1>2. EntryOf(p, fd) = fd - 2
  BY <1>1 DEF IInv, DescriptorInv
<1>3. /\ n \in Offset
      /\ open_file_table' = [open_file_table EXCEPT ![fd - 2].access_offset = n]
      /\ \A q \in Proc: Held(q)' = Held(q)
  BY <1>2 DEF MoveTo, Held
<1>4. ASSUME NEW q \in Proc, NEW d \in Fd, ~(q = p /\ d = fd)
      PROVE  View(q, d)' = View(q, d)
  <2>1. d \in Held(q) => d # fd
    BY <1>1, <1>4 DEF IInv, DescriptorInv
  <2>2. d \in Held(q) => open_file_table'[d - 2] = open_file_table[d - 2]
    BY <1>1, <1>3, <2>1, DescriptorNumbers DEF IInv, TypeOK
  <2> QED BY <1>3, <2>2, SameView
<1>5. /\ View(p, fd) = [cluster |-> open_file_table[fd - 2].startCluster,
                        offset |-> open_file_table[fd - 2].access_offset,
                        mode |-> open_file_table[fd - 2].permissions]
      /\ View(p, fd) # NoEntry
  BY <1>1, ViewOfHeld
<1>6. View(p, fd)' = [View(p, fd) EXCEPT !.offset = n]
  <2>1. open_file_table[fd - 2] \in OpenEntry
    BY <1>1, SizesAssumption DEF IInv, TypeOK, DescriptorInv, NoEntry, NoCluster, Cluster
  <2>2. /\ open_file_table'[fd - 2].startCluster = open_file_table[fd - 2].startCluster
        /\ open_file_table'[fd - 2].access_offset = n
        /\ open_file_table'[fd - 2].permissions = open_file_table[fd - 2].permissions
    BY <1>1, <1>3, <2>1 DEF IInv, TypeOK, OpenEntry
  <2>3. View(p, fd)' = [cluster |-> open_file_table[fd - 2].startCluster, offset |-> n,
                        mode |-> open_file_table[fd - 2].permissions]
    <3>1. fd \in Held(p)' /\ EntryOf(p, fd)' = fd - 2
      BY <1>1, <1>3 DEF IInv, DescriptorInv
    <3> QED BY <2>2, <3>1 DEF View
  <2> QED BY <1>5, <2>3
<1>7. Views[p][fd] = View(p, fd) /\ Views'[p][fd] = View(p, fd)'
  BY <1>1 DEF Views
<1>8. Views' = [Views EXCEPT ![p][fd] = Views'[p][fd]]
  BY <1>1, <1>4, <1>7 DEF Views
<1>9. D!Move(p, fd)
  BY <1>3, <1>5, <1>6, <1>7, <1>8 DEF D!Move, D!Changes
<1> QED BY <1>1, <1>9 DEF D!Next

\* An exit takes all descriptors of the process away.
LEMMA ExitImplements ==
  ASSUME IInv, IInv', NEW p \in alive, sys_exit(p)
  PROVE  D!Next
<1>1. p \in Proc
  BY DEF IInv, TypeOK
<1>2. Held(p)' = {} /\ \A q \in Proc \ {p}: Held(q)' = Held(q)
  BY <1>1 DEF sys_exit, IInv, TypeOK, Held, Nothing
<1>3. \A q \in Proc \ {p}, fd \in Fd: View(q, fd)' = View(q, fd)
  BY <1>2, SameView DEF sys_exit
<1>4. \A fd \in Fd: View(p, fd)' = NoEntry
  BY <1>2 DEF View
<1>5. Views' = [Views EXCEPT ![p] = [fd \in Fd |-> NoEntry]]
  BY <1>1, <1>3, <1>4 DEF Views
<1> QED BY <1>1, <1>5 DEF D!Next, D!Leave

\* The other calls leave every descriptor as it is.
LEMMA StutterImplements ==
  ASSUME IInv, IInv', open_file_table' = open_file_table, \A q \in Proc: Held(q)' = Held(q)
  PROVE  Views' = Views
BY SameView DEF Views

\* The open-file calls implement per-process descriptors for all table sizes and
\* any number of processes that fork only while they hold none.
THEOREM Implementation == ASSUME Private PROVE Spec => ImplementsDescriptors
<1>1. Init => D!Init
  <2> SUFFICES ASSUME Init PROVE D!Init
    OBVIOUS
  <2>1. \A p \in Proc: Held(p) = {}
    BY DEF Init, Held, Nothing
  <2> QED BY <2>1 DEF D!Init, Views, View
<1>2. ASSUME IInv, IInv', [Next]_vars PROVE [D!Next]_Views
  <2>1. CASE UNCHANGED vars
    BY <1>2, <2>1, StutterImplements DEF vars, Held
  <2>2. CASE Next
    <3>1. PICK p \in alive:
            \/ \E f \in File: (\E mode \in Mode: sys_open(p, f, mode)) \/ sys_open_fails(p, f) \/ sys_unlink(p, f)
            \/ \E fd \in Held(p): UseDescriptor(p, fd)
            \/ \E child \in Proc: sys_fork(p, child)
            \/ sys_exit(p)
      BY <2>2 DEF Next
    <3>2. CASE \E f \in File, mode \in Mode: sys_open(p, f, mode)
      BY <1>2, <3>2, OpenImplements
    <3>3. CASE \E f \in File: sys_open_fails(p, f) \/ sys_unlink(p, f)
      BY <1>2, <3>3, StutterImplements DEF sys_open_fails, sys_unlink, Held
    <3>4. CASE \E fd \in Held(p): UseDescriptor(p, fd)
      BY <1>2, <3>4, CloseImplements, MoveImplements DEF UseDescriptor, sys_read, sys_write, sys_lseek
    <3>5. CASE \E child \in Proc: sys_fork(p, child)
      <4>1. PICK child \in Proc: sys_fork(p, child)
        BY <3>5
      <4>2. Held(p) = {} /\ child \notin alive /\ p \in Proc
        BY <1>2, <4>1 DEF sys_fork, Private, IInv, TypeOK
      <4>3. Held(child) = {}
        BY <1>2, <4>2 DEF IInv, DescriptorInv
      <4> QED BY <1>2, <4>1, <4>2, <4>3, StutterImplements DEF sys_fork, Held, IInv, TypeOK
    <3>6. CASE sys_exit(p)
      BY <1>2, <3>6, ExitImplements
    <3> QED BY <3>1, <3>2, <3>3, <3>4, <3>5, <3>6
  <2> QED BY <1>2, <2>1, <2>2
<1> QED BY <1>1, <1>2, InitIInv, NextIInv, PTL DEF Spec, ImplementsDescriptors, D!Spec

-----------------------------------------------------------------------------
(* Entries that nobody can close any more *)

\* Any step keeps the orphans and makes new ones only out of an exiting process's entries.
OrphansStay == Orphans \subseteq Orphans'
OrphansOnlyByExit == \A e \in Orphans' \ Orphans: \E p \in alive \ alive': e + 2 \in Held(p)

\* sys_open fills a free entry, which its caller then holds.
LEMMA OpenOrphans ==
  ASSUME IInv, NEW p \in alive, NEW f \in File, NEW mode \in Mode, sys_open(p, f, mode)
  PROVE  OrphansStay /\ OrphansOnlyByExit
<1>1. p \in Proc /\ alive' = alive /\ alive \subseteq Proc
  BY DEF IInv, TypeOK, sys_open
<1>2. PICK e \in Entry:
       /\ IsFirstFree(e)
       /\ open_file_table' = [open_file_table EXCEPT ![e] =
            [startCluster |-> cluster'[f], openCount |-> 1, access_offset |-> 0, permissions |-> mode]]
       /\ held' = [held EXCEPT ![p] =
            [fd \in Held(p) \cup {e + 2} |->
               IF fd = e + 2 THEN Opened(f) ELSE held[p][fd]]]
  BY DEF sys_open
<1>3. /\ Held(p)' = Held(p) \cup {e + 2}
      /\ \A q \in Proc \ {p}: Held(q)' = Held(q)
  BY <1>1, <1>2 DEF IInv, TypeOK, Held
<1>4. /\ open_file_table[e].startCluster = NoCluster
      /\ \A d \in Entry: d # e => open_file_table'[d] = open_file_table[d]
  BY <1>2 DEF IInv, TypeOK, IsFirstFree
<1>5. \A d \in Entry: d # e => d + 2 # e + 2
  BY DescriptorNumbers DEF Entry
<1>6. e \notin Orphans /\ e \notin Orphans'
  BY <1>1, <1>3, <1>4 DEF Orphans
<1>7. \A d \in Entry: d # e => (d \in Orphans <=> d \in Orphans')
  BY <1>1, <1>3, <1>4, <1>5 DEF Orphans
<1>8. Orphans \subseteq Entry /\ Orphans' \subseteq Entry
  BY DEF Orphans
<1> QED
  BY <1>6, <1>7, <1>8 DEF OrphansStay, OrphansOnlyByExit

\* sys_close frees the entry of the descriptor it takes away.
LEMMA CloseOrphans ==
  ASSUME IInv, NEW p \in alive, NEW fd \in Held(p), sys_close(p, fd)
  PROVE  OrphansStay /\ OrphansOnlyByExit
<1>1. p \in Proc /\ fd \in Fd /\ fd - 2 \in Entry /\ alive' = alive /\ alive \subseteq Proc
  BY DescriptorNumbers DEF IInv, TypeOK, sys_close
<1>2. EntryOf(p, fd) = fd - 2 /\ open_file_table[fd - 2].startCluster # NoCluster
  BY <1>1, SizesAssumption DEF IInv, TypeOK, DescriptorInv, Cluster, NoCluster
<1>3. ~(open_file_table[fd - 2].openCount > 1)
  BY <1>1, <1>2 DEF IInv, TypeOK, NoEntry, OpenEntry
<1>4. open_file_table' = [open_file_table EXCEPT ![fd - 2] = NoEntry]
  BY <1>1, <1>2, <1>3 DEF sys_close, ClosedEntry, Flagged
<1>5. /\ open_file_table'[fd - 2].startCluster = NoCluster
      /\ \A d \in Entry: d # fd - 2 => open_file_table'[d] = open_file_table[d]
  BY <1>1, <1>4 DEF IInv, TypeOK, NoEntry
<1>6. /\ Held(p)' = Held(p) \ {fd}
      /\ \A q \in Proc \ {p}: Held(q)' = Held(q)
  BY <1>1 DEF sys_close, IInv, TypeOK, Held
<1>7. (fd - 2) + 2 = fd /\ \A d \in Entry: d # fd - 2 => d + 2 # fd
  BY <1>1 DEF Entry, Fd
<1>8. fd - 2 \notin Orphans /\ fd - 2 \notin Orphans'
  BY <1>1, <1>5, <1>7 DEF Orphans
<1>9. \A d \in Entry: d # fd - 2 => (d \in Orphans <=> d \in Orphans')
  BY <1>1, <1>5, <1>6, <1>7 DEF Orphans
<1>10. Orphans \subseteq Entry /\ Orphans' \subseteq Entry
  BY DEF Orphans
<1> QED
  BY <1>8, <1>9, <1>10 DEF OrphansStay, OrphansOnlyByExit

\* Calls that move an offset or change the directory only.
LEMMA SameOrphans ==
  ASSUME UNCHANGED alive, \A q \in alive: Held(q)' = Held(q),
         \A e \in Entry: open_file_table'[e].startCluster = open_file_table[e].startCluster
  PROVE  OrphansStay /\ OrphansOnlyByExit
BY DEF OrphansStay, OrphansOnlyByExit, Orphans

LEMMA MoveOrphans ==
  ASSUME IInv, NEW p \in alive, NEW fd \in Held(p), NEW n, MoveTo(p, fd, n)
  PROVE  OrphansStay /\ OrphansOnlyByExit
<1>1. p \in Proc /\ fd - 2 \in Entry
  BY DescriptorNumbers DEF IInv, TypeOK
<1>2. open_file_table[fd - 2] \in OpenEntry /\ EntryOf(p, fd) = fd - 2
  BY <1>1, SizesAssumption DEF IInv, TypeOK, DescriptorInv, NoEntry, NoCluster, Cluster
<1>3. open_file_table' = [open_file_table EXCEPT ![fd - 2].access_offset = n]
  BY <1>2 DEF MoveTo
<1>4. \A e \in Entry: open_file_table'[e].startCluster = open_file_table[e].startCluster
  BY <1>1, <1>2, <1>3 DEF IInv, TypeOK, OpenEntry
<1> QED
  BY <1>4, SameOrphans DEF MoveTo, Held

\* A child holds what its parent holds; an exiting process leaves its entries behind.
LEMMA ForkOrphans ==
  ASSUME IInv, NEW p \in alive, NEW child \in Proc, sys_fork(p, child)
  PROVE  OrphansStay /\ OrphansOnlyByExit
<1>1. /\ open_file_table' = open_file_table /\ alive' = alive \cup {child}
      /\ child \notin alive /\ alive \subseteq Proc
      /\ Held(child)' = Held(p) /\ \A q \in alive: Held(q)' = Held(q)
  BY DEF sys_fork, IInv, TypeOK, Held
<1> QED
  BY <1>1 DEF OrphansStay, OrphansOnlyByExit, Orphans

LEMMA ExitOrphans ==
  ASSUME IInv, NEW p \in alive, sys_exit(p)
  PROVE  OrphansStay /\ OrphansOnlyByExit
<1>1. /\ open_file_table' = open_file_table /\ alive' = alive \ {p}
      /\ \A q \in alive \ {p}: Held(q)' = Held(q)
  BY DEF sys_exit, IInv, TypeOK, Held
<1> QED
  BY <1>1 DEF OrphansStay, OrphansOnlyByExit, Orphans

\* Open entries without a descriptor come from sys_exit alone and stay for good: no
\* mix of open, close, unlink and fork loses an entry, and none gets one back.
THEOREM EntriesAreLostByExitOnly == ASSUME Private PROVE Spec => OrphansComeFromExit
<1>1. ASSUME IInv, [Next]_vars
      PROVE  [OrphansStay /\ OrphansOnlyByExit]_vars
  <2>1. CASE UNCHANGED vars
    BY <2>1
  <2>2. CASE Next
    <3>1. PICK p \in alive:
            \/ \E f \in File: (\E mode \in Mode: sys_open(p, f, mode)) \/ sys_open_fails(p, f) \/ sys_unlink(p, f)
            \/ \E fd \in Held(p): UseDescriptor(p, fd)
            \/ \E child \in Proc: sys_fork(p, child)
            \/ sys_exit(p)
      BY <2>2 DEF Next
    <3>2. CASE \E f \in File, mode \in Mode: sys_open(p, f, mode)
      BY <1>1, <3>2, OpenOrphans
    <3>3. CASE \E f \in File: sys_open_fails(p, f) \/ sys_unlink(p, f)
      BY <3>3, SameOrphans DEF sys_open_fails, sys_unlink, Held
    <3>4. CASE \E fd \in Held(p): UseDescriptor(p, fd)
      BY <1>1, <3>4, CloseOrphans, MoveOrphans DEF UseDescriptor, sys_read, sys_write, sys_lseek
    <3>5. CASE \E child \in Proc: sys_fork(p, child)
      BY <1>1, <3>5, ForkOrphans
    <3>6. CASE sys_exit(p)
      BY <1>1, <3>6, ExitOrphans
    <3> QED BY <3>1, <3>2, <3>3, <3>4, <3>5, <3>6
  <2> QED BY <1>1, <2>1, <2>2
<1>2. [OrphansStay /\ OrphansOnlyByExit]_vars
        => [/\ Orphans \subseteq Orphans'
            /\ \A e \in Orphans' \ Orphans: \E p \in alive \ alive': e + 2 \in Held(p)]_vars
  BY DEF OrphansStay, OrphansOnlyByExit
<1> QED BY <1>1, <1>2, InitIInv, NextIInv, PTL DEF Spec, OrphansComeFromExit
=============================================================================
