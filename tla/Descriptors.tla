---------------------------- MODULE Descriptors ----------------------------
(***************************************************************************)
(* What the open-file calls promise a program: every process has           *)
(* descriptors of its own, each with one file, one offset and one mode,    *)
(* and no call touches more than one of them.  Module OpenFiles implements *)
(* this with a channel table per process and one open file table.          *)
(***************************************************************************)
CONSTANTS Proc, Fd, Cluster, Offset, Mode, NoDescriptor

VARIABLE desc   \* desc[p][fd]: NoDescriptor, or the file, offset and mode

Init == desc = [p \in Proc |-> [fd \in Fd |-> NoDescriptor]]

\* Only descriptor fd of p changes.
Changes(p, fd) == desc' = [desc EXCEPT ![p][fd] = desc'[p][fd]]

\* A fresh descriptor, at the start of the file.
Open(p, fd) ==
  /\ desc[p][fd] = NoDescriptor
  /\ desc'[p][fd] \in [cluster: Cluster, offset: {0}, mode: Mode]
  /\ Changes(p, fd)

\* read, write and lseek move this descriptor's offset.
Move(p, fd) ==
  /\ desc[p][fd] # NoDescriptor
  /\ \E o \in Offset: desc'[p][fd] = [desc[p][fd] EXCEPT !.offset = o]
  /\ Changes(p, fd)

Close(p, fd) ==
  /\ desc[p][fd] # NoDescriptor
  /\ desc' = [desc EXCEPT ![p][fd] = NoDescriptor]

Leave(p) == desc' = [desc EXCEPT ![p] = [fd \in Fd |-> NoDescriptor]]

Next == \E p \in Proc:
  Leave(p) \/ \E fd \in Fd: Open(p, fd) \/ Move(p, fd) \/ Close(p, fd)

Spec == Init /\ [][Next]_desc
=============================================================================
