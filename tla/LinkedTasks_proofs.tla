-------------------------- MODULE LinkedTasks_proofs --------------------------
(***************************************************************************)
(* Proofs about the linked lists (module LinkedTasks), for any number of   *)
(* PCBs and semaphores and whatever the programs call.                     *)
(***************************************************************************)
EXTENDS LinkedTasks, Tasks_proofs, WellFoundedInduction

Anchor == [next: Node \cup {NULL}, prev: Node \cup {NULL}]
Links == [Node -> Anchor]

\* What IsRing says of the list with head h and the tasks q, pointer by pointer.
Ring(l, h, q) ==
  /\ l[h].next = (IF q = <<>> THEN h ELSE q[1])
  /\ l[h].prev = (IF q = <<>> THEN h ELSE q[Len(q)])
  /\ \A i \in 1..Len(q): /\ l[q[i]].next = (IF i = Len(q) THEN h ELSE q[i + 1])
                         /\ l[q[i]].prev = (IF i = 1 THEN h ELSE q[i - 1])

-----------------------------------------------------------------------------
(* Nodes *)

\* No PCB is taken for the head of a list, and NULL is no node.
LEMMA Nodes ==
  /\ NULL \notin Node
  /\ ReadyQueue \in Node /\ FreeQueue \in Node /\ Sem \subseteq Node /\ Task \subseteq Node
  /\ Idle \in Node /\ Idle \notin Task
  /\ ReadyQueue # FreeQueue /\ ReadyQueue \notin Sem /\ FreeQueue \notin Sem
  /\ \A t \in Task \cup {Idle}: t # ReadyQueue /\ t # FreeQueue /\ t \notin Sem
<1>1. N_SEMAFORS \in Nat \ {0}
  BY NumbersAssumption
<1>2. /\ ReadyQueue \in NULL..N_SEMAFORS+1 /\ FreeQueue \in NULL..N_SEMAFORS+1
      /\ Sem \subseteq NULL..N_SEMAFORS+1 /\ NULL \in NULL..N_SEMAFORS+1
  BY <1>1 DEF ReadyQueue, FreeQueue, Sem, NULL
<1>3. ReadyQueue # FreeQueue /\ ReadyQueue \notin Sem /\ FreeQueue \notin Sem
  BY <1>1 DEF ReadyQueue, FreeQueue, Sem
<1>4. NULL # ReadyQueue /\ NULL # FreeQueue /\ NULL \notin Sem
  BY <1>1 DEF ReadyQueue, FreeQueue, Sem, NULL
<1>5. \A t \in Task \cup {Idle}: t \notin NULL..N_SEMAFORS+1
  BY NodesAssumption
<1> QED
  BY <1>2, <1>3, <1>4, <1>5, TasksAssumption DEF Node

LEMMA NoAnchorType == NoAnchor \in Anchor /\ NoAnchor.next = NULL
BY DEF NoAnchor, Anchor

\* A sequence by its indices.
LEMMA Indices ==
  ASSUME NEW S, NEW q \in Seq(S)
  PROVE  /\ Len(q) \in Nat /\ \A i \in 1..Len(q): q[i] \in S /\ q[i] \in Range(q)
         /\ q = <<>> <=> Len(q) = 0
         /\ \A x \in Range(q): \E i \in 1..Len(q): x = q[i]
         /\ Range(q) \subseteq S
<1>1. Len(q) \in Nat /\ DOMAIN q = 1..Len(q) /\ \A i \in 1..Len(q): q[i] \in S
  OBVIOUS
<1>2. (q = <<>>) <=> Len(q) = 0
  OBVIOUS
<1> QED
  BY <1>1, <1>2 DEF Range

LEMMA AppendIndices ==
  ASSUME NEW S, NEW q \in Seq(S), NEW x \in S
  PROVE  LET a == Append(q, x)
         IN  /\ a \in Seq(S) /\ Len(a) = Len(q) + 1 /\ a # <<>> /\ a[Len(q) + 1] = x
             /\ \A i \in 1..Len(q): a[i] = q[i]
OBVIOUS

-----------------------------------------------------------------------------
(* list.c *)

\* The neighbours in a ring are nodes of it.
LEMMA RingNeighbours ==
  ASSUME NEW l \in Links, NEW h \in Node, NEW T \in SUBSET Node, NEW q \in Seq(T),
         Ring(l, h, q)
  PROVE  /\ l[h].next \in {h} \cup Range(q) /\ l[h].prev \in {h} \cup Range(q)
         /\ l[h].next \in Node /\ l[h].prev \in Node
         /\ h \notin Range(q) => (l[h].next = h <=> q = <<>>)
         /\ h \notin Range(q) => \A i \in 1..Len(q): l[q[i]].next = h <=> i = Len(q)
<1>1. Len(q) \in Nat /\ \A i \in 1..Len(q): q[i] \in Node /\ q[i] \in Range(q)
  BY Indices
<1>2. (q = <<>>) <=> Len(q) = 0
  BY Indices
<1>3. CASE q = <<>>
  BY <1>1, <1>2, <1>3 DEF Ring
<1>4. CASE q # <<>>
  <2>1. 1 \in 1..Len(q) /\ Len(q) \in 1..Len(q)
    BY <1>1, <1>2, <1>4
  <2>2. l[h].next = q[1] /\ l[h].prev = q[Len(q)]
    BY <1>4 DEF Ring
  <2>3. l[h].next \in Range(q) /\ l[h].next \in Node
    BY <1>1, <2>1, <2>2, Nodes
  <2>4. l[h].prev \in Range(q) /\ l[h].prev \in Node
    BY <1>1, <2>1, <2>2, Nodes
  <2>5. ASSUME h \notin Range(q), NEW i \in 1..Len(q)
        PROVE  l[q[i]].next = h <=> i = Len(q)
    <3>1. l[q[i]].next = (IF i = Len(q) THEN h ELSE q[i + 1])
      BY DEF Ring
    <3>2. i # Len(q) => q[i + 1] \in Range(q)
      BY <1>1
    <3> QED
      BY <2>5, <3>1, <3>2
  <2> QED
    BY <1>4, <2>3, <2>4, <2>5
<1> QED
  BY <1>3, <1>4

Added(l, new, prev, next) == __list_add(l, new, prev, next)

\* The pointers after list_add.
LEMMA Adding ==
  ASSUME NEW l \in Links, NEW new \in Node, NEW prev \in Node, NEW next \in Node,
         new # prev, new # next
  PROVE  LET m == Added(l, new, prev, next)
         IN  /\ m \in Links
             /\ m[new].next = next /\ m[new].prev = prev
             /\ \A x \in Node \ {new}: /\ m[x].next = (IF x = prev THEN new ELSE l[x].next)
                                       /\ m[x].prev = (IF x = next THEN new ELSE l[x].prev)
             /\ \A x \in Node \ {new, prev, next}: m[x] = l[x]
<1> DEFINE m1 == [l EXCEPT ![next] = [l[next] EXCEPT !.prev = new]]
           m2 == [m1 EXCEPT ![new] = [next |-> next, prev |-> prev]]
           m3 == [m2 EXCEPT ![prev] = [m2[prev] EXCEPT !.next = new]]
<1>1. Added(l, new, prev, next) = m3
  BY DEF Added, __list_add, Links
<1>2. /\ m1 \in Links /\ \A x \in Node \ {next}: m1[x] = l[x]
      /\ m1[next].prev = new /\ m1[next].next = l[next].next
  BY DEF Links, Anchor
<1> HIDE DEF m1
<1>3. /\ m2 \in Links /\ \A x \in Node \ {new}: m2[x] = m1[x]
      /\ m2[new].next = next /\ m2[new].prev = prev
  BY <1>2 DEF Links, Anchor
<1> HIDE DEF m2
<1>4. /\ m3 \in Links /\ \A x \in Node \ {prev}: m3[x] = m2[x]
      /\ m3[prev].next = new /\ m3[prev].prev = m2[prev].prev
  BY <1>3 DEF Links, Anchor
<1> HIDE DEF m3
<1> QED
  BY <1>1, <1>2, <1>3, <1>4

\* The pointers after list_del.
LEMMA Deleting ==
  ASSUME NEW l \in Links, NEW e \in Node, NEW prev \in Node, NEW next \in Node,
         l[e].prev = prev, l[e].next = next, e # prev, e # next
  PROVE  LET m == list_del(l, e)
         IN  /\ m \in Links /\ m[e] = NoAnchor
             /\ \A x \in Node \ {e}: /\ m[x].next = (IF x = prev THEN next ELSE l[x].next)
                                     /\ m[x].prev = (IF x = next THEN prev ELSE l[x].prev)
             /\ \A x \in Node \ {e, prev, next}: m[x] = l[x]
<1> DEFINE m1 == [l EXCEPT ![next] = [l[next] EXCEPT !.prev = prev]]
           m2 == [m1 EXCEPT ![prev] = [m1[prev] EXCEPT !.next = next]]
           m3 == [m2 EXCEPT ![e] = NoAnchor]
<1>1. list_del(l, e) = m3
  BY DEF list_del, Links
<1>2. /\ m1 \in Links /\ \A x \in Node \ {next}: m1[x] = l[x]
      /\ m1[next].prev = prev /\ m1[next].next = l[next].next
  BY DEF Links, Anchor
<1> HIDE DEF m1
<1>3. /\ m2 \in Links /\ \A x \in Node \ {prev}: m2[x] = m1[x]
      /\ m2[prev].next = next /\ m2[prev].prev = m1[prev].prev
  BY <1>2 DEF Links, Anchor
<1> HIDE DEF m2
<1>4. m3 \in Links /\ (\A x \in Node \ {e}: m3[x] = m2[x]) /\ m3[e] = NoAnchor
  BY <1>3, NoAnchorType DEF Links
<1> HIDE DEF m3
<1> QED
  BY <1>1, <1>2, <1>3, <1>4

LEMMA AddingTail ==
  ASSUME NEW l \in Links, NEW h \in Node, NEW t \in Node, NEW last \in Node,
         l[h].prev = last, t # last, t # h
  PROVE  LET m == list_add_tail(l, t, h)
         IN  /\ m \in Links /\ m[t].next = h /\ m[t].prev = last
             /\ \A x \in Node \ {t}: /\ m[x].next = (IF x = last THEN t ELSE l[x].next)
                                     /\ m[x].prev = (IF x = h THEN t ELSE l[x].prev)
             /\ \A x \in Node \ {t, last, h}: m[x] = l[x]
<1>1. list_add_tail(l, t, h) = Added(l, t, last, h)
  BY DEF list_add_tail, Added, __list_add
<1>2. LET m == Added(l, t, last, h)
      IN  /\ m \in Links
          /\ m[t].next = h /\ m[t].prev = last
          /\ \A x \in Node \ {t}: /\ m[x].next = (IF x = last THEN t ELSE l[x].next)
                                  /\ m[x].prev = (IF x = h THEN t ELSE l[x].prev)
          /\ \A x \in Node \ {t, last, h}: m[x] = l[x]
  BY Adding
<1> QED
  BY <1>1, <1>2

\* list_add_tail puts a task behind the others.
LEMMA RingAddTail ==
  ASSUME NEW l \in Links, NEW h \in Node, NEW T \in SUBSET Node, NEW q \in Seq(T),
         Ring(l, h, q),
         NoDuplicates(q), h \notin Range(q), NEW t \in T, t # h, t \notin Range(q)
  PROVE  LET m == list_add_tail(l, t, h)
         IN  /\ m \in Links /\ Ring(m, h, Append(q, t))
             /\ \A x \in Node \ ({h, t} \cup Range(q)): m[x] = l[x]
<1> DEFINE m == list_add_tail(l, t, h)
           last == l[h].prev
           a == Append(q, t)
<1>1. /\ Len(q) \in Nat /\ \A i \in 1..Len(q): q[i] \in Node /\ q[i] \in Range(q)
      /\ (q = <<>>) <=> Len(q) = 0
  BY Indices, Nodes
<1>2. last \in {h} \cup Range(q) /\ last \in Node
  BY RingNeighbours
<1>3. t \in Node /\ t # last
  BY <1>2, Nodes
<1>8. last = (IF q = <<>> THEN h ELSE q[Len(q)])
  BY DEF Ring
<1>5. /\ m \in Links /\ m[t].next = h /\ m[t].prev = last
      /\ \A x \in Node \ {t}: /\ m[x].next = (IF x = last THEN t ELSE l[x].next)
                              /\ m[x].prev = (IF x = h THEN t ELSE l[x].prev)
      /\ \A x \in Node \ {t, last, h}: m[x] = l[x]
  BY <1>2, <1>3, AddingTail
<1> HIDE DEF m, last
<1>6. \A x \in Node \ ({h, t} \cup Range(q)): m[x] = l[x]
  BY <1>2, <1>5
<1>7. /\ Len(a) = Len(q) + 1 /\ a # <<>> /\ a[Len(q) + 1] = t
      /\ \A i \in 1..Len(q): a[i] = q[i]
  BY AppendIndices
<1> HIDE DEF a
<1>9. m[h].next = a[1]
  <2>1. CASE q = <<>>
    <3>1. last = h /\ a[1] = t
      BY <1>1, <1>7, <1>8, <2>1
    <3> QED
      BY <1>5, <3>1
  <2>2. CASE q # <<>>
    <3>1. 1 \in 1..Len(q) /\ Len(q) \in 1..Len(q)
      BY <1>1, <2>2
    <3>2. last # h /\ a[1] = q[1] /\ l[h].next = q[1]
      BY <1>1, <1>7, <1>8, <2>2, <3>1 DEF Ring
    <3> QED
      BY <1>5, <3>2
  <2> QED
    BY <2>1, <2>2
<1>10. m[h].prev = a[Len(a)]
  BY <1>5, <1>7
<1>11. ASSUME NEW i \in 1..Len(q)
       PROVE  /\ m[a[i]].next = a[i + 1]
              /\ m[a[i]].prev = (IF i = 1 THEN h ELSE a[i - 1])
  <2>1. /\ a[i] = q[i] /\ q[i] \in Node /\ q[i] # t /\ q[i] # h
        /\ l[q[i]].next = (IF i = Len(q) THEN h ELSE q[i + 1])
        /\ l[q[i]].prev = (IF i = 1 THEN h ELSE q[i - 1])
    BY <1>1, <1>7 DEF Ring
  <2>2. m[a[i]].prev = (IF i = 1 THEN h ELSE a[i - 1])
    <3>1. m[a[i]].prev = l[q[i]].prev
      BY <1>5, <2>1
    <3>2. i # 1 => i - 1 \in 1..Len(q)
      BY <1>1
    <3> QED
      BY <1>7, <2>1, <3>1, <3>2
  <2>3. CASE i = Len(q)
    <3>1. last = q[i]
      BY <1>1, <1>8, <2>3
    <3> QED
      BY <1>5, <1>7, <2>1, <2>2, <2>3, <3>1
  <2>4. CASE i # Len(q)
    <3>1. i + 1 \in 1..Len(q) /\ Len(q) \in 1..Len(q)
      BY <1>1, <2>4
    <3>2. last # q[i]
      BY <1>1, <1>8, <2>1, <2>4, <3>1 DEF NoDuplicates
    <3> QED
      BY <1>5, <1>7, <2>1, <2>2, <2>4, <3>1, <3>2
  <2> QED
    BY <2>3, <2>4
<1>12. m[a[Len(q) + 1]].next = h /\ m[a[Len(q) + 1]].prev = (IF Len(q) + 1 = 1 THEN h ELSE a[Len(q) + 1 - 1])
  <2>1. CASE q = <<>>
    BY <1>1, <1>5, <1>7, <1>8, <2>1
  <2>2. CASE q # <<>>
    <3>1. Len(q) \in 1..Len(q) /\ Len(q) + 1 - 1 = Len(q)
      BY <1>1, <2>2
    <3> QED
      BY <1>1, <1>5, <1>7, <1>8, <2>2, <3>1
  <2> QED
    BY <2>1, <2>2
<1>13. ASSUME NEW i \in 1..Len(a)
       PROVE  /\ m[a[i]].next = (IF i = Len(a) THEN h ELSE a[i + 1])
              /\ m[a[i]].prev = (IF i = 1 THEN h ELSE a[i - 1])
  <2>1. CASE i \in 1..Len(q)
    <3>1. i # Len(a)
      BY <1>1, <1>7, <2>1
    <3> QED
      BY <1>11, <2>1, <3>1
  <2>2. CASE i = Len(q) + 1
    BY <1>1, <1>7, <1>12, <2>2
  <2> QED
    BY <1>1, <1>7, <2>1, <2>2
<1>14. Ring(m, h, a)
  BY <1>7, <1>9, <1>10, <1>13 DEF Ring
<1>15. /\ m = list_add_tail(l, t, h) /\ a = Append(q, t)
  BY DEF m, a
<1> QED
  BY <1>5, <1>6, <1>14, <1>15

\* Numbers from 1 on, and the tasks behind the first.
LEMMA FromOne ==
  \A n \in Nat: n > 0 =>
    /\ n >= 1 /\ 1 \in 1..n /\ n \in 1..n /\ n # 0
    /\ n - 1 = 0 <=> n = 1
    /\ n # 1 => /\ 2 \in 1..n /\ 1 \in 1..n-1 /\ n - 1 \in 1..n-1 /\ n - 1 + 1 = n
OBVIOUS

LEMMA TailIndices ==
  ASSUME NEW S, NEW q \in Seq(S), Len(q) > 0
  PROVE  /\ Tail(q) \in Seq(S) /\ Head(q) = q[1] /\ Len(Tail(q)) = Len(q) - 1
         /\ \A i \in 1..Len(q)-1: Tail(q)[i] = q[i + 1]
         /\ (Tail(q) = <<>>) <=> Len(q) = 1
<1>1. Len(q) \in Nat
  OBVIOUS
<1>2. q # <<>>
  OBVIOUS
<1>3. Tail(q) \in Seq(S) /\ Head(q) = q[1] /\ Len(Tail(q)) = Len(q) - 1
  BY <1>2
<1>4. \A i \in 1..Len(q)-1: Tail(q)[i] = q[i + 1]
  BY <1>2
<1>5. (Tail(q) = <<>>) <=> Len(Tail(q)) = 0
  BY SMTT(60), <1>3
<1>6. Len(q) - 1 = 0 <=> Len(q) = 1
  BY <1>1, FromOne
<1> QED
  BY <1>3, <1>4, <1>5, <1>6

\* list_first is the first task, and list_del takes it out.
LEMMA RingDelFirst ==
  ASSUME NEW l \in Links, NEW h \in Node, NEW T \in SUBSET Node, NEW q \in Seq(T),
         Ring(l, h, q),
         NoDuplicates(q), h \notin Range(q), Len(q) > 0
  PROVE  LET m == list_del(l, Head(q))
         IN  /\ list_first(l, h) = Head(q)
             /\ m \in Links /\ Ring(m, h, Tail(q)) /\ m[Head(q)] = NoAnchor
             /\ \A x \in Node \ ({h} \cup Range(q)): m[x] = l[x]
<1> DEFINE e == Head(q)
           m == list_del(l, e)
           b == Tail(q)
           next == l[e].next
<1>0. Len(q) \in Nat
  BY Indices
<1>1. /\ \A i \in 1..Len(q): q[i] \in Node /\ q[i] \in Range(q)
      /\ 1 \in 1..Len(q) /\ Len(q) \in 1..Len(q) /\ q # <<>>
      /\ Len(q) # 1 => /\ 2 \in 1..Len(q) /\ 1 \in 1..Len(q)-1 /\ Len(q) - 1 \in 1..Len(q)-1
                       /\ Len(q) - 1 + 1 = Len(q)
  BY <1>0, FromOne, Indices, Nodes
<1>2. e = q[1] /\ e \in Node /\ e \in Range(q) /\ e # h
  BY <1>1, TailIndices
<1> HIDE DEF e
<1>3. list_first(l, h) = e
  BY <1>2 DEF list_first, Ring
<1>4. l[e].prev = h /\ next = (IF Len(q) = 1 THEN h ELSE q[2])
  BY <1>1, <1>2 DEF Ring
<1>5. next \in Node /\ next # e /\ next \in {h} \cup Range(q)
  <2>1. Len(q) # 1 => 2 \in 1..Len(q)
    BY <1>1
  <2> QED
    BY <1>1, <1>2, <1>4, <2>1 DEF NoDuplicates
<1>6. /\ m \in Links /\ m[e] = NoAnchor
      /\ \A x \in Node \ {e}: /\ m[x].next = (IF x = h THEN next ELSE l[x].next)
                              /\ m[x].prev = (IF x = next THEN h ELSE l[x].prev)
      /\ \A x \in Node \ {e, h, next}: m[x] = l[x]
  BY <1>2, <1>4, <1>5, Deleting
<1> HIDE DEF m, next
<1>7. /\ Len(b) = Len(q) - 1
      /\ (b = <<>>) <=> Len(q) = 1
      /\ \A i \in 1..Len(q)-1: b[i] = q[i + 1]
  BY TailIndices
<1> HIDE DEF b
<1>8. m[h].next = (IF b = <<>> THEN h ELSE b[1])
  <2>1. Len(q) # 1 => 1 \in 1..Len(q)-1
    BY <1>1
  <2> QED
    BY <1>2, <1>4, <1>6, <1>7, <2>1
<1>9. m[h].prev = (IF b = <<>> THEN h ELSE b[Len(b)])
  <2>1. CASE Len(q) = 1
    BY <1>2, <1>4, <1>6, <1>7, <2>1
  <2>2. CASE Len(q) # 1
    <3>1. Len(q) - 1 \in 1..Len(q)-1 /\ Len(q) - 1 + 1 = Len(q) /\ 2 \in 1..Len(q)
      BY <1>1, <2>2
    <3>2. next # h
      BY <1>1, <1>4, <2>2, <3>1
    <3>3. m[h].prev = l[h].prev /\ l[h].prev = q[Len(q)]
      BY <1>2, <1>6, <3>2 DEF Ring
    <3> QED
      BY <1>7, <2>2, <3>1, <3>3
  <2> QED
    BY <2>1, <2>2
<1>10. ASSUME NEW i \in 1..Len(b)
       PROVE  /\ m[b[i]].next = (IF i = Len(b) THEN h ELSE b[i + 1])
              /\ m[b[i]].prev = (IF i = 1 THEN h ELSE b[i - 1])
  <2>1. /\ i \in 1..Len(q)-1 /\ i + 1 \in 1..Len(q) /\ i + 1 # 1 /\ i + 1 - 1 = i
        /\ i \in 1..Len(q)
    BY <1>1, <1>7
  <2>2. b[i] = q[i + 1] /\ q[i + 1] \in Node /\ q[i + 1] # h /\ q[i + 1] # e
    BY <1>1, <1>2, <1>7, <2>1 DEF NoDuplicates
  <2>3. /\ l[q[i + 1]].next = (IF i + 1 = Len(q) THEN h ELSE q[i + 1 + 1])
        /\ l[q[i + 1]].prev = q[i]
    BY <2>1 DEF Ring
  <2>4. m[b[i]].next = l[q[i + 1]].next
    BY <1>6, <2>2
  <2>5. i # Len(b) => i + 1 \in 1..Len(q)-1
    BY <1>1, <1>7, <2>1
  <2>6. (i = Len(b)) <=> (i + 1 = Len(q))
    BY <1>1, <1>7, <2>1
  <2>7. m[b[i]].next = (IF i = Len(b) THEN h ELSE b[i + 1])
    BY <1>7, <2>3, <2>4, <2>5, <2>6
  <2>8. CASE i = 1
    <3>1. next = q[2]
      BY <1>1, <1>4, <2>1, <2>8
    <3> QED
      BY <1>6, <2>2, <2>7, <2>8, <3>1
  <2>9. CASE i # 1
    <3>1. i - 1 \in 1..Len(q)-1 /\ i - 1 + 1 = i /\ 2 \in 1..Len(q) /\ i + 1 # 2
      BY <1>1, <2>1, <2>9
    <3>2. next # q[i + 1]
      BY <1>1, <1>4, <2>1, <2>2, <3>1 DEF NoDuplicates
    <3>3. m[b[i]].prev = q[i]
      BY <1>6, <2>2, <2>3, <3>2
    <3>4. b[i - 1] = q[i]
      BY <1>7, <3>1
    <3> QED
      BY <2>7, <2>9, <3>3, <3>4
  <2> QED
    BY <2>8, <2>9
<1>11. Ring(m, h, b)
  BY <1>8, <1>9, <1>10 DEF Ring
<1>12. \A x \in Node \ ({h} \cup Range(q)): m[x] = l[x]
  BY <1>2, <1>5, <1>6
<1>13. m = list_del(l, e) /\ b = Tail(q) /\ e = Head(q)
  BY DEF m, b, e
<1> QED
  BY <1>3, <1>6, <1>11, <1>12, <1>13

\* A list whose nodes stay as they are is still the same list.
LEMMA RingSame ==
  ASSUME NEW l, NEW m, NEW h, NEW T \in SUBSET Node, NEW q \in Seq(T),
         Ring(l, h, q),
         \A x \in {h} \cup Range(q): m[x] = l[x]
  PROVE  Ring(m, h, q)
<1>1. \A i \in 1..Len(q): q[i] \in Range(q)
  BY Indices
<1> QED
  BY <1>1 DEF Ring

\* One turn around n nodes.
LEMMA AroundRing ==
  \A n \in Nat \ {0}: \A i \in 1..n: i % n = (IF i = n THEN 0 ELSE i)
<1> SUFFICES ASSUME NEW n \in Nat, n # 0, NEW i \in 1..n
             PROVE  i % n = (IF i = n THEN 0 ELSE i)
  OBVIOUS
<1>1. CASE i = n
  BY <1>1
<1>2. CASE i # n
  BY <1>2
<1> QED
  BY <1>1, <1>2

LEMMA FrontIndices ==
  ASSUME NEW S, NEW q \in Seq(S), NEW x \in S
  PROVE  LET n == <<x>> \o q
         IN  /\ n \in Seq(S) /\ Len(n) = Len(q) + 1 /\ n # <<>> /\ n[1] = x
             /\ \A i \in 1..Len(q): n[i + 1] = q[i]
<1>1. Len(q) \in Nat /\ <<x>> \in Seq(S) /\ Len(<<x>>) = 1 /\ <<x>>[1] = x
  OBVIOUS
<1>2. ASSUME NEW i \in 1..Len(q)
      PROVE  (<<x>> \o q)[i + 1] = q[i]
  OBVIOUS
<1> QED
  BY <1>1, <1>2

\* A ring as LinksMatch states it.
LEMMA RingIsRing ==
  ASSUME NEW l, NEW h \in Node, NEW T \in SUBSET Node, NEW q \in Seq(T), Ring(l, h, q)
  PROVE  IsRing(l, <<h>> \o q)
<1> DEFINE n == <<h>> \o q
<1>0. q \in Seq(Node)
  OBVIOUS
<1>1. /\ Len(n) = Len(q) + 1 /\ n[1] = h /\ \A i \in 1..Len(q): n[i + 1] = q[i]
  BY <1>0, FrontIndices
<1>2. Len(q) \in Nat /\ (q = <<>>) <=> Len(q) = 0
  BY Indices
<1> HIDE DEF n
<1>3. PICK k \in Nat: k = Len(q)
  BY <1>2
<1>4. /\ l[h].next = (IF k = 0 THEN h ELSE q[1])
      /\ l[h].prev = (IF k = 0 THEN h ELSE q[k])
      /\ \A i \in 1..k: /\ l[q[i]].next = (IF i = k THEN h ELSE q[i + 1])
                        /\ l[q[i]].prev = (IF i = 1 THEN h ELSE q[i - 1])
  BY <1>2, <1>3 DEF Ring
<1>5. Len(n) = k + 1 /\ n[1] = h /\ \A i \in 1..k: n[i + 1] = q[i]
  BY <1>1, <1>3
<1>6. ASSUME NEW i \in 1..k+1
      PROVE  l[n[i]].next = n[(i % (k + 1)) + 1] /\ l[n[(i % (k + 1)) + 1]].prev = n[i]
  <2>1. CASE i = k + 1
    <3>1. (i % (k + 1)) + 1 = 1
      BY <1>3, <2>1, AroundRing
    <3>2. k # 0 => k \in 1..k /\ n[k + 1] = q[k]
      BY <1>3, <1>5
    <3>3. l[n[k + 1]].next = h /\ l[h].prev = n[k + 1]
      <4>1. CASE k = 0
        BY <1>4, <1>5, <4>1
      <4>2. CASE k # 0
        BY <1>4, <3>2, <4>2
      <4> QED
        BY <4>1, <4>2
    <3> QED
      BY <1>5, <2>1, <3>1, <3>3
  <2>2. CASE i # k + 1
    <3>1. (i % (k + 1)) + 1 = i + 1 /\ i \in 1..k
      BY <1>3, <2>2, AroundRing
    <3>2. n[i + 1] = q[i]
      BY <1>5, <3>1
    <3>3. CASE i = 1
      <4>1. l[h].next = q[1] /\ l[q[1]].prev = h
        BY <1>3, <1>4, <3>1, <3>3
      <4> QED
        BY <1>5, <3>1, <3>2, <3>3, <4>1
    <3>4. CASE i # 1
      <4>1. i - 1 \in 1..k /\ i - 1 + 1 = i /\ i - 1 # k
        BY <1>3, <3>1, <3>4
      <4>2. n[i] = q[i - 1]
        BY <1>5, <4>1
      <4>3. l[q[i - 1]].next = q[i] /\ l[q[i]].prev = q[i - 1]
        BY <1>4, <3>1, <3>4, <4>1
      <4> QED
        BY <3>1, <3>2, <4>2, <4>3
    <3> QED
      BY <3>3, <3>4
  <2> QED
    BY <2>1, <2>2
<1> QED
  BY <1>5, <1>6 DEF IsRing, n

-----------------------------------------------------------------------------
(***************************************************************************)
(* All the lists.  ls gives the tasks of every list head, hs are the heads *)
(* whose lists are initialised: those of the semaphores in use among them. *)
(***************************************************************************)

Heads == {ReadyQueue, FreeQueue} \cup Sem
Lists == [Heads -> Seq(Task)]
Apart(ls) == \A h \in Heads: /\ NoDuplicates(ls[h])
                             /\ \A g \in Heads \ {h}: Range(ls[g]) \cap Range(ls[h]) = {}
Rings(l, hs, ls) == l \in Links /\ \A h \in hs: Ring(l, h, ls[h])

LEMMA HeadsAreNodes ==
  /\ Heads \subseteq Node
  /\ \A h \in Heads: h \notin Task /\ h # Idle
  /\ \A ls \in Lists: \A h \in Heads: ls[h] \in Seq(Task) /\ Range(ls[h]) \subseteq Task
<1>1. \A ls \in Lists: \A h \in Heads: ls[h] \in Seq(Task)
  BY DEF Lists
<1>2. \A q \in Seq(Task): Range(q) \subseteq Task
  BY Indices
<1> QED
  BY <1>1, <1>2, Nodes DEF Heads

\* The nodes of a list that is apart from a list with head h and the tasks S.
LEMMA OtherNodes ==
  ASSUME NEW ls \in Lists, NEW h \in Heads, NEW g \in Heads, g # h,
         NEW S \in SUBSET Task, S \cap Range(ls[g]) = {}
  PROVE  {g} \cup Range(ls[g]) \subseteq Node \ ({h} \cup S)
BY HeadsAreNodes, Nodes

\* list_first and list_del on the list with head h.
FirstTaken(l, hs, ls, h, ks) ==
  LET t == Head(ls[h])
      m == list_del(l, t)
  IN  /\ list_first(l, h) = t /\ ~list_empty(l, h) /\ t \in Task /\ t \in Range(ls[h])
      /\ Rings(m, hs, ks) /\ Apart(ks) /\ m[t] = NoAnchor
      /\ \A g \in Heads: t \notin Range(ks[g])
      /\ Range(ks[h]) = Range(ls[h]) \ {t}
      /\ \A x \in Task \cup {Idle}: x \notin Range(ls[h]) => m[x] = l[x]
LEMMA TakeFirst ==
  ASSUME NEW l, NEW hs \in SUBSET Heads, NEW ls \in Lists, Rings(l, hs, ls), Apart(ls),
         NEW h \in hs, ls[h] # <<>>,
         NEW ks \in Lists, ks[h] = Tail(ls[h]), \A g \in Heads \ {h}: ks[g] = ls[g]
  PROVE  FirstTaken(l, hs, ls, h, ks)
<1> DEFINE q == ls[h]
           t == Head(q)
           m == list_del(l, t)
<1>0. h \in Heads
  OBVIOUS
<1>1. q \in Seq(Task) /\ Range(q) \subseteq Task /\ h \in Node /\ h \notin Range(q)
      /\ NoDuplicates(q) /\ Task \in SUBSET Node /\ h \notin Task /\ h # Idle
  BY <1>0, HeadsAreNodes, Nodes DEF Apart
<1>2. Ring(l, h, q) /\ l \in Links
  BY DEF Rings
<1>3. Len(q) > 0
  BY <1>1, Indices
<1>4. t \in Range(q) /\ Range(Tail(q)) = Range(q) \ {t} /\ NoDuplicates(Tail(q))
  BY <1>1, HeadOfList
<1>5. /\ list_first(l, h) = t /\ m \in Links /\ Ring(m, h, Tail(q)) /\ m[t] = NoAnchor
      /\ \A x \in Node \ ({h} \cup Range(q)): m[x] = l[x]
  BY <1>1, <1>2, <1>3, RingDelFirst
<1>6. ~list_empty(l, h)
  BY <1>1, <1>4, <1>5 DEF list_first, list_empty
<1> HIDE DEF m, t, q
<1>7. ASSUME NEW g \in hs PROVE Ring(m, g, ks[g])
  <2>1. CASE g = h
    BY <1>5, <2>1 DEF q
  <2>2. CASE g # h
    <3>1. Range(q) \cap Range(ls[g]) = {} /\ ks[g] = ls[g]
      BY <1>0, <2>2 DEF Apart, q
    <3>2. {g} \cup Range(ls[g]) \subseteq Node \ ({h} \cup Range(q))
      BY <1>0, <1>1, <2>2, <3>1, OtherNodes
    <3>3. ls[g] \in Seq(Task) /\ Ring(l, g, ls[g])
      BY HeadsAreNodes DEF Rings
    <3>4. \A x \in {g} \cup Range(ls[g]): m[x] = l[x]
      BY <1>5, <3>2
    <3>5. Ring(m, g, ls[g])
      BY <1>1, <3>3, <3>4, RingSame
    <3> QED
      BY <3>1, <3>5
  <2> QED
    BY <2>1, <2>2
<1>8. \A g \in Heads: Range(ks[g]) \subseteq Range(ls[g]) /\ NoDuplicates(ks[g])
  BY <1>4 DEF Apart, q
<1>9. Apart(ks)
  BY <1>8 DEF Apart
<1>10. \A g \in Heads: t \notin Range(ks[g])
  BY <1>0, <1>4 DEF Apart, q
<1>11. \A x \in Task \cup {Idle}: x \notin Range(q) => m[x] = l[x]
  BY <1>1, <1>5, Nodes
<1>12. Range(ks[h]) = Range(q) \ {t}
  BY <1>4 DEF q
<1> QED
  BY <1>1, <1>4, <1>5, <1>6, <1>7, <1>9, <1>10, <1>11, <1>12
     DEF FirstTaken, Rings, m, t, q

\* list_add_tail of a task that is in no list.
LastAdded(l, hs, ls, h, t, ks) ==
  LET m == list_add_tail(l, t, h)
  IN  /\ Rings(m, hs, ks) /\ Apart(ks)
      /\ Range(ks[h]) = Range(ls[h]) \cup {t}
      /\ \A x \in Task \cup {Idle}: x \notin Range(ls[h]) /\ x # t => m[x] = l[x]
LEMMA AddLast ==
  ASSUME NEW l, NEW hs \in SUBSET Heads, NEW ls \in Lists, Rings(l, hs, ls), Apart(ls),
         NEW h \in hs, NEW t \in Task, \A g \in Heads: t \notin Range(ls[g]),
         NEW ks \in Lists, ks[h] = Append(ls[h], t), \A g \in Heads \ {h}: ks[g] = ls[g]
  PROVE  LastAdded(l, hs, ls, h, t, ks)
<1> DEFINE q == ls[h]
           m == list_add_tail(l, t, h)
<1>0. h \in Heads
  OBVIOUS
<1>1. q \in Seq(Task) /\ Range(q) \subseteq Task /\ h \in Node /\ h \notin Range(q)
      /\ NoDuplicates(q) /\ Task \in SUBSET Node /\ h \notin Task /\ h # Idle
      /\ t \notin Range(q) /\ t # h
  BY <1>0, HeadsAreNodes, Nodes DEF Apart
<1>2. Ring(l, h, q) /\ l \in Links
  BY DEF Rings
<1>4. Range(Append(q, t)) = Range(q) \cup {t} /\ NoDuplicates(Append(q, t))
  BY <1>1, AppendToList
<1>5. /\ m \in Links /\ Ring(m, h, Append(q, t))
      /\ \A x \in Node \ ({h, t} \cup Range(q)): m[x] = l[x]
  BY <1>1, <1>2, RingAddTail
<1> HIDE DEF m, q
<1>7. ASSUME NEW g \in hs PROVE Ring(m, g, ks[g])
  <2>1. CASE g = h
    BY <1>5, <2>1 DEF q
  <2>2. CASE g # h
    <3> DEFINE S == {t} \cup Range(q)
    <3>1. g \in Heads /\ ks[g] = ls[g] /\ Range(ls[g]) \cap Range(q) = {} /\ t \notin Range(ls[g])
      BY <1>0, <2>2 DEF Apart, q
    <3>2. /\ S \in SUBSET Task /\ S \cap Range(ls[g]) = {}
          /\ \A x \in Node \ ({h} \cup S): m[x] = l[x]
      BY <1>1, <1>5, <3>1
    <3> HIDE DEF S
    <3>3. {g} \cup Range(ls[g]) \subseteq Node \ ({h} \cup S)
      BY SMTT(60), <1>0, <2>2, <3>1, <3>2, OtherNodes
    <3>4. ls[g] \in Seq(Task) /\ Ring(l, g, ls[g])
      BY HeadsAreNodes DEF Rings
    <3>5. \A x \in {g} \cup Range(ls[g]): m[x] = l[x]
      BY <3>2, <3>3
    <3>6. Ring(m, g, ls[g])
      BY <1>1, <3>4, <3>5, RingSame
    <3> QED
      BY <3>1, <3>6
  <2> QED
    BY <2>1, <2>2
<1>8. \A g \in Heads: NoDuplicates(ks[g])
  BY <1>4 DEF Apart, q
<1>9. Apart(ks)
  <2>1. \A g \in Heads: Range(ks[g]) = Range(ls[g]) \cup (IF g = h THEN {t} ELSE {})
    BY <1>4 DEF q
  <2> QED
    BY ZenonT(60), <1>8, <2>1 DEF Apart
<1>10. \A x \in Task \cup {Idle}: x \notin Range(q) /\ x # t => m[x] = l[x]
  BY <1>1, <1>5, Nodes
<1>11. Range(ks[h]) = Range(q) \cup {t}
  BY <1>4 DEF q
<1> QED
  BY <1>5, <1>7, <1>9, <1>10, <1>11 DEF LastAdded, Rings, m, q

-----------------------------------------------------------------------------
(* Loops *)

LEMMA Least ==
  ASSUME NEW T \in SUBSET Nat, T # {}
  PROVE  \E x \in T: \A y \in T: x <= y
<1> DEFINE R == OpToRel(<, Nat)
<1>1. IsWellFoundedOn(R, Nat)
  BY NatLessThanWellFounded
<1>2. \A x, y \in Nat: y < x => <<y, x>> \in R
  BY DEF OpToRel
<1> HIDE DEF R
<1>3. PICK x \in T: \A y \in T: ~(<<y, x>> \in R)
  BY <1>1, WFMin
<1>4. x \in Nat /\ \A y \in T: y \in Nat
  BY <1>3
<1>5. ASSUME NEW y \in T PROVE x <= y
  <2>1. x \in Nat /\ y \in Nat
    BY <1>4
  <2>2. ~(y < x)
    BY <1>2, <1>3, <2>1
  <2> QED
    BY <2>1, <2>2
<1> QED
  BY <1>5

\* Induction, for a property of numbers given as a set.
LEMMA CountUp ==
  ASSUME NEW P \in SUBSET Nat, 0 \in P, \A n \in P: n + 1 \in P
  PROVE  P = Nat
<1> SUFFICES ASSUME Nat \ P # {} PROVE FALSE
  OBVIOUS
<1>1. PICK n \in Nat \ P: \A y \in Nat \ P: n <= y
  <2>1. Nat \ P \in SUBSET Nat
    OBVIOUS
  <2> QED
    BY <2>1, Least
<1>2. n # 0 /\ n \in Nat
  BY <1>1
<1>3. n - 1 \in Nat /\ n - 1 + 1 = n /\ ~(n <= n - 1)
  BY <1>2
<1>4. n - 1 \in P
  BY <1>1, <1>3
<1> QED
  BY <1>1, <1>3, <1>4

\* The loop of list_for_each_safe, turn by turn.
TurnLoop(start, head, n, f) ==
  f = [i \in 0..n |-> IF i = 0 THEN start ELSE Turn(f[i - 1], head)]
LEMMA Turns ==
  ASSUME NEW start, NEW head
  PROVE  \A n \in Nat: \E f: TurnLoop(start, head, n, f)
<1> DEFINE Loop(n, f) == TurnLoop(start, head, n, f)
           P == {n \in Nat: \E f: Loop(n, f)}
<1> USE DEF TurnLoop
<1>1. 0 \in P
  <2>1. Loop(0, [i \in 0..0 |-> start])
    OBVIOUS
  <2> QED
    BY <2>1
<1>2. ASSUME NEW n \in P PROVE n + 1 \in P
  <2>1. PICK f: Loop(n, f)
    OBVIOUS
  <2>2. n \in Nat
    OBVIOUS
  <2> DEFINE g == [i \in 0..n+1 |-> IF i = 0 THEN start ELSE Turn(f[i - 1], head)]
  <2>3. \A i \in 0..n: g[i] = f[i]
    BY <2>1, <2>2
  <2>4. \A i \in 0..n+1: i # 0 => i - 1 \in 0..n
    BY <2>2
  <2>5. \A i \in 0..n+1: g[i] = IF i = 0 THEN start ELSE Turn(g[i - 1], head)
    BY <2>3, <2>4
  <2>6. Loop(n + 1, g)
    BY <2>5
  <2>7. n + 1 \in Nat
    BY <2>2
  <2> QED
    BY <2>6, <2>7
<1>3. P = Nat
  <2>1. P \in SUBSET Nat
    OBVIOUS
  <2> HIDE DEF P
  <2> QED
    BY <1>1, <1>2, <2>1, CountUp
<1> QED
  BY <1>3

\* The state before the first turn, and what the loop leaves.
Before(l, head) == [l |-> l, pos |-> l[head].next, n |-> l[l[head].next].next]
LEMMA LoopOf ==
  ASSUME NEW l, NEW head
  PROVE  \E f: /\ f[0] = Before(l, head)
               /\ \A i \in 1..Cardinality(Task): f[i] = Turn(f[i - 1], head)
               /\ EachToReady(l, head) = f[Cardinality(Task)].l
<1> DEFINE N == Cardinality(Task)
           f == CHOOSE f: TurnLoop(Before(l, head), head, N, f)
<1>1. N \in Nat
  BY TasksAssumption, FS_CardinalityType
<1>2. \E h: TurnLoop(Before(l, head), head, N, h)
  BY <1>1, Turns
<1>3. f = [i \in 0..N |-> IF i = 0 THEN Before(l, head) ELSE Turn(f[i - 1], head)]
  <2>1. TurnLoop(Before(l, head), head, N, f)
    BY <1>2
  <2> QED
    BY <2>1 DEF TurnLoop
<1>4. EachToReady(l, head) = f[N].l
  BY DEF EachToReady, Before, TurnLoop
<1> HIDE DEF f
<1>5. f[0] = Before(l, head)
  <2>1. 0 \in 0..N
    BY <1>1
  <2> QED
    BY <1>3, <2>1
<1>6. ASSUME NEW i \in 1..N PROVE f[i] = Turn(f[i - 1], head)
  <2>1. i \in 0..N /\ i # 0
    BY <1>1
  <2> QED
    BY <1>3, <2>1
<1> QED
  BY <1>4, <1>5, <1>6

LEMMA ConcatIndices ==
  ASSUME NEW S, NEW p \in Seq(S), NEW q \in Seq(S)
  PROVE  /\ p \o q \in Seq(S) /\ Len(p \o q) = Len(p) + Len(q)
         /\ \A i \in 1..Len(p): (p \o q)[i] = p[i]
         /\ \A i \in 1..Len(q): (p \o q)[Len(p) + i] = q[i]
OBVIOUS

LEMMA MoveHead ==
  ASSUME NEW S, NEW p \in Seq(S), NEW q \in Seq(S), q # <<>>
  PROVE  Append(p, Head(q)) \o Tail(q) = p \o q
<1> DEFINE m == Len(p)
           n == Len(q)
           a == Append(p, Head(q))
           b == Tail(q)
<1>1. m \in Nat /\ n \in Nat \ {0}
  OBVIOUS
<1>2. /\ a \in Seq(S) /\ Len(a) = m + 1 /\ (\A i \in 1..m: a[i] = p[i]) /\ a[m + 1] = q[1]
  OBVIOUS
<1>3. b \in Seq(S) /\ Len(b) = n - 1 /\ \A i \in 1..n-1: b[i] = q[i + 1]
  OBVIOUS
<1>4. /\ p \o q \in Seq(S) /\ Len(p \o q) = m + n
      /\ \A i \in 1..m: (p \o q)[i] = p[i]
      /\ \A i \in 1..n: (p \o q)[m + i] = q[i]
  OBVIOUS
<1> HIDE DEF a, b
<1>5. /\ a \o b \in Seq(S) /\ Len(a \o b) = m + 1 + (n - 1)
      /\ \A i \in 1..m+1: (a \o b)[i] = a[i]
      /\ \A i \in 1..n-1: (a \o b)[m + 1 + i] = b[i]
  <2>1. /\ a \o b \in Seq(S) /\ Len(a \o b) = Len(a) + Len(b)
        /\ \A i \in 1..Len(a): (a \o b)[i] = a[i]
        /\ \A i \in 1..Len(b): (a \o b)[Len(a) + i] = b[i]
    <3>1. a \in Seq(S) /\ b \in Seq(S)
      BY <1>2, <1>3
    <3> QED
      BY <3>1, ConcatIndices
  <2>2. Len(a) = m + 1 /\ Len(b) = n - 1
    BY <1>2, <1>3
  <2> QED
    BY <2>1, <2>2
<1> HIDE DEF m, n
<1>6. ASSUME NEW i \in 1..m+n PROVE (a \o b)[i] = (p \o q)[i]
  <2>1. CASE i \in 1..m
    BY <1>1, <1>2, <1>4, <1>5, <2>1
  <2>2. CASE i = m + 1
    BY <1>1, <1>2, <1>4, <1>5, <2>2
  <2>3. CASE i \in m+2..m+n
    <3>1. /\ i - m - 1 \in 1..n-1 /\ m + 1 + (i - m - 1) = i
          /\ i - m - 1 + 1 \in 1..n /\ m + (i - m - 1 + 1) = i
      BY <1>1, <2>3
    <3>2. (a \o b)[i] = b[i - m - 1] /\ b[i - m - 1] = q[i - m - 1 + 1]
      BY <1>3, <1>5, <3>1
    <3> QED
      BY <1>4, <3>1, <3>2
  <2>4. i \in 1..m \/ i = m + 1 \/ i \in m+2..m+n
    BY <1>1
  <2> QED
    BY <2>1, <2>2, <2>3, <2>4
<1>7. Len(a \o b) = Len(p \o q)
  BY <1>1, <1>4, <1>5
<1>8. a \o b = p \o q
  BY <1>4, <1>5, <1>6, <1>7
<1> QED
  BY <1>8 DEF a, b

\* The loop of list_for_each_safe after i turns, begun with the nodes l and the lists
\* ls: js are the lists, "pos" the first entry left and "n" the one behind it.
MidLoop(l, hs, ls, s, i, at, js) ==
  /\ Rings(at.l, hs, js) /\ Apart(js)
  /\ js[ReadyQueue] \o js[s] = ls[ReadyQueue] \o ls[s]
  /\ js[s] = <<>> \/ Len(js[s]) + i = Len(ls[s])
  /\ \A g \in Heads \ {ReadyQueue, s}: js[g] = ls[g]
  /\ at.pos = at.l[s].next /\ at.n = at.l[at.pos].next
  /\ \A x \in Task \cup {Idle}:
       x \notin Range(ls[ReadyQueue]) \cup Range(ls[s]) => at.l[x] = l[x]

\* Counting the turns.
LEMMA TurnsLeft ==
  /\ \A k, i \in Nat: k - 1 + (i + 1) = k + i
  /\ \A k, n, b \in Nat: b <= n /\ k + n = b => k = 0
OBVIOUS

LEMMA OneTurn ==
  ASSUME NEW l, NEW hs \in SUBSET Heads, NEW ls \in Lists, ReadyQueue \in hs,
         NEW s \in hs \cap Sem, NEW i \in Nat, NEW at, NEW js \in Lists,
         MidLoop(l, hs, ls, s, i, at, js)
  PROVE  \E ks \in Lists: MidLoop(l, hs, ls, s, i + 1, Turn(at, s), ks)
<1> DEFINE q == js[s]
           t == Head(q)
<1>0. /\ s \in Heads /\ ReadyQueue \in Heads /\ s # ReadyQueue /\ s \in hs
      /\ q \in Seq(Task) /\ js[ReadyQueue] \in Seq(Task) /\ s \in Node /\ s \notin Task
      /\ ls[s] \in Seq(Task) /\ ls[ReadyQueue] \in Seq(Task) /\ Task \in SUBSET Node
      /\ Range(q) \subseteq Task
  BY HeadsAreNodes, Nodes DEF Heads
<1>1. Rings(at.l, hs, js) /\ Apart(js) /\ at.l \in Links /\ Ring(at.l, s, q)
  BY <1>0 DEF MidLoop, Rings
<1>2. CASE q = <<>>
  <2>1. at.pos = s
    BY <1>1, <1>2 DEF MidLoop, Ring
  <2>2. Turn(at, s) = at
    BY <2>1 DEF Turn
  <2>3. MidLoop(l, hs, ls, s, i + 1, at, js)
    BY <1>2 DEF MidLoop
  <2> QED
    BY <2>2, <2>3
<1>3. CASE q # <<>>
  <2> DEFINE out == list_del(at.l, t)
             moved == list_add_tail(out, t, ReadyQueue)
             is == [js EXCEPT ![s] = Tail(q)]
             ks == [is EXCEPT ![ReadyQueue] = Append(js[ReadyQueue], t)]
  <2>1. Len(q) \in Nat /\ Len(q) > 0 /\ t = q[1] /\ t \in Range(q) /\ t \in Task
        /\ Tail(q) \in Seq(Task) /\ Len(Tail(q)) = Len(q) - 1
    BY <1>0, <1>3, Indices, HeadOfList, TailIndices DEF Apart
  <2>2. is \in Lists /\ is[s] = Tail(q) /\ \A g \in Heads \ {s}: is[g] = js[g]
    BY <1>0, <2>1 DEF Lists
  <2>3. Append(js[ReadyQueue], t) \in Seq(Task)
    BY <1>0, <2>1
  <2>4. /\ ks \in Lists /\ ks[ReadyQueue] = Append(js[ReadyQueue], t)
        /\ \A g \in Heads \ {ReadyQueue}: ks[g] = is[g]
    BY <1>0, <2>2, <2>3 DEF Lists
  <2> HIDE DEF is, ks
  <2>5. /\ list_first(at.l, s) = t
        /\ Rings(out, hs, is) /\ Apart(is)
        /\ \A g \in Heads: t \notin Range(is[g])
        /\ \A x \in Task \cup {Idle}: x \notin Range(q) => out[x] = at.l[x]
    <3> HIDE DEF out
    <3>1. FirstTaken(at.l, hs, js, s, is)
      BY <1>0, <1>1, <1>3, <2>2, TakeFirst
    <3> QED
      BY <3>1 DEF FirstTaken, out
  <2>6. ks[ReadyQueue] = Append(is[ReadyQueue], t) /\ ks[s] = Tail(q)
    BY <1>0, <2>2, <2>4
  <2>7. /\ Rings(moved, hs, ks) /\ Apart(ks)
        /\ \A x \in Task \cup {Idle}: x \notin Range(is[ReadyQueue]) /\ x # t => moved[x] = out[x]
    <3> HIDE DEF out
    <3>1. LastAdded(out, hs, is, ReadyQueue, t, ks)
      BY <1>0, <2>1, <2>2, <2>4, <2>5, <2>6, AddLast
    <3> QED
      BY <3>1 DEF LastAdded
  <2>8. Turn(at, s) = [l |-> moved, pos |-> at.n, n |-> moved[at.n].next]
    <3>1. at.pos = t
      BY <2>5 DEF MidLoop, list_first
    <3> QED
      BY <1>0, <2>1, <3>1 DEF Turn, moved, out
  <2> HIDE DEF moved
  <2>9. at.n = moved[s].next
    <3>1. at.n = at.l[q[1]].next
      BY <2>1, <2>5 DEF MidLoop, list_first
    <3>2. 1 \in 1..Len(q)
      BY <2>1, FromOne
    <3>3. at.n = (IF 1 = Len(q) THEN s ELSE q[1 + 1])
      BY <1>1, <3>1, <3>2 DEF Ring
    <3>4. Ring(moved, s, Tail(q))
      BY <1>0, <2>6, <2>7 DEF Rings
    <3>5. moved[s].next = (IF Tail(q) = <<>> THEN s ELSE Tail(q)[1])
      BY <3>4 DEF Ring
    <3>6. /\ (Tail(q) = <<>>) <=> Len(q) = 1
          /\ \A j \in 1..Len(q)-1: Tail(q)[j] = q[j + 1]
      BY <1>0, <2>1, TailIndices
    <3>7. Len(q) # 1 => 1 \in 1..Len(q)-1
      BY <2>1, FromOne
    <3> QED
      BY <3>3, <3>5, <3>6, <3>7
  <2>10. ks[ReadyQueue] \o ks[s] = ls[ReadyQueue] \o ls[s]
    <3>1. Append(js[ReadyQueue], t) \o Tail(q) = js[ReadyQueue] \o q
      BY <1>0, <1>3, MoveHead
    <3> QED
      BY <2>4, <2>6, <3>1 DEF MidLoop
  <2>11. ks[s] = <<>> \/ Len(ks[s]) + (i + 1) = Len(ls[s])
    <3>1. Len(q) + i = Len(ls[s])
      BY <1>3 DEF MidLoop
    <3>2. Len(q) - 1 + (i + 1) = Len(q) + i
      BY <2>1, TurnsLeft
    <3> QED
      BY <2>1, <2>6, <3>1, <3>2
  <2>12. \A g \in Heads \ {ReadyQueue, s}: ks[g] = ls[g]
    BY <2>2, <2>4 DEF MidLoop
  <2>13. Range(js[ReadyQueue]) \cup Range(q) = Range(ls[ReadyQueue]) \cup Range(ls[s])
    <3>1. Range(js[ReadyQueue] \o q) = Range(js[ReadyQueue]) \cup Range(q)
      BY <1>0, ConcatLists
    <3>2. Range(ls[ReadyQueue] \o ls[s]) = Range(ls[ReadyQueue]) \cup Range(ls[s])
      BY <1>0, ConcatLists
    <3> QED
      BY <3>1, <3>2 DEF MidLoop
  <2>14. ASSUME NEW x \in Task \cup {Idle}, x \notin Range(ls[ReadyQueue]) \cup Range(ls[s])
         PROVE  moved[x] = l[x]
    <3>1. x \notin Range(js[ReadyQueue]) /\ x \notin Range(q) /\ x # t
      BY <2>1, <2>13, <2>14
    <3>2. is[ReadyQueue] = js[ReadyQueue]
      BY <1>0, <2>2
    <3>3. moved[x] = at.l[x]
      BY <2>5, <2>7, <3>1, <3>2
    <3> QED
      BY <2>14, <3>3 DEF MidLoop
  <2>15. MidLoop(l, hs, ls, s, i + 1, [l |-> moved, pos |-> at.n, n |-> moved[at.n].next], ks)
    BY <2>7, <2>9, <2>10, <2>11, <2>12, <2>14 DEF MidLoop
  <2> QED
    BY <2>4, <2>8, <2>15
<1> QED
  BY <1>2, <1>3

\* The loop of internal_sem_destroy takes all of a blocked list to the ready list.
AllMoved(l, hs, ls, s, ks) ==
  LET m == EachToReady(l, s)
  IN  /\ Rings(m, hs, ks)
      /\ \A x \in Task \cup {Idle}:
           x \notin Range(ls[ReadyQueue]) \cup Range(ls[s]) => m[x] = l[x]
LEMMA AllToReady ==
  ASSUME NEW l, NEW hs \in SUBSET Heads, NEW ls \in Lists, Rings(l, hs, ls), Apart(ls),
         ReadyQueue \in hs, NEW s \in hs \cap Sem,
         NEW ks \in Lists, ks[ReadyQueue] = ls[ReadyQueue] \o ls[s], ks[s] = <<>>,
         \A g \in Heads \ {ReadyQueue, s}: ks[g] = ls[g]
  PROVE  AllMoved(l, hs, ls, s, ks)
<1> DEFINE N == Cardinality(Task)
<1>0. /\ s \in Heads /\ ReadyQueue \in Heads /\ s # ReadyQueue
      /\ ls[s] \in Seq(Task) /\ ls[ReadyQueue] \in Seq(Task) /\ Range(ls[s]) \subseteq Task
  BY HeadsAreNodes, Nodes DEF Heads
<1>1. N \in Nat /\ Len(ls[s]) \in Nat /\ Len(ls[s]) <= N
  <2>1. IsFiniteSet(Range(ls[s])) /\ Cardinality(Range(ls[s])) = Len(ls[s])
    BY <1>0, LengthOfList DEF Apart
  <2>2. Cardinality(Range(ls[s])) <= N
    BY <1>0, TasksAssumption, FS_Subset
  <2>3. N \in Nat
    BY TasksAssumption, FS_CardinalityType
  <2>4. Len(ls[s]) \in Nat
    BY <1>0, Indices
  <2> QED
    BY <2>1, <2>2, <2>3, <2>4
<1>2. PICK f: /\ f[0] = Before(l, s)
              /\ \A i \in 1..N: f[i] = Turn(f[i - 1], s)
              /\ EachToReady(l, s) = f[N].l
  BY LoopOf
<1> HIDE DEF N
<1> DEFINE P == {i \in Nat: i <= N => \E js \in Lists: MidLoop(l, hs, ls, s, i, f[i], js)}
<1>3. 0 \in P
  <2>1. MidLoop(l, hs, ls, s, 0, Before(l, s), ls)
    BY <1>1 DEF MidLoop, Before
  <2> QED
    BY <1>2, <2>1
<1>4. ASSUME NEW i \in P PROVE i + 1 \in P
  <2> SUFFICES ASSUME i + 1 <= N
               PROVE  \E js \in Lists: MidLoop(l, hs, ls, s, i + 1, f[i + 1], js)
    OBVIOUS
  <2>1. i \in Nat /\ i <= N /\ i + 1 \in 1..N /\ i + 1 - 1 = i
    BY <1>1
  <2>2. PICK js \in Lists: MidLoop(l, hs, ls, s, i, f[i], js)
    BY <2>1
  <2>3. f[i + 1] = Turn(f[i], s)
    BY <1>2, <2>1
  <2> QED
    BY <2>1, <2>2, <2>3, OneTurn
<1>5. P = Nat
  <2>1. P \in SUBSET Nat
    OBVIOUS
  <2> HIDE DEF P
  <2> QED
    BY <1>3, <1>4, <2>1, CountUp
<1>6. PICK js \in Lists: MidLoop(l, hs, ls, s, N, f[N], js)
  BY <1>1, <1>5
<1>7. js[s] = <<>>
  <2>1. js[s] \in Seq(Task)
    BY <1>0, HeadsAreNodes
  <2>2. Len(js[s]) \in Nat /\ (js[s] = <<>>) <=> Len(js[s]) = 0
    BY <2>1, Indices
  <2>3. js[s] = <<>> \/ Len(js[s]) + N = Len(ls[s])
    BY <1>6 DEF MidLoop
  <2>4. Len(js[s]) + N = Len(ls[s]) => Len(js[s]) = 0
    BY <1>1, <2>2, TurnsLeft
  <2> QED
    BY <2>2, <2>3, <2>4
<1>8. js[ReadyQueue] = ls[ReadyQueue] \o ls[s]
  <2>1. js[ReadyQueue] \in Seq(Task)
    BY <1>0, HeadsAreNodes
  <2>2. js[ReadyQueue] \o <<>> = js[ReadyQueue]
    BY <2>1
  <2> QED
    BY <1>6, <1>7, <2>2 DEF MidLoop
<1>9. js = ks
  <2>1. \A g \in Heads: js[g] = ks[g]
    BY <1>6, <1>7, <1>8 DEF MidLoop
  <2> QED
    BY <2>1 DEF Lists
<1> QED
  BY <1>2, <1>6, <1>9 DEF MidLoop, AllMoved

-----------------------------------------------------------------------------
(***************************************************************************)
(* The invariant.  Like ListInv it is stated for any values of the lists,  *)
(* for the middle of a handler.  order is the free list, of which module   *)
(* Tasks keeps the set only.                                               *)
(***************************************************************************)

ListsOf(q, order, sems) ==
  [h \in Heads |-> IF h = ReadyQueue THEN q ELSE IF h = FreeQueue THEN order
                   ELSE sems[h].blocked]
Live(sems) == {ReadyQueue, FreeQueue} \cup {s \in Sem: sems[s].used > 0}

LinksOf(l, cpu, q, free, sems) ==
  /\ \E order \in Seq(Task): /\ Range(order) = free /\ NoDuplicates(order)
                             /\ Rings(l, Live(sems), ListsOf(q, order, sems))
  /\ l[cpu] = NoAnchor /\ l[Idle] = NoAnchor

LinksInv == LinksOf(links, running, readyqueue, freequeue, semafors)

ListValues(q, order, sems) ==
  LET ls == ListsOf(q, order, sems)
  IN  /\ ls \in Lists /\ ls[ReadyQueue] = q /\ ls[FreeQueue] = order
      /\ \A s \in Sem: ls[s] = sems[s].blocked
      /\ Live(sems) \in SUBSET Heads
      /\ ReadyQueue \in Live(sems) /\ FreeQueue \in Live(sems)
LEMMA TheLists ==
  ASSUME NEW q \in Seq(Task), NEW order \in Seq(Task), NEW sems,
         \A s \in Sem: sems[s].blocked \in Seq(Task)
  PROVE  ListValues(q, order, sems)
<1>1. \A s \in Sem: s # ReadyQueue /\ s # FreeQueue
  BY Nodes
<1>2. ReadyQueue # FreeQueue
  BY Nodes
<1> QED
  BY <1>1, <1>2 DEF ListValues, ListsOf, Lists, Heads, Live

LEMMA BlockedAreTasks ==
  ASSUME NEW sems \in [Sem -> Semaphore]
  PROVE  \A s \in Sem: sems[s].blocked \in Seq(Task) /\ sems[s].used \in Int
BY DEF Semaphore

\* The invariant of Tasks keeps the lists apart.
LEMMA ListsAreApart ==
  ASSUME IInv, NEW order \in Seq(Task), Range(order) = freequeue, NoDuplicates(order)
  PROVE  LET ls == ListsOf(readyqueue, order, semafors)
         IN  /\ ls \in Lists /\ Apart(ls)
             /\ \A h \in Heads: running \notin Range(ls[h]) /\ Idle \notin Range(ls[h])
<1> DEFINE ls == ListsOf(readyqueue, order, semafors)
<1>1. readyqueue \in Seq(Task) /\ semafors \in [Sem -> Semaphore]
  BY DEF IInv, TypeInv, TypeOK
<1>2. \A s \in Sem: semafors[s].blocked \in Seq(Task)
  BY <1>1, BlockedAreTasks
<1>3. /\ ls \in Lists /\ ls[ReadyQueue] = readyqueue /\ ls[FreeQueue] = order
      /\ \A s \in Sem: ls[s] = semafors[s].blocked
  <2>1. ListValues(readyqueue, order, semafors)
    BY <1>1, <1>2, TheLists
  <2> QED
    BY <2>1 DEF ListValues
<1> HIDE DEF ls
<1>4. OnePlaceOf(running, readyqueue, freequeue, semafors)
  BY DEF IInv, ListInv
<1>5. ASSUME NEW h \in Heads
      PROVE  NoDuplicates(ls[h]) /\ running \notin Range(ls[h]) /\ Idle \notin Range(ls[h])
  <2>1. Idle \notin Range(ls[h])
    BY <1>3, HeadsAreNodes, TasksAssumption
  <2>2. NoDuplicates(ls[h]) /\ running \notin Range(ls[h])
    BY <1>3, <1>4 DEF OnePlaceOf, Heads
  <2> QED
    BY <2>1, <2>2
<1>6. ASSUME NEW h \in Heads, NEW g \in Heads \ {h}
      PROVE  Range(ls[g]) \cap Range(ls[h]) = {}
  <2>1. CASE h \in Sem /\ g \in Sem
    BY <1>3, <1>4, <2>1 DEF OnePlaceOf
  <2>2. CASE h \notin Sem \/ g \notin Sem
    BY <1>3, <1>4, <2>2 DEF OnePlaceOf, Heads
  <2> QED
    BY <2>1, <2>2
<1> QED
  BY <1>3, <1>5, <1>6 DEF Apart, ls

\* The same lists of the same semaphores in use.
LEMMA SameLinks ==
  ASSUME NEW q, NEW order, NEW sems, NEW new,
         \A s \in Sem: /\ new[s].blocked = sems[s].blocked
                       /\ new[s].used > 0 <=> sems[s].used > 0
  PROVE  Live(new) = Live(sems) /\ ListsOf(q, order, new) = ListsOf(q, order, sems)
<1>1. Live(new) = Live(sems)
  BY DEF Live
<1>2. ListsOf(q, order, new) = ListsOf(q, order, sems)
  <2>1. \A h \in Heads: h = ReadyQueue \/ h = FreeQueue \/ new[h].blocked = sems[h].blocked
    BY DEF Heads
  <2> QED
    BY <2>1 DEF ListsOf
<1> QED
  BY <1>1, <1>2

\* sched_next_rr takes the first of the ready list; nobody has the CPU before.
LEMMA SwitchLinks ==
  ASSUME NEW l, NEW q \in Seq(Task), NEW order \in Seq(Task), NoDuplicates(order),
         NEW sems \in [Sem -> Semaphore], NEW wait \in [Task -> Sem \cup {NoSem}],
         Rings(l, Live(sems), ListsOf(q, order, sems)), Apart(ListsOf(q, order, sems)),
         l[Idle] = NoAnchor, sched_next_rr(q, sems, wait)
  PROVE  LinksOf(TakeReady(l), running', readyqueue', Range(order), semafors')
<1> DEFINE ls == ListsOf(q, order, sems)
<1>0. \A s \in Sem: sems[s].blocked \in Seq(Task) /\ sems[s].used \in Int
  BY BlockedAreTasks
<1>1. /\ ls \in Lists /\ ls[ReadyQueue] = q /\ ls[FreeQueue] = order
      /\ \A s \in Sem: ls[s] = sems[s].blocked
      /\ Live(sems) \in SUBSET Heads /\ ReadyQueue \in Live(sems)
  <2>1. ListValues(q, order, sems)
    BY <1>0, TheLists
  <2> QED
    BY <2>1 DEF ListValues
<1>2. CASE q = <<>>
  <2>1. running' = Idle /\ readyqueue' = q /\ semafors' = sems
    BY <1>2 DEF sched_next_rr
  <2>2. Ring(l, ReadyQueue, q)
    BY <1>1 DEF Rings
  <2>3. list_empty(l, ReadyQueue)
    BY <1>2, <2>2 DEF list_empty, Ring
  <2>4. TakeReady(l) = l
    BY <2>3 DEF TakeReady
  <2> QED
    BY <2>1, <2>4 DEF LinksOf
<1>3. CASE q # <<>>
  <2> DEFINE t == Head(q)
             m == list_del(l, t)
             ks == ListsOf(Tail(q), order, sems)
  <2>1. running' = t /\ readyqueue' = Tail(q)
    BY <1>3 DEF sched_next_rr
  <2>2. Tail(q) \in Seq(Task) /\ t \in Task /\ Range(q) \subseteq Task
    BY <1>1, <1>3, HeadOfList, HeadsAreNodes DEF Apart, Heads
  <2>3. /\ ks \in Lists /\ ks[ReadyQueue] = Tail(q) /\ ks[FreeQueue] = order
        /\ \A s \in Sem: ks[s] = sems[s].blocked
    <3>1. ListValues(Tail(q), order, sems)
      BY <1>0, <2>2, TheLists
    <3> QED
      BY <3>1 DEF ListValues
  <2> HIDE DEF ks, ls
  <2>4. \A g \in Heads \ {ReadyQueue}: ks[g] = ls[g]
    BY <1>1, <2>3 DEF Heads
  <2>5. FirstTaken(l, Live(sems), ls, ReadyQueue, ks)
    <3>1. Rings(l, Live(sems), ls) /\ Apart(ls)
      BY DEF ls
    <3> QED
      BY <1>1, <1>3, <2>3, <2>4, <3>1, TakeFirst
  <2>6. /\ list_first(l, ReadyQueue) = t /\ ~list_empty(l, ReadyQueue)
        /\ Rings(m, Live(sems), ks) /\ m[t] = NoAnchor
        /\ Idle \notin Range(q) => m[Idle] = l[Idle]
    BY <1>1, <2>5 DEF FirstTaken
  <2>7. TakeReady(l) = m /\ m[Idle] = NoAnchor
    BY <2>2, <2>6, TasksAssumption DEF TakeReady
  <2>8. \A s \in Sem: /\ semafors'[s].blocked = sems[s].blocked
                      /\ semafors'[s].used > 0 <=> sems[s].used > 0
    <3>1. CASE wait[t] = NoSem
      BY <1>3, <3>1 DEF sched_next_rr
    <3>2. CASE wait[t] # NoSem
      <4>1. SemWaitResumes(t, sems, wait) /\ wait[t] \in Sem
        BY <1>3, <2>2, <3>2 DEF sched_next_rr
      <4>2. CASE sems[wait[t]].used < 0
        <5>1. semafors' = [sems EXCEPT ![wait[t]] = [sems[wait[t]] EXCEPT !.used = @ + 1]]
          BY <4>1, <4>2 DEF SemWaitResumes
        <5>2. sems[wait[t]] \in Semaphore
          BY <4>1
        <5>3. /\ semafors'[wait[t]].blocked = sems[wait[t]].blocked
              /\ semafors'[wait[t]].used = sems[wait[t]].used + 1
          BY <4>1, <5>1, <5>2 DEF Semaphore
        <5>4. \A s \in Sem \ {wait[t]}: semafors'[s] = sems[s]
          BY <4>1, <5>1
        <5>5. PICK u \in Int: u = sems[wait[t]].used
          BY <1>0, <4>1
        <5>6. ~(u + 1 > 0) /\ ~(u > 0)
          BY <4>2, <5>5
        <5> QED
          BY <4>1, <5>3, <5>4, <5>5, <5>6
      <4>3. CASE ~(sems[wait[t]].used < 0)
        BY <4>1, <4>3 DEF SemWaitResumes
      <4> QED
        BY <4>2, <4>3
    <3> QED
      BY <3>1, <3>2
  <2>9. Live(semafors') = Live(sems) /\ ListsOf(Tail(q), order, semafors') = ks
    BY <2>8, SameLinks DEF ks
  <2> QED
    BY <2>1, <2>6, <2>7, <2>9 DEF LinksOf
<1> QED
  BY <1>2, <1>3

\* The running task gets its place in the list with head h; nobody has the CPU then.
LEMMA PutLinks ==
  ASSUME IInv, running \in Task, links[running] = NoAnchor, links[Idle] = NoAnchor,
         NEW order \in Seq(Task), Range(order) = freequeue, NoDuplicates(order),
         Rings(links, Live(semafors), ListsOf(readyqueue, order, semafors)),
         NEW h \in Live(semafors), NEW ks \in Lists,
         ks[h] = Append(ListsOf(readyqueue, order, semafors)[h], running),
         \A g \in Heads \ {h}: ks[g] = ListsOf(readyqueue, order, semafors)[g]
  PROVE  LET m == update_process_state_rr(links, running, h)
         IN  Rings(m, Live(semafors), ks) /\ Apart(ks) /\ m[Idle] = NoAnchor
<1> DEFINE ls == ListsOf(readyqueue, order, semafors)
<1>1. /\ ls \in Lists /\ Apart(ls)
      /\ \A g \in Heads: running \notin Range(ls[g]) /\ Idle \notin Range(ls[g])
  BY ListsAreApart
<1>2. Live(semafors) \in SUBSET Heads
  BY DEF Live, Heads
<1>3. Rings(links, Live(semafors), ls) /\ ks[h] = Append(ls[h], running)
      /\ \A g \in Heads \ {h}: ks[g] = ls[g]
  OBVIOUS
<1> HIDE DEF ls
<1>4. LastAdded(links, Live(semafors), ls, h, running, ks)
  BY <1>1, <1>2, <1>3, AddLast
<1>5. update_process_state_rr(links, running, h) = list_add_tail(links, running, h)
  BY NoAnchorType, TasksAssumption DEF update_process_state_rr
<1>6. Idle # running /\ Idle \notin Range(ls[h])
  BY <1>1, <1>2, TasksAssumption
<1> QED
  BY <1>4, <1>5, <1>6 DEF LastAdded

\* internal_sem_destroy.
LEMMA DestroyLinks ==
  ASSUME IInv, LinksInv, NEW s \in Sem, semafors[s].used > 0, internal_sem_destroy(s)
  PROVE  LinksOf(BlockedToReady(s), running, readyqueue', freequeue, semafors')
<1> DEFINE b == semafors[s].blocked
           m == BlockedToReady(s)
<1>1. PICK order \in Seq(Task):
        /\ Range(order) = freequeue /\ NoDuplicates(order)
        /\ Rings(links, Live(semafors), ListsOf(readyqueue, order, semafors))
  BY DEF LinksInv, LinksOf
<1> DEFINE ls == ListsOf(readyqueue, order, semafors)
           ks == ListsOf(readyqueue', order, semafors')
<1>2. /\ readyqueue \in Seq(Task) /\ semafors \in [Sem -> Semaphore]
      /\ \A r \in Sem: semafors[r].blocked \in Seq(Task) /\ semafors[r].used \in Int
      /\ b \in Seq(Task)
  BY BlockedAreTasks DEF IInv, TypeInv, TypeOK
<1>3. /\ ls \in Lists /\ ls[ReadyQueue] = readyqueue /\ ls[FreeQueue] = order
      /\ \A r \in Sem: ls[r] = semafors[r].blocked
      /\ Live(semafors) \in SUBSET Heads /\ ReadyQueue \in Live(semafors)
  <2>1. ListValues(readyqueue, order, semafors)
    BY <1>1, <1>2, TheLists
  <2> QED
    BY <2>1 DEF ListValues
<1>4. /\ readyqueue' = readyqueue \o b /\ readyqueue' \in Seq(Task)
      /\ semafors'[s].blocked = <<>> /\ semafors'[s].used = 0 - Len(b)
      /\ \A r \in Sem \ {s}: semafors'[r] = semafors[r]
  BY <1>2 DEF internal_sem_destroy, Unused
<1>5. \A r \in Sem: semafors'[r].blocked \in Seq(Task)
  <2>1. <<>> \in Seq(Task)
    OBVIOUS
  <2> QED
    BY <1>2, <1>4, <2>1
<1>6. /\ ks \in Lists /\ ks[ReadyQueue] = readyqueue' /\ ks[FreeQueue] = order
      /\ \A r \in Sem: ks[r] = semafors'[r].blocked
  <2>1. ListValues(readyqueue', order, semafors')
    BY <1>4, <1>5, TheLists
  <2> QED
    BY <2>1 DEF ListValues
<1>7. Apart(ls) /\ \A h \in Heads: running \notin Range(ls[h]) /\ Idle \notin Range(ls[h])
  BY <1>1, ListsAreApart
<1>8. Rings(links, Live(semafors), ls)
  BY <1>1
<1> HIDE DEF ls, ks
<1>9. s \in Live(semafors) \cap Sem /\ s # ReadyQueue /\ s \in Heads /\ ReadyQueue \in Heads
  BY Nodes DEF Live, Heads
<1>10. /\ ks[ReadyQueue] = ls[ReadyQueue] \o ls[s] /\ ks[s] = <<>>
       /\ \A g \in Heads \ {ReadyQueue, s}: ks[g] = ls[g]
  BY <1>3, <1>4, <1>6 DEF Heads
<1>11. AllMoved(links, Live(semafors), ls, s, ks)
  BY <1>3, <1>6, <1>7, <1>8, <1>9, <1>10, AllToReady
<1>12. /\ Rings(m, Live(semafors), ks)
       /\ \A x \in Task \cup {Idle}:
            x \notin Range(ls[ReadyQueue]) \cup Range(ls[s]) => m[x] = links[x]
  BY <1>11 DEF BlockedToReady, AllMoved
<1> HIDE DEF m
<1>13. m[running] = NoAnchor /\ m[Idle] = NoAnchor
  <2>1. running \in Task \cup {Idle} /\ links[running] = NoAnchor /\ links[Idle] = NoAnchor
    BY DEF IInv, TypeInv, TypeOK, LinksInv, LinksOf
  <2> QED
    BY <1>7, <1>9, <1>12, <2>1
<1>14. Live(semafors') \subseteq Live(semafors)
  <2>1. Len(b) \in Nat
    BY <1>2, Indices
  <2>2. ~(0 - Len(b) > 0)
    BY <2>1
  <2> QED
    BY <1>4, <2>2 DEF Live
<1>15. Rings(m, Live(semafors'), ks)
  BY <1>12, <1>14 DEF Rings
<1> QED
  BY <1>1, <1>13, <1>15 DEF LinksOf, ks, m

\* A new process is the first of the free list; its copied anchor is NULL anyway.
LEMMA BornLinks ==
  ASSUME IInv, LinksInv, NEW child, NewProcess(child), Born(list_first(links, FreeQueue))
  PROVE  LinksInv'
<1>1. PICK order \in Seq(Task):
        /\ Range(order) = freequeue /\ NoDuplicates(order)
        /\ Rings(links, Live(semafors), ListsOf(readyqueue, order, semafors))
  BY DEF LinksInv, LinksOf
<1> DEFINE ls == ListsOf(readyqueue, order, semafors)
           t == Head(order)
           is == ListsOf(readyqueue, Tail(order), semafors)
           ks == ListsOf(Append(readyqueue, t), Tail(order), semafors)
           out == list_del(links, t)
<1>2. /\ readyqueue \in Seq(Task) /\ semafors \in [Sem -> Semaphore]
      /\ \A r \in Sem: semafors[r].blocked \in Seq(Task)
      /\ links[running] = NoAnchor /\ links[Idle] = NoAnchor /\ running \in Task \cup {Idle}
  BY BlockedAreTasks DEF IInv, TypeInv, TypeOK, LinksInv, LinksOf
<1>3. /\ ls \in Lists /\ ls[ReadyQueue] = readyqueue /\ ls[FreeQueue] = order
      /\ \A r \in Sem: ls[r] = semafors[r].blocked
      /\ Live(semafors) \in SUBSET Heads
      /\ ReadyQueue \in Live(semafors) /\ FreeQueue \in Live(semafors)
  <2>1. ListValues(readyqueue, order, semafors)
    BY <1>1, <1>2, TheLists
  <2> QED
    BY <2>1 DEF ListValues
<1>4. /\ child \in freequeue /\ freequeue' = freequeue \ {child}
      /\ readyqueue' = Append(readyqueue, child) /\ UNCHANGED <<running, semafors>>
  BY DEF NewProcess
<1>5. order # <<>>
  BY <1>1, <1>4, EmptyList
<1>6. t \in Task /\ Tail(order) \in Seq(Task) /\ NoDuplicates(Tail(order))
      /\ Range(Tail(order)) = freequeue \ {t} /\ t \in freequeue
  BY <1>1, <1>5, HeadOfList
<1>7. Append(readyqueue, t) \in Seq(Task)
  BY <1>2, <1>6
<1>8. /\ is \in Lists /\ is[ReadyQueue] = readyqueue /\ is[FreeQueue] = Tail(order)
      /\ \A r \in Sem: is[r] = semafors[r].blocked
  <2>1. ListValues(readyqueue, Tail(order), semafors)
    BY <1>2, <1>6, TheLists
  <2> QED
    BY <2>1 DEF ListValues
<1>9. /\ ks \in Lists /\ ks[ReadyQueue] = Append(readyqueue, t) /\ ks[FreeQueue] = Tail(order)
      /\ \A r \in Sem: ks[r] = semafors[r].blocked
  <2>1. ListValues(Append(readyqueue, t), Tail(order), semafors)
    BY <1>2, <1>6, <1>7, TheLists
  <2> QED
    BY <2>1 DEF ListValues
<1>10. Apart(ls) /\ \A h \in Heads: running \notin Range(ls[h]) /\ Idle \notin Range(ls[h])
  BY <1>1, ListsAreApart
<1>11. Rings(links, Live(semafors), ls)
  BY <1>1
<1> HIDE DEF ls, is, ks
<1>12. /\ ReadyQueue \in Heads /\ FreeQueue \in Heads /\ ReadyQueue # FreeQueue
       /\ \A g \in Heads \ {FreeQueue}: is[g] = ls[g]
       /\ \A g \in Heads \ {ReadyQueue}: ks[g] = is[g]
  BY <1>3, <1>8, <1>9, Nodes DEF Heads
<1>13. FirstTaken(links, Live(semafors), ls, FreeQueue, is)
  BY <1>3, <1>5, <1>8, <1>10, <1>11, <1>12, TakeFirst
<1>14. /\ list_first(links, FreeQueue) = t
       /\ Rings(out, Live(semafors), is) /\ Apart(is) /\ out[t] = NoAnchor
       /\ \A g \in Heads: t \notin Range(is[g])
       /\ \A x \in Task \cup {Idle}: x \notin Range(order) => out[x] = links[x]
  BY <1>3, <1>13 DEF FirstTaken
<1>15. TakeFree(links) = out
  BY <1>14 DEF TakeFree
<1> HIDE DEF out
<1>16. [out EXCEPT ![t] = links[running]] = out
  BY <1>2, <1>14 DEF Rings, Links
<1>17. links' = list_add_tail(out, t, ReadyQueue) /\ freequeue' = freequeue \ {t}
  BY <1>14, <1>15, <1>16 DEF Born
<1>18. child = t
  BY <1>4, <1>6, <1>17
<1>19. LastAdded(out, Live(semafors), is, ReadyQueue, t, ks)
  BY <1>3, <1>6, <1>8, <1>9, <1>12, <1>14, AddLast
<1>20. /\ Rings(links', Live(semafors), ks)
       /\ \A x \in Task \cup {Idle}: x \notin Range(readyqueue) /\ x # t => links'[x] = out[x]
  BY <1>8, <1>17, <1>19 DEF LastAdded
<1>21. links'[running] = NoAnchor /\ links'[Idle] = NoAnchor
  <2>1. \A x \in {running, Idle}: /\ x \notin Range(readyqueue) /\ x \notin Range(order)
                                  /\ x \in Task \cup {Idle}
    BY <1>2, <1>3, <1>10, <1>12
  <2>2. \A x \in {running, Idle}: x # t
    BY <1>1, <1>6, <2>1
  <2> QED
    BY <1>2, <1>14, <1>20, <2>1, <2>2
<1>22. Live(semafors') = Live(semafors) /\ ListsOf(readyqueue', Tail(order), semafors') = ks
  BY <1>4, <1>18 DEF ks
<1>23. LinksOf(links', running', readyqueue', freequeue', semafors')
  BY <1>4, <1>6, <1>17, <1>20, <1>21, <1>22 DEF LinksOf
<1> QED
  BY <1>23 DEF LinksInv

\* Semaphore calls that leave the lists alone.
LEMMA UntouchedLinks ==
  ASSUME LinksInv, UNCHANGED <<links, running, readyqueue, freequeue>>,
         \A s \in Sem: /\ semafors'[s].blocked = semafors[s].blocked
                       /\ semafors'[s].used > 0 <=> semafors[s].used > 0
  PROVE  LinksInv'
<1>1. PICK order \in Seq(Task):
        /\ Range(order) = freequeue /\ NoDuplicates(order)
        /\ Rings(links, Live(semafors), ListsOf(readyqueue, order, semafors))
  BY DEF LinksInv, LinksOf
<1>2. /\ Live(semafors') = Live(semafors)
      /\ ListsOf(readyqueue, order, semafors') = ListsOf(readyqueue, order, semafors)
  BY SameLinks
<1>3. LinksOf(links', running', readyqueue', freequeue', semafors')
  BY <1>1, <1>2 DEF LinksInv, LinksOf
<1> QED
  BY <1>3 DEF LinksInv

-----------------------------------------------------------------------------
(* Every action keeps the invariant. *)

\* get_free_semafor and get_semafor find one semaphore.
LEMMA FirstFreeUnique ==
  ASSUME NEW r \in Sem, NEW s \in Sem, IsFirstFree(r), IsFirstFree(s)
  PROVE  r = s
<1>1. r \in Int /\ s \in Int /\ r >= 0 /\ s >= 0
  BY NumbersAssumption DEF Sem
<1>2. r < s => r \in 0..s-1
  BY <1>1
<1>3. s < r => s \in 0..r-1
  BY <1>1
<1>4. ~(r < s) /\ ~(s < r)
  BY <1>2, <1>3 DEF IsFirstFree
<1> QED
  BY <1>1, <1>4

LEMMA NamesUnique ==
  ASSUME NEW n, NEW r \in Sem, NEW s \in Sem, Names(n, r), Names(n, s)
  PROVE  r = s
<1>1. r \in Int /\ s \in Int /\ r >= 0 /\ s >= 0
  BY NumbersAssumption DEF Sem
<1>2. r < s => r \in 0..s-1
  BY <1>1
<1>3. s < r => s \in 0..r-1
  BY <1>1
<1>4. ~(r < s) /\ ~(s < r)
  BY <1>2, <1>3 DEF Names
<1> QED
  BY <1>1, <1>4

LEMMA TypesOfLinks ==
  ASSUME IInv, LinksInv
  PROVE  /\ readyqueue \in Seq(Task) /\ semafors \in [Sem -> Semaphore]
         /\ waiting \in [Task -> Sem \cup {NoSem}] /\ running \in Task \cup {Idle}
         /\ \A r \in Sem: semafors[r].blocked \in Seq(Task) /\ semafors[r].used \in Int
         /\ links[running] = NoAnchor /\ links[Idle] = NoAnchor /\ links \in Links
BY BlockedAreTasks DEF IInv, TypeInv, TypeOK, LinksInv, LinksOf, Rings

\* "In no list": update_process_state_rr leaves idle where it is.
LEMMA IdleStays ==
  ASSUME NEW l, l[Idle] = NoAnchor, NEW dst
  PROVE  update_process_state_rr(l, Idle, dst) = l
BY NoAnchorType DEF update_process_state_rr

LEMMA TickLinks ==
  ASSUME IInv, LinksInv, LinkedClockTick
  PROVE  LinksInv'
<1>1. PICK order \in Seq(Task):
        /\ Range(order) = freequeue /\ NoDuplicates(order)
        /\ Rings(links, Live(semafors), ListsOf(readyqueue, order, semafors))
  BY DEF LinksInv, LinksOf
<1> DEFINE ls == ListsOf(readyqueue, order, semafors)
<1>2. /\ readyqueue \in Seq(Task) /\ semafors \in [Sem -> Semaphore]
      /\ waiting \in [Task -> Sem \cup {NoSem}] /\ running \in Task \cup {Idle}
      /\ \A r \in Sem: semafors[r].blocked \in Seq(Task)
      /\ links[running] = NoAnchor /\ links[Idle] = NoAnchor
  BY TypesOfLinks
<1>3. ListValues(readyqueue, order, semafors)
  BY <1>1, <1>2, TheLists
<1>4. Apart(ls)
  BY <1>1, ListsAreApart
<1>5. freequeue' = freequeue
  BY DEF LinkedClockTick, ClockTick, processVars
<1>6. list_empty(links, ReadyQueue) <=> readyqueue = <<>>
  <2>1. Ring(links, ReadyQueue, readyqueue) /\ links \in Links
    BY <1>1, <1>3 DEF Rings, ListValues
  <2>2. ReadyQueue \notin Range(readyqueue) /\ ReadyQueue \in Node /\ Task \in SUBSET Node
    BY <1>2, Indices, Nodes
  <2> QED
    BY <1>2, <2>1, <2>2, RingNeighbours DEF list_empty
<1>7. CASE UNCHANGED <<links, running, readyqueue, semafors>>
  BY <1>5, <1>7, UntouchedLinks
<1>8. CASE running = Idle /\ readyqueue # <<>> /\ sched_next_rr(readyqueue, semafors, waiting)
  <2>1. links' = TakeReady(links)
    BY <1>2, <1>6, <1>8, IdleStays DEF LinkedClockTick
  <2>2. LinksOf(TakeReady(links), running', readyqueue', Range(order), semafors')
    BY <1>1, <1>2, <1>4, <1>8, SwitchLinks
  <2> QED
    BY <1>1, <1>5, <2>1, <2>2 DEF LinksInv
<1>9. CASE /\ running # Idle /\ quantum_left = 1
           /\ sched_next_rr(Append(readyqueue, running), semafors, waiting)
  <2> DEFINE q == Append(readyqueue, running)
             ks == ListsOf(q, order, semafors)
             m == update_process_state_rr(links, running, ReadyQueue)
  <2>1. q \in Seq(Task) /\ running \in Task
    BY <1>2, <1>9
  <2>2. ListValues(q, order, semafors)
    BY <1>1, <1>2, <2>1, TheLists
  <2>3. /\ ReadyQueue \in Live(semafors) /\ ks \in Lists
        /\ ks[ReadyQueue] = Append(ls[ReadyQueue], running)
        /\ \A g \in Heads \ {ReadyQueue}: ks[g] = ls[g]
    <3>1. ks \in Lists /\ ks[ReadyQueue] = q /\ ReadyQueue \in Live(semafors)
      BY <2>2 DEF ListValues
    <3>2. ls[ReadyQueue] = readyqueue
      BY <1>3 DEF ListValues
    <3>3. \A g \in Heads \ {ReadyQueue}: ks[g] = ls[g]
      BY <1>3, <2>2 DEF ListValues, Heads
    <3> QED
      BY <3>1, <3>2, <3>3
  <2>4. Rings(m, Live(semafors), ks) /\ Apart(ks) /\ m[Idle] = NoAnchor
    BY <1>1, <1>2, <2>1, <2>3, PutLinks
  <2>5. LinksOf(TakeReady(m), running', readyqueue', Range(order), semafors')
    <3> HIDE DEF m
    <3> QED
      BY <1>1, <1>2, <1>9, <2>1, <2>4, SwitchLinks
  <2>6. links' = TakeReady(m)
    BY <1>9 DEF LinkedClockTick
  <2> QED
    BY <1>1, <1>5, <2>5, <2>6 DEF LinksInv
<1>10. CASE \/ running = Idle /\ readyqueue = <<>>
            \/ running # Idle /\ quantum_left > 1
  <2>1. ~(quantum_left = 1 /\ quantum_left > 1)
    OBVIOUS
  <2>2. UNCHANGED <<running, readyqueue, semafors>>
    BY <1>10, <2>1 DEF LinkedClockTick, ClockTick
  <2>3. links' = links
    BY <1>6, <1>10, <2>1 DEF LinkedClockTick
  <2> QED
    BY <1>7, <2>2, <2>3
<1> QED
  BY <1>7, <1>8, <1>9, <1>10 DEF LinkedClockTick, ClockTick

LEMMA ExitLinks ==
  ASSUME IInv, LinksInv, LinkedExitEnds
  PROVE  LinksInv'
<1>1. PICK order \in Seq(Task):
        /\ Range(order) = freequeue /\ NoDuplicates(order)
        /\ Rings(links, Live(semafors), ListsOf(readyqueue, order, semafors))
  BY DEF LinksInv, LinksOf
<1> DEFINE ls == ListsOf(readyqueue, order, semafors)
           new == Append(order, running)
           ks == ListsOf(readyqueue, new, semafors)
           m == update_process_state_rr(links, running, FreeQueue)
<1>2. /\ readyqueue \in Seq(Task) /\ semafors \in [Sem -> Semaphore]
      /\ waiting \in [Task -> Sem \cup {NoSem}]
      /\ \A r \in Sem: semafors[r].blocked \in Seq(Task)
      /\ links[running] = NoAnchor /\ links[Idle] = NoAnchor
  BY TypesOfLinks
<1>3. running \in Task
  BY NumbersAssumption DEF LinkedExitEnds, ExitEnds, IInv, TypeInv, TypeOK, NotExiting
<1>4. /\ new \in Seq(Task) /\ Range(new) = freequeue \cup {running} /\ NoDuplicates(new)
  <2>1. running \notin freequeue
    BY RunningIsNowhere
  <2> QED
    BY <1>1, <1>3, <2>1, AppendToList
<1>5. ListValues(readyqueue, order, semafors)
  BY <1>1, <1>2, TheLists
<1>6. ListValues(readyqueue, new, semafors)
  BY <1>2, <1>4, TheLists
<1>7. /\ FreeQueue \in Live(semafors) /\ ks \in Lists
      /\ ks[FreeQueue] = Append(ls[FreeQueue], running)
      /\ \A g \in Heads \ {FreeQueue}: ks[g] = ls[g]
  <2>1. ks \in Lists /\ ks[FreeQueue] = new /\ FreeQueue \in Live(semafors)
    BY <1>6 DEF ListValues
  <2>2. ls[FreeQueue] = order
    BY <1>5 DEF ListValues
  <2>3. \A g \in Heads \ {FreeQueue}: ks[g] = ls[g]
    BY <1>5, <1>6 DEF ListValues, Heads
  <2> QED
    BY <2>1, <2>2, <2>3
<1>8. Rings(m, Live(semafors), ks) /\ Apart(ks) /\ m[Idle] = NoAnchor
  BY <1>1, <1>2, <1>3, <1>7, PutLinks
<1>9. links' = TakeReady(m) /\ freequeue' = Range(new)
      /\ sched_next_rr(readyqueue, semafors, waiting)
  BY <1>4 DEF LinkedExitEnds, ExitEnds
<1>10. LinksOf(TakeReady(m), running', readyqueue', Range(new), semafors')
  <2> HIDE DEF m, new
  <2> QED
    BY <1>2, <1>4, <1>8, <1>9, SwitchLinks
<1> QED
  BY <1>9, <1>10 DEF LinksInv

LEMMA WaitLinks ==
  ASSUME IInv, LinksInv, NEW n, linked_sem_wait(n)
  PROVE  LinksInv'
<1>1. PICK order \in Seq(Task):
        /\ Range(order) = freequeue /\ NoDuplicates(order)
        /\ Rings(links, Live(semafors), ListsOf(readyqueue, order, semafors))
  BY DEF LinksInv, LinksOf
<1>2. /\ readyqueue \in Seq(Task) /\ semafors \in [Sem -> Semaphore]
      /\ waiting \in [Task -> Sem \cup {NoSem}] /\ running \in Task \cup {Idle}
      /\ \A r \in Sem: semafors[r].blocked \in Seq(Task)
      /\ links[running] = NoAnchor /\ links[Idle] = NoAnchor
  BY TypesOfLinks
<1>3. CASE sem_wait_takes(n) /\ UNCHANGED links
  <2>1. PICK s \in Sem: semafors' = [semafors EXCEPT ![s] = [semafors[s] EXCEPT !.count = @ - 1]]
    BY <1>3 DEF sem_wait_takes
  <2>2. semafors[s] \in Semaphore
    BY <1>2
  <2>3. /\ semafors'[s].blocked = semafors[s].blocked /\ semafors'[s].used = semafors[s].used
        /\ \A r \in Sem \ {s}: semafors'[r] = semafors[r]
    BY <1>2, <2>1, <2>2 DEF Semaphore
  <2>4. UNCHANGED <<running, readyqueue, freequeue>>
    BY <1>3 DEF sem_wait_takes, processVars
  <2>5. \A r \in Sem: /\ semafors'[r].blocked = semafors[r].blocked
                      /\ semafors'[r].used > 0 <=> semafors[r].used > 0
    BY <2>3
  <2> QED
    BY <1>3, <2>4, <2>5, UntouchedLinks
<1>4. ASSUME NEW s \in Sem, Names(n, s), sem_wait_blocks(n),
             links' = TakeReady(update_process_state_rr(links, running, s))
      PROVE  LinksInv'
  <2> DEFINE ls == ListsOf(readyqueue, order, semafors)
             sems == [semafors EXCEPT ![s].blocked = Append(@, running)]
             wait == [waiting EXCEPT ![running] = s]
             ks == ListsOf(readyqueue, order, sems)
             m == update_process_state_rr(links, running, s)
  <2>1. running \in Task
    BY <1>2, <1>4 DEF sem_wait_blocks, InCall
  <2>2. sched_next_rr(readyqueue, sems, wait) /\ freequeue' = freequeue
    <3>1. PICK r \in Sem:
            /\ Names(n, r)
            /\ sched_next_rr(readyqueue, [semafors EXCEPT ![r].blocked = Append(@, running)],
                             [waiting EXCEPT ![running] = r])
      BY <1>4 DEF sem_wait_blocks
    <3>2. r = s
      BY <1>4, <3>1, NamesUnique
    <3> QED
      BY <1>4, <3>1, <3>2 DEF sem_wait_blocks, processVars
  <2>3. sems \in [Sem -> Semaphore] /\ wait \in [Task -> Sem \cup {NoSem}]
    BY <1>2, <2>1, SemaphoresType
  <2>4. /\ sems[s].blocked = Append(semafors[s].blocked, running)
        /\ sems[s].used = semafors[s].used
        /\ \A r \in Sem \ {s}: sems[r] = semafors[r]
    <3>1. semafors[s] \in Semaphore
      BY <1>2
    <3>2. sems = [semafors EXCEPT ![s] =
                    [semafors[s] EXCEPT !.blocked = Append(semafors[s].blocked, running)]]
      BY <1>2
    <3> QED
      BY <1>2, <3>1, <3>2 DEF Semaphore
  <2> HIDE DEF sems, wait
  <2>5. \A r \in Sem: sems[r].blocked \in Seq(Task)
    BY <2>3, BlockedAreTasks
  <2>6. ListValues(readyqueue, order, semafors)
    BY <1>1, <1>2, TheLists
  <2>7. ListValues(readyqueue, order, sems)
    BY <1>1, <1>2, <2>5, TheLists
  <2>8. Live(sems) = Live(semafors) /\ s \in Live(semafors)
    BY <1>4, <2>4 DEF Live, Names
  <2>9. /\ ks \in Lists /\ ks[s] = Append(ls[s], running)
        /\ \A g \in Heads \ {s}: ks[g] = ls[g]
    <3>1. ks \in Lists /\ ks[s] = sems[s].blocked
      BY <2>7 DEF ListValues
    <3>2. ls[s] = semafors[s].blocked
      BY <2>6 DEF ListValues
    <3>3. \A g \in Heads \ {s}: ks[g] = ls[g]
      BY <2>4, <2>6, <2>7 DEF ListValues, Heads
    <3> QED
      BY <2>4, <3>1, <3>2, <3>3
  <2>10. Rings(m, Live(semafors), ks) /\ Apart(ks) /\ m[Idle] = NoAnchor
    BY <1>1, <1>2, <2>1, <2>8, <2>9, PutLinks
  <2>11. LinksOf(TakeReady(m), running', readyqueue', Range(order), semafors')
    <3> HIDE DEF m
    <3> QED
      BY <1>1, <1>2, <2>2, <2>3, <2>8, <2>10, SwitchLinks
  <2> QED
    BY <1>1, <1>4, <2>2, <2>11 DEF LinksInv
<1> QED
  BY <1>3, <1>4 DEF linked_sem_wait

LEMMA SignalLinks ==
  ASSUME IInv, LinksInv, NEW n, linked_sem_signal(n)
  PROVE  LinksInv'
<1>1. PICK order \in Seq(Task):
        /\ Range(order) = freequeue /\ NoDuplicates(order)
        /\ Rings(links, Live(semafors), ListsOf(readyqueue, order, semafors))
  BY DEF LinksInv, LinksOf
<1>2. /\ readyqueue \in Seq(Task) /\ semafors \in [Sem -> Semaphore]
      /\ running \in Task \cup {Idle}
      /\ \A r \in Sem: semafors[r].blocked \in Seq(Task)
      /\ links[running] = NoAnchor /\ links[Idle] = NoAnchor /\ links \in Links
  BY TypesOfLinks
<1>3. PICK s \in Sem:
        /\ Names(n, s) /\ sem_signal(n)
        /\ links' = IF list_empty(links, s) THEN links
                    ELSE LET p == list_first(links, s)
                         IN  list_add_tail(list_del(links, p), p, ReadyQueue)
  BY DEF linked_sem_signal
<1> DEFINE b == semafors[s].blocked
           t == Head(b)
           ls == ListsOf(readyqueue, order, semafors)
<1>4. \/ /\ b = <<>>
         /\ semafors' = [semafors EXCEPT ![s] = [semafors[s] EXCEPT !.count = @ + 1]]
         /\ UNCHANGED readyqueue
      \/ /\ b # <<>>
         /\ semafors' = [semafors EXCEPT ![s] = [semafors[s] EXCEPT !.blocked = Tail(@)]]
         /\ readyqueue' = Append(readyqueue, t)
  <2>1. PICK r \in Sem:
          /\ Names(n, r)
          /\ \/ /\ semafors[r].blocked = <<>>
                /\ semafors' = [semafors EXCEPT ![r] = [semafors[r] EXCEPT !.count = @ + 1]]
                /\ UNCHANGED readyqueue
             \/ /\ semafors[r].blocked # <<>>
                /\ semafors' = [semafors EXCEPT ![r] = [semafors[r] EXCEPT !.blocked = Tail(@)]]
                /\ readyqueue' = Append(readyqueue, Head(semafors[r].blocked))
    BY <1>3 DEF sem_signal
  <2>2. r = s
    BY <1>3, <2>1, NamesUnique
  <2> QED
    BY <2>1, <2>2
<1>5. UNCHANGED <<running, freequeue>>
  BY <1>3 DEF sem_signal, processVars
<1>6. semafors[s] \in Semaphore /\ s \in Live(semafors) /\ s \in Heads /\ ReadyQueue \in Heads
      /\ s # ReadyQueue
  BY <1>2, <1>3, Nodes DEF Live, Names, Heads
<1>7. ListValues(readyqueue, order, semafors)
  BY <1>1, <1>2, TheLists
<1>8. /\ ls \in Lists /\ Live(semafors) \in SUBSET Heads /\ ReadyQueue \in Live(semafors)
      /\ ls[s] = b /\ ls[ReadyQueue] = readyqueue /\ ls[FreeQueue] = order
      /\ \A r \in Sem: ls[r] = semafors[r].blocked
  BY <1>7 DEF ListValues
<1>9. Apart(ls) /\ \A h \in Heads: running \notin Range(ls[h]) /\ Idle \notin Range(ls[h])
  BY <1>1, ListsAreApart
<1>10. CASE b = <<>>
  <2>1. Ring(links, s, b)
    BY <1>1, <1>6, <1>8 DEF Rings
  <2>2. links' = links
    BY <1>3, <1>10, <2>1 DEF list_empty, Ring
  <2>3. semafors' = [semafors EXCEPT ![s] = [semafors[s] EXCEPT !.count = @ + 1]]
        /\ UNCHANGED readyqueue
    BY <1>4, <1>10
  <2>4. /\ semafors'[s].blocked = semafors[s].blocked /\ semafors'[s].used = semafors[s].used
        /\ \A r \in Sem \ {s}: semafors'[r] = semafors[r]
    BY <1>2, <1>6, <2>3 DEF Semaphore
  <2>5. \A r \in Sem: /\ semafors'[r].blocked = semafors[r].blocked
                      /\ semafors'[r].used > 0 <=> semafors[r].used > 0
    BY <2>4
  <2> QED
    BY <1>5, <2>2, <2>3, <2>5, UntouchedLinks
<1>11. CASE b # <<>>
  <2> DEFINE out == list_del(links, t)
             is == ListsOf(readyqueue, order, semafors')
             ks == ListsOf(readyqueue', order, semafors')
  <2>1. semafors' = [semafors EXCEPT ![s] = [semafors[s] EXCEPT !.blocked = Tail(@)]]
        /\ readyqueue' = Append(readyqueue, t)
    BY <1>4, <1>11
  <2>2. /\ semafors'[s].blocked = Tail(b) /\ semafors'[s].used = semafors[s].used
        /\ \A r \in Sem \ {s}: semafors'[r] = semafors[r]
    BY <1>2, <1>6, <2>1 DEF Semaphore
  <2>3. t \in Task /\ Tail(b) \in Seq(Task)
    BY <1>2, <1>6, <1>8, <1>9, <1>11, HeadOfList DEF Apart
  <2>4. readyqueue' \in Seq(Task)
    BY <1>2, <2>1, <2>3
  <2>5. \A r \in Sem: semafors'[r].blocked \in Seq(Task)
    BY <1>2, <2>2, <2>3
  <2>6. ListValues(readyqueue, order, semafors')
    BY <1>1, <1>2, <2>5, TheLists
  <2>7. ListValues(readyqueue', order, semafors')
    BY <1>1, <2>4, <2>5, TheLists
  <2>8. Live(semafors') = Live(semafors)
    BY <2>2 DEF Live
  <2>9. is \in Lists /\ is[s] = Tail(ls[s]) /\ \A g \in Heads \ {s}: is[g] = ls[g]
    BY <1>8, <2>2, <2>6 DEF ListValues, Heads
  <2>10. /\ ks \in Lists /\ ks[ReadyQueue] = Append(is[ReadyQueue], t)
         /\ \A g \in Heads \ {ReadyQueue}: ks[g] = is[g]
    BY <2>1, <2>6, <2>7 DEF ListValues, Heads
  <2>11. Rings(links, Live(semafors), ls)
    BY <1>1
  <2> HIDE DEF ls, is, ks, b
  <2>12. FirstTaken(links, Live(semafors), ls, s, is)
    BY <1>6, <1>8, <1>9, <1>11, <2>9, <2>11, TakeFirst
  <2>13. /\ list_first(links, s) = t /\ ~list_empty(links, s)
         /\ Rings(out, Live(semafors), is) /\ Apart(is)
         /\ \A g \in Heads: t \notin Range(is[g])
         /\ \A x \in Task \cup {Idle}: x \notin Range(b) => out[x] = links[x]
         /\ t \in Range(b)
    BY <1>8, <2>12 DEF FirstTaken
  <2>14. links' = list_add_tail(out, t, ReadyQueue)
    BY <1>3, <2>13
  <2> HIDE DEF out
  <2>15. LastAdded(out, Live(semafors), is, ReadyQueue, t, ks)
    BY <1>8, <2>3, <2>9, <2>10, <2>13, AddLast
  <2>16. /\ Rings(links', Live(semafors), ks)
         /\ \A x \in Task \cup {Idle}: x \notin Range(readyqueue) /\ x # t => links'[x] = out[x]
    BY <1>6, <1>8, <2>9, <2>14, <2>15 DEF LastAdded
  <2>17. links'[running] = NoAnchor /\ links'[Idle] = NoAnchor
    <3>1. \A x \in {running, Idle}: /\ x \notin Range(readyqueue) /\ x \notin Range(b)
                                    /\ x \in Task \cup {Idle} /\ x # t
      BY <1>2, <1>6, <1>8, <1>9, <2>13
    <3> QED
      BY <1>2, <2>13, <2>16, <3>1
  <2>18. LinksOf(links', running', readyqueue', freequeue', semafors')
    BY <1>1, <1>5, <2>8, <2>16, <2>17 DEF LinksOf, ks
  <2> QED
    BY <2>18 DEF LinksInv
<1> QED
  BY <1>10, <1>11

LEMMA SemInitLinks ==
  ASSUME IInv, LinksInv, NEW n, NEW value, linked_sem_init(n, value)
  PROVE  LinksInv'
<1>1. PICK order \in Seq(Task):
        /\ Range(order) = freequeue /\ NoDuplicates(order)
        /\ Rings(links, Live(semafors), ListsOf(readyqueue, order, semafors))
  BY DEF LinksInv, LinksOf
<1>2. /\ readyqueue \in Seq(Task) /\ semafors \in [Sem -> Semaphore]
      /\ running \in Task \cup {Idle}
      /\ \A r \in Sem: semafors[r].blocked \in Seq(Task)
      /\ links[running] = NoAnchor /\ links[Idle] = NoAnchor /\ links \in Links
  BY TypesOfLinks
<1>3. PICK s \in Sem: IsFirstFree(s) /\ sem_init(n, value) /\ links' = INIT_LIST_HEAD(links, s)
  BY DEF linked_sem_init
<1> DEFINE ls == ListsOf(readyqueue, order, semafors)
           ks == ListsOf(readyqueue, order, semafors')
<1>4. /\ semafors' = [semafors EXCEPT ![s] = [id |-> n, count |-> value, owner |-> pid[running],
                                              used |-> 1, blocked |-> <<>>]]
      /\ UNCHANGED <<running, readyqueue, freequeue>>
  <2>1. PICK r \in Sem:
          /\ IsFirstFree(r)
          /\ semafors' = [semafors EXCEPT ![r] = [id |-> n, count |-> value, owner |-> pid[running],
                                                  used |-> 1, blocked |-> <<>>]]
    BY <1>3 DEF sem_init
  <2>2. r = s
    BY <1>3, <2>1, FirstFreeUnique
  <2> QED
    BY <1>3, <2>1, <2>2 DEF sem_init, processVars
<1>5. semafors'[s].blocked = <<>> /\ \A r \in Sem \ {s}: semafors'[r] = semafors[r]
  BY <1>2, <1>4
<1>6. semafors[s].blocked = <<>>
  BY <1>3 DEF IsFirstFree, IInv, ListInv, NoLostSignalOf
<1>7. \A r \in Sem: semafors'[r].blocked = semafors[r].blocked
  BY <1>5, <1>6
<1>8. ListValues(readyqueue, order, semafors)
  BY <1>1, <1>2, TheLists
<1>9. ListValues(readyqueue, order, semafors')
  BY <1>1, <1>2, <1>7, TheLists
<1>10. /\ ls \in Lists /\ ks \in Lists /\ ls[s] = <<>> /\ s \in Heads
       /\ \A g \in Heads: ks[g] = ls[g]
  BY <1>6, <1>7, <1>8, <1>9 DEF ListValues, Heads
<1>11. Live(semafors') \subseteq Live(semafors) \cup {s}
  BY <1>5 DEF Live
<1>12. Apart(ls)
  BY <1>1, ListsAreApart
<1>13. Rings(links, Live(semafors), ls) /\ Live(semafors) \in SUBSET Heads
  BY <1>1, <1>8 DEF ListValues
<1> HIDE DEF ls, ks
<1>14. /\ links' \in Links /\ links'[s] = [next |-> s, prev |-> s]
       /\ \A x \in Node \ {s}: links'[x] = links[x]
  BY <1>2, <1>3, <1>10, HeadsAreNodes DEF INIT_LIST_HEAD, Links, Anchor
<1>15. ASSUME NEW g \in Live(semafors') PROVE Ring(links', g, ks[g])
  <2>1. CASE g = s
    <3>1. ks[g] = <<>> /\ Len(<<>>) = 0
      BY <1>10, <2>1
    <3>2. \A i \in 1..0: FALSE
      OBVIOUS
    <3> QED
      BY <1>14, <2>1, <3>1, <3>2 DEF Ring
  <2>2. CASE g # s
    <3>1. g \in Live(semafors) /\ g \in Heads
      BY <1>11, <1>13, <2>2
    <3>2. Ring(links, g, ls[g]) /\ ls[g] \in Seq(Task) /\ Range(ls[g]) \subseteq Task
      BY <1>10, <1>13, <3>1, HeadsAreNodes DEF Rings
    <3>3. {g} \cup Range(ls[g]) \subseteq Node \ {s}
      BY <1>10, <2>2, <3>1, <3>2, HeadsAreNodes, Nodes
    <3>4. \A x \in {g} \cup Range(ls[g]): links'[x] = links[x]
      BY <1>14, <3>3
    <3>5. Task \in SUBSET Node
      BY Nodes
    <3>6. Ring(links', g, ls[g])
      BY <3>2, <3>4, <3>5, RingSame
    <3> QED
      BY <1>10, <3>1, <3>6
  <2> QED
    BY <2>1, <2>2
<1>16. Rings(links', Live(semafors'), ks)
  BY <1>14, <1>15 DEF Rings
<1>17. links'[running] = NoAnchor /\ links'[Idle] = NoAnchor
  <2>1. running \in Node \ {s} /\ Idle \in Node \ {s}
    BY <1>2, Nodes
  <2> QED
    BY <1>2, <1>14, <2>1
<1>18. LinksOf(links', running', readyqueue', freequeue', semafors')
  BY <1>1, <1>4, <1>16, <1>17 DEF LinksOf, ks
<1> QED
  BY <1>18 DEF LinksInv

LEMMA NextLinks == IInv /\ LinksInv /\ [LinkedNext]_linkedVars => LinksInv'
<1> SUFFICES ASSUME IInv, LinksInv, [LinkedNext]_linkedVars PROVE LinksInv'
  OBVIOUS
<1>1. CASE LinkedClockTick
  BY <1>1, TickLinks
<1>2. CASE LinkedFork \/ LinkedClone
  BY <1>2, BornLinks DEF LinkedFork, LinkedClone, Fork, Clone
<1>3. CASE LinkedExitBegins
  <2>1. UNCHANGED <<links, running, readyqueue, freequeue, semafors>>
    BY <1>3 DEF LinkedExitBegins, ExitBegins
  <2> QED
    BY <2>1, UntouchedLinks
<1>4. CASE LinkedExitDestroys
  <2>1. UNCHANGED <<running, freequeue>>
    BY <1>4 DEF LinkedExitDestroys, ExitDestroys
  <2>2. CASE semafors[exiting].used > 0 /\ semafors[exiting].owner = pid[running]
    <3>1. /\ exiting \in Sem /\ internal_sem_destroy(exiting)
          /\ links' = BlockedToReady(exiting)
      BY <1>4, <2>2 DEF LinkedExitDestroys, ExitDestroys
    <3>2. LinksOf(BlockedToReady(exiting), running, readyqueue', freequeue, semafors')
      BY <2>2, <3>1, DestroyLinks
    <3> QED
      BY <2>1, <3>1, <3>2 DEF LinksInv
  <2>3. CASE ~(semafors[exiting].used > 0 /\ semafors[exiting].owner = pid[running])
    <3>1. UNCHANGED <<links, readyqueue, semafors>>
      BY <1>4, <2>3 DEF LinkedExitDestroys, ExitDestroys
    <3> QED
      BY <2>1, <3>1, UntouchedLinks
  <2> QED
    BY <2>2, <2>3
<1>5. CASE LinkedExitEnds
  BY <1>5, ExitLinks
<1>6. ASSUME NEW n \in SemId, NEW value \in 0..MaxCount, linked_sem_init(n, value)
      PROVE  LinksInv'
  BY <1>6, SemInitLinks
<1>7. ASSUME NEW n \in SemId, linked_sem_wait(n) PROVE LinksInv'
  BY <1>7, WaitLinks
<1>8. ASSUME NEW n \in SemId, linked_sem_signal(n) PROVE LinksInv'
  BY <1>8, SignalLinks
<1>9. ASSUME NEW n \in SemId, linked_sem_destroy(n) PROVE LinksInv'
  <2>1. PICK s \in Sem: Names(n, s) /\ sem_destroy(n) /\ links' = BlockedToReady(s)
    BY <1>9 DEF linked_sem_destroy
  <2>2. PICK r \in Sem: Names(n, r) /\ internal_sem_destroy(r)
    BY <2>1 DEF sem_destroy
  <2>3. r = s
    BY <2>1, <2>2, NamesUnique
  <2>4. semafors[s].used > 0
    BY <2>1 DEF Names
  <2>5. LinksOf(BlockedToReady(s), running, readyqueue', freequeue, semafors')
    BY <2>2, <2>3, <2>4, DestroyLinks
  <2>6. UNCHANGED <<running, freequeue>>
    BY <2>1 DEF sem_destroy, processVars
  <2> QED
    BY <2>1, <2>5, <2>6 DEF LinksInv
<1>10. CASE UNCHANGED linkedVars
  <2>1. UNCHANGED <<links, running, readyqueue, freequeue, semafors>>
    BY <1>10 DEF linkedVars, vars
  <2> QED
    BY <2>1, UntouchedLinks
<1> QED
  BY <1>1, <1>2, <1>3, <1>4, <1>5, <1>6, <1>7, <1>8, <1>9, <1>10 DEF LinkedNext

\* The handlers of list.c's users do what those of Tasks do.
LEMMA LinkedImplementsTasks == LinkedSpec => Spec
<1>1. LinkedInit => Init
  BY DEF LinkedInit
<1>2. [LinkedNext]_linkedVars => [Next]_vars
  <2>1. LinkedNext => Next
    <3>1. LinkedClockTick \/ LinkedFork \/ LinkedClone \/ LinkedExitBegins
          \/ LinkedExitDestroys \/ LinkedExitEnds => Next
      BY DEF Next, Exit, LinkedClockTick, LinkedFork, LinkedClone, LinkedExitBegins,
             LinkedExitDestroys, LinkedExitEnds
    <3>2. ASSUME NEW n \in SemId,
                 \/ \E value \in 0..MaxCount: linked_sem_init(n, value)
                 \/ linked_sem_wait(n) \/ linked_sem_signal(n) \/ linked_sem_destroy(n)
          PROVE  Next
      <4>1. \/ \E value \in 0..MaxCount: sem_init(n, value)
            \/ sem_wait_takes(n) \/ sem_wait_blocks(n) \/ sem_signal(n) \/ sem_destroy(n)
        BY <3>2 DEF linked_sem_init, linked_sem_wait, linked_sem_signal, linked_sem_destroy
      <4> QED
        BY <4>1 DEF Next, SemCalls
    <3> QED
      BY <3>1, <3>2 DEF LinkedNext
  <2>2. UNCHANGED linkedVars => UNCHANGED vars
    BY DEF linkedVars
  <2> QED
    BY <2>1, <2>2
<1> QED
  BY <1>1, <1>2, PTL DEF LinkedSpec, Spec

-----------------------------------------------------------------------------
(* Boot *)

LEMMA AddingFirst ==
  ASSUME NEW l \in Links, NEW h \in Node, NEW t \in Node, NEW first \in Node,
         l[h].next = first, t # first, t # h
  PROVE  LET m == list_add(l, t, h)
         IN  /\ m \in Links /\ m[t].next = first /\ m[t].prev = h
             /\ \A x \in Node \ {t}: /\ m[x].next = (IF x = h THEN t ELSE l[x].next)
                                     /\ m[x].prev = (IF x = first THEN t ELSE l[x].prev)
             /\ \A x \in Node \ {t, first, h}: m[x] = l[x]
<1>1. list_add(l, t, h) = Added(l, t, h, first)
  BY DEF list_add, Added, __list_add
<1>2. LET m == Added(l, t, h, first)
      IN  /\ m \in Links /\ m[t].next = first /\ m[t].prev = h
          /\ \A x \in Node \ {t}: /\ m[x].next = (IF x = h THEN t ELSE l[x].next)
                                  /\ m[x].prev = (IF x = first THEN t ELSE l[x].prev)
          /\ \A x \in Node \ {t, first, h}: m[x] = l[x]
  BY Adding
<1> QED
  BY <1>1, <1>2

\* list_add puts a PCB before the others.
LEMMA RingAddFirst ==
  ASSUME NEW l \in Links, NEW h \in Node, NEW T \in SUBSET Node, NEW q \in Seq(T),
         Ring(l, h, q), NoDuplicates(q), h \notin Range(q),
         NEW t \in T, t # h, t \notin Range(q)
  PROVE  LET m == list_add(l, t, h)
         IN  /\ m \in Links /\ Ring(m, h, <<t>> \o q)
             /\ \A x \in Node \ ({h, t} \cup Range(q)): m[x] = l[x]
<1> DEFINE m == list_add(l, t, h)
           first == l[h].next
           a == <<t>> \o q
<1>1. /\ Len(q) \in Nat /\ \A i \in 1..Len(q): q[i] \in Node /\ q[i] \in Range(q)
      /\ (q = <<>>) <=> Len(q) = 0
  BY Indices
<1>2. first \in {h} \cup Range(q) /\ first \in Node /\ t \in Node /\ t # first
  BY RingNeighbours
<1>3. first = (IF q = <<>> THEN h ELSE q[1])
  BY DEF Ring
<1>4. /\ m \in Links /\ m[t].next = first /\ m[t].prev = h
      /\ \A x \in Node \ {t}: /\ m[x].next = (IF x = h THEN t ELSE l[x].next)
                              /\ m[x].prev = (IF x = first THEN t ELSE l[x].prev)
      /\ \A x \in Node \ {t, first, h}: m[x] = l[x]
  BY <1>2, AddingFirst
<1> HIDE DEF m, first
<1>5. \A x \in Node \ ({h, t} \cup Range(q)): m[x] = l[x]
  BY <1>2, <1>4
<1>6. Len(a) = Len(q) + 1 /\ a # <<>> /\ a[1] = t /\ \A i \in 1..Len(q): a[i + 1] = q[i]
  BY FrontIndices
<1> HIDE DEF a
<1>7. PICK k \in Nat: k = Len(q)
  BY <1>1
<1>8. /\ l[h].prev = (IF k = 0 THEN h ELSE q[k])
      /\ \A i \in 1..k: /\ l[q[i]].next = (IF i = k THEN h ELSE q[i + 1])
                        /\ l[q[i]].prev = (IF i = 1 THEN h ELSE q[i - 1])
                        /\ q[i] \in Node /\ q[i] # t /\ q[i] # h
      /\ \A i \in 1..k: i # 1 => q[i] # q[1]
      /\ first = (IF k = 0 THEN h ELSE q[1])
      /\ Len(a) = k + 1 /\ \A i \in 1..k: a[i + 1] = q[i]
  <2>1. \A i \in 1..Len(q): i # 1 => q[i] # q[1]
    <3>1. \A i \in 1..Len(q): 1 \in 1..Len(q)
      BY <1>1
    <3> QED
      BY <3>1 DEF NoDuplicates
  <2> QED
    BY <1>1, <1>3, <1>6, <1>7, <2>1 DEF Ring
<1>9. m[h].next = a[1]
  BY <1>4, <1>6
<1>10. m[h].prev = a[k + 1]
  <2>1. CASE k = 0
    BY <1>4, <1>6, <1>8, <2>1
  <2>2. CASE k # 0
    <3>1. k \in 1..k /\ 1 \in 1..k
      BY <1>7, <2>2
    <3>2. first # h
      BY <1>8, <2>2, <3>1
    <3> QED
      BY <1>4, <1>8, <2>2, <3>1, <3>2
  <2> QED
    BY <2>1, <2>2
<1>11. ASSUME NEW i \in 1..k+1
       PROVE  /\ m[a[i]].next = (IF i = k + 1 THEN h ELSE a[i + 1])
              /\ m[a[i]].prev = (IF i = 1 THEN h ELSE a[i - 1])
  <2>1. CASE i = 1
    <3>1. m[a[i]].next = first /\ m[a[i]].prev = h
      BY <1>4, <1>6, <2>1
    <3>2. k = 0 => i = k + 1 /\ first = h
      BY <1>8, <2>1
    <3>3. k # 0 => i # k + 1 /\ first = a[i + 1]
      <4>1. k # 0 => 1 \in 1..k /\ 1 # k + 1
        BY <1>7
      <4> QED
        BY <1>8, <2>1, <4>1
    <3> QED
      BY <2>1, <3>1, <3>2, <3>3
  <2>2. CASE i # 1
    <3> DEFINE j == i - 1
    <3>1. j \in 1..k /\ j + 1 = i /\ i - 1 = j
      BY <1>7, <2>2
    <3>2. a[i] = q[j] /\ q[j] \in Node \ {t} /\ q[j] # h
      BY <1>8, <3>1
    <3>3. m[a[i]].next = l[q[j]].next /\ l[q[j]].next = (IF j = k THEN h ELSE q[j + 1])
      BY <1>4, <1>8, <3>1, <3>2
    <3>4. j # k => j + 1 \in 1..k
      BY <1>7, <3>1
    <3>5. (j = k) <=> (i = k + 1)
      BY <1>7, <3>1
    <3>6. m[a[i]].next = (IF i = k + 1 THEN h ELSE a[i + 1])
      BY <1>8, <3>1, <3>3, <3>4, <3>5
    <3>7. m[a[i]].prev = (IF q[j] = first THEN t ELSE l[q[j]].prev)
      BY <1>4, <3>2
    <3>8. CASE j = 1
      BY <1>6, <1>8, <2>2, <3>1, <3>6, <3>7, <3>8
    <3>9. CASE j # 1
      <4>1. j - 1 \in 1..k /\ j - 1 + 1 = j /\ 1 \in 1..k /\ k # 0
        BY <1>7, <3>1, <3>9
      <4>2. q[j] # first
        BY <1>8, <3>1, <3>9, <4>1
      <4>3. a[j] = q[j - 1] /\ l[q[j]].prev = q[j - 1]
        BY <1>8, <3>1, <3>9, <4>1
      <4> QED
        BY <2>2, <3>1, <3>6, <3>7, <4>2, <4>3
    <3> QED
      BY <3>8, <3>9
  <2> QED
    BY <2>1, <2>2
<1>12. Ring(m, h, a)
  BY <1>6, <1>8, <1>9, <1>10, <1>11 DEF Ring
<1> QED
  BY <1>4, <1>5, <1>12 DEF m, a

\* What list_add does to the sequence of a list.
LEMMA FrontLists ==
  ASSUME NEW S, NEW q \in Seq(S), NEW x \in S, NoDuplicates(q), x \notin Range(q)
  PROVE  LET n == <<x>> \o q
         IN  /\ n \in Seq(S) /\ n # <<>> /\ Head(n) = x /\ Tail(n) = q
             /\ Range(n) = Range(q) \cup {x} /\ NoDuplicates(n)
<1>1. <<x>> \in Seq(S) /\ Len(<<x>>) = 1 /\ <<x>>[1] = x
  OBVIOUS
<1>2. Range(<<x>>) = {x} /\ NoDuplicates(<<x>>)
  BY <1>1 DEF Range, NoDuplicates
<1>3. Range(<<x>> \o q) = Range(q) \cup {x} /\ NoDuplicates(<<x>> \o q)
  <2> DEFINE p == <<x>>
  <2>1. p \in Seq(S) /\ Range(p) = {x} /\ NoDuplicates(p)
    BY <1>1, <1>2
  <2> HIDE DEF p
  <2>2. Range(p) \cap Range(q) = {}
    BY <2>1
  <2>3. Range(p \o q) = Range(p) \cup Range(q) /\ NoDuplicates(p \o q)
    BY <2>1, <2>2, ConcatLists
  <2> QED
    BY <2>1, <2>3 DEF p
<1>4. LET n == <<x>> \o q IN n \in Seq(S) /\ n # <<>> /\ Head(n) = x /\ Tail(n) = q
  <2> DEFINE n == <<x>> \o q
  <2>1. /\ n \in Seq(S) /\ Len(n) = Len(q) + 1 /\ n # <<>> /\ n[1] = x
        /\ \A i \in 1..Len(q): n[i + 1] = q[i]
    BY FrontIndices
  <2> HIDE DEF n
  <2>2. Len(q) \in Nat /\ Len(n) > 0 /\ Len(n) - 1 = Len(q)
    BY <2>1
  <2>3. /\ Tail(n) \in Seq(S) /\ Head(n) = n[1] /\ Len(Tail(n)) = Len(q)
        /\ \A i \in 1..Len(q): Tail(n)[i] = n[i + 1]
    BY <2>1, <2>2, TailIndices
  <2>4. Tail(n) = q
    BY <2>1, <2>3
  <2> QED
    BY <2>1, <2>3, <2>4 DEF n
<1> QED
  BY <1>3, <1>4

LEMMA NarrowSeq ==
  ASSUME NEW S, NEW q \in Seq(S), NEW T, Range(q) \subseteq T
  PROVE  q \in Seq(T)
<1>1. \A i \in 1..Len(q): q[i] \in T
  BY Indices
<1>2. Len(q) \in Nat /\ q \in [1..Len(q) -> S]
  OBVIOUS
<1>3. q \in [1..Len(q) -> T]
  BY <1>1, <1>2
<1> QED
  BY <1>2, <1>3

PCB == Task \cup {Idle}
NoLists == INIT_LIST_HEAD(INIT_LIST_HEAD([n \in Node |-> NoAnchor], FreeQueue), ReadyQueue)

\* The loop of init_sched.
SchedLoop(order, n, f) ==
  f = [i \in 0..n |-> IF i = 0 THEN NoLists ELSE list_add(f[i - 1], order[i], FreeQueue)]

LEMMA SchedLoops ==
  ASSUME NEW order
  PROVE  \A n \in Nat: \E f: SchedLoop(order, n, f)
<1> DEFINE Loop(n, f) == SchedLoop(order, n, f)
           P == {n \in Nat: \E f: Loop(n, f)}
<1> USE DEF SchedLoop
<1>1. 0 \in P
  <2>1. Loop(0, [i \in 0..0 |-> NoLists])
    OBVIOUS
  <2> QED
    BY <2>1
<1>2. ASSUME NEW n \in P PROVE n + 1 \in P
  <2>1. PICK f: Loop(n, f)
    OBVIOUS
  <2>2. n \in Nat
    OBVIOUS
  <2> DEFINE g == [i \in 0..n+1 |-> IF i = 0 THEN NoLists
                                    ELSE list_add(f[i - 1], order[i], FreeQueue)]
  <2>3. \A i \in 0..n: g[i] = f[i]
    BY <2>1, <2>2
  <2>4. \A i \in 0..n+1: i # 0 => i - 1 \in 0..n
    BY <2>2
  <2>5. \A i \in 0..n+1: g[i] = IF i = 0 THEN NoLists ELSE list_add(g[i - 1], order[i], FreeQueue)
    BY <2>3, <2>4
  <2>6. Loop(n + 1, g)
    BY <2>5
  <2>7. n + 1 \in Nat
    BY <2>2
  <2> QED
    BY <2>6, <2>7
<1>3. P = Nat
  <2>1. P \in SUBSET Nat
    OBVIOUS
  <2> HIDE DEF P
  <2> QED
    BY <1>1, <1>2, <2>1, CountUp
<1> QED
  BY <1>3

LEMMA SchedLoopOf ==
  ASSUME NEW S, NEW order \in Seq(S)
  PROVE  \E f: /\ f[0] = NoLists
               /\ \A i \in 1..Len(order): f[i] = list_add(f[i - 1], order[i], FreeQueue)
               /\ init_sched(order) = f[Len(order)]
<1> DEFINE N == Len(order)
           f == CHOOSE f: SchedLoop(order, N, f)
<1>1. N \in Nat
  OBVIOUS
<1>2. \E h: SchedLoop(order, N, h)
  BY <1>1, SchedLoops
<1>3. f = [i \in 0..N |-> IF i = 0 THEN NoLists ELSE list_add(f[i - 1], order[i], FreeQueue)]
  <2>1. SchedLoop(order, N, f)
    BY <1>2
  <2> QED
    BY <2>1 DEF SchedLoop
<1>4. init_sched(order) = f[N]
  BY DEF init_sched, SchedLoop, NoLists
<1> HIDE DEF f, N
<1>5. f[0] = NoLists
  <2>1. 0 \in 0..N
    BY <1>1
  <2> QED
    BY <1>3, <2>1
<1>6. ASSUME NEW i \in 1..N PROVE f[i] = list_add(f[i - 1], order[i], FreeQueue)
  <2>1. i \in 0..N /\ i # 0
    BY <1>1
  <2> QED
    BY <1>3, <2>1
<1> QED
  BY <1>4, <1>5, <1>6 DEF N

\* After i turns the free list r holds the first i PCBs of task[], the last one first.
MidSched(p, i, l, r) ==
  /\ l \in Links /\ Ring(l, ReadyQueue, <<>>) /\ Ring(l, FreeQueue, r)
  /\ NoDuplicates(r) /\ Range(r) = {p[j]: j \in 1..i}
  /\ i > 0 => r # <<>> /\ Head(r) = p[i]
  /\ i > 1 => Tail(r) # <<>> /\ Head(Tail(r)) = p[i - 1]

LEMMA InitSched ==
  ASSUME NEW p \in Seq(PCB), NoDuplicates(p)
  PROVE  \E r \in Seq(PCB): MidSched(p, Len(p), init_sched(p), r)
<1>0. /\ PCB \in SUBSET Node /\ FreeQueue \in Node /\ ReadyQueue \in Node
      /\ FreeQueue \notin PCB /\ ReadyQueue \notin PCB /\ FreeQueue # ReadyQueue
  BY Nodes DEF PCB
<1> DEFINE N == Len(p)
<1>1. PICK f: /\ f[0] = NoLists
              /\ \A i \in 1..N: f[i] = list_add(f[i - 1], p[i], FreeQueue)
              /\ init_sched(p) = f[N]
  BY SchedLoopOf
<1>2. N \in Nat /\ \A i \in 1..N: p[i] \in PCB
  BY Indices
<1>3. \A i, j \in 1..N: p[i] = p[j] => i = j
  BY DEF NoDuplicates
<1> HIDE DEF N
<1> DEFINE P == {i \in Nat: i <= N => \E r \in Seq(PCB): MidSched(p, i, f[i], r)}
<1>4. 0 \in P
  <2>1. /\ NoLists \in Links
        /\ NoLists[ReadyQueue] = [next |-> ReadyQueue, prev |-> ReadyQueue]
        /\ NoLists[FreeQueue] = [next |-> FreeQueue, prev |-> FreeQueue]
    <3> DEFINE l0 == [n \in Node |-> NoAnchor]
               l1 == INIT_LIST_HEAD(l0, FreeQueue)
    <3>1. l0 \in Links
      BY NoAnchorType DEF Links
    <3>2. l1 \in Links /\ l1[FreeQueue] = [next |-> FreeQueue, prev |-> FreeQueue]
      <4> HIDE DEF l0
      <4> QED
        BY <1>0, <3>1 DEF INIT_LIST_HEAD, Links, Anchor
    <3>3. NoLists = INIT_LIST_HEAD(l1, ReadyQueue)
      BY DEF NoLists
    <3> HIDE DEF l1
    <3> QED
      BY <1>0, <3>2, <3>3 DEF INIT_LIST_HEAD, Links, Anchor
  <2>2. Ring(NoLists, ReadyQueue, <<>>) /\ Ring(NoLists, FreeQueue, <<>>)
    <3>1. Len(<<>>) = 0 /\ \A i \in 1..0: FALSE
      OBVIOUS
    <3> QED
      BY <2>1, <3>1 DEF Ring
  <2>3. {p[j]: j \in 1..0} = {} /\ ~(0 > 0) /\ ~(0 > 1)
    OBVIOUS
  <2>4. MidSched(p, 0, NoLists, <<>>)
    BY <2>1, <2>2, <2>3, EmptyList DEF MidSched
  <2>5. <<>> \in Seq(PCB)
    OBVIOUS
  <2> QED
    BY <1>1, <2>4, <2>5
<1>5. ASSUME NEW i \in P PROVE i + 1 \in P
  <2> SUFFICES ASSUME i + 1 <= N
               PROVE  \E r \in Seq(PCB): MidSched(p, i + 1, f[i + 1], r)
    OBVIOUS
  <2>1. i \in Nat /\ i <= N /\ i + 1 \in 1..N /\ i + 1 - 1 = i
    BY <1>2
  <2>2. PICK r \in Seq(PCB): MidSched(p, i, f[i], r)
    BY <2>1
  <2> DEFINE t == p[i + 1]
             l == f[i]
             m == list_add(l, t, FreeQueue)
             n == <<t>> \o r
  <2>3. t \in PCB
    BY <1>2, <2>1
  <2>4. f[i + 1] = m
    BY <1>1, <2>1
  <2>5. /\ l \in Links /\ Ring(l, ReadyQueue, <<>>) /\ Ring(l, FreeQueue, r)
        /\ NoDuplicates(r) /\ Range(r) = {p[j]: j \in 1..i}
        /\ i > 0 => r # <<>> /\ Head(r) = p[i]
    BY <2>2 DEF MidSched
  <2>6. t \notin Range(r) /\ Range(r) \subseteq PCB
    <3>1. \A j \in 1..i: j \in 1..N /\ j # i + 1
      BY <1>2, <2>1
    <3> QED
      BY <1>2, <1>3, <2>1, <2>5, <3>1
  <2>7. FreeQueue \notin Range(r) /\ t # FreeQueue /\ t # ReadyQueue /\ ReadyQueue \notin Range(r)
    BY <1>0, <2>3, <2>6
  <2> HIDE DEF t, l, m, n
  <2>8. /\ m \in Links /\ Ring(m, FreeQueue, n)
        /\ \A x \in Node \ ({FreeQueue, t} \cup Range(r)): m[x] = l[x]
    BY <1>0, <2>3, <2>5, <2>6, <2>7, RingAddFirst DEF m, n
  <2>9. m[ReadyQueue] = l[ReadyQueue]
    BY <1>0, <2>7, <2>8
  <2>10. Ring(m, ReadyQueue, <<>>)
    <3>1. Len(<<>>) = 0 /\ \A j \in 1..0: FALSE
      OBVIOUS
    <3> QED
      BY <2>5, <2>9, <3>1 DEF Ring
  <2>11. /\ n \in Seq(PCB) /\ n # <<>> /\ Head(n) = t /\ Tail(n) = r
         /\ Range(n) = Range(r) \cup {t} /\ NoDuplicates(n)
    BY <2>3, <2>5, <2>6, FrontLists DEF n
  <2>12. Range(n) = {p[j]: j \in 1..i+1}
    <3>1. \A j \in 1..i+1: j \in 1..i \/ j = i + 1
      BY <2>1
    <3>2. \A j \in 1..i: j \in 1..i+1
      BY <2>1
    <3>3. i + 1 \in 1..i+1
      BY <2>1
    <3> QED
      BY <2>5, <2>11, <3>1, <3>2, <3>3 DEF t
  <2>13. i + 1 > 1 => i > 0
    BY <2>1
  <2>14. /\ i + 1 > 0 => n # <<>> /\ Head(n) = p[i + 1]
         /\ i + 1 > 1 => Tail(n) # <<>> /\ Head(Tail(n)) = p[i + 1 - 1]
    <3>1. n # <<>> /\ Head(n) = p[i + 1]
      BY <2>11 DEF t
    <3>2. i > 0 => Tail(n) # <<>> /\ Head(Tail(n)) = p[i]
      BY <2>5, <2>11
    <3> QED
      BY <2>1, <2>13, <3>1, <3>2
  <2>15. MidSched(p, i + 1, m, n)
    BY <2>8, <2>10, <2>11, <2>12, <2>14 DEF MidSched
  <2> QED
    BY <2>4, <2>11, <2>15
<1>6. P = Nat
  <2>1. P \in SUBSET Nat
    OBVIOUS
  <2> HIDE DEF P
  <2> QED
    BY <1>4, <1>5, <2>1, CountUp
<1>7. \E r \in Seq(PCB): MidSched(p, N, f[N], r)
  BY <1>2, <1>6
<1> QED
  BY <1>1, <1>7 DEF N

\* One of the orders of a set: a list of its elements.
LEMMA SeqsOfSet ==
  ASSUME NEW S, IsFiniteSet(S), NEW order
  PROVE  order \in SetToSeqs(S)
           <=> order \in Seq(S) /\ NoDuplicates(order) /\ Range(order) = S
<1> DEFINE n == Cardinality(S)
<1>0. n \in Nat
  BY FS_CardinalityType
<1>1. order \in SetToSeqs(S) <=>
        order \in [1..n -> S] /\ \A i, j \in 1..n: i # j => order[i] # order[j]
  BY DEF SetToSeqs
<1> HIDE DEF n
<1>2. ASSUME order \in SetToSeqs(S)
      PROVE  order \in Seq(S) /\ NoDuplicates(order) /\ Range(order) = S
  <2>1. order \in Seq(S) /\ Len(order) = n
    BY <1>0, <1>1, <1>2
  <2>2. NoDuplicates(order)
    BY <1>1, <1>2, <2>1 DEF NoDuplicates
  <2>3. Cardinality(Range(order)) = n /\ Range(order) \in SUBSET S
    BY <2>1, <2>2, LengthOfList, Indices
  <2>4. Range(order) = S
    BY <2>3, FS_Subset DEF n
  <2> QED
    BY <2>1, <2>2, <2>4
<1>3. ASSUME order \in Seq(S), NoDuplicates(order), Range(order) = S
      PROVE  order \in SetToSeqs(S)
  <2>1. Len(order) = n
    BY <1>3, LengthOfList DEF n
  <2>2. order \in [1..n -> S]
    BY <1>3, <2>1
  <2> QED
    BY <1>1, <1>3, <2>1, <2>2 DEF NoDuplicates
<1> QED
  BY <1>2, <1>3

LEMMA LastTwo ==
  ASSUME NEW S, NEW q \in Seq(S), NEW x \in S, NEW y \in S
  PROVE  LET p == q \o <<x, y>>
         IN  /\ p \in Seq(S) /\ Len(p) = Len(q) + 2
             /\ p[Len(p)] = y /\ p[Len(p) - 1] = x
             /\ Range(p) = Range(q) \cup {x, y}
             /\ NoDuplicates(q) /\ x # y /\ x \notin Range(q) /\ y \notin Range(q)
                  => NoDuplicates(p)
<1> DEFINE z == <<x, y>>
           p == q \o z
<1>1. z \in Seq(S) /\ Len(z) = 2 /\ z[1] = x /\ z[2] = y /\ Len(q) \in Nat
  OBVIOUS
<1>2. Range(z) = {x, y} /\ (x # y => NoDuplicates(z))
  <2>1. DOMAIN z = 1..2
    OBVIOUS
  <2> QED
    BY <1>1, <2>1 DEF Range, NoDuplicates
<1> HIDE DEF z
<1>3. /\ p \in Seq(S) /\ Len(p) = Len(q) + 2
      /\ \A i \in 1..2: p[Len(q) + i] = z[i]
  <2>1. /\ q \o z \in Seq(S) /\ Len(q \o z) = Len(q) + Len(z)
        /\ \A i \in 1..Len(z): (q \o z)[Len(q) + i] = z[i]
    <3>1. z \in Seq(S)
      BY <1>1
    <3> QED
      BY <3>1, ConcatIndices
  <2> QED
    BY <1>1, <2>1
<1>4. /\ Range(p) = Range(q) \cup Range(z)
      /\ NoDuplicates(q) /\ NoDuplicates(z) /\ Range(q) \cap Range(z) = {} => NoDuplicates(p)
  BY <1>1, ConcatLists
<1> HIDE DEF p
<1>5. p[Len(p)] = y /\ p[Len(p) - 1] = x
  <2>1. Len(p) = Len(q) + 2 /\ Len(p) - 1 = Len(q) + 1 /\ 1 \in 1..2 /\ 2 \in 1..2
    BY <1>1, <1>3
  <2>2. p[Len(q) + 1] = z[1] /\ p[Len(q) + 2] = z[2]
    BY <1>3, <2>1
  <2> QED
    BY <1>1, <2>1, <2>2
<1>6. NoDuplicates(q) /\ x # y /\ x \notin Range(q) /\ y \notin Range(q) => NoDuplicates(p)
  BY <1>2, <1>4
<1>7. Range(p) = Range(q) \cup {x, y}
  BY <1>2, <1>4
<1> QED
  BY <1>3, <1>5, <1>6, <1>7 DEF p, z

LEMMA InitLinks == LinkedInit => LinksInv
<1> SUFFICES ASSUME LinkedInit PROVE LinksInv
  OBVIOUS
<1>0. /\ PCB \in SUBSET Node /\ FreeQueue \in Node /\ ReadyQueue \in Node
      /\ FreeQueue \notin PCB /\ ReadyQueue \notin PCB /\ FreeQueue # ReadyQueue
      /\ InitTask \in PCB /\ Idle \in PCB /\ InitTask # Idle /\ Task \subseteq PCB
  BY Nodes, TasksAssumption DEF PCB
<1>1. /\ running = InitTask /\ readyqueue = <<>> /\ freequeue = Task \ {InitTask}
      /\ \A s \in Sem: semafors[s].used = 0
  BY DEF LinkedInit, Init, FreeSem
<1>2. PICK first \in SetToSeqs(freequeue):
        links = TakeFree(TakeFree(init_sched(first \o <<InitTask, Idle>>)))
  BY DEF LinkedInit
<1> DEFINE p == first \o <<InitTask, Idle>>
           N == Len(p)
           l == init_sched(p)
<1>3. first \in Seq(PCB) /\ NoDuplicates(first) /\ Range(first) = freequeue
  <2>1. IsFiniteSet(freequeue)
    BY <1>1, TasksCount
  <2>2. first \in Seq(freequeue) /\ NoDuplicates(first) /\ Range(first) = freequeue
    BY <1>2, <2>1, SeqsOfSet
  <2>3. Range(first) \subseteq PCB
    BY <1>0, <1>1, <2>2
  <2> QED
    BY <2>2, <2>3, NarrowSeq
<1>4. /\ p \in Seq(PCB) /\ N = Len(first) + 2 /\ p[N] = Idle /\ p[N - 1] = InitTask
      /\ Range(p) = PCB /\ NoDuplicates(p)
  <2>1. InitTask \notin Range(first) /\ Idle \notin Range(first)
    BY <1>1, <1>3, TasksAssumption
  <2>2. Range(first) \cup {InitTask, Idle} = PCB
    BY <1>1, <1>3, TasksAssumption DEF PCB
  <2> QED
    BY SMTT(60), <1>0, <1>3, <2>1, <2>2, LastTwo
<1> HIDE DEF p
<1>5. PICK r \in Seq(PCB): MidSched(p, N, l, r)
  BY <1>4, InitSched
<1>6. N > 0 /\ N > 1
  <2>1. Len(first) \in Nat
    BY <1>3, Indices
  <2> QED
    BY <1>4, <2>1
<1>7. /\ l \in Links /\ Ring(l, ReadyQueue, <<>>) /\ Ring(l, FreeQueue, r)
      /\ NoDuplicates(r) /\ r # <<>> /\ Head(r) = Idle
      /\ Tail(r) # <<>> /\ Head(Tail(r)) = InitTask
  BY <1>4, <1>5, <1>6 DEF MidSched
<1>8. Range(r) = PCB
  <2>1. Range(r) = {p[j]: j \in 1..N}
    BY <1>5 DEF MidSched
  <2>2. DOMAIN p = 1..N
    BY <1>4
  <2> QED
    BY <1>4, <2>1, <2>2 DEF Range
<1> HIDE DEF N, l
<1> DEFINE q == Tail(r)
           m == list_del(l, Idle)
<1>9. q \in Seq(PCB) /\ NoDuplicates(q) /\ Range(q) = PCB \ {Idle}
  BY <1>7, <1>8, HeadOfList
<1>10. Tail(q) \in Seq(PCB) /\ NoDuplicates(Tail(q)) /\ Range(Tail(q)) = freequeue
  <2>1. Tail(q) \in Seq(PCB) /\ NoDuplicates(Tail(q)) /\ Range(Tail(q)) = Range(q) \ {InitTask}
    BY <1>7, <1>9, HeadOfList
  <2> QED
    BY <1>1, <1>9, <2>1, TasksAssumption DEF PCB
<1>11. Tail(q) \in Seq(Task)
  BY <1>1, <1>10, NarrowSeq
<1>12. Len(r) > 0 /\ Len(q) > 0
  BY <1>7, <1>9
<1>13. /\ list_first(l, FreeQueue) = Idle
       /\ m \in Links /\ Ring(m, FreeQueue, q) /\ m[Idle] = NoAnchor
       /\ \A x \in Node \ ({FreeQueue} \cup Range(r)): m[x] = l[x]
  BY <1>0, <1>7, <1>8, <1>12, RingDelFirst
<1> DEFINE k == list_del(m, InitTask)
<1> HIDE DEF m, q
<1>14. /\ list_first(m, FreeQueue) = InitTask
       /\ k \in Links /\ Ring(k, FreeQueue, Tail(q)) /\ k[InitTask] = NoAnchor
       /\ \A x \in Node \ ({FreeQueue} \cup Range(q)): k[x] = m[x]
  <2>1. Head(q) = InitTask /\ FreeQueue \notin Range(q)
    BY <1>0, <1>7, <1>9 DEF q
  <2> QED
    BY <1>0, <1>9, <1>12, <1>13, <2>1, RingDelFirst
<1>15. links = k
  BY <1>2, <1>13, <1>14 DEF TakeFree, l, p, m
<1> HIDE DEF k
<1>16. links[running] = NoAnchor /\ links[Idle] = NoAnchor /\ links \in Links
  BY <1>0, <1>1, <1>9, <1>13, <1>14, <1>15
<1>17. Ring(links, ReadyQueue, <<>>)
  <2>1. links[ReadyQueue] = l[ReadyQueue]
    BY <1>0, <1>8, <1>9, <1>13, <1>14, <1>15
  <2>2. Len(<<>>) = 0 /\ \A i \in 1..0: FALSE
    OBVIOUS
  <2> QED
    BY <1>7, <2>1, <2>2 DEF Ring
<1>18. Live(semafors) = {ReadyQueue, FreeQueue}
  BY <1>1 DEF Live
<1>19. Rings(links, Live(semafors), ListsOf(readyqueue, Tail(q), semafors))
  <2>1. /\ ListsOf(readyqueue, Tail(q), semafors)[ReadyQueue] = <<>>
        /\ ListsOf(readyqueue, Tail(q), semafors)[FreeQueue] = Tail(q)
    BY <1>0, <1>1 DEF ListsOf, Heads
  <2> QED
    BY <1>14, <1>15, <1>16, <1>17, <1>18, <2>1 DEF Rings
<1> QED
  BY <1>10, <1>11, <1>16, <1>19 DEF LinksInv, LinksOf

\* The lists found from their heads, forwards and backwards, are those of Tasks,
\* whatever the handlers do with the one anchor of a PCB, in whatever order.
THEOREM ListsAreRings == LinkedSpec => []LinksMatch
<1>1. IInv /\ LinksInv => LinksMatch
  <2> SUFFICES ASSUME IInv, LinksInv PROVE LinksMatch
    OBVIOUS
  <2>1. PICK order \in Seq(Task):
          /\ Range(order) = freequeue /\ NoDuplicates(order)
          /\ Rings(links, Live(semafors), ListsOf(readyqueue, order, semafors))
    BY DEF LinksInv, LinksOf
  <2> DEFINE ls == ListsOf(readyqueue, order, semafors)
  <2>2. /\ readyqueue \in Seq(Task) /\ \A s \in Sem: semafors[s].blocked \in Seq(Task)
        /\ links[running] = NoAnchor /\ links[Idle] = NoAnchor
    BY TypesOfLinks
  <2>3. ListValues(readyqueue, order, semafors)
    BY <2>1, <2>2, TheLists
  <2>4. \A h \in Live(semafors): h \in Node /\ ls[h] \in Seq(Task) /\ Ring(links, h, ls[h])
    BY <2>1, <2>3, HeadsAreNodes DEF ListValues, Rings
  <2>5. \A h \in Live(semafors): IsRing(links, <<h>> \o ls[h])
    BY <2>4, RingIsRing, Nodes
  <2>6. IsRing(links, <<ReadyQueue>> \o readyqueue)
    BY <2>3, <2>5 DEF ListValues
  <2>7. IsRing(links, <<FreeQueue>> \o order)
    BY <2>3, <2>5 DEF ListValues
  <2>8. order \in SetToSeqs(freequeue)
    <3>1. IsFiniteSet(freequeue) /\ order \in Seq(freequeue)
      BY <2>1, TasksCount, Indices, NarrowSeq
    <3> QED
      BY <2>1, <3>1, SeqsOfSet
  <2>9. \A s \in Sem: semafors[s].used > 0 => IsRing(links, <<s>> \o semafors[s].blocked)
    BY <2>3, <2>5 DEF ListValues, Live
  <2>10. NoTaskLost
    BY DEF IInv, ListInv, NoTaskLostOf, NoTaskLost, Blocked
  <2> QED
    BY <2>2, <2>6, <2>7, <2>8, <2>9, <2>10 DEF LinksMatch
<1>2. LinkedSpec => []IInv
  BY LinkedImplementsTasks, InvariantHolds, PTL
<1>3. LinkedSpec => []LinksInv
  <2>1. LinkedInit => LinksInv
    BY InitLinks
  <2>2. IInv /\ LinksInv /\ [LinkedNext]_linkedVars => LinksInv'
    BY NextLinks
  <2> QED
    BY <1>2, <2>1, <2>2, PTL DEF LinkedSpec
<1> QED
  BY <1>1, <1>2, <1>3, PTL
=============================================================================
