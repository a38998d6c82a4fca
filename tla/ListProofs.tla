---------------------------- MODULE ListProofs ----------------------------
(***************************************************************************)
(* Proofs about module List, for any number of lists and entries.          *)
(*                                                                         *)
(* A list of L entries is a ring of L + 1 nodes, the head at place 0 and,  *)
(* after the last entry, at L + 1 again.  Adding inserts a node at some    *)
(* place of a ring, deleting takes one out; everything else follows from   *)
(* the rings having no node in common (RingNodes).                         *)
(***************************************************************************)
EXTENDS List, SequenceTheorems, TLAPS

Pointers == Nodes \cup {NULL}
TypeOK ==
  /\ next \in [Nodes -> Pointers] /\ prev \in [Nodes -> Pointers]
  /\ Ready \subseteq Heads
  /\ queue \in [Ready -> Seq(Entries)]
  /\ walk \in [on : BOOLEAN, head : Pointers, pos : Pointers, n : Pointers]
  /\ todo \in Seq(Entries)

(* An entry is in one place of one list at most. *)
Distinct ==
  \A g, h \in Ready : \A j \in 1 .. Len(queue[g]), k \in 1 .. Len(queue[h]) :
    queue[g][j] = queue[h][k] => g = h /\ j = k

Unlinked == \A e \in Entries : ~Linked(e) => next[e] = NULL /\ prev[e] = NULL

(* The place of the loop's entry in the list it walks. *)
Place == Len(queue[walk.head]) - Len(todo) + 1

(* What the loop has still to visit is the end of the list it walks, and   *)
(* its two pointers are the nodes at its place and at the next.            *)
Walking ==
  walk.on =>
    /\ walk.head \in Ready
    /\ Len(todo) <= Len(queue[walk.head])
    /\ \A k \in 1 .. Len(todo) : todo[k] = queue[walk.head][Place + k - 1]
    /\ walk.pos = At(walk.head, Place)
    /\ todo # <<>> => walk.n = At(walk.head, Place + 1)

ListInv ==
  TypeOK /\ Distinct /\ RingsMatch /\ Unlinked /\ Walking

(* The part of the invariant that does not speak of the loop. *)
Rings == TypeOK /\ Distinct /\ RingsMatch /\ Unlinked
---------------------------------------------------------------------------
(* Sequences with an element more and with one less. *)
Inserted(s, p, e) ==
  [k \in 1 .. Len(s) + 1 |-> IF k < p THEN s[k] ELSE IF k = p THEN e ELSE s[k - 1]]
Deleted(s, p) ==
  [k \in 1 .. Len(s) - 1 |-> IF k < p THEN s[k] ELSE s[k + 1]]

LEMMA InsertedSeq ==
  ASSUME NEW S, NEW s \in Seq(S), NEW e \in S, NEW p \in 1 .. Len(s) + 1
  PROVE  Inserted(s, p, e) \in Seq(S) /\ Len(Inserted(s, p, e)) = Len(s) + 1
<1>1. \A k \in 1 .. Len(s) + 1 :
        (IF k < p THEN s[k] ELSE IF k = p THEN e ELSE s[k - 1]) \in S
  OBVIOUS
<1>2. Len(s) + 1 \in Nat
  OBVIOUS
<1> QED
  BY <1>1, <1>2 DEF Inserted

LEMMA DeletedSeq ==
  ASSUME NEW S, NEW s \in Seq(S), NEW p \in 1 .. Len(s)
  PROVE  Deleted(s, p) \in Seq(S) /\ Len(Deleted(s, p)) = Len(s) - 1
<1>1. \A k \in 1 .. Len(s) - 1 : (IF k < p THEN s[k] ELSE s[k + 1]) \in S
  OBVIOUS
<1>2. Len(s) - 1 \in Nat
  OBVIOUS
<1> QED
  BY <1>1, <1>2 DEF Deleted

(* list_add puts the entry first, list_add_tail last. *)
LEMMA AtTheFront ==
  ASSUME NEW S, NEW s \in Seq(S), NEW e \in S
  PROVE  <<e>> \o s = Inserted(s, 1, e)
<1>1. /\ <<e>> \o s \in Seq(S) /\ Len(<<e>> \o s) = Len(s) + 1
      /\ \A k \in 1 .. Len(s) + 1 : (<<e>> \o s)[k] = IF k = 1 THEN e ELSE s[k - 1]
  OBVIOUS
<1>2. /\ Inserted(s, 1, e) \in Seq(S) /\ Len(Inserted(s, 1, e)) = Len(s) + 1
      /\ \A k \in 1 .. Len(s) + 1 : Inserted(s, 1, e)[k] = IF k = 1 THEN e ELSE s[k - 1]
  BY InsertedSeq DEF Inserted
<1> QED
  BY <1>1, <1>2, SeqEqual

LEMMA AtTheEnd ==
  ASSUME NEW S, NEW s \in Seq(S), NEW e \in S
  PROVE  Append(s, e) = Inserted(s, Len(s) + 1, e)
<1>1. /\ Append(s, e) \in Seq(S) /\ Len(Append(s, e)) = Len(s) + 1
      /\ \A k \in 1 .. Len(s) + 1 : Append(s, e)[k] = IF k = Len(s) + 1 THEN e ELSE s[k]
  OBVIOUS
<1>2. /\ Inserted(s, Len(s) + 1, e) \in Seq(S)
      /\ Len(Inserted(s, Len(s) + 1, e)) = Len(s) + 1
      /\ \A k \in 1 .. Len(s) + 1 :
           Inserted(s, Len(s) + 1, e)[k] = IF k = Len(s) + 1 THEN e ELSE s[k]
  BY InsertedSeq DEF Inserted
<1> QED
  BY <1>1, <1>2, SeqEqual
---------------------------------------------------------------------------
(* Rings. *)

LEMMA QueueType ==
  ASSUME TypeOK, NEW h \in Ready
  PROVE  /\ h \in Heads /\ h \in Nodes /\ h # NULL
         /\ queue[h] \in Seq(Entries) /\ Len(queue[h]) \in Nat
         /\ \A k \in 1 .. Len(queue[h]) : queue[h][k] \in Entries
BY ListAssumption DEF TypeOK, Nodes

(* No node is in two rings, or twice in one. *)
LEMMA RingNodes ==
  ASSUME TypeOK, Distinct, NEW g \in Ready, NEW h \in Ready,
         NEW j \in 0 .. Len(queue[g]), NEW k \in 0 .. Len(queue[h])
  PROVE  /\ At(g, j) \in Nodes /\ At(g, j) # NULL
         /\ At(g, j) = At(h, k) => g = h /\ j = k
<1>1. /\ g \in Heads /\ h \in Heads /\ Len(queue[g]) \in Nat /\ Len(queue[h]) \in Nat
      /\ \A i \in 1 .. Len(queue[g]) : queue[g][i] \in Entries
      /\ \A i \in 1 .. Len(queue[h]) : queue[h][i] \in Entries
  BY QueueType
<1>2. At(g, j) \in Nodes /\ At(g, j) # NULL
  BY <1>1, ListAssumption DEF At, Nodes
<1>3. At(g, j) = At(h, k) => g = h /\ j = k
  BY <1>1, ListAssumption DEF At, Distinct
<1> QED
  BY <1>2, <1>3

LEMMA RingEnds ==
  ASSUME TypeOK, NEW h \in Ready
  PROVE  At(h, 0) = h /\ At(h, Len(queue[h]) + 1) = h
BY QueueType DEF At

(* Counted from the first entry to the head again. *)
LEMMA RingNodesAfter ==
  ASSUME TypeOK, Distinct, NEW g \in Ready, NEW h \in Ready,
         NEW j \in 1 .. Len(queue[g]) + 1, NEW k \in 1 .. Len(queue[h]) + 1
  PROVE  /\ At(g, j) \in Nodes /\ At(g, j) # NULL
         /\ At(g, j) = At(h, k) => g = h /\ j = k
<1>1. Len(queue[g]) \in Nat /\ Len(queue[h]) \in Nat
  BY QueueType
<1>2. PICK a \in 0 .. Len(queue[g]) :
        At(g, a) = At(g, j) /\ a = IF j = Len(queue[g]) + 1 THEN 0 ELSE j
  BY <1>1, RingEnds
<1>3. PICK b \in 0 .. Len(queue[h]) :
        At(h, b) = At(h, k) /\ b = IF k = Len(queue[h]) + 1 THEN 0 ELSE k
  BY <1>1, RingEnds
<1>4. /\ At(g, a) \in Nodes /\ At(g, a) # NULL
      /\ At(g, a) = At(h, b) => g = h /\ a = b
  BY RingNodes
<1> QED
  BY <1>1, <1>2, <1>3, <1>4

LEMMA LinkedAt ==
  ASSUME TypeOK, NEW e
  PROVE  Linked(e) <=> \E h \in Ready : \E k \in 1 .. Len(queue[h]) : At(h, k) = e
BY DEF Linked, In, At

(* A node that is in no list is in no ring. *)
LEMMA NotInRing ==
  ASSUME TypeOK, NEW e \in Entries, ~Linked(e), NEW h \in Ready,
         NEW k \in 0 .. Len(queue[h]) + 1
  PROVE  At(h, k) # e
<1>1. h \in Heads /\ Len(queue[h]) \in Nat
  BY QueueType
<1> QED
  BY <1>1, ListAssumption DEF Linked, In, At
---------------------------------------------------------------------------
(* __list_add between two neighbours. *)
LEMMA Insert ==
  ASSUME Rings, NEW h \in Ready, NEW e \in Entries, ~Linked(e),
         NEW p \in 1 .. Len(queue[h]) + 1,
         list_add_between(e, At(h, p - 1), At(h, p)),
         queue' = [queue EXCEPT ![h] = Inserted(queue[h], p, e)],
         UNCHANGED <<walk, todo>>
  PROVE  Rings'
<1> DEFINE L == Len(queue[h])
           before == At(h, p - 1)
           after == At(h, p)
<1>1. TypeOK /\ Distinct /\ RingsMatch /\ Unlinked
  BY DEF Rings
<1>2. /\ h \in Heads /\ L \in Nat /\ queue[h] \in Seq(Entries) /\ e \in Nodes /\ e # NULL
      /\ p \in Int /\ p \in 1 .. L + 1
  BY <1>1, QueueType, ListAssumption DEF Nodes
<1>3. /\ Inserted(queue[h], p, e) \in Seq(Entries)
      /\ Len(Inserted(queue[h], p, e)) = L + 1
  BY <1>2, InsertedSeq
<1>4. Ready' = Ready /\ queue' \in [Ready -> Seq(Entries)]
  BY <1>1, <1>3 DEF TypeOK, Ready
<1>5. ASSUME NEW k \in 0 .. L + 2
      PROVE  At(h, k)' = IF k < p THEN At(h, k) ELSE IF k = p THEN e ELSE At(h, k - 1)
  <2>1. queue'[h] = Inserted(queue[h], p, e)
    BY <1>1 DEF TypeOK
  <2>2. At(h, k)' = IF k \in 1 .. L + 1 THEN Inserted(queue[h], p, e)[k] ELSE h
    BY <1>3, <2>1 DEF At
  <2> QED
    BY <1>2, <2>2 DEF At, Inserted
<1>6. \A g \in Ready : g # h => Len(queue'[g]) = Len(queue[g]) /\ \A k : At(g, k)' = At(g, k)
  BY <1>1 DEF TypeOK, At
<1>7. Len(queue'[h]) = L + 1
  BY <1>1, <1>3 DEF TypeOK
<1>8. /\ before \in Nodes /\ after \in Nodes
      /\ \A g \in Ready : \A k \in 0 .. Len(queue[g]) + 1 : At(g, k) # e
  <2>1. p - 1 \in 0 .. L /\ (p \in 0 .. L \/ p = L + 1)
    BY <1>2
  <2>2. before \in Nodes
    BY <1>1, <2>1, RingNodes
  <2>3. after \in Nodes
    BY <1>1, <1>2, <2>1, RingNodes, RingEnds DEF Nodes
  <2> QED
    BY <1>1, <2>2, <2>3, NotInRing
<1>9. next' \in [Nodes -> Pointers] /\ prev' \in [Nodes -> Pointers]
  BY <1>1, <1>2, <1>8 DEF TypeOK, list_add_between, Pointers
<1>10. TypeOK'
  BY <1>1, <1>4, <1>9 DEF TypeOK, Ready
<1>11. /\ \A y \in Nodes : next'[y] = IF y = e THEN after ELSE IF y = before THEN e ELSE next[y]
       /\ \A y \in Nodes : prev'[y] = IF y = e THEN before ELSE IF y = after THEN e ELSE prev[y]
  <2>1. before # e /\ after # e
    BY <1>1, <1>2, <1>8
  <2> QED
    BY <1>1, <1>2, <1>8, <2>1 DEF TypeOK, list_add_between
<1>12. Distinct'
  <2> SUFFICES ASSUME NEW f \in Ready, NEW g \in Ready,
                      NEW j \in 1 .. Len(queue'[f]), NEW k \in 1 .. Len(queue'[g]),
                      queue'[f][j] = queue'[g][k]
               PROVE  f = g /\ j = k
    BY <1>4 DEF Distinct
  <2>1. \A i \in 1 .. L + 1 : queue'[h][i] = IF i < p THEN queue[h][i] ELSE
                                 IF i = p THEN e ELSE queue[h][i - 1]
    BY <1>1, <1>2 DEF TypeOK, Inserted
  <2>2. \A i \in Ready \ {h} : queue'[i] = queue[i]
    BY <1>1 DEF TypeOK
  <2>3. \A i \in Ready : \A m \in 1 .. Len(queue[i]) : queue[i][m] # e
    BY DEF Linked, In
  <2>4. /\ \A m \in 1 .. Len(queue[f]), n \in 1 .. Len(queue[g]) :
             queue[f][m] = queue[g][n] => f = g /\ m = n
    BY <1>1 DEF Distinct
  <2> HIDE DEF L
  <2>9. /\ \A m, n \in 1 .. L : queue[h][m] = queue[h][n] => m = n
        /\ \A i \in Ready \ {h} : \A m \in 1 .. L, n \in 1 .. Len(queue[i]) :
             queue[h][m] # queue[i][n]
        /\ \A m \in 1 .. L : queue[h][m] # e
    BY <1>1, <2>3 DEF Distinct, L
  <2>10. \A i \in 1 .. L + 1 :
            \/ i = p /\ queue'[h][i] = e
            \/ i < p /\ i \in 1 .. L /\ queue'[h][i] = queue[h][i]
            \/ i > p /\ i - 1 \in 1 .. L /\ queue'[h][i] = queue[h][i - 1]
    BY <1>2, <2>1
  <2>5. CASE f = h /\ g = h
    <3>1. j \in 1 .. L + 1 /\ k \in 1 .. L + 1 /\ queue'[h][j] = queue'[h][k]
      BY <1>7, <2>5
    <3>2. (j = p <=> queue'[h][j] = e) /\ (k = p <=> queue'[h][k] = e)
      BY <1>2, <2>9, <2>10, <3>1
    <3>3. CASE j # p /\ k # p
      <4>1. PICK m \in 1 .. L : queue'[h][j] = queue[h][m] /\ j = IF m < p THEN m ELSE m + 1
        BY <1>2, <2>10, <3>1, <3>3
      <4>2. PICK n \in 1 .. L : queue'[h][k] = queue[h][n] /\ k = IF n < p THEN n ELSE n + 1
        BY <1>2, <2>10, <3>1, <3>3
      <4> QED
        BY <2>5, <2>9, <3>1, <4>1, <4>2
    <3> QED
      BY <2>5, <3>1, <3>2, <3>3
  <2>11. ASSUME NEW i \in 1 .. L + 1, NEW o \in Ready \ {h}, NEW m \in 1 .. Len(queue[o])
         PROVE  queue'[h][i] # queue[o][m]
    <3>1. CASE queue'[h][i] = e
      BY <2>3, <3>1
    <3>2. CASE \E l \in 1 .. L : queue'[h][i] = queue[h][l]
      BY <2>9, <3>2
    <3> QED
      BY <2>10, <3>1, <3>2
  <2>6. CASE f = h /\ g # h
    BY <1>7, <2>2, <2>6, <2>11
  <2>7. CASE f # h /\ g = h
    BY <1>7, <2>2, <2>7, <2>11
  <2>8. CASE f # h /\ g # h
    BY <2>2, <2>4, <2>8
  <2> QED
    BY <2>5, <2>6, <2>7, <2>8
<1>13. RingsMatch'
  <2> SUFFICES ASSUME NEW g \in Ready, NEW k \in 0 .. Len(queue'[g])
               PROVE  /\ next'[At(g, k)'] = At(g, k + 1)'
                      /\ prev'[At(g, k + 1)'] = At(g, k)'
    BY <1>4 DEF RingsMatch
  <2>1. \A i \in 0 .. Len(queue[g]) : next[At(g, i)] = At(g, i + 1) /\ prev[At(g, i + 1)] = At(g, i)
    BY <1>1 DEF RingsMatch
  <2>2. Len(queue[g]) \in Nat
    BY <1>1, QueueType
  <2>3. \A i \in 0 .. Len(queue[g]) :
          At(g, i) \in Nodes /\ (At(g, i) = before => g = h /\ i = p - 1)
    BY <1>1, <1>2, RingNodes
  <2>4. \A i \in 1 .. Len(queue[g]) + 1 :
          At(g, i) \in Nodes /\ (At(g, i) = after => g = h /\ i = p)
    BY <1>1, <1>2, RingNodesAfter
  <2> HIDE DEF L, before, after
  <2>5. ASSUME NEW i \in 0 .. Len(queue[g]), g = h => i # p - 1
        PROVE  next'[At(g, i)] = At(g, i + 1) /\ prev'[At(g, i + 1)] = At(g, i)
    <3>1. /\ At(g, i) \in Nodes /\ At(g, i) # before /\ At(g, i) # e
          /\ At(g, i + 1) \in Nodes /\ At(g, i + 1) # after /\ At(g, i + 1) # e
      <4>1. i + 1 \in 1 .. Len(queue[g]) + 1 /\ i + 1 \in 0 .. Len(queue[g]) + 1
            /\ i \in 0 .. Len(queue[g]) + 1 /\ (i + 1 = p => i = p - 1)
        BY <1>2, <2>2
      <4>2. At(g, i) \in Nodes /\ At(g, i) # before
        BY <1>2, <2>2, <2>3, <2>5
      <4>3. At(g, i + 1) \in Nodes /\ At(g, i + 1) # after
        BY <1>2, <2>2, <2>4, <2>5, <4>1
      <4> QED
        BY <1>8, <4>1, <4>2, <4>3
    <3> QED
      BY <1>11, <2>1, <3>1
  <2>6. CASE g # h
    <3>1. k \in 0 .. Len(queue[g]) /\ At(g, k)' = At(g, k) /\ At(g, k + 1)' = At(g, k + 1)
      BY <1>6, <2>6
    <3> QED
      BY <2>5, <2>6, <3>1
  <2>7. CASE g = h
    <3>1. k \in 0 .. L + 1 /\ k + 1 \in 0 .. L + 2
      BY <1>2, <1>7, <2>7
    <3>2. /\ At(g, k)' = IF k < p THEN At(g, k) ELSE IF k = p THEN e ELSE At(g, k - 1)
          /\ At(g, k + 1)' = IF k + 1 < p THEN At(g, k + 1)
                             ELSE IF k + 1 = p THEN e ELSE At(g, k + 1 - 1)
      <4>1. At(g, k)' = At(h, k)' /\ At(g, k + 1)' = At(h, k + 1)'
        BY <2>7 DEF At
      <4>2. /\ At(h, k)' = IF k < p THEN At(h, k) ELSE IF k = p THEN e ELSE At(h, k - 1)
            /\ At(h, k + 1)' = IF k + 1 < p THEN At(h, k + 1)
                               ELSE IF k + 1 = p THEN e ELSE At(h, k + 1 - 1)
        BY <1>2, <1>5, <3>1
      <4> QED
        BY <2>7, <4>1, <4>2
    <3>3. CASE k < p - 1
      <4>1. k \in 0 .. Len(queue[g]) /\ k + 1 < p /\ k < p /\ k # p - 1
        BY <1>2, <2>7, <3>1, <3>3 DEF L
      <4> QED
        BY <2>5, <3>2, <4>1
    <3>4. CASE k = p - 1
      <4>1. k < p /\ k + 1 = p /\ ~(k + 1 < p)
        BY <3>1, <3>4
      <4> QED
        BY <1>2, <1>8, <1>11, <2>7, <3>2, <3>4, <4>1 DEF before
    <3>5. CASE k = p
      <4>1. ~(k < p) /\ ~(k + 1 < p) /\ k + 1 # p /\ k + 1 - 1 = k
        BY <3>1, <3>5
      <4> QED
        BY <1>2, <1>8, <1>11, <2>7, <3>2, <3>5, <4>1 DEF after
    <3>6. CASE k > p
      <4>1. /\ k - 1 \in 0 .. Len(queue[g]) /\ k - 1 # p - 1 /\ (k - 1) + 1 = k
            /\ ~(k < p) /\ k # p /\ ~(k + 1 < p) /\ k + 1 # p /\ k + 1 - 1 = k
        BY <1>2, <2>7, <3>1, <3>6 DEF L
      <4>2. next'[At(g, k - 1)] = At(g, k) /\ prev'[At(g, k)] = At(g, k - 1)
        BY <2>5, <4>1
      <4> QED
        BY <3>2, <4>1, <4>2
    <3> QED
      BY <1>2, <3>1, <3>3, <3>4, <3>5, <3>6
  <2> QED
    BY <2>6, <2>7
<1>14. Unlinked'
  <2> SUFFICES ASSUME NEW f \in Entries, ~Linked(f)' PROVE next'[f] = NULL /\ prev'[f] = NULL
    BY DEF Unlinked
  <2>1. f # e
    <3>1. At(h, p)' = e /\ p \in 1 .. Len(queue'[h])
      BY <1>2, <1>5, <1>7
    <3> QED
      BY <1>4, <1>10, <3>1 DEF Linked, In, At
  <2>2. ~Linked(f)
    <3> SUFFICES ASSUME NEW g \in Ready, NEW k \in 1 .. Len(queue[g]), queue[g][k] = f
                 PROVE  Linked(f)'
      BY DEF Linked, In
    <3>1. CASE g # h
      BY <1>4, <1>6, <3>1 DEF Linked, In, TypeOK
    <3>2. CASE g = h
      <4>1. queue'[h] = Inserted(queue[h], p, e)
        BY <1>1 DEF TypeOK
      <4>2. CASE k < p
        <5>1. k \in 1 .. L + 1 /\ queue'[h][k] = f
          BY <1>2, <3>2, <4>1, <4>2 DEF Inserted
        <5> QED
          BY <1>4, <1>7, <5>1 DEF Linked, In
      <4>3. CASE k >= p
        <5>1. k + 1 \in 1 .. L + 1 /\ queue'[h][k + 1] = f
          BY <1>2, <3>2, <4>1, <4>3 DEF Inserted
        <5> QED
          BY <1>4, <1>7, <5>1 DEF Linked, In
      <4> QED
        BY <1>2, <4>2, <4>3
    <3> QED
      BY <3>1, <3>2
  <2>3. f # before /\ f # after
    BY <1>1, <1>2, <2>2, NotInRing
  <2> QED
    BY <1>1, <1>11, <2>1, <2>2, <2>3 DEF Unlinked, Nodes
<1> QED
  BY <1>10, <1>12, <1>13, <1>14 DEF Rings
---------------------------------------------------------------------------
(* __list_del of the entry at place p, and its own pointers cleared. *)
LEMMA Forgotten ==
  ASSUME TypeOK, Distinct, NEW h \in Ready, NEW p \in 1 .. Len(queue[h]),
         Forget(queue[h][p])
  PROVE  queue' = [queue EXCEPT ![h] = Deleted(queue[h], p)]
<1> DEFINE e == queue[h][p]
<1>1. \A g \in Ready \ {h} : ~\E k \in 1 .. Len(queue[g]) : queue[g][k] = e
  BY DEF Distinct
<1>2. \A k \in 1 .. Len(queue[h]) : queue[h][k] = e => k = p
  BY DEF Distinct
<1>3. (CHOOSE k \in 1 .. Len(queue[h]) : queue[h][k] = e) = p
  BY <1>2
<1>4. Without(e, queue[h]) = Deleted(queue[h], p)
  BY <1>3 DEF Without, Deleted
<1>5. \A g \in Ready \ {h} : Without(e, queue[g]) = queue[g]
  BY <1>1 DEF Without
<1> QED
  BY <1>4, <1>5 DEF Forget, TypeOK, Ready

LEMMA Delete ==
  ASSUME Rings, NEW h \in Ready, NEW p \in 1 .. Len(queue[h]),
         list_del_unlink(queue[h][p]), Forget(queue[h][p]),
         walk' \in [on : BOOLEAN, head : Pointers, pos : Pointers, n : Pointers],
         todo' \in Seq(Entries)
  PROVE  Rings'
<1> DEFINE L == Len(queue[h])
           e == queue[h][p]
           before == At(h, p - 1)
           after == At(h, p + 1)
<1>1. TypeOK /\ Distinct /\ RingsMatch /\ Unlinked
  BY DEF Rings
<1>2. /\ h \in Heads /\ L \in Nat /\ queue[h] \in Seq(Entries) /\ e \in Entries
      /\ e \in Nodes /\ e # NULL /\ p \in Int /\ p \in 1 .. L /\ At(h, p) = e
  BY <1>1, QueueType, ListAssumption DEF Nodes, At
<1>3. queue' = [queue EXCEPT ![h] = Deleted(queue[h], p)]
  BY <1>1, Forgotten
<1>4. /\ Deleted(queue[h], p) \in Seq(Entries) /\ Len(Deleted(queue[h], p)) = L - 1
  BY <1>2, DeletedSeq
<1>5. /\ Ready' = Ready /\ queue' \in [Ready -> Seq(Entries)]
      /\ queue'[h] = Deleted(queue[h], p) /\ Len(queue'[h]) = L - 1
      /\ \A g \in Ready \ {h} : queue'[g] = queue[g]
  BY <1>1, <1>3, <1>4 DEF TypeOK, Ready
<1>6. ASSUME NEW k \in 0 .. L
      PROVE  At(h, k)' = IF k < p THEN At(h, k) ELSE At(h, k + 1)
  <2>1. At(h, k)' = IF k \in 1 .. L - 1 THEN Deleted(queue[h], p)[k] ELSE h
    BY <1>5 DEF At
  <2> QED
    BY <1>2, <2>1 DEF At, Deleted
<1>7. \A g \in Ready \ {h} : \A k : At(g, k)' = At(g, k)
  BY <1>5 DEF At
<1>8. /\ next[e] = after /\ prev[e] = before
      /\ before \in Nodes /\ after \in Nodes /\ before # e /\ after # e
  <2>1. p - 1 \in 0 .. L /\ p \in 0 .. L /\ p + 1 \in 1 .. L + 1 /\ p \in 1 .. L + 1
        /\ p - 1 # p /\ p + 1 # p /\ (p - 1) + 1 = p
    BY <1>2
  <2>2. next[At(h, p)] = At(h, p + 1) /\ prev[At(h, (p - 1) + 1)] = At(h, p - 1)
    BY <1>1, <2>1 DEF RingsMatch
  <2>3. before \in Nodes /\ before # At(h, p)
    BY <1>1, <2>1, RingNodes
  <2>4. after \in Nodes /\ after # At(h, p)
    BY <1>1, <2>1, RingNodesAfter
  <2> QED
    BY <1>2, <2>1, <2>2, <2>3, <2>4
<1> HIDE DEF before, after, e
<1>9. next' \in [Nodes -> Pointers] /\ prev' \in [Nodes -> Pointers]
  BY <1>1, <1>2, <1>8 DEF TypeOK, list_del_unlink, Pointers, e
<1>10. TypeOK'
  BY <1>1, <1>5, <1>9 DEF TypeOK, Ready
<1>11. /\ \A y \in Nodes : next'[y] = IF y = e THEN NULL ELSE IF y = before THEN after ELSE next[y]
       /\ \A y \in Nodes : prev'[y] = IF y = e THEN NULL ELSE IF y = after THEN before ELSE prev[y]
  BY <1>1, <1>2, <1>8 DEF TypeOK, list_del_unlink, e
<1>12. Distinct'
  <2> SUFFICES ASSUME NEW f \in Ready, NEW g \in Ready,
                      NEW j \in 1 .. Len(queue'[f]), NEW k \in 1 .. Len(queue'[g]),
                      queue'[f][j] = queue'[g][k]
               PROVE  f = g /\ j = k
    BY <1>5 DEF Distinct
  <2>1. ASSUME NEW o \in Ready, NEW i \in 1 .. Len(queue'[o])
        PROVE  \E m \in 1 .. Len(queue[o]) :
                 queue'[o][i] = queue[o][m] /\ m = IF o = h /\ i >= p THEN i + 1 ELSE i
    <3>1. CASE o # h
      BY <1>5, <3>1
    <3>2. CASE o = h
      BY <1>2, <1>5, <3>2 DEF Deleted
    <3> QED
      BY <3>1, <3>2
  <2>2. PICK m \in 1 .. Len(queue[f]) :
          queue'[f][j] = queue[f][m] /\ m = IF f = h /\ j >= p THEN j + 1 ELSE j
    BY <2>1
  <2>3. PICK n \in 1 .. Len(queue[g]) :
          queue'[g][k] = queue[g][n] /\ n = IF g = h /\ k >= p THEN k + 1 ELSE k
    BY <2>1
  <2>4. queue[f][m] = queue[g][n]
    BY <2>2, <2>3
  <2>5. \A a \in 1 .. Len(queue[f]), b \in 1 .. Len(queue[g]) :
          queue[f][a] = queue[g][b] => f = g /\ a = b
    BY <1>1 DEF Distinct
  <2>6. f = g /\ m = n
    BY <2>4, <2>5
  <2> QED
    BY <1>2, <2>2, <2>3, <2>6
<1>13. RingsMatch'
  <2> SUFFICES ASSUME NEW g \in Ready, NEW k \in 0 .. Len(queue'[g])
               PROVE  /\ next'[At(g, k)'] = At(g, k + 1)'
                      /\ prev'[At(g, k + 1)'] = At(g, k)'
    BY <1>5 DEF RingsMatch
  <2>1. \A i \in 0 .. Len(queue[g]) : next[At(g, i)] = At(g, i + 1) /\ prev[At(g, i + 1)] = At(g, i)
    BY <1>1 DEF RingsMatch
  <2>2. Len(queue[g]) \in Nat
    BY <1>1, QueueType
  <2>3. \A i \in 0 .. Len(queue[g]) :
          /\ At(g, i) \in Nodes
          /\ (At(g, i) = before => g = h /\ i = p - 1)
          /\ (At(g, i) = e => g = h /\ i = p)
    BY <1>1, <1>2, RingNodes DEF before
  <2>4. \A i \in 1 .. Len(queue[g]) + 1 :
          /\ At(g, i) \in Nodes
          /\ (At(g, i) = after => g = h /\ i = p + 1)
          /\ (At(g, i) = e => g = h /\ i = p)
    BY <1>1, <1>2, RingNodesAfter DEF after
  <2>5. ASSUME NEW i \in 0 .. Len(queue[g]), g = h => i # p - 1 /\ i # p
        PROVE  next'[At(g, i)] = At(g, i + 1) /\ prev'[At(g, i + 1)] = At(g, i)
    <3>1. i + 1 \in 1 .. Len(queue[g]) + 1 /\ (i + 1 = p => i = p - 1) /\ (i + 1 = p + 1 => i = p)
      BY <1>2, <2>2
    <3>2. At(g, i) \in Nodes /\ At(g, i) # before /\ At(g, i) # e
      BY <2>3, <2>5
    <3>3. At(g, i + 1) \in Nodes /\ At(g, i + 1) # after /\ At(g, i + 1) # e
      BY <2>4, <2>5, <3>1
    <3> QED
      BY <1>11, <2>1, <3>2, <3>3
  <2>6. CASE g # h
    <3>1. k \in 0 .. Len(queue[g]) /\ At(g, k)' = At(g, k) /\ At(g, k + 1)' = At(g, k + 1)
      BY <1>5, <1>7, <2>6
    <3> QED
      BY <2>5, <2>6, <3>1
  <2>7. CASE g = h
    <3>1. k \in 0 .. L - 1 /\ k \in 0 .. L /\ k + 1 \in 0 .. L
      BY <1>2, <1>5, <2>7
    <3> HIDE DEF L
    <3>2. /\ At(g, k)' = IF k < p THEN At(g, k) ELSE At(g, k + 1)
          /\ At(g, k + 1)' = IF k + 1 < p THEN At(g, k + 1) ELSE At(g, (k + 1) + 1)
      <4>1. At(g, k)' = At(h, k)' /\ At(g, k + 1)' = At(h, k + 1)'
        BY <2>7 DEF At
      <4>2. /\ At(h, k)' = IF k < p THEN At(h, k) ELSE At(h, k + 1)
            /\ At(h, k + 1)' = IF k + 1 < p THEN At(h, k + 1) ELSE At(h, (k + 1) + 1)
        BY <1>6, <3>1
      <4> QED
        BY <2>7, <4>1, <4>2
    <3>3. CASE k < p - 1
      <4>1. k \in 0 .. Len(queue[g]) /\ k + 1 < p /\ k < p /\ k # p - 1 /\ k # p
        BY <1>2, <2>7, <3>1, <3>3 DEF L
      <4> QED
        BY <2>5, <3>2, <4>1
    <3>4. CASE k = p - 1
      <4>1. k < p /\ ~(k + 1 < p) /\ (k + 1) + 1 = p + 1
        BY <1>2, <3>1, <3>4
      <4>2. At(g, k)' = before /\ At(g, k + 1)' = after
        BY <2>7, <3>2, <3>4, <4>1 DEF before, after
      <4> QED
        BY <1>8, <1>11, <4>2
    <3>5. CASE k >= p
      <4>1. /\ k + 1 \in 0 .. Len(queue[g]) /\ k + 1 # p - 1 /\ k + 1 # p
            /\ ~(k < p) /\ ~(k + 1 < p)
        BY <1>2, <2>7, <3>1, <3>5 DEF L
      <4>2. next'[At(g, k + 1)] = At(g, (k + 1) + 1) /\ prev'[At(g, (k + 1) + 1)] = At(g, k + 1)
        BY <2>5, <4>1
      <4> QED
        BY <3>2, <4>1, <4>2
    <3> QED
      BY <1>2, <3>1, <3>3, <3>4, <3>5
  <2> QED
    BY <2>6, <2>7
<1>14. Unlinked'
  <2> SUFFICES ASSUME NEW f \in Entries, ~Linked(f)' PROVE next'[f] = NULL /\ prev'[f] = NULL
    BY DEF Unlinked
  <2>1. f \in Nodes
    BY DEF Nodes
  <2>2. CASE f = e
    BY <1>11, <2>1, <2>2
  <2>3. CASE f # e
    <3>1. ~Linked(f)
      <4> SUFFICES ASSUME NEW g \in Ready, NEW k \in 1 .. Len(queue[g]), queue[g][k] = f
                   PROVE  Linked(f)'
        BY DEF Linked, In
      <4>1. CASE g # h
        BY <1>5, <4>1 DEF Linked, In
      <4>2. CASE g = h
        <5>1. k # p /\ k \in 1 .. L
          BY <2>3, <4>2 DEF e
        <5>2. \A i \in 1 .. L - 1 : queue'[h][i] = IF i < p THEN queue[h][i] ELSE queue[h][i + 1]
          BY <1>2, <1>5 DEF Deleted
        <5>3. \E i \in 1 .. L - 1 : queue'[h][i] = f
          <6>1. CASE k < p
            BY <1>2, <4>2, <5>1, <5>2, <6>1
          <6>2. CASE k > p
            <7>1. k - 1 \in 1 .. L - 1 /\ ~(k - 1 < p) /\ (k - 1) + 1 = k
              BY <1>2, <5>1, <6>2
            <7> QED
              BY <4>2, <5>2, <7>1
          <6> QED
            BY <1>2, <5>1, <6>1, <6>2
        <5> QED
          BY <1>5, <5>3 DEF Linked, In
      <4> QED
        BY <4>1, <4>2
    <3>2. f # before /\ f # after
      <4>1. p - 1 \in 0 .. Len(queue[h]) + 1 /\ p + 1 \in 0 .. Len(queue[h]) + 1
        BY <1>2
      <4> QED
        BY <1>1, <3>1, <4>1, NotInRing DEF before, after
    <3> QED
      BY <1>1, <1>11, <2>1, <2>3, <3>1, <3>2 DEF Unlinked
  <2> QED
    BY <2>2, <2>3
<1> QED
  BY <1>10, <1>12, <1>13, <1>14 DEF Rings
---------------------------------------------------------------------------
(* The operations, one by one. *)

LEMMA InitListHead ==
  ASSUME ListInv, NEW h \in Heads, INIT_LIST_HEAD(h)
  PROVE  ListInv'
<1>1. /\ TypeOK /\ Distinct /\ RingsMatch /\ Unlinked /\ Walking
      /\ h \in Nodes /\ h \notin Ready /\ h \notin Entries
  BY ListAssumption DEF ListInv, Nodes, INIT_LIST_HEAD
<1>2. /\ Ready' = Ready \cup {h} /\ queue'[h] = <<>>
      /\ \A g \in Ready : queue'[g] = queue[g]
      /\ queue' \in [Ready \cup {h} -> Seq(Entries)]
  BY <1>1 DEF INIT_LIST_HEAD, Ready, TypeOK
<1>3. /\ \A g \in Ready : \A k : At(g, k)' = At(g, k)
      /\ \A k : At(h, k)' = h
  BY <1>2 DEF At
<1>4. TypeOK'
  BY <1>1, <1>2 DEF INIT_LIST_HEAD, TypeOK, Pointers
<1>5. Distinct'
  BY <1>1, <1>2 DEF Distinct
<1>6. /\ \A y \in Nodes : next'[y] = IF y = h THEN h ELSE next[y]
      /\ \A y \in Nodes : prev'[y] = IF y = h THEN h ELSE prev[y]
  BY <1>1 DEF INIT_LIST_HEAD, TypeOK
<1>7. RingsMatch'
  <2> SUFFICES ASSUME NEW g \in Ready \cup {h}, NEW k \in 0 .. Len(queue'[g])
               PROVE  /\ next'[At(g, k)'] = At(g, k + 1)'
                      /\ prev'[At(g, k + 1)'] = At(g, k)'
    BY <1>2 DEF RingsMatch
  <2>1. CASE g = h
    <3>1. At(g, k)' = h /\ At(g, k + 1)' = h
      BY <1>3, <2>1 DEF At
    <3> QED
      BY <1>1, <1>6, <3>1
  <2>2. CASE g # h
    <3>1. /\ g \in Ready /\ g \in Heads /\ Len(queue[g]) \in Nat /\ k \in 0 .. Len(queue[g])
          /\ k + 1 \in 1 .. Len(queue[g]) + 1
          /\ \A i \in 1 .. Len(queue[g]) : queue[g][i] \in Entries
      BY <1>1, <1>2, <2>2, QueueType
    <3>2. /\ At(g, k) \in Nodes \ {h} /\ At(g, k + 1) \in Nodes \ {h}
          /\ next[At(g, k)] = At(g, k + 1) /\ prev[At(g, k + 1)] = At(g, k)
      BY <1>1, <2>2, <3>1 DEF At, Nodes, RingsMatch
    <3> QED
      BY <1>3, <1>6, <3>1, <3>2
  <2> QED
    BY <2>1, <2>2
<1>8. Unlinked'
  <2>1. \A f \in Entries : ~Linked(f)' => ~Linked(f)
    BY <1>2 DEF Linked, In
  <2> QED
    BY <1>1, <1>6, <2>1 DEF Unlinked, Nodes
<1>9. Walking'
  BY <1>1, <1>2, <1>3 DEF Walking, Place, INIT_LIST_HEAD
<1> QED
  BY <1>4, <1>5, <1>7, <1>8, <1>9 DEF ListInv

LEMMA ListAdd ==
  ASSUME ListInv, NEW e \in Entries, NEW h \in Heads, list_add(e, h)
  PROVE  ListInv'
<1>1. Rings /\ TypeOK /\ RingsMatch /\ h \in Ready /\ ~Linked(e) /\ ~walk.on
  BY DEF ListInv, Rings, list_add
<1>2. queue[h] \in Seq(Entries) /\ Len(queue[h]) \in Nat
  BY <1>1, QueueType
<1>3. At(h, 1 - 1) = h /\ At(h, 1) = next[h]
  <2>1. 0 \in 0 .. Len(queue[h]) /\ 1 - 1 = 0 /\ 0 + 1 = 1
    BY <1>2
  <2>2. next[At(h, 0)] = At(h, 0 + 1)
    BY <1>1, <2>1 DEF RingsMatch
  <2> QED
    BY <1>1, <2>1, <2>2, RingEnds
<1>4. queue' = [queue EXCEPT ![h] = Inserted(queue[h], 1, e)]
  BY <1>2, AtTheFront DEF list_add
<1>5. 1 \in 1 .. Len(queue[h]) + 1
  BY <1>2
<1>6. list_add_between(e, At(h, 1 - 1), At(h, 1))
  BY <1>3 DEF list_add
<1>7. Rings'
  BY <1>1, <1>4, <1>5, <1>6, Insert DEF list_add
<1> QED
  BY <1>1, <1>7 DEF ListInv, Rings, Walking, list_add

LEMMA ListAddTail ==
  ASSUME ListInv, NEW e \in Entries, NEW h \in Heads, list_add_tail(e, h)
  PROVE  ListInv'
<1> DEFINE p == Len(queue[h]) + 1
<1>1. Rings /\ TypeOK /\ RingsMatch /\ h \in Ready /\ ~Linked(e) /\ ~walk.on
  BY DEF ListInv, Rings, list_add_tail
<1>2. queue[h] \in Seq(Entries) /\ Len(queue[h]) \in Nat
  BY <1>1, QueueType
<1>3. At(h, p - 1) = prev[h] /\ At(h, p) = h
  <2>1. Len(queue[h]) \in 0 .. Len(queue[h]) /\ p - 1 = Len(queue[h])
    BY <1>2
  <2>2. prev[At(h, Len(queue[h]) + 1)] = At(h, Len(queue[h]))
    BY <1>1, <2>1 DEF RingsMatch
  <2> QED
    BY <1>1, <2>1, <2>2, RingEnds
<1>4. queue' = [queue EXCEPT ![h] = Inserted(queue[h], p, e)]
  BY <1>2, AtTheEnd DEF list_add_tail
<1>5. p \in 1 .. Len(queue[h]) + 1
  BY <1>2
<1>6. list_add_between(e, At(h, p - 1), At(h, p))
  BY <1>3 DEF list_add_tail
<1> HIDE DEF p
<1>7. Rings'
  BY <1>1, <1>4, <1>5, <1>6, Insert DEF list_add_tail
<1> QED
  BY <1>1, <1>7 DEF ListInv, Rings, Walking, list_add_tail

LEMMA ListDel ==
  ASSUME ListInv, NEW e \in Entries, list_del(e)
  PROVE  ListInv'
<1>1. Rings /\ TypeOK /\ Linked(e) /\ ~walk.on
  BY DEF ListInv, Rings, list_del
<1>2. PICK h \in Ready : \E p \in 1 .. Len(queue[h]) : queue[h][p] = e
  BY <1>1 DEF Linked, In
<1>3. PICK p \in 1 .. Len(queue[h]) : queue[h][p] = e
  BY <1>2
<1>4. Rings'
  BY <1>1, <1>3, Delete DEF list_del, TypeOK
<1> QED
  BY <1>1, <1>4 DEF ListInv, Rings, Walking, list_del
---------------------------------------------------------------------------
(* The loop. *)

LEMMA LoopStarts ==
  ASSUME ListInv, NEW h \in Heads, list_for_each_safe(h)
  PROVE  ListInv'
<1>1. TypeOK /\ Distinct /\ RingsMatch /\ Unlinked /\ h \in Ready
  BY DEF ListInv, list_for_each_safe
<1>2. /\ h \in Nodes /\ queue[h] \in Seq(Entries) /\ Len(queue[h]) \in Nat
  BY <1>1, QueueType
<1>3. /\ next[h] = At(h, 1) /\ next[h] \in Nodes
      /\ queue[h] # <<>> => next[next[h]] = At(h, 2)
  <2>1. /\ 0 \in 0 .. Len(queue[h]) /\ 1 \in 1 .. Len(queue[h]) + 1
        /\ 0 + 1 = 1 /\ 1 + 1 = 2 /\ (queue[h] # <<>> => 1 \in 0 .. Len(queue[h]))
    BY <1>2
  <2>2. /\ next[At(h, 0)] = At(h, 0 + 1)
        /\ queue[h] # <<>> => next[At(h, 1)] = At(h, 1 + 1)
    BY <1>1, <2>1 DEF RingsMatch
  <2>3. At(h, 0) = h /\ At(h, 1) \in Nodes
    BY <1>1, <2>1, RingEnds, RingNodesAfter
  <2> QED
    BY <2>1, <2>2, <2>3
<1>4. walk' = [on |-> TRUE, head |-> h, pos |-> next[h], n |-> next[next[h]]]
      /\ todo' = queue[h] /\ UNCHANGED <<next, prev, queue>> /\ Ready' = Ready
  BY DEF list_for_each_safe, Ready
<1>5. TypeOK'
  <2>1. next[h] \in Pointers /\ next[next[h]] \in Pointers /\ h \in Pointers
    BY <1>1, <1>2, <1>3 DEF TypeOK, Pointers
  <2> QED
    BY <1>1, <1>2, <1>4, <2>1 DEF TypeOK
<1>6. Distinct' /\ RingsMatch' /\ Unlinked'
  BY <1>1, <1>4 DEF Distinct, RingsMatch, Unlinked, Linked, In, At, Ready
<1>7. Walking'
  <2>1. walk'.head = h /\ walk'.pos = next[h] /\ walk'.n = next[next[h]]
    BY <1>4
  <2>2. Place' = 1
    BY <1>2, <1>4, <2>1 DEF Place
  <2>3. \A k : At(walk.head, k)' = At(h, k)
    BY <1>4, <2>1 DEF At
  <2>4. \A k \in 1 .. Len(queue[h]) : 1 + k - 1 = k
    BY <1>2
  <2>5. /\ walk'.head \in Ready'
        /\ Len(todo') <= Len(queue'[walk'.head])
        /\ \A k \in 1 .. Len(todo') : todo'[k] = queue'[walk'.head][Place' + k - 1]
    BY <1>1, <1>2, <1>4, <2>1, <2>2, <2>4
  <2>6. /\ walk'.pos = At(walk.head, Place)'
        /\ todo' # <<>> => walk'.n = At(walk.head, Place + 1)'
    BY <1>3, <1>4, <2>1, <2>2 DEF At
  <2> QED
    BY <2>5, <2>6 DEF Walking
<1> QED
  BY <1>5, <1>6, <1>7 DEF ListInv

(* The loop's place while it is in the body. *)
LEMMA InTheBody ==
  ASSUME ListInv, walk.on, walk.pos # walk.head
  PROVE  /\ walk.head \in Ready /\ Len(queue[walk.head]) \in Nat
         /\ queue[walk.head] \in Seq(Entries) /\ todo # <<>>
         /\ Place \in 1 .. Len(queue[walk.head])
         /\ Len(todo) = Len(queue[walk.head]) - Place + 1
         /\ walk.pos = queue[walk.head][Place]
         /\ walk.n = At(walk.head, Place + 1) /\ walk.n \in Nodes
         /\ Tail(todo) \in Seq(Entries) /\ Len(Tail(todo)) = Len(todo) - 1
         /\ \A k \in 1 .. Len(Tail(todo)) :
              Tail(todo)[k] = queue[walk.head][Place + k]
         /\ next[walk.pos] \in Pointers /\ prev[walk.pos] \in Pointers
<1> DEFINE h == walk.head
           L == Len(queue[h])
<1>1. /\ TypeOK /\ Distinct /\ h \in Ready /\ Len(todo) <= L
      /\ \A k \in 1 .. Len(todo) : todo[k] = queue[h][Place + k - 1]
      /\ walk.pos = At(h, Place)
      /\ (todo # <<>> => walk.n = At(h, Place + 1))
  BY DEF ListInv, Walking
<1>2. L \in Nat /\ queue[h] \in Seq(Entries) /\ todo \in Seq(Entries) /\ Len(todo) \in Nat
  BY <1>1, QueueType DEF TypeOK
<1>3. Place = L - Len(todo) + 1 /\ Place \in Int
  BY <1>2 DEF Place
<1>4. todo # <<>> /\ Len(todo) >= 1
  <2>1. Len(todo) # 0
    <3> SUFFICES ASSUME Len(todo) = 0 PROVE FALSE
      OBVIOUS
    <3>1. Place = L + 1
      BY <1>2, <1>3
    <3> QED
      BY <1>1, <3>1, RingEnds
  <2> QED
    BY <1>2, <2>1
<1>5. Place \in 1 .. L /\ Place + 1 \in 1 .. L + 1 /\ Len(todo) = L - Place + 1
  BY <1>1, <1>2, <1>3, <1>4
<1>6. walk.pos = queue[h][Place]
  BY <1>1, <1>5 DEF At
<1>7. walk.n = At(h, Place + 1) /\ walk.n \in Nodes
  BY <1>1, <1>4, <1>5, RingNodesAfter
<1>8. Tail(todo) \in Seq(Entries) /\ Len(Tail(todo)) = Len(todo) - 1
      /\ \A k \in 1 .. Len(Tail(todo)) : Tail(todo)[k] = todo[k + 1]
  BY <1>2, <1>4
<1>9. \A k \in 1 .. Len(Tail(todo)) : Tail(todo)[k] = queue[h][Place + k]
  <2> SUFFICES ASSUME NEW k \in 1 .. Len(Tail(todo))
               PROVE  Tail(todo)[k] = queue[h][Place + k]
    OBVIOUS
  <2>1. k + 1 \in 1 .. Len(todo) /\ Place + (k + 1) - 1 = Place + k
    BY <1>2, <1>3, <1>8
  <2> QED
    BY <1>1, <1>8, <2>1
<1>10. next[walk.pos] \in Pointers /\ prev[walk.pos] \in Pointers
  BY <1>1, <1>2, <1>5, <1>6 DEF TypeOK, Nodes
<1> QED
  BY <1>1, <1>2, <1>4, <1>5, <1>6, <1>7, <1>8, <1>9, <1>10

LEMMA Keeps ==
  ASSUME ListInv, LoopKeep
  PROVE  ListInv'
<1> DEFINE h == walk.head
           L == Len(queue[h])
<1>1. /\ TypeOK /\ Distinct /\ RingsMatch /\ Unlinked
      /\ walk.on /\ walk.pos # walk.head /\ UNCHANGED <<next, prev, queue>> /\ Ready' = Ready
      /\ walk' = [walk EXCEPT !.pos = walk.n, !.n = next'[walk.n]] /\ todo' = Tail(todo)
  BY DEF ListInv, LoopKeep, advance, Ready
<1>2. /\ h \in Ready /\ L \in Nat /\ todo # <<>> /\ Place \in 1 .. L
      /\ Len(todo) = L - Place + 1
      /\ walk.n = At(h, Place + 1) /\ walk.n \in Nodes
      /\ Tail(todo) \in Seq(Entries) /\ Len(Tail(todo)) = Len(todo) - 1
      /\ \A k \in 1 .. Len(Tail(todo)) : Tail(todo)[k] = queue[h][Place + k]
  BY <1>1, InTheBody
<1>3. walk'.on /\ walk'.head = h /\ walk'.pos = walk.n /\ walk'.n = next[walk.n]
      /\ walk' \in [on : BOOLEAN, head : Pointers, pos : Pointers, n : Pointers]
  BY <1>1, <1>2 DEF TypeOK, Pointers
<1>4. TypeOK'
  BY <1>1, <1>2, <1>3 DEF TypeOK
<1>5. Distinct' /\ RingsMatch' /\ Unlinked'
  BY <1>1 DEF Distinct, RingsMatch, Unlinked, Linked, In, At, Ready
<1>6. Place' = Place + 1
  <2>1. Place' = L - Len(Tail(todo)) + 1
    BY <1>1, <1>3 DEF Place
  <2> HIDE DEF L
  <2> QED
    BY <1>2, <2>1
<1>7. todo' # <<>> => walk'.n = At(h, Place + 1 + 1)
  <2> SUFFICES ASSUME Tail(todo) # <<>> PROVE next[walk.n] = At(h, Place + 1 + 1)
    BY <1>1, <1>3
  <2>1. Place + 1 \in 0 .. L
    BY <1>2
  <2> QED
    BY <1>1, <1>2, <2>1 DEF RingsMatch
<1>8. \A k \in 1 .. Len(todo') : todo'[k] = queue[h][Place + 1 + k - 1]
  <2>1. \A k \in 1 .. Len(Tail(todo)) : Place + 1 + k - 1 = Place + k
    BY <1>2
  <2> QED
    BY <1>1, <1>2, <2>1
<1>9. Len(todo') <= Len(queue'[h])
  BY <1>1, <1>2
<1>10. Walking'
  <2>1. \A k : At(walk.head, k)' = At(h, k)
    BY <1>1, <1>3 DEF At
  <2>2. walk'.pos = At(walk.head, Place)' /\ (todo' # <<>> => walk'.n = At(walk.head, Place + 1)')
    BY <1>1, <1>2, <1>3, <1>6, <1>7 DEF At
  <2>3. \A k \in 1 .. Len(todo') : todo'[k] = queue'[walk'.head][Place' + k - 1]
    BY <1>1, <1>3, <1>6, <1>8
  <2> QED
    BY <1>1, <1>2, <1>3, <1>9, <2>2, <2>3 DEF Walking
<1> QED
  BY <1>4, <1>5, <1>10 DEF ListInv

LEMMA Deletes ==
  ASSUME ListInv, LoopDelete
  PROVE  ListInv'
<1> DEFINE h == walk.head
           L == Len(queue[h])
<1>0. PICK p : p = Place
  OBVIOUS
<1>1. /\ Rings /\ TypeOK /\ Distinct /\ walk.on /\ walk.pos # walk.head
      /\ list_del_unlink(walk.pos) /\ Forget(walk.pos)
      /\ walk' = [walk EXCEPT !.pos = walk.n, !.n = next'[walk.n]] /\ todo' = Tail(todo)
  BY DEF ListInv, Rings, LoopDelete, advance
<1>2. /\ h \in Ready /\ L \in Nat /\ todo # <<>> /\ p \in 1 .. L
      /\ queue[h] \in Seq(Entries)
      /\ Len(todo) = L - p + 1 /\ walk.pos = queue[h][p]
      /\ walk.n = At(h, p + 1) /\ walk.n \in Nodes
      /\ Tail(todo) \in Seq(Entries) /\ Len(Tail(todo)) = Len(todo) - 1
      /\ \A k \in 1 .. Len(Tail(todo)) : Tail(todo)[k] = queue[h][p + k]
      /\ next[walk.pos] \in Pointers /\ prev[walk.pos] \in Pointers
  BY <1>0, <1>1, InTheBody
<1>3. walk'.on /\ walk'.head = h /\ walk'.pos = walk.n /\ walk'.n = next'[walk.n]
      /\ walk' \in [on : BOOLEAN, head : Pointers, pos : Pointers, n : Pointers]
  <2>1. next'[walk.n] \in Pointers
    BY <1>1, <1>2 DEF list_del_unlink, TypeOK, Pointers
  <2> QED
    BY <1>1, <1>2, <2>1 DEF TypeOK, Pointers
<1>4. Rings'
  BY <1>1, <1>2, <1>3, Delete
<1>5. queue' = [queue EXCEPT ![h] = Deleted(queue[h], p)]
  BY <1>1, <1>2, Forgotten
<1>6. /\ Ready' = Ready /\ Len(queue'[h]) = L - 1
      /\ \A k \in 1 .. L - 1 : queue'[h][k] = IF k < p THEN queue[h][k] ELSE queue[h][k + 1]
  BY <1>1, <1>2, <1>5, DeletedSeq DEF TypeOK, Ready, Deleted
<1>7. Place' = p
  <2>1. Place' = Len(queue'[h]) - Len(Tail(todo)) + 1
    BY <1>1, <1>3 DEF Place
  <2> QED
    BY <1>2, <1>6, <2>1
<1>8. At(walk.head, p)' = At(h, p + 1)
  <2>1. At(walk.head, p)' = IF p \in 1 .. L - 1 THEN queue'[h][p] ELSE h
    BY <1>3, <1>6 DEF At
  <2>2. At(h, p + 1) = IF p + 1 \in 1 .. L THEN queue[h][p + 1] ELSE h
    BY DEF At
  <2>3. L \in Nat /\ p \in 1 .. L
    BY <1>2
  <2>4. \A k \in 1 .. L - 1 : queue'[h][k] = IF k < p THEN queue[h][k] ELSE queue[h][k + 1]
    BY <1>6
  <2> HIDE DEF L
  <2>5. CASE p = L
    <3>1. p \notin 1 .. L - 1 /\ p + 1 \notin 1 .. L
      BY <2>3, <2>5
    <3> QED
      BY <2>1, <2>2, <3>1
  <2>6. CASE p # L
    <3>1. p \in 1 .. L - 1 /\ p + 1 \in 1 .. L /\ ~(p < p)
      BY <2>3, <2>6
    <3>2. queue'[h][p] = queue[h][p + 1]
      BY <2>4, <3>1
    <3> QED
      BY <2>1, <2>2, <3>1, <3>2
  <2> QED
    BY <2>5, <2>6
<1>9. todo' # <<>> => walk'.n = At(walk.head, p + 1)'
  <2> SUFFICES ASSUME Tail(todo) # <<>> PROVE next'[walk.n] = At(walk.head, p + 1)'
    BY <1>1, <1>3
  <2>1. p \in 0 .. L - 1
    <3>1. Len(Tail(todo)) # 0
      BY <1>2, EmptySeq
    <3> HIDE DEF L
    <3> QED
      BY <1>2, <3>1
  <2>2. \A g \in Ready' : \A k \in 0 .. Len(queue'[g]) : next'[At(g, k)'] = At(g, k + 1)'
    BY <1>4 DEF Rings, RingsMatch
  <2>3. \A k \in 0 .. L - 1 : next'[At(walk.head, k)'] = At(walk.head, k + 1)'
    BY <1>2, <1>3, <1>6, <2>2 DEF At
  <2> QED
    BY <1>2, <1>8, <2>1, <2>3
<1>10. \A k \in 1 .. Len(todo') : todo'[k] = queue'[h][p + k - 1]
  <2>1. \A k \in 1 .. Len(Tail(todo)) :
          p + k - 1 \in 1 .. L - 1 /\ ~(p + k - 1 < p) /\ p + k - 1 + 1 = p + k
    BY <1>2
  <2> QED
    BY <1>1, <1>2, <1>6, <2>1
<1>11. Walking'
  <2>1. walk'.pos = At(walk.head, Place)' /\ (todo' # <<>> => walk'.n = At(walk.head, Place + 1)')
    BY <1>2, <1>3, <1>7, <1>8, <1>9 DEF At
  <2>2. Len(todo') <= Len(queue'[walk'.head])
    BY <1>1, <1>2, <1>3, <1>6
  <2>3. \A k \in 1 .. Len(todo') : todo'[k] = queue'[walk'.head][Place' + k - 1]
    BY <1>3, <1>7, <1>10
  <2> QED
    BY <1>2, <1>3, <1>6, <2>1, <2>2, <2>3 DEF Walking
<1> QED
  BY <1>4, <1>11 DEF ListInv, Rings
---------------------------------------------------------------------------
LEMMA ListInitially ==
  ASSUME Init
  PROVE  ListInv
<1>1. TypeOK /\ Ready = {}
  BY DEF Init, TypeOK, Ready, NoWalk, Pointers
<1> QED
  BY <1>1 DEF ListInv, Distinct, RingsMatch, Unlinked, Walking, Init, NoWalk, Nodes

LEMMA ListPreserved ==
  ASSUME ListInv, [Next]_vars
  PROVE  ListInv'
<1>1. ASSUME NEW h \in Heads, INIT_LIST_HEAD(h) PROVE ListInv'
  BY <1>1, InitListHead
<1>2. ASSUME NEW h \in Heads, list_for_each_safe(h) PROVE ListInv'
  BY <1>2, LoopStarts
<1>3. ASSUME NEW e \in Entries, NEW h \in Heads, list_add(e, h) PROVE ListInv'
  BY <1>3, ListAdd
<1>4. ASSUME NEW e \in Entries, NEW h \in Heads, list_add_tail(e, h) PROVE ListInv'
  BY <1>4, ListAddTail
<1>5. ASSUME NEW e \in Entries, list_del(e) PROVE ListInv'
  BY <1>5, ListDel
<1>6. CASE LoopKeep
  BY <1>6, Keeps
<1>7. CASE LoopDelete
  BY <1>7, Deletes
<1>8. CASE LoopEnd
  <2>1. /\ UNCHANGED <<next, prev, queue, todo>> /\ ~walk'.on /\ Ready' = Ready
        /\ walk' \in [on : BOOLEAN, head : Pointers, pos : Pointers, n : Pointers]
    BY <1>8 DEF LoopEnd, NoWalk, Pointers, Ready
  <2>2. TypeOK' /\ Distinct' /\ RingsMatch' /\ Unlinked'
    BY <2>1 DEF ListInv, TypeOK, Distinct, RingsMatch, Unlinked, Linked, In, At, Ready
  <2> QED
    BY <2>1, <2>2 DEF ListInv, Walking
<1>9. CASE UNCHANGED vars
  BY <1>9 DEF vars, ListInv, TypeOK, Distinct, RingsMatch, Unlinked, Walking, Place,
              Linked, In, At, Ready
<1> QED
  BY <1>1, <1>2, <1>3, <1>4, <1>5, <1>6, <1>7, <1>8, <1>9 DEF Next

(* Whatever lists a client sets up and however it adds to them, deletes    *)
(* from them and walks them, the pointers of list.c form the rings of the  *)
(* sequences the client has in mind, no two of them sharing a node.        *)
THEOREM ListsCorrect == Spec => []ListInv
<1>1. Init => ListInv
  BY ListInitially
<1>2. ListInv /\ [Next]_vars => ListInv'
  BY ListPreserved
<1> QED
  BY <1>1, <1>2, PTL DEF Spec

(* Following next, or prev backwards, from a head visits the entries of    *)
(* the list in order and comes back to the head.                           *)
THEOREM PointersFormRings == Spec => []RingsMatch
<1>1. ListInv => RingsMatch
  BY DEF ListInv
<1> QED
  BY <1>1, ListsCorrect, PTL

(* An entry's pointers are NULL exactly while it is in no list: list_del   *)
(* leaves none behind and list_add never links NULL in.                    *)
THEOREM NoneStale == Spec => []NoStalePointer
<1>1. ListInv => NoStalePointer
  <2> SUFFICES ASSUME ListInv, NEW e \in Entries
               PROVE  /\ next[e] = NULL <=> ~Linked(e)
                      /\ prev[e] = NULL <=> ~Linked(e)
    BY DEF NoStalePointer
  <2>1. TypeOK /\ Distinct /\ RingsMatch /\ Unlinked
    BY DEF ListInv
  <2>2. ASSUME Linked(e) PROVE next[e] # NULL /\ prev[e] # NULL
    <3>1. PICK h \in Ready : \E k \in 1 .. Len(queue[h]) : At(h, k) = e
      BY <2>1, <2>2, LinkedAt
    <3>2. PICK k \in 1 .. Len(queue[h]) : At(h, k) = e
      BY <3>1
    <3>3. Len(queue[h]) \in Nat
      BY <2>1, QueueType
    <3>4. /\ k \in 0 .. Len(queue[h]) /\ k - 1 \in 0 .. Len(queue[h]) /\ (k - 1) + 1 = k
          /\ k + 1 \in 1 .. Len(queue[h]) + 1
      BY <3>3
    <3>5. next[At(h, k)] = At(h, k + 1) /\ prev[At(h, (k - 1) + 1)] = At(h, k - 1)
      BY <2>1, <3>4 DEF RingsMatch
    <3>6. At(h, k + 1) # NULL /\ At(h, k - 1) # NULL
      BY <2>1, <3>4, RingNodes, RingNodesAfter
    <3> QED
      BY <3>2, <3>4, <3>5, <3>6
  <2> QED
    BY <2>1, <2>2 DEF Unlinked
<1> QED
  BY <1>1, ListsCorrect, PTL

(* list_empty, list_first and list_is_last, which look at one pointer,     *)
(* answer for the whole list.                                              *)
THEOREM TestsTellTheTruth == Spec => []TestsAgree
<1>1. ListInv => TestsAgree
  <2> SUFFICES ASSUME ListInv, NEW h \in Ready
               PROVE  /\ list_empty(h) <=> queue[h] = <<>>
                      /\ queue[h] # <<>> => list_first(h) = Head(queue[h])
                      /\ \A e \in Entries :
                           list_is_last(e, h) <=> In(e, h) /\ queue[h][Len(queue[h])] = e
    BY DEF TestsAgree
  <2> DEFINE L == Len(queue[h])
  <2>1. TypeOK /\ Distinct /\ RingsMatch /\ Unlinked
    BY DEF ListInv
  <2>2. /\ h \in Heads /\ h \in Nodes /\ h # NULL /\ queue[h] \in Seq(Entries) /\ L \in Nat
        /\ \A k \in 1 .. L : queue[h][k] \in Entries
    BY <2>1, QueueType
  <2>3. next[h] = At(h, 1)
    <3>1. 0 \in 0 .. L /\ 0 + 1 = 1
      BY <2>2
    <3>2. next[At(h, 0)] = At(h, 0 + 1)
      BY <2>1, <3>1 DEF RingsMatch
    <3> QED
      BY <2>1, <3>1, <3>2, RingEnds
  <2>4. queue[h] # <<>> => next[h] = queue[h][1] /\ next[h] # h
    BY <2>2, <2>3, ListAssumption DEF At
  <2>5. queue[h] = <<>> => next[h] = h
    BY <2>2, <2>3 DEF At
  <2>6. queue[h] # <<>> => Head(queue[h]) = queue[h][1]
    BY <2>2
  <2>7. ASSUME NEW e \in Entries
        PROVE  list_is_last(e, h) <=> In(e, h) /\ queue[h][L] = e
    <3>1. ASSUME In(e, h), queue[h][L] = e PROVE next[e] = h
      <4>1. L \in 1 .. L /\ L \in 0 .. L
        BY <2>2, <3>1 DEF In
      <4>2. At(h, L) = e /\ next[At(h, L)] = At(h, L + 1)
        BY <2>1, <3>1, <4>1 DEF RingsMatch, At
      <4> QED
        BY <2>1, <4>2, RingEnds
    <3>2. ASSUME next[e] = h PROVE In(e, h) /\ queue[h][L] = e
      <4>1. Linked(e)
        BY <2>1, <2>2, <3>2 DEF Unlinked
      <4>2. PICK g \in Ready : \E k \in 1 .. Len(queue[g]) : At(g, k) = e
        BY <2>1, <4>1, LinkedAt
      <4>3. PICK k \in 1 .. Len(queue[g]) : At(g, k) = e
        BY <4>2
      <4>4. Len(queue[g]) \in Nat
        BY <2>1, QueueType
      <4>5. /\ k \in 0 .. Len(queue[g]) /\ k + 1 \in 1 .. Len(queue[g]) + 1
            /\ L + 1 \in 1 .. Len(queue[h]) + 1
        BY <2>2, <4>4
      <4>6. At(g, k + 1) = h /\ At(h, L + 1) = h
        BY <2>1, <3>2, <4>3, <4>5, RingEnds DEF RingsMatch
      <4>7. g = h /\ k + 1 = L + 1
        BY <2>1, <4>5, <4>6, RingNodesAfter
      <4>8. k = L
        BY <2>2, <4>7
      <4> QED
        BY <4>3, <4>7, <4>8 DEF In, At
    <3> QED
      BY <3>1, <3>2 DEF list_is_last
  <2> QED
    BY <2>4, <2>5, <2>6, <2>7 DEF list_empty, list_first
<1> QED
  BY <1>1, ListsCorrect, PTL

(* list_for_each_safe visits what was in the list when it began, in order  *)
(* and skipping nothing, although its body deletes the entry it is at.     *)
THEOREM LoopVisitsAll == Spec => []WalkOnTrack
<1>1. ListInv => WalkOnTrack
  <2> SUFFICES ASSUME ListInv, walk.on
               PROVE  /\ walk.pos = IF todo = <<>> THEN walk.head ELSE Head(todo)
                      /\ \A k \in 1 .. Len(todo) : In(todo[k], walk.head)
                      /\ todo # <<>> =>
                           walk.n = IF Len(todo) = 1 THEN walk.head ELSE todo[2]
    BY DEF WalkOnTrack
  <2> DEFINE h == walk.head
             L == Len(queue[h])
  <2>1. /\ TypeOK /\ Distinct /\ h \in Ready /\ Len(todo) <= L
        /\ \A k \in 1 .. Len(todo) : todo[k] = queue[h][Place + k - 1]
        /\ walk.pos = At(h, Place)
        /\ (todo # <<>> => walk.n = At(h, Place + 1))
    BY DEF ListInv, Walking
  <2>2. L \in Nat /\ todo \in Seq(Entries) /\ Len(todo) \in Nat
    BY <2>1, QueueType DEF TypeOK
  <2>3. Place = L - Len(todo) + 1 /\ Place \in Int /\ Place >= 1
    BY <2>1, <2>2 DEF Place
  <2>4. \A k \in 1 .. Len(todo) : Place + k - 1 \in 1 .. L
    BY <2>1, <2>2, <2>3
  <2>5. \A k \in 1 .. Len(todo) : In(todo[k], h)
    BY <2>1, <2>4 DEF In
  <2>6. CASE todo = <<>>
    <3>1. Place = L + 1
      BY <2>2, <2>3, <2>6
    <3> QED
      BY <2>1, <2>5, <2>6, <3>1, RingEnds
  <2>7. CASE todo # <<>>
    <3>1. Len(todo) >= 1 /\ Head(todo) = todo[1] /\ 1 \in 1 .. Len(todo)
      BY <2>2, <2>7
    <3>2. Place + 1 - 1 = Place /\ Place \in 1 .. L
      BY <2>1, <2>2, <2>3, <3>1
    <3>3. walk.pos = Head(todo)
      BY <2>1, <3>1, <3>2 DEF At
    <3>4. CASE Len(todo) = 1
      <4>1. Place + 1 = L + 1
        BY <2>2, <2>3, <3>4
      <4> QED
        BY <2>1, <2>5, <2>7, <3>3, <3>4, <4>1, RingEnds
    <3>5. CASE Len(todo) > 1
      <4> HIDE DEF L
      <4>1. 2 \in 1 .. Len(todo) /\ Place + 2 - 1 = Place + 1 /\ Place + 1 \in 1 .. L
        <5>1. Len(todo) \in Nat /\ Len(todo) >= 1
          BY <2>2, <3>1
        <5>2. Len(todo) >= 2
          BY <3>5, <5>1
        <5>3. Place + 1 <= L
          BY <2>2, <2>3, <5>2, <5>1
        <5> QED
          BY <2>2, <2>3, <5>2, <5>3, <5>1
      <4>2. walk.n = todo[2]
        BY <2>1, <2>7, <4>1 DEF At, L
      <4> QED
        BY <2>5, <2>7, <3>3, <3>5, <4>2
    <3>6. Len(todo) = 1 \/ Len(todo) > 1
      <4>1. PICK n \in Nat : n = Len(todo) /\ n >= 1
        BY <2>2, <3>1
      <4>2. n = 1 \/ n > 1
        BY <4>1
      <4> QED
        BY <4>1, <4>2
    <3> QED
      BY <3>4, <3>5, <3>6
  <2> QED
    BY <2>6, <2>7
<1> QED
  BY <1>1, ListsCorrect, PTL
===========================================================================
