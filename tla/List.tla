-------------------------------- MODULE List ------------------------------
(***************************************************************************)
(* The intrusive doubly linked list of list.c and include/list.h, which    *)
(* the process queues are to be built on (devices.c declares one).         *)
(*                                                                         *)
(* next and prev are the two pointers of every struct list_head, of list   *)
(* heads and of entries alike; a structure no function has written holds   *)
(* NULL, as C's statics do.  A client meets list.c's unstated obligations: *)
(* it initialises a head before using it, adds only entries that are in no *)
(* list, and deletes only entries that are in one.  It traverses a list    *)
(* with list_for_each_safe, whose body may delete the entry it is at.      *)
(***************************************************************************)
EXTENDS Integers, Sequences

CONSTANTS Heads, Entries,
          NULL

Nodes == Heads \cup Entries

ASSUME ListAssumption ==
  /\ Heads \cap Entries = {}
  /\ NULL \notin Nodes

VARIABLES
  next, prev,   \* struct list_head
  walk,         \* list_for_each_safe in progress: [on, head, pos, n]
  \* History, read by no action's guard but the client's:
  queue,        \* the entries of each initialised list, first to last
  todo          \* what the loop has still to visit

vars == <<next, prev, walk, queue, todo>>

NoWalk == [on |-> FALSE, head |-> NULL, pos |-> NULL, n |-> NULL]

Init ==
  /\ next = [e \in Nodes |-> NULL] /\ prev = [e \in Nodes |-> NULL]
  /\ walk = NoWalk
  /\ queue = [h \in {} |-> <<>>]
  /\ todo = <<>>

(* What the client knows: the lists it has set up, and what is in them. *)
Ready == DOMAIN queue
In(e, h) == \E k \in 1 .. Len(queue[h]) : queue[h][k] = e
Linked(e) == \E h \in Ready : In(e, h)
(* s without e, which is in it once at most. *)
Without(e, s) ==
  LET p == CHOOSE k \in 1 .. Len(s) : s[k] = e
  IN IF \E k \in 1 .. Len(s) : s[k] = e
       THEN [k \in 1 .. Len(s) - 1 |-> IF k < p THEN s[k] ELSE s[k + 1]]
       ELSE s
---------------------------------------------------------------------------
INIT_LIST_HEAD(list) ==
  /\ list \notin Ready
  /\ next' = [next EXCEPT ![list] = list]
  /\ prev' = [prev EXCEPT ![list] = list]
  /\ queue' = [h \in Ready \cup {list} |-> IF h = list THEN <<>> ELSE queue[h]]
  /\ UNCHANGED <<walk, todo>>

list_add_half(new, before, after) ==
  /\ next' = [next EXCEPT ![new] = after, ![before] = new]
  /\ prev' = [prev EXCEPT ![new] = before]

(* next->prev = new; new->next = next; new->prev = prev; prev->next = new: *)
(* the two neighbours are the same node when the list is empty.            *)
list_add_between(new, before, after) ==
  /\ prev' = [prev EXCEPT ![after] = new, ![new] = before]
  /\ next' = [next EXCEPT ![new] = after, ![before] = new]

list_add(new, head) ==
  /\ head \in Ready /\ ~Linked(new) /\ ~walk.on
  /\ list_add_between(new, head, next[head])
  /\ queue' = [queue EXCEPT ![head] = <<new>> \o @]
  /\ UNCHANGED <<walk, todo>>

list_add_tail(new, head) ==
  /\ head \in Ready /\ ~Linked(new) /\ ~walk.on
  /\ list_add_between(new, prev[head], head)
  /\ queue' = [queue EXCEPT ![head] = Append(@, new)]
  /\ UNCHANGED <<walk, todo>>

list_del_dangling(entry) ==
  /\ prev' = [prev EXCEPT ![next[entry]] = prev[entry]]
  /\ next' = [next EXCEPT ![prev[entry]] = next[entry]]

(* __list_del(entry->prev, entry->next), and the entry's pointers cleared. *)
list_del_unlink(entry) ==
  /\ prev' = [prev EXCEPT ![next[entry]] = prev[entry], ![entry] = NULL]
  /\ next' = [next EXCEPT ![prev[entry]] = next[entry], ![entry] = NULL]

Forget(entry) ==
  queue' = [h \in Ready |-> Without(entry, queue[h])]

list_del(entry) ==
  /\ Linked(entry) /\ ~walk.on
  /\ list_del_unlink(entry)
  /\ Forget(entry)
  /\ UNCHANGED <<walk, todo>>

list_empty(head) == next[head] = head
list_is_last_reversed(list, head) == prev[list] = head
list_is_last(list, head) == next[list] = head
list_first(head) == next[head]
---------------------------------------------------------------------------
list_for_each_safe_same(head) ==
  /\ head \in Ready /\ ~walk.on
  /\ walk' = [on |-> TRUE, head |-> head, pos |-> next[head], n |-> next[head]]
  /\ todo' = queue[head]
  /\ UNCHANGED <<next, prev, queue>>

(* for (pos = head->next, n = pos->next; pos != head; ...) *)
list_for_each_safe(head) ==
  /\ head \in Ready /\ ~walk.on
  /\ walk' = [on |-> TRUE, head |-> head, pos |-> next[head], n |-> next[next[head]]]
  /\ todo' = queue[head]
  /\ UNCHANGED <<next, prev, queue>>

(* pos = n, n = pos->next, evaluated after the body. *)
advance == [walk EXCEPT !.pos = walk.n, !.n = next'[walk.n]]

(* One round of the loop: the body keeps the entry or deletes it. *)
LoopKeep ==
  /\ walk.on /\ walk.pos # walk.head
  /\ UNCHANGED <<next, prev, queue>>
  /\ walk' = advance
  /\ todo' = Tail(todo)

LoopDelete ==
  /\ walk.on /\ walk.pos # walk.head
  /\ list_del_unlink(walk.pos)
  /\ Forget(walk.pos)
  /\ walk' = advance
  /\ todo' = Tail(todo)

LoopEnd ==
  /\ walk.on /\ walk.pos = walk.head
  /\ walk' = NoWalk
  /\ UNCHANGED <<next, prev, queue, todo>>

Next ==
  \/ \E h \in Heads : INIT_LIST_HEAD(h) \/ list_for_each_safe(h)
  \/ \E e \in Entries, h \in Heads : list_add(e, h) \/ list_add_tail(e, h)
  \/ \E e \in Entries : list_del(e)
  \/ LoopKeep \/ LoopDelete \/ LoopEnd

Spec == Init /\ [][Next]_vars
---------------------------------------------------------------------------
(* The ring of a list: the node at position k, counted from the head at 0  *)
(* and around.                                                             *)
At(h, k) == IF k \in 1 .. Len(queue[h]) THEN queue[h][k] ELSE h

(* The pointers are exactly the sequences a user of the lists has in mind: *)
(* forwards along next and backwards along prev, for lists of no entry     *)
(* too, where every assignment of __list_add and __list_del meets the same *)
(* node.                                                                   *)
RingsMatch ==
  \A h \in Ready : \A k \in 0 .. Len(queue[h]) :
    /\ next[At(h, k)] = At(h, k + 1)
    /\ prev[At(h, k + 1)] = At(h, k)

(* An entry is in one place of one list at most, and one that is in none   *)
(* leads nowhere: no stale pointer survives list_del.                      *)
NoStalePointer ==
  \A e \in Entries :
    /\ next[e] = NULL <=> ~Linked(e)
    /\ prev[e] = NULL <=> ~Linked(e)

(* The tests a client makes mean what their comments say. *)
TestsAgree ==
  \A h \in Ready :
    /\ list_empty(h) <=> queue[h] = <<>>
    /\ queue[h] # <<>> => list_first(h) = Head(queue[h])
    /\ \A e \in Entries :
         list_is_last(e, h) <=> In(e, h) /\ queue[h][Len(queue[h])] = e

(* The safe loop is at the next entry of those that were in the list when  *)
(* it began, has skipped none, and its look-ahead is still linked although *)
(* the body deletes entries.                                               *)
WalkOnTrack ==
  walk.on =>
    /\ walk.pos = IF todo = <<>> THEN walk.head ELSE Head(todo)
    /\ \A k \in 1 .. Len(todo) : In(todo[k], walk.head)
    /\ todo # <<>> => walk.n = IF Len(todo) = 1 THEN walk.head ELSE todo[2]
===========================================================================
