---------------------------- MODULE LinkedList ----------------------------
(***************************************************************************)
(* The doubly linked lists of include/list.h.  h is the storage the links  *)
(* are in: h.next[n] and h.prev[n] are the links of node n, a list head    *)
(* being a node like any other.                                            *)
(***************************************************************************)
EXTENDS Integers

CONSTANTS NULL, Poison      \* the null pointer, and LIST_POISON1 and LIST_POISON2

\* INIT_LIST_HEAD.
InitListHead(h, n) == [h EXCEPT !.next[n] = n, !.prev[n] = n]

\* list_add_tail, which is __list_add between head->prev and head.
ListAddTail(h, new, head) ==
    LET last == h.prev[head]
        h1 == [h EXCEPT !.prev[head] = new]
        h2 == [h1 EXCEPT !.next[new] = head, !.prev[new] = last]
    IN  [h2 EXCEPT !.next[last] = new]

\* list_del.
ListDel(h, n) ==
    LET h1 == [h EXCEPT !.prev[h.next[n]] = h.prev[n]]
        h2 == [h1 EXCEPT !.next[h.prev[n]] = h.next[n]]
    IN  [h2 EXCEPT !.next[n] = Poison, !.prev[n] = Poison]

\* The first k nodes of a walk along next from head; a walk does not get past a
\* poisoned link.
Walk(h, head, k) ==
    LET walk[i \in 0..k] ==
          IF i = 0 THEN head
          ELSE IF walk[i - 1] = Poison THEN Poison ELSE h.next[walk[i - 1]]
    IN  walk

\* Is q what a list_for_each_entry from head visits?
Visits(h, head, q, n) ==
    LET walk == Walk(h, head, n + 1)
    IN  /\ walk[n + 1] = head
        /\ \A i \in 1..n : walk[i] = q[i]

\* Does the list consist of the members of q, in this order and both ways?
IsList(h, head, q, n) ==
    /\ Visits(h, head, q, n)
    /\ h.prev[head] = IF n = 0 THEN head ELSE q[n]
    /\ \A i \in 1..n : h.prev[q[i]] = IF i = 1 THEN head ELSE q[i - 1]
=============================================================================
