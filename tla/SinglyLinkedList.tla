-------------------------- MODULE SinglyLinkedList --------------------------
(***************************************************************************)
(* The singly linked list of Common/helpers/sopc_singly_linked_list.c, as  *)
(* a sequence of elements that have an id.  The insertion and the removal  *)
(* are written position by position: that is the form the proofs use.      *)
(***************************************************************************)
EXTENDS Integers, Sequences

\* The link of a new element at a position: the elements from there on follow.
LinkAt(list, pos, elt) ==
    [i \in 1 .. Len(list) + 1 |-> IF i < pos THEN list[i]
                                  ELSE IF i = pos THEN elt ELSE list[i - 1]]

\* The removal of the element at a position: the next ones move up.
UnlinkAt(list, pos) ==
    [i \in 1 .. Len(list) - 1 |-> IF i < pos THEN list[i] ELSE list[i + 1]]

First(positions) == CHOOSE p \in positions : \A q \in positions : p <= q

\* Positions of the elements with this id.
WithId(list, id) == {p \in DOMAIN list : list[p].id = id}

\* Removes the first element with this id; NULL is returned, and the list is
\* unchanged, when there is none.
SOPC_SLinkedList_RemoveFromId(list, id) ==
    IF WithId(list, id) = {} THEN list ELSE UnlinkAt(list, First(WithId(list, id)))

\* Identifiers of the elements of the list.
Ids(list) == {list[i].id : i \in DOMAIN list}
=============================================================================
