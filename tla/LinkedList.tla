---------------------------- MODULE LinkedList ------------------------------
(***************************************************************************)
(* The doubly linked lists of the application (manager_list.c) as the      *)
(* sequence of the data their nodes point to, head first.                  *)
(***************************************************************************)
EXTENDS Integers, Sequences

\* The list without its node at position i.
Unlink(list, i) == SubSeq(list, 1, i - 1) \o SubSeq(list, i + 1, Len(list))

insert_tail_manager_list(list, p) == Append(list, p)
insert_head_manager_list(list, p) == <<p>> \o list

\* The position of the first node whose data is in S, if there is one.
query_head_list(list, S) ==
    {i \in DOMAIN list : list[i] \in S /\ \A j \in 1 .. i - 1 : list[j] \notin S}

\* Variants: the node stays linked; it is linked twice; it is not linked again.
remove_manager_node_kept(list, i) == list
remove_head_manager_node_twice(list, i) == <<list[i]>> \o list
remove_head_manager_node_dropped(list, i) == Unlink(list, i)

remove_manager_node(list, i) == Unlink(list, i)
remove_head_manager_node(list, i) == <<list[i]>> \o Unlink(list, i)

=============================================================================
