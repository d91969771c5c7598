------------------------------ MODULE ClientList -------------------------------
(***************************************************************************)
(* The doubly linked list of client tuples (client_list.c), as the         *)
(* sequence of its nodes from the head.  The server and every client keep  *)
(* one.  Nothing in the list itself rules out two nodes with the same      *)
(* tuple.                                                                  *)
(***************************************************************************)
EXTENDS Integers, Sequences

\* Mutant: the walk stops at the last node without looking at it.
InListButLast(list, ct) == \E i \in 1 .. Len(list) - 1 : list[i] = ct

in_client_list(list, ct) == \E i \in 1 .. Len(list) : list[i] = ct

client_list_add(list, ct) == Append(list, ct)

\* The walk from the head frees the first node that holds the tuple.
FirstNode(list, ct) ==
    CHOOSE i \in 1 .. Len(list) :
        list[i] = ct /\ \A j \in 1 .. i - 1 : list[j] # ct

delete_from_client_list(list, ct) ==
    IF in_client_list(list, ct)
    THEN LET n == FirstNode(list, ct)
         IN  [i \in 1 .. Len(list) - 1 |-> IF i < n THEN list[i] ELSE list[i + 1]]
    ELSE list
================================================================================
