--------------------------------- MODULE Bin ---------------------------------
(***************************************************************************)
(* The free list of one bin as a sequence of nodes, smallest first: what   *)
(* the functions of shmall/llist.c do to it.  size gives each node's size. *)
(***************************************************************************)
EXTENDS Integers, Sequences, FiniteSetsExt

\* add_node: in front of the first larger node.
Insert(list, node, size) ==
  LET larger == {i \in DOMAIN list : size[list[i]] > size[node]}
      i      == IF larger = {} THEN Len(list) + 1 ELSE Min(larger)
  IN SubSeq(list, 1, i - 1) \o <<node>> \o SubSeq(list, i, Len(list))

\* remove_node: a node that is not there is ignored.
Delete(list, node) ==
  LET there == {i \in DOMAIN list : list[i] = node}
      i     == Min(there)
  IN IF there = {} THEN list ELSE SubSeq(list, 1, i - 1) \o SubSeq(list, i + 1, Len(list))

\* get_best_fit: the first node that is large enough, if any.
Fits(list, want, size) == \E i \in DOMAIN list : size[list[i]] >= want
BestFit(list, want, size) == list[Min({i \in DOMAIN list : size[list[i]] >= want})]

Sorted(list, size) ==
  \A i, j \in DOMAIN list : i < j => size[list[i]] <= size[list[j]]
=============================================================================
