------------------------------ MODULE FreeList ------------------------------
(***************************************************************************)
(* What one bin promises: a list of nodes kept in order of size, to which  *)
(* nodes are added and from which they are removed.                        *)
(***************************************************************************)
EXTENDS Bin

CONSTANTS Nodes, Sizes

VARIABLES list, size

vars == <<list, size>>

Init == list = <<>> /\ size \in [Nodes -> Sizes]

Add(node, sz) ==
  /\ node \notin Range(list)
  /\ size' = [size EXCEPT ![node] = sz]
  /\ list' = Insert(list, node, size')

Del(node) == list' = Delete(list, node) /\ UNCHANGED size

Next == \E node \in Nodes : Del(node) \/ \E sz \in Sizes : Add(node, sz)

Spec == Init /\ [][Next]_vars
=============================================================================
