-------------------------------- MODULE Llist --------------------------------
(***************************************************************************)
(* The doubly linked list of shmall/llist.c at the level of its pointers.  *)
(* The links of a node live in the node's own memory: once it is off the   *)
(* list that memory is the caller's, who writes to it.                     *)
(***************************************************************************)
EXTENDS Bin, FiniteSets

CONSTANTS Nodes, Sizes, NULL

ASSUME LlistAssumption ==
  IsFiniteSet(Nodes) /\ NULL \notin Nodes /\ Sizes \subseteq Nat

VARIABLES head, next, prev, size

vars == <<head, next, prev, size>>

\* The node that k steps along next reach from the head.
Step[k \in Nat] ==
  IF k = 0 THEN head
  ELSE IF Step[k - 1] = NULL THEN NULL ELSE next[Step[k - 1]]

\* The nodes a loop along next visits, cut off after one more than there are.
Walk ==
  LET visited == {k \in 0 .. Cardinality(Nodes) : Step[k] # NULL}
  IN [i \in 1 .. Cardinality(visited) |-> Step[i - 1]]

Init ==
  /\ head = NULL
  /\ next = [n \in Nodes |-> NULL]
  /\ prev = [n \in Nodes |-> NULL]
  /\ size \in [Nodes -> Sizes]

\* The four cases of add_node: the empty list, the end, the middle and the front.
link(node, current, previous) ==
  \/ /\ head = NULL
     /\ head' = node
     /\ next' = [next EXCEPT ![node] = NULL]
     /\ prev' = [prev EXCEPT ![node] = NULL]
  \/ /\ head # NULL /\ current = NULL
     /\ next' = [next EXCEPT ![node] = NULL, ![previous] = node]
     /\ prev' = [prev EXCEPT ![node] = previous]
     /\ UNCHANGED head
  \/ /\ current # NULL /\ previous # NULL
     /\ next' = [next EXCEPT ![node] = current, ![previous] = node]
     /\ prev' = [prev EXCEPT ![node] = previous, ![current] = node]
     /\ UNCHANGED head
  \/ /\ current # NULL /\ previous = NULL
     /\ next' = [next EXCEPT ![node] = head]
     /\ prev' = [prev EXCEPT ![node] = NULL, ![head] = node]
     /\ head' = node

\* The callers add nodes that are on no list.  The loop stops at the first
\* larger node.
add_node(node, sz) ==
  LET larger == {i \in DOMAIN Walk : size[Walk[i]] > sz}
      i      == IF larger = {} THEN Len(Walk) + 1 ELSE Min(larger)
  IN /\ node \notin Range(Walk)
     /\ size' = [size EXCEPT ![node] = sz]
     /\ link(node, IF larger = {} THEN NULL ELSE Walk[i], IF i = 1 THEN NULL ELSE Walk[i - 1])

\* Mutant: a node in the middle is unlinked in one direction only.
remove_node_OneWay(node) ==
  /\ IF head = node
     THEN head' = next[head] /\ UNCHANGED next
     ELSE /\ next' = IF node \in Range(Walk) THEN [next EXCEPT ![prev[node]] = next[node]]
                     ELSE next
          /\ UNCHANGED head
  /\ UNCHANGED <<prev, size>>

\* Removing the head leaves the new head's prev as it is, and removing a node
\* leaves the node's own links.
remove_node(node) ==
  /\ \/ /\ head = node
        /\ head' = next[head]
        /\ UNCHANGED <<next, prev>>
     \/ /\ head # node /\ node \in Range(Walk)
        /\ next' = [next EXCEPT ![prev[node]] = next[node]]
        /\ prev' = IF next[node] = NULL THEN prev
                   ELSE [prev EXCEPT ![next[node]] = prev[node]]
        /\ UNCHANGED head
     \/ node \notin Range(Walk) /\ UNCHANGED <<head, next, prev>>
  /\ UNCHANGED size

\* The owner of a block uses it.
UserData(node, data) ==
  /\ node \notin Range(Walk)
  /\ next' = [next EXCEPT ![node] = data]
  /\ prev' = [prev EXCEPT ![node] = data]
  /\ UNCHANGED <<head, size>>

\* Mutant: the first node is returned unseen.
get_best_fit_First(want) == head

get_best_fit(want) ==
  IF Fits(Walk, want, size) THEN BestFit(Walk, want, size) ELSE NULL

Next ==
  \E node \in Nodes :
    \/ \E sz \in Sizes : add_node(node, sz)
    \/ remove_node(node)
    \/ \E data \in Nodes \cup {NULL} : UserData(node, data)

Spec == Init /\ [][Next]_vars
-----------------------------------------------------------------------------
\* get_best_fit returns a smallest node among those that are large enough, and
\* NULL only if there is none, although it takes the first it meets.
BestFitIsBest ==
  \A want \in Sizes :
    LET able == {n \in Range(Walk) : size[n] >= want}
        fit  == get_best_fit(want)
    IN IF able = {} THEN fit = NULL
       ELSE fit \in able /\ \A n \in able : size[fit] <= size[n]

List == INSTANCE FreeList WITH list <- Walk

\* The pointers implement the list, whatever callers write into the nodes they
\* own.
ListSpec == List!Spec
=============================================================================
