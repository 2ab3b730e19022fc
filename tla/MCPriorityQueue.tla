-------------------------- MODULE MCPriorityQueue --------------------------
(* Model checking of PriorityQueue against ReadyBag on a short chain. *)
EXTENDS PriorityQueue, FiniteSets

ItemOf(e) == [valid |-> TRUE, id |-> e[1], key |-> e[2]]
Contents  == [e \in ID \X Keys |-> Cardinality({i \in Cells : cell[i] = ItemOf(e)})]
Occupied  == Cardinality({i \in Cells : cell[i].valid})
Front     == IF head_valid THEN {<<head_id, head_key>>} ELSE {}

Bag == INSTANCE ReadyBag WITH
         Capacity <- DEPTH, ready <- Contents, size <- Occupied, head <- Front

(* The rippling chain implements the bag with a largest-key head: no item  *)
(* is lost, duplicated or given another key on its way through the cells,  *)
(* and the head is always right in the cycle after the edge.               *)
ServesLargestKey == Bag!Spec
=============================================================================
