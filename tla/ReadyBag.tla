------------------------------ MODULE ReadyBag ------------------------------
(***************************************************************************)
(* What the ready queue promises, without cells: a bag of items and a head *)
(* that is always one of the items with the largest key.                   *)
(*   - an item offered while there is room is always taken;                *)
(*   - an item leaves only by being the head of a dequeue, or by a flush;  *)
(*   - the head gives way only to a strictly larger key or to a dequeue.   *)
(***************************************************************************)
EXTENDS Integers

CONSTANTS Capacity, ID, MaxKey

VARIABLES flush, enqueue, dequeue, enq_id, enq_key,   \* input wires
          ready,       \* how often each <<id, key>> is in the queue
          size,        \* how many items that makes
          head         \* {} or {the item at the head}

vars == <<flush, enqueue, dequeue, enq_id, enq_key, ready, size, head>>

Items      == ID \X (0 .. MaxKey)
Nothing    == [x \in Items |-> 0]
Present(b) == {x \in Items : b[x] > 0}
Maximal(b) == {x \in Present(b) : \A y \in Present(b) : y[2] <= x[2]}

(* Room is judged before the dequeue of the same edge. *)
Accepts == enqueue /\ size < Capacity

Holds(b, n) ==
    /\ ready' = b /\ size' = n
    /\ IF n = 0 THEN head' = {} ELSE \E x \in Maximal(b) : head' = {x}

Take(b, n) ==
    IF Accepts THEN Holds([b EXCEPT ![<<enq_id, enq_key>>] = @ + 1], n + 1)
               ELSE Holds(b, n)

Flush == flush /\ Holds(Nothing, 0)

Serve ==
    /\ ~flush /\ dequeue
    /\ \E x \in head : Take([ready EXCEPT ![x] = @ - 1], size - 1)

Stay ==
    /\ ~flush /\ ~(dequeue /\ head # {})
    /\ Take(ready, size)
    /\ \A x \in head, y \in head' : y # x => Accepts /\ enq_key > x[2]

DriveInputs ==
    /\ flush' \in BOOLEAN /\ enqueue' \in BOOLEAN /\ dequeue' \in BOOLEAN
    /\ enq_id' \in ID /\ enq_key' \in 0 .. MaxKey

Init == ready = Nothing /\ size = 0 /\ head = {}
Next == (Flush \/ Serve \/ Stay) /\ DriveInputs
Spec == Init /\ [][Next]_vars
=============================================================================
