------------------------ MODULE PriorityQueue_proofs ------------------------
(***************************************************************************)
(* Proofs about PriorityQueue for every length of the chain, identifier    *)
(* set and key width.  The ripple is a recursion along the cells.  What it *)
(* computes is proved with sets of cells: the least cell of which a claim  *)
(* fails would contradict the equation of the cell before it.              *)
(***************************************************************************)
EXTENDS MCPriorityQueue, Counting

-----------------------------------------------------------------------------
Newcomer == [valid |-> enq_valid, id |-> enq_id, key |-> enq_key]

(* What cell i passes to its right neighbour. *)
Passed(i, x) == IF Beats(x, Resident(i)) THEN Resident(i) ELSE x

(* There are wires with the values the cells' equations ask for. *)
LEMMA WiresExist ==
    \E g : g = [i \in Cells |-> IF i = 0 THEN Newcomer ELSE Passed(i - 1, g[i - 1])]
<1> DEFINE Wired(n, g) ==
             g = [i \in 0 .. n |-> IF i = 0 THEN Newcomer ELSE Passed(i - 1, g[i - 1])]
           T == {n \in Nat : \E g : Wired(n, g)}
<1>1. 0 \in T
  <2>1. Wired(0, [i \in 0 .. 0 |-> Newcomer])
    OBVIOUS
  <2> QED  BY <2>1
<1>2. ASSUME NEW n \in 0 .. DEPTH - 2, n \in T
      PROVE  n + 1 \in T
  <2>1. PICK g : Wired(n, g)
    BY <1>2
  <2> DEFINE h == [i \in 0 .. n + 1 |-> IF i = n + 1 THEN Passed(n, g[n]) ELSE g[i]]
  <2>2. ASSUME NEW i \in 0 .. n + 1
        PROVE  h[i] = IF i = 0 THEN Newcomer ELSE Passed(i - 1, h[i - 1])
    <3>1. CASE i = n + 1
      BY <1>2, <3>1
    <3>2. CASE i # n + 1
      <4>1. h[i] = g[i] /\ i \in 0 .. n
        BY <3>2
      <4>2. g[i] = IF i = 0 THEN Newcomer ELSE Passed(i - 1, g[i - 1])
        BY <2>1, <4>1
      <4>3. i # 0 => h[i - 1] = g[i - 1]
        BY <4>1
      <4> QED  BY <4>1, <4>2, <4>3
    <3> QED  BY <3>1, <3>2
  <2>3. Wired(n + 1, h)
    <3> HIDE DEF h
    <3>1. h = [i \in 0 .. n + 1 |-> h[i]]
      BY DEF h
    <3> QED  BY <2>2, <3>1
  <2>4. n + 1 \in Nat /\ \E k : Wired(n + 1, k)
    <3> HIDE DEF Wired
    <3> QED  BY <2>3
  <2> QED  BY <2>4
<1>3. DEPTH - 1 \in T
  <2> HIDE DEF T
  <2>1. DEPTH - 1 \in Nat /\ (DEPTH - 1) - 1 = DEPTH - 2
    BY DepthAssumption
  <2>2. 0 .. DEPTH - 1 \subseteq T
    BY <1>1, <1>2, <2>1, UpTo
  <2> QED  BY <2>1, <2>2
<1> QED  BY <1>3 DEF Cells

(* The equations of the wires. *)
LEMMA WireEquations ==
    /\ in[0] = Newcomer
    /\ \A i \in Cells : i + 1 \in Cells => in[i + 1] = Passed(i, in[i])
<1>1. in = [i \in Cells |-> IF i = 0 THEN Newcomer ELSE Passed(i - 1, in[i - 1])]
  BY WiresExist DEF in, Newcomer, Passed
<1>2. 0 \in Cells
  BY DepthAssumption DEF Cells
<1>3. ASSUME NEW i \in Cells, i + 1 \in Cells
      PROVE  in[i + 1] = Passed(i, in[i])
  <2>1. i + 1 # 0 /\ (i + 1) - 1 = i
    BY DepthAssumption DEF Cells
  <2> QED  BY <1>1, <1>3, <2>1
<1> QED  BY <1>1, <1>2, <1>3
-----------------------------------------------------------------------------
(* The inductive invariant. *)
IInv == TypeOK /\ QueueInvariant

(* How many cells are occupied once the dequeue of this edge has shifted.  *)
Staying == IF deq_valid THEN depth_r - 1 ELSE depth_r

(* What the cells hold before an insertion: typed, packed and descending.  *)
LEMMA ResidentShape ==
    ASSUME IInv
    PROVE  /\ Staying \in 0 .. DEPTH
           /\ \A i \in Cells : Resident(i) \in Item
           /\ \A i \in Cells : Resident(i).valid <=> i < Staying
           /\ \A i, j \in Cells : i < j /\ j < Staying
                                  => Resident(i).key >= Resident(j).key
<1> USE DepthAssumption, IdAssumption, KeyAssumption DEF IInv, TypeOK, Cells
<1>1. Staying \in 0 .. DEPTH
  BY DEF Staying, deq_valid
<1>2. \A i \in Cells : cell[i] \in Item
  OBVIOUS
<1>3. NoItem \in Item
  BY DEF NoItem, Item, Keys
<1>4. \A i \in Cells : right(i) \in Item
  BY <1>2, <1>3 DEF right
<1>5. \A i \in Cells : Resident(i) \in Item
  BY <1>2, <1>4 DEF Resident
<1>6. ASSUME NEW i \in Cells
      PROVE  Resident(i).valid <=> i < Staying
  BY <1>2 DEF Resident, Staying, right, NoItem, deq_valid, QueueInvariant
<1>7. ASSUME NEW i \in Cells, NEW j \in Cells, i < j, j < Staying
      PROVE  Resident(i).key >= Resident(j).key
  <2>1. CASE ~deq_valid
    BY <1>7, <2>1 DEF Resident, Staying, QueueInvariant
  <2>2. CASE deq_valid
    <3>1. i + 1 \in Cells /\ j + 1 \in Cells /\ i + 1 < j + 1 /\ j + 1 < depth_r
      BY <1>7, <2>2 DEF Staying
    <3>2. Resident(i) = cell[i + 1] /\ Resident(j) = cell[j + 1]
      BY <1>7, <2>2, <3>1 DEF Resident, right
    <3> QED  BY <3>1, <3>2 DEF QueueInvariant
  <2> QED  BY <2>1, <2>2
<1> QED  BY <1>1, <1>5, <1>6, <1>7

(* The wires carry items, valid ones up to the first free cell. *)
LEMMA WireShape ==
    ASSUME IInv, enq_valid
    PROVE  \A i \in Cells : in[i] \in Item /\ (in[i].valid <=> i <= Staying)
<1> DEFINE T == {i \in Cells : in[i] \in Item /\ (in[i].valid <=> i <= Staying)}
<1>1. Staying \in 0 .. DEPTH
  BY ResidentShape
<1>2. 0 \in T
  <2>1. Newcomer \in Item /\ Newcomer.valid
    BY DEF Newcomer, Item, IInv, TypeOK
  <2>2. in[0] = Newcomer /\ 0 \in Cells
    BY WireEquations, DepthAssumption DEF Cells
  <2> QED  BY <1>1, <2>1, <2>2
<1>3. ASSUME NEW i \in 0 .. (DEPTH - 1) - 1, i \in T
      PROVE  i + 1 \in T
  <2>1. i \in Cells /\ i + 1 \in Cells
    BY <1>3, DepthAssumption DEF Cells
  <2>2. in[i + 1] = Passed(i, in[i])
    BY <2>1, WireEquations
  <2>3. in[i] \in Item /\ Resident(i) \in Item
    BY <1>3, <2>1, ResidentShape
  <2>4. (in[i].valid <=> i <= Staying) /\ (Resident(i).valid <=> i < Staying)
    BY <1>3, <2>1, ResidentShape
  <2>5. in[i + 1].valid <=> i + 1 <= Staying
    BY <1>1, <2>1, <2>2, <2>3, <2>4 DEF Passed, Beats, Item, Cells
  <2> QED  BY <2>1, <2>2, <2>3, <2>5 DEF Passed
<1>4. 0 .. DEPTH - 1 \subseteq T
  <2> HIDE DEF T
  <2>1. DEPTH - 1 \in Nat
    BY DepthAssumption
  <2> QED  BY <1>2, <1>3, <2>1, UpTo
<1> QED  BY <1>4 DEF Cells

(* After an insertion: typed, packed and descending for one item more. *)
LEMMA InsertedShape ==
    ASSUME IInv, enq_valid
    PROVE  /\ Inserted \in [Cells -> Item]
           /\ \A i \in Cells : Inserted[i].valid <=> i < Staying + 1
           /\ \A i, j \in Cells : i < j /\ j < Staying + 1
                                  => Inserted[i].key >= Inserted[j].key
<1>1. Staying \in 0 .. DEPTH
  BY ResidentShape
<1>2. ASSUME NEW i \in Cells
      PROVE  /\ Inserted[i] = IF Beats(in[i], Resident(i)) THEN in[i] ELSE Resident(i)
             /\ in[i] \in Item /\ Resident(i) \in Item
             /\ in[i].valid <=> i <= Staying
             /\ Resident(i).valid <=> i < Staying
  BY WireShape, ResidentShape DEF Inserted
<1>3. Inserted \in [Cells -> Item]
  BY <1>2 DEF Inserted
<1>4. ASSUME NEW i \in Cells
      PROVE  Inserted[i].valid <=> i < Staying + 1
  BY <1>1, <1>2, DepthAssumption DEF Beats, Item, Cells
<1>5. ASSUME NEW i \in Cells, i + 1 \in Cells, i + 1 < Staying + 1
      PROVE  Inserted[i].key >= Inserted[i + 1].key
  <2>1. in[i + 1] = Passed(i, in[i])
    BY <1>5, WireEquations
  <2>2. in[i].valid /\ Resident(i).valid
    BY <1>1, <1>2, <1>5 DEF Cells
  <2>3. \A x \in Item : x.key \in Int
    BY KeyAssumption DEF Item, Keys
  <2>4. Inserted[i].key >= in[i + 1].key
    BY <1>2, <2>1, <2>2, <2>3 DEF Passed, Beats
  <2>5. CASE Resident(i + 1).valid
    <3>1. Resident(i).key >= Resident(i + 1).key
      BY <1>2, <1>5, <2>5, ResidentShape DEF Cells
    <3>2. Inserted[i].key >= Resident(i).key
      BY <1>2, <2>2, <2>3 DEF Beats
    <3>3. Inserted[i + 1] \in {in[i + 1], Resident(i + 1)}
      BY <1>2, <1>5
    <3>4. Inserted[i].key \in Int /\ Resident(i).key \in Int /\ Resident(i + 1).key \in Int
      BY <1>2, <1>3, <1>5, <2>3
    <3> QED  BY <2>4, <3>1, <3>2, <3>3, <3>4
  <2>6. CASE ~Resident(i + 1).valid
    <3>1. in[i + 1].valid
      BY <1>2, <1>5, <1>1 DEF Cells
    <3>2. Inserted[i + 1] = in[i + 1]
      BY <1>2, <1>5, <2>6, <3>1 DEF Beats
    <3> QED  BY <2>4, <3>2
  <2> QED  BY <2>5, <2>6
<1>6. ASSUME NEW i \in Cells, NEW j \in Cells, i < j, j < Staying + 1
      PROVE  Inserted[i].key >= Inserted[j].key
  <2> DEFINE T == {d \in Nat : i + d \in Cells /\ i + d <= Staying
                               => Inserted[i].key >= Inserted[i + d].key}
  <2>0. \A k \in Cells : Inserted[k].key \in Int /\ k \in Int
    BY <1>3, KeyAssumption DEF Item, Keys, Cells
  <2>1. 0 \in T
    BY <2>0
  <2>2. ASSUME NEW d \in 0 .. (j - i) - 1, d \in T
        PROVE  d + 1 \in T
    <3>1. SUFFICES ASSUME i + (d + 1) \in Cells, i + (d + 1) <= Staying
                   PROVE  Inserted[i].key >= Inserted[i + (d + 1)].key
      BY <2>2
    <3>2. i + d \in Cells /\ i + d <= Staying /\ i + (d + 1) = (i + d) + 1
      BY <1>1, <2>0, <3>1, DepthAssumption DEF Cells
    <3>3. Inserted[i + d].key >= Inserted[(i + d) + 1].key
      BY <1>1, <1>5, <3>1, <3>2, <2>0
    <3>4. Inserted[i].key >= Inserted[i + d].key
      BY <2>2, <3>2
    <3> QED  BY <2>0, <3>1, <3>2, <3>3, <3>4
  <2>3. j - i \in Nat
    BY <1>6, <2>0
  <2>4. 0 .. j - i \subseteq T
    <3> HIDE DEF T
    <3> QED  BY <2>1, <2>2, <2>3, UpTo
  <2>5. j - i \in T /\ i + (j - i) = j
    BY <2>0, <2>3, <2>4
  <2> QED  BY <1>1, <1>6, <2>0, <2>5
<1> QED  BY <1>3, <1>4, <1>6

(* Where the newcomer stops: the first cell whose resident it beats. *)
LEMMA StoppingCell ==
    ASSUME IInv, enq_valid
    PROVE  \E p \in Cells : /\ p <= Staying
                            /\ \A i \in 0 .. p : in[i] = Newcomer
                            /\ \A i \in 0 .. p - 1 : ~Beats(Newcomer, Resident(i))
                            /\ Beats(Newcomer, Resident(p))
<1> DEFINE B == {i \in Cells : Beats(Newcomer, Resident(i))}
<1>1. Staying \in Cells
  BY DepthAssumption DEF Staying, enq_valid, deq_valid, IInv, TypeOK, Cells
<1>2. Staying \in B
  <2>1. ~Resident(Staying).valid
    BY <1>1, ResidentShape DEF Cells
  <2> QED  BY <1>1, <2>1 DEF Beats, Newcomer
<1>3. B \subseteq Nat /\ Cells = 0 .. DEPTH - 1
  BY DepthAssumption DEF Cells
<1>4. PICK p \in B : \A m \in B : p <= m
  <2> HIDE DEF B
  <2> QED  BY <1>2, <1>3, LeastElement
<1>5. \A i \in 0 .. p - 1 : i \in Cells /\ ~Beats(Newcomer, Resident(i))
  BY <1>3, <1>4, DepthAssumption
<1>6. 0 .. p \subseteq {i \in Nat : in[i] = Newcomer}
  <2> DEFINE T == {i \in Nat : in[i] = Newcomer}
  <2>1. 0 \in T
    BY WireEquations
  <2>2. ASSUME NEW i \in 0 .. p - 1, i \in T
        PROVE  i + 1 \in T
    <3>1. i \in Cells /\ i + 1 \in Cells
      BY <1>3, <1>4, DepthAssumption
    <3>2. in[i + 1] = Passed(i, in[i])
      BY <3>1, WireEquations
    <3> QED  BY <1>5, <2>2, <3>2 DEF Passed
  <2>3. p \in Nat
    BY <1>3, <1>4
  <2> HIDE DEF T
  <2>4. 0 .. p \subseteq T
    BY <2>1, <2>2, <2>3, UpTo
  <2> QED  BY <2>4 DEF T
<1> QED  BY <1>1, <1>2, <1>4, <1>5, <1>6

(* Behind the stopping cell every wire carries the key of the resident to  *)
(* its left: what is displaced beats the next resident or equals it.       *)
LEMMA DisplacedKeys ==
    ASSUME IInv, enq_valid,
           NEW p \in Cells, in[p] = Newcomer, Beats(Newcomer, Resident(p)),
           NEW i \in p + 1 .. DEPTH - 1
    PROVE  in[i].valid => /\ Resident(i - 1).valid
                          /\ in[i].key = Resident(i - 1).key
<1> DEFINE Claim(k) == in[k].valid => /\ Resident(k - 1).valid
                                      /\ in[k].key = Resident(k - 1).key
           T == {d \in Nat : p + (d + 1) \in Cells => Claim(p + (d + 1))}
<1>0. p \in Nat /\ \A k \in Cells : k \in Int
  BY DepthAssumption DEF Cells
<1>1. 0 \in T
  <2>1. ASSUME p + 1 \in Cells
        PROVE  in[p + 1] = Resident(p)
    BY <2>1, WireEquations DEF Passed
  <2> QED  BY <1>0, <2>1
<1>2. ASSUME NEW d \in 0 .. (i - p - 1) - 1, d \in T
      PROVE  d + 1 \in T
  <2> DEFINE k == p + (d + 1)
  <2>1. k - 1 \in Cells /\ k \in Cells /\ k + 1 \in Cells /\ (k + 1) - 1 = k
    BY <1>0, DepthAssumption DEF Cells
  <2>2. Claim(k)
    BY <1>2, <2>1
  <2>3. in[k + 1] = Passed(k, in[k])
    BY <2>1, WireEquations
  <2>4. /\ in[k] \in Item /\ Resident(k) \in Item /\ Resident(k - 1) \in Item
        /\ Resident(k - 1).valid <=> k - 1 < Staying
        /\ Resident(k).valid <=> k < Staying
        /\ k < Staying => Resident(k - 1).key >= Resident(k).key
    <3> HIDE DEF k
    <3>1. k - 1 < k
      BY <1>0, <2>1
    <3> QED  BY <2>1, <3>1, WireShape, ResidentShape
  <2>5. Claim(k + 1)
    <3> HIDE DEF k
    <3>1. \A x \in Item : x.key \in Int
      BY KeyAssumption DEF Item, Keys
    <3> QED  BY <2>1, <2>2, <2>3, <2>4, <3>1 DEF Passed, Beats
  <2>6. p + ((d + 1) + 1) = k + 1
    BY <1>0
  <2> QED  BY <2>5, <2>6
<1>3. i - p - 1 \in Nat /\ i \in Cells /\ p + ((i - p - 1) + 1) = i
  BY <1>0, DepthAssumption DEF Cells
<1>4. 0 .. i - p - 1 \subseteq T
  <2> HIDE DEF T
  <2> QED  BY <1>1, <1>2, <1>3, UpTo
<1> QED  BY <1>3, <1>4

(* Every step keeps the inductive invariant, one case per action. *)
LEMMA StepKeepsInvariant ==
    ASSUME IInv, [Next]_vars
    PROVE  IInv'
<1> DEFINE InputsOK == /\ flush \in BOOLEAN /\ enqueue \in BOOLEAN /\ dequeue \in BOOLEAN
                       /\ enq_id \in ID /\ enq_key \in Keys
<1> SUFFICES ASSUME InputsOK'
             PROVE  /\ cell' \in [Cells -> Item] /\ depth_r' \in 0 .. DEPTH
                    /\ QueueInvariant'
  <2>1. InputsOK'
    BY DEF Next, DriveInputs, IInv, TypeOK, vars, inputs, Keys
  <2> QED  BY <2>1 DEF IInv, TypeOK, Keys, Cells
<1>1. CASE FlushAll
  <2>1. NoItem \in Item
    BY IdAssumption, KeyAssumption DEF NoItem, Item, Keys
  <2> QED  BY <1>1, <2>1, DepthAssumption DEF FlushAll, QueueInvariant, NoItem, Cells
<1>2. CASE UNCHANGED <<cell, depth_r>>
  BY <1>2 DEF IInv, TypeOK, QueueInvariant
<1>3. CASE Enqueue
  <2>1. Staying = depth_r /\ depth_r' = Staying + 1 /\ cell' = Inserted
    BY <1>3 DEF Enqueue, Staying
  <2>2. depth_r' \in 0 .. DEPTH
    BY <1>3, DepthAssumption DEF Enqueue, enq_valid, IInv, TypeOK
  <2> QED  BY <1>3, <2>1, <2>2, InsertedShape DEF Enqueue, QueueInvariant
<1>4. CASE Dequeue
  <2>1. deq_valid /\ depth_r' = Staying /\ \A i \in Cells : cell'[i] = Resident(i)
    BY <1>4 DEF Dequeue, Staying, Resident
  <2>2. cell' = [i \in Cells |-> Resident(i)]
    BY <1>4 DEF Dequeue, Resident
  <2> QED  BY <2>1, <2>2, ResidentShape DEF QueueInvariant
<1>5. CASE DequeueAndEnqueue
  <2>1. depth_r' = Staying + 1 /\ cell' = Inserted /\ depth_r' \in 0 .. DEPTH
    BY <1>5, DepthAssumption DEF DequeueAndEnqueue, Staying, IInv, TypeOK
  <2> QED  BY <1>5, <2>1, InsertedShape DEF DequeueAndEnqueue, QueueInvariant
<1> QED  BY <1>1, <1>2, <1>3, <1>4, <1>5 DEF Next, Hold, vars

LEMMA InitEstablishesInvariant ==
    ASSUME Init
    PROVE  IInv
<1>1. NoItem \in Item
  BY IdAssumption, KeyAssumption DEF NoItem, Item, Keys
<1> QED  BY <1>1, DepthAssumption DEF Init, IInv, TypeOK, QueueInvariant, NoItem, Cells

THEOREM Invariance == Spec => []IInv
BY InitEstablishesInvariant, StepKeepsInvariant, PTL DEF Spec

(* Neither overflow nor underflow, for every length of the chain: the      *)
(* counter stays within it and every cell holds an item.                   *)
THEOREM TypeCorrect == Spec => []TypeOK
BY Invariance, PTL DEF IInv

(* However many cells decide for themselves on one edge, they leave no     *)
(* hole, no stale item and no key out of order.                            *)
THEOREM QueueSorted == Spec => []QueueInvariant
BY Invariance, PTL DEF IInv

(* An accepted item goes behind its equals and the keys behind it move one *)
(* cell to the right, with or without a dequeue on the same edge.          *)
THEOREM PlacedBehindEquals == Spec => InsertsBehindEquals
<1>1. ASSUME IInv, [Next]_vars
      PROVE  [~flush /\ enq_valid => \E p \in Cells : InsertedAt(p)]_vars
  <2> SUFFICES ASSUME Next, ~flush, enq_valid
               PROVE  \E p \in Cells : InsertedAt(p)
    BY <1>1
  <2>1. cell' = Inserted
    BY DEF Next, FlushAll, Hold, Enqueue, Dequeue, DequeueAndEnqueue
  <2>2. PICK p \in Cells : /\ p <= Staying
                           /\ \A i \in 0 .. p : in[i] = Newcomer
                           /\ \A i \in 0 .. p - 1 : ~Beats(Newcomer, Resident(i))
                           /\ Beats(Newcomer, Resident(p))
    BY <1>1, StoppingCell
  <2>3. p \in Nat /\ \A i \in Cells : i \in Int
    BY DepthAssumption DEF Cells
  <2>4. \A x \in Item : x.key \in Int
    BY KeyAssumption DEF Item, Keys
  <2>5. cell'[p] = [valid |-> TRUE, id |-> enq_id, key |-> enq_key]
    <3>1. in[p] = Newcomer
      BY <2>2, <2>3
    <3> QED  BY <2>1, <2>2, <3>1 DEF Inserted, Newcomer
  <2>6. ASSUME NEW i \in 0 .. p - 1
        PROVE  cell'[i] = Resident(i) /\ cell'[i].key >= enq_key
    <3>1. i \in Cells /\ i < Staying /\ in[i] = Newcomer
      BY <1>1, <2>2, <2>3, ResidentShape, DepthAssumption DEF Cells
    <3>2. Resident(i) \in Item /\ Resident(i).valid /\ enq_key \in Int
      BY <1>1, <3>1, ResidentShape, KeyAssumption DEF IInv, TypeOK, Keys
    <3>3. cell'[i] = Resident(i)
      BY <2>1, <2>2, <3>1 DEF Inserted
    <3> QED  BY <2>2, <2>4, <3>2, <3>3 DEF Beats, Newcomer
  <2>7. ASSUME NEW i \in p + 1 .. DEPTH - 1, cell'[i].valid
        PROVE  /\ Resident(i - 1).valid /\ cell'[i].key = Resident(i - 1).key
               /\ cell'[i].key < enq_key
    <3>1. i \in Cells /\ i - 1 \in Cells /\ i - 1 < i /\ p <= i - 1
      BY <2>3, DepthAssumption DEF Cells
    <3>2. /\ in[i] \in Item /\ Resident(i) \in Item /\ Resident(i - 1) \in Item
          /\ Resident(p) \in Item
          /\ (in[i].valid <=> i <= Staying) /\ (Resident(i).valid <=> i < Staying)
          /\ (Resident(i - 1).valid <=> i - 1 < Staying)
          /\ i < Staying => Resident(i - 1).key >= Resident(i).key
      BY <1>1, <3>1, WireShape, ResidentShape
    <3>3. Staying \in Int /\ enq_key \in Int
      BY <1>1, ResidentShape, KeyAssumption DEF IInv, TypeOK, Keys
    <3>4. in[i].valid => Resident(i - 1).valid /\ in[i].key = Resident(i - 1).key
      <4>1. in[p] = Newcomer
        BY <2>2, <2>3
      <4> QED  BY <1>1, <2>2, <4>1, DisplacedKeys
    <3>5. cell'[i] = IF Beats(in[i], Resident(i)) THEN in[i] ELSE Resident(i)
      BY <2>1, <3>1 DEF Inserted
    <3>6. in[i].valid
      BY <2>3, <2>7, <3>1, <3>2, <3>3, <3>5 DEF Beats
    <3>7. Resident(i - 1).valid /\ cell'[i].key = Resident(i - 1).key
      BY <2>4, <2>7, <3>2, <3>4, <3>5, <3>6 DEF Beats
    <3>8. Resident(i - 1).key <= Resident(p).key
      <4>1. i - 1 < Staying
        BY <3>2, <3>7
      <4>2. p = i - 1 \/ p < i - 1
        BY <2>3, <3>1
      <4> QED  BY <1>1, <2>4, <3>1, <3>2, <4>1, <4>2, ResidentShape
    <3>9. Resident(p).valid /\ enq_key > Resident(p).key
      <4>1. p < Staying
        BY <2>3, <3>1, <3>2, <3>3, <3>7
      <4> QED  BY <1>1, <2>2, <4>1, ResidentShape DEF Beats, Newcomer
    <3> QED  BY <2>4, <3>2, <3>3, <3>7, <3>8, <3>9
  <2>8. InsertedAt(p)
    BY <2>5, <2>6, <2>7 DEF InsertedAt
  <2> QED  BY <2>8
<1> QED  BY <1>1, Invariance, PTL DEF Spec, InsertsBehindEquals
-----------------------------------------------------------------------------
(* The refinement of ReadyBag.  What the cells hold is counted from cell to *)
(* cell; up to any cell, what has been inserted and what is still on the    *)
(* wire are together the residents and the newcomer.                        *)
Residents == [i \in Cells |-> Resident(i)]

LEMMA SameItem ==
    \A c \in Item, e \in ID \X Keys :
        c = ItemOf(e) <=> c.valid /\ e = <<c.id, c.key>>
BY DEF Item, ItemOf

LEMMA CellsCounted == Contents = [e \in ID \X Keys |-> HowMany(cell, DEPTH, {ItemOf(e)})]
BY DEF Contents, HowMany, Places, Cells

LEMMA DepthCounted == IInv => Occupied = depth_r
<1> SUFFICES ASSUME IInv PROVE Occupied = depth_r
  OBVIOUS
<1>1. depth_r \in 0 .. DEPTH /\ DEPTH \in Nat
  BY DepthAssumption DEF IInv, TypeOK
<1>2. {i \in Cells : cell[i].valid} = 0 .. depth_r - 1
  BY <1>1 DEF IInv, QueueInvariant, Cells
<1>3. depth_r - 1 \in Int /\ 0 \in Int
  BY <1>1
<1>4. Cardinality(0 .. depth_r - 1) = depth_r
  BY <1>1, <1>3, FS_Interval
<1> QED  BY <1>2, <1>4 DEF Occupied

LEMMA ResidentsCounted ==
    ASSUME IInv, NEW X, \A x \in X : x.valid
    PROVE  HowMany(cell, DEPTH, X)
             = HowMany(Residents, DEPTH, X) + (IF deq_valid THEN One(cell[0] \in X) ELSE 0)
<1>1. DEPTH - 1 \in Nat /\ DEPTH \in Nat /\ (DEPTH - 1) + 1 = DEPTH
  BY DepthAssumption
<1>2. HowMany(Residents, DEPTH, X) \in Nat
  BY <1>1, CountNext
<1>3. CASE ~deq_valid
  <2>1. \A i \in 0 .. DEPTH - 1 : Residents[i] = cell[i]
    BY <1>3 DEF Residents, Resident, Cells
  <2>2. HowMany(Residents, DEPTH, X) = HowMany(cell, DEPTH, X)
    BY <1>1, <2>1, CountSame
  <2> QED  BY <1>2, <1>3, <2>2
<1>4. CASE deq_valid
  <2>1. \A i \in 0 .. (DEPTH - 1) - 1 : Residents[i] = cell[i + 1]
    BY <1>1, <1>4 DEF Residents, Resident, right, Cells
  <2>2. HowMany(Residents, DEPTH - 1, X) + One(cell[0] \in X) = HowMany(cell, DEPTH, X)
    BY <1>1, <2>1, CountShifted
  <2>3. HowMany(Residents, DEPTH, X)
          = HowMany(Residents, DEPTH - 1, X) + One(Residents[DEPTH - 1] \in X)
    BY <1>1, CountNext
  <2>4. Residents[DEPTH - 1] = NoItem
    BY <1>1, <1>4 DEF Residents, Resident, right, Cells
  <2>5. One(Residents[DEPTH - 1] \in X) = 0 /\ HowMany(Residents, DEPTH - 1, X) \in Nat
    BY <1>1, <2>4, CountNext DEF One, NoItem
  <2> QED  BY <1>4, <2>2, <2>3, <2>5
<1> QED  BY <1>3, <1>4

LEMMA InsertedCounted ==
    ASSUME IInv, enq_valid, NEW X, \A x \in X : x.valid
    PROVE  HowMany(Inserted, DEPTH, X) = HowMany(Residents, DEPTH, X) + One(Newcomer \in X)
<1> DEFINE Claim(n) == HowMany(Inserted, n, X) + One(in[n] \in X)
                         = HowMany(Residents, n, X) + One(Newcomer \in X)
           T == {n \in Nat : Claim(n)}
<1>0. DEPTH - 1 \in Nat /\ DEPTH \in Nat /\ (DEPTH - 1) + 1 = DEPTH
  BY DepthAssumption
<1>1. \A b : One(b) \in Nat
  BY DEF One
<1>2. ASSUME NEW n \in Cells
      PROVE  One(Inserted[n] \in X) + One(Passed(n, in[n]) \in X)
               = One(Residents[n] \in X) + One(in[n] \in X)
  <2>1. /\ Residents[n] = Resident(n)
        /\ Inserted[n] = IF Beats(in[n], Resident(n)) THEN in[n] ELSE Resident(n)
    BY DEF Residents, Inserted
  <2> QED  BY <1>1, <2>1 DEF Passed
<1>3. 0 \in T
  <2>1. in[0] = Newcomer
    BY WireEquations
  <2>2. HowMany(Inserted, 0, X) = HowMany(Residents, 0, X)
    BY CountFirst
  <2> QED  BY <2>1, <2>2
<1>4. ASSUME NEW n \in 0 .. DEPTH - 1
      PROVE  /\ HowMany(Inserted, n, X) \in Nat /\ HowMany(Residents, n, X) \in Nat
             /\ HowMany(Inserted, n + 1, X) = HowMany(Inserted, n, X) + One(Inserted[n] \in X)
             /\ HowMany(Residents, n + 1, X)
                  = HowMany(Residents, n, X) + One(Residents[n] \in X)
  BY CountNext
<1>5. ASSUME NEW n \in 0 .. (DEPTH - 1) - 1, n \in T
      PROVE  n + 1 \in T
  <2>1. n \in 0 .. DEPTH - 1 /\ n \in Cells /\ n + 1 \in Cells
    BY <1>0 DEF Cells
  <2>2. in[n + 1] = Passed(n, in[n])
    BY <2>1, WireEquations
  <2>3. Claim(n)
    BY <1>5
  <2>4. One(Inserted[n] \in X) + One(in[n + 1] \in X) = One(Residents[n] \in X) + One(in[n] \in X)
    BY <1>2, <2>1, <2>2
  <2>5. Claim(n + 1)
    <3>1. /\ HowMany(Inserted, n, X) \in Nat /\ HowMany(Residents, n, X) \in Nat
          /\ HowMany(Inserted, n + 1, X) = HowMany(Inserted, n, X) + One(Inserted[n] \in X)
          /\ HowMany(Residents, n + 1, X) = HowMany(Residents, n, X) + One(Residents[n] \in X)
      BY <1>4, <2>1
    <3>2. /\ One(Inserted[n] \in X) \in Nat /\ One(Residents[n] \in X) \in Nat
          /\ One(in[n] \in X) \in Nat /\ One(in[n + 1] \in X) \in Nat /\ One(Newcomer \in X) \in Nat
      BY <1>1
    <3> QED  BY <2>3, <2>4, <3>1, <3>2
  <2> QED  BY <2>5
<1>6. Claim(DEPTH - 1)
  <2>1. 0 .. DEPTH - 1 \subseteq T
    <3> HIDE DEF T
    <3> QED  BY <1>0, <1>3, <1>5, UpTo
  <2>2. DEPTH - 1 \in T
    BY <1>0, <2>1
  <2> QED  BY <2>2
<1>7. One(Passed(DEPTH - 1, in[DEPTH - 1]) \in X) = 0
  <2>1. DEPTH - 1 \in Cells /\ Staying <= DEPTH - 1 /\ Staying \in Int
    BY <1>0, DepthAssumption DEF Cells, Staying, enq_valid, deq_valid, IInv, TypeOK
  <2>2. /\ (in[DEPTH - 1].valid <=> DEPTH - 1 <= Staying)
        /\ (Resident(DEPTH - 1).valid <=> DEPTH - 1 < Staying)
    BY <2>1, WireShape, ResidentShape
  <2>3. ~Passed(DEPTH - 1, in[DEPTH - 1]).valid
    BY <1>0, <2>1, <2>2 DEF Passed, Beats
  <2> QED  BY <2>3 DEF One
<1>8. DEPTH - 1 \in Cells /\ DEPTH - 1 \in 0 .. DEPTH - 1
  BY <1>0 DEF Cells
<1>9. One(Inserted[DEPTH - 1] \in X) = One(Residents[DEPTH - 1] \in X) + One(in[DEPTH - 1] \in X)
  BY <1>1, <1>2, <1>7, <1>8
<1> QED
  <2>1. /\ HowMany(Inserted, DEPTH - 1, X) \in Nat /\ HowMany(Residents, DEPTH - 1, X) \in Nat
        /\ HowMany(Inserted, DEPTH, X)
             = HowMany(Inserted, DEPTH - 1, X) + One(Inserted[DEPTH - 1] \in X)
        /\ HowMany(Residents, DEPTH, X)
             = HowMany(Residents, DEPTH - 1, X) + One(Residents[DEPTH - 1] \in X)
    BY <1>0, <1>4, <1>8
  <2>2. /\ One(Inserted[DEPTH - 1] \in X) \in Nat /\ One(Residents[DEPTH - 1] \in X) \in Nat
        /\ One(in[DEPTH - 1] \in X) \in Nat /\ One(Newcomer \in X) \in Nat
    BY <1>1
  <2> QED  BY <1>6, <1>9, <2>1, <2>2

(* The head carries the largest key of all that is held. *)
LEMMA HeadLargest ==
    IInv => IF Occupied = 0 THEN Front = {} ELSE \E x \in Bag!Maximal(Contents) : Front = {x}
<1> SUFFICES ASSUME IInv
             PROVE  IF depth_r = 0 THEN Front = {}
                    ELSE \E x \in Bag!Maximal(Contents) : Front = {x}
  BY DepthCounted
<1>1. /\ 0 \in Cells /\ depth_r \in 0 .. DEPTH /\ DEPTH \in Nat
      /\ cell \in [Cells -> Item]
      /\ \A i \in Cells : cell[i].valid <=> i < depth_r
      /\ \A i, j \in Cells : i < j /\ j < depth_r => cell[i].key >= cell[j].key
  BY DepthAssumption DEF IInv, TypeOK, QueueInvariant, Cells
<1>2. CASE depth_r = 0
  BY <1>1, <1>2 DEF Front, head_valid
<1>3. CASE depth_r # 0
  <2> DEFINE x == <<head_id, head_key>>
  <2>1. cell[0].valid /\ cell[0] \in Item /\ x \in ID \X Keys /\ cell[0] = ItemOf(x)
    BY <1>1, <1>3, SameItem DEF head_id, head_key, Item
  <2>2. \A e \in ID \X Keys : Contents[e] > 0 <=> \E i \in Cells : cell[i] = ItemOf(e)
    BY <1>1, CellsCounted, CountPresent DEF Cells
  <2>3. x \in Bag!Present(Contents)
    BY <1>1, <2>1, <2>2 DEF Bag!Present, Bag!Items, Keys
  <2>4. ASSUME NEW y \in Bag!Present(Contents)
        PROVE  y[2] <= x[2]
    <3>1. y \in ID \X Keys /\ Contents[y] > 0
      BY <2>4 DEF Bag!Present, Bag!Items, Keys
    <3>2. PICK i \in Cells : cell[i] = ItemOf(y)
      BY <2>2, <3>1
    <3>3. i < depth_r /\ cell[i].key = y[2] /\ cell[i] \in Item
      <4>1. ItemOf(y).valid /\ ItemOf(y).key = y[2]
        BY DEF ItemOf
      <4> QED  BY <1>1, <3>2, <4>1
    <3>4. cell[0].key >= cell[i].key
      <4>1. \A c \in Item : c.key \in Int
        BY KeyAssumption DEF Item, Keys
      <4>2. CASE i = 0
        BY <2>1, <4>1, <4>2
      <4>3. CASE i # 0
        <5>1. 0 < i
          BY <1>1, <4>3 DEF Cells
        <5> QED  BY <1>1, <3>3, <5>1
      <4> QED  BY <4>2, <4>3
    <3>5. cell[0].key \in Int /\ cell[i].key \in Int
      BY <2>1, <3>3, KeyAssumption DEF Item, Keys
    <3> QED  BY <3>3, <3>4, <3>5 DEF head_key
  <2>5. Front = {x}
    BY <2>1 DEF Front, head_valid
  <2> QED  BY <1>3, <2>3, <2>4, <2>5 DEF Bag!Maximal
<1> QED  BY <1>2, <1>3

LEMMA AfterTheEdge ==
    IInv' => /\ Occupied' = depth_r'
             /\ IF Occupied' = 0 THEN Front' = {}
                ELSE \E x \in Bag!Maximal(Contents') : Front' = {x}
<1> DEFINE P == /\ Occupied = depth_r
                /\ IF Occupied = 0 THEN Front = {}
                   ELSE \E x \in Bag!Maximal(Contents) : Front = {x}
<1>1. IInv => P
  BY DepthCounted, HeadLargest
<1>2. IInv' => P'
  BY <1>1, PTL
<1> QED  BY <1>2 DEF Bag!Maximal, Bag!Present, Bag!Items

(* One edge takes the head out, if it is to be dequeued, and the newcomer  *)
(* in, if there was room, and leaves everything else as often as it was.   *)
LEMMA ContentsStep ==
    ASSUME IInv, Next, ~flush, NEW X, \A x \in X : x.valid
    PROVE  HowMany(cell', DEPTH, X) + (IF deq_valid THEN One(cell[0] \in X) ELSE 0)
             = HowMany(cell, DEPTH, X) + (IF enq_valid THEN One(Newcomer \in X) ELSE 0)
<1>1. DEPTH \in Nat /\ cell \in [Cells -> Item]
  BY DepthAssumption DEF IInv, TypeOK
<1>2. cell' = IF enq_valid THEN Inserted ELSE Residents
  <2>1. CASE Hold
    BY <1>1, <2>1 DEF Hold, Residents, Resident
  <2>2. CASE Dequeue
    BY <2>2 DEF Dequeue, Residents, Resident
  <2>3. CASE Enqueue \/ DequeueAndEnqueue
    BY <2>3 DEF Enqueue, DequeueAndEnqueue
  <2> QED  BY <2>1, <2>2, <2>3 DEF Next, FlushAll
<1>3. HowMany(cell, DEPTH, X)
        = HowMany(Residents, DEPTH, X) + (IF deq_valid THEN One(cell[0] \in X) ELSE 0)
  BY ResidentsCounted
<1>4. HowMany(cell', DEPTH, X)
        = HowMany(Residents, DEPTH, X) + (IF enq_valid THEN One(Newcomer \in X) ELSE 0)
  <2>1. HowMany(Residents, DEPTH, X) \in Nat
    BY <1>1, CountNext
  <2>2. CASE enq_valid
    BY <1>2, <2>2, InsertedCounted
  <2>3. CASE ~enq_valid
    BY <1>2, <2>1, <2>3
  <2> QED  BY <2>2, <2>3
<1>5. HowMany(Residents, DEPTH, X) \in Nat /\ \A b : One(b) \in Nat
  BY <1>1, CountNext DEF One
<1> QED  BY <1>3, <1>4, <1>5

(* The same for the bag: Removed is what a dequeue leaves. *)
Removed == IF deq_valid THEN [Contents EXCEPT ![<<head_id, head_key>>] = @ - 1] ELSE Contents

LEMMA BagMoves ==
    ASSUME IInv, IInv', Next, ~flush
    PROVE  /\ Contents' = IF enq_valid
                          THEN [Removed EXCEPT ![<<enq_id, enq_key>>] = @ + 1] ELSE Removed
           /\ Occupied' = Staying + (IF enq_valid THEN 1 ELSE 0)
<1>1. /\ 0 \in Cells /\ DEPTH \in Nat /\ cell \in [Cells -> Item]
      /\ enq_id \in ID /\ enq_key \in Keys
      /\ \A i \in Cells : cell[i].valid <=> i < depth_r
      /\ depth_r \in 0 .. DEPTH
  BY DepthAssumption DEF IInv, TypeOK, QueueInvariant, Cells
<1>2. Contents' = [e \in ID \X Keys |-> HowMany(cell', DEPTH, {ItemOf(e)})]
  BY DEF Contents, HowMany, Places, Cells
<1>3. \A e \in ID \X Keys : deq_valid => (cell[0] = ItemOf(e) <=> e = <<head_id, head_key>>)
  <2>1. deq_valid => cell[0].valid
    BY <1>1 DEF deq_valid
  <2> QED  BY <1>1, <2>1, SameItem DEF head_id, head_key
<1>4. \A e \in ID \X Keys : enq_valid => (Newcomer = ItemOf(e) <=> e = <<enq_id, enq_key>>)
  <2>1. enq_valid => Newcomer \in Item /\ Newcomer.valid
    BY <1>1 DEF Newcomer, Item
  <2> QED  BY <2>1, SameItem DEF Newcomer
<1>5. ASSUME NEW e \in ID \X Keys
      PROVE  HowMany(cell', DEPTH, {ItemOf(e)})
               = (IF deq_valid /\ e = <<head_id, head_key>> THEN Contents[e] - 1 ELSE Contents[e])
                 + (IF enq_valid /\ e = <<enq_id, enq_key>> THEN 1 ELSE 0)
  <2>1. ItemOf(e).valid /\ Contents[e] = HowMany(cell, DEPTH, {ItemOf(e)})
    BY CellsCounted DEF ItemOf
  <2>2. HowMany(cell', DEPTH, {ItemOf(e)}) + (IF deq_valid THEN One(cell[0] \in {ItemOf(e)}) ELSE 0)
          = Contents[e] + (IF enq_valid THEN One(Newcomer \in {ItemOf(e)}) ELSE 0)
    BY <2>1, ContentsStep
  <2>3. HowMany(cell', DEPTH, {ItemOf(e)}) \in Nat /\ Contents[e] \in Nat
    BY <1>1, <2>1, CountNext
  <2>4. deq_valid => One(cell[0] \in {ItemOf(e)}) = IF e = <<head_id, head_key>> THEN 1 ELSE 0
    BY <1>3 DEF One
  <2>5. enq_valid => One(Newcomer \in {ItemOf(e)}) = IF e = <<enq_id, enq_key>> THEN 1 ELSE 0
    BY <1>4 DEF One
  <2> QED  BY <2>2, <2>3, <2>4, <2>5
<1>6. /\ Contents = [e \in ID \X Keys |-> Contents[e]]
      /\ <<enq_id, enq_key>> \in ID \X Keys
  BY <1>1, CellsCounted
<1>7. Removed = [e \in ID \X Keys |-> IF deq_valid /\ e = <<head_id, head_key>>
                                      THEN Contents[e] - 1 ELSE Contents[e]]
  BY <1>6 DEF Removed
<1>8. Contents' = IF enq_valid
                  THEN [Removed EXCEPT ![<<enq_id, enq_key>>] = @ + 1] ELSE Removed
  <2>1. \A e \in ID \X Keys : Contents[e] \in Nat
    BY <1>1, CellsCounted, CountNext
  <2>2. \A e \in ID \X Keys : Removed[e] \in Int
    BY <1>7, <2>1
  <2>3. Contents' = [e \in ID \X Keys |->
                       Removed[e] + (IF enq_valid /\ e = <<enq_id, enq_key>> THEN 1 ELSE 0)]
    BY <1>2, <1>5, <1>7
  <2> DEFINE D == ID \X Keys
             x == <<enq_id, enq_key>>
             R == Removed
  <2>4. R = [e \in D |-> R[e]] /\ x \in D /\ \A e \in D : R[e] \in Int
    BY <1>6, <1>7, <2>2
  <2>5. Contents' = [e \in D |-> R[e] + (IF enq_valid /\ e = x THEN 1 ELSE 0)]
    BY <2>3
  <2> HIDE DEF D, x, R
  <2>6. CASE enq_valid
    <3>1. Contents' = [R EXCEPT ![x] = @ + 1]
      BY <2>4, <2>5, <2>6
    <3> QED  BY <2>6, <3>1 DEF R, x
  <2>7. CASE ~enq_valid
    <3>1. Contents' = R
      BY <2>4, <2>5, <2>7
    <3> QED  BY <2>7, <3>1 DEF R
  <2> QED  BY <2>6, <2>7
<1>9. Occupied' = depth_r'
  BY AfterTheEdge
<1>10. depth_r' = Staying + (IF enq_valid THEN 1 ELSE 0)
  BY <1>1 DEF Next, FlushAll, Hold, Enqueue, Dequeue, DequeueAndEnqueue, Staying
<1> QED  BY <1>8, <1>9, <1>10

LEMMA BagStep ==
    ASSUME IInv, IInv', Next
    PROVE  Bag!Next
<1>1. Bag!DriveInputs
  BY DEF Next, DriveInputs, Bag!DriveInputs, Keys
<1>2. /\ Occupied = depth_r /\ Occupied' = depth_r' /\ depth_r \in 0 .. DEPTH
      /\ 0 \in Cells /\ cell \in [Cells -> Item]
      /\ cell[0].valid <=> 0 < depth_r
  BY DepthCounted, AfterTheEdge, DepthAssumption DEF IInv, TypeOK, QueueInvariant, Cells
<1>3. Bag!Holds(Contents', Occupied')
  BY AfterTheEdge DEF Bag!Holds
<1>4. enq_valid <=> Bag!Accepts
  BY <1>2 DEF enq_valid, Bag!Accepts
<1>5. deq_valid <=> dequeue /\ Front # {}
  <2>1. head_valid <=> Front # {}
    BY DEF Front
  <2>2. 0 < depth_r <=> depth_r # 0
    BY <1>2, DepthAssumption
  <2> QED  BY <1>2, <2>1, <2>2 DEF deq_valid, head_valid
<1>6. CASE flush
  <2>1. FlushAll
    BY <1>6 DEF Next, Hold, Enqueue, Dequeue, DequeueAndEnqueue
  <2>2. depth_r' = 0 /\ \A i \in 0 .. DEPTH - 1 : cell'[i] = NoItem
    BY <2>1 DEF FlushAll, Cells
  <2>3. Contents' = Bag!Nothing
    <3>1. \A e \in ID \X Keys : HowMany(cell', DEPTH, {ItemOf(e)}) = 0
      <4> TAKE e \in ID \X Keys
      <4>1. NoItem # ItemOf(e)
        <5>1. NoItem.valid = FALSE /\ ItemOf(e).valid = TRUE
          BY DEF NoItem, ItemOf
        <5> QED  BY <5>1
      <4>2. ~ \E i \in 0 .. DEPTH - 1 : cell'[i] = ItemOf(e)
        BY <2>2, <4>1
      <4>3. /\ HowMany(cell', DEPTH, {ItemOf(e)}) \in Nat
            /\ ~(HowMany(cell', DEPTH, {ItemOf(e)}) > 0)
        BY <4>2, CountPresent, DepthAssumption
      <4> QED  BY <4>3
    <3>2. Contents' = [e \in ID \X Keys |-> HowMany(cell', DEPTH, {ItemOf(e)})]
      BY DEF Contents, HowMany, Places, Cells
    <3> QED  BY <3>1, <3>2 DEF Bag!Nothing, Bag!Items, Keys
  <2>4. Bag!Flush
    BY <1>2, <1>3, <1>6, <2>2, <2>3 DEF Bag!Flush
  <2> QED  BY <1>1, <2>4 DEF Bag!Next
<1>7. CASE ~flush /\ deq_valid
  <2> DEFINE x == <<head_id, head_key>>
  <2>1. x \in Front
    BY <1>5, <1>7 DEF Front
  <2>2. Bag!Take([Contents EXCEPT ![x] = @ - 1], Occupied - 1)
    <3>1. Contents' = (IF enq_valid THEN [Removed EXCEPT ![<<enq_id, enq_key>>] = @ + 1]
                       ELSE Removed)
          /\ Occupied' = (Occupied - 1) + (IF enq_valid THEN 1 ELSE 0)
      BY <1>2, <1>7, BagMoves DEF Staying
    <3>2. Removed = [Contents EXCEPT ![x] = @ - 1]
      BY <1>7 DEF Removed
    <3>3. Occupied \in Int
      BY <1>2
    <3> HIDE DEF x
    <3> QED  BY <1>3, <1>4, <3>1, <3>2, <3>3 DEF Bag!Take
  <2>3. Bag!Serve
    BY <1>5, <1>7, <2>1, <2>2 DEF Bag!Serve
  <2> QED  BY <1>1, <2>3 DEF Bag!Next
<1>8. CASE ~flush /\ ~deq_valid
  <2>1. Bag!Take(Contents, Occupied)
    <3>1. Contents' = (IF enq_valid THEN [Contents EXCEPT ![<<enq_id, enq_key>>] = @ + 1]
                       ELSE Contents)
          /\ Occupied' = Occupied + (IF enq_valid THEN 1 ELSE 0)
      BY <1>2, <1>8, BagMoves DEF Staying, Removed
    <3>2. Occupied \in Int
      BY <1>2
    <3> QED  BY <1>3, <1>4, <3>1, <3>2 DEF Bag!Take
  <2>2. ASSUME NEW x \in Front, NEW y \in Front', y # x
        PROVE  enq_valid /\ enq_key > x[2]
    <3>1. cell[0].valid /\ x = <<cell[0].id, cell[0].key>>
      BY <2>2 DEF Front, head_valid, head_id, head_key
    <3>2. y = <<cell'[0].id, cell'[0].key>>
      BY <2>2 DEF Front, head_valid, head_id, head_key
    <3>3. cell'[0] # cell[0]
      BY <2>2, <3>1, <3>2
    <3>4. enq_valid /\ cell' = Inserted
      BY <1>8, <3>3 DEF Next, FlushAll, Hold, Enqueue, Dequeue, DequeueAndEnqueue
    <3>5. Resident(0) = cell[0] /\ in[0] = Newcomer
      BY <1>2, <1>8, WireEquations DEF Resident
    <3>6. Beats(Newcomer, cell[0])
      BY <1>2, <3>3, <3>4, <3>5 DEF Inserted
    <3> QED  BY <3>1, <3>4, <3>6 DEF Beats, Newcomer
  <2>3. Bag!Stay
    BY <1>4, <1>5, <1>8, <2>1, <2>2 DEF Bag!Stay
  <2> QED  BY <1>1, <2>3 DEF Bag!Next
<1> QED  BY <1>6, <1>7, <1>8

(* For every number of cells and every stream of requests the rippling     *)
(* chain is a bag with a head of largest key: nothing is lost, duplicated   *)
(* or given another key, and the head is right in the cycle after the edge. *)
THEOREM ImplementsBag == Spec => ServesLargestKey
<1>1. Init => Bag!Init
  <2> SUFFICES ASSUME Init PROVE Bag!Init
    OBVIOUS
  <2>1. IInv /\ \A i \in 0 .. DEPTH - 1 : ~cell[i].valid
    BY InitEstablishesInvariant DEF Init, NoItem, Cells
  <2>2. Occupied = 0 /\ Front = {}
    BY <2>1, DepthCounted, HeadLargest DEF Init
  <2>3. ASSUME NEW e \in ID \X Keys
        PROVE  HowMany(cell, DEPTH, {ItemOf(e)}) = 0
    <3>1. ItemOf(e).valid
      BY DEF ItemOf
    <3>2. ~ \E i \in 0 .. DEPTH - 1 : cell[i] = ItemOf(e)
      BY <2>1, <3>1
    <3> QED  BY <3>2, CountPresent, DepthAssumption
  <2>4. Contents = Bag!Nothing
    BY <2>3, CellsCounted DEF Bag!Nothing, Bag!Items, Keys
  <2> QED  BY <2>2, <2>4 DEF Bag!Init
<1>2. IInv /\ IInv' /\ [Next]_vars => [Bag!Next]_(Bag!vars)
  <2>1. ASSUME UNCHANGED vars
        PROVE  UNCHANGED Bag!vars
    BY <2>1 DEF vars, inputs, Bag!vars, Contents, Occupied, Front, head_valid, head_id, head_key
  <2> QED  BY <2>1, BagStep
<1> QED  BY <1>1, <1>2, Invariance, PTL DEF Spec, ServesLargestKey, Bag!Spec
-----------------------------------------------------------------------------
(* The cells that hold an identifier, for the composition. *)
Held(id) == Cardinality({i \in Cells : cell[i].valid /\ cell[i].id = id})

LEMMA HeldCounted ==
    ASSUME IInv, NEW id \in ID
    PROVE  /\ Held(id) \in Nat
           /\ Held(id) = HowMany(cell, DEPTH, {x \in Item : x.valid /\ x.id = id})
           /\ IsFiniteSet({i \in Cells : cell[i].valid /\ cell[i].id = id})
<1> DEFINE X == {x \in Item : x.valid /\ x.id = id}
<1>1. {i \in Cells : cell[i].valid /\ cell[i].id = id} = Places(cell, DEPTH, X)
  BY DEF IInv, TypeOK, Places, Cells
<1> HIDE DEF X
<1>2. DEPTH \in Nat
  BY DepthAssumption
<1> QED  BY <1>1, <1>2, PlacesFinite, CountNext DEF Held, HowMany, X

LEMMA HeldMoves ==
    ASSUME IInv, IInv', Next, ~flush, NEW id \in ID
    PROVE  Held(id)' + (IF deq_valid /\ cell[0].id = id THEN 1 ELSE 0)
             = Held(id) + (IF enq_valid /\ enq_id = id THEN 1 ELSE 0)
<1> DEFINE X == {x \in Item : x.valid /\ x.id = id}
<1>1. /\ 0 \in Cells /\ DEPTH \in Nat /\ cell \in [Cells -> Item]
      /\ enq_id \in ID /\ enq_key \in Keys
      /\ cell[0].valid <=> 0 < depth_r
      /\ depth_r \in 0 .. DEPTH
  BY DepthAssumption DEF IInv, TypeOK, QueueInvariant, Cells
<1>2. HowMany(cell', DEPTH, X) + (IF deq_valid THEN One(cell[0] \in X) ELSE 0)
        = HowMany(cell, DEPTH, X) + (IF enq_valid THEN One(Newcomer \in X) ELSE 0)
  BY ContentsStep
<1>3. Held(id) = HowMany(cell, DEPTH, X) /\ Held(id) \in Nat
  BY HeldCounted
<1>4. Held(id)' = HowMany(cell', DEPTH, X) /\ Held(id)' \in Nat
  <2>1. {i \in Cells : cell'[i].valid /\ cell'[i].id = id} = Places(cell', DEPTH, X)
    BY DEF IInv, TypeOK, Places, Cells
  <2> HIDE DEF X
  <2> QED  BY <1>1, <2>1, CountNext DEF Held, HowMany
<1>5. deq_valid => (cell[0] \in X <=> cell[0].id = id)
  BY <1>1 DEF deq_valid
<1>6. enq_valid => (Newcomer \in X <=> enq_id = id)
  BY <1>1 DEF Newcomer, Item
<1> HIDE DEF X
<1> QED  BY <1>2, <1>3, <1>4, <1>5, <1>6 DEF One

(* Behind the head: what a dequeue under way is going to leave. *)
HeldBehind(id) == Cardinality({i \in Cells : cell[i].valid /\ cell[i].id = id /\ i # 0})

LEMMA HeldBehindHead ==
    ASSUME IInv, cell[0].valid, NEW id \in ID
    PROVE  /\ HeldBehind(id) \in Nat
           /\ Held(id) = HeldBehind(id) + (IF cell[0].id = id THEN 1 ELSE 0)
<1> DEFINE S == {i \in Cells : cell[i].valid /\ cell[i].id = id}
           T == {i \in Cells : cell[i].valid /\ cell[i].id = id /\ i # 0}
<1>1. T = S \ {0}
  OBVIOUS
<1>2. 0 \in S <=> cell[0].id = id
  BY DepthAssumption DEF Cells
<1>3. IsFiniteSet(S) /\ Held(id) = Cardinality(S)
  BY HeldCounted DEF Held
<1> HIDE DEF S
<1>4. /\ Cardinality(T) \in Nat /\ Cardinality(S) \in Nat
      /\ Cardinality(T) = IF 0 \in S THEN Cardinality(S) - 1 ELSE Cardinality(S)
  <2>1. /\ IsFiniteSet(S \ {0})
        /\ Cardinality(S \ {0}) = IF 0 \in S THEN Cardinality(S) - 1 ELSE Cardinality(S)
    BY <1>3, FS_RemoveElement
  <2>2. Cardinality(S \ {0}) \in Nat /\ Cardinality(S) \in Nat
    BY <1>3, <2>1, FS_CardinalityType
  <2> HIDE DEF T
  <2> QED  BY <1>1, <2>1, <2>2
<1>5. HeldBehind(id) = Cardinality(T)
  BY DEF HeldBehind
<1> HIDE DEF T
<1> QED  BY <1>2, <1>3, <1>4, <1>5

(* With no more identifiers than cells, and each at most once, there is    *)
(* always a cell for one that is not there.                                *)
LEMMA RoomForAnother ==
    ASSUME IInv, NEW U, IsFiniteSet(U), Cardinality(U) <= DEPTH, NEW v \in U, v \in ID,
           \A id \in ID : Held(id) <= 1 /\ (Held(id) > 0 => id \in U), Held(v) = 0
    PROVE  depth_r < DEPTH
<1>1. /\ DEPTH \in Nat /\ depth_r \in 0 .. DEPTH /\ depth_r \in Nat
      /\ \A i \in 0 .. depth_r - 1 : i \in Cells /\ cell[i].valid /\ cell[i].id \in ID
  BY DepthAssumption DEF IInv, TypeOK, QueueInvariant, Cells, Item
<1> DEFINE f == [i \in 0 .. depth_r - 1 |-> cell[i].id]
           S(id) == {i \in Cells : cell[i].valid /\ cell[i].id = id}
<1>2. \A id \in ID : IsFiniteSet(S(id)) /\ Held(id) = Cardinality(S(id)) /\ Held(id) \in Nat
  BY HeldCounted DEF Held
<1>3. \A i \in 0 .. depth_r - 1 : i \in S(f[i]) /\ f[i] \in ID
  BY <1>1
<1> HIDE DEF f, S
<1>4. \A i \in 0 .. depth_r - 1 : f[i] \in U \ {v}
  <2> TAKE i \in 0 .. depth_r - 1
  <2>1. Held(f[i]) # 0
    BY <1>2, <1>3, FS_EmptySet
  <2>2. Held(f[i]) > 0
    BY <1>2, <1>3, <2>1
  <2> QED  BY <1>3, <2>2
<1>5. \A i, j \in 0 .. depth_r - 1 : f[i] = f[j] => i = j
  BY <1>2, <1>3, AtMostOne
<1>6. depth_r < Cardinality(U)
  BY <1>1, <1>4, <1>5, DistinctFit
<1> QED  BY <1>1, <1>6, FS_CardinalityType

(* Where the first two items go: into cell 0, the stronger one in front.   *)
HeadIsNew == cell'[0].valid /\ cell'[0].id = enq_id /\ cell'[0].key = enq_key

LEMMA EntersEmpty ==
    ASSUME IInv, Step, ~dequeue, depth_r = 0
    PROVE  /\ ~enqueue => depth_r' = 0
           /\ enqueue /\ ~flush => depth_r' = 1 /\ HeadIsNew
<1> USE DepthAssumption DEF IInv, TypeOK, deq_valid, enq_valid
<1>1. 0 \in Cells /\ depth_r < DEPTH
  BY DEF Cells
<1>2. ASSUME ~enqueue
      PROVE  depth_r' = 0
  BY <1>2 DEF Step, FlushAll, Hold, Enqueue, Dequeue, DequeueAndEnqueue
<1>3. ASSUME enqueue, ~flush
      PROVE  depth_r' = 1 /\ HeadIsNew
  <2>1. cell' = Inserted /\ depth_r' = 1
    BY <1>1, <1>3 DEF Step, FlushAll, Hold, Enqueue, Dequeue, DequeueAndEnqueue
  <2>2. ~Resident(0).valid
    BY <1>1 DEF Resident, QueueInvariant
  <2>3. Newcomer.valid /\ Newcomer.id = enq_id /\ Newcomer.key = enq_key
    BY <1>1, <1>3 DEF Newcomer
  <2>4. in[0] = Newcomer
    BY WireEquations
  <2>5. Beats(in[0], Resident(0))
    BY <2>2, <2>3, <2>4 DEF Beats
  <2> QED  BY <1>1, <2>1, <2>3, <2>4, <2>5 DEF Inserted, HeadIsNew
<1> QED  BY <1>2, <1>3

LEMMA EntersInFront ==
    ASSUME IInv, Step, ~flush, ~dequeue, depth_r = 1, DEPTH >= 2,
           enqueue, enq_key > cell[0].key
    PROVE  depth_r' = 2 /\ HeadIsNew /\ cell'[1] = cell[0]
<1> USE DepthAssumption DEF IInv, TypeOK, deq_valid, enq_valid
<1>1. 0 \in Cells /\ 1 \in Cells /\ 0 + 1 = 1 /\ depth_r < DEPTH
  BY DEF Cells
<1>2. cell' = Inserted /\ depth_r' = 2
  BY <1>1 DEF Step, FlushAll, Hold, Enqueue, Dequeue, DequeueAndEnqueue
<1>3. Resident(0) = cell[0] /\ cell[0].valid /\ Resident(1) = cell[1] /\ ~cell[1].valid
  BY <1>1 DEF Resident, QueueInvariant
<1>4. Newcomer.valid /\ Newcomer.id = enq_id /\ Newcomer.key = enq_key
  BY <1>1 DEF Newcomer
<1>5. in[0] = Newcomer /\ Beats(in[0], Resident(0))
  <2>1. in[0] = Newcomer
    BY WireEquations
  <2> QED  BY <1>3, <1>4, <2>1 DEF Beats
<1>6. in[1] = cell[0]
  BY <1>1, <1>3, <1>5, WireEquations DEF Passed
<1>7. Beats(in[1], Resident(1))
  BY <1>3, <1>6 DEF Beats
<1> QED  BY <1>1, <1>2, <1>4, <1>5, <1>6, <1>7 DEF Inserted, HeadIsNew
=============================================================================
