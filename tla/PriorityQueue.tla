--------------------------- MODULE PriorityQueue ---------------------------
(***************************************************************************)
(* rtl/priority_queue.v and the chain of rtl/pq_cell.v it is built from:   *)
(* the ready tasks, highest key in cell 0.  One step is one clock edge.    *)
(* An enqueued item ripples right within the cycle: every cell keeps the   *)
(* stronger of what it holds and what reaches it and passes the other on.  *)
(* A dequeue shifts all cells left; with both, an item competes against    *)
(* what the shift is about to bring into the cell.                         *)
(***************************************************************************)
EXTENDS Integers

CONSTANTS DEPTH,     \* cells of the chain
          ID,        \* task identifiers
          NoId,      \* the identifier an empty cell holds (zero in the RTL)
          MaxKey     \* largest key, 2^KEY_WIDTH - 1

ASSUME DepthAssumption == DEPTH \in Nat \ {0}
ASSUME IdAssumption    == NoId \in ID
ASSUME KeyAssumption   == MaxKey \in Nat

VARIABLES flush, enqueue, dequeue, enq_id, enq_key,   \* input wires
          cell, depth_r                               \* registers

inputs == <<flush, enqueue, dequeue, enq_id, enq_key>>
vars   == <<inputs, cell, depth_r>>

Cells == 0 .. DEPTH - 1
Keys  == 0 .. MaxKey
Item  == [valid : BOOLEAN, id : ID, key : Keys]
NoItem == [valid |-> FALSE, id |-> NoId, key |-> 0]

(* Cells hold items and the occupancy counter stays within the chain: the  *)
(* guards enq_valid and deq_valid exclude overflow and underflow.          *)
TypeOK ==
    /\ flush \in BOOLEAN /\ enqueue \in BOOLEAN /\ dequeue \in BOOLEAN
    /\ enq_id \in ID /\ enq_key \in Keys
    /\ cell \in [Cells -> Item]
    /\ depth_r \in 0 .. DEPTH

head_id    == cell[0].id
head_key   == cell[0].key
head_valid == cell[0].valid
-----------------------------------------------------------------------------
enq_valid_unguarded == enqueue   \* mutant: no overflow guard
enq_valid == enqueue /\ depth_r < DEPTH
deq_valid_late == dequeue /\ depth_r > 1   \* mutant: underflow guard off by one
deq_valid == dequeue /\ depth_r # 0

right(i) == IF i = DEPTH - 1 THEN NoItem ELSE cell[i + 1]

(* What cell i is going to hold if nothing is inserted. *)
Resident_stale(i) == cell[i]   \* mutant: the simultaneous shift is overlooked
Resident(i) == IF deq_valid THEN right(i) ELSE cell[i]

(* in_beats_right, in_beats_cell: a tie is won by the resident. *)
Beats_ties(in, old) ==   \* mutant: a tie goes to the newcomer
    in.valid /\ (~old.valid \/ in.key >= old.key)
Beats(in, old) == in.valid /\ (~old.valid \/ in.key > old.key)

(* The item each cell sees at its left side while the ripple settles. *)
in[i \in Cells] ==
    IF i = 0
    THEN [valid |-> enq_valid, id |-> enq_id, key |-> enq_key]
    ELSE IF Beats(in[i - 1], Resident(i - 1)) THEN Resident(i - 1)
                                              ELSE in[i - 1]

Inserted ==
    [i \in Cells |-> IF Beats(in[i], Resident(i)) THEN in[i] ELSE Resident(i)]
-----------------------------------------------------------------------------
FlushAll ==
    /\ flush
    /\ cell' = [i \in Cells |-> NoItem]
    /\ depth_r' = 0

Hold == ~flush /\ ~enq_valid /\ ~deq_valid /\ UNCHANGED <<cell, depth_r>>

Enqueue ==
    /\ ~flush /\ enq_valid /\ ~deq_valid
    /\ cell' = Inserted
    /\ depth_r' = depth_r + 1

Dequeue ==
    /\ ~flush /\ ~enq_valid /\ deq_valid
    /\ cell' = [i \in Cells |-> right(i)]
    /\ depth_r' = depth_r - 1

DequeueAndEnqueue ==
    /\ ~flush /\ enq_valid /\ deq_valid
    /\ cell' = Inserted
    /\ UNCHANGED depth_r

Step == FlushAll \/ Hold \/ Enqueue \/ Dequeue \/ DequeueAndEnqueue
-----------------------------------------------------------------------------
DriveInputs ==
    /\ flush' \in BOOLEAN /\ enqueue' \in BOOLEAN /\ dequeue' \in BOOLEAN
    /\ enq_id' \in ID /\ enq_key' \in Keys

Init ==
    /\ cell = [i \in Cells |-> NoItem] /\ depth_r = 0
    /\ flush \in BOOLEAN /\ enqueue \in BOOLEAN /\ dequeue \in BOOLEAN
    /\ enq_id \in ID /\ enq_key \in Keys

Next == \/ FlushAll /\ DriveInputs
        \/ Hold /\ DriveInputs
        \/ Enqueue /\ DriveInputs
        \/ Dequeue /\ DriveInputs
        \/ DequeueAndEnqueue /\ DriveInputs
Spec == Init /\ [][Next]_vars
-----------------------------------------------------------------------------
(* The occupied cells are the first depth_r ones and their keys descend    *)
(* (the check_queue_invariant task of the test bench): the distributed     *)
(* decisions of the cells never leave a hole or a misplaced key.           *)
QueueInvariant ==
    /\ \A i \in Cells : cell[i].valid <=> i < depth_r
    /\ \A i, j \in Cells : i < j /\ j < depth_r => cell[i].key >= cell[j].key

(* pq_cell.v:29-31: however far an accepted item ripples, it ends up behind *)
(* every resident of its own key (no task overtakes an equal one by being   *)
(* enqueued), the cells in front of it do not change, and behind it every   *)
(* key moves one cell to the right.  It is only the keys: an item displaced *)
(* to the right passes the residents of its own key.                        *)
InsertedAt(p) ==
    /\ cell'[p] = [valid |-> TRUE, id |-> enq_id, key |-> enq_key]
    /\ \A i \in 0 .. p - 1 : cell'[i] = Resident(i) /\ cell'[i].key >= enq_key
    /\ \A i \in p + 1 .. DEPTH - 1 : cell'[i].valid =>
           Resident(i - 1).valid /\ cell'[i].key = Resident(i - 1).key
           /\ cell'[i].key < enq_key
InsertsBehindEquals == [][~flush /\ enq_valid => \E p \in Cells : InsertedAt(p)]_vars
=============================================================================
