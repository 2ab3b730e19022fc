----------------------------- MODULE SleepQueue -----------------------------
(***************************************************************************)
(* rtl/sleep_queue.v: the sorted array of sleeping tasks.  One step is one *)
(* clock edge: the registers are updated from the values the input wires   *)
(* hold before the edge.  In a composition the five input wires are        *)
(* substituted by the registers that drive them; standing alone, the       *)
(* environment drives them freely (DriveInputs).                           *)
(***************************************************************************)
EXTENDS Integers

CONSTANTS DEPTH,      \* entries of the array
          ID,         \* task identifiers
          NoId,       \* the identifier an empty entry holds (zero in the RTL)
          MaxCount    \* largest count, 2^CNT_WIDTH - 1

ASSUME DepthAssumption == DEPTH \in Nat \ {0}
ASSUME IdAssumption    == NoId \in ID
ASSUME CountAssumption == MaxCount \in Nat

VARIABLES flush, enqueue, tick, enq_id, enq_count,    \* input wires
          id_mem, cnt_mem, valid_mem, depth_r,        \* the array
          wake_valid, wake_id                         \* registered outputs

inputs == <<flush, enqueue, tick, enq_id, enq_count>>
regs   == <<id_mem, cnt_mem, valid_mem, depth_r, wake_valid, wake_id>>
vars   == <<inputs, regs>>

Slots  == 0 .. DEPTH - 1
Counts == 0 .. MaxCount

InputsOK ==
    /\ flush \in BOOLEAN /\ enqueue \in BOOLEAN /\ tick \in BOOLEAN
    /\ enq_id \in ID /\ enq_count \in Counts

RegsOK ==
    /\ id_mem \in [Slots -> ID]
    /\ cnt_mem \in [Slots -> Counts]
    /\ valid_mem \in [Slots -> BOOLEAN]
    /\ depth_r \in 0 .. DEPTH
    /\ wake_valid \in BOOLEAN
    /\ wake_id \in ID

(* Every wire and register keeps its width; the occupancy counter never    *)
(* leaves 0 .. DEPTH although push and pop may happen on the same edge.    *)
TypeOK == InputsOK /\ RegsOK

-----------------------------------------------------------------------------
(* Step 1: on a tick every valid, non-zero count is decremented. *)
Ticked_stopsAtOne ==   \* mutant: the last tick is not counted
    [i \in Slots |-> IF tick /\ valid_mem[i] /\ cnt_mem[i] > 1
                     THEN cnt_mem[i] - 1 ELSE cnt_mem[i]]
Ticked ==
    [i \in Slots |-> IF tick /\ valid_mem[i] /\ cnt_mem[i] # 0
                     THEN cnt_mem[i] - 1 ELSE cnt_mem[i]]

(* Step 2: the head wakes once its count is zero, with or without a tick. *)
HeadExpired_onTick ==   \* mutant: waits for the next tick
    tick /\ depth_r # 0 /\ valid_mem[0] /\ Ticked[0] = 0
HeadExpired == depth_r # 0 /\ valid_mem[0] /\ Ticked[0] = 0

DepthAfterWake == IF HeadExpired THEN depth_r - 1 ELSE depth_r

(* The column f of the array, shifted left by one when the head wakes. *)
AfterWake(f, empty) ==
    IF HeadExpired
    THEN [i \in Slots |-> IF i < DepthAfterWake THEN f[i + 1]
                          ELSE IF i = DepthAfterWake THEN empty ELSE f[i]]
    ELSE f

IdsLeft    == AfterWake(id_mem, NoId)
CountsLeft == AfterWake(Ticked, 0)
ValidLeft_kept == AfterWake(valid_mem, TRUE)   \* mutant: entry not vacated
ValidLeft  == AfterWake(valid_mem, FALSE)

(* Step 3: a new entry goes before the first longer count, behind equals. *)
Beaten_stale(i) ==   \* mutant: compares with the array before the shift
    i < DepthAfterWake /\ enq_count < cnt_mem[i]
Beaten_ties(i) ==    \* mutant: a tie goes to the newcomer
    i < DepthAfterWake /\ enq_count <= CountsLeft[i]
Beaten(i) == i < DepthAfterWake /\ enq_count < CountsLeft[i]

IsInsertPos(p) ==
    /\ p \in 0 .. DepthAfterWake
    /\ \A i \in Slots : i < p => ~Beaten(i)
    /\ p < DepthAfterWake => Beaten(p)

InsertPos == CHOOSE p \in 0 .. DepthAfterWake : IsInsertPos(p)

InsertAt_short(f, p, new) ==   \* mutant: the shift stops one entry early
    [i \in Slots |-> IF i = p THEN new
                     ELSE IF p < i /\ i < DepthAfterWake THEN f[i - 1]
                     ELSE f[i]]
InsertAt(f, p, new) ==
    [i \in Slots |-> IF i = p THEN new
                     ELSE IF p < i /\ i <= DepthAfterWake THEN f[i - 1]
                     ELSE f[i]]

HasRoom_unchecked == TRUE   \* mutant: no overflow guard
HasRoom == DepthAfterWake < DEPTH
-----------------------------------------------------------------------------
Empty ==
    /\ id_mem = [i \in Slots |-> NoId]
    /\ cnt_mem = [i \in Slots |-> 0]
    /\ valid_mem = [i \in Slots |-> FALSE]
    /\ depth_r = 0 /\ wake_valid = FALSE /\ wake_id = NoId

(* A flush empties the array and cancels the wake of the same edge. *)
FlushAll ==
    /\ flush
    /\ id_mem' = [i \in Slots |-> NoId]
    /\ cnt_mem' = [i \in Slots |-> 0]
    /\ valid_mem' = [i \in Slots |-> FALSE]
    /\ depth_r' = 0 /\ wake_valid' = FALSE /\ wake_id' = NoId

(* Without an accepted entry: tick, then wake the head if it expired. *)
Advance ==
    /\ ~flush /\ ~(enqueue /\ HasRoom)
    /\ wake_valid' = HeadExpired
    /\ wake_id' = IF HeadExpired THEN id_mem[0] ELSE wake_id
    /\ id_mem' = IdsLeft /\ cnt_mem' = CountsLeft /\ valid_mem' = ValidLeft
    /\ depth_r' = DepthAfterWake

(* With an accepted entry: tick, wake, then insert, all on the same edge. *)
AdvanceAndInsert ==
    /\ ~flush /\ enqueue /\ HasRoom
    /\ wake_valid' = HeadExpired
    /\ wake_id' = IF HeadExpired THEN id_mem[0] ELSE wake_id
    /\ id_mem' = InsertAt(IdsLeft, InsertPos, enq_id)
    /\ cnt_mem' = InsertAt(CountsLeft, InsertPos, enq_count)
    /\ valid_mem' = InsertAt(ValidLeft, InsertPos, TRUE)
    /\ depth_r' = DepthAfterWake + 1

Step == FlushAll \/ Advance \/ AdvanceAndInsert
-----------------------------------------------------------------------------
DriveInputs ==
    /\ flush' \in BOOLEAN /\ enqueue' \in BOOLEAN /\ tick' \in BOOLEAN
    /\ enq_id' \in ID /\ enq_count' \in Counts

Init == Empty /\ InputsOK
Next == \/ FlushAll /\ DriveInputs
        \/ Advance /\ DriveInputs
        \/ AdvanceAndInsert /\ DriveInputs
Spec == Init /\ [][Next]_vars
-----------------------------------------------------------------------------
(* The valid entries are exactly the first depth_r ones: the three shifting *)
(* loops agree on where the array ends, so no hole hides a sleeper and no   *)
(* stale entry is behind the end.                                           *)
Packed == \A i \in Slots : valid_mem[i] <=> i < depth_r

(* Counts ascend, so looking at entry 0 alone (HeadExpired) finds every     *)
(* expired entry before any other, across simultaneous tick, pop and insert. *)
Sorted ==
    \A i, j \in Slots : i < j /\ j < depth_r => cnt_mem[i] <= cnt_mem[j]

(* Wherever in the array an entry expires, a wake follows on that very edge *)
(* (rtl/sleep_queue.v:63-65): looking at entry 0 alone delays nobody.       *)
ExpiryWakes ==
    [][~flush /\ (\E i \in Slots : valid_mem[i] /\ Ticked[i] = 0)
       => wake_valid']_vars
=============================================================================
