------------------------------ MODULE SleepBag ------------------------------
(***************************************************************************)
(* What the sleep queue promises, without an array or an order: a bag of   *)
(* sleepers, each with the number of ticks it still has to sleep.          *)
(*   - every tick brings every sleeper one tick closer, none is skipped;   *)
(*   - a sleeper wakes when it has no tick left, never before;             *)
(*   - whenever some sleeper has no tick left, one of them wakes on the    *)
(*     very next clock edge, tick or no tick;                              *)
(*   - a sleeper offered while there is room is always taken, and a sleeper *)
(*     leaves only by waking or by a flush.                                *)
(***************************************************************************)
EXTENDS Integers

CONSTANTS Capacity, ID, MaxCount

VARIABLES flush, enqueue, tick, enq_id, enq_count,   \* input wires
          sleepers,    \* how often each <<id, ticks left>> is in the queue
          size,        \* how many sleepers that makes
          woken        \* the identifiers announced by the last edge: {} or {id}

vars == <<flush, enqueue, tick, enq_id, enq_count, sleepers, size, woken>>

Items  == ID \X (0 .. MaxCount)
Nobody == [s \in Items |-> 0]

(* After a tick, those with n ticks left are those that had n + 1, and the *)
(* expired ones that are still waiting to be woken.                        *)
Waiting(s) == IF s[2] = 0 THEN sleepers[s] ELSE 0
Closer(s)  == IF s[2] < MaxCount THEN sleepers[<<s[1], s[2] + 1>>] ELSE 0

Aged == IF tick THEN [s \in Items |-> Waiting(s) + Closer(s)] ELSE sleepers

Expired(bag) == {s \in Items : s[2] = 0 /\ bag[s] > 0}

Holds(b, n) == sleepers' = b /\ size' = n

Take(b, n) ==
    IF enqueue /\ n < Capacity
    THEN Holds([b EXCEPT ![<<enq_id, enq_count>>] = @ + 1], n + 1)
    ELSE Holds(b, n)

Flush == flush /\ Holds(Nobody, 0) /\ woken' = {}

Wake(aged) ==
    /\ ~flush
    /\ \E s \in Expired(aged) :
          woken' = {s[1]} /\ Take([aged EXCEPT ![s] = @ - 1], size - 1)

Sleep(aged) == ~flush /\ Expired(aged) = {} /\ woken' = {} /\ Take(aged, size)

DriveInputs ==
    /\ flush' \in BOOLEAN /\ enqueue' \in BOOLEAN /\ tick' \in BOOLEAN
    /\ enq_id' \in ID /\ enq_count' \in 0 .. MaxCount

Init == sleepers = Nobody /\ size = 0 /\ woken = {}
Next == (Flush \/ Wake(Aged) \/ Sleep(Aged)) /\ DriveInputs
Spec == Init /\ [][Next]_vars
=============================================================================
