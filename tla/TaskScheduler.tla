--------------------------- MODULE TaskScheduler ---------------------------
(***************************************************************************)
(* What the chip promises a host that waits between its calls and makes    *)
(* only calls that suit the tasks: task states, sleeping times and the     *)
(* running task, without queues, ports or clocks.                          *)
(*   - a task changes its state only by a call for it or by waking, and    *)
(*     only along the arrows below (docs/arch.md, task states);            *)
(*   - a sleeper wakes after as many ticks as were asked for, not before,  *)
(*     and once they are over it does wake; ticks count for all sleepers;  *)
(*   - only a ready task is dispatched; that does not touch the others,    *)
(*     nor the state of the task that ran until then.                      *)
(***************************************************************************)
EXTENDS Integers

CONSTANTS ID, NoTask, Counts

VARIABLES status, left, current

vars == <<status, left, current>>

Deleted   == 0
Suspended == 1
Ready     == 2
Running   == 3
Sleeping  == 4

Init == /\ status = [id \in ID |-> Deleted] /\ left = [id \in ID |-> 0]
        /\ current = NoTask

Turn(id, from, to) == status[id] \in from /\ status' = [status EXCEPT ![id] = to]

Create(id)  == Turn(id, {Deleted}, Suspended) /\ UNCHANGED <<left, current>>
Delete(id)  == Turn(id, {Suspended}, Deleted) /\ UNCHANGED <<left, current>>
Resume(id)  == Turn(id, {Suspended}, Ready) /\ UNCHANGED <<left, current>>
Suspend(id) == Turn(id, {Running}, Suspended) /\ UNCHANGED <<left, current>>

Activate(id) ==
    Turn(id, {Ready}, Running) /\ current' = id /\ UNCHANGED left

(* SLEEP and SSLEEP with a count, YIELD with the period. *)
Sleep(id) ==
    /\ Turn(id, {Running}, Sleeping) /\ UNCHANGED current
    /\ \E n \in Counts : left' = [left EXCEPT ![id] = n]

OneTickLess == [id \in ID |-> IF left[id] = 0 THEN 0 ELSE left[id] - 1]

Tick == left' = OneTickLess /\ UNCHANGED <<status, current>>

(* A tick may fall on the clock in which a task wakes. *)
Wake(id) ==
    /\ Turn(id, {Sleeping}, Ready) /\ left[id] = 0 /\ UNCHANGED current
    /\ left' \in {left, OneTickLess}

Reset ==
    /\ status' = [id \in ID |-> Deleted] /\ left' = [id \in ID |-> 0]
    /\ current' = NoTask

Next == \/ \E id \in ID : \/ Create(id) \/ Delete(id) \/ Resume(id) \/ Suspend(id)
                          \/ Activate(id) \/ Sleep(id) \/ Wake(id)
        \/ Tick \/ Reset

Spec == Init /\ [][Next]_vars /\ \A id \in ID : WF_vars(Wake(id))
=============================================================================
