----------------------------- MODULE MCFirmware -----------------------------
(* Constants for model checking Firmware. *)
EXTENDS Firmware

(* The tasks of app_main, with their 1000 and 200 ticks scaled down. *)
Task1 == [task_id |-> 1, priority |-> 1, period |-> 3, deadline |-> 3, wcet |-> 1]
Task2 == [task_id |-> 2, priority |-> 2, period |-> 1, deadline |-> 1, wcet |-> 1]
Mask    == {0}
AllFast == {Mask}
AnyIrq  == {{}, {0}}
NoIrq   == {{}}
=============================================================================
