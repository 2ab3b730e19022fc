----------------------------- MODULE TickTimer -----------------------------
(* rtl/timer.v: the down-counter that divides the clock into ticks. *)
EXTENDS Integers

CONSTANTS Dividers     \* values of tick_divider
ASSUME DividersAssumption == Dividers \subseteq Nat

VARIABLES enable, tick_divider,        \* input wires
          tick_counter, tick_pulse     \* registers

inputs == <<enable, tick_divider>>
vars   == <<inputs, tick_counter, tick_pulse>>

PowerOn == tick_counter = 0 /\ tick_pulse = FALSE

Reload == tick_counter' = tick_divider

(* Disabled: hold the counter at the divider. *)
Stopped_holding ==   \* mutant: a stopped counter is not reloaded
    ~enable /\ UNCHANGED tick_counter /\ tick_pulse' = FALSE
Stopped == ~enable /\ Reload /\ tick_pulse' = FALSE
(* Counter expired: pulse and reload, one clock of its own. *)
Pulse == enable /\ tick_counter = 0 /\ Reload /\ tick_pulse' = TRUE
Count_reloadingEarly ==   \* mutant: reloads at one, without a pulse
    /\ enable /\ tick_counter # 0
    /\ tick_counter' = IF tick_counter = 1 THEN tick_divider ELSE tick_counter - 1
    /\ tick_pulse' = FALSE
Count ==
    /\ enable /\ tick_counter # 0
    /\ tick_counter' = tick_counter - 1 /\ tick_pulse' = FALSE

Step == Stopped \/ Pulse \/ Count
-----------------------------------------------------------------------------
DriveInputs == enable' \in BOOLEAN /\ tick_divider' \in Dividers

Init == PowerOn /\ enable \in BOOLEAN /\ tick_divider \in Dividers
Next == \/ Stopped /\ DriveInputs
        \/ Pulse /\ DriveInputs
        \/ Count /\ DriveInputs
Spec == Init /\ [][Next]_vars

=============================================================================
