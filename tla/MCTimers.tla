------------------------------ MODULE MCTimers ------------------------------
(***************************************************************************)
(* Model checking of the timer in its two forms: as the bench's simulation *)
(* runs it (MCTimerSim), and as a block of the chip next to the interrupt  *)
(* controller (MCPeripherals).  The two share no state, so one behaviour   *)
(* checks both, one after the other: while the bench runs, the chip's      *)
(* blocks are in reset with their input wires low; when the program is     *)
(* over, their clock starts and never stops.                               *)
(***************************************************************************)
EXTENDS MCTimerSim, MCPeripherals

WiresLow == ~enable /\ tick_divider = 0 /\ ext_irq = {} /\ fast_mask = {}
Over == region \in {"exit", "fatal"}

TimersInit == SimInit /\ BothInit /\ WiresLow
TimersNext == \/ SimNext /\ UNCHANGED allVars
              \/ Over /\ BothNext /\ UNCHANGED simVars
(* A program that is not stopped, and a clock. *)
TimersSpec == TimersInit /\ [][TimersNext]_<<simVars, allVars>>
                         /\ WF_<<simVars, allVars>>(TimersNext)
=============================================================================
