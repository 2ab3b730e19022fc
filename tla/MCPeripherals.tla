--------------------------- MODULE MCPeripherals ---------------------------
(***************************************************************************)
(* Model checking of the two blocks in front of the control unit that no   *)
(* other block feeds, the timer and the interrupt controller, side by side *)
(* on one clock.  Two history variables: the divider of the timer's last   *)
(* reload and the clock edges since (counted until they exceed it).        *)
(***************************************************************************)
EXTENDS TickTimer

CONSTANTS NUM_IRQ

VARIABLES ext_irq, fast_mask, irq_pending, fast_irq, irq_index, loaded, age

IrqCtrl == INSTANCE InterruptCtrl

irqVars == <<ext_irq, fast_mask, irq_pending, fast_irq, irq_index>>
allVars == <<vars, irqVars, loaded, age>>

Reloads == ~enable \/ tick_counter = 0
Measure == IF Reloads THEN loaded' = tick_divider /\ age' = 0
           ELSE UNCHANGED loaded /\ age' = IF age > loaded THEN age ELSE age + 1

BothInit == Init /\ IrqCtrl!Init /\ loaded = 0 /\ age = 0
BothNext == Next /\ IrqCtrl!Next /\ Measure
(* The clock never stops. *)
BothSpec == BothInit /\ [][BothNext]_allVars /\ WF_allVars(BothNext)

(* A pulse comes exactly one more clock after the reload than the divider  *)
(* that was loaded then, and at no other time, whatever OP_CONFIG writes   *)
(* into tick_divider in between: the period in force is never cut short    *)
(* nor stretched.                                                          *)
PulseOnSchedule == [][tick_pulse' <=> enable /\ age = loaded]_allVars

(* As long as the timer stays enabled it keeps pulsing, even if the        *)
(* divider is rewritten again and again.                                   *)
KeepsPulsing == <>[]enable => []<>tick_pulse

(* A line that stays up is reported again and again, as long as no higher  *)
(* line is up for good: the one-clock pause after every report and lower   *)
(* lines that come and go do not hide it.                                  *)
HeldLineIsReported ==
    \A i \in IrqCtrl!Lines :
        <>[](i \in ext_irq /\ \A j \in ext_irq : j <= i)
        => []<>(irq_pending /\ irq_index = i)
=============================================================================
