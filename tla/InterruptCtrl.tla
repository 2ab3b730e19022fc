--------------------------- MODULE InterruptCtrl ---------------------------
(* rtl/interrupt_ctrl.v: turns the external lines into a pending pulse. *)
EXTENDS Integers

CONSTANTS NUM_IRQ      \* number of external lines

VARIABLES ext_irq, fast_mask,                  \* input wires: sets of lines
          irq_pending, fast_irq, irq_index     \* registers

inputs == <<ext_irq, fast_mask>>
vars   == <<inputs, irq_pending, fast_irq, irq_index>>

Lines == 0 .. NUM_IRQ - 1

PowerOn == irq_pending = FALSE /\ fast_irq = FALSE /\ irq_index = 0

(* The loop's last non-blocking assignment stands: the highest line wins. *)
Winner_lowest ==   \* mutant: the first line found stands
    CHOOSE i \in ext_irq : \A j \in ext_irq : i <= j
Winner == CHOOSE i \in ext_irq : \A j \in ext_irq : j <= i

Report ==
    /\ ext_irq # {} /\ ~irq_pending
    /\ irq_pending' = TRUE
    /\ fast_irq' = (Winner \in fast_mask) /\ irq_index' = Winner

(* No line is up, or the previous cycle reported one. *)
Quiet ==
    /\ ext_irq = {} \/ irq_pending
    /\ irq_pending' = FALSE /\ fast_irq' = FALSE /\ irq_index' = 0

Step == Report \/ Quiet
-----------------------------------------------------------------------------
DriveInputs == ext_irq' \in SUBSET Lines /\ fast_mask' \in SUBSET Lines

Init == PowerOn /\ ext_irq \in SUBSET Lines /\ fast_mask \in SUBSET Lines
Next == \/ Report /\ DriveInputs
        \/ Quiet /\ DriveInputs
Spec == Init /\ [][Next]_vars
=============================================================================
