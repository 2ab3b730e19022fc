------------------------- MODULE Peripherals_proofs -------------------------
(* The timer's period, for every set of dividers. *)
EXTENDS MCPeripherals, TLAPS

(* The counter holds what is left of the divider that was loaded last. *)
Remaining ==
    /\ tick_divider \in Nat /\ tick_counter \in Nat /\ loaded \in Nat
    /\ age \in Nat /\ tick_counter + age = loaded

LEMMA InitRemaining ==
    ASSUME BothInit
    PROVE  Remaining
BY DividersAssumption DEF BothInit, Init, PowerOn, Remaining

LEMMA RemainingKept ==
    ASSUME Remaining, BothNext
    PROVE  Remaining'
<1> USE DEF Remaining
<1>1. tick_divider' \in Nat /\ Measure
  BY DividersAssumption DEF BothNext, Next, DriveInputs
<1>2. CASE Stopped \/ Pulse
  BY <1>1, <1>2 DEF Stopped, Pulse, Reload, Measure, Reloads
<1>3. CASE Count
  BY <1>1, <1>3 DEF Count, Measure, Reloads
<1> QED  BY <1>2, <1>3 DEF BothNext, Next

LEMMA PulseAtTheEnd ==
    ASSUME Remaining, BothNext
    PROVE  tick_pulse' <=> enable /\ age = loaded
BY DEF Remaining, BothNext, Next, Stopped, Pulse, Count

(* The timer pulses one clock after as many clocks as the divider loaded   *)
(* last, never earlier or later, whatever OP_CONFIG writes meanwhile.      *)
THEOREM PeriodKept == BothSpec => PulseOnSchedule
<1>1. BothInit => Remaining
  BY InitRemaining
<1>2. Remaining /\ [BothNext]_allVars => Remaining'
  BY RemainingKept DEF allVars, vars, inputs, Remaining
<1>3. Remaining /\ [BothNext]_allVars
      => [tick_pulse' <=> enable /\ age = loaded]_allVars
  BY PulseAtTheEnd
<1> QED  BY <1>1, <1>2, <1>3, PTL DEF BothSpec, PulseOnSchedule
=============================================================================
