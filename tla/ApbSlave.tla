------------------------------ MODULE ApbSlave ------------------------------
(***************************************************************************)
(* rtl/harts_apb_slave.v: the register file in front of the control unit.  *)
(* A write beat (write_phase of the access cycle) latches the word and     *)
(* arms its valid pulse, which follows one cycle later; a beat that falls  *)
(* into an armed cycle is not looked at.  Reads and PSLVERR change nothing *)
(* and are left out.  The APB master is in HwScheduler.                    *)
(***************************************************************************)
CONSTANTS ZeroWord1, ZeroWord2,   \* the command registers after reset
          NeedsWord2   \* the opcodes the slave decodes as two-word

VARIABLES write_phase, addr_lo, PWDATA,   \* input wires
          cmd_valid, cmd_word, cmd_word2_valid, cmd_word2,
          slv_pending_word2, arm_cmd_valid, arm_word2_valid

PowerOn ==
    /\ cmd_valid = FALSE /\ cmd_word = ZeroWord1
    /\ cmd_word2_valid = FALSE /\ cmd_word2 = ZeroWord2
    /\ slv_pending_word2 = FALSE /\ arm_cmd_valid = FALSE /\ arm_word2_valid = FALSE

Accepts(a) == ~arm_cmd_valid /\ ~arm_word2_valid /\ write_phase /\ addr_lo = a

(* The armed pulses; the command goes first. *)
PulseCommand_repeating ==   \* mutant: the armed pulse is not cleared
    /\ arm_cmd_valid
    /\ cmd_valid' = TRUE /\ cmd_word2_valid' = FALSE
    /\ UNCHANGED <<cmd_word, cmd_word2, slv_pending_word2, arm_word2_valid, arm_cmd_valid>>
PulseCommand ==
    /\ arm_cmd_valid
    /\ cmd_valid' = TRUE /\ arm_cmd_valid' = FALSE /\ cmd_word2_valid' = FALSE
    /\ UNCHANGED <<cmd_word, cmd_word2, slv_pending_word2, arm_word2_valid>>

PulseWord2_sticky ==   \* mutant: the pending bit is not cleared
    /\ ~arm_cmd_valid /\ arm_word2_valid
    /\ cmd_word2_valid' = TRUE /\ arm_word2_valid' = FALSE /\ cmd_valid' = FALSE
    /\ UNCHANGED <<cmd_word, cmd_word2, slv_pending_word2, arm_cmd_valid>>
PulseWord2 ==
    /\ ~arm_cmd_valid /\ arm_word2_valid
    /\ cmd_word2_valid' = TRUE /\ arm_word2_valid' = FALSE /\ cmd_valid' = FALSE
    /\ slv_pending_word2' = FALSE
    /\ UNCHANGED <<cmd_word, cmd_word2, arm_cmd_valid>>

WriteW1 ==
    /\ Accepts("CMD_W1")
    /\ cmd_word' = PWDATA /\ arm_cmd_valid' = TRUE
    /\ slv_pending_word2' = (slv_pending_word2 \/ PWDATA.op \in NeedsWord2)
    /\ cmd_valid' = FALSE /\ cmd_word2_valid' = FALSE
    /\ UNCHANGED <<cmd_word2, arm_word2_valid>>

WriteW2 ==
    /\ Accepts("CMD_W2")
    /\ cmd_word2' = PWDATA /\ arm_word2_valid' = TRUE
    /\ cmd_valid' = FALSE /\ cmd_word2_valid' = FALSE
    /\ UNCHANGED <<cmd_word, slv_pending_word2, arm_cmd_valid>>

(* No beat, or a beat at a read-only or unmapped address. *)
NoBeat ==
    /\ ~arm_cmd_valid /\ ~arm_word2_valid
    /\ ~(write_phase /\ addr_lo \in {"CMD_W1", "CMD_W2"})
    /\ cmd_valid' = FALSE /\ cmd_word2_valid' = FALSE
    /\ UNCHANGED <<cmd_word, cmd_word2, slv_pending_word2,
                   arm_cmd_valid, arm_word2_valid>>

Step == PulseCommand \/ PulseWord2 \/ WriteW1 \/ WriteW2 \/ NoBeat
=============================================================================
