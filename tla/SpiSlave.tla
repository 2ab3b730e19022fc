------------------------------ MODULE SpiSlave ------------------------------
(***************************************************************************)
(* rtl/legacy/spi_slave_if.v, clock by clock.  The registers are updated   *)
(* by independent conditions on one edge; a shift register is the set of   *)
(* its one bits.                                                           *)
(***************************************************************************)
EXTENDS Integers

VARIABLES sclk, cs_n, mosi, rsp_word,                     \* input wires
          miso, cmd_valid, cmd_word, rx_shift, tx_shift,  \* registers
          bit_count, sclk_d, cs_d

regs == <<miso, cmd_valid, cmd_word, rx_shift, tx_shift, bit_count, sclk_d, cs_d>>

PowerOn ==
    /\ rx_shift = {} /\ tx_shift = {} /\ cmd_word = {} /\ cmd_valid = FALSE
    /\ bit_count = 0 /\ miso = FALSE /\ sclk_d = FALSE /\ cs_d = TRUE

sclk_rise == sclk /\ ~sclk_d
sclk_fall == ~sclk /\ sclk_d
cs_fall   == ~cs_n /\ cs_d
cs_rise   == cs_n /\ ~cs_d

Shl(r, low_bit) == {i + 1 : i \in r \ {31}} \cup (IF low_bit THEN {0} ELSE {})

(* Mode 0: take in a bit when the clock rises. *)
ShiftIn_uncleared ==   \* mutant: bits of the last transfer are counted
    IF ~cs_n /\ sclk_rise
    THEN rx_shift' = Shl(rx_shift, mosi) /\ bit_count' = (bit_count + 1) % 64
    ELSE UNCHANGED <<rx_shift, bit_count>>
ShiftIn ==
    IF ~cs_n /\ sclk_rise
    THEN rx_shift' = Shl(rx_shift, mosi) /\ bit_count' = (bit_count + 1) % 64
    ELSE UNCHANGED rx_shift /\ bit_count' = (IF cs_fall THEN 0 ELSE bit_count)

(* The answer is loaded when the transfer begins; its first bit reaches    *)
(* miso only when the clock falls for the first time.                      *)
ShiftOut ==
    IF ~cs_n /\ sclk_fall
    THEN miso' = (31 \in tx_shift) /\ tx_shift' = Shl(tx_shift, FALSE)
    ELSE UNCHANGED miso /\ tx_shift' = (IF cs_fall THEN rsp_word ELSE tx_shift)

(* Only a transfer of exactly 32 bits is a command. *)
Complete_always == cs_rise   \* mutant: partial transfers count
Complete == cs_rise /\ bit_count = 32

HandOver ==
    /\ cmd_valid' = Complete
    /\ cmd_word' = IF Complete THEN rx_shift ELSE cmd_word

Step == ShiftIn /\ ShiftOut /\ HandOver /\ sclk_d' = sclk /\ cs_d' = cs_n
=============================================================================
