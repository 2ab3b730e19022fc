------------------------------ MODULE SpiLink ------------------------------
(***************************************************************************)
(* The driver's transfers over the legacy SPI slave: HartsDriver above,    *)
(* the ESP-IDF SPI master (external) on the wires, SpiSlave below, all on  *)
(* the slave's clock.  The master is in mode 0 (scheduler.c: devcfg.mode): *)
(* it presents a bit before the clock rises and samples miso as it rises.  *)
(* Half an SPI clock lasts MinHalf to MaxHalf slave clocks, which jitter.  *)
(* The host may restart within a transfer; its pins then go idle.          *)
(***************************************************************************)
EXTENDS HartsDriver

CONSTANTS Calls,      \* calls made: [sends : words, means : what each asks for]
          Answers,    \* what the control unit may answer to a command
          MinHalf, MaxHalf,
          Gap,        \* clocks cs_n stays high between two transfers, at least
          MaxCalls,   \* bound: calls
          MaxRestarts \* bound: restarts of the host

(* The slave looks at every phase of the SPI clock and at every pause.     *)
ASSUME ClockAssumption == MinHalf \in Nat \ {0} /\ Gap \in Nat \ {0}
ASSUME WordsAssumption ==
    /\ Answers \subseteq SUBSET (0 .. 31)
    /\ \A c \in Calls : c.sends \in Seq(SUBSET (0 .. 31)) /\ c.sends # <<>>

VARIABLES sclk, cs_n, mosi, rsp_word, miso, cmd_valid, cmd_word, rx_shift,
          tx_shift, bit_count, sclk_d, cs_d,      \* the slave, see SpiSlave
          call, nth,      \* the call under way and its transfer
          idx, arrived,   \* rising edges so far, bits sampled at them
          age,            \* clocks since the master changed a wire
          made, restarts, \* what the bounds count
          ended           \* <<what the last transfer means>>, <<>> if it was cut short

slave  == <<miso, cmd_valid, cmd_word, rx_shift, tx_shift, bit_count, sclk_d, cs_d>>
wires  == <<sclk, cs_n, mosi>>
master == <<call, nth, idx, arrived, age, made, restarts, ended>>
vars   == <<slave, wires, rsp_word, master>>

S == INSTANCE SpiSlave

NoCall == [sends |-> <<>>, means |-> <<>>]
tx_word == call.sends[nth]
Moved == age' = 0
-----------------------------------------------------------------------------
Call ==
    /\ cs_n /\ call = NoCall /\ made < MaxCalls /\ made' = made + 1
    /\ call' \in Calls /\ nth' = 1
    /\ age' = (IF age < Gap THEN age + 1 ELSE age)
    /\ UNCHANGED <<wires, idx, arrived, restarts, ended>>

Select ==
    /\ cs_n /\ call # NoCall /\ age = Gap /\ Moved
    /\ cs_n' = FALSE /\ mosi' = WireBit(tx_word, 0) /\ idx' = 0 /\ arrived' = <<>>
    /\ UNCHANGED <<sclk, call, nth, made, restarts, ended>>

Rise ==
    /\ ~cs_n /\ ~sclk /\ idx < 32 /\ age >= MinHalf /\ Moved
    /\ sclk' = TRUE /\ arrived' = Append(arrived, miso) /\ idx' = idx + 1
    /\ UNCHANGED <<cs_n, mosi, call, nth, made, restarts, ended>>

Fall ==
    /\ ~cs_n /\ sclk /\ age >= MinHalf /\ Moved
    /\ sclk' = FALSE /\ mosi' = IF idx < 32 THEN WireBit(tx_word, idx) ELSE mosi
    /\ UNCHANGED <<cs_n, call, nth, idx, arrived, made, restarts, ended>>

Advance == IF nth < Len(call.sends) THEN nth' = nth + 1 /\ UNCHANGED call
                                    ELSE nth' = 0 /\ call' = NoCall
Deselect ==
    /\ ~cs_n /\ ~sclk /\ idx = 32 /\ age >= MinHalf /\ Moved
    /\ cs_n' = TRUE /\ Advance /\ ended' = <<call.means[nth]>>
    /\ UNCHANGED <<sclk, mosi, idx, arrived, made, restarts>>

Restart ==
    /\ ~cs_n /\ restarts < MaxRestarts /\ restarts' = restarts + 1 /\ Moved
    /\ cs_n' = TRUE /\ sclk' = FALSE /\ call' = NoCall /\ nth' = 0
    /\ ended' = IF idx = 32 THEN <<call.means[nth]>> ELSE <<>>
    /\ UNCHANGED <<mosi, idx, arrived, made>>

Hold ==
    /\ ~cs_n => age < MaxHalf
    /\ age' = (IF cs_n /\ age = Gap THEN age ELSE age + 1)
    /\ UNCHANGED <<wires, call, nth, idx, arrived, made, restarts, ended>>
-----------------------------------------------------------------------------
(* The control unit answers a command in the clock after it. *)
Respond == IF cmd_valid THEN rsp_word' \in Answers ELSE UNCHANGED rsp_word

Init ==
    /\ S!PowerOn /\ sclk = FALSE /\ cs_n = TRUE /\ mosi = FALSE /\ rsp_word = {}
    /\ call = NoCall /\ nth = 0 /\ idx = 0 /\ arrived = <<>> /\ age = 0
    /\ made = 0 /\ restarts = 0 /\ ended = <<>>

Next == /\ S!Step /\ Respond
        /\ Call \/ Select \/ Rise \/ Fall \/ Deselect \/ Restart \/ Hold
Spec == Init /\ [][Next]_vars
-----------------------------------------------------------------------------
(* What the slave hands over, read the way the last transfer was meant.    *)
Read(w, n) == [word |-> n, asks |-> IF n = 1 THEN DecodeWord1(w) ELSE DecodeWord2(w)]
Handed ==
    IF ~cmd_valid THEN <<>>
    ELSE IF ended = <<>> THEN <<"stray">>
    ELSE <<Read(cmd_word, ended[1].word)>>
(* Each word of a call, read that way, asks for what the call means.       *)
WellCoded == \A c \in Calls : \A n \in 1 .. Len(c.sends) :
                c.means[n] = Read(c.sends[n], c.means[n].word)

Channel == INSTANCE CommandChannel WITH
    offered   <- IF cs_n /\ ~cs_d THEN ended ELSE <<>>,
    inTransit <- <<>>,
    handed    <- Handed

(* The driver's packing, the bit order on the wire, the shifting and the   *)
(* control unit's field positions agree: every call arrives as what its    *)
(* arguments ask for, once and in order, and a transfer that a restart of  *)
(* the host cuts short arrives not at all, nor does it disturb the next.   *)
CallsArrive == Channel!Spec

(* The driver's claim (scheduler.c:38-40, scheduler.h:78): what the host    *)
(* receives in a transfer is the answer to the command of the transfer     *)
(* before, so the word a NOP reads after a QUERY is the QUERY's answer.    *)
JustRead == cs_n /\ ~cs_d /\ ended # <<>>
AnswerIsRead == JustRead => rx_word(arrived) = rsp_word

(* What the code does instead: the lower 31 bits the host receives are the *)
(* upper part of that answer, one bit late, because the slave presents bit *)
(* 31 when the clock falls first, after the master has sampled.            *)
AnswerIsShifted ==
    JustRead => rx_word(arrived) \ {31} = {i - 1 : i \in rsp_word \ {0}}

(* So the claim fails for every answer that has two different bits side by *)
(* side, which is every one but all zeros and all ones.                    *)
NeverAsStored ==
    JustRead /\ (\E i \in 0 .. 30 : (i \in rsp_word) # (i + 1 \in rsp_word))
    => rx_word(arrived) # rsp_word

(* However a transfer ends, in order or by a restart of the host, the      *)
(* slave takes it for a command just if all 32 bits were clocked, and then *)
(* holds the word that was sent, whatever was left over from the last one. *)
ReceivedAsSent ==
    [][~cs_n /\ cs_n' => /\ (bit_count' = 32) = (idx = 32)
                         /\ (idx = 32 => rx_shift' = tx_word)]_vars
=============================================================================
