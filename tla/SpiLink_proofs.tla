--------------------------- MODULE SpiLink_proofs ---------------------------
(* The wire between driver and slave, for all words and every SPI clock the *)
(* slave can follow.                                                        *)
EXTENDS SpiLink, TLAPS

One(b) == IF b THEN 1 ELSE 0
Bit == 0 .. 31

(* What the slave has seen: rising edges, and falling edges it has served. *)
seen == idx - One(sclk /\ ~sclk_d)
out  == idx - One(sclk \/ sclk_d)

TypesOK ==
    /\ sclk \in BOOLEAN /\ cs_n \in BOOLEAN /\ sclk_d \in BOOLEAN /\ cs_d \in BOOLEAN
    /\ mosi \in BOOLEAN /\ miso \in BOOLEAN
    /\ age \in Nat /\ idx \in Nat /\ idx <= 32
    /\ arrived \in Seq(BOOLEAN) /\ Len(arrived) = idx
    /\ rsp_word \subseteq Bit /\ tx_shift \subseteq Bit /\ rx_shift \subseteq Bit
    /\ call # NoCall => call \in Calls /\ nth \in 1 .. Len(call.sends)

(* An edge of a wire is seen one clock later, before the wire moves again. *)
EdgesSeen ==
    /\ cs_n # cs_d => age = 0
    /\ sclk # sclk_d => age = 0
    /\ ~cs_n => call # NoCall
    /\ cs_n => ~sclk
    /\ cs_d => ~sclk /\ ~sclk_d
    /\ ~cs_n /\ cs_d => idx = 0
    /\ idx = 0 /\ ~cs_n => ~sclk /\ ~sclk_d
    /\ cmd_valid => cs_n /\ cs_d

Under == ~cs_n /\ ~cs_d

AnswerOut ==
    Under => /\ \A j \in Bit : j \in tx_shift <=> j - out \in rsp_word
             /\ out # 0 => (miso <=> 32 - out \in rsp_word)

Sampled ==
    (~cs_n \/ JustRead) => /\ cs_n => idx = 32
                           /\ \A n \in 2 .. idx : arrived[n] <=> 33 - n \in rsp_word

AnswerInv == TypesOK /\ EdgesSeen /\ AnswerOut /\ Sampled

WordIn ==
    /\ ~cs_n => /\ (sclk => (mosi <=> WireBit(tx_word, idx - 1)))
                /\ (~sclk /\ idx # 32 => (mosi <=> WireBit(tx_word, idx)))
    /\ Under => /\ bit_count = seen
                /\ \A i \in Bit : i < seen => (i \in rx_shift <=> i + 32 - seen \in tx_word)
-----------------------------------------------------------------------------
(* A shift moves every bit up by one and takes one in at the bottom. *)
LEMMA Shifted ==
    ASSUME NEW r \in SUBSET Bit, NEW b \in BOOLEAN
    PROVE  /\ S!Shl(r, b) \subseteq Bit
           /\ \A j \in Bit : j \in S!Shl(r, b) <=> IF j = 0 THEN b ELSE j - 1 \in r
<1>1. ASSUME NEW x \in S!Shl(r, b)
      PROVE  x \in Bit
  BY <1>1 DEF S!Shl, Bit
<1>2. ASSUME NEW j \in Bit
      PROVE  j \in S!Shl(r, b) <=> IF j = 0 THEN b ELSE j - 1 \in r
  <2>1. CASE j = 0
    BY <2>1 DEF S!Shl, Bit
  <2>2. CASE j # 0
    BY <2>2 DEF S!Shl, Bit
  <2> QED  BY <2>1, <2>2
<1> QED  BY <1>1, <1>2

(* Byte by byte, each from its top bit: bit 31 first, bit 0 last. *)
LEMMA TopBitFirst ==
    ASSUME NEW w \in SUBSET Bit, NEW j \in Bit
    PROVE  WireBit(w, j) <=> 31 - j \in w
<1> DEFINE k == j \div 8
<1>1. k \in 0 .. 3 /\ j % 8 \in 0 .. 7 /\ j = 8 * k + (j % 8)
  BY DEF Bit
<1>2. tx_data(w)[k] = {i \in 0 .. 7 : i + 8 * (3 - k) \in w}
  BY <1>1 DEF tx_data
<1>3. 7 - (j % 8) \in 0 .. 7 /\ (7 - (j % 8)) + 8 * (3 - k) = 31 - j
  BY <1>1
<1> QED  BY <1>2, <1>3 DEF WireBit

(* The master's steps that end a transfer, and those that move no wire. *)
LEMMA Ends ==
    ASSUME TypesOK, EdgesSeen, Deselect \/ Restart
    PROVE  /\ ~cs_n /\ cs_n' = TRUE /\ sclk' = FALSE /\ age' = 0
           /\ mosi' = mosi /\ idx' = idx /\ arrived' = arrived
           /\ call' # NoCall => call' \in Calls /\ nth' \in 1 .. Len(call'.sends)
           /\ ended' # <<>> <=> idx = 32
<1>1. CASE Deselect
  <2>1. call \in Calls /\ nth \in 1 .. Len(call.sends) /\ Len(call.sends) \in Nat
    BY <1>1, WordsAssumption DEF Deselect, TypesOK, EdgesSeen
  <2>2. Advance /\ ended' = <<call.means[nth]>>
    BY <1>1 DEF Deselect
  <2>3. call' # NoCall => call' \in Calls /\ nth' \in 1 .. Len(call'.sends)
    BY <2>1, <2>2 DEF Advance
  <2> QED  BY <1>1, <2>2, <2>3 DEF Deselect, Moved
<1>2. CASE Restart
  BY <1>2 DEF Restart, Moved
<1> QED  BY <1>1, <1>2

LEMMA Idles ==
    ASSUME TypesOK, Call \/ Hold
    PROVE  /\ cs_n' = cs_n /\ sclk' = sclk /\ mosi' = mosi
           /\ idx' = idx /\ arrived' = arrived /\ ended' = ended /\ age' \in Nat
           /\ call' # NoCall => call' \in Calls /\ nth' \in 1 .. Len(call'.sends)
           /\ ~cs_n => call' = call /\ nth' = nth
<1>1. CASE Call
  <2>1. call' \in Calls /\ nth' = 1 /\ cs_n
    BY <1>1 DEF Call
  <2>2. 1 \in 1 .. Len(call'.sends)
    BY <2>1, WordsAssumption
  <2> QED  BY <1>1, <2>1, <2>2 DEF Call, wires, TypesOK
<1>2. CASE Hold
  BY <1>2 DEF Hold, wires, TypesOK
<1> QED  BY <1>1, <1>2

(* The slave's registers after one clock. *)
LEMMA SlaveTypes ==
    ASSUME TypesOK, S!Step, Respond
    PROVE  /\ sclk_d' = sclk /\ cs_d' = cs_n /\ miso' \in BOOLEAN
           /\ rsp_word' \subseteq Bit /\ tx_shift' \subseteq Bit /\ rx_shift' \subseteq Bit
<1> USE DEF TypesOK
<1>1. sclk_d' = sclk /\ cs_d' = cs_n
  BY DEF S!Step
<1>2. rsp_word' \subseteq Bit
  BY WordsAssumption DEF Respond, Bit
<1>3. tx_shift' \subseteq Bit
  BY Shifted DEF S!Step, S!ShiftOut
<1>4. rx_shift' \subseteq Bit
  BY Shifted DEF S!Step, S!ShiftIn
<1>5. miso' \in BOOLEAN
  <2>1. (31 \in tx_shift) \in BOOLEAN
    OBVIOUS
  <2>2. miso' = (31 \in tx_shift) \/ miso' = miso
    BY DEF S!Step, S!ShiftOut
  <2> QED  BY <2>1, <2>2, Zenon
<1> QED  BY <1>1, <1>2, <1>3, <1>4, <1>5

LEMMA BitsOnTheWire == \A w, j : WireBit(w, j) \in BOOLEAN
<1>1. \A e, T : (e \in T) \in BOOLEAN
  OBVIOUS
<1> QED  BY <1>1 DEF WireBit

LEMMA TypesKept ==
    ASSUME TypesOK, EdgesSeen, Next
    PROVE  TypesOK'
<1>1. S!Step /\ Respond
  BY DEF Next
<1>2. /\ sclk_d' \in BOOLEAN /\ cs_d' \in BOOLEAN /\ miso' \in BOOLEAN
      /\ rsp_word' \subseteq Bit /\ tx_shift' \subseteq Bit /\ rx_shift' \subseteq Bit
  BY <1>1, SlaveTypes DEF TypesOK
<1>3. CASE Select
  <2>1. mosi' \in BOOLEAN
    BY <1>3, BitsOnTheWire DEF Select
  <2>2. /\ age' = 0 /\ cs_n' = FALSE /\ sclk' = sclk /\ idx' = 0
        /\ call' = call /\ nth' = nth
    BY <1>3 DEF Select, Moved
  <2>3. arrived' \in Seq(BOOLEAN) /\ Len(arrived') = idx'
    BY <1>3 DEF Select
  <2>4. age' \in Nat /\ idx' \in Nat /\ idx' <= 32
    BY <2>2
  <2>6. cs_n' \in BOOLEAN
    BY <2>2
  <2>7. sclk' \in BOOLEAN
    BY <2>2 DEF TypesOK
  <2>5. call' # NoCall => call' \in Calls /\ nth' \in 1 .. Len(call'.sends)
    BY <2>2 DEF TypesOK
  <2> QED  BY <1>2, <2>1, <2>3, <2>4, <2>5, <2>6, <2>7 DEF TypesOK
<1>4. CASE Rise
  <2>1. /\ age' = 0 /\ cs_n' = cs_n /\ sclk' = TRUE /\ mosi' = mosi /\ idx < 32
        /\ idx' = idx + 1 /\ arrived' = Append(arrived, miso) /\ call' = call /\ nth' = nth
    BY <1>4 DEF Rise, Moved
  <2>2. arrived' \in Seq(BOOLEAN) /\ Len(arrived') = idx'
    BY <2>1 DEF TypesOK
  <2> QED  BY <1>2, <2>1, <2>2 DEF TypesOK
<1>5. CASE Fall
  <2>1. mosi' \in BOOLEAN
    BY <1>5, BitsOnTheWire DEF Fall, TypesOK
  <2> QED  BY <1>2, <1>5, <2>1 DEF Fall, Moved, TypesOK
<1>6. CASE Deselect \/ Restart
  <2>1. /\ cs_n' = TRUE /\ sclk' = FALSE /\ age' = 0
        /\ mosi' = mosi /\ idx' = idx /\ arrived' = arrived
        /\ call' # NoCall => call' \in Calls /\ nth' \in 1 .. Len(call'.sends)
    BY <1>6, Ends
  <2> QED  BY <1>2, <2>1 DEF TypesOK
<1>7. CASE Call \/ Hold
  BY <1>2, <1>7, Idles DEF TypesOK
<1> QED  BY <1>3, <1>4, <1>5, <1>6, <1>7 DEF Next

LEMMA EdgesKept ==
    ASSUME TypesOK, EdgesSeen, Next
    PROVE  EdgesSeen'
<1>1. S!Step
  BY DEF Next
<1>2. sclk_d' = sclk /\ cs_d' = cs_n /\ cmd_valid' = (cs_n /\ ~cs_d /\ bit_count = 32)
  BY <1>1 DEF S!Step, S!HandOver, S!Complete, S!cs_rise
<1> USE ClockAssumption DEF TypesOK, EdgesSeen
<1>3. CASE Select
  BY <1>2, <1>3 DEF Select, Moved
<1>4. CASE Rise
  BY <1>2, <1>4 DEF Rise, Moved
<1>5. CASE Fall
  BY <1>2, <1>5 DEF Fall, Moved
<1>6. CASE Deselect \/ Restart
  <2>1. ~cs_n /\ cs_n' = TRUE /\ sclk' = FALSE /\ age' = 0
    BY <1>6, Ends
  <2> QED  BY <1>2, <2>1
<1>7. CASE Call \/ Hold
  <2>1. cs_n' = cs_n /\ sclk' = sclk /\ idx' = idx /\ (~cs_n => call' = call)
    BY <1>7, Idles
  <2> QED  BY <1>2, <2>1
<1> QED  BY <1>3, <1>4, <1>5, <1>6, <1>7 DEF Next
-----------------------------------------------------------------------------
(* The answer cannot change while it is shifted out. *)
LEMMA AnswerStays ==
    ASSUME EdgesSeen, Next, ~cs_n
    PROVE  rsp_word' = rsp_word
BY DEF EdgesSeen, Next, Respond

(* How the count of served falling edges moves within a transfer. *)
LEMMA OutMoves ==
    ASSUME TypesOK, EdgesSeen, Next, ~cs_n, ~cs_n'
    PROVE  /\ out' \in Nat
           /\ cs_d => out' = 0
           /\ ~cs_d /\ (sclk \/ ~sclk_d) => out' = out
           /\ ~cs_d /\ ~sclk /\ sclk_d => out' = out + 1
           /\ cs_d => ~sclk /\ ~sclk_d
<1> USE ClockAssumption DEF TypesOK, EdgesSeen, out, One
<1>1. sclk_d' = sclk
  BY DEF Next, S!Step
<1>2. CASE Rise
  <2>1. /\ ~sclk /\ ~sclk_d /\ ~cs_d
    BY <1>2 DEF Rise
  <2> QED  BY <1>1, <1>2, <2>1 DEF Rise
<1>3. CASE Fall
  <2>1. sclk /\ age # 0
    BY <1>3 DEF Fall
  <2>2. sclk_d /\ ~cs_d
    BY <2>1
  <2> QED  BY <1>1, <1>3, <2>1, <2>2 DEF Fall
<1>4. CASE Call \/ Hold
  <2>1. sclk' = sclk /\ idx' = idx
    BY <1>4, Idles
  <2> QED  BY <1>1, <2>1
<1>5. CASE Select \/ Deselect \/ Restart
  BY <1>5 DEF Select, Deselect, Restart
<1> QED  BY <1>2, <1>3, <1>4, <1>5 DEF Next

LEMMA AnswerOutKept ==
    ASSUME AnswerInv, Next
    PROVE  AnswerOut'
<1> SUFFICES ASSUME Under'
             PROVE  /\ \A j \in Bit : j \in tx_shift' <=> j - out' \in rsp_word'
                    /\ out' # 0 => (miso' <=> 32 - out' \in rsp_word')
  BY DEF AnswerOut
<1> USE DEF AnswerInv
<1>1. ~cs_n /\ ~cs_n' /\ rsp_word' = rsp_word
  BY AnswerStays DEF Under, Next, S!Step
<1>2. S!ShiftOut /\ rsp_word \subseteq Bit /\ tx_shift \in SUBSET Bit
  BY DEF Next, S!Step, TypesOK
<1>3. CASE cs_d
  <2>1. tx_shift' = rsp_word /\ out' = 0
    BY <1>1, <1>2, <1>3, OutMoves DEF S!ShiftOut, S!sclk_fall, S!cs_fall
  <2> QED  BY <1>1, <2>1 DEF Bit
<1>4. CASE ~cs_d /\ ~sclk /\ sclk_d
  <2>1. /\ tx_shift' = S!Shl(tx_shift, FALSE) /\ miso' = (31 \in tx_shift)
        /\ out' = out + 1 /\ out' \in Nat /\ out \in Nat
    <3>1. out \in Nat
      BY <1>1, <1>4 DEF out, One, TypesOK, EdgesSeen
    <3> QED  BY <1>1, <1>2, <1>4, <3>1, OutMoves DEF S!ShiftOut, S!sclk_fall
  <2>2. \A j \in Bit : j \in tx_shift <=> j - out \in rsp_word
    BY <1>1, <1>4 DEF AnswerOut, Under
  <2>3. ASSUME NEW j \in Bit
        PROVE  j \in tx_shift' <=> j - out' \in rsp_word
    <3>1. j \in tx_shift' <=> IF j = 0 THEN FALSE ELSE j - 1 \in tx_shift
      BY <1>2, <2>1, Shifted
    <3>2. CASE j = 0
      <4>1. j - out' \notin Bit
        BY <2>1, <3>2 DEF Bit
      <4> QED  BY <1>1, <1>2, <3>1, <3>2, <4>1
    <3>3. CASE j # 0
      <4>1. j - 1 \in Bit /\ (j - 1) - out = j - out'
        BY <2>1, <3>3 DEF Bit
      <4> QED  BY <2>2, <3>1, <3>3, <4>1
    <3> QED  BY <3>2, <3>3
  <2>4. miso' <=> 32 - out' \in rsp_word
    <3>1. 31 \in Bit /\ 31 - out = 32 - out'
      BY <2>1 DEF Bit
    <3> QED  BY <2>1, <2>2, <3>1
  <2> QED  BY <1>1, <2>3, <2>4
<1>5. CASE ~cs_d /\ (sclk \/ ~sclk_d)
  <2>1. tx_shift' = tx_shift /\ miso' = miso /\ out' = out
    BY <1>1, <1>2, <1>5, OutMoves DEF S!ShiftOut, S!sclk_fall, S!cs_fall
  <2> QED  BY <1>1, <1>5, <2>1 DEF AnswerOut, Under
<1> QED  BY <1>3, <1>4, <1>5

LEMMA SampledKept ==
    ASSUME AnswerInv, Next
    PROVE  Sampled'
<1> USE DEF AnswerInv
<1>1. cs_d' = cs_n
  BY DEF Next, S!Step
<1>2. CASE Select
  BY <1>2 DEF Select, Sampled
<1>3. CASE Rise
  <2>1. /\ ~cs_n /\ ~cs_n' /\ ~cs_d /\ ~sclk /\ ~sclk_d
        /\ idx' = idx + 1 /\ arrived' = Append(arrived, miso)
    BY <1>3, ClockAssumption DEF Rise, EdgesSeen, TypesOK
  <2>2. idx # 0 => (miso <=> 32 - idx \in rsp_word)
    BY <2>1 DEF AnswerOut, Under, out, One, TypesOK
  <2>3. rsp_word' = rsp_word
    BY <2>1, AnswerStays
  <2>4. ASSUME NEW n \in 2 .. idx'
        PROVE  arrived'[n] <=> 33 - n \in rsp_word
    <3>1. CASE n = idx + 1
      <4>1. arrived'[n] = miso /\ idx # 0 /\ 33 - n = 32 - idx
        BY <2>1, <3>1 DEF TypesOK
      <4> QED  BY <2>2, <4>1
    <3>2. CASE n # idx + 1
      <4>1. n \in 2 .. idx /\ arrived'[n] = arrived[n]
        BY <2>1, <3>2 DEF TypesOK
      <4> QED  BY <2>1, <4>1 DEF Sampled
    <3> QED  BY <3>1, <3>2
  <2> QED  BY <2>1, <2>3, <2>4 DEF Sampled
<1>4. CASE Fall
  <2>1. ~cs_n /\ ~cs_n' /\ UNCHANGED <<idx, arrived>>
    BY <1>4 DEF Fall
  <2> QED  BY <2>1, AnswerStays DEF Sampled
<1>5. CASE Deselect \/ Restart
  <2>1. ~cs_n /\ cs_n' /\ idx' = idx /\ arrived' = arrived /\ (ended' # <<>> <=> idx = 32)
    BY <1>5, Ends
  <2>2. rsp_word' = rsp_word
    BY <2>1, AnswerStays
  <2> QED  BY <2>1, <2>2 DEF Sampled, JustRead
<1>6. CASE Call \/ Hold
  <2>1. cs_n' = cs_n /\ idx' = idx /\ arrived' = arrived
    BY <1>6, Idles
  <2>2. CASE ~cs_n
    BY <2>1, <2>2, AnswerStays DEF Sampled
  <2>3. CASE cs_n
    BY <1>1, <2>1, <2>3 DEF Sampled, JustRead
  <2> QED  BY <2>2, <2>3
<1> QED  BY <1>2, <1>3, <1>4, <1>5, <1>6 DEF Next

LEMMA InitLink ==
    ASSUME Init
    PROVE  TypesOK /\ EdgesSeen
<1>1. TypesOK
  <2>1. /\ sclk = FALSE /\ cs_n = TRUE /\ mosi = FALSE /\ miso = FALSE
        /\ sclk_d = FALSE /\ cs_d = TRUE /\ call = NoCall
    BY DEF Init, S!PowerOn
  <2>2. age = 0 /\ idx = 0 /\ arrived = <<>>
    BY DEF Init
  <2>3. rsp_word = {} /\ tx_shift = {} /\ rx_shift = {}
    BY DEF Init, S!PowerOn
  <2>4. arrived \in Seq(BOOLEAN) /\ Len(arrived) = idx
    BY <2>2
  <2>5. age \in Nat /\ idx \in Nat /\ idx <= 32
    BY <2>2
  <2>6. /\ sclk \in BOOLEAN /\ cs_n \in BOOLEAN /\ sclk_d \in BOOLEAN /\ cs_d \in BOOLEAN
        /\ mosi \in BOOLEAN /\ miso \in BOOLEAN
    BY <2>1
  <2> QED  BY <2>1, <2>3, <2>4, <2>5, <2>6 DEF TypesOK
<1>2. EdgesSeen
  BY DEF Init, S!PowerOn, EdgesSeen
<1> QED  BY <1>1, <1>2

(* How far the answer is out, after every clock. *)
LEMMA AnswerFollowed == Spec => []AnswerInv
<1>1. Init => AnswerInv
  <2> SUFFICES ASSUME Init PROVE AnswerInv
    OBVIOUS
  <2>1. TypesOK /\ EdgesSeen
    BY InitLink
  <2> QED  BY <2>1 DEF Init, AnswerInv, AnswerOut, Under, Sampled, JustRead
<1>2. AnswerInv /\ [Next]_vars => AnswerInv'
  <2>1. ASSUME AnswerInv, Next
        PROVE  AnswerInv'
    BY <2>1, TypesKept, EdgesKept, AnswerOutKept, SampledKept DEF AnswerInv
  <2>2. ASSUME AnswerInv, UNCHANGED vars
        PROVE  AnswerInv'
    BY <2>2 DEF AnswerInv, TypesOK, EdgesSeen, AnswerOut, Under, out, Sampled, JustRead,
                vars, slave, wires, master
  <2> QED  BY <2>1, <2>2
<1> QED  BY <1>1, <1>2, PTL DEF Spec

(* Every sampled bit but the first is the answer's previous one. *)
LEMMA ReadShifted == AnswerInv => AnswerIsShifted
<1> SUFFICES ASSUME AnswerInv, JustRead
             PROVE  rx_word(arrived) \ {31} = {i - 1 : i \in rsp_word \ {0}}
  BY DEF AnswerIsShifted
<1>1. /\ DOMAIN arrived = 1 .. 32 /\ rsp_word \subseteq Bit
      /\ \A n \in 2 .. 32 : arrived[n] <=> 33 - n \in rsp_word
  <2>1. idx = 32 /\ \A n \in 2 .. idx : arrived[n] <=> 33 - n \in rsp_word
    BY DEF AnswerInv, Sampled, JustRead
  <2>2. arrived \in Seq(BOOLEAN) /\ Len(arrived) = idx /\ rsp_word \subseteq Bit
    BY DEF AnswerInv, TypesOK
  <2> QED  BY <2>1, <2>2
<1>2. ASSUME NEW x \in rx_word(arrived) \ {31}
      PROVE  x \in {i - 1 : i \in rsp_word \ {0}}
  <2>1. PICK n \in 2 .. 32 : x = 32 - n /\ arrived[n]
    BY <1>1, <1>2 DEF rx_word
  <2>2. 33 - n \in rsp_word \ {0} /\ x = (33 - n) - 1
    BY <1>1, <2>1
  <2> QED  BY <2>2
<1>3. ASSUME NEW i \in rsp_word \ {0}
      PROVE  i - 1 \in rx_word(arrived) \ {31}
  <2>1. 33 - i \in 2 .. 32 /\ 33 - (33 - i) = i /\ i - 1 = 32 - (33 - i) /\ i - 1 # 31
    BY <1>1, <1>3 DEF Bit
  <2>2. 33 - i \in {n \in DOMAIN arrived : arrived[n]}
    BY <1>1, <1>3, <2>1
  <2> QED  BY <2>1, <2>2 DEF rx_word
<1> QED  BY <1>2, <1>3

(* One bit late: what the host reads of every answer, for every word the   *)
(* control unit may answer with and every SPI clock.                       *)
THEOREM ReadsOneBitLate == Spec => []AnswerIsShifted
<1> QED  BY AnswerFollowed, ReadShifted, PTL

(* Hence the driver's claim (AnswerIsRead) fails on every transfer whose   *)
(* answer is neither all zeros nor all ones: what the host reads would     *)
(* have to be the answer and its shift at once.                            *)
THEOREM ClaimFails == Spec => []NeverAsStored
<1>1. AnswerInv => NeverAsStored
  <2> SUFFICES ASSUME AnswerInv, JustRead, NEW i \in 0 .. 30,
                      (i \in rsp_word) # (i + 1 \in rsp_word), rx_word(arrived) = rsp_word
               PROVE  FALSE
    BY DEF NeverAsStored
  <2>1. rsp_word \subseteq Bit
    BY DEF AnswerInv, TypesOK
  <2>2. rsp_word \ {31} = {k - 1 : k \in rsp_word \ {0}}
    BY ReadShifted DEF AnswerIsShifted
  <2>3. i \in rsp_word => i + 1 \in rsp_word
    <3>1. ASSUME i \in rsp_word
          PROVE  i + 1 \in rsp_word
      <4>1. i \in rsp_word \ {31}
        BY <3>1
      <4>2. PICK k \in rsp_word \ {0} : i = k - 1
        BY <2>2, <4>1
      <4> QED  BY <2>1, <4>2 DEF Bit
    <3> QED  BY <3>1
  <2>4. i + 1 \in rsp_word => i \in rsp_word
    <3>1. ASSUME i + 1 \in rsp_word
          PROVE  i \in rsp_word
      <4>1. i + 1 \in rsp_word \ {0} /\ (i + 1) - 1 = i
        BY <3>1
      <4>2. i \in {k - 1 : k \in rsp_word \ {0}}
        BY <4>1
      <4> QED  BY <2>2, <4>2
    <3> QED  BY <3>1
  <2> QED  BY <2>3, <2>4
<1> QED  BY AnswerFollowed, <1>1, PTL
-----------------------------------------------------------------------------
(* One clock later the slave has taken in every bit clocked so far. *)
LEMMA WordSent ==
    ASSUME TypesOK, EdgesSeen, ~cs_n
    PROVE  tx_word \in SUBSET Bit
<1>1. call \in Calls /\ nth \in 1 .. Len(call.sends)
  BY DEF TypesOK, EdgesSeen
<1>2. call.sends \in Seq(SUBSET Bit)
  BY <1>1, WordsAssumption DEF Bit
<1> QED  BY <1>1, <1>2 DEF tx_word

LEMMA TakesIn ==
    ASSUME TypesOK, EdgesSeen, WordIn, S!Step, ~cs_n
    PROVE  /\ bit_count' = idx
           /\ \A i \in Bit : i < idx => (i \in rx_shift' <=> i + 32 - idx \in tx_word)
<1>1. S!ShiftIn /\ rx_shift \in SUBSET Bit /\ mosi \in BOOLEAN /\ idx \in Nat /\ idx <= 32
  BY DEF S!Step, TypesOK
<1>2. CASE cs_d
  <2>1. ~sclk /\ idx = 0
    BY <1>2 DEF EdgesSeen
  <2>2. bit_count' = 0
    BY <1>1, <1>2, <2>1 DEF S!ShiftIn, S!sclk_rise, S!cs_fall
  <2> QED  BY <2>1, <2>2 DEF Bit
<1>3. CASE ~cs_d /\ sclk /\ ~sclk_d
  <2>1. /\ rx_shift' = S!Shl(rx_shift, mosi) /\ bit_count' = (bit_count + 1) % 64
        /\ idx # 0 /\ seen = idx - 1
    BY <1>1, <1>3 DEF S!ShiftIn, S!sclk_rise, EdgesSeen, seen, One
  <2>2. /\ bit_count = idx - 1
        /\ \A i \in Bit : i < idx - 1 => (i \in rx_shift <=> i + 32 - (idx - 1) \in tx_word)
        /\ mosi <=> WireBit(tx_word, idx - 1)
    BY <1>3, <2>1 DEF WordIn, Under
  <2>3. bit_count' = idx
    BY <1>1, <2>1, <2>2
  <2>4. ASSUME NEW i \in Bit, i < idx
        PROVE  i \in rx_shift' <=> i + 32 - idx \in tx_word
    <3>1. i \in rx_shift' <=> IF i = 0 THEN mosi ELSE i - 1 \in rx_shift
      BY <1>1, <2>1, Shifted
    <3>2. CASE i = 0
      <4>1. mosi <=> 31 - (idx - 1) \in tx_word
        <5>1. idx - 1 \in Bit
          BY <1>1, <2>1 DEF Bit
        <5> QED  BY <2>2, <5>1, TopBitFirst, WordSent
      <4>2. 31 - (idx - 1) = i + 32 - idx
        BY <1>1, <3>2
      <4> QED  BY <3>1, <3>2, <4>1, <4>2
    <3>3. CASE i # 0
      <4>1. i - 1 \in Bit /\ i - 1 < idx - 1 /\ (i - 1) + 32 - (idx - 1) = i + 32 - idx
        BY <1>1, <2>4, <3>3 DEF Bit
      <4> QED  BY <2>2, <3>1, <3>3, <4>1
    <3> QED  BY <3>2, <3>3
  <2> QED  BY <2>3, <2>4
<1>4. CASE ~cs_d /\ ~(sclk /\ ~sclk_d)
  <2>1. rx_shift' = rx_shift /\ bit_count' = bit_count
    BY <1>1, <1>4 DEF S!ShiftIn, S!sclk_rise, S!cs_fall
  <2>2. seen = idx
    BY <1>1, <1>4 DEF seen, One
  <2> QED  BY <1>4, <2>1, <2>2 DEF WordIn, Under
<1> QED  BY <1>2, <1>3, <1>4

(* What the master does to its clock and data while a transfer goes on. *)
LEMMA MosiKept ==
    ASSUME TypesOK, EdgesSeen, WordIn, Next, ~cs_n'
    PROVE  /\ sclk' => (mosi' <=> WireBit(tx_word', idx' - 1))
           /\ ~sclk' /\ idx' # 32 => (mosi' <=> WireBit(tx_word', idx'))
           /\ ~cs_n => seen' = idx /\ tx_word' = tx_word
<1>1. sclk_d' = sclk /\ sclk \in BOOLEAN /\ idx \in Nat /\ idx <= 32
  BY DEF Next, S!Step, TypesOK
<1>2. CASE Select
  <2>1. /\ cs_n /\ sclk' = FALSE /\ idx' = 0 /\ tx_word' = tx_word
        /\ mosi' = WireBit(tx_word, 0)
    BY <1>2 DEF Select, EdgesSeen, TypesOK, tx_word
  <2> QED  BY <2>1
<1>3. CASE Rise
  <2>1. /\ ~cs_n /\ ~sclk /\ idx < 32 /\ sclk' = TRUE /\ idx' = idx + 1
        /\ mosi' = mosi /\ tx_word' = tx_word
    BY <1>3 DEF Rise, tx_word
  <2> QED  BY <1>1, <2>1 DEF WordIn, seen, One
<1>4. CASE Fall
  <2>1. /\ ~cs_n /\ sclk /\ sclk' = FALSE /\ idx' = idx /\ tx_word' = tx_word
        /\ idx < 32 => mosi' = WireBit(tx_word, idx)
    BY <1>4 DEF Fall, tx_word
  <2> QED  BY <1>1, <2>1 DEF seen, One
<1>5. CASE Call \/ Hold
  <2>1. ~cs_n /\ sclk' = sclk /\ mosi' = mosi /\ idx' = idx /\ tx_word' = tx_word
    BY <1>5, Idles DEF tx_word
  <2> QED  BY <1>1, <2>1 DEF WordIn, seen, One
<1>6. CASE Deselect \/ Restart
  BY <1>6 DEF Deselect, Restart
<1> QED  BY <1>2, <1>3, <1>4, <1>5, <1>6 DEF Next

LEMMA WordKept ==
    ASSUME TypesOK, EdgesSeen, WordIn, Next
    PROVE  WordIn'
<1>1. S!Step /\ cs_d' = cs_n
  BY DEF Next, S!Step
<1>2. ~cs_n' => /\ sclk' => (mosi' <=> WireBit(tx_word', idx' - 1))
                /\ ~sclk' /\ idx' # 32 => (mosi' <=> WireBit(tx_word', idx'))
  BY MosiKept
<1>3. ASSUME Under'
      PROVE  /\ bit_count' = seen'
             /\ \A i \in Bit : i < seen' => (i \in rx_shift' <=> i + 32 - seen' \in tx_word')
  <2>1. ~cs_n /\ ~cs_n'
    BY <1>1, <1>3 DEF Under
  <2>2. seen' = idx /\ tx_word' = tx_word
    BY <2>1, MosiKept
  <2>3. /\ bit_count' = idx
        /\ \A i \in Bit : i < idx => (i \in rx_shift' <=> i + 32 - idx \in tx_word)
    BY <1>1, <2>1, TakesIn
  <2> QED  BY <2>2, <2>3
<1> QED  BY <1>2, <1>3 DEF WordIn

(* Whatever 32 bits the driver sends, they reach the slave in their places; *)
(* a transfer that is cut short never counts as a command.                 *)
THEOREM TakesWholeWords == Spec => ReceivedAsSent
<1> DEFINE I == TypesOK /\ EdgesSeen /\ WordIn
<1>1. Init => I
  <2> SUFFICES ASSUME Init PROVE I
    OBVIOUS
  <2>1. TypesOK /\ EdgesSeen
    BY InitLink
  <2> QED  BY <2>1 DEF Init, WordIn, Under
<1>2. I /\ [Next]_vars => I'
  <2>1. ASSUME I, Next
        PROVE  I'
    BY <2>1, TypesKept, EdgesKept, WordKept
  <2>2. ASSUME I, UNCHANGED vars
        PROVE  I'
    BY <2>2 DEF TypesOK, EdgesSeen, WordIn, Under, seen, tx_word, vars, slave, wires, master
  <2> QED  BY <2>1, <2>2
<1>3. I /\ [Next]_vars
      => [~cs_n /\ cs_n' => /\ (bit_count' = 32) = (idx = 32)
                            /\ (idx = 32 => rx_shift' = tx_word)]_vars
  <2> SUFFICES ASSUME I, Next, ~cs_n
               PROVE  /\ (bit_count' = 32) = (idx = 32)
                      /\ (idx = 32 => rx_shift' = tx_word)
    OBVIOUS
  <2>1. /\ bit_count' = idx
        /\ \A i \in Bit : i < idx => (i \in rx_shift' <=> i + 32 - idx \in tx_word)
    BY TakesIn DEF Next
  <2>2. rx_shift' \subseteq Bit /\ tx_word \subseteq Bit
    BY TypesKept, WordSent DEF TypesOK
  <2>3. ASSUME idx = 32
        PROVE  rx_shift' = tx_word
    <3>1. \A i \in Bit : i < idx /\ i + 32 - idx = i
      BY <2>3 DEF Bit
    <3>2. \A i \in Bit : i \in rx_shift' <=> i \in tx_word
      BY <2>1, <3>1
    <3> QED  BY <2>2, <3>2
  <2> QED  BY <2>1, <2>3
<1> QED  BY <1>1, <1>2, <1>3, PTL DEF Spec, ReceivedAsSent
-----------------------------------------------------------------------------
(* A transfer of 32 bits means what the word that was sent is read as; it  *)
(* is recorded when the transfer ends and stays for the clock in which the *)
(* slave hands the word over.                                              *)
Meant(w) == ended # <<>> /\ ended = <<Read(w, ended[1].word)>>
JustEnded == cs_n /\ ~cs_d => IF bit_count = 32 THEN Meant(rx_shift) ELSE ended = <<>>

LEMMA EndsAsSent ==
    ASSUME WellCoded, TypesOK, EdgesSeen, WordIn, S!Step, Deselect \/ Restart
    PROVE  IF bit_count' = 32 THEN Meant(rx_shift)' ELSE ended' = <<>>
<1>1. ~cs_n
  BY DEF Deselect, Restart
<1>2. /\ bit_count' = idx
      /\ \A i \in Bit : i < idx => (i \in rx_shift' <=> i + 32 - idx \in tx_word)
  BY <1>1, TakesIn
<1>3. CASE idx = 32
  <2>1. rx_shift' = tx_word
    <3>1. \A i \in Bit : i < idx /\ i + 32 - idx = i
      BY <1>3 DEF Bit
    <3>2. \A i \in Bit : i \in rx_shift' <=> i \in tx_word
      BY <1>2, <3>1
    <3>3. rx_shift' \subseteq Bit /\ tx_word \subseteq Bit
      <4>1. rx_shift \in SUBSET Bit /\ mosi \in BOOLEAN /\ S!ShiftIn
        BY DEF TypesOK, S!Step
      <4> QED  BY <1>1, <4>1, WordSent, Shifted DEF S!ShiftIn
    <3> QED  BY <3>2, <3>3
  <2>2. ended' = <<call.means[nth]>>
    BY <1>3 DEF Deselect, Restart
  <2>3. call.means[nth] = Read(tx_word, call.means[nth].word)
    <3>1. call \in Calls /\ nth \in 1 .. Len(call.sends)
      BY <1>1 DEF TypesOK, EdgesSeen
    <3> QED  BY <3>1 DEF WellCoded, tx_word
  <2>4. ended' # <<>> /\ ended'[1] = call.means[nth]
    BY <2>2
  <2> QED  BY <1>2, <1>3, <2>1, <2>2, <2>3, <2>4 DEF Meant
<1>4. CASE idx # 32
  <2>1. ended' = <<>>
    BY <1>4 DEF Deselect, Restart
  <2> QED  BY <1>2, <1>4, <2>1
<1> QED  BY <1>3, <1>4

LEMMA EndedKept ==
    ASSUME WellCoded, TypesOK, EdgesSeen, WordIn, Next
    PROVE  JustEnded'
<1> SUFFICES ASSUME cs_n' /\ ~cs_d'
             PROVE  IF bit_count' = 32 THEN Meant(rx_shift)' ELSE ended' = <<>>
  BY DEF JustEnded
<1>1. S!Step /\ ~cs_n
  BY DEF Next, S!Step
<1>2. CASE Deselect \/ Restart
  BY <1>1, <1>2, EndsAsSent
<1>3. ~(Call \/ Select \/ Rise \/ Fall \/ Hold)
  <2>1. ~(Call \/ Hold)
    BY <1>1, Idles
  <2> QED  BY <1>1, <2>1 DEF Select, Rise, Fall
<1> QED  BY <1>2, <1>3 DEF Next

(* Nothing moves on the wires in the clock in which the slave hands over.  *)
LEMMA HandsOver ==
    ASSUME TypesOK, EdgesSeen, JustEnded, Next
    PROVE  IF cs_n /\ ~cs_d /\ bit_count = 32
           THEN cmd_valid' /\ ended' = ended /\ ended # <<>> /\ Handed' = ended
           ELSE ~cmd_valid' /\ Handed' = <<>>
<1>1. /\ cmd_valid' = (cs_n /\ ~cs_d /\ bit_count = 32)
      /\ cmd_valid' => cmd_word' = rx_shift
  BY DEF Next, S!Step, S!HandOver, S!Complete, S!cs_rise
<1>2. CASE cs_n /\ ~cs_d /\ bit_count = 32
  <2>1. age # Gap
    BY <1>2, ClockAssumption DEF EdgesSeen
  <2>2. Call \/ Hold
    BY <1>2, <2>1 DEF Next, Select, Rise, Fall, Deselect, Restart
  <2>3. ended' = ended
    BY <2>2, Idles
  <2>4. Meant(rx_shift)
    BY <1>2 DEF JustEnded
  <2>5. Handed' = <<Read(cmd_word', ended'[1].word)>>
    BY <1>1, <1>2, <2>3, <2>4 DEF Handed, Meant
  <2> QED  BY <1>1, <1>2, <2>3, <2>4, <2>5 DEF Meant
<1>3. CASE ~(cs_n /\ ~cs_d /\ bit_count = 32)
  BY <1>1, <1>3 DEF Handed
<1> QED  BY <1>2, <1>3

(* Every word that the driver sends whole is handed over once, in order    *)
(* and as it was meant, and nothing else is: the wire implements the       *)
(* channel, for all calls that are packed the way the control unit reads   *)
(* them, whenever the host restarts.                                       *)
THEOREM WireIsAChannel ==
    ASSUME WellCoded
    PROVE  Spec => CallsArrive
<1> DEFINE I == TypesOK /\ EdgesSeen /\ WordIn /\ JustEnded
<1> DEFINE Offered == IF cs_n /\ ~cs_d THEN ended ELSE <<>>
<1>1. Init => I
  <2> SUFFICES ASSUME Init PROVE I
    OBVIOUS
  <2>1. TypesOK /\ EdgesSeen
    BY InitLink
  <2> QED  BY <2>1 DEF Init, S!PowerOn, WordIn, Under, JustEnded
<1>2. I /\ [Next]_vars => I'
  <2>1. ASSUME I, Next
        PROVE  I'
    BY <2>1, TypesKept, EdgesKept, WordKept, EndedKept
  <2>2. ASSUME I, UNCHANGED vars
        PROVE  I'
    BY <2>2 DEF TypesOK, EdgesSeen, WordIn, Under, seen, tx_word, JustEnded, Meant,
                vars, slave, wires, master
  <2> QED  BY <2>1, <2>2
<1>3. Init => Channel!Init
  BY DEF Init, S!PowerOn, Channel!Init, Handed
<1>4. I /\ [Next]_vars => [Channel!Clock]_(Channel!vars)
  <2>1. ASSUME I, Next
        PROVE  Channel!Clock
    <3>1. CASE cs_n /\ ~cs_d /\ bit_count = 32
      <4>1. Handed' = ended /\ ended = <<Read(rx_shift, ended[1].word)>>
        BY <2>1, <3>1, HandsOver DEF JustEnded, Meant
      <4> DEFINE word == Read(rx_shift, ended[1].word)
      <4>2. <<>> \o <<word>> = <<word>> \o <<>> /\ Len(<<word>>) <= 1 /\ Len(<<>>) <= 1
        OBVIOUS
      <4>3. ended = <<word>> /\ Handed' = <<word>> /\ <<>>' = <<>>
        BY <4>1
      <4> HIDE DEF word
      <4> QED  BY <3>1, <4>2, <4>3 DEF Channel!Clock
    <3>2. CASE ~(cs_n /\ ~cs_d /\ bit_count = 32)
      <4>1. Handed' = <<>> /\ Offered = <<>>
        BY <2>1, <3>2, HandsOver DEF JustEnded
      <4> QED  BY <4>1 DEF Channel!Clock
    <3> QED  BY <3>1, <3>2
  <2>2. ASSUME UNCHANGED vars
        PROVE  UNCHANGED Channel!vars
    BY <2>2 DEF vars, slave, wires, master, Channel!vars, Handed
  <2> QED  BY <2>1, <2>2
<1> QED  BY <1>1, <1>2, <1>3, <1>4, PTL DEF Spec, CallsArrive, Channel!Spec
=============================================================================
