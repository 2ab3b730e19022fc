------------------------- MODULE SleepQueue_proofs -------------------------
(***************************************************************************)
(* Proofs about SleepQueue for every depth, identifier set and count width. *)
(* The array is Packed and Sorted because the tick shifts all valid counts *)
(* alike (this needs Packed), the wake shifts a sorted array, and the      *)
(* insert position separates the shorter-or-equal from the longer counts.  *)
(***************************************************************************)
EXTENDS MCSleepQueue, Counting

(* The inductive invariant. *)
IInv == TypeOK /\ Packed /\ Sorted

(* Ascending counts in the first n entries. *)
Ascending(f, n) == \A i, j \in Slots : i < j /\ j < n => f[i] <= f[j]

(* The tick keeps counts in range and in order. *)
LEMMA TickKeepsOrder ==
    ASSUME IInv
    PROVE  Ticked \in [Slots -> Counts] /\ Ascending(Ticked, depth_r)
<1> USE CountAssumption DEF IInv, TypeOK, InputsOK, RegsOK, Slots, Counts
<1>1. Ticked \in [Slots -> Counts]
  BY DEF Ticked
<1>2. ASSUME NEW i \in Slots, NEW j \in Slots, i < j, j < depth_r
      PROVE  Ticked[i] <= Ticked[j]
  <2>1. valid_mem[i] /\ valid_mem[j]
    BY <1>2, DepthAssumption DEF Packed
  <2>2. cnt_mem[i] <= cnt_mem[j] /\ cnt_mem[i] \in Nat /\ cnt_mem[j] \in Nat
    BY <1>2 DEF Sorted
  <2> QED  BY <2>1, <2>2 DEF Ticked
<1> QED  BY <1>1, <1>2 DEF Ascending

(* What the wake leaves: typed, packed and sorted for the new depth. *)
LEMMA WakeKeepsShape ==
    ASSUME IInv
    PROVE  /\ DepthAfterWake \in 0 .. DEPTH
           /\ IdsLeft \in [Slots -> ID]
           /\ CountsLeft \in [Slots -> Counts]
           /\ ValidLeft \in [Slots -> BOOLEAN]
           /\ \A i \in Slots : ValidLeft[i] <=> i < DepthAfterWake
           /\ Ascending(CountsLeft, DepthAfterWake)
<1> USE DepthAssumption, IdAssumption, CountAssumption
<1>1. Ticked \in [Slots -> Counts] /\ Ascending(Ticked, depth_r)
  BY TickKeepsOrder
<1>2. DepthAfterWake \in 0 .. DEPTH /\ depth_r \in 0 .. DEPTH
  BY DEF IInv, TypeOK, RegsOK, DepthAfterWake, HeadExpired
<1>3. CASE ~HeadExpired
  <2>1. /\ IdsLeft = id_mem /\ CountsLeft = Ticked /\ ValidLeft = valid_mem
        /\ DepthAfterWake = depth_r
    BY <1>3 DEF IdsLeft, CountsLeft, ValidLeft, AfterWake, DepthAfterWake
  <2> QED  BY <1>1, <1>2, <2>1 DEF IInv, TypeOK, RegsOK, Packed
<1>4. CASE HeadExpired
  <2>1. DepthAfterWake = depth_r - 1 /\ depth_r \in 1 .. DEPTH
    BY <1>2, <1>4 DEF DepthAfterWake, HeadExpired
  <2>2. ASSUME NEW S, NEW f \in [Slots -> S], NEW e \in S
        PROVE  /\ AfterWake(f, e) \in [Slots -> S]
               /\ \A i \in Slots : i < DepthAfterWake => AfterWake(f, e)[i] = f[i + 1]
    BY <1>4, <2>1 DEF AfterWake, Slots
  <2>2z. 0 \in Counts /\ NoId \in ID /\ FALSE \in BOOLEAN
    BY DEF Counts
  <2>3. IdsLeft \in [Slots -> ID]
    BY <2>2 DEF IdsLeft, IInv, TypeOK, RegsOK
  <2>4. CountsLeft \in [Slots -> Counts]
    BY <1>1, <2>2, <2>2z DEF CountsLeft
  <2>5. ValidLeft \in [Slots -> BOOLEAN]
    BY <2>2 DEF ValidLeft, IInv, TypeOK, RegsOK
  <2>6. \A i \in Slots : ValidLeft[i] <=> i < DepthAfterWake
    BY <1>4, <2>1 DEF ValidLeft, AfterWake, IInv, TypeOK, RegsOK, Packed, Slots
  <2>7. Ascending(CountsLeft, DepthAfterWake)
    <3> SUFFICES ASSUME NEW i \in Slots, NEW j \in Slots, i < j, j < DepthAfterWake
                 PROVE  CountsLeft[i] <= CountsLeft[j]
      BY DEF Ascending
    <3>1. CountsLeft[i] = Ticked[i + 1] /\ CountsLeft[j] = Ticked[j + 1]
      <4>1. \A k \in Slots : k < DepthAfterWake
                            => AfterWake(Ticked, 0)[k] = Ticked[k + 1]
        BY <1>1, <2>2, <2>2z
      <4>2. i < DepthAfterWake
        BY <2>1 DEF Slots
      <4> QED  BY <4>1, <4>2 DEF CountsLeft
    <3>2. /\ i + 1 \in Slots /\ j + 1 \in Slots
          /\ i + 1 < j + 1 /\ j + 1 < depth_r
      BY <2>1 DEF Slots
    <3>3. Ticked[i + 1] <= Ticked[j + 1]
      BY <1>1, <3>2 DEF Ascending
    <3> QED  BY <3>1, <3>3
  <2> QED  BY <1>2, <2>3, <2>4, <2>5, <2>6, <2>7
<1> QED  BY <1>3, <1>4

(* The search loop always finds a position, the first longer count or the  *)
(* end, so InsertPos is well defined.                                      *)
LEMMA InsertPosExists ==
    ASSUME IInv
    PROVE  IsInsertPos(InsertPos)
<1> DEFINE Longer == {i \in Slots : Beaten(i)}
<1>1. DepthAfterWake \in 0 .. DEPTH
  BY WakeKeepsShape
<1>2. CASE Longer = {}
  <2>1. IsInsertPos(DepthAfterWake)
    BY <1>1, <1>2 DEF IsInsertPos
  <2> QED  BY <1>1, <2>1 DEF InsertPos
<1>3. CASE Longer # {}
  <2>1. Longer \subseteq Nat
    BY DepthAssumption DEF Slots
  <2>2. PICK p \in Longer : \A q \in Longer : ~(<<q, p>> \in OpToRel(<, Nat))
    BY <1>3, <2>1, WFMin, NatLessThanWellFounded
  <2>3. \A q \in Longer : ~(q < p)
    BY <2>1, <2>2 DEF OpToRel
  <2>4. p \in 0 .. DepthAfterWake /\ Beaten(p)
    BY <1>1, DepthAssumption DEF Beaten, Slots
  <2>5. IsInsertPos(p)
    BY <2>3, <2>4 DEF IsInsertPos
  <2> QED  BY <2>4, <2>5 DEF InsertPos
<1> QED  BY <1>2, <1>3

(* An accepted entry: typed, packed and sorted for one entry more. *)
LEMMA InsertKeepsShape ==
    ASSUME IInv, HasRoom
    PROVE  /\ InsertAt(IdsLeft, InsertPos, enq_id) \in [Slots -> ID]
           /\ InsertAt(CountsLeft, InsertPos, enq_count) \in [Slots -> Counts]
           /\ InsertAt(ValidLeft, InsertPos, TRUE) \in [Slots -> BOOLEAN]
           /\ \A i \in Slots : InsertAt(ValidLeft, InsertPos, TRUE)[i]
                                <=> i < DepthAfterWake + 1
           /\ Ascending(InsertAt(CountsLeft, InsertPos, enq_count), DepthAfterWake + 1)
<1> USE DepthAssumption
<1>1. /\ DepthAfterWake \in 0 .. DEPTH - 1
      /\ CountsLeft \in [Slots -> Counts] /\ Ascending(CountsLeft, DepthAfterWake)
  BY WakeKeepsShape DEF HasRoom
<1>2. PICK p \in 0 .. DepthAfterWake : p = InsertPos /\ IsInsertPos(p)
  BY InsertPosExists DEF IsInsertPos
<1>3. ASSUME NEW S, NEW f \in [Slots -> S], NEW e \in S
      PROVE  InsertAt(f, p, e) \in [Slots -> S]
  BY <1>1 DEF InsertAt, Slots
<1>4. enq_id \in ID /\ enq_count \in Counts
  BY DEF IInv, TypeOK, InputsOK
<1>5. InsertAt(IdsLeft, p, enq_id) \in [Slots -> ID]
  BY <1>3, <1>4, WakeKeepsShape
<1>6. InsertAt(CountsLeft, p, enq_count) \in [Slots -> Counts]
  BY <1>1, <1>3, <1>4
<1>7. InsertAt(ValidLeft, p, TRUE) \in [Slots -> BOOLEAN]
  BY <1>3, WakeKeepsShape
<1>8. ASSUME NEW i \in Slots
      PROVE  InsertAt(ValidLeft, p, TRUE)[i] <=> i < DepthAfterWake + 1
  BY <1>1, WakeKeepsShape DEF InsertAt, Slots
<1>9. ASSUME NEW i \in Slots, NEW j \in Slots, i < j, j < DepthAfterWake + 1
      PROVE  InsertAt(CountsLeft, p, enq_count)[i] <= InsertAt(CountsLeft, p, enq_count)[j]
  <2> DEFINE new == InsertAt(CountsLeft, p, enq_count)
  <2>1. /\ \A k \in Slots : CountsLeft[k] \in Int
        /\ enq_count \in Int
    BY <1>1, <1>4, CountAssumption DEF Counts
  <2>2. \A k \in Slots : k < p => ~(enq_count < CountsLeft[k])
    BY <1>1, <1>2 DEF IsInsertPos, Beaten, Slots
  <2>3. p < DepthAfterWake => enq_count < CountsLeft[p]
    BY <1>2 DEF IsInsertPos, Beaten
  <2>4. \A k, m \in Slots : k < m /\ m < DepthAfterWake => CountsLeft[k] <= CountsLeft[m]
    BY <1>1 DEF Ascending
  <2>5. CASE j < p
    BY <1>1, <1>9, <2>4, <2>5 DEF InsertAt, Slots
  <2>6. CASE j = p
    BY <1>1, <1>9, <2>1, <2>2, <2>6 DEF InsertAt, Slots
  <2>7. CASE p < j
    <3>1. new[j] = CountsLeft[j - 1] /\ j - 1 \in Slots /\ j - 1 < DepthAfterWake
      BY <1>1, <1>9, <2>7 DEF InsertAt, Slots
    <3>2. p \in Slots /\ enq_count < CountsLeft[p] /\ CountsLeft[p] <= CountsLeft[j - 1]
      BY <1>1, <2>1, <2>3, <2>4, <2>7, <3>1 DEF Slots
    <3>3. CASE i < p
      <4>1. new[i] = CountsLeft[i]
        BY <1>1, <3>3 DEF InsertAt, Slots
      <4> QED  BY <1>9, <2>1, <2>2, <3>1, <3>2, <3>3, <4>1
    <3>4. CASE i = p
      <4>1. new[i] = enq_count
        BY <3>4 DEF InsertAt
      <4> QED  BY <2>1, <3>1, <3>2, <4>1
    <3>5. CASE p < i
      <4>1. new[i] = CountsLeft[i - 1] /\ i - 1 \in Slots /\ i - 1 < j - 1
        BY <1>1, <1>9, <3>5 DEF InsertAt, Slots
      <4> QED  BY <2>4, <3>1, <4>1
    <3> QED  BY <1>2, <3>3, <3>4, <3>5 DEF Slots
  <2> QED  BY <1>2, <2>5, <2>6, <2>7 DEF Slots
<1> QED  BY <1>2, <1>5, <1>6, <1>7, <1>8, <1>9 DEF Ascending

(* Every step keeps the inductive invariant, one case per action. *)
LEMMA StepKeepsInvariant ==
    ASSUME IInv, [Next]_vars
    PROVE  IInv'
<1> USE DepthAssumption, IdAssumption, CountAssumption
<1>1. CASE FlushAll /\ DriveInputs
  <2>1. InputsOK'
    BY <1>1 DEF DriveInputs, InputsOK, Counts
  <2>2. RegsOK'
    <3>1. /\ id_mem' \in [Slots -> ID] /\ cnt_mem' \in [Slots -> Counts]
          /\ depth_r' \in 0 .. DEPTH /\ wake_id' \in ID
      BY <1>1 DEF FlushAll, Counts
    <3>2. valid_mem' \in [Slots -> BOOLEAN] /\ wake_valid' \in BOOLEAN
      BY <1>1, Zenon DEF FlushAll
    <3> QED  BY <3>1, <3>2 DEF RegsOK
  <2>3. Packed' /\ Sorted'
    BY <1>1 DEF FlushAll, Packed, Sorted, Slots
  <2> QED  BY <2>1, <2>2, <2>3 DEF IInv, TypeOK
<1>2. CASE Advance /\ DriveInputs
  <2>1. InputsOK'
    BY <1>2 DEF DriveInputs, InputsOK, Counts
  <2>2. RegsOK'
    <3>1. wake_valid' \in BOOLEAN /\ wake_id' \in ID
      BY <1>2 DEF Advance, HeadExpired, IInv, TypeOK, RegsOK, Slots
    <3> QED  BY <1>2, <3>1, WakeKeepsShape DEF Advance, RegsOK
  <2>3. Packed' /\ Sorted'
    BY <1>2, WakeKeepsShape DEF Advance, Packed, Sorted, Ascending
  <2> QED  BY <2>1, <2>2, <2>3 DEF IInv, TypeOK
<1>3. CASE AdvanceAndInsert /\ DriveInputs
  <2>1. InputsOK'
    BY <1>3 DEF DriveInputs, InputsOK, Counts
  <2>2. HasRoom /\ depth_r' = DepthAfterWake + 1
    BY <1>3 DEF AdvanceAndInsert
  <2>3. RegsOK'
    <3>1. wake_valid' \in BOOLEAN /\ wake_id' \in ID
      BY <1>3 DEF AdvanceAndInsert, HeadExpired, IInv, TypeOK, RegsOK, Slots
    <3>2. depth_r' \in 0 .. DEPTH
      BY <2>2, WakeKeepsShape DEF HasRoom
    <3> QED  BY <1>3, <2>2, <3>1, <3>2, InsertKeepsShape DEF AdvanceAndInsert, RegsOK
  <2>4. Packed' /\ Sorted'
    BY <1>3, <2>2, InsertKeepsShape DEF AdvanceAndInsert, Packed, Sorted, Ascending
  <2> QED  BY <2>1, <2>3, <2>4 DEF IInv, TypeOK
<1>4. CASE UNCHANGED vars
  BY <1>4 DEF vars, inputs, regs, IInv, TypeOK, InputsOK, RegsOK, Packed, Sorted
<1> QED  BY <1>1, <1>2, <1>3, <1>4 DEF Next

LEMMA InitEstablishesInvariant ==
    ASSUME Init
    PROVE  IInv
<1>1. /\ id_mem \in [Slots -> ID] /\ cnt_mem \in [Slots -> Counts]
      /\ depth_r \in 0 .. DEPTH /\ wake_id \in ID
  BY DepthAssumption, IdAssumption, CountAssumption DEF Init, Empty, Counts
<1>2. valid_mem \in [Slots -> BOOLEAN] /\ wake_valid \in BOOLEAN
  BY Zenon DEF Init, Empty
<1>3. Packed /\ Sorted
  BY DepthAssumption DEF Init, Empty, Packed, Sorted, Slots
<1> QED  BY <1>1, <1>2, <1>3 DEF Init, IInv, TypeOK, RegsOK

THEOREM Invariance == Spec => []IInv
BY InitEstablishesInvariant, StepKeepsInvariant, PTL DEF Spec

(* The widths of all registers suffice, for every depth of the array. *)
THEOREM TypeCorrect == Spec => []TypeOK
BY Invariance, PTL DEF IInv

(* No hole and no stale entry, whatever tick, wake and insert coincide. *)
THEOREM ArrayPacked == Spec => []Packed
BY Invariance, PTL DEF IInv

(* The array stays in ascending order, whatever tick, wake and insert      *)
(* coincide.                                                               *)
THEOREM ArraySorted == Spec => []Sorted
BY Invariance, PTL DEF IInv

(* An expired entry anywhere in the array is not behind one that is not. *)
LEMMA ExpiryReachesHead ==
    ASSUME IInv, NEW i \in Slots, valid_mem[i], Ticked[i] = 0
    PROVE  HeadExpired
<1>1. 0 \in Slots /\ i < depth_r /\ depth_r # 0 /\ valid_mem[0]
  BY DepthAssumption DEF IInv, TypeOK, RegsOK, Packed, Slots
<1>2. Ticked[0] <= Ticked[i] /\ Ticked[0] \in Nat
  BY <1>1, TickKeepsOrder, CountAssumption, DepthAssumption DEF Ascending, Slots, Counts
<1> QED  BY <1>1, <1>2 DEF HeadExpired

(* An expired entry anywhere in the array makes the head expire: the wake  *)
(* of the edge is never missed.                                            *)
THEOREM ExpiryNeverMissed == Spec => ExpiryWakes
<1>1. ASSUME IInv, [Next]_vars
      PROVE  [~flush /\ (\E i \in Slots : valid_mem[i] /\ Ticked[i] = 0)
              => wake_valid']_vars
  <2>1. ASSUME Next, ~flush, HeadExpired
        PROVE  wake_valid'
    BY <2>1, Zenon DEF Next, FlushAll, Advance, AdvanceAndInsert
  <2> QED  BY <1>1, <2>1, ExpiryReachesHead
<1> QED  BY <1>1, Invariance, PTL DEF Spec, ExpiryWakes
-----------------------------------------------------------------------------
(* The refinement of SleepBag.  An entry is a row of the three columns; the *)
(* rows are counted after each of the three stages of an edge: tick, wake  *)
(* and insert.                                                             *)
Rows(v, ids, counts) == [i \in Slots |-> <<v[i], ids[i], counts[i]>>]
RowOf(s)   == <<TRUE, s[1], s[2]>>
RowsNow    == Rows(valid_mem, id_mem, cnt_mem)
RowsTicked == Rows(valid_mem, id_mem, Ticked)
RowsLeft   == Rows(ValidLeft, IdsLeft, CountsLeft)
RowsAfter  == Rows(InsertAt(ValidLeft, InsertPos, TRUE),
                   InsertAt(IdsLeft, InsertPos, enq_id),
                   InsertAt(CountsLeft, InsertPos, enq_count))
Newcomer   == <<TRUE, enq_id, enq_count>>

LEMMA RowsCounted ==
    ASSUME IInv
    PROVE  Contents = [s \in ID \X Counts |-> HowMany(RowsNow, DEPTH, {RowOf(s)})]
<1> SUFFICES ASSUME NEW s \in ID \X Counts
             PROVE  Holding(s) = Places(RowsNow, DEPTH, {RowOf(s)})
  BY DEF Contents, HowMany
<1>1. \A i \in Slots : valid_mem[i] \in BOOLEAN
  BY DEF IInv, TypeOK, RegsOK
<1>2. \A i \in Slots : RowsNow[i] = RowOf(s)
                        <=> valid_mem[i] /\ id_mem[i] = s[1] /\ cnt_mem[i] = s[2]
  BY <1>1 DEF RowsNow, Rows, RowOf
<1> QED  BY <1>2 DEF Holding, Occupied, Places, Slots

LEMMA SizeCounted == IInv => Cardinality(Occupied) = depth_r
<1> SUFFICES ASSUME IInv PROVE Cardinality(Occupied) = depth_r
  OBVIOUS
<1>1. depth_r \in 0 .. DEPTH /\ DEPTH \in Nat
  BY DepthAssumption DEF IInv, TypeOK, RegsOK
<1>2. Occupied = 0 .. depth_r - 1
  BY <1>1 DEF IInv, Packed, Slots, Occupied
<1>3. depth_r - 1 \in Int /\ 0 \in Int
  BY <1>1
<1>4. Cardinality(0 .. depth_r - 1) = depth_r
  BY <1>1, <1>3, FS_Interval
<1> QED  BY <1>2, <1>4

(* The tick: whoever has n ticks left had n + 1, or had none already. *)
LEMMA TickCounted ==
    ASSUME IInv, NEW s \in ID \X Counts
    PROVE  HowMany(RowsTicked, DEPTH, {RowOf(s)})
             = IF tick
               THEN (IF s[2] = 0 THEN HowMany(RowsNow, DEPTH, {RowOf(s)}) ELSE 0)
                    + (IF s[2] < MaxCount
                       THEN HowMany(RowsNow, DEPTH, {RowOf(<<s[1], s[2] + 1>>)}) ELSE 0)
               ELSE HowMany(RowsNow, DEPTH, {RowOf(s)})
<1> DEFINE next == RowOf(<<s[1], s[2] + 1>>)
<1>0. /\ DEPTH \in Nat /\ MaxCount \in Nat /\ s[1] \in ID /\ s[2] \in 0 .. MaxCount
      /\ \A i \in Slots : valid_mem[i] \in BOOLEAN /\ cnt_mem[i] \in 0 .. MaxCount
  BY DepthAssumption, CountAssumption DEF IInv, TypeOK, RegsOK, Counts
<1>1. \A b : One(b) \in Nat
  BY DEF One
<1>2. CASE ~tick
  <2>1. \A i \in 0 .. DEPTH - 1 : RowsTicked[i] = RowsNow[i]
    BY <1>2 DEF RowsTicked, RowsNow, Rows, Ticked, Slots
  <2> QED  BY <1>0, <1>2, <2>1, CountSame
<1>3. CASE tick
  <2> DEFINE Old(n) == (IF s[2] = 0 THEN HowMany(RowsNow, n, {RowOf(s)}) ELSE 0)
                       + (IF s[2] < MaxCount THEN HowMany(RowsNow, n, {next}) ELSE 0)
             T == {n \in Nat : HowMany(RowsTicked, n, {RowOf(s)}) = Old(n)}
  <2>1. 0 \in T
    BY CountFirst
  <2>2. ASSUME NEW n \in 0 .. DEPTH - 1
        PROVE  One(RowsTicked[n] \in {RowOf(s)})
                 = (IF s[2] = 0 THEN One(RowsNow[n] \in {RowOf(s)}) ELSE 0)
                   + (IF s[2] < MaxCount THEN One(RowsNow[n] \in {next}) ELSE 0)
    <3>1. n \in Slots
      BY DEF Slots
    <3>2. /\ RowsNow[n] = <<valid_mem[n], id_mem[n], cnt_mem[n]>>
          /\ RowsTicked[n] = <<valid_mem[n], id_mem[n], Ticked[n]>>
          /\ Ticked[n] = IF valid_mem[n] /\ cnt_mem[n] # 0 THEN cnt_mem[n] - 1
                         ELSE cnt_mem[n]
      BY <1>3, <3>1 DEF RowsNow, RowsTicked, Rows, Ticked
    <3>3. /\ RowsTicked[n] = RowOf(s)
               <=> valid_mem[n] /\ id_mem[n] = s[1] /\ Ticked[n] = s[2]
          /\ RowsNow[n] = RowOf(s)
               <=> valid_mem[n] /\ id_mem[n] = s[1] /\ cnt_mem[n] = s[2]
          /\ RowsNow[n] = next
               <=> valid_mem[n] /\ id_mem[n] = s[1] /\ cnt_mem[n] = s[2] + 1
      <4>1. valid_mem[n] = TRUE <=> valid_mem[n]
        BY <1>0, <3>1
      <4>2. \A c : <<valid_mem[n], id_mem[n], c>> = RowOf(s)
                     <=> valid_mem[n] /\ id_mem[n] = s[1] /\ c = s[2]
        BY <4>1 DEF RowOf
      <4>3. \A c : <<valid_mem[n], id_mem[n], c>> = next
                     <=> valid_mem[n] /\ id_mem[n] = s[1] /\ c = s[2] + 1
        BY <4>1 DEF RowOf
      <4> QED  BY <3>2, <4>2, <4>3
    <3>4. cnt_mem[n] \in 0 .. MaxCount
      BY <1>0, <3>1
    <3> QED  BY <1>0, <3>2, <3>3, <3>4 DEF One
  <2>3. ASSUME NEW n \in 0 .. DEPTH - 1, n \in T
        PROVE  n + 1 \in T
    <3>1. /\ n \in Nat
          /\ HowMany(RowsTicked, n + 1, {RowOf(s)})
               = HowMany(RowsTicked, n, {RowOf(s)}) + One(RowsTicked[n] \in {RowOf(s)})
          /\ HowMany(RowsNow, n + 1, {RowOf(s)})
               = HowMany(RowsNow, n, {RowOf(s)}) + One(RowsNow[n] \in {RowOf(s)})
          /\ HowMany(RowsNow, n + 1, {next}) = HowMany(RowsNow, n, {next}) + One(RowsNow[n] \in {next})
          /\ HowMany(RowsNow, n, {RowOf(s)}) \in Nat /\ HowMany(RowsNow, n, {next}) \in Nat
      BY CountNext
    <3>2. HowMany(RowsTicked, n, {RowOf(s)}) = Old(n)
      BY <2>3
    <3> HIDE DEF next
    <3>3. HowMany(RowsTicked, n + 1, {RowOf(s)}) = Old(n + 1)
      BY <1>1, <2>2, <3>1, <3>2
    <3> QED  BY <3>1, <3>3
  <2>4. 0 .. DEPTH \subseteq T
    <3> HIDE DEF T
    <3> QED  BY <1>0, <2>1, <2>3, UpTo
  <2>5. DEPTH \in T
    <3> HIDE DEF T
    <3> QED  BY <1>0, <2>4
  <2> QED  BY <1>3, <2>5
<1> QED  BY <1>2, <1>3

(* The wake takes the head out and leaves every other row as often as it was. *)
LEMMA WakeCounted ==
    ASSUME IInv, NEW X, \A x \in X : x[1] = TRUE
    PROVE  /\ HowMany(RowsLeft, DEPTH, X) \in Nat
           /\ HowMany(RowsTicked, DEPTH, X)
                = HowMany(RowsLeft, DEPTH, X)
                  + (IF HeadExpired THEN One(RowsTicked[0] \in X) ELSE 0)
<1>0. /\ DEPTH \in Nat /\ depth_r \in 0 .. DEPTH
      /\ \A i \in Slots : valid_mem[i] <=> i < depth_r
  BY DepthAssumption DEF IInv, TypeOK, RegsOK, Packed
<1>1. HowMany(RowsLeft, DEPTH, X) \in Nat
  BY <1>0, CountNext
<1>2. CASE ~HeadExpired
  <2>1. RowsLeft = RowsTicked
    BY <1>2 DEF RowsLeft, RowsTicked, IdsLeft, CountsLeft, ValidLeft, AfterWake
  <2> QED  BY <1>1, <1>2, <2>1
<1>3. CASE HeadExpired
  <2>1. /\ DepthAfterWake = depth_r - 1 /\ depth_r \in 1 .. DEPTH
        /\ depth_r - 1 \in Nat /\ depth_r \in Nat /\ (depth_r - 1) + 1 = depth_r
    BY <1>0, <1>3 DEF DepthAfterWake, HeadExpired
  <2>2. \A i \in 0 .. (depth_r - 1) - 1 : RowsLeft[i] = RowsTicked[i + 1]
    <3> SUFFICES ASSUME NEW i \in 0 .. (depth_r - 1) - 1
                 PROVE  RowsLeft[i] = RowsTicked[i + 1]
      OBVIOUS
    <3>1. i \in Slots /\ i + 1 \in Slots /\ i < DepthAfterWake
      BY <1>0, <2>1 DEF Slots
    <3>2. \A f, e : AfterWake(f, e)[i] = f[i + 1]
      BY <1>3, <3>1 DEF AfterWake
    <3>3. /\ ValidLeft[i] = valid_mem[i + 1] /\ IdsLeft[i] = id_mem[i + 1]
          /\ CountsLeft[i] = Ticked[i + 1]
      BY <3>2 DEF ValidLeft, IdsLeft, CountsLeft
    <3> QED  BY <3>1, <3>3 DEF RowsLeft, RowsTicked, Rows
  <2>3. HowMany(RowsLeft, depth_r - 1, X) + One(RowsTicked[0] \in X)
          = HowMany(RowsTicked, depth_r, X)
    BY <2>1, <2>2, CountShifted
  <2>4. \A i \in depth_r - 1 .. DEPTH - 1 : RowsLeft[i] \notin X
    <3>1. \A i \in depth_r - 1 .. DEPTH - 1 : i \in Slots /\ ~ValidLeft[i]
      BY <2>1, WakeKeepsShape DEF Slots
    <3>2. \A i \in Slots : RowsLeft[i][1] = ValidLeft[i]
      BY DEF RowsLeft, Rows
    <3> QED  BY <3>1, <3>2
  <2>5. \A i \in depth_r .. DEPTH - 1 : RowsTicked[i] \notin X
    <3>1. \A i \in depth_r .. DEPTH - 1 : i \in Slots /\ ~valid_mem[i]
      BY <1>0, <2>1 DEF Slots
    <3>2. \A i \in Slots : RowsTicked[i][1] = valid_mem[i]
      BY DEF RowsTicked, Rows
    <3> QED  BY <3>1, <3>2
  <2>6. HowMany(RowsLeft, DEPTH, X) = HowMany(RowsLeft, depth_r - 1, X)
    BY <1>0, <2>1, <2>4, CountUpTo
  <2>7. HowMany(RowsTicked, DEPTH, X) = HowMany(RowsTicked, depth_r, X)
    BY <1>0, <2>1, <2>5, CountUpTo
  <2> QED  BY <1>1, <1>3, <2>3, <2>6, <2>7
<1> QED  BY <1>2, <1>3

(* The insertion adds the newcomer and leaves every other row as often as  *)
(* it was.                                                                 *)
LEMMA InsertCounted ==
    ASSUME IInv, HasRoom, NEW X, \A x \in X : x[1] = TRUE
    PROVE  HowMany(RowsAfter, DEPTH, X) = HowMany(RowsLeft, DEPTH, X) + One(Newcomer \in X)
<1> DEFINE n == DepthAfterWake
           p == InsertPos
<1>0. DEPTH \in Nat /\ n \in 0 .. DEPTH - 1 /\ n \in Nat /\ n + 1 \in Nat
  BY DepthAssumption, WakeKeepsShape DEF HasRoom
<1>1. p \in 0 .. n
  BY InsertPosExists DEF IsInsertPos
<1> HIDE DEF p
<1>2. \A i \in Slots : RowsAfter[i] = IF i = p THEN Newcomer
                                      ELSE IF p < i /\ i <= n THEN RowsLeft[i - 1]
                                      ELSE RowsLeft[i]
  <2> SUFFICES ASSUME NEW i \in Slots
               PROVE  RowsAfter[i] = IF i = p THEN Newcomer
                                     ELSE IF p < i /\ i <= n THEN RowsLeft[i - 1]
                                     ELSE RowsLeft[i]
    OBVIOUS
  <2>1. \A f, e : InsertAt(f, p, e)[i] = IF i = p THEN e
                                         ELSE IF p < i /\ i <= n THEN f[i - 1]
                                         ELSE f[i]
    BY DEF InsertAt
  <2>2. RowsAfter[i] = <<InsertAt(ValidLeft, p, TRUE)[i],
                         InsertAt(IdsLeft, p, enq_id)[i],
                         InsertAt(CountsLeft, p, enq_count)[i]>>
    BY DEF RowsAfter, Rows, p
  <2>3. p < i /\ i <= n => i - 1 \in Slots
    BY <1>0, <1>1 DEF Slots
  <2>4. \A j \in Slots : RowsLeft[j] = <<ValidLeft[j], IdsLeft[j], CountsLeft[j]>>
    BY DEF RowsLeft, Rows
  <2>5. CASE i = p
    BY <2>1, <2>2, <2>5 DEF Newcomer
  <2>6. CASE i # p /\ p < i /\ i <= n
    BY <2>1, <2>2, <2>3, <2>4, <2>6
  <2>7. CASE i # p /\ ~(p < i /\ i <= n)
    BY <2>1, <2>2, <2>4, <2>7
  <2> QED  BY <2>5, <2>6, <2>7
<1> HIDE DEF n
<1>3. /\ \A i \in 0 .. p - 1 : RowsAfter[i] = RowsLeft[i]
      /\ \A i \in p + 1 .. n : RowsAfter[i] = RowsLeft[i - 1]
      /\ RowsAfter[p] = Newcomer
  BY <1>0, <1>1, <1>2 DEF Slots
<1>4. HowMany(RowsAfter, n + 1, X) = HowMany(RowsLeft, n, X) + One(Newcomer \in X)
  <2>1. n \in Nat /\ p \in 0 .. n
    BY <1>0, <1>1
  <2>2. HowMany(RowsAfter, n + 1, X) = HowMany(RowsLeft, n, X) + One(RowsAfter[p] \in X)
    <3>1. /\ \A i \in 0 .. p - 1 : RowsAfter[i] = RowsLeft[i]
          /\ \A i \in p + 1 .. n : RowsAfter[i] = RowsLeft[i - 1]
      BY <1>3
    <3> QED  BY ONLY <3>1, <2>1, CountInserted
  <2> QED  BY <1>3, <2>2
<1>5. \A i \in n .. DEPTH - 1 : RowsLeft[i] \notin X
  <2>1. \A i \in n .. DEPTH - 1 : i \in Slots /\ ~ValidLeft[i]
    BY <1>0, WakeKeepsShape DEF Slots, n
  <2>2. \A i \in Slots : RowsLeft[i][1] = ValidLeft[i]
    BY DEF RowsLeft, Rows
  <2> QED  BY <2>1, <2>2
<1>6. \A i \in n + 1 .. DEPTH - 1 : RowsAfter[i] \notin X
  <2>1. \A i \in n + 1 .. DEPTH - 1 : i \in Slots /\ i # p /\ ~(p < i /\ i <= n)
                                      /\ i \in n .. DEPTH - 1
    BY <1>0, <1>1 DEF Slots
  <2> QED  BY <1>2, <1>5, <2>1
<1>7. HowMany(RowsLeft, DEPTH, X) = HowMany(RowsLeft, n, X)
  BY <1>0, <1>5, CountUpTo
<1>8. HowMany(RowsAfter, DEPTH, X) = HowMany(RowsAfter, n + 1, X)
  BY <1>0, <1>6, CountUpTo
<1> QED  BY <1>4, <1>7, <1>8

(* The three stages as bags.  Remaining is what the wake leaves. *)
Sleepers  == ID \X Counts
Remaining == [s \in Sleepers |-> HowMany(RowsLeft, DEPTH, {RowOf(s)})]
Head      == <<id_mem[0], 0>>

LEMMA CountsAreNat ==
    ASSUME IInv, NEW s
    PROVE  /\ HowMany(RowsNow, DEPTH, {RowOf(s)}) \in Nat
           /\ HowMany(RowsTicked, DEPTH, {RowOf(s)}) \in Nat
           /\ HowMany(RowsLeft, DEPTH, {RowOf(s)}) \in Nat
<1>1. DEPTH \in Nat
  BY DepthAssumption
<1> QED  BY <1>1, CountNext

LEMMA AgedCounted ==
    ASSUME IInv
    PROVE  Bag!Aged = [s \in Sleepers |-> HowMany(RowsTicked, DEPTH, {RowOf(s)})]
<1>1. Contents = [s \in Sleepers |-> HowMany(RowsNow, DEPTH, {RowOf(s)})]
  BY RowsCounted DEF Sleepers
<1>2. CASE ~tick
  <2>1. \A s \in Sleepers : HowMany(RowsTicked, DEPTH, {RowOf(s)})
                              = HowMany(RowsNow, DEPTH, {RowOf(s)})
    BY <1>2, TickCounted DEF Sleepers
  <2> QED  BY <1>1, <1>2, <2>1 DEF Bag!Aged
<1>3. CASE tick
  <2> SUFFICES ASSUME NEW s \in Sleepers
               PROVE  Bag!Waiting(s) + Bag!Closer(s) = HowMany(RowsTicked, DEPTH, {RowOf(s)})
    BY <1>3 DEF Bag!Aged, Bag!Items, Sleepers, Counts
  <2>1. s \in ID \X Counts /\ s[1] \in ID /\ s[2] \in Counts
    BY DEF Sleepers
  <2>2. Bag!Waiting(s) = IF s[2] = 0 THEN HowMany(RowsNow, DEPTH, {RowOf(s)}) ELSE 0
    BY <1>1 DEF Bag!Waiting
  <2>3. Bag!Closer(s) = IF s[2] < MaxCount
                        THEN HowMany(RowsNow, DEPTH, {RowOf(<<s[1], s[2] + 1>>)}) ELSE 0
    <3>1. s[2] < MaxCount => <<s[1], s[2] + 1>> \in Sleepers
      BY <2>1, CountAssumption DEF Sleepers, Counts
    <3> QED  BY <1>1, <3>1 DEF Bag!Closer
  <2> QED  BY <1>3, <2>1, <2>2, <2>3, TickCounted
<1> QED  BY <1>2, <1>3

(* The head wakes exactly when some sleeper of the bag has no tick left,   *)
(* and is then one of those.                                               *)
LEMMA WakeMoves ==
    ASSUME IInv
    PROVE  IF HeadExpired
           THEN Head \in Bag!Expired(Bag!Aged) /\ Remaining = [Bag!Aged EXCEPT ![Head] = @ - 1]
           ELSE Bag!Expired(Bag!Aged) = {} /\ Remaining = Bag!Aged
<1> DEFINE B == Bag!Aged
<1>0. /\ DEPTH \in Nat /\ 0 \in Slots /\ id_mem[0] \in ID /\ Head \in Sleepers
      /\ \A i \in Slots : valid_mem[i] \in BOOLEAN
  BY DepthAssumption, CountAssumption
     DEF IInv, TypeOK, RegsOK, Slots, Sleepers, Counts, Head
<1>1. B = [s \in Sleepers |-> HowMany(RowsTicked, DEPTH, {RowOf(s)})]
  BY AgedCounted
<1>2. \A s \in Sleepers : B[s] \in Nat /\ Remaining[s] \in Nat
  BY <1>1, CountsAreNat DEF Remaining
<1>3. \A s \in Sleepers : B[s] = Remaining[s]
                                 + (IF HeadExpired THEN One(RowsTicked[0] \in {RowOf(s)}) ELSE 0)
  <2> SUFFICES ASSUME NEW s \in Sleepers
               PROVE  B[s] = Remaining[s]
                             + (IF HeadExpired THEN One(RowsTicked[0] \in {RowOf(s)}) ELSE 0)
    OBVIOUS
  <2>1. \A x \in {RowOf(s)} : x[1] = TRUE
    <3>1. RowOf(s)[1] = TRUE
      BY DEF RowOf
    <3> QED  BY <3>1
  <2>2. B[s] = HowMany(RowsTicked, DEPTH, {RowOf(s)})
        /\ Remaining[s] = HowMany(RowsLeft, DEPTH, {RowOf(s)})
    BY <1>1 DEF Remaining
  <2>3. HowMany(RowsTicked, DEPTH, {RowOf(s)})
          = HowMany(RowsLeft, DEPTH, {RowOf(s)})
            + (IF HeadExpired THEN One(RowsTicked[0] \in {RowOf(s)}) ELSE 0)
    BY <2>1, WakeCounted
  <2> QED  BY <2>2, <2>3
<1>4. /\ B = [s \in Sleepers |-> B[s]]
      /\ Remaining = [s \in Sleepers |-> Remaining[s]]
  BY <1>1 DEF Remaining
<1>5. \A s \in Sleepers : B[s] > 0 <=> \E i \in Slots : RowsTicked[i] = RowOf(s)
  BY <1>0, <1>1, CountPresent DEF Slots
<1>6. Bag!Expired(B) = {s \in Sleepers : s[2] = 0 /\ B[s] > 0}
  BY DEF Bag!Expired, Bag!Items, Sleepers, Counts
<1> HIDE DEF B
<1>7. CASE HeadExpired
  <2>1. RowsTicked[0] = RowOf(Head)
    BY <1>0, <1>7 DEF RowsTicked, Rows, RowOf, HeadExpired, Head
  <2>2. \A s \in Sleepers : RowsTicked[0] = RowOf(s) <=> s = Head
    <3> SUFFICES ASSUME NEW s \in Sleepers, RowOf(Head) = RowOf(s)
                 PROVE  s = Head
      BY <2>1
    <3>1. s = <<s[1], s[2]>> /\ Head = <<Head[1], Head[2]>>
      BY <1>0 DEF Sleepers
    <3>2. s[1] = Head[1] /\ s[2] = Head[2]
      BY DEF RowOf
    <3> QED  BY <3>1, <3>2
  <2>3. \A s \in Sleepers : Remaining[s] = IF s = Head THEN B[s] - 1 ELSE B[s]
    <3>1. \A s \in Sleepers : B[s] = Remaining[s] + (IF s = Head THEN 1 ELSE 0)
      BY <1>3, <1>7, <2>2 DEF One
    <3> QED  BY <1>2, <3>1
  <2>4. Remaining = [B EXCEPT ![Head] = @ - 1]
    BY <1>0, <1>4, <2>3
  <2>5. Head \in Bag!Expired(B)
    BY <1>0, <1>5, <1>6, <2>1 DEF Head
  <2> QED  BY <1>7, <2>4, <2>5 DEF B
<1>8. CASE ~HeadExpired
  <2>1. Remaining = B
    BY <1>2, <1>3, <1>4, <1>8
  <2>2. ASSUME NEW s \in Bag!Expired(B)
        PROVE  FALSE
    <3>1. PICK i \in Slots : RowsTicked[i] = RowOf(s)
      BY <1>5, <1>6, <2>2
    <3>2. s[2] = 0
      BY <1>6, <2>2
    <3>3. valid_mem[i] /\ Ticked[i] = 0
      BY <1>0, <3>1, <3>2 DEF RowsTicked, Rows, RowOf
    <3> QED  BY <1>8, <3>3, ExpiryReachesHead
  <2> QED  BY <1>8, <2>1, <2>2 DEF B
<1> QED  BY <1>7, <1>8

LEMMA AfterTheEdge ==
    IInv' => /\ Contents' = [s \in Sleepers |-> HowMany(RowsNow', DEPTH, {RowOf(s)})]
             /\ Cardinality(Occupied)' = depth_r'
<1> DEFINE P == /\ Contents = [s \in Sleepers |-> HowMany(RowsNow, DEPTH, {RowOf(s)})]
                /\ Cardinality(Occupied) = depth_r
<1>1. IInv => P
  BY RowsCounted, SizeCounted DEF Sleepers
<1>2. IInv' => P'
  BY <1>1, PTL
<1> QED  BY <1>2 DEF HowMany, Places, RowOf, Sleepers

(* What an edge without a flush does to the bag and to its size. *)
LEMMA BagMoves ==
    ASSUME IInv, IInv', Next, ~flush
    PROVE  /\ Contents' = IF enqueue /\ HasRoom
                          THEN [Remaining EXCEPT ![<<enq_id, enq_count>>] = @ + 1]
                          ELSE Remaining
           /\ Cardinality(Occupied)' = DepthAfterWake + (IF enqueue /\ HasRoom THEN 1 ELSE 0)
           /\ Woken' = IF HeadExpired THEN {id_mem[0]} ELSE {}
<1> DEFINE new == <<enq_id, enq_count>>
<1>0. new \in Sleepers /\ DEPTH \in Nat /\ DepthAfterWake \in Nat
  BY DepthAssumption, WakeKeepsShape DEF IInv, TypeOK, InputsOK, Sleepers
<1>1. (Advance /\ ~(enqueue /\ HasRoom)) \/ (AdvanceAndInsert /\ enqueue /\ HasRoom)
  BY DEF Next, FlushAll, Advance, AdvanceAndInsert
<1>2. Contents' = [s \in Sleepers |-> HowMany(RowsNow', DEPTH, {RowOf(s)})]
  BY AfterTheEdge
<1>3. Cardinality(Occupied)' = depth_r'
  BY AfterTheEdge
<1>4. Woken' = IF HeadExpired THEN {id_mem[0]} ELSE {}
  <2>1. /\ wake_valid' = HeadExpired
        /\ wake_id' = IF HeadExpired THEN id_mem[0] ELSE wake_id
    BY <1>1, Zenon DEF Advance, AdvanceAndInsert
  <2>2. CASE HeadExpired
    <3>1. wake_valid' /\ wake_id' = id_mem[0]
      BY <2>1, <2>2
    <3> QED  BY <2>2, <3>1 DEF Woken
  <2>3. CASE ~HeadExpired
    <3>1. ~wake_valid'
      BY <2>1, <2>3
    <3> QED  BY <2>3, <3>1 DEF Woken
  <2> QED  BY <2>2, <2>3
<1>5. CASE Advance /\ ~(enqueue /\ HasRoom)
  <2>1. RowsNow' = RowsLeft /\ depth_r' = DepthAfterWake
    BY <1>5 DEF Advance, RowsNow, RowsLeft, Rows
  <2>2. Contents' = Remaining
    BY <1>2, <2>1 DEF Remaining
  <2> QED  BY <1>0, <1>3, <1>4, <1>5, <2>1, <2>2
<1>6. CASE AdvanceAndInsert /\ enqueue /\ HasRoom
  <2>1. RowsNow' = RowsAfter /\ depth_r' = DepthAfterWake + 1
    BY <1>6 DEF AdvanceAndInsert, RowsNow, RowsAfter, Rows
  <2>2. \A s \in Sleepers : Newcomer = RowOf(s) <=> s = new
    <3> SUFFICES ASSUME NEW s \in Sleepers
                 PROVE  Newcomer = RowOf(s) <=> s = new
      OBVIOUS
    <3>1. s = <<s[1], s[2]>>
      BY DEF Sleepers
    <3>2. Newcomer = RowOf(s) <=> enq_id = s[1] /\ enq_count = s[2]
      BY DEF Newcomer, RowOf
    <3> QED  BY <3>1, <3>2
  <2>3. \A s \in Sleepers : HowMany(RowsAfter, DEPTH, {RowOf(s)})
                              = Remaining[s] + (IF s = new THEN 1 ELSE 0)
    <3> SUFFICES ASSUME NEW s \in Sleepers
                 PROVE  HowMany(RowsAfter, DEPTH, {RowOf(s)})
                          = Remaining[s] + (IF s = new THEN 1 ELSE 0)
      OBVIOUS
    <3>1. \A x \in {RowOf(s)} : x[1] = TRUE
      <4>1. RowOf(s)[1] = TRUE
        BY DEF RowOf
      <4> QED  BY <4>1
    <3>2. HowMany(RowsAfter, DEPTH, {RowOf(s)})
            = HowMany(RowsLeft, DEPTH, {RowOf(s)}) + One(Newcomer \in {RowOf(s)})
      BY <1>6, <3>1, InsertCounted
    <3>3. Remaining[s] = HowMany(RowsLeft, DEPTH, {RowOf(s)})
      BY DEF Remaining
    <3> QED  BY <2>2, <3>2, <3>3 DEF One
  <2>4. Contents' = [s \in Sleepers |-> Remaining[s] + (IF s = new THEN 1 ELSE 0)]
    BY <1>2, <2>1, <2>3
  <2>5. Remaining = [s \in Sleepers |-> Remaining[s]] /\ \A s \in Sleepers : Remaining[s] \in Nat
    BY CountsAreNat DEF Remaining
  <2> HIDE DEF new
  <2>6. Contents' = [Remaining EXCEPT ![new] = @ + 1]
    BY <1>0, <2>4, <2>5
  <2> QED  BY <1>3, <1>4, <1>6, <2>1, <2>6 DEF new
<1> QED  BY <1>1, <1>5, <1>6

LEMMA BagStep ==
    ASSUME IInv, IInv', Next
    PROVE  Bag!Next
<1>1. Bag!DriveInputs
  BY DEF Next, DriveInputs, Bag!DriveInputs, Counts
<1>2. Cardinality(Occupied) = depth_r /\ depth_r \in 0 .. DEPTH
  BY SizeCounted DEF IInv, TypeOK, RegsOK
<1>3. CASE flush
  <2>1. FlushAll
    BY <1>3 DEF Next, Advance, AdvanceAndInsert
  <2>2. Contents' = Bag!Nobody /\ Cardinality(Occupied)' = 0 /\ Woken' = {}
    <3>1. Occupied' = {}
      BY <2>1 DEF FlushAll, Occupied
    <3>2. \A s : Holding(s)' = {}
      BY <3>1 DEF Holding
    <3>3. Contents' = [s \in ID \X Counts |-> Cardinality({})]
      BY <3>2 DEF Contents
    <3> QED  BY <2>1, <3>1, <3>3, FS_EmptySet
             DEF FlushAll, Woken, Bag!Nobody, Bag!Items, Counts
  <2> QED  BY <1>1, <1>3, <2>2 DEF Bag!Next, Bag!Flush, Bag!Holds
<1>4. CASE ~flush
  <2>1. /\ Contents' = IF enqueue /\ HasRoom
                       THEN [Remaining EXCEPT ![<<enq_id, enq_count>>] = @ + 1]
                       ELSE Remaining
        /\ Cardinality(Occupied)' = DepthAfterWake + (IF enqueue /\ HasRoom THEN 1 ELSE 0)
        /\ Woken' = IF HeadExpired THEN {id_mem[0]} ELSE {}
    BY <1>4, BagMoves
  <2>2. DepthAfterWake \in Int
    BY WakeKeepsShape
  <2>3. Bag!Take(Remaining, DepthAfterWake)
    BY <2>1, <2>2 DEF Bag!Take, Bag!Holds, HasRoom
  <2>4. CASE HeadExpired
    <3>1. /\ Head \in Bag!Expired(Bag!Aged)
          /\ Remaining = [Bag!Aged EXCEPT ![Head] = @ - 1]
      BY <2>4, WakeMoves
    <3>2. DepthAfterWake = Cardinality(Occupied) - 1 /\ Woken' = {Head[1]}
      BY <1>2, <2>1, <2>4 DEF DepthAfterWake, Head
    <3>3. Bag!Wake(Bag!Aged)
      BY <1>4, <2>3, <3>1, <3>2 DEF Bag!Wake
    <3> QED  BY <1>1, <3>3 DEF Bag!Next
  <2>5. CASE ~HeadExpired
    <3>1. Bag!Expired(Bag!Aged) = {} /\ Remaining = Bag!Aged
      BY <2>5, WakeMoves
    <3>2. DepthAfterWake = Cardinality(Occupied) /\ Woken' = {}
      BY <1>2, <2>1, <2>5 DEF DepthAfterWake
    <3>3. Bag!Sleep(Bag!Aged)
      BY <1>4, <2>3, <3>1, <3>2 DEF Bag!Sleep
    <3> QED  BY <1>1, <3>3 DEF Bag!Next
  <2> QED  BY <2>4, <2>5
<1> QED  BY <1>3, <1>4

(* The sorted array with its three shifting loops implements the bag of     *)
(* countdowns (rtl/sleep_queue.v:53-129), for every depth, identifier set   *)
(* and count width: whatever tick, wake and insert coincide on an edge, no  *)
(* sleeper is lost, duplicated, delayed or woken before its last tick.      *)
THEOREM ImplementsBag == Spec => KeepsEverySleeper
<1>1. Init => Bag!Init
  <2> SUFFICES ASSUME Init PROVE Bag!Init
    OBVIOUS
  <2>1. Occupied = {}
    BY DEF Init, Empty, Occupied
  <2>2. Contents = [s \in ID \X Counts |-> Cardinality({})]
    BY <2>1 DEF Contents, Holding
  <2> QED  BY <2>1, <2>2, FS_EmptySet
           DEF Init, Empty, Woken, Bag!Init, Bag!Nobody, Bag!Items, Counts
<1>2. IInv /\ IInv' /\ [Next]_vars => [Bag!Next]_(Bag!vars)
  <2>1. UNCHANGED vars => UNCHANGED Bag!vars
    BY DEF vars, inputs, regs, Bag!vars, Contents, Holding, Occupied, Woken
  <2> QED  BY <2>1, BagStep
<1> QED  BY <1>1, <1>2, Invariance, PTL DEF Spec, KeepsEverySleeper, Bag!Spec
-----------------------------------------------------------------------------
(* The entries that hold an identifier, for the composition. *)
Held(id)    == Cardinality({i \in Slots : valid_mem[i] /\ id_mem[i] = id})
RowsFor(id) == {<<TRUE, id, n>> : n \in Counts}

LEMMA HeldCounted ==
    ASSUME IInv, NEW id \in ID
    PROVE  /\ Held(id) \in Nat
           /\ Held(id) = HowMany(RowsNow, DEPTH, RowsFor(id))
           /\ IsFiniteSet({i \in Slots : valid_mem[i] /\ id_mem[i] = id})
<1>1. \A i \in Slots : valid_mem[i] \in BOOLEAN /\ cnt_mem[i] \in Counts
  BY DEF IInv, TypeOK, RegsOK
<1>2. \A i \in Slots : RowsNow[i] \in RowsFor(id) <=> valid_mem[i] /\ id_mem[i] = id
  BY <1>1 DEF RowsNow, Rows, RowsFor
<1>3. {i \in Slots : valid_mem[i] /\ id_mem[i] = id} = Places(RowsNow, DEPTH, RowsFor(id))
  BY <1>2 DEF Places, Slots
<1>4. DEPTH \in Nat
  BY DepthAssumption
<1> QED  BY <1>3, <1>4, PlacesFinite, CountNext DEF Held, HowMany

(* The entries of an identifier whose count is in K.  An edge without a     *)
(* flush keeps their number if the tick takes the counts in K to those in   *)
(* L; then the head that wakes leaves L and the newcomer enters it.         *)
HeldWith(id, K) ==
    Cardinality({i \in Slots : valid_mem[i] /\ id_mem[i] = id /\ cnt_mem[i] \in K})
RowsWith(id, K) == {<<TRUE, id, n>> : n \in K}

LEMMA RowsWithCounted ==
    ASSUME NEW v, NEW ids, NEW c, \A i \in Slots : v[i] \in BOOLEAN, NEW id, NEW K
    PROVE  /\ HowMany(Rows(v, ids, c), DEPTH, RowsWith(id, K)) \in Nat
           /\ Cardinality({i \in Slots : v[i] /\ ids[i] = id /\ c[i] \in K})
                = HowMany(Rows(v, ids, c), DEPTH, RowsWith(id, K))
<1>1. \A i \in Slots : Rows(v, ids, c)[i] \in RowsWith(id, K)
                        <=> v[i] /\ ids[i] = id /\ c[i] \in K
  BY DEF Rows, RowsWith
<1>2. {i \in Slots : v[i] /\ ids[i] = id /\ c[i] \in K}
        = Places(Rows(v, ids, c), DEPTH, RowsWith(id, K))
  BY <1>1 DEF Places, Slots
<1>3. DEPTH \in Nat
  BY DepthAssumption
<1> QED  BY <1>2, <1>3, CountNext DEF HowMany

LEMMA HeldWithMoves ==
    ASSUME IInv, IInv', Next, ~flush, NEW id \in ID,
           NEW K \in SUBSET Counts, NEW L \in SUBSET Counts,
           \A i \in Slots : valid_mem[i] => (Ticked[i] \in L <=> cnt_mem[i] \in K)
    PROVE  /\ HeldWith(id, K) \in Nat /\ HeldWith(id, L)' \in Nat
           /\ HeldWith(id, L)' + (IF wake_valid' /\ wake_id' = id /\ 0 \in L THEN 1 ELSE 0)
                = HeldWith(id, K)
                  + (IF enqueue /\ HasRoom /\ enq_id = id /\ enq_count \in L THEN 1 ELSE 0)
<1> DEFINE Before == RowsWith(id, K)
           After  == RowsWith(id, L)
<1>0. /\ DEPTH \in Nat /\ 0 \in Slots
      /\ \A i \in Slots : valid_mem[i] \in BOOLEAN /\ valid_mem'[i] \in BOOLEAN
  BY DepthAssumption DEF IInv, TypeOK, RegsOK, Slots
<1>1. (Advance /\ ~(enqueue /\ HasRoom)) \/ (AdvanceAndInsert /\ enqueue /\ HasRoom)
  BY DEF Next, FlushAll, Advance, AdvanceAndInsert
<1>2. \A x \in After : x[1] = TRUE
  <2> SUFFICES ASSUME NEW n \in L PROVE <<TRUE, id, n>>[1] = TRUE
    BY DEF RowsWith
  <2> QED  OBVIOUS
<1>3. HeldWith(id, K) = HowMany(RowsNow, DEPTH, Before) /\ HeldWith(id, K) \in Nat
  <2>1. \A i \in Slots : valid_mem[i] \in BOOLEAN
    BY <1>0
  <2>2. /\ HowMany(RowsNow, DEPTH, Before) \in Nat
        /\ Cardinality({i \in Slots : valid_mem[i] /\ id_mem[i] = id /\ cnt_mem[i] \in K})
             = HowMany(RowsNow, DEPTH, Before)
    BY <2>1, RowsWithCounted DEF RowsNow
  <2> QED  BY <2>2 DEF HeldWith
<1>4. HeldWith(id, L)' = HowMany(RowsNow', DEPTH, After) /\ HeldWith(id, L)' \in Nat
  BY <1>0, RowsWithCounted DEF HeldWith, RowsNow
<1>5. HowMany(RowsTicked, DEPTH, After) = HowMany(RowsNow, DEPTH, Before)
  <2>1. \A i \in Slots : RowsTicked[i] \in After <=> RowsNow[i] \in Before
    BY <1>0 DEF RowsTicked, RowsNow, Rows, RowsWith
  <2>2. Places(RowsTicked, DEPTH, After) = Places(RowsNow, DEPTH, Before)
    BY <2>1 DEF Places, Slots
  <2> QED  BY <2>2 DEF HowMany
<1>6. HowMany(RowsTicked, DEPTH, After)
        = HowMany(RowsLeft, DEPTH, After)
          + (IF wake_valid' /\ wake_id' = id /\ 0 \in L THEN 1 ELSE 0)
  <2>1. /\ wake_valid' = HeadExpired
        /\ wake_id' = IF HeadExpired THEN id_mem[0] ELSE wake_id
    BY <1>1, Zenon DEF Advance, AdvanceAndInsert
  <2>2. HeadExpired => (RowsTicked[0] \in After <=> id_mem[0] = id /\ 0 \in L)
    <3> SUFFICES ASSUME HeadExpired
                 PROVE  RowsTicked[0] \in After <=> id_mem[0] = id /\ 0 \in L
      OBVIOUS
    <3>1. RowsTicked[0] = <<TRUE, id_mem[0], 0>>
      <4>1. valid_mem[0] = TRUE /\ Ticked[0] = 0
        BY <1>0 DEF HeadExpired
      <4>2. RowsTicked[0] = <<valid_mem[0], id_mem[0], Ticked[0]>>
        BY <1>0 DEF RowsTicked, Rows
      <4> QED  BY <4>1, <4>2
    <3> QED  BY <3>1 DEF RowsWith
  <2>3. CASE HeadExpired
    <3>1. wake_valid' /\ wake_id' = id_mem[0]
      BY <2>1, <2>3
    <3> QED  BY <1>2, <2>2, <2>3, <3>1, WakeCounted DEF One
  <2>4. CASE ~HeadExpired
    <3>1. ~wake_valid'
      BY <2>1, <2>4
    <3> QED  BY <1>2, <2>4, <3>1, WakeCounted
  <2> QED  BY <2>3, <2>4
<1>7. HowMany(RowsNow', DEPTH, After)
        = HowMany(RowsLeft, DEPTH, After)
          + (IF enqueue /\ HasRoom /\ enq_id = id /\ enq_count \in L THEN 1 ELSE 0)
      /\ HowMany(RowsLeft, DEPTH, After) \in Nat
  <2>1. HowMany(RowsLeft, DEPTH, After) \in Nat
    BY <1>0, CountNext
  <2>2. CASE Advance /\ ~(enqueue /\ HasRoom)
    <3>1. RowsNow' = RowsLeft
      BY <2>2 DEF Advance, RowsNow, RowsLeft, Rows
    <3> QED  BY <2>1, <2>2, <3>1
  <2>3. CASE AdvanceAndInsert /\ enqueue /\ HasRoom
    <3>1. RowsNow' = RowsAfter
      BY <2>3 DEF AdvanceAndInsert, RowsNow, RowsAfter, Rows
    <3>2. Newcomer \in After <=> enq_id = id /\ enq_count \in L
      BY DEF Newcomer, RowsWith
    <3>3. HowMany(RowsAfter, DEPTH, After)
            = HowMany(RowsLeft, DEPTH, After) + One(Newcomer \in After)
      BY <1>2, <2>3, InsertCounted
    <3> QED  BY <2>1, <2>3, <3>1, <3>2, <3>3 DEF One
  <2> QED  BY <1>1, <2>2, <2>3
<1> QED  BY <1>3, <1>4, <1>5, <1>6, <1>7

LEMMA HeldMoves ==
    ASSUME IInv, IInv', Next, ~flush, NEW id \in ID
    PROVE  Held(id)' + (IF wake_valid' /\ wake_id' = id THEN 1 ELSE 0)
             = Held(id) + (IF enqueue /\ HasRoom /\ enq_id = id THEN 1 ELSE 0)
<1>1. /\ enq_count \in Counts /\ 0 \in Counts /\ Counts \in SUBSET Counts
      /\ \A i \in Slots : cnt_mem[i] \in Counts /\ cnt_mem'[i] \in Counts
  BY CountAssumption DEF IInv, TypeOK, InputsOK, RegsOK, Counts
<1>2. \A i \in Slots : Ticked[i] \in Counts
  BY TickKeepsOrder
<1>3. Held(id) = HeldWith(id, Counts) /\ Held(id)' = HeldWith(id, Counts)'
  BY <1>1 DEF Held, HeldWith
<1> QED  BY <1>1, <1>2, <1>3, HeldWithMoves

(* An entry that has expired after an edge had expired one place further    *)
(* back: the head left, and a newcomer with a count goes behind.           *)
LEMMA ExpiredStay ==
    ASSUME IInv, Next, ~flush, enqueue => enq_count # 0,
           NEW i \in Slots, valid_mem'[i], cnt_mem'[i] = 0
    PROVE  i + 1 \in Slots /\ valid_mem[i + 1] /\ Ticked[i + 1] = 0
<1>1. /\ DEPTH \in Nat /\ depth_r \in 0 .. DEPTH /\ enq_count \in Nat
      /\ \A j \in Slots : valid_mem[j] <=> j < depth_r
  BY DepthAssumption, CountAssumption
     DEF IInv, TypeOK, RegsOK, InputsOK, Packed, Counts
<1>2. /\ DepthAfterWake \in 0 .. DEPTH
      /\ \A j \in Slots : ValidLeft[j] <=> j < DepthAfterWake
      /\ \A j \in Slots : CountsLeft[j] \in Nat
      /\ \A j, k \in Slots : j < k /\ k < DepthAfterWake => CountsLeft[j] <= CountsLeft[k]
  BY WakeKeepsShape, CountAssumption DEF Ascending, Counts
<1>3. ValidLeft[i] /\ CountsLeft[i] = 0
  <2>1. CASE Advance
    BY <2>1 DEF Advance
  <2>2. CASE AdvanceAndInsert
    <3> DEFINE n == DepthAfterWake
               p == InsertPos
    <3>1. IsInsertPos(p) /\ enqueue /\ HasRoom
      BY <2>2, InsertPosExists DEF AdvanceAndInsert
    <3>2. p \in 0 .. n /\ (p < n => enq_count < CountsLeft[p]) /\ enq_count > 0
      BY <1>1, <3>1 DEF IsInsertPos, Beaten
    <3>3. /\ valid_mem'[i] = IF i = p THEN TRUE
                             ELSE IF p < i /\ i <= n THEN ValidLeft[i - 1] ELSE ValidLeft[i]
          /\ cnt_mem'[i] = IF i = p THEN enq_count
                           ELSE IF p < i /\ i <= n THEN CountsLeft[i - 1] ELSE CountsLeft[i]
      BY <2>2 DEF AdvanceAndInsert, InsertAt
    <3> HIDE DEF n, p
    <3>4. ~(p < i /\ i <= n)
      <4> SUFFICES ASSUME p < i, i <= n PROVE FALSE
        OBVIOUS
      <4>1. n \in 0 .. DEPTH /\ i \in Slots /\ i - 1 \in Slots /\ p \in Slots /\ p < n /\ i - 1 < n
        BY <1>1, <1>2, <3>2 DEF Slots, n
      <4>2. CountsLeft[p] <= CountsLeft[i - 1] /\ CountsLeft[i - 1] \in Nat /\ CountsLeft[p] \in Nat
        <5>1. CASE p = i - 1
          BY <1>2, <4>1, <5>1
        <5>2. CASE p < i - 1
          BY <1>2, <4>1, <5>2 DEF n
        <5> QED  BY <3>2, <4>1, <5>1, <5>2 DEF Slots
      <4>3. CountsLeft[i - 1] = 0
        BY <3>3, <3>2, <4>1 DEF Slots
      <4> QED  BY <1>1, <3>2, <4>1, <4>2, <4>3
    <3>5. i # p
      BY <3>2, <3>3
    <3> QED  BY <3>3, <3>4, <3>5
  <2> QED  BY <2>1, <2>2 DEF Next, FlushAll
<1>4. HeadExpired
  <2> SUFFICES ASSUME ~HeadExpired PROVE FALSE
    OBVIOUS
  <2>1. valid_mem[i] /\ Ticked[i] = 0
    BY <1>3 DEF ValidLeft, CountsLeft, AfterWake
  <2> QED  BY <2>1, ExpiryReachesHead
<1>5. i < DepthAfterWake /\ DepthAfterWake = depth_r - 1
  BY <1>2, <1>3, <1>4 DEF DepthAfterWake
<1>6. CountsLeft[i] = Ticked[i + 1]
  BY <1>4, <1>5 DEF CountsLeft, AfterWake
<1> QED  BY <1>1, <1>3, <1>5, <1>6 DEF Slots

(* With no more identifiers than entries, and each at most once, there is   *)
(* always an entry for one that is not there.                              *)
LEMMA RoomForAnother ==
    ASSUME IInv, NEW U, IsFiniteSet(U), Cardinality(U) <= DEPTH, NEW v \in U, v \in ID,
           \A id \in ID : Held(id) <= 1 /\ (Held(id) > 0 => id \in U), Held(v) = 0
    PROVE  HasRoom
<1>1. /\ DEPTH \in Nat /\ depth_r \in 0 .. DEPTH /\ depth_r \in Nat
      /\ \A i \in 0 .. depth_r - 1 : i \in Slots /\ valid_mem[i] /\ id_mem[i] \in ID
  BY DepthAssumption DEF IInv, TypeOK, RegsOK, Packed, Slots
<1> DEFINE S(id) == {i \in Slots : valid_mem[i] /\ id_mem[i] = id}
<1>2. \A id \in ID : IsFiniteSet(S(id)) /\ Held(id) = Cardinality(S(id)) /\ Held(id) \in Nat
  BY HeldCounted DEF Held
<1>3. \A i \in 0 .. depth_r - 1 : i \in S(id_mem[i]) /\ id_mem[i] \in ID
  BY <1>1
<1> HIDE DEF S
<1>4. \A i \in 0 .. depth_r - 1 : id_mem[i] \in U \ {v}
  <2> TAKE i \in 0 .. depth_r - 1
  <2>1. Held(id_mem[i]) # 0
    BY <1>2, <1>3, FS_EmptySet
  <2>2. Held(id_mem[i]) > 0
    BY <1>2, <1>3, <2>1
  <2> QED  BY <1>3, <2>2
<1>5. \A i, j \in 0 .. depth_r - 1 : id_mem[i] = id_mem[j] => i = j
  BY <1>2, <1>3, AtMostOne
<1>6. depth_r < Cardinality(U)
  BY <1>1, <1>4, <1>5, DistinctFit
<1> QED  BY <1>1, <1>6, FS_CardinalityType DEF HasRoom, DepthAfterWake
-----------------------------------------------------------------------------
(* The ticks a sleeper has left, for the composition.  An edge without a   *)
(* flush brings it a tick closer or leaves it alone, until it wakes.       *)
SleepsFor(id, n) == \E i \in Slots : valid_mem[i] /\ id_mem[i] = id /\ cnt_mem[i] = n
Less(n) == IF tick /\ n # 0 THEN n - 1 ELSE n

(* With one entry for an identifier there is one number of ticks for it.   *)
LEMMA OneNumber ==
    ASSUME IInv, NEW id \in ID, Held(id) <= 1, NEW n, NEW m,
           SleepsFor(id, n), SleepsFor(id, m)
    PROVE  n = m
<1> DEFINE S == {i \in Slots : valid_mem[i] /\ id_mem[i] = id}
<1>1. IsFiniteSet(S) /\ Cardinality(S) <= 1
  BY HeldCounted DEF Held
<1>2. PICK i \in S : cnt_mem[i] = n
  BY DEF SleepsFor
<1>3. PICK j \in S : cnt_mem[j] = m
  BY DEF SleepsFor
<1>4. i = j
  <2> HIDE DEF S
  <2> QED  BY <1>1, AtMostOne
<1> QED  BY <1>2, <1>3, <1>4

LEMMA NobodyHeld ==
    ASSUME IInv, NEW id \in ID
    PROVE  Held(id) > 0 <=> \E n \in Counts : SleepsFor(id, n)
<1>1. \A i \in Slots : cnt_mem[i] \in Counts
  BY DEF IInv, TypeOK, RegsOK
<1>2. Held(id) > 0 <=> {i \in Slots : valid_mem[i] /\ id_mem[i] = id} # {}
  BY HeldCounted, FS_EmptySet DEF Held
<1> QED  BY <1>1, <1>2 DEF SleepsFor

LEMMA RowPresent ==
    ASSUME NEW v, NEW ids, NEW c, \A i \in Slots : v[i] \in BOOLEAN, NEW id, NEW n
    PROVE  /\ HowMany(Rows(v, ids, c), DEPTH, {RowOf(<<id, n>>)}) \in Nat
           /\ HowMany(Rows(v, ids, c), DEPTH, {RowOf(<<id, n>>)}) > 0
                <=> \E i \in Slots : v[i] /\ ids[i] = id /\ c[i] = n
<1>1. DEPTH \in Nat
  BY DepthAssumption
<1>2. \A i \in Slots : Rows(v, ids, c)[i] \in {RowOf(<<id, n>>)}
                        <=> v[i] /\ ids[i] = id /\ c[i] = n
  BY DEF Rows, RowOf
<1> QED  BY <1>1, <1>2, CountPresent DEF Slots

LEMMA SleepsForMoves ==
    ASSUME IInv, IInv', Next, ~flush, NEW id \in ID
    PROVE  /\ \A n \in Counts : SleepsFor(id, n)' =>
                  \/ enqueue /\ HasRoom /\ enq_id = id /\ enq_count = n
                  \/ \E m \in Counts : SleepsFor(id, m) /\ n = Less(m)
           /\ \A n \in Counts :
                  enqueue /\ HasRoom /\ enq_id = id /\ enq_count = n => SleepsFor(id, n)'
           /\ \A m, n \in Counts : SleepsFor(id, m) /\ n = Less(m) =>
                  SleepsFor(id, n)' \/ (n = 0 /\ wake_valid' /\ wake_id' = id)
<1> DEFINE X(n)     == {RowOf(<<id, n>>)}
           Now(n)   == HowMany(RowsNow, DEPTH, X(n))
           Aged(n)  == HowMany(RowsTicked, DEPTH, X(n))
           Left(n)  == HowMany(RowsLeft, DEPTH, X(n))
           After(n) == HowMany(RowsNow', DEPTH, X(n))
           Leaves(n) == HeadExpired /\ id_mem[0] = id /\ n = 0
           Enters(n) == enqueue /\ HasRoom /\ enq_id = id /\ enq_count = n
<1>1. /\ MaxCount \in Nat /\ Counts = 0 .. MaxCount /\ 0 \in Slots /\ enq_count \in Counts
      /\ \A i \in Slots : valid_mem[i] \in BOOLEAN /\ valid_mem'[i] \in BOOLEAN
      /\ \A n : \A x \in X(n) : x[1] = TRUE
  BY CountAssumption, DepthAssumption DEF IInv, TypeOK, RegsOK, InputsOK, Counts, Slots, RowOf
<1>2. (Advance /\ ~(enqueue /\ HasRoom)) \/ (AdvanceAndInsert /\ enqueue /\ HasRoom)
  BY DEF Next, FlushAll, Advance, AdvanceAndInsert
<1>3. \A n : /\ Now(n) \in Nat /\ (Now(n) > 0 <=> SleepsFor(id, n))
             /\ After(n) \in Nat /\ (After(n) > 0 <=> SleepsFor(id, n)')
  BY <1>1, RowPresent DEF RowsNow, SleepsFor
<1>4. \A n \in Counts : Aged(n) \in Nat /\ Left(n) \in Nat
  BY CountsAreNat
<1>5. \A n \in Counts : Aged(n) = IF tick THEN (IF n = 0 THEN Now(n) ELSE 0)
                                               + (IF n < MaxCount THEN Now(n + 1) ELSE 0)
                                   ELSE Now(n)
  <2> TAKE n \in Counts
  <2>1. <<id, n>> \in ID \X Counts /\ <<id, n>>[1] = id /\ <<id, n>>[2] = n
    OBVIOUS
  <2> QED  BY <2>1, TickCounted
<1>6. \A n \in Counts : Aged(n) = Left(n) + One(Leaves(n))
  <2> TAKE n \in Counts
  <2>1. HeadExpired => (RowsTicked[0] \in X(n) <=> id_mem[0] = id /\ n = 0)
    BY <1>1 DEF HeadExpired, RowsTicked, Rows, RowOf
  <2> QED  BY <1>1, <1>4, <2>1, WakeCounted DEF One
<1>7. \A n \in Counts : After(n) = Left(n) + One(Enters(n))
  <2> TAKE n \in Counts
  <2>1. CASE Advance /\ ~(enqueue /\ HasRoom)
    <3>1. RowsNow' = RowsLeft
      BY <2>1 DEF Advance, RowsNow, RowsLeft, Rows
    <3> QED  BY <1>4, <2>1, <3>1 DEF One
  <2>2. CASE AdvanceAndInsert /\ enqueue /\ HasRoom
    <3>1. RowsNow' = RowsAfter
      BY <2>2 DEF AdvanceAndInsert, RowsNow, RowsAfter, Rows
    <3>2. Newcomer \in X(n) <=> enq_id = id /\ enq_count = n
      BY DEF Newcomer, RowOf
    <3> QED  BY <1>1, <2>2, <3>1, <3>2, InsertCounted DEF One
  <2> QED  BY <1>2, <2>1, <2>2
<1>8. HeadExpired => wake_valid' /\ wake_id' = id_mem[0]
  BY <1>2, Zenon DEF Advance, AdvanceAndInsert
<1> HIDE DEF X, Now, Aged, Left, After
<1>9. ASSUME NEW n \in Counts, After(n) > 0
      PROVE  Enters(n) \/ \E m \in Counts : Now(m) > 0 /\ n = Less(m)
  <2>1. CASE Enters(n)
    BY <2>1
  <2>2. CASE ~Enters(n)
    <3>1. Aged(n) > 0
      BY <1>3, <1>4, <1>6, <1>7, <1>9, <2>2 DEF One
    <3>2. CASE tick
      <4>1. (n = 0 /\ Now(n) > 0) \/ (n < MaxCount /\ Now(n + 1) > 0)
        BY <1>1, <1>3, <1>5, <3>1, <3>2
      <4> QED  BY <1>1, <3>2, <4>1 DEF Less
    <3>3. CASE ~tick
      BY <1>5, <3>1, <3>3 DEF Less
    <3> QED  BY <3>2, <3>3
  <2> QED  BY <2>1, <2>2
<1>10. ASSUME NEW m \in Counts, Now(m) > 0
       PROVE  After(Less(m)) > 0 \/ Leaves(Less(m))
  <2>1. Less(m) \in Counts /\ Aged(Less(m)) > 0
    BY <1>1, <1>3, <1>5, <1>10 DEF Less
  <2> QED  BY <1>3, <1>4, <1>6, <1>7, <2>1 DEF One
<1>11. enqueue /\ HasRoom /\ enq_id = id => After(enq_count) > 0
  BY <1>1, <1>4, <1>7 DEF One
<1>12. \A n \in Counts : SleepsFor(id, n)' =>
                  \/ enqueue /\ HasRoom /\ enq_id = id /\ enq_count = n
                  \/ \E m \in Counts : SleepsFor(id, m) /\ n = Less(m)
  <2> SUFFICES ASSUME NEW n \in Counts, SleepsFor(id, n)', ~Enters(n)
               PROVE  \E m \in Counts : SleepsFor(id, m) /\ n = Less(m)
    OBVIOUS
  <2>1. After(n) > 0
    BY <1>3
  <2>2. PICK m \in Counts : Now(m) > 0 /\ n = Less(m)
    BY <1>9, <2>1
  <2>3. SleepsFor(id, m)
    BY <1>3, <2>2
  <2> QED  BY <2>2, <2>3
<1>13. \A m, n \in Counts : SleepsFor(id, m) /\ n = Less(m) =>
           SleepsFor(id, n)' \/ (n = 0 /\ wake_valid' /\ wake_id' = id)
  <2> TAKE m, n \in Counts
  <2> HAVE SleepsFor(id, m) /\ n = Less(m)
  <2>1. Now(m) > 0
    BY <1>3
  <2>2. After(n) > 0 \/ Leaves(n)
    BY <1>10, <2>1
  <2>3. After(n) > 0 => SleepsFor(id, n)'
    BY <1>3
  <2> QED  BY <1>8, <2>2, <2>3
<1>14. \A n \in Counts :
           enqueue /\ HasRoom /\ enq_id = id /\ enq_count = n => SleepsFor(id, n)'
  BY <1>3, <1>11
<1> QED  BY <1>12, <1>13, <1>14
=============================================================================
