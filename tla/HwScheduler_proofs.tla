------------------------- MODULE HwScheduler_proofs -------------------------
(* Theorems about the composition of the blocks, and about the firmware on *)
(* top of it.                                                              *)
EXTENDS HwTiming, Firmware, SequenceTheorems, FiniteSetTheorems, TLAPS

(* What the slave relies on: a beat is never followed by another one on    *)
(* the next clock, so no beat falls into an armed cycle.                   *)
HostOK == beat \in Beats \cup {NoBeat} /\ todo \in Seq(Beats)
OneWord ==
    /\ arm_cmd_valid \in BOOLEAN /\ arm_word2_valid \in BOOLEAN
    /\ ~(arm_cmd_valid /\ arm_word2_valid)
    /\ arm_cmd_valid \/ arm_word2_valid => beat = NoBeat
ChannelInv == HostOK /\ OneWord

LEMMA BeatAddresses ==
    /\ \A b \in Beats : b.addr \in {"CMD_W1", "CMD_W2"}
    /\ NoBeat.addr = "none"
BY DEF Beats, NoBeat

LEMMA HostKeeps ==
    ASSUME HostOK, Host
    PROVE  HostOK' /\ (beat # NoBeat => beat' = NoBeat)
<1>1. CASE Continue
  <2>1. Head(todo) \in Beats /\ Tail(todo) \in Seq(Beats)
    BY <1>1 DEF Continue, HostOK
  <2> QED  BY <1>1, <2>1 DEF Continue, Send, HostOK
<1>2. CASE Request
  <2>1. PICK r \in Requests : Send(Head(r), Tail(r))
    BY <1>2 DEF Request
  <2>2. Head(r) \in Beats /\ Tail(r) \in Seq(Beats)
    BY BeatsAssumption
  <2> QED  BY <2>1, <2>2 DEF Send, HostOK
<1>3. CASE Wait
  BY <1>3 DEF Wait, HostOK
<1> QED  BY <1>1, <1>2, <1>3 DEF Host

LEMMA SlaveKeepsUp ==
    ASSUME ChannelInv, Slave!Step, HostOK', beat # NoBeat => beat' = NoBeat
    PROVE  ChannelInv'
<1>1. HostOK'
  OBVIOUS
<1>2. /\ beat # NoBeat => beat' = NoBeat
      /\ beat = NoBeat <=> beat.addr = "none"
  BY BeatAddresses DEF ChannelInv, HostOK
<1> USE DEF ChannelInv, OneWord
<1>3. CASE Slave!PulseCommand
  BY <1>1, <1>2, <1>3 DEF Slave!PulseCommand
<1>4. CASE Slave!PulseWord2
  BY <1>1, <1>2, <1>4 DEF Slave!PulseWord2
<1>5. CASE Slave!WriteW1
  BY <1>1, <1>2, <1>5 DEF Slave!WriteW1, Slave!Accepts
<1>6. CASE Slave!WriteW2
  BY <1>1, <1>2, <1>6 DEF Slave!WriteW2, Slave!Accepts
<1>7. CASE Slave!NoBeat
  BY <1>1, <1>2, <1>7 DEF Slave!NoBeat
<1> QED  BY <1>3, <1>4, <1>5, <1>6, <1>7 DEF Slave!Step

LEMMA OneWordKept ==
    ASSUME ChannelInv, Host, Slave!Step
    PROVE  ChannelInv'
<1>1. HostOK' /\ (beat # NoBeat => beat' = NoBeat)
  BY HostKeeps DEF ChannelInv
<1> QED  BY <1>1, SlaveKeepsUp

LEMMA Sequences01 ==
    /\ Len(<<>>) = 0 /\ <<>> \o <<>> = <<>>
    /\ \A x : /\ Len(<<x>>) = 1
              /\ <<>> \o <<x>> = <<x>> /\ <<x>> \o <<>> = <<x>>
OBVIOUS

(* The channel's three variables, and what one clock of the slave does to  *)
(* them.                                                                   *)
Offered   == IF beat.addr = "none" THEN <<>> ELSE << <<beat.addr, beat.data>> >>
InTransit == IF arm_cmd_valid THEN << <<"CMD_W1", cmd_word>> >>
             ELSE IF arm_word2_valid THEN << <<"CMD_W2", cmd_word2>> >> ELSE <<>>
Handed    == (IF cmd_valid THEN << <<"CMD_W1", cmd_word>> >> ELSE <<>>)
             \o (IF cmd_word2_valid THEN << <<"CMD_W2", cmd_word2>> >> ELSE <<>>)

LEMMA SlaveHandsOver ==
    ASSUME ChannelInv, Slave!Step
    PROVE  InTransit \o Offered = Handed' \o InTransit'
           /\ Len(Handed') <= 1 /\ Len(InTransit') <= 1
<1> USE Sequences01, BeatAddresses
<1>1. beat = NoBeat <=> beat.addr = "none"
  BY DEF ChannelInv, HostOK
<1>2. CASE Slave!PulseCommand
  <2>1. /\ InTransit = << <<"CMD_W1", cmd_word>> >> /\ Offered = <<>>
        /\ Handed' = << <<"CMD_W1", cmd_word>> >> /\ InTransit' = <<>>
    BY <1>1, <1>2 DEF Slave!PulseCommand, ChannelInv, OneWord, InTransit, Offered, Handed
  <2> QED  BY <2>1
<1>3. CASE Slave!PulseWord2
  <2>1. /\ InTransit = << <<"CMD_W2", cmd_word2>> >> /\ Offered = <<>>
        /\ Handed' = << <<"CMD_W2", cmd_word2>> >> /\ InTransit' = <<>>
    BY <1>1, <1>3 DEF Slave!PulseWord2, ChannelInv, OneWord, InTransit, Offered, Handed
  <2> QED  BY <2>1
<1>4. CASE Slave!WriteW1
  <2>1. /\ InTransit = <<>> /\ Offered = << <<"CMD_W1", beat.data>> >>
        /\ Handed' = <<>> /\ InTransit' = << <<"CMD_W1", beat.data>> >>
    BY <1>4 DEF Slave!WriteW1, Slave!Accepts, InTransit, Offered, Handed
  <2> QED  BY <2>1
<1>5. CASE Slave!WriteW2
  <2>1. /\ InTransit = <<>> /\ Offered = << <<"CMD_W2", beat.data>> >>
        /\ Handed' = <<>> /\ InTransit' = << <<"CMD_W2", beat.data>> >>
    BY <1>5 DEF Slave!WriteW2, Slave!Accepts, InTransit, Offered, Handed
  <2> QED  BY <2>1
<1>6. CASE Slave!NoBeat
  <2>1. InTransit = <<>> /\ Offered = <<>> /\ Handed' = <<>> /\ InTransit' = <<>>
    BY <1>1, <1>6 DEF Slave!NoBeat, ChannelInv, HostOK, InTransit, Offered, Handed
  <2> QED  BY <2>1
<1> QED  BY <1>2, <1>3, <1>4, <1>5, <1>6 DEF Slave!Step

LEMMA InitChannel ==
    ASSUME Init
    PROVE  ChannelInv /\ Channel!Init
<1>1. ChannelInv
  BY BeatsAssumption DEF Init, Slave!PowerOn, ChannelInv, HostOK, OneWord
<1>2. Channel!Init
  BY Sequences01, BeatAddresses DEF Init, Slave!PowerOn, Channel!Init
<1> QED  BY <1>1, <1>2

LEMMA ChannelStep ==
    ASSUME ChannelInv, [Next]_vars
    PROVE  ChannelInv' /\ [Channel!Clock]_(Channel!vars)
<1>1. CASE Next
  <2>1. Host /\ Slave!Step
    BY <1>1 DEF Next, Blocks
  <2>2. ChannelInv'
    BY <2>1, OneWordKept
  <2>3. Channel!Clock
    BY <2>1, SlaveHandsOver DEF Channel!Clock, InTransit, Offered, Handed
  <2> QED  BY <2>2, <2>3
<1>2. CASE UNCHANGED vars
  <2>1. UNCHANGED <<host, slave>>
    BY <1>2 DEF vars
  <2>2. ChannelInv'
    BY <2>1 DEF host, slave, ChannelInv, HostOK, OneWord
  <2>3. UNCHANGED Channel!vars
    BY <2>1 DEF host, slave, Channel!vars
  <2> QED  BY <2>2, <2>3
<1> QED  BY <1>1, <1>2

(* However close together the host's beats are, the register file hands    *)
(* every word over once, in order and as addressed: HwScheduler implements *)
(* CommandChannel.                                                         *)
THEOREM WordsDelivered == Spec => DeliversEveryWord
<1>1. Init => ChannelInv /\ Channel!Init
  BY InitChannel
<1>2. ChannelInv /\ [Next]_vars => ChannelInv' /\ [Channel!Clock]_(Channel!vars)
  BY ChannelStep
<1> QED  BY <1>1, <1>2, PTL DEF Spec, DeliversEveryWord, Channel!Spec
-----------------------------------------------------------------------------
(* The blocks in place.  The lemmas about a block are instantiated with    *)
(* the wiring of HwScheduler.  An instance of a module of proofs has its   *)
(* own copy of the block's definitions: they agree once they are expanded. *)
PQP == INSTANCE PriorityQueue_proofs WITH
        DEPTH <- PQ_DEPTH, NoId <- 0, MaxKey <- TimeMod - 1, depth_r <- pq_depth,
        enqueue <- pq_enqueue_r, enq_id <- pq_enq_id_r, enq_key <- pq_enq_key_r,
        dequeue <- pq_dequeue, flush <- pq_flush

SQP == INSTANCE SleepQueue_proofs WITH
        DEPTH <- SQ_DEPTH, NoId <- 0, MaxCount <- TimeMod * TimeMod - 1,
        depth_r <- sq_depth, flush <- sq_flush, enqueue <- sq_enqueue,
        tick <- tick_pulse_r, enq_id <- sq_enq_id, enq_count <- sq_enq_counter,
        wake_valid <- sq_wake_valid, wake_id <- sq_wake_id

CUP == INSTANCE ControlUnit_proofs WITH
        tick_pulse <- tick_pulse_r,
        pq_head_id <- PQ!head_id, pq_head_valid <- PQ!head_valid

LEMMA SamePQStep == PQ!Step <=> PQP!Step
BY DEF PQ!Step, PQP!Step, PQ!FlushAll, PQP!FlushAll, PQ!Hold, PQP!Hold,
       PQ!Enqueue, PQP!Enqueue, PQ!Dequeue, PQP!Dequeue, PQ!DequeueAndEnqueue,
       PQP!DequeueAndEnqueue, PQ!Cells, PQP!Cells, PQ!NoItem, PQP!NoItem,
       PQ!in, PQP!in, PQ!enq_valid, PQP!enq_valid, PQ!deq_valid, PQP!deq_valid,
       PQ!Inserted, PQP!Inserted, PQ!right, PQP!right, PQ!Resident,
       PQP!Resident, PQ!Beats, PQP!Beats

LEMMA SameSQStep == SQ!Step <=> SQP!Step
BY DEF SQ!Step, SQP!Step, SQ!FlushAll, SQP!FlushAll, SQ!Advance, SQP!Advance,
       SQ!AdvanceAndInsert, SQP!AdvanceAndInsert, SQ!Slots, SQP!Slots,
       SQ!HeadExpired, SQP!HeadExpired, SQ!DepthAfterWake, SQP!DepthAfterWake,
       SQ!IdsLeft, SQP!IdsLeft, SQ!CountsLeft, SQP!CountsLeft, SQ!ValidLeft,
       SQP!ValidLeft, SQ!HasRoom, SQP!HasRoom, SQ!InsertPos, SQP!InsertPos,
       SQ!InsertAt, SQP!InsertAt, SQ!Ticked, SQP!Ticked, SQ!AfterWake,
       SQP!AfterWake, SQ!IsInsertPos, SQP!IsInsertPos, SQ!Beaten, SQP!Beaten

LEMMA SameCUStep == CU!Step <=> CUP!Step
BY DEF CU!Step, CUP!Step, CU!EveryEdge, CUP!EveryEdge, CU!Operation,
       CUP!Operation, CU!CommitTable, CUP!CommitTable, CU!Irq, CUP!Irq,
       CU!Idle, CUP!Idle, CU!Inform, CUP!Inform, CU!Configure, CUP!Configure,
       CU!RunOrStop, CUP!RunOrStop, CU!FirstWord, CUP!FirstWord, CU!Create,
       CUP!Create, CU!Modify, CUP!Modify, CU!LongSleep, CUP!LongSleep,
       CU!ShortSleep, CUP!ShortSleep, CU!Yield, CUP!Yield, CU!YieldAperiodic,
       CUP!YieldAperiodic, CU!Retire, CUP!Retire, CU!Resume, CUP!Resume,
       CU!Activate, CUP!Activate, CU!ActivateEmpty, CUP!ActivateEmpty,
       CU!Reset, CUP!Reset, CU!ResetRefused, CUP!ResetRefused, CU!Blank,
       CUP!Blank, CU!Preempts, CUP!Preempts, CU!MissesDeadline,
       CUP!MissesDeadline, CU!Resets, CUP!Resets, CU!NoTaskWrite,
       CUP!NoTaskWrite, CU!KeepPending, CUP!KeepPending, CU!KeepSettings,
       CUP!KeepSettings, CU!QueuesIdle, CUP!QueuesIdle, CU!Command,
       CUP!Command, CU!Answer, CUP!Answer, CU!Ack, CUP!Ack, CU!QueryValue,
       CUP!QueryValue, CU!config, CUP!config, CU!TwoWordOps, CUP!TwoWordOps,
       CU!Suspended, CUP!Suspended, CU!rd, CUP!rd, CU!WriteTask, CUP!WriteTask,
       CU!Described, CUP!Described, CU!SecondWord, CUP!SecondWord, CU!Sleeping,
       CUP!Sleeping, CU!NoReady, CUP!NoReady, CU!StartSleep, CUP!StartSleep,
       CU!CountTick, CUP!CountTick, CU!NoFlush, CUP!NoFlush, CU!NoDequeue,
       CUP!NoDequeue, CU!Fresh, CUP!Fresh, CU!Deleted, CUP!Deleted, CU!Ready,
       CUP!Ready, CU!MakeReady, CUP!MakeReady, CU!NoSleep, CUP!NoSleep,
       CU!Running, CUP!Running, CU!FlushAll, CUP!FlushAll, CU!DropPending,
       CUP!DropPending, CU!low, CUP!low, CU!NoWrite, CUP!NoWrite,
       CU!TickDecrements, CUP!TickDecrements, CU!WakeWrite, CUP!WakeWrite,
       CU!TickWrite, CUP!TickWrite, CU!tt_rd_id, CUP!tt_rd_id, CU!Write,
       CUP!Write, CU!Word2For, CUP!Word2For, CU!ZeroWord, CUP!ZeroWord

LEMMA SameKey == CU!pq_enq_key = CUP!pq_enq_key
BY DEF CU!pq_enq_key, CUP!pq_enq_key, CU!rd, CUP!rd, CU!low, CUP!low,
       CU!Invert, CUP!Invert, CU!Fresh, CUP!Fresh, CU!pq_eff_abs_deadline,
       CUP!pq_eff_abs_deadline, CU!pq_eff_remaining_wcet,
       CUP!pq_eff_remaining_wcet, CU!tt_rd_id, CUP!tt_rd_id

(* What the blocks may assume of each other's wires. *)
BlocksOK == /\ HostOK /\ tick_pulse \in BOOLEAN
            /\ CUP!TypeOK /\ PQP!IInv /\ SQP!IInv

(* The slave passes on what the host wrote, one valid at a time. *)
LEMMA SlaveWires ==
    ASSUME BlocksOK, Slave!Step
    PROVE  /\ cmd_valid' \in BOOLEAN /\ cmd_word2_valid' \in BOOLEAN
           /\ ~(cmd_valid' /\ cmd_word2_valid')
           /\ cmd_word' \in CU!Word1 /\ cmd_word2' \in CU!Word2
<1>1. cmd_word \in CU!Word1 /\ cmd_word2 \in CU!Word2
  BY DEF BlocksOK, CUP!TypeOK, CUP!InputsOK, CUP!Word1, CU!Word1, CUP!Word2, CU!Word2,
         CUP!PlainOps, CU!PlainOps, CUP!Times, CU!Times, CUP!Selectors, CU!Selectors
<1>2. /\ beat.addr = "CMD_W1" => beat.data \in CU!Word1
      /\ beat.addr = "CMD_W2" => beat.data \in CU!Word2
  <2>1. beat \in Beats \/ beat.addr = "none"
    BY BeatAddresses DEF BlocksOK, HostOK
  <2> QED  BY <2>1 DEF Beats
<1>3. CASE Slave!PulseCommand \/ Slave!PulseWord2 \/ Slave!NoBeat
  BY <1>1, <1>3 DEF Slave!PulseCommand, Slave!PulseWord2, Slave!NoBeat
<1>4. CASE Slave!WriteW1 \/ Slave!WriteW2
  BY <1>1, <1>2, <1>4 DEF Slave!WriteW1, Slave!WriteW2, Slave!Accepts
<1> QED  BY <1>3, <1>4 DEF Slave!Step

LEMMA OtherWires ==
    ASSUME Timer!Step, IrqCtrl!Step
    PROVE  tick_pulse' \in BOOLEAN /\ irq_pending' \in BOOLEAN /\ fast_irq' \in BOOLEAN
<1>1. tick_pulse' \in BOOLEAN
  BY DEF Timer!Step, Timer!Stopped, Timer!Pulse, Timer!Count
<1>2. irq_pending' \in BOOLEAN
  BY DEF IrqCtrl!Step, IrqCtrl!Report, IrqCtrl!Quiet
<1>3. fast_irq' \in BOOLEAN
  <2>1. (IrqCtrl!Winner \in fast_mask) \in BOOLEAN
    OBVIOUS
  <2>2. IrqCtrl!Report => fast_irq' = (IrqCtrl!Winner \in fast_mask)
    BY DEF IrqCtrl!Report
  <2>3. IrqCtrl!Quiet => fast_irq' = FALSE
    BY DEF IrqCtrl!Quiet
  <2> QED  BY <2>1, <2>2, <2>3, Zenon DEF IrqCtrl!Step
<1> QED  BY <1>1, <1>2, <1>3

LEMMA QueueWires ==
    ASSUME BlocksOK, Blocks
    PROVE  PQ!Next /\ PQP!Next /\ SQ!Next /\ SQP!Next
<1> USE DEF BlocksOK
<1>1. PQ!Step /\ SQ!Step /\ CU!Step /\ TopRegisters
  BY DEF Blocks
<1>2. CUP!RegsOK'
  BY <1>1, SameCUStep, CUP!StepKeepsRegs, WidthAssumption
<1>3. PQ!DriveInputs
  <2>1. pq_enq_key_r' \in CUP!Times
    BY <1>1, SameKey, CUP!KeyIsTime, WidthAssumption DEF TopRegisters
  <2>2. CUP!Times = PQ!Keys
    BY WidthAssumption DEF CUP!Times, PQ!Keys
  <2>3. pq_enqueue_r' \in BOOLEAN /\ pq_enq_id_r' \in ID
    BY <1>1 DEF TopRegisters, CUP!TypeOK, CUP!RegsOK
  <2>4. pq_flush' \in BOOLEAN /\ pq_dequeue' \in BOOLEAN
    BY <1>2 DEF CUP!RegsOK
  <2> QED  BY <2>1, <2>2, <2>3, <2>4 DEF PQ!DriveInputs
<1>4. SQ!DriveInputs
  <2>1. tick_pulse_r' \in BOOLEAN
    BY <1>1 DEF TopRegisters
  <2>2. /\ sq_flush' \in BOOLEAN /\ sq_enqueue' \in BOOLEAN
        /\ sq_enq_id' \in ID /\ sq_enq_counter' \in CUP!Sleeps
    BY <1>2 DEF CUP!RegsOK
  <2> QED  BY <2>1, <2>2 DEF SQ!DriveInputs, SQ!Counts, CUP!Sleeps
<1>5. PQP!DriveInputs /\ SQP!DriveInputs
  BY <1>3, <1>4 DEF PQ!DriveInputs, PQP!DriveInputs, PQ!Keys, PQP!Keys,
                    SQ!DriveInputs, SQP!DriveInputs, SQ!Counts, SQP!Counts
<1>6. PQP!Step /\ SQP!Step
  BY <1>1, SamePQStep, SameSQStep
<1> QED  BY <1>1, <1>3, <1>4, <1>5, <1>6
            DEF PQ!Next, PQP!Next, PQ!Step, PQP!Step, SQ!Next, SQP!Next, SQ!Step, SQP!Step

LEMMA BlocksKept ==
    ASSUME BlocksOK, Blocks, HostOK'
    PROVE  BlocksOK' /\ PQ!Next /\ SQ!Next /\ CU!Next
<1>1. Blocks /\ Slave!Step /\ Timer!Step /\ IrqCtrl!Step /\ CU!Step /\ TopRegisters
  BY DEF Blocks
<1>2. PQ!Next /\ SQ!Next /\ PQP!Next /\ SQP!Next
  BY <1>1, QueueWires
<1>3. PQP!IInv'
  BY <1>2, PQP!StepKeepsInvariant, WidthAssumption, DepthAssumption DEF BlocksOK
<1>4. SQP!IInv'
  <2>1. TimeMod * TimeMod - 1 \in Nat
    BY WidthAssumption
  <2> QED  BY <1>2, <2>1, SQP!StepKeepsInvariant, WidthAssumption, DepthAssumption DEF BlocksOK
<1>5. CU!DriveInputs
  <2>1. /\ cmd_valid' \in BOOLEAN /\ cmd_word2_valid' \in BOOLEAN
        /\ ~(cmd_valid' /\ cmd_word2_valid')
        /\ cmd_word' \in CU!Word1 /\ cmd_word2' \in CU!Word2
    BY <1>1, SlaveWires
  <2>2. tick_pulse_r' \in BOOLEAN /\ irq_pending' \in BOOLEAN /\ fast_irq' \in BOOLEAN
    BY <1>1, OtherWires DEF TopRegisters, BlocksOK
  <2>3. (PQ!head_id)' \in ID /\ (PQ!head_valid)' \in BOOLEAN /\ pq_depth' \in Nat
    BY <1>3, DepthAssumption DEF PQP!IInv, PQP!TypeOK, PQP!Cells, PQP!Item, PQ!head_id,
                                 PQ!head_valid
  <2>4. sq_wake_valid' \in BOOLEAN /\ sq_wake_id' \in ID /\ sq_depth' \in Nat
    BY <1>4, DepthAssumption DEF SQP!IInv, SQP!TypeOK, SQP!RegsOK
  <2> QED  BY <2>1, <2>2, <2>3, <2>4, Zenon DEF CU!DriveInputs
<1>6. CUP!TypeOK'
  <2>1. CUP!DriveInputs
    BY <1>5 DEF CU!DriveInputs, CUP!DriveInputs, CUP!Word1, CU!Word1, CUP!Word2, CU!Word2,
         CUP!PlainOps, CU!PlainOps, CUP!Times, CU!Times, CUP!Selectors, CU!Selectors
  <2> QED  BY <1>1, <2>1, SameCUStep, CUP!StepKeepsTypes, WidthAssumption DEF BlocksOK
<1>7. HostOK' /\ tick_pulse' \in BOOLEAN
  BY <1>1, OtherWires
<1> QED  BY <1>1, <1>2, <1>3, <1>4, <1>5, <1>6, <1>7 DEF BlocksOK, CU!Next

LEMMA BlocksStep ==
    ASSUME BlocksOK, Next
    PROVE  BlocksOK' /\ PQ!Next /\ SQ!Next /\ CU!Next
<1>1. Blocks /\ HostOK'
  BY HostKeeps DEF Next, BlocksOK
<1> QED  BY <1>1, BlocksKept

LEMMA BlocksInit ==
    ASSUME Init
    PROVE  BlocksOK /\ PQ!Init /\ SQ!Init /\ CU!Init
<1>1. PQ!Init
  BY WidthAssumption DEF Init, CU!PowerOn, PQ!Init, PQ!Keys
<1>2. SQ!Init
  <2>1. 0 \in SQ!Counts
    <3>1. TimeMod * TimeMod - 1 \in Nat
      BY WidthAssumption
    <3> QED  BY <3>1 DEF SQ!Counts
  <2> QED  BY <2>1, WidthAssumption DEF Init, CU!PowerOn, SQ!Init, SQ!InputsOK
<1>3. CU!Init
  BY DepthAssumption DEF Init, Slave!PowerOn, IrqCtrl!PowerOn, CU!Init, SQ!Empty,
                         PQ!head_id, PQ!head_valid, PQ!Cells, PQ!NoItem
<1>4. PQP!IInv
  <2>1. PQP!Init
    BY <1>1 DEF PQ!Init, PQP!Init, PQ!Keys, PQP!Keys, PQ!Cells, PQP!Cells,
                PQ!NoItem, PQP!NoItem
  <2> QED  BY <2>1, PQP!InitEstablishesInvariant, WidthAssumption, DepthAssumption
<1>5. SQP!IInv
  <2>1. SQP!Init
    BY <1>2 DEF SQ!Init, SQP!Init, SQ!InputsOK, SQP!InputsOK, SQ!Counts, SQP!Counts,
                SQ!Empty, SQP!Empty, SQ!Slots, SQP!Slots
  <2>2. TimeMod * TimeMod - 1 \in Nat
    BY WidthAssumption
  <2> QED  BY <2>1, <2>2, SQP!InitEstablishesInvariant, WidthAssumption, DepthAssumption
<1>6. CUP!TypeOK
  <2>1. CUP!Init
    BY <1>3 DEF CU!Init, CUP!Init, CU!PowerOn, CUP!PowerOn, CU!ZeroWord, CUP!ZeroWord,
                CU!NoWrite, CUP!NoWrite, CU!Blank, CUP!Blank, CU!Deleted, CUP!Deleted
  <2> QED  BY <2>1, CUP!InitHasTypes, WidthAssumption
<1>7. HostOK /\ tick_pulse \in BOOLEAN
  BY BeatsAssumption DEF Init, Timer!PowerOn, HostOK
<1> QED  BY <1>1, <1>2, <1>3, <1>4, <1>5, <1>6, <1>7 DEF BlocksOK

LEMMA BlocksClock ==
    ASSUME BlocksOK, [Next]_vars
    PROVE  BlocksOK' /\ [PQ!Next]_(PQ!vars) /\ [SQ!Next]_(SQ!vars) /\ [CU!Next]_(CU!vars)
<1>1. CASE Next
  BY <1>1, BlocksStep
<1>2. CASE UNCHANGED vars
  <2>1. UNCHANGED <<host, slave, timer, irqs, pq, sq, ctrl>>
    BY <1>2 DEF vars
  <2> USE DEF host, slave, timer, irqs, pq, sq, ctrl
  <2>2. UNCHANGED PQ!vars /\ UNCHANGED SQ!vars
    BY <2>1 DEF PQ!vars, PQ!inputs, SQ!vars, SQ!inputs, SQ!regs
  <2>3. UNCHANGED CU!vars
    BY <2>1 DEF CU!vars, CU!inputs, CU!regs, CU!config, PQ!head_id, PQ!head_valid
  <2>4. PQP!IInv' = PQP!IInv /\ SQP!IInv' = SQP!IInv
    BY <2>1 DEF PQP!IInv, PQP!TypeOK, PQP!QueueInvariant, SQP!IInv, SQP!TypeOK,
                SQP!InputsOK, SQP!RegsOK, SQP!Packed, SQP!Sorted
  <2>5. CUP!TypeOK' = CUP!TypeOK
    BY <2>1 DEF CUP!TypeOK, CUP!InputsOK, CUP!RegsOK, PQ!head_id, PQ!head_valid
  <2>6. (HostOK /\ tick_pulse \in BOOLEAN)' = (HostOK /\ tick_pulse \in BOOLEAN)
    BY <2>1 DEF HostOK
  <2> QED  BY <2>2, <2>3, <2>4, <2>5, <2>6 DEF BlocksOK
<1> QED  BY <1>1, <1>2

LEMMA BlocksAlways == Spec => []BlocksOK
BY BlocksInit, BlocksClock, PTL DEF Spec

(* Each block in place is what its own specification says: the wires       *)
(* between the blocks carry what the blocks were verified for, so what is  *)
(* proved of a block alone holds of the block in the chip.                 *)
THEOREM BlocksComposed == Spec => BlocksInPlace
<1>1. Init => BlocksOK /\ PQ!Init /\ SQ!Init /\ CU!Init
  BY BlocksInit
<1>2. BlocksOK /\ [Next]_vars
      => BlocksOK' /\ [PQ!Next]_(PQ!vars) /\ [SQ!Next]_(SQ!vars) /\ [CU!Next]_(CU!vars)
  BY BlocksClock
<1> QED  BY <1>1, <1>2, PTL DEF Spec, BlocksInPlace, PQ!Spec, SQ!Spec, CU!Spec
-----------------------------------------------------------------------------
(* The clock of the careful host.  While a word is on its way to the       *)
(* control unit, gap tells where it is; a word sent when gap has reached    *)
(* HostGap >= 3 therefore follows the effect of the one before it.          *)
OnItsWay ==
    /\ gap \in 0 .. HostGap
    /\ beat # NoBeat => gap = 0
    /\ arm_cmd_valid \/ arm_word2_valid => gap = 1
    /\ cmd_valid \/ cmd_word2_valid => gap = 2
    /\ cmd_valid \in BOOLEAN /\ cmd_word2_valid \in BOOLEAN

(* The slave as a pipeline of three stages: beat, armed, handed over. *)
LEMMA SlavePipeline ==
    ASSUME ChannelInv, Slave!Step
    PROVE  /\ arm_cmd_valid' = (beat.addr = "CMD_W1")
           /\ arm_word2_valid' = (beat.addr = "CMD_W2")
           /\ cmd_valid' = arm_cmd_valid /\ cmd_word2_valid' = arm_word2_valid
           /\ cmd_word' = IF beat.addr = "CMD_W1" THEN beat.data ELSE cmd_word
           /\ beat.addr = "none" <=> beat = NoBeat
           /\ ~arm_word2_valid => (slv_pending_word2' <=> slv_pending_word2 \/
                  (beat.addr = "CMD_W1" /\ beat.data.op \in CU!TwoWordOps))
           /\ arm_word2_valid => slv_pending_word2' = FALSE
<1> USE BeatAddresses DEF ChannelInv, HostOK, OneWord
<1>0. beat.addr = "none" <=> beat = NoBeat
  OBVIOUS
<1>1. CASE Slave!PulseCommand
  BY <1>0, <1>1 DEF Slave!PulseCommand
<1>2. CASE Slave!PulseWord2
  BY <1>0, <1>2 DEF Slave!PulseWord2
<1>3. CASE Slave!WriteW1
  BY <1>0, <1>3 DEF Slave!WriteW1, Slave!Accepts
<1>4. CASE Slave!WriteW2
  BY <1>0, <1>4 DEF Slave!WriteW2, Slave!Accepts
<1>5. CASE Slave!NoBeat
  BY <1>0, <1>5 DEF Slave!NoBeat
<1> QED  BY <1>1, <1>2, <1>3, <1>4, <1>5 DEF Slave!Step

LEMMA GapStep ==
    ASSUME Host, gap \in 0 .. HostGap, HostGap >= 3
    PROVE  /\ gap' \in 0 .. HostGap
           /\ beat' # NoBeat => gap' = 0 /\ gap = HostGap
           /\ gap < HostGap => gap' = gap + 1
BY HostAssumption DEF Host, Continue, Request, Wait, Send

LEMMA WordsMoveOn ==
    ASSUME HostGap >= 3, ChannelInv, OnItsWay, Slave!Step,
           gap' \in 0 .. HostGap, beat' # NoBeat => gap' = 0, gap < HostGap => gap' = gap + 1
    PROVE  OnItsWay'
<1>1. /\ gap' \in 0 .. HostGap /\ gap \in 0 .. HostGap
      /\ beat' # NoBeat => gap' = 0
      /\ gap < HostGap => gap' = gap + 1
  BY DEF OnItsWay
<1>2. arm_cmd_valid' \/ arm_word2_valid' => gap' = 1
  <2>1. arm_cmd_valid' \/ arm_word2_valid' => beat # NoBeat
    BY SlavePipeline
  <2> QED  BY <1>1, <2>1, HostAssumption DEF OnItsWay
<1>3. cmd_valid' \/ cmd_word2_valid' => gap' = 2
  BY <1>1, SlavePipeline, HostAssumption DEF OnItsWay
<1>4. cmd_valid' \in BOOLEAN /\ cmd_word2_valid' \in BOOLEAN
  BY SlavePipeline DEF ChannelInv, OneWord
<1> QED  BY <1>1, <1>2, <1>3, <1>4 DEF OnItsWay

LEMMA OnItsWayKept ==
    ASSUME HostGap >= 3, ChannelInv, OnItsWay, Host, Slave!Step
    PROVE  OnItsWay'
<1>1. /\ gap' \in 0 .. HostGap
      /\ beat' # NoBeat => gap' = 0
      /\ gap < HostGap => gap' = gap + 1
  BY GapStep DEF OnItsWay
<1> QED  BY <1>1, WordsMoveOn

(* What the control unit changes only on a command. *)
LEMMA WithoutCommand ==
    ASSUME CU!Operation
    PROVE  /\ ~cmd_valid => timer_enable' = timer_enable
           /\ ~(cmd_valid /\ cmd_word.op \in {"ACTIVATE", "RESET"})
              => current_task' = current_task
<1> USE DEF CU!KeepSettings, CU!QueuesIdle, CU!NoDequeue, CU!Command, CU!Resets
<1>1. CASE CU!Idle
  BY <1>1 DEF CU!Idle
<1>2. CASE CU!Inform \/ CU!Configure \/ CU!RunOrStop \/ CU!FirstWord
  BY <1>2 DEF CU!Inform, CU!Configure, CU!RunOrStop, CU!FirstWord
<1>3. CASE CU!Create \/ CU!Modify \/ CU!LongSleep
  BY <1>3 DEF CU!Create, CU!Modify, CU!LongSleep, CU!SecondWord
<1>4. CASE CU!ShortSleep \/ CU!Yield \/ CU!YieldAperiodic
  BY <1>4 DEF CU!ShortSleep, CU!Yield, CU!YieldAperiodic
<1>5. CASE CU!Retire \/ CU!Resume
  BY <1>5 DEF CU!Retire, CU!Resume
<1>6. CASE CU!Activate \/ CU!ActivateEmpty
  BY <1>6 DEF CU!Activate, CU!ActivateEmpty
<1>7. CASE CU!Reset \/ CU!ResetRefused
  BY <1>7 DEF CU!Reset, CU!ResetRefused
<1> QED  BY <1>1, <1>2, <1>3, <1>4, <1>5, <1>6, <1>7 DEF CU!Operation

(* A command that touches a task finds the timer stopped and the last tick  *)
(* gone; on every tick the read port has followed the running task.         *)
StoppedFor ==
    /\ beat.addr = "CMD_W1" /\ TouchesTask(beat.data) => ~timer_enable
    /\ arm_cmd_valid /\ TouchesTask(cmd_word) => ~timer_enable /\ ~tick_pulse
    /\ cmd_valid /\ TouchesTask(cmd_word) => ~timer_enable /\ ~tick_pulse /\ ~tick_pulse_r
Follows ==
    tick_pulse_r => tt_rd_id_tick = current_task \/ current_task = NoTask
CarefulInv == ChannelInv /\ OnItsWay /\ StoppedFor /\ Follows

LEMMA StoppedForKept ==
    ASSUME Careful, HostGap >= 3, CarefulInv, Next
    PROVE  StoppedFor'
<1> USE DEF CarefulInv
<1>1. Host /\ Slave!Step /\ Timer!Step /\ CU!Operation /\ tick_pulse_r' = tick_pulse
  BY DEF Next, Blocks, TopRegisters, CU!Step
<1>2. ~timer_enable => ~tick_pulse'
  BY <1>1 DEF Timer!Step, Timer!Stopped, Timer!Pulse, Timer!Count
<1>3. ~cmd_valid => timer_enable' = timer_enable
  BY <1>1, WithoutCommand
<1>5. ASSUME beat'.addr = "CMD_W1", TouchesTask(beat'.data)
      PROVE  ~timer_enable'
  <2>1. beat' # NoBeat
    BY <1>5, BeatAddresses
  <2>2. gap = HostGap /\ MaySend(beat')
    BY <1>1, <2>1 DEF Host, Continue, Request, Wait, Send
  <2>3. ~timer_enable
    BY <1>5, <2>2 DEF MaySend
  <2>4. ~cmd_valid
    BY <2>2 DEF OnItsWay
  <2> QED  BY <1>3, <2>3, <2>4
<1>6. ASSUME arm_cmd_valid', TouchesTask(cmd_word')
      PROVE  ~timer_enable' /\ ~tick_pulse'
  <2>1. beat # NoBeat /\ beat.addr = "CMD_W1" /\ cmd_word' = beat.data
    BY <1>1, <1>6, SlavePipeline
  <2>2. ~cmd_valid
    BY <2>1 DEF OnItsWay
  <2> QED  BY <1>2, <1>3, <1>6, <2>1, <2>2 DEF StoppedFor
<1>7. ASSUME cmd_valid', TouchesTask(cmd_word')
      PROVE  ~timer_enable' /\ ~tick_pulse' /\ ~tick_pulse_r'
  <2>1. arm_cmd_valid /\ cmd_word' = cmd_word
    BY <1>1, <1>7, SlavePipeline DEF ChannelInv, OneWord
  <2>2. ~cmd_valid
    BY <2>1 DEF OnItsWay
  <2> QED  BY <1>1, <1>2, <1>3, <1>7, <2>1, <2>2 DEF StoppedFor
<1> QED  BY <1>5, <1>6, <1>7 DEF StoppedFor, TouchesTask

LEMMA FollowsKept ==
    ASSUME CarefulInv, Next
    PROVE  Follows'
<1>1. /\ CU!Operation /\ tick_pulse_r' = tick_pulse /\ tt_rd_id_tick' = current_task
  BY DEF Next, Blocks, TopRegisters, CU!Step, CU!EveryEdge
<1>2. tick_pulse => ~(cmd_valid /\ cmd_word.op \in {"ACTIVATE", "RESET"})
  BY DEF CarefulInv, StoppedFor, TouchesTask
<1> QED  BY <1>1, <1>2, WithoutCommand DEF Follows

LEMMA CarefulAlways ==
    ASSUME Careful, HostGap >= 3
    PROVE  Spec => []CarefulInv
<1>1. Init => CarefulInv
  <2> SUFFICES ASSUME Init PROVE CarefulInv
    OBVIOUS
  <2>1. ChannelInv
    BY InitChannel
  <2>2. OnItsWay
    <3>1. /\ cmd_valid = FALSE /\ cmd_word2_valid = FALSE /\ arm_cmd_valid = FALSE
          /\ arm_word2_valid = FALSE /\ beat = NoBeat /\ gap = 0
      BY DEF Init, Slave!PowerOn
    <3>2. gap \in 0 .. HostGap
      BY <3>1, HostAssumption
    <3> QED  BY <3>1, <3>2 DEF OnItsWay
  <2>3. StoppedFor
    BY BeatAddresses DEF Init, Slave!PowerOn, StoppedFor
  <2>4. Follows
    BY DEF Init, Follows
  <2> QED  BY <2>1, <2>2, <2>3, <2>4 DEF CarefulInv
<1>2. CarefulInv /\ [Next]_vars => CarefulInv'
  <2>1. ASSUME CarefulInv, Next
        PROVE  CarefulInv'
    <3>1. Host /\ Slave!Step
      BY <2>1 DEF Next, Blocks
    <3> QED  BY <1>1, <2>1, <3>1, OneWordKept, OnItsWayKept, StoppedForKept, FollowsKept
             DEF CarefulInv
  <2>2. ASSUME CarefulInv, UNCHANGED vars
        PROVE  CarefulInv'
    <3>1. UNCHANGED <<host, slave, timer, ctrl>>
      BY <2>2 DEF vars
    <3> QED  BY <2>2, <3>1 DEF host, slave, timer, ctrl, CarefulInv, ChannelInv, HostOK,
                               OneWord, OnItsWay, StoppedFor, Follows, TouchesTask
  <2> QED  BY <2>1, <2>2
<1> QED  BY <1>1, <1>2, PTL DEF Spec

(* For a host that stops the timer before it touches a task and leaves      *)
(* three clocks between its words, every tick charges the running task:     *)
(* no dispatch gets between the tick and the read of the descriptor.        *)
THEOREM TickReadsRunning ==
    ASSUME Careful, HostGap >= 3
    PROVE  Spec => []TickReadsRunningTask
<1>1. CarefulInv => TickReadsRunningTask
  BY DEF CarefulInv, StoppedFor, Follows, TouchesTask, TickReadsRunningTask, CU!tt_rd_id
<1> QED  BY <1>1, CarefulAlways, PTL
-----------------------------------------------------------------------------
(* Clocks since the control unit took the last word, as far as the host    *)
(* lets them pass, counted as gap counts: 3 in the clock after the word.   *)
UnderWay == \/ beat # NoBeat
            \/ arm_cmd_valid \/ arm_word2_valid \/ cmd_valid \/ cmd_word2_valid
Elapsed == IF UnderWay THEN HostGap + 1 + gap ELSE gap

(* With the timer stopped the wakes still under way drain: at most one of  *)
(* the expired entries is left less with every clock, and the last one is  *)
(* in the ready queue four clocks after it has been announced.             *)
Drained ==
    ~timer_enable =>
        /\ Elapsed >= 4 => ~tick_pulse /\ ~sq_enqueue /\ ~pq_dequeue /\ ~pq_flush
        /\ Elapsed >= 5 =>
               /\ ~tick_pulse_r
               /\ \A i \in SQ!Slots : valid_mem[i] /\ cnt_mem[i] = 0
                                      => i + Elapsed < SQ_DEPTH + 5
        /\ Elapsed >= SQ_DEPTH + 6 => ~sq_wake_valid
        /\ Elapsed >= SQ_DEPTH + 7 => ~pq_enqueue
        /\ Elapsed >= SQ_DEPTH + 8 => ~pq_enqueue_r

DrainInv == CarefulInv /\ BlocksOK /\ Drained

LEMMA ElapsedStep ==
    ASSUME HostGap >= 3, ChannelInv, OnItsWay, Host, Slave!Step
    PROVE  /\ Elapsed \in Nat
           /\ cmd_valid \/ cmd_word2_valid => Elapsed = HostGap + 3 /\ Elapsed' = 3
           /\ ~cmd_valid /\ ~cmd_word2_valid =>
                  Elapsed' = Elapsed + 1 \/ (Elapsed' = Elapsed /\ Elapsed = HostGap)
<1>1. /\ gap' \in 0 .. HostGap /\ gap \in 0 .. HostGap
      /\ beat' # NoBeat => gap' = 0 /\ gap = HostGap
      /\ gap < HostGap => gap' = gap + 1
      /\ beat' = NoBeat => gap' = gap + 1 \/ (gap' = gap /\ gap = HostGap)
  <2>1. CASE Wait
    BY <2>1, HostAssumption DEF OnItsWay, Wait
  <2>2. ASSUME NEW b, NEW rest, b \in Beats, Send(b, rest)
        PROVE  gap' = 0 /\ gap = HostGap /\ beat' # NoBeat
    BY <2>2, BeatAddresses DEF Send
  <2>3. CASE Continue
    <3>1. Head(todo) \in Beats
      BY <2>3 DEF Continue, ChannelInv, HostOK
    <3> QED  BY <2>2, <2>3, <3>1, HostAssumption DEF OnItsWay, Continue
  <2>4. CASE Request
    <3>1. \A r \in Requests : Head(r) \in Beats
      BY BeatsAssumption
    <3> QED  BY <2>2, <2>4, <3>1, HostAssumption DEF OnItsWay, Request
  <2> QED  BY <2>1, <2>3, <2>4 DEF Host
<1>2. /\ arm_cmd_valid' \/ arm_word2_valid' <=> beat # NoBeat
      /\ cmd_valid' = arm_cmd_valid /\ cmd_word2_valid' = arm_word2_valid
  BY SlavePipeline, BeatAddresses DEF ChannelInv, HostOK
<1>3. Elapsed \in Nat /\ HostGap \in Nat
  BY <1>1, HostAssumption DEF Elapsed
<1>4. CASE cmd_valid \/ cmd_word2_valid
  <2>1. gap = 2 /\ beat = NoBeat /\ ~arm_cmd_valid /\ ~arm_word2_valid
    BY <1>4 DEF OnItsWay
  <2>2. beat' = NoBeat /\ gap' = 3
    BY <1>1, <1>3, <2>1
  <2>3. ~UnderWay'
    BY <1>2, <2>1, <2>2 DEF UnderWay, NoBeat, CU!ZeroWord
  <2> QED  BY <1>1, <1>3, <1>4, <2>1, <2>2, <2>3 DEF Elapsed, UnderWay
<1>5. CASE ~cmd_valid /\ ~cmd_word2_valid /\ UnderWay
  <2>1. gap \in {0, 1}
    BY <1>5 DEF OnItsWay, UnderWay
  <2>2. UnderWay' /\ gap' = gap + 1
    BY <1>1, <1>2, <1>3, <1>5, <2>1 DEF UnderWay
  <2> QED  BY <1>1, <1>3, <1>5, <2>1, <2>2 DEF Elapsed
<1>6. CASE ~UnderWay
  <2>1. UnderWay' <=> beat' # NoBeat
    BY <1>2, <1>6 DEF UnderWay, NoBeat, CU!ZeroWord
  <2>2. ~cmd_valid /\ ~cmd_word2_valid /\ Elapsed = gap
    BY <1>6 DEF UnderWay, Elapsed
  <2>3. CASE beat' = NoBeat
    BY <1>1, <2>1, <2>2, <2>3, <1>3 DEF Elapsed
  <2>4. CASE beat' # NoBeat
    BY <1>1, <2>1, <2>2, <2>4, <1>3 DEF Elapsed
  <2> QED  BY <2>3, <2>4
<1> QED  BY <1>4, <1>5, <1>6

(* What the control unit drives into the queues without a word. *)
LEMMA WithoutWord ==
    ASSUME CU!Operation, ~cmd_valid, ~cmd_word2_valid
    PROVE  /\ ~sq_enqueue' /\ ~pq_dequeue' /\ ~pq_flush'
           /\ pq_enqueue' = sq_wake_valid /\ timer_enable' = timer_enable
<1>1. CU!Idle
  BY DEF CU!Operation, CU!Inform, CU!Configure, CU!RunOrStop, CU!FirstWord, CU!Create,
         CU!Modify, CU!LongSleep, CU!SecondWord, CU!ShortSleep, CU!Yield,
         CU!YieldAperiodic, CU!Retire, CU!Resume, CU!Activate, CU!ActivateEmpty,
         CU!Reset, CU!ResetRefused, CU!Command, CU!Word2For, CU!Resets
<1> QED  BY <1>1 DEF CU!Idle, CU!QueuesIdle, CU!NoDequeue, CU!NoFlush, CU!NoSleep,
                     CU!NoReady, CU!KeepSettings

(* Without tick and insertion every expired entry moves one place forward, *)
(* and nothing wakes unless an entry has expired.                          *)
LEMMA ExpiredMoveOn ==
    ASSUME SQP!IInv, SQ!Step, ~tick_pulse_r, ~sq_enqueue
    PROVE  /\ \A i \in SQ!Slots : valid_mem'[i] /\ cnt_mem'[i] = 0
                  => i + 1 \in SQ!Slots /\ valid_mem[i + 1] /\ cnt_mem[i + 1] = 0
           /\ sq_wake_valid' => 0 \in SQ!Slots /\ valid_mem[0] /\ cnt_mem[0] = 0
<1> USE DepthAssumption DEF SQP!IInv, SQP!TypeOK, SQP!RegsOK, SQP!Packed, SQP!Sorted,
                            SQP!Slots, SQ!Slots
<1>1. CASE SQ!FlushAll
  BY <1>1 DEF SQ!FlushAll
<1>2. CASE SQ!Advance
  <2>1. SQ!Ticked = cnt_mem
    BY DEF SQ!Ticked
  <2>2. CASE SQ!HeadExpired
    BY <1>2, <2>1, <2>2 DEF SQ!Advance, SQ!AfterWake, SQ!CountsLeft, SQ!ValidLeft,
                            SQ!DepthAfterWake, SQ!HeadExpired
  <2>3. CASE ~SQ!HeadExpired
    <3>1. cnt_mem' = cnt_mem /\ valid_mem' = valid_mem /\ ~sq_wake_valid'
      BY <1>2, <2>1, <2>3 DEF SQ!Advance, SQ!AfterWake, SQ!CountsLeft, SQ!ValidLeft
    <3>2. ASSUME NEW i \in SQ!Slots, valid_mem[i], cnt_mem[i] = 0
          PROVE  FALSE
      <4>1. i < sq_depth /\ 0 \in SQ!Slots /\ valid_mem[0] /\ cnt_mem[0] <= cnt_mem[i]
        BY <3>2
      <4>2. cnt_mem[0] = 0
        BY <3>2, <4>1 DEF SQP!Counts
      <4> QED  BY <2>1, <2>3, <4>1, <4>2 DEF SQ!HeadExpired
    <3> QED  BY <3>1, <3>2
  <2> QED  BY <2>2, <2>3
<1>3. ~SQ!AdvanceAndInsert
  BY DEF SQ!AdvanceAndInsert
<1> QED  BY <1>1, <1>2, <1>3 DEF SQ!Step

LEMMA DrainedKept ==
    ASSUME HostGap >= SQ_DEPTH + 5, DrainInv, Next
    PROVE  Drained'
<1>1. /\ Host /\ Slave!Step /\ Timer!Step /\ SQ!Step /\ CU!Operation
      /\ tick_pulse_r' = tick_pulse /\ pq_enqueue_r' = pq_enqueue
  BY DEF Next, Blocks, TopRegisters, CU!Step
<1>2. CASE cmd_valid \/ cmd_word2_valid
  <2>1. Elapsed' = 3
    BY <1>1, <1>2, ElapsedStep, DepthAssumption, HostAssumption DEF DrainInv, CarefulInv
  <2> HIDE DEF Elapsed
  <2> QED  BY <2>1, DepthAssumption DEF Drained
<1>3. CASE ~cmd_valid /\ ~cmd_word2_valid /\ ~timer_enable
  <2>1. /\ Elapsed \in Nat
        /\ Elapsed' = Elapsed + 1 \/ (Elapsed' = Elapsed /\ Elapsed >= SQ_DEPTH + 5)
    BY <1>1, <1>3, ElapsedStep, DepthAssumption, HostAssumption DEF DrainInv, CarefulInv
  <2>2. /\ ~sq_enqueue' /\ ~pq_dequeue' /\ ~pq_flush' /\ pq_enqueue' = sq_wake_valid
    BY <1>1, <1>3, WithoutWord
  <2>3. ~tick_pulse'
    BY <1>1, <1>3 DEF Timer!Step, Timer!Stopped, Timer!Pulse, Timer!Count
  <2>4. Drained
    BY DEF DrainInv
  <2>5. ASSUME Elapsed' >= 5
        PROVE  /\ ~tick_pulse_r'
               /\ \A i \in SQ!Slots : valid_mem'[i] /\ cnt_mem'[i] = 0
                                      => i + Elapsed' < SQ_DEPTH + 5
    <3>1. Elapsed >= 4 /\ ~tick_pulse
      BY <1>3, <2>1, <2>4, <2>5, DepthAssumption DEF Drained
    <3>2. CASE Elapsed' = 5
      BY <1>1, <3>1, <3>2, DepthAssumption DEF SQ!Slots
    <3>3. CASE Elapsed >= 5
      <4>1. ~tick_pulse_r /\ ~sq_enqueue
        BY <1>3, <3>3, <2>1, <2>4 DEF Drained
      <4>2. ASSUME NEW i \in SQ!Slots, valid_mem'[i], cnt_mem'[i] = 0
            PROVE  i + Elapsed' < SQ_DEPTH + 5
        <5>1. i + 1 \in SQ!Slots /\ valid_mem[i + 1] /\ cnt_mem[i + 1] = 0
          BY <1>1, <4>1, <4>2, ExpiredMoveOn DEF DrainInv, BlocksOK
        <5>2. (i + 1) + Elapsed < SQ_DEPTH + 5
          BY <1>3, <2>4, <3>3, <5>1 DEF Drained
        <5> QED  BY <2>1, <5>1, <5>2, DepthAssumption DEF SQ!Slots
      <4> QED  BY <1>1, <3>1, <4>2
    <3> QED  BY <2>1, <2>5, <3>1, <3>2, <3>3
  <2>6. ASSUME Elapsed' >= SQ_DEPTH + 6
        PROVE  ~sq_wake_valid'
    <3>1. Elapsed >= SQ_DEPTH + 5 /\ Elapsed >= 5
      BY <2>1, <2>6, DepthAssumption
    <3>2. ~tick_pulse_r /\ ~sq_enqueue
      BY <1>3, <2>1, <2>4, <3>1, DepthAssumption DEF Drained
    <3>3. ~(0 \in SQ!Slots /\ valid_mem[0] /\ cnt_mem[0] = 0)
      BY <1>3, <2>1, <2>4, <3>1, DepthAssumption DEF Drained
    <3>4. sq_wake_valid' => 0 \in SQ!Slots /\ valid_mem[0] /\ cnt_mem[0] = 0
      BY <1>1, <3>2, ExpiredMoveOn DEF DrainInv, BlocksOK
    <3> QED  BY <3>3, <3>4
  <2>7. Elapsed' >= SQ_DEPTH + 7 => ~pq_enqueue'
    BY <1>3, <2>1, <2>2, <2>4, DepthAssumption DEF Drained
  <2>8. Elapsed' >= SQ_DEPTH + 8 => ~pq_enqueue_r'
    BY <1>1, <1>3, <2>1, <2>4, DepthAssumption DEF Drained
  <2> HIDE DEF Elapsed
  <2> QED  BY <2>2, <2>3, <2>5, <2>6, <2>7, <2>8 DEF Drained, SQ!Slots
<1>4. CASE ~cmd_valid /\ ~cmd_word2_valid /\ timer_enable
  <2>1. timer_enable'
    BY <1>1, <1>4, WithoutWord
  <2> QED  BY <2>1 DEF Drained
<1> QED  BY <1>2, <1>3, <1>4

(* A dispatch finds the ready queue at rest. *)
LEMMA DispatchKept ==
    ASSUME HostGap >= SQ_DEPTH + 5, DrainInv, Next
    PROVE  DequeuesDispatched'
<1> SUFFICES ASSUME pq_dequeue'
             PROVE  cell'[0].valid /\ cell'[0].id = current_task'
  BY DEF DequeuesDispatched
<1>1. Host /\ Slave!Step /\ PQ!Step /\ CU!Operation
  BY DEF Next, Blocks, CU!Step
<1>2. CU!Activate
  BY <1>1 DEF CU!Operation, CU!Idle, CU!Inform, CU!Configure, CU!RunOrStop, CU!FirstWord,
         CU!Create, CU!Modify, CU!LongSleep, CU!SecondWord, CU!ShortSleep, CU!Yield,
         CU!YieldAperiodic, CU!Retire, CU!Resume, CU!ActivateEmpty,
         CU!Reset, CU!ResetRefused, CU!QueuesIdle, CU!NoDequeue
<1>3. /\ cmd_valid /\ cmd_word.op = "ACTIVATE"
      /\ PQ!head_valid /\ current_task' = PQ!head_id
  BY <1>2 DEF CU!Activate, CU!Command
<1>4. ~timer_enable
  BY <1>3 DEF DrainInv, CarefulInv, StoppedFor, TouchesTask
<1>5. Elapsed = HostGap + 3
  BY <1>1, <1>3, ElapsedStep, DepthAssumption, HostAssumption DEF DrainInv, CarefulInv
<1>6. ~pq_enqueue_r /\ ~pq_dequeue /\ ~pq_flush
  BY <1>4, <1>5, DepthAssumption, HostAssumption DEF DrainInv, Drained
<1>7. cell' = cell
  BY <1>1, <1>6 DEF PQ!Step, PQ!FlushAll, PQ!Hold, PQ!Enqueue, PQ!Dequeue,
                    PQ!DequeueAndEnqueue, PQ!enq_valid, PQ!deq_valid
<1> QED  BY <1>3, <1>7 DEF PQ!head_valid, PQ!head_id

LEMMA DrainAlways ==
    ASSUME Careful, HostGap >= SQ_DEPTH + 5
    PROVE  Spec => [](DrainInv /\ DequeuesDispatched)
<1>1. Spec => []CarefulInv /\ []BlocksOK
  <2>1. HostGap >= 3
    BY DepthAssumption, HostAssumption
  <2> QED  BY <2>1, CarefulAlways, BlocksAlways
<1>2. Init => Drained /\ DequeuesDispatched
  <2>1. Init => Elapsed = 0
    BY DEF Init, Slave!PowerOn, Elapsed, UnderWay
  <2>2. Init => ~pq_dequeue
    BY DEF Init, CU!PowerOn
  <2> HIDE DEF Elapsed
  <2> QED  BY <2>1, <2>2, DepthAssumption DEF Drained, DequeuesDispatched
<1>3. DrainInv /\ DequeuesDispatched /\ [Next]_vars => Drained' /\ DequeuesDispatched'
  <2>1. ASSUME DrainInv, Next
        PROVE  Drained' /\ DequeuesDispatched'
    BY <2>1, DrainedKept, DispatchKept
  <2>2. ASSUME Drained, DequeuesDispatched, UNCHANGED vars
        PROVE  Drained' /\ DequeuesDispatched'
    <3>1. UNCHANGED <<host, slave, timer, pq, sq, ctrl>>
      BY <2>2 DEF vars
    <3> QED  BY <2>2, <3>1 DEF host, slave, timer, pq, sq, ctrl, Drained, Elapsed, UnderWay,
                               DequeuesDispatched
  <2> QED  BY <2>1, <2>2 DEF DrainInv
<1> QED  BY <1>1, <1>2, <1>3, PTL DEF Spec, DrainInv

(* For a host that stops the timer before it touches a task and leaves the  *)
(* wakes under way the time to drain (a clock for each entry of the sleep   *)
(* queue and five to the ready queue and back), ACTIVATE takes the task it  *)
(* dispatches, and no other, out of the ready queue.                        *)
THEOREM DispatchExact ==
    ASSUME Careful, HostGap >= SQ_DEPTH + 5
    PROVE  Spec => []DequeuesDispatched
BY DrainAlways, PTL
-----------------------------------------------------------------------------
(* The two copies of pending_word2.  Opens: the word asks for a second one. *)
Opens(b) == b.addr = "CMD_W1" /\ b.data.op \in CU!TwoWordOps

(* The words of s are whole commands, after a word that opened one if open. *)
Whole(s, open) ==
    \A n \in 1 .. Len(s) + 1 :
        (IF n = 1 THEN open ELSE Opens(s[n - 1])) <=> n <= Len(s) /\ s[n].addr = "CMD_W2"

(* A host that sends whole commands; at any distance and at any time. *)
WholeCommands == Whole(Boot, FALSE) /\ \A r \in Requests : Whole(r, FALSE)

(* A first word is on its way, and its second word is not. *)
FirstSent  == \/ Opens(beat)
              \/ arm_cmd_valid /\ cmd_word.op \in CU!TwoWordOps
              \/ cmd_valid /\ cmd_word.op \in CU!TwoWordOps /\ beat.addr # "CMD_W2"
              \/ /\ pending_word2 /\ beat.addr # "CMD_W2"
                 /\ ~arm_word2_valid /\ ~cmd_word2_valid

Handshake ==
    /\ cmd_valid \in BOOLEAN /\ cmd_word2_valid \in BOOLEAN /\ pending_word2 \in BOOLEAN
    /\ ~(cmd_valid /\ cmd_word2_valid)
    /\ arm_cmd_valid \/ arm_word2_valid => ~cmd_valid /\ ~cmd_word2_valid
    /\ arm_cmd_valid \/ cmd_valid => ~pending_word2
    /\ arm_word2_valid \/ cmd_word2_valid => pending_word2
    /\ beat.addr = "CMD_W1" =>
           /\ pending_word2 => cmd_word2_valid
           /\ ~(cmd_valid /\ cmd_word.op \in CU!TwoWordOps)
    /\ beat.addr = "CMD_W2" =>
           \/ cmd_valid /\ cmd_word.op \in CU!TwoWordOps
           \/ pending_word2 /\ ~cmd_word2_valid
    /\ slv_pending_word2 <=>
           \/ (arm_cmd_valid \/ cmd_valid) /\ cmd_word.op \in CU!TwoWordOps
           \/ pending_word2 /\ ~cmd_word2_valid
    /\ Whole(todo, FirstSent)

LEMMA WholeTail ==
    ASSUME NEW s \in Seq(Beats), s # <<>>, NEW open \in BOOLEAN, Whole(s, open)
    PROVE  /\ open <=> Head(s).addr = "CMD_W2"
           /\ Whole(Tail(s), Opens(Head(s)))
<1>1. Len(s) \in Nat \ {0} /\ Head(s) = s[1] /\ Tail(s) \in Seq(Beats)
      /\ Len(Tail(s)) = Len(s) - 1 /\ \A n \in 1 .. Len(s) - 1 : Tail(s)[n] = s[n + 1]
  OBVIOUS
<1>2. open <=> Head(s).addr = "CMD_W2"
  BY <1>1 DEF Whole
<1>3. ASSUME NEW n \in 1 .. Len(Tail(s)) + 1
      PROVE  (IF n = 1 THEN Opens(Head(s)) ELSE Opens(Tail(s)[n - 1]))
             <=> n <= Len(Tail(s)) /\ Tail(s)[n].addr = "CMD_W2"
  <2>1. n + 1 \in 1 .. Len(s) + 1 /\ n + 1 # 1 /\ (n + 1) - 1 = n
    BY <1>1
  <2>2. Opens(s[n]) <=> n + 1 <= Len(s) /\ s[n + 1].addr = "CMD_W2"
    BY <2>1 DEF Whole
  <2>3. n # 1 => Tail(s)[n - 1] = s[n]
    BY <1>1
  <2> QED  BY <1>1, <2>2, <2>3
<1> QED  BY <1>2, <1>3 DEF Whole

LEMMA HeadOfWords ==
    ASSUME NEW s \in Seq(Beats), s # <<>>
    PROVE  Head(s) \in Beats
OBVIOUS

(* A step of the host sends nothing or the next word of a whole command. *)
LEMMA HostSendsNext ==
    ASSUME WholeCommands, HostOK, Host, NEW open \in BOOLEAN, Whole(todo, open)
    PROVE  \/ beat' = NoBeat /\ Whole(todo', open)
           \/ /\ beat = NoBeat /\ beat' \in Beats
              /\ open <=> beat'.addr = "CMD_W2"
              /\ Whole(todo', Opens(beat'))
<1>1. CASE Continue
  BY <1>1, WholeTail DEF Continue, Send, HostOK
<1>2. CASE Request
  <2>1. PICK r \in Requests : Send(Head(r), Tail(r))
    BY <1>2 DEF Request
  <2>2. r \in Seq(Beats) /\ r # <<>> /\ Whole(r, FALSE)
    BY BeatsAssumption DEF WholeCommands
  <2>3. ~open
    BY <1>2, Sequences01 DEF Request, Whole
  <2>4. /\ ~(Head(r).addr = "CMD_W2")
        /\ Whole(Tail(r), Opens(Head(r)))
    <3>1. FALSE \in BOOLEAN
      OBVIOUS
    <3>2. FALSE <=> Head(r).addr = "CMD_W2"
      BY <2>2, <3>1, WholeTail
    <3>3. Whole(Tail(r), Opens(Head(r)))
      BY <2>2, <3>1, WholeTail
    <3> QED  BY <3>2, <3>3
  <2>5. Head(r) \in Beats
    BY <2>2, HeadOfWords
  <2> QED  BY <2>1, <2>3, <2>4, <2>5 DEF Send
<1>3. CASE Wait
  BY <1>3 DEF Wait
<1> QED  BY <1>1, <1>2, <1>3 DEF Host

(* What a word that arrives does to the control unit's copy. *)
LEMMA PendingMoves ==
    ASSUME CU!Operation, pending_word2 \in BOOLEAN
    PROVE  /\ cmd_valid /\ cmd_word.op \in CU!TwoWordOps => pending_word2' = TRUE
           /\ cmd_valid /\ cmd_word.op \notin CU!TwoWordOps /\ ~pending_word2
              => pending_word2' = FALSE
           /\ ~cmd_valid => pending_word2' = (pending_word2 /\ ~cmd_word2_valid)
<1> USE DEF CU!KeepPending, CU!Command, CU!TwoWordOps
<1>1. CASE CU!Idle
  BY <1>1 DEF CU!Idle
<1>2. CASE CU!Inform \/ CU!Configure \/ CU!RunOrStop
  BY <1>2 DEF CU!Inform, CU!Configure, CU!RunOrStop
<1>3. CASE CU!FirstWord
  BY <1>3 DEF CU!FirstWord
<1>4. CASE CU!Create \/ CU!Modify \/ CU!LongSleep
  BY <1>4 DEF CU!Create, CU!Modify, CU!LongSleep, CU!SecondWord, CU!Word2For
<1>5. CASE CU!ShortSleep \/ CU!Yield \/ CU!YieldAperiodic
  BY <1>5 DEF CU!ShortSleep, CU!Yield, CU!YieldAperiodic
<1>6. CASE CU!Retire \/ CU!Resume
  BY <1>6 DEF CU!Retire, CU!Resume
<1>7. CASE CU!Activate \/ CU!ActivateEmpty
  BY <1>7 DEF CU!Activate, CU!ActivateEmpty
<1>8. CASE CU!Reset \/ CU!ResetRefused
  BY <1>8 DEF CU!Reset, CU!ResetRefused, CU!Resets, CU!DropPending
<1> QED  BY <1>1, <1>2, <1>3, <1>4, <1>5, <1>6, <1>7, <1>8 DEF CU!Operation
(* One clock of the three stages a word goes through, of both copies and of *)
(* the host: the next word is the second one exactly when one is awaited.  *)
LEMMA WordsMove ==
    ASSUME WholeCommands, ChannelInv, Handshake, Next
    PROVE  /\ arm_cmd_valid' = (beat.addr = "CMD_W1")
           /\ arm_word2_valid' = (beat.addr = "CMD_W2")
           /\ cmd_valid' = arm_cmd_valid /\ cmd_word2_valid' = arm_word2_valid
           /\ cmd_word' = IF beat.addr = "CMD_W1" THEN beat.data ELSE cmd_word
           /\ slv_pending_word2' <=>
                  ~arm_word2_valid /\ (slv_pending_word2 \/ Opens(beat))
           /\ cmd_valid => (pending_word2' <=> cmd_word.op \in CU!TwoWordOps)
           /\ pending_word2' \in BOOLEAN
           /\ ~cmd_valid => pending_word2' = (pending_word2 /\ ~cmd_word2_valid)
           /\ \/ beat'.addr = "none" /\ beat' = NoBeat /\ Whole(todo', FirstSent)
              \/ /\ beat.addr = "none" /\ beat'.addr \in {"CMD_W1", "CMD_W2"}
                 /\ FirstSent <=> beat'.addr = "CMD_W2"
                 /\ Whole(todo', Opens(beat'))
<1>1. Slave!Step /\ Host /\ CU!Operation
  BY DEF Next, Blocks, CU!Step
<1>2. /\ arm_cmd_valid' = (beat.addr = "CMD_W1")
      /\ arm_word2_valid' = (beat.addr = "CMD_W2")
      /\ cmd_valid' = arm_cmd_valid /\ cmd_word2_valid' = arm_word2_valid
      /\ cmd_word' = IF beat.addr = "CMD_W1" THEN beat.data ELSE cmd_word
      /\ slv_pending_word2' <=> ~arm_word2_valid /\ (slv_pending_word2 \/ Opens(beat))
  BY <1>1, SlavePipeline DEF Opens
<1>3. /\ cmd_valid => (pending_word2' <=> cmd_word.op \in CU!TwoWordOps)
      /\ pending_word2' \in BOOLEAN
      /\ ~cmd_valid => pending_word2' = (pending_word2 /\ ~cmd_word2_valid)
  <2>1. pending_word2 \in BOOLEAN /\ (cmd_valid => ~pending_word2)
    BY DEF Handshake
  <2>2. /\ cmd_valid /\ cmd_word.op \in CU!TwoWordOps => pending_word2' = TRUE
        /\ cmd_valid /\ cmd_word.op \notin CU!TwoWordOps => pending_word2' = FALSE
        /\ ~cmd_valid => pending_word2' = (pending_word2 /\ ~cmd_word2_valid)
    BY <1>1, <2>1, PendingMoves
  <2> QED  BY <2>2
<1>4. \/ beat' = NoBeat /\ Whole(todo', FirstSent)
      \/ /\ beat = NoBeat /\ beat' \in Beats
         /\ FirstSent <=> beat'.addr = "CMD_W2"
         /\ Whole(todo', Opens(beat'))
  <2>1. FirstSent \in BOOLEAN /\ Whole(todo, FirstSent) /\ HostOK
    BY DEF FirstSent, Handshake, ChannelInv
  <2> QED  BY <1>1, <2>1, HostSendsNext
<1> QED  BY <1>2, <1>3, <1>4, BeatAddresses

LEMMA HandshakeKept ==
    ASSUME WholeCommands, ChannelInv, Handshake, Next
    PROVE  Handshake'
<1> USE WordsMove, BeatAddresses DEF Opens
<1>1. beat'.addr = "CMD_W2" => FirstSent /\ beat.addr = "none"
  OBVIOUS
<1>2. beat'.addr = "CMD_W1" => ~FirstSent /\ beat.addr = "none"
  OBVIOUS
<1>3. cmd_valid' \in BOOLEAN /\ cmd_word2_valid' \in BOOLEAN /\ pending_word2' \in BOOLEAN
  BY DEF Handshake, ChannelInv, OneWord
<1>4. /\ ~(cmd_valid' /\ cmd_word2_valid')
      /\ arm_cmd_valid' \/ arm_word2_valid' => ~cmd_valid' /\ ~cmd_word2_valid'
  BY DEF ChannelInv, OneWord
<1>5. /\ arm_cmd_valid' \/ cmd_valid' => ~pending_word2'
      /\ arm_word2_valid' \/ cmd_word2_valid' => pending_word2'
  BY DEF Handshake, ChannelInv, OneWord
<1>6. beat'.addr = "CMD_W1" =>
          /\ pending_word2' => cmd_word2_valid'
          /\ ~(cmd_valid' /\ cmd_word'.op \in CU!TwoWordOps)
  BY <1>2 DEF Handshake, FirstSent, ChannelInv, OneWord
<1>7. beat'.addr = "CMD_W2" =>
          \/ cmd_valid' /\ cmd_word'.op \in CU!TwoWordOps
          \/ pending_word2' /\ ~cmd_word2_valid'
  BY <1>1 DEF Handshake, FirstSent
<1>8. slv_pending_word2' <=>
          \/ (arm_cmd_valid' \/ cmd_valid') /\ cmd_word'.op \in CU!TwoWordOps
          \/ pending_word2' /\ ~cmd_word2_valid'
  BY DEF Handshake, ChannelInv, OneWord
<1>9. Whole(todo', FirstSent')
  <2>1. CASE beat'.addr = "none"
    <3>1. FirstSent' = FirstSent
      BY <2>1 DEF Handshake, FirstSent, ChannelInv, OneWord
    <3> QED  BY <2>1, <3>1
  <2>2. CASE beat'.addr # "none"
    <3>1. FirstSent' = Opens(beat')
      BY <2>2 DEF Handshake, FirstSent, ChannelInv, OneWord
    <3> QED  BY <2>2, <3>1
  <2> QED  BY <2>1, <2>2
<1> QED  BY <1>3, <1>4, <1>5, <1>6, <1>7, <1>8, <1>9 DEF Handshake

LEMMA HandshakeAlways ==
    ASSUME WholeCommands
    PROVE  Spec => [](ChannelInv /\ Handshake)
<1>1. Init => ChannelInv /\ Handshake
  <2> SUFFICES ASSUME Init PROVE Handshake
    BY InitChannel
  <2>1. FirstSent = FALSE /\ todo = Boot
    BY BeatAddresses DEF Init, Slave!PowerOn, CU!PowerOn, FirstSent, Opens
  <2>2. Whole(todo, FirstSent)
    BY <2>1 DEF WholeCommands
  <2> QED  BY <2>2, BeatAddresses DEF Init, Slave!PowerOn, CU!PowerOn, Handshake
<1>2. ChannelInv /\ Handshake /\ [Next]_vars => (ChannelInv /\ Handshake)'
  <2>1. ASSUME ChannelInv, Handshake, Next
        PROVE  (ChannelInv /\ Handshake)'
    BY <2>1, ChannelStep, HandshakeKept
  <2>2. ASSUME ChannelInv, Handshake, UNCHANGED vars
        PROVE  (ChannelInv /\ Handshake)'
    <3>1. UNCHANGED <<host, slave, ctrl>>
      BY <2>2 DEF vars
    <3> QED  BY <2>2, <3>1 DEF host, slave, ctrl, ChannelInv, HostOK, OneWord, Handshake,
                               FirstSent, Opens, Whole
  <2> QED  BY <2>1, <2>2
<1> QED  BY <1>1, <1>2, PTL DEF Spec

(* Whatever the distance of its words and the state of its tasks, a host   *)
(* that sends whole commands reads in STATUS whether the control unit      *)
(* waits for a second word: the two copies agree but for words on the way. *)
THEOREM PendingTogether ==
    ASSUME WholeCommands
    PROVE  Spec => []PendingAgrees
<1>1. ChannelInv /\ Handshake => PendingAgrees
  BY DEF Handshake, PendingAgrees, ChannelInv, OneWord
<1> QED  BY <1>1, HandshakeAlways, PTL
-----------------------------------------------------------------------------
(* The statuses and the queues.  For a host that stops the timer before it  *)
(* touches a task, waits for the wakes under way, makes the calls that suit *)
(* the status and creates no more tasks than there are places, the ready    *)
(* path holds each ready task once, the sleep path each sleeping task once, *)
(* and neither holds any other.  StatusInv, below, is the inductive          *)
(* invariant; what it says besides Agrees is when a table write, a flush and *)
(* a word may be under way at all.                                          *)

(* Where the tasks are, in numbers.  ReadyParts and SleepParts name the     *)
(* three places of each path.                                              *)
ReadyParts ==
    \A id \in ID :
        /\ InReady(id) \in Nat /\ PQP!Held(id) \in Nat
        /\ InReady(id) + Once(pq_dequeue /\ cell[0].id = id)
             = PQP!Held(id) + Once(pq_enqueue /\ pq_enq_id = id)
               + Once(pq_enqueue_r /\ pq_enq_id_r = id)
SleepParts ==
    \A id \in ID :
        /\ InSleep(id) \in Nat /\ SQP!Held(id) \in Nat
        /\ InSleep(id) = SQP!Held(id) + Once(sq_enqueue /\ sq_enq_id = id)
                         + Once(sq_wake_valid /\ sq_wake_id = id)

LEMMA BlockParameters ==
    /\ TimeMod - 1 \in Nat /\ TimeMod * TimeMod - 1 \in Nat /\ 0 \in ID
    /\ PQ_DEPTH \in Nat \ {0} /\ SQ_DEPTH \in Nat \ {0}
BY WidthAssumption, DepthAssumption

LEMMA SameNumbers ==
    /\ \A T : PQP!Cardinality(T) = Cardinality(T) /\ SQP!Cardinality(T) = Cardinality(T)
    /\ \A T : PQP!IsFiniteSet(T) = IsFiniteSet(T) /\ SQP!IsFiniteSet(T) = IsFiniteSet(T)
<1>1. \A T : PQP!Cardinality(T) = Cardinality(T) /\ SQP!Cardinality(T) = Cardinality(T)
  BY DEF PQP!Cardinality, SQP!Cardinality, Cardinality
<1>2. \A T : PQP!IsFiniteSet(T) = IsFiniteSet(T) /\ SQP!IsFiniteSet(T) = IsFiniteSet(T)
  BY DEF PQP!IsFiniteSet, SQP!IsFiniteSet, IsFiniteSet
<1> QED  BY <1>1, <1>2

LEMMA OnceIsNat == \A b : Once(b) \in 0 .. 1
BY DEF Once

LEMMA PartsOfPaths == BlocksOK /\ DequeuesDispatched => ReadyParts /\ SleepParts
<1> SUFFICES ASSUME BlocksOK, DequeuesDispatched, NEW id \in ID
             PROVE  /\ InReady(id) \in Nat /\ PQP!Held(id) \in Nat
                    /\ InReady(id) + Once(pq_dequeue /\ cell[0].id = id)
                         = PQP!Held(id) + Once(pq_enqueue /\ pq_enq_id = id)
                           + Once(pq_enqueue_r /\ pq_enq_id_r = id)
                    /\ InSleep(id) \in Nat /\ SQP!Held(id) \in Nat
                    /\ InSleep(id) = SQP!Held(id) + Once(sq_enqueue /\ sq_enq_id = id)
                                     + Once(sq_wake_valid /\ sq_wake_id = id)
  BY DEF ReadyParts, SleepParts
<1> DEFINE Cell == {i \in PQ!Cells : cell[i].valid /\ cell[i].id = id}
           Rest == {i \in PQ!Cells : cell[i].valid /\ cell[i].id = id
                                     /\ ~(pq_dequeue /\ i = 0)}
           Behind == {i \in PQ!Cells : cell[i].valid /\ cell[i].id = id /\ i # 0}
<1>1. PQP!IInv /\ SQP!IInv
  BY DEF BlocksOK
<1>2. /\ PQP!Held(id) \in Nat
      /\ cell[0].valid => /\ PQP!HeldBehind(id) \in Nat
                          /\ PQP!Held(id) = PQP!HeldBehind(id) + Once(cell[0].id = id)
  <2>1. PQP!Held(id) \in Nat
    BY ONLY <1>1, BlockParameters, PQP!HeldCounted, id \in ID
  <2>2. ASSUME cell[0].valid
        PROVE  /\ PQP!HeldBehind(id) \in Nat
               /\ PQP!Held(id) = PQP!HeldBehind(id) + (IF cell[0].id = id THEN 1 ELSE 0)
    BY ONLY <1>1, <2>2, BlockParameters, PQP!HeldBehindHead, id \in ID
  <2> QED  BY <2>1, <2>2 DEF Once
<1>3. PQP!Held(id) = Cardinality(Cell)
  <2>1. PQP!Held(id) = PQP!Cardinality(Cell)
    BY DEF PQP!Held, PQP!Cells, PQ!Cells
  <2> HIDE DEF Cell
  <2> QED  BY <2>1, SameNumbers
<1>4. InReady(id) = Cardinality(Rest) + Once(pq_enqueue /\ pq_enq_id = id)
                    + Once(pq_enqueue_r /\ pq_enq_id_r = id)
  BY DEF InReady
<1>5. /\ pq_dequeue => Rest = Behind /\ cell[0].valid
      /\ ~pq_dequeue => Rest = Cell
  BY DEF DequeuesDispatched
<1>6. SQP!Held(id) \in Nat
  BY ONLY <1>1, BlockParameters, SQP!HeldCounted, id \in ID
<1>7. InSleep(id) = SQP!Held(id) + Once(sq_enqueue /\ sq_enq_id = id)
                    + Once(sq_wake_valid /\ sq_wake_id = id)
  <2> DEFINE Slot == {i \in SQ!Slots : valid_mem[i] /\ id_mem[i] = id}
  <2>1. SQP!Held(id) = SQP!Cardinality(Slot)
    BY DEF SQP!Held, SQP!Slots, SQ!Slots
  <2>2. SQP!Held(id) = Cardinality(Slot)
    <3> HIDE DEF Slot
    <3> QED  BY <2>1, SameNumbers
  <2> QED  BY <2>2 DEF InSleep
<1>8. PQP!HeldBehind(id) = Cardinality(Behind)
  <2>1. PQP!HeldBehind(id) = PQP!Cardinality(Behind)
    BY DEF PQP!HeldBehind, PQP!Cells, PQ!Cells
  <2> HIDE DEF Behind
  <2> QED  BY <2>1, SameNumbers
<1> HIDE DEF Cell, Rest, Behind
<1>9. CASE pq_dequeue
  <2>1. PQP!Held(id) = Cardinality(Rest) + Once(cell[0].id = id) /\ Cardinality(Rest) \in Nat
    BY <1>2, <1>5, <1>8, <1>9
  <2> QED  BY <1>2, <1>4, <1>6, <1>7, <1>9, <2>1, OnceIsNat DEF Once
<1>10. CASE ~pq_dequeue
  BY <1>2, <1>3, <1>4, <1>5, <1>6, <1>7, <1>10, OnceIsNat DEF Once
<1> QED  BY <1>9, <1>10

LEMMA PartsAfter == BlocksOK' /\ DequeuesDispatched' => ReadyParts' /\ SleepParts'
BY PartsOfPaths, PTL

(* A task enters the ready path with an enqueue and leaves it with a        *)
(* dequeue, and nothing in between (a register, a ripple) loses or doubles  *)
(* it; it enters the sleep path with sq_enqueue and leaves it with its wake. *)
LEMMA PathsMove ==
    ASSUME BlocksOK, BlocksOK', DequeuesDispatched, DequeuesDispatched', Next,
           ~pq_flush, ~sq_flush,
           pq_enqueue_r => pq_depth < PQ_DEPTH, sq_enqueue => SQP!HasRoom, NEW id \in ID
    PROVE  /\ InReady(id) \in Nat /\ InReady(id)' \in Nat
           /\ InSleep(id) \in Nat /\ InSleep(id)' \in Nat
           /\ InReady(id)' + Once(pq_dequeue' /\ cell'[0].id = id)
                = InReady(id) + Once(pq_enqueue' /\ pq_enq_id' = id)
           /\ InSleep(id)' + Once(sq_wake_valid /\ sq_wake_id = id)
                = InSleep(id) + Once(sq_enqueue' /\ sq_enq_id' = id)
<1>1. /\ PQP!Next /\ SQP!Next /\ pq_enqueue_r' = pq_enqueue /\ pq_enq_id_r' = pq_enq_id
      /\ PQP!IInv /\ PQP!IInv' /\ SQP!IInv /\ SQP!IInv'
  BY QueueWires DEF Next, Blocks, TopRegisters, BlocksOK
<1>2. PQP!deq_valid <=> pq_dequeue
  <2>1. pq_dequeue => cell[0].valid
    BY DEF DequeuesDispatched
  <2>2. cell[0].valid => pq_depth # 0
    BY <1>1, BlockParameters DEF PQP!IInv, PQP!QueueInvariant, PQP!TypeOK, PQP!Cells
  <2> QED  BY <2>1, <2>2 DEF PQP!deq_valid
<1>3. PQP!enq_valid <=> pq_enqueue_r
  BY DEF PQP!enq_valid
<1>4. PQP!Held(id)' + (IF PQP!deq_valid /\ cell[0].id = id THEN 1 ELSE 0)
        = PQP!Held(id) + (IF PQP!enq_valid /\ pq_enq_id_r = id THEN 1 ELSE 0)
  BY ONLY <1>1, BlockParameters, PQP!HeldMoves, ~pq_flush, id \in ID
<1>5. SQP!Held(id)' + (IF sq_wake_valid' /\ sq_wake_id' = id THEN 1 ELSE 0)
        = SQP!Held(id) + (IF sq_enqueue /\ SQP!HasRoom /\ sq_enq_id = id THEN 1 ELSE 0)
  BY ONLY <1>1, BlockParameters, SQP!HeldMoves, ~sq_flush, id \in ID
<1>6. /\ InReady(id) \in Nat /\ PQP!Held(id) \in Nat
      /\ InReady(id) + Once(pq_dequeue /\ cell[0].id = id)
           = PQP!Held(id) + Once(pq_enqueue /\ pq_enq_id = id)
             + Once(pq_enqueue_r /\ pq_enq_id_r = id)
      /\ InSleep(id) \in Nat /\ SQP!Held(id) \in Nat
      /\ InSleep(id) = SQP!Held(id) + Once(sq_enqueue /\ sq_enq_id = id)
                       + Once(sq_wake_valid /\ sq_wake_id = id)
  BY PartsOfPaths DEF ReadyParts, SleepParts
<1>7. /\ InReady(id)' \in Nat /\ PQP!Held(id)' \in Nat
      /\ InReady(id)' + Once(pq_dequeue' /\ cell'[0].id = id)
           = PQP!Held(id)' + Once(pq_enqueue' /\ pq_enq_id' = id)
             + Once(pq_enqueue_r' /\ pq_enq_id_r' = id)
      /\ InSleep(id)' \in Nat /\ SQP!Held(id)' \in Nat
      /\ InSleep(id)' = SQP!Held(id)' + Once(sq_enqueue' /\ sq_enq_id' = id)
                        + Once(sq_wake_valid' /\ sq_wake_id' = id)
  BY PartsAfter DEF ReadyParts, SleepParts
<1> QED  BY ONLY <1>1, <1>2, <1>3, <1>4, <1>5, <1>6, <1>7, OnceIsNat,
                 sq_enqueue => SQP!HasRoom DEF Once

(* No more tasks than places: a host that creates only tasks of Used.      *)
Creates(w, Used) == w.op = "CREATE" => w.id \in Used
FewTasks(Used) ==
    /\ Used \subseteq ID /\ IsFiniteSet(Used)
    /\ Cardinality(Used) <= PQ_DEPTH /\ Cardinality(Used) <= SQ_DEPTH
    /\ \A r \in Requests \cup {Boot} : \A n \in 1 .. Len(r) :
           r[n].addr = "CMD_W1" => Creates(r[n].data, Used)

(* The status of a task and its place tell the same story. *)
Agrees(Used) ==
    ~pq_flush => \A id \in ID :
        /\ InReady(id) = Once(Status(id) = CU!Ready)
        /\ InSleep(id) = Once(Status(id) = CU!Sleeping)
        /\ Status(id) # CU!Deleted => id \in Used

(* A task that is on its way into a queue finds a place there. *)
LEMMA PlacesFree ==
    ASSUME NEW Used, FewTasks(Used), BlocksOK, DequeuesDispatched, Agrees(Used),
           ~pq_flush, pq_dequeue => ~pq_enqueue_r
    PROVE  /\ pq_enqueue_r => pq_depth < PQ_DEPTH
           /\ sq_enqueue => SQP!HasRoom
<1>1. /\ PQP!IInv /\ SQP!IInv /\ pq_enq_id_r \in ID /\ sq_enq_id \in ID
  BY DEF BlocksOK, PQP!IInv, PQP!TypeOK, SQP!IInv, SQP!TypeOK, SQP!InputsOK
<1>2. /\ PQP!IsFiniteSet(Used) /\ PQP!Cardinality(Used) <= PQ_DEPTH
      /\ SQP!IsFiniteSet(Used) /\ SQP!Cardinality(Used) <= SQ_DEPTH
  BY SameNumbers DEF FewTasks
<1>3. ReadyParts /\ SleepParts
  BY PartsOfPaths
<1>4. \A id \in ID : /\ InReady(id) <= 1 /\ InSleep(id) <= 1
                     /\ InReady(id) > 0 \/ InSleep(id) > 0 => id \in Used
  BY DEF Agrees, Once, CU!Ready, CU!Sleeping, CU!Deleted
<1>5. ASSUME pq_enqueue_r
      PROVE  pq_depth < PQ_DEPTH
  <2>1. \A id \in ID : /\ InReady(id) \in Nat /\ PQP!Held(id) \in Nat
                       /\ PQP!Held(id) + Once(pq_enq_id_r = id) <= InReady(id)
    BY <1>3, <1>5 DEF ReadyParts, Once
  <2>2. \A id \in ID : PQP!Held(id) <= 1 /\ (PQP!Held(id) > 0 => id \in Used)
    BY <1>4, <2>1 DEF Once
  <2>3. PQP!Held(pq_enq_id_r) = 0 /\ pq_enq_id_r \in Used
    BY <1>1, <1>4, <2>1 DEF Once
  <2> QED  BY ONLY <1>1, <1>2, <2>2, <2>3, BlockParameters, PQP!RoomForAnother
<1>6. ASSUME sq_enqueue
      PROVE  SQP!HasRoom
  <2>1. \A id \in ID : /\ InSleep(id) \in Nat /\ SQP!Held(id) \in Nat
                       /\ SQP!Held(id) + Once(sq_enq_id = id) <= InSleep(id)
    BY <1>3, <1>6 DEF SleepParts, Once
  <2>2. \A id \in ID : SQP!Held(id) <= 1 /\ (SQP!Held(id) > 0 => id \in Used)
    BY <1>4, <2>1 DEF Once
  <2>3. SQP!Held(sq_enq_id) = 0 /\ sq_enq_id \in Used
    BY <1>1, <1>4, <2>1 DEF Once
  <2> QED  BY ONLY <1>1, <1>2, <2>2, <2>3, BlockParameters, SQP!RoomForAnother
<1> QED  BY <1>5, <1>6

LEMMA AllowsMeans ==
    \A status, w : Allows(status, w) <=>
        /\ w.op = "CREATE" => status \in {CU!Suspended, CU!Deleted}
        /\ w.op \in {"MODIFY", "RESUME", "DELETE"} => status = CU!Suspended
        /\ w.op \in {"SLEEP", "SSLEEP", "YIELD", "SUSPEND"} => status = CU!Running
BY DEF Allows

(* While RESET empties the blocks nothing else is under way.               *)
Flushing ==
    /\ pq_flush =>
           /\ sq_flush /\ tt_clear_all /\ Elapsed <= 3
           /\ ~timer_enable /\ ~tick_pulse /\ ~tick_pulse_r /\ ~pending_word2
           /\ ~tt_wr.en /\ ~pq_enqueue /\ ~pq_enqueue_r /\ ~pq_dequeue
           /\ ~sq_enqueue /\ ~sq_wake_valid
    /\ ~pq_flush => ~sq_flush /\ ~tt_clear_all
    /\ pq_dequeue => ~pq_enqueue_r

(* Between the two words of a command the timer stands still.              *)
Halted ==
    pending_word2 => /\ pending_word1.op \in CU!TwoWordOps
                     /\ ~timer_enable /\ ~tick_pulse /\ ~tick_pulse_r

(* A write that is on its way into the table is a command's, in the clock  *)
(* after it and with nothing else going on, or a wake's or a tick's.       *)
WriteKind ==
    tt_wr.en =>
        \/ Elapsed = 3 /\ ~timer_enable /\ ~tick_pulse_r /\ ~tick_pulse /\ ~pending_word2
        \/ table[tt_wr.id].status = CU!Sleeping /\ tt_wr.task.status = CU!Ready
        \/ table[tt_wr.id].status = CU!Running /\ tt_wr.task.status = CU!Running
WriteSettled == ~timer_enable /\ Elapsed >= SQ_DEPTH + 7 => ~tt_wr.en

(* A command still suits its task when it arrives.                         *)
Suited ==
    /\ beat.addr = "CMD_W1" => Suits(beat.data)
    /\ arm_cmd_valid \/ cmd_valid => Suits(cmd_word)
    /\ pending_word2 => Suits(pending_word1)
WordsUse(Used) ==
    /\ \A n \in 1 .. Len(todo) : todo[n].addr = "CMD_W1" => Creates(todo[n].data, Used)
    /\ beat.addr = "CMD_W1" => Creates(beat.data, Used)
    /\ arm_cmd_valid \/ cmd_valid => Creates(cmd_word, Used)
    /\ pending_word2 => Creates(pending_word1, Used)

CarefulTasks == DrainInv /\ DequeuesDispatched /\ Handshake
StatusInv(Used) == /\ CarefulTasks
                   /\ Flushing /\ Halted /\ WriteKind /\ WriteSettled
                   /\ Suited /\ WordsUse(Used) /\ Agrees(Used)

(* A command that touches a task finds everything at rest.                 *)
LEMMA AtRest ==
    ASSUME HostGap >= SQ_DEPTH + 5, CarefulTasks, WriteSettled, Flushing, Halted,
           \/ cmd_valid /\ TouchesTask(cmd_word)
           \/ pending_word2 /\ cmd_word2_valid
    PROVE  /\ Elapsed = HostGap + 3 /\ ~timer_enable
           /\ ~tick_pulse /\ ~tick_pulse_r /\ ~sq_enqueue /\ ~pq_dequeue /\ ~pq_flush
           /\ ~sq_flush /\ ~tt_clear_all
           /\ ~sq_wake_valid /\ ~pq_enqueue /\ ~pq_enqueue_r /\ ~tt_wr.en
           /\ ~(0 \in SQ!Slots /\ valid_mem[0] /\ cnt_mem[0] = 0)
<1>1. gap = 2 /\ UnderWay
  BY DEF CarefulTasks, DrainInv, CarefulInv, OnItsWay, UnderWay
<1>2. Elapsed = HostGap + 3 /\ HostGap \in Nat
  BY <1>1, HostAssumption DEF Elapsed
<1>3. ~timer_enable
  BY DEF CarefulTasks, DrainInv, CarefulInv, StoppedFor, Halted
<1> HIDE DEF Elapsed
<1> QED  BY <1>2, <1>3, DepthAssumption
         DEF CarefulTasks, DrainInv, Drained, WriteSettled, Flushing

(* What is written to the table is read back the clock after.              *)
LEMMA StatusStep ==
    ASSUME BlocksOK, CU!CommitTable, ~tt_clear_all
    PROVE  \A id \in ID :
               /\ table'[id].status = Status(id)
               /\ Status(id)' = IF tt_wr'.en /\ tt_wr'.id = id THEN tt_wr'.task.status
                                                               ELSE Status(id)
<1>1. table \in [ID -> CUP!Task]
  BY DEF BlocksOK, CUP!TypeOK, CUP!RegsOK
<1>2. table' = IF tt_wr.en THEN [table EXCEPT ![tt_wr.id] = tt_wr.task] ELSE table
  BY DEF CU!CommitTable
<1>3. \A id \in ID : table'[id].status = Status(id)
  BY <1>1, <1>2 DEF Status
<1> QED  BY <1>3 DEF Status

(* The three kinds of operations.  Passive: nothing but a wake and a tick.  *)
Passive ==
    /\ CU!NoTaskWrite
    /\ pq_enqueue' <=> sq_wake_valid
    /\ sq_wake_valid => pq_enq_id' = sq_wake_id
    /\ ~sq_enqueue' /\ ~pq_dequeue' /\ ~pq_flush' /\ ~sq_flush' /\ ~tt_clear_all'
    /\ current_task' = current_task
Flushes ==
    /\ CU!Resets /\ CU!NoTaskWrite /\ current_task' = NoTask
    /\ pq_enqueue' <=> sq_wake_valid
    /\ ~sq_enqueue' /\ ~pq_dequeue' /\ pq_flush' /\ sq_flush' /\ tt_clear_all'
    /\ ~timer_enable' /\ ~pending_word2'
ChangesTask ==
    \/ CU!Create \/ CU!Modify \/ CU!LongSleep \/ CU!ShortSleep \/ CU!Yield
    \/ CU!Retire \/ CU!Resume \/ CU!Activate

LEMMA OperationKinds ==
    ASSUME CU!Operation
    PROVE  Passive \/ Flushes \/ ChangesTask
<1> USE DEF CU!QueuesIdle, CU!NoReady, CU!NoSleep, CU!NoDequeue, CU!NoFlush, Passive
<1>1. CASE CU!Idle
  BY <1>1 DEF CU!Idle
<1>2. CASE CU!Inform \/ CU!Configure \/ CU!RunOrStop \/ CU!FirstWord
  BY <1>2 DEF CU!Inform, CU!Configure, CU!RunOrStop, CU!FirstWord
<1>3. CASE CU!YieldAperiodic \/ CU!ActivateEmpty \/ CU!ResetRefused
  BY <1>3 DEF CU!YieldAperiodic, CU!ActivateEmpty, CU!ResetRefused
<1>4. CASE CU!Reset
  BY <1>4 DEF CU!Reset, CU!FlushAll, CU!DropPending, Flushes
<1> QED  BY <1>1, <1>2, <1>3, <1>4 DEF CU!Operation, ChangesTask

(* A command that changes the status of a task writes it, and nothing else, *)
(* to the table, and moves the task: out of the ready queue, into it or     *)
(* into the sleep queue.                                                    *)
Moves(id, s) ==
    /\ tt_wr'.en /\ tt_wr'.id = id /\ tt_wr'.task.status = s
    /\ pq_enqueue' <=> s = CU!Ready
    /\ pq_enqueue' => pq_enq_id' = id
    /\ sq_enqueue' <=> s = CU!Sleeping
    /\ sq_enqueue' => sq_enq_id' = id
    /\ pq_dequeue' <=> s = CU!Running
    /\ pq_dequeue' => cell[0].valid /\ cell[0].id = id
    /\ ~pq_flush' /\ ~sq_flush' /\ ~tt_clear_all'
    /\ ~pending_word2' /\ timer_enable' = timer_enable
    /\ current_task' = IF s = CU!Running THEN id ELSE current_task

LEMMA Word2Moves ==
    ASSUME BlocksOK, ~sq_wake_valid, Suits(pending_word1),
           CU!Create \/ CU!Modify \/ CU!LongSleep
    PROVE  /\ pending_word1.id \in ID /\ pending_word2 /\ cmd_word2_valid
           /\ \/ pending_word1.op = "CREATE" /\ Moves(pending_word1.id, CU!Suspended)
                 /\ table[pending_word1.id].status \in {CU!Suspended, CU!Deleted}
              \/ Moves(pending_word1.id, CU!Suspended)
                 /\ table[pending_word1.id].status = CU!Suspended
              \/ Moves(pending_word1.id, CU!Sleeping)
                 /\ table[pending_word1.id].status = CU!Running
<1> USE DEF CU!SecondWord, CU!Word2For, CU!QueuesIdle, CU!NoReady, CU!NoSleep, CU!NoDequeue,
            CU!NoFlush, CU!KeepSettings, CU!StartSleep, CU!WriteTask, CU!Write
<1>1. /\ pending_word1.id \in ID /\ table[pending_word1.id] \in CUP!Task
      /\ pending_word2 /\ ~cmd_valid /\ cmd_word2_valid
  BY DEF CU!Create, CU!Modify, CU!LongSleep, BlocksOK, CUP!TypeOK, CUP!RegsOK, CUP!Word1
<1>2. CU!rd = table[pending_word1.id]
  BY <1>1 DEF CU!rd, CU!tt_rd_id
<1> DEFINE t == table[pending_word1.id]
<1>3. Allows(t.status, pending_word1)
  BY DEF Suits
<1>4. CASE CU!Create
  <2>1. pending_word1.op = "CREATE" /\ t.status \in {CU!Suspended, CU!Deleted}
    BY <1>3, <1>4, AllowsMeans DEF CU!Create
  <2>2. CU!Described([t EXCEPT !.status = CU!Suspended]).status = CU!Suspended
    BY <1>1 DEF CU!Described, CUP!Task
  <2>3. Moves(pending_word1.id, CU!Suspended)
    BY <1>2, <1>4, <2>2 DEF CU!Create, Moves, CU!Suspended, CU!Ready, CU!Sleeping, CU!Running
  <2> QED  BY <1>1, <2>1, <2>3
<1>5. CASE CU!Modify
  <2>1. t.status = CU!Suspended
    BY <1>3, <1>5, AllowsMeans DEF CU!Modify
  <2>2. CU!Described(t).status = CU!Suspended
    BY <1>1, <2>1 DEF CU!Described, CUP!Task
  <2>3. Moves(pending_word1.id, CU!Suspended)
    BY <1>2, <1>5, <2>2 DEF CU!Modify, Moves, CU!Suspended, CU!Ready, CU!Sleeping, CU!Running
  <2> QED  BY <1>1, <2>1, <2>3
<1>6. CASE CU!LongSleep
  <2>1. t.status = CU!Running
    BY <1>3, <1>6, AllowsMeans DEF CU!LongSleep
  <2>2. [t EXCEPT !.status = CU!Sleeping].status = CU!Sleeping
    BY <1>1 DEF CUP!Task
  <2>3. tt_wr'.en /\ tt_wr'.id = pending_word1.id /\ tt_wr'.task.status = CU!Sleeping
    BY <1>2, <1>6, <2>2 DEF CU!LongSleep
  <2>4. /\ ~pq_enqueue' /\ sq_enqueue' /\ sq_enq_id' = pending_word1.id /\ ~pq_dequeue'
        /\ ~pq_flush' /\ ~sq_flush' /\ ~tt_clear_all'
        /\ ~pending_word2' /\ timer_enable' = timer_enable /\ current_task' = current_task
    BY <1>6 DEF CU!LongSleep
  <2>5. Moves(pending_word1.id, CU!Sleeping)
    BY <2>3, <2>4 DEF Moves, CU!Ready, CU!Sleeping, CU!Running
  <2> QED  BY <1>1, <2>1, <2>5
<1> QED  BY <1>4, <1>5, <1>6

LEMMA Word1Moves ==
    ASSUME BlocksOK, ~sq_wake_valid, ~tick_pulse_r, ~pending_word2, Suits(cmd_word),
           CU!ShortSleep \/ CU!Yield \/ CU!Retire \/ CU!Resume
    PROVE  /\ cmd_word.id \in ID /\ cmd_valid /\ TouchesTask(cmd_word)
           /\ \/ Moves(cmd_word.id, CU!Sleeping)
                 /\ table[cmd_word.id].status = CU!Running
              \/ Moves(cmd_word.id, CU!Deleted)
                 /\ table[cmd_word.id].status = CU!Suspended
              \/ Moves(cmd_word.id, CU!Suspended)
                 /\ table[cmd_word.id].status = CU!Running
              \/ Moves(cmd_word.id, CU!Ready)
                 /\ table[cmd_word.id].status = CU!Suspended
<1> USE DEF CU!Command, CU!QueuesIdle, CU!NoReady, CU!NoSleep, CU!NoDequeue, CU!MakeReady,
            CU!NoFlush, CU!KeepSettings, CU!KeepPending, CU!StartSleep, CU!WriteTask, CU!Write
<1>1. /\ cmd_word.id \in ID /\ table[cmd_word.id] \in CUP!Task
      /\ cmd_valid /\ cmd_word.op \in {"SSLEEP", "YIELD", "DELETE", "SUSPEND", "RESUME"}
  BY DEF CU!ShortSleep, CU!Yield, CU!Retire, CU!Resume, BlocksOK, CUP!TypeOK, CUP!InputsOK,
         CUP!RegsOK, CUP!Word1
<1>2. CU!rd = table[cmd_word.id] /\ TouchesTask(cmd_word)
  BY <1>1 DEF CU!rd, CU!tt_rd_id, TouchesTask
<1> DEFINE t == table[cmd_word.id]
<1>3. Allows(t.status, cmd_word)
  BY DEF Suits
<1>4. \A s : [t EXCEPT !.status = s].status = s
  BY <1>1 DEF CUP!Task
<1>5. CASE CU!ShortSleep
  <2>1. t.status = CU!Running
    BY <1>3, <1>5, AllowsMeans DEF CU!ShortSleep
  <2>2. tt_wr'.en /\ tt_wr'.id = cmd_word.id /\ tt_wr'.task.status = CU!Sleeping
    BY <1>2, <1>4, <1>5 DEF CU!ShortSleep
  <2>3. /\ ~pq_enqueue' /\ sq_enqueue' /\ sq_enq_id' = cmd_word.id /\ ~pq_dequeue'
        /\ ~pq_flush' /\ ~sq_flush' /\ ~tt_clear_all'
        /\ ~pending_word2' /\ timer_enable' = timer_enable /\ current_task' = current_task
    BY <1>5 DEF CU!ShortSleep
  <2>4. Moves(cmd_word.id, CU!Sleeping)
    BY <2>2, <2>3 DEF Moves, CU!Ready, CU!Sleeping, CU!Running
  <2> QED  BY <1>1, <1>2, <2>1, <2>4
<1>6. CASE CU!Yield
  <2>1. t.status = CU!Running
    BY <1>3, <1>6, AllowsMeans DEF CU!Yield
  <2>2. \A r, d : [t EXCEPT !.status = CU!Sleeping, !.remaining = r, !.abs_deadline = d].status
                  = CU!Sleeping
    BY <1>1 DEF CUP!Task
  <2>3. tt_wr'.en /\ tt_wr'.id = cmd_word.id /\ tt_wr'.task.status = CU!Sleeping
    BY <1>2, <1>6, <2>2 DEF CU!Yield
  <2>4. /\ ~pq_enqueue' /\ sq_enqueue' /\ sq_enq_id' = cmd_word.id /\ ~pq_dequeue'
        /\ ~pq_flush' /\ ~sq_flush' /\ ~tt_clear_all'
        /\ ~pending_word2' /\ timer_enable' = timer_enable /\ current_task' = current_task
    BY <1>6 DEF CU!Yield
  <2>5. Moves(cmd_word.id, CU!Sleeping)
    BY <2>3, <2>4 DEF Moves, CU!Ready, CU!Sleeping, CU!Running
  <2> QED  BY <1>1, <1>2, <2>1, <2>5
<1>7. CASE CU!Retire
  <2>1. \/ cmd_word.op = "DELETE" /\ t.status = CU!Suspended
        \/ cmd_word.op = "SUSPEND" /\ t.status = CU!Running
    BY <1>3, <1>7, AllowsMeans DEF CU!Retire
  <2> DEFINE s == IF cmd_word.op = "DELETE" THEN CU!Deleted ELSE CU!Suspended
  <2>2. tt_wr'.en /\ tt_wr'.id = cmd_word.id /\ tt_wr'.task.status = s
    BY <1>2, <1>4, <1>7 DEF CU!Retire
  <2>3. /\ ~pq_enqueue' /\ ~sq_enqueue' /\ ~pq_dequeue'
        /\ ~pq_flush' /\ ~sq_flush' /\ ~tt_clear_all'
        /\ ~pending_word2' /\ timer_enable' = timer_enable /\ current_task' = current_task
    BY <1>7 DEF CU!Retire
  <2>4. s # CU!Ready /\ s # CU!Sleeping /\ s # CU!Running
    BY DEF CU!Ready, CU!Sleeping, CU!Running, CU!Deleted, CU!Suspended
  <2>5. Moves(cmd_word.id, s)
    <3> HIDE DEF s
    <3> QED  BY <2>2, <2>3, <2>4 DEF Moves
  <2> QED  BY <1>1, <1>2, <2>1, <2>5
<1>8. CASE CU!Resume
  <2>1. t.status = CU!Suspended
    BY <1>3, <1>8, AllowsMeans DEF CU!Resume
  <2>2. \A r, d : [t EXCEPT !.status = CU!Ready, !.remaining = r, !.abs_deadline = d].status
                  = CU!Ready
    BY <1>1 DEF CUP!Task
  <2>3. tt_wr'.en /\ tt_wr'.id = cmd_word.id /\ tt_wr'.task.status = CU!Ready
    BY <1>2, <1>8, <2>2 DEF CU!Resume
  <2>4. /\ pq_enqueue' /\ pq_enq_id' = cmd_word.id /\ ~sq_enqueue' /\ ~pq_dequeue'
        /\ ~pq_flush' /\ ~sq_flush' /\ ~tt_clear_all'
        /\ ~pending_word2' /\ timer_enable' = timer_enable /\ current_task' = current_task
    BY <1>8 DEF CU!Resume
  <2>5. Moves(cmd_word.id, CU!Ready)
    BY <2>3, <2>4 DEF Moves, CU!Ready, CU!Sleeping, CU!Running
  <2> QED  BY <1>1, <1>2, <2>1, <2>5
<1> QED  BY <1>5, <1>6, <1>7, <1>8

LEMMA ActivateMoves ==
    ASSUME BlocksOK, ~sq_wake_valid, ~pending_word2, CU!Activate
    PROVE  /\ cell[0].id \in ID /\ cmd_valid /\ TouchesTask(cmd_word)
           /\ cell[0].valid /\ Moves(cell[0].id, CU!Running)
<1>1. cell[0].id \in ID /\ table[cell[0].id] \in CUP!Task
  <2>1. 0 \in PQP!Cells
    BY BlockParameters DEF PQP!Cells
  <2> QED  BY <2>1 DEF BlocksOK, PQP!IInv, PQP!TypeOK, PQP!Item, CUP!TypeOK, CUP!RegsOK
<1>2. /\ cmd_valid /\ cmd_word.op = "ACTIVATE" /\ CU!rd = table[cell[0].id]
      /\ TouchesTask(cmd_word) /\ cell[0].valid
  BY DEF CU!Activate, CU!Command, CU!rd, CU!tt_rd_id, TouchesTask, PQ!head_id, PQ!head_valid
<1>3. [table[cell[0].id] EXCEPT !.status = CU!Running].status = CU!Running
  BY <1>1 DEF CUP!Task
<1> USE DEF CU!NoReady, CU!NoSleep, CU!NoFlush, CU!KeepPending, CU!KeepSettings,
            CU!WriteTask, CU!Write
<1>4. tt_wr'.en /\ tt_wr'.id = cell[0].id /\ tt_wr'.task.status = CU!Running
  BY <1>2, <1>3 DEF CU!Activate, PQ!head_id
<1>5. /\ ~pq_enqueue' /\ ~sq_enqueue' /\ pq_dequeue' /\ current_task' = cell[0].id
      /\ ~pq_flush' /\ ~sq_flush' /\ ~tt_clear_all'
      /\ ~pending_word2' /\ timer_enable' = timer_enable
  BY DEF CU!Activate, PQ!head_id
<1>6. Moves(cell[0].id, CU!Running)
  BY <1>2, <1>4, <1>5 DEF Moves, CU!Ready, CU!Sleeping, CU!Running
<1> QED  BY <1>1, <1>2, <1>5, <1>6

LEMMA Wires ==
    ASSUME Next
    PROVE  /\ Host /\ Slave!Step /\ Timer!Step /\ PQ!Step /\ SQ!Step
           /\ CU!Operation /\ CU!CommitTable
           /\ tick_pulse_r' = tick_pulse /\ pq_enqueue_r' = pq_enqueue
BY DEF Next, Blocks, TopRegisters, CU!Step, CU!EveryEdge

LEMMA ClockOfWords ==
    ASSUME HostGap >= SQ_DEPTH + 5, CarefulTasks, Next
    PROVE  /\ Elapsed \in Nat /\ SQ_DEPTH \in Nat \ {0} /\ HostGap \in Nat
           /\ cmd_valid \/ cmd_word2_valid => Elapsed = HostGap + 3 /\ Elapsed' = 3
           /\ ~cmd_valid /\ ~cmd_word2_valid =>
                  Elapsed' = Elapsed + 1 \/ (Elapsed' = Elapsed /\ Elapsed = HostGap)
BY Wires, ElapsedStep, DepthAssumption, HostAssumption DEF CarefulTasks, DrainInv, CarefulInv

(* What arrives decides the operation. *)
LEMMA WordDecides ==
    ASSUME CU!Operation
    PROVE  /\ ~cmd_valid /\ ~cmd_word2_valid => CU!Idle
           /\ cmd_valid /\ cmd_word.op \in CU!TwoWordOps => CU!FirstWord
BY DEF CU!Operation, CU!Idle, CU!Inform, CU!Configure, CU!RunOrStop, CU!FirstWord, CU!Create,
       CU!Modify, CU!LongSleep, CU!SecondWord, CU!ShortSleep, CU!Yield,
       CU!YieldAperiodic, CU!Retire, CU!Resume, CU!Activate, CU!ActivateEmpty,
       CU!Reset, CU!ResetRefused, CU!Command, CU!Word2For, CU!Resets, CU!TwoWordOps

(* Besides the write of a command there is only a wake's, of a task that    *)
(* sleeps, and a tick's, of the task that runs.                            *)
LEMMA OtherWrites ==
    ASSUME NEW Used, StatusInv(Used), CU!NoTaskWrite
    PROVE  /\ sq_wake_valid =>
                  /\ tt_wr'.en /\ tt_wr'.id = sq_wake_id /\ tt_wr'.task.status = CU!Ready
                  /\ ~pq_flush /\ sq_wake_id \in ID /\ Status(sq_wake_id) = CU!Sleeping
           /\ ~sq_wake_valid /\ tt_wr'.en =>
                  /\ tick_pulse_r /\ tt_wr'.task.status = CU!Running
                  /\ ~pq_flush /\ tt_wr'.id \in ID /\ Status(tt_wr'.id) = CU!Running
<1> USE DEF StatusInv
<1>1. BlocksOK /\ Follows /\ SleepParts
  BY PartsOfPaths DEF CarefulTasks, DrainInv, CarefulInv
<1>2. table \in [ID -> CUP!Task] /\ current_task \in ID /\ sq_wake_id \in ID
  BY <1>1 DEF BlocksOK, CUP!TypeOK, CUP!RegsOK, CUP!InputsOK
<1>3. ASSUME sq_wake_valid
      PROVE  /\ tt_wr'.en /\ tt_wr'.id = sq_wake_id /\ tt_wr'.task.status = CU!Ready
             /\ ~pq_flush /\ Status(sq_wake_id) = CU!Sleeping
  <2>1. CU!rd \in CUP!Task
    <3>1. CU!tt_rd_id \in ID
      BY <1>1, <1>3 DEF BlocksOK, CUP!TypeOK, CUP!RegsOK, CUP!InputsOK, CU!tt_rd_id,
         PQ!head_id
    <3> QED  BY <1>2, <3>1 DEF CU!rd
  <2>2. [CU!rd EXCEPT !.status = CU!Ready, !.remaining = CU!rd.wcet].status = CU!Ready
    BY <2>1 DEF CUP!Task
  <2>3. tt_wr'.en /\ tt_wr'.id = sq_wake_id /\ tt_wr'.task.status = CU!Ready
    BY <1>3, <2>2 DEF CU!NoTaskWrite, CU!WakeWrite, CU!Write
  <2>4. ~pq_flush
    BY <1>3 DEF Flushing
  <2>5. InSleep(sq_wake_id) >= 1
    BY <1>1, <1>2, <1>3 DEF SleepParts, Once
  <2>6. InSleep(sq_wake_id) = Once(Status(sq_wake_id) = CU!Sleeping)
    BY <1>2, <2>4 DEF Agrees
  <2> QED  BY <2>3, <2>4, <2>5, <2>6 DEF Once
<1>4. ASSUME ~sq_wake_valid, tt_wr'.en
      PROVE  /\ tick_pulse_r /\ tt_wr'.task.status = CU!Running
             /\ ~pq_flush /\ tt_wr'.id \in ID /\ Status(tt_wr'.id) = CU!Running
  <2>1. CU!TickDecrements /\ tt_wr' = CU!TickWrite
    BY <1>4 DEF CU!NoTaskWrite, CU!NoWrite
  <2>2. tick_pulse_r /\ ~pending_word2 /\ ~cmd_valid /\ current_task # NoTask
    BY <2>1 DEF CU!TickDecrements, Halted
  <2>3. CU!tt_rd_id = current_task
    BY <1>1, <1>4, <2>2 DEF CU!tt_rd_id, Follows
  <2>4. CU!rd = table[current_task] /\ table[current_task].status = CU!Running
    BY <2>1, <2>3 DEF CU!rd, CU!TickDecrements
  <2>5. [table[current_task] EXCEPT !.remaining = @ - 1].status = CU!Running
    BY <1>2, <2>4 DEF CUP!Task
  <2>6. tt_wr'.id = current_task /\ tt_wr'.task.status = CU!Running
    BY <2>1, <2>4, <2>5 DEF CU!TickWrite, CU!Write
  <2>7. ~pq_flush
    BY <2>2 DEF Flushing
  <2>8. Status(current_task) = CU!Running
    BY <2>2, <2>4 DEF Status, WriteKind, CU!Running, CU!Sleeping
  <2> QED  BY <1>2, <2>2, <2>6, <2>7, <2>8
<1> QED  BY <1>2, <1>3, <1>4

Taken == \/ cmd_valid /\ TouchesTask(cmd_word)
         \/ pending_word2 /\ cmd_word2_valid

(* A command that moves a task along one of the arrows of docs/arch.md.    *)
Arrows == {<<CU!Deleted, CU!Suspended>>, <<CU!Suspended, CU!Suspended>>,
           <<CU!Suspended, CU!Deleted>>, <<CU!Suspended, CU!Ready>>,
           <<CU!Ready, CU!Running>>, <<CU!Running, CU!Suspended>>,
           <<CU!Running, CU!Sleeping>>}
MovesOut(Used, id, s) ==
    /\ Taken /\ Moves(id, s) /\ <<Status(id), s>> \in Arrows
    /\ s # CU!Deleted => id \in Used

LEMMA ArrowsSay ==
    ASSUME NEW r, NEW s, <<r, s>> \in Arrows
    PROVE  IF s = CU!Running THEN r = CU!Ready ELSE r \notin {CU!Ready, CU!Sleeping}
BY DEF Arrows, CU!Deleted, CU!Suspended, CU!Ready, CU!Running, CU!Sleeping

LEMMA StepKinds ==
    ASSUME HostGap >= SQ_DEPTH + 5, NEW Used, StatusInv(Used), Next
    PROVE  Passive \/ (Flushes /\ Taken) \/ \E id \in ID : \E s : MovesOut(Used, id, s)
<1> USE DEF StatusInv
<1>1. CU!Operation /\ BlocksOK /\ ReadyParts /\ SleepParts
  BY Wires, PartsOfPaths DEF CarefulTasks, DrainInv
<1>2. CASE Flushes
  <2>1. Taken
    BY <1>2 DEF Flushes, CU!Resets, Taken, TouchesTask
  <2> QED  BY <1>2, <2>1
<1>3. CASE ChangesTask
  <2>1. ASSUME Taken
        PROVE  /\ ~sq_wake_valid /\ ~tick_pulse_r /\ ~pq_flush
               /\ \A id \in ID : /\ Status(id) = table[id].status
                                 /\ Status(id) # CU!Deleted => id \in Used
                                 /\ InReady(id) = Once(Status(id) = CU!Ready)
    <3>1. /\ ~sq_wake_valid /\ ~tick_pulse_r /\ ~pq_flush /\ ~tt_wr.en
      BY <2>1, AtRest DEF Taken
    <3> QED  BY <3>1 DEF Status, Agrees
  <2>2. CASE CU!Create \/ CU!Modify \/ CU!LongSleep
    <3>1. pending_word2 /\ cmd_word2_valid /\ Taken
      BY <2>2 DEF CU!Create, CU!Modify, CU!LongSleep, CU!SecondWord, CU!Word2For, Taken
    <3> DEFINE id == pending_word1.id
    <3>2. Suits(pending_word1) /\ Creates(pending_word1, Used)
      BY <3>1 DEF Suited, WordsUse
    <3>3. /\ id \in ID
          /\ \/ pending_word1.op = "CREATE" /\ Moves(id, CU!Suspended)
                /\ table[id].status \in {CU!Suspended, CU!Deleted}
             \/ Moves(id, CU!Suspended) /\ table[id].status = CU!Suspended
             \/ Moves(id, CU!Sleeping) /\ table[id].status = CU!Running
      BY <1>1, <2>1, <2>2, <3>1, <3>2, Word2Moves
    <3>4. Status(id) = table[id].status /\ (Status(id) # CU!Deleted => id \in Used)
      BY <2>1, <3>1, <3>3
    <3>5. pending_word1.op = "CREATE" => id \in Used
      BY <3>2 DEF Creates
    <3> HIDE DEF id
    <3>6. MovesOut(Used, id, CU!Suspended) \/ MovesOut(Used, id, CU!Sleeping)
      BY <3>1, <3>3, <3>4, <3>5 DEF MovesOut, Arrows, CU!Suspended, CU!Deleted, CU!Ready, CU!Sleeping,
                                    CU!Running
    <3> QED  BY <3>3, <3>6
  <2>3. CASE CU!ShortSleep \/ CU!Yield \/ CU!Retire \/ CU!Resume
    <3>1. cmd_valid /\ Taken
      BY <2>3 DEF CU!ShortSleep, CU!Yield, CU!Retire, CU!Resume, CU!Command, Taken, TouchesTask
    <3> DEFINE id == cmd_word.id
    <3>2. Suits(cmd_word) /\ ~pending_word2
      BY <3>1 DEF Suited, CarefulTasks, Handshake
    <3>3. /\ id \in ID
          /\ \/ Moves(id, CU!Sleeping) /\ table[id].status = CU!Running
             \/ Moves(id, CU!Deleted) /\ table[id].status = CU!Suspended
             \/ Moves(id, CU!Suspended) /\ table[id].status = CU!Running
             \/ Moves(id, CU!Ready) /\ table[id].status = CU!Suspended
      BY <1>1, <2>1, <2>3, <3>1, <3>2, Word1Moves
    <3>4. Status(id) = table[id].status /\ (Status(id) # CU!Deleted => id \in Used)
      BY <2>1, <3>1, <3>3
    <3> HIDE DEF id
    <3>5. \E s \in {CU!Sleeping, CU!Deleted, CU!Suspended, CU!Ready} : MovesOut(Used, id, s)
      BY <3>1, <3>3, <3>4 DEF MovesOut, Arrows, CU!Suspended, CU!Deleted, CU!Ready, CU!Sleeping,
                              CU!Running
    <3> QED  BY <3>3, <3>5
  <2>4. CASE CU!Activate
    <3>1. cmd_valid /\ Taken
      BY <2>4 DEF CU!Activate, CU!Command, Taken, TouchesTask
    <3> DEFINE id == cell[0].id
    <3>2. ~pending_word2
      BY <3>1 DEF CarefulTasks, Handshake
    <3>3. id \in ID /\ cell[0].valid /\ Moves(id, CU!Running)
      BY <1>1, <2>1, <2>4, <3>1, <3>2, ActivateMoves
    <3>4. PQP!Held(id) = PQP!HeldBehind(id) + 1 /\ PQP!HeldBehind(id) \in Nat
      <4>1. PQP!IInv
        BY <1>1 DEF BlocksOK
      <4> HIDE DEF id
      <4>2. /\ PQP!HeldBehind(id) \in Nat
            /\ PQP!Held(id) = PQP!HeldBehind(id) + (IF cell[0].id = id THEN 1 ELSE 0)
        BY ONLY <4>1, <3>3, BlockParameters, PQP!HeldBehindHead, id \in ID
      <4> QED  BY <4>2 DEF id
    <3>5. InReady(id) >= 1
      <4>1. ~pq_dequeue
        BY <3>1, AtRest DEF Taken
      <4> QED  BY <1>1, <3>3, <3>4, <4>1 DEF ReadyParts, Once
    <3>6. Status(id) = CU!Ready /\ (Status(id) # CU!Deleted => id \in Used)
      BY <2>1, <3>1, <3>3, <3>5 DEF Once
    <3> HIDE DEF id
    <3>7. MovesOut(Used, id, CU!Running)
      BY <3>1, <3>3, <3>6 DEF MovesOut, Arrows, CU!Ready, CU!Deleted
    <3> QED  BY <3>3, <3>7
  <2> QED  BY <1>3, <2>2, <2>3, <2>4 DEF ChangesTask
<1> QED  BY <1>1, <1>2, <1>3, OperationKinds

(* Nothing in a queue, a register or on a wire. *)
AllEmpty ==
    /\ \A i \in PQ!Cells : ~cell[i].valid
    /\ \A i \in SQ!Slots : ~valid_mem[i]
    /\ ~pq_enqueue /\ ~pq_enqueue_r /\ ~sq_enqueue /\ ~sq_wake_valid

NoneHeld == \A id \in ID : InReady(id) = 0 /\ InSleep(id) = 0

LEMMA EmptyPaths == AllEmpty => NoneHeld
<1> SUFFICES ASSUME AllEmpty, NEW id \in ID
             PROVE  InReady(id) = 0 /\ InSleep(id) = 0
  BY DEF NoneHeld
<1>1. /\ {i \in PQ!Cells : cell[i].valid /\ cell[i].id = id /\ ~(pq_dequeue /\ i = 0)} = {}
      /\ {i \in SQ!Slots : valid_mem[i] /\ id_mem[i] = id} = {}
  BY DEF AllEmpty
<1>2. Cardinality({}) = 0
  BY FS_EmptySet
<1> QED  BY <1>1, <1>2 DEF AllEmpty, InReady, InSleep, Once

LEMMA EmptyPathsAfter == AllEmpty' => NoneHeld'
BY EmptyPaths, PTL

(* The step that flushes: no word arrives with it, and it leaves nothing.  *)
LEMMA FlushEmpties ==
    ASSUME HostGap >= SQ_DEPTH + 5, NEW Used, StatusInv(Used), Next, pq_flush
    PROVE  /\ CU!Idle /\ AllEmpty' /\ ~tt_wr'.en
           /\ \A id \in ID : table'[id] = CU!Blank
<1> USE DEF StatusInv
<1>1. /\ PQ!Step /\ SQ!Step /\ CU!Operation /\ CU!CommitTable /\ pq_enqueue_r' = pq_enqueue
  BY Wires
<1>2. CU!Idle
  <2>1. ~cmd_valid /\ ~cmd_word2_valid
    <3>1. Elapsed <= 3
      BY DEF Flushing
    <3>2. /\ Elapsed \in Nat /\ SQ_DEPTH \in Nat /\ HostGap \in Nat
          /\ cmd_valid \/ cmd_word2_valid => Elapsed = HostGap + 3
      BY ClockOfWords
    <3> HIDE DEF Elapsed
    <3> QED  BY <3>1, <3>2
  <2> QED  BY <1>1, <2>1, WordDecides
<1>3. /\ sq_flush /\ tt_clear_all /\ ~tick_pulse_r /\ ~pq_enqueue /\ ~sq_wake_valid
  BY DEF Flushing
<1>4. \A i \in PQ!Cells : ~cell'[i].valid
  BY <1>1 DEF PQ!Step, PQ!FlushAll, PQ!Hold, PQ!Enqueue, PQ!Dequeue,
              PQ!DequeueAndEnqueue, PQ!NoItem
<1>5. (\A i \in SQ!Slots : ~valid_mem'[i]) /\ ~sq_wake_valid'
  BY <1>1, <1>3 DEF SQ!Step, SQ!FlushAll, SQ!Advance, SQ!AdvanceAndInsert
<1>6. ~pq_enqueue' /\ ~pq_enqueue_r' /\ ~sq_enqueue' /\ ~tt_wr'.en
  BY <1>1, <1>2, <1>3 DEF CU!Idle, CU!QueuesIdle, CU!NoReady, CU!NoSleep, CU!NoTaskWrite,
                          CU!TickDecrements, CU!NoWrite
<1>7. \A id \in ID : table'[id] = CU!Blank
  BY <1>1, <1>3 DEF CU!CommitTable
<1> QED  BY <1>2, <1>4, <1>5, <1>6, <1>7 DEF AllEmpty, PQ!Cells, SQ!Slots

LEMMA AgreesKept ==
    ASSUME HostGap >= SQ_DEPTH + 5, NEW Used, FewTasks(Used), StatusInv(Used), CarefulTasks',
           Next
    PROVE  Agrees(Used)'
<1> USE DEF StatusInv
<1> SUFFICES ASSUME ~pq_flush', NEW id \in ID
             PROVE  /\ InReady(id)' = Once(Status(id)' = CU!Ready)
                    /\ InSleep(id)' = Once(Status(id)' = CU!Sleeping)
                    /\ Status(id)' # CU!Deleted => id \in Used
  BY DEF Agrees
<1>1. BlocksOK /\ BlocksOK' /\ DequeuesDispatched /\ DequeuesDispatched' /\ CU!CommitTable
  BY Wires DEF CarefulTasks, DrainInv
<1>2. CASE pq_flush
  <2>1. ~tt_wr'.en /\ table'[id] = CU!Blank
    BY <1>2, FlushEmpties
  <2>2. Status(id)' = CU!Deleted
    BY <2>1 DEF Status, CU!Blank
  <2>3. InReady(id)' = 0 /\ InSleep(id)' = 0
    BY <1>2, FlushEmpties, EmptyPathsAfter DEF NoneHeld
  <2> QED  BY <2>2, <2>3 DEF Once, CU!Deleted, CU!Ready, CU!Sleeping
<1>3. CASE ~pq_flush
  <2>1. ~sq_flush /\ ~tt_clear_all
    BY <1>3 DEF Flushing
  <2>2. Status(id)' = IF tt_wr'.en /\ tt_wr'.id = id THEN tt_wr'.task.status ELSE Status(id)
    BY <1>1, <2>1, StatusStep
  <2>3. /\ InReady(id) = Once(Status(id) = CU!Ready)
        /\ InSleep(id) = Once(Status(id) = CU!Sleeping)
        /\ Status(id) # CU!Deleted => id \in Used
    BY <1>3 DEF Agrees
  <2>4. (pq_enqueue_r => pq_depth < PQ_DEPTH) /\ (sq_enqueue => SQP!HasRoom)
    <3>1. pq_dequeue => ~pq_enqueue_r
      BY DEF Flushing
    <3> QED  BY <1>1, <1>3, <3>1, PlacesFree
  <2>5. /\ InReady(id) \in Nat /\ InReady(id)' \in Nat
        /\ InSleep(id) \in Nat /\ InSleep(id)' \in Nat
        /\ InReady(id)' + Once(pq_dequeue' /\ cell'[0].id = id)
             = InReady(id) + Once(pq_enqueue' /\ pq_enq_id' = id)
        /\ InSleep(id)' + Once(sq_wake_valid /\ sq_wake_id = id)
             = InSleep(id) + Once(sq_enqueue' /\ sq_enq_id' = id)
    BY <1>1, <1>3, <2>1, <2>4, PathsMove
  <2>6. CASE Passive
    <3>1. /\ sq_wake_valid =>
                  /\ tt_wr'.en /\ tt_wr'.id = sq_wake_id /\ tt_wr'.task.status = CU!Ready
                  /\ Status(sq_wake_id) = CU!Sleeping
          /\ ~sq_wake_valid /\ tt_wr'.en =>
                  /\ tt_wr'.task.status = CU!Running /\ Status(tt_wr'.id) = CU!Running
      BY <2>6, OtherWrites DEF Passive
    <3>2. /\ pq_enqueue' <=> sq_wake_valid
          /\ sq_wake_valid => pq_enq_id' = sq_wake_id
          /\ ~sq_enqueue' /\ ~pq_dequeue'
      BY <2>6 DEF Passive
    <3>3. CASE sq_wake_valid /\ sq_wake_id = id
      BY <2>2, <2>3, <2>5, <3>1, <3>2, <3>3
         DEF Once, CU!Deleted, CU!Ready, CU!Running, CU!Sleeping
    <3>4. CASE ~(sq_wake_valid /\ sq_wake_id = id)
      <4>1. Status(id)' = Status(id)
        BY <2>2, <3>1, <3>4
      <4>2. InReady(id)' = InReady(id) /\ InSleep(id)' = InSleep(id)
        BY <2>5, <3>2, <3>4 DEF Once
      <4> QED  BY <2>3, <4>1, <4>2
    <3> QED  BY <3>3, <3>4
  <2>7. ASSUME NEW k \in ID, NEW s, MovesOut(Used, k, s)
        PROVE  /\ InReady(id)' = Once(Status(id)' = CU!Ready)
               /\ InSleep(id)' = Once(Status(id)' = CU!Sleeping)
               /\ Status(id)' # CU!Deleted => id \in Used
    <3>1. Taken /\ Moves(k, s)
      BY <2>7 DEF MovesOut
    <3>2. ~sq_wake_valid
      BY <3>1, AtRest DEF Taken
    <3>3. pq_dequeue' => cell'[0].id = k
      <4>1. pq_dequeue' => current_task' = k
        BY <2>7, <3>1 DEF MovesOut, Moves
      <4> QED  BY <1>1, <4>1 DEF DequeuesDispatched
    <3>4. CASE k = id
      <4>1. Status(id)' = s
        BY <2>2, <3>1, <3>4 DEF Moves
      <4>2. /\ InReady(id)' + Once(s = CU!Running) = InReady(id) + Once(s = CU!Ready)
            /\ InSleep(id)' = InSleep(id) + Once(s = CU!Sleeping)
        BY <2>5, <3>1, <3>2, <3>3, <3>4 DEF Moves, Once
      <4>3. /\ IF s = CU!Running THEN Status(id) = CU!Ready
                                  ELSE Status(id) \notin {CU!Ready, CU!Sleeping}
            /\ s # CU!Deleted => id \in Used
        BY <2>7, <3>4, ArrowsSay DEF MovesOut
      <4> QED  BY <2>3, <2>5, <4>1, <4>2, <4>3 DEF Once, CU!Ready, CU!Running, CU!Sleeping
    <3>5. CASE k # id
      <4>1. Status(id)' = Status(id)
        BY <2>2, <3>1, <3>5 DEF Moves
      <4>2. InReady(id)' = InReady(id) /\ InSleep(id)' = InSleep(id)
        BY <2>5, <3>1, <3>2, <3>3, <3>5 DEF Moves, Once
      <4> QED  BY <2>3, <4>1, <4>2
    <3> QED  BY <3>4, <3>5
  <2>8. ~Flushes
    BY DEF Flushes
  <2> QED  BY <2>6, <2>7, <2>8, StepKinds
<1> QED  BY <1>2, <1>3

LEMMA FlushingKept ==
    ASSUME HostGap >= SQ_DEPTH + 5, NEW Used, StatusInv(Used), Next
    PROVE  Flushing'
<1> USE DEF StatusInv
<1>1. /\ Timer!Step /\ SQ!Step /\ CU!Operation
      /\ tick_pulse_r' = tick_pulse /\ pq_enqueue_r' = pq_enqueue
  BY Wires
<1>2. CASE Flushes /\ Taken
  <2>1. /\ cmd_valid /\ CU!NoTaskWrite /\ (pq_enqueue' <=> sq_wake_valid)
        /\ ~sq_enqueue' /\ ~pq_dequeue' /\ pq_flush' /\ sq_flush' /\ tt_clear_all'
        /\ ~timer_enable' /\ ~pending_word2'
    BY <1>2 DEF Flushes, CU!Resets
  <2>2. /\ ~timer_enable /\ ~tick_pulse /\ ~tick_pulse_r /\ ~sq_enqueue
        /\ ~sq_wake_valid /\ ~pq_enqueue
        /\ ~(0 \in SQ!Slots /\ valid_mem[0] /\ cnt_mem[0] = 0)
    BY <1>2, AtRest DEF Taken
  <2>3. Elapsed' <= 3
    <3>1. Elapsed' = 3
      BY <2>1, ClockOfWords
    <3> HIDE DEF Elapsed
    <3> QED  BY <3>1
  <2>4. ~tick_pulse'
    BY <1>1, <2>2 DEF Timer!Step, Timer!Stopped, Timer!Pulse, Timer!Count
  <2>5. ~tt_wr'.en
    BY <2>1, <2>2 DEF CU!NoTaskWrite, CU!TickDecrements, CU!NoWrite
  <2>6. ~sq_wake_valid'
    <3>1. SQP!IInv
      BY DEF CarefulTasks, DrainInv, BlocksOK
    <3> QED  BY <1>1, <2>2, <3>1, ExpiredMoveOn
  <2> QED  BY <1>1, <2>1, <2>2, <2>3, <2>4, <2>5, <2>6 DEF Flushing
<1>3. CASE Passive
  BY <1>3 DEF Passive, Flushing
<1>4. ASSUME NEW id \in ID, NEW s, MovesOut(Used, id, s)
      PROVE  Flushing'
  <2>1. Taken /\ Moves(id, s)
    BY <1>4 DEF MovesOut
  <2>2. ~pq_enqueue
    BY <2>1, AtRest DEF Taken
  <2> QED  BY <1>1, <2>1, <2>2 DEF Moves, Flushing
<1> QED  BY <1>2, <1>3, <1>4, StepKinds

(* What is awaited: the command that came with the last first word. *)
LEMMA Awaited ==
    ASSUME HostGap >= SQ_DEPTH + 5, NEW Used, StatusInv(Used), Next, pending_word2'
    PROVE  \/ /\ cmd_valid /\ cmd_word.op \in CU!TwoWordOps /\ TouchesTask(cmd_word)
              /\ pending_word1' = cmd_word /\ timer_enable' = timer_enable
           \/ /\ ~cmd_valid /\ ~cmd_word2_valid /\ pending_word2
              /\ pending_word1' = pending_word1 /\ timer_enable' = timer_enable
<1> USE DEF StatusInv
<1>1. CU!Operation /\ pending_word2 \in BOOLEAN /\ (cmd_valid => ~pending_word2)
  BY Wires DEF CarefulTasks, Handshake
<1>2. CASE cmd_valid
  <2>1. cmd_word.op \in CU!TwoWordOps
    BY <1>1, <1>2, PendingMoves
  <2>2. CU!FirstWord
    BY <1>1, <1>2, <2>1, WordDecides
  <2> QED  BY <1>2, <2>1, <2>2 DEF CU!FirstWord, CU!KeepSettings, CU!TwoWordOps, TouchesTask
<1>3. CASE ~cmd_valid
  <2>1. pending_word2 /\ ~cmd_word2_valid
    BY <1>1, <1>3, PendingMoves
  <2>2. CU!Idle
    BY <1>1, <1>3, <2>1, WordDecides
  <2> QED  BY <1>3, <2>1, <2>2 DEF CU!Idle, CU!KeepSettings, CU!KeepPending
<1> QED  BY <1>2, <1>3

LEMMA HaltedKept ==
    ASSUME HostGap >= SQ_DEPTH + 5, NEW Used, StatusInv(Used), Next
    PROVE  Halted'
<1> USE DEF StatusInv
<1> SUFFICES ASSUME pending_word2'
             PROVE  /\ pending_word1'.op \in CU!TwoWordOps
                    /\ ~timer_enable' /\ ~tick_pulse' /\ ~tick_pulse_r'
  BY DEF Halted, CU!TwoWordOps
<1>1. ~timer_enable /\ ~tick_pulse
  BY Awaited, AtRest DEF Halted
<1>2. ~tick_pulse' /\ ~tick_pulse_r'
  <2>1. Timer!Step /\ tick_pulse_r' = tick_pulse
    BY Wires
  <2> QED  BY <1>1, <2>1 DEF Timer!Step, Timer!Stopped, Timer!Pulse, Timer!Count
<1> QED  BY <1>1, <1>2, Awaited DEF Halted

LEMMA WriteKindKept ==
    ASSUME HostGap >= SQ_DEPTH + 5, NEW Used, StatusInv(Used), Next
    PROVE  WriteKind'
<1> USE DEF StatusInv
<1>1. /\ Timer!Step /\ CU!CommitTable /\ tick_pulse_r' = tick_pulse /\ BlocksOK
  BY Wires DEF CarefulTasks, DrainInv
<1>2. CASE Taken
  <2>1. /\ ~timer_enable /\ ~tick_pulse /\ ~tick_pulse_r /\ ~sq_wake_valid
        /\ cmd_valid \/ cmd_word2_valid
    BY <1>2, AtRest DEF Taken
  <2>2. Elapsed' = 3 /\ ~tick_pulse' /\ ~tick_pulse_r'
    <3>1. Elapsed' = 3
      BY <2>1, ClockOfWords
    <3> QED  BY <1>1, <2>1, <3>1 DEF Timer!Step, Timer!Stopped, Timer!Pulse, Timer!Count
  <2>3. CU!NoTaskWrite => ~tt_wr'.en
    BY <2>1 DEF CU!NoTaskWrite, CU!TickDecrements, CU!NoWrite
  <2>4. ASSUME NEW id \in ID, NEW s, MovesOut(Used, id, s)
        PROVE  ~timer_enable' /\ ~pending_word2'
    BY <2>1, <2>4 DEF MovesOut, Moves
  <2>5. ~tt_wr'.en \/ (~timer_enable' /\ ~pending_word2')
    BY <2>3, <2>4, StepKinds DEF Passive, Flushes
  <2> HIDE DEF Elapsed
  <2> QED  BY <2>2, <2>5 DEF WriteKind
<1>3. CASE ~Taken
  <2>1. CU!NoTaskWrite
    BY <1>3, StepKinds DEF Passive, MovesOut
  <2>2. ASSUME tt_wr'.en
        PROVE  /\ ~tt_clear_all
               /\ \/ Status(tt_wr'.id) = CU!Sleeping /\ tt_wr'.task.status = CU!Ready
                  \/ Status(tt_wr'.id) = CU!Running /\ tt_wr'.task.status = CU!Running
               /\ tt_wr'.id \in ID
    BY <2>1, <2>2, OtherWrites DEF Flushing
  <2>3. tt_wr'.en => table'[tt_wr'.id].status = Status(tt_wr'.id)
    BY <1>1, <2>2, StatusStep
  <2> HIDE DEF Elapsed
  <2> QED  BY <2>2, <2>3 DEF WriteKind, CU!Sleeping, CU!Ready, CU!Running
<1> QED  BY <1>2, <1>3

LEMMA SettledKept ==
    ASSUME HostGap >= SQ_DEPTH + 5, NEW Used, StatusInv(Used), Next
    PROVE  WriteSettled'
<1> USE DEF StatusInv
<1> SUFFICES ASSUME ~timer_enable', Elapsed' >= SQ_DEPTH + 7
             PROVE  ~tt_wr'.en
  BY DEF WriteSettled
<1>1. /\ Elapsed \in Nat /\ SQ_DEPTH \in Nat \ {0} /\ HostGap \in Nat
      /\ cmd_valid \/ cmd_word2_valid => Elapsed = HostGap + 3 /\ Elapsed' = 3
      /\ ~cmd_valid /\ ~cmd_word2_valid =>
             Elapsed' = Elapsed + 1 \/ (Elapsed' = Elapsed /\ Elapsed = HostGap)
  BY ClockOfWords
<1> HIDE DEF Elapsed
<1>2. ~cmd_valid /\ ~cmd_word2_valid /\ Elapsed >= SQ_DEPTH + 6
  BY <1>1
<1>3. CU!Idle
  BY <1>2, Wires, WordDecides
<1>4. ~timer_enable /\ CU!NoTaskWrite
  BY <1>3 DEF CU!Idle, CU!KeepSettings
<1>5. ~sq_wake_valid /\ ~tick_pulse_r
  <2>1. Elapsed >= 5
    BY <1>1, <1>2
  <2> QED  BY <1>2, <1>4, <2>1 DEF CarefulTasks, DrainInv, Drained
<1> QED  BY <1>4, <1>5 DEF CU!NoTaskWrite, CU!TickDecrements, CU!NoWrite

(* What suits a task suits it after a wake and a tick: nothing suits a task *)
(* that sleeps but what suits every task.                                  *)
LEMMA SuitsKept ==
    ASSUME NEW Used, StatusInv(Used), Next, ~pq_flush, Elapsed # 3 \/ pending_word2,
           NEW w, Suits(w), w.id \in ID
    PROVE  Allows(table'[w.id].status, w)
<1> USE DEF StatusInv
<1>1. CU!CommitTable /\ BlocksOK
  BY Wires DEF CarefulTasks, DrainInv
<1>2. table \in [ID -> CUP!Task]
  BY <1>1 DEF BlocksOK, CUP!TypeOK, CUP!RegsOK
<1>3. table' = IF tt_wr.en THEN [table EXCEPT ![tt_wr.id] = tt_wr.task] ELSE table
  BY <1>1 DEF CU!CommitTable, Flushing
<1>4. \/ table'[w.id].status = table[w.id].status
      \/ table[w.id].status = CU!Sleeping
  <2>1. tt_wr.en => \/ table[tt_wr.id].status = CU!Sleeping
                    \/ table[tt_wr.id].status = tt_wr.task.status
    <3> HIDE DEF Elapsed
    <3> QED  BY DEF WriteKind
  <2> QED  BY <1>2, <1>3, <2>1
<1>5. CASE table'[w.id].status = table[w.id].status
  BY <1>5 DEF Suits
<1>6. CASE table[w.id].status = CU!Sleeping
  BY <1>6, AllowsMeans DEF Suits, CU!Sleeping, CU!Suspended, CU!Deleted, CU!Running
<1> QED  BY <1>4, <1>5, <1>6

LEMMA WordTypes ==
    ASSUME BlocksOK, beat.addr = "CMD_W1" => beat \in Beats
    PROVE  /\ cmd_word.id \in ID /\ pending_word1.id \in ID
           /\ beat.addr = "CMD_W1" => beat.data.id \in ID
<1>1. \A w \in CUP!Word1 : w.id \in ID
  BY DEF CUP!Word1
<1>2. cmd_word \in CUP!Word1 /\ pending_word1 \in CUP!Word1
  BY DEF BlocksOK, CUP!TypeOK, CUP!InputsOK, CUP!RegsOK
<1>3. \A w \in CU!Word1 : w.id \in ID
  BY DEF CU!Word1
<1>4. \A b \in Beats : b.addr = "CMD_W1" => b.data \in CU!Word1
  BY DEF Beats
<1> QED  BY <1>1, <1>2, <1>3, <1>4

LEMMA SuitedKept ==
    ASSUME Careful, HostGap >= SQ_DEPTH + 5, NEW Used, StatusInv(Used), Next
    PROVE  Suited'
<1> USE DEF StatusInv
<1>1. Host /\ Slave!Step /\ ChannelInv /\ OnItsWay /\ BlocksOK
  BY Wires DEF CarefulTasks, DrainInv, CarefulInv
<1>2. /\ cmd_word.id \in ID /\ pending_word1.id \in ID
      /\ beat.addr = "CMD_W1" => beat.data.id \in ID
  <2>1. beat.addr = "CMD_W1" => beat \in Beats
    BY <1>1, BeatAddresses DEF ChannelInv, HostOK
  <2> QED  BY <1>1, <2>1, WordTypes
<1>3. /\ arm_cmd_valid' = (beat.addr = "CMD_W1") /\ cmd_valid' = arm_cmd_valid
      /\ cmd_word' = IF beat.addr = "CMD_W1" THEN beat.data ELSE cmd_word
      /\ beat.addr = "none" <=> beat = NoBeat
  BY <1>1, SlavePipeline
<1>4. /\ HostGap \in Nat /\ HostGap >= 6 /\ Elapsed \in Nat
      /\ UnderWay => Elapsed = HostGap + 1 + gap
      /\ ~UnderWay => Elapsed = gap
      /\ gap \in Nat
  BY <1>1, DepthAssumption, HostAssumption DEF Elapsed, OnItsWay
<1>5. Elapsed > 3 => ~pq_flush
  <2> HIDE DEF Elapsed
  <2> QED  BY <1>4 DEF Flushing
<1>6. UnderWay => Elapsed > 3
  BY <1>4
<1>7. ASSUME beat'.addr = "CMD_W1"
      PROVE  Allows(table'[beat'.data.id].status, beat'.data)
  <2>1. beat' # NoBeat
    BY <1>7, BeatAddresses
  <2>2. gap = HostGap /\ beat = NoBeat /\ MaySend(beat')
    BY <1>1, <2>1 DEF Host, Continue, Request, Wait, Send
  <2>3. beat' \in Beats
    BY <1>1, <2>1, HostKeeps DEF ChannelInv, HostOK
  <2>4. Suits(beat'.data) /\ beat'.data.id \in ID
    BY <1>7, <2>2, <2>3 DEF MaySend, Beats, CU!Word1
  <2>5. ~UnderWay
    BY <1>1, <1>4, <2>2 DEF UnderWay, OnItsWay
  <2>6. Elapsed > 3 /\ Elapsed # 3
    BY <1>4, <2>2, <2>5
  <2> HIDE DEF Elapsed
  <2> QED  BY <1>5, <2>4, <2>6, SuitsKept
<1>8. ASSUME arm_cmd_valid' \/ cmd_valid'
      PROVE  Allows(table'[cmd_word'.id].status, cmd_word')
  <2>1. UnderWay
    BY <1>3, <1>8 DEF UnderWay
  <2>2. Elapsed # 3 /\ ~pq_flush
    BY <1>4, <1>5, <1>6, <2>1
  <2>3. Suits(cmd_word') /\ cmd_word'.id \in ID
    BY <1>2, <1>3, <1>8 DEF Suited
  <2> HIDE DEF Elapsed
  <2> QED  BY <2>2, <2>3, SuitsKept
<1>9. ASSUME pending_word2'
      PROVE  Allows(table'[pending_word1'.id].status, pending_word1')
  <2>1. CASE cmd_valid /\ pending_word1' = cmd_word
    <3>1. UnderWay
      BY <2>1 DEF UnderWay
    <3>2. Elapsed # 3 /\ ~pq_flush
      BY <1>4, <1>5, <1>6, <3>1
    <3>3. Suits(cmd_word)
      BY <2>1 DEF Suited
    <3> HIDE DEF Elapsed
    <3> QED  BY <1>2, <2>1, <3>2, <3>3, SuitsKept
  <2>2. CASE pending_word2 /\ pending_word1' = pending_word1
    <3>1. ~pq_flush /\ Suits(pending_word1)
      BY <2>2 DEF Flushing, Suited
    <3> HIDE DEF Elapsed
    <3> QED  BY <1>2, <2>2, <3>1, SuitsKept
  <2> QED  BY <1>9, <2>1, <2>2, Awaited
<1> QED  BY <1>7, <1>8, <1>9 DEF Suited, Suits

LEMMA WordsUseKept ==
    ASSUME HostGap >= SQ_DEPTH + 5, NEW Used, FewTasks(Used), StatusInv(Used), Next
    PROVE  WordsUse(Used)'
<1> USE DEF StatusInv
<1> DEFINE Fine(b) == b.addr = "CMD_W1" => Creates(b.data, Used)
           AllFine(q) == \A n \in 1 .. Len(q) : Fine(q[n])
<1>1. Host /\ Slave!Step /\ ChannelInv
  BY Wires DEF CarefulTasks, DrainInv, CarefulInv
<1>2. \A q \in Seq(Beats) : q # <<>> /\ AllFine(q) => Fine(Head(q)) /\ AllFine(Tail(q))
  <2> SUFFICES ASSUME NEW q \in Seq(Beats), q # <<>>, AllFine(q)
               PROVE  Fine(Head(q)) /\ AllFine(Tail(q))
    OBVIOUS
  <2>1. /\ Len(q) \in Nat \ {0} /\ Head(q) = q[1]
        /\ Len(Tail(q)) = Len(q) - 1 /\ \A n \in 1 .. Len(q) - 1 : Tail(q)[n] = q[n + 1]
    OBVIOUS
  <2>2. \A n \in 1 .. Len(Tail(q)) : n + 1 \in 1 .. Len(q) /\ Tail(q)[n] = q[n + 1]
    BY <2>1
  <2>3. 1 \in 1 .. Len(q)
    BY <2>1
  <2> HIDE DEF Fine
  <2> QED  BY <2>1, <2>2, <2>3
<1>3. AllFine(todo) /\ todo \in Seq(Beats)
  BY <1>1 DEF WordsUse, ChannelInv, HostOK
<1>4. \A r \in Requests : AllFine(r) /\ r \in Seq(Beats) /\ r # <<>>
  BY BeatsAssumption DEF FewTasks
<1>5. Fine(NoBeat)
  BY BeatAddresses
<1>6. AllFine(todo') /\ Fine(beat')
  <2> HIDE DEF Fine, AllFine
  <2>1. CASE Continue
    BY <1>2, <1>3, <2>1 DEF Continue, Send
  <2>2. CASE Request
    BY <1>2, <1>4, <2>2 DEF Request, Send
  <2>3. CASE Wait
    BY <1>3, <1>5, <2>3 DEF Wait
  <2> QED  BY <1>1, <2>1, <2>2, <2>3 DEF Host
<1>7. arm_cmd_valid' \/ cmd_valid' => Creates(cmd_word', Used)
  <2>1. /\ arm_cmd_valid' = (beat.addr = "CMD_W1") /\ cmd_valid' = arm_cmd_valid
        /\ cmd_word' = IF beat.addr = "CMD_W1" THEN beat.data ELSE cmd_word
    BY <1>1, SlavePipeline
  <2> HIDE DEF Creates
  <2> QED  BY <2>1 DEF WordsUse
<1>8. pending_word2' => Creates(pending_word1', Used)
  BY Awaited DEF WordsUse
<1> QED  BY <1>6, <1>7, <1>8 DEF WordsUse, Creates

(* From the acknowledged RESET to the next answer everything is at rest. *)
AtRestForGood ==
    /\ AllEmpty /\ ~pq_dequeue /\ ~sq_flush /\ ~tt_clear_all
    /\ ~timer_enable /\ ~tick_pulse /\ ~tick_pulse_r /\ ~tt_wr.en
    /\ \A id \in ID : table[id] = CU!Blank
AfterReset == rsp_word = <<"ack", "RESET">> /\ ~pq_flush => AtRestForGood

LEMMA AnswersReset ==
    ASSUME CU!Operation, rsp_word' = <<"ack", "RESET">>
    PROVE  CU!Reset \/ ((CU!Idle \/ CU!FirstWord) /\ rsp_word' = rsp_word)
<1> USE DEF CU!Ack, CU!Answer, CU!Command
<1>1. CASE CU!Idle \/ CU!FirstWord
  BY <1>1 DEF CU!Idle, CU!FirstWord
<1>2. ~CU!Inform
  BY DEF CU!Inform
<1>3. ~CU!Configure /\ ~CU!RunOrStop
  BY DEF CU!Configure, CU!RunOrStop
<1>4. ~CU!Create /\ ~CU!Modify /\ ~CU!LongSleep
  BY DEF CU!Create, CU!Modify, CU!LongSleep, CU!SecondWord
<1>5. ~CU!ShortSleep /\ ~CU!Yield /\ ~CU!YieldAperiodic
  BY DEF CU!ShortSleep, CU!Yield, CU!YieldAperiodic
<1>6. ~CU!Retire /\ ~CU!Resume /\ ~CU!Activate
  BY DEF CU!Retire, CU!Resume, CU!Activate
<1>7. ~CU!ActivateEmpty /\ ~CU!ResetRefused
  BY DEF CU!ActivateEmpty, CU!ResetRefused
<1> QED  BY <1>1, <1>2, <1>3, <1>4, <1>5, <1>6, <1>7 DEF CU!Operation

LEMMA AfterResetKept ==
    ASSUME HostGap >= SQ_DEPTH + 5, NEW Used, StatusInv(Used), AfterReset, Next
    PROVE  AfterReset'
<1> USE DEF StatusInv
<1> SUFFICES ASSUME rsp_word' = <<"ack", "RESET">>, ~pq_flush'
             PROVE  AtRestForGood'
  BY DEF AfterReset
<1>1. /\ Timer!Step /\ PQ!Step /\ SQ!Step /\ CU!Operation /\ CU!CommitTable
      /\ tick_pulse_r' = tick_pulse /\ pq_enqueue_r' = pq_enqueue
  BY Wires
<1>2. CU!Idle \/ CU!FirstWord
  BY <1>1, AnswersReset DEF CU!Reset, CU!FlushAll
<1>3. rsp_word' = rsp_word
  BY <1>2 DEF CU!Idle, CU!FirstWord
<1>4. /\ CU!NoTaskWrite /\ (pq_enqueue' <=> sq_wake_valid) /\ ~sq_enqueue' /\ ~pq_dequeue'
      /\ ~sq_flush' /\ ~tt_clear_all' /\ timer_enable' = timer_enable
  BY <1>2 DEF CU!Idle, CU!FirstWord, CU!QueuesIdle, CU!NoReady, CU!NoSleep, CU!NoDequeue,
              CU!NoFlush, CU!KeepSettings
<1>5. ASSUME ~timer_enable, ~tick_pulse
      PROVE  ~timer_enable' /\ ~tick_pulse' /\ ~tick_pulse_r'
  BY <1>1, <1>4, <1>5 DEF Timer!Step, Timer!Stopped, Timer!Pulse, Timer!Count
<1>6. CASE pq_flush
  <2>1. AllEmpty' /\ ~tt_wr'.en /\ \A id \in ID : table'[id] = CU!Blank
    BY <1>6, FlushEmpties
  <2>2. ~timer_enable /\ ~tick_pulse
    BY <1>6 DEF Flushing
  <2> QED  BY <1>4, <1>5, <2>1, <2>2 DEF AtRestForGood
<1>7. CASE ~pq_flush
  <2>1. AtRestForGood
    BY <1>3, <1>7 DEF AfterReset
  <2>2. /\ ~sq_wake_valid /\ ~tick_pulse_r /\ ~tt_wr.en /\ ~tt_clear_all /\ ~sq_flush
        /\ ~pq_enqueue /\ ~pq_enqueue_r /\ ~pq_dequeue /\ ~sq_enqueue
        /\ \A i \in PQ!Cells : ~cell[i].valid
        /\ \A i \in SQ!Slots : ~valid_mem[i]
    BY <2>1 DEF AtRestForGood, AllEmpty
  <2>3. cell' = cell
    BY <1>1, <1>7, <2>2 DEF PQ!Step, PQ!FlushAll, PQ!Hold, PQ!Enqueue, PQ!Dequeue,
                            PQ!DequeueAndEnqueue, PQ!enq_valid, PQ!deq_valid
  <2>4. valid_mem' = valid_mem /\ ~sq_wake_valid'
    <3>1. ~SQ!HeadExpired
      <4>1. 0 \in SQ!Slots
        BY DepthAssumption DEF SQ!Slots
      <4> QED  BY <2>2, <4>1 DEF SQ!HeadExpired
    <3>2. SQ!Advance
      BY <1>1, <2>2 DEF SQ!Step, SQ!FlushAll, SQ!AdvanceAndInsert
    <3> QED  BY <3>1, <3>2 DEF SQ!Advance, SQ!ValidLeft, SQ!AfterWake
  <2>5. table' = table /\ ~tt_wr'.en
    BY <1>1, <1>4, <2>2 DEF CU!CommitTable, CU!NoTaskWrite, CU!TickDecrements, CU!NoWrite
  <2>6. AllEmpty'
    BY <1>1, <1>4, <2>2, <2>3, <2>4 DEF AllEmpty, PQ!Cells, SQ!Slots
  <2> QED  BY <1>4, <1>5, <2>1, <2>5, <2>6 DEF AtRestForGood
<1> QED  BY <1>6, <1>7

TasksInv(Used) == StatusInv(Used) /\ AfterReset

LEMMA InitTasks ==
    ASSUME NEW Used, FewTasks(Used), Init
    PROVE  /\ Flushing /\ Halted /\ WriteKind /\ WriteSettled
           /\ Suited /\ WordsUse(Used) /\ Agrees(Used) /\ AfterReset
<1>1. Elapsed = 0
  BY DEF Init, Slave!PowerOn, Elapsed, UnderWay
<1> HIDE DEF Elapsed
<1>2. Flushing
  BY <1>1 DEF Init, CU!PowerOn, SQ!Empty, Timer!PowerOn, CU!NoWrite, Flushing
<1>3. Halted /\ WriteKind /\ WriteSettled
  BY DEF Init, CU!PowerOn, CU!NoWrite, Halted, WriteKind, WriteSettled
<1>4. Suited
  BY BeatAddresses DEF Init, CU!PowerOn, Slave!PowerOn, Suited
<1>5. WordsUse(Used)
  <2>1. \A n \in 1 .. Len(Boot) : Boot[n].addr = "CMD_W1" => Creates(Boot[n].data, Used)
    BY DEF FewTasks
  <2> HIDE DEF Creates
  <2> QED  BY <2>1, BeatAddresses DEF Init, CU!PowerOn, Slave!PowerOn, WordsUse
<1>6. Agrees(Used) /\ AfterReset
  BY DEF Init, CU!PowerOn, Agrees, AfterReset
<1> QED  BY <1>2, <1>3, <1>4, <1>5, <1>6

LEMMA TasksStutter ==
    ASSUME NEW Used, TasksInv(Used), UNCHANGED vars
    PROVE  /\ Flushing' /\ Halted' /\ WriteKind' /\ WriteSettled'
           /\ Suited' /\ WordsUse(Used)' /\ Agrees(Used)' /\ AfterReset'
<1>1. UNCHANGED <<host, slave, timer, irqs, pq, sq, ctrl>>
  BY DEF vars
<1> USE <1>1 DEF TasksInv, StatusInv, host, slave, timer, irqs, pq, sq, ctrl
<1>2. Elapsed' = Elapsed
  BY DEF Elapsed, UnderWay
<1> HIDE DEF Elapsed
<1>3. Flushing' /\ Halted' /\ WriteKind' /\ WriteSettled'
  BY <1>2 DEF Flushing, Halted, WriteKind, WriteSettled
<1>4. Suited' /\ WordsUse(Used)'
  BY DEF Suited, Suits, Allows, WordsUse, Creates
<1>5. Agrees(Used)'
  <2>1. \A id \in ID : InReady(id)' = InReady(id)
    BY DEF InReady
  <2>2. \A id \in ID : InSleep(id)' = InSleep(id)
    BY DEF InSleep
  <2>3. \A id \in ID : Status(id)' = Status(id)
    BY DEF Status
  <2> HIDE DEF InReady, InSleep, Status
  <2> QED  BY <2>1, <2>2, <2>3 DEF Agrees
<1>6. AfterReset'
  BY DEF AfterReset, AtRestForGood, AllEmpty
<1> QED  BY <1>3, <1>4, <1>5, <1>6

LEMMA TasksAlways ==
    ASSUME Careful, HostGap >= SQ_DEPTH + 5, WholeCommands, NEW Used, FewTasks(Used)
    PROVE  Spec => []TasksInv(Used)
<1> DEFINE Rest == /\ Flushing /\ Halted /\ WriteKind /\ WriteSettled
                   /\ Suited /\ WordsUse(Used) /\ Agrees(Used) /\ AfterReset
<1>1. Spec => []CarefulTasks
  BY DrainAlways, HandshakeAlways, PTL DEF CarefulTasks
<1>2. Init => Rest
  BY InitTasks
<1>3. CarefulTasks /\ CarefulTasks' /\ Rest /\ [Next]_vars => Rest'
  <2> SUFFICES ASSUME CarefulTasks, CarefulTasks', Rest, [Next]_vars
               PROVE  Rest'
    OBVIOUS
  <2>1. StatusInv(Used) /\ TasksInv(Used)
    BY DEF StatusInv, TasksInv
  <2>2. CASE Next
    <3>1. Flushing' /\ Halted' /\ WriteKind' /\ WriteSettled'
      BY <2>1, <2>2, FlushingKept, HaltedKept, WriteKindKept, SettledKept
    <3>2. Suited' /\ WordsUse(Used)' /\ Agrees(Used)' /\ AfterReset'
      BY <2>1, <2>2, SuitedKept, WordsUseKept, AgreesKept, AfterResetKept
    <3> QED  BY <3>1, <3>2
  <2>3. CASE UNCHANGED vars
    BY <2>1, <2>3, TasksStutter
  <2> QED  BY <2>2, <2>3
<1>4. CarefulTasks /\ Rest => TasksInv(Used)
  BY DEF StatusInv, TasksInv
<1> HIDE DEF Rest
<1> QED  BY <1>1, <1>2, <1>3, <1>4, PTL DEF Spec

(* For such a host, whatever it asks for and however many tasks and places  *)
(* there are, a task is in the ready path exactly once if it is ready, in   *)
(* the sleep path exactly once if it sleeps, and in no queue otherwise: no  *)
(* operation, wake, tick or flush, and no register between them, loses or   *)
(* doubles one.                                                             *)
THEOREM StatusAgrees ==
    ASSUME Careful, HostGap >= SQ_DEPTH + 5, WholeCommands, NEW Used, FewTasks(Used)
    PROVE  Spec => []StatusMatchesQueues
<1>1. TasksInv(Used) => StatusMatchesQueues
  BY DEF TasksInv, StatusInv, Agrees, StatusMatchesQueues
<1> QED  BY <1>1, TasksAlways, PTL

(* And its RESET leaves the table clear and nothing in a queue or on its   *)
(* way to one, until the next command is answered.                          *)
THEOREM ResetEmpties ==
    ASSUME Careful, HostGap >= SQ_DEPTH + 5, WholeCommands, NEW Used, FewTasks(Used)
    PROVE  Spec => []ResetLeavesNothing
<1>1. AllEmpty => NoneHeld
  BY EmptyPaths
<1>2. TasksInv(Used) => ResetLeavesNothing
  BY <1>1 DEF TasksInv, AfterReset, AtRestForGood, NoneHeld, ResetLeavesNothing
<1> QED  BY <1>2, TasksAlways, PTL
-----------------------------------------------------------------------------
(* The refinement of TaskScheduler, step by step.  Its mapping is named     *)
(* here: the status of each task, and the ticks it still has to sleep.     *)
StatusOf == [id \in ID |-> IF tt_clear_all THEN CU!Deleted ELSE Status(id)]
LeftOf   == [id \in ID |-> IF sq_flush THEN 0 ELSE TicksLeft(id)]

(* With one entry at most for id, TicksLeft is what the entry counts.      *)
Requested(id) == sq_enqueue /\ sq_enq_id = id
LeftOK ==
    \A id \in ID : SQP!Held(id) <= 1 =>
        /\ TicksLeft(id) \in SQP!Counts
        /\ Requested(id) => TicksLeft(id) = sq_enq_counter
        /\ ~Requested(id) =>
              IF \E n \in SQP!Counts : SQP!SleepsFor(id, n)
              THEN \A n : SQP!SleepsFor(id, n) => TicksLeft(id) = n
              ELSE TicksLeft(id) = 0

LEMMA LeftMeans == BlocksOK => LeftOK
<1> SUFFICES ASSUME BlocksOK, NEW id \in ID, SQP!Held(id) <= 1
             PROVE  /\ TicksLeft(id) \in SQP!Counts
                    /\ Requested(id) => TicksLeft(id) = sq_enq_counter
                    /\ ~Requested(id) =>
                          IF \E n \in SQP!Counts : SQP!SleepsFor(id, n)
                          THEN \A n : SQP!SleepsFor(id, n) => TicksLeft(id) = n
                          ELSE TicksLeft(id) = 0
  BY DEF LeftOK
<1>1. /\ SQP!IInv /\ sq_enq_counter \in SQP!Counts /\ 0 \in SQP!Counts
      /\ \A i \in SQ!Slots : cnt_mem[i] \in SQP!Counts
  BY BlockParameters
     DEF BlocksOK, SQP!IInv, SQP!TypeOK, SQP!InputsOK, SQP!RegsOK, SQP!Slots, SQ!Slots,
         SQP!Counts
<1>2. \A n : n \in Counted(id) <=> SQP!SleepsFor(id, n)
  BY DEF Counted, SQP!SleepsFor, SQP!Slots, SQ!Slots
<1>3. \A n : SQP!SleepsFor(id, n) => n \in SQP!Counts
  BY <1>1 DEF SQP!SleepsFor, SQP!Slots, SQ!Slots
<1>4. ASSUME NEW n, NEW m, SQP!SleepsFor(id, n), SQP!SleepsFor(id, m)
      PROVE  n = m
  BY ONLY <1>1, <1>4, BlockParameters, SQP!OneNumber, id \in ID, SQP!Held(id) <= 1
<1>5. CASE Requested(id)
  BY <1>1, <1>5 DEF Requested, TicksLeft
<1>6. CASE ~Requested(id) /\ Counted(id) = {}
  BY <1>1, <1>2, <1>6 DEF Requested, TicksLeft
<1>7. CASE ~Requested(id) /\ Counted(id) # {}
  <2>1. TicksLeft(id) \in Counted(id)
    BY <1>7 DEF Requested, TicksLeft
  <2> QED  BY <1>2, <1>3, <1>4, <1>7, <2>1
<1> QED  BY <1>5, <1>6, <1>7

LEMMA LeftMeansAfter == BlocksOK' => LeftOK'
BY LeftMeans, PTL

(* Whoever is in the sleep path is there once. *)
LEMMA SleepsOnce ==
    ASSUME NEW Used, StatusInv(Used), ~pq_flush, NEW id \in ID
    PROVE  /\ SQP!Held(id) \in Nat
           /\ SQP!Held(id) + Once(Requested(id)) + Once(sq_wake_valid /\ sq_wake_id = id) <= 1
           /\ Status(id) # CU!Sleeping => SQP!Held(id) = 0 /\ ~Requested(id)
<1>1. /\ SQP!Held(id) \in Nat
      /\ InSleep(id) = SQP!Held(id) + Once(Requested(id))
                       + Once(sq_wake_valid /\ sq_wake_id = id)
      /\ InSleep(id) = Once(Status(id) = CU!Sleeping)
  BY PartsOfPaths DEF StatusInv, CarefulTasks, DrainInv, SleepParts, Agrees, Requested
<1> QED  BY <1>1 DEF Once

(* A request to sleep comes with the timer stopped. *)
Unticked == sq_enqueue => ~tick_pulse_r

LEMMA UntickedKept ==
    ASSUME HostGap >= SQ_DEPTH + 5, NEW Used, StatusInv(Used), Next
    PROVE  Unticked'
<1>1. tick_pulse_r' = tick_pulse
  BY Wires
<1>2. sq_enqueue' => Taken
  BY StepKinds DEF Passive, Flushes, MovesOut
<1>3. Taken => ~tick_pulse
  BY AtRest DEF Taken, StatusInv
<1> QED  BY <1>1, <1>2, <1>3 DEF Unticked

(* Nothing but a tick, or a request to sleep, changes the ticks a task has *)
(* left: not the request's way into the array, nor its neighbours' moves,  *)
(* nor its wake.                                                           *)
OneLess(n) == IF n = 0 THEN 0 ELSE n - 1

LEMMA LeftMoves ==
    ASSUME HostGap >= SQ_DEPTH + 5, NEW Used, FewTasks(Used), StatusInv(Used),
           StatusInv(Used)', Next, Unticked, ~pq_flush, ~pq_flush', NEW id \in ID,
           ~Requested(id)'
    PROVE  TicksLeft(id)' = IF tick_pulse_r THEN OneLess(TicksLeft(id)) ELSE TicksLeft(id)
<1>1. /\ BlocksOK /\ BlocksOK' /\ DequeuesDispatched /\ ~sq_flush
      /\ pq_dequeue => ~pq_enqueue_r
  BY DEF StatusInv, CarefulTasks, DrainInv, Flushing
<1>2. SQP!Next /\ SQP!IInv /\ SQP!IInv'
  BY <1>1, QueueWires DEF Next, BlocksOK
<1>3. sq_enqueue => SQP!HasRoom
  BY <1>1, PlacesFree DEF StatusInv
<1>4. /\ SQP!Held(id) \in Nat /\ SQP!Held(id)' \in Nat
      /\ SQP!Held(id) <= 1 /\ SQP!Held(id)' <= 1
      /\ Requested(id) => SQP!Held(id) = 0
  <2>1. /\ SQP!Held(id) \in Nat
        /\ SQP!Held(id) + Once(Requested(id)) + Once(sq_wake_valid /\ sq_wake_id = id) <= 1
    BY SleepsOnce
  <2>2. SQP!Held(id)' \in Nat /\ SQP!Held(id)' <= 1
    <3>1. /\ SQP!Held(id)' \in Nat
          /\ InSleep(id)' = SQP!Held(id)' + Once(sq_enqueue' /\ sq_enq_id' = id)
                            + Once(sq_wake_valid' /\ sq_wake_id' = id)
      BY PartsAfter DEF StatusInv, CarefulTasks, DrainInv, SleepParts
    <3>2. InSleep(id)' = Once(Status(id)' = CU!Sleeping)
      BY DEF StatusInv, Agrees
    <3> QED  BY <3>1, <3>2 DEF Once
  <2> QED  BY <2>1, <2>2 DEF Once
<1> DEFINE C == SQP!Counts
<1>5. /\ \A n \in C : SQP!SleepsFor(id, n)' =>
            \/ sq_enqueue /\ SQP!HasRoom /\ sq_enq_id = id /\ sq_enq_counter = n
            \/ \E m \in C : SQP!SleepsFor(id, m) /\ n = SQP!Less(m)
      /\ \A n \in C :
            sq_enqueue /\ SQP!HasRoom /\ sq_enq_id = id /\ sq_enq_counter = n
            => SQP!SleepsFor(id, n)'
      /\ \A m, n \in C : SQP!SleepsFor(id, m) /\ n = SQP!Less(m) =>
            SQP!SleepsFor(id, n)' \/ (n = 0 /\ sq_wake_valid' /\ sq_wake_id' = id)
  BY ONLY <1>1, <1>2, BlockParameters, SQP!SleepsForMoves, id \in ID
<1>6. \A m \in C : /\ SQP!Less(m) \in C
                   /\ SQP!Less(m) = IF tick_pulse_r THEN OneLess(m) ELSE m
  BY BlockParameters DEF SQP!Less, SQP!Counts, OneLess
<1>7. /\ TicksLeft(id) \in C
      /\ Requested(id) => TicksLeft(id) = sq_enq_counter
      /\ ~Requested(id) => IF \E n \in C : SQP!SleepsFor(id, n)
                           THEN \A n : SQP!SleepsFor(id, n) => TicksLeft(id) = n
                           ELSE TicksLeft(id) = 0
  BY <1>1, <1>4, LeftMeans DEF LeftOK
<1>8. IF \E n \in C : SQP!SleepsFor(id, n)'
      THEN \A n : SQP!SleepsFor(id, n)' => TicksLeft(id)' = n
      ELSE TicksLeft(id)' = 0
  BY <1>1, <1>4, LeftMeansAfter DEF LeftOK, SQP!Counts
<1>9. SQP!Held(id) > 0 <=> \E n \in C : SQP!SleepsFor(id, n)
  BY ONLY <1>2, BlockParameters, SQP!NobodyHeld, id \in ID
<1> HIDE DEF C
<1>10. CASE Requested(id)
  <2>1. ~tick_pulse_r /\ sq_enqueue /\ sq_enq_id = id
    BY <1>10 DEF Requested, Unticked
  <2>2. sq_enq_counter \in C
    BY <1>7, <1>10
  <2>3. PICK n \in C : n = sq_enq_counter
    BY <2>2
  <2>4. SQP!SleepsFor(id, n)'
    BY <1>3, <1>5, <2>1, <2>3
  <2>5. TicksLeft(id)' = n
    BY <1>8, <2>4
  <2> QED  BY <1>7, <1>10, <2>1, <2>3, <2>5
<1>11. CASE ~Requested(id)
  <2>1. CASE \E n \in C : SQP!SleepsFor(id, n)'
    <3>1. PICK n \in C : SQP!SleepsFor(id, n)'
      BY <2>1
    <3>2. PICK m \in C : SQP!SleepsFor(id, m) /\ n = SQP!Less(m)
      BY <1>5, <1>11, <3>1 DEF Requested
    <3>3. TicksLeft(id) = m
      BY <1>7, <1>11, <3>2
    <3>4. TicksLeft(id)' = n
      BY <1>8, <3>1
    <3> QED  BY <1>6, <3>2, <3>3, <3>4
  <2>2. CASE ~\E n \in C : SQP!SleepsFor(id, n)'
    <3>1. TicksLeft(id)' = 0
      BY <1>8, <2>2
    <3>2. CASE \E m \in C : SQP!SleepsFor(id, m)
      <4>1. PICK m \in C : SQP!SleepsFor(id, m)
        BY <3>2
      <4>2. PICK n \in C : n = SQP!Less(m)
        BY <1>6
      <4>3. n = 0 /\ TicksLeft(id) = m
        BY <1>5, <1>7, <1>11, <2>2, <4>1, <4>2
      <4> QED  BY <1>6, <3>1, <4>2, <4>3
    <3>3. CASE ~\E m \in C : SQP!SleepsFor(id, m)
      BY <1>7, <1>11, <3>1, <3>3 DEF OneLess
    <3> QED  BY <3>2, <3>3
  <2> QED  BY <2>1, <2>2
<1> QED  BY <1>10, <1>11

(* The abstract state before and after an edge without a flush. *)
LEMMA AbstractState ==
    ASSUME NEW Used, StatusInv(Used)
    PROVE  /\ ~pq_flush => /\ StatusOf = [id \in ID |-> Status(id)]
                           /\ LeftOf = [id \in ID |-> TicksLeft(id)]
           /\ pq_flush => /\ StatusOf = [id \in ID |-> CU!Deleted]
                          /\ LeftOf = [id \in ID |-> 0]
BY DEF StatusInv, Flushing, StatusOf, LeftOf

LEMMA AbstractStateAfter ==
    ASSUME NEW Used, StatusInv(Used)'
    PROVE  /\ ~pq_flush' => /\ StatusOf' = [id \in ID |-> Status(id)']
                            /\ LeftOf' = [id \in ID |-> TicksLeft(id)']
           /\ pq_flush' => /\ StatusOf' = [id \in ID |-> CU!Deleted]
                           /\ LeftOf' = [id \in ID |-> 0]
BY DEF StatusInv, Flushing, StatusOf, LeftOf

(* The edge that empties the blocks was announced by the one before.       *)
LEMMA FlushIsSilent ==
    ASSUME HostGap >= SQ_DEPTH + 5, NEW Used, StatusInv(Used), StatusInv(Used)', Next, pq_flush
    PROVE  UNCHANGED <<StatusOf, LeftOf, current_task>>
<1>1. CU!Idle /\ AllEmpty' /\ ~tt_wr'.en /\ \A id \in ID : table'[id] = CU!Blank
  BY FlushEmpties
<1>2. ~pq_flush' /\ current_task' = current_task
  BY <1>1 DEF CU!Idle, CU!QueuesIdle, CU!NoFlush, CU!NoDequeue
<1>3. \A id \in ID : Status(id)' = CU!Deleted
  BY <1>1 DEF Status, CU!Blank
<1>4. \A id \in ID : TicksLeft(id)' = 0
  BY <1>1 DEF AllEmpty, TicksLeft, Counted
<1> QED  BY <1>2, <1>3, <1>4, AbstractState, AbstractStateAfter

LEMMA ResetIsReset ==
    ASSUME NEW Used, StatusInv(Used)', Flushes
    PROVE  Abstract!Reset
<1>1. pq_flush' /\ current_task' = NoTask
  BY DEF Flushes
<1>2. StatusOf' = [id \in ID |-> CU!Deleted] /\ LeftOf' = [id \in ID |-> 0]
  BY <1>1, AbstractStateAfter
<1> QED  BY <1>1, <1>2 DEF Abstract!Reset, Abstract!Deleted, CU!Deleted, StatusOf, LeftOf

(* An edge on which no command moves a task: wakes and ticks. *)
LEMMA PassiveIsWakeOrTick ==
    ASSUME HostGap >= SQ_DEPTH + 5, NEW Used, FewTasks(Used), StatusInv(Used),
           StatusInv(Used)', Next, Unticked, ~pq_flush, Passive
    PROVE  \/ \E id \in ID : Abstract!Wake(id)
           \/ Abstract!Tick
           \/ UNCHANGED <<StatusOf, LeftOf, current_task>>
<1>1. /\ CU!CommitTable /\ BlocksOK /\ ~tt_clear_all
      /\ ~pq_flush' /\ ~sq_enqueue' /\ current_task' = current_task
  BY Wires DEF StatusInv, CarefulTasks, DrainInv, Flushing, Passive
<1>2. /\ StatusOf = [id \in ID |-> Status(id)] /\ StatusOf' = [id \in ID |-> Status(id)']
      /\ LeftOf = [id \in ID |-> TicksLeft(id)] /\ LeftOf' = [id \in ID |-> TicksLeft(id)']
  BY <1>1, AbstractState, AbstractStateAfter
<1>3. LeftOf' = IF tick_pulse_r THEN [id \in ID |-> OneLess(LeftOf[id])] ELSE LeftOf
  <2>1. \A id \in ID :
            TicksLeft(id)' = IF tick_pulse_r THEN OneLess(TicksLeft(id)) ELSE TicksLeft(id)
    <3> TAKE id \in ID
    <3>1. ~Requested(id)'
      BY <1>1 DEF Requested
    <3> QED  BY <1>1, <3>1, LeftMoves
  <2> QED  BY <1>2, <2>1
<1>4. \A id \in ID : Status(id)' = IF tt_wr'.en /\ tt_wr'.id = id THEN tt_wr'.task.status
                                                                  ELSE Status(id)
  BY <1>1, StatusStep
<1>5. /\ sq_wake_valid =>
             /\ tt_wr'.en /\ tt_wr'.id = sq_wake_id /\ tt_wr'.task.status = CU!Ready
             /\ sq_wake_id \in ID /\ Status(sq_wake_id) = CU!Sleeping
      /\ ~sq_wake_valid /\ tt_wr'.en =>
             tt_wr'.task.status = CU!Running /\ Status(tt_wr'.id) = CU!Running
  BY OtherWrites DEF Passive
<1>6. CASE sq_wake_valid
  <2>1. PICK k \in ID : k = sq_wake_id
    BY <1>5, <1>6
  <2>2. StatusOf[k] = CU!Sleeping /\ StatusOf' = [StatusOf EXCEPT ![k] = CU!Ready]
    BY <1>2, <1>4, <1>5, <1>6, <2>1
  <2>3. LeftOf[k] = 0
    <3>1. /\ SQP!Held(k) \in Nat
          /\ SQP!Held(k) + Once(Requested(k)) + Once(sq_wake_valid /\ sq_wake_id = k) <= 1
      BY SleepsOnce
    <3>2. SQP!Held(k) = 0 /\ ~Requested(k)
      BY <1>6, <2>1, <3>1 DEF Once
    <3>3. ~\E n \in SQP!Counts : SQP!SleepsFor(k, n)
      <4>1. SQP!IInv
        BY <1>1 DEF BlocksOK
      <4>2. SQP!Held(k) > 0 <=> \E n \in SQP!Counts : SQP!SleepsFor(k, n)
        BY ONLY <4>1, BlockParameters, SQP!NobodyHeld, k \in ID
      <4> QED  BY <3>2, <4>2
    <3> QED  BY <1>1, <1>2, <3>2, <3>3, LeftMeans DEF LeftOK
  <2>4. Abstract!Wake(k)
    BY <1>1, <1>3, <2>2, <2>3
       DEF Abstract!Wake, Abstract!Turn, Abstract!OneTickLess, Abstract!Sleeping,
           Abstract!Ready, CU!Sleeping, CU!Ready, OneLess, StatusOf, LeftOf
  <2> QED  BY <2>4
<1>7. CASE ~sq_wake_valid
  <2>1. StatusOf' = StatusOf
    BY <1>2, <1>4, <1>5, <1>7
  <2>2. CASE tick_pulse_r
    BY <1>1, <1>3, <2>1, <2>2
       DEF Abstract!Tick, Abstract!OneTickLess, OneLess, StatusOf, LeftOf
  <2>3. CASE ~tick_pulse_r
    BY <1>1, <1>3, <2>1, <2>3
  <2> QED  BY <2>2, <2>3
<1> QED  BY <1>6, <1>7

(* A command that moves a task is the call of that name. *)
LEMMA MoveIsCall ==
    ASSUME HostGap >= SQ_DEPTH + 5, NEW Used, FewTasks(Used), StatusInv(Used),
           StatusInv(Used)', Next, Unticked, NEW k \in ID, NEW s, MovesOut(Used, k, s)
    PROVE  \/ \/ Abstract!Create(k) \/ Abstract!Delete(k) \/ Abstract!Resume(k)
              \/ Abstract!Suspend(k) \/ Abstract!Activate(k) \/ Abstract!Sleep(k)
           \/ UNCHANGED <<StatusOf, LeftOf, current_task>>
<1>1. Taken /\ Moves(k, s) /\ <<Status(k), s>> \in Arrows
  BY DEF MovesOut
<1>2. /\ CU!CommitTable /\ BlocksOK /\ BlocksOK' /\ ~tt_clear_all
      /\ ~pq_flush /\ ~tick_pulse_r
  BY <1>1, Wires, AtRest DEF StatusInv, CarefulTasks, DrainInv, Taken
<1>3. /\ ~pq_flush' /\ (sq_enqueue' <=> s = CU!Sleeping) /\ (sq_enqueue' => sq_enq_id' = k)
      /\ current_task' = IF s = CU!Running THEN k ELSE current_task
  BY <1>1 DEF Moves
<1>4. /\ StatusOf = [id \in ID |-> Status(id)] /\ StatusOf' = [id \in ID |-> Status(id)']
      /\ LeftOf = [id \in ID |-> TicksLeft(id)] /\ LeftOf' = [id \in ID |-> TicksLeft(id)']
  BY <1>2, <1>3, AbstractState, AbstractStateAfter
<1>5. StatusOf[k] = Status(k) /\ StatusOf' = [StatusOf EXCEPT ![k] = s]
  <2>1. \A id \in ID : Status(id)' = IF id = k THEN s ELSE Status(id)
    BY <1>1, <1>2, StatusStep DEF Moves
  <2> QED  BY <1>4, <2>1
<1>6. \A id \in ID : ~Requested(id)' => TicksLeft(id)' = TicksLeft(id)
  BY <1>2, <1>3, LeftMoves
<1>7. ASSUME s # CU!Sleeping
      PROVE  LeftOf' = LeftOf
  <2>1. \A id \in ID : ~Requested(id)'
    BY <1>3, <1>7 DEF Requested
  <2> QED  BY <1>4, <1>6, <2>1
<1>8. ASSUME s = CU!Sleeping
      PROVE  \E n \in CU!Sleeps : LeftOf' = [LeftOf EXCEPT ![k] = n]
  <2>1. sq_enqueue' /\ sq_enq_id' = k
    BY <1>3, <1>8
  <2>2. TicksLeft(k)' = sq_enq_counter'
    BY <2>1 DEF TicksLeft
  <2>3. sq_enq_counter' \in CU!Sleeps
    BY <1>2 DEF BlocksOK, CUP!TypeOK, CUP!RegsOK, CUP!Sleeps, CU!Sleeps
  <2>4. PICK n \in CU!Sleeps : n = sq_enq_counter'
    BY <2>3
  <2>5. \A id \in ID : TicksLeft(id)' = IF id = k THEN n ELSE TicksLeft(id)
    BY <1>6, <2>1, <2>2, <2>4 DEF Requested
  <2>6. LeftOf' = [LeftOf EXCEPT ![k] = n]
    BY <1>4, <2>5
  <2> QED  BY <2>6
<1> USE DEF CU!Deleted, CU!Suspended, CU!Ready, CU!Running, CU!Sleeping,
            Abstract!Turn, Abstract!Deleted, Abstract!Suspended, Abstract!Ready,
            Abstract!Running, Abstract!Sleeping
<1>9. CASE <<Status(k), s>> = <<CU!Deleted, CU!Suspended>>
  BY <1>3, <1>5, <1>7, <1>9 DEF Abstract!Create, StatusOf, LeftOf
<1>10. CASE <<Status(k), s>> = <<CU!Suspended, CU!Suspended>>
  <2>1. StatusOf' = StatusOf
    BY <1>4, <1>5, <1>10
  <2> QED  BY <1>3, <1>7, <1>10, <2>1
<1>11. CASE <<Status(k), s>> = <<CU!Suspended, CU!Deleted>>
  BY <1>3, <1>5, <1>7, <1>11 DEF Abstract!Delete, StatusOf, LeftOf
<1>12. CASE <<Status(k), s>> = <<CU!Suspended, CU!Ready>>
  BY <1>3, <1>5, <1>7, <1>12 DEF Abstract!Resume, StatusOf, LeftOf
<1>13. CASE <<Status(k), s>> = <<CU!Ready, CU!Running>>
  BY <1>3, <1>5, <1>7, <1>13 DEF Abstract!Activate, StatusOf, LeftOf
<1>14. CASE <<Status(k), s>> = <<CU!Running, CU!Suspended>>
  BY <1>3, <1>5, <1>7, <1>14 DEF Abstract!Suspend, StatusOf, LeftOf
<1>15. CASE <<Status(k), s>> = <<CU!Running, CU!Sleeping>>
  <2>1. PICK n \in CU!Sleeps : LeftOf' = [LeftOf EXCEPT ![k] = n]
    BY <1>8, <1>15
  <2>2. Abstract!Turn(k, {Abstract!Running}, Abstract!Sleeping)
    BY <1>5, <1>15 DEF StatusOf
  <2>3. \E m \in CU!Sleeps :
            [id \in ID |-> IF sq_flush THEN 0 ELSE TicksLeft(id)]'
              = [[id \in ID |-> IF sq_flush THEN 0 ELSE TicksLeft(id)] EXCEPT ![k] = m]
    BY <2>1 DEF LeftOf
  <2>4. current_task' = current_task
    BY <1>3, <1>15
  <2> QED  BY <2>2, <2>3, <2>4, Zenon DEF Abstract!Sleep
<1> QED  BY <1>1, <1>9, <1>10, <1>11, <1>12, <1>13, <1>14, <1>15 DEF Arrows

LEMMA StepIsStep ==
    ASSUME HostGap >= SQ_DEPTH + 5, NEW Used, FewTasks(Used), StatusInv(Used),
           StatusInv(Used)', Unticked, [Next]_vars
    PROVE  [Abstract!Next]_(Abstract!vars)
<1>1. UNCHANGED <<StatusOf, LeftOf, current_task>> => UNCHANGED Abstract!vars
  BY DEF Abstract!vars, StatusOf, LeftOf
<1>2. CASE Next /\ pq_flush
  BY <1>1, <1>2, FlushIsSilent
<1>3. CASE Next /\ ~pq_flush
  <2>1. CASE Passive
    BY <1>1, <1>3, <2>1, PassiveIsWakeOrTick, Zenon DEF Abstract!Next
  <2>2. CASE Flushes
    BY <2>2, ResetIsReset, Zenon DEF Abstract!Next
  <2>3. ASSUME NEW k \in ID, NEW s, MovesOut(Used, k, s)
        PROVE  [Abstract!Next]_(Abstract!vars)
    BY <1>1, <1>3, <2>3, MoveIsCall, Zenon DEF Abstract!Next
  <2> QED  BY <1>3, <2>1, <2>2, <2>3, StepKinds
<1>4. CASE UNCHANGED vars
  <2>1. UNCHANGED <<sq, ctrl>>
    BY <1>4 DEF vars
  <2>2. /\ UNCHANGED <<id_mem, cnt_mem, valid_mem, sq_enqueue, sq_enq_id, sq_enq_counter>>
        /\ UNCHANGED <<sq_flush, table, tt_wr, tt_clear_all, current_task>>
    BY <2>1 DEF sq, ctrl
  <2>3. \A id \in ID : Status(id)' = Status(id) /\ TicksLeft(id)' = TicksLeft(id)
    BY <2>2 DEF Status, TicksLeft, Counted
  <2>4. UNCHANGED <<StatusOf, LeftOf, current_task>>
    BY <2>2, <2>3 DEF StatusOf, LeftOf
  <2> QED  BY <1>1, <2>4
<1> QED  BY <1>2, <1>3, <1>4

(* For such a host the blocks together are TaskScheduler, step by step:    *)
(* whatever an edge does to the table, to the two queues and to the        *)
(* strobes between them is one call, wake, tick or reset of the abstract   *)
(* scheduler, or nothing.  In particular a sleeper is made ready only when *)
(* as many ticks have gone by as were asked for, wherever in the sleep     *)
(* queue its entry moved meanwhile.                                        *)
THEOREM StepsAsScheduler ==
    ASSUME Careful, HostGap >= SQ_DEPTH + 5, WholeCommands, NEW Used, FewTasks(Used)
    PROVE  Spec => Abstract!Init /\ [][Abstract!Next]_(Abstract!vars)
<1>1. Init => Abstract!Init /\ Unticked
  BY DEF Init, CU!PowerOn, SQ!Empty, Abstract!Init, Abstract!Deleted, CU!Deleted, Unticked
<1>2. StatusInv(Used) /\ Unticked /\ [Next]_vars => Unticked'
  <2>1. UNCHANGED vars => UNCHANGED <<sq_enqueue, tick_pulse_r>>
    BY DEF vars, ctrl, timer
  <2>2. StatusInv(Used) /\ Next => Unticked'
    BY UntickedKept
  <2> QED  BY <2>1, <2>2 DEF Unticked
<1>3. StatusInv(Used) /\ StatusInv(Used)' /\ Unticked /\ [Next]_vars
      => [Abstract!Next]_(Abstract!vars)
  BY StepIsStep
<1>4. TasksInv(Used) => StatusInv(Used)
  BY DEF TasksInv
<1>5. Spec => []TasksInv(Used)
  BY TasksAlways
<1> QED  BY <1>1, <1>2, <1>3, <1>4, <1>5, PTL DEF Spec
-----------------------------------------------------------------------------
(* Ticks far enough apart: the sleepers that expire with a tick wake one    *)
(* per clock, and all of them are out of the array before the next tick.    *)
SlowTicks == \A d \in Dividers \cup {ResetDivider} : d >= SQ_DEPTH

Expired(i) == valid_mem[i] /\ cnt_mem[i] = 0
NoneExpired == \A i \in SQ!Slots : ~Expired(i)
Spaced ==
    /\ tick_divider >= SQ_DEPTH /\ tick_counter \in Nat
    /\ sq_enqueue => ~timer_enable /\ ~tick_pulse /\ ~tick_pulse_r
    /\ ~(tick_pulse /\ tick_pulse_r)
    /\ tick_pulse => NoneExpired /\ (timer_enable => tick_counter >= SQ_DEPTH)
    /\ tick_pulse_r => /\ ~sq_wake_valid /\ NoneExpired
                       /\ timer_enable => tick_counter >= SQ_DEPTH - 1
    /\ timer_enable => \A i \in SQ!Slots : Expired(i) => i <= tick_counter

(* Whether or not the edge has a tick, the last place holds no expired     *)
(* entry after it.                                                         *)
LEMMA LastPlaceIsLeft ==
    ASSUME SQP!IInv, SQ!Step, ~sq_enqueue
    PROVE  \A i \in SQ!Slots : Expired(i)' => i + 1 \in SQ!Slots
<1> USE DepthAssumption DEF SQP!IInv, SQP!TypeOK, SQP!RegsOK, SQP!Packed, SQP!Sorted,
                            SQP!Slots, SQ!Slots, Expired
<1>1. CASE SQ!FlushAll
  BY <1>1 DEF SQ!FlushAll
<1>2. CASE SQ!Advance
  <2>1. CASE SQ!HeadExpired
    BY <1>2, <2>1 DEF SQ!Advance, SQ!AfterWake, SQ!ValidLeft, SQ!DepthAfterWake
  <2>2. CASE ~SQ!HeadExpired
    <3>1. cnt_mem' = SQ!Ticked /\ valid_mem' = valid_mem
      BY <1>2, <2>2 DEF SQ!Advance, SQ!AfterWake, SQ!CountsLeft, SQ!ValidLeft
    <3>2. ASSUME NEW i \in SQ!Slots, valid_mem[i], SQ!Ticked[i] = 0
          PROVE  FALSE
      <4>1. i < sq_depth /\ i \in 0 .. SQ_DEPTH - 1 /\ sq_depth \in 0 .. SQ_DEPTH
        BY <3>2
      <4>2. 0 \in SQ!Slots /\ valid_mem[0] /\ (i # 0 => cnt_mem[0] <= cnt_mem[i])
        BY <4>1
      <4>3. SQ!Ticked[0] = 0
        BY <3>2, <4>2 DEF SQP!Counts, SQ!Ticked
      <4> QED  BY <2>2, <4>1, <4>2, <4>3 DEF SQ!HeadExpired
    <3> QED  BY <3>1, <3>2
  <2> QED  BY <2>1, <2>2
<1>3. ~SQ!AdvanceAndInsert
  BY DEF SQ!AdvanceAndInsert
<1> QED  BY <1>1, <1>2, <1>3 DEF SQ!Step

(* Only RUN starts the timer, and only CONFIG sets the divider. *)
LEMMA TimerSettings ==
    ASSUME SlowTicks, BlocksOK, CU!Operation, tick_divider >= SQ_DEPTH
    PROVE  /\ tick_divider' >= SQ_DEPTH
           /\ timer_enable' /\ ~timer_enable => cmd_valid /\ Passive
<1>1. CASE CU!Configure
  <2>1. cmd_word \in CUP!Word1 /\ cmd_word.op = "CONFIG"
    BY <1>1 DEF BlocksOK, CUP!TypeOK, CUP!InputsOK, CU!Configure, CU!Command
  <2>2. cmd_word.divider \in Dividers
    BY <2>1 DEF CUP!Word1, CUP!PlainOps
  <2> QED  BY <1>1, <2>2 DEF SlowTicks, CU!Configure
<1>2. CASE CU!RunOrStop
  BY <1>2 DEF CU!RunOrStop, CU!Command, CU!config, CU!QueuesIdle, CU!NoReady, CU!NoSleep,
              CU!NoDequeue, CU!NoFlush, Passive
<1>3. CASE CU!Idle \/ CU!Inform \/ CU!FirstWord
  <2>1. CU!KeepSettings
    BY <1>3 DEF CU!Idle, CU!Inform, CU!FirstWord
  <2> QED  BY <2>1 DEF CU!KeepSettings, CU!config
<1>4. CASE CU!Create \/ CU!Modify \/ CU!LongSleep
  BY <1>4 DEF CU!Create, CU!Modify, CU!LongSleep, CU!SecondWord, CU!KeepSettings, CU!config
<1>5. CASE CU!ShortSleep \/ CU!Yield \/ CU!YieldAperiodic \/ CU!Retire \/ CU!Resume
  BY <1>5 DEF CU!ShortSleep, CU!Yield, CU!YieldAperiodic, CU!Retire, CU!Resume,
              CU!KeepSettings, CU!config
<1>6. CASE CU!Activate \/ CU!ActivateEmpty \/ CU!ResetRefused
  BY <1>6 DEF CU!Activate, CU!ActivateEmpty, CU!ResetRefused, CU!KeepSettings, CU!config
<1>7. CASE CU!Reset
  BY <1>7 DEF CU!Reset
<1> QED  BY <1>1, <1>2, <1>3, <1>4, <1>5, <1>6, <1>7 DEF CU!Operation

LEMMA SpacedKept ==
    ASSUME SlowTicks, HostGap >= SQ_DEPTH + 5, NEW Used, StatusInv(Used), Spaced, Next
    PROVE  Spaced'
<1> USE DEF StatusInv
<1>1. /\ Timer!Step /\ SQ!Step /\ CU!Operation /\ tick_pulse_r' = tick_pulse
      /\ BlocksOK /\ SQP!IInv /\ tick_divider \in Nat
  BY Wires DEF CarefulTasks, DrainInv, BlocksOK, CUP!TypeOK, CUP!RegsOK
<1>2. /\ tick_divider' >= SQ_DEPTH
      /\ timer_enable' /\ ~timer_enable => cmd_valid /\ Passive
  BY <1>1, TimerSettings DEF Spaced
<1>3. /\ tick_counter \in Nat /\ tick_counter' \in Nat
      /\ ~timer_enable => ~tick_pulse'
      /\ tick_pulse' => timer_enable /\ tick_counter = 0 /\ tick_counter' = tick_divider
      /\ timer_enable /\ ~tick_pulse' => tick_counter' = tick_counter - 1
  BY <1>1 DEF Spaced, Timer!Step, Timer!Stopped, Timer!Pulse, Timer!Count, Timer!Reload
<1>4. SQ_DEPTH \in Nat \ {0} /\ SQ!Slots = 0 .. SQ_DEPTH - 1
  BY DepthAssumption DEF SQ!Slots
<1>5. sq_enqueue' => ~timer_enable' /\ ~tick_pulse' /\ ~tick_pulse_r'
  <2>1. CASE Passive \/ Flushes
    BY <2>1 DEF Passive, Flushes
  <2>2. ASSUME NEW id \in ID, NEW s, MovesOut(Used, id, s)
        PROVE  ~timer_enable' /\ ~tick_pulse' /\ ~tick_pulse_r'
    <3>1. Taken /\ timer_enable' = timer_enable
      BY <2>2 DEF MovesOut, Moves
    <3>2. ~timer_enable /\ ~tick_pulse
      BY <3>1, AtRest DEF Taken
    <3> QED  BY <1>1, <1>3, <3>1, <3>2
  <2> QED  BY <2>1, <2>2, StepKinds
(* The timer is started only when the sleepers have long been awake. *)
<1>6. ASSUME timer_enable', ~timer_enable
      PROVE  NoneExpired' /\ ~tick_pulse /\ ~tick_pulse_r
  <2>1. cmd_valid
    BY <1>2, <1>6
  <2>2. Elapsed = HostGap + 3 /\ HostGap \in Nat
    BY <2>1, ClockOfWords
  <2>3. Drained
    BY DEF CarefulTasks, DrainInv
  <2>4. NoneExpired /\ ~tick_pulse /\ ~tick_pulse_r /\ ~sq_enqueue
    <3> HIDE DEF Elapsed
    <3> QED  BY <1>4, <1>6, <2>2, <2>3 DEF Drained, NoneExpired, Expired
  <2> QED  BY <1>1, <2>4, ExpiredMoveOn DEF NoneExpired, Expired
<1>7. ASSUME tick_pulse'
      PROVE  NoneExpired' /\ ~tick_pulse /\ tick_counter' >= SQ_DEPTH
  <2>1. timer_enable /\ tick_counter = 0 /\ ~tick_pulse /\ ~sq_enqueue
    BY <1>3, <1>4, <1>7 DEF Spaced
  <2>2. CASE tick_pulse_r
    <3>1. SQ_DEPTH = 1
      BY <1>4, <2>1, <2>2 DEF Spaced
    <3>2. \A i \in SQ!Slots : Expired(i)' => i + 1 \in SQ!Slots
      BY <1>1, <2>1, LastPlaceIsLeft
    <3> QED  BY <1>1, <1>3, <1>4, <1>7, <2>1, <3>1, <3>2 DEF NoneExpired, Spaced
  <2>3. CASE ~tick_pulse_r
    <3>1. \A i \in SQ!Slots : Expired(i) => i <= 0
      BY <2>1 DEF Spaced
    <3>2. \A i \in SQ!Slots : Expired(i)' => i + 1 \in SQ!Slots /\ Expired(i + 1)
      BY <1>1, <2>1, <2>3, ExpiredMoveOn DEF Expired
    <3> QED  BY <1>1, <1>3, <1>4, <1>7, <2>1, <3>1, <3>2 DEF NoneExpired, Spaced
  <2> QED  BY <2>2, <2>3
<1>8. ASSUME tick_pulse
      PROVE  /\ ~sq_wake_valid' /\ NoneExpired' /\ ~tick_pulse'
             /\ timer_enable' => tick_counter' >= SQ_DEPTH - 1
  <2>1. NoneExpired /\ ~tick_pulse_r /\ ~sq_enqueue /\ (timer_enable => tick_counter >= SQ_DEPTH)
    BY <1>8 DEF Spaced
  <2>2. NoneExpired' /\ ~sq_wake_valid'
    BY <1>1, <2>1, ExpiredMoveOn DEF NoneExpired, Expired
  <2>3. ~tick_pulse'
    BY <1>3, <1>4, <2>1
  <2>4. timer_enable' => timer_enable
    BY <1>6, <1>8
  <2> QED  BY <1>3, <1>4, <2>1, <2>2, <2>3, <2>4
<1>9. ASSUME timer_enable', NEW i \in SQ!Slots, Expired(i)'
      PROVE  i <= tick_counter'
  <2>1. timer_enable
    BY <1>6, <1>9 DEF NoneExpired
  <2>2. ~tick_pulse' /\ tick_counter' = tick_counter - 1
    BY <1>3, <1>7, <1>9, <2>1 DEF NoneExpired
  <2>3. ~sq_enqueue
    BY <2>1 DEF Spaced
  <2>4. CASE tick_pulse_r
    <3>1. i + 1 \in SQ!Slots
      BY <1>1, <1>9, <2>3, LastPlaceIsLeft
    <3> QED  BY <1>3, <1>4, <2>1, <2>2, <2>4, <3>1 DEF Spaced
  <2>5. CASE ~tick_pulse_r
    <3>1. i + 1 \in SQ!Slots /\ Expired(i + 1)
      BY <1>1, <1>9, <2>3, <2>5, ExpiredMoveOn DEF Expired
    <3> QED  BY <1>3, <1>4, <2>1, <2>2, <3>1 DEF Spaced
  <2> QED  BY <2>4, <2>5
<1> HIDE DEF StatusInv
<1> QED  BY <1>1, <1>2, <1>3, <1>5, <1>7, <1>8, <1>9 DEF Spaced, SQ!Slots

LEMMA SpacedAlways ==
    ASSUME SlowTicks, Careful, HostGap >= SQ_DEPTH + 5, WholeCommands,
           NEW Used, FewTasks(Used)
    PROVE  Spec => []Spaced
<1>1. Init => Spaced
  BY DEF Init, CU!PowerOn, SQ!Empty, Timer!PowerOn, SlowTicks, Spaced
<1>2. StatusInv(Used) /\ Spaced /\ [Next]_vars => Spaced'
  <2>1. StatusInv(Used) /\ Spaced /\ Next => Spaced'
    BY SpacedKept
  <2>2. Spaced /\ UNCHANGED vars => Spaced'
    BY DEF vars, timer, sq, ctrl, Spaced, NoneExpired, Expired
  <2> QED  BY <2>1, <2>2
<1>3. TasksInv(Used) => StatusInv(Used)
  BY DEF TasksInv
<1> QED  BY <1>1, <1>2, <1>3, TasksAlways, PTL DEF Spec

(* For such a host, with ticks at least SQ_DEPTH clocks apart and without  *)
(* a task 15, the line goes low with reason 3 on the very tick that brings *)
(* the clock to the deadline of the running task, whatever else happens.   *)
THEOREM MissReported ==
    ASSUME SlowTicks, Careful, HostGap >= SQ_DEPTH + 5, WholeCommands,
           NEW Used, FewTasks(Used), NoTask \notin Used
    PROVE  Spec => DeadlineMissReported
<1>1. ASSUME StatusInv(Used), Spaced, Next, tick_pulse_r, ~tt_wr.en,
             table[current_task].status = CU!Running,
             CU!low(tick_count + 1) = table[current_task].abs_deadline
      PROVE  ~irq_n' /\ irq_reason' = 3
  <2> USE DEF StatusInv
  <2>1. CU!Irq /\ BlocksOK /\ Follows /\ StoppedFor
    BY <1>1 DEF Next, Blocks, CU!Step, CU!EveryEdge, CarefulTasks, DrainInv, CarefulInv
  <2>2. ~pending_word2 /\ ~sq_wake_valid /\ ~pq_flush
    BY <1>1 DEF Halted, Spaced, Flushing
  <2>3. current_task # NoTask
    <3>1. current_task \in ID
      BY <2>1 DEF BlocksOK, CUP!TypeOK, CUP!RegsOK
    <3>2. Status(current_task) = CU!Running
      BY <1>1 DEF Status
    <3> QED  BY <1>1, <2>2, <3>1, <3>2 DEF Agrees, CU!Running, CU!Deleted
  <2>4. ~(cmd_valid /\ cmd_word.op = "ACTIVATE")
    BY <1>1, <2>1 DEF StoppedFor, TouchesTask
  <2>5. CU!tt_rd_id = current_task
    BY <1>1, <2>1, <2>2, <2>3, <2>4 DEF CU!tt_rd_id, Follows
  <2>6. CU!MissesDeadline
    BY <1>1, <2>2, <2>3, <2>5 DEF CU!MissesDeadline, CU!rd
  <2> QED  BY <2>1, <2>6 DEF CU!Irq
<1>2. StatusInv(Used) /\ Spaced /\ [Next]_vars =>
        [tick_pulse_r /\ ~tt_wr.en /\ ~tt_clear_all
         /\ table[current_task].status = CU!Running
         /\ CU!low(tick_count + 1) = table[current_task].abs_deadline
         => ~irq_n' /\ irq_reason' = 3]_vars
  BY <1>1
<1>3. TasksInv(Used) => StatusInv(Used)
  BY DEF TasksInv
<1> QED  BY <1>2, <1>3, TasksAlways, SpacedAlways, PTL DEF Spec, DeadlineMissReported
-----------------------------------------------------------------------------
(***************************************************************************)
(* WakesOnTime for any host: tick_count and the counts of the sleep queue  *)
(* move together, so that their sum, the moment a sleeper is due, stays     *)
(* what it was noted as.  The sum would move if a tick found an entry that  *)
(* has expired and is still in the array; ticks that are SQ_DEPTH clocks    *)
(* apart never do, because one expired entry leaves with every clock.      *)
(***************************************************************************)
(* Bags by the number of copies of an element. *)
IsBag(b) == \A x \in DOMAIN b : b[x] \in Nat \ {0}
Copies(b, x) == IF x \in DOMAIN b THEN b[x] ELSE 0

LEMMA OneMore ==
    ASSUME NEW b, IsBag(b), NEW S
    PROVE  /\ IsBag(b (+) SetToBag(S))
           /\ \A x : Copies(b (+) SetToBag(S), x) = Copies(b, x) + Once(x \in S)
BY DEF IsBag, Copies, SetToBag, Once, (+)

LEMMA OneFewer ==
    ASSUME NEW b, IsBag(b), NEW S, S \subseteq DOMAIN b
    PROVE  /\ IsBag(b (-) SetToBag(S))
           /\ \A x : Copies(b (-) SetToBag(S), x) = Copies(b, x) - Once(x \in S)
BY DEF IsBag, Copies, SetToBag, Once, (-)

LEMMA CopiesAreNat ==
    ASSUME NEW b, IsBag(b), NEW x
    PROVE  Copies(b, x) \in Nat /\ (Copies(b, x) > 0 <=> x \in DOMAIN b)
BY DEF IsBag, Copies
-----------------------------------------------------------------------------
(* No sleep of zero ticks: no short count is zero, and a second word of     *)
(* zeros belongs to a CREATE or a MODIFY.                                   *)
Describes(b) == b.addr = "CMD_W1" /\ b.data.op \in {"CREATE", "MODIFY"}
Null(b) == b.addr = "CMD_W2" /\ b.data.hi = 0 /\ b.data.lo = 0
NullsDescribe(s, before) ==
    \A n \in 1 .. Len(s) : Null(s[n]) => IF n = 1 THEN before ELSE Describes(s[n - 1])
NoNullSleep ==
    /\ 0 \notin ShortCounts
    /\ NullsDescribe(Boot, FALSE) /\ \A r \in Requests : NullsDescribe(r, FALSE)

(* The first word a null second word in the slave or behind it goes with.  *)
Describing == cmd_word.op \in {"CREATE", "MODIFY"}
LastDescribes == IF beat.addr = "CMD_W1" THEN Describes(beat) ELSE Describing
NullWord2 == cmd_word2.hi = 0 /\ cmd_word2.lo = 0
NullsInOrder ==
    /\ NullsDescribe(todo, LastDescribes)
    /\ Null(beat) => Describing
    /\ (arm_word2_valid \/ cmd_word2_valid) /\ NullWord2 => Describing
    /\ Describing /\ pending_word2 /\ ~arm_cmd_valid /\ ~cmd_valid
       => pending_word1.op # "SLEEP"
    /\ cmd_word2_valid => ~arm_cmd_valid

LEMMA NullsOfTail ==
    ASSUME NEW q \in Seq(Beats), q # <<>>, NEW x, NullsDescribe(q, x)
    PROVE  (Null(Head(q)) => x) /\ NullsDescribe(Tail(q), Describes(Head(q)))
<1>1. /\ Len(q) \in Nat \ {0} /\ Head(q) = q[1]
      /\ Len(Tail(q)) = Len(q) - 1 /\ \A n \in 1 .. Len(q) - 1 : Tail(q)[n] = q[n + 1]
  OBVIOUS
<1>2. Null(Head(q)) => x
  BY <1>1 DEF NullsDescribe
<1>3. ASSUME NEW n \in 1 .. Len(Tail(q)), Null(Tail(q)[n])
      PROVE  IF n = 1 THEN Describes(Head(q)) ELSE Describes(Tail(q)[n - 1])
  <2>1. n + 1 \in 1 .. Len(q) /\ Null(q[n + 1]) /\ n + 1 # 1 /\ (n + 1) - 1 = n
    BY <1>1, <1>3
  <2>2. Describes(q[n])
    BY <2>1 DEF NullsDescribe
  <2>3. n # 1 => Tail(q)[n - 1] = q[n]
    BY <1>1
  <2> QED  BY <1>1, <2>2, <2>3
<1> QED  BY <1>2, <1>3 DEF NullsDescribe

(* A sequence in order whatever came before it is so after anything. *)
LEMMA NullsAnyway ==
    ASSUME NEW q, NEW x, NullsDescribe(q, FALSE)
    PROVE  NullsDescribe(q, x)
BY DEF NullsDescribe

LEMMA HostNulls ==
    ASSUME NoNullSleep, ChannelInv, NullsInOrder, Host
    PROVE  /\ beat' = NoBeat => NullsDescribe(todo', LastDescribes)
           /\ beat' # NoBeat => /\ beat = NoBeat /\ NullsDescribe(todo', Describes(beat'))
                                /\ Null(beat') => Describing
<1> DEFINE Fine(b, rest) == NullsDescribe(rest, Describes(b)) /\ (Null(b) => Describing)
<1>1. todo \in Seq(Beats) /\ NullsDescribe(todo, LastDescribes)
  BY DEF ChannelInv, HostOK, NullsInOrder
<1>2. beat = NoBeat => LastDescribes = Describing
  BY BeatAddresses DEF LastDescribes
<1>3. NoBeat \notin Beats
  BY BeatAddresses
<1>4. CASE Continue
  <2>1. /\ todo # <<>> /\ beat = NoBeat /\ beat' = Head(todo) /\ todo' = Tail(todo)
        /\ Head(todo) \in Beats
    BY <1>1, <1>4 DEF Continue, Send
  <2>2. Fine(Head(todo), Tail(todo))
    BY <1>1, <1>2, <2>1, NullsOfTail
  <2> QED  BY <1>3, <2>1, <2>2
<1>5. CASE Request
  <2>1. PICK r \in Requests : Send(Head(r), Tail(r))
    BY <1>5 DEF Request
  <2>2. r \in Seq(Beats) /\ r # <<>> /\ Head(r) \in Beats
    BY BeatsAssumption
  <2>3. NullsDescribe(r, FALSE)
    BY DEF NoNullSleep
  <2>4. Fine(Head(r), Tail(r))
    BY <2>2, <2>3, NullsOfTail
  <2> QED  BY <1>3, <2>1, <2>2, <2>4 DEF Send
<1>6. CASE Wait
  BY <1>1, <1>6 DEF Wait
<1> QED  BY <1>4, <1>5, <1>6 DEF Host

LEMMA Word2InSlave ==
    ASSUME ChannelInv, Slave!Step
    PROVE  cmd_word2' = IF beat.addr = "CMD_W2" THEN beat.data ELSE cmd_word2
<1> USE BeatAddresses DEF ChannelInv, HostOK, OneWord
<1>1. CASE Slave!PulseCommand \/ Slave!PulseWord2
  BY <1>1 DEF Slave!PulseCommand, Slave!PulseWord2
<1>2. CASE Slave!WriteW1 \/ Slave!WriteW2
  BY <1>2 DEF Slave!WriteW1, Slave!WriteW2, Slave!Accepts
<1>3. CASE Slave!NoBeat
  BY <1>3 DEF Slave!NoBeat
<1> QED  BY <1>1, <1>2, <1>3 DEF Slave!Step

(* What the control unit awaits is what it awaited, or the first word that *)
(* it takes.                                                               *)
LEMMA AwaitedWord ==
    ASSUME CU!Operation, pending_word2'
    PROVE  \/ pending_word2 /\ pending_word1' = pending_word1
              /\ ~(cmd_valid /\ cmd_word.op \in CU!TwoWordOps)
           \/ cmd_valid /\ pending_word1' = cmd_word
<1> USE DEF CU!KeepPending, CU!Command, CU!TwoWordOps
<1>1. CASE CU!Idle
  BY <1>1 DEF CU!Idle
<1>2. CASE CU!Inform \/ CU!Configure \/ CU!RunOrStop \/ CU!FirstWord
  BY <1>2 DEF CU!Inform, CU!Configure, CU!RunOrStop, CU!FirstWord
<1>3. ~CU!Create /\ ~CU!Modify /\ ~CU!LongSleep /\ ~CU!Reset
  BY DEF CU!Create, CU!Modify, CU!LongSleep, CU!SecondWord, CU!Reset, CU!DropPending
<1>4. CASE CU!ShortSleep \/ CU!Yield \/ CU!YieldAperiodic \/ CU!Retire \/ CU!Resume
  BY <1>4 DEF CU!ShortSleep, CU!Yield, CU!YieldAperiodic, CU!Retire, CU!Resume
<1>5. CASE CU!Activate \/ CU!ActivateEmpty \/ CU!ResetRefused
  BY <1>5 DEF CU!Activate, CU!ActivateEmpty, CU!ResetRefused
<1> QED  BY <1>1, <1>2, <1>3, <1>4, <1>5 DEF CU!Operation

LEMMA NullsKept ==
    ASSUME NoNullSleep, ChannelInv, NullsInOrder, Next
    PROVE  NullsInOrder'
<1>1. Host /\ Slave!Step /\ CU!Operation
  BY Wires
<1>2. /\ arm_cmd_valid' = (beat.addr = "CMD_W1") /\ arm_word2_valid' = (beat.addr = "CMD_W2")
      /\ cmd_valid' = arm_cmd_valid /\ cmd_word2_valid' = arm_word2_valid
      /\ cmd_word' = IF beat.addr = "CMD_W1" THEN beat.data ELSE cmd_word
      /\ beat.addr = "none" <=> beat = NoBeat
  BY <1>1, SlavePipeline
<1>3. cmd_word2' = IF beat.addr = "CMD_W2" THEN beat.data ELSE cmd_word2
  BY <1>1, Word2InSlave
<1>4. Describing' = LastDescribes
  BY <1>2 DEF Describing, LastDescribes, Describes
<1>5. NullsDescribe(todo', LastDescribes') /\ (Null(beat') => Describing')
  <2>1. CASE beat' = NoBeat
    <3>1. LastDescribes' = LastDescribes /\ ~Null(beat')
      BY <1>4, <2>1, BeatAddresses DEF LastDescribes, Null
    <3> QED  BY <1>1, <2>1, <3>1, HostNulls
  <2>2. CASE beat' # NoBeat
    <3>1. /\ beat = NoBeat /\ NullsDescribe(todo', Describes(beat'))
          /\ Null(beat') => Describing
      BY <1>1, <2>2, HostNulls
    <3>2. Describing' = Describing
      BY <1>2, <3>1, BeatAddresses DEF Describing
    <3>3. CASE beat'.addr = "CMD_W1"
      BY <3>1, <3>2, <3>3 DEF LastDescribes
    <3>4. CASE beat'.addr # "CMD_W1"
      <4>1. ~Describes(beat')
        BY <3>4 DEF Describes
      <4>2. NullsDescribe(todo', FALSE)
        BY <3>1, <4>1 DEF NullsDescribe
      <4> QED  BY <3>1, <3>2, <4>2, NullsAnyway
    <3> QED  BY <3>3, <3>4
  <2> QED  BY <2>1, <2>2
<1>6. ASSUME arm_word2_valid' \/ cmd_word2_valid', NullWord2'
      PROVE  Describing'
  <2>1. CASE beat.addr = "CMD_W2"
    <3>1. Null(beat)
      BY <1>3, <1>6, <2>1 DEF NullWord2, Null
    <3> QED  BY <1>2, <2>1, <3>1 DEF NullsInOrder, Describing
  <2>2. CASE beat.addr # "CMD_W2"
    <3>1. arm_word2_valid /\ NullWord2 /\ beat = NoBeat
      BY <1>2, <1>3, <1>6, <2>2 DEF NullWord2, ChannelInv, OneWord
    <3> QED  BY <1>2, <3>1, BeatAddresses DEF NullsInOrder, Describing
  <2> QED  BY <2>1, <2>2
<1>7. ASSUME Describing', pending_word2', ~arm_cmd_valid', ~cmd_valid'
      PROVE  pending_word1'.op # "SLEEP"
  <2>1. Describing /\ ~arm_cmd_valid
    BY <1>2, <1>7 DEF Describing
  <2>2. CASE cmd_valid /\ pending_word1' = cmd_word
    BY <2>1, <2>2 DEF Describing
  <2>3. CASE pending_word2 /\ pending_word1' = pending_word1
              /\ ~(cmd_valid /\ cmd_word.op \in CU!TwoWordOps)
    BY <2>1, <2>3 DEF NullsInOrder, Describing, CU!TwoWordOps
  <2> QED  BY <1>1, <1>7, <2>2, <2>3, AwaitedWord
<1>8. cmd_word2_valid' => ~arm_cmd_valid'
  BY <1>2, BeatAddresses DEF ChannelInv, OneWord
<1> QED  BY <1>5, <1>6, <1>7, <1>8 DEF NullsInOrder
-----------------------------------------------------------------------------
(* Every sleep that is started is of a tick at least. *)
LEMMA StartedSleeps ==
    ASSUME NoNullSleep, BlocksOK, NullsInOrder, CU!Operation, sq_enqueue'
    PROVE  sq_enq_counter' # 0
<1> USE DEF CU!NoSleep, CU!QueuesIdle, CU!StartSleep
<1>1. /\ cmd_word \in CUP!Word1
      /\ cmd_word2.hi \in Nat /\ cmd_word2.lo \in Nat /\ TimeMod \in Nat \ {0}
  BY WidthAssumption DEF BlocksOK, CUP!TypeOK, CUP!InputsOK, CUP!Word2, CUP!Times
<1>2. CASE CU!LongSleep
  <2>1. /\ ~cmd_valid /\ pending_word2 /\ cmd_word2_valid /\ pending_word1.op = "SLEEP"
        /\ sq_enq_counter' = cmd_word2.hi * TimeMod + cmd_word2.lo
    BY <1>2 DEF CU!LongSleep, CU!SecondWord, CU!Word2For
  <2>2. ~NullWord2
    BY <2>1 DEF NullsInOrder
  <2>3. \A h, l \in Nat, m \in Nat \ {0} : h # 0 \/ l # 0 => h * m + l # 0
    <3>1. \A h \in Nat, m \in Nat \ {0} : h * m \in Nat /\ (h # 0 => h * m # 0)
      OBVIOUS
    <3> QED  BY <3>1
  <2> QED  BY <1>1, <2>1, <2>2, <2>3 DEF NullWord2
<1>3. CASE CU!ShortSleep
  <2>1. cmd_word.op = "SSLEEP" /\ sq_enq_counter' = cmd_word.count
    BY <1>3 DEF CU!ShortSleep, CU!Command
  <2>2. cmd_word.count \in ShortCounts
    BY <1>1, <2>1 DEF CUP!Word1, CUP!PlainOps
  <2> QED  BY <2>1, <2>2 DEF NoNullSleep
<1>4. CASE CU!Yield
  BY <1>4 DEF CU!Yield
<1>5. CASE CU!Idle \/ CU!Inform \/ CU!Configure \/ CU!RunOrStop \/ CU!FirstWord
  BY <1>5 DEF CU!Idle, CU!Inform, CU!Configure, CU!RunOrStop, CU!FirstWord
<1>6. CASE CU!Create \/ CU!Modify \/ CU!YieldAperiodic \/ CU!Retire \/ CU!Resume
  BY <1>6 DEF CU!Create, CU!Modify, CU!YieldAperiodic, CU!Retire, CU!Resume
<1>7. CASE CU!Activate \/ CU!ActivateEmpty \/ CU!Reset \/ CU!ResetRefused
  BY <1>7 DEF CU!Activate, CU!ActivateEmpty, CU!Reset, CU!ResetRefused
<1> QED  BY <1>2, <1>3, <1>4, <1>5, <1>6, <1>7 DEF CU!Operation

(* tick_count follows every pulse, but for a RESET, which flushes. *)
LEMMA TicksCounted ==
    ASSUME CU!Operation, ~sq_flush'
    PROVE  tick_count' = IF tick_pulse_r THEN (tick_count + 1) % TickMod ELSE tick_count
<1> USE DEF CU!QueuesIdle, CU!CountTick
<1>1. CASE CU!Idle \/ CU!Inform \/ CU!Configure \/ CU!RunOrStop \/ CU!FirstWord
  BY <1>1 DEF CU!Idle, CU!Inform, CU!Configure, CU!RunOrStop, CU!FirstWord
<1>2. CASE CU!Create \/ CU!Modify \/ CU!LongSleep
  BY <1>2 DEF CU!Create, CU!Modify, CU!LongSleep
<1>3. CASE CU!ShortSleep \/ CU!Yield \/ CU!YieldAperiodic \/ CU!Retire \/ CU!Resume
  BY <1>3 DEF CU!ShortSleep, CU!Yield, CU!YieldAperiodic, CU!Retire, CU!Resume
<1>4. CASE CU!Activate \/ CU!ActivateEmpty \/ CU!ResetRefused
  BY <1>4 DEF CU!Activate, CU!ActivateEmpty, CU!ResetRefused
<1>5. CASE CU!Reset
  BY <1>5 DEF CU!Reset, CU!FlushAll
<1> QED  BY <1>1, <1>2, <1>3, <1>4, <1>5 DEF CU!Operation
-----------------------------------------------------------------------------
(* Any host may start a sleep at any clock; still no entry has expired when *)
(* a tick falls, for the counter of the timer never falls below the place   *)
(* of the last expired entry.  (Spaced above says more, of a careful host.) *)
Paced ==
    /\ tick_divider >= SQ_DEPTH /\ tick_counter \in Nat
    /\ tick_pulse => NoneExpired /\ ~tick_pulse_r /\ tick_counter >= SQ_DEPTH
    /\ tick_pulse_r => NoneExpired /\ tick_counter >= SQ_DEPTH - 1
    /\ \A i \in SQ!Slots : Expired(i) => i <= tick_counter
    /\ sq_enqueue => sq_enq_counter # 0

LEMMA ExpiredNext ==
    ASSUME BlocksOK, Paced, Next, NEW i \in SQ!Slots, Expired(i)'
    PROVE  /\ i + 1 \in SQ!Slots /\ valid_mem[i + 1]
           /\ cnt_mem[i + 1] = IF tick_pulse_r THEN 1 ELSE 0
<1>1. /\ SQP!IInv /\ SQP!Next /\ SQ!Step /\ i \in SQP!Slots /\ valid_mem'[i] /\ cnt_mem'[i] = 0
      /\ sq_enqueue => sq_enq_counter # 0
  BY QueueWires, Wires DEF Next, BlocksOK, Paced, Expired, SQ!Slots, SQP!Slots
<1>2. ~sq_flush
  BY <1>1 DEF SQ!Step, SQ!FlushAll, SQ!Advance, SQ!AdvanceAndInsert, SQ!Slots, SQP!Slots
<1>3. i + 1 \in SQP!Slots /\ valid_mem[i + 1] /\ SQP!Ticked[i + 1] = 0
  BY ONLY <1>1, <1>2, BlockParameters, SQP!ExpiredStay
<1>4. /\ i + 1 \in SQ!Slots /\ cnt_mem[i + 1] \in Nat
      /\ tick_pulse_r => cnt_mem[i + 1] # 0
  BY <1>3 DEF Paced, NoneExpired, Expired, SQ!Slots, SQP!Slots, BlocksOK,
              SQP!IInv, SQP!TypeOK, SQP!RegsOK, SQP!Counts
<1> QED  BY <1>3, <1>4 DEF SQP!Ticked

LEMMA PacedKept ==
    ASSUME SlowTicks, NoNullSleep, BlocksOK, NullsInOrder, Paced, Next
    PROVE  Paced'
<1>1. /\ Timer!Step /\ CU!Operation /\ tick_pulse_r' = tick_pulse
      /\ SQ_DEPTH \in Nat \ {0} /\ SQ!Slots = 0 .. SQ_DEPTH - 1
      /\ tick_divider \in Nat /\ tick_pulse \in BOOLEAN
  BY Wires, DepthAssumption DEF BlocksOK, CUP!TypeOK, CUP!RegsOK, SQ!Slots
<1>2. tick_divider' >= SQ_DEPTH /\ (sq_enqueue' => sq_enq_counter' # 0)
  BY <1>1, TimerSettings, StartedSleeps DEF Paced
<1>3. /\ tick_counter' \in Nat
      /\ tick_pulse' => tick_counter = 0 /\ tick_counter' = tick_divider
      /\ ~tick_pulse' => tick_counter' = tick_divider \/ tick_counter' = tick_counter - 1
  BY <1>1 DEF Paced, Timer!Step, Timer!Stopped, Timer!Pulse, Timer!Count, Timer!Reload
<1>4. \A i \in SQ!Slots : Expired(i)' => i < tick_counter /\ i + 1 \in SQ!Slots
  <2> SUFFICES ASSUME NEW i \in SQ!Slots, Expired(i)'
               PROVE  i < tick_counter /\ i + 1 \in SQ!Slots
    OBVIOUS
  <2>1. /\ i + 1 \in SQ!Slots /\ valid_mem[i + 1]
        /\ cnt_mem[i + 1] = IF tick_pulse_r THEN 1 ELSE 0
    BY ExpiredNext
  <2>2. CASE tick_pulse_r
    BY <1>1, <2>1, <2>2 DEF Paced
  <2>3. CASE ~tick_pulse_r
    BY <1>1, <2>1, <2>3 DEF Paced, Expired
  <2> QED  BY <2>2, <2>3
<1>5. tick_pulse' => NoneExpired' /\ ~tick_pulse /\ tick_counter' >= SQ_DEPTH
  BY <1>1, <1>3, <1>4 DEF Paced, NoneExpired, SQ!Slots
<1>6. tick_pulse => NoneExpired' /\ tick_counter' >= SQ_DEPTH - 1
  <2> SUFFICES ASSUME tick_pulse
               PROVE  NoneExpired' /\ tick_counter' >= SQ_DEPTH - 1
    OBVIOUS
  <2>1. NoneExpired /\ ~tick_pulse_r /\ tick_counter >= SQ_DEPTH
    BY DEF Paced
  <2>2. \A i \in SQ!Slots : ~Expired(i)'
    BY <2>1, ExpiredNext DEF NoneExpired, Expired
  <2> QED  BY <1>1, <1>3, <1>5, <2>1, <2>2 DEF NoneExpired, Paced, SQ!Slots
<1>7. \A i \in SQ!Slots : Expired(i)' => i <= tick_counter'
  BY <1>1, <1>3, <1>4, <1>5 DEF Paced, NoneExpired, SQ!Slots
<1> QED  BY <1>1, <1>2, <1>3, <1>5, <1>6, <1>7 DEF Paced, SQ!Slots
-----------------------------------------------------------------------------
(* The sum of a count and tick_count is the moment a sleeper is due; among  *)
(* the moments noted there is a copy for every entry in the array and for   *)
(* the one being announced.  (A sleep refused by a full array is noted, but *)
(* never ends.)                                                            *)
Clock == 0 .. TickMod - 1
DueAt(c, t) == {n \in SQP!Counts : (c + n) % TickMod = t}
Ending(id, t) == SQP!HeldWith(id, DueAt(tick_count, t))
EveryEndNoted ==
    \A id \in ID, t \in Clock :
        /\ Ending(id, t) \in Nat
        /\ Ending(id, t) + Once(sq_wake_valid /\ sq_wake_id = id /\ tick_count = t)
             <= Copies(due, <<id, t>>)
DueInv == IsBag(due) /\ (~sq_flush => EveryEndNoted)

LEMMA WholeTurn ==
    ASSUME NEW m \in Nat \ {0}, NEW x \in Nat
    PROVE  (m + x) % m = x % m
<1>1. /\ x \div m \in Int /\ x % m \in 0 .. m - 1
      /\ x = (x \div m) * m + (x % m)
  OBVIOUS
<1>2. m + x = ((x \div m) + 1) * m + (x % m)
  BY <1>1
<1>3. \A q \in Int, r \in 0 .. m - 1, y \in Int : y = q * m + r => y % m = r
  OBVIOUS
<1> QED  BY <1>1, <1>2, <1>3

LEMMA NextTickKeepsDue ==
    ASSUME NEW m \in Nat \ {0}, NEW c \in 0 .. m - 1, NEW n \in Nat \ {0}
    PROVE  /\ (((c + 1) % m) + (n - 1)) % m = (c + n) % m
           /\ (c + 1) % m \in 0 .. m - 1
<1>1. CASE c + 1 < m
  <2>1. (c + 1) % m = c + 1
    BY <1>1
  <2> QED  BY <1>1, <2>1
<1>2. CASE c + 1 = m
  <2>1. (c + 1) % m = 0
    BY <1>2
  <2>2. PICK x \in Nat : x = n - 1
    OBVIOUS
  <2>3. c + n = m + x
    BY <1>2, <2>2
  <2>4. (m + x) % m = x % m
    BY WholeTurn
  <2> QED  BY <2>1, <2>2, <2>3, <2>4
<1> QED  BY <1>1, <1>2

LEMMA EndsStay ==
    ASSUME BlocksOK, BlocksOK', Paced, Next, ~sq_flush, ~sq_flush',
           NEW id \in ID, NEW t \in Clock
    PROVE  /\ Ending(id, t) \in Nat /\ Ending(id, t)' \in Nat
           /\ Ending(id, t)' + Once(sq_wake_valid' /\ sq_wake_id' = id /\ tick_count' = t)
                <= Ending(id, t)
                   + Once(sq_enqueue /\ <<sq_enq_id, (tick_count' + sq_enq_counter) % TickMod>>
                                          = <<id, t>>)
<1>1. /\ SQP!IInv /\ SQP!IInv' /\ SQP!Next /\ CU!Operation
      /\ TickMod \in Nat \ {0} /\ tick_count \in Clock /\ tick_count' \in Clock
  BY QueueWires, Wires, WidthAssumption DEF Next, BlocksOK, CUP!TypeOK, CUP!RegsOK, Clock
<1>2. tick_count' = IF tick_pulse_r THEN (tick_count + 1) % TickMod ELSE tick_count
  BY <1>1, TicksCounted
<1>3. PICK c \in Clock, d \in Clock : c = tick_count /\ d = tick_count'
  BY <1>1
<1> DEFINE K == DueAt(c, t)
           L == DueAt(d, t)
<1>4. K \in SUBSET SQP!Counts /\ L \in SUBSET SQP!Counts
  BY DEF DueAt
<1>5. \A i \in SQP!Slots : valid_mem[i] => (SQP!Ticked[i] \in L <=> cnt_mem[i] \in K)
  <2> SUFFICES ASSUME NEW i \in SQP!Slots, valid_mem[i]
               PROVE  SQP!Ticked[i] \in L <=> cnt_mem[i] \in K
    OBVIOUS
  <2>1. cnt_mem[i] \in SQP!Counts /\ SQP!Counts = 0 .. TimeMod * TimeMod - 1
        /\ TimeMod * TimeMod - 1 \in Nat
    BY <1>1, BlockParameters DEF SQP!IInv, SQP!TypeOK, SQP!RegsOK, SQP!Counts
  <2>2. CASE tick_pulse_r
    <3>1. cnt_mem[i] # 0
      BY <2>2 DEF Paced, NoneExpired, Expired, SQ!Slots, SQP!Slots
    <3>2. SQP!Ticked[i] = cnt_mem[i] - 1 /\ cnt_mem[i] - 1 \in SQP!Counts /\ cnt_mem[i] \in Nat \ {0}
      BY <2>1, <2>2, <3>1 DEF SQP!Ticked
    <3>3. d = (c + 1) % TickMod
      BY <1>2, <1>3, <2>2
    <3>4. (d + (cnt_mem[i] - 1)) % TickMod = (c + cnt_mem[i]) % TickMod
      BY <1>1, <3>2, <3>3, NextTickKeepsDue DEF Clock
    <3> QED  BY <2>1, <3>2, <3>4 DEF DueAt
  <2>3. CASE ~tick_pulse_r
    <3>1. SQP!Ticked[i] = cnt_mem[i] /\ d = c
      BY <1>2, <1>3, <2>3 DEF SQP!Ticked
    <3> QED  BY <3>1
  <2> QED  BY <2>2, <2>3
<1> HIDE DEF K, L
<1>6. /\ SQP!HeldWith(id, K) \in Nat /\ SQP!HeldWith(id, L)' \in Nat
      /\ SQP!HeldWith(id, L)'
           + (IF sq_wake_valid' /\ sq_wake_id' = id /\ 0 \in L THEN 1 ELSE 0)
           = SQP!HeldWith(id, K)
             + (IF sq_enqueue /\ SQP!HasRoom /\ sq_enq_id = id /\ sq_enq_counter \in L
                THEN 1 ELSE 0)
  BY ONLY <1>1, <1>4, <1>5, BlockParameters, SQP!HeldWithMoves, ~sq_flush, id \in ID
<1>7. Ending(id, t) = SQP!HeldWith(id, K)
  BY <1>3 DEF Ending, K
<1>8. Ending(id, t)' = SQP!HeldWith(id, L)'
  BY <1>3 DEF Ending, DueAt, L, SQP!HeldWith
<1>9. d = t => 0 \in L
  <2>1. 0 \in SQP!Counts
    BY BlockParameters DEF SQP!Counts
  <2> QED  BY <1>1, <2>1 DEF DueAt, L, Clock
<1>10. sq_enq_counter \in L => (d + sq_enq_counter) % TickMod = t
  BY DEF DueAt, L
<1>11. /\ Once(sq_wake_valid' /\ sq_wake_id' = id /\ tick_count' = t)
            <= IF sq_wake_valid' /\ sq_wake_id' = id /\ 0 \in L THEN 1 ELSE 0
       /\ (IF sq_enqueue /\ SQP!HasRoom /\ sq_enq_id = id /\ sq_enq_counter \in L THEN 1 ELSE 0)
            <= Once(sq_enqueue /\ <<sq_enq_id, (tick_count' + sq_enq_counter) % TickMod>>
                                    = <<id, t>>)
  BY <1>3, <1>9, <1>10 DEF Once
<1> QED  BY <1>6, <1>7, <1>8, <1>11, OnceIsNat

LEMMA DueKept ==
    ASSUME BlocksOK, BlocksOK', Paced, DueInv, TimedNext
    PROVE  DueInv'
<1> DEFINE woken == <<sq_wake_id, tick_count>>
           noted == <<sq_enq_id, (tick_count' + sq_enq_counter) % TickMod>>
<1>1. Next /\ SQ!Step /\ IsBag(due) /\ sq_wake_id \in ID /\ tick_count \in Clock
  BY Wires DEF TimedNext, DueInv, BlocksOK, CUP!TypeOK, CUP!InputsOK, CUP!RegsOK, Clock
<1>2. CASE sq_flush
  <2>1. due' = EmptyBag
    BY <1>2 DEF TimedNext
  <2>2. IsBag(due') /\ \A x : Copies(due', x) = 0
    BY <2>1 DEF IsBag, Copies, EmptyBag, SetToBag
  <2>3. ~sq_wake_valid' /\ \A i \in SQP!Slots : ~valid_mem'[i]
    BY <1>1, <1>2 DEF SQ!Step, SQ!FlushAll, SQ!Advance, SQ!AdvanceAndInsert, SQ!Slots, SQP!Slots
  <2>4. \A id \in ID, t \in Clock : Ending(id, t)' = 0
    <3> SUFFICES ASSUME NEW id \in ID, NEW t \in Clock PROVE Ending(id, t)' = 0
      OBVIOUS
    <3> DEFINE Those == {i \in SQP!Slots : valid_mem[i] /\ id_mem[i] = id
                                          /\ cnt_mem[i] \in DueAt(tick_count, t)}
    <3>1. Those' = {}
      BY <2>3
    <3>2. Ending(id, t)' = Cardinality({})
      BY <3>1, SameNumbers DEF Ending, SQP!HeldWith, DueAt
    <3>3. Cardinality({}) = 0
      BY FS_EmptySet
    <3> QED  BY <3>2, <3>3
  <2> QED  BY <2>2, <2>3, <2>4 DEF DueInv, EveryEndNoted, Once
<1>3. CASE ~sq_flush
  <2> DEFINE W == IF sq_wake_valid THEN {woken} ELSE {}
             N == IF sq_enqueue THEN {noted} ELSE {}
  <2>1. due' = (due (-) SetToBag(W)) (+) SetToBag(N) /\ EveryEndNoted
    BY <1>3 DEF TimedNext, DueInv, Ended, Started
  <2>2. sq_wake_valid => woken \in DOMAIN due
    <3> SUFFICES ASSUME sq_wake_valid PROVE woken \in DOMAIN due
      OBVIOUS
    <3>1. /\ Ending(sq_wake_id, tick_count) \in Nat
          /\ Ending(sq_wake_id, tick_count) + 1 <= Copies(due, woken)
      BY <1>1, <2>1 DEF EveryEndNoted, Once
    <3> QED  BY <1>1, <3>1, CopiesAreNat
  <2>3. /\ \A x : x \in W <=> sq_wake_valid /\ x = woken
        /\ \A x : x \in N <=> sq_enqueue /\ noted = x
        /\ W \subseteq DOMAIN due
    BY <2>2
  <2> HIDE DEF W, N
  <2>4. /\ IsBag(due')
        /\ \A x : Copies(due', x) = Copies(due, x) - Once(x \in W) + Once(x \in N)
    <3>1. /\ IsBag(due (-) SetToBag(W))
          /\ \A x : Copies(due (-) SetToBag(W), x) = Copies(due, x) - Once(x \in W)
      BY <1>1, <2>3, OneFewer
    <3>2. /\ IsBag(due')
          /\ \A x : Copies(due', x) = Copies(due (-) SetToBag(W), x) + Once(x \in N)
      BY <2>1, <3>1, OneMore
    <3> QED  BY <3>1, <3>2
  <2>5. ASSUME ~sq_flush', NEW id \in ID, NEW t \in Clock
        PROVE  /\ Ending(id, t)' \in Nat
               /\ Ending(id, t)' + Once(sq_wake_valid' /\ sq_wake_id' = id /\ tick_count' = t)
                    <= Copies(due', <<id, t>>)
    <3>1. /\ Ending(id, t) \in Nat /\ Ending(id, t)' \in Nat
          /\ Ending(id, t)' + Once(sq_wake_valid' /\ sq_wake_id' = id /\ tick_count' = t)
               <= Ending(id, t) + Once(sq_enqueue /\ noted = <<id, t>>)
      BY <1>1, <1>3, <2>5, EndsStay
    <3>2. Ending(id, t) + Once(sq_wake_valid /\ sq_wake_id = id /\ tick_count = t)
            <= Copies(due, <<id, t>>)
      BY <2>1 DEF EveryEndNoted
    <3>3. /\ Once(<<id, t>> \in W)
               = Once(sq_wake_valid /\ sq_wake_id = id /\ tick_count = t)
          /\ Once(<<id, t>> \in N) = Once(sq_enqueue /\ noted = <<id, t>>)
      BY <2>3 DEF Once
    <3>4. Copies(due', <<id, t>>)
            = Copies(due, <<id, t>>) - Once(<<id, t>> \in W) + Once(<<id, t>> \in N)
      BY <2>4
    <3>5. Copies(due, <<id, t>>) \in Nat
      BY <1>1, CopiesAreNat
    <3> HIDE DEF woken, noted
    <3> QED  BY <3>1, <3>2, <3>3, <3>4, <3>5, OnceIsNat
  <2>6. ~sq_flush' => EveryEndNoted'
    BY <2>5 DEF EveryEndNoted
  <2> QED  BY <2>4, <2>6 DEF DueInv
<1> QED  BY <1>2, <1>3

TimingInv == ChannelInv /\ BlocksOK /\ NullsInOrder /\ Paced /\ DueInv

LEMMA TimingInit ==
    ASSUME SlowTicks, NoNullSleep, TimedInit
    PROVE  TimingInv
<1>1. Init /\ due = EmptyBag
  BY DEF TimedInit
<1>2. ChannelInv /\ BlocksOK
  BY <1>1, InitChannel, BlocksInit
<1>3. NullsInOrder
  <2>1. LastDescribes = FALSE /\ ~Null(beat) /\ ~arm_word2_valid /\ ~cmd_word2_valid /\ ~pending_word2
    BY <1>1, BeatAddresses
       DEF Init, Slave!PowerOn, CU!PowerOn, CU!ZeroWord, LastDescribes, Describing, Null
  <2> QED  BY <1>1, <2>1 DEF Init, NoNullSleep, NullsInOrder
<1>4. Paced
  BY <1>1, WidthAssumption DEF Init, CU!PowerOn, Timer!PowerOn, SQ!Empty, Paced, Expired, SlowTicks
<1>5. DueInv
  BY <1>1 DEF Init, CU!PowerOn, DueInv, IsBag, EmptyBag, SetToBag
<1> QED  BY <1>2, <1>3, <1>4, <1>5 DEF TimingInv

LEMMA TimingStep ==
    ASSUME SlowTicks, NoNullSleep, TimingInv, [TimedNext]_timedVars
    PROVE  TimingInv'
<1> USE DEF TimingInv
<1>1. CASE TimedNext
  <2>1. Next
    BY <1>1 DEF TimedNext
  <2>2. BlocksOK' /\ ChannelInv'
    BY <2>1, BlocksStep, ChannelStep
  <2>3. NullsInOrder' /\ Paced'
    BY <2>1, NullsKept, PacedKept
  <2>4. DueInv'
    BY <1>1, <2>2, DueKept
  <2> QED  BY <2>2, <2>3, <2>4
<1>2. CASE UNCHANGED timedVars
  <2>1. UNCHANGED vars /\ UNCHANGED due
    BY <1>2 DEF timedVars
  <2>2. BlocksOK' /\ ChannelInv'
    BY <2>1, BlocksClock, ChannelStep
  <2>3. UNCHANGED <<host, slave, timer, sq, ctrl>>
    BY <2>1 DEF vars
  <2>4. NullsInOrder'
    BY <2>3 DEF host, slave, ctrl, NullsInOrder, NullsDescribe, Null, Describing,
                LastDescribes, Describes, NullWord2
  <2>5. Paced'
    BY <2>3 DEF timer, sq, ctrl, Paced, NoneExpired, Expired
  <2>6. DueInv'
    <3>1. ASSUME NEW id, NEW t PROVE Ending(id, t)' = Ending(id, t)
      BY <2>3 DEF sq, ctrl, Ending, SQP!HeldWith, DueAt
    <3>2. EveryEndNoted' = EveryEndNoted
      BY <2>1, <2>3, <3>1 DEF sq, ctrl, EveryEndNoted, Copies
    <3> QED  BY <2>1, <2>3, <3>2 DEF ctrl, DueInv, IsBag
  <2> QED  BY <2>2, <2>4, <2>5, <2>6
<1> QED  BY <1>1, <1>2

(* For any host and any timing of its calls: with ticks at least SQ_DEPTH   *)
(* clocks apart and no sleep of zero ticks, a sleep of n ticks ends exactly *)
(* n counted ticks after it entered the queue.                             *)
THEOREM SleepsEndOnTime ==
    ASSUME SlowTicks, NoNullSleep
    PROVE  TimedSpec => []WakesOnTime
<1>1. TimedInit => TimingInv
  BY TimingInit
<1>2. TimingInv /\ [TimedNext]_timedVars => TimingInv'
  BY TimingStep
<1>3. TimingInv => WakesOnTime
  <2> SUFFICES ASSUME TimingInv, sq_wake_valid, ~sq_flush
               PROVE  BagIn(<<sq_wake_id, tick_count>>, due)
    BY DEF WakesOnTime
  <2>1. sq_wake_id \in ID /\ tick_count \in Clock /\ IsBag(due) /\ EveryEndNoted
    BY DEF TimingInv, DueInv, BlocksOK, CUP!TypeOK, CUP!InputsOK, CUP!RegsOK, Clock
  <2>2. /\ Ending(sq_wake_id, tick_count) \in Nat
        /\ Ending(sq_wake_id, tick_count) + 1 <= Copies(due, <<sq_wake_id, tick_count>>)
    BY <2>1 DEF EveryEndNoted, Once
  <2>3. <<sq_wake_id, tick_count>> \in DOMAIN due
    BY <2>1, <2>2, CopiesAreNat
  <2> QED  BY <2>3 DEF BagIn, BagToSet
<1> QED  BY <1>1, <1>2, <1>3, PTL DEF TimedSpec
-----------------------------------------------------------------------------
(***************************************************************************)
(* The firmware's first task.  app_main's boot is followed word by word    *)
(* over the wire, through the control unit and into the ready queue, until *)
(* its ACTIVATE finds both tasks waiting with the nearer deadline in front.*)
(***************************************************************************)
(* What main.c says of its two tasks, and no more: the boot is app_main's  *)
(* in EDF mode, the tasks are two and neither is the identifier of nobody, *)
(* the second has the nearer deadline (200 ticks, the first 1000).  The    *)
(* queue has room for both (it has six cells), and a transfer takes longer *)
(* than a word needs to be executed (32 bits of SPI against three clocks). *)
TwoTasks ==
    /\ Boot = BootCalls /\ MODE_EDF = 2 /\ HostGap >= 3 /\ PQ_DEPTH >= 2
    /\ T1.task_id # T2.task_id /\ NoTask \notin {T1.task_id, T2.task_id}
    /\ T2.deadline < T1.deadline

ActivateWord == W1([op |-> "ACTIVATE", id |-> 0])
BootWord ==
    [n \in 1 .. 9 |->
        CASE n = 1 -> W1([op |-> "CONFIG", id |-> 0, mode |-> MODE_EDF,
                          divider |-> TickDivider, preempt |-> TRUE, mask |-> ResetMask])
          [] n = 2 -> W1([op |-> "CREATE", id |-> T1.task_id, priority |-> T1.priority,
                          deadline |-> T1.deadline])
          [] n = 3 -> W2([hi |-> T1.period, lo |-> T1.wcet])
          [] n = 4 -> W1([op |-> "CREATE", id |-> T2.task_id, priority |-> T2.priority,
                          deadline |-> T2.deadline])
          [] n = 5 -> W2([hi |-> T2.period, lo |-> T2.wcet])
          [] n = 6 -> W1([op |-> "RESUME", id |-> T1.task_id])
          [] n = 7 -> W1([op |-> "RESUME", id |-> T2.task_id])
          [] n = 8 -> W1([op |-> "RUN", id |-> 0])
          [] OTHER -> ActivateWord]

LEMMA Appended ==
    ASSUME NEW S, NEW s \in Seq(S), NEW b \in S, NEW k \in Nat, Len(s) = k
    PROVE  /\ s \o <<b>> \in Seq(S) /\ Len(s \o <<b>>) = k + 1
           /\ (s \o <<b>>)[k + 1] = b
           /\ \A i \in 1 .. k : (s \o <<b>>)[i] = s[i]
<1>1. <<b>> \in Seq(S) /\ Len(<<b>>) = 1 /\ <<b>>[1] = b
  OBVIOUS
<1> DEFINE t == <<b>>
<1> HIDE DEF t
<1>2. t \in Seq(S) /\ Len(t) = 1 /\ t[1] = b
  BY <1>1 DEF t
<1> DEFINE u == s \o t
<1>3. /\ u \in Seq(S) /\ Len(u) = Len(s) + Len(t)
      /\ \A i \in 1 .. Len(s) + Len(t) : u[i] = IF i <= Len(s) THEN s[i] ELSE t[i - Len(s)]
  BY <1>2, ConcatProperties, Zenon
<1> HIDE DEF u
<1>4. Len(u) = k + 1 /\ u[k + 1] = b /\ \A i \in 1 .. k : u[i] = s[i]
  BY <1>2, <1>3
<1> QED  BY <1>3, <1>4 DEF t, u

LEMMA AppendedTwo ==
    ASSUME NEW S, NEW s \in Seq(S), NEW b \in S, NEW c \in S, NEW k \in Nat, Len(s) = k
    PROVE  /\ s \o <<b, c>> \in Seq(S) /\ Len(s \o <<b, c>>) = k + 2
           /\ (s \o <<b, c>>)[k + 1] = b /\ (s \o <<b, c>>)[k + 2] = c
           /\ \A i \in 1 .. k : (s \o <<b, c>>)[i] = s[i]
<1>1. <<b, c>> \in Seq(S) /\ Len(<<b, c>>) = 2 /\ <<b, c>>[1] = b /\ <<b, c>>[2] = c
  OBVIOUS
<1> DEFINE t == <<b, c>>
<1> HIDE DEF t
<1>2. t \in Seq(S) /\ Len(t) = 2 /\ t[1] = b /\ t[2] = c
  BY <1>1 DEF t
<1> DEFINE u == s \o t
<1>3. /\ u \in Seq(S) /\ Len(u) = Len(s) + Len(t)
      /\ \A i \in 1 .. Len(s) + Len(t) : u[i] = IF i <= Len(s) THEN s[i] ELSE t[i - Len(s)]
  BY <1>2, ConcatProperties, Zenon
<1> HIDE DEF u
<1>4. Len(u) = k + 2 /\ \A i \in 1 .. k + 2 : u[i] = IF i <= k THEN s[i] ELSE t[i - k]
  BY <1>2, <1>3
<1>5. u[k + 1] = b /\ u[k + 2] = c
  <2>1. (k + 1) - k = 1 /\ (k + 2) - k = 2 /\ ~(k + 1 <= k) /\ ~(k + 2 <= k)
        /\ k + 1 \in 1 .. k + 2 /\ k + 2 \in 1 .. k + 2
    OBVIOUS
  <2> QED  BY <1>2, <1>4, <2>1
<1>6. \A i \in 1 .. k : u[i] = s[i]
  BY <1>4
<1> QED  BY <1>3, <1>4, <1>5, <1>6 DEF t, u

(* The nine words of the boot. *)
LEMMA BootWords == Len(BootCalls) = 9 /\ \A n \in 1 .. 9 : BootCalls[n] = BootWord[n]
<1> DEFINE b(n) == BootWord[n]
           S  == {b(n) : n \in 1 .. 9}
<1>1. BootCalls = <<b(1)>> \o <<b(2), b(3)>> \o <<b(4), b(5)>> \o <<b(6)>> \o <<b(7)>>
                  \o <<b(8)>> \o <<b(9)>>
  BY DEF BootCalls, sched_configure, sched_create, Plain, BootWord, ActivateWord
<1> HIDE DEF b
<1>2. /\ b(1) \in S /\ b(2) \in S /\ b(3) \in S /\ b(4) \in S /\ b(5) \in S
      /\ b(6) \in S /\ b(7) \in S /\ b(8) \in S /\ b(9) \in S
  OBVIOUS
<1> HIDE DEF S
<1> DEFINE s1 == <<b(1)>>
           s2 == s1 \o <<b(2), b(3)>>
           s3 == s2 \o <<b(4), b(5)>>
           s4 == s3 \o <<b(6)>>
           s5 == s4 \o <<b(7)>>
           s6 == s5 \o <<b(8)>>
           s7 == s6 \o <<b(9)>>
           Is(s, k) == s \in Seq(S) /\ Len(s) = k /\ \A i \in 1 .. k : s[i] = b(i)
<1>3. Is(s1, 1)
  BY <1>2
<1> HIDE DEF s1
<1>4. ASSUME NEW s, NEW k \in 1 .. 7, Is(s, k), b(k + 1) \in S, b(k + 2) \in S
      PROVE  Is(s \o <<b(k + 1), b(k + 2)>>, k + 2)
  <2> DEFINE u == s \o <<b(k + 1), b(k + 2)>>
  <2>1. /\ u \in Seq(S) /\ Len(u) = k + 2 /\ u[k + 1] = b(k + 1) /\ u[k + 2] = b(k + 2)
        /\ \A i \in 1 .. k : u[i] = s[i]
    BY <1>4, AppendedTwo
  <2>2. \A i \in 1 .. k + 2 : i \in 1 .. k \/ i = k + 1 \/ i = k + 2
    OBVIOUS
  <2> HIDE DEF u
  <2>3. Is(u, k + 2)
    BY <1>4, <2>1, <2>2
  <2> QED  BY <2>3 DEF u
<1>5. ASSUME NEW s, NEW k \in 1 .. 8, Is(s, k), b(k + 1) \in S
      PROVE  Is(s \o <<b(k + 1)>>, k + 1)
  <2>1. \A i \in 1 .. k + 1 : i \in 1 .. k \/ i = k + 1
    OBVIOUS
  <2> QED  BY <1>5, <2>1, Appended
<1> HIDE DEF Is
<1>6. Is(s2, 3) /\ Is(s3, 5)
  <2>1. Is(s2, 3)
    BY <1>2, <1>3, <1>4
  <2> HIDE DEF s2
  <2> QED  BY <1>2, <1>4, <2>1
<1> HIDE DEF s2, s3
<1>7. Is(s4, 6)
  BY <1>2, <1>5, <1>6
<1> HIDE DEF s4
<1>8. Is(s5, 7)
  BY <1>2, <1>5, <1>7
<1> HIDE DEF s5
<1>9. Is(s6, 8)
  BY <1>2, <1>5, <1>8
<1> HIDE DEF s6
<1>10. Is(s7, 9)
  BY <1>2, <1>5, <1>9
<1>11. BootCalls = s7
  BY <1>1 DEF s1, s2, s3, s4, s5, s6
<1> HIDE DEF s7
<1> QED  BY <1>10, <1>11 DEF Is, b
-----------------------------------------------------------------------------
BootStates == {"spi_bus_initialize", "spi_bus_add_device", "gpio_config",
               "gpio_isr_handler_add", "boot", "aborted"}
ServiceStates == {"loop", "delay", "clear", "query", "activate"}
Handling == {W1([op |-> "QUERY", id |-> 0, select |-> "irq_reason"]),
             W1([op |-> "NOP", id |-> 0])}

(* What app_main and its interrupt handler do to the words on their way.   *)
Pauses == /\ NoTransfer /\ todo' = todo
          /\ pc = "boot" => pc' = "boot"
          /\ pc \in BootStates => pc' \in BootStates
          /\ pc \in ServiceStates => pc' \in ServiceStates
Asks   == /\ NoTransfer /\ todo' = sched_query("irq_reason")
          /\ pc \in ServiceStates /\ pc' \in ServiceStates
Boots  == /\ Transfer /\ pc = "boot" /\ pc' = IF Len(todo) = 1 THEN "loop" ELSE "boot"
Serves == /\ Transfer \/ Send(ActivateWord, <<>>)
          /\ pc \in ServiceStates /\ pc' \in ServiceStates

LEMMA AppSteps ==
    ASSUME FwNext
    PROVE  Blocks /\ (Pauses \/ Asks \/ Boots \/ Serves)
<1>1. Blocks /\ (AppMain \/ Isr \/ Busy)
  BY DEF FwNext, App, Handler, Elsewhere, Clocked
<1>2. CASE SchedInit
  <2>1. PICK n \in DOMAIN InitSteps :
            /\ pc = InitSteps[n]
            /\ \/ pc' = (IF n < Len(InitSteps) THEN InitSteps[n + 1] ELSE "boot")
               \/ pc' = "aborted"
            /\ NoTransfer /\ UNCHANGED <<todo, g_switch_needed, g_irq_reason>>
    BY <1>2 DEF SchedInit
  <2>2. \A k \in DOMAIN InitSteps : InitSteps[k] \in BootStates \ {"boot"}
    BY DEF InitSteps, BootStates
  <2>3. n < Len(InitSteps) => n + 1 \in DOMAIN InitSteps
    BY DEF InitSteps
  <2>4. pc \in BootStates /\ pc # "boot" /\ pc' \in BootStates
    BY <2>1, <2>2, <2>3 DEF BootStates
  <2>5. pc \notin ServiceStates
    BY <2>4 DEF BootStates, ServiceStates
  <2> QED  BY <1>1, <2>1, <2>4, <2>5 DEF Pauses
<1>3. CASE Boot1
  BY <1>1, <1>3 DEF Boot1, Boots
<1>4. CASE TestFlag \/ Delay
  BY <1>1, <1>4 DEF TestFlag, Delay, Pauses, BootStates, ServiceStates
<1>5. CASE ClearFlag
  BY <1>1, <1>5 DEF ClearFlag, Asks, ServiceStates
<1>6. CASE Query
  BY <1>1, <1>6 DEF Query, Serves, ServiceStates
<1>7. CASE ActivateNext
  BY <1>1, <1>7 DEF ActivateNext, Serves, ServiceStates, Plain, ActivateWord
<1>8. CASE Isr \/ Busy
  BY <1>1, <1>8 DEF Isr, Busy, Pauses
<1> QED  BY <1>1, <1>2, <1>3, <1>4, <1>5, <1>6, <1>7, <1>8 DEF AppMain

LEMMA AppBeats ==
    /\ ActivateWord \in Beats /\ Handling \subseteq Beats
    /\ sched_query("irq_reason") \in Seq(Handling)
<1>1. ActivateWord \in Beats
  BY WidthAssumption DEF ActivateWord, W1, Beats, CU!Word1, CU!PlainOps
<1>2. Handling \subseteq Beats
  BY WidthAssumption DEF Handling, W1, Beats, CU!Word1, CU!PlainOps, CU!Selectors
<1>3. sched_query("irq_reason") \in Seq(Handling)
  BY DEF sched_query, Handling
<1> QED  BY <1>1, <1>2, <1>3

LEMMA SomeTail ==
    ASSUME NEW S, NEW s \in Seq(S), s # <<>>
    PROVE  /\ Head(s) = s[1] /\ Head(s) \in S /\ Tail(s) \in Seq(S)
           /\ Len(s) \in Nat \ {0} /\ Len(Tail(s)) = Len(s) - 1
           /\ \A i \in 1 .. Len(s) - 1 : Tail(s)[i] = s[i + 1]
OBVIOUS

(* The application is a host, as the register file takes it.               *)
LEMMA AppSends ==
    ASSUME HostOK, gap \in 0 .. HostGap, FwNext
    PROVE  /\ HostOK' /\ gap' \in 0 .. HostGap
           /\ beat # NoBeat => beat' = NoBeat
           /\ beat' # NoBeat => gap' = 0 /\ gap = HostGap /\ beat = NoBeat
           /\ gap < HostGap => gap' = gap + 1 /\ (Pauses \/ Asks)
<1> USE HostAssumption DEF HostOK
<1>1. CASE Pauses
  BY <1>1 DEF Pauses, NoTransfer
<1>2. CASE Asks
  <2>1. sched_query("irq_reason") \in Seq(Beats)
    BY AppBeats
  <2> QED  BY <1>2, <2>1 DEF Asks, NoTransfer
<1>3. CASE Transfer
  <2>1. Head(todo) \in Beats /\ Tail(todo) \in Seq(Beats)
    BY <1>3 DEF Transfer
  <2> QED  BY <1>3, <2>1, BeatAddresses DEF Transfer, Send
<1>4. CASE Send(ActivateWord, <<>>)
  BY <1>4, AppBeats DEF Send
<1> QED  BY <1>1, <1>2, <1>3, <1>4, AppSteps DEF Boots, Serves
-----------------------------------------------------------------------------
(* Where the word b is that was sent last: on the bus, armed, handed over. *)
OnBus(b)  == beat = b
Armed(b)  == IF b.addr = "CMD_W1" THEN arm_cmd_valid /\ cmd_word = b.data
                                  ELSE arm_word2_valid /\ cmd_word2 = b.data
HandedOver(b) == IF b.addr = "CMD_W1" THEN cmd_valid /\ cmd_word = b.data
                                      ELSE ~cmd_valid /\ cmd_word2_valid /\ cmd_word2 = b.data
Underway(b) == OnBus(b) \/ Armed(b) \/ HandedOver(b)
Arming  == arm_cmd_valid \/ arm_word2_valid
Handing == cmd_valid \/ cmd_word2_valid
NothingUnderway == beat = NoBeat /\ ~Arming /\ ~Handing

LEMMA WordStages ==
    ASSUME TwoTasks, ChannelInv, OnItsWay, FwNext, NEW b \in Beats
    PROVE  /\ Underway(b) => gap < HostGap
           /\ OnBus(b) => ~Handing /\ Armed(b)'
           /\ Armed(b) => ~Handing /\ HandedOver(b)'
           /\ Handing => beat = NoBeat /\ ~Arming /\ beat' = NoBeat /\ ~Arming' /\ ~Handing'
           /\ NothingUnderway => ~Arming' /\ ~Handing'
<1>1. HostGap \in Nat /\ HostGap >= 3
  BY HostAssumption DEF TwoTasks
<1>2. /\ arm_cmd_valid' = (beat.addr = "CMD_W1")
      /\ arm_word2_valid' = (beat.addr = "CMD_W2")
      /\ cmd_valid' = arm_cmd_valid /\ cmd_word2_valid' = arm_word2_valid
      /\ cmd_word' = IF beat.addr = "CMD_W1" THEN beat.data ELSE cmd_word
      /\ cmd_word2' = IF beat.addr = "CMD_W2" THEN beat.data ELSE cmd_word2
  BY AppSteps, SlavePipeline, Word2InSlave DEF Blocks
<1>3. b # NoBeat /\ b.addr \in {"CMD_W1", "CMD_W2"} /\ NoBeat.addr = "none"
  BY BeatAddresses
<1>4. /\ beat # NoBeat => gap = 0
      /\ Arming => gap = 1 /\ beat = NoBeat
      /\ Handing => gap = 2 /\ beat = NoBeat /\ ~Arming
      /\ ~(arm_cmd_valid /\ arm_word2_valid)
  BY DEF OnItsWay, ChannelInv, OneWord, Arming, Handing
<1>5. OnBus(b) => ~Handing /\ Armed(b)' /\ gap = 0
  BY <1>2, <1>3, <1>4 DEF OnBus, Armed
<1>6. Armed(b) => ~Handing /\ HandedOver(b)' /\ gap = 1
  <2>1. CASE b.addr = "CMD_W1"
    BY <1>2, <1>3, <1>4, <2>1 DEF Armed, HandedOver, Arming
  <2>2. CASE b.addr = "CMD_W2"
    <3>1. Armed(b) => arm_word2_valid /\ cmd_word2 = b.data /\ ~arm_cmd_valid /\ gap = 1
                      /\ beat = NoBeat /\ ~Handing
      BY <1>4, <2>2 DEF Armed, Arming
    <3> QED  BY <1>2, <1>3, <2>2, <3>1 DEF HandedOver
  <2> QED  BY <1>3, <2>1, <2>2
<1>7. HandedOver(b) => gap = 2
  BY <1>4 DEF HandedOver, Handing
<1>8. Handing => beat = NoBeat /\ ~Arming /\ beat' = NoBeat /\ ~Arming' /\ ~Handing'
  <2>1. ASSUME Handing
        PROVE  beat' = NoBeat
    <3>1. gap < HostGap /\ HostOK /\ gap \in 0 .. HostGap
      BY <1>1, <1>4, <2>1 DEF OnItsWay, ChannelInv
    <3> QED  BY <3>1, AppSends, AppSteps DEF Pauses, Asks, NoTransfer
  <2>2. Handing => ~Arming' /\ ~Handing'
    BY <1>2, <1>3, <1>4 DEF Arming, Handing
  <2> QED  BY <1>4, <2>1, <2>2
<1>9. NothingUnderway => ~Arming' /\ ~Handing'
  BY <1>2, <1>3 DEF NothingUnderway, Arming, Handing
<1>10. Underway(b) => gap < HostGap
  BY <1>1, <1>5, <1>6, <1>7 DEF Underway
<1> QED  BY <1>5, <1>6, <1>8, <1>9, <1>10

Left(n) == Len(todo) = 9 - n /\ \A i \in 1 .. 9 - n : todo[i] = BootWord[n + i]
AppServes == pc \in ServiceStates /\ todo \in Seq(Handling)

(* The control unit has executed n words of the boot.                      *)
Booted(n) ==
    \/ NothingUnderway /\ pc \in BootStates /\ Left(n)
    \/ Underway(BootWord[n + 1])
       /\ IF n = 8 THEN AppServes ELSE pc = "boot" /\ Left(n + 1)

LEMMA ServingKept ==
    ASSUME HostOK, AppServes, FwNext
    PROVE  AppServes' /\ beat' \in {NoBeat, ActivateWord} \cup Handling
<1> USE DEF AppServes
<1>1. CASE Pauses
  BY <1>1 DEF Pauses, NoTransfer
<1>2. CASE Asks
  BY <1>2, AppBeats DEF Asks, NoTransfer
<1>3. CASE Boots
  BY <1>3 DEF Boots, ServiceStates
<1>4. CASE Serves
  <2>1. CASE Transfer
    <3>1. Head(todo) \in Handling /\ Tail(todo) \in Seq(Handling)
      BY <2>1, SomeTail DEF Transfer
    <3> QED  BY <1>4, <2>1, <3>1 DEF Serves, Transfer, Send
  <2>2. CASE Send(ActivateWord, <<>>)
    BY <1>4, <2>2 DEF Serves, Send
  <2> QED  BY <1>4, <2>1, <2>2 DEF Serves
<1> QED  BY <1>1, <1>2, <1>3, <1>4, AppSteps

LEMMA BootWordsAreBeats ==
    ASSUME TwoTasks
    PROVE  \A n \in 1 .. 9 : BootWord[n] \in Beats
<1>1. BootCalls \in Seq(Beats)
  BY BeatsAssumption DEF TwoTasks
<1>2. \A n \in 1 .. Len(BootCalls) : BootCalls[n] \in Beats
  BY <1>1
<1> QED  BY <1>2, BootWords

LEMMA BootMoves ==
    ASSUME TwoTasks, ChannelInv, OnItsWay, FwNext, NEW n \in 0 .. 8, Booted(n)
    PROVE  /\ ~Handing => Booted(n)'
           /\ Handing => /\ HandedOver(BootWord[n + 1])
                         /\ n < 8 => Booted(n + 1)'
                         /\ n = 8 => AppServes'
<1> DEFINE b == BootWord[n + 1]
<1>1. b \in Beats
  BY BootWordsAreBeats
<1>2. HostOK /\ gap \in 0 .. HostGap /\ HostGap \in Nat
  BY HostAssumption DEF ChannelInv, OnItsWay
<1>3. pc \in BootStates => pc \notin ServiceStates
  BY DEF BootStates, ServiceStates
<1> HIDE DEF b
<1>4. CASE NothingUnderway /\ pc \in BootStates /\ Left(n)
  <2>1. ~Arming' /\ ~Handing'
    BY <1>1, <1>4, WordStages
  <2>2. CASE Pauses
    <3>1. beat' = NoBeat /\ pc' \in BootStates /\ todo' = todo
      BY <1>4, <2>2 DEF Pauses, NoTransfer
    <3>2. Left(n)'
      BY <1>4, <3>1 DEF Left
    <3> QED  BY <1>4, <2>1, <3>1, <3>2 DEF Booted, NothingUnderway
  <2>3. CASE Boots
    <3>1. /\ todo # <<>> /\ beat' = Head(todo) /\ todo' = Tail(todo)
          /\ pc' = IF Len(todo) = 1 THEN "loop" ELSE "boot"
      BY <2>3 DEF Boots, Transfer, Send
    <3>2. /\ Head(todo) = todo[1] /\ Tail(todo) \in Seq(Beats)
          /\ Len(Tail(todo)) = Len(todo) - 1
          /\ \A i \in 1 .. Len(todo) - 1 : Tail(todo)[i] = todo[i + 1]
      BY <1>2, <3>1, SomeTail DEF HostOK
    <3>3. beat' = b
      BY <1>4, <3>1, <3>2 DEF Left, b
    <3>4. Left(n + 1)'
      <4>1. Len(todo') = 9 - (n + 1)
        BY <1>4, <3>1, <3>2 DEF Left
      <4>2. ASSUME NEW i \in 1 .. 9 - (n + 1)
            PROVE  todo'[i] = BootWord[n + 1 + i]
        <5>1. i + 1 \in 1 .. 9 - n /\ i \in 1 .. (9 - n) - 1 /\ n + (i + 1) = n + 1 + i
          OBVIOUS
        <5> QED  BY <1>4, <3>1, <3>2, <5>1 DEF Left
      <4> QED  BY <4>1, <4>2 DEF Left
    <3>5. n = 8 => AppServes'
      <4>1. n = 8 => Len(todo') = 0 /\ todo' \in Seq(Beats) /\ pc' = "loop"
        BY <1>4, <3>1, <3>2 DEF Left
      <4> QED  BY <4>1 DEF AppServes, ServiceStates
    <3>6. n # 8 => pc' = "boot"
      BY <1>4, <3>1 DEF Left
    <3>7. Underway(b)'
      BY <3>3 DEF Underway, OnBus, b
    <3> QED  BY <1>4, <3>4, <3>5, <3>6, <3>7 DEF Booted, NothingUnderway, b
  <2>4. ~Asks /\ ~Serves
    BY <1>3, <1>4 DEF Asks, Serves
  <2> QED  BY <1>4, <2>2, <2>3, <2>4, AppSteps DEF NothingUnderway
<1>5. CASE Underway(b) /\ IF n = 8 THEN AppServes ELSE pc = "boot" /\ Left(n + 1)
  <2>1. gap < HostGap
    BY <1>1, <1>5, WordStages
  <2>2. IF n = 8 THEN AppServes' ELSE pc' = "boot" /\ Left(n + 1)' /\ beat' = NoBeat
    <3>1. CASE n = 8
      BY <1>2, <1>5, <3>1, ServingKept
    <3>2. CASE n # 8
      <4>1. Pauses
        BY <1>2, <1>5, <2>1, <3>2, AppSends DEF Asks, ServiceStates
      <4>2. pc' = "boot" /\ todo' = todo /\ beat' = NoBeat
        BY <1>5, <3>2, <4>1 DEF Pauses, NoTransfer
      <4> QED  BY <1>5, <3>2, <4>2 DEF Left
    <3> QED  BY <3>1, <3>2
  <2>3. CASE OnBus(b) \/ Armed(b)
    <3>1. ~Handing /\ Underway(b)'
      BY <1>1, <2>3, WordStages DEF Underway, b
    <3> QED  BY <2>2, <3>1 DEF Booted, b
  <2>4. CASE HandedOver(b)
    <3>1. Handing
      BY <2>4 DEF HandedOver, Handing
    <3>2. ~Arming' /\ ~Handing' /\ beat' = NoBeat
      BY <1>1, <3>1, WordStages
    <3>3. n < 8 => Booted(n + 1)'
      BY <2>2, <3>2 DEF Booted, NothingUnderway, BootStates
    <3> QED  BY <2>2, <2>4, <3>1, <3>3 DEF b
  <2> QED  BY <1>5, <2>3, <2>4 DEF Underway
<1> QED  BY <1>4, <1>5 DEF Booted, b
-----------------------------------------------------------------------------
(* What app_main's two tasks are, as words of the wire. *)
LEMMA TaskTypes ==
    ASSUME TwoTasks
    PROVE  /\ T1.task_id \in ID /\ T1.deadline \in 0 .. TimeMod - 1
           /\ T2.task_id \in ID /\ T2.deadline \in 0 .. TimeMod - 1
<1>1. ASSUME NEW w \in CU!Word1, w.op = "CREATE"
      PROVE  w.id \in ID /\ w.deadline \in 0 .. TimeMod - 1
  BY <1>1 DEF CU!Word1, CU!PlainOps, CU!Times
<1>2. \A b \in Beats : b.addr = "CMD_W1" => b.data \in CU!Word1
  BY DEF Beats
<1>3. BootWord[2] \in Beats /\ BootWord[4] \in Beats
  BY BootWordsAreBeats
<1>4. /\ BootWord[2].addr = "CMD_W1" /\ BootWord[2].data.op = "CREATE"
      /\ BootWord[2].data.id = T1.task_id /\ BootWord[2].data.deadline = T1.deadline
      /\ BootWord[4].addr = "CMD_W1" /\ BootWord[4].data.op = "CREATE"
      /\ BootWord[4].data.id = T2.task_id /\ BootWord[4].data.deadline = T2.deadline
  BY DEF BootWord, W1
<1> QED  BY <1>1, <1>2, <1>3, <1>4

(* Which operation a word is. *)
LEMMA OpcodeDecides ==
    ASSUME CU!Operation
    PROVE  /\ cmd_valid /\ cmd_word.op = "CONFIG" => CU!Configure
           /\ cmd_valid /\ cmd_word.op = "RUN" => CU!RunOrStop
           /\ cmd_valid /\ cmd_word.op = "RESUME" => CU!Resume
           /\ cmd_valid /\ cmd_word.op = "ACTIVATE" => CU!Activate \/ CU!ActivateEmpty
           /\ cmd_valid /\ cmd_word.op \in {"NOP", "QUERY"} => CU!Inform
           /\ ~cmd_valid /\ pending_word2 /\ cmd_word2_valid /\ pending_word1.op = "CREATE"
                  => CU!Create
BY DEF CU!Operation, CU!Idle, CU!Inform, CU!Configure, CU!RunOrStop, CU!FirstWord, CU!Create,
       CU!Modify, CU!LongSleep, CU!SecondWord, CU!ShortSleep, CU!Yield,
       CU!YieldAperiodic, CU!Retire, CU!Resume, CU!Activate, CU!ActivateEmpty,
       CU!Reset, CU!ResetRefused, CU!Command, CU!Word2For, CU!Resets, CU!TwoWordOps

LEMMA BootWordDecides ==
    ASSUME CU!Operation, NEW n \in 0 .. 8, HandedOver(BootWord[n + 1]),
           n \in {2, 4} => pending_word2 /\ pending_word1 = BootWord[n].data
    PROVE  /\ n = 0 => CU!Configure /\ cmd_word.mode = MODE_EDF
           /\ n \in {1, 3} => CU!FirstWord /\ cmd_word = BootWord[n + 1].data
           /\ n \in {2, 4} => CU!Create
           /\ n \in {5, 6} => CU!Resume /\ cmd_word.op = "RESUME" /\ cmd_valid
                              /\ cmd_word = BootWord[n + 1].data
           /\ n = 7 => CU!RunOrStop
           /\ n = 8 => (CU!Activate \/ CU!ActivateEmpty) /\ cmd_word.op = "ACTIVATE" /\ cmd_valid
<1> USE OpcodeDecides, WordDecides DEF HandedOver, BootWord, W1, W2
<1>1. CASE n = 0
  BY <1>1
<1>2. CASE n = 1
  BY <1>2 DEF CU!TwoWordOps
<1>3. CASE n = 2
  BY <1>3
<1>4. CASE n = 3
  BY <1>4 DEF CU!TwoWordOps
<1>5. CASE n = 4
  BY <1>5
<1>6. CASE n = 5
  BY <1>6
<1>7. CASE n = 6
  BY <1>7
<1>8. CASE n = 7
  BY <1>8
<1>9. CASE n = 8
  BY <1>9 DEF ActivateWord
<1> QED  BY <1>1, <1>2, <1>3, <1>4, <1>5, <1>6, <1>7, <1>8, <1>9
-----------------------------------------------------------------------------
NoSleeper == ~sq_enqueue /\ ~sq_wake_valid /\ sq_depth = 0
TimerQuiet == ~timer_enable /\ ~tick_pulse /\ ~tick_pulse_r /\ tick_count = 0

Settings(n) ==
    /\ current_task = NoTask /\ NoSleeper
    /\ n >= 1 => sched_mode = 2 /\ ~tt_clear_all /\ ~pq_flush
    /\ n < 8 => TimerQuiet

DeadlineOf(id) ==
    IF tt_wr.en /\ tt_wr.id = id THEN tt_wr.task.deadline ELSE table[id].deadline

Descriptors(n) ==
    /\ pending_word2 <=> n \in {2, 4}
    /\ n \in {2, 4} => pending_word1 = BootWord[n].data
    /\ tt_wr.en => ~Arming /\ ~Handing
    /\ n >= 3 => DeadlineOf(T1.task_id) = T1.deadline
    /\ n >= 5 => DeadlineOf(T2.task_id) = T2.deadline

LEMMA NobodySleeps ==
    ASSUME NoSleeper, SQ!Step, ~sq_enqueue'
    PROVE  NoSleeper'
BY DEF NoSleeper, SQ!Step, SQ!FlushAll, SQ!Advance, SQ!AdvanceAndInsert, SQ!HeadExpired,
       SQ!DepthAfterWake

LEMMA TimerStaysQuiet ==
    ASSUME TimerQuiet, Timer!Step, tick_pulse_r' = tick_pulse, CU!CountTick
    PROVE  ~tick_pulse' /\ ~tick_pulse_r' /\ tick_count' = 0
BY DEF TimerQuiet, Timer!Step, Timer!Stopped, Timer!Pulse, Timer!Count, CU!CountTick

(* The words of the boot start no sleep, dispatch nothing and reset nothing. *)
LEMMA Uneventful ==
    ASSUME CU!Idle \/ CU!Configure \/ CU!FirstWord \/ CU!Create \/ CU!Resume \/ CU!RunOrStop
           \/ CU!Inform \/ CU!ActivateEmpty
    PROVE  /\ ~sq_enqueue' /\ ~pq_dequeue' /\ ~pq_flush' /\ ~tt_clear_all'
           /\ current_task' = current_task /\ CU!CountTick
           /\ ~CU!RunOrStop => timer_enable' = timer_enable
           /\ ~CU!Configure => sched_mode' = sched_mode
<1> USE DEF CU!QueuesIdle, CU!NoSleep, CU!NoDequeue, CU!NoFlush, CU!KeepSettings, CU!config,
            CU!SecondWord
<1>1. CASE CU!Idle
  BY <1>1 DEF CU!Idle
<1>2. CASE CU!Configure
  BY <1>2 DEF CU!Configure
<1>3. CASE CU!FirstWord
  BY <1>3 DEF CU!FirstWord
<1>4. CASE CU!Create
  BY <1>4 DEF CU!Create
<1>5. CASE CU!Resume
  BY <1>5 DEF CU!Resume
<1>6. CASE CU!RunOrStop
  BY <1>6 DEF CU!RunOrStop
<1>7. CASE CU!Inform
  BY <1>7 DEF CU!Inform
<1>8. CASE CU!ActivateEmpty
  BY <1>8 DEF CU!ActivateEmpty
<1> QED  BY <1>1, <1>2, <1>3, <1>4, <1>5, <1>6, <1>7, <1>8

(* Only RESUME offers a task, only CREATE and RESUME write to the table.   *)
LEMMA NothingWritten ==
    ASSUME CU!Idle \/ CU!Configure \/ CU!FirstWord \/ CU!RunOrStop
           \/ CU!Inform \/ CU!ActivateEmpty,
           ~sq_wake_valid, current_task = NoTask
    PROVE  ~tt_wr'.en /\ ~pq_enqueue'
<1>1. CU!NoTaskWrite /\ CU!NoReady
  BY DEF CU!Idle, CU!Configure, CU!FirstWord, CU!RunOrStop, CU!Inform, CU!ActivateEmpty,
         CU!QueuesIdle
<1>2. ~CU!TickDecrements
  BY DEF CU!TickDecrements
<1> QED  BY <1>1, <1>2 DEF CU!NoTaskWrite, CU!NoReady, CU!NoWrite

LEMMA DeadlineMoves ==
    ASSUME BlocksOK, CU!CommitTable, ~tt_clear_all, NEW id \in ID
    PROVE  DeadlineOf(id)' = IF tt_wr'.en /\ tt_wr'.id = id THEN tt_wr'.task.deadline
                             ELSE DeadlineOf(id)
<1>1. table \in [ID -> CUP!Task] /\ tt_wr.en \in BOOLEAN
  BY DEF BlocksOK, CUP!TypeOK, CUP!RegsOK, CUP!TaskWrite
<1> QED  BY <1>1 DEF DeadlineOf, CU!CommitTable
-----------------------------------------------------------------------------
LEMMA ResumeOffers ==
    ASSUME BlocksOK, CU!Resume, cmd_valid, cmd_word.op = "RESUME", cmd_word.id \in ID,
           ~sq_wake_valid, ~pending_word2, ~tick_pulse_r
    PROVE  /\ tt_wr'.en /\ tt_wr'.id = cmd_word.id
           /\ tt_wr'.task.deadline = table[cmd_word.id].deadline
           /\ pq_enqueue' /\ pq_enq_id' = cmd_word.id
           /\ pending_word2' = pending_word2
<1>1. CU!rd = table[cmd_word.id] /\ table[cmd_word.id] \in CUP!Task
  BY DEF CU!rd, CU!tt_rd_id, BlocksOK, CUP!TypeOK, CUP!RegsOK
<1> DEFINE r == table[cmd_word.id]
           t == [r EXCEPT !.status = CU!Ready, !.remaining = r.wcet,
                          !.abs_deadline = CU!Fresh(r.deadline)]
<1>2. t.deadline = r.deadline
  BY <1>1 DEF CUP!Task
<1>3. tt_wr' = CU!Write(cmd_word.id, t)
  BY <1>1 DEF CU!Resume, CU!WriteTask
<1> HIDE DEF t
<1>4. tt_wr'.en /\ tt_wr'.id = cmd_word.id /\ tt_wr'.task = t
  BY <1>3 DEF CU!Write
<1>5. pq_enqueue' /\ pq_enq_id' = cmd_word.id /\ pending_word2' = pending_word2
  BY DEF CU!Resume, CU!MakeReady, CU!KeepPending
<1> QED  BY <1>2, <1>4, <1>5

LEMMA CreateDescribes ==
    ASSUME BlocksOK, CU!Create, pending_word1.id \in ID, ~sq_wake_valid
    PROVE  /\ tt_wr'.en /\ tt_wr'.id = pending_word1.id
           /\ tt_wr'.task.deadline = pending_word1.deadline
           /\ ~pq_enqueue' /\ ~pending_word2'
<1>1. CU!rd = table[pending_word1.id] /\ table[pending_word1.id] \in CUP!Task
  BY DEF CU!Create, CU!SecondWord, CU!Word2For, CU!rd, CU!tt_rd_id, BlocksOK, CUP!TypeOK, CUP!RegsOK
<1> DEFINE r == table[pending_word1.id]
           s == [r EXCEPT !.status = CU!Suspended]
<1>2. s \in [priority : Priorities, period : CUP!Times, deadline : CUP!Times, wcet : CUP!Times,
             status : CUP!Deleted .. CUP!Sleeping, abs_deadline : CUP!Times,
             remaining : CUP!Times]
  BY <1>1 DEF CUP!Task, CU!Suspended, CUP!Deleted, CUP!Sleeping
<1>3. tt_wr' = CU!Write(pending_word1.id, CU!Described(s))
  BY <1>1 DEF CU!Create, CU!WriteTask
<1> HIDE DEF s
<1>4. CU!Described(s).deadline = pending_word1.deadline
  BY <1>2 DEF CU!Described
<1>5. tt_wr'.en /\ tt_wr'.id = pending_word1.id /\ tt_wr'.task = CU!Described(s)
  BY <1>3 DEF CU!Write
<1>6. ~pq_enqueue' /\ ~pending_word2'
  BY DEF CU!Create, CU!SecondWord, CU!QueuesIdle, CU!NoReady
<1> QED  BY <1>4, <1>5, <1>6

(* One more word of the boot. *)
LEMMA SettingsMove ==
    ASSUME TwoTasks, Blocks, NEW n \in 0 .. 7, Settings(n), Descriptors(n),
           HandedOver(BootWord[n + 1])
    PROVE  Settings(n + 1)'
<1>1. /\ SQ!Step /\ Timer!Step /\ CU!Operation /\ tick_pulse_r' = tick_pulse
  BY DEF Blocks, TopRegisters, CU!Step
<1>2. /\ n = 0 => CU!Configure /\ cmd_word.mode = MODE_EDF
      /\ n \in {1, 3} => CU!FirstWord
      /\ n \in {2, 4} => CU!Create
      /\ n \in {5, 6} => CU!Resume
      /\ n = 7 => CU!RunOrStop
  <2>1. n \in 0 .. 8 /\ (n \in {2, 4} => pending_word2 /\ pending_word1 = BootWord[n].data)
    BY DEF Descriptors
  <2> QED  BY <1>1, <2>1, BootWordDecides
<1>3. /\ n \in {0} \cup {1, 3} \cup {2, 4} \cup {5, 6} \cup {7}
  OBVIOUS
<1>4. /\ ~sq_enqueue' /\ ~pq_flush' /\ ~tt_clear_all'
      /\ current_task' = current_task /\ CU!CountTick
  BY <1>2, <1>3, Uneventful
<1>5. NoSleeper' /\ current_task' = NoTask
  BY <1>1, <1>4, NobodySleeps DEF Settings
<1>6. sched_mode' = 2
  <2>1. CASE n = 0
    BY <1>2, <2>1 DEF CU!Configure, TwoTasks
  <2>2. CASE n # 0
    <3>1. ~CU!Configure
      BY <1>2, <1>3, <2>2 DEF CU!Configure, CU!FirstWord, CU!Create, CU!SecondWord, CU!Word2For,
                              CU!Resume, CU!RunOrStop, CU!Command, CU!TwoWordOps
    <3> QED  BY <1>2, <1>3, <2>2, <3>1, Uneventful DEF Settings
  <2> QED  BY <2>1, <2>2
<1>7. n + 1 < 8 => TimerQuiet'
  <2>1. n + 1 < 8 => timer_enable' = timer_enable
    <3>1. n + 1 < 8 => ~CU!RunOrStop
      BY <1>2, <1>3 DEF CU!Configure, CU!FirstWord, CU!Create, CU!SecondWord, CU!Word2For,
                        CU!Resume, CU!RunOrStop, CU!Command, CU!TwoWordOps
    <3> QED  BY <1>2, <1>3, <3>1, Uneventful
  <2> QED  BY <1>1, <1>4, <2>1, TimerStaysQuiet DEF Settings, TimerQuiet
<1> QED  BY <1>4, <1>5, <1>6, <1>7 DEF Settings

LEMMA SettingsStay ==
    ASSUME Blocks, NEW n \in 0 .. 8, Settings(n), ~Handing
    PROVE  Settings(n)' /\ CU!Idle
<1>1. /\ SQ!Step /\ Timer!Step /\ CU!Operation /\ tick_pulse_r' = tick_pulse
  BY DEF Blocks, TopRegisters, CU!Step
<1>2. CU!Idle
  BY <1>1, WordDecides DEF Handing
<1>3. ~CU!Configure /\ ~CU!RunOrStop
  BY <1>2 DEF CU!Idle, CU!Configure, CU!RunOrStop, CU!Command
<1>4. /\ ~sq_enqueue' /\ ~pq_flush' /\ ~tt_clear_all' /\ current_task' = current_task
      /\ CU!CountTick /\ timer_enable' = timer_enable /\ sched_mode' = sched_mode
  BY <1>2, <1>3, Uneventful
<1>5. NoSleeper'
  BY <1>1, <1>4, NobodySleeps DEF Settings
<1>6. n < 8 => TimerQuiet'
  BY <1>1, <1>4, TimerStaysQuiet DEF Settings, TimerQuiet
<1> QED  BY <1>2, <1>4, <1>5, <1>6 DEF Settings

LEMMA DescriptorsMove ==
    ASSUME TwoTasks, BlocksOK, Blocks, NEW n \in 0 .. 7, Settings(n), Descriptors(n),
           HandedOver(BootWord[n + 1]), ~Arming', ~Handing'
    PROVE  Descriptors(n + 1)'
<1>1. CU!Operation /\ CU!CommitTable
  BY DEF Blocks, CU!Step, CU!EveryEdge
<1>2. /\ n = 0 => CU!Configure
      /\ n \in {1, 3} => CU!FirstWord /\ cmd_word = BootWord[n + 1].data
      /\ n \in {2, 4} => CU!Create
      /\ n \in {5, 6} => CU!Resume /\ cmd_word.op = "RESUME" /\ cmd_valid
                         /\ cmd_word = BootWord[n + 1].data
      /\ n = 7 => CU!RunOrStop
  <2>1. n \in 0 .. 8 /\ (n \in {2, 4} => pending_word2 /\ pending_word1 = BootWord[n].data)
    BY DEF Descriptors
  <2> QED  BY <1>1, <2>1, BootWordDecides
<1>3. /\ ~sq_wake_valid /\ current_task = NoTask /\ ~tick_pulse_r
      /\ n >= 1 => ~tt_clear_all
  BY DEF Settings, NoSleeper, TimerQuiet
<1>4. /\ T1.task_id \in ID /\ T2.task_id \in ID /\ T1.task_id # T2.task_id
  BY TaskTypes DEF TwoTasks
<1>5. ~tt_wr.en
  BY DEF Descriptors, HandedOver, Handing
<1>6. n >= 1 => \A id \in ID : DeadlineOf(id)' = IF tt_wr'.en /\ tt_wr'.id = id
                                               THEN tt_wr'.task.deadline ELSE DeadlineOf(id)
  BY <1>1, <1>3, DeadlineMoves
<1>7. CASE n \in {0, 7}
  <2>1. ~tt_wr'.en
    BY <1>2, <1>3, <1>7, NothingWritten
  <2>2. pending_word2' = pending_word2
    BY <1>2, <1>7 DEF CU!Configure, CU!RunOrStop, CU!KeepPending
  <2> QED  BY <1>4, <1>6, <1>7, <2>1, <2>2 DEF Descriptors
<1>8. CASE n \in {1, 3}
  <2>1. ~tt_wr'.en
    BY <1>2, <1>3, <1>8, NothingWritten
  <2>2. pending_word2' /\ pending_word1' = BootWord[n + 1].data
    BY <1>2, <1>8 DEF CU!FirstWord
  <2> QED  BY <1>4, <1>6, <1>8, <2>1, <2>2 DEF Descriptors
<1>9. CASE n \in {2, 4}
  <2>1. /\ n = 2 => pending_word1.id = T1.task_id /\ pending_word1.deadline = T1.deadline
        /\ n = 4 => pending_word1.id = T2.task_id /\ pending_word1.deadline = T2.deadline
    BY <1>9 DEF Descriptors, BootWord, W1
  <2>2. /\ tt_wr'.en /\ tt_wr'.id = pending_word1.id
        /\ tt_wr'.task.deadline = pending_word1.deadline /\ ~pending_word2'
    BY <1>2, <1>3, <1>4, <1>9, <2>1, CreateDescribes
  <2> QED  BY <1>4, <1>6, <1>9, <2>1, <2>2 DEF Descriptors
<1>10. CASE n \in {5, 6}
  <2>1. /\ n = 5 => cmd_word.id = T1.task_id
        /\ n = 6 => cmd_word.id = T2.task_id
    BY <1>2, <1>10 DEF BootWord, W1
  <2>2. /\ tt_wr'.en /\ tt_wr'.id = cmd_word.id
        /\ tt_wr'.task.deadline = table[cmd_word.id].deadline
        /\ pending_word2' = pending_word2
    <3>1. ~pending_word2 /\ ~tick_pulse_r /\ cmd_word.id \in ID
      BY <1>3, <1>4, <1>10, <2>1 DEF Descriptors
    <3> QED  BY <1>2, <1>3, <1>10, <3>1, ResumeOffers
  <2>3. DeadlineOf(cmd_word.id) = table[cmd_word.id].deadline
    BY <1>5 DEF DeadlineOf
  <2> QED  BY <1>4, <1>6, <1>10, <2>1, <2>2, <2>3 DEF Descriptors
<1> QED  BY <1>7, <1>8, <1>9, <1>10

LEMMA DescriptorsStay ==
    ASSUME TwoTasks, BlocksOK, Blocks, NEW n \in 0 .. 8, Settings(n), Descriptors(n), ~Handing
    PROVE  Descriptors(n)'
<1>1. CU!Idle /\ CU!CommitTable
  BY SettingsStay DEF Blocks, CU!Step, CU!EveryEdge
<1>2. /\ ~sq_wake_valid /\ current_task = NoTask
      /\ n >= 1 => ~tt_clear_all
  BY DEF Settings, NoSleeper
<1>3. ~tt_wr'.en
  BY <1>1, <1>2, NothingWritten
<1>4. pending_word2' = pending_word2 /\ pending_word1' = pending_word1
  BY <1>1 DEF CU!Idle, CU!KeepPending
<1>5. n >= 1 => \A id \in ID : DeadlineOf(id)' = DeadlineOf(id)
  BY <1>1, <1>2, <1>3, DeadlineMoves
<1> QED  BY <1>3, <1>4, <1>5, TaskTypes DEF Descriptors
-----------------------------------------------------------------------------
KeyOf(t) == TimeMod - 1 - t.deadline
HeadIs(t) == cell[0].valid /\ cell[0].id = t.task_id /\ cell[0].key = KeyOf(t)

(* A task enters the queue in two clocks: offered, then offered with its key. *)
Offered1(t) == /\ pq_enqueue /\ pq_enq_id = t.task_id /\ ~pq_enqueue_r /\ ~Arming /\ ~Handing
               /\ cmd_word.id = t.task_id /\ table[t.task_id].deadline = t.deadline
Offered2(t) == /\ ~pq_enqueue /\ ~Handing
               /\ pq_enqueue_r /\ pq_enq_id_r = t.task_id /\ pq_enq_key_r = KeyOf(t)
Offering(t) == Offered1(t) \/ Offered2(t)
NotOffering == ~pq_enqueue /\ ~pq_enqueue_r
Queue0 == pq_depth = 0
Queue1 == pq_depth = 1 /\ HeadIs(T1)
Queue2 == pq_depth = 2 /\ HeadIs(T2) /\ cell[1].id = T1.task_id

Queued(n) ==
    /\ ~pq_dequeue
    /\ n <= 5 => NotOffering /\ Queue0
    /\ n = 6 => (Offering(T1) /\ Queue0) \/ (NotOffering /\ Queue1)
    /\ n = 7 => (Offering(T2) /\ Queue1) \/ (NotOffering /\ Queue2)
    /\ n = 8 => NotOffering /\ Queue2

LEMMA QueueStays ==
    ASSUME BlocksOK, PQ!Step, ~pq_dequeue, ~pq_enqueue_r
    PROVE  /\ Queue0 => Queue0'
           /\ ~pq_flush /\ Queue1 => Queue1'
           /\ ~pq_flush /\ Queue2 => Queue2'
<1>1. Queue0 => Queue0'
  BY SamePQStep, PQP!EntersEmpty, WidthAssumption, DepthAssumption DEF BlocksOK, Queue0
<1>2. ~pq_flush => cell' = cell /\ pq_depth' = pq_depth
  BY DEF PQ!Step, PQ!FlushAll, PQ!Hold, PQ!Enqueue, PQ!Dequeue, PQ!DequeueAndEnqueue,
         PQ!enq_valid, PQ!deq_valid
<1> QED  BY <1>1, <1>2 DEF Queue1, Queue2, HeadIs

(* A first task goes to the head, one with a nearer deadline in front of it. *)
LEMMA QueueGrows ==
    ASSUME TwoTasks, BlocksOK, PQ!Step, ~pq_dequeue, ~pq_flush
    PROVE  /\ Queue0 /\ Offered2(T1) => Queue1'
           /\ Queue1 /\ Offered2(T2) => Queue2'
<1>1. PQP!Step /\ PQP!IInv
  BY SamePQStep DEF BlocksOK
<1>2. ASSUME Queue0, Offered2(T1)
      PROVE  Queue1'
  <2>1. pq_depth' = 1 /\ PQP!HeadIsNew
    BY <1>1, <1>2, PQP!EntersEmpty, WidthAssumption, DepthAssumption DEF Queue0, Offered2
  <2> QED  BY <1>2, <2>1 DEF PQP!HeadIsNew, Queue1, HeadIs, Offered2
<1>3. ASSUME Queue1, Offered2(T2)
      PROVE  Queue2'
  <2>1. pq_enq_key_r > cell[0].key
    BY <1>3, TaskTypes, WidthAssumption DEF Queue1, HeadIs, Offered2, KeyOf, TwoTasks
  <2>2. pq_depth' = 2 /\ PQP!HeadIsNew /\ cell'[1] = cell[0]
    BY <1>1, <1>3, <2>1, PQP!EntersInFront, WidthAssumption, DepthAssumption
       DEF Queue1, Offered2, TwoTasks
  <2> QED  BY <1>3, <2>2 DEF PQP!HeadIsNew, Queue1, Queue2, HeadIs, Offered2
<1> QED  BY <1>2, <1>3

LEMMA OfferGetsKey ==
    ASSUME BlocksOK, Blocks, NEW t, t.deadline \in 0 .. TimeMod - 1, Offered1(t),
           CU!Idle, ~sq_wake_valid, current_task = NoTask,
           ~pending_word2, sched_mode = 2, ~tick_pulse_r, tick_count = 0
    PROVE  Offered2(t)'
<1>1. ~pq_enqueue' /\ ~cmd_valid
  BY NothingWritten DEF Offered1, Handing
<1>2. /\ pq_enqueue_r' /\ pq_enq_id_r' = t.task_id /\ pq_enq_key_r' = CU!pq_enq_key
  BY DEF Blocks, TopRegisters, Offered1
<1>3. CU!rd.deadline = t.deadline
  BY <1>1 DEF CU!rd, CU!tt_rd_id, Offered1
<1>4. CU!Fresh(t.deadline) = t.deadline
  BY WidthAssumption DEF CU!Fresh, CU!low
<1>5. CU!pq_enq_key = KeyOf(t)
  BY <1>3, <1>4 DEF CU!pq_enq_key, CU!Invert, KeyOf
<1>6. ~Handing'
  <2>1. ~arm_cmd_valid /\ ~arm_word2_valid
    BY DEF Offered1, Arming
  <2>2. ~cmd_valid' /\ ~cmd_word2_valid'
    BY <2>1 DEF Blocks, Slave!Step, Slave!PulseCommand, Slave!PulseWord2, Slave!WriteW1,
                Slave!WriteW2, Slave!NoBeat
  <2> QED  BY <2>2 DEF Handing
<1> QED  BY <1>1, <1>2, <1>5, <1>6 DEF Offered2

LEMMA QueuedStays ==
    ASSUME TwoTasks, BlocksOK, Blocks, NEW n \in 0 .. 8, Settings(n), Descriptors(n),
           Queued(n), ~Handing
    PROVE  Queued(n)'
<1>1. PQ!Step /\ CU!Idle /\ pq_enqueue_r' = pq_enqueue
  BY SettingsStay DEF Blocks, TopRegisters
<1>2. ~pq_enqueue' /\ ~pq_dequeue'
  BY <1>1, NothingWritten, Uneventful DEF Settings, NoSleeper
<1>3. ~pq_dequeue /\ (n >= 1 => ~pq_flush)
  BY DEF Queued, Settings
<1>4. NotOffering => NotOffering'
  BY <1>1, <1>2 DEF NotOffering
<1>5. Offered2(T1) \/ Offered2(T2) => NotOffering'
  BY <1>1, <1>2 DEF NotOffering, Offered2
<1>6. ASSUME n \in {6, 7}
      PROVE  (Offered1(T1) => Offered2(T1)') /\ (Offered1(T2) => Offered2(T2)')
  <2>1. /\ ~sq_wake_valid /\ current_task = NoTask /\ ~pending_word2 /\ sched_mode = 2
        /\ ~tick_pulse_r /\ tick_count = 0
    BY <1>6 DEF Settings, Descriptors, NoSleeper, TimerQuiet
  <2> QED  BY <1>1, <2>1, TaskTypes, OfferGetsKey
<1>7. CASE n <= 5 \/ n = 8
  BY <1>1, <1>2, <1>3, <1>4, <1>7, QueueStays DEF Queued, NotOffering
<1>8. CASE n = 6
  <2>1. Offered1(T1) /\ Queue0 => Queued(n)'
    BY <1>1, <1>2, <1>3, <1>6, <1>8, QueueStays DEF Queued, Offered1, Offering
  <2>2. Offered2(T1) /\ Queue0 => Queued(n)'
    BY <1>1, <1>2, <1>3, <1>5, <1>8, QueueGrows DEF Queued
  <2>3. NotOffering /\ Queue1 => Queued(n)'
    BY <1>1, <1>2, <1>3, <1>4, <1>8, QueueStays DEF Queued, NotOffering
  <2> QED  BY <1>8, <2>1, <2>2, <2>3 DEF Queued, Offering
<1>9. CASE n = 7
  <2>1. Offered1(T2) /\ Queue1 => Queued(n)'
    BY <1>1, <1>2, <1>3, <1>6, <1>9, QueueStays DEF Queued, Offered1, Offering
  <2>2. Offered2(T2) /\ Queue1 => Queued(n)'
    BY <1>1, <1>2, <1>3, <1>5, <1>9, QueueGrows DEF Queued
  <2>3. NotOffering /\ Queue2 => Queued(n)'
    BY <1>1, <1>2, <1>3, <1>4, <1>9, QueueStays DEF Queued, NotOffering
  <2> QED  BY <1>9, <2>1, <2>2, <2>3 DEF Queued, Offering
<1> QED  BY <1>7, <1>8, <1>9

LEMMA QueuedMoves ==
    ASSUME TwoTasks, BlocksOK, ChannelInv, Blocks, NEW n \in 0 .. 7, Settings(n), Descriptors(n),
           Queued(n), HandedOver(BootWord[n + 1]), beat = NoBeat, ~Arming', ~Handing'
    PROVE  Queued(n + 1)'
<1>1. PQ!Step /\ CU!Operation /\ CU!CommitTable /\ pq_enqueue_r' = pq_enqueue
  BY DEF Blocks, TopRegisters, CU!Step, CU!EveryEdge
<1>2. /\ n = 0 => CU!Configure
      /\ n \in {1, 3} => CU!FirstWord
      /\ n \in {2, 4} => CU!Create
      /\ n \in {5, 6} => CU!Resume /\ cmd_word.op = "RESUME" /\ cmd_valid
                         /\ cmd_word = BootWord[n + 1].data
      /\ n = 7 => CU!RunOrStop
  <2>1. n \in 0 .. 8 /\ (n \in {2, 4} => pending_word2 /\ pending_word1 = BootWord[n].data)
    BY DEF Descriptors
  <2> QED  BY <1>1, <2>1, BootWordDecides
<1>3. /\ ~sq_wake_valid /\ current_task = NoTask /\ ~tick_pulse_r
      /\ n >= 1 => ~tt_clear_all /\ ~pq_flush
      /\ ~pq_dequeue
  BY DEF Settings, NoSleeper, TimerQuiet, Queued
<1>4. ~pq_dequeue'
  BY <1>2, Uneventful
<1>5. NotOffering /\ ~pq_enqueue_r'
  BY <1>1 DEF Queued, Offering, Offered1, Offered2, NotOffering, HandedOver, Handing
<1>6. CASE n \in 0 .. 4 \/ n = 7
  <2>1. ~pq_enqueue'
    <3>1. CASE n \in {2, 4}
      BY <1>2, <1>3, <3>1 DEF CU!Create, CU!QueuesIdle, CU!NoReady
    <3>2. CASE n \in {0, 1, 3, 7}
      BY <1>2, <1>3, <3>2, NothingWritten
    <3> QED  BY <1>6, <3>1, <3>2
  <2>2. NotOffering'
    BY <1>5, <2>1 DEF NotOffering
  <2>3. CASE n = 7
    <3>1. Queue2
      BY <1>5, <2>3 DEF Queued, NotOffering, Offering, Offered1, Offered2
    <3> QED  BY <1>1, <1>3, <1>4, <1>5, <2>2, <2>3, <3>1, QueueStays DEF Queued, NotOffering
  <2>4. CASE n \in 0 .. 4
    <3>1. Queue0
      BY <2>4 DEF Queued
    <3> QED  BY <1>1, <1>3, <1>4, <1>5, <2>2, <2>4, <3>1, QueueStays DEF Queued, NotOffering
  <2> QED  BY <1>6, <2>3, <2>4
<1>7. CASE n \in {5, 6}
  <2>1. /\ T1.task_id \in ID /\ T2.task_id \in ID
        /\ n = 5 => cmd_word.id = T1.task_id
        /\ n = 6 => cmd_word.id = T2.task_id
    BY <1>2, <1>7, TaskTypes DEF BootWord, W1
  <2>2. pq_enqueue' /\ pq_enq_id' = cmd_word.id
    <3>1. ~pending_word2 /\ cmd_word.id \in ID
      BY <1>7, <2>1 DEF Descriptors
    <3> QED  BY <1>2, <1>3, <1>7, <3>1, ResumeOffers
  <2>3. table[cmd_word.id].deadline = IF n = 5 THEN T1.deadline ELSE T2.deadline
    <3>1. ~tt_wr.en
      BY DEF Descriptors, HandedOver, Handing
    <3> QED  BY <1>7, <2>1, <3>1 DEF Descriptors, DeadlineOf
  <2>4. table' = table
    BY <1>1, <1>3, <1>7 DEF CU!CommitTable, Descriptors, HandedOver, Handing
  <2>5. cmd_word' = cmd_word
    BY SlavePipeline, BeatAddresses DEF Blocks
  <2>6. CASE n = 5
    <3>1. Queue0 /\ Queue0'
      BY <1>1, <1>3, <1>5, <2>6, QueueStays DEF Queued, NotOffering
    <3>2. Offered1(T1)'
      BY <1>5, <2>1, <2>2, <2>3, <2>4, <2>5, <2>6 DEF Offered1
    <3> QED  BY <1>4, <2>6, <3>1, <3>2 DEF Queued, Offering
  <2>7. CASE n = 6
    <3>1. Queue1
      BY <1>5, <2>7 DEF Queued, NotOffering, Offering, Offered1, Offered2
    <3>2. Queue1'
      BY <1>1, <1>3, <1>5, <2>7, <3>1, QueueStays DEF NotOffering
    <3>3. Offered1(T2)'
      BY <1>5, <2>1, <2>2, <2>3, <2>4, <2>5, <2>7 DEF Offered1
    <3> QED  BY <1>4, <2>7, <3>2, <3>3 DEF Queued, Offering
  <2> QED  BY <1>7, <2>6, <2>7
<1> QED  BY <1>6, <1>7
-----------------------------------------------------------------------------
(* Booting: the control unit has executed n words, and shows it.           *)
BootInv(n) == Booted(n) /\ Settings(n) /\ Descriptors(n) /\ Queued(n)

(* Afterwards: both tasks are in use, the application only asks and        *)
(* activates.                                                              *)
Calls == {"QUERY", "NOP", "ACTIVATE"}
AsksOnly == /\ beat.addr # "CMD_W2" /\ ~arm_word2_valid /\ ~cmd_word2_valid
            /\ beat.data.op \in Calls /\ cmd_word.op \in Calls
TasksOnly == \A i \in PQ!Cells : cell[i].valid => cell[i].id # NoTask
Serving == AppServes /\ AsksOnly /\ TasksOnly /\ current_task # NoTask
           /\ NoSleeper /\ NotOffering

FwInv ==
    /\ BlocksOK /\ ChannelInv /\ OnItsWay
    /\ Serving \/ \E n \in 0 .. 8 : BootInv(n)

LEMMA Dispatched ==
    ASSUME CU!Activate
    PROVE  /\ current_task' = cell[0].id /\ cell[0].valid
           /\ ~sq_enqueue' /\ pq_enqueue' = sq_wake_valid
BY DEF CU!Activate, CU!NoSleep, CU!NoReady, PQ!head_id, PQ!head_valid

LEMMA OffersNothing ==
    ASSUME CU!Idle \/ CU!Inform \/ CU!ActivateEmpty
    PROVE  pq_enqueue' = sq_wake_valid
BY DEF CU!Idle, CU!Inform, CU!ActivateEmpty, CU!QueuesIdle, CU!NoReady

LEMMA TasksOnlyKept ==
    ASSUME PQ!Step, ~pq_enqueue_r, TasksOnly
    PROVE  TasksOnly'
<1> USE DepthAssumption DEF TasksOnly, PQ!Cells
<1>1. CASE PQ!FlushAll
  BY <1>1 DEF PQ!FlushAll, PQ!NoItem
<1>2. CASE PQ!Hold
  BY <1>2 DEF PQ!Hold
<1>3. CASE PQ!Dequeue
  BY <1>3 DEF PQ!Dequeue, PQ!right, PQ!NoItem
<1>4. ~PQ!Enqueue /\ ~PQ!DequeueAndEnqueue
  BY DEF PQ!Enqueue, PQ!DequeueAndEnqueue, PQ!enq_valid
<1> QED  BY <1>1, <1>2, <1>3, <1>4 DEF PQ!Step

LEMMA ServingStays ==
    ASSUME ChannelInv, FwNext, Serving
    PROVE  Serving'
<1>1. /\ Blocks /\ PQ!Step /\ SQ!Step /\ CU!Operation /\ Slave!Step
      /\ pq_enqueue_r' = pq_enqueue
  BY AppSteps DEF Blocks, TopRegisters, CU!Step
<1>2. AppServes' /\ beat' \in {NoBeat, ActivateWord} \cup Handling
  BY ServingKept DEF ChannelInv, Serving
<1>3. AsksOnly'
  <2>1. beat'.addr # "CMD_W2" /\ beat'.data.op \in Calls
    BY <1>2 DEF NoBeat, CU!ZeroWord, ActivateWord, Handling, W1, Calls
  <2>2. ~arm_word2_valid' /\ ~cmd_word2_valid' /\ cmd_word'.op \in Calls
    <3>1. /\ arm_word2_valid' = (beat.addr = "CMD_W2") /\ cmd_word2_valid' = arm_word2_valid
          /\ cmd_word' = IF beat.addr = "CMD_W1" THEN beat.data ELSE cmd_word
      BY <1>1, SlavePipeline
    <3> QED  BY <3>1 DEF Serving, AsksOnly
  <2> QED  BY <2>1, <2>2 DEF AsksOnly
<1>4. CU!Idle \/ CU!Inform \/ CU!ActivateEmpty \/ CU!Activate
  BY <1>1, WordDecides, OpcodeDecides DEF Serving, AsksOnly, Calls
<1>5. ~pq_enqueue' /\ ~sq_enqueue'
  BY <1>4, Dispatched, OffersNothing, Uneventful DEF Serving, NoSleeper
<1>6. current_task' # NoTask
  <2>1. CASE CU!Activate
    BY <2>1, Dispatched, DepthAssumption DEF Serving, TasksOnly, PQ!Cells
  <2>2. CASE CU!Idle \/ CU!Inform \/ CU!ActivateEmpty
    BY <2>2, Uneventful DEF Serving
  <2> QED  BY <1>4, <2>1, <2>2
<1>7. TasksOnly'
  BY <1>1, TasksOnlyKept DEF Serving, NotOffering
<1>8. NoSleeper' /\ NotOffering'
  BY <1>1, <1>5, NobodySleeps DEF Serving, NotOffering
<1> QED  BY <1>2, <1>3, <1>6, <1>7, <1>8 DEF Serving

(* The last word of the boot dispatches the head of the queue: task 2.     *)
LEMMA FirstDispatch ==
    ASSUME TwoTasks, CU!Operation, BootInv(8), HandedOver(BootWord[9])
    PROVE  CU!Activate /\ current_task' = T2.task_id
<1>1. CU!Activate \/ CU!ActivateEmpty
  <2>1. 8 \in 0 .. 8 /\ 8 + 1 = 9 /\ 8 \notin {2, 4}
    OBVIOUS
  <2> QED  BY <2>1, BootWordDecides
<1>2. cell[0].valid /\ cell[0].id = T2.task_id
  BY DEF BootInv, Queued, Queue2, HeadIs
<1>3. CU!Activate
  BY <1>1, <1>2 DEF CU!ActivateEmpty, PQ!head_valid
<1> QED  BY <1>2, <1>3, Dispatched

LEMMA ServingStarts ==
    ASSUME TwoTasks, ChannelInv, OnItsWay, BlocksOK, BlocksOK', FwNext, BootInv(8), Handing
    PROVE  Serving'
<1>1. /\ Blocks /\ PQ!Step /\ SQ!Step /\ CU!Operation /\ Slave!Step
      /\ pq_enqueue_r' = pq_enqueue
  BY AppSteps DEF Blocks, TopRegisters, CU!Step
<1>2. HandedOver(BootWord[9]) /\ AppServes'
  <2>1. 8 \in 0 .. 8 /\ 8 + 1 = 9
    OBVIOUS
  <2> QED  BY <2>1, BootMoves DEF BootInv
<1>3. beat = NoBeat /\ beat' = NoBeat /\ ~Arming' /\ ~Handing'
  BY BootWordsAreBeats, WordStages
<1>4. CU!Activate /\ current_task' = T2.task_id
  BY <1>1, <1>2, FirstDispatch
<1>5. AsksOnly'
  <2>1. cmd_word' = cmd_word /\ cmd_word.op = "ACTIVATE"
    BY <1>1, <1>2, <1>3, SlavePipeline, BeatAddresses
       DEF HandedOver, BootWord, ActivateWord, W1
  <2> QED  BY <1>3, <2>1 DEF AsksOnly, Calls, Arming, Handing, NoBeat, CU!ZeroWord
<1>6. NoSleeper' /\ NotOffering'
  BY <1>1, <1>4, Dispatched, NobodySleeps DEF BootInv, Settings, Queued, NoSleeper, NotOffering
<1>7. TasksOnly'
  <2>1. Queue2'
    BY <1>1, QueueStays DEF BootInv, Queued, NotOffering, Settings
  <2>2. \A i \in PQ!Cells : cell'[i].valid => i \in {0, 1}
    BY <2>1, DepthAssumption DEF BlocksOK, PQP!IInv, PQP!QueueInvariant, PQP!Cells, PQ!Cells, Queue2
  <2> QED  BY <2>1, <2>2 DEF TasksOnly, Queue2, HeadIs, TwoTasks
<1> QED  BY <1>2, <1>4, <1>5, <1>6, <1>7 DEF Serving, TwoTasks

LEMMA FwInitial ==
    ASSUME TwoTasks, FwInit
    PROVE  FwInv
<1>1. BlocksOK /\ ChannelInv
  BY BlocksInit, InitChannel DEF FwInit
<1>2. OnItsWay
  <2>1. HostGap \in Nat /\ beat = NoBeat
    BY HostAssumption DEF FwInit, Init
  <2>2. /\ cmd_valid = FALSE /\ cmd_word2_valid = FALSE
        /\ arm_cmd_valid = FALSE /\ arm_word2_valid = FALSE
    BY DEF FwInit, Init, Slave!PowerOn
  <2>3. gap \in 0 .. HostGap
    BY <2>1 DEF FwInit, Init
  <2> QED  BY <2>1, <2>2, <2>3 DEF OnItsWay
<1>3. Booted(0)
  <2>1. pc \in BootStates
    BY DEF FwInit, InitSteps, BootStates
  <2>2. Left(0)
    BY BootWords DEF FwInit, Init, TwoTasks, Left
  <2> QED  BY <2>1, <2>2 DEF FwInit, Init, Slave!PowerOn, Booted, NothingUnderway, Arming, Handing
<1>4. Settings(0)
  BY DEF FwInit, Init, CU!PowerOn, Timer!PowerOn, SQ!Empty, Settings, NoSleeper, TimerQuiet
<1>5. Descriptors(0)
  BY DEF FwInit, Init, CU!PowerOn, CU!NoWrite, Descriptors
<1>6. Queued(0)
  BY DEF FwInit, Init, CU!PowerOn, Queued, NotOffering, Queue0
<1> QED  BY <1>1, <1>2, <1>3, <1>4, <1>5, <1>6 DEF FwInv, BootInv

LEMMA FwClock ==
    ASSUME TwoTasks, FwInv, FwNext
    PROVE  FwInv' /\ (current_task = NoTask => current_task' \in {NoTask, T2.task_id})
<1>1. Blocks /\ CU!Operation /\ Slave!Step
  BY AppSteps DEF Blocks, CU!Step
<1>2. /\ HostOK' /\ gap' \in 0 .. HostGap
      /\ beat # NoBeat => beat' = NoBeat
      /\ beat' # NoBeat => gap' = 0
      /\ gap < HostGap => gap' = gap + 1
  BY AppSends DEF FwInv, ChannelInv, OnItsWay
<1>3. BlocksOK' /\ ChannelInv' /\ OnItsWay'
  <2>1. BlocksOK'
    BY <1>1, <1>2, BlocksKept DEF FwInv
  <2>2. ChannelInv'
    BY <1>1, <1>2, SlaveKeepsUp DEF FwInv
  <2>3. OnItsWay'
    BY <1>1, <1>2, WordsMoveOn DEF FwInv, TwoTasks
  <2> QED  BY <2>1, <2>2, <2>3
<1>4. CASE Serving
  BY <1>3, <1>4, ServingStays DEF FwInv, Serving
<1>5. ASSUME NEW n \in 0 .. 8, BootInv(n)
      PROVE  FwInv' /\ (current_task = NoTask => current_task' \in {NoTask, T2.task_id})
  <2>1. CASE ~Handing
    <3>1. BootInv(n)'
      BY <1>1, <1>5, <2>1, BootMoves, SettingsStay, DescriptorsStay, QueuedStays
         DEF FwInv, BootInv
    <3> QED  BY <1>3, <3>1 DEF FwInv, BootInv, Settings
  <2>2. CASE Handing /\ n = 8
    <3>1. HandedOver(BootWord[9])
      <4>1. 8 \in 0 .. 8 /\ 8 + 1 = 9
        OBVIOUS
      <4> QED  BY <1>5, <2>2, <4>1, BootMoves DEF FwInv, BootInv
    <3>2. current_task' = T2.task_id
      BY <1>1, <1>5, <2>2, <3>1, FirstDispatch
    <3>3. Serving'
      BY <1>3, <1>5, <2>2, ServingStarts DEF FwInv
    <3> QED  BY <1>3, <3>2, <3>3 DEF FwInv
  <2>3. CASE Handing /\ n # 8
    <3>1. n \in 0 .. 7 /\ n < 8 /\ n + 1 \in 0 .. 8
      BY <2>3
    <3>2. HandedOver(BootWord[n + 1]) /\ Booted(n + 1)'
      BY <1>5, <2>3, <3>1, BootMoves DEF FwInv, BootInv
    <3>3. beat = NoBeat /\ ~Arming' /\ ~Handing'
      BY <2>3, BootWordsAreBeats, WordStages DEF FwInv
    <3>4. Settings(n + 1)' /\ Descriptors(n + 1)' /\ Queued(n + 1)'
      BY <1>1, <1>5, <3>1, <3>2, <3>3, SettingsMove, DescriptorsMove, QueuedMoves
         DEF FwInv, BootInv
    <3>5. BootInv(n + 1)'
      BY <3>2, <3>4 DEF BootInv
    <3> QED  BY <1>3, <3>1, <3>5 DEF FwInv, BootInv, Settings
  <2> QED  BY <2>1, <2>2, <2>3
<1> QED  BY <1>4, <1>5 DEF FwInv

LEMMA FwStutter ==
    ASSUME FwInv, UNCHANGED fwVars
    PROVE  FwInv'
<1>1. UNCHANGED vars /\ UNCHANGED <<host, slave, timer, irqs, pq, sq, ctrl>> /\ pc' = pc
  BY DEF fwVars, app, vars
<1>2. BlocksOK'
  BY <1>1, BlocksClock DEF FwInv
<1> USE DEF host, slave, timer, irqs, pq, sq, ctrl
<1>3. ChannelInv' /\ OnItsWay'
  BY <1>1 DEF FwInv, ChannelInv, HostOK, OneWord, OnItsWay
<1>4. Serving => Serving'
  <2>1. (AppServes => AppServes') /\ (AsksOnly => AsksOnly') /\ (TasksOnly => TasksOnly')
    BY <1>1 DEF AppServes, AsksOnly, TasksOnly
  <2> QED  BY <1>1, <2>1 DEF Serving, NoSleeper, NotOffering
<1>5. ASSUME NEW n \in 0 .. 8, BootInv(n)
      PROVE  BootInv(n)'
  <2>1. Handing' = Handing /\ Arming' = Arming /\ NothingUnderway' = NothingUnderway
    BY <1>1 DEF Handing, Arming, NothingUnderway
  <2>2. Booted(n)'
    <3>1. \A k \in 1 .. 9 : Underway(BootWord[k])' = Underway(BootWord[k])
      BY <1>1 DEF Underway, OnBus, Armed, HandedOver
    <3>2. \A k \in 0 .. 9 : Left(k)' = Left(k)
      BY <1>1 DEF Left
    <3>3. AppServes' = AppServes
      BY <1>1 DEF AppServes
    <3> QED  BY <1>1, <1>5, <2>1, <3>1, <3>2, <3>3 DEF BootInv, Booted
  <2>3. Settings(n)'
    BY <1>1, <1>5 DEF BootInv, Settings, NoSleeper, TimerQuiet
  <2>4. Descriptors(n)'
    BY <1>1, <1>5, <2>1 DEF BootInv, Descriptors, DeadlineOf
  <2>5. Queued(n)'
    <3>1. /\ Offering(T1)' = Offering(T1) /\ Offering(T2)' = Offering(T2)
          /\ NotOffering' = NotOffering /\ Queue0' = Queue0 /\ Queue1' = Queue1
          /\ Queue2' = Queue2
      BY <1>1, <2>1 DEF Offering, Offered1, Offered2, NotOffering, Queue0, Queue1, Queue2, HeadIs
    <3> QED  BY <1>1, <1>5, <3>1 DEF BootInv, Queued
  <2> QED  BY <2>2, <2>3, <2>4, <2>5 DEF BootInv
<1> QED  BY <1>2, <1>3, <1>4, <1>5 DEF FwInv

(* In EDF mode the first task app_main's ACTIVATE dispatches is the one     *)
(* with the nearer deadline: both have gone through the table and the ready *)
(* queue by then, whatever the interrupt lines, the handler and the delays  *)
(* of the processor do meanwhile.                                          *)
THEOREM NearestRunsFirst ==
    ASSUME TwoTasks
    PROVE  FwSpec => FirstIsNearest
<1>1. FwInit => FwInv
  BY FwInitial
<1>2. FwInv /\ [FwNext]_fwVars =>
          FwInv' /\ [current_task = NoTask => current_task' \in {NoTask, T2.task_id}]_fwVars
  BY FwClock, FwStutter
<1> QED  BY <1>1, <1>2, PTL DEF FwSpec, FirstIsNearest
=============================================================================
