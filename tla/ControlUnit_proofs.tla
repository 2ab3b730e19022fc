------------------------- MODULE ControlUnit_proofs -------------------------
(***************************************************************************)
(* Proofs about ControlUnit, for every task set, every width and every      *)
(* coincidence of inputs.  The registers fall into groups (the "ports"      *)
(* below); each port is written by a handful of operators, shown to keep    *)
(* its type once, so that the case of an operation only says which of them  *)
(* it uses and that what it hands to them has the right type.               *)
(***************************************************************************)
EXTENDS ControlUnit, TLAPS

SettingsOK == /\ sched_mode \in 0 .. 3 /\ flags_reg \in BOOLEAN /\ fast_mask \in Masks
              /\ tick_divider \in Nat /\ timer_enable \in BOOLEAN
PendingOK  == /\ need_word2 \in BOOLEAN /\ pending_word2 \in BOOLEAN
              /\ pending_word1 \in Word1
ReadyOK    == pq_enqueue \in BOOLEAN /\ pq_enq_id \in ID
SleepOK    == sq_enqueue \in BOOLEAN /\ sq_enq_id \in ID /\ sq_enq_counter \in Sleeps
DispatchOK == pq_dequeue \in BOOLEAN /\ current_task \in ID
FlushOK    == pq_flush \in BOOLEAN /\ sq_flush \in BOOLEAN /\ tt_clear_all \in BOOLEAN
ClockOK    == tick_count \in 0 .. TickMod - 1
WriteOK    == tt_wr \in TaskWrite
EdgeOK     == /\ irq_n \in BOOLEAN /\ irq_reason \in 0 .. 6
              /\ table \in [ID -> Task] /\ tt_rd_id_tick \in ID

LEMMA RegsAreGroups ==
    RegsOK <=> /\ SettingsOK /\ PendingOK /\ ReadyOK /\ SleepOK /\ DispatchOK
               /\ FlushOK /\ ClockOK /\ WriteOK /\ EdgeOK
BY DEF RegsOK, SettingsOK, PendingOK, ReadyOK, SleepOK, DispatchOK, FlushOK,
       ClockOK, WriteOK, EdgeOK
-----------------------------------------------------------------------------
(* Helper operators. *)

LEMMA LowIsTime ==
    ASSUME NEW n \in Int
    PROVE  low(n) \in Times
BY TimeAssumption DEF low, Times

LEMMA FreshIsTime ==
    ASSUME TypeOK, NEW t \in Int
    PROVE  Fresh(t) \in Times
<1>1. tick_count + t \in Int
  BY TimeAssumption DEF TypeOK, RegsOK
<1> QED  BY <1>1, LowIsTime DEF Fresh

(* The fields an opcode uses are there, and in range. *)
LEMMA WordFields ==
    ASSUME NEW w \in Word1
    PROVE  /\ w.id \in ID
           /\ w.op \in {"CREATE", "MODIFY"} => w.priority \in Priorities /\ w.deadline \in Times
           /\ w.op = "SSLEEP" => w.count \in ShortCounts
           /\ w.op = "CONFIG" => /\ w.mode \in 0 .. 3 /\ w.divider \in Dividers
                                 /\ w.preempt \in BOOLEAN /\ w.mask \in Masks
BY DEF Word1, PlainOps

LEMMA ZeroWordIsWord == ZeroWord \in Word1
BY IdAssumption DEF ZeroWord, Word1, PlainOps

LEMMA BlankIsTask == Blank \in Task /\ NoWrite \in TaskWrite
BY TimeAssumption, DataAssumption, IdAssumption
   DEF Blank, Task, NoWrite, TaskWrite, Times, Deleted, Sleeping

LEMMA Redescribed ==
    ASSUME NEW t \in Task, NEW s \in Deleted .. Sleeping,
           NEW r \in Times, NEW a \in Times
    PROVE  /\ [t EXCEPT !.status = s] \in Task
           /\ [t EXCEPT !.status = s, !.remaining = r] \in Task
           /\ [t EXCEPT !.status = s, !.remaining = r, !.abs_deadline = a] \in Task
BY DEF Task

(* Whatever the mux selects, the read port shows some task's descriptor. *)
LEMMA ReadsTask ==
    ASSUME TypeOK
    PROVE  rd \in Task
<1>1. cmd_word.id \in ID /\ pending_word1.id \in ID
  BY WordFields DEF TypeOK, InputsOK, RegsOK
<1>2. tt_rd_id \in ID
  BY <1>1 DEF tt_rd_id, TypeOK, InputsOK, RegsOK
<1> QED  BY <1>2 DEF rd, TypeOK, RegsOK

LEMMA SecondWordIsSleep ==
    ASSUME NEW w \in Word2
    PROVE  w.hi * TimeMod + w.lo \in Sleeps
<1> DEFINE hi == w.hi  lo == w.lo
<1>1. hi \in Times /\ lo \in Times
  BY DEF Word2
<1> HIDE DEF hi, lo
<1>2. /\ hi \in Nat /\ lo \in Nat /\ hi <= TimeMod - 1 /\ lo <= TimeMod - 1
      /\ TimeMod \in Nat /\ TimeMod > 0
  BY <1>1, TimeAssumption DEF Times
<1>3. hi * TimeMod <= (TimeMod - 1) * TimeMod
  BY <1>2
<1>4. (TimeMod - 1) * TimeMod = TimeMod * TimeMod - TimeMod
  BY <1>2
<1>5. hi * TimeMod \in Nat /\ TimeMod * TimeMod \in Nat
  BY <1>2
<1>6. hi * TimeMod + lo \in Sleeps
  BY <1>2, <1>3, <1>4, <1>5 DEF Sleeps
<1> QED  BY <1>6 DEF hi, lo

LEMMA TimeIsSleep ==
    ASSUME NEW t \in Times
    PROVE  t \in Sleeps
<1>1. TimeMod \in Nat /\ TimeMod > 0 /\ TimeMod * TimeMod \in Nat
  BY TimeAssumption
<1>2. TimeMod <= TimeMod * TimeMod
  BY <1>1
<1> QED  BY <1>1, <1>2 DEF Times, Sleeps
-----------------------------------------------------------------------------
(* One lemma per port operator: the group it writes keeps its type. *)

LEMMA EveryEdgeOK ==
    ASSUME TypeOK, EveryEdge
    PROVE  EdgeOK'
<1>1. irq_n' \in BOOLEAN
  BY Zenon DEF EveryEdge, Irq
<1>2. irq_reason' \in 0 .. 6
  BY DEF EveryEdge, Irq, TypeOK, RegsOK
<1>3. table' \in [ID -> Task]
  BY BlankIsTask DEF EveryEdge, CommitTable, TypeOK, RegsOK, TaskWrite
<1>4. tt_rd_id_tick' \in ID
  BY DEF EveryEdge, TypeOK, RegsOK
<1> QED  BY <1>1, <1>2, <1>3, <1>4 DEF EdgeOK

LEMMA WakeWriteOK ==
    ASSUME TypeOK
    PROVE  WakeWrite \in TaskWrite
<1>1. rd \in Task /\ rd.wcet \in Times /\ Ready \in Deleted .. Sleeping
  BY ReadsTask DEF Task, Ready, Deleted, Sleeping
<1>2. [rd EXCEPT !.status = Ready, !.remaining = rd.wcet] \in Task
  BY <1>1, Redescribed
<1> QED  BY <1>2 DEF WakeWrite, Write, TaskWrite, TypeOK, InputsOK

LEMMA WriteTaskOK ==
    ASSUME TypeOK, NEW id \in ID, NEW t \in Task, WriteTask(id, t)
    PROVE  WriteOK'
BY WakeWriteOK DEF WriteTask, Write, WriteOK, TaskWrite

LEMMA NoTaskWriteOK ==
    ASSUME TypeOK, NoTaskWrite
    PROVE  WriteOK'
<1>1. CASE sq_wake_valid
  BY <1>1, WakeWriteOK DEF NoTaskWrite, WriteOK
<1>2. CASE ~sq_wake_valid /\ TickDecrements
  <2>1. rd.remaining - 1 \in Times
    BY <1>2, ReadsTask, TimeAssumption DEF TickDecrements, Task, Times
  <2>2. TickWrite \in TaskWrite
    BY <2>1, ReadsTask DEF TickWrite, Write, TaskWrite, Task, TypeOK, RegsOK
  <2> QED  BY <1>2, <2>2 DEF NoTaskWrite, WriteOK
<1>3. CASE ~sq_wake_valid /\ ~TickDecrements
  BY <1>3, BlankIsTask DEF NoTaskWrite, WriteOK
<1> QED  BY <1>1, <1>2, <1>3

LEMMA MakeReadyOK ==
    ASSUME TypeOK, NEW id \in ID, MakeReady(id)
    PROVE  ReadyOK'
BY DEF MakeReady, ReadyOK, TypeOK, InputsOK

LEMMA NoReadyOK ==
    ASSUME TypeOK, NoReady
    PROVE  ReadyOK'
BY DEF NoReady, ReadyOK, TypeOK, InputsOK, RegsOK

LEMMA StartSleepOK ==
    ASSUME NEW id \in ID, NEW n \in Sleeps, StartSleep(id, n)
    PROVE  SleepOK'
BY DEF StartSleep, SleepOK

LEMMA NoSleepOK ==
    ASSUME TypeOK, NoSleep
    PROVE  SleepOK'
BY DEF NoSleep, SleepOK, TypeOK, RegsOK

LEMMA KeepSettingsOK ==
    ASSUME TypeOK, KeepSettings
    PROVE  SettingsOK'
BY DEF KeepSettings, config, SettingsOK, TypeOK, RegsOK

LEMMA KeepPendingOK ==
    ASSUME TypeOK, KeepPending
    PROVE  PendingOK'
BY DEF KeepPending, PendingOK, TypeOK, RegsOK

LEMMA NoFlushOK ==
    ASSUME NoFlush
    PROVE  FlushOK'
BY DEF NoFlush, FlushOK

LEMMA NoDequeueOK ==
    ASSUME TypeOK, NoDequeue
    PROVE  DispatchOK'
BY DEF NoDequeue, DispatchOK, TypeOK, RegsOK

LEMMA CountTickOK ==
    ASSUME TypeOK, CountTick
    PROVE  ClockOK'
BY TimeAssumption DEF CountTick, ClockOK, TypeOK, RegsOK

LEMMA QueuesIdleOK ==
    ASSUME TypeOK, QueuesIdle
    PROVE  ReadyOK' /\ SleepOK' /\ DispatchOK' /\ FlushOK' /\ ClockOK'
BY NoReadyOK, NoSleepOK, NoDequeueOK, NoFlushOK, CountTickOK DEF QueuesIdle

LEMMA SecondWordOK ==
    ASSUME TypeOK, NEW op, SecondWord(op)
    PROVE  PendingOK' /\ SettingsOK' /\ pending_word1.op = op
BY KeepSettingsOK DEF SecondWord, Word2For, PendingOK, TypeOK, RegsOK
-----------------------------------------------------------------------------
(* One lemma per operation. *)
RegsButEdgeOK ==
    /\ SettingsOK /\ PendingOK /\ ReadyOK /\ SleepOK /\ DispatchOK
    /\ FlushOK /\ ClockOK /\ WriteOK

(* Idle, Inform, YieldAperiodic, ActivateEmpty, ResetRefused: nothing but   *)
(* the answer, and what wake and tick do to the ports.                      *)
LEMMA PassiveOK ==
    ASSUME TypeOK, NoTaskWrite, QueuesIdle, KeepPending, KeepSettings
    PROVE  RegsButEdgeOK'
BY NoTaskWriteOK, QueuesIdleOK, KeepPendingOK, KeepSettingsOK DEF RegsButEdgeOK

LEMMA ConfigureOK ==
    ASSUME TypeOK, Configure
    PROVE  RegsButEdgeOK'
<1>1. SettingsOK'
  BY WordFields, DataAssumption DEF Configure, Command, SettingsOK, TypeOK, InputsOK, RegsOK
<1> QED  BY <1>1, NoTaskWriteOK, QueuesIdleOK, KeepPendingOK DEF Configure, RegsButEdgeOK

LEMMA RunOrStopOK ==
    ASSUME TypeOK, RunOrStop
    PROVE  RegsButEdgeOK'
<1>1. timer_enable' \in BOOLEAN
  BY Zenon DEF RunOrStop
<1>2. SettingsOK'
  BY <1>1 DEF RunOrStop, config, SettingsOK, TypeOK, RegsOK
<1> QED  BY <1>2, NoTaskWriteOK, QueuesIdleOK, KeepPendingOK DEF RunOrStop, RegsButEdgeOK

LEMMA FirstWordOK ==
    ASSUME TypeOK, FirstWord
    PROVE  RegsButEdgeOK'
<1>1. PendingOK'
  BY DEF FirstWord, PendingOK, TypeOK, InputsOK
<1> QED  BY <1>1, NoTaskWriteOK, QueuesIdleOK, KeepSettingsOK DEF FirstWord, RegsButEdgeOK

(* The descriptor a CREATE or MODIFY writes. *)
LEMMA DescribedIsTask ==
    ASSUME TypeOK, NEW t \in Task, pending_word1.op \in {"CREATE", "MODIFY"}
    PROVE  Described(t) \in Task
<1>1. /\ pending_word1.priority \in Priorities /\ pending_word1.deadline \in Times
      /\ cmd_word2.hi \in Times /\ cmd_word2.lo \in Times
  BY WordFields DEF TypeOK, InputsOK, RegsOK, Word2
<1>2. Fresh(pending_word1.deadline) \in Times
  BY <1>1, FreshIsTime DEF Times
<1> QED  BY <1>1, <1>2 DEF Described, Task

LEMMA CreateOK ==
    ASSUME TypeOK, Create
    PROVE  RegsButEdgeOK'
<1>1. SettingsOK' /\ PendingOK' /\ pending_word1.op = "CREATE"
  BY SecondWordOK DEF Create
<1>2. [rd EXCEPT !.status = Suspended] \in Task
  BY ReadsTask DEF Task, Suspended, Deleted, Sleeping
<1>3. pending_word1.id \in ID
  BY WordFields DEF TypeOK, RegsOK
<1>4. WriteOK'
  BY <1>1, <1>2, <1>3, DescribedIsTask, WriteTaskOK DEF Create
<1> QED  BY <1>1, <1>4, QueuesIdleOK DEF Create, RegsButEdgeOK

LEMMA ModifyOK ==
    ASSUME TypeOK, Modify
    PROVE  RegsButEdgeOK'
<1>1. SettingsOK' /\ PendingOK' /\ pending_word1.op = "MODIFY"
  BY SecondWordOK DEF Modify
<1>2. pending_word1.id \in ID
  BY WordFields DEF TypeOK, RegsOK
<1>3. WriteOK'
  BY <1>1, <1>2, ReadsTask, DescribedIsTask, WriteTaskOK DEF Modify
<1> QED  BY <1>1, <1>3, QueuesIdleOK DEF Modify, RegsButEdgeOK

LEMMA LongSleepOK ==
    ASSUME TypeOK, LongSleep
    PROVE  RegsButEdgeOK'
<1>1. SettingsOK' /\ PendingOK'
  BY SecondWordOK DEF LongSleep
<1>2. pending_word1.id \in ID
  BY WordFields DEF TypeOK, RegsOK
<1>3. [rd EXCEPT !.status = Sleeping] \in Task
  BY ReadsTask DEF Task, Deleted, Sleeping
<1>4. WriteOK'
  BY <1>2, <1>3, WriteTaskOK DEF LongSleep
<1>5. SleepOK'
  BY <1>2, SecondWordIsSleep, StartSleepOK DEF LongSleep, TypeOK, InputsOK
<1> QED  BY <1>1, <1>4, <1>5, NoReadyOK, NoDequeueOK, NoFlushOK, CountTickOK
         DEF LongSleep, RegsButEdgeOK

LEMMA ShortSleepOK ==
    ASSUME TypeOK, ShortSleep
    PROVE  RegsButEdgeOK'
<1>1. cmd_word.id \in ID /\ cmd_word.count \in Sleeps
  BY WordFields, DataAssumption DEF ShortSleep, Command, TypeOK, InputsOK, Sleeps
<1>2. [rd EXCEPT !.status = Sleeping] \in Task
  BY ReadsTask DEF Task, Deleted, Sleeping
<1>3. WriteOK' /\ SleepOK'
  BY <1>1, <1>2, WriteTaskOK, StartSleepOK DEF ShortSleep
<1> QED  BY <1>3, NoReadyOK, NoDequeueOK, NoFlushOK, CountTickOK, KeepPendingOK,
            KeepSettingsOK DEF ShortSleep, RegsButEdgeOK

LEMMA YieldOK ==
    ASSUME TypeOK, Yield
    PROVE  RegsButEdgeOK'
<1>1. cmd_word.id \in ID
  BY WordFields DEF TypeOK, InputsOK
<1>2. /\ rd \in Task /\ rd.period \in Times /\ rd.deadline \in Times
      /\ rd.wcet \in Times /\ rd.period + rd.deadline \in Int
      /\ Sleeping \in Deleted .. Sleeping
  BY ReadsTask DEF Task, Times, Deleted, Sleeping
<1>3. Fresh(rd.period + rd.deadline) \in Times
  BY <1>2, FreshIsTime
<1>4. [rd EXCEPT !.status = Sleeping, !.remaining = rd.wcet,
                 !.abs_deadline = Fresh(rd.period + rd.deadline)] \in Task
  BY <1>2, <1>3, Redescribed
<1>5. WriteOK' /\ SleepOK'
  BY <1>1, <1>2, <1>4, TimeIsSleep, WriteTaskOK, StartSleepOK DEF Yield
<1> QED  BY <1>5, NoReadyOK, NoDequeueOK, NoFlushOK, CountTickOK, KeepPendingOK,
            KeepSettingsOK DEF Yield, RegsButEdgeOK

LEMMA RetireOK ==
    ASSUME TypeOK, Retire
    PROVE  RegsButEdgeOK'
<1>1. cmd_word.id \in ID
  BY WordFields DEF TypeOK, InputsOK
<1>2. [rd EXCEPT !.status = IF cmd_word.op = "DELETE" THEN Deleted ELSE Suspended] \in Task
  BY ReadsTask DEF Task, Deleted, Suspended, Sleeping
<1>3. WriteOK'
  BY <1>1, <1>2, WriteTaskOK DEF Retire
<1> QED  BY <1>3, QueuesIdleOK, KeepPendingOK, KeepSettingsOK DEF Retire, RegsButEdgeOK

LEMMA ResumeOK ==
    ASSUME TypeOK, Resume
    PROVE  RegsButEdgeOK'
<1>1. cmd_word.id \in ID
  BY WordFields DEF TypeOK, InputsOK
<1>2. /\ rd \in Task /\ rd.deadline \in Int /\ rd.wcet \in Times
      /\ Ready \in Deleted .. Sleeping
  BY ReadsTask DEF Task, Times, Deleted, Ready, Sleeping
<1>3. [rd EXCEPT !.status = Ready, !.remaining = rd.wcet,
                 !.abs_deadline = Fresh(rd.deadline)] \in Task
  BY <1>2, FreshIsTime, Redescribed
<1>4. WriteOK' /\ ReadyOK'
  BY <1>1, <1>3, WriteTaskOK, MakeReadyOK DEF Resume
<1> QED  BY <1>4, NoSleepOK, NoDequeueOK, NoFlushOK, CountTickOK, KeepPendingOK,
            KeepSettingsOK DEF Resume, RegsButEdgeOK

LEMMA ActivateOK ==
    ASSUME TypeOK, Activate
    PROVE  RegsButEdgeOK'
<1>1. DispatchOK'
  BY DEF Activate, DispatchOK, TypeOK, InputsOK
<1>2. [rd EXCEPT !.status = Running] \in Task
  BY ReadsTask DEF Task, Deleted, Running, Sleeping
<1>3. WriteOK'
  BY <1>2, WriteTaskOK DEF Activate, TypeOK, InputsOK
<1> QED  BY <1>1, <1>3, NoReadyOK, NoSleepOK, NoFlushOK, CountTickOK, KeepPendingOK,
            KeepSettingsOK DEF Activate, RegsButEdgeOK

LEMMA ResetOK ==
    ASSUME TypeOK, Reset
    PROVE  RegsButEdgeOK'
<1>1. SettingsOK'
  <2>1. flags_reg' \in BOOLEAN /\ timer_enable' \in BOOLEAN
    BY Zenon DEF Reset
  <2>2. sched_mode' \in 0 .. 3 /\ fast_mask' \in Masks /\ tick_divider' \in Nat
    BY DataAssumption DEF Reset, TypeOK, RegsOK
  <2> QED  BY <2>1, <2>2 DEF SettingsOK
<1>2. PendingOK' /\ FlushOK'
  BY ZeroWordIsWord DEF Reset, DropPending, FlushAll, PendingOK, FlushOK
<1>3. DispatchOK' /\ ClockOK'
  <2>1. pq_dequeue' \in BOOLEAN
    BY Zenon DEF Reset
  <2>2. current_task' \in ID /\ tick_count' \in 0 .. TickMod - 1
    BY IdAssumption, TimeAssumption DEF Reset
  <2> QED  BY <2>1, <2>2 DEF DispatchOK, ClockOK
<1> QED  BY <1>1, <1>2, <1>3, NoTaskWriteOK, NoReadyOK, NoSleepOK DEF Reset, RegsButEdgeOK
-----------------------------------------------------------------------------
(* The registers of the next cycle depend on the inputs of this one only. *)
LEMMA StepKeepsRegs ==
    ASSUME TypeOK, Step
    PROVE  RegsOK'
<1>1. RegsButEdgeOK'
  <2>1. CASE Idle \/ Inform \/ YieldAperiodic \/ ActivateEmpty \/ ResetRefused
    BY <2>1, PassiveOK DEF Idle, Inform, YieldAperiodic, ActivateEmpty, ResetRefused
  <2>2. CASE Configure   BY <2>2, ConfigureOK
  <2>3. CASE RunOrStop   BY <2>3, RunOrStopOK
  <2>4. CASE FirstWord   BY <2>4, FirstWordOK
  <2>5. CASE Create      BY <2>5, CreateOK
  <2>6. CASE Modify      BY <2>6, ModifyOK
  <2>7. CASE LongSleep   BY <2>7, LongSleepOK
  <2>8. CASE ShortSleep  BY <2>8, ShortSleepOK
  <2>9. CASE Yield       BY <2>9, YieldOK
  <2>10. CASE Retire     BY <2>10, RetireOK
  <2>11. CASE Resume     BY <2>11, ResumeOK
  <2>12. CASE Activate   BY <2>12, ActivateOK
  <2>13. CASE Reset      BY <2>13, ResetOK
  <2> QED  BY <2>1, <2>2, <2>3, <2>4, <2>5, <2>6, <2>7, <2>8, <2>9, <2>10, <2>11,
              <2>12, <2>13 DEF Step, Operation
<1>2. EdgeOK'
  BY EveryEdgeOK DEF Step
<1> QED  BY <1>1, <1>2 DEF RegsButEdgeOK, RegsOK, SettingsOK, PendingOK, ReadyOK, SleepOK,
                           DispatchOK, FlushOK, ClockOK, WriteOK, EdgeOK

LEMMA StepKeepsTypes ==
    ASSUME TypeOK, Step, DriveInputs
    PROVE  TypeOK'
<1>1. InputsOK'
  BY DEF DriveInputs, InputsOK
<1> QED  BY <1>1, StepKeepsRegs DEF TypeOK

(* The key offered to the ready queue is as wide as the queue's keys, in   *)
(* every mode and for whichever descriptor the read port shows.            *)
LEMMA KeyIsTime ==
    ASSUME TypeOK
    PROVE  pq_enq_key \in Times
<1>1. rd \in Task
  BY ReadsTask
<1>2. /\ rd.priority \in Times /\ rd.period \in Times /\ rd.deadline \in Times
      /\ rd.abs_deadline \in Times /\ rd.wcet \in Times /\ rd.remaining \in Times
  BY <1>1, DataAssumption DEF Task, Times
<1>3. \A t \in Times : t \in Int /\ Invert(t) \in Times
  BY TimeAssumption DEF Times, Invert
<1>4. Fresh(rd.deadline) \in Times
  BY <1>2, <1>3, FreshIsTime
<1>5. pq_eff_abs_deadline \in Times /\ pq_eff_remaining_wcet \in Times
  BY <1>2, <1>4 DEF pq_eff_abs_deadline, pq_eff_remaining_wcet
<1>6. low(pq_eff_abs_deadline - pq_eff_remaining_wcet) \in Times
  <2>1. pq_eff_abs_deadline - pq_eff_remaining_wcet \in Int
    BY <1>3, <1>5
  <2> QED  BY <2>1, LowIsTime
<1> QED  BY <1>2, <1>3, <1>4, <1>6 DEF pq_enq_key

LEMMA InitHasTypes ==
    ASSUME Init
    PROVE  TypeOK
<1>1. InputsOK
  <2>1. [hi |-> 0, lo |-> 0] \in Word2 /\ 0 \in ID /\ 0 \in Nat
    BY IdAssumption, TimeAssumption DEF Word2, Times
  <2> QED  BY <2>1, ZeroWordIsWord, Zenon DEF Init, InputsOK
<1>2. /\ 0 \in 0 .. 3 /\ 0 \in 0 .. 6 /\ 0 \in 0 .. TickMod - 1 /\ 0 \in Sleeps
      /\ 0 \in ID /\ NoTask \in ID /\ ResetMask \in Masks /\ ResetDivider \in Nat
  <2>1. 0 \in Times
    BY TimeAssumption DEF Times
  <2> QED  BY <2>1, TimeIsSleep, IdAssumption, TimeAssumption, DataAssumption
<1>3. SettingsOK /\ PendingOK /\ FlushOK /\ ReadyOK /\ SleepOK /\ DispatchOK /\ ClockOK
  BY <1>2, ZeroWordIsWord, Zenon
     DEF Init, PowerOn, SettingsOK, PendingOK, FlushOK, ReadyOK, SleepOK, DispatchOK, ClockOK
<1>4. WriteOK /\ EdgeOK
  <2>1. table \in [ID -> Task]
    BY BlankIsTask DEF Init, PowerOn
  <2> QED  BY <1>2, <2>1, BlankIsTask, Zenon DEF Init, PowerOn, WriteOK, EdgeOK
<1> QED  BY <1>1, <1>3, <1>4, RegsAreGroups DEF TypeOK

(* Every register keeps its width, whatever coincides: the 16-bit times     *)
(* wrap, a second word fits the sleep counter, a tick never takes the       *)
(* remaining time below zero.                                               *)
THEOREM TypeCorrect == Spec => []TypeOK
<1>1. ASSUME TypeOK, [Next]_vars
      PROVE  TypeOK'
  <2>1. CASE Next
    BY <1>1, <2>1, StepKeepsTypes DEF Next
  <2>2. CASE UNCHANGED vars
    BY <1>1, <2>2 DEF vars, inputs, regs, config, TypeOK, InputsOK, RegsOK
  <2> QED  BY <1>1, <2>1, <2>2
<1> QED  BY <1>1, InitHasTypes, PTL DEF Spec
-----------------------------------------------------------------------------
(* A second word is awaited only after an opcode that has one, so the       *)
(* answer for an unknown pending opcode is dead logic.  Inductive as it     *)
(* stands.                                                                  *)
THEOREM SecondWordHasOpcode == Spec => []PendingIsTwoWord
<1>1. Init => PendingIsTwoWord
  BY DEF Init, PowerOn, PendingIsTwoWord
<1>2. ASSUME PendingIsTwoWord, [Next]_vars
      PROVE  PendingIsTwoWord'
  <2>1. CASE FirstWord
    BY <2>1 DEF FirstWord, Command, PendingIsTwoWord
  <2>2. CASE Create \/ Modify \/ LongSleep
    BY <2>2 DEF Create, Modify, LongSleep, SecondWord, PendingIsTwoWord
  <2>3. CASE Reset
    BY <2>3 DEF Reset, DropPending, PendingIsTwoWord
  <2>4. CASE KeepPending
    BY <1>2, <2>4 DEF KeepPending, PendingIsTwoWord
  <2>5. CASE UNCHANGED vars
    BY <1>2, <2>5 DEF vars, regs, PendingIsTwoWord
  <2> QED
    BY <1>2, <2>1, <2>2, <2>3, <2>4, <2>5
       DEF Next, Step, Operation, Idle, Inform, Configure, RunOrStop, ShortSleep,
           Yield, YieldAperiodic, Retire, Resume, Activate, ActivateEmpty, ResetRefused
<1> QED  BY <1>1, <1>2, PTL DEF Spec

(* The line is low only with a reason: a command that clears the reason     *)
(* raises the line in the same edge, and every later source sets both.      *)
THEOREM LineHasReason == Spec => []IrqHasReason
<1>1. Init => IrqHasReason
  BY DEF Init, PowerOn, IrqHasReason
<1>2. ASSUME IrqHasReason, [Next]_vars
      PROVE  IrqHasReason'
  <2>1. CASE Next
    <3>1. Irq
      BY <2>1 DEF Next, Step, EveryEdge
    <3>2. CASE MissesDeadline \/ Preempts \/ irq_pending \/ sq_wake_valid
      BY <3>1, <3>2 DEF Irq, IrqHasReason
    <3>3. CASE ~(MissesDeadline \/ Preempts \/ irq_pending \/ sq_wake_valid)
      <4>1. irq_n' = (cmd_valid \/ irq_n)
        BY <3>1, <3>3, Zenon DEF Irq
      <4>2. irq_reason' = IF Resets THEN 0 ELSE irq_reason
        BY <3>1, <3>3 DEF Irq
      <4> QED  BY <1>2, <4>1, <4>2 DEF Resets, IrqHasReason
    <3> QED  BY <3>2, <3>3
  <2>2. CASE UNCHANGED vars
    BY <1>2, <2>2 DEF vars, regs, IrqHasReason
  <2> QED  BY <1>2, <2>1, <2>2
<1> QED  BY <1>1, <1>2, PTL DEF Spec
-----------------------------------------------------------------------------
(* Who owns the two contended ports after an edge. *)
LEMMA WakeOwnsPorts ==
    ASSUME Operation, sq_wake_valid
    PROVE  pq_enqueue' /\ pq_enq_id' = sq_wake_id /\ tt_wr' = WakeWrite
<1>1. (NoReady \/ \E id : MakeReady(id)) => pq_enqueue' /\ pq_enq_id' = sq_wake_id
  BY Zenon DEF NoReady, MakeReady
<1>2. (NoTaskWrite \/ \E id, t : WriteTask(id, t)) => tt_wr' = WakeWrite
  BY Zenon DEF NoTaskWrite, WriteTask
<1>3. NoReady \/ \E id : MakeReady(id)
  BY Zenon DEF Operation, Idle, Inform, Configure, RunOrStop, FirstWord, Create, Modify,
     LongSleep, ShortSleep, Yield, YieldAperiodic, Retire, Resume, Activate,
     ActivateEmpty, Reset, ResetRefused, QueuesIdle
<1>4. NoTaskWrite \/ \E id, t : WriteTask(id, t)
  BY Zenon DEF Operation, Idle, Inform, Configure, RunOrStop, FirstWord, Create, Modify,
     LongSleep, ShortSleep, Yield, YieldAperiodic, Retire, Resume, Activate,
     ActivateEmpty, Reset, ResetRefused
<1> QED  BY <1>1, <1>2, <1>3, <1>4

LEMMA OnlyResumeOffers ==
    ASSUME Operation, ~sq_wake_valid, pq_enqueue'
    PROVE  Resume
<1>1. ~NoReady
  BY Zenon DEF NoReady
<1> QED
  BY <1>1, Zenon DEF Operation, Idle, Inform, Configure, RunOrStop, FirstWord, Create,
     Modify, LongSleep, ShortSleep, Yield, YieldAperiodic, Retire, Activate,
     ActivateEmpty, Reset, ResetRefused, QueuesIdle

LEMMA WakeWriteMarks ==
    ASSUME TypeOK
    PROVE  /\ WakeWrite.en /\ WakeWrite.id = sq_wake_id
           /\ WakeWrite.task.status = Ready
           /\ WakeWrite.task.remaining = WakeWrite.task.wcet
BY ReadsTask DEF WakeWrite, Write, Task

(* A wake is never lost or halved: whatever command, second word or tick    *)
(* shares its cycle, the woken task is written ready, offered to the ready  *)
(* queue and announced to the host.                                         *)
THEOREM WakeTaken == Spec => WakeAlwaysTaken
<1>1. ASSUME TypeOK, Next, sq_wake_valid
      PROVE  /\ pq_enqueue' /\ pq_enq_id' = sq_wake_id
             /\ tt_wr'.en /\ tt_wr'.id = sq_wake_id /\ tt_wr'.task.status = Ready
             /\ ~irq_n'
  <2>1. Operation /\ Irq
    BY <1>1 DEF Next, Step, EveryEdge
  <2>2. pq_enqueue' /\ pq_enq_id' = sq_wake_id /\ tt_wr' = WakeWrite
    BY <1>1, <2>1, WakeOwnsPorts
  <2>3. ~irq_n'
    BY <1>1, <2>1, Zenon DEF Irq
  <2> QED  BY <1>1, <2>2, <2>3, WakeWriteMarks
<1>2. ASSUME TypeOK, [Next]_vars
      PROVE  [sq_wake_valid =>
                 /\ pq_enqueue' /\ pq_enq_id' = sq_wake_id
                 /\ tt_wr'.en /\ tt_wr'.id = sq_wake_id /\ tt_wr'.task.status = Ready
                 /\ ~irq_n']_vars
  BY <1>1, <1>2
<1> QED  BY <1>2, TypeCorrect, PTL DEF Spec, WakeAlwaysTaken

(* The table write that accompanies an offer to the ready queue is the      *)
(* offered task's, and makes it ready with its whole execution time left.   *)
THEOREM OfferIsMarked == Spec => []ReadyOfferIsMarked
<1>1. Init => ReadyOfferIsMarked
  BY DEF Init, PowerOn, ReadyOfferIsMarked
<1>2. ASSUME TypeOK, ReadyOfferIsMarked, [Next]_vars
      PROVE  ReadyOfferIsMarked'
  <2>1. CASE Next /\ sq_wake_valid
    <3>1. pq_enq_id' = sq_wake_id /\ tt_wr' = WakeWrite
      BY <2>1, WakeOwnsPorts DEF Next, Step
    <3> QED  BY <1>2, <3>1, WakeWriteMarks DEF ReadyOfferIsMarked
  <2>2. CASE Next /\ ~sq_wake_valid /\ pq_enqueue'
    <3>1. Resume
      BY <2>2, OnlyResumeOffers DEF Next, Step
    <3>2. pq_enq_id' = cmd_word.id
      BY <2>2, <3>1 DEF Resume, MakeReady
    <3>3. tt_wr' = Write(cmd_word.id,
                         [rd EXCEPT !.status = Ready, !.remaining = rd.wcet,
                                    !.abs_deadline = Fresh(rd.deadline)])
      BY <2>2, <3>1 DEF Resume, WriteTask
    <3> QED  BY <1>2, <3>2, <3>3, ReadsTask DEF Write, Task, ReadyOfferIsMarked
  <2>3. CASE ~pq_enqueue'
    BY <2>3 DEF ReadyOfferIsMarked
  <2>4. CASE UNCHANGED vars
    BY <1>2, <2>4 DEF vars, regs, ReadyOfferIsMarked
  <2> QED  BY <1>2, <2>1, <2>2, <2>3, <2>4
<1> QED  BY <1>1, <1>2, TypeCorrect, PTL DEF Spec
=============================================================================
