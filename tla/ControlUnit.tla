---------------------------- MODULE ControlUnit ----------------------------
(***************************************************************************)
(* rtl/control_unit.v with the rtl/task_table.v it contains.  One step is  *)
(* one clock edge.  The input wires are driven by the other blocks; in     *)
(* HwScheduler they are substituted by those blocks' registers, standing   *)
(* alone they are free.  Every cycle at most one of a command, a second    *)
(* word or nothing arrives, and independently a tick, a wake, an external  *)
(* interrupt: the operations below are the cases of the first choice, the  *)
(* ports (table write, ready-queue enqueue, irq) carry the second, because *)
(* in the RTL the later assignment of an edge overrides the earlier one.   *)
(***************************************************************************)
EXTENDS Integers

CONSTANTS ID,          \* 0 .. 2^ID_WIDTH - 1
          NoTask,      \* all ones: current_task when nothing runs
          TimeMod,     \* 2^16: keys and the 16-bit times of a descriptor
          TickMod,     \* 2^32: tick_count
          Priorities,  \* 0 .. 15
          ShortCounts, \* 24-bit counts of OP_SSLEEP
          Dividers,    \* 8-bit dividers of OP_CONFIG
          Masks,       \* 8-bit fast masks of OP_CONFIG
          ResetMask,   \* 8'hff
          ResetDivider \* 16'd100

ASSUME IdAssumption   == NoTask \in ID /\ 0 \in ID
ASSUME TimeAssumption == TimeMod \in Nat \ {0} /\ TickMod \in Nat \ {0}
ASSUME DataAssumption ==
    /\ Priorities \subseteq 0 .. TimeMod - 1 /\ 0 \in Priorities
    /\ ShortCounts \subseteq 0 .. TimeMod * TimeMod - 1 /\ Dividers \subseteq Nat
    /\ ResetMask \in Masks /\ ResetDivider \in Nat

VARIABLES
    \* input wires
    cmd_valid, cmd_word, cmd_word2_valid, cmd_word2, tick_pulse,
    irq_pending, fast_irq, pq_head_id, pq_head_valid, pq_depth,
    sq_wake_valid, sq_wake_id, sq_depth,
    \* host-visible registers
    rsp_word, irq_n, irq_reason, current_task, tick_count,
    sched_mode, flags_reg, fast_mask, tick_divider, timer_enable,
    \* two-word commands
    need_word2, pending_word2, pending_word1,
    \* ports to the queues
    pq_enqueue, pq_enq_id, pq_dequeue, pq_flush,
    sq_enqueue, sq_enq_id, sq_enq_counter, sq_flush,
    \* the task table, its registered write port and read address
    table, tt_wr, tt_clear_all, tt_rd_id_tick

inputs == <<cmd_valid, cmd_word, cmd_word2_valid, cmd_word2, tick_pulse,
            irq_pending, fast_irq, pq_head_id, pq_head_valid, pq_depth,
            sq_wake_valid, sq_wake_id, sq_depth>>
config == <<sched_mode, flags_reg, fast_mask, tick_divider>>
regs == <<rsp_word, irq_n, irq_reason, current_task, tick_count, config,
          timer_enable, need_word2, pending_word2, pending_word1,
          pq_enqueue, pq_enq_id, pq_dequeue, pq_flush,
          sq_enqueue, sq_enq_id, sq_enq_counter, sq_flush,
          table, tt_wr, tt_clear_all, tt_rd_id_tick>>
vars == <<inputs, regs>>

Times == 0 .. TimeMod - 1
Sleeps == 0 .. TimeMod * TimeMod - 1

Deleted   == 0
Suspended == 1
Ready     == 2
Running   == 3
Sleeping  == 4

Task == [priority : Priorities, period : Times, deadline : Times, wcet : Times,
         status : Deleted .. Sleeping, abs_deadline : Times, remaining : Times]
Blank == [priority |-> 0, period |-> 0, deadline |-> 0, wcet |-> 0,
          status |-> Deleted, abs_deadline |-> 0, remaining |-> 0]

(* The fields of word 1 that an opcode uses, and the two halves of word 2. *)
TwoWordOps == {"CREATE", "MODIFY", "SLEEP"}
PlainOps   == {"NOP", "RUN", "STOP", "DELETE", "SLEEP", "YIELD", "SUSPEND",
               "RESUME", "ACTIVATE", "SCAN"}
Selectors  == {"status", "current", "pq_depth", "sq_depth", "irq_reason",
               "tick_count", "mode_flags", "other"}
Word1 ==
    [op : PlainOps, id : ID]
    \cup [op : {"CREATE", "MODIFY"}, id : ID, priority : Priorities, deadline : Times]
    \cup [op : {"SSLEEP"}, id : ID, count : ShortCounts]
    \cup [op : {"CONFIG"}, id : ID, mode : 0 .. 3, divider : Dividers,
          preempt : BOOLEAN, mask : Masks]
    \cup [op : {"QUERY"}, id : ID, select : Selectors]
    \cup [op : {"RESET"}, id : ID, key_ok : BOOLEAN]
Word2 == [hi : Times, lo : Times]

ZeroWord == [op |-> "NOP", id |-> 0]

TaskWrite == [en : BOOLEAN, id : ID, task : Task]
NoWrite   == [en |-> FALSE, id |-> 0, task |-> Blank]

InputsOK ==
    /\ cmd_valid \in BOOLEAN /\ cmd_word \in Word1
    /\ cmd_word2_valid \in BOOLEAN /\ cmd_word2 \in Word2
    /\ tick_pulse \in BOOLEAN /\ irq_pending \in BOOLEAN /\ fast_irq \in BOOLEAN
    /\ pq_head_id \in ID /\ pq_head_valid \in BOOLEAN /\ pq_depth \in Nat
    /\ sq_wake_valid \in BOOLEAN /\ sq_wake_id \in ID /\ sq_depth \in Nat

RegsOK ==
    /\ irq_n \in BOOLEAN /\ irq_reason \in 0 .. 6
    /\ current_task \in ID /\ tick_count \in 0 .. TickMod - 1
    /\ sched_mode \in 0 .. 3 /\ flags_reg \in BOOLEAN /\ fast_mask \in Masks
    /\ tick_divider \in Nat /\ timer_enable \in BOOLEAN
    /\ need_word2 \in BOOLEAN /\ pending_word2 \in BOOLEAN /\ pending_word1 \in Word1
    /\ pq_enqueue \in BOOLEAN /\ pq_enq_id \in ID
    /\ pq_dequeue \in BOOLEAN /\ pq_flush \in BOOLEAN
    /\ sq_enqueue \in BOOLEAN /\ sq_enq_id \in ID /\ sq_enq_counter \in Sleeps
    /\ sq_flush \in BOOLEAN
    /\ table \in [ID -> Task] /\ tt_wr \in TaskWrite
    /\ tt_clear_all \in BOOLEAN /\ tt_rd_id_tick \in ID

(* Every register but the answer keeps its width: the 16-bit times wrap,   *)
(* a second word always fits the sleep counter, a decrement never goes     *)
(* below zero.                                                             *)
TypeOK == InputsOK /\ RegsOK
-----------------------------------------------------------------------------
(* The single read port of the table: the last matching mux entry wins, so *)
(* what "the task's descriptor" means depends on everything else that      *)
(* happens in the cycle.                                                   *)
tt_rd_id_untracked ==   \* mutant: a tick does not redirect the read port
    IF cmd_valid /\ cmd_word.op = "ACTIVATE" THEN pq_head_id
    ELSE IF sq_wake_valid THEN sq_wake_id
    ELSE IF pending_word2 THEN pending_word1.id
    ELSE cmd_word.id
tt_rd_id ==
    IF cmd_valid /\ cmd_word.op = "ACTIVATE" THEN pq_head_id
    ELSE IF sq_wake_valid THEN sq_wake_id
    ELSE IF pending_word2 THEN pending_word1.id
    ELSE IF tick_pulse THEN tt_rd_id_tick
    ELSE cmd_word.id

rd == table[tt_rd_id]

low(n)    == n % TimeMod
Invert_negated(n) == TimeMod - n   \* mutant: minus instead of complement
Invert(n) == TimeMod - 1 - n
Fresh_wide(t) == tick_count + t    \* mutant: not truncated
Fresh(t)  == low(tick_count + t)

pq_eff_abs_deadline ==
    IF cmd_valid /\ cmd_word.op = "RESUME" THEN Fresh(rd.deadline) ELSE rd.abs_deadline

pq_eff_remaining_wcet == IF sq_wake_valid THEN rd.wcet ELSE rd.remaining

(* Combinational: it follows the read port, not the task being enqueued. *)
pq_enq_key ==
    CASE sched_mode = 0 -> rd.priority
      [] sched_mode = 1 -> Invert(rd.period)
      [] sched_mode = 2 -> Invert(Fresh(rd.deadline))
      [] OTHER -> Invert(low(pq_eff_abs_deadline - pq_eff_remaining_wcet))
-----------------------------------------------------------------------------
(* Table write port.  Every write is a read-modify-write of rd; the write  *)
(* of a wake overrides the command's, the command's overrides the tick's.  *)
TickDecrements ==
    /\ tick_pulse /\ ~cmd_valid /\ ~sq_wake_valid
    /\ current_task # NoTask /\ rd.status = Running /\ rd.remaining # 0

Write(id, t) == [en |-> TRUE, id |-> id, task |-> t]
WakeWrite == Write(sq_wake_id, [rd EXCEPT !.status = Ready, !.remaining = rd.wcet])
TickWrite == Write(current_task, [rd EXCEPT !.remaining = @ - 1])

WriteTask_first(id, t) == tt_wr' = Write(id, t)   \* mutant: the command wins
WriteTask(id, t) == tt_wr' = IF sq_wake_valid THEN WakeWrite ELSE Write(id, t)
NoTaskWrite ==
    tt_wr' = IF sq_wake_valid THEN WakeWrite
             ELSE IF TickDecrements THEN TickWrite ELSE NoWrite

(* rtl/task_table.v: clear wins over the write that is presented. *)
CommitTable ==
    table' = IF tt_clear_all THEN [id \in ID |-> Blank]
             ELSE IF tt_wr.en THEN [table EXCEPT ![tt_wr.id] = tt_wr.task]
             ELSE table

(* Ready-queue enqueue port: a wake takes it over from a command. *)
MakeReady_first(id) == pq_enqueue' = TRUE /\ pq_enq_id' = id   \* mutant
MakeReady(id) ==
    /\ pq_enqueue' = TRUE
    /\ pq_enq_id' = IF sq_wake_valid THEN sq_wake_id ELSE id
NoReady_atAll == pq_enqueue' = FALSE /\ UNCHANGED pq_enq_id   \* mutant
NoReady ==
    /\ pq_enqueue' = sq_wake_valid
    /\ pq_enq_id' = IF sq_wake_valid THEN sq_wake_id ELSE pq_enq_id

StartSleep(id, n) == sq_enqueue' = TRUE /\ sq_enq_id' = id /\ sq_enq_counter' = n
NoSleep == sq_enqueue' = FALSE /\ UNCHANGED <<sq_enq_id, sq_enq_counter>>

(* The interrupt line and its reason: later sources override earlier ones; *)
(* only a command raises the line again.                                   *)
Preempts == pq_head_valid /\ flags_reg /\ current_task # pq_head_id
MissesDeadline_unwrapped ==   \* mutant: the sum is wider than the deadline
    /\ tick_pulse /\ ~pending_word2 /\ ~sq_wake_valid
    /\ current_task # NoTask /\ rd.status = Running
    /\ tick_count + 1 = rd.abs_deadline
MissesDeadline ==
    /\ tick_pulse /\ ~pending_word2 /\ ~sq_wake_valid
    /\ current_task # NoTask /\ rd.status = Running
    /\ low(tick_count + 1) = rd.abs_deadline
Resets == cmd_valid /\ cmd_word.op = "RESET" /\ cmd_word.key_ok

Irq_resetLast ==   \* mutant: RESET clears a reason that just came up
    /\ irq_n' = /\ ~sq_wake_valid /\ ~irq_pending /\ ~Preempts /\ ~MissesDeadline
                /\ cmd_valid \/ irq_n
    /\ irq_reason' = IF Resets THEN 0
                     ELSE IF MissesDeadline THEN 3
                     ELSE IF Preempts THEN 1
                     ELSE IF irq_pending THEN (IF fast_irq THEN 5 ELSE 6)
                     ELSE IF sq_wake_valid THEN 4 ELSE irq_reason
Irq ==
    /\ irq_n' = /\ ~sq_wake_valid /\ ~irq_pending /\ ~Preempts /\ ~MissesDeadline
                /\ cmd_valid \/ irq_n
    /\ irq_reason' = IF MissesDeadline THEN 3
                     ELSE IF Preempts THEN 1
                     ELSE IF irq_pending THEN (IF fast_irq THEN 5 ELSE 6)
                     ELSE IF sq_wake_valid THEN 4
                     ELSE IF Resets THEN 0 ELSE irq_reason

EveryEdge == Irq /\ CommitTable /\ tt_rd_id_tick' = current_task
-----------------------------------------------------------------------------
(* What most operations leave alone. *)
CountTick_saturating ==   \* mutant: stops at the largest value
    tick_count' = IF tick_pulse /\ tick_count < TickMod - 1 THEN tick_count + 1
                                                            ELSE tick_count
CountTick_unlessBusy ==   \* mutant: a command swallows the tick
    tick_count' = IF tick_pulse /\ ~cmd_valid THEN (tick_count + 1) % TickMod
                                              ELSE tick_count
CountTick ==
    tick_count' = IF tick_pulse THEN (tick_count + 1) % TickMod ELSE tick_count
KeepPending  == need_word2' = FALSE /\ UNCHANGED <<pending_word2, pending_word1>>
KeepSettings == UNCHANGED <<config, timer_enable>>
NoFlush    == pq_flush' = FALSE /\ sq_flush' = FALSE /\ tt_clear_all' = FALSE
NoDequeue  == pq_dequeue' = FALSE /\ UNCHANGED current_task
QueuesIdle == NoReady /\ NoSleep /\ NoDequeue /\ NoFlush /\ CountTick

Command(ops) == cmd_valid /\ cmd_word.op \in ops
Word2For(op) == ~cmd_valid /\ pending_word2 /\ cmd_word2_valid /\ pending_word1.op = op
Answer(kind, x) == rsp_word' = <<kind, x>>
Ack == Answer("ack", cmd_word.op)

Idle ==
    /\ ~cmd_valid /\ ~(pending_word2 /\ cmd_word2_valid)
    /\ NoTaskWrite /\ QueuesIdle /\ KeepPending /\ KeepSettings
    /\ UNCHANGED rsp_word

(* OP_NOP, OP_SCAN and OP_QUERY only answer. *)
QueryValue ==
    CASE cmd_word.select = "status"     -> rd.status
      [] cmd_word.select = "current"    -> current_task
      [] cmd_word.select = "pq_depth"   -> pq_depth
      [] cmd_word.select = "sq_depth"   -> sq_depth
      [] cmd_word.select = "irq_reason" -> irq_reason
      [] cmd_word.select = "tick_count" -> tick_count
      [] cmd_word.select = "mode_flags" -> 2 * sched_mode + (IF flags_reg THEN 1 ELSE 0)
      [] OTHER -> 0

Inform ==
    /\ Command({"NOP", "SCAN", "QUERY"})
    /\ CASE cmd_word.op = "NOP"   -> Answer("val", 0)
         [] cmd_word.op = "SCAN"  -> Ack
         [] cmd_word.op = "QUERY" -> Answer("val", QueryValue)
    /\ NoTaskWrite /\ QueuesIdle /\ KeepPending /\ KeepSettings

Configure ==
    /\ Command({"CONFIG"}) /\ Ack
    /\ fast_mask' = cmd_word.mask /\ sched_mode' = cmd_word.mode
    /\ tick_divider' = cmd_word.divider /\ flags_reg' = cmd_word.preempt
    /\ NoTaskWrite /\ QueuesIdle /\ KeepPending /\ UNCHANGED timer_enable

RunOrStop ==
    /\ Command({"RUN", "STOP"}) /\ Ack
    /\ timer_enable' = (cmd_word.op = "RUN")
    /\ NoTaskWrite /\ QueuesIdle /\ KeepPending /\ UNCHANGED config

FirstWord ==
    /\ Command(TwoWordOps)
    /\ need_word2' = TRUE /\ pending_word2' = TRUE /\ pending_word1' = cmd_word
    /\ NoTaskWrite /\ QueuesIdle /\ KeepSettings /\ UNCHANGED rsp_word

(* Second words: CREATE also sets the status, MODIFY keeps it. *)
Described(t) ==
    [t EXCEPT !.priority = pending_word1.priority, !.period = cmd_word2.hi,
              !.wcet = cmd_word2.lo, !.deadline = pending_word1.deadline,
              !.abs_deadline = Fresh(pending_word1.deadline),
              !.remaining = cmd_word2.lo]

SecondWord(op) ==
    /\ Word2For(op) /\ Answer("ack", op)
    /\ need_word2' = FALSE /\ pending_word2' = FALSE /\ UNCHANGED pending_word1
    /\ KeepSettings

Create ==
    /\ SecondWord("CREATE") /\ QueuesIdle
    /\ WriteTask(pending_word1.id, Described([rd EXCEPT !.status = Suspended]))

Modify ==
    /\ SecondWord("MODIFY") /\ QueuesIdle
    /\ WriteTask(pending_word1.id, Described(rd))

LongSleep ==
    /\ SecondWord("SLEEP")
    /\ WriteTask(pending_word1.id, [rd EXCEPT !.status = Sleeping])
    /\ StartSleep(pending_word1.id, cmd_word2.hi * TimeMod + cmd_word2.lo)
    /\ NoReady /\ NoDequeue /\ NoFlush /\ CountTick

ShortSleep ==
    /\ Command({"SSLEEP"}) /\ Ack
    /\ WriteTask(cmd_word.id, [rd EXCEPT !.status = Sleeping])
    /\ StartSleep(cmd_word.id, cmd_word.count)
    /\ NoReady /\ NoDequeue /\ NoFlush /\ CountTick /\ KeepPending /\ KeepSettings

(* A periodic task sleeps for its period, with next period's deadline. *)
Yield ==
    /\ Command({"YIELD"}) /\ rd.period # 0 /\ Ack
    /\ WriteTask(cmd_word.id,
                 [rd EXCEPT !.status = Sleeping, !.remaining = rd.wcet,
                            !.abs_deadline = Fresh(rd.period + rd.deadline)])
    /\ StartSleep(cmd_word.id, rd.period)
    /\ NoReady /\ NoDequeue /\ NoFlush /\ CountTick /\ KeepPending /\ KeepSettings

YieldAperiodic ==
    /\ Command({"YIELD"}) /\ rd.period = 0 /\ Answer("err", 4)
    /\ NoTaskWrite /\ QueuesIdle /\ KeepPending /\ KeepSettings

(* OP_DELETE and OP_SUSPEND only change the status: the queues keep the id. *)
Retire ==
    /\ Command({"DELETE", "SUSPEND"}) /\ Ack
    /\ WriteTask(cmd_word.id,
                 [rd EXCEPT !.status = IF cmd_word.op = "DELETE" THEN Deleted
                                                                 ELSE Suspended])
    /\ QueuesIdle /\ KeepPending /\ KeepSettings

Resume ==
    /\ Command({"RESUME"}) /\ Ack
    /\ WriteTask(cmd_word.id,
                 [rd EXCEPT !.status = Ready, !.remaining = rd.wcet,
                            !.abs_deadline = Fresh(rd.deadline)])
    /\ MakeReady(cmd_word.id)
    /\ NoSleep /\ NoDequeue /\ NoFlush /\ CountTick /\ KeepPending /\ KeepSettings

(* Dispatch the head; the task that ran until now keeps its status. *)
Activate_named ==   \* mutant: dispatches the task the command names
    /\ Command({"ACTIVATE"}) /\ pq_head_valid /\ Ack
    /\ current_task' = cmd_word.id /\ pq_dequeue' = TRUE
    /\ WriteTask(cmd_word.id, [table[cmd_word.id] EXCEPT !.status = Running])
    /\ NoReady /\ NoSleep /\ NoFlush /\ CountTick /\ KeepPending /\ KeepSettings
Activate ==
    /\ Command({"ACTIVATE"}) /\ pq_head_valid /\ Ack
    /\ current_task' = pq_head_id /\ pq_dequeue' = TRUE
    /\ WriteTask(pq_head_id, [rd EXCEPT !.status = Running])
    /\ NoReady /\ NoSleep /\ NoFlush /\ CountTick /\ KeepPending /\ KeepSettings

ActivateEmpty ==
    /\ Command({"ACTIVATE"}) /\ ~pq_head_valid /\ Answer("err", 3)
    /\ NoTaskWrite /\ QueuesIdle /\ KeepPending /\ KeepSettings

FlushAll_butSleepers ==   \* mutant: the sleep queue is forgotten
    pq_flush' = TRUE /\ sq_flush' = FALSE /\ tt_clear_all' = TRUE
FlushAll == pq_flush' = TRUE /\ sq_flush' = TRUE /\ tt_clear_all' = TRUE

DropPending_word ==   \* mutant: only the stored word is dropped
    /\ need_word2' = FALSE /\ UNCHANGED pending_word2 /\ pending_word1' = ZeroWord
DropPending ==
    /\ need_word2' = FALSE /\ pending_word2' = FALSE /\ pending_word1' = ZeroWord

Reset ==
    /\ Resets /\ Ack
    /\ FlushAll /\ DropPending
    /\ timer_enable' = FALSE /\ sched_mode' = 0 /\ flags_reg' = FALSE
    /\ fast_mask' = ResetMask
    /\ current_task' = NoTask /\ tick_count' = 0
    /\ NoTaskWrite /\ NoReady /\ NoSleep /\ pq_dequeue' = FALSE
    /\ UNCHANGED tick_divider

ResetRefused ==
    /\ Command({"RESET"}) /\ ~cmd_word.key_ok /\ Answer("err", 1)
    /\ NoTaskWrite /\ QueuesIdle /\ KeepPending /\ KeepSettings

Operation ==
    \/ Idle \/ Inform \/ Configure \/ RunOrStop
    \/ FirstWord \/ Create \/ Modify \/ LongSleep
    \/ ShortSleep \/ Yield \/ YieldAperiodic
    \/ Retire \/ Resume \/ Activate \/ ActivateEmpty \/ Reset \/ ResetRefused

Step == Operation /\ EveryEdge
-----------------------------------------------------------------------------
(* Registers after rst_n: the queues are being flushed and the table cleared. *)
(* pq_enq_id, sq_enq_id and sq_enq_counter have no reset value in the RTL;    *)
(* their enables are low until they are first assigned.                       *)
PowerOn ==
    /\ rsp_word = <<"val", 0>> /\ irq_n = TRUE /\ irq_reason = 0
    /\ current_task = NoTask /\ tick_count = 0
    /\ sched_mode = 0 /\ flags_reg = FALSE /\ fast_mask = ResetMask
    /\ tick_divider = ResetDivider /\ timer_enable = FALSE
    /\ need_word2 = FALSE /\ pending_word2 = FALSE /\ pending_word1 = ZeroWord
    /\ pq_enqueue = FALSE /\ pq_enq_id = 0 /\ pq_dequeue = FALSE /\ pq_flush = TRUE
    /\ sq_enqueue = FALSE /\ sq_enq_id = 0 /\ sq_enq_counter = 0 /\ sq_flush = TRUE
    /\ table = [id \in ID |-> Blank] /\ tt_wr = NoWrite
    /\ tt_clear_all = TRUE /\ tt_rd_id_tick = NoTask
-----------------------------------------------------------------------------
(* Standing alone: any command, second word, tick, wake and interrupt may  *)
(* coincide, except that the slave never pulses both valids (ApbSlave).    *)
DriveInputs ==
    /\ cmd_valid' \in BOOLEAN /\ cmd_word2_valid' \in BOOLEAN
    /\ ~(cmd_valid' /\ cmd_word2_valid')
    /\ cmd_word' \in Word1 /\ cmd_word2' \in Word2
    /\ tick_pulse' \in BOOLEAN /\ irq_pending' \in BOOLEAN /\ fast_irq' \in BOOLEAN
    /\ pq_head_id' \in ID /\ pq_head_valid' \in BOOLEAN /\ pq_depth' \in Nat
    /\ sq_wake_valid' \in BOOLEAN /\ sq_wake_id' \in ID /\ sq_depth' \in Nat

Init ==
    /\ PowerOn
    /\ cmd_valid = FALSE /\ cmd_word = ZeroWord
    /\ cmd_word2_valid = FALSE /\ cmd_word2 = [hi |-> 0, lo |-> 0]
    /\ tick_pulse = FALSE /\ irq_pending = FALSE /\ fast_irq = FALSE
    /\ pq_head_id = 0 /\ pq_head_valid = FALSE /\ pq_depth = 0
    /\ sq_wake_valid = FALSE /\ sq_wake_id = 0 /\ sq_depth = 0

Next == Step /\ DriveInputs
Spec == Init /\ [][Next]_vars
-----------------------------------------------------------------------------
(* A second word is awaited only after an opcode that has one, so the word *)
(* that arrives is never answered dead_0002 (tb_control_unit_assert.v:112- *)
(* 119), even when another first word or a RESET came in between.          *)
PendingIsTwoWord ==
    /\ need_word2 => pending_word2
    /\ pending_word2 => pending_word1.op \in TwoWordOps

(* Whenever a task is offered to the ready queue, the same cycle presents  *)
(* the table write that makes this very task ready: the command and the    *)
(* wake that compete for the two ports never take one each.                *)
ReadyOfferIsMarked ==
    pq_enqueue => /\ tt_wr.en /\ tt_wr.id = pq_enq_id
                  /\ tt_wr.task.status = Ready
                  /\ tt_wr.task.remaining = tt_wr.task.wcet

(* The line is never low without a reason the host can read, although the  *)
(* five sources and RESET assign line and reason in one cycle.             *)
IrqHasReason == ~irq_n => irq_reason \in {1, 3, 4, 5, 6}

(* A wake is never lost, whatever command, second word or tick shares its  *)
(* cycle: the woken task is marked ready, offered and announced.           *)
WakeAlwaysTaken ==
    [][sq_wake_valid =>
          /\ pq_enqueue' /\ pq_enq_id' = sq_wake_id
          /\ tt_wr'.en /\ tt_wr'.id = sq_wake_id /\ tt_wr'.task.status = Ready
          /\ ~irq_n']_vars
=============================================================================
