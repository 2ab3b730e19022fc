---------------------------- MODULE HwScheduler ----------------------------
(***************************************************************************)
(* rtl/hw_scheduler_top.v: the blocks wired together, on one clock.  Every *)
(* block steps on every edge from the values all registers had before it,  *)
(* so Blocks is the conjunction of the blocks' steps; the wires between    *)
(* them are the substitutions of the INSTANCEs, and the registers the top  *)
(* level inserts itself (tick_pulse_r, pq_enqueue_r) are here.             *)
(* The host and the UART-to-APB bridge are external: they present write    *)
(* beats, at least HostGap clocks apart, of commands out of Requests.      *)
(***************************************************************************)
EXTENDS Integers, Sequences, FiniteSets

CONSTANTS ID, NoTask, TimeMod, TickMod, Priorities, ShortCounts, Dividers,
          Masks, ResetMask, ResetDivider,
          PQ_DEPTH, SQ_DEPTH, NUM_IRQ,
          Boot,       \* beats sent first, in order and without delay
          Requests,   \* what the host may send then: sequences of beats
          MaxCmds,    \* bound: how many requests it sends
          HostGap,    \* clocks between two beats, at least
          Careful,    \* host discipline: see MaySend
          IrqSets     \* sets of external lines that may be up together

ASSUME WidthAssumption ==
    /\ NoTask \in ID /\ 0 \in ID /\ TimeMod \in Nat \ {0} /\ TickMod \in Nat \ {0}
    /\ Priorities \subseteq 0 .. TimeMod - 1 /\ 0 \in Priorities
    /\ ShortCounts \subseteq 0 .. TimeMod * TimeMod - 1 /\ Dividers \subseteq Nat
    /\ ResetMask \in Masks /\ ResetDivider \in Nat
ASSUME DepthAssumption == PQ_DEPTH \in Nat \ {0} /\ SQ_DEPTH \in Nat \ {0}
ASSUME HostAssumption == MaxCmds \in Nat /\ HostGap \in Nat /\ Careful \in BOOLEAN

VARIABLES
    beat, todo, sent, gap, ext_irq,                                  \* external
    cmd_valid, cmd_word, cmd_word2_valid, cmd_word2,                 \* slave
    slv_pending_word2, arm_cmd_valid, arm_word2_valid,
    tick_counter, tick_pulse, tick_pulse_r,                          \* timer
    irq_pending, fast_irq, irq_index,                                \* ext. irq
    cell, pq_depth, pq_enqueue_r, pq_enq_id_r, pq_enq_key_r,         \* ready
    id_mem, cnt_mem, valid_mem, sq_depth, sq_wake_valid, sq_wake_id, \* sleep
    rsp_word, irq_n, irq_reason, current_task, tick_count,           \* control
    sched_mode, flags_reg, fast_mask, tick_divider, timer_enable,
    need_word2, pending_word2, pending_word1,
    pq_enqueue, pq_enq_id, pq_dequeue, pq_flush,
    sq_enqueue, sq_enq_id, sq_enq_counter, sq_flush,
    table, tt_wr, tt_clear_all, tt_rd_id_tick

host  == <<beat, todo, sent, gap, ext_irq>>
slave == <<cmd_valid, cmd_word, cmd_word2_valid, cmd_word2,
           slv_pending_word2, arm_cmd_valid, arm_word2_valid>>
timer == <<tick_counter, tick_pulse, tick_pulse_r>>
irqs  == <<irq_pending, fast_irq, irq_index>>
pq    == <<cell, pq_depth, pq_enqueue_r, pq_enq_id_r, pq_enq_key_r>>
sq    == <<id_mem, cnt_mem, valid_mem, sq_depth, sq_wake_valid, sq_wake_id>>
ctrl  == <<rsp_word, irq_n, irq_reason, current_task, tick_count, sched_mode,
           flags_reg, fast_mask, tick_divider, timer_enable, need_word2,
           pending_word2, pending_word1, pq_enqueue, pq_enq_id, pq_dequeue,
           pq_flush, sq_enqueue, sq_enq_id, sq_enq_counter, sq_flush,
           table, tt_wr, tt_clear_all, tt_rd_id_tick>>
vars  == <<host, slave, timer, irqs, pq, sq, ctrl>>
-----------------------------------------------------------------------------
PQ == INSTANCE PriorityQueue WITH
        DEPTH <- PQ_DEPTH, NoId <- 0, MaxKey <- TimeMod - 1, depth_r <- pq_depth,
        enqueue <- pq_enqueue_r, enq_id <- pq_enq_id_r, enq_key <- pq_enq_key_r,
        dequeue <- pq_dequeue, flush <- pq_flush

SQ == INSTANCE SleepQueue WITH
        DEPTH <- SQ_DEPTH, NoId <- 0, MaxCount <- TimeMod * TimeMod - 1,
        depth_r <- sq_depth, flush <- sq_flush, enqueue <- sq_enqueue,
        tick <- tick_pulse_r, enq_id <- sq_enq_id, enq_count <- sq_enq_counter,
        wake_valid <- sq_wake_valid, wake_id <- sq_wake_id

CU == INSTANCE ControlUnit WITH
        tick_pulse <- tick_pulse_r,
        pq_head_id <- PQ!head_id, pq_head_valid <- PQ!head_valid

Timer == INSTANCE TickTimer WITH enable <- timer_enable

IrqCtrl == INSTANCE InterruptCtrl

Slave == INSTANCE ApbSlave WITH
           NeedsWord2 <- CU!TwoWordOps,
           ZeroWord1 <- CU!ZeroWord, ZeroWord2 <- [hi |-> 0, lo |-> 0],
           write_phase <- beat.addr # "none", addr_lo <- beat.addr,
           PWDATA <- beat.data
-----------------------------------------------------------------------------
(* The registers hw_scheduler_top.v adds between the blocks.  The two      *)
(* copies of tick_pulse_r always hold the same value and are one here.     *)
(* The key is sampled one clock after the enqueue was decided.             *)
TopRegisters ==
    /\ tick_pulse_r' = tick_pulse
    /\ pq_enqueue_r' = pq_enqueue
    /\ pq_enq_id_r' = pq_enq_id
    /\ pq_enq_key_r' = CU!pq_enq_key

Blocks == Slave!Step /\ Timer!Step /\ IrqCtrl!Step /\ PQ!Step /\ SQ!Step
          /\ CU!Step /\ TopRegisters
-----------------------------------------------------------------------------
(* The host.  Careful: it stops the timer before a command that touches a  *)
(* task, waits (HostGap) for wakes under way, and makes only the calls     *)
(* that suit the task's status, which it can QUERY.                        *)
NoBeat == [addr |-> "none", data |-> CU!ZeroWord]
W1(w)  == [addr |-> "CMD_W1", data |-> w]
W2(w)  == [addr |-> "CMD_W2", data |-> w]
Beats  == [addr : {"CMD_W1"}, data : CU!Word1] \cup [addr : {"CMD_W2"}, data : CU!Word2]

(* The host writes the two command registers and nothing else, and only    *)
(* words the wire can carry.                                               *)
ASSUME BeatsAssumption == /\ Boot \in Seq(Beats)
                          /\ \A r \in Requests : r \in Seq(Beats) /\ r # <<>>

Allows(status, w) ==
    CASE w.op \in {"CREATE", "MODIFY", "RESUME"} ->
             status = CU!Suspended \/ (w.op = "CREATE" /\ status = CU!Deleted)
      [] w.op = "DELETE" -> status = CU!Suspended
      [] w.op \in {"SLEEP", "SSLEEP", "YIELD", "SUSPEND"} -> status = CU!Running
      [] OTHER -> TRUE
Suits(w) == Allows(table[w.id].status, w)

TouchesTask(w) == w.op \notin {"NOP", "SCAN", "QUERY", "RUN", "STOP"}

MaySend(b) ==
    Careful /\ b.addr = "CMD_W1" =>
        Suits(b.data) /\ (TouchesTask(b.data) => ~timer_enable)

Booting == sent = 0 /\ todo # <<>>

Send(b, rest) == /\ gap = HostGap /\ beat = NoBeat /\ MaySend(b)
                 /\ beat' = b /\ todo' = rest /\ gap' = 0

Continue == todo # <<>> /\ Send(Head(todo), Tail(todo)) /\ UNCHANGED sent

Request == /\ todo = <<>> /\ sent < MaxCmds /\ sent' = sent + 1
           /\ \E r \in Requests : Send(Head(r), Tail(r))

Wait == /\ ~(Booting /\ gap = HostGap)
        /\ beat' = NoBeat /\ gap' = (IF gap < HostGap THEN gap + 1 ELSE gap)
        /\ UNCHANGED <<todo, sent>>

DriveIrq == ext_irq' \in IrqSets

Host == (Continue \/ Request \/ Wait) /\ DriveIrq
-----------------------------------------------------------------------------
Init ==
    /\ beat = NoBeat /\ todo = Boot /\ sent = 0 /\ gap = 0 /\ ext_irq = {}
    /\ Slave!PowerOn /\ Timer!PowerOn /\ IrqCtrl!PowerOn /\ CU!PowerOn
    /\ cell = [i \in PQ!Cells |-> PQ!NoItem] /\ pq_depth = 0
    /\ SQ!Empty
    /\ tick_pulse_r = FALSE
    /\ pq_enqueue_r = FALSE /\ pq_enq_id_r = 0 /\ pq_enq_key_r = 0

Next == Host /\ Blocks
Spec == Init /\ [][Next]_vars
(* The clock never stops; the host need not ever send anything. *)
FairSpec == Spec /\ WF_vars(Next)
-----------------------------------------------------------------------------
(* Where a task is: how many entries and requests under way carry id.      *)
Once(b) == IF b THEN 1 ELSE 0
InReady(id) ==
    Cardinality({i \in PQ!Cells : cell[i].valid /\ cell[i].id = id
                                  /\ ~(pq_dequeue /\ i = 0)})
    + Once(pq_enqueue /\ pq_enq_id = id) + Once(pq_enqueue_r /\ pq_enq_id_r = id)
InSleep(id) ==
    Cardinality({i \in SQ!Slots : valid_mem[i] /\ id_mem[i] = id})
    + Once(sq_enqueue /\ sq_enq_id = id) + Once(sq_wake_valid /\ sq_wake_id = id)

(* The status including the write that is on its way into the table. *)
Status(id) ==
    IF tt_wr.en /\ tt_wr.id = id THEN tt_wr.task.status ELSE table[id].status

(* For a host that keeps commands away from ticks and wakes, the status of *)
(* a task and the queues always tell the same story: a ready task is in    *)
(* the ready path exactly once, a sleeping one in the sleep path exactly   *)
(* once, and any other task in neither.                                    *)
StatusMatchesQueues ==
    ~pq_flush => \A id \in ID :
        /\ InReady(id) = Once(Status(id) = CU!Ready)
        /\ InSleep(id) = Once(Status(id) = CU!Sleeping)

(* control_unit.v:358: ACTIVATE takes the task it dispatches, and no other, *)
(* out of the ready queue, although the dequeue acts a cycle after the      *)
(* dispatch and an enqueue may act in between.                              *)
DequeuesDispatched == pq_dequeue => cell[0].valid /\ cell[0].id = current_task

(* After an acknowledged RESET nothing of the past is left: queues and the  *)
(* requests on their way to them are empty and the table is clear           *)
(* (arch.md:117).                                                           *)
ResetLeavesNothing ==
    rsp_word = <<"ack", "RESET">> /\ ~pq_flush =>
        /\ \A id \in ID : table[id] = CU!Blank /\ InReady(id) = 0 /\ InSleep(id) = 0
        /\ ~tt_wr.en

(* arch.md:117: RESET "deasserts IRQ"; stated for a system without external *)
(* interrupts.  The preemption check at the end of the same edge still sees *)
(* the old flags and the old head of the ready queue.                       *)
ResetDeassertsIrq == rsp_word = <<"ack", "RESET">> => irq_n

(* A key in the ready queue is the key of the task it is stored with; here  *)
(* for priority mode and descriptors nobody modifies (arch.md:21).          *)
ReadyKeysOwn ==
    sched_mode = 0 =>
        \A i \in PQ!Cells : cell[i].valid => cell[i].key = table[cell[i].id].priority

(* A tick looks at the running task: control_unit.v:431-432 guards the      *)
(* deadline check "so tt_rd_id tracks running task".                        *)
TickReadsRunningTask ==
    tick_pulse_r /\ ~pending_word2 /\ ~sq_wake_valid /\ current_task # NoTask
    => CU!tt_rd_id = current_task

(* host_protocol.md:99: a tick that crosses the absolute deadline of the    *)
(* running task raises reason 3.                                            *)
DeadlineMissReported ==
    [][tick_pulse_r /\ ~tt_wr.en /\ ~tt_clear_all
       /\ table[current_task].status = CU!Running
       /\ CU!low(tick_count + 1) = table[current_task].abs_deadline
       => ~irq_n' /\ irq_reason' = 3]_vars

(* The slave's and the control unit's copies of pending_word2 agree except  *)
(* while a word is on its way between them, so STATUS never asks the host   *)
(* for a word the control unit does not wait for, nor the reverse.          *)
PendingAgrees ==
    pending_word2 = \/ slv_pending_word2 /\ ~arm_cmd_valid /\ ~cmd_valid
                    \/ cmd_word2_valid

(* The ticks a task still has to sleep, on its way into the sleep queue or *)
(* in it; none once it is announced.                                       *)
Counted(id) == {cnt_mem[i] : i \in {j \in SQ!Slots : valid_mem[j] /\ id_mem[j] = id}}
TicksLeft(id) ==
    IF sq_enqueue /\ sq_enq_id = id THEN sq_enq_counter
    ELSE IF Counted(id) = {} THEN 0 ELSE CHOOSE n \in Counted(id) : TRUE

Abstract == INSTANCE TaskScheduler WITH
    status  <- [id \in ID |-> IF tt_clear_all THEN CU!Deleted ELSE Status(id)],
    left    <- [id \in ID |-> IF sq_flush THEN 0 ELSE TicksLeft(id)],
    current <- current_task, Counts <- CU!Sleeps

(* For a careful host the blocks together are a scheduler: the descriptor, *)
(* written through one port from copies read cycles before, the two queues *)
(* and the strobes between them amount to one state per task that changes  *)
(* as TaskScheduler says.                                                  *)
ImplementsScheduler == Abstract!Spec

(* The words the host writes arrive at the control unit all, once, in      *)
(* order and as they were addressed, however short the distance between    *)
(* them: a word in transit is a latched register whose pulse is armed.     *)
Channel == INSTANCE CommandChannel WITH
    offered   <- IF beat.addr = "none" THEN <<>> ELSE << <<beat.addr, beat.data>> >>,
    inTransit <- IF arm_cmd_valid THEN << <<"CMD_W1", cmd_word>> >>
                 ELSE IF arm_word2_valid THEN << <<"CMD_W2", cmd_word2>> >> ELSE <<>>,
    handed    <- (IF cmd_valid THEN << <<"CMD_W1", cmd_word>> >> ELSE <<>>)
                 \o (IF cmd_word2_valid THEN << <<"CMD_W2", cmd_word2>> >> ELSE <<>>)
DeliversEveryWord == Channel!Spec

(* The blocks keep each other's promises: what the others drive into a     *)
(* block is what that block's own specification allows (words and counts   *)
(* in range, never both valids), so what holds of the block alone holds    *)
(* of the block in place.                                                  *)
BlocksInPlace == PQ!Spec /\ SQ!Spec /\ CU!Spec
=============================================================================
