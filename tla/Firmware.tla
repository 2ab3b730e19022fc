------------------------------ MODULE Firmware ------------------------------
(***************************************************************************)
(* fw/esp32/app/main.c with the control flow of fw/esp32/driver/scheduler.c *)
(* as the host of the hardware: app_main, its main loop, and the interrupt *)
(* handler on the falling edge of irq_n.  In every clock the processor     *)
(* takes a step of app_main, runs the handler, or is busy elsewhere.  A    *)
(* transfer is one beat (SpiLink shows that words arrive whole and in      *)
(* order); which word is a second word is the business of the bridge in    *)
(* between, which is external.  ESP-IDF and FreeRTOS are external.         *)
(***************************************************************************)
EXTENDS HwScheduler

CONSTANTS T1, T2,        \* the two task_cfg_t of app_main
          TickDivider,   \* 99
          MODE_EDF

VARIABLES pc,               \* app_main's next statement
          g_switch_needed, g_irq_reason,
          edge              \* external: the GPIO's latched interrupt

app == <<pc, g_switch_needed, g_irq_reason, edge>>
fwVars == <<vars, app>>

Plain(op, id) == <<W1([op |-> op, id |-> id])>>
sched_configure(mode, divider, preempt, mask) ==
    <<W1([op |-> "CONFIG", id |-> 0, mode |-> mode, divider |-> divider,
          preempt |-> preempt, mask |-> mask])>>
sched_create(c) ==
    <<W1([op |-> "CREATE", id |-> c.task_id, priority |-> c.priority,
          deadline |-> c.deadline]),
      W2([hi |-> c.period, lo |-> c.wcet])>>
sched_query(sel) == <<W1([op |-> "QUERY", id |-> 0, select |-> sel]),
                      W1([op |-> "NOP", id |-> 0])>>

BootCalls_early ==   \* mutant: task 1 is activated before task 2 is resumed
    sched_configure(MODE_EDF, TickDivider, TRUE, ResetMask)
    \o sched_create(T1) \o Plain("RESUME", T1.task_id)
    \o Plain("RUN", 0) \o Plain("ACTIVATE", 0)
    \o sched_create(T2) \o Plain("RESUME", T2.task_id)
BootCalls ==
    sched_configure(MODE_EDF, TickDivider, TRUE, ResetMask)
    \o sched_create(T1) \o sched_create(T2)
    \o Plain("RESUME", T1.task_id) \o Plain("RESUME", T2.task_id)
    \o Plain("RUN", 0) \o Plain("ACTIVATE", 0)
-----------------------------------------------------------------------------
(* The steps of sched_init; ESP_ERROR_CHECK aborts if one fails.           *)
InitSteps == <<"spi_bus_initialize", "spi_bus_add_device", "gpio_config",
               "gpio_isr_handler_add">>
Initialising == \E n \in DOMAIN InitSteps : pc = InitSteps[n]
Installed    == ~Initialising /\ pc # "aborted"

TransferOver == gap = HostGap /\ beat = NoBeat
NoTransfer ==
    /\ beat' = NoBeat /\ gap' = (IF gap < HostGap THEN gap + 1 ELSE gap)

SchedInit ==
    \E n \in DOMAIN InitSteps :
        /\ pc = InitSteps[n]
        /\ \/ pc' = (IF n < Len(InitSteps) THEN InitSteps[n + 1] ELSE "boot")
           \/ pc' = "aborted"
        /\ NoTransfer /\ UNCHANGED <<todo, g_switch_needed, g_irq_reason>>

(* Driver calls transfer their words one after the other and block.        *)
Transfer == todo # <<>> /\ Send(Head(todo), Tail(todo))

Boot1 == /\ pc = "boot" /\ Transfer
         /\ pc' = IF Len(todo) = 1 THEN "loop" ELSE "boot"
         /\ UNCHANGED <<g_switch_needed, g_irq_reason>>

TestFlag_hoisted ==   \* mutant: not volatile, read once before the loop
    /\ pc = "loop" /\ TransferOver /\ NoTransfer /\ pc' = "delay"
    /\ UNCHANGED <<todo, g_switch_needed, g_irq_reason>>
TestFlag ==
    /\ pc = "loop" /\ TransferOver /\ NoTransfer
    /\ pc' = IF g_switch_needed THEN "clear" ELSE "delay"
    /\ UNCHANGED <<todo, g_switch_needed, g_irq_reason>>

ClearFlag ==
    /\ pc = "clear" /\ pc' = "query" /\ g_switch_needed' = FALSE
    /\ todo' = sched_query("irq_reason")
    /\ NoTransfer /\ UNCHANGED g_irq_reason

(* handle_context_switch: the answer is read by the NOP, one bit late      *)
(* (SpiLink!AnswerIsShifted).                                              *)
Query ==
    /\ pc = "query" /\ Transfer
    /\ IF Len(todo) = 1
       THEN pc' = "activate" /\ g_irq_reason' = rsp_word[2] \div 2
       ELSE UNCHANGED <<pc, g_irq_reason>>
    /\ UNCHANGED g_switch_needed

ActivateNext_clearing ==   \* mutant: the flag is cleared when all is done
    /\ pc = "activate" /\ Send(Head(Plain("ACTIVATE", 0)), <<>>)
    /\ pc' = "delay" /\ g_switch_needed' = FALSE /\ UNCHANGED g_irq_reason
ActivateNext ==
    /\ pc = "activate" /\ Send(Head(Plain("ACTIVATE", 0)), <<>>)
    /\ pc' = "delay" /\ UNCHANGED <<g_switch_needed, g_irq_reason>>

Delay ==
    /\ pc = "delay" /\ TransferOver /\ NoTransfer /\ pc' = "loop"
    /\ UNCHANGED <<todo, g_switch_needed, g_irq_reason>>

AppMain == SchedInit \/ Boot1 \/ TestFlag \/ ClearFlag \/ Query \/ ActivateNext \/ Delay

(* on_scheduler_irq *)
Isr == /\ edge /\ g_switch_needed' = TRUE
       /\ NoTransfer /\ UNCHANGED <<todo, pc, g_irq_reason>>

Busy == NoTransfer /\ UNCHANGED <<todo, pc, g_switch_needed, g_irq_reason>>
-----------------------------------------------------------------------------
(* An edge before the handler is installed is not kept. *)
Falls == Installed /\ irq_n /\ ~irq_n'
Clocked(step) == step /\ Blocks /\ DriveIrq /\ UNCHANGED sent

App      == Clocked(AppMain) /\ edge' = (edge \/ Falls)
Handler  == Clocked(Isr) /\ edge' = Falls
Elsewhere == Clocked(Busy) /\ edge' = (edge \/ Falls)

FwInit ==
    /\ Init /\ pc = InitSteps[1] /\ edge = FALSE
    /\ g_switch_needed = FALSE /\ g_irq_reason = 0
FwNext == App \/ Handler \/ Elsewhere

(* The clock never stops, and the processor always comes back to app_main  *)
(* and takes its interrupts.                                               *)
FwSpec == FwInit /\ [][FwNext]_fwVars
          /\ WF_fwVars(FwNext) /\ WF_fwVars(App) /\ WF_fwVars(Handler)
-----------------------------------------------------------------------------
Asking == beat.addr = "CMD_W1" /\ beat.data.op = "QUERY"

(* A falling edge of irq_n is answered by a QUERY, also one that arrives   *)
(* while app_main boots or is in the middle of answering an earlier one:   *)
(* the flag is cleared before the transfers and not after them.            *)
EdgeIsServed == edge ~> Asking

(* main.c:64: in EDF mode the first task to run is the one with the nearer *)
(* deadline, whatever the lines do meanwhile.                              *)
FirstIsNearest ==
    [][current_task = NoTask => current_task' \in {NoTask, T2.task_id}]_fwVars

(* As long as the external lines are quiet, every task app_main resumed    *)
(* gets its turn: the edge of irq_n, the flag and the second ACTIVATE are  *)
(* enough.  (A line that comes up before the handler is installed takes    *)
(* the only edge away, see AssertedLineIsHandled.)                         *)
EveryTaskRuns ==
    [](ext_irq = {}) => \A t \in {T1.task_id, T2.task_id} :
                            <>(Status(t) = CU!Running \/ pc = "aborted")

(* arch.md:112 and host_integration.md:23: when irq_n is asserted, the     *)
(* host reads the reason and handles it.                                   *)
AssertedLineIsHandled == (Installed /\ ~irq_n) ~> (irq_n \/ Asking \/ pc = "aborted")
=============================================================================
