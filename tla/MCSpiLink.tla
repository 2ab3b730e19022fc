----------------------------- MODULE MCSpiLink -----------------------------
(* Calls and answers for model checking SpiLink: every function of the     *)
(* driver, with arguments at the ends of their ranges and in between.      *)
EXTENDS SpiLink

First(r)  == [word |-> 1, asks |-> r]
Second(r) == [word |-> 2, asks |-> r]
Plainly(sends, op, id) == [sends |-> sends, means |-> <<First([op |-> op, id |-> id])>>]
Task(sends, op, c) ==
    [sends |-> sends,
     means |-> <<First([op |-> op, id |-> c.task_id, priority |-> c.priority,
                        deadline |-> c.deadline]),
                 Second([hi |-> c.period, lo |-> c.wcet])>>]
Config(mode, div, flags, mask) ==
    [sends |-> sched_configure(mode, div, flags, mask),
     means |-> <<First([op |-> "CONFIG", mask |-> mask, mode |-> mode, divider |-> div,
                        preempt |-> flags = SCHED_FLAG_PREEMPT])>>]
Query(id, sel) ==
    [sends |-> sched_query(id, sel),
     means |-> <<First([op |-> "QUERY", id |-> id, select |-> sel]),
                 First([op |-> "NOP", id |-> 0])>>]

T1 == task_cfg_t(1, 10, 1000, 1000, 100)
T9 == task_cfg_t(9, 15, 65535, 32768, 1)
AllOnes == 0 .. 31

(* A sleep of 2^32 - 2 ticks, one of 2^24 - 1, and one whose count is too  *)
(* large for the short form (2^25 + 8): its lower 24 bits are sent, and    *)
(* its upper bits spoil neither opcode nor identifier.                     *)
Naps == {
    [sends |-> sched_sleep_long(3, AllOnes \ {0}),
     means |-> <<First([op |-> "SLEEP", id |-> 3]), Second([hi |-> 65535, lo |-> 65534])>>],
    [sends |-> sched_sleep_short(14, 0 .. 23),
     means |-> <<First([op |-> "SSLEEP", id |-> 14, count |-> 16777215])>>],
    [sends |-> sched_sleep_short(2, {3, 25}),
     means |-> <<First([op |-> "SSLEEP", id |-> 2, count |-> 8])>>]}

(* The calls that fetch an answer. *)
Reads == {Query(0, 5), Query(7, 6)}

DriverCalls == Naps \cup Reads \cup
    {Config(MODE_EDF, 99, SCHED_FLAG_PREEMPT, 255), Config(MODE_RM, 128, SCHED_FLAG_DEADLINE_IRQ, 6),
     Plainly(sched_run, "RUN", 0), Plainly(sched_stop, "STOP", 0),
     [sends |-> sched_reset, means |-> <<First([op |-> "RESET", key_ok |-> TRUE])>>],
     Task(sched_create(T1), "CREATE", T1), Task(sched_modify(T9), "MODIFY", T9),
     Plainly(sched_delete(5), "DELETE", 5), Plainly(sched_resume(1), "RESUME", 1),
     Plainly(sched_suspend(15), "SUSPEND", 15), Plainly(sched_activate, "ACTIVATE", 0),
     Plainly(sched_yield(8), "YIELD", 8)}

Responses == {Bits(4), {0, 14, 15, 31}}
(* The driver packs each of these calls the way the control unit reads it. *)
ASSUME CallsAssumption == WellCoded
=============================================================================
