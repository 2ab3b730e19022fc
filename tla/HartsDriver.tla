---------------------------- MODULE HartsDriver ----------------------------
(***************************************************************************)
(* fw/esp32/driver/scheduler.{h,c}: the words each call of the driver      *)
(* transfers, and the fields the control unit finds in a word.             *)
(* A uint32_t is the set of its one bits, 31 the most significant, so "or" *)
(* is union.  A call's operator is the sequence of its transfers; the      *)
(* functions always return SCHED_OK, whatever the transfer returned.       *)
(***************************************************************************)
EXTENDS Integers, Sequences, FiniteSetsExt

Bits(n)    == {i \in 0 .. 30 : (n \div 2^i) % 2 = 1}
At(k, s)   == {i + k : i \in s}

MODE_PRIORITY == 0
MODE_RM       == 1
MODE_EDF      == 2
MODE_LLF      == 3

SCHED_FLAG_PREEMPT      == 2^7
SCHED_FLAG_DEADLINE_IRQ == 2^6

task_cfg_t(id, priority, period, deadline, wcet) ==
    [task_id |-> id, priority |-> priority, period |-> period,
     deadline |-> deadline, wcet |-> wcet, periodic |-> TRUE, preemptable |-> TRUE]
-----------------------------------------------------------------------------
mk_word(op, task_id, a, b, c) ==
    At(28, Bits(op % 16)) \cup At(24, Bits(task_id % 16))
    \cup At(16, Bits(a)) \cup At(8, Bits(b)) \cup Bits(c)

mk_task_word1(op, cfg) ==
    At(28, Bits(op % 16)) \cup At(24, Bits(cfg.task_id % 16))
    \cup At(20, Bits(cfg.priority % 16))
    \cup (IF cfg.periodic THEN {19} ELSE {})
    \cup (IF cfg.preemptable THEN {18} ELSE {})
    \cup Bits(cfg.deadline)

Describe(op, cfg) ==
    <<mk_task_word1(op, cfg), At(16, Bits(cfg.period)) \cup Bits(cfg.wcet)>>

sched_configure(mode, tick_div, flags, fast_mask) ==
    <<{28} \cup At(20, Bits(fast_mask)) \cup At(16, Bits(mode % 4))
      \cup At(8, Bits(tick_div)) \cup Bits(flags)>>

sched_run            == <<mk_word(2, 0, 0, 0, 0)>>
sched_stop           == <<mk_word(3, 0, 0, 0, 0)>>
sched_reset          == <<mk_word(15, 0, 173, 0, 0)>>   \* 0xad
sched_create(cfg)    == Describe(4, cfg)
sched_modify(cfg)    == Describe(6, cfg)
sched_delete(id)     == <<mk_word(5, id, 0, 0, 0)>>
sched_resume(id)     == <<mk_word(11, id, 0, 0, 0)>>
sched_suspend(id)    == <<mk_word(10, id, 0, 0, 0)>>
sched_activate       == <<mk_word(12, 0, 0, 0, 0)>>
sched_yield(id)      == <<mk_word(9, id, 0, 0, 0)>>

(* ticks is a uint32_t; the short form silently drops its upper eight bits. *)
sched_sleep_long(id, ticks)  == <<mk_word(7, id, 0, 0, 0), ticks>>
sched_sleep_short(id, ticks) ==
    <<{31} \cup At(24, Bits(id % 16)) \cup (ticks \cap 0 .. 23)>>

(* The answer to QUERY is what the NOP receives (sched_xfer_read_rsp). *)
sched_query(id, sel) == <<mk_word(13, id, sel, 0, 0), {}>>
-----------------------------------------------------------------------------
(* sched_xfer: the four bytes of tx_data, and the order on the wire: byte  *)
(* by byte, each from its most significant bit.                            *)
tx_data(w) == [k \in 0 .. 3 |-> {i \in 0 .. 7 : i + 8 * (3 - k) \in w}]
WireBit(w, j) == (7 - (j % 8)) \in tx_data(w)[j \div 8]

(* The word made of the four bytes received, the bits in order of arrival. *)
rx_word(arrived) == {32 - j : j \in {i \in DOMAIN arrived : arrived[i]}}
-----------------------------------------------------------------------------
(* control_unit.v: the fields of a word. *)
Field(w, hi, lo) == MapThenSumSet(LAMBDA i : 2^(i - lo), w \cap lo .. hi)

OpName(n) == <<"NOP", "CONFIG", "RUN", "STOP", "CREATE", "DELETE", "MODIFY", "SLEEP",
               "SSLEEP", "YIELD", "SUSPEND", "RESUME", "ACTIVATE", "QUERY", "SCAN",
               "RESET">>[n + 1]

DecodeWord1(w) ==
    LET op == OpName(Field(w, 31, 28))
        id == Field(w, 27, 24)
    IN CASE op \in {"CREATE", "MODIFY"} ->
                [op |-> op, id |-> id, priority |-> Field(w, 23, 20),
                 deadline |-> Field(w, 15, 0)]
         [] op = "SSLEEP" -> [op |-> op, id |-> id, count |-> Field(w, 23, 0)]
         [] op = "CONFIG" ->
                [op |-> op, mask |-> Field(w, 27, 20), mode |-> Field(w, 17, 16),
                 divider |-> Field(w, 15, 8), preempt |-> 7 \in w]
         [] op = "QUERY" -> [op |-> op, id |-> id, select |-> Field(w, 23, 16)]
         [] op = "RESET" -> [op |-> op, key_ok |-> Field(w, 23, 16) = 173]
         [] OTHER -> [op |-> op, id |-> id]

DecodeWord2(w) == [hi |-> Field(w, 31, 16), lo |-> Field(w, 15, 0)]
=============================================================================
