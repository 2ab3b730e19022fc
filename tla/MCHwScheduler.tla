--------------------------- MODULE MCHwScheduler ---------------------------
(* Hosts and bounds for model checking HwScheduler. *)
EXTENDS HwScheduler

Plain(op, id) == <<W1([op |-> op, id |-> id])>>
Configure(mode, divider, preempt) ==
    <<W1([op |-> "CONFIG", id |-> 0, mode |-> mode, divider |-> divider,
          preempt |-> preempt, mask |-> ResetMask])>>
Describe(op, id, prio, deadline, period, wcet) ==
    <<W1([op |-> op, id |-> id, priority |-> prio, deadline |-> deadline]),
      W2([hi |-> period, lo |-> wcet])>>
Nap(id, n)   == <<W1([op |-> "SSLEEP", id |-> id, count |-> n])>>
Doze(id, n)  == Plain("SLEEP", id) \o <<W2([hi |-> 0, lo |-> n])>>
Reset        == <<W1([op |-> "RESET", id |-> 0, key_ok |-> TRUE])>>

CarefulRequests ==
    {Plain("RUN", 0), Plain("STOP", 0), Plain("ACTIVATE", 0), Reset}
    \cup {Plain(op, id) : op \in {"RESUME", "SUSPEND", "YIELD", "DELETE"}, id \in {0, 1}}
    \cup {Nap(id, n) : id \in {0, 1}, n \in {1, 2}}
    \cup {Doze(0, 1)}
NoIrqs == {{}}

(* Two tasks, prepared but with the timer still stopped. *)
BootPlus(more) == Configure(0, 3, FALSE)
    \o Describe("CREATE", 0, 1, 3, 2, 1) \o Describe("CREATE", 1, 2, 3, 0, 3) \o more
BootReady   == BootPlus(Plain("RESUME", 0) \o Plain("RESUME", 1))

(* Task 0 sleeps, task 1 is ready, the timer runs. *)
BootSleeper == BootPlus(Plain("RESUME", 1) \o Nap(0, 2) \o Plain("RUN", 0))

(* Preemption enabled, task 0 ready and not dispatched. *)
BootPreempting == Configure(0, 3, TRUE) \o Describe("CREATE", 0, 1, 3, 2, 1)
                  \o Plain("RESUME", 0)
=============================================================================
