--------------------------- MODULE MCControlUnit ---------------------------
(***************************************************************************)
(* Model checking of ControlUnit alone: after a fixed boot, everything that *)
(* can arrive in a cycle (a command or second word, a tick, a wake, an      *)
(* external interrupt, any head of the ready queue) coincides in every way, *)
(* in two successive cycles.                                                *)
(***************************************************************************)
EXTENDS ControlUnit, Sequences

CONSTANT FreeClocks    \* bound: cycles with arbitrary inputs

VARIABLE clock

Quiet == [op |-> "none"]

Plain(op, id) == [op |-> op, id |-> id]
Describe(op, id) == [op |-> op, id |-> id, priority |-> 2, deadline |-> 1]

(* Task 0 is created, resumed and dispatched, task 1 is created. *)
Boot == <<Describe("CREATE", 0), [hi |-> 2, lo |-> 1],
          Describe("CREATE", 1), [hi |-> 0, lo |-> 2],
          Plain("RESUME", 0), Plain("ACTIVATE", 0), Quiet>>

Traffic ==
    {Quiet, [hi |-> 1, lo |-> 2],
     Describe("CREATE", 1), Describe("MODIFY", 0), Plain("SLEEP", 0),
     [op |-> "SSLEEP", id |-> 0, count |-> 1],
     Plain("YIELD", 0), Plain("YIELD", 1), Plain("SUSPEND", 0), Plain("DELETE", 1),
     Plain("RESUME", 1), Plain("ACTIVATE", 1), Plain("RUN", 0),
     [op |-> "QUERY", id |-> 0, select |-> "status"],
     [op |-> "CONFIG", id |-> 0, mode |-> 3, divider |-> 3, preempt |-> TRUE, mask |-> {}],
     [op |-> "RESET", id |-> 0, key_ok |-> TRUE],
     [op |-> "RESET", id |-> 0, key_ok |-> FALSE]}

IsWord2(w) == "hi" \in DOMAIN w

Present(w) ==
    /\ cmd_word2_valid' = IsWord2(w)
    /\ cmd_valid' = (~IsWord2(w) /\ w.op # "none")
    /\ cmd_word'  = (IF cmd_valid' THEN w ELSE cmd_word)
    /\ cmd_word2' = (IF cmd_word2_valid' THEN w ELSE cmd_word2)

Events ==
    /\ tick_pulse' \in BOOLEAN /\ irq_pending' \in BOOLEAN /\ fast_irq' = FALSE
    /\ \E h \in {0, 1, 2} : pq_head_id' = h % 2 /\ pq_head_valid' = (h # 2)
    /\ \E k \in {0, 1, 2} : sq_wake_id' = k % 2 /\ sq_wake_valid' = (k # 2)

NoEvents ==
    /\ tick_pulse' = FALSE /\ irq_pending' = FALSE /\ fast_irq' = FALSE
    /\ pq_head_id' = 0 /\ pq_head_valid' = (clock = Len(Boot) - 2)
    /\ sq_wake_id' = 0 /\ sq_wake_valid' = FALSE

BootInputs  == clock < Len(Boot) /\ Present(Boot[clock + 1]) /\ NoEvents
FreeInputs  == /\ clock \in Len(Boot) .. Len(Boot) + FreeClocks - 1
               /\ \E w \in Traffic : Present(w)
               /\ Events
LastClock   == Len(Boot) + FreeClocks
DrainInputs == clock >= LastClock /\ Present(Quiet) /\ NoEvents

BoundedNext ==
    /\ Step /\ clock' = IF clock <= LastClock THEN clock + 1 ELSE clock
    /\ BootInputs \/ FreeInputs \/ DrainInputs
    /\ UNCHANGED <<pq_depth, sq_depth>>

BoundedInit == Init /\ clock = 0
BoundedSpec == BoundedInit /\ [][BoundedNext]_<<vars, clock>>
=============================================================================
