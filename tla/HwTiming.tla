------------------------------ MODULE HwTiming ------------------------------
(***************************************************************************)
(* HwScheduler with one history variable: due holds, for every sleep       *)
(* that was started, the tick_count at which it is to end.  It relates what *)
(* the sleep queue counts to what the host reads with QUERY tick_count;    *)
(* the two count the same pulses in different blocks.                      *)
(***************************************************************************)
EXTENDS HwScheduler, Bags

VARIABLE due

timedVars == <<vars, due>>

TimedInit == Init /\ due = EmptyBag

(* The wake announced in this cycle is settled, the sleep that enters the  *)
(* queue on this edge is noted.                                            *)
Ended == SetToBag(IF sq_wake_valid THEN {<<sq_wake_id, tick_count>>} ELSE {})
Started == SetToBag(IF sq_enqueue
                    THEN {<<sq_enq_id, (tick_count' + sq_enq_counter) % TickMod>>} ELSE {})

TimedNext == Next /\ due' = IF sq_flush THEN EmptyBag ELSE (due (-) Ended) (+) Started

TimedSpec == TimedInit /\ [][TimedNext]_timedVars

(* The clock never stops; the host need not ever send anything. *)
FairTimedSpec == TimedSpec /\ WF_timedVars(TimedNext)

(* A sleep of n >= 1 ticks ends exactly n counted ticks after it entered   *)
(* the queue, across STOP and RUN, and whether a tick falls on the edge    *)
(* that inserts the entry or not; sleepers that expire together wake one   *)
(* clock apart, still within the same tick.  (A RESET clears tick_count one *)
(* edge before the queue: what that edge announces is ResetLeavesNothing's.) *)
WakesOnTime == sq_wake_valid /\ ~sq_flush => BagIn(<<sq_wake_id, tick_count>>, due)

(* While the timer runs, every task in the sleep queue reaches the ready   *)
(* queue: timer, sleep queue, control unit and top-level registers hand it *)
(* on, whatever commands arrive meanwhile, unless a RESET flushes it.      *)
SleeperBecomesReady ==
    \A id \in ID :
        (\E i \in SQ!Slots : valid_mem[i] /\ id_mem[i] = id)
        ~> \/ \E i \in PQ!Cells : cell[i].valid /\ cell[i].id = id
           \/ sq_flush \/ ~timer_enable

(* Time goes on: commands cannot starve the tick counter (arch.md:105).    *)
TicksAreCounted == <>[]timer_enable => []<><<tick_count' # tick_count>>_vars
=============================================================================
