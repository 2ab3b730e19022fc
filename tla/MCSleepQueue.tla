---------------------------- MODULE MCSleepQueue ----------------------------
(* Model checking of SleepQueue against SleepBag on a small array. *)
EXTENDS SleepQueue, FiniteSets

Occupied == {i \in Slots : valid_mem[i]}
Holding(s) == {i \in Occupied : id_mem[i] = s[1] /\ cnt_mem[i] = s[2]}
Contents == [s \in ID \X Counts |-> Cardinality(Holding(s))]
Woken    == IF wake_valid THEN {wake_id} ELSE {}

Bag == INSTANCE SleepBag WITH
         Capacity <- DEPTH, sleepers <- Contents, size <- Cardinality(Occupied),
         woken <- Woken

(* The array with its shifts implements the bag of countdowns: no shift or *)
(* insertion duplicates, drops, delays or wakes early any sleeper.         *)
KeepsEverySleeper == Bag!Spec

(* The clock never stops.  Nothing is assumed of the requests. *)
FairSpec == Spec /\ WF_vars(Next)

(* While ticks recur and nothing is flushed, every task in the array is    *)
(* eventually announced by a wake, however many shorter sleeps keep being  *)
(* inserted: an insertion goes behind equal counts, so it cannot overtake  *)
(* one that has expired.                                                   *)
EverySleeperWakes ==
    []~flush /\ []<>tick => \A id \in ID :
        (\E i \in Occupied : id_mem[i] = id) ~> (wake_valid /\ wake_id = id)
=============================================================================
