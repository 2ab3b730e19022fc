----------------------------- MODULE MCHwTiming -----------------------------
(* Any host, for model checking HwTiming. *)
EXTENDS HwTiming, MCHwScheduler

(* Calls for any task at any clock, legal or not, the sentinel included. *)
FreeRequests ==
    {Nap(0, 1), Nap(0, 3), Nap(1, 2), Plain("YIELD", 0), Plain("ACTIVATE", 1),
     Plain("STOP", 0), Plain("RUN", 0), Plain("SUSPEND", 0), Plain("DELETE", 2),
     Describe("MODIFY", 0, 0, 1, 0, 2), Configure(1, 3, TRUE), Reset}
    \cup {Plain("SLEEP", 1), <<W2([hi |-> 0, lo |-> 1])>>}   \* half a command
=============================================================================
