----------------------------- MODULE MCTimerSim -----------------------------
(* Model checking of TimerSim with the numbers of verif/tb_verilog/tb_timer.v *)
(* and a sample of what the timer's registers may hold before reset.          *)
EXTENDS TimerSim

(* The counters written at exit are those of the recorded run              *)
(* (verif/sim/verilator_cov_timer/coverage.dat), whatever the registers    *)
(* held before reset.                                                      *)
Recorded == <<1, 1, 1, 1, 45, 0, 21, 0, 21, 21, 2, 23, 3, 7, 13, 20, 0, 1, 1,
              7, 14, 0, 21, 2, 23>>
RecordedCoverage == region = "exit" => \A p \in Points : Vcoverage[p] = Recorded[p + 1]
=============================================================================
