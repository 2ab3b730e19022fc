------------------------------ MODULE TimerSim ------------------------------
(***************************************************************************)
(* The timer's test bench as Verilator translated it to C++                *)
(* (verif/sim/verilator_cov_timer): rtl/timer.v and the always block of    *)
(* the bench run in the NBA region, the initial block and the clock are    *)
(* coroutines, and one call of eval() iterates the regions until no        *)
(* trigger is left.  A step is one phase of one iteration, a resumption    *)
(* of a coroutine, or a turn of main's loop.  A trigger vector is the set  *)
(* of its triggers: the rising clock, the falling reset, a due delay.      *)
(* The Verilator run-time library (the two schedulers) is external.        *)
(***************************************************************************)
EXTENDS Integers

CONSTANTS Divider,         \* tick_divider, 2
          ResetEdges,      \* rising edges before reset is released, 3
          CountedEdges,    \* rising edges on which pulses are counted, 20
          MinPulses,       \* fewer of them is a failure, 4
          ConvergeLimit,   \* iterations of a region, 100
          RandomCounters   \* values VL_SCOPED_RAND_RESET_I gives the counter

CounterMod == 65536   \* tick_divider and the counter are 16 bits wide
ASSUME WidthAssumption == /\ Divider \in 0 .. CounterMod - 1
                          /\ RandomCounters \subseteq 0 .. CounterMod - 1

VARIABLES
    region,                                    \* which phase is next
    clk, rst_n, tb_enable, tb_tick_pulse, tb_tick_counter,
    prev_clk, prev_rst_n,                      \* __Vtrigprevexpr...
    VactTriggered, VactTriggeredAcc, VnbaTriggered,
    VactIterCount, VnbaIterCount,
    trigSched, dlySched,                       \* external: the coroutines' queues
    stimulus,                                  \* the initial block's progress
    gotFinish, verdicts, Vcoverage

bench   == <<clk, rst_n, tb_enable, tb_tick_pulse, tb_tick_counter>>
prevs   == <<prev_clk, prev_rst_n>>
vectors == <<VactTriggered, VactTriggeredAcc, VnbaTriggered>>
counts  == <<VactIterCount, VnbaIterCount>>
scheds  == <<trigSched, dlySched>>
outcome == <<gotFinish, verdicts, Vcoverage>>
simVars == <<region, bench, prevs, vectors, counts, scheds, stimulus, outcome>>

Points == 0 .. 24
Cover(hit) == Vcoverage' = [p \in Points |-> IF p \in hit THEN Vcoverage[p] + 1
                                                           ELSE Vcoverage[p]]

(* VL_FATAL_MT ends the program when a region does not come to rest. *)
Again(count) == IF count <= ConvergeLimit THEN "act" ELSE "fatal"

Rising_either == IF clk # prev_clk THEN {"clk"} ELSE {}   \* mutant: both edges
Rising  == IF clk /\ ~prev_clk THEN {"clk"} ELSE {}
Falling == IF ~rst_n /\ prev_rst_n THEN {"rst"} ELSE {}
-----------------------------------------------------------------------------
(* First eval(): initial values, then each coroutine up to its first wait. *)
EvalStatic ==
    /\ region = "static" /\ region' = "initial"
    /\ clk' = FALSE /\ rst_n' = FALSE /\ tb_enable' = FALSE
    /\ prev_clk' = FALSE /\ prev_rst_n' = FALSE
    /\ VactTriggeredAcc' = VactTriggered /\ Cover({0, 1, 2, 3})
    /\ UNCHANGED <<tb_tick_pulse, tb_tick_counter, VactTriggered, VnbaTriggered, counts,
                   scheds, stimulus, gotFinish, verdicts>>

(* @(posedge clk): an edge that is already there is noted for the next     *)
(* iteration and does not resume the coroutine that starts to wait now.    *)
AwaitEdge(pending) ==
    /\ prev_clk' = clk /\ VactTriggeredAcc' = pending \cup Rising
    /\ trigSched' = "awaiting"

EvalInitial ==
    /\ region = "initial" /\ region' = "act"
    /\ stimulus' = [at |-> "reset", left |-> ResetEdges, pulses |-> 0]
    /\ AwaitEdge(VactTriggeredAcc) /\ dlySched' = "later"
    /\ VactIterCount' = 1 /\ VnbaIterCount' = 1
    /\ UNCHANGED <<bench, prev_rst_n, VactTriggered, VnbaTriggered, outcome>>
-----------------------------------------------------------------------------
(* Active region: compute the triggers, mark the waiting coroutine.        *)
EvalTriggers ==
    /\ region = "act"
    /\ LET fresh == Rising \cup Falling \cup (IF dlySched = "now" THEN {"dly"} ELSE {})
           all   == fresh \cup VactTriggeredAcc
       IN /\ VactTriggered' = all /\ VnbaTriggered' = VnbaTriggered \cup all
          /\ trigSched' = IF "clk" \in fresh /\ trigSched = "awaiting"
                          THEN "fired" ELSE trigSched
          /\ IF all # {} THEN VactTriggeredAcc' = {} /\ region' = "resume"
                         ELSE UNCHANGED VactTriggeredAcc /\ region' = "inact"
    /\ prev_clk' = clk /\ prev_rst_n' = rst_n
    /\ UNCHANGED <<bench, counts, dlySched, stimulus, outcome>>

NoEdgeWaiter ==
    /\ region = "resume" /\ trigSched # "fired" /\ region' = "delays"
    /\ UNCHANGED <<bench, prevs, vectors, counts, scheds, stimulus, outcome>>

(* The initial block between two waits; it runs before the NBA region, so  *)
(* it reads tb_tick_pulse as it was before this edge.                      *)
ResumeStimulus(at) ==
    /\ region = "resume" /\ trigSched = "fired" /\ stimulus.at = at
    /\ region' = "delays"
    /\ UNCHANGED <<clk, tb_tick_pulse, tb_tick_counter, prev_rst_n, VactTriggered,
                   VnbaTriggered, counts, dlySched>>

ReleaseReset_late ==   \* mutant: one more edge in reset
    /\ ResumeStimulus("reset") /\ AwaitEdge(VactTriggeredAcc) /\ Cover({12})
    /\ IF stimulus.left > 0
       THEN stimulus' = [stimulus EXCEPT !.left = @ - 1] /\ UNCHANGED <<rst_n, tb_enable>>
       ELSE /\ stimulus' = [stimulus EXCEPT !.at = "counting", !.left = CountedEdges]
            /\ rst_n' = TRUE /\ tb_enable' = TRUE
    /\ UNCHANGED <<gotFinish, verdicts>>
ReleaseReset ==
    /\ ResumeStimulus("reset") /\ AwaitEdge(VactTriggeredAcc) /\ Cover({12})
    /\ IF stimulus.left > 1
       THEN stimulus' = [stimulus EXCEPT !.left = @ - 1] /\ UNCHANGED <<rst_n, tb_enable>>
       ELSE /\ stimulus' = [stimulus EXCEPT !.at = "counting", !.left = CountedEdges]
            /\ rst_n' = TRUE /\ tb_enable' = TRUE
    /\ UNCHANGED <<gotFinish, verdicts>>

Counted == stimulus.pulses + (IF tb_tick_pulse THEN 1 ELSE 0)
SawPulse == IF tb_tick_pulse THEN {13, 15} ELSE {14, 15}

CountPulse ==
    /\ ResumeStimulus("counting") /\ stimulus.left > 1
    /\ stimulus' = [stimulus EXCEPT !.left = @ - 1, !.pulses = Counted]
    /\ AwaitEdge(VactTriggeredAcc) /\ Cover(SawPulse)
    /\ UNCHANGED <<rst_n, tb_enable, gotFinish, verdicts>>

(* The last edge: $finish does not end the block, "pass" follows "fail".   *)
Judge ==
    /\ ResumeStimulus("counting") /\ stimulus.left = 1
    /\ stimulus' = [at |-> "returned", left |-> 0, pulses |-> Counted]
    /\ trigSched' = "none" /\ gotFinish' = TRUE
    /\ IF Counted < MinPulses
       THEN verdicts' = verdicts \cup {"few", "pass"} /\ Cover(SawPulse \cup {16, 18})
       ELSE verdicts' = verdicts \cup {"pass"} /\ Cover(SawPulse \cup {17, 18})
    /\ UNCHANGED <<rst_n, tb_enable, prev_clk, VactTriggeredAcc>>

(* always #5 clk = ~clk, for as long as nobody called $finish.             *)
ResumeClock ==
    /\ region = "delays" /\ "dly" \in VactTriggered
    /\ clk' = ~clk /\ Cover({4})
    /\ dlySched' = IF gotFinish THEN "none" ELSE "later"
    /\ region' = Again(VactIterCount) /\ VactIterCount' = VactIterCount + 1
    /\ UNCHANGED <<rst_n, tb_enable, tb_tick_pulse, tb_tick_counter, prevs, vectors,
                   VnbaIterCount, trigSched, stimulus, gotFinish, verdicts>>

NoDelayWaiter ==
    /\ region = "delays" /\ "dly" \notin VactTriggered
    /\ region' = Again(VactIterCount) /\ VactIterCount' = VactIterCount + 1
    /\ UNCHANGED <<bench, prevs, vectors, VnbaIterCount, scheds, stimulus, outcome>>

(* The bench has no #0 delay, so the inactive region is empty.             *)
Inactive ==
    /\ region = "inact" /\ region' = "nba"
    /\ UNCHANGED <<bench, prevs, vectors, counts, scheds, stimulus, outcome>>
-----------------------------------------------------------------------------
(* NBA region: first the always block of the bench with the values before  *)
(* the edge, then the timer.                                               *)
Mismatch == tb_tick_pulse /\ tb_tick_counter # Divider

CheckPoints ==
    IF ~rst_n THEN {10, 11} ELSE {6, 9, 11} \cup (IF Mismatch THEN {7} ELSE {8})
CheckReload ==
    IF "clk" \in VnbaTriggered /\ rst_n /\ Mismatch
    THEN gotFinish' = TRUE /\ verdicts' = verdicts \cup {"mismatch"}
    ELSE UNCHANGED <<gotFinish, verdicts>>

TimerPoints ==
    {24} \cup IF ~rst_n THEN {23} ELSE IF ~tb_enable THEN {21}
              ELSE IF tb_tick_counter = 0 THEN {19, 22} ELSE {20, 22}
StepTimer_pulseKept ==   \* mutant: counting does not end the pulse
    /\ tb_tick_counter' = IF ~rst_n THEN 0
                          ELSE IF ~tb_enable \/ tb_tick_counter = 0 THEN Divider
                          ELSE (tb_tick_counter - 1) % CounterMod
    /\ tb_tick_pulse' = (rst_n /\ tb_enable /\ (tb_tick_counter = 0 \/ tb_tick_pulse))
StepTimer ==
    /\ tb_tick_counter' = IF ~rst_n THEN 0
                          ELSE IF ~tb_enable \/ tb_tick_counter = 0 THEN Divider
                          ELSE (tb_tick_counter - 1) % CounterMod
    /\ tb_tick_pulse' = (rst_n /\ tb_enable /\ tb_tick_counter = 0)

ClearTriggers_forgotten == UNCHANGED VnbaTriggered   \* mutant
ClearTriggers == VnbaTriggered' = {}

EvalNba ==
    /\ region = "nba" /\ VnbaTriggered # {} /\ ClearTriggers
    /\ CheckReload
    /\ IF VnbaTriggered \cap {"clk", "rst"} # {}
       THEN StepTimer ELSE UNCHANGED <<tb_tick_counter, tb_tick_pulse>>
    /\ Cover((IF "clk" \in VnbaTriggered THEN CheckPoints ELSE {})
             \cup (IF VnbaTriggered \cap {"clk", "rst"} # {} THEN TimerPoints ELSE {}))
    /\ region' = Again(VnbaIterCount)
    /\ VnbaIterCount' = VnbaIterCount + 1 /\ VactIterCount' = 1
    /\ UNCHANGED <<clk, rst_n, tb_enable, prevs, VactTriggered, VactTriggeredAcc,
                   scheds, stimulus>>

Settled ==
    /\ region = "nba" /\ VnbaTriggered = {} /\ region' = "main"
    /\ UNCHANGED <<bench, prevs, vectors, counts, scheds, stimulus, outcome>>
-----------------------------------------------------------------------------
(* main(): the next time slot, unless $finish was called or nothing waits. *)
NextTimeSlot ==
    /\ region = "main" /\ ~gotFinish /\ dlySched = "later"
    /\ dlySched' = "now"
    /\ region' = "act" /\ VactIterCount' = 1 /\ VnbaIterCount' = 1
    /\ UNCHANGED <<bench, prevs, vectors, trigSched, stimulus, outcome>>

Exit ==
    /\ region = "main" /\ (gotFinish \/ dlySched = "none") /\ region' = "exit"
    /\ UNCHANGED <<bench, prevs, vectors, counts, scheds, stimulus, outcome>>

SimInit ==
    /\ region = "static"
    /\ clk = FALSE /\ rst_n = FALSE /\ tb_enable = FALSE
    /\ tb_tick_pulse \in BOOLEAN /\ tb_tick_counter \in RandomCounters
    /\ prev_clk = FALSE /\ prev_rst_n = FALSE
    /\ VactTriggered = {} /\ VactTriggeredAcc = {} /\ VnbaTriggered = {}
    /\ VactIterCount = 0 /\ VnbaIterCount = 0
    /\ trigSched = "none" /\ dlySched = "none"
    /\ stimulus = [at |-> "start", left |-> 0, pulses |-> 0]
    /\ gotFinish = FALSE /\ verdicts = {} /\ Vcoverage = [p \in Points |-> 0]

SimNext ==
    \/ EvalStatic \/ EvalInitial
    \/ EvalTriggers \/ NoEdgeWaiter \/ ReleaseReset \/ CountPulse \/ Judge
    \/ ResumeClock \/ NoDelayWaiter \/ Inactive
    \/ EvalNba \/ Settled \/ NextTimeSlot \/ Exit

(* A single thread that is not stopped. *)
SimSpec == SimInit /\ [][SimNext]_simVars /\ WF_simVars(SimNext)
-----------------------------------------------------------------------------
(* The RTL the simulation is about, with the values its wires have when    *)
(* the NBA region starts.                                                  *)
Rtl == INSTANCE TickTimer WITH Dividers <- {Divider}, tick_divider <- Divider,
         enable <- tb_enable, tick_counter <- tb_tick_counter, tick_pulse <- tb_tick_pulse

(* Whenever the timer's registers change, they take one step of rtl/timer.v *)
(* or its reset: the delayed-assignment copies and the order of the blocks  *)
(* in the generated code are invisible.                                     *)
StepsAsRtl ==
    [][<<tb_tick_counter', tb_tick_pulse'>> # <<tb_tick_counter, tb_tick_pulse>>
       => IF rst_n THEN Rtl!Step ELSE tb_tick_counter' = 0 /\ ~tb_tick_pulse']_simVars

(* In every settled time slot the timer has stepped, and the initial block *)
(* has woken, exactly once for each rising edge so far: no trigger is lost *)
(* between firing and waiting again, none is served in two iterations.     *)
Edges == (Vcoverage[4] + 1) \div 2
EveryEdgeOnce ==
    region = "main" =>
        /\ Vcoverage[24] = Edges /\ Vcoverage[11] = Edges
        /\ Vcoverage[12] + Vcoverage[15] = Edges

(* The simulation ends, with the verdict "pass" alone: every slot          *)
(* converges, the clock outlives the stimulus, and no check of the bench   *)
(* fails.                                                                  *)
EndsWithPass == <>(region = "exit" /\ verdicts = {"pass"})
=============================================================================
