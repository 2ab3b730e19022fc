--------------------------- MODULE TimerSim_proofs ---------------------------
(* The generated simulation follows the RTL, for every stimulus and from   *)
(* every value the registers may hold before reset.                        *)
EXTENDS MCTimerSim, TLAPS

LEMMA InNba ==
    ASSUME SimNext, <<tb_tick_counter', tb_tick_pulse'>> # <<tb_tick_counter, tb_tick_pulse>>
    PROVE  StepTimer
<1> SUFFICES ASSUME ~EvalNba PROVE FALSE
  BY DEF EvalNba
<1> USE DEF bench
<1>1. CASE EvalStatic \/ EvalInitial \/ EvalTriggers
  BY <1>1 DEF EvalStatic, EvalInitial, EvalTriggers
<1>2. CASE NoEdgeWaiter \/ ReleaseReset \/ CountPulse \/ Judge
  BY <1>2 DEF NoEdgeWaiter, ReleaseReset, CountPulse, Judge, ResumeStimulus
<1>3. CASE ResumeClock \/ NoDelayWaiter \/ Inactive \/ Settled \/ NextTimeSlot \/ Exit
  BY <1>3 DEF ResumeClock, NoDelayWaiter, Inactive, Settled, NextTimeSlot, Exit
<1> QED  BY <1>1, <1>2, <1>3 DEF SimNext

(* The counter keeps its width, so counting down never wraps. *)
CounterOK == tb_tick_counter \in 0 .. CounterMod - 1

LEMMA Modulus == CounterMod \in Nat \ {0}
BY DEF CounterMod

LEMMA CounterKept ==
    ASSUME CounterOK, [SimNext]_simVars
    PROVE  CounterOK'
<1>1. CASE StepTimer
  BY <1>1, WidthAssumption, Modulus DEF StepTimer, CounterOK
<1>2. CASE ~StepTimer
  <2>1. tb_tick_counter' = tb_tick_counter
    BY <1>2, InNba DEF simVars, bench
  <2> QED  BY <2>1 DEF CounterOK
<1> QED  BY <1>1, <1>2

LEMMA TimerStep ==
    ASSUME CounterOK, StepTimer
    PROVE  IF rst_n THEN Rtl!Step ELSE tb_tick_counter' = 0 /\ ~tb_tick_pulse'
<1> USE DEF StepTimer, CounterOK
<1>1. CASE ~rst_n
  BY <1>1
<1>2. CASE rst_n /\ ~tb_enable
  BY <1>2 DEF Rtl!Step, Rtl!Stopped, Rtl!Reload
<1>3. CASE rst_n /\ tb_enable /\ tb_tick_counter = 0
  BY <1>3 DEF Rtl!Step, Rtl!Pulse, Rtl!Reload
<1>4. CASE rst_n /\ tb_enable /\ tb_tick_counter # 0
  <2>1. (tb_tick_counter - 1) % CounterMod = tb_tick_counter - 1
    BY <1>4, Modulus
  <2> QED  BY <1>4, <2>1 DEF Rtl!Step, Rtl!Count
<1> QED  BY <1>1, <1>2, <1>3, <1>4

(* The generated code changes the timer's registers as rtl/timer.v does,   *)
(* for every 16-bit divider.                                               *)
THEOREM SimulatesRtl == SimSpec => StepsAsRtl
<1>1. SimInit => CounterOK
  BY WidthAssumption DEF SimInit, CounterOK
<1>2. CounterOK /\ [SimNext]_simVars => CounterOK'
  BY CounterKept
<1>3. CounterOK /\ [SimNext]_simVars
      => [<<tb_tick_counter', tb_tick_pulse'>> # <<tb_tick_counter, tb_tick_pulse>>
          => IF rst_n THEN Rtl!Step ELSE tb_tick_counter' = 0 /\ ~tb_tick_pulse']_simVars
  BY InNba, TimerStep
<1> QED  BY <1>1, <1>2, <1>3, PTL DEF SimSpec, StepsAsRtl
-----------------------------------------------------------------------------
(* A rising edge that no iteration has looked at yet, and the numbers of   *)
(* steps the timer, the checks and the initial block have taken.           *)
Unseen == clk /\ ~prev_clk
One(b) == IF b THEN 1 ELSE 0
Resumed == Vcoverage[12] + Vcoverage[15]

TriggersOK ==
    /\ region # "static" => clk \in BOOLEAN
    /\ prev_clk \in BOOLEAN /\ (prev_rst_n => rst_n)
    /\ VactTriggeredAcc = {} /\ VnbaTriggered \subseteq {"clk", "dly"}
    /\ region \notin {"act", "fatal"} => clk = prev_clk

(* A trigger vector only ever serves one edge: the clock's delay is due in *)
(* an iteration of its own, before the edge it makes.                      *)
QueuesOK ==
    /\ region \in {"static", "initial"} =>
           /\ ~clk /\ ~prev_clk /\ VactTriggered = {} /\ VnbaTriggered = {}
           /\ trigSched = "none" /\ dlySched = "none"
    /\ region = "main" => VnbaTriggered = {}
    /\ trigSched = "fired" => region = "resume"
    /\ region \in {"resume", "delays"} /\ "dly" \in VactTriggered => dlySched = "now"
    /\ dlySched = "now" \/ Unseen => trigSched = "awaiting" /\ "clk" \notin VnbaTriggered
    /\ dlySched = "now" => clk = prev_clk
    /\ trigSched = "none" => gotFinish \/ region \in {"static", "initial"}
    /\ trigSched \in {"none", "awaiting", "fired"}

EdgesServed ==
    /\ Vcoverage \in [Points -> Nat]
    /\ Vcoverage[4] + One(clk) = 2 * (Vcoverage[24] + One(Unseen \/ "clk" \in VnbaTriggered))
    /\ Vcoverage[11] = Vcoverage[24]
    /\ Resumed + One(Unseen \/ trigSched = "fired")
         = Vcoverage[24] + One(Unseen \/ "clk" \in VnbaTriggered)

EdgeInv == TriggersOK /\ QueuesOK /\ EdgesServed

LEMMA NextRegion == \A n : Again(n) \in {"act", "fatal"}
BY DEF Again

LEMMA Resumptions ==
    ASSUME TriggersOK, ReleaseReset \/ CountPulse \/ Judge
    PROVE  /\ region = "resume" /\ region' = "delays" /\ trigSched = "fired"
           /\ UNCHANGED <<clk, prev_clk, prev_rst_n, VactTriggered, VactTriggeredAcc,
                          VnbaTriggered, dlySched>>
           /\ rst_n => rst_n'
           /\ \/ trigSched' = "awaiting" /\ UNCHANGED gotFinish
              \/ trigSched' = "none" /\ gotFinish'
<1>1. region = "resume" => Rising = {} /\ clk = prev_clk
  BY DEF TriggersOK, Rising
<1>2. CASE ReleaseReset
  BY <1>1, <1>2 DEF ReleaseReset, ResumeStimulus, AwaitEdge, TriggersOK
<1>3. CASE CountPulse
  BY <1>1, <1>3 DEF CountPulse, ResumeStimulus, AwaitEdge, TriggersOK
<1>4. CASE Judge
  BY <1>1, <1>4 DEF Judge, ResumeStimulus, TriggersOK
<1> QED  BY <1>2, <1>3, <1>4

(* Steps that only go on to the next phase. *)
LEMMA PhaseSteps ==
    ASSUME Inactive \/ Settled \/ NextTimeSlot \/ Exit
    PROVE  /\ UNCHANGED <<clk, rst_n, prev_clk, prev_rst_n, VactTriggered, VactTriggeredAcc,
                          VnbaTriggered, trigSched, gotFinish, Vcoverage>>
           /\ region \in {"inact", "nba", "main"}
           /\ region' = "main" => VnbaTriggered = {}
           /\ region' \in {"nba", "main", "act", "exit"}
           /\ \/ dlySched' = dlySched
              \/ dlySched' = "now" /\ region = "main" /\ ~gotFinish
BY DEF Inactive, Settled, NextTimeSlot, Exit, bench, prevs, vectors, scheds, outcome

LEMMA TriggersKept ==
    ASSUME TriggersOK, QueuesOK, SimNext
    PROVE  TriggersOK'
<1> USE DEF TriggersOK, bench, prevs, vectors, scheds
<1>1. CASE EvalStatic
  BY <1>1 DEF EvalStatic, QueuesOK
<1>2. CASE EvalInitial
  BY <1>2 DEF EvalInitial, AwaitEdge, Rising, QueuesOK
<1>3. CASE EvalTriggers
  BY <1>3 DEF EvalTriggers, Rising, Falling
<1>4. CASE ReleaseReset \/ CountPulse \/ Judge
  <2>1. /\ region = "resume" /\ region' = "delays" /\ trigSched = "fired"
        /\ UNCHANGED <<clk, prev_clk, prev_rst_n, VactTriggered, VactTriggeredAcc,
                       VnbaTriggered, dlySched>>
        /\ rst_n => rst_n'
    BY <1>4, Resumptions
  <2> QED  BY <2>1
<1>5. CASE ResumeClock
  BY <1>5, NextRegion DEF ResumeClock
<1>6. CASE EvalNba
  BY <1>6, NextRegion DEF EvalNba, ClearTriggers
<1>7. CASE NoEdgeWaiter
  BY <1>7 DEF NoEdgeWaiter
<1>8. CASE NoDelayWaiter
  BY <1>8, NextRegion DEF NoDelayWaiter
<1>9. CASE Inactive \/ Settled \/ NextTimeSlot \/ Exit
  <2>1. /\ UNCHANGED <<clk, rst_n, prev_clk, prev_rst_n, VactTriggered, VactTriggeredAcc,
                       VnbaTriggered, trigSched, gotFinish, Vcoverage>>
        /\ region \in {"inact", "nba", "main"}
        /\ region' = "main" => VnbaTriggered = {}
        /\ region' \in {"nba", "main", "act", "exit"}
        /\ \/ dlySched' = dlySched
           \/ dlySched' = "now" /\ region = "main" /\ ~gotFinish
    BY <1>9, PhaseSteps
  <2> QED  BY <2>1
<1> QED  BY <1>1, <1>2, <1>3, <1>4, <1>5, <1>6, <1>7, <1>8, <1>9 DEF SimNext

LEMMA QueuesKept ==
    ASSUME TriggersOK, QueuesOK, SimNext
    PROVE  QueuesOK'
<1> USE DEF QueuesOK, Unseen, bench, prevs, vectors, scheds, outcome
<1>1. CASE EvalStatic
  BY <1>1 DEF EvalStatic
<1>2. CASE EvalInitial
  BY <1>2 DEF EvalInitial, AwaitEdge, Rising, TriggersOK
<1>3. CASE EvalTriggers
  BY <1>3 DEF EvalTriggers, Rising, Falling, TriggersOK
<1>4. CASE ReleaseReset \/ CountPulse \/ Judge
  BY <1>4, Resumptions
<1>5. CASE ResumeClock
  BY <1>5, NextRegion DEF ResumeClock, TriggersOK
<1>6. CASE EvalNba
  BY <1>6, NextRegion DEF EvalNba, ClearTriggers, CheckReload
<1>7. CASE NoEdgeWaiter
  BY <1>7 DEF NoEdgeWaiter, TriggersOK
<1>8. CASE NoDelayWaiter
  BY <1>8, NextRegion DEF NoDelayWaiter, TriggersOK
<1>9. CASE Inactive \/ Settled \/ NextTimeSlot \/ Exit
  <2>1. /\ UNCHANGED <<clk, rst_n, prev_clk, prev_rst_n, VactTriggered, VactTriggeredAcc,
                       VnbaTriggered, trigSched, gotFinish, Vcoverage>>
        /\ region \in {"inact", "nba", "main"}
        /\ region' = "main" => VnbaTriggered = {}
        /\ region' \in {"nba", "main", "act", "exit"}
        /\ \/ dlySched' = dlySched
           \/ dlySched' = "now" /\ region = "main" /\ ~gotFinish
    BY <1>9, PhaseSteps
  <2> QED  BY <2>1 DEF TriggersOK
<1> QED  BY <1>1, <1>2, <1>3, <1>4, <1>5, <1>6, <1>7, <1>8, <1>9 DEF SimNext

(* What a step that passes the points in hit adds to the counters. *)
LEMMA Covered ==
    ASSUME NEW hit, Vcoverage \in [Points -> Nat], Cover(hit)
    PROVE  /\ Vcoverage' \in [Points -> Nat]
           /\ \A p \in Points : Vcoverage'[p] = Vcoverage[p] + One(p \in hit)
BY DEF Cover, One

LEMMA SomePoints == {4, 11, 12, 15, 24} \subseteq Points
BY DEF Points

LEMMA ServedKept ==
    ASSUME TriggersOK, QueuesOK, EdgesServed, SimNext
    PROVE  EdgesServed'
<1> USE DEF EdgesServed, Unseen, Resumed, bench, prevs, vectors, scheds, outcome
<1>0. \A p \in {4, 11, 12, 15, 24} : p \in Points /\ Vcoverage[p] \in Nat
  BY SomePoints
<1>1. CASE EvalStatic
  <2>1. Cover({0, 1, 2, 3}) /\ clk' = FALSE /\ prev_clk' = FALSE /\ ~clk
        /\ UNCHANGED <<VnbaTriggered, trigSched>>
    BY <1>1 DEF EvalStatic, QueuesOK
  <2> QED  BY <1>0, <2>1, Covered DEF One
<1>2. CASE EvalInitial
  <2>1. UNCHANGED <<Vcoverage, clk, VnbaTriggered>> /\ prev_clk' = FALSE /\ ~clk
        /\ trigSched' = "awaiting" /\ trigSched = "none"
    BY <1>2 DEF EvalInitial, AwaitEdge, QueuesOK
  <2> QED  BY <1>0, <2>1 DEF One
<1>3. CASE EvalTriggers
  <2>1. UNCHANGED <<Vcoverage, clk>> /\ ~Unseen'
    BY <1>3 DEF EvalTriggers, TriggersOK
  <2>2. (Unseen \/ "clk" \in VnbaTriggered) <=> "clk" \in VnbaTriggered'
    BY <1>3 DEF EvalTriggers, Rising, Falling, TriggersOK
  <2>3. (Unseen \/ trigSched = "fired") <=> trigSched' = "fired"
    BY <1>3 DEF EvalTriggers, Rising, Falling, QueuesOK
  <2> QED  BY <1>0, <2>1, <2>2, <2>3 DEF One
<1>4. CASE ReleaseReset \/ CountPulse \/ Judge
  <2>1. PICK hit : Cover(hit) /\ ~(4 \in hit) /\ ~(11 \in hit) /\ ~(24 \in hit)
                   /\ (12 \in hit <=> ~(15 \in hit))
    BY <1>4 DEF ReleaseReset, CountPulse, Judge, SawPulse
  <2>2. /\ trigSched = "fired" /\ trigSched' # "fired" /\ clk' = clk /\ ~Unseen /\ ~Unseen'
        /\ VnbaTriggered' = VnbaTriggered
    BY <1>4, Resumptions DEF TriggersOK
  <2>3. /\ Vcoverage' \in [Points -> Nat]
        /\ \A p \in Points : Vcoverage'[p] = Vcoverage[p] + One(p \in hit)
    BY <2>1, Covered
  <2> QED  BY <1>0, <2>1, <2>2, <2>3 DEF One
<1>5. CASE ResumeClock
  <2>1. /\ Cover({4}) /\ clk' = ~clk /\ clk \in BOOLEAN
        /\ UNCHANGED <<prev_clk, VnbaTriggered, trigSched>>
    BY <1>5 DEF ResumeClock, TriggersOK
  <2>2. clk = prev_clk /\ "clk" \notin VnbaTriggered /\ trigSched = "awaiting"
    BY <1>5 DEF ResumeClock, QueuesOK
  <2>3. /\ Vcoverage' \in [Points -> Nat]
        /\ \A p \in Points : Vcoverage'[p] = Vcoverage[p] + One(p \in {4})
    BY <2>1, Covered
  <2>4. /\ Vcoverage'[4] = Vcoverage[4] + 1
        /\ \A p \in {11, 12, 15, 24} : Vcoverage'[p] = Vcoverage[p]
    BY <1>0, <2>3 DEF One
  <2>5. CASE clk
    <3>1. /\ ~clk' /\ ~Unseen' /\ ~Unseen /\ "clk" \notin VnbaTriggered'
          /\ trigSched' = "awaiting"
      BY <2>1, <2>2, <2>5
    <3> QED  BY <1>0, <2>2, <2>3, <2>4, <2>5, <3>1 DEF One
  <2>6. CASE ~clk
    <3>1. clk' /\ Unseen' /\ ~Unseen
      BY <2>1, <2>2, <2>6
    <3> QED  BY <1>0, <2>2, <2>3, <2>4, <2>6, <3>1 DEF One
  <2> QED  BY <2>5, <2>6
<1>6. CASE EvalNba
  <2>1. PICK hit : Cover(hit) /\ ~(4 \in hit) /\ ~(12 \in hit) /\ ~(15 \in hit)
                   /\ (11 \in hit <=> "clk" \in VnbaTriggered)
                   /\ (24 \in hit <=> "clk" \in VnbaTriggered)
    BY <1>6 DEF EvalNba, CheckPoints, TimerPoints, TriggersOK
  <2>2. /\ VnbaTriggered' = {} /\ UNCHANGED <<clk, prev_clk, trigSched>> /\ ~Unseen
    BY <1>6 DEF EvalNba, ClearTriggers, TriggersOK
  <2>3. /\ Vcoverage' \in [Points -> Nat]
        /\ \A p \in Points : Vcoverage'[p] = Vcoverage[p] + One(p \in hit)
    BY <2>1, Covered
  <2> QED  BY <1>0, <2>1, <2>2, <2>3 DEF One
<1>7. CASE NoEdgeWaiter \/ NoDelayWaiter \/ Inactive \/ Settled \/ NextTimeSlot \/ Exit
  <2>1. UNCHANGED <<Vcoverage, clk, prev_clk, VnbaTriggered>>
    BY <1>7 DEF NoEdgeWaiter, NoDelayWaiter, Inactive, Settled, NextTimeSlot, Exit
  <2>2. UNCHANGED trigSched
    BY <1>7 DEF NoEdgeWaiter, NoDelayWaiter, Inactive, Settled, NextTimeSlot, Exit
  <2> QED  BY <1>0, <2>1, <2>2
<1> QED  BY <1>1, <1>2, <1>3, <1>4, <1>5, <1>6, <1>7 DEF SimNext

LEMMA EdgesKept ==
    ASSUME EdgeInv, [SimNext]_simVars
    PROVE  EdgeInv'
<1>1. CASE SimNext
  BY <1>1, TriggersKept, QueuesKept, ServedKept DEF EdgeInv
<1>2. CASE UNCHANGED simVars
  BY <1>2 DEF EdgeInv, TriggersOK, QueuesOK, EdgesServed, Unseen, Resumed, simVars, bench,
              prevs, vectors, scheds, outcome
<1> QED  BY <1>1, <1>2

(* However many edges the bench lets pass: the timer, the checks and the   *)
(* initial block have each stepped once for every rising edge so far.      *)
THEOREM EdgesOnce == SimSpec => []EveryEdgeOnce
<1>1. SimInit => EdgeInv
  <2> SUFFICES ASSUME SimInit PROVE EdgeInv
    OBVIOUS
  <2>1. TriggersOK /\ QueuesOK
    BY DEF SimInit, TriggersOK, QueuesOK, Unseen
  <2>2. Vcoverage \in [Points -> Nat] /\ \A p \in Points : Vcoverage[p] = 0
    BY DEF SimInit
  <2>3. EdgesServed
    BY <2>2, SomePoints DEF SimInit, EdgesServed, Unseen, Resumed, One
  <2> QED  BY <2>1, <2>3 DEF EdgeInv
<1>2. EdgeInv /\ [SimNext]_simVars => EdgeInv'
  BY EdgesKept
<1>3. EdgeInv => EveryEdgeOnce
  <2> SUFFICES ASSUME EdgeInv, region = "main" PROVE EveryEdgeOnce
    BY DEF EveryEdgeOnce
  <2>1. ~Unseen /\ VnbaTriggered = {} /\ trigSched # "fired" /\ clk \in BOOLEAN
    BY DEF EdgeInv, TriggersOK, QueuesOK, Unseen
  <2>2. /\ Vcoverage[4] \in Nat /\ Vcoverage[24] \in Nat
        /\ Vcoverage[4] + One(clk) = 2 * Vcoverage[24]
        /\ Vcoverage[11] = Vcoverage[24] /\ Resumed = Vcoverage[24]
    BY <2>1, SomePoints DEF EdgeInv, EdgesServed, One, Resumed
  <2>3. Edges = Vcoverage[24]
    BY <2>1, <2>2 DEF Edges, One
  <2> QED  BY <2>2, <2>3 DEF EveryEdgeOnce, Resumed
<1> QED  BY <1>1, <1>2, <1>3, PTL DEF SimSpec
-----------------------------------------------------------------------------
(* The bench's own numbers; what the registers hold before reset and how   *)
(* soon a region gives up are left open.                                   *)
BenchNumbers == Divider = 2 /\ ResetEdges = 3 /\ CountedEdges = 20 /\ MinPulses = 4

Started == region \notin {"static", "initial"}

(* How far the initial block is, from the edges it has been resumed for.   *)
StimulusAt ==
    \/ /\ ~Started /\ Resumed = 0 /\ ~rst_n /\ ~gotFinish
    \/ /\ Started /\ ~rst_n /\ ~gotFinish /\ Vcoverage[15] = 0
       /\ stimulus.at = "reset" /\ stimulus.left = 3 - Resumed /\ Resumed <= 2
    \/ /\ Started /\ rst_n /\ tb_enable /\ ~gotFinish /\ Vcoverage[12] = 3
       /\ stimulus.at = "counting" /\ stimulus.left = 23 - Resumed /\ Resumed <= 22
    \/ /\ Started /\ rst_n /\ tb_enable /\ gotFinish /\ Vcoverage[12] = 3
       /\ stimulus.at = "returned" /\ Resumed = 23

Progress == [at : {"start", "reset", "counting", "returned"}, left : Int, pulses : Int]

StimulusOK ==
    /\ StimulusAt /\ stimulus \in Progress
    /\ stimulus.pulses = Vcoverage[13] /\ Vcoverage[15] = Vcoverage[13] + Vcoverage[14]
    /\ Vcoverage[17] = One(gotFinish) /\ Vcoverage[18] = One(gotFinish)
    /\ \A p \in {0, 1, 2, 3} : Vcoverage[p] = One(region # "static")
    /\ Vcoverage[5] = 0 /\ Vcoverage[16] = 0

(* The clock is high while an edge is being served, and stays so at the end. *)
ClockOK ==
    /\ "clk" \in VnbaTriggered => clk
    /\ trigSched = "fired" => "clk" \in VnbaTriggered
    /\ dlySched \in {"none", "now", "later"} /\ (dlySched = "none" => ~Started)
    /\ gotFinish => clk /\ dlySched = "later"
    /\ region = "exit" => gotFinish /\ VnbaTriggered = {}

(* Every step of the timer and of the bench's checks passes its points.    *)
TalliesOK ==
    /\ Vcoverage[22] + Vcoverage[23] = Vcoverage[24]
    /\ Vcoverage[19] + Vcoverage[20] = Vcoverage[22]
    /\ \A p \in {6, 8, 9} : Vcoverage[p] = Vcoverage[22]
    /\ Vcoverage[10] = Vcoverage[23] /\ Vcoverage[7] = 0 /\ Vcoverage[21] = 0
    /\ Vcoverage[24] <= 2 => Vcoverage[22] = 0
    /\ Vcoverage[24] >= 2 => Vcoverage[23] = 2

(* Every third step of the timer is a pulse, from the third edge on.       *)
PhaseOK ==
    Vcoverage[24] >= 1 =>
        /\ tb_tick_counter + Vcoverage[20] = 2 * Vcoverage[19]
        /\ tb_tick_counter \in 0 .. 2 /\ (tb_tick_pulse <=> tb_tick_counter = 2)

(* The initial block sees a pulse at the next edge. *)
PulsesSeen ==
    Vcoverage[13] + One(Vcoverage[24] >= 1 /\ tb_tick_pulse /\ Resumed = Vcoverage[24])
        = Vcoverage[19]

RunInv == StimulusOK /\ ClockOK /\ TalliesOK /\ PhaseOK /\ PulsesSeen

LEMMA PointNumbers == \A p \in 0 .. 24 : p \in Points
BY DEF Points

(* The counters after a step, one by one. *)
LEMMA Passed ==
    ASSUME NEW hit, EdgesServed, Cover(hit)
    PROVE  \A p \in 0 .. 24 : /\ Vcoverage[p] \in Nat
                              /\ Vcoverage'[p] = Vcoverage[p] + One(p \in hit)
                              /\ p \in hit => Vcoverage'[p] = Vcoverage[p] + 1
                              /\ p \notin hit => Vcoverage'[p] = Vcoverage[p]
BY Covered, PointNumbers DEF EdgesServed, One

LEMMA Numbers ==
    ASSUME EdgesServed
    PROVE  \A p \in 0 .. 24 : Vcoverage[p] \in Nat
BY PointNumbers DEF EdgesServed

(* An edge on which the initial block is resumed. *)
LEMMA AtResumption ==
    ASSUME EdgeInv, RunInv, ReleaseReset \/ CountPulse \/ Judge
    PROVE  /\ region = "resume" /\ region' = "delays" /\ trigSched' # "fired"
           /\ UNCHANGED <<clk, VnbaTriggered, dlySched, tb_tick_pulse, tb_tick_counter>>
           /\ Resumed = Vcoverage[24] /\ clk /\ dlySched = "later"
<1> USE DEF EdgeInv
<1>1. /\ region = "resume" /\ region' = "delays" /\ trigSched = "fired"
      /\ trigSched' # "fired"
      /\ UNCHANGED <<clk, VnbaTriggered, dlySched, tb_tick_pulse, tb_tick_counter>>
  BY Resumptions DEF ReleaseReset, CountPulse, Judge, ResumeStimulus
<1>2. "clk" \in VnbaTriggered /\ clk
  BY <1>1 DEF RunInv, ClockOK
<1>3. dlySched = "later"
  BY <1>1, <1>2 DEF RunInv, ClockOK, QueuesOK, Started
<1>4. Resumed + 1 = Vcoverage[24] + 1 /\ Vcoverage[24] \in Nat /\ Resumed \in Nat
  BY <1>1, <1>2, Numbers DEF EdgesServed, Resumed, One
<1> QED  BY <1>1, <1>2, <1>3, <1>4

LEMMA ReleaseMoves ==
    ASSUME BenchNumbers, EdgeInv, RunInv, ReleaseReset
    PROVE  RunInv'
<1> USE DEF EdgeInv, RunInv
<1>1. /\ region = "resume" /\ region' = "delays" /\ trigSched' # "fired"
      /\ UNCHANGED <<clk, VnbaTriggered, dlySched, tb_tick_pulse, tb_tick_counter>>
      /\ Resumed = Vcoverage[24] /\ clk /\ dlySched = "later"
  BY AtResumption
<1>2. Cover({12}) /\ stimulus.at = "reset" /\ UNCHANGED gotFinish
  BY DEF ReleaseReset, ResumeStimulus
<1>3. /\ \A p \in 0 .. 24 : Vcoverage[p] \in Nat
      /\ Vcoverage'[12] = Vcoverage[12] + 1
      /\ \A p \in 0 .. 24 : p # 12 => Vcoverage'[p] = Vcoverage[p]
  BY <1>2, Passed
<1>4. /\ ~rst_n /\ ~gotFinish /\ stimulus.left = 3 - Resumed /\ Resumed <= 2
      /\ Vcoverage[15] = 0 /\ stimulus \in Progress
  BY <1>1, <1>2 DEF StimulusOK, StimulusAt, Started
<1>5. Resumed' = Resumed + 1 /\ Resumed = Vcoverage[12] /\ Resumed \in Nat
  BY <1>3, <1>4 DEF Resumed
<1>6. StimulusAt' /\ stimulus'.pulses = stimulus.pulses
      /\ stimulus' \in Progress
  <2>1. CASE stimulus.left > 1
    <3>1. stimulus' = [stimulus EXCEPT !.left = @ - 1] /\ UNCHANGED rst_n
      BY <2>1 DEF ReleaseReset
    <3>2. /\ stimulus'.at = "reset" /\ stimulus'.left = stimulus.left - 1
          /\ stimulus'.pulses = stimulus.pulses
          /\ stimulus' \in Progress
      BY <1>2, <1>4, <3>1 DEF Progress
    <3> QED  BY <1>1, <1>2, <1>3, <1>4, <1>5, <2>1, <3>1, <3>2 DEF StimulusAt, Started
  <2>2. CASE ~(stimulus.left > 1)
    <3>1. /\ stimulus' = [stimulus EXCEPT !.at = "counting", !.left = 20]
          /\ rst_n' = TRUE /\ tb_enable' = TRUE
      BY <2>2 DEF ReleaseReset, BenchNumbers
    <3>2. /\ stimulus'.at = "counting" /\ stimulus'.left = 20
          /\ stimulus'.pulses = stimulus.pulses
          /\ stimulus' \in Progress
      <4>1. stimulus' = [at |-> "counting", left |-> 20, pulses |-> stimulus.pulses]
        BY <1>4, <3>1 DEF Progress
      <4> QED  BY <1>4, <4>1 DEF Progress
    <3>3. Resumed' = 3 /\ Vcoverage'[12] = 3
      BY <1>3, <1>4, <1>5, <2>2
    <3> QED  BY <1>1, <1>2, <1>4, <3>1, <3>2, <3>3 DEF StimulusAt, Started
  <2> QED  BY <2>1, <2>2
<1>7. StimulusOK'
  BY <1>1, <1>2, <1>3, <1>6 DEF StimulusOK
<1>8. ClockOK'
  BY <1>1, <1>2 DEF ClockOK, Started
<1>9. TalliesOK'
  BY <1>3 DEF TalliesOK
<1>10. PhaseOK'
  BY <1>1, <1>3 DEF PhaseOK
<1>11. PulsesSeen'
  <2>1. Vcoverage[19] = 0 /\ ~(Vcoverage[24] >= 1 /\ tb_tick_pulse)
    <3>1. Vcoverage[24] <= 2
      BY <1>1, <1>4
    <3>2. Vcoverage[19] = 0 /\ Vcoverage[20] = 0
      <4>1. Vcoverage[19] \in Nat /\ Vcoverage[20] \in Nat
        BY <1>3
      <4> QED  BY <3>1, <4>1 DEF TalliesOK
    <3> SUFFICES ASSUME Vcoverage[24] >= 1 PROVE ~tb_tick_pulse
      BY <3>2
    <3>3. tb_tick_counter \in 0 .. 2 /\ tb_tick_counter = 0
      BY <3>2 DEF PhaseOK
    <3> QED  BY <3>3 DEF PhaseOK
  <2>2. Vcoverage[13] = 0
    BY <1>3, <2>1 DEF PulsesSeen, One
  <2>3. Vcoverage'[24] = Vcoverage[24]
    BY <1>3
  <2>4. Resumed' # Vcoverage'[24]
    <3>1. Resumed + 1 # Resumed
      BY <1>5
    <3>2. Resumed' = Resumed + 1 /\ Resumed = Vcoverage[24]
      BY <1>1, <1>5
    <3> QED  BY <2>3, <3>1, <3>2
  <2> QED  BY <1>3, <2>1, <2>2, <2>4 DEF PulsesSeen, One
<1> QED  BY <1>7, <1>8, <1>9, <1>10, <1>11

LEMMA CountMoves ==
    ASSUME BenchNumbers, EdgeInv, RunInv, CountPulse \/ Judge
    PROVE  RunInv'
<1> USE DEF EdgeInv, RunInv
<1>1. /\ region = "resume" /\ region' = "delays" /\ trigSched' # "fired"
      /\ UNCHANGED <<clk, VnbaTriggered, dlySched, tb_tick_pulse, tb_tick_counter>>
      /\ Resumed = Vcoverage[24] /\ clk /\ dlySched = "later"
  BY AtResumption
<1>2. /\ stimulus.at = "counting" /\ UNCHANGED <<rst_n, tb_enable>>
  BY DEF CountPulse, Judge, ResumeStimulus
<1>3. \A p \in 0 .. 24 : Vcoverage[p] \in Nat
  BY Numbers
<1>4. /\ rst_n /\ tb_enable /\ ~gotFinish /\ stimulus.left = 23 - Resumed
      /\ Resumed <= 22 /\ Vcoverage[12] = 3
      /\ stimulus \in Progress
      /\ stimulus.pulses = Vcoverage[13]
  BY <1>1, <1>2 DEF StimulusOK, StimulusAt, Started
<1>5. Vcoverage[24] >= 3 /\ Resumed \in Nat
  BY <1>1, <1>3, <1>4 DEF Resumed
<1>6. tb_tick_counter \in 0 .. 2 /\ (tb_tick_pulse <=> tb_tick_counter = 2)
      /\ tb_tick_counter + Vcoverage[20] = 2 * Vcoverage[19]
      /\ Counted = Vcoverage[13] + One(tb_tick_pulse)
      /\ Vcoverage[19] = Vcoverage[13] + One(tb_tick_pulse)
  <2>1. tb_tick_counter \in 0 .. 2 /\ (tb_tick_pulse <=> tb_tick_counter = 2)
        /\ tb_tick_counter + Vcoverage[20] = 2 * Vcoverage[19]
    BY <1>3, <1>5 DEF PhaseOK
  <2>2. Counted = Vcoverage[13] + One(tb_tick_pulse)
    BY <1>4 DEF Counted, One
  <2>3. Vcoverage[19] = Vcoverage[13] + One(tb_tick_pulse)
    BY <1>1, <1>3, <1>5 DEF PulsesSeen, One
  <2> QED  BY <2>1, <2>2, <2>3
<1>7. ASSUME NEW hit, Cover(hit), SawPulse \subseteq hit, hit \subseteq SawPulse \cup {17, 18}
      PROVE  /\ Vcoverage'[13] = Counted
             /\ Vcoverage'[15] = Vcoverage[15] + 1
             /\ Vcoverage'[15] = Vcoverage'[13] + Vcoverage'[14]
             /\ Resumed' = Resumed + 1
             /\ \A p \in 0 .. 24 : p \notin {13, 14, 15, 17, 18}
                                   => Vcoverage'[p] = Vcoverage[p]
             /\ TalliesOK' /\ PhaseOK' /\ PulsesSeen'
  <2>1. /\ 15 \in hit /\ (13 \in hit <=> tb_tick_pulse) /\ (14 \in hit <=> ~tb_tick_pulse)
        /\ hit \subseteq {13, 14, 15, 17, 18}
    BY <1>7 DEF SawPulse
  <2>2. \A p \in 0 .. 24 : /\ p \in hit => Vcoverage'[p] = Vcoverage[p] + 1
                           /\ p \notin hit => Vcoverage'[p] = Vcoverage[p]
    BY <1>7, Passed
  <2>3. Vcoverage'[13] = Vcoverage[13] + One(tb_tick_pulse)
    BY <1>3, <2>1, <2>2 DEF One
  <2>4. Vcoverage'[14] = Vcoverage[14] + One(~tb_tick_pulse)
    BY <1>3, <2>1, <2>2 DEF One
  <2>5. Vcoverage'[15] = Vcoverage[15] + 1
    BY <2>1, <2>2
  <2>6. Vcoverage[15] = Vcoverage[13] + Vcoverage[14]
    BY DEF StimulusOK
  <2>7. Vcoverage'[15] = Vcoverage'[13] + Vcoverage'[14]
    BY <1>3, <2>3, <2>4, <2>5, <2>6 DEF One
  <2>8. \A p \in 0 .. 24 : p \notin {13, 14, 15, 17, 18} => Vcoverage'[p] = Vcoverage[p]
    BY <2>1, <2>2
  <2>9. Resumed' = Resumed + 1
    BY <1>3, <2>5, <2>8 DEF Resumed
  <2>10. TalliesOK'
    BY <2>8 DEF TalliesOK
  <2>11. PhaseOK'
    BY <1>1, <2>8 DEF PhaseOK
  <2>12. PulsesSeen'
    <3>1. Resumed' # Vcoverage'[24]
      BY <1>1, <1>5, <2>8, <2>9
    <3>2. Vcoverage'[13] = Vcoverage'[19]
      BY <1>6, <2>3, <2>8
    <3> QED  BY <1>3, <1>6, <2>8, <3>1, <3>2 DEF PulsesSeen, One
  <2> QED  BY <1>6, <2>3, <2>5, <2>7, <2>8, <2>9, <2>10, <2>11, <2>12
<1>8. CASE CountPulse
  <2>1. Cover(SawPulse) /\ UNCHANGED gotFinish /\ stimulus.left > 1
        /\ stimulus' = [stimulus EXCEPT !.left = @ - 1, !.pulses = Counted]
    BY <1>8 DEF CountPulse
  <2>2. /\ stimulus'.at = "counting" /\ stimulus'.left = stimulus.left - 1
        /\ stimulus'.pulses = Counted
        /\ stimulus' \in Progress
    <3>1. stimulus.left - 1 \in Int /\ Counted \in Int
      BY <1>3, <1>4, <1>5, <1>6 DEF One
    <3> HIDE DEF Counted
    <3>2. /\ stimulus'.at = stimulus.at /\ stimulus'.left = stimulus.left - 1
          /\ stimulus'.pulses = Counted /\ stimulus' \in Progress
      BY <1>4, <2>1, <3>1 DEF Progress
    <3> QED  BY <1>2, <3>2
  <2>3. /\ Vcoverage'[13] = Counted
        /\ Vcoverage'[15] = Vcoverage'[13] + Vcoverage'[14]
        /\ Resumed' = Resumed + 1
        /\ \A p \in 0 .. 24 : p \notin {13, 14, 15, 17, 18} => Vcoverage'[p] = Vcoverage[p]
        /\ TalliesOK' /\ PhaseOK' /\ PulsesSeen'
    BY <1>7, <2>1
  <2>4. Vcoverage'[17] = Vcoverage[17] /\ Vcoverage'[18] = Vcoverage[18]
    <3>1. 17 \notin SawPulse /\ 18 \notin SawPulse
      BY DEF SawPulse
    <3> QED  BY <2>1, <3>1, Passed
  <2>5. StimulusAt'
    BY <1>1, <1>2, <1>4, <1>5, <2>1, <2>2, <2>3 DEF StimulusAt, Started
  <2>6. StimulusOK'
    BY <1>1, <2>1, <2>2, <2>3, <2>4, <2>5 DEF StimulusOK
  <2>7. ClockOK'
    BY <1>1, <2>1 DEF ClockOK, Started
  <2> QED  BY <2>3, <2>6, <2>7
<1>9. CASE Judge
  <2>1. Resumed = 22 /\ Vcoverage[24] = 22
    BY <1>1, <1>4, <1>5, <1>9 DEF Judge
  <2>2. Counted >= 4
    <3>1. Vcoverage[22] = 20
      BY <1>3, <2>1 DEF TalliesOK
    <3> QED  BY <1>3, <1>6, <3>1 DEF TalliesOK
  <2>3. Cover(SawPulse \cup {17, 18}) /\ gotFinish' = TRUE
        /\ stimulus' = [at |-> "returned", left |-> 0, pulses |-> Counted]
    BY <1>3, <1>6, <1>9, <2>2 DEF Judge, BenchNumbers, One
  <2>4. /\ stimulus'.at = "returned" /\ stimulus'.pulses = Counted
        /\ stimulus' \in Progress
    BY <1>3, <1>6, <2>3 DEF One, Progress
  <2>5. /\ Vcoverage'[13] = Counted
        /\ Vcoverage'[15] = Vcoverage'[13] + Vcoverage'[14]
        /\ Resumed' = Resumed + 1
        /\ \A p \in 0 .. 24 : p \notin {13, 14, 15, 17, 18} => Vcoverage'[p] = Vcoverage[p]
        /\ TalliesOK' /\ PhaseOK' /\ PulsesSeen'
    BY <1>7, <2>3
  <2>6. Vcoverage'[17] = 1 /\ Vcoverage'[18] = 1
    <3>1. Vcoverage[17] = 0 /\ Vcoverage[18] = 0
      BY <1>4 DEF StimulusOK, One
    <3> QED  BY <2>3, <3>1, Passed
  <2>7. StimulusAt'
    BY <1>1, <1>2, <1>4, <2>1, <2>3, <2>4, <2>5 DEF StimulusAt, Started
  <2>8. StimulusOK'
    BY <1>1, <2>3, <2>4, <2>5, <2>6, <2>7 DEF StimulusOK, One
  <2>9. ClockOK'
    BY <1>1 DEF ClockOK, Started
  <2> QED  BY <2>5, <2>8, <2>9
<1> QED  BY <1>8, <1>9

(* What an edge of the timer adds, by the points it passes. *)
LEMMA TimerMoves ==
    ASSUME BenchNumbers, EdgeInv, RunInv, EvalNba
    PROVE  RunInv'
<1> USE DEF EdgeInv, RunInv
<1>1. /\ region = "nba" /\ region' # "exit" /\ region' \notin {"static", "initial"}
      /\ VnbaTriggered' = {}
      /\ UNCHANGED <<clk, rst_n, tb_enable, dlySched, trigSched, stimulus>>
  BY NextRegion DEF EvalNba, ClearTriggers, scheds
<1>2. \A p \in 0 .. 24 : Vcoverage[p] \in Nat
  BY Numbers
<1>3. ~Unseen /\ trigSched # "fired"
  BY <1>1 DEF TriggersOK, QueuesOK, Unseen
<1>4. ASSUME NEW hit, Cover(hit), hit \cap {0, 1, 2, 3, 5, 12, 13, 14, 15, 16, 17, 18} = {},
             UNCHANGED gotFinish
      PROVE  StimulusOK' /\ ClockOK' /\ Resumed' = Resumed
  <2>1. \A p \in {0, 1, 2, 3, 5, 12, 13, 14, 15, 16, 17, 18} : Vcoverage'[p] = Vcoverage[p]
    BY <1>4, Passed
  <2>2. Resumed' = Resumed
    BY <2>1 DEF Resumed
  <2>3. StimulusAt'
    BY <1>1, <1>4, <2>1, <2>2 DEF StimulusOK, StimulusAt, Started
  <2>4. StimulusOK'
    BY <1>1, <1>4, <2>1, <2>3 DEF StimulusOK, One
  <2>5. ClockOK'
    BY <1>1, <1>3, <1>4 DEF ClockOK, Started
  <2> QED  BY <2>2, <2>4, <2>5
<1>5. CASE "clk" \notin VnbaTriggered
  <2>1. /\ Cover({}) /\ UNCHANGED <<tb_tick_counter, tb_tick_pulse, gotFinish>>
    BY <1>5 DEF EvalNba, CheckReload, TriggersOK
  <2>2. \A p \in 0 .. 24 : Vcoverage'[p] = Vcoverage[p]
    BY <2>1, Passed
  <2>3. StimulusOK' /\ ClockOK' /\ Resumed' = Resumed
    BY <1>4, <2>1
  <2>4. TalliesOK'
    BY <2>2 DEF TalliesOK
  <2>5. PhaseOK'
    BY <2>1, <2>2 DEF PhaseOK
  <2>6. PulsesSeen'
    BY <2>1, <2>2, <2>3 DEF PulsesSeen
  <2> QED  BY <2>3, <2>4, <2>5, <2>6
<1>6. CASE "clk" \in VnbaTriggered
  <2>1. StepTimer /\ CheckReload /\ Cover(CheckPoints \cup TimerPoints)
    BY <1>6 DEF EvalNba
  <2>2. Resumed = Vcoverage[24] + 1
    BY <1>2, <1>3, <1>6 DEF EdgesServed, Resumed, One
  <2>3. CASE ~rst_n
    <3>1. Resumed <= 2
      BY <1>2, <2>2, <2>3 DEF StimulusOK, StimulusAt
    <3>2. Vcoverage[24] <= 1 /\ Vcoverage[22] = 0
      BY <1>2, <2>2, <3>1 DEF TalliesOK
    <3>3. tb_tick_counter' = 0 /\ tb_tick_pulse' = FALSE /\ UNCHANGED gotFinish
      BY <2>1, <2>3 DEF StepTimer, CheckReload
    <3>4. CheckPoints \cup TimerPoints = {10, 11, 23, 24}
      BY <2>3 DEF CheckPoints, TimerPoints
    <3>5. Cover({10, 11, 23, 24})
      BY <2>1, <3>4
    <3>6. /\ \A p \in {10, 23, 24} : Vcoverage'[p] = Vcoverage[p] + 1
          /\ \A p \in {6, 7, 8, 9, 13, 19, 20, 21, 22} : Vcoverage'[p] = Vcoverage[p]
      BY <3>5, Passed
    <3>7. StimulusOK' /\ ClockOK' /\ Resumed' = Resumed
      BY <1>4, <3>3, <3>5
    <3>8. TalliesOK'
      BY <1>2, <3>2, <3>6 DEF TalliesOK
    <3>9. Vcoverage[19] = 0 /\ Vcoverage[20] = 0
      BY <1>2, <3>2 DEF TalliesOK
    <3>10. PhaseOK'
      BY <3>3, <3>6, <3>9 DEF PhaseOK
    <3>11. PulsesSeen'
      <4>1. Vcoverage[13] = 0
        BY <1>2, <3>9 DEF PulsesSeen, One
      <4> QED  BY <3>3, <3>6, <3>9, <4>1 DEF PulsesSeen, One
    <3> QED  BY <3>7, <3>8, <3>10, <3>11
  <2>4. CASE rst_n
    <3>1. tb_enable /\ Vcoverage[24] >= 2
      BY <1>1, <1>2, <2>2, <2>4 DEF StimulusOK, StimulusAt, Resumed
    <3>2. tb_tick_counter \in 0 .. 2 /\ (tb_tick_pulse <=> tb_tick_counter = 2)
          /\ tb_tick_counter + Vcoverage[20] = 2 * Vcoverage[19]
      BY <1>2, <3>1 DEF PhaseOK
    <3>3. ~Mismatch /\ UNCHANGED gotFinish
      <4>1. ~Mismatch
        BY <3>2 DEF Mismatch, BenchNumbers
      <4> QED  BY <2>1, <4>1 DEF CheckReload
    <3>4. Vcoverage[13] = Vcoverage[19]
      <4>1. Resumed # Vcoverage[24]
        BY <1>2, <2>2
      <4> QED  BY <1>2, <4>1 DEF PulsesSeen, One
    <3>5. Resumed = Vcoverage[24] + 1 /\ Vcoverage[23] = 2
      BY <1>2, <2>2, <3>1 DEF TalliesOK
    <3>6. ASSUME NEW q \in {19, 20}, CheckPoints \cup TimerPoints = {6, 8, 9, 11, q, 22, 24}
          PROVE  /\ StimulusOK' /\ ClockOK' /\ TalliesOK' /\ Resumed' = Vcoverage'[24]
                 /\ \A p \in {q, 24} : Vcoverage'[p] = Vcoverage[p] + 1
                 /\ \A p \in {13, 19, 20} \ {q} : Vcoverage'[p] = Vcoverage[p]
      <4>1. Cover({6, 8, 9, 11, q, 22, 24})
        BY <2>1, <3>6
      <4>2. /\ \A p \in {6, 8, 9, q, 22, 24} : Vcoverage'[p] = Vcoverage[p] + 1
            /\ \A p \in {7, 10, 13, 19, 20, 21, 23} \ {q} : Vcoverage'[p] = Vcoverage[p]
        BY <4>1, Passed
      <4>3. StimulusOK' /\ ClockOK' /\ Resumed' = Resumed
        BY <1>4, <3>3, <4>1
      <4>4. Vcoverage'[19] + Vcoverage'[20] = Vcoverage[19] + Vcoverage[20] + 1
        BY <1>2, <4>2
      <4>5. TalliesOK'
        BY <1>2, <3>1, <4>2, <4>4 DEF TalliesOK
      <4> QED  BY <3>5, <4>2, <4>3, <4>5
    <3>7. CASE tb_tick_counter = 0
      <4>1. tb_tick_counter' = 2 /\ tb_tick_pulse' = TRUE
        BY <2>1, <2>4, <3>1, <3>7 DEF StepTimer, BenchNumbers
      <4>2. CheckPoints \cup TimerPoints = {6, 8, 9, 11, 19, 22, 24}
        BY <2>4, <3>1, <3>3, <3>7 DEF CheckPoints, TimerPoints
      <4>3. /\ StimulusOK' /\ ClockOK' /\ TalliesOK' /\ Resumed' = Vcoverage'[24]
            /\ \A p \in {19, 24} : Vcoverage'[p] = Vcoverage[p] + 1
            /\ \A p \in {13, 20} : Vcoverage'[p] = Vcoverage[p]
        BY <3>6, <4>2
      <4>4. PhaseOK'
        BY <1>2, <3>2, <3>7, <4>1, <4>3 DEF PhaseOK
      <4>5. PulsesSeen'
        BY <1>2, <3>1, <3>4, <4>1, <4>3 DEF PulsesSeen, One
      <4> QED  BY <4>3, <4>4, <4>5
    <3>8. CASE tb_tick_counter # 0
      <4>1. tb_tick_counter' = tb_tick_counter - 1 /\ tb_tick_pulse' = FALSE
        <5>1. (tb_tick_counter - 1) % CounterMod = tb_tick_counter - 1
          BY <3>2, <3>8 DEF CounterMod
        <5> QED  BY <2>1, <2>4, <3>1, <3>8, <5>1 DEF StepTimer
      <4>2. CheckPoints \cup TimerPoints = {6, 8, 9, 11, 20, 22, 24}
        BY <2>4, <3>1, <3>3, <3>8 DEF CheckPoints, TimerPoints
      <4>3. /\ StimulusOK' /\ ClockOK' /\ TalliesOK' /\ Resumed' = Vcoverage'[24]
            /\ \A p \in {20, 24} : Vcoverage'[p] = Vcoverage[p] + 1
            /\ \A p \in {13, 19} : Vcoverage'[p] = Vcoverage[p]
        BY <3>6, <4>2
      <4>4. PhaseOK'
        BY <1>2, <3>2, <3>8, <4>1, <4>3 DEF PhaseOK
      <4>5. PulsesSeen'
        BY <1>2, <3>4, <4>1, <4>3 DEF PulsesSeen, One
      <4> QED  BY <4>3, <4>4, <4>5
    <3> QED  BY <3>7, <3>8
  <2> QED  BY <2>3, <2>4
<1> QED  BY <1>5, <1>6

LEMMA RunKept ==
    ASSUME BenchNumbers, EdgeInv, RunInv, SimNext
    PROVE  RunInv'
<1> USE DEF bench, prevs, vectors, counts, scheds, outcome
<1>0. EdgesServed /\ \A p \in 0 .. 24 : Vcoverage[p] \in Nat
  BY Numbers DEF EdgeInv
<1>1. CASE EvalStatic
  <2>1. /\ Cover({0, 1, 2, 3}) /\ region = "static" /\ region' = "initial" /\ rst_n' = FALSE
        /\ UNCHANGED <<tb_tick_pulse, tb_tick_counter, VnbaTriggered, trigSched, dlySched,
                       stimulus, gotFinish>>
    BY <1>1 DEF EvalStatic
  <2>2. /\ \A p \in {0, 1, 2, 3} : Vcoverage'[p] = Vcoverage[p] + 1
        /\ \A p \in 0 .. 24 : p \notin {0, 1, 2, 3} => Vcoverage'[p] = Vcoverage[p]
    BY <1>0, <2>1, Passed
  <2>3. Resumed' = Resumed
    BY <2>2 DEF Resumed
  <2>4. Resumed = 0 /\ ~gotFinish
    BY <2>1 DEF RunInv, StimulusOK, StimulusAt, Started
  <2>5. StimulusAt'
    BY <2>1, <2>3, <2>4 DEF StimulusAt, Started
  <2>6. StimulusOK'
    BY <2>1, <2>2, <2>5 DEF RunInv, StimulusOK, One
  <2>7. ClockOK'
    BY <2>1, <2>4 DEF EdgeInv, QueuesOK, RunInv, ClockOK, Started
  <2>8. TalliesOK' /\ PhaseOK' /\ PulsesSeen'
    BY <2>1, <2>2, <2>3 DEF RunInv, TalliesOK, PhaseOK, PulsesSeen
  <2> QED  BY <2>6, <2>7, <2>8 DEF RunInv
<1>2. CASE EvalInitial
  <2>1. /\ UNCHANGED <<clk, rst_n, tb_enable, tb_tick_pulse, tb_tick_counter, VnbaTriggered, gotFinish,
                       Vcoverage>>
        /\ region = "initial" /\ region' = "act" /\ dlySched' = "later"
        /\ trigSched' = "awaiting"
    BY <1>2 DEF EvalInitial, AwaitEdge
  <2>2. stimulus' = [at |-> "reset", left |-> 3, pulses |-> 0]
    BY <1>2 DEF EvalInitial, BenchNumbers
  <2>3. /\ stimulus'.at = "reset" /\ stimulus'.left = 3 /\ stimulus'.pulses = 0
        /\ stimulus' \in Progress
    BY <2>2 DEF Progress
  <2>4. Resumed = 0 /\ ~rst_n /\ ~gotFinish
    BY <2>1 DEF RunInv, StimulusOK, StimulusAt, Started
  <2>5. Vcoverage[15] = 0 /\ Vcoverage[13] = 0
    <3>1. Vcoverage[15] = 0
      BY <1>0, <2>4 DEF Resumed
    <3>2. Vcoverage[15] = Vcoverage[13] + Vcoverage[14]
      BY DEF RunInv, StimulusOK
    <3>3. Vcoverage[13] \in Nat /\ Vcoverage[14] \in Nat
      BY <1>0
    <3> QED  BY <3>1, <3>2, <3>3
  <2>6. StimulusAt'
    BY <2>1, <2>3, <2>4, <2>5 DEF StimulusAt, Started, Resumed
  <2>7. StimulusOK'
    BY <2>1, <2>3, <2>5, <2>6 DEF RunInv, StimulusOK
  <2>8. ClockOK'
    BY <2>1, <2>4 DEF RunInv, ClockOK, Started
  <2>9. TalliesOK' /\ PhaseOK' /\ PulsesSeen'
    BY <2>1 DEF RunInv, TalliesOK, PhaseOK, PulsesSeen, Resumed
  <2> QED  BY <2>7, <2>8, <2>9 DEF RunInv
<1>3. CASE ReleaseReset
  BY <1>3, ReleaseMoves
<1>4. CASE CountPulse \/ Judge
  BY <1>4, CountMoves
<1>5. CASE EvalNba
  BY <1>5, TimerMoves
<1>6. CASE EvalTriggers
  <2>1. /\ UNCHANGED <<clk, rst_n, tb_enable, tb_tick_pulse, tb_tick_counter, dlySched, stimulus,
                       gotFinish, Vcoverage>>
        /\ region = "act" /\ region' \in {"resume", "inact"}
    BY <1>6 DEF EvalTriggers
  <2>2. "clk" \in VnbaTriggered' => "clk" \in VnbaTriggered \/ clk
    BY <1>6 DEF EvalTriggers, EdgeInv, TriggersOK, Rising, Falling
  <2>3. trigSched' = "fired" => "clk" \in VnbaTriggered'
    BY <1>6 DEF EvalTriggers, EdgeInv, QueuesOK
  <2>4. StimulusOK' /\ TalliesOK' /\ PhaseOK' /\ PulsesSeen'
    BY <2>1 DEF RunInv, StimulusOK, StimulusAt, TalliesOK, PhaseOK, PulsesSeen, Started, Resumed
  <2>5. ClockOK'
    BY <2>1, <2>2, <2>3 DEF RunInv, ClockOK, Started
  <2> QED  BY <2>4, <2>5 DEF RunInv
<1>7. CASE ResumeClock
  <2>1. /\ Cover({4}) /\ region = "delays" /\ region' \in {"act", "fatal"}
        /\ dlySched' = (IF gotFinish THEN "none" ELSE "later")
        /\ "dly" \in VactTriggered
        /\ UNCHANGED <<rst_n, tb_enable, tb_tick_pulse, tb_tick_counter, VnbaTriggered, trigSched,
                       stimulus, gotFinish>>
    BY <1>7, NextRegion DEF ResumeClock
  <2>2. /\ dlySched = "now" /\ "clk" \notin VnbaTriggered /\ ~gotFinish
    BY <2>1 DEF EdgeInv, QueuesOK, RunInv, ClockOK
  <2>3. \A p \in 0 .. 24 : p # 4 => Vcoverage'[p] = Vcoverage[p]
    BY <1>0, <2>1, Passed
  <2>4. Resumed' = Resumed
    BY <2>3 DEF Resumed
  <2>5. StimulusAt'
    BY <2>1, <2>2, <2>3, <2>4 DEF RunInv, StimulusOK, StimulusAt, Started
  <2>6. StimulusOK'
    BY <2>1, <2>3, <2>5 DEF RunInv, StimulusOK
  <2>7. ClockOK'
    BY <2>1, <2>2 DEF EdgeInv, QueuesOK, RunInv, ClockOK, Started
  <2>8. TalliesOK' /\ PhaseOK' /\ PulsesSeen'
    BY <2>1, <2>3, <2>4 DEF RunInv, TalliesOK, PhaseOK, PulsesSeen
  <2> QED  BY <2>6, <2>7, <2>8 DEF RunInv
<1>8. CASE NoEdgeWaiter \/ NoDelayWaiter \/ Inactive \/ Settled \/ NextTimeSlot \/ Exit
  <2>1. /\ UNCHANGED <<clk, rst_n, tb_enable, tb_tick_pulse, tb_tick_counter, VnbaTriggered, trigSched,
                       stimulus, gotFinish, Vcoverage>>
        /\ region \notin {"static", "initial"} /\ region' \notin {"static", "initial"}
        /\ \/ dlySched' = dlySched
           \/ dlySched' = "now" /\ ~gotFinish
    BY <1>8, NextRegion DEF NoEdgeWaiter, NoDelayWaiter, Inactive, Settled, NextTimeSlot, Exit
  <2>2. region' = "exit" => gotFinish /\ VnbaTriggered = {}
    <3> SUFFICES ASSUME region' = "exit" PROVE gotFinish /\ VnbaTriggered = {}
      OBVIOUS
    <3>1. Exit
      BY <1>8, NextRegion DEF NoEdgeWaiter, NoDelayWaiter, Inactive, Settled, NextTimeSlot
    <3> QED  BY <3>1 DEF Exit, RunInv, ClockOK, Started, EdgeInv, QueuesOK
  <2>3. StimulusOK' /\ TalliesOK' /\ PhaseOK' /\ PulsesSeen'
    BY <2>1 DEF RunInv, StimulusOK, StimulusAt, TalliesOK, PhaseOK, PulsesSeen, Started, Resumed
  <2>4. ClockOK'
    BY <2>1, <2>2 DEF RunInv, ClockOK, Started
  <2> QED  BY <2>3, <2>4 DEF RunInv
<1> QED  BY <1>1, <1>2, <1>3, <1>4, <1>5, <1>6, <1>7, <1>8 DEF SimNext

LEMMA RunStarts ==
    ASSUME SimInit
    PROVE  EdgeInv /\ RunInv
<1>1. Vcoverage \in [Points -> Nat] /\ \A p \in 0 .. 24 : Vcoverage[p] = 0
  BY PointNumbers DEF SimInit
<1>2. TriggersOK /\ QueuesOK
  BY DEF SimInit, TriggersOK, QueuesOK, Unseen
<1>3. EdgesServed /\ Resumed = 0
  BY <1>1 DEF SimInit, EdgesServed, Unseen, Resumed, One
<1>4. stimulus \in Progress /\ stimulus.pulses = 0
  BY DEF SimInit, Progress
<1>5. StimulusAt
  BY <1>3 DEF SimInit, StimulusAt, Started
<1>6. StimulusOK
  BY <1>1, <1>4, <1>5 DEF SimInit, StimulusOK, One
<1>7. ClockOK
  BY DEF SimInit, ClockOK, Started
<1>8. TalliesOK /\ PhaseOK
  BY <1>1 DEF TalliesOK, PhaseOK
<1>9. PulsesSeen
  BY <1>1 DEF PulsesSeen, One
<1> QED  BY <1>2, <1>3, <1>6, <1>7, <1>8, <1>9 DEF EdgeInv, RunInv

(* With the bench's own numbers, whatever the registers hold before reset, *)
(* the counters written at exit are those of the recorded run.             *)
THEOREM CoverageAsRecorded ==
    ASSUME BenchNumbers
    PROVE  SimSpec => []RecordedCoverage
<1>1. SimInit => EdgeInv /\ RunInv
  BY RunStarts
<1>2. EdgeInv /\ RunInv /\ [SimNext]_simVars => EdgeInv' /\ RunInv'
  <2> SUFFICES ASSUME EdgeInv, RunInv, [SimNext]_simVars PROVE EdgeInv' /\ RunInv'
    OBVIOUS
  <2>1. EdgeInv'
    BY EdgesKept
  <2>2. CASE SimNext
    BY <2>1, <2>2, RunKept
  <2>3. CASE UNCHANGED simVars
    BY <2>1, <2>3
       DEF RunInv, StimulusOK, StimulusAt, ClockOK, TalliesOK, PhaseOK, PulsesSeen, Started,
           Resumed, simVars, bench, prevs, vectors, scheds, outcome
  <2> QED  BY <2>2, <2>3
<1>3. EdgeInv /\ RunInv => RecordedCoverage
  <2> SUFFICES ASSUME EdgeInv, RunInv, region = "exit", NEW p \in Points
               PROVE  Vcoverage[p] = Recorded[p + 1]
    BY DEF RecordedCoverage
  <2> USE DEF EdgeInv, RunInv
  <2>1. \A q \in 0 .. 24 : Vcoverage[q] \in Nat
    BY Numbers
  <2>2. clk /\ gotFinish /\ VnbaTriggered = {} /\ ~Unseen /\ trigSched # "fired"
    BY DEF ClockOK, TriggersOK, QueuesOK, Unseen
  <2>3. Resumed = 23 /\ Vcoverage[12] = 3
    BY <2>2 DEF StimulusOK, StimulusAt
  <2>4. Vcoverage[24] = 23 /\ Vcoverage[4] = 45 /\ Vcoverage[11] = 23 /\ Vcoverage[15] = 20
    BY <2>1, <2>2, <2>3 DEF EdgesServed, Resumed, One
  <2>5. /\ Vcoverage[23] = 2 /\ Vcoverage[22] = 21 /\ Vcoverage[10] = 2
        /\ Vcoverage[6] = 21 /\ Vcoverage[8] = 21 /\ Vcoverage[9] = 21
        /\ Vcoverage[7] = 0 /\ Vcoverage[21] = 0
    BY <2>1, <2>4 DEF TalliesOK
  <2>6. Vcoverage[19] = 7 /\ Vcoverage[20] = 14 /\ ~tb_tick_pulse
    BY <2>1, <2>4, <2>5 DEF TalliesOK, PhaseOK
  <2>7. Vcoverage[13] = 7 /\ Vcoverage[14] = 13
    BY <2>1, <2>4, <2>6 DEF PulsesSeen, StimulusOK, One
  <2>8. /\ Vcoverage[0] = 1 /\ Vcoverage[1] = 1 /\ Vcoverage[2] = 1 /\ Vcoverage[3] = 1
        /\ Vcoverage[5] = 0 /\ Vcoverage[16] = 0 /\ Vcoverage[17] = 1 /\ Vcoverage[18] = 1
    BY <2>2 DEF StimulusOK, One
  <2>9. \/ p = 0 \/ p = 1 \/ p = 2 \/ p = 3 \/ p = 4 \/ p = 5 \/ p = 6 \/ p = 7 \/ p = 8
        \/ p = 9 \/ p = 10 \/ p = 11 \/ p = 12 \/ p = 13 \/ p = 14 \/ p = 15 \/ p = 16
        \/ p = 17 \/ p = 18 \/ p = 19 \/ p = 20 \/ p = 21 \/ p = 22 \/ p = 23 \/ p = 24
    BY DEF Points
  <2> QED  BY <2>3, <2>4, <2>5, <2>6, <2>7, <2>8, <2>9 DEF Recorded
<1> QED  BY <1>1, <1>2, <1>3, PTL DEF SimSpec
=============================================================================
