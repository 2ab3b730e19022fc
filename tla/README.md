# HARTS in TLA+

HARTS is a hardware scheduling coprocessor: Verilog blocks that keep the tasks of a
host processor in a table, order the ready ones by a scheduling key, count down the
sleeping ones, and tell the host by an interrupt line when it should look again; and the
firmware of an ESP32 host. This directory holds a specification of the blocks, of their
composition, of the firmware and its link to the chip, and of the simulation the
repository keeps, the TLC configurations that check them on small instances, and proofs
checked by TLAPS.

Paths below are relative to `src/`.

## Inventory

### Components

| Component | Source | State | Operations | What makes it correct |
|---|---|---|---|---|
| Control unit | `rtl/control_unit.v` | mode, flags, divider, `timer_enable`, `current_task`, `tick_count`, the pending first word, the ports to queues and table, `irq_n`/`irq_reason`, `rsp_word` | 16 opcodes, second words of three of them; every clock also a tick, a wake, an external interrupt, the preemption and the deadline check | nothing that arrives together is lost; a task's status and its place in the queues agree; the line is low exactly with a reason |
| Task table | `rtl/task_table.v` | a descriptor for each of 16 identifiers | clear, write, one combinational read | no write computed from an older descriptor lands after a newer one |
| Priority queue | `rtl/priority_queue.v`, `rtl/pq_cell.v` | a chain of cells, `depth_r` | flush, enqueue, dequeue, both at once | a bag whose head has the largest key |
| Sleep queue | `rtl/sleep_queue.v` | array sorted by count, `depth_r`, registered wake | flush; tick, wake and insert on one edge | a bag of countdowns; nobody sleeps longer or shorter than asked |
| Timer | `rtl/timer.v` | down-counter, pulse | stop, count, pulse | one pulse per loaded period |
| Interrupt controller | `rtl/interrupt_ctrl.v` | pending pulse, index | report, pause | a held line is not hidden |
| APB register file | `rtl/harts_apb_slave.v` | two latched words, two armed pulses, `pending_word2` | write beats, delayed pulses, reads | every word once, in order |
| Top level | `rtl/hw_scheduler_top.v` | `tick_pulse_r`, `pq_*_r` | wiring | the blocks keep each other's assumptions |
| Scan chain | `rtl/scan_chain.v` | shift register | load, shift | observes only |
| UART-to-APB bridge | git submodule, not in the repository | | APB transfers | |
| ESP32 driver | `fw/esp32/driver/scheduler.{h,c}` | SPI handle | the command set, one or two transfers per call; set-up of bus and interrupt | what a call asks is what the chip decodes; answers belong to their query |
| ESP32 application | `fw/esp32/app/main.c` | `g_switch_needed`, `g_irq_reason` | boot, main loop, interrupt handler | no edge is forgotten; every task gets its turn |
| Legacy SPI slave | `rtl/legacy/spi_slave_if.v` | shift registers, bit count, sampled wires | shift in, shift out, hand over; no longer instantiated, but what the driver speaks to | a transfer of 32 bits is one word, anything else is none |
| Verilated timer bench | `verif/sim/verilator_cov_timer` | the bench's and timer's registers, trigger vectors, two coroutines, coverage counters | the scheduling regions, time slots, checks, exit | indistinguishable from the RTL; every slot converges |
| Other benches, golden model, formal harness | `verif`, `formal` | | | read for what they assert |
| Physical design | `flow`, `scripts` | | generated data and tooling | |

### How they interact

There is one clock, and every register of every block changes on its edge from the
values all registers had before. What looks like a call is a strobe: the control unit
raises `pq_enqueue` in one cycle, the top level registers it together with the key
(`pq_enqueue_r`), the queue inserts on the edge after that. A dispatch has
`current_task` one clock before the queue drops the head; a table update is read in one
cycle, presented in the next and visible in the one after. A word of the host is
latched, armed, pulsed.

    host ~> APB register file -> control unit -> (pq_*_r) -> priority queue
                                     |   ^                        |
                 timer -> tick_pulse_r   +------ head ------------+
                              |      |   +------ wake ------------+
                              |      +-> task table               |
                              +---------------------------> sleep queue
    external lines -> interrupt controller -> control unit -> irq_n, reason

    app_main -> driver calls -> SPI words ~> (bridge) ~> chip
        ^                                                  |
        +-- g_switch_needed <-- handler <-- falling edge of irq_n

### Where it is hard

- **Coincidence.** In one cycle there may be a command or a second word, a tick, a wake,
  an external interrupt and a preemption. They share one table read port, one table write
  port, one enqueue port and the interrupt line; in the RTL the last assignment wins.
- **Staleness.** Decisions and their effects are one to three clocks apart, so a command,
  a tick and a wake within three clocks see each other's old values.
- **Order.** Two distributed sorts (the ripple of the cells, the shifting array) must never
  misplace, drop or duplicate an item, also with two operations on one edge.
- **Bounds.** Full and empty queues, the divider at zero, 16-bit times that wrap, a second
  word of 32 bits, an identifier (all ones) that also means "nothing runs".
- **Protocol.** Two-word commands interrupted by other commands or by RESET, calls that do
  not suit the task's status.
- **Edges against levels.** The line is a level, the handler wakes on falling edges, and the
  flag between handler and main loop is cleared while edges may arrive.
- **The wire.** Bits sampled on another clock, answers one transfer late, a host that
  restarts within a transfer.
- **Simulation semantics.** Coroutines, triggers and delayed assignments flattened into
  phases of a loop that must come to rest.
- **Progress.** Sleepers behind a stream of shorter sleeps, ticks under command traffic.

`PROJECT.json` lists each of these hazards at its line with the properties that watch it.

## Modules

| Module | Models | Reads as |
|---|---|---|
| `SleepQueue` | `rtl/sleep_queue.v` | One edge: `Ticked`, then `AfterWake`, then `InsertAt`; actions `FlushAll`, `Advance`, `AdvanceAndInsert`. |
| `SleepBag` | what the sleep queue promises | a bag of countdowns: how often each identifier with each number of ticks left |
| `PriorityQueue` | `rtl/priority_queue.v`, `rtl/pq_cell.v` | `in` is the ripple, a function defined from cell to cell; `Resident` is what a cell is about to hold, `Beats` the comparison |
| `ReadyBag` | what the priority queue promises | a bag (how often each item) and a head with the largest key |
| `TickTimer`, `InterruptCtrl` | `rtl/timer.v`, `rtl/interrupt_ctrl.v` | one action per branch |
| `ApbSlave` | `rtl/harts_apb_slave.v`, write side | one action per branch; checked inside `HwScheduler` |
| `CommandChannel` | what the register file promises | a channel that hands over every word once, in order |
| `ControlUnit` | `rtl/control_unit.v`, `rtl/task_table.v` | see below |
| `HwScheduler` | `rtl/hw_scheduler_top.v` | the six blocks edge by edge (`Blocks`), and a host |
| `TaskScheduler` | what the chip promises a careful host | five task states, sleeping times, the running task; no queues, ports or clocks |
| `HartsDriver` | `scheduler.h`, `scheduler.c` | a call is the sequence of words it transfers; a word is the set of its one bits, so `or` is union; also the chip's field positions |
| `SpiSlave` | `rtl/legacy/spi_slave_if.v` | one definition per independent condition of the clocked block |
| `SpiLink` | driver, SPI master and slave on the wires | the master is external (ESP-IDF), in the mode the driver sets |
| `Firmware` | `main.c` and the control flow of `scheduler.c`, on top of `HwScheduler` | `pc` is app_main's next statement; one action per statement that matters, one for the handler |
| `TimerSim` | `verif/sim/verilator_cov_timer` | one action per phase or resumption; see below |
| `MCPeripherals` | timer and interrupt controller side by side, for checking | two history variables |
| `MCTimers` | the simulated timer and the chip's, for checking | the bench runs to its end, then the two blocks' clock starts; the parts share no state |
| `HwTiming` | `HwScheduler` with a history variable | `due`: the `tick_count` at which each sleep is to end |
| other `MC...` | model checking: bounds, host scripts, history variables | |
| `SleepQueue_proofs`, `PriorityQueue_proofs`, `ControlUnit_proofs`, `Peripherals_proofs` | theorems about the blocks | |
| `Counting` | how often a value occurs in an array, for the proofs about the queues | lemmas |
| `HwScheduler_proofs` | theorems about the composition, at the end the one about the firmware's first task | |
| `SpiLink_proofs`, `TimerSim_proofs` | theorems about the link and the simulation | |

**A block and its environment.** A block's variables are its input wires and its
registers; `Step` says what the edge does to the registers. Standing alone, the inputs are
free (`DriveInputs`) and `Next` is `Step` with free inputs. In `HwScheduler` the inputs of
one block are the registers of another, by substitution in `INSTANCE ... WITH`, and
`Blocks` is the conjunction of the blocks' `Step`s: synchronous composition. The run
`hw_free` checks that the composition implements each block's own `Spec`
(`BlocksInPlace`), so what is checked or proved about a block alone holds of it in place.

**ControlUnit.** At most one of a command, a second word or nothing arrives, so
`Operation` is a disjunction with one action per opcode (opcodes whose code differs in one
value share an action: `Inform`, `RunOrStop`, `Retire`, `FirstWord`). Tick, wake, external
interrupt, preemption and deadline check coincide with any of them. They are inside the
port operators every action uses exactly once: `WriteTask`/`NoTaskWrite` for the table
write, `MakeReady`/`NoReady` for the enqueue port, `Irq` for the line, `CountTick` for the
clock; the order of the RTL's assignments is the order of the alternatives in them.
`tt_rd_id` is the read mux and `rd` the descriptor it shows; `pq_enq_key` follows `rd`, as
in the RTL, not the task being enqueued. A descriptor is a record, a command word a record
with the fields its opcode uses.

Left out of it: the `type` and `preemptable` bits (stored, never read), the low seven flag
bits (nothing but `QUERY` 7 reads them, which returns them, `control_unit.v:379`), `QUERY`
selector 4 (constant), the default branches of the opcode case (all sixteen opcodes are
decoded) and of the pending opcode (`PendingIsTwoWord`, proved, says why it cannot be
reached), `pq_head_key` (an input nothing reads).

**HwScheduler.** Adds the registers of the top level (`TopRegisters`; the two copies of
`tick_pulse_r` hold the same value and are one variable) and the host: a boot sequence
sent without delay, then up to `MaxCmds` requests out of `Requests`, at arbitrary times,
two beats at least `HostGap` clocks apart. `Careful` is a discipline: the host stops the
timer before it touches tasks, gives wakes under way the time to finish (`HostGap` = 9
clocks), and makes only the calls that suit the status it can read with QUERY. The tables
of `Suits` are the host's side of `docs/arch.md`'s task states.

`ImplementsScheduler` maps this to `TaskScheduler`: a task's status is the one in the
table or in the write on its way into it, its remaining sleep is the count in the sleep
queue or in the request on its way there. A tick may fall on the clock in which a task
wakes, so `Wake` may let the others' time go on. The liveness part of the abstract
specification (who has slept enough wakes) is part of what is checked; the rest is also
proved (`StepsAsScheduler`).

**SpiLink.** Everything runs on the slave's clock. Half an SPI clock lasts two or three
slave clocks (the driver asks for 10 MHz, the chip runs at 40 MHz, so half a period is
two), `miso` is sampled with the rising edge, before the slave can react to it. The
control unit is reduced to some answer in the clock after a command.

**Firmware.** Its transfers are single beats of `HwScheduler`'s host port: `spi_link`
shows that words arrive whole and in order, and the current top level has a bridge whose
sources are not in the repository, so which address a word goes to is the bridge's
business and external. The four steps of `sched_init` may each fail, which aborts. An edge
of the line is latched by the GPIO (external) once the handler is installed.

**TimerSim.** A trigger vector is the set of its triggers, a coroutine is where it waits.
`EvalTriggers`, `NoEdgeWaiter`/`ReleaseReset`/`CountPulse`/`Judge`, `ResumeClock`/
`NoDelayWaiter` are the active region in the order of `eval_phase__act`; `EvalNba` is one
call of `eval_nba`. The wires of the bench (`tb_timer__DOT__...` in the code) are `tb_...`. The library's two schedulers are modelled by what the generated code
needs of them. `StepsAsRtl` instantiates `TickTimer`, the model of `rtl/timer.v`.

## Runs

### Runs that pass

| Run | Question | Bounds, and why they suffice |
|---|---|---|
| `sleep_queue` | Do tick, wake and insert on one edge keep the array packed and sorted, and does it implement `SleepBag`? Is no expiry missed, and does everybody wake in spite of shorter sleeps? | 3 entries, 2 identifiers, counts 0..2: empty, full, ties, an identifier twice, all three on one edge; a starving stream needs one slot for the victim and one for the stream. All but `EverySleeperWakes` are also proved for every bound. |
| `priority_queue` | Does the chain implement `ReadyBag`, and where does a newcomer come to rest? | 3 cells (a first, a middle and a last one), 2 identifiers, 3 keys: every order of keys with ties. All four properties are also proved for every number of cells. |
| `control_unit` | Widths, pending word, a reason for every low line, contended ports, no lost wake. | after a boot that gives tasks 0 and 1 a history, every combination of 17 words, tick, wake, interrupt and head in two successive clocks, which is as far as the port registers reach; times modulo 4, so that they wrap. All five properties are also proved. |
| `hw_careful` | With a careful host, do status, ready path and sleep path always agree; are dispatch, RESET, tick, deadline check and pending word exact? Does the whole implement `TaskScheduler`? | 3 identifiers (one the sentinel), a cell and an entry per task, 7 calls after the boot, at any distance; enough for a deadline across the wrap of the clock; ticks as close together as `MissReported` allows. All but the liveness of `ImplementsScheduler` is also proved, for every number of tasks, cells and entries, `PendingAgrees` without the discipline. |
| `hw_free` | With any host: is every word handed over once and in order (`CommandChannel`), and does every block stay within its own specification? Does a sleep last exactly as many counted ticks as asked? Do sleepers become ready and do ticks go on being counted? | two calls of fourteen kinds at any clock (beats two clocks apart at least), half commands, illegal calls and the sentinel included, then silence; sleeps of 1..3 ticks, two sleepers, so that calls meet ticks and wakes in every order; `due` is a history bag. The first two are also proved for every instance, the third for every one with slow ticks and no SLEEP of zero ticks. |
| `spi_link` | Does every call of the driver arrive as what its arguments ask for, once and in order, and what does the slave make of a transfer cut short? | every function, with arguments at both ends of their ranges, and a sleep too long for the short form, whose cut count must spoil neither opcode nor identifier; two calls in a row, so that one transfer meets what another left; phases of two or three clocks; a restart at any point. Both are also proved, for phases of any length from two clocks on and any sequence of calls that can be decoded; that the driver's can, TLC evaluates. |
| `firmware` | Is every edge of the line answered, is the nearer deadline dispatched first, do both tasks run? | the two tasks of `app_main`, times scaled to modulo 4, an external interrupt that comes and goes at any clock, the handler at any clock. |
| `timers` | Does the generated simulation serve every edge once, step as the RTL and end with the recorded coverage? Does the chip's timer pulse exactly when the loaded divider has elapsed, and for ever? Is a held line reported for ever? | the bench's own numbers (3 + 20 edges, divider 2); only the registers' values before reset are a sample. Then dividers 0, 1, 3, rewritten at any clock, and 2 lines with every mask, in one product. `EveryEdgeOnce` and `StepsAsRtl` are also proved for every divider and length of the stimulus, `RecordedCoverage` for every content of the registers, `PulseOnSchedule` for every divider. |

**Fairness.** For the hardware, only that the clock does not stop (`WF(Next)`, where a step
is one edge). That ticks recur is a premise of `EverySleeperWakes`, stated in the property
for the block alone; in `hw_free` and for the liveness of `TaskScheduler` in `hw_careful`
it is not assumed but follows from the timer and the host's commands. In `hw_*` no host is
ever obliged to do anything. `Firmware` assumes besides that the processor always comes
back to `app_main` (`WF(App)`; the FreeRTOS idle time between is `Elsewhere`) and takes a
latched interrupt (`WF(Handler)`); both are what ESP-IDF provides to a task that never ends
and an enabled interrupt. `TimerSim` is one thread that is not stopped. Deadlock is checked
in every run; in `timers` the clock of the chip runs on when the program is over.

### Runs that show a disagreement

Each checks one statement a document, a comment, an assertion or a test makes about the
code, and TLC finds a behaviour of the code that violates it. `PROJECT.json` quotes the lines.

| Run | Statement | What happens |
|---|---|---|
| `wake_key` | a queue is sorted by the task's own key | the key of a woken task is sampled a clock late and is another task's; a careful host does not help |
| `reset_irq` | RESET deasserts the line | with preemption enabled and a task ready but not dispatched, the preemption check of the same edge reads the registers RESET is clearing and assigns line and reason over it: the line is low after the RESET and asks for a switch to a task that no longer exists |
| `answer_shift` | the NOP after a QUERY clocks out the response (`scheduler.h:78`, `scheduler.c:38-43`) | the slave loads the answer when `cs_n` falls but presents its first bit when the clock falls first, after the master has sampled: `sched_query` returns the answer shifted right by one, so `g_irq_reason` is half of the reason that was reported. The shift is proved for every answer and SPI clock (`ReadsOneBitLate`, `ClaimFails`) |
| `irq_edge` | when `irq_n` is asserted, the host reads the reason | the handler waits for falling edges of a line that can stay low: every command raises it, and the preemption check, which compares identifiers only, lowers it again on the same edge, that of the last ACTIVATE included. The line stays low without an edge, and a later deadline miss is never read |

Other disagreements met while modelling, without a run of their own:

- `rtl/control_unit.v:153-154` (LLF: "compute it fresh"): the fresh deadline is selected
  while `cmd_valid` is high, the top level samples the key a clock later, and the deadline
  of the previous activation is used.
- `rtl/control_unit.v:358` (ACTIVATE dequeues what it dispatches): a wake with a higher key
  between the two clocks is dequeued, and lost, instead (`DequeuesDispatched`, careful host
  only).
- `docs/arch.md:117` (RESET clears queues and task state): a wake on the same edge
  survives it (`ResetLeavesNothing`, careful host only).
- `docs/arch.md:86` (suspended: "Not eligible to run"): a tick in the clock after a SUSPEND
  writes the old status back, and SUSPEND leaves a ready task's entry in the queue, which
  ACTIVATE then dispatches (`ImplementsScheduler`, careful host only).
- `verif/tb_verilog/tb_timer.v` against `verif/sim/verilator_cov_timer`: the checked-in
  bench has been extended since the code was generated, and point 21 (timer not enabled)
  is never reached by the recorded run.
- `rtl/control_unit.v:431-432` ("so tt_rd_id tracks running task"): a tick right after an
  ACTIVATE reads the task that ran before (`TickReadsRunningTask`, careful host only).
- `docs/host_protocol.md:99` (deadline miss): not reported when the tick falls between the
  two words of a command, nor when it falls on a wake (`rtl/control_unit.v:433`), which
  happens when at least as many sleepers expire together as a tick has clocks
  (`DeadlineMissReported`, careful host and slow ticks only).
- `verif/tb_verilog/tb_control_unit_assert.v:108-109`: a sleep command in the clock of a
  wake raises both enqueue strobes.
- `docs/host_protocol.md:27` (STATUS `pending_word2`): a RESET between two words clears the
  control unit's bit and not the register file's (`PendingAgrees`, careful host only).
- `docs/host_protocol.md:98` (preemption: a higher key at the head): the code compares the
  identifiers only.
- `docs/host_protocol.md:62` (ACTIVATE: "Ready a suspended task"): it dispatches the head
  and ignores the identifier.
- `docs/arch.md:88` (running: "Host is executing this task"): a second ACTIVATE leaves the
  first task marked running; `fw/esp32/app/main.c:25` does this on every interrupt.
- `rtl/priority_queue.v:5` (enqueue with dequeue: "net depth unchanged"): on a full queue
  the newcomer is dropped, as `ReadyBag` says.
- `verif/tb/golden_model.py:35` keeps equal keys in order; in the chain an item displaced by
  a larger key goes behind its equals. Only the newcomer itself is kept behind them
  (`InsertsBehindEquals`).
- `docs/host_protocol.md:71` (divider 100 at 40 MHz: 400 kHz): the period is divider + 1
  clocks, as `PulseOnSchedule` says.

### Mutants

Every property of a passing run is paired with a mutation of a definition that a plausible
bug would produce (operators named `<definition>_<bug>` next to the original, marked
`mutant`); with it TLC finds the property violated.

## Proofs

TLC's instances are small; the theorems hold for every depth, width, set of identifiers
and set of inputs, from the named assumptions on the constants only.

**`SleepQueue_proofs`** (`DepthAssumption`, `IdAssumption`, `CountAssumption`). `Sorted` is
not inductive alone: the array stays sorted only if the shift and the insertion agree on
where it ends, which is `Packed`, and both need the types. The invariant is
`TypeOK /\ Packed /\ Sorted`. The argument follows the order of the code on one edge:
decrementing keeps the order (equal counts stop at zero together), removing the head keeps
it, and the insertion position is the first longer count, whose existence is shown before
the `CHOOSE` is used. From it: `TypeCorrect`, `ArrayPacked`, `ArraySorted`, and
`ExpiryNeverMissed` - an entry that expires anywhere in the array implies that entry 0 has
expired, so a wake follows on that edge.

**`ControlUnit_proofs`** (`IdAssumption`, `TimeAssumption`, `DataAssumption`). The registers
are split into groups, one per port; each port operator is shown to keep its group's type,
so each operation's lemma only says which operators it uses and that what it hands to them
has the right type (`ReadsTask`: whatever the mux selects is a descriptor;
`SecondWordIsSleep`: two halves of a word fit the counter). `TypeCorrect` is that
invariant. `SecondWordHasOpcode` and `LineHasReason` are inductive as they stand.
`WakeTaken` and `OfferIsMarked` rest on `WakeOwnsPorts` (with a wake, table write and
enqueue both are the wake's, in every operation) and `OnlyResumeOffers` (without one, only
RESUME offers), and on the types, without which a descriptor has no fields to speak of.

**`PriorityQueue_proofs`** (`DepthAssumption`, `IdAssumption`, `KeyAssumption`). The wire
function `in` is a recursion along the cells, and so is what it computes. The proofs reason
about sets of cells instead of by induction over a predicate: naturals are well founded, so
a claim that fails for some cell fails for a least one, and the equation of the cell before
contradicts it (`LeastElement`, `UpTo`). `WiresExist` is the same argument for the existence
of the function. Sortedness needs only the local fact that a cell keeps the larger of what it
holds and what reaches it (`WireShape`, `InsertedShape`). Where the newcomer comes to rest
does need the closed form: up to the first cell it beats the wires carry the newcomer
(`StoppingCell`), behind it the keys of the left neighbours' residents (`DisplacedKeys`). The
invariant is `TypeOK /\ QueueInvariant`: that the valid cells are the first `depth_r` ones
is what makes the guards of enqueue and dequeue protect the last and the first cell.

**The two refinements by bags** (`ImplementsBag` in `PriorityQueue_proofs` and in
`SleepQueue_proofs`) say for every instance that no entry is lost, duplicated or changed by
the loops that shift the arrays. `ReadyBag` and `SleepBag` are functions from entries to how
often they occur, and `Counting` has what one needs of such numbers: `CountNext` (each place
counts once), and from it, by `UpTo`, `CountShifted` (a shift drops the first entry) and
`CountInserted` (an insertion adds one entry, wherever). In the sleep queue the stages of an
edge follow one another: `TickCounted` (whoever has n ticks left had n + 1, or had none),
`WakeCounted`, `InsertCounted`. In the priority queue the newcomer ripples, so the claim is
made for every prefix of the cells: what has been inserted up to a cell and what is still on
the wire behind it are together the residents up to there and the newcomer
(`InsertedCounted`). What the abstract step chooses is then the head: the largest key
because of `QueueInvariant` (`HeadLargest`), a sleeper without a tick left because of
`Packed` and `Sorted` (`WakeMoves`).

**`HwScheduler_proofs`** (`WidthAssumption`, `DepthAssumption`, `HostAssumption`,
`BeatsAssumption`: widths of the fields, at least one cell and entry, and a host that writes
the two command registers with words the wire can carry).

- `WordsDelivered` is the refinement of `CommandChannel`, step by step: `ChannelInv` says
  that at most one of the two pulses is armed or up, so the sequences in transit and handed
  over are never longer than one; each branch of the register file maps to one action of the
  channel. It holds for every `HostGap` from one clock on the bus to infinity.
- `BlocksComposed` composes the theorems about the blocks: `BlocksOK` is the conjunction of
  the blocks' inductive invariants under the substitutions of the `INSTANCE`s, and what a
  block drives into another is in the range the other's `DriveInputs` allows because of the
  driver's type invariant, which is why all of them have to be carried together.
- `TickReadsRunning` (for `Careful` and `HostGap >= 3`): while a word is on its way, `gap`
  tells in which stage it is (`OnItsWay`), so commands do not overlap; a command that
  touches tasks was sent with the timer stopped, so when it is executed the last tick is two
  clocks gone (`StoppedFor`); then `tt_rd_id_tick` has caught up with every change of
  `current_task` (`Follows`). `hw_careful` checks it with 9 clocks; the proof shows
  that three are enough for this property.
- `DispatchExact` (for `Careful` and `HostGap >= SQ_DEPTH + 5`; `hw_careful` has 3 entries
  and 9 clocks): ACTIVATE latches the head in one clock and dequeues in the next, so nothing
  may arrive in the ready queue in between. `Drained` counts the clocks since the host's
  last word (`Elapsed`) against the expired entries still in the array: with the timer
  stopped one of them leaves with every clock, so entry `i` is gone after `SQ_DEPTH + 5 - i`
  clocks, and its wake needs two more to reach the ready queue. That the array is packed and
  sorted, from the theorems about the block, is what makes the expired entries leave one by
  one.
- `PendingTogether` (for `WholeCommands`: what the host sends are whole commands; any
  distance): the invariant follows a command of two words from its first beat to the second
  word's pulse (`Handshake`) and says what the host may still send meanwhile (`Whole`: each
  word that asks for a second one is followed by it, and no other is). Half a command breaks
  the property, which is why `hw_free`, whose host sends some, does not check it.
- `StatusAgrees` and `ResetEmpties` follow a task from queue to queue through the registers
  in between (for `Careful`, `HostGap >= SQ_DEPTH + 5`, `WholeCommands`, and `FewTasks`: the
  host creates no more tasks than each queue has places; a host that creates more does lose
  some). That a task is where its status says (`Agrees`) is not inductive alone. `Suited`
  says that a command still suits its task when it arrives, three clocks after the host
  looked: what may be written meanwhile is a wake's or a tick's (`WriteKind`, `WriteSettled`), and
  no command but those for every task suits a sleeper. `AtRest` is where `Drained` and the
  handshake pay off: a command that touches a task meets no tick, no wake and no request
  under way, so read, write and enqueue of the same edge speak of the same task. `Flushing`
  and `Halted` cover RESET and the wait for a second word. With these, every edge is one of
  three kinds (`StepKinds`): a move of one task along an arrow, a flush, or no more than a
  wake and a tick; and each kind changes places and statuses alike (`AgreesKept`). How many
  entries carry an identifier before and after an edge is `PathsMove`, from the counting
  lemmas of the two bag refinements; that there is room is a matter of counting, too
  (`PlacesFree`).
- `StepsAsScheduler` is the refinement of `TaskScheduler`, from the same invariant: each kind
  of edge is mapped to the calls, the wake, the tick or the reset of the abstract scheduler
  (`MoveIsCall`, `PassiveIsWakeOrTick`, `ResetIsReset`, `FlushIsSilent`). What is new is the
  time a sleeper has left, `TicksLeft`, which the mapping finds in the request on its way, in
  the entry, wherever it is in the array, or nowhere: `LeftMoves` shows that neither the way
  into the array nor the moves of the others nor the wake change it, only ticks do. The
  prover needs one entry per task for that to be a number (`SleepsOnce`, from `Agrees`), and
  no tick with the request (`Unticked`). The proof corrected the abstract specification: a
  tick may fall on the clock in which a task wakes, which `hw_careful` with its slow ticks
  never shows, so `Wake` allows it.
- `MissReported` (for the same host, for dividers of at least `SQ_DEPTH`, `SlowTicks`, and a
  host that does not use identifier 15): the deadline check gives way to a wake, so the wakes
  a tick sets off have to be over when the next one comes. `Spaced` relates the two counts: an
  expired entry is never further from the head than the timer is from its next pulse. Both
  conditions are needed: with shorter ticks a miss in the clock of a wake is not reported,
  and task 15 has no misses at all (`control_unit.v:433`).
- `SleepsEndOnTime` is `WakesOnTime` for every host, whatever words it sends at whatever
  distance, the 32-bit counter wrapping included. The count of an entry and `tick_count`
  have a constant sum between two ticks, and a tick takes one from the first and gives one
  to the second, so `due` is the sum modulo the width of the clock (`DueInv`; "at most",
  because a SLEEP that the full array refuses is noted as well). The hypotheses say when a
  count can be trusted: ticks at least as far apart as the array takes to drain
  (`SlowTicks`: otherwise an expired entry waits behind another and meets the next tick),
  and no SLEEP of zero ticks (`NoNullSleep`: such an entry wakes at once, not on a tick).
  `Paced` relates the expired entries to the clocks until the next pulse, `NullsInOrder` says
  that they are in front, and `HeldWithMoves` counts a task's entries through one edge.
  The instance of `hw_free` meets both hypotheses.
- `NearestRunsFirst` is `FirstIsNearest` for every instance of
  `TwoTasks`: the boot is `app_main`'s, the second task has the nearer deadline, identifiers
  are distinct, the ready queue has two cells, and words are three clocks apart. No fairness
  is needed, and nothing is asked of the processor: it may pause between any two words, be
  interrupted, or abort in `sched_init`, and external lines may come and go. `FwInv` follows
  the boot word by word. Either `n` of its nine words have been executed (`BootInv(n)`) or all
  of them (`Serving`), and each `n` says where the next word is, `Booted` (still to be sent, on the
  bus, armed, handed over, of which only one can be true: `OnItsWay`); what the registers hold,
  `Settings` (EDF from the first word on, the timer off until the eighth, nobody asleep,
  nothing running); what the table holds of each task, the write under way included,
  `Descriptors`; and how far each RESUME has come on its way into the ready queue, `Queued`
  (offered, at the queue's input, in its cells). What is delicate is that an offer gets its key
  only one clock later, through a read port that the last word still addresses (`Offered1`):
  it takes a host whose next word is not yet armed by then, which `HostGap >= 3` gives, as it
  gives that a task is in its cell before the next word is executed.
  `OfferGetsKey` ties the key in the queue to the deadline in the table, with no tick to move
  it, and `EntersInFront` of `PriorityQueue_proofs` turns the nearer deadline, whose inverted
  key is the larger, into the head. When ACTIVATE arrives the queue is therefore `<<T2, T1>>`
  and `FirstDispatch` follows. The invariant goes on after that, because the property does:
  `current_task` never becomes `NoTask` again, as the application only asks and activates
  (`AsksOnly`) and what the queue holds are its tasks (`TasksOnly`). The instance of
  `firmware` meets `TwoTasks`.

The instance of `hw_careful` meets the hypotheses of all the others, with `{0, 1}` for the
tasks in use.

**`Peripherals_proofs`** (`DividersAssumption`). `tick_counter + age` is the divider that was
loaded, in every state between two pulses; the schedule of the pulses is that equation at zero.

**`TimerSim_proofs`** (`WidthAssumption`). `SimulatesRtl`: only `EvalNba` changes the timer's
registers, and under its trigger it takes the branch `rtl/timer.v` takes; the counter is
never zero when it is decremented, so 16 bits lose nothing. `EdgesOnce`: the invariant
(`EdgeInv`) counts, in every scheduling region, the edges made and the edges served, and the
one that is still owed while a trigger is set or the clock has not been looked at. A coroutine
that starts to wait updates the previous clock value itself; `QueuesOK` says why no edge is
lost that way: the clock's delay is due in an iteration of its own. `CoverageAsRecorded` continues
this to the numbers of the recorded run (`BenchNumbers`: 3 + 20 edges, divider 2, 4 pulses
wanted; `RecordedCoverage` is about no other): `RunInv` relates the counters to one another
and to the edges served, with how far the initial block is (`StimulusOK`), which of the
timer's branches have been taken (`TalliesOK`), that every third edge is a pulse (`PhaseOK`)
and that the initial block sees it one edge later (`PulsesSeen`); at the 23rd edge these
equations have one solution. What the registers hold before reset is left open, of which
the run `timers` tries a sample.

**`SpiLink_proofs`** (`ClockAssumption`, `WordsAssumption`). The slave compares the
wires with its own last sample, so it sees an edge one clock late (`EdgesSeen`: before the
wire moves again, since half an SPI clock lasts two slave clocks at least). `AnswerOut` says
how far the answer has been shifted out by then and what is on `miso`; every sampled bit but
the first is therefore the answer's previous one (`ReadsOneBitLate`), and a word that is also
its own shift has all its bits equal (`ClaimFails`: the driver's claim, which the run
`answer_shift` refutes on an instance, fails for every other answer). `WordIn` is the same for the other
direction: what is in the shift register are the bits clocked so far, counted by
`bit_count`, so the count is 32 only for a whole word; what a restart leaves behind is
cleared by the next selection. `WireIsAChannel` is `CallsArrive`, the refinement of an
abstract channel of calls: a transfer that is cut short hands over nothing, any other appends
its word to what has arrived, in the clock after the chip select went up and in no other
(`JustEnded`, `EndsAsSent`, `HandsOver`). What a word means is a matter of its bit fields,
which are folds over sets of bits; the theorem takes from the calls that they can be decoded
(`WellCoded`), and TLC evaluates this hypothesis for every function of the driver
(`CallsAssumption` in `MCSpiLink`).

**Only model-checked.** All liveness and every formula with `ENABLED` (outside the prover's
reach): `EverySleeperWakes`, `KeepsPulsing`, `HeldLineIsReported`, `SleeperBecomesReady`,
`TicksAreCounted`, `EdgeIsServed`, `EveryTaskRuns`, `EndsWithPass`, and of
`ImplementsScheduler` that sleepers do wake.

## Not modelled

- `rst_n` in mid-run: it is power-on, and every block's `PowerOn` is its reset state.
- UART framing, `PSLVERR`, and reads, which change nothing.
- The bridge between the SPI driver and today's register file: there is none in the
  repository. `Firmware` therefore connects the driver's words to the host port directly.
- Failing SPI transfers (`spi_device_transmit`'s result is ignored): when they fail and
  what is then on the wire is inside ESP-IDF.
- The inactive region beyond its being empty (no `#0` delay in the bench), the constructors,
  names and debug output of the generated C++.
- The scan chain, the other benches, the golden model and the physical design.
- Metastability of external lines and of the UART pin; unknown (`x`) register values
  before reset. `pq_enq_id`, `sq_enq_id` and `sq_enq_counter` have no reset value in the
  RTL; nothing looks at them until their strobe is up, which also assigns them.

## Plan

Done: the six blocks, their abstract specifications, the composition and its abstract
scheduler, the driver over the SPI slave, the firmware on the chip, the generated timer
simulation, the proofs above.

Next, in this order:

1. **Proofs**: the safety part of the firmware's flag protocol (an edge is latched, flagged
   or being answered, in every state).
2. **Overflow**: fewer cells than tasks, and what the host can tell from QUERY depth; a real
   task 15; deadlines across the 16-bit wrap.
3. **Scan chain**: what is shifted out is one sample of the observed registers.
