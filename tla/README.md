# TLA+ models of the Kill-Llama DRAMSim2 memory controller

This directory is a model-checking development for the DRAMSim2 memory
controller in `src/DRAMSim2/MemoryController.cpp`. That controller has a
SMART STT-MRAM variant, selected by the global `isSmartMRAM`. The modules
model the controller cycle by cycle, and TLC checks them against the
properties of spec.md and against the controller's own comments.

## The system

The repository holds one C++ source file of the simulator and the
experiment around it:

| Part | Where | Modelled |
|---|---|---|
| Memory controller: constructor, `addTransaction`, `receiveFromBus`, `returnReadData`, `update()` | `src/DRAMSim2/MemoryController.cpp` lines 64-855 | yes: `MemoryController` |
| Statistics: per-bank read/write counts, `resetStats`, row-buffer hits/misses | same file, lines 132, 268, 857-880 | yes: `MemoryController`, `CommandQueue` |
| Reporting: `printStats`, `getTotalRowBufferMisses` | same file, lines 882-1070, 1104-1111 | as an action whose state change is `resetStats`; the ACT total it prints |
| Histograms, hit-rate getters | same file, lines 1086-1102, 1113-1120 | no: output only |
| Command queue (`CommandQueue.cpp`), bank record (`BankState`), rank (`Rank.cpp`), simulator clock | DRAMSim2 files not in this repository | yes, from spec.md sections 3 and 4: `CommandQueue`, `BankState`, `Rank` |
| STREAM kernels, PARSEC ROI hooks | `src/bench_build/*.c`, `src/unnamed/part_000`-`002` | no: workload generators |
| Build, checkpoint and experiment scripts | `src/bench_build/*.sh`, `src/experiment/scripts/*.sh`, `src/unnamed/part_003` | no: process orchestration |
| Notes and logs | `*.md`, `src/unnamed/part_004` | no |

### How the parts interact

The CPU model calls `addTransaction` between cycles, and the transaction
waits in `transactionQueue`. Once per memory cycle the simulator calls
every rank's `update()`, then the controller's `update()`, then advances
the clock. `update()` runs the following steps in order:

1. Count down each bank's `stateChangeCountdown`. At zero, apply the implicit transition: READ_P/WRITE_P go to Precharging, or straight to Idle under SMART, and PRECHARGE/REFRESH go to Idle.
2. Advance the command bus. A packet is handed to its rank's `receiveFromBus` after `tCMD` cycles.
3. Advance the data bus.
4. Count down the write-data FIFO. Data whose countdown reaches zero goes onto the data bus; if the bus is still held, this is a fatal "Data Bus Collision".
5. Refresh gate: the rank whose countdown is zero gets `needRefresh`, and a powered-down rank that is due is woken.
6. Pop one command from the command queue and apply it to the bank states: the timing, the SMART timing and the energy. If the command bus is busy, this is a fatal "Command Bus Collision".
7. Admit the first waiting transaction whose bank queue has room for two commands. It becomes an ACTIVATE plus a READ/WRITE (READ_P/WRITE_P under close page), and a read is remembered as pending.
8. and 9. Power management: background energy, and power-down/up when `USE_LOW_POWER` is set.
10. Match the oldest returned data, by address, to a pending read and fire `ReturnReadData`. If nothing matches, the program aborts.
11. Decrement the refresh countdowns.

A rank answers a READ with DATA `RL + BL/2` cycles later. That DATA reaches `receiveFromBus`, which queues a return transaction and counts a read of the bank. At the end of each statistics epoch, between cycles, `printStats` calls `resetStats`. This zeroes the per-bank counts, the energies and the command queue's row-buffer hit/miss counters.

## Modules

- **`BankState`** is the per-bank record. All not-before times (`nextRead`, `nextWrite`, `nextActivate`, `nextPrecharge`, `nextPowerUp`) are kept relative to the current cycle: the model stores `max(0, next - currentClockCycle)`.
  - The code only compares `currentClockCycle >= next` and assigns `max(currentClockCycle + k, next)`, `currentClockCycle + k`, or another timer.
  - All of these survive the shift. `NotBefore(k, t)` is the max, `Reached(t)` is the comparison, and `ElapseBank` is the clock advance.
  - So the model needs no absolute clock and its state space is finite.
- **`CommandQueue`** holds pure operators over the per-bank queues:
  - `HasRoomFor`, `Enqueue` and `Issuable`;
  - `Pop`, which is `RefreshPop` while a refresh is waiting. Otherwise it is `NormalPop` (rank-then-bank round robin) or, when the constant `CommandFCFS` is TRUE, `FCFSPop` (ranks in round robin, and within a rank the earliest-arriving issuable packet over all banks). Both keep the open-page rule that an access never overtakes an earlier access to its row, and both take the packet through `Take`, which drops the ACTIVATE on a row hit. When nothing is issuable, both fall back to `IdlePrecharge`, which precharges an idle open bank;
  - `NeedRefresh` and `IsEmpty`;
  - `CountRowBuffer`, the row-buffer statistics: a hit when a READ/WRITE is taken with its own ACTIVATE dropped, and a miss when an ACTIVATE issues. `NoRowBufferStats` is the state after `resetRowBufferStats`.
- **`ReadService`** is the abstract specification of what the controller promises its caller about reads, with no cycles, banks or commands:
  - `Request`: a read handed over;
  - `Answer`: a ReturnReadData carrying the read's own data, allowed only for the oldest outstanding read of its address;
  - weak fairness on every answer.
- **`Rank`**: `RankReceive` (`receiveFromBus` on the rank side) and `RankUpdate` (counting down the read data it will return).
- **`MemoryController`** owns all variables. These are the controller's fields, the command queue's contents and refresh flags, the ranks' refresh flags and read-return queues, `actpreEnergy`, the statistics (`rowBufferStats`, `totalReadsPerBank`, `totalWritesPerBank`), `fault` (the `ERROR(...); exit` reached, if any), and four history variables:
  - `nextId`, the arrival number the caller gives each transaction;
  - `returned`, which records for each ReturnReadData the read it fired for and the read whose data came back;
  - `since`, the cycles since each bank's last ACTIVATE, precharge start and REFRESH;
  - `carried`, the transactions of each bank in flight at the last `resetStats`.

  Each step of `update()` is an operator from a state record to a state record, named after what it does in the code: `UpdateBankStates`, `AdvanceCmdBus`, `AdvanceDataBus`, `DrainWriteData`, `RefreshGate`, `IssueCommand` (with `ReadIssued`, `WriteIssued`, `ActivateIssued`, `PrechargeIssued`, `RefreshIssued`), `AdmitTransaction`, `PowerManagement`, `ReturnPath` (which fires `ReturnReadData`) and `DecrementRefresh`. `Tick` chains them in the code's order, binding each intermediate state once, and `Then` skips the remaining steps once one has exited the program. There are three actions:
  - `Tick`: one whole cycle. The ranks update, then the controller, then the clock advances (`ClockStep`).
  - `AddTransaction(type, addr)`: the caller, accepted while `WillAcceptTransaction` holds.
  - `PrintStats`: `printStats()` at an epoch end. The epoch length is left open, so it may happen at any cycle boundary. Its report (bandwidth, latency, power, row-buffer lines, histograms) is output only. Its state change is its last step, `ResetStats` (`resetStats()`). It is enabled only when the constant `EpochResets` is TRUE, which the `live` and `epoch_act` runs set.
- **`MC_MemoryController`** gives the address maps for TLC: three addresses in one rank (two rows of bank 0, one row of bank 1) or one address in each of two ranks.

`PROJECT.json` ("map") names the source lines each definition translates.

## Properties

- `TypeOK`: the type of every variable. Its bounds also catch a counter that wraps or underflows, such as `refreshCountdown` or `dataCyclesLeft`.
- `NoFatalError`: none of `update()`'s fatal exits is reached (data bus collision, command bus collision, returned data with no pending read).
- `JEDECTiming`: an action property. Every command put on the command bus respects the JEDEC spacing, measured on the `since` history rather than on the `next*` bookkeeping that the handlers spread over banks.
  - Conventional ACTIVATE: tRC, tRP and tRFC since its own bank's last ACTIVATE, precharge and REFRESH, and tRRD since any other bank's ACTIVATE in the rank.
  - Conventional column command: tRCD after ACTIVATE. PRECHARGE: tRAS after ACTIVATE.
  - SMART: keeps only tRRD between ACTIVATEs.
- `DataMatchesRead`: the data returned with each ReturnReadData is the data read for that transaction. This is spec.md's "FIFO-per-address" law.
- `DataBusExclusive`: at most one burst is on the data bus (spec.md section 8, property 3). The bus carries the write data `update()` drives and the read data each rank drives during the last BL/2 cycles of its return delay. `update()` itself detects only write against write, so read against read and read against write rest on the `nextRead`/`nextWrite` turnarounds that the READ and WRITE handlers set, on the same rank and on other ranks.
- `CommandsReachAwakeRanks`: no command on the command bus is for a rank that step 9 has powered down.
- `ImplementsReadService`: `MemoryController` refines `ReadService`. The refinement mapping is:
  - `outstanding` is the reads in `transactionQueue` plus `pendingReadTransactions`;
  - `served` is `returned`.

  So reads of one address are answered oldest first with their own data, and every read is answered (spec.md section 8, property 5).
- `RefreshServed`: every refresh request reaches its rank.
- `RefreshRequestKept`: an action property. While the command queue's single refresh request waits, its rank is not replaced by the next rank's request.
- `EpochActBound`: an action property on `PrintStats`, spec.md section 4.3's `reads + writes >= ACT` across an epoch, with ACT the printed `getTotalRowBufferMisses`. A violation run.
- `RowBufferBalance`: spec.md section 8, property 6. For each bank and within an epoch, row-buffer hits + misses + (transactions in flight at the epoch's start) = reads + writes counted complete + (transactions in flight now). In flight means a queued READ/WRITE whose ACTIVATE has issued, a READ on the command bus, a read its rank is answering, or write data not yet driven.
- `AccessLatencyStampOwn`: a pending read's `timeACTIssued` is the cycle of one of its own commands.
- `ReturnStamped`: an action property. The read the return path answers has been stamped, so its `accessLatency` (line 756, unsigned) is never measured from cycle 0, even when another read of its address took the stamp of its ACTIVATE.
- `WritesComplete`: every write the caller hands over is completed. It leaves the transaction queue, its WRITE issues, its data is driven, and the burst ends with WriteDataDone. The controller keeps no pending-write list, so nothing else would notice a write stuck in a queue. `ReadService` covers reads only, so this leads-to property is checked on its own.
- `SensingOnFirstAccess`: under SMART, the first READ or WRITE after an ACTIVATE adds the sensing charge to `actpreEnergy`.

## Runs

All runs use `MC_MemoryController` with one or two ranks of two banks, two rows, a transaction queue of 2 and per-bank command queues of 4. The timing is a scaled-down DDR3 profile that keeps the relations the controller relies on:

- BL/2 > tCCD;
- tRC = tRAS + tRP;
- tRCD - AL >= BL/2 - 1;
- tRCD + READ_TO_PRE_DELAY < tRAS in close_lp, as in DDR3: close-page auto-precharge starts before tRAS has elapsed;
- RL > WL >= 1.

| Run | Config | Expect | Shows |
|---|---|---|---|
| conv | conventional, open page, 1 rank, 3 transactions | pass | no fatal error, JEDEC spacing, correct data returns, one burst on the data bus, every answered read stamped (1.35M states, about 180 s) |
| close_lp | conventional, close page, low power, command-FCFS | pass | auto-precharge and power-down/up keep the spacing under the FCFS scheduler, with no collision, with tRAS = 11 at the power-up bound (1.9M states, about 190 s) |
| live | conventional, open page, low power, 2 transactions, bank queues of depth 2, epochs ending anywhere | pass | with a second transaction to a busy bank held in the transaction queue until its bank queue has room, refines `ReadService`, completes every write, serves every refresh, sends no command to a powered-down rank, and balances row-buffer hits and misses against completed reads and writes, under a fair clock (309k states) |
| live_2rank | conventional, 2 ranks, low power, refresh period 45, 2 transactions | pass | the cross-rank turnarounds keep the two ranks' data apart, the single refresh request is never overwritten, and the two-rank controller refines `ReadService` through staggered refreshes and cross-rank returns (170k states) |
| smart_close | SMART, close page, command-FCFS, 2 transactions | pass | SMART's instant precharge under the FCFS scheduler still refines `ReadService`, with no fatal error (77k states). With two transactions admission never blocks, so the run cannot exhibit starvation by a stream of later requests |
| stamp | conventional | violation | `AccessLatencyStampOwn` fails: the stamp goes to another read |
| smart_trrd | SMART, open page | violation | `JEDECTiming` fails: ACTIVATEs 2 cycles apart with tRRD = 3 |
| smart_sensing | SMART, open page | violation | `SensingOnFirstAccess` fails: a WRITE after ACTIVATE adds no sensing energy |
| smart_2rank | SMART, 2 ranks | violation | `NoFatalError` fails: data bus collision between two ranks' writes |
| smart_2rank_bus | SMART, 2 ranks | violation | `DataBusExclusive` fails: one rank's read burst overlaps the other rank's write data, undetected |
| smart_lp | SMART, open page, low power | violation | `CommandsReachAwakeRanks` fails: the rank is powered down with its PRECHARGE on the command bus |
| epoch_act | conventional, open page, epochs ending anywhere | violation | `EpochActBound` fails: an epoch ends between a transaction's ACTIVATE and its completion, so the report counts more ACTIVATEs than completed transactions |

Why these bounds are enough:

- Three transactions let two reads of one address be pending together, a write overlap a read, and a row conflict force a PRECHARGE.
- Two banks give tRRD and the round-robin something to separate.
- A refresh period of 24 cycles (45 on two ranks) brings at least one refresh into every run, while a transaction is in flight.
- Two ranks exercise the shared data bus and the staggered refresh. The two-rank runs use tRCD = 5 with AL = 0 and BL/2 = 4.
  - A conventional READ after an ACTIVATE on an Idle bank of the other rank is then late enough (tRCD - AL >= BL/2 + 1) for its data to miss the other rank's burst.
  - Every DDR3 profile satisfies this: DDR3-1333 has tRCD = 10 and BL/2 = 4. With tRCD = 3, the two-rank run finds an overlap that no real profile can produce.
- `RefreshRequestKept` depends on the refresh period. It holds when `RefreshPeriod / NUM_RANKS` exceeds the worst-case time to drain and close a rank, which is 21 cycles in this profile with two transactions. It holds at 44 and 45 (22 or 23 per rank) and fails at 40. Real periods are about 2600 cycles per rank. live_2rank uses 45, just above the threshold, and a period that NUM_RANKS does not divide, so the staggered countdowns drift against each other.
- close_lp uses tRAS = 11 and tRC = 14. Power-up sets `nextActivate = now + tXP` (line 685), an assignment that drops the tRC bound of the bank's last ACTIVATE. Under close page a bank can be Idle, powered down and woken before tRC has elapsed. The spacing holds exactly when tRAS <= tRCD + READ_TO_PRE_DELAY + tCKE + tXP, which is 11 in this profile. With tRAS = 12 and tRC = 15, TLC finds an ACTIVATE 14 cycles after the previous one, and the same happens one cycle past the bound with tCKE = 3. The run therefore sits exactly on the bound, where one cycle of slack lost anywhere on that path breaks `JEDECTiming`. This is a hazard of the code, not a finding: whether a device profile crosses the bound depends on its tRAS, tRCD, tRTP, tCKE and tXP, and none of those profiles is in this repository.
- In live, `PrintStats` may happen at any cycle boundary, including with transactions in flight. Two transactions over two rows of bank 0 and a row of bank 1 give hits (a second access to the open row), misses and row conflicts.

Each mutant in `PROJECT.json` replaces one mapped definition with a plausible bug, for example a write gap of tCCD instead of max(BL/2, tCCD), a missing tRRD update of the other banks, a refresh countdown not re-armed, or matching the last pending read instead of the first. Under its run's config, TLC reports the property violated.

## Fairness

`update()` is called once every cycle by the simulator, so the clock is weakly fair. The caller is under no obligation to send transactions, so `AddTransaction` has no fairness, and neither has `PrintStats`.

Every Tick that does not exit the program decrements the refresh countdowns, and no other action touches them. So `ClockAdvances` is exactly a Tick of the clock:

- `fault = "none"`, and
- `refreshCountdown` changes.

`Spec` states weak fairness on it, as `WF_refreshCountdown(ClockAdvances)`. `WF_vars(Tick)` would say the same, but TLC evaluates ENABLED over the whole chained cycle without caching, which costs about a second per state.

`ReadService` assumes weak fairness of each `Answer`. Through the refinement, this is checked against the controller's clock fairness alone.

## Findings

1. **Access-latency stamp goes to the wrong transaction** (line 322). The READ handler stamps the first unstamped pending read of the same address. A row-miss READ of read 1, which its ACTIVATE already stamped, therefore stamps read 2 with read 1's issue cycle. The ACTIVATE loop (454-461) overwrites stamps without testing them at all.
2. **SMART PRECHARGE erases tRRD** (line 512). `nextActivate = currentClockCycle` replaces the tRRD bound that another bank's ACTIVATE had just set. Two ACTIVATEs of a rank then issue closer than tRRD, although line 493 says the tRRD of other banks is kept.
3. **SMART sensing energy is never charged on writes** (line 331 vs 392-447). spec.md sections 4.4 and 8 charge the first READ *or WRITE* after ACTIVATE.
4. **SMART two-rank data bus collision** (line 482 with 422 and 258). A SMART ACTIVATE lets a WRITE follow at once, and the cross-rank write guard skips banks that were not RowActive. Two ranks' write data then overlap and `update()` exits. The same scenario under conventional timing passes (run live_2rank).

5. **SMART cross-rank read/write overlap on the data bus** (line 366 with 482). The READ handler sets the read-to-write turnaround of other ranks only on banks that are RowActive. A READ on rank 0, then an ACTIVATE and a WRITE on an Idle bank of rank 1, which SMART lets follow at once, puts the write data on the bus while rank 0 still drives the read burst. `update()` only checks write against write, so nothing reports it.
6. **SMART powers a rank down with a PRECHARGE in flight** (line 668 with 512). A SMART PRECHARGE leaves the bank Idle in the same cycle, so the all-Idle check passes and the rank is powered down while its PRECHARGE is still on the command bus. spec.md section 4.2 enters PowerDown from Idle only.

7. **The epoch invariant `reads + writes >= ACT` does not hold** (printStats, lines 953-957). spec.md section 4.3 states it across an epoch. But an epoch may end between a transaction's ACTIVATE (a miss of this epoch) and its completion (counted in the next). The code knows: its per-bank report clamps `transactions - ACT` at zero and prints a 0% hit rate when ACTs exceed transactions. So the per-bank hits it prints are not the hits the command queue counted. Section 8 property 6 has the right form, with "± in-flight", and `RowBufferBalance` checks that form.

## Not modelled, and why

- **Energy and reports.** Background, burst and refresh energy, the latency histograms, `totalTransactions`, `grandTotalBankAccesses` and the printing in `printStats` are not modelled: they only feed printed reports. The reset at the end of `printStats` is modelled. `actpreEnergy` is kept as a count of sensing/ACT charges, and the per-bank counts and row-buffer statistics are modelled for `RowBufferBalance`.
- **Parts of the command queue.** tFAW and `commandQueue.step()` belong to `CommandQueue.cpp`, which is not in this repository, and spec.md does not describe them. So they cannot be modelled faithfully. The rank's own checks on the commands it receives are not modelled either: `Rank.cpp` is not in this repository and spec.md section 4.6 does not list them. So what a powered-down rank does with the PRECHARGE of finding 6 stays open.
- **`tCMD = 1` and `WL >= 1`.** The model assumes both, as every profile does (WL = AL + CL - 1). They are configuration limits rather than hazards of the code.
- **Benchmarks and scripts.** The STREAM kernels (`stream_add.c`, `stream_scale.c`) are loops of volatile loads and stores between `ptlcall_switch_to_sim` and `ptlcall_kill`. They reach the controller only as the misses and write-backs of the full-system CPU model and its caches, which is not in this repository. So no faithful map exists from a loop iteration to a transaction. The model's nondeterministic caller stands for every stream they can produce. The scripts build and launch simulations and have no state machine of their own.

## Plan for later work

1. Larger instances of the two-rank runs. With three transactions, live_2rank reaches 760k states in under two minutes, but `RefreshRequestKept` fails at a refresh period of 45: more queued work lengthens the worst-case drain of a rank beyond 22 cycles. A run at three transactions needs a longer period, and so a larger state space.
