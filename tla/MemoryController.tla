-------------------------- MODULE MemoryController --------------------------
(***************************************************************************)
(* MemoryController.cpp: transaction intake (addTransaction) and the      *)
(* per-cycle update() of the DRAMSim2 memory controller with the SMART     *)
(* STT-MRAM variant, composed with the command queue it pops from and the  *)
(* ranks it drives.                                                        *)
(*                                                                         *)
(* One Tick is one memory clock cycle: every rank's update(), then the     *)
(* controller's update() in the code's order of steps, then the clock      *)
(* advance.  update() has no suspension point, so the whole cycle is one   *)
(* atomic step; the only other actor is the caller, which adds            *)
(* transactions between cycles.                                            *)
(*                                                                         *)
(* Energy is kept as counts of the ACT/sensing charge (the code adds the   *)
(* same IDD expression each time); burst, refresh and background energy   *)
(* and the latency histograms are left out: no property below reads them. *)
(***************************************************************************)
EXTENDS Naturals, Sequences, SequencesExt, BankState

CONSTANTS
  NUM_RANKS, NUM_BANKS,
  Rows,                 \* row addresses used by the addresses below
  Addrs,                \* physical addresses the caller may use (non-zero)
  AddrMap,              \* addressMapping: Addrs -> [rank, bank, row]
  TRANS_QUEUE_DEPTH, CMD_QUEUE_DEPTH,
  isSmartMRAM,          \* technology flag of the device profile
  ClosePage,            \* ROW_BUFFER_POLICY = close-page
  CommandFCFS,          \* SCHEDULER_POLICY = command-FCFS
  USE_LOW_POWER,
  tRCD, tRP, tRAS, tRC, tRFC, tRRD, tCCD, tRTRS, tWTR, tRTP, tWR,
  tCMD, tXP, tCKE, BL, AL, CL,
  RefreshPeriod,        \* REFRESH_PERIOD / tCK, in cycles
  EpochResets,          \* whether statistics epochs end (printStats/resetStats)
  MaxTrans              \* bound: transactions the caller issues in a run

Ranks == 0..(NUM_RANKS - 1)
Banks == 0..(NUM_BANKS - 1)

\* Derived delays (SystemConfiguration.h of DRAMSim2).
RL == AL + CL
WL == RL - 1
READ_TO_PRE_DELAY     == AL + BL \div 2 + (IF tRTP > 2 THEN tRTP ELSE 2) - 2
WRITE_TO_PRE_DELAY    == WL + BL \div 2 + tWR
READ_TO_WRITE_DELAY   == RL + BL \div 2 + tRTRS - WL
READ_AUTOPRE_DELAY    == AL + tRTP + tRP
WRITE_AUTOPRE_DELAY   == WL + BL \div 2 + tWR + tRP
WRITE_TO_READ_DELAY_B == WL + BL \div 2 + tWTR
WRITE_TO_READ_DELAY_R == WL + BL \div 2 + tRTRS - RL

ASSUME /\ tCMD = 1 /\ WL >= 1
       /\ WRITE_TO_READ_DELAY_R >= 0 /\ tRCD >= AL
       /\ \A a \in Addrs : a # 0

CQ == INSTANCE CommandQueue WITH Ranks <- Ranks, Banks <- Banks
RK == INSTANCE Rank

DATA_READ  == "DATA_READ"
DATA_WRITE == "DATA_WRITE"

NoPacket == CQ!Packet("NULL", 0, 0, 0, 0, 0)
\* timeACTIssued == 0.  A stamp otherwise names the command issued in the
\* stamped cycle (one command per cycle), as [kind, by] with by the arrival
\* number of the transaction that command belongs to.
NoStamp == [kind |-> "none", by |-> 0]

VARIABLES
  bankStates,          \* bankStates[<<rank, bank>>]
  cmdQueue,            \* CommandQueue: per-bank queues ...
  cqRefreshWaiting,    \*   ... its refreshWaiting / refreshRank ...
  cqRefreshRank,
  cqNext,              \*   ... and its round-robin pointer
  outgoingCmdPacket, cmdCyclesLeft,
  outgoingDataPacket, dataCyclesLeft,
  writeDataToSend,     \* write data with its writeDataCountdown
  refreshCountdown, refreshRank, powerDown,
  transactionQueue,
  pendingReadTransactions,
  returnTransaction,
  rankRefreshWaiting,  \* Rank::refreshWaiting
  rankReadReturn,      \* reads each rank is answering
  actpreEnergy,        \* in units of the ACT/sensing charge
  rowBufferStats,      \* CommandQueue: row-buffer hits and misses per bank
  totalReadsPerBank,   \* reads and writes completed per bank this epoch
  totalWritesPerBank,
  fault,               \* the ERROR(...) that ended the program, or "none"
  nextId,              \* caller: arrival number of the next transaction
  returned,            \* history: [id, data] per ReturnReadData, in order: the
                       \* read it fired for, the read whose data was returned
  since,               \* history: cycles since each bank's last ACT/PRE/REF
  carried              \* history: transactions in flight per bank at the last
                       \* resetStats

vars == << bankStates, cmdQueue, cqRefreshWaiting, cqRefreshRank, cqNext,
           outgoingCmdPacket, cmdCyclesLeft, outgoingDataPacket, dataCyclesLeft,
           writeDataToSend, refreshCountdown, refreshRank, powerDown,
           transactionQueue, pendingReadTransactions, returnTransaction,
           rankRefreshWaiting, rankReadReturn, actpreEnergy, rowBufferStats,
           totalReadsPerBank, totalWritesPerBank, fault, nextId, returned, since,
           carried >>

(***************************************************************************)
(* The whole state as one record, so that update()'s steps compose.       *)
(***************************************************************************)
Current ==
  [ bs |-> bankStates, q |-> cmdQueue, crw |-> cqRefreshWaiting,
    crr |-> cqRefreshRank, next |-> cqNext,
    cmd |-> outgoingCmdPacket, cmdLeft |-> cmdCyclesLeft,
    data |-> outgoingDataPacket, dataLeft |-> dataCyclesLeft,
    wd |-> writeDataToSend, rc |-> refreshCountdown, rRank |-> refreshRank,
    pd |-> powerDown, tq |-> transactionQueue, pend |-> pendingReadTransactions,
    ret |-> returnTransaction, rrw |-> rankRefreshWaiting, rret |-> rankReadReturn,
    actpre |-> actpreEnergy, rb |-> rowBufferStats, rpb |-> totalReadsPerBank,
    wpb |-> totalWritesPerBank, fault |-> fault, returned |-> returned ]

Fail(S, what) == [S EXCEPT !.fault = what]

\* A step of update() is skipped once an earlier one has exited the program.
Then(S, Step(_)) == IF S.fault = "none" THEN Step(S) ELSE S
(***************************************************************************)
(* update(), step 1: count down stateChangeCountdown and take the implicit *)
(* transition of lastCommand when it reaches zero.                         *)
(***************************************************************************)
ImplicitTransitionShort(b) ==
  CASE b.lastCommand \in {WRITE_P, READ_P} ->
         IF isSmartMRAM
         THEN [b EXCEPT !.currentBankState = Idle, !.lastCommand = PRECHARGE,
                        !.stateChangeCountdown = 0]
         ELSE [b EXCEPT !.currentBankState = Precharging, !.lastCommand = PRECHARGE,
                        !.stateChangeCountdown = tRP - 1]
    [] b.lastCommand \in {REFRESH, PRECHARGE} -> [b EXCEPT !.currentBankState = Idle]
    [] OTHER -> b
ImplicitTransition(b) ==
  CASE b.lastCommand \in {WRITE_P, READ_P} ->
         IF isSmartMRAM
         THEN [b EXCEPT !.currentBankState = Idle, !.lastCommand = PRECHARGE,
                        !.stateChangeCountdown = 0]
         ELSE [b EXCEPT !.currentBankState = Precharging, !.lastCommand = PRECHARGE,
                        !.stateChangeCountdown = tRP]
    [] b.lastCommand \in {REFRESH, PRECHARGE} -> [b EXCEPT !.currentBankState = Idle]
    [] OTHER -> b

CountDownBank(b) ==
  IF b.stateChangeCountdown = 0 THEN b
  ELSE IF b.stateChangeCountdown > 1
       THEN [b EXCEPT !.stateChangeCountdown = @ - 1]
       ELSE ImplicitTransition([b EXCEPT !.stateChangeCountdown = 0])

UpdateBankStates(S) == [S EXCEPT !.bs = [k \in DOMAIN @ |-> CountDownBank(@[k])]]

(***************************************************************************)
(* Steps 2 and 3: the command bus and the write-data bus count down and   *)
(* hand their packet to the rank (WriteDataDone fires for write data).    *)
(***************************************************************************)
AdvanceCmdBus(S) ==
  IF S.cmd = NoPacket THEN S
  ELSE IF S.cmdLeft > 1 THEN [S EXCEPT !.cmdLeft = @ - 1]
  ELSE LET r == RK!RankReceive(S.cmd, S.rret, S.rrw)
       IN [S EXCEPT !.cmdLeft = 0, !.cmd = NoPacket,
                    !.rret = r.readReturn, !.rrw = r.refreshWaiting]

AdvanceDataBus(S) ==
  IF S.data = NoPacket THEN S
  ELSE IF S.dataLeft > 1 THEN [S EXCEPT !.dataLeft = @ - 1]
  ELSE [S EXCEPT !.dataLeft = 0, !.data = NoPacket]

(***************************************************************************)
(* Step 4: every writeDataCountdown is decremented; the head's data goes  *)
(* onto the data bus when its count reaches zero, or the program exits    *)
(* with a data bus collision if the bus is still held.                     *)
(***************************************************************************)
DrainWriteDataBL(S) ==
  IF S.wd = << >> THEN S
  ELSE LET wd1 == [i \in 1..Len(S.wd) |-> [S.wd[i] EXCEPT !.countdown = @ - 1]]
       IN IF wd1[1].countdown # 0 THEN [S EXCEPT !.wd = wd1]
          ELSE IF S.data # NoPacket THEN Fail(S, "DataBusCollision")
          ELSE [S EXCEPT !.data = wd1[1].pkt, !.dataLeft = BL, !.wd = Tail(wd1),
                         !.wpb[<<wd1[1].pkt.rank, wd1[1].pkt.bank>>] = @ + 1]
DrainWriteData(S) ==
  IF S.wd = << >> THEN S
  ELSE LET wd1 == [i \in 1..Len(S.wd) |-> [S.wd[i] EXCEPT !.countdown = @ - 1]]
       IN IF wd1[1].countdown # 0 THEN [S EXCEPT !.wd = wd1]
          ELSE IF S.data # NoPacket THEN Fail(S, "DataBusCollision")
          ELSE [S EXCEPT !.data = wd1[1].pkt, !.dataLeft = BL \div 2, !.wd = Tail(wd1),
                         !.wpb[<<wd1[1].pkt.rank, wd1[1].pkt.bank>>] = @ + 1]

(***************************************************************************)
(* Step 5: the rank due for refresh is handed to the command queue, its   *)
(* countdown re-armed and the refresh rank rotated; a powered-down rank   *)
(* within tXP of its refresh is flagged so that it wakes up.              *)
(***************************************************************************)
RefreshGateNoRearm(S) ==
  LET r == S.rRank IN
  IF S.rc[r] = 0
  THEN [S EXCEPT !.crw = CQ!NeedRefresh(r).refreshWaiting,
                 !.crr = CQ!NeedRefresh(r).refreshRank,
                 !.rrw[r] = TRUE,
                 !.rRank = IF r + 1 = NUM_RANKS THEN 0 ELSE r + 1]
  ELSE IF S.pd[r] /\ S.rc[r] <= tXP THEN [S EXCEPT !.rrw[r] = TRUE]
  ELSE S
RefreshGate(S) ==
  LET r == S.rRank IN
  IF S.rc[r] = 0
  THEN [S EXCEPT !.crw = CQ!NeedRefresh(r).refreshWaiting,
                 !.crr = CQ!NeedRefresh(r).refreshRank,
                 !.rrw[r] = TRUE, !.rc[r] = RefreshPeriod,
                 !.rRank = IF r + 1 = NUM_RANKS THEN 0 ELSE r + 1]
  ELSE IF S.pd[r] /\ S.rc[r] <= tXP THEN [S EXCEPT !.rrw[r] = TRUE]
  ELSE S
(***************************************************************************)
(* Step 6: pop one command and apply its effect to the bank states.       *)
(***************************************************************************)
Max2(a, b) == IF a > b THEN a ELSE b

\* The first pending read for this address (whose timeACTIssued is still 0,
\* when unstampedOnly) gets the cycle of the command p as timeACTIssued.
\* A variant that always stamps the first pending read of the address.
StampPendingFirst(pend, p, unstampedOnly) ==
  LET i == SelectInSeq(pend, LAMBDA e : e.addr = p.addr)
  IN IF i = 0 THEN pend
     ELSE [pend EXCEPT ![i].timeACTIssued = [kind |-> p.type, by |-> p.id]]
StampPending(pend, p, unstampedOnly) ==
  LET i == SelectInSeq(pend, LAMBDA e : e.addr = p.addr
                                        /\ (unstampedOnly => e.timeACTIssued = NoStamp))
  IN IF i = 0 THEN pend
     ELSE [pend EXCEPT ![i].timeACTIssued = [kind |-> p.type, by |-> p.id]]

\* A read blocks the next read of its own rank for max(tCCD, BL/2).
SameRankReadGapTCCD == tCCD
SameRankReadGap == Max2(tCCD, BL \div 2)

\* A READ keeps the other ranks' data off the bus while its data comes back,
\* but only for banks that are RowActive when it issues.
OtherRankAfterReadNoWrite(b) ==
  IF b.currentBankState = RowActive
  THEN [b EXCEPT !.nextRead = NotBefore(BL \div 2 + tRTRS, @)]
  ELSE b
OtherRankAfterRead(b) ==
  IF b.currentBankState = RowActive
  THEN [b EXCEPT !.nextRead = NotBefore(BL \div 2 + tRTRS, @),
                 !.nextWrite = NotBefore(READ_TO_WRITE_DELAY, @)]
  ELSE b

\* READ / READ_P
ReadIssued(S, p) ==
  LET k   == <<p.rank, p.bank>>
      own == S.bs[k]
      own1 == IF p.type = READ_P
              THEN [own EXCEPT !.nextActivate = NotBefore(READ_AUTOPRE_DELAY, @),
                               !.lastCommand = READ_P,
                               !.stateChangeCountdown = READ_TO_PRE_DELAY]
              ELSE [own EXCEPT !.nextPrecharge = NotBefore(READ_TO_PRE_DELAY, @),
                               !.lastCommand = READ]
      bs1 == [S.bs EXCEPT ![k] = own1]
      Guard(j, b) ==
        IF j[1] # p.rank
        THEN OtherRankAfterRead(b)
        ELSE [b EXCEPT !.nextRead = NotBefore(SameRankReadGap, @),
                       !.nextWrite = NotBefore(READ_TO_WRITE_DELAY, @)]
      bs2 == [j \in DOMAIN bs1 |-> Guard(j, bs1[j])]
      bs3 == IF p.type = READ_P
             THEN [bs2 EXCEPT ![k].nextRead = bs2[k].nextActivate,
                              ![k].nextWrite = bs2[k].nextActivate]
             ELSE bs2
  IN [S EXCEPT !.pend = StampPending(@, p, TRUE),
               !.actpre[p.rank] = IF isSmartMRAM /\ own.lastCommand = ACTIVATE
                                  THEN @ + 1 ELSE @,
               !.bs = bs3]

\* A write blocks the next column access of its own rank for max(BL/2, tCCD)
\* (write) and the write-to-read turnaround (read).
SameRankWriteGapTCCD == tCCD
SameRankWriteGap == Max2(BL \div 2, tCCD)

\* WRITE / WRITE_P
WriteIssued(S, p) ==
  LET k   == <<p.rank, p.bank>>
      own == S.bs[k]
      own1 == IF p.type = WRITE_P
              THEN [own EXCEPT !.nextActivate = NotBefore(WRITE_AUTOPRE_DELAY, @),
                               !.lastCommand = WRITE_P,
                               !.stateChangeCountdown = WRITE_TO_PRE_DELAY]
              ELSE [own EXCEPT !.nextPrecharge = NotBefore(WRITE_TO_PRE_DELAY, @),
                               !.lastCommand = WRITE]
      bs1 == [S.bs EXCEPT ![k] = own1]
      Guard(j, b) ==
        IF j[1] # p.rank
        THEN IF b.currentBankState = RowActive
             THEN [b EXCEPT !.nextWrite = NotBefore(BL \div 2 + tRTRS, @),
                            !.nextRead = NotBefore(WRITE_TO_READ_DELAY_R, @)]
             ELSE b
        ELSE [b EXCEPT !.nextWrite = NotBefore(SameRankWriteGap, @),
                       !.nextRead = NotBefore(WRITE_TO_READ_DELAY_B, @)]
      bs2 == [j \in DOMAIN bs1 |-> Guard(j, bs1[j])]
      bs3 == IF p.type = WRITE_P
             THEN [bs2 EXCEPT ![k].nextRead = bs2[k].nextActivate,
                              ![k].nextWrite = bs2[k].nextActivate]
             ELSE bs2
  IN [S EXCEPT !.bs = bs3]

\* The not-before times an ACTIVATE sets on its own bank: SMART keeps only
\* tRRD between its ACTIVATEs and lets READ/WRITE and PRECHARGE follow at
\* once; conventional DRAM keeps tRC, tRAS and tRCD.
ActTimingNoRCD(own) ==
  IF isSmartMRAM
  THEN [own EXCEPT !.nextActivate = NotBefore(tRRD, @), !.nextPrecharge = 0,
                   !.nextRead = NotBefore(0, @), !.nextWrite = NotBefore(0, @)]
  ELSE [own EXCEPT !.nextActivate = NotBefore(tRC, @), !.nextPrecharge = NotBefore(tRAS, @),
                   !.nextRead = NotBefore(tRCD - AL, @), !.nextWrite = NotBefore(0, @)]
ActTiming(own) ==
  IF isSmartMRAM
  THEN [own EXCEPT !.nextActivate = NotBefore(tRRD, @), !.nextPrecharge = 0,
                   !.nextRead = NotBefore(0, @), !.nextWrite = NotBefore(0, @)]
  ELSE [own EXCEPT !.nextActivate = NotBefore(tRC, @), !.nextPrecharge = NotBefore(tRAS, @),
                   !.nextRead = NotBefore(tRCD - AL, @), !.nextWrite = NotBefore(tRCD - AL, @)]

\* The other banks of the ACTIVATE's rank may not activate within tRRD.
RRDGuardNone(j, b, p) == b
RRDGuard(j, b, p) ==
  IF j[1] = p.rank /\ j[2] # p.bank THEN [b EXCEPT !.nextActivate = NotBefore(tRRD, @)] ELSE b

\* ACTIVATE
ActivateIssued(S, p) ==
  LET k   == <<p.rank, p.bank>>
      own == [S.bs[k] EXCEPT !.currentBankState = RowActive, !.lastCommand = ACTIVATE,
                             !.openRowAddress = p.row]
      bs1 == [S.bs EXCEPT ![k] = ActTiming(own)]
  IN [S EXCEPT !.pend = StampPending(@, p, FALSE),
               !.actpre[p.rank] = IF isSmartMRAM THEN @ ELSE @ + 1,
               !.bs = [j \in DOMAIN bs1 |-> RRDGuard(j, bs1[j], p)]]

\* PRECHARGE
PrechargeIssued(S, p) ==
  LET k == <<p.rank, p.bank>> IN
  IF isSmartMRAM
  THEN [S EXCEPT !.bs[k] = [@ EXCEPT !.currentBankState = Idle, !.lastCommand = PRECHARGE,
                                     !.stateChangeCountdown = 0, !.nextActivate = 0]]
  ELSE [S EXCEPT !.bs[k] = [@ EXCEPT !.currentBankState = Precharging,
                                     !.lastCommand = PRECHARGE,
                                     !.stateChangeCountdown = tRP,
                                     !.nextActivate = NotBefore(tRP, @)]]

\* REFRESH: every bank of the rank.
RefreshIssued(S, p) ==
  [S EXCEPT !.bs = [j \in DOMAIN @ |->
                      IF j[1] = p.rank
                      THEN [@[j] EXCEPT !.nextActivate = tRFC,
                                        !.currentBankState = Refreshing,
                                        !.lastCommand = REFRESH,
                                        !.stateChangeCountdown = tRFC]
                      ELSE @[j]]]

\* A write's data twin waits WL cycles before it is put on the data bus.
QueueWriteData(S, p) ==
  IF p.type \in WriteKinds
  THEN [S EXCEPT !.wd = Append(@, [pkt |-> [p EXCEPT !.type = DATA], countdown |-> WL])]
  ELSE S

\* The popped packet goes onto the command bus for tCMD cycles; a bus still
\* held is a collision.
LoadCmdBus(S, p) ==
  IF S.cmd # NoPacket THEN Fail(S, "CommandBusCollision")
  ELSE [S EXCEPT !.cmd = p, !.cmdLeft = tCMD]

IssueCommand(S) ==
  LET pop == CQ!Pop(S.q, S.crw, S.crr, S.next, S.bs) IN
  IF ~pop.found THEN S
  ELSE LET p  == pop.pkt
           S1 == QueueWriteData([S EXCEPT !.q = pop.queues, !.crw = pop.refreshWaiting,
                                          !.crr = pop.refreshRank, !.next = pop.next,
                                          !.rb = CQ!CountRowBuffer(@, pop)], p)
       IN LoadCmdBus(CASE p.type \in ReadKinds  -> ReadIssued(S1, p)
                       [] p.type \in WriteKinds -> WriteIssued(S1, p)
                       [] p.type = ACTIVATE     -> ActivateIssued(S1, p)
                       [] p.type = PRECHARGE    -> PrechargeIssued(S1, p)
                       [] p.type = REFRESH      -> RefreshIssued(S1, p), p)
(***************************************************************************)
(* Step 7: the first transaction in arrival order whose bank queue has    *)
(* room for two commands becomes ACTIVATE + READ/WRITE (READ_P/WRITE_P    *)
(* under close page); a read is recorded as pending before its commands   *)
(* are enqueued.  At most one transaction per cycle.                       *)
(***************************************************************************)
BusPacketType(t) ==
  IF t.transactionType = DATA_READ THEN IF ClosePage THEN READ_P ELSE READ
  ELSE IF ClosePage THEN WRITE_P ELSE WRITE

\* A read is remembered in pendingReadTransactions, in arrival order.
RecordPendingFront(pend, t) ==
  IF t.transactionType = DATA_READ
  THEN << [id |-> t.id, addr |-> t.address, timeACTIssued |-> NoStamp] >> \o pend
  ELSE pend
RecordPending(pend, t) ==
  IF t.transactionType = DATA_READ
  THEN Append(pend, [id |-> t.id, addr |-> t.address, timeACTIssued |-> NoStamp])
  ELSE pend

\* The transaction's ACTIVATE and READ/WRITE are enqueued together.
EnqueueCommandsActOnly(q, act, cmd) == CQ!Enqueue(q, act)
EnqueueCommands(q, act, cmd) == CQ!Enqueue(CQ!Enqueue(q, act), cmd)

AdmitTransaction(S) ==
  LET Fits(t) == CQ!HasRoomFor(2, S.q, AddrMap[t.address].rank, AddrMap[t.address].bank)
      i == SelectInSeq(S.tq, Fits)
  IN IF i = 0 THEN S
     ELSE LET t   == S.tq[i]
              m   == AddrMap[t.address]
              act == CQ!Packet(ACTIVATE, m.rank, m.bank, m.row, t.address, t.id)
              cmd == CQ!Packet(BusPacketType(t), m.rank, m.bank, m.row, t.address, t.id)
          IN [S EXCEPT !.tq = RemoveAt(@, i), !.pend = RecordPending(@, t),
                       !.q = EnqueueCommands(@, act, cmd)]

(***************************************************************************)
(* Steps 8-9: low-power management per rank (background energy is left   *)
(* out).  A rank with an empty queue, no refresh waiting and all banks    *)
(* Idle is powered down; a powered-down rank with work or a refresh       *)
(* waiting is woken once nextPowerUp is reached.                           *)
(***************************************************************************)
\* The all-idle check before powering rank r down, and a variant that
\* reuses the background-energy test (no bank RowActive or Refreshing).
AllIdleNoneOpen(bs, r) ==
  \A b \in Banks : bs[<<r, b>>].currentBankState \notin {RowActive, Refreshing}
AllIdle(bs, r) == \A b \in Banks : bs[<<r, b>>].currentBankState = Idle

PowerManagement(S) ==
  LET Down(r) == CQ!IsEmpty(S.q, r) /\ ~S.rrw[r]
      Up(r) == ~Down(r) /\ Reached(S.bs[<<r, 0>>].nextPowerUp) /\ S.pd[r]
  IN IF ~USE_LOW_POWER THEN S
     ELSE [S EXCEPT
             !.pd = [r \in Ranks |-> IF Down(r) /\ AllIdle(S.bs, r) THEN TRUE
                                     ELSE IF Up(r) THEN FALSE ELSE @[r]],
             !.bs = [j \in DOMAIN @ |->
                       IF Down(j[1]) /\ AllIdle(S.bs, j[1])
                       THEN [@[j] EXCEPT !.currentBankState = PowerDown,
                                         !.nextPowerUp = tCKE]
                       ELSE IF Up(j[1])
                       THEN [@[j] EXCEPT !.currentBankState = Idle, !.nextActivate = tXP]
                       ELSE @[j]]]

(***************************************************************************)
(* Step 10: the oldest returned data is matched, by address, with the     *)
(* first pending read; ReturnReadData fires for that read, which is then  *)
(* destroyed.  No match aborts the program.                                *)
(***************************************************************************)
\* returnReadData(trans): the caller's ReturnReadData callback fires for the
\* pending read; the history records it with the read whose data came back.
ReturnReadData(log, trans, data) ==
  Append(log, [id |-> trans.id, data |-> data.id])

ReturnPathLast(S) ==
  IF S.ret = << >> THEN S
  ELSE LET i == SelectLastInSeq(S.pend, LAMBDA e : e.addr = S.ret[1].addr)
       IN IF i = 0 THEN Fail(S, "NoMatchingTransaction")
          ELSE [S EXCEPT !.returned = ReturnReadData(@, S.pend[i], S.ret[1]),
                         !.pend = RemoveAt(@, i),
                         !.ret = Tail(@)]
ReturnPath(S) ==
  IF S.ret = << >> THEN S
  ELSE LET i == SelectInSeq(S.pend, LAMBDA e : e.addr = S.ret[1].addr)
       IN IF i = 0 THEN Fail(S, "NoMatchingTransaction")
          ELSE [S EXCEPT !.returned = ReturnReadData(@, S.pend[i], S.ret[1]),
                         !.pend = RemoveAt(@, i),
                         !.ret = Tail(@)]

\* Step 11: decrement all refresh countdowns.
DecrementRefresh(S) == [S EXCEPT !.rc = [r \in Ranks |-> @[r] - 1]]

\* Every rank's update(), before the controller's: data that completes is
\* handed to receiveFromBus, which appends a RETURN_DATA transaction and
\* counts a read of the bank.
RanksUpdate(S) ==
  LET u == [r \in Ranks |-> RK!RankUpdate(S.rret[r])]
      got == FlattenSeq([i \in 1..NUM_RANKS |-> u[i - 1].delivered])
      Reads(j) == Cardinality({k \in DOMAIN got : AddrMap[got[k].addr].rank = j[1]
                                                /\ AddrMap[got[k].addr].bank = j[2]})
  IN [S EXCEPT !.rret = [r \in Ranks |-> u[r].rest],
               !.ret = @ \o got,
               !.rpb = [j \in DOMAIN @ |-> @[j] + Reads(j)]]

\* The clock advance after update(): every not-before time moves one closer.
ClockStep(S) == [S EXCEPT !.bs = [j \in DOMAIN @ |-> ElapseBank(@[j])]]

Assign(S) ==
  /\ bankStates' = S.bs /\ cmdQueue' = S.q
  /\ cqRefreshWaiting' = S.crw /\ cqRefreshRank' = S.crr /\ cqNext' = S.next
  /\ outgoingCmdPacket' = S.cmd /\ cmdCyclesLeft' = S.cmdLeft
  /\ outgoingDataPacket' = S.data /\ dataCyclesLeft' = S.dataLeft
  /\ writeDataToSend' = S.wd /\ refreshCountdown' = S.rc /\ refreshRank' = S.rRank
  /\ powerDown' = S.pd /\ transactionQueue' = S.tq
  /\ pendingReadTransactions' = S.pend /\ returnTransaction' = S.ret
  /\ rankRefreshWaiting' = S.rrw /\ rankReadReturn' = S.rret
  /\ actpreEnergy' = S.actpre /\ rowBufferStats' = S.rb
  /\ totalReadsPerBank' = S.rpb /\ totalWritesPerBank' = S.wpb
  /\ fault' = S.fault /\ returned' = S.returned

(***************************************************************************)
(* History for the timing property: the cycles since each bank last saw   *)
(* an ACTIVATE, the start of a precharge (explicit, or the implicit one   *)
(* of READ_P/WRITE_P) and a REFRESH, saturating at Cap.                    *)
(***************************************************************************)
Cap == LET ts == {tRC, tRP, tRAS, tRCD, tRRD, tRFC} IN CHOOSE t \in ts : \A u \in ts : t >= u
Older(a) == IF a < Cap THEN a + 1 ELSE Cap

SinceAfter(S) ==
  LET p == S.cmd
      Hit(j) == p # NoPacket /\ p.rank = j[1] /\ (p.bank = j[2] \/ p.type = REFRESH)
      Age(j) ==
        [ act |-> IF Hit(j) /\ p.type = ACTIVATE THEN 0 ELSE since[j].act,
          pre |-> IF S.bs[j].lastCommand = PRECHARGE
                     /\ bankStates[j].lastCommand # PRECHARGE THEN 0 ELSE since[j].pre,
          ref |-> IF Hit(j) /\ p.type = REFRESH THEN 0 ELSE since[j].ref ]
  IN [j \in DOMAIN since |-> [a \in {"act", "pre", "ref"} |-> Older(Age(j)[a])]]

(***************************************************************************)
(* The actions.                                                            *)
(***************************************************************************)

\* One memory clock cycle: the ranks' update(), then update()'s steps in the
\* code's order, each applied to the state the previous one left, then the
\* clock advance.
Tick ==
  /\ fault = "none"
  /\ \E s0 \in {RanksUpdate(Current)} :
     \E s1 \in {Then(s0, UpdateBankStates)} :
     \E s2 \in {Then(s1, AdvanceCmdBus)} :
     \E s3 \in {Then(s2, AdvanceDataBus)} :
     \E s4 \in {Then(s3, DrainWriteData)} :
     \E s5 \in {Then(s4, RefreshGate)} :
     \E s6 \in {Then(s5, IssueCommand)} :
     \E s7 \in {Then(s6, AdmitTransaction)} :
     \E s8 \in {Then(s7, PowerManagement)} :
     \E s9 \in {Then(s8, ReturnPath)} :
     \E s10 \in {Then(s9, DecrementRefresh)} :
     \E s11 \in {Then(s10, ClockStep)} :
        Assign(s11) /\ since' = SinceAfter(s11)
  /\ UNCHANGED << nextId, carried >>

\* addTransaction(t): accepted while the transaction queue has room
\* (WillAcceptTransaction); otherwise the caller keeps it and retries.
AddTransaction(type, addr) ==
  /\ fault = "none"
  /\ nextId <= MaxTrans
  /\ Len(transactionQueue) < TRANS_QUEUE_DEPTH
  /\ transactionQueue' = Append(transactionQueue,
                                [id |-> nextId, transactionType |-> type, address |-> addr])
  /\ nextId' = nextId + 1
  /\ UNCHANGED << bankStates, cmdQueue, cqRefreshWaiting, cqRefreshRank, cqNext,
                  outgoingCmdPacket, cmdCyclesLeft, outgoingDataPacket, dataCyclesLeft,
                  writeDataToSend, refreshCountdown, refreshRank, powerDown,
                  pendingReadTransactions, returnTransaction, rankRefreshWaiting,
                  rankReadReturn, actpreEnergy, rowBufferStats, totalReadsPerBank,
                  totalWritesPerBank, fault, returned, since, carried >>

(***************************************************************************)
(* The transactions of bank j that the command queue has counted (a hit   *)
(* or a miss) and the controller has not yet counted complete: a READ or  *)
(* WRITE still queued whose own ACTIVATE has issued, a READ on the        *)
(* command bus, a read its rank is answering, write data not yet driven.  *)
(***************************************************************************)
InFlight(j) ==
  LET q == cmdQueue[j]
      rr == rankReadReturn[j[1]]
      Mine(p) == p.rank = j[1] /\ p.bank = j[2]
      Started(k) == /\ q[k].type \in ColumnKinds
                    /\ ~\E i \in DOMAIN q : q[i].type = ACTIVATE /\ q[i].id = q[k].id
  IN Cardinality({k \in DOMAIN q : Started(k)})
     + (IF outgoingCmdPacket.type \in ReadKinds /\ Mine(outgoingCmdPacket) THEN 1 ELSE 0)
     + Cardinality({k \in DOMAIN rr : AddrMap[rr[k].addr].bank = j[2]})
     + Cardinality({k \in DOMAIN writeDataToSend : Mine(writeDataToSend[k].pkt)})

\* resetStats(): the per-bank counts, the ACT energy and the command
\* queue's row-buffer statistics restart.
ResetStats ==
  /\ totalReadsPerBank' = [j \in Ranks \X Banks |-> 0]
  /\ totalWritesPerBank' = [j \in Ranks \X Banks |-> 0]
  /\ actpreEnergy' = [r \in Ranks |-> 0]
  /\ rowBufferStats' = CQ!NoRowBufferStats
  /\ carried' = [j \in Ranks \X Banks |-> InFlight(j)]
  /\ UNCHANGED << bankStates, cmdQueue, cqRefreshWaiting, cqRefreshRank, cqNext,
                  outgoingCmdPacket, cmdCyclesLeft, outgoingDataPacket, dataCyclesLeft,
                  writeDataToSend, refreshCountdown, refreshRank, powerDown,
                  transactionQueue, pendingReadTransactions, returnTransaction,
                  rankRefreshWaiting, rankReadReturn, fault, nextId, returned, since >>

\* printStats(finalStats), at the end of each statistics epoch, between
\* cycles (the epoch length is left open).  Bandwidth, latency, power, the
\* row-buffer lines and the histograms are output only, and the per-rank
\* totals it accumulates are cleared again by resetStats, its last step.
PrintStats ==
  /\ EpochResets /\ fault = "none"
  /\ ResetStats

\* The constructor: refreshes staggered over the ranks.
Init ==
  /\ bankStates = [j \in Ranks \X Banks |-> InitBank(0)]
  /\ cmdQueue = [j \in Ranks \X Banks |-> << >>]
  /\ cqRefreshWaiting = FALSE /\ cqRefreshRank = 0 /\ cqNext = 0
  /\ outgoingCmdPacket = NoPacket /\ cmdCyclesLeft = 0
  /\ outgoingDataPacket = NoPacket /\ dataCyclesLeft = 0
  /\ writeDataToSend = << >>
  /\ refreshCountdown = [r \in Ranks |-> (RefreshPeriod \div NUM_RANKS) * (r + 1)]
  /\ refreshRank = 0
  /\ powerDown = [r \in Ranks |-> FALSE]
  /\ transactionQueue = << >>
  /\ pendingReadTransactions = << >>
  /\ returnTransaction = << >>
  /\ rankRefreshWaiting = [r \in Ranks |-> FALSE]
  /\ rankReadReturn = [r \in Ranks |-> << >>]
  /\ actpreEnergy = [r \in Ranks |-> 0]
  /\ rowBufferStats = CQ!NoRowBufferStats
  /\ totalReadsPerBank = [j \in Ranks \X Banks |-> 0]
  /\ totalWritesPerBank = [j \in Ranks \X Banks |-> 0]
  /\ carried = [j \in Ranks \X Banks |-> 0]
  /\ fault = "none"
  /\ nextId = 1
  /\ returned = << >>
  /\ since = [j \in Ranks \X Banks |-> [act |-> Cap, pre |-> Cap, ref |-> Cap]]

Next ==
  \/ Tick
  \/ \E type \in {DATA_READ, DATA_WRITE}, addr \in Addrs : AddTransaction(type, addr)
  \/ PrintStats

\* update() is called once per cycle by the simulator: the clock is fair;
\* the caller is not.  Every cycle that does not exit the program moves the
\* refresh countdowns (DecrementRefresh), and no other step moves them, so a
\* step of ClockAdvances is exactly a Tick, and weak fairness of the clock is
\* stated on it.  (Stated on Tick itself, TLC would evaluate ENABLED over the
\* whole chained cycle, which it does without caching.)
ClockAdvances ==
  /\ fault = "none"
  /\ refreshCountdown' \in [Ranks -> 0..RefreshPeriod] \ {refreshCountdown}
Fairness == WF_refreshCountdown(ClockAdvances)
Spec == Init /\ [][Next]_vars /\ Fairness
(***************************************************************************)
(* Properties.                                                             *)
(***************************************************************************)
MaxDelay == 16
PacketRec == [type : CommandKinds \cup {DATA, "NULL"}, rank : Ranks, bank : Banks,
              row : Rows \cup {0}, addr : Addrs \cup {0}, id : 0..MaxTrans]
Stamp == {NoStamp} \cup [kind : {ACTIVATE, READ, READ_P}, by : 1..MaxTrans]

TypeOK ==
  /\ bankStates \in [Ranks \X Banks -> BankRec(Rows \cup {0}, MaxDelay)]
  /\ \A j \in Ranks \X Banks : cmdQueue[j] \in Seq(PacketRec)
  /\ cqRefreshWaiting \in BOOLEAN /\ cqRefreshRank \in Ranks
  /\ cqNext \in 0..(NUM_RANKS * NUM_BANKS - 1)
  /\ outgoingCmdPacket \in PacketRec /\ cmdCyclesLeft \in 0..tCMD
  /\ outgoingDataPacket \in PacketRec /\ dataCyclesLeft \in 0..(BL \div 2)
  /\ \A i \in 1..Len(writeDataToSend) :
       writeDataToSend[i] \in [pkt : PacketRec, countdown : 1..WL]
  /\ refreshCountdown \in [Ranks -> 0..RefreshPeriod]
  /\ refreshRank \in Ranks /\ powerDown \in [Ranks -> BOOLEAN]
  /\ Len(transactionQueue) <= TRANS_QUEUE_DEPTH
  /\ \A i \in 1..Len(pendingReadTransactions) :
       pendingReadTransactions[i] \in [id : 1..MaxTrans, addr : Addrs, timeACTIssued : Stamp]
  /\ rankRefreshWaiting \in [Ranks -> BOOLEAN]
  /\ actpreEnergy \in [Ranks -> Nat]
  /\ rowBufferStats \in [Ranks \X Banks -> [hits : Nat, misses : Nat]]
  /\ totalReadsPerBank \in [Ranks \X Banks -> Nat]
  /\ totalWritesPerBank \in [Ranks \X Banks -> Nat]
  /\ carried \in [Ranks \X Banks -> Nat]
  /\ fault \in {"none", "DataBusCollision", "CommandBusCollision", "NoMatchingTransaction"}
  /\ nextId \in 1..(MaxTrans + 1)

\* None of update()'s fatal errors is ever reached: no data-bus collision
\* between two writes' data (step 4), no command-bus collision (step 6), and
\* every returned datum finds its pending read (step 10).
NoFatalError == fault = "none"

\* The data bus is shared by the write data update() drives (steps 3-4) and
\* the read data every rank drives back in the last BL/2 cycles of its
\* return delay.  At most one data bus packet is in flight (section 8,
\* property 3): only the write-write case is caught by update() itself
\* (step 4), so the read cases rest on the nextRead/nextWrite turnarounds
\* the READ and WRITE handlers set, same rank and other ranks.
ReadBursts ==
  {<<r, k>> \in Ranks \X (1..MaxTrans) :
     k <= Len(rankReadReturn[r]) /\ rankReadReturn[r][k].countdown <= BL \div 2}
DataBusExclusive ==
  Cardinality(ReadBursts) + (IF outgoingDataPacket = NoPacket THEN 0 ELSE 1) <= 1

\* A rank that step 9 has powered down receives no command: the command on
\* the bus, which reaches its rank in the next cycle (step 2), is never for
\* a powered-down rank.  Power-down is entered from Idle only (section 4.2),
\* and a bank whose PRECHARGE is still on the command bus has not yet left
\* RowActive at the rank.
CommandsReachAwakeRanks ==
  outgoingCmdPacket # NoPacket => ~powerDown[outgoingCmdPacket.rank]

\* Every refresh the refresh gate (step 5) requests of a rank reaches the
\* rank: the command queue drains or closes the rank's banks, wakes it if
\* it is powered down, and issues the REFRESH (section 8, REFRESH cadence).
RefreshServed ==
  \A r \in Ranks : [](rankRefreshWaiting[r] => <>~rankRefreshWaiting[r])

\* The controller implements ReadService: the reads it owes are those still
\* in the transaction queue and those pending after admission, and its
\* ReturnReadData callbacks are the answers.  Reads of one address are then
\* answered oldest first with their own data, and every read is answered
\* in the end (sections 5 and 8, FIFO per address and property 5).
OutstandingReads ==
  {[id |-> t.id, addr |-> t.address] :
      t \in {t \in ToSet(transactionQueue) : t.transactionType = DATA_READ}}
  \cup {[id |-> e.id, addr |-> e.addr] : e \in ToSet(pendingReadTransactions)}
RS == INSTANCE ReadService WITH Ids <- 1..MaxTrans, Addrs <- Addrs,
                                outstanding <- OutstandingReads, served <- returned
ImplementsReadService == RS!Spec

\* The writes the controller still owes: waiting in the transaction queue,
\* as a WRITE/WRITE_P in the command queue or on the command bus, as write
\* data counting down WL, or on the data bus before WriteDataDone fires.
PendingWrites ==
  LET queued == UNION {ToSet(cmdQueue[j]) : j \in Ranks \X Banks}
  IN  {t.id : t \in {t \in ToSet(transactionQueue) : t.transactionType = DATA_WRITE}}
      \cup {p.id : p \in {p \in queued \cup {outgoingCmdPacket} : p.type \in WriteKinds}}
      \cup {w.pkt.id : w \in ToSet(writeDataToSend)}
      \cup {p.id : p \in {outgoingDataPacket} \ {NoPacket}}

\* Every write the caller hands over is completed: it is admitted, its WRITE
\* issues, its data is driven WL cycles later (step 4) and WriteDataDone
\* fires when the burst ends (step 3).  ReadService speaks of reads only;
\* a write left behind in a queue, or in a rank powered down with work
\* still queued (step 9), would hold its slot for ever.
WritesComplete ==
  \A i \in 1..MaxTrans : (i \in PendingWrites) ~> (i \notin PendingWrites)

\* The command queue keeps one refresh request (refreshWaiting, refreshRank):
\* the request the refresh gate (step 5) hands it for one rank must not be
\* replaced by the next rank's request before its REFRESH issues, or that
\* rank misses a refresh period.  While a refresh waits, its rank stays.
RefreshRequestKept == [][cqRefreshWaiting => cqRefreshRank' = cqRefreshRank]_vars

\* The data handed back with each ReturnReadData is the data the rank read
\* for that same transaction: returned data is matched to a pending read
\* only by address (step 10), so two reads of one address must have their
\* READs issued, and their data returned, in the order they were admitted.
DataMatchesRead == \A k \in 1..Len(returned) : returned[k].id = returned[k].data
\* The command update() put on the command bus in this step (tCMD = 1, so
\* the bus holds a packet only in the cycle it was issued).
\* getTotalRowBufferMisses: the ACTIVATEs of the epoch over all banks.
TotalRowBufferMisses == SumFunction([j \in Ranks \X Banks |-> rowBufferStats[j].misses])

\* The reads and writes the controller counted complete in the epoch, over
\* all banks (printStats' per-bank transactions).
EpochTransactions == SumFunction([j \in Ranks \X Banks |-> totalReadsPerBank[j] + totalWritesPerBank[j]])

\* The row-buffer report printStats prints at an epoch end counts no more
\* ACTIVATEs (misses) than reads and writes completed in the epoch
\* (section 4.3: "reads + writes >= ACT across an epoch").
EpochActBound == [][PrintStats => TotalRowBufferMisses <= EpochTransactions]_vars

Issued == Tick /\ outgoingCmdPacket' # NoPacket /\ fault' = "none"

\* The JEDEC spacing each issued command respects, measured on the history
\* rather than on the nextX bookkeeping that the ACTIVATE, READ, WRITE,
\* PRECHARGE, REFRESH handlers and the power-up path spread over all banks.
\* Conventional: tRC/tRP/tRFC before an ACTIVATE and tRRD from an ACTIVATE
\* on another bank of the rank; tRCD after an ACTIVATE for a column access;
\* tRAS before a PRECHARGE.  SMART drops tRCD/tRAS/tRP but keeps tRRD
\* between the ACTIVATEs of a rank (section 4.4).
Spacing(p) ==
  LET own == since[<<p.rank, p.bank>>]
      rankBanks == {<<p.rank, b>> : b \in Banks}
  IN CASE p.type = ACTIVATE ->
            /\ own.ref >= tRFC
            /\ \A j \in rankBanks \ {<<p.rank, p.bank>>} : since[j].act >= tRRD
            /\ IF isSmartMRAM THEN own.act >= tRRD
               ELSE own.act >= tRC /\ own.pre >= tRP
       [] p.type \in ColumnKinds -> isSmartMRAM \/ own.act >= tRCD - AL
       [] p.type = PRECHARGE -> isSmartMRAM \/ own.act >= tRAS
       [] p.type = REFRESH -> \A j \in rankBanks : since[j].ref >= tRFC
       [] OTHER -> TRUE

JEDECTiming == [][Issued => Spacing(outgoingCmdPacket')]_vars

\* timeACTIssued of a pending read is the cycle of a command of that same
\* read (its ACTIVATE, or its first READ on a row-buffer hit), so that the
\* access latency recorded at return is its own (section 3, Transaction).
AccessLatencyStampOwn ==
  \A k \in 1..Len(pendingReadTransactions) :
    LET e == pendingReadTransactions[k] IN
    e.timeACTIssued # NoStamp => e.timeACTIssued.by = e.id

\* The return path (step 10) records accessLatency = currentClockCycle -
\* timeACTIssued for the read it answers.  That read has been stamped by then
\* (by its ACTIVATE, or by its first READ on a row-buffer hit), so the
\* latency is never measured from cycle 0, even when another read of the
\* same address took the stamp its ACTIVATE set.
Answered == Tick /\ Len(returned') > Len(returned)
ReturnStamped ==
  [][ Answered =>
        \A e \in ToSet(pendingReadTransactions) :
           e.id = returned'[Len(returned')].id => e.timeACTIssued # NoStamp ]_vars

\* SMART: the first READ or WRITE after each ACTIVATE of a bank adds the
\* sensing energy (the conventional ACT energy expression) to actpreEnergy
\* (section 4.4 and section 8, SMART invariant).
SensingOnFirstAccess ==
  [][ Issued /\ isSmartMRAM /\ outgoingCmdPacket'.type \in ColumnKinds
      /\ bankStates[<<outgoingCmdPacket'.rank, outgoingCmdPacket'.bank>>].lastCommand = ACTIVATE
      => actpreEnergy'[outgoingCmdPacket'.rank] = actpreEnergy[outgoingCmdPacket'.rank] + 1 ]_vars

\* Row-buffer accounting (section 8, property 6): the command queue counts
\* each transaction once, as a hit when its READ/WRITE is taken with its
\* ACTIVATE dropped or as a miss when its ACTIVATE issues; the controller
\* counts it once more as complete, in receiveFromBus (reads) or when its
\* write data is driven (step 4).  So per bank, within an epoch, hits plus
\* misses equal completed reads and writes up to the transactions in
\* flight now and at the epoch's start (resetStats).
RowBufferBalance ==
  \A j \in Ranks \X Banks :
    rowBufferStats[j].hits + rowBufferStats[j].misses + carried[j]
      = totalReadsPerBank[j] + totalWritesPerBank[j] + InFlight(j)
=============================================================================
