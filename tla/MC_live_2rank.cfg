\* Conventional DRAM, open page, low power, two ranks of two banks: the
\* rank-to-rank turnaround on the shared data bus, and the command queue's
\* one refresh request slot shared by two ranks whose requests come 22 or
\* 23 cycles apart (a period that NUM_RANKS does not divide).
CONSTANTS
  NUM_RANKS = 2
  NUM_BANKS = 2
  Rows = {1, 2}
  Addrs <- MC_Addrs2
  AddrMap <- MC_AddrMap2
  TRANS_QUEUE_DEPTH = 2
  CMD_QUEUE_DEPTH = 4
  isSmartMRAM = FALSE
  ClosePage = FALSE
  CommandFCFS = FALSE
  USE_LOW_POWER = TRUE
  tRCD = 5  tRP = 3  tRAS = 5  tRC = 8  tRFC = 5  tRRD = 3  tCCD = 2
  tRTRS = 1  tWTR = 2  tRTP = 2  tWR = 3  tCMD = 1  tXP = 2  tCKE = 2
  BL = 8  AL = 0  CL = 3
  RefreshPeriod = 45
  EpochResets = FALSE
  MaxTrans = 2
SPECIFICATION Spec
PROPERTY RefreshRequestKept
PROPERTY ImplementsReadService
INVARIANT TypeOK
INVARIANT NoFatalError
INVARIANT DataBusExclusive
