\* Conventional DRAM, close page, low power, one rank of two banks.
CONSTANTS
  NUM_RANKS = 1
  NUM_BANKS = 2
  Rows = {1, 2}
  Addrs <- MC_Addrs1
  AddrMap <- MC_AddrMap1
  TRANS_QUEUE_DEPTH = 2
  CMD_QUEUE_DEPTH = 4
  isSmartMRAM = FALSE
  ClosePage = TRUE
  CommandFCFS = TRUE
  USE_LOW_POWER = TRUE
  tRCD = 3  tRP = 3  tRAS = 11  tRC = 14  tRFC = 5  tRRD = 3  tCCD = 2
  tRTRS = 1  tWTR = 2  tRTP = 2  tWR = 3  tCMD = 1  tXP = 2  tCKE = 2
  BL = 8  AL = 0  CL = 3
  RefreshPeriod = 24
  EpochResets = FALSE
  MaxTrans = 3
SPECIFICATION Spec
INVARIANT TypeOK
INVARIANT NoFatalError
PROPERTY JEDECTiming
