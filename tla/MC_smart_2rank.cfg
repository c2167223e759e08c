\* SMART STT-MRAM, open page, two ranks of two banks.
CONSTANTS
  NUM_RANKS = 2
  NUM_BANKS = 2
  Rows = {1, 2}
  Addrs <- MC_Addrs2
  AddrMap <- MC_AddrMap2
  TRANS_QUEUE_DEPTH = 2
  CMD_QUEUE_DEPTH = 4
  isSmartMRAM = TRUE
  ClosePage = FALSE
  CommandFCFS = FALSE
  USE_LOW_POWER = FALSE
  tRCD = 5  tRP = 3  tRAS = 5  tRC = 8  tRFC = 5  tRRD = 3  tCCD = 2
  tRTRS = 1  tWTR = 2  tRTP = 2  tWR = 3  tCMD = 1  tXP = 2  tCKE = 2
  BL = 8  AL = 0  CL = 3
  RefreshPeriod = 40
  EpochResets = FALSE
  MaxTrans = 3
SPECIFICATION Spec
INVARIANT NoFatalError
