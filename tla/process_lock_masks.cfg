SPECIFICATION SyncSpec
CONSTANTS
  NoSocket = NoSocket
  Addresses = {}
  MaxListeners = 0
  MaxTries = 1
  Sockets = {}
  p1 = p1
  p2 = p2
  p3 = p3
  t1 = t1
  t2 = t2
  t3 = t3
  sigusr2 = sigusr2
  sigterm = sigterm
  NoProc = NoProc
  Unsaved = Unsaved
  NULL = NULL
  Signals = {sigusr2, sigterm}
  sig_block_mask = {sigusr2}
  Threads = {t1, t2, t3}
  count = 2
  PipeSize = 2
  NOTICE_BUFF_SIZE = 1
  Parts = {"mutex"}
  Procs = {p1, p2}
  HomeMask <- OwnMask
  Calls = {}
INVARIANTS
  SignalsRecovered
CHECK_DEADLOCK FALSE
