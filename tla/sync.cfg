SPECIFICATION IoSpec
CONSTANTS
  p1 = p1
  p2 = p2
  p3 = p3
  t1 = t1
  t2 = t2
  t3 = t3
  sigusr2 = sigusr2
  sigterm = sigterm
  NoProc = NoProc
  Unsaved = Unsaved
  NULL = NULL
  Signals = {sigusr2, sigterm}
  sig_block_mask = {sigusr2}
  Threads = {t1, t2, t3}
  count = 2
  PipeSize = 2
  NOTICE_BUFF_SIZE = 1
  Parts = {"mutex", "rwlock", "mblks", "notice", "output", "input", "listening"}
  Procs = {p1, p2, p3}
  HomeMask <- SameMask3
  Calls = {"try_on", "release", "crash"}
  Limits = {0, 1, 2}
  FAST_MAX_LIMIT = 3
  FAST_IOVS_MAX = 2
  AppendSizes = {1, 2}
  EmptyBeforeFile = FALSE
  MaxBytes = 5
  MaxLinks = 5
  CHAIN_ERROR = CHAIN_ERROR
  FAST_IOVS_REV = 3
  MaxRead = 7
  Addresses = {a1, a2}
  MaxListeners = 2
  MaxTries = 5
  Sockets = {s1, s2, s3}
  NoSocket = NoSocket
INVARIANTS
  MutualExclusion
  HolderProtected
  WriterAlone
  ReadersProtected
  StreamsInOrder
  ListenersTrue
PROPERTIES
  BlocksLent
  WokenUp
  OutputTrue
CHECK_DEADLOCK FALSE
