SPECIFICATION MCSpec
CONSTANTS
  t1 = t1
  t2 = t2
  Sender = {t1, t2}
  Packet <- AllPackets
  HeadSize = 2
  BufSize = 6
  SockBuf = 3
  MaxPackets = 2
  MaxUsbSessions = 2
  MaxUsbPackets = 2
  MaxEpResets = 2
  WireSize = 2
  Pieces = 1
  MaxReviews = 2
  MaxFaults = 1
INVARIANTS StreamIntact CheckedStream UsbSafe
PROPERTIES StreamMoves UsbComesBack
CHECK_DEADLOCK FALSE
