SPECIFICATION RelentingSpec
CONSTANTS
  None = None
  ParamSets = {p1}
  Pictures = {1}
  QueueSize = 1
  Quirks <- Failing
  DownCap = 2
  UpCap = 1
  MaxSessions = 1
  MaxShots = None
  MaxLosses = 1
  MaxRebuilds = 0
  KfMinInterval = 1
  Flows = {}
  Pvs = {3}
  Ports = {}
  PingInterval = 1
  FirstPingAfter = 1
  LivenessTimeout = 1
  CursorAckTimeout = 0
  MinReceiverPv = 1
  UseCursorUdp = FALSE
  MaxSeq = 0
PROPERTY Recovers
CHECK_DEADLOCK FALSE
