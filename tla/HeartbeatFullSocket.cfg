SPECIFICATION HeartbeatSpec
CONSTANTS
  None = None
  DownCap = 3
  UpCap = 6
  MaxDelay = 1
  BuildTime = 0
  Loads = {"video"}
  PingInterval = 2
  FirstPingAfter = 1
  LivenessTimeout = 5
  KfMinInterval = 1
  Flows = {}
  Pvs = {3}
  Ports = {}
  ParamSets = {}
  CursorAckTimeout = 1
  MinReceiverPv = 1
  UseCursorUdp = FALSE
  MaxSeq = 0
PROPERTY SenderNotices
CHECK_DEADLOCK FALSE
