SPECIFICATION HeartbeatSpec
CONSTANTS
  None = None
  DownCap = 4
  UpCap = 7
  MaxDelay = 1
  BuildTime = 6
  Loads = {"video", "input"}
  PingInterval = 2
  FirstPingAfter = 1
  LivenessTimeout = 5
  KfMinInterval = 1
  Flows = {}
  Pvs = {3}
  Ports = {}
  ParamSets = {}
  CursorAckTimeout = 1
  MinReceiverPv = 1
  UseCursorUdp = FALSE
  MaxSeq = 0
INVARIANTS NoFalseTimeout 
PROPERTY LossIsNoticed
CHECK_DEADLOCK FALSE
