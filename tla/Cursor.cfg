SPECIFICATION CursorSpec
CONSTANTS
  None = None
  MaxSeq = 3
  MaxSessions = 2
  MaxHellos = 1
  MaxLost = 1
  MaxCopies = 1
  MaxLate = 1
  MaxTicks = 1
  Networks = {TRUE, FALSE}
  Flows <- SessionFlows
  Pvs = {3}
  Ports = {9001}
  ParamSets = {}
  PingInterval = 1
  FirstPingAfter = 1
  LivenessTimeout = 1
  KfMinInterval = 1
  CursorAckTimeout = 0
  MinReceiverPv = 1
  UseCursorUdp = TRUE
INVARIANT HonestAck
PROPERTIES NeverBackOnAFlow PointerFollows
CHECK_DEADLOCK FALSE
