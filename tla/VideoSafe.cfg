SPECIFICATION LinkSafety
CONSTANTS
  None = None
  ParamSets = {p1, p2}
  Pictures = {1}
  QueueSize = 1
  Quirks <- SomeQuirks
  DownCap = 2
  UpCap = 1
  MaxSessions = 2
  MaxShots = 1
  MaxLosses = 1
  MaxRebuilds = 1
  KfMinInterval = 1
  Flows = {}
  Pvs = {3}
  Ports = {}
  PingInterval = 1
  FirstPingAfter = 1
  LivenessTimeout = 1
  CursorAckTimeout = 0
  MinReceiverPv = 1
  UseCursorUdp = FALSE
  MaxSeq = 0
INVARIANTS PipelineTypeOK ReferenceChain OwedIdrIsComing HandshakeOrder
CHECK_DEADLOCK FALSE
