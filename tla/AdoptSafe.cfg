SPECIFICATION AdoptionSpec
CONSTANTS
  None = None
  Rivals = {s1, s2}
  Probes = {probe}
  Conns = {1, 2, 3}
  MaxNaps = 1
  MaxCuts = 1
  MayStop = TRUE
  MayShut = TRUE
  PingInterval = 2
  FirstPingAfter = 1
  LivenessTimeout = 5
  KfMinInterval = 1
  Flows = {}
  Pvs = {3}
  Ports = {9001}
  ParamSets = {}
  MaxSeq = 0
INVARIANT OneServed
PROPERTIES ClosingReached LiveLeftAlone
CHECK_DEADLOCK FALSE
