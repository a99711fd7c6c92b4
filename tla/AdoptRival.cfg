SPECIFICATION AdoptionSpec
CONSTANTS
  None = None
  Rivals = {s1, s2}
  Probes = {}
  Conns = {1, 2, 3}
  MaxNaps = 0
  MaxCuts = 0
  MayStop = FALSE
  MayShut = FALSE
  PingInterval = 2
  FirstPingAfter = 1
  LivenessTimeout = 5
  KfMinInterval = 1
  Flows = {}
  Pvs = {3}
  Ports = {9001}
  ParamSets = {}
  MaxSeq = 0
PROPERTIES DrivenLeftAlone
CHECK_DEADLOCK FALSE
