SPECIFICATION ProgressSpec
CONSTANTS
  None = None
  Plans = {p, q}
  Unfit = Unfit
  Settling = 1
  LossWindow = 1
  MaxLosses = 2
  MaxHellos = 2
  MaxBuilds = 4
  Values = {1, 2}
  Senders = {s1, s2}
  Tools = {t1}
  MayCrash = TRUE
  MaxBuffers = 2
  MaxFailures = 2
  OutputSizes = {1}
  MaxResizes = 1
  SinkKinds = {"wayland", "gnome", "kde"}
  MaxSinks = 2
  MaxQueued = 2
  MaxHeard = 2
  Rivals = {s1, s2, s3}
  Probes = {}
  Conns = {1, 2, 3, 4}
  MaxNaps = 0
  MaxCuts = 0
  MayStop = FALSE
  MayShut = FALSE
  PingInterval = 2
  FirstPingAfter = 1
  LivenessTimeout = 5
  KfMinInterval = 1
  Flows = {}
  Pvs = {3}
  Ports = {9001}
  ParamSets = {}
  MaxSeq = 0
PROPERTIES
  DisplayFollows NewestWins NothingForgotten LockFinds
  CapturesEnd TouchEnds SettlesAlone
CHECK_DEADLOCK FALSE
