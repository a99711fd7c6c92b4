SPECIFICATION ComponentsSpec
CONSTANTS
  None = None
  ParamSets = {p1, p2}
  Flows = {f1, f2}
  Pvs = {1, 3}
  Ports = {9001, 70000}
  PingInterval = 1
  FirstPingAfter = 1
  LivenessTimeout = 2
  CursorAckTimeout = 2
  KfMinInterval = 1
  MinReceiverPv = 2
  UseCursorUdp = TRUE
  MaxSeq = 2
  Positions = {a, b}
  Repaints = {TRUE}
  MaxEvents = 3
  NalKinds = {"aud", "sei", "spsA", "spsB", "pps", "idr", "idrNext", "p", "pNext"}
  MaxNals = 3
  Codes = {3, 4, 5}
  MaxPayload = 3
  ControlMaxLen = 3
  MaxFrames = 2
  MaxConns = 2
  Panels = {1, 5, 8}
  Limits = {4, 6}
  BlockSize = 4
  MaxBlocks = 3
  MaxBlockRate = 7
  MaxAxis = 8
  DefaultFps = 2
  FpsRange = {1, 3}
  MaxReceivers = 2
  Timeout = 2
  SettleTime = 1
  MaxPeers = 1
  MaxWait = 2
  LeaseLimit = 4
  Kinds = {"sway", "hyprland"}
  Drivers = {s1, s2}
  Displays = {d1}
  MaxRuns = 2
  MaxMade = 2
  Kdes = {k1}
  KdeWidths = {1, 2}
  KdeSides = {"left", "right"}
  Gnomes = {g1, g2}
  Connectors = {c1, c2}
  MaxSettings = 1
  CursorSpots = {a}
  Shapes = {c, w}
  WideShapes = {w}
  MaxEmpty = 1
  MaxSprites = 1
  Plans = {p, q}
  Unfit = Unfit
  Settling = 1
  LossWindow = 1
  MaxLosses = 2
  MaxHellos = 3
  MaxBuilds = 5
  Senders = {s1, s2, s3}
  Tools = {t1}
  MayCrash = TRUE
  MaxBuffers = 2
  MaxFailures = 2
  OutputSizes = {1, 2}
  MaxResizes = 1
  Decoders = {1, 2}
  Patience = 2
  MaxDoublings = 0
  TickEvery = 1
  Prompt = 1
  MayNotBuild = TRUE
  MaxSleeps = 3
  Registries = {{"ext", "source", "wlr", "pointer", "outman"}, {"wlr", "pointer", "outman"}, {"ext", "source", "pointer"}, {"ext", "pointer"}, {"screencast", "fake"}, {"screencastOld", "fake"}, {}}
  Features = {"kde", "gnome"}
INVARIANTS
  ComponentsTypeOK DecoderEntry PlanKept PointerKept LockKept
  BytesArrive DecisionsFit RightReceiver
  NewestKept BuffersApart MovedBack SleepIsSaid
PROPERTIES
  CursorOfferKept OutputsKept DesktopAsItWas PointerIsTrue
CHECK_DEADLOCK FALSE
