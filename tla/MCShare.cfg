SPECIFICATION ShareSpec
CONSTANTS
  d1 = d1 d2 = d2 p1 = p1 p2 = p2 pr1 = pr1 pr2 = pr2 pr3 = pr3
  Systems = {"sessions", "forwardings", "x11", "requests", "processes"}
  Downstreams = {d1, d2}
  Ports = {p1}
  MaxId = 2
  MaxRequests = 2
  MayRefuse = FALSE
  MayCancel = FALSE
  MayForward = TRUE
  MayX11 = FALSE
  MayQueue = FALSE
  MayLater = FALSE
  MayDisconnect = FALSE
  Processes = {pr1, pr2, pr3}
  CanUpstream = {pr1, pr2, pr3}
  CanDownstream = {pr1, pr2, pr3}
  MayEnd = TRUE
  MayCrash = TRUE
INVARIANTS ChannelsApart UpstreamFound
SYMMETRY Symmetry
CHECK_DEADLOCK FALSE
