SPECIFICATION Spec
CONSTANTS
  server = server
  client = client
  p1 = p1
  p2 = p2
  Pids = {p1, p2}
  Nobody = Nobody
  NoPeer = NoPeer
  Local <- Ends
  Remote = {}
  Port <- OwnPort
  Seen <- LoopbackSeen
  Serves <- OnServer
  MaxSockets = 2
INVARIANTS KeepsOwner
SYMMETRY Symmetry
CHECK_DEADLOCK FALSE
