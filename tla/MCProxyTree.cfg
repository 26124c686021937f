SPECIFICATION Spec
CONSTANTS
  NamePrefix <- MCPrefix
  Paths <- MCPaths
  Ifaces <- MCIfaces
  AgentPath <- MCAgent
  MaxSignals = 2
INVARIANTS DrainedTreeMirrorsBluez HeldStaysReachable UnderTrueParent
PROPERTIES NewProxiesAreAnnounced ChangeReachesProxy
CHECK_DEADLOCK FALSE
