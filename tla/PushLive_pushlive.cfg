SPECIFICATION Spec
CONSTANTS
  e1 = e1
  e2 = e2
  a = a
  b = b
  c = c
  d = d
  site = site
  p1 = p1
  p2 = p2
  Order <- MCOrder
  Inventories <- MCInventories
  Setups <- MCSetups
  CaddyStarts <- MCCaddyStarts
  Adapted <- MCAdapted
  NpmStarts <- MCNpmStarts
  HandNames = {b}
  Paths <- MCPaths
  Pushers = {p1, p2}
  MaxEdits = 1
  MaxTouches = 1
  MaxPushes = 2
  MaxFaults = 1
SYMMETRY Symmetry
INVARIANT PushConverges
INVARIANT ArtifactsMoveTogether
PROPERTY ForeignKept
CHECK_DEADLOCK FALSE
