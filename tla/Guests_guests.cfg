SPECIFICATION Spec
CONSTANTS
  h1 = h1
  h2 = h2
  app = app
  vpn = vpn
  idp = idp
  box = box
  runner = runner
  request = request
  mcp = mcp
  x = x
  y = y
  Hosts = {h1, h2}
  Mids = {1, 2}
  OffScheme = {}
  ManagedLogin = TRUE
  Invalid = Invalid
  Actors = {runner, request, mcp}
  ProcOf <- MCProcOf
  Requests <- MCRequests
  Starts <- MCStarts
  BackupHosts = {h1, h2}
  ForwardAuth = TRUE
  MaxJobs = 3
  MaxFaults = 2
INVARIANT NeverTwice
 
 
 
CHECK_DEADLOCK FALSE
