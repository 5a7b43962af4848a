SPECIFICATION Spec
CONSTANTS
  req1 = req1
  req2 = req2
  cli = cli
  app = app
  web = web
  Actors = {req1, req2, cli}
  ProcOf <- MCProcOf
  Web = web
  GuestNames = {app}
  Databases <- MCDatabases
  Requests <- MCRequests
  Env <- MCEnv
  EnvFile <- MCEnvFile
  GroupsOfAdmin = {"authentik Admins"}
  Ladders <- MCLadders
  Unset = "unset"
  Invalid = "invalid"
  MaxRequests = 2
  MaxFaults = 2
INVARIANT MigrationsKeepMeaning
INVARIANT NoLockout
CHECK_DEADLOCK FALSE
