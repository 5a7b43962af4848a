\* Two clients, two consents that may be posted twice, their sign-ins and grants, a request at a time.
SPECIFICATION Spec
CONSTANTS
  Clients = {c1,c2}
  Consents = {p1, p2}
  SignIns = {n1, n2}
  Requests = {r1}
  Hosted = {h1}
  MaxGrants = 2
  MaxRotations = 1
  MaxCrashes = 1
  MaxTime = 2
  PendingTtl = 1
  CodeTtl = 1
  AccessTtl = 1
  UnusedClientTtl = 1
  SessionMaxAge = 2
  SessionIdle = 1
SYMMETRY Alike
INVARIANTS GrantsAreConsented GrantAndSignInEndTogether
 
CHECK_DEADLOCK FALSE
