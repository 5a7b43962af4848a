\* One session, two requests of its browser, two bounded events.
SPECIFICATION Spec
CONSTANTS
    Sids = {s1}
    Requests = {r1, r2}
    Groups = {g1, g2}
    Deactivated = Deactivated
    NoCheck = NoCheck
    SessionMaxAge = 4
    AttemptMaxAge = 2
    CheckInterval = 2
    CheckRetry = 1
    MaxTime = 4
    MaxEvents = 2
INVARIANTS TokenIsCurrent
PROPERTIES  AnsweredWhileSignedIn 
