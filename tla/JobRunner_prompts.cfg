\* A watched job after a row of an older version, and two requests from the
\* other process, so that an answer races a cancel.
SPECIFICATION Spec
CONSTANTS
    Web = web
    NoOwner = NoOwner
    Procs = {web, m1}
    MaxJobs = 2
    Legacy = {1}
    Watched = {2}
    MaxRequests = 2
    ReusedPids = {m1}
INVARIANTS AwaitingHasDeadline SpokenExecIsWatched
