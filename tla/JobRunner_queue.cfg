\* Two processes, two plain jobs and two control requests, under the fairness
\* of the event loop.
SPECIFICATION FairSpec
CONSTANTS
    Web = web
    NoOwner = NoOwner
    Procs = {web, m1}
    MaxJobs = 2
    Legacy = {}
    Watched = {}
    MaxRequests = 2
    ReusedPids = {}
 
PROPERTIES NeverInterruptsLiveJob  
