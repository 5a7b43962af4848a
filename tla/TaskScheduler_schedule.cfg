\* Three days of three instants, three runs, one restart.
SPECIFICATION FairSpec
CONSTANTS
    MinutesPerDay = 3
    DefaultTime = 1
    MaxDay = 3
    MaxRuns = 3
    MaxBoots = 2
INVARIANTS OncePerDay OneRunAtATime NextRunIsNext
PROPERTY SlotGetsRun
