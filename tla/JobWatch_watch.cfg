\* Calls of wait_for_job with and without dialogs, or a page, on a job of either process.
SPECIFICATION Spec
CONSTANTS
  Waiters = {w1, w2, w3}
  CanElicit = {w1, w2}
  Scenes <- MCScenes
  AdminGroups = {"admins"}
  NoOne = NoOne
  NoUid = NoUid
  NotYet = 0
  MaxBytes = 2
  MaxPrompts = 2
  MaxFaults = 1
  MaxPolls = 2
SYMMETRY Calls
INVARIANTS NoMissedWakeup DialogsFitPrompts   HiddenJobsStayHidden
CHECK_DEADLOCK FALSE
