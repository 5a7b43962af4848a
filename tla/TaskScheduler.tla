--------------------------- MODULE TaskScheduler ---------------------------
(***************************************************************************)
(* The daily task of the web service: web/tasks/scheduler.ts, its row in   *)
(* task_schedules (lib/task-schedules.ts), the routes of                   *)
(* web/routes/tasks.ts and the start-up order of web/server.ts.            *)
(*                                                                         *)
(* An instant is a local day and a minute of it, the two things slots are  *)
(* built from with new Date(y, m, d, hh, mm).  The registry holds one      *)
(* task, so its id is left out.  The scheduler runs in one Node process:   *)
(* a tick and a request are each one step, except that the clock may move  *)
(* between the two times a tick reads it.                                  *)
(***************************************************************************)
EXTENDS Naturals, Sequences

CONSTANTS
    MinutesPerDay,  \* the instants of a day that are told apart
    DefaultTime,    \* TaskDefinition.defaultTime
    MaxDay,         \* bound: the clock stops on this day
    MaxRuns,        \* bound: the runs ever started
    MaxBoots        \* bound: the starts of the service

Minutes == 0 .. MinutesPerDay - 1

ASSUME TimeAssumption ==
    MinutesPerDay \in Nat \ {0} /\ DefaultTime \in Minutes

ASSUME BoundAssumption ==
    MaxDay \in Nat /\ MaxRuns \in Nat /\ MaxBoots \in Nat

VARIABLES
    now,    \* the clock
    row,    \* the task_schedules row; a missing one reads as the defaults
    mem,    \* startedRuns: the last run this process started
    boots,  \* starts of the service so far
    up,     \* whether the service runs
    runs    \* the task's rows in the job store, by job id

vars == <<now, row, mem, boots, up, runs>>

Instant == [day : Nat, minute : Minutes]

\* A StartedRun, or the two run columns of the row; job 0 stands for null.
StartedRun == [at : Instant, job : Nat]
NeverRun == [at |-> [day |-> 0, minute |-> 0], job |-> 0]

\* A run's job: when it was started and by whom, whether it is still queued,
\* running or waiting for input, and two facts no code reads: the boot that
\* started it and whether recordTaskRun saved it.
Run == [at : Instant, by : {"scheduler", "admin"}, active : BOOLEAN,
        boot : Nat, recorded : BOOLEAN]

TypeOK ==
    /\ now \in Instant
    /\ row \in [tod : Minutes, enabled : BOOLEAN, last : StartedRun]
    /\ mem \in StartedRun
    /\ boots \in Nat
    /\ up \in BOOLEAN
    /\ runs \in Seq(Run)
    /\ row.last.job <= Len(runs) /\ mem.job <= Len(runs)

Init ==
    /\ now \in [day : {1}, minute : Minutes]
    /\ row = [tod |-> DefaultTime, enabled |-> TRUE, last |-> NeverRun]
    /\ mem = NeverRun
    /\ boots = 0
    /\ up = FALSE
    /\ runs = <<>>

-----------------------------------------------------------------------------
(* Slots. *)

Before(a, b) == a.day < b.day \/ (a.day = b.day /\ a.minute < b.minute)

\* The instant after t; a day has exactly one of each minute.
Later(t) ==
    IF t.minute + 1 \in Minutes
    THEN [t EXCEPT !.minute = @ + 1]
    ELSE [day |-> t.day + 1, minute |-> 0]

slotOn(t, tod, offset) == [day |-> t.day + offset, minute |-> tod]

\* Today's slot if it has come (inclusive), else yesterday's.
mostRecentSlot(t, tod) ==
    IF ~Before(t, slotOn(t, tod, 0))
    THEN slotOn(t, tod, 0)
    ELSE [day |-> t.day - 1, minute |-> tod]

\* The first slot strictly after t.
nextSlot(t, tod) ==
    IF Before(t, slotOn(t, tod, 0)) THEN slotOn(t, tod, 0) ELSE slotOn(t, tod, 1)

\* Mutant: without the rule about the calendar day.
slotIsDue_AnyLater(slot, last) == last.job = 0 \/ Before(last.at, slot)

\* The slot is owed a run: it came after the last start, and that start was
\* on an earlier day.
slotIsDue(slot, last) ==
    last.job = 0 \/ (Before(last.at, slot) /\ last.at.day < slot.day)

-----------------------------------------------------------------------------
(* Reading the schedule. *)

\* The last start: the row's, or this process's own when that one is newer
\* or the row has none (its record may have failed to save).
loadSchedules ==
    IF mem.job # 0 /\ (row.last.job = 0 \/ Before(row.last.at, mem.at))
    THEN mem
    ELSE row.last

\* Mutant: no run counts as active.
activeJobId_Never(last, jobs) == 0

\* The last job while its row is not final, else 0 (null).
activeJobId(last, jobs) ==
    IF last.job # 0 /\ jobs[last.job].active THEN last.job ELSE 0

\* Mutant: nextRun is the next slot, whatever that slot is owed.
nextRun_NoSkip(t) == nextSlot(t, row.tod)

\* The nextRun that GET /api/tasks reports at t while the task is enabled.
nextRun(t) ==
    LET last == loadSchedules
        after == IF last.job # 0 /\ Before(t, last.at) THEN last.at ELSE t
        skip[slot \in Instant] ==
            IF slotIsDue(slot, last) THEN slot ELSE skip[nextSlot(slot, row.tod)]
    IN skip[nextSlot(after, row.tod)]

-----------------------------------------------------------------------------
(* Starting a run. *)

\* Only the run columns; a row that was missing reads as before otherwise.
recordTaskRun(run) == row' = [row EXCEPT !.last = run]

\* startRun at t over the job store jobs: enqueue, remember, then record,
\* which may fail and is then only logged.  Two runs never start in the same
\* millisecond: a run is refused until the last one is over.
startRun(t, jobs, by) ==
    \E recorded \in BOOLEAN :
        LET run == [at |-> t, job |-> Len(jobs) + 1]
        IN  /\ Len(jobs) < MaxRuns
            /\ \A j \in DOMAIN jobs : jobs[j].at # t
            /\ activeJobId(loadSchedules, jobs) = 0
            /\ runs' = Append(jobs, [at |-> t, by |-> by, active |-> TRUE,
                                     boot |-> boots', recorded |-> recorded])
            /\ mem' = run
            /\ IF recorded THEN recordTaskRun(run) ELSE UNCHANGED row

\* tick's condition at the instant t.
dueAt(t) == row.enabled /\ slotIsDue(mostRecentSlot(t, row.tod), loadSchedules)

\* A tick that finds its slot due and no run active.  The start is stamped
\* by a second reading of the clock.
tick(jobs) ==
    \E t \in {now, Later(now)} :
        /\ dueAt(now)
        /\ startRun(t, jobs, "scheduler")
        /\ now' = t

\* A tick that starts nothing.
idleTick(jobs) ==
    /\ ~dueAt(now) \/ activeJobId(loadSchedules, jobs) # 0
    /\ runs' = jobs
    /\ UNCHANGED <<now, row, mem>>

-----------------------------------------------------------------------------
(* The steps of the service. *)

\* reconcileOrphanedJobs: a dead process's jobs become interrupted.
Reconciled(jobs) == [j \in DOMAIN jobs |-> [jobs[j] EXCEPT !.active = FALSE]]

\* Mutant: the scheduler starts before the orphaned rows are closed.
Boot_NotReconciled ==
    /\ ~up
    /\ boots < MaxBoots
    /\ up' = TRUE
    /\ boots' = boots + 1
    /\ tick(runs) \/ idleTick(runs)

\* The service starts: orphaned jobs are closed, and start() ticks at once.
Boot ==
    /\ ~up
    /\ boots < MaxBoots
    /\ up' = TRUE
    /\ boots' = boots + 1
    /\ tick(Reconciled(runs)) \/ idleTick(Reconciled(runs))

\* The minute ticker fires.  (When it starts nothing, nothing changes.)
Tick == up /\ UNCHANGED <<up, boots>> /\ tick(runs)

\* POST /api/tasks/:id/run, whether or not the task is enabled.  Refused
\* with 409 while a run is active.
RunNow ==
    /\ up
    /\ UNCHANGED <<up, boots, now>>
    /\ startRun(now, runs, "admin")

\* The times a PATCH may carry: the valid ones and one past the end.
Times == 0 .. MinutesPerDay
isValidTimeOfDay(tod) == tod \in Minutes

\* Only the schedule columns.
saveTaskSchedule(tod, enabled) ==
    row' = [row EXCEPT !.tod = tod, !.enabled = enabled]

\* PATCH /api/tasks/:id: the given fields over the current ones, the run
\* columns left alone.  A malformed time is refused with 400.
UpdateSchedule(tod, enabled) ==
    /\ up
    /\ isValidTimeOfDay(tod)
    /\ saveTaskSchedule(tod, enabled)
    /\ UNCHANGED <<now, mem, boots, up, runs>>

\* The job runner finishes a run of its own process, in whatever way.
JobEnds(j) ==
    /\ up
    /\ runs[j].active /\ runs[j].boot = boots
    /\ runs' = [runs EXCEPT ![j].active = FALSE]
    /\ UNCHANGED <<now, row, mem, boots, up>>

\* The service dies; startedRuns goes with it.  (The bounds leave it one more
\* start, and that start one more run.)
Crash ==
    /\ up
    /\ boots < MaxBoots /\ Len(runs) < MaxRuns
    /\ up' = FALSE
    /\ mem' = NeverRun
    /\ UNCHANGED <<now, row, boots, runs>>

ClockAdvances ==
    /\ Later(now).day <= MaxDay
    /\ now' = Later(now)
    /\ UNCHANGED <<row, mem, boots, up, runs>>

Next ==
    \/ Boot \/ Tick \/ RunNow \/ Crash \/ ClockAdvances
    \/ \E tod \in Times, enabled \in BOOLEAN : UpdateSchedule(tod, enabled)
    \/ \E j \in DOMAIN runs : JobEnds(j)

Spec == Init /\ [][Next]_vars

\* systemd restarts the service, the interval timer keeps firing, and a run
\* of the task returns (each of its guests is checked under a time limit).
Fairness ==
    /\ WF_vars(Boot) /\ WF_vars(Tick)
    /\ \A j \in 1 .. MaxRuns : WF_vars(j \in DOMAIN runs /\ JobEnds(j))

FairSpec == Spec /\ Fairness

-----------------------------------------------------------------------------
(* Properties. *)

\* The schedule starts no run on a day that already had one, whoever started
\* it, however the time was moved and however often the service restarted
\* (spec 061: "once a run has started on a day (scheduled or Run now), no
\* scheduled run starts again until the next day's slot").  The one start
\* that does not count is one whose record failed to save before the process
\* that knew of it died.
OncePerDay ==
    \A j, k \in DOMAIN runs :
        (j < k /\ runs[k].by = "scheduler" /\ runs[j].at.day = runs[k].at.day)
            => ~runs[j].recorded /\ runs[j].boot # runs[k].boot

\* FR-004: a task has no two runs in progress at once, scheduled or by hand,
\* even when a start could not be recorded.
OneRunAtATime ==
    \A j, k \in DOMAIN runs : runs[j].active /\ runs[k].active => j = k

\* GET /api/tasks tells the truth: unless the most recent slot is owed a run
\* already, no tick before the reported nextRun finds one due, and the first
\* tick from then on does.
NextRunIsNext ==
    (up /\ row.enabled /\ ~dueAt(now)) =>
        LET next == nextRun(now)
        IN  /\ Before(now, next)
            /\ dueAt(next)
            /\ \A t \in [day : now.day .. next.day, minute : Minutes] :
                Before(now, t) /\ Before(t, next) => ~dueAt(t)

\* FR-003: a slot that is owed a run gets one, also when it passed during an
\* outage, unless the task is disabled or its time moved (and as long as the
\* bound on runs leaves one to start).
SlotGetsRun ==
    (dueAt(now) /\ Len(runs) < MaxRuns) ~> ~dueAt(now)
============================================================================
