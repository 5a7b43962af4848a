----------------------------- MODULE JobRunner -----------------------------
(***************************************************************************)
(* The job queue of Bellhop: one JobRunner per process (the web service    *)
(* and each stdio MCP server), all of them sharing one SQLite file, the    *)
(* JobStore.  A job belongs to the process that enqueued it; the others    *)
(* control it through rows of job_control_requests which the owner polls.  *)
(*                                                                         *)
(* JavaScript runs one callback at a time, so every callback of a process  *)
(* is one action, except where it makes several database statements whose  *)
(* gap another process can use: the SELECT and the UPDATEs of              *)
(* interruptOrphaned, the status check and the INSERT of                   *)
(* requestJobControl, and the rows of one processControlRequests pass.     *)
(* Between two such steps the process itself does nothing else (Free).     *)
(*                                                                         *)
(* The prompt watcher of an install-app job (JobSSHClient) is part of the  *)
(* module, because its timers call back into the runner.                   *)
(***************************************************************************)
EXTENDS Naturals, Sequences, FiniteSets

CONSTANTS
    Procs,       \* the processes: the web service and the MCP servers
    Web,         \* the web service, whose owner string carries no pid
    NoOwner,     \* the NULL owner column of a row older than that column
    MaxJobs,     \* bound: rows the jobs table may reach
    Legacy,      \* rows an earlier version left behind, with a NULL owner
    Watched,     \* jobs with def.watchForPrompts (install-app)
    MaxRequests, \* bound: rows job_control_requests may reach
    ReusedPids   \* MCP servers whose pid the kernel gives away once they exit

Jobs == 1..MaxJobs
RequestIds == 1..MaxRequests

ASSUME ProcAssumption == Web \in Procs /\ NoOwner \notin Procs
ASSUME BoundAssumption == MaxJobs \in Nat \ {0} /\ MaxRequests \in Nat
ASSUME JobSetAssumption == Legacy \subseteq Jobs /\ Watched \subseteq Jobs
ASSUME PidAssumption == ReusedPids \subseteq Procs \ {Web}

ActiveStatus == {"queued", "running", "awaiting_input"}
TerminalStatus == {"success", "failed", "cancelled", "interrupted"}
JobStatus == ActiveStatus \union TerminalStatus
ControlAction == {"cancel", "answer", "dismiss"}
PromptOrigin == {"expected", "heuristic", "stall"}

\* A row of job_control_requests; "unused" is an id not inserted yet.
ControlRequestRow ==
    [job : Jobs, action : ControlAction, text : BOOLEAN,
     result : {"unused", "pending", "applied", "not-applicable"}]

VARIABLES
    \* The shared database.
    status,         \* jobs.status, "none" for an id not inserted yet
    owner,          \* jobs.owner
    promptText,     \* jobs whose prompt_text (and origin, index) is not NULL
    requests,       \* the table job_control_requests
    \* Each process.
    proc,           \* its life: see ProcState
    candidates,     \* rows its interruptOrphaned has selected
    asking,         \* the request its requestJobControl has checked
    batch,          \* request ids its processControlRequests pass still has
    queue,          \* the chain of execute() calls
    poller,         \* processes whose controlPollTimer runs
    \* Each job, in the memory of the process that owns it.
    controllers,    \* "none", or whether its AbortController has aborted
    started,        \* jobs whose execute() has begun
    pendingPrompts, \* "none", or the state of the channel write() goes to
    abandonTimers,  \* jobs whose timer in the abandonTimers map is running
    leakedTimers,   \* jobs with a running timer the map no longer holds
    execs,          \* jobs with an exec() in flight
    spoken,         \* execs that have printed meaningful output
    pausedOrigin,   \* JobSSHClient.paused and pausedOrigin
    pendingCheck    \* the armed tier, 1..3, or 0

storeVars == <<status, owner, promptText, requests>>
procVars == <<proc, candidates, asking, batch>>
runnerVars == <<queue, poller, controllers, started>>
promptVars == <<pendingPrompts, abandonTimers, leakedTimers>>
watchVars == <<execs, spoken, pausedOrigin, pendingCheck>>
vars == <<storeVars, procVars, runnerVars, promptVars, watchVars>>

\* "starting" and "sweeping" are inside interruptOrphaned, at boot and at
\* shutdown; "closing" waits for aborted jobs, "closed" is about to exit.
ProcState == {"down", "starting", "up", "closing", "sweeping", "closed"}

TypeOK ==
    /\ status \in [Jobs -> JobStatus \union {"none"}]
    /\ owner \in [Jobs -> Procs \union {NoOwner}]
    /\ promptText \subseteq Jobs
    /\ requests \in [RequestIds -> ControlRequestRow]
    /\ proc \in [Procs -> ProcState]
    /\ candidates \in [Procs -> SUBSET Jobs]
    /\ asking \in [Procs -> SUBSET [job : Jobs, action : ControlAction]]
    /\ batch \in [Procs -> SUBSET RequestIds]
    /\ queue \in [Procs -> Seq(Jobs)]
    /\ poller \subseteq Procs
    /\ controllers \in [Jobs -> {"none", "live", "aborted"}]
    /\ started \subseteq Jobs
    /\ pendingPrompts \in [Jobs -> {"none", "open", "closed"}]
    /\ abandonTimers \subseteq Jobs
    /\ leakedTimers \subseteq Jobs
    /\ execs \subseteq Jobs
    /\ spoken \subseteq Jobs
    /\ pausedOrigin \in [Jobs -> PromptOrigin \union {"none"}]
    /\ pendingCheck \in [Jobs -> 0..3]

-----------------------------------------------------------------------------
\* `job.owner ?? 'web'`
OwnerOf(j) == IF owner[j] = NoOwner THEN Web ELSE owner[j]

JobsOf(p) == {j \in Jobs : OwnerOf(j) = p}

\* Mutant: EPERM, a process of another user, is taken for a dead one.
isPidAlive_EpermIsDead(p) == FALSE

\* process.kill(pid, 0): true for a stranger that got the pid, too.
isPidAlive(p) == proc[p] # "down" \/ p \in ReusedPids

\* Only 'mcp:<pid>' owners carry a pid to check.
OwnerIsDead(j) == OwnerOf(j) # Web /\ ~isPidAlive(OwnerOf(j))

\* Mutant: any MCP server's row is an orphan, alive or not.
isOrphanFor_AnyMcp(j, p) == OwnerOf(j) = p \/ OwnerOf(j) # Web

isOrphanFor(j, p) == OwnerOf(j) = p \/ OwnerIsDead(j)

\* The process can run its next callback.
Free(p) ==
    /\ proc[p] \in {"up", "closing", "closed"}
    /\ asking[p] = {}
    /\ batch[p] = {}

Handled(row, result) ==
    [job |-> row.job, action |-> row.action, text |-> FALSE, result |-> result]

\* Mutant: the sweep forgets `handled_at IS NULL`.
closeStaleControlRequests_All(st) ==
    [i \in RequestIds |->
        IF requests[i].result # "unused" /\ st[requests[i].job] \in TerminalStatus
        THEN Handled(requests[i], "not-applicable")
        ELSE requests[i]]

\* The table after closeStaleControlRequests, with the jobs' statuses st.
closeStaleControlRequests(st) ==
    [i \in RequestIds |->
        IF /\ requests[i].result = "pending"
           /\ \/ st[requests[i].job] \in TerminalStatus
              \/ OwnerIsDead(requests[i].job)
        THEN Handled(requests[i], "not-applicable")
        ELSE requests[i]]

actionApplies(st, action) ==
    IF action = "cancel" THEN st \in ActiveStatus ELSE st = "awaiting_input"

-----------------------------------------------------------------------------
Init ==
    /\ status \in [Jobs -> ActiveStatus \union {"none"}]
    /\ \A j \in Jobs : status[j] = "none" <=> j \notin Legacy
    /\ owner = [j \in Jobs |-> NoOwner]
    /\ promptText = {j \in Jobs : status[j] = "awaiting_input"}
    /\ requests = [i \in RequestIds |-> [job |-> 1, action |-> "cancel",
                                         text |-> FALSE, result |-> "unused"]]
    /\ proc = [p \in Procs |-> "down"]
    /\ candidates = [p \in Procs |-> {}]
    /\ asking = [p \in Procs |-> {}]
    /\ batch = [p \in Procs |-> {}]
    /\ queue = [p \in Procs |-> <<>>]
    /\ poller = {}
    /\ controllers = [j \in Jobs |-> "none"]
    /\ started = {}
    /\ pendingPrompts = [j \in Jobs |-> "none"]
    /\ abandonTimers = {}
    /\ leakedTimers = {}
    /\ execs = {}
    /\ spoken = {}
    /\ pausedOrigin = [j \in Jobs |-> "none"]
    /\ pendingCheck = [j \in Jobs |-> 0]

-----------------------------------------------------------------------------
(* Life of a process. *)

\* Boot: the SELECT of interruptOrphaned.
Boot(p) ==
    /\ proc[p] = "down"
    /\ proc' = [proc EXCEPT ![p] = "starting"]
    /\ candidates' = [candidates EXCEPT ![p] =
                        {j \in Jobs : status[j] \in ActiveStatus}]
    /\ UNCHANGED <<storeVars, asking, batch, runnerVars, promptVars, watchVars>>

\* The rest of reconcileOrphanedJobs: the UPDATEs name the selected ids and
\* do not look at the status again; then the control requests are swept.
Reconcile(p) ==
    /\ proc[p] \in {"starting", "sweeping"}
    /\ LET orphaned == {j \in candidates[p] : isOrphanFor(j, p)} IN
       /\ status' = [j \in Jobs |-> IF j \in orphaned THEN "interrupted"
                                                      ELSE status[j]]
       /\ promptText' = promptText \ orphaned
    /\ requests' = closeStaleControlRequests(status')
    /\ proc' = [proc EXCEPT ![p] = IF @ = "starting" THEN "up" ELSE "closed"]
    /\ candidates' = [candidates EXCEPT ![p] = {}]
    /\ UNCHANGED <<owner, asking, batch, runnerVars, promptVars, watchVars>>

\* A crash, a kill or the final process.exit: memory goes, the store stays.
Exit(p) ==
    /\ proc[p] # "down"
    /\ proc' = [proc EXCEPT ![p] = "down"]
    /\ candidates' = [candidates EXCEPT ![p] = {}]
    /\ asking' = [asking EXCEPT ![p] = {}]
    /\ batch' = [batch EXCEPT ![p] = {}]
    /\ queue' = [queue EXCEPT ![p] = <<>>]
    /\ poller' = poller \ {p}
    /\ controllers' = [j \in Jobs |-> IF j \in JobsOf(p) THEN "none"
                                                        ELSE controllers[j]]
    /\ started' = started \ JobsOf(p)
    /\ pendingPrompts' = [j \in Jobs |-> IF j \in JobsOf(p) THEN "none"
                                                      ELSE pendingPrompts[j]]
    /\ abandonTimers' = abandonTimers \ JobsOf(p)
    /\ leakedTimers' = leakedTimers \ JobsOf(p)
    /\ execs' = execs \ JobsOf(p)
    /\ spoken' = spoken \ JobsOf(p)
    /\ pausedOrigin' = [j \in Jobs |-> IF j \in JobsOf(p) THEN "none"
                                                         ELSE pausedOrigin[j]]
    /\ pendingCheck' = [j \in Jobs |-> IF j \in JobsOf(p) THEN 0
                                                         ELSE pendingCheck[j]]
    /\ UNCHANGED storeVars

-----------------------------------------------------------------------------
(* The queue. *)

enqueue(p) ==
    /\ Free(p)
    /\ \E id \in Jobs :
        /\ status[id] = "none"
        /\ \A j \in 1..(id - 1) : status[j] # "none"
        /\ status' = [status EXCEPT ![id] = "queued"]
        /\ owner' = [owner EXCEPT ![id] = p]
        /\ controllers' = [controllers EXCEPT ![id] = "live"]
        /\ queue' = [queue EXCEPT ![p] = Append(@, id)]
    /\ poller' = poller \union {p}
    /\ UNCHANGED <<promptText, requests, procVars, started, promptVars, watchVars>>

\* Each execute() is chained onto the end of the one before.
PreviousSettled(p) == started \intersect JobsOf(p) = {}

\* `if (!this.controllers.has(id)) return`
Skipped(id) == controllers[id] = "none"

\* Mutant: no catch on the chain, and a skipped job rejects it.
RestOfChain_NoCatch(p) ==
    IF Skipped(Head(queue[p])) THEN <<>> ELSE Tail(queue[p])

\* Whatever becomes of its head, the chain goes on.
RestOfChain(p) == Tail(queue[p])

\* The head of the chain gets its turn.
execute(p) ==
    /\ Free(p)
    /\ queue[p] # <<>>
    /\ PreviousSettled(p)
    /\ queue' = [queue EXCEPT ![p] = RestOfChain(p)]
    /\ LET id == Head(queue[p]) IN
       IF Skipped(id)
       THEN UNCHANGED <<started, status, promptText>>
       ELSE /\ started' = started \union {id}
            /\ status' = [status EXCEPT ![id] = "running"]
            /\ promptText' = promptText \ {id}
    /\ UNCHANGED <<owner, requests, procVars, poller, controllers, promptVars,
                   watchVars>>

\* The jobs of ids the runner still has a controller for.
Held(ids) == {j \in ids : controllers[j] # "none"}

\* finishCleanup of fin empties the controllers map.
LastOf(p, fin) == fin # {} /\ Held(JobsOf(p)) \subseteq fin

\* markFinished(st) and finishCleanup for the jobs of fin; the controllers
\* of the jobs of hit are aborted.  The control requests are left to
\* SettledRequests and the timers to the caller.
Settle(p, fin, hit, st) ==
    /\ status' = [j \in Jobs |-> IF j \in fin THEN st ELSE status[j]]
    /\ controllers' = [j \in Jobs |-> IF j \in fin THEN "none"
                                      ELSE IF j \in hit THEN "aborted"
                                      ELSE controllers[j]]
    /\ started' = started \ fin
    /\ pendingPrompts' = [j \in Jobs |-> IF j \in fin THEN "none"
                                                      ELSE pendingPrompts[j]]
    /\ poller' = IF LastOf(p, fin) THEN poller \ {p} ELSE poller
    /\ UNCHANGED <<owner, promptText, queue, watchVars>>

SettledRequests(p, fin, st) ==
    IF LastOf(p, fin)
    THEN closeStaleControlRequests(
            [j \in Jobs |-> IF j \in fin THEN st ELSE status[j]])
    ELSE requests

\* def.run settles.  A run may succeed although its signal has aborted.
RunEnds(p, id) ==
    /\ Free(p)
    /\ id \in (started \intersect JobsOf(p)) \ execs
    /\ \E st \in {"success",
                  IF controllers[id] = "aborted" THEN "cancelled" ELSE "failed"} :
        /\ Settle(p, {id}, {}, st)
        /\ requests' = SettledRequests(p, {id}, st)
    /\ abandonTimers' = abandonTimers \ {id}
    /\ UNCHANGED <<procVars, leakedTimers>>

\* The jobs cancel() finishes on the spot: those still in the queue.
Unstarted(ids) == Held(ids) \ started

\* cancel() of each job of ids: a started one only has its signal aborted.
CancelJobs(p, ids) ==
    Settle(p, Unstarted(ids), Held(ids) \intersect started, "cancelled")

CancelledRequests(p, ids) == SettledRequests(p, Unstarted(ids), "cancelled")

-----------------------------------------------------------------------------
(* Shutdown: only the MCP servers have one, the web service just dies. *)

\* shutdown(), up to its wait.
Shutdown(p) ==
    /\ p # Web
    /\ proc[p] = "up"
    /\ Free(p)
    /\ CancelJobs(p, JobsOf(p))
    /\ requests' = CancelledRequests(p, JobsOf(p))
    /\ abandonTimers' = abandonTimers \ Unstarted(JobsOf(p))
    /\ proc' = [proc EXCEPT ![p] = "closing"]
    /\ UNCHANGED <<candidates, asking, batch, leakedTimers>>

\* The wait is over, with every job settled or by its 5 s deadline; what
\* follows is reconcileOrphanedJobs again, from its SELECT.
ShutdownSweep(p) ==
    /\ proc[p] = "closing"
    /\ Free(p)
    /\ poller' = poller \ {p}
    /\ proc' = [proc EXCEPT ![p] = "sweeping"]
    /\ candidates' = [candidates EXCEPT ![p] =
                        {j \in Jobs : status[j] \in ActiveStatus}]
    /\ UNCHANGED <<storeVars, asking, batch, queue, controllers, started,
                   promptVars, watchVars>>

-----------------------------------------------------------------------------
(* The prompt watcher of a watched job.  It lives as long as its process,  *)
(* not as long as the job: nothing in finishCleanup stops it.              *)

\* JobSSHClient.exec resets the watch, not what the runner made of an
\* earlier pause; an aborted signal rejects the exec at once.
ExecStart(p, id) ==
    /\ Free(p)
    /\ id \in (Watched \intersect started \intersect JobsOf(p)) \ execs
    /\ execs' = IF controllers[id] = "live" THEN execs \union {id} ELSE execs
    /\ spoken' = spoken \ {id}
    /\ pausedOrigin' = [pausedOrigin EXCEPT ![id] = "none"]
    /\ pendingCheck' = [pendingCheck EXCEPT ![id] = 0]
    /\ UNCHANGED <<storeVars, procVars, runnerVars, promptVars>>

\* The command ends, fails or is killed by the abort: only the armed check
\* is dropped, a pause outlives the exec.
ExecEnd(p, id) ==
    /\ Free(p)
    /\ id \in execs \intersect JobsOf(p)
    /\ execs' = execs \ {id}
    /\ spoken' = spoken \ {id}
    /\ pendingCheck' = [pendingCheck EXCEPT ![id] = 0]
    /\ pendingPrompts' = [pendingPrompts EXCEPT ![id] =
                            IF @ = "open" THEN "closed" ELSE @]
    /\ UNCHANGED <<storeVars, procVars, runnerVars, abandonTimers, leakedTimers,
                   pausedOrigin>>

\* Mutant: resume() arms nothing (the code before issue #160).
Resume_Disarmed(id) ==
    /\ pausedOrigin' = [pausedOrigin EXCEPT ![id] = "none"]
    /\ pendingCheck' = [pendingCheck EXCEPT ![id] = 0]
    /\ pendingPrompts' = [pendingPrompts EXCEPT ![id] = "none"]
    /\ abandonTimers' = abandonTimers \ {id}
    /\ status' = [status EXCEPT ![id] = "running"]
    /\ promptText' = promptText \ {id}
    /\ UNCHANGED <<owner, runnerVars, leakedTimers, execs>>

\* JobSSHClient.resume and the runner's onPromptCleared.
Resume(id) ==
    /\ pausedOrigin' = [pausedOrigin EXCEPT ![id] = "none"]
    /\ pendingCheck' = [pendingCheck EXCEPT ![id] = 1]
    /\ pendingPrompts' = [pendingPrompts EXCEPT ![id] = "none"]
    /\ abandonTimers' = abandonTimers \ {id}
    /\ status' = [status EXCEPT ![id] = "running"]
    /\ promptText' = promptText \ {id}
    /\ UNCHANGED <<owner, runnerVars, leakedTimers, execs>>

\* watchChunk on meaningful output; a redraw changes nothing.
Output(p, id) ==
    /\ Free(p)
    /\ id \in execs \intersect JobsOf(p)
    /\ spoken' = spoken \union {id}
    /\ \/ /\ pausedOrigin[id] = "stall"
          /\ Resume(id)
       \/ /\ pausedOrigin[id] = "none"
          /\ pendingCheck' = [pendingCheck EXCEPT ![id] = 1]
          /\ UNCHANGED <<status, owner, promptText, runnerVars, promptVars, execs,
                         pausedOrigin>>
    /\ UNCHANGED <<requests, procVars>>

\* Mutant: a prompt gets no abandon timer.
Fire_NoTimer(id, origin) ==
    /\ pausedOrigin' = [pausedOrigin EXCEPT ![id] = origin]
    /\ pendingCheck' = [pendingCheck EXCEPT ![id] = 0]
    /\ pendingPrompts' = [pendingPrompts EXCEPT ![id] =
                            IF id \in execs THEN "open" ELSE "closed"]
    /\ status' = [status EXCEPT ![id] = "awaiting_input"]
    /\ promptText' = promptText \union {id}
    /\ UNCHANGED <<abandonTimers, leakedTimers>>

\* JobSSHClient.fire and the runner's onPromptDetected: the new timer takes
\* the place of a running one in the map without stopping it.
Fire(id, origin) ==
    /\ pausedOrigin' = [pausedOrigin EXCEPT ![id] = origin]
    /\ pendingCheck' = [pendingCheck EXCEPT ![id] = 0]
    /\ pendingPrompts' = [pendingPrompts EXCEPT ![id] =
                            IF id \in execs THEN "open" ELSE "closed"]
    /\ abandonTimers' = abandonTimers \union {id}
    /\ leakedTimers' = IF id \in abandonTimers THEN leakedTimers \union {id}
                                               ELSE leakedTimers
    /\ status' = [status EXCEPT ![id] = "awaiting_input"]
    /\ promptText' = promptText \union {id}

\* Nothing matched: arm the next tier; the last one always fires.
NextTier(id) ==
    /\ pendingCheck[id] < 3
    /\ pendingCheck' = [pendingCheck EXCEPT ![id] = @ + 1]

\* check() at the armed tier: tier 1 knows the expected prompts, tier 2 also
\* the heuristics, tier 3 fires whatever the output was.
Check(p, id) ==
    /\ Free(p)
    /\ id \in JobsOf(p)
    /\ pendingCheck[id] # 0
    /\ \/ Fire(id, "expected")
       \/ pendingCheck[id] = 2 /\ Fire(id, "heuristic")
       \/ pendingCheck[id] = 3 /\ Fire(id, "stall")
       \/ NextTier(id) /\ UNCHANGED <<status, promptText, promptVars, pausedOrigin>>
    /\ UNCHANGED <<owner, requests, procVars, runnerVars, execs, spoken>>

\* An abandon timer fires: it is spent, and the job is cancelled.
Abandon(p, id) ==
    /\ Free(p)
    /\ id \in abandonTimers \intersect JobsOf(p)
    /\ abandonTimers' = abandonTimers \ {id}
    /\ CancelJobs(p, {id})
    /\ requests' = CancelledRequests(p, {id})
    /\ UNCHANGED <<procVars, leakedTimers>>

\* So does a timer that a later prompt pushed out of the map.
AbandonLeaked(p, id) ==
    /\ Free(p)
    /\ id \in leakedTimers \intersect JobsOf(p)
    /\ leakedTimers' = leakedTimers \ {id}
    /\ CancelJobs(p, {id})
    /\ requests' = CancelledRequests(p, {id})
    /\ abandonTimers' = abandonTimers \ Unstarted({id})
    /\ UNCHANGED procVars

-----------------------------------------------------------------------------
(* Cancel, answer and dismiss. *)

\* answerPrompt and dismissPrompt, once they found the pending prompt.
ClearPrompt(id) == pendingPrompts[id] # "none" /\ Resume(id) /\ UNCHANGED spoken

\* requestJobControl for a job of the process itself.  A refused request,
\* and an answer whose write() throws, change nothing.
ControlOwn(p, id, action) ==
    /\ Free(p)
    /\ id \in JobsOf(p)
    /\ \/ /\ action = "cancel"
          /\ CancelJobs(p, {id})
          /\ requests' = CancelledRequests(p, {id})
          /\ abandonTimers' = abandonTimers \ Unstarted({id})
          /\ UNCHANGED leakedTimers
       \/ /\ action \in {"answer", "dismiss"}
          /\ ClearPrompt(id)
          /\ UNCHANGED requests
    /\ UNCHANGED procVars

\* Bound: every request in the making still gets a row.
RequestsLeft == Cardinality({q \in Procs : asking[q] # {}})
                    < Cardinality({i \in RequestIds : requests[i].result = "unused"})

\* requestJobControl for another process's job, up to its last check.
Ask(p, id, action) ==
    /\ Free(p)
    /\ OwnerOf(id) # p
    /\ ~OwnerIsDead(id)
    /\ actionApplies(status[id], action)
    /\ RequestsLeft
    /\ asking' = [asking EXCEPT ![p] = {[job |-> id, action |-> action]}]
    /\ UNCHANGED <<storeVars, proc, candidates, batch, runnerVars, promptVars,
                   watchVars>>

\* createControlRequest
InsertRequest(p) ==
    /\ \E ask \in asking[p], i \in RequestIds :
        /\ requests[i].result = "unused"
        /\ \A k \in 1..(i - 1) : requests[k].result # "unused"
        /\ requests' = [requests EXCEPT ![i] =
                [job |-> ask.job, action |-> ask.action,
                 text |-> ask.action = "answer", result |-> "pending"]]
    /\ asking' = [asking EXCEPT ![p] = {}]
    /\ UNCHANGED <<status, owner, promptText, proc, candidates, batch, runnerVars,
                   promptVars, watchVars>>

\* processControlRequests: the sweep, then pendingControlRequests(owner).
Poll(p) ==
    /\ Free(p)
    /\ p \in poller
    /\ requests' = closeStaleControlRequests(status)
    /\ batch' = [batch EXCEPT ![p] =
            {i \in RequestIds : /\ requests'[i].result = "pending"
                                /\ OwnerOf(requests'[i].job) = p}]
    /\ UNCHANGED <<status, owner, promptText, proc, candidates, asking, runnerVars,
                   promptVars, watchVars>>

\* ORDER BY id
IsNext(p, i) == \A k \in batch[p] : i <= k

\* One row of the pass.
ApplyRequest(p) ==
    /\ \E i \in batch[p] :
        LET id == requests[i].job
            action == requests[i].action
        IN /\ IsNext(p, i)
           /\ batch' = [batch EXCEPT ![p] = @ \ {i}]
           /\ \/ /\ controllers[id] # "none"
                 /\ action = "cancel"
                 /\ CancelJobs(p, {id})
                 /\ requests' = [CancelledRequests(p, {id}) EXCEPT ![i] =
                                    Handled(@, "applied")]
                 /\ abandonTimers' = abandonTimers \ Unstarted({id})
                 /\ UNCHANGED leakedTimers
              \/ /\ controllers[id] # "none"
                 /\ action # "cancel"
                 /\ ClearPrompt(id)
                 /\ requests' = [requests EXCEPT ![i] = Handled(@, "applied")]
              \/ \* no controller, no prompt, or write() on a closed channel
                 /\ \/ controllers[id] = "none"
                    \/ action # "cancel" /\ pendingPrompts[id] = "none"
                    \/ action = "answer" /\ pendingPrompts[id] = "closed"
                 /\ requests' = [requests EXCEPT ![i] =
                                    Handled(@, "not-applicable")]
                 /\ UNCHANGED <<status, owner, promptText, runnerVars, promptVars,
                                watchVars>>
    /\ UNCHANGED <<proc, candidates, asking>>

-----------------------------------------------------------------------------
ProcStep(p) ==
    \/ Boot(p) \/ Reconcile(p) \/ Exit(p)
    \/ Shutdown(p) \/ ShutdownSweep(p)
    \/ enqueue(p) \/ execute(p)
    \/ InsertRequest(p) \/ Poll(p) \/ ApplyRequest(p)

JobStep(p, id) ==
    \/ RunEnds(p, id)
    \/ ExecStart(p, id) \/ ExecEnd(p, id) \/ Output(p, id)
    \/ Check(p, id) \/ Abandon(p, id) \/ AbandonLeaked(p, id)
    \/ \E action \in ControlAction : ControlOwn(p, id, action) \/ Ask(p, id, action)

Next == \E p \in Procs : ProcStep(p) \/ \E id \in Jobs : JobStep(p, id)

Spec == Init /\ [][Next]_vars

\* What the event loop guarantees while a process lives: pending callbacks
\* run, timers fire, and the command of an aborted exec ends.  A run makes
\* finitely many execs, hence the strong fairness of its end.  Nothing is
\* assumed of users, of output, or of a command nobody aborted.
Fairness ==
    \A p \in Procs :
        /\ WF_vars(Reconcile(p)) /\ WF_vars(ShutdownSweep(p))
        /\ WF_vars(execute(p)) /\ WF_vars(InsertRequest(p))
        /\ WF_vars(Poll(p)) /\ WF_vars(ApplyRequest(p))
        /\ \A id \in Jobs :
            /\ SF_vars(RunEnds(p, id))
            /\ WF_vars(Check(p, id)) /\ WF_vars(Abandon(p, id))
            /\ WF_vars(controllers[id] = "aborted" /\ ExecEnd(p, id))

FairSpec == Spec /\ Fairness

-----------------------------------------------------------------------------
(* Safety. *)

\* The runner's memory and the store agree while a process serves: a row
\* with a controller (JobRunner.controllers) is still active, and an active
\* row of the process has a controller, so it can be cancelled and will be
\* finished.  The second half is claimed of unwatched jobs: a late prompt
\* check can put a finished watched job back (README, section 6).
ControllersMatchRows ==
    \A j \in Jobs : proc[OwnerOf(j)] \in {"up", "closing"} =>
        /\ controllers[j] # "none" => status[j] \in ActiveStatus
        /\ j \notin Watched /\ status[j] \in ActiveStatus
            => controllers[j] # "none"

\* A job paused on a prompt never waits for ever: the runner can answer it
\* and its abandon timer is running, unless it is being cancelled already.
AwaitingHasDeadline ==
    \A j \in Jobs :
        controllers[j] # "none" /\ status[j] = "awaiting_input"
            => /\ pendingPrompts[j] # "none"
               /\ controllers[j] = "live" => j \in abandonTimers

\* An exec that has printed something is never left to hang unobserved: a
\* tier is armed, or it is paused on a prompt that can reach its channel.
SpokenExecIsWatched ==
    \A j \in spoken : pendingCheck[j] # 0 \/ pendingPrompts[j] = "open"

\* interruptOrphaned never takes a job from a process that still serves it
\* (isOrphanFor: "Another live process's rows are never touched"); only its
\* own shutdown sweep may close a job that is still held.
NeverInterruptsLiveJob ==
    [][\A j \in Jobs :
        status[j] # "interrupted" /\ status'[j] = "interrupted"
            => controllers[j] = "none" \/ proc[OwnerOf(j)] = "sweeping"]_vars

\* A job cancelled before its turn is skipped by execute() when its turn
\* comes, however long it stays in the chain.
CancelledInQueueNeverRuns ==
    [][\A j \in Jobs : status[j] = "cancelled" /\ j \notin started
            => j \notin started']_vars

\* A control request gets one verdict, whoever sweeps the table meanwhile,
\* and its answer text does not come back (SC-005).
VerdictIsFinal ==
    [][\A i \in RequestIds :
        requests[i].result \in {"applied", "not-applicable"}
            => requests'[i] = requests[i] /\ ~requests[i].text]_vars

-----------------------------------------------------------------------------
(* Liveness. *)

StaysUp(p) == <>[](proc[p] # "down")

\* While its process lives, a job without prompt watching gets its turn and
\* a final status, however many jobs are ahead of it or get cancelled.
JobsSettle ==
    \A j \in Jobs \ Watched : \A p \in Procs :
        StaysUp(p) => [](OwnerOf(j) = p /\ status[j] \in ActiveStatus
                            => <>(status[j] \in TerminalStatus))

-----------------------------------------------------------------------------
(* What comments and documents of the repository say, and the code does    *)
(* not keep: each is refuted by a run of its own.                          *)

=============================================================================
