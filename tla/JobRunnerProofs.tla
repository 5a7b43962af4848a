-------------------------- MODULE JobRunnerProofs --------------------------
(***************************************************************************)
(* Proofs about JobRunner, for any number of processes, jobs and requests. *)
(***************************************************************************)
EXTENDS JobRunner, SequenceTheorems, TLAPS

-----------------------------------------------------------------------------
(* Types. *)

\* The sweep of the control requests yields a table again.
LEMMA closeStaleType ==
    ASSUME TypeOK, NEW st \in [Jobs -> JobStatus \union {"none"}]
    PROVE  closeStaleControlRequests(st) \in [RequestIds -> ControlRequestRow]
BY DEF TypeOK, closeStaleControlRequests, Handled, ControlRequestRow

\* Marking one request of a table handled yields a table again.
LEMMA HandledType ==
    ASSUME NEW table \in [RequestIds -> ControlRequestRow], NEW i \in RequestIds,
           NEW result \in {"applied", "not-applicable"}
    PROVE  [table EXCEPT ![i] = Handled(@, result)]
                \in [RequestIds -> ControlRequestRow]
BY DEF Handled, ControlRequestRow

\* Finishing and aborting jobs keeps every variable of Settle in its type.
LEMMA SettleType ==
    ASSUME TypeOK, NEW p \in Procs, NEW fin \in SUBSET Jobs, NEW hit,
           NEW st \in TerminalStatus, Settle(p, fin, hit, st)
    PROVE  /\ status' \in [Jobs -> JobStatus \union {"none"}]
           /\ controllers' \in [Jobs -> {"none", "live", "aborted"}]
           /\ started' \subseteq Jobs
           /\ pendingPrompts' \in [Jobs -> {"none", "open", "closed"}]
           /\ poller' \subseteq Procs
           /\ UNCHANGED <<owner, promptText, queue, watchVars>>
           /\ SettledRequests(p, fin, st) \in [RequestIds -> ControlRequestRow]
<1>1. [j \in Jobs |-> IF j \in fin THEN st ELSE status[j]]
            \in [Jobs -> JobStatus \union {"none"}]
  BY DEF TypeOK, JobStatus
<1>2. SettledRequests(p, fin, st) \in [RequestIds -> ControlRequestRow]
  BY <1>1, closeStaleType DEF SettledRequests, TypeOK
<1>3. controllers' \in [Jobs -> {"none", "live", "aborted"}]
  BY DEF Settle, TypeOK
<1>. QED  BY <1>1, <1>2, <1>3 DEF Settle, TypeOK

\* Every step keeps every variable in its type.
LEMMA TypeStep == TypeOK /\ [Next]_vars => TypeOK'
<1>. SUFFICES ASSUME TypeOK, [Next]_vars PROVE TypeOK'
  OBVIOUS
<1>1. CASE UNCHANGED vars
  BY <1>1 DEF TypeOK, vars, storeVars, procVars, runnerVars, promptVars, watchVars
<1>2. ASSUME NEW p \in Procs, ProcStep(p) PROVE TypeOK'
  <2>1. CASE Boot(p)
    BY <2>1 DEF Boot, TypeOK, ProcState, storeVars, runnerVars, promptVars, watchVars
  <2>2. CASE Reconcile(p)
    <3>1. status' \in [Jobs -> JobStatus \union {"none"}]
      BY <2>2 DEF Reconcile, TypeOK, JobStatus, TerminalStatus
    <3>2. requests' \in [RequestIds -> ControlRequestRow]
      BY <2>2, <3>1, closeStaleType DEF Reconcile
    <3>. QED  BY <2>2, <3>1, <3>2
              DEF Reconcile, TypeOK, ProcState, runnerVars, promptVars, watchVars
  <2>3. CASE Exit(p)
    BY <2>3 DEF Exit, TypeOK, ProcState, storeVars, JobsOf
  <2>4. CASE Shutdown(p)
    <3>1. Unstarted(JobsOf(p)) \subseteq Jobs
      BY DEF Unstarted, Held, JobsOf
    <3>. QED  BY <2>4, <3>1, SettleType
              DEF Shutdown, CancelJobs, CancelledRequests, TypeOK, ProcState,
                  TerminalStatus, watchVars
  <2>5. CASE ShutdownSweep(p)
    BY <2>5 DEF ShutdownSweep, TypeOK, ProcState, storeVars, promptVars, watchVars
  <2>6. CASE enqueue(p)
    BY <2>6 DEF enqueue, TypeOK, JobStatus, ActiveStatus, procVars, promptVars,
                watchVars
  <2>7. CASE execute(p)
    <3>1. Head(queue[p]) \in Jobs /\ Tail(queue[p]) \in Seq(Jobs)
      <4>. queue[p] \in Seq(Jobs) /\ queue[p] # <<>>
        BY <2>7 DEF execute, TypeOK
      <4>. QED  BY HeadTailProperties
    <3>2. queue' \in [Procs -> Seq(Jobs)]
      BY <2>7, <3>1 DEF execute, RestOfChain, TypeOK
    <3>3. /\ status' \in [Jobs -> JobStatus \union {"none"}]
          /\ started' \subseteq Jobs /\ promptText' \subseteq Jobs
      <4>1. CASE Skipped(Head(queue[p]))
        BY <2>7, <4>1 DEF execute, TypeOK
      <4>2. CASE ~Skipped(Head(queue[p]))
        <5>. DEFINE id == Head(queue[p])
        <5>1. /\ started' = started \union {id}
              /\ status' = [status EXCEPT ![id] = "running"]
              /\ promptText' = promptText \ {id}
          BY <2>7, <4>2 DEF execute
        <5>2. id \in Jobs
          BY <3>1
        <5>. HIDE DEF id
        <5>. QED  BY <5>1, <5>2 DEF TypeOK, JobStatus, ActiveStatus
      <4>. QED  BY <4>1, <4>2
    <3>. QED  BY <2>7, <3>2, <3>3
              DEF execute, TypeOK, procVars, promptVars, watchVars
  <2>8. CASE InsertRequest(p)
    BY <2>8 DEF InsertRequest, TypeOK, ControlRequestRow, runnerVars, promptVars,
                watchVars
  <2>9. CASE Poll(p)
    BY <2>9, closeStaleType DEF Poll, TypeOK, runnerVars, promptVars, watchVars
  <2>10. CASE ApplyRequest(p)
    <3>. PICK i \in batch[p] : ApplyRequest(p)!1!(i)
      BY <2>10 DEF ApplyRequest
    <3>. DEFINE id == requests[i].job
    <3>1. i \in RequestIds /\ id \in Jobs
      BY DEF TypeOK, ControlRequestRow
    <3>2. Unstarted({id}) \subseteq Jobs
      BY <3>1 DEF Unstarted, Held
    <3>3. batch' \in [Procs -> SUBSET RequestIds]
      BY DEF TypeOK
    <3>4. CASE CancelJobs(p, {id})
               /\ requests' = [CancelledRequests(p, {id}) EXCEPT ![i] = Handled(@, "applied")]
               /\ abandonTimers' = abandonTimers \ Unstarted({id})
               /\ UNCHANGED leakedTimers
      <4>1. CancelledRequests(p, {id}) \in [RequestIds -> ControlRequestRow]
        BY <3>2, <3>4, SettleType DEF CancelJobs, CancelledRequests, TerminalStatus
      <4>2. requests' \in [RequestIds -> ControlRequestRow]
        BY <3>1, <3>4, <4>1, HandledType
      <4>3. Settle(p, Unstarted({id}), Held({id}) \intersect started, "cancelled")
        BY <3>4 DEF CancelJobs
      <4>4. UNCHANGED <<proc, candidates, asking>>
        BY <2>10 DEF ApplyRequest
      <4>. HIDE DEF id
      <4>. QED  BY <3>2, <3>3, <3>4, <4>2, <4>3, <4>4, SettleType
                DEF TypeOK, TerminalStatus, watchVars
    <3>5. CASE /\ ClearPrompt(id)
               /\ requests' = [requests EXCEPT ![i] = Handled(@, "applied")]
      <4>1. requests' \in [RequestIds -> ControlRequestRow]
        BY <3>1, <3>5, HandledType DEF TypeOK
      <4>. QED  BY <2>10, <3>1, <3>3, <3>5, <4>1
                DEF ApplyRequest, ClearPrompt, Resume, TypeOK, JobStatus, ActiveStatus,
                    runnerVars
    <3>6. CASE /\ requests' = [requests EXCEPT ![i] = Handled(@, "not-applicable")]
               /\ UNCHANGED <<status, owner, promptText, runnerVars, promptVars,
                              watchVars>>
      <4>1. requests' \in [RequestIds -> ControlRequestRow]
        BY <3>1, <3>6, HandledType DEF TypeOK
      <4>. QED  BY <2>10, <3>3, <3>6, <4>1
                DEF ApplyRequest, TypeOK, runnerVars, promptVars, watchVars
    <3>. QED  BY <3>4, <3>5, <3>6
  <2>. QED  BY <1>2, <2>1, <2>2, <2>3, <2>4, <2>5, <2>6, <2>7, <2>8, <2>9, <2>10
            DEF ProcStep
<1>3. ASSUME NEW p \in Procs, NEW id \in Jobs, JobStep(p, id) PROVE TypeOK'
  <2>. Unstarted({id}) \subseteq Jobs
    BY DEF Unstarted, Held
  <2>1. CASE RunEnds(p, id)
    <3>1. PICK st \in TerminalStatus :
            Settle(p, {id}, {}, st) /\ requests' = SettledRequests(p, {id}, st)
      BY <2>1 DEF RunEnds, TerminalStatus
    <3>. QED  BY <2>1, <3>1, SettleType DEF RunEnds, TypeOK, procVars, watchVars
  <2>2. CASE ExecStart(p, id)
    BY <2>2 DEF ExecStart, TypeOK, storeVars, procVars, runnerVars, promptVars
  <2>3. CASE ExecEnd(p, id)
    BY <2>3 DEF ExecEnd, TypeOK, storeVars, procVars, runnerVars
  <2>4. CASE Output(p, id)
    <3>1. CASE Resume(id)
      BY <2>4, <3>1 DEF Output, Resume, TypeOK, JobStatus, ActiveStatus, procVars,
                        runnerVars
    <3>2. CASE /\ pendingCheck' = [pendingCheck EXCEPT ![id] = 1]
               /\ UNCHANGED <<status, owner, promptText, runnerVars, promptVars, execs,
                              pausedOrigin>>
      BY <2>4, <3>2 DEF Output, TypeOK, procVars, runnerVars, promptVars
    <3>. QED  BY <2>4, <3>1, <3>2 DEF Output
  <2>5. CASE Check(p, id)
    <3>1. CASE \E origin \in PromptOrigin : Fire(id, origin)
      BY <2>5, <3>1 DEF Check, Fire, TypeOK, JobStatus, ActiveStatus, procVars,
                        runnerVars
    <3>2. CASE NextTier(id) /\ UNCHANGED <<status, promptText, promptVars, pausedOrigin>>
      <4>1. pendingCheck[id] \in 0..3 /\ pendingCheck[id] < 3
        BY <3>2 DEF NextTier, TypeOK
      <4>2. pendingCheck[id] + 1 \in 0..3
        BY <4>1
      <4>3. pendingCheck' \in [Jobs -> 0..3]
        BY <3>2, <4>2 DEF NextTier, TypeOK
      <4>. QED  BY <2>5, <3>2, <4>3 DEF Check, TypeOK, procVars, runnerVars, promptVars
    <3>. QED  BY <2>5, <3>1, <3>2 DEF Check, PromptOrigin
  <2>6. CASE Abandon(p, id)
    BY <2>6, SettleType DEF Abandon, CancelJobs, CancelledRequests, TypeOK,
                            TerminalStatus, procVars, watchVars
  <2>7. CASE AbandonLeaked(p, id)
    BY <2>7, SettleType DEF AbandonLeaked, CancelJobs, CancelledRequests, TypeOK,
                            TerminalStatus, procVars, watchVars
  <2>8. ASSUME NEW action \in ControlAction, ControlOwn(p, id, action) PROVE TypeOK'
    <3>1. CASE CancelJobs(p, {id}) /\ requests' = CancelledRequests(p, {id})
               /\ abandonTimers' = abandonTimers \ Unstarted({id})
               /\ UNCHANGED leakedTimers
      BY <2>8, <3>1, SettleType DEF ControlOwn, CancelJobs, CancelledRequests, TypeOK,
                                    TerminalStatus, procVars, watchVars
    <3>2. CASE ClearPrompt(id) /\ UNCHANGED requests
      BY <2>8, <3>2 DEF ControlOwn, ClearPrompt, Resume, TypeOK, JobStatus,
                        ActiveStatus, procVars, runnerVars
    <3>. QED  BY <2>8, <3>1, <3>2 DEF ControlOwn
  <2>9. ASSUME NEW action \in ControlAction, Ask(p, id, action) PROVE TypeOK'
    BY <2>9 DEF Ask, TypeOK, storeVars, runnerVars, promptVars, watchVars
  <2>. QED  BY <1>3, <2>1, <2>2, <2>3, <2>4, <2>5, <2>6, <2>7, <2>8, <2>9 DEF JobStep
<1>. QED  BY <1>1, <1>2, <1>3 DEF Next

\* Whatever the processes and their users do, every variable of the store,
\* the runners and the watchers stays in its type.
THEOREM TypeCorrect == Spec => []TypeOK
<1>1. Init => TypeOK
  BY BoundAssumption
     DEF Init, TypeOK, Jobs, JobStatus, ControlRequestRow, ControlAction, ProcState
<1>. QED  BY <1>1, TypeStep, PTL DEF Spec

-----------------------------------------------------------------------------
(* The inductive invariant. *)

\* An id not handed out yet is unknown to every runner.
FreshIsUnknown ==
    \A j \in Jobs : status[j] = "none" =>
        /\ controllers[j] = "none" /\ pendingPrompts[j] = "none"
        /\ pendingCheck[j] = 0 /\ j \notin started

\* Memory does not outlive its process, nor precede its first sweep.
HeldByRunningProcess ==
    \A j \in Jobs : controllers[j] # "none"
        => proc[OwnerOf(j)] \in {"up", "closing", "sweeping", "closed"}

\* execute() runs on jobs that are held, execs belong to running watched
\* jobs, and only an exec of the present counts as having spoken.
RunningIsHeld ==
    /\ \A j \in started : controllers[j] # "none"
    /\ execs \subseteq started \intersect Watched /\ spoken \subseteq execs

\* A job that still waits for its turn is queued (or was swept while
\* waiting) and knows no prompt; prompts are for watched jobs.
WaitingIsQueued ==
    /\ \A j \in Jobs : controllers[j] # "none" /\ j \notin started =>
        /\ status[j] \in {"queued", "interrupted"}
        /\ pendingPrompts[j] = "none" /\ pendingCheck[j] = 0
    /\ \A j \in Jobs : pendingPrompts[j] # "none" \/ pendingCheck[j] # 0
        => j \in Watched

\* What a booting process has selected includes everything it must close.
SelectionCoversOwn ==
    \A j \in Jobs : proc[OwnerOf(j)] = "starting" /\ status[j] \in ActiveStatus
        => j \in candidates[OwnerOf(j)]

\* Rows a pass has still to look at: they are of the process's own jobs, of
\* active ones if held, and one that was swept meanwhile will only get the
\* verdict it already has.
BatchIsCurrent ==
    \A p \in Procs : \A i \in batch[p] :
        /\ OwnerOf(requests[i].job) = p
        /\ requests[i].result \in {"pending", "not-applicable"}
        /\ proc[p] \in {"up", "closing", "closed"}
        /\ controllers[requests[i].job] # "none"
            => /\ status[requests[i].job] \in ActiveStatus
               /\ requests[i].result = "pending"

\* Requests, and those in the making, are about rows that exist.
RequestsNameRows ==
    /\ \A i \in RequestIds :
        requests[i].result # "unused" => status[requests[i].job] # "none"
    /\ \A p \in Procs : \A ask \in asking[p] : status[ask.job] # "none"

\* A handled request has lost its text.
HandledIsErased ==
    \A i \in RequestIds :
        requests[i].result \in {"applied", "not-applicable"} => ~requests[i].text

IInv ==
    /\ TypeOK
    /\ FreshIsUnknown
    /\ HeldByRunningProcess
    /\ RunningIsHeld
    /\ WaitingIsQueued
    /\ SelectionCoversOwn
    /\ RequestsNameRows
    /\ BatchIsCurrent
    /\ HandledIsErased
    /\ ControllersMatchRows
    /\ AwaitingHasDeadline
    /\ SpokenExecIsWatched

\* What the sweep does to one row: nothing, or it closes a pending request
\* of a job that is over or whose owner is dead.
Swept(i, st) ==
    \/ requests'[i] = requests[i]
    \/ /\ requests[i].result = "pending"
       /\ requests'[i] = Handled(requests[i], "not-applicable")
       /\ st[requests[i].job] \in TerminalStatus \/ OwnerIsDead(requests[i].job)

\* The table after closeStaleControlRequests, row by row.
LEMMA SweptRow ==
    ASSUME TypeOK, NEW st, requests' = closeStaleControlRequests(st)
    PROVE  \A i \in RequestIds : Swept(i, st)
BY DEF closeStaleControlRequests, Swept

\* A sweep keeps what a row is about, inserts none, and erases the text of
\* what it closes.
LEMMA SweptFields ==
    ASSUME IInv, NEW i \in RequestIds, NEW st, Swept(i, st)
    PROVE  /\ requests[i].job \in Jobs
           /\ requests'[i].job = requests[i].job
           /\ requests[i].result = "unused" => requests'[i].result = "unused"
           /\ requests'[i].result \in {"applied", "not-applicable"}
                    => ~requests'[i].text
<1>1. requests[i].job \in Jobs
  BY DEF IInv, TypeOK, ControlRequestRow
<1>2. CASE requests'[i] = requests[i]
  BY <1>1, <1>2 DEF IInv, HandledIsErased
<1>3. CASE /\ requests[i].result = "pending"
           /\ requests'[i] = Handled(requests[i], "not-applicable")
  BY <1>1, <1>3 DEF Handled
<1>. QED  BY <1>2, <1>3 DEF Swept

\* A step that at most sweeps the table, and in which the jobs of running
\* passes keep their status, preserves what is known of the requests.
LEMMA SweepKeepsRequests ==
    ASSUME IInv, UNCHANGED <<owner, asking, batch>>,
           \A i \in RequestIds : Swept(i, status'),
           \A j \in Jobs : status[j] # "none" => status'[j] # "none",
           \A p \in Procs : batch[p] # {} =>
                /\ proc'[p] = proc[p]
                /\ \A j \in JobsOf(p) : /\ status'[j] = status[j]
                                        /\ controllers'[j] = controllers[j]
    PROVE  RequestsNameRows' /\ BatchIsCurrent' /\ HandledIsErased'
<1>1. \A i \in RequestIds :
        /\ requests[i].job \in Jobs
        /\ requests'[i].job = requests[i].job
        /\ requests[i].result = "unused" => requests'[i].result = "unused"
        /\ requests'[i].result \in {"applied", "not-applicable"} => ~requests'[i].text
  BY SweptFields
<1>2. RequestsNameRows'
  <2>1. ASSUME NEW i \in RequestIds, requests'[i].result # "unused"
        PROVE  status'[requests'[i].job] # "none"
    <3>. DEFINE id == requests[i].job
    <3>1. id \in Jobs /\ requests'[i].job = id /\ requests[i].result # "unused"
      BY <1>1, <2>1
    <3>2. status[id] # "none"
      BY <3>1 DEF IInv, RequestsNameRows
    <3>. HIDE DEF id
    <3>. QED  BY <3>1, <3>2
  <2>2. ASSUME NEW p \in Procs, NEW ask \in asking[p]
        PROVE  status'[ask.job] # "none"
    <3>1. ask \in [job : Jobs, action : ControlAction]
      BY DEF IInv, TypeOK
    <3>. QED  BY <3>1 DEF IInv, RequestsNameRows
  <2>. QED  BY <2>1, <2>2 DEF RequestsNameRows
<1>3. HandledIsErased'
  BY <1>1 DEF HandledIsErased
<1>4. ASSUME NEW p \in Procs, NEW i \in batch[p]
      PROVE  BatchIsCurrent!(p)!(i)'
  <2>. DEFINE id == requests[i].job
  <2>1. /\ i \in RequestIds
        /\ OwnerOf(id) = p
        /\ requests[i].result \in {"pending", "not-applicable"}
        /\ proc[p] \in {"up", "closing", "closed"}
        /\ controllers[id] # "none"
            => status[id] \in ActiveStatus /\ requests[i].result = "pending"
    BY DEF IInv, BatchIsCurrent, TypeOK
  <2>2. id \in JobsOf(p) /\ OwnerOf(id)' = p /\ requests'[i].job = id
    BY <1>1, <2>1 DEF JobsOf, OwnerOf
  <2>3. proc'[p] = proc[p] /\ status'[id] = status[id]
        /\ controllers'[id] = controllers[id]
    BY <2>2
  <2>4. ~OwnerIsDead(id)
    BY <2>1 DEF OwnerIsDead, isPidAlive
  <2>5. controllers[id] # "none" => requests'[i] = requests[i]
    BY <2>1, <2>3, <2>4 DEF Swept, ActiveStatus, TerminalStatus
  <2>6. requests'[i].result \in {"pending", "not-applicable"}
    <3>1. CASE requests'[i] = requests[i]
      BY <2>1, <3>1
    <3>2. CASE requests'[i] = Handled(requests[i], "not-applicable")
      BY <3>2 DEF Handled
    <3>. QED  BY <2>1, <3>1, <3>2 DEF Swept
  <2>. QED  BY <2>1, <2>2, <2>3, <2>5, <2>6
<1>. QED  BY <1>2, <1>3, <1>4 DEF BatchIsCurrent

\* The parts of the invariant about jobs, apart from the request table.
JobsInv ==
    /\ FreshIsUnknown /\ HeldByRunningProcess /\ RunningIsHeld /\ WaitingIsQueued
    /\ SelectionCoversOwn /\ ControllersMatchRows /\ AwaitingHasDeadline
    /\ SpokenExecIsWatched

\* Finishing jobs of p without an exec in flight and aborting running ones
\* preserves what is known of the jobs.
LEMMA SettleKeepsJobs ==
    ASSUME IInv, NEW p \in Procs, NEW fin, NEW hit, NEW st \in TerminalStatus,
           Settle(p, fin, hit, st),
           fin \subseteq JobsOf(p) \ execs, hit \subseteq started,
           proc[p] \in {"up", "closing", "closed"}, UNCHANGED candidates,
           \A q \in Procs : \/ proc'[q] = proc[q]
                            \/ proc[q] = "up" /\ proc'[q] = "closing",
           \A j \in abandonTimers \ abandonTimers' :
                j \in fin \union hit \/ controllers[j] = "none"
    PROVE  JobsInv'
<1>1. /\ \A j \in Jobs : status'[j] = IF j \in fin THEN st ELSE status[j]
      /\ \A j \in Jobs : controllers'[j] = IF j \in fin THEN "none"
                                           ELSE IF j \in hit THEN "aborted"
                                           ELSE controllers[j]
      /\ \A j \in Jobs : pendingPrompts'[j] = IF j \in fin THEN "none"
                                              ELSE pendingPrompts[j]
      /\ started' = started \ fin
      /\ execs' = execs /\ spoken' = spoken /\ pendingCheck' = pendingCheck
      /\ \A j \in Jobs : OwnerOf(j)' = OwnerOf(j)
  BY DEF Settle, OwnerOf, watchVars
<1>2. /\ fin \subseteq Jobs /\ hit \subseteq Jobs /\ fin \intersect execs = {}
      /\ \A j \in Jobs : OwnerOf(j) \in Procs
      /\ \A j \in fin : OwnerOf(j) = p
  BY ProcAssumption DEF JobsOf, IInv, TypeOK, OwnerOf
<1>3. FreshIsUnknown' /\ RunningIsHeld' /\ WaitingIsQueued'
  BY <1>1, <1>2 DEF IInv, TypeOK, FreshIsUnknown, RunningIsHeld, WaitingIsQueued,
                    TerminalStatus
<1>4. ASSUME NEW j \in Jobs
      PROVE  /\ HeldByRunningProcess!(j)' /\ SelectionCoversOwn!(j)'
             /\ ControllersMatchRows!(j)'
  <2>. DEFINE q == OwnerOf(j)
  <2>1. OwnerOf(j)' = q /\ q \in Procs
    BY <1>1, <1>2
  <2>2. \/ proc'[q] = proc[q]
        \/ proc[q] = "up" /\ proc'[q] = "closing"
    BY <2>1
  <2>3. /\ controllers[j] # "none"
                => proc[q] \in {"up", "closing", "sweeping", "closed"}
        /\ proc[q] = "starting" /\ status[j] \in ActiveStatus => j \in candidates[q]
        /\ proc[q] \in {"up", "closing"} =>
            /\ controllers[j] # "none" => status[j] \in ActiveStatus
            /\ j \notin Watched /\ status[j] \in ActiveStatus
                => controllers[j] # "none"
        /\ j \in started => controllers[j] # "none"
    BY DEF IInv, HeldByRunningProcess, SelectionCoversOwn, ControllersMatchRows,
           RunningIsHeld
  <2>. HIDE DEF q
  <2>. QED  BY <1>1, <2>1, <2>2, <2>3 DEF TerminalStatus, ActiveStatus
<1>5. AwaitingHasDeadline'
  BY <1>1, <1>2 DEF IInv, AwaitingHasDeadline, TerminalStatus, RunningIsHeld
<1>6. SpokenExecIsWatched'
  BY <1>1, <1>2 DEF IInv, TypeOK, SpokenExecIsWatched, RunningIsHeld
<1>7. HeldByRunningProcess' /\ SelectionCoversOwn' /\ ControllersMatchRows'
  BY <1>4 DEF HeldByRunningProcess, SelectionCoversOwn, ControllersMatchRows
<1>. QED  BY <1>3, <1>5, <1>6, <1>7 DEF JobsInv

\* The table after finishCleanup is the table after a sweep, or unchanged.
LEMMA SettledAreSwept ==
    ASSUME IInv, NEW p, NEW fin, NEW hit, NEW st, Settle(p, fin, hit, st),
           requests' = SettledRequests(p, fin, st)
    PROVE  \A i \in RequestIds : Swept(i, status')
<1>1. status' = [j \in Jobs |-> IF j \in fin THEN st ELSE status[j]]
  BY DEF Settle
<1>2. CASE LastOf(p, fin)
  <2>1. requests' = closeStaleControlRequests(status')
    BY <1>1, <1>2 DEF SettledRequests
  <2>. HIDE DEF Settle
  <2>. QED  BY <2>1, SweptRow DEF IInv
<1>3. CASE ~LastOf(p, fin)
  BY <1>3 DEF SettledRequests, Swept
<1>. QED  BY <1>2, <1>3

\* A callback of a free process that finishes and aborts jobs of its own
\* and leaves the request table to finishCleanup.
LEMMA SettleStep ==
    ASSUME IInv, [Next]_vars, NEW p \in Procs, NEW fin, NEW hit,
           NEW st \in TerminalStatus, Free(p),
           Settle(p, fin, hit, st), requests' = SettledRequests(p, fin, st),
           fin \subseteq JobsOf(p) \ execs, hit \subseteq started \intersect JobsOf(p),
           UNCHANGED <<candidates, asking, batch>>,
           \A q \in Procs : \/ proc'[q] = proc[q]
                            \/ q = p /\ proc[q] = "up" /\ proc'[q] = "closing",
           \A j \in abandonTimers \ abandonTimers' :
                j \in fin \union hit \/ controllers[j] = "none"
    PROVE  IInv'
<1>1. TypeOK'
  BY TypeStep DEF IInv
<1>2. JobsInv'
  <2>1. hit \subseteq started
    OBVIOUS
  <2>2. proc[p] \in {"up", "closing", "closed"}
    BY DEF Free
  <2>3. UNCHANGED candidates
    OBVIOUS
  <2>4. \A q \in Procs : \/ proc'[q] = proc[q]
                         \/ proc[q] = "up" /\ proc'[q] = "closing"
    OBVIOUS
  <2>. QED  BY <2>1, <2>2, <2>3, <2>4, SettleKeepsJobs
<1>3. \A i \in RequestIds : Swept(i, status')
  BY SettledAreSwept
<1>4. \A j \in Jobs : status[j] # "none" => status'[j] # "none"
  BY DEF Settle, TerminalStatus
<1>5. ASSUME NEW q \in Procs, batch[q] # {}
      PROVE  /\ proc'[q] = proc[q]
             /\ \A j \in JobsOf(q) : /\ status'[j] = status[j]
                                     /\ controllers'[j] = controllers[j]
  <2>1. q # p
    BY <1>5 DEF Free
  <2>2. \A j \in JobsOf(q) : j \in Jobs /\ j \notin fin /\ j \notin hit
    BY <2>1 DEF JobsOf
  <2>. QED  BY <2>1, <2>2 DEF Settle
<1>6. RequestsNameRows' /\ BatchIsCurrent' /\ HandledIsErased'
  <2>1. UNCHANGED owner
    BY DEF Settle
  <2>. QED  BY <1>3, <1>4, <1>5, <2>1, SweepKeepsRequests
<1>. QED  BY <1>1, <1>2, <1>6 DEF IInv, JobsInv

\* cancel() of jobs of a free process.
LEMMA CancelStep ==
    ASSUME IInv, [Next]_vars, NEW p \in Procs, NEW ids, Free(p), ids \subseteq JobsOf(p),
           CancelJobs(p, ids), requests' = CancelledRequests(p, ids),
           UNCHANGED <<candidates, asking, batch>>,
           \A q \in Procs : \/ proc'[q] = proc[q]
                            \/ q = p /\ proc[q] = "up" /\ proc'[q] = "closing",
           abandonTimers \ ids \subseteq abandonTimers'
           \/ abandonTimers \ Unstarted(ids) \subseteq abandonTimers'
    PROVE  IInv'
<1>. DEFINE fin == Unstarted(ids)
            hit == Held(ids) \intersect started
<1>1. fin \subseteq JobsOf(p) \ execs
  BY DEF Unstarted, Held, IInv, RunningIsHeld
<1>2. hit \subseteq started \intersect JobsOf(p)
  BY DEF Held
<1>3. \A j \in abandonTimers \ abandonTimers' :
            j \in fin \union hit \/ controllers[j] = "none"
  BY DEF Unstarted, Held
<1>4. /\ Settle(p, fin, hit, "cancelled")
      /\ requests' = SettledRequests(p, fin, "cancelled")
      /\ "cancelled" \in TerminalStatus
  BY DEF CancelJobs, CancelledRequests, TerminalStatus
<1>. HIDE DEF fin, hit
<1>. QED  BY <1>1, <1>2, <1>3, <1>4, SettleStep

\* A step that touches neither the requests, nor the passes over them, nor
\* any job whose process is in such a pass.
LEMMA RequestsUntouched ==
    ASSUME IInv, NEW p \in Procs, batch[p] = {}, UNCHANGED <<requests, batch, owner>>,
           \A q \in Procs : \A ask \in asking'[q] : status'[ask.job] # "none",
           \A j \in Jobs : status[j] # "none" => status'[j] # "none",
           \A q \in Procs \ {p} : proc'[q] = proc[q],
           \A j \in Jobs \ JobsOf(p) : /\ status'[j] = status[j]
                                       /\ controllers'[j] = controllers[j]
    PROVE  RequestsNameRows' /\ BatchIsCurrent' /\ HandledIsErased'
<1>1. \A i \in RequestIds : requests[i].job \in Jobs
  BY DEF IInv, TypeOK, ControlRequestRow
<1>2. RequestsNameRows' /\ HandledIsErased'
  BY <1>1 DEF IInv, RequestsNameRows, HandledIsErased
<1>3. ASSUME NEW q \in Procs, NEW i \in batch[q]
      PROVE  BatchIsCurrent!(q)!(i)'
  <2>1. i \in RequestIds /\ q # p /\ requests[i].job \in Jobs
    BY <1>1 DEF IInv, TypeOK
  <2>2. BatchIsCurrent!(q)!(i)
    BY DEF IInv, BatchIsCurrent
  <2>3. requests[i].job \in Jobs \ JobsOf(p)
    BY <2>1, <2>2 DEF JobsOf
  <2>. QED  BY <2>1, <2>2, <2>3 DEF OwnerOf
<1>. QED  BY <1>2, <1>3 DEF BatchIsCurrent

\* A callback of a free process that gives one of its jobs another status
\* and leaves requests and controllers alone.
LEMMA OneJobTouched ==
    ASSUME IInv, NEW p \in Procs, Free(p), NEW id \in JobsOf(p), NEW st, st # "none",
           UNCHANGED <<requests, batch, owner, asking, proc, controllers>>,
           status' = [status EXCEPT ![id] = st]
    PROVE  RequestsNameRows' /\ BatchIsCurrent' /\ HandledIsErased'
<1>1. /\ \A j \in Jobs \ {id} : status'[j] = status[j]
      /\ id \in Jobs /\ status'[id] # "none"
  BY DEF IInv, TypeOK, JobsOf
<1>2. \A q \in Procs : \A ask \in asking[q] : ask.job \in Jobs
  BY DEF IInv, TypeOK
<1>3. \A q \in Procs : \A ask \in asking'[q] : status'[ask.job] # "none"
  BY <1>1, <1>2 DEF IInv, RequestsNameRows
<1>4. \A j \in Jobs \ JobsOf(p) : /\ status'[j] = status[j]
                                  /\ controllers'[j] = controllers[j]
  BY <1>1
<1>. QED  BY <1>1, <1>3, <1>4, RequestsUntouched DEF Free

\* One row of a pass gets its verdict, the others are at most swept, and a
\* job still held afterwards was active and still is.
LEMMA VerdictKeepsRequests ==
    ASSUME IInv, NEW p \in Procs, NEW i \in batch[p],
           batch' = [batch EXCEPT ![p] = @ \ {i}],
           UNCHANGED <<owner, proc, asking>>,
           \A k \in RequestIds \ {i} : Swept(k, status'),
           requests'[i].job = requests[i].job, ~requests'[i].text,
           requests'[i].result \in {"applied", "not-applicable"},
           \A j \in Jobs : status[j] # "none" => status'[j] # "none",
           \A j \in Jobs : controllers'[j] # "none" =>
                /\ controllers[j] # "none"
                /\ status[j] \in ActiveStatus => status'[j] \in ActiveStatus
    PROVE  RequestsNameRows' /\ BatchIsCurrent' /\ HandledIsErased'
<1>1. \A k \in RequestIds \ {i} :
        /\ requests'[k].job = requests[k].job
        /\ requests[k].result = "unused" => requests'[k].result = "unused"
        /\ requests'[k].result \in {"applied", "not-applicable"} => ~requests'[k].text
  BY SweptFields
<1>2. HandledIsErased'
  BY <1>1 DEF HandledIsErased
<1>3. RequestsNameRows'
  <2>1. ASSUME NEW k \in RequestIds, requests'[k].result # "unused"
        PROVE  status'[requests'[k].job] # "none"
    <3>. DEFINE id == requests[k].job
    <3>1. requests'[k].job = id /\ id \in Jobs
      BY <1>1 DEF IInv, TypeOK, ControlRequestRow
    <3>2. requests[k].result # "unused"
      BY <1>1, <2>1 DEF IInv, BatchIsCurrent
    <3>3. status[id] # "none"
      BY <3>2 DEF IInv, RequestsNameRows
    <3>. HIDE DEF id
    <3>. QED  BY <3>1, <3>3
  <2>2. ASSUME NEW q \in Procs, NEW ask \in asking[q]
        PROVE  status'[ask.job] # "none"
    <3>1. ask \in [job : Jobs, action : ControlAction]
      BY DEF IInv, TypeOK
    <3>. QED  BY <3>1 DEF IInv, RequestsNameRows
  <2>. QED  BY <2>1, <2>2 DEF RequestsNameRows
<1>4. ASSUME NEW q \in Procs, NEW k \in batch'[q]
      PROVE  BatchIsCurrent!(q)!(k)'
  <2>. DEFINE id == requests[k].job
  <2>1. k \in batch[q] /\ k \in RequestIds /\ (q = p => k # i)
    BY <1>4 DEF IInv, TypeOK
  <2>2. /\ OwnerOf(id) = q
        /\ requests[k].result \in {"pending", "not-applicable"}
        /\ proc[q] \in {"up", "closing", "closed"}
        /\ controllers[id] # "none"
            => status[id] \in ActiveStatus /\ requests[k].result = "pending"
    BY <2>1 DEF IInv, BatchIsCurrent
  <2>3. k # i
    BY <2>1, <2>2 DEF IInv, BatchIsCurrent
  <2>4. OwnerOf(id)' = q /\ requests'[k].job = id /\ id \in Jobs
    BY <1>1, <2>1, <2>2, <2>3 DEF OwnerOf, IInv, TypeOK, ControlRequestRow
  <2>5. ~OwnerIsDead(id)
    BY <2>2 DEF OwnerIsDead, isPidAlive
  <2>6. Swept(k, status')
    BY <2>1, <2>3
  <2>7. controllers'[id] # "none"
            => status'[id] \in ActiveStatus /\ requests'[k] = requests[k]
                /\ requests[k].result = "pending"
    BY <2>2, <2>4, <2>5, <2>6 DEF Swept, ActiveStatus, TerminalStatus
  <2>8. requests'[k].result \in {"pending", "not-applicable"}
    <3>1. CASE requests'[k] = requests[k]
      BY <2>2, <3>1
    <3>2. CASE requests'[k] = Handled(requests[k], "not-applicable")
      BY <3>2 DEF Handled
    <3>. QED  BY <2>6, <3>1, <3>2 DEF Swept
  <2>. QED  BY <2>2, <2>4, <2>7, <2>8
<1>. QED  BY <1>2, <1>3, <1>4 DEF BatchIsCurrent

\* A prompt that is answered, dismissed or overtaken by output leaves its
\* job running and watched.
LEMMA ResumeKeepsJobs ==
    ASSUME IInv, NEW p \in Procs, NEW id \in JobsOf(p), Resume(id),
           \/ pendingPrompts[id] # "none" /\ UNCHANGED spoken
           \/ id \in execs /\ spoken' = spoken \union {id},
           proc[p] \in {"up", "closing", "closed"}, UNCHANGED <<proc, candidates>>
    PROVE  JobsInv'
<1>1. /\ id \in Jobs /\ OwnerOf(id) = p
      /\ \A j \in Jobs : OwnerOf(j)' = OwnerOf(j)
      /\ UNCHANGED <<controllers, started, execs>>
      /\ id \in Watched /\ status[id] # "none"
      /\ controllers[id] # "none" => id \in started
  BY DEF Resume, JobsOf, OwnerOf, runnerVars, IInv, WaitingIsQueued, RunningIsHeld,
         FreshIsUnknown
<1>2. /\ status'[id] = "running" /\ pendingCheck'[id] = 1 /\ pendingPrompts'[id] = "none"
      /\ \A j \in Jobs \ {id} : /\ status'[j] = status[j]
                                /\ pendingCheck'[j] = pendingCheck[j]
                                /\ pendingPrompts'[j] = pendingPrompts[j]
                                /\ j \in abandonTimers <=> j \in abandonTimers'
  BY <1>1 DEF Resume, IInv, TypeOK
<1>3. FreshIsUnknown' /\ RunningIsHeld' /\ WaitingIsQueued'
  BY <1>1, <1>2 DEF IInv, FreshIsUnknown, RunningIsHeld, WaitingIsQueued, TypeOK
<1>4. HeldByRunningProcess' /\ SelectionCoversOwn' /\ ControllersMatchRows'
  <2>. SUFFICES ASSUME NEW j \in Jobs
                PROVE  /\ HeldByRunningProcess!(j)' /\ SelectionCoversOwn!(j)'
                       /\ ControllersMatchRows!(j)'
    BY DEF HeldByRunningProcess, SelectionCoversOwn, ControllersMatchRows
  <2>1. /\ HeldByRunningProcess!(j) /\ SelectionCoversOwn!(j)
        /\ ControllersMatchRows!(j)
    BY DEF IInv, HeldByRunningProcess, SelectionCoversOwn, ControllersMatchRows
  <2>2. CASE j # id
    BY <1>1, <1>2, <2>1, <2>2
  <2>3. CASE j = id
    BY <1>1, <1>2, <2>1, <2>3 DEF ActiveStatus
  <2>. QED  BY <2>2, <2>3
<1>5. AwaitingHasDeadline'
  BY <1>1, <1>2 DEF IInv, AwaitingHasDeadline
<1>6. SpokenExecIsWatched'
  <2>1. ASSUME NEW j \in spoken \union {id}
        PROVE  pendingCheck'[j] # 0 \/ pendingPrompts'[j] = "open"
    <3>1. CASE j = id
      BY <1>2, <3>1
    <3>2. CASE j # id
      <4>1. j \in Jobs /\ (pendingCheck[j] # 0 \/ pendingPrompts[j] = "open")
        BY <3>2 DEF IInv, TypeOK, SpokenExecIsWatched
      <4>. QED  BY <1>2, <3>2, <4>1
    <3>. QED  BY <3>1, <3>2
  <2>. QED  BY <2>1 DEF SpokenExecIsWatched
<1>. QED  BY <1>3, <1>4, <1>5, <1>6 DEF JobsInv

\* Every step of a process as a whole preserves the invariant.
LEMMA ProcStepInv ==
    ASSUME IInv, [Next]_vars, NEW p \in Procs, ProcStep(p)
    PROVE  IInv'
<1>0. TypeOK'
  BY TypeStep DEF IInv
<1>1. CASE Boot(p)
  <2>1. JobsInv'
    BY <1>1 DEF Boot, IInv, JobsInv, FreshIsUnknown, HeldByRunningProcess, RunningIsHeld,
                WaitingIsQueued, SelectionCoversOwn, ControllersMatchRows,
                AwaitingHasDeadline, SpokenExecIsWatched, TypeOK, OwnerOf, storeVars,
                runnerVars, promptVars, watchVars
  <2>2. RequestsNameRows' /\ BatchIsCurrent' /\ HandledIsErased'
    BY <1>1 DEF Boot, IInv, RequestsNameRows, BatchIsCurrent, HandledIsErased, TypeOK,
                OwnerOf, storeVars, runnerVars
  <2>. QED  BY <1>0, <2>1, <2>2 DEF IInv, JobsInv
<1>2. CASE Reconcile(p)
  <2>. DEFINE orphaned == {j \in candidates[p] : isOrphanFor(j, p)}
  <2>1. /\ status' = [j \in Jobs |-> IF j \in orphaned THEN "interrupted" ELSE status[j]]
        /\ requests' = closeStaleControlRequests(status')
        /\ proc[p] \in {"starting", "sweeping"}
        /\ proc' = [proc EXCEPT ![p] = IF @ = "starting" THEN "up" ELSE "closed"]
        /\ candidates' = [candidates EXCEPT ![p] = {}]
        /\ UNCHANGED <<owner, asking, batch, queue, poller, controllers, started,
                       pendingPrompts, abandonTimers, leakedTimers, execs, spoken,
                       pausedOrigin, pendingCheck>>
    BY <1>2 DEF Reconcile, runnerVars, promptVars, watchVars
  <2>2. \A j \in Jobs : OwnerOf(j)' = OwnerOf(j) /\ OwnerOf(j) \in Procs
    BY <2>1, ProcAssumption DEF OwnerOf, IInv, TypeOK
  <2>3. ASSUME NEW j \in orphaned
        PROVE  j \in Jobs /\ (OwnerOf(j) = p \/ proc[OwnerOf(j)] = "down")
    BY DEF isOrphanFor, OwnerIsDead, isPidAlive, IInv, TypeOK
  <2>4. \A j \in Jobs : OwnerOf(j) = p /\ j \in candidates[p] => j \in orphaned
    BY DEF isOrphanFor
  <2>. HIDE DEF orphaned
  <2>5. FreshIsUnknown' /\ RunningIsHeld' /\ WaitingIsQueued' /\ AwaitingHasDeadline'
        /\ SpokenExecIsWatched'
    BY <2>1 DEF IInv, FreshIsUnknown, RunningIsHeld, WaitingIsQueued,
                AwaitingHasDeadline, SpokenExecIsWatched, TypeOK
  <2>6. HeldByRunningProcess' /\ SelectionCoversOwn' /\ ControllersMatchRows'
    <3>. SUFFICES ASSUME NEW j \in Jobs
                  PROVE  /\ HeldByRunningProcess!(j)' /\ SelectionCoversOwn!(j)'
                         /\ ControllersMatchRows!(j)'
      BY DEF HeldByRunningProcess, SelectionCoversOwn, ControllersMatchRows
    <3>1. /\ HeldByRunningProcess!(j) /\ SelectionCoversOwn!(j)
          /\ ControllersMatchRows!(j)
      BY DEF IInv, HeldByRunningProcess, SelectionCoversOwn, ControllersMatchRows
    <3>2. CASE OwnerOf(j) # p
      <4>1. proc'[OwnerOf(j)] = proc[OwnerOf(j)]
            /\ candidates'[OwnerOf(j)] = candidates[OwnerOf(j)]
        BY <2>1, <2>2, <3>2 DEF IInv, TypeOK
      <4>2. j \in orphaned => proc[OwnerOf(j)] = "down"
        BY <2>3, <3>2
      <4>. QED  BY <2>1, <2>2, <3>1, <4>1, <4>2 DEF ActiveStatus
    <3>3. CASE OwnerOf(j) = p
      <4>1. proc'[p] = IF proc[p] = "starting" THEN "up" ELSE "closed"
        BY <2>1 DEF IInv, TypeOK
      <4>2. proc[p] = "starting" => status'[j] \notin ActiveStatus
        BY <2>1, <2>4, <3>1, <3>3 DEF ActiveStatus
      <4>. QED  BY <2>1, <2>2, <3>1, <3>3, <4>1, <4>2
    <3>. QED  BY <3>2, <3>3
  <2>7. RequestsNameRows' /\ BatchIsCurrent' /\ HandledIsErased'
    <3>1. \A i \in RequestIds : Swept(i, status')
      BY <2>1, SweptRow DEF IInv
    <3>2. \A j \in Jobs : status[j] # "none" => status'[j] # "none"
      BY <2>1
    <3>3. ASSUME NEW q \in Procs, batch[q] # {}
          PROVE  /\ proc'[q] = proc[q]
                 /\ \A j \in JobsOf(q) : /\ status'[j] = status[j]
                                         /\ controllers'[j] = controllers[j]
      <4>1. proc[q] \in {"up", "closing", "closed"}
        BY <3>3 DEF IInv, BatchIsCurrent
      <4>2. q # p
        BY <2>1, <4>1
      <4>3. \A j \in JobsOf(q) : j \in Jobs /\ j \notin orphaned
        BY <2>3, <4>1, <4>2 DEF JobsOf
      <4>. QED  BY <2>1, <4>2, <4>3 DEF IInv, TypeOK
    <3>4. UNCHANGED <<owner, asking, batch>>
      BY <2>1
    <3>. QED  BY <3>1, <3>2, <3>3, <3>4, SweepKeepsRequests
  <2>. QED  BY <1>0, <2>5, <2>6, <2>7 DEF IInv
<1>3. CASE Exit(p)
  <2>1. JobsInv'
    BY <1>3 DEF Exit, JobsOf, IInv, JobsInv, FreshIsUnknown, HeldByRunningProcess,
                RunningIsHeld, WaitingIsQueued, SelectionCoversOwn, ControllersMatchRows,
                AwaitingHasDeadline, SpokenExecIsWatched, TypeOK, OwnerOf, storeVars
  <2>2. RequestsNameRows' /\ HandledIsErased'
    BY <1>3 DEF Exit, IInv, RequestsNameRows, HandledIsErased, TypeOK, storeVars
  <2>3. ASSUME NEW q \in Procs, NEW i \in batch'[q]
        PROVE  BatchIsCurrent!(q)!(i)'
    <3>1. q # p /\ i \in batch[q]
      BY <1>3, <2>3 DEF Exit, IInv, TypeOK
    <3>2. BatchIsCurrent!(q)!(i) /\ requests[i].job \in Jobs
      BY <3>1 DEF IInv, BatchIsCurrent, TypeOK, ControlRequestRow
    <3>3. requests[i].job \notin JobsOf(p)
      BY <3>1, <3>2 DEF JobsOf
    <3>. QED  BY <1>3, <3>1, <3>2, <3>3 DEF Exit, storeVars, OwnerOf, IInv, TypeOK
  <2>. QED  BY <1>0, <2>1, <2>2, <2>3 DEF IInv, JobsInv, BatchIsCurrent
<1>4. CASE Shutdown(p)
  BY <1>4, CancelStep DEF Shutdown, IInv, TypeOK
<1>5. CASE ShutdownSweep(p)
  <2>1. JobsInv'
    BY <1>5 DEF ShutdownSweep, IInv, JobsInv, FreshIsUnknown, HeldByRunningProcess,
                RunningIsHeld, WaitingIsQueued, SelectionCoversOwn, ControllersMatchRows,
                AwaitingHasDeadline, SpokenExecIsWatched, TypeOK, OwnerOf, storeVars,
                promptVars, watchVars
  <2>2. RequestsNameRows' /\ BatchIsCurrent' /\ HandledIsErased'
    BY <1>5 DEF ShutdownSweep, Free, IInv, RequestsNameRows, BatchIsCurrent,
                HandledIsErased, TypeOK, OwnerOf, storeVars
  <2>. QED  BY <1>0, <2>1, <2>2 DEF IInv, JobsInv
<1>6. CASE enqueue(p)
  <2>. PICK id \in Jobs : enqueue(p)!2!(id)
    BY <1>6 DEF enqueue
  <2>1. /\ proc[p] \in {"up", "closing", "closed"} /\ asking[p] = {} /\ batch[p] = {}
        /\ UNCHANGED <<promptText, requests, proc, candidates, asking, batch, started,
                       pendingPrompts, abandonTimers, leakedTimers, execs, spoken,
                       pausedOrigin, pendingCheck>>
    BY <1>6 DEF enqueue, Free, procVars, promptVars, watchVars
  <2>2. /\ \A j \in Jobs \ {id} : /\ status'[j] = status[j]
                                  /\ controllers'[j] = controllers[j]
                                  /\ OwnerOf(j)' = OwnerOf(j)
        /\ status'[id] = "queued" /\ controllers'[id] = "live" /\ OwnerOf(id)' = p
    BY ProcAssumption DEF IInv, TypeOK, OwnerOf
  <2>3. /\ FreshIsUnknown' /\ RunningIsHeld' /\ WaitingIsQueued' /\ AwaitingHasDeadline'
        /\ SpokenExecIsWatched'
    BY <2>1, <2>2 DEF IInv, FreshIsUnknown, RunningIsHeld, WaitingIsQueued,
                      AwaitingHasDeadline, SpokenExecIsWatched, TypeOK
  <2>4. HeldByRunningProcess' /\ SelectionCoversOwn' /\ ControllersMatchRows'
    <3>. SUFFICES ASSUME NEW j \in Jobs
                  PROVE  /\ HeldByRunningProcess!(j)' /\ SelectionCoversOwn!(j)'
                         /\ ControllersMatchRows!(j)'
      BY DEF HeldByRunningProcess, SelectionCoversOwn, ControllersMatchRows
    <3>1. /\ HeldByRunningProcess!(j) /\ SelectionCoversOwn!(j)
          /\ ControllersMatchRows!(j)
      BY DEF IInv, HeldByRunningProcess, SelectionCoversOwn, ControllersMatchRows
    <3>2. CASE j # id
      BY <2>1, <2>2, <3>1, <3>2
    <3>3. CASE j = id
      BY <2>1, <2>2, <3>3 DEF ActiveStatus
    <3>. QED  BY <3>2, <3>3
  <2>5. RequestsNameRows' /\ HandledIsErased'
    BY <2>1, <2>2 DEF IInv, RequestsNameRows, HandledIsErased, TypeOK, ControlRequestRow
  <2>6. ASSUME NEW q \in Procs, NEW i \in batch[q]
        PROVE  BatchIsCurrent!(q)!(i)'
    <3>1. /\ BatchIsCurrent!(q)!(i) /\ requests[i].job \in Jobs
          /\ requests[i].result # "unused" => status[requests[i].job] # "none"
      BY DEF IInv, BatchIsCurrent, RequestsNameRows, TypeOK, ControlRequestRow
    <3>2. requests[i].job # id
      BY <3>1
    <3>. QED  BY <2>1, <2>2, <3>1, <3>2
  <2>. QED  BY <1>0, <2>1, <2>3, <2>4, <2>5, <2>6 DEF IInv, BatchIsCurrent
<1>7. CASE execute(p)
  <2>. DEFINE id == Head(queue[p])
  <2>1. id \in Jobs
    <3>. queue[p] \in Seq(Jobs) /\ queue[p] # <<>>
      BY <1>7 DEF execute, IInv, TypeOK
    <3>. QED  BY HeadTailProperties
  <2>2. UNCHANGED <<owner, requests, proc, candidates, asking, batch, controllers,
                    pendingPrompts, abandonTimers, leakedTimers, execs, spoken,
                    pausedOrigin, pendingCheck>>
    BY <1>7 DEF execute, procVars, promptVars, watchVars
  <2>3. CASE Skipped(id)
    <3>1. UNCHANGED <<started, status>>
      BY <1>7, <2>3 DEF execute
    <3>. HIDE DEF id
    <3>. QED  BY <1>0, <2>2, <3>1
              DEF IInv, FreshIsUnknown, HeldByRunningProcess, RunningIsHeld,
                  WaitingIsQueued, SelectionCoversOwn, RequestsNameRows, BatchIsCurrent,
                  HandledIsErased, ControllersMatchRows, AwaitingHasDeadline,
                  SpokenExecIsWatched, OwnerOf
  <2>4. CASE ~Skipped(id)
    <3>1. /\ started' = started \union {id}
          /\ status' = [status EXCEPT ![id] = "running"]
          /\ controllers[id] # "none"
      BY <1>7, <2>4 DEF execute, Skipped
    <3>. HIDE DEF id
    <3>2. /\ \A j \in Jobs \ {id} : status'[j] = status[j]
          /\ status'[id] = "running"
      BY <2>1, <3>1 DEF IInv, TypeOK
    <3>3. /\ FreshIsUnknown' /\ RunningIsHeld' /\ WaitingIsQueued'
          /\ AwaitingHasDeadline' /\ SpokenExecIsWatched'
      BY <2>1, <2>2, <3>1, <3>2
         DEF IInv, FreshIsUnknown, RunningIsHeld, WaitingIsQueued, AwaitingHasDeadline,
             SpokenExecIsWatched, TypeOK
    <3>4. /\ \A j \in Jobs : OwnerOf(j)' = OwnerOf(j)
          /\ \A j \in Jobs : j = id => proc[OwnerOf(j)] # "starting"
      BY <2>1, <2>2, <3>1 DEF OwnerOf, IInv, HeldByRunningProcess
    <3>5. HeldByRunningProcess' /\ SelectionCoversOwn' /\ ControllersMatchRows'
      BY <2>1, <2>2, <3>1, <3>2, <3>4
         DEF IInv, HeldByRunningProcess, SelectionCoversOwn, ControllersMatchRows,
             ActiveStatus
    <3>6. RequestsNameRows' /\ HandledIsErased'
      BY <2>1, <2>2, <3>2 DEF IInv, RequestsNameRows, HandledIsErased, TypeOK,
                              ControlRequestRow
    <3>7. ASSUME NEW q \in Procs, NEW i \in batch[q]
          PROVE  BatchIsCurrent!(q)!(i)'
      <4>1. BatchIsCurrent!(q)!(i) /\ requests[i].job \in Jobs
        BY DEF IInv, BatchIsCurrent, TypeOK, ControlRequestRow
      <4>2. status[requests[i].job] \in ActiveStatus
                => status'[requests[i].job] \in ActiveStatus
        BY <3>2, <4>1 DEF ActiveStatus
      <4>. QED  BY <2>2, <3>4, <4>1, <4>2
    <3>. QED  BY <1>0, <2>2, <3>3, <3>5, <3>6, <3>7 DEF IInv, BatchIsCurrent
  <2>. QED  BY <2>3, <2>4
<1>8. CASE InsertRequest(p)
  <2>. PICK ask \in asking[p], i \in RequestIds : InsertRequest(p)!1!(ask, i)
    BY <1>8 DEF InsertRequest
  <2>1. /\ UNCHANGED <<status, owner, promptText, proc, candidates, batch, runnerVars,
                       promptVars, watchVars>>
        /\ asking' = [asking EXCEPT ![p] = {}]
    BY <1>8 DEF InsertRequest
  <2>2. JobsInv'
    BY <2>1 DEF IInv, JobsInv, FreshIsUnknown, HeldByRunningProcess, RunningIsHeld,
                WaitingIsQueued, SelectionCoversOwn, ControllersMatchRows,
                AwaitingHasDeadline, SpokenExecIsWatched, OwnerOf, runnerVars, promptVars,
                watchVars
  <2>3. ask.job \in Jobs /\ status[ask.job] # "none"
    BY DEF IInv, TypeOK, RequestsNameRows
  <2>4. /\ \A k \in RequestIds \ {i} : requests'[k] = requests[k]
        /\ requests'[i].job = ask.job /\ requests'[i].result = "pending"
    BY DEF IInv, TypeOK
  <2>5. HandledIsErased'
    BY <2>4 DEF IInv, HandledIsErased
  <2>6. RequestsNameRows'
    BY <2>1, <2>3, <2>4 DEF IInv, RequestsNameRows, TypeOK
  <2>7. ASSUME NEW q \in Procs, NEW k \in batch[q]
        PROVE  BatchIsCurrent!(q)!(k)'
    <3>1. BatchIsCurrent!(q)!(k) /\ k \in RequestIds
      BY DEF IInv, BatchIsCurrent, TypeOK
    <3>2. k # i
      BY <3>1
    <3>. QED  BY <2>1, <2>4, <3>1, <3>2 DEF OwnerOf, runnerVars
  <2>. QED  BY <1>0, <2>1, <2>2, <2>5, <2>6, <2>7 DEF IInv, JobsInv, BatchIsCurrent
<1>9. CASE Poll(p)
  <2>1. /\ UNCHANGED <<status, owner, promptText, proc, candidates, asking, runnerVars,
                       promptVars, watchVars>>
        /\ requests' = closeStaleControlRequests(status)
        /\ batch' = [batch EXCEPT ![p] =
                {i \in RequestIds : /\ requests'[i].result = "pending"
                                    /\ OwnerOf(requests'[i].job) = p}]
        /\ proc[p] \in {"up", "closing", "closed"} /\ batch[p] = {}
    BY <1>9 DEF Poll, Free
  <2>2. JobsInv'
    BY <2>1 DEF IInv, JobsInv, FreshIsUnknown, HeldByRunningProcess, RunningIsHeld,
                WaitingIsQueued, SelectionCoversOwn, ControllersMatchRows,
                AwaitingHasDeadline, SpokenExecIsWatched, OwnerOf, runnerVars, promptVars,
                watchVars
  <2>3. \A i \in RequestIds : Swept(i, status)
    BY <2>1, SweptRow DEF IInv
  <2>4. \A i \in RequestIds : /\ requests[i].job \in Jobs
                              /\ requests'[i].job = requests[i].job
                              /\ requests[i].result = "unused"
                                    => requests'[i].result = "unused"
                              /\ requests'[i].result \in {"applied", "not-applicable"}
                                    => ~requests'[i].text
    BY <2>3, SweptFields
  <2>5. HandledIsErased'
    BY <2>4 DEF HandledIsErased
  <2>6. RequestsNameRows'
    BY <2>1, <2>4 DEF IInv, RequestsNameRows
  <2>7. ASSUME NEW q \in Procs, NEW k \in batch'[q]
        PROVE  BatchIsCurrent!(q)!(k)'
    <3>. DEFINE id == requests[k].job
    <3>1. /\ k \in RequestIds /\ OwnerOf(id) = q
          /\ proc[q] \in {"up", "closing", "closed"}
      <4>1. CASE q = p
        BY <2>1, <2>4, <2>7, <4>1 DEF IInv, TypeOK
      <4>2. CASE q # p
        BY <2>1, <2>7, <4>2 DEF IInv, TypeOK, BatchIsCurrent
      <4>. QED  BY <4>1, <4>2
    <3>2. OwnerOf(id)' = q /\ requests'[k].job = id /\ id \in Jobs
      BY <2>1, <2>4, <3>1 DEF OwnerOf
    <3>3. ~OwnerIsDead(id)
      BY <3>1 DEF OwnerIsDead, isPidAlive
    <3>4. Swept(k, status)
      BY <2>3, <3>1
    <3>5. CASE q = p
      <4>1. requests'[k].result = "pending" /\ requests'[k] = requests[k]
        <5>1. requests'[k].result = "pending"
          BY <2>1, <2>7, <3>5 DEF IInv, TypeOK
        <5>2. Handled(requests[k], "not-applicable").result = "not-applicable"
          BY DEF Handled
        <5>. QED  BY <5>1, <5>2, <3>4 DEF Swept
      <4>2. controllers[id] # "none" => status[id] \in ActiveStatus
        <5>1. requests[k].result = "pending"
          BY <4>1
        <5>2. requests' = closeStaleControlRequests(status)
          BY <2>1
        <5>3. status[id] \notin TerminalStatus
          BY <3>1, <4>1, <5>1, <5>2 DEF closeStaleControlRequests, Handled
        <5>4. status[id] # "none"
          BY <3>1, <5>1 DEF IInv, RequestsNameRows
        <5>. QED  BY <3>2, <5>3, <5>4 DEF IInv, TypeOK, JobStatus
      <4>. QED  BY <2>1, <3>1, <3>2, <4>1, <4>2 DEF runnerVars
    <3>6. CASE q # p
      <4>1. k \in batch[q]
        BY <2>1, <2>7, <3>6 DEF IInv, TypeOK
      <4>2. /\ requests[k].result \in {"pending", "not-applicable"}
            /\ controllers[id] # "none"
                => status[id] \in ActiveStatus /\ requests[k].result = "pending"
        BY <4>1 DEF IInv, BatchIsCurrent
      <4>3. controllers[id] # "none" => requests'[k] = requests[k]
        BY <3>3, <3>4, <4>2 DEF Swept, ActiveStatus, TerminalStatus
      <4>4. requests'[k].result \in {"pending", "not-applicable"}
        <5>1. CASE requests'[k] = requests[k]
          BY <4>2, <5>1
        <5>2. CASE requests'[k] = Handled(requests[k], "not-applicable")
          BY <5>2 DEF Handled
        <5>. QED  BY <3>4, <5>1, <5>2 DEF Swept
      <4>. QED  BY <2>1, <3>1, <3>2, <4>2, <4>3, <4>4 DEF runnerVars
    <3>. QED  BY <3>5, <3>6
  <2>. QED  BY <1>0, <2>2, <2>5, <2>6, <2>7 DEF IInv, JobsInv, BatchIsCurrent
<1>10. CASE ApplyRequest(p)
  <2>. PICK i \in batch[p] : ApplyRequest(p)!1!(i)
    BY <1>10 DEF ApplyRequest
  <2>. DEFINE id == requests[i].job
  <2>1. /\ UNCHANGED <<proc, candidates, asking>>
        /\ batch' = [batch EXCEPT ![p] = @ \ {i}]
    BY <1>10 DEF ApplyRequest
  <2>2. /\ i \in RequestIds /\ id \in Jobs /\ id \in JobsOf(p)
        /\ proc[p] \in {"up", "closing", "closed"}
        /\ controllers[id] # "none" => status[id] \in ActiveStatus
    BY DEF IInv, BatchIsCurrent, TypeOK, ControlRequestRow, JobsOf
  <2>3. CASE /\ controllers[id] # "none"
             /\ CancelJobs(p, {id})
             /\ requests' = [CancelledRequests(p, {id}) EXCEPT ![i] =
                                Handled(@, "applied")]
             /\ abandonTimers' = abandonTimers \ Unstarted({id})
    <3>. DEFINE fin == Unstarted({id})
                hit == Held({id}) \intersect started
                table == CancelledRequests(p, {id})
    <3>1. Settle(p, fin, hit, "cancelled") /\ "cancelled" \in TerminalStatus
      BY <2>3 DEF CancelJobs, TerminalStatus
    <3>2. fin \subseteq JobsOf(p) \ execs /\ hit \subseteq started
      BY <2>2 DEF Unstarted, Held, IInv, RunningIsHeld
    <3>3. \A j \in abandonTimers \ abandonTimers' :
                j \in fin \union hit \/ controllers[j] = "none"
      BY <2>3
    <3>4. JobsInv'
      <4>. HIDE DEF fin, hit
      <4>1. \A q \in Procs : \/ proc'[q] = proc[q]
                             \/ proc[q] = "up" /\ proc'[q] = "closing"
        BY <2>1
      <4>. QED  BY <2>1, <2>2, <3>1, <3>2, <3>3, <4>1, SettleKeepsJobs
    <3>5. status' = [j \in Jobs |-> IF j \in fin THEN "cancelled" ELSE status[j]]
          /\ UNCHANGED owner
          /\ controllers' = [j \in Jobs |-> IF j \in fin THEN "none"
                                            ELSE IF j \in hit THEN "aborted"
                                            ELSE controllers[j]]
      BY <3>1 DEF Settle
    <3>6. /\ table = requests \/ table = closeStaleControlRequests(status')
          /\ table \in [RequestIds -> ControlRequestRow]
      <4>1. table \in [RequestIds -> ControlRequestRow]
        BY <3>1, <3>2, SettleType DEF CancelledRequests, IInv, JobsOf
      <4>. QED  BY <3>5, <4>1 DEF CancelledRequests, SettledRequests
    <3>7. /\ requests'[i] = Handled(table[i], "applied")
          /\ \A k \in RequestIds \ {i} : requests'[k] = table[k]
          /\ table[i].job = requests[i].job
      <4>1. requests' = [table EXCEPT ![i] = Handled(@, "applied")]
        BY <2>3
      <4>2. table[i].job = requests[i].job
        <5>1. closeStaleControlRequests(status')[i].job = requests[i].job
          BY <2>2 DEF closeStaleControlRequests, Handled
        <5>. QED  BY <3>6, <5>1
      <4>. HIDE DEF table
      <4>. QED  BY <2>2, <3>6, <4>1, <4>2
    <3>8. \A k \in RequestIds \ {i} : Swept(k, status')
      <4>. HIDE DEF table
      <4>. QED  BY <3>6, <3>7 DEF Swept, closeStaleControlRequests
    <3>9. /\ requests'[i].job = requests[i].job /\ ~requests'[i].text
          /\ requests'[i].result \in {"applied", "not-applicable"}
      <4>. HIDE DEF table
      <4>. QED  BY <3>7 DEF Handled
    <3>10. /\ \A j \in Jobs : status[j] # "none" => status'[j] # "none"
           /\ \A j \in Jobs : controllers'[j] # "none" =>
                /\ controllers[j] # "none"
                /\ status[j] \in ActiveStatus => status'[j] \in ActiveStatus
      BY <3>5 DEF Held
    <3>. HIDE DEF fin, hit, table
    <3>11. RequestsNameRows' /\ BatchIsCurrent' /\ HandledIsErased'
      BY <2>1, <3>5, <3>8, <3>9, <3>10, VerdictKeepsRequests
    <3>. QED  BY <1>0, <3>4, <3>11 DEF IInv, JobsInv
  <2>4. CASE /\ controllers[id] # "none"
             /\ ClearPrompt(id)
             /\ requests' = [requests EXCEPT ![i] = Handled(@, "applied")]
    <3>1. JobsInv'
      BY <2>1, <2>2, <2>4, ResumeKeepsJobs DEF ClearPrompt
    <3>2. status' = [status EXCEPT ![id] = "running"] /\ UNCHANGED <<owner, controllers>>
      BY <2>4 DEF ClearPrompt, Resume, runnerVars
    <3>3. /\ requests'[i] = Handled(requests[i], "applied")
          /\ \A k \in RequestIds \ {i} : Swept(k, status')
      BY <2>2, <2>4 DEF Swept, IInv, TypeOK
    <3>4. /\ requests'[i].job = requests[i].job /\ ~requests'[i].text
          /\ requests'[i].result \in {"applied", "not-applicable"}
      BY <3>3 DEF Handled
    <3>5. /\ \A j \in Jobs : status[j] # "none" => status'[j] # "none"
          /\ \A j \in Jobs : controllers'[j] # "none" =>
                /\ controllers[j] # "none"
                /\ status[j] \in ActiveStatus => status'[j] \in ActiveStatus
      BY <2>2, <3>2 DEF IInv, TypeOK, ActiveStatus
    <3>6. RequestsNameRows' /\ BatchIsCurrent' /\ HandledIsErased'
      BY <2>1, <3>2, <3>3, <3>4, <3>5, VerdictKeepsRequests
    <3>. QED  BY <1>0, <3>1, <3>6 DEF IInv, JobsInv
  <2>5. CASE /\ requests' = [requests EXCEPT ![i] = Handled(@, "not-applicable")]
             /\ UNCHANGED <<status, owner, promptText, runnerVars, promptVars, watchVars>>
    <3>1. JobsInv'
      BY <2>1, <2>5
         DEF IInv, JobsInv, FreshIsUnknown, HeldByRunningProcess, RunningIsHeld,
             WaitingIsQueued, SelectionCoversOwn, ControllersMatchRows,
             AwaitingHasDeadline, SpokenExecIsWatched, OwnerOf, runnerVars, promptVars,
             watchVars
    <3>2. /\ requests'[i] = Handled(requests[i], "not-applicable")
          /\ \A k \in RequestIds \ {i} : Swept(k, status')
      BY <2>2, <2>5 DEF Swept, IInv, TypeOK
    <3>3. /\ requests'[i].job = requests[i].job /\ ~requests'[i].text
          /\ requests'[i].result \in {"applied", "not-applicable"}
      BY <3>2 DEF Handled
    <3>4. UNCHANGED <<status, owner, controllers>>
      BY <2>5 DEF runnerVars
    <3>5. RequestsNameRows' /\ BatchIsCurrent' /\ HandledIsErased'
      BY <2>1, <3>2, <3>3, <3>4, VerdictKeepsRequests
    <3>. QED  BY <1>0, <3>1, <3>5 DEF IInv, JobsInv
  <2>. QED  BY <2>3, <2>4, <2>5
<1>. QED  BY <1>1, <1>2, <1>3, <1>4, <1>5, <1>6, <1>7, <1>8, <1>9, <1>10 DEF ProcStep

\* Every step of a job preserves the invariant.
LEMMA JobStepInv ==
    ASSUME IInv, [Next]_vars, NEW p \in Procs, NEW id \in Jobs, JobStep(p, id)
    PROVE  IInv'
<1>0. TypeOK'
  BY TypeStep DEF IInv
<1>1. CASE RunEnds(p, id)
  <2>1. PICK st \in TerminalStatus :
          Settle(p, {id}, {}, st) /\ requests' = SettledRequests(p, {id}, st)
    BY <1>1 DEF RunEnds, TerminalStatus
  <2>2. /\ Free(p) /\ {id} \subseteq JobsOf(p) \ execs
        /\ UNCHANGED <<proc, candidates, asking, batch>>
        /\ \A j \in abandonTimers \ abandonTimers' : j \in {id}
    BY <1>1 DEF RunEnds, procVars
  <2>. QED  BY <2>1, <2>2, SettleStep
<1>2. CASE ExecStart(p, id)
  <2>1. JobsInv'
    BY <1>2 DEF ExecStart, IInv, JobsInv, FreshIsUnknown, HeldByRunningProcess,
                RunningIsHeld, WaitingIsQueued, SelectionCoversOwn, ControllersMatchRows,
                AwaitingHasDeadline, SpokenExecIsWatched, TypeOK, OwnerOf, storeVars,
                procVars, runnerVars, promptVars
  <2>2. RequestsNameRows' /\ BatchIsCurrent' /\ HandledIsErased'
    BY <1>2 DEF ExecStart, IInv, RequestsNameRows, BatchIsCurrent, HandledIsErased,
                OwnerOf, storeVars, procVars, runnerVars
  <2>. QED  BY <1>0, <2>1, <2>2 DEF IInv, JobsInv
<1>3. CASE ExecEnd(p, id)
  <2>1. JobsInv'
    BY <1>3 DEF ExecEnd, IInv, JobsInv, FreshIsUnknown, HeldByRunningProcess,
                RunningIsHeld, WaitingIsQueued, SelectionCoversOwn, ControllersMatchRows,
                AwaitingHasDeadline, SpokenExecIsWatched, TypeOK, OwnerOf, storeVars,
                procVars, runnerVars
  <2>2. RequestsNameRows' /\ BatchIsCurrent' /\ HandledIsErased'
    BY <1>3 DEF ExecEnd, IInv, RequestsNameRows, BatchIsCurrent, HandledIsErased,
                OwnerOf, storeVars, procVars, runnerVars
  <2>. QED  BY <1>0, <2>1, <2>2 DEF IInv, JobsInv
<1>4. CASE Output(p, id)
  <2>1. /\ Free(p) /\ id \in execs /\ id \in JobsOf(p)
        /\ spoken' = spoken \union {id}
        /\ UNCHANGED <<requests, proc, candidates, asking, batch>>
    BY <1>4 DEF Output, procVars
  <2>2. CASE Resume(id)
    <3>1. JobsInv'
      BY <2>1, <2>2, ResumeKeepsJobs DEF Free
    <3>2. /\ UNCHANGED <<owner, controllers>>
          /\ status' = [status EXCEPT ![id] = "running"]
      BY <2>2 DEF Resume, runnerVars
    <3>3. RequestsNameRows' /\ BatchIsCurrent' /\ HandledIsErased'
      BY <2>1, <3>2, OneJobTouched
    <3>. QED  BY <1>0, <3>1, <3>3 DEF IInv, JobsInv
  <2>3. CASE /\ pendingCheck' = [pendingCheck EXCEPT ![id] = 1]
             /\ UNCHANGED <<status, owner, promptText, runnerVars, promptVars, execs,
                            pausedOrigin>>
    <3>1. JobsInv'
      BY <2>1, <2>3
         DEF IInv, JobsInv, FreshIsUnknown, HeldByRunningProcess, RunningIsHeld,
             WaitingIsQueued, SelectionCoversOwn, ControllersMatchRows,
             AwaitingHasDeadline, SpokenExecIsWatched, TypeOK, OwnerOf, runnerVars,
             promptVars
    <3>2. RequestsNameRows' /\ BatchIsCurrent' /\ HandledIsErased'
      BY <2>1, <2>3 DEF IInv, RequestsNameRows, BatchIsCurrent, HandledIsErased, OwnerOf,
                        runnerVars
    <3>. QED  BY <1>0, <3>1, <3>2 DEF IInv, JobsInv
  <2>. QED  BY <1>4, <2>2, <2>3 DEF Output
<1>5. CASE Check(p, id)
  <2>1. /\ Free(p) /\ id \in JobsOf(p) /\ pendingCheck[id] # 0
        /\ UNCHANGED <<owner, requests, proc, candidates, asking, batch, queue, poller,
                       controllers, started, execs, spoken>>
    BY <1>5 DEF Check, procVars, runnerVars
  <2>2. \A j \in Jobs : OwnerOf(j)' = OwnerOf(j)
    BY <2>1 DEF OwnerOf
  <2>3. /\ id \in Watched /\ status[id] # "none"
        /\ controllers[id] # "none" => id \in started
    BY <2>1 DEF IInv, WaitingIsQueued, FreshIsUnknown
  <2>4. CASE \E origin \in PromptOrigin : Fire(id, origin)
    <3>1. /\ status' = [status EXCEPT ![id] = "awaiting_input"]
          /\ pendingPrompts'[id] = (IF id \in execs THEN "open" ELSE "closed")
          /\ id \in abandonTimers' /\ pendingCheck'[id] = 0
          /\ \A j \in Jobs \ {id} : /\ status'[j] = status[j]
                                    /\ pendingCheck'[j] = pendingCheck[j]
                                    /\ pendingPrompts'[j] = pendingPrompts[j]
                                    /\ j \in abandonTimers <=> j \in abandonTimers'
      BY <2>4 DEF Fire, IInv, TypeOK
    <3>2. status'[id] = "awaiting_input"
      BY <3>1 DEF IInv, TypeOK
    <3>3. FreshIsUnknown' /\ RunningIsHeld' /\ WaitingIsQueued' /\ AwaitingHasDeadline'
      BY <2>1, <2>3, <3>1, <3>2
         DEF IInv, FreshIsUnknown, RunningIsHeld, WaitingIsQueued, AwaitingHasDeadline
    <3>4. SpokenExecIsWatched'
      BY <2>1, <3>1, ZenonT(60) DEF IInv, SpokenExecIsWatched, RunningIsHeld, TypeOK
    <3>5. HeldByRunningProcess' /\ SelectionCoversOwn' /\ ControllersMatchRows'
      <4>. SUFFICES ASSUME NEW j \in Jobs
                    PROVE  /\ HeldByRunningProcess!(j)' /\ SelectionCoversOwn!(j)'
                           /\ ControllersMatchRows!(j)'
        BY DEF HeldByRunningProcess, SelectionCoversOwn, ControllersMatchRows
      <4>1. /\ HeldByRunningProcess!(j) /\ SelectionCoversOwn!(j)
            /\ ControllersMatchRows!(j)
        BY DEF IInv, HeldByRunningProcess, SelectionCoversOwn, ControllersMatchRows
      <4>2. CASE j # id
        BY <2>1, <2>2, <3>1, <4>1, <4>2
      <4>3. CASE j = id
        BY <2>1, <2>2, <2>3, <3>2, <4>1, <4>3 DEF ActiveStatus, JobsOf, Free
      <4>. QED  BY <4>2, <4>3
    <3>6. RequestsNameRows' /\ BatchIsCurrent' /\ HandledIsErased'
      BY <2>1, <3>1, OneJobTouched
    <3>. QED  BY <1>0, <3>3, <3>4, <3>5, <3>6 DEF IInv
  <2>5. CASE NextTier(id) /\ UNCHANGED <<status, promptText, promptVars, pausedOrigin>>
    <3>1. /\ pendingCheck'[id] # 0
          /\ \A j \in Jobs \ {id} : pendingCheck'[j] = pendingCheck[j]
          /\ UNCHANGED <<status, pendingPrompts, abandonTimers>>
      <4>1. pendingCheck[id] \in 0..3
        BY DEF IInv, TypeOK
      <4>2. pendingCheck[id] + 1 # 0
        BY <4>1
      <4>. QED  BY <2>5, <4>2 DEF NextTier, IInv, TypeOK, promptVars
    <3>2. JobsInv'
      BY <2>1, <2>2, <2>3, <3>1
         DEF IInv, JobsInv, FreshIsUnknown, HeldByRunningProcess, RunningIsHeld,
             WaitingIsQueued, SelectionCoversOwn, ControllersMatchRows,
             AwaitingHasDeadline, SpokenExecIsWatched, TypeOK
    <3>3. RequestsNameRows' /\ BatchIsCurrent' /\ HandledIsErased'
      BY <2>1, <3>1 DEF IInv, RequestsNameRows, BatchIsCurrent, HandledIsErased, OwnerOf
    <3>. QED  BY <1>0, <3>2, <3>3 DEF IInv, JobsInv
  <2>. QED  BY <1>5, <2>4, <2>5 DEF Check, PromptOrigin
<1>6. CASE Abandon(p, id)
  BY <1>6, CancelStep DEF Abandon, procVars
<1>7. CASE AbandonLeaked(p, id)
  BY <1>7, CancelStep DEF AbandonLeaked, procVars
<1>8. ASSUME NEW action \in ControlAction, ControlOwn(p, id, action)
      PROVE  IInv'
  <2>1. Free(p) /\ id \in JobsOf(p) /\ UNCHANGED <<proc, candidates, asking, batch>>
    BY <1>8 DEF ControlOwn, procVars
  <2>2. CASE /\ CancelJobs(p, {id})
             /\ requests' = CancelledRequests(p, {id})
             /\ abandonTimers' = abandonTimers \ Unstarted({id})
    BY <2>1, <2>2, CancelStep
  <2>3. CASE ClearPrompt(id) /\ UNCHANGED requests
    <3>1. JobsInv'
      BY <2>1, <2>3, ResumeKeepsJobs DEF Free, ClearPrompt
    <3>2. /\ UNCHANGED <<owner, controllers>>
          /\ status' = [status EXCEPT ![id] = "running"]
      BY <2>3 DEF ClearPrompt, Resume, runnerVars
    <3>3. RequestsNameRows' /\ BatchIsCurrent' /\ HandledIsErased'
      BY <2>1, <2>3, <3>2, OneJobTouched
    <3>. QED  BY <1>0, <3>1, <3>3 DEF IInv, JobsInv
  <2>. QED  BY <1>8, <2>2, <2>3 DEF ControlOwn
<1>9. ASSUME NEW action \in ControlAction, Ask(p, id, action)
      PROVE  IInv'
  <2>1. /\ UNCHANGED <<storeVars, proc, candidates, batch, runnerVars, promptVars,
                       watchVars>>
        /\ asking' = [asking EXCEPT ![p] = {[job |-> id, action |-> action]}]
        /\ actionApplies(status[id], action) /\ Free(p)
    BY <1>9 DEF Ask
  <2>2. JobsInv'
    BY <2>1 DEF IInv, JobsInv, FreshIsUnknown, HeldByRunningProcess, RunningIsHeld,
                WaitingIsQueued, SelectionCoversOwn, ControllersMatchRows,
                AwaitingHasDeadline, SpokenExecIsWatched, OwnerOf, storeVars, runnerVars,
                promptVars, watchVars
  <2>3. status[id] # "none"
    BY <2>1 DEF actionApplies, ActiveStatus
  <2>4. \A q \in Procs : \A ask \in asking'[q] : status[ask.job] # "none"
    BY <2>1, <2>3 DEF IInv, TypeOK, RequestsNameRows
  <2>5. RequestsNameRows' /\ BatchIsCurrent' /\ HandledIsErased'
    BY <2>1, <2>4 DEF IInv, RequestsNameRows, BatchIsCurrent, HandledIsErased, OwnerOf,
                      storeVars, runnerVars
  <2>. QED  BY <1>0, <2>2, <2>5 DEF IInv, JobsInv
<1>. QED  BY <1>1, <1>2, <1>3, <1>4, <1>5, <1>6, <1>7, <1>8, <1>9 DEF JobStep

\* The invariant is inductive.
LEMMA InvStep == IInv /\ [Next]_vars => IInv'
<1>. SUFFICES ASSUME IInv, [Next]_vars PROVE IInv'
  OBVIOUS
<1>1. CASE UNCHANGED vars
  BY <1>1 DEF vars, storeVars, procVars, runnerVars, promptVars, watchVars, IInv, TypeOK,
              FreshIsUnknown, HeldByRunningProcess, RunningIsHeld, WaitingIsQueued,
              SelectionCoversOwn, RequestsNameRows, BatchIsCurrent, HandledIsErased,
              ControllersMatchRows, AwaitingHasDeadline, SpokenExecIsWatched, OwnerOf
<1>2. CASE Next
  BY <1>2, ProcStepInv, JobStepInv DEF Next
<1>. QED  BY <1>1, <1>2

\* The invariant holds of an upgraded database no process has opened yet.
LEMMA InitInv == Init => IInv
<1>. SUFFICES ASSUME Init PROVE IInv
  OBVIOUS
<1>1. TypeOK
  BY BoundAssumption
     DEF Init, TypeOK, Jobs, JobStatus, ControlRequestRow, ControlAction, ProcState
<1>2. /\ FreshIsUnknown /\ HeldByRunningProcess /\ RunningIsHeld /\ WaitingIsQueued
      /\ AwaitingHasDeadline /\ SpokenExecIsWatched /\ RequestsNameRows
      /\ BatchIsCurrent /\ HandledIsErased
  BY DEF Init, FreshIsUnknown, HeldByRunningProcess, RunningIsHeld, WaitingIsQueued,
         AwaitingHasDeadline, SpokenExecIsWatched, RequestsNameRows, BatchIsCurrent,
         HandledIsErased
<1>3. SelectionCoversOwn /\ ControllersMatchRows
  BY ProcAssumption DEF Init, SelectionCoversOwn, ControllersMatchRows, OwnerOf
<1>. QED  BY <1>1, <1>2, <1>3 DEF IInv

\* Every reachable state satisfies the invariant.
LEMMA Invariance == Spec => []IInv
BY InitInv, InvStep, PTL DEF Spec

-----------------------------------------------------------------------------
(* What follows from it. *)

\* For any number of processes sharing the store, crashing, restarting and
\* sweeping at any moment: while a process serves, the controllers in its
\* memory and the active rows it owns are the same jobs.
THEOREM RunnerAgreesWithStore == Spec => []ControllersMatchRows
<1>1. IInv => ControllersMatchRows
  BY DEF IInv
<1>. QED  BY <1>1, Invariance, PTL

\* Every prompt the runner holds can be answered and has its abandon timer,
\* through every order of pauses, answers, execs and cancellations.
THEOREM PromptsAreBounded == Spec => []AwaitingHasDeadline
<1>1. IInv => AwaitingHasDeadline
  BY DEF IInv
<1>. QED  BY <1>1, Invariance, PTL

\* No exec that has printed something is left without a check or a prompt.
THEOREM ExecsAreWatched == Spec => []SpokenExecIsWatched
<1>1. IInv => SpokenExecIsWatched
  BY DEF IInv
<1>. QED  BY <1>1, Invariance, PTL

\* What one job may not go through in a step.
KeptOnCourse(j) ==
    /\ status[j] # "interrupted" /\ status'[j] = "interrupted"
        => controllers[j] = "none" \/ proc[OwnerOf(j)] = "sweeping"
    /\ status[j] = "cancelled" /\ j \notin started => j \notin started'

\* Finishing and aborting jobs interrupts none and starts none.
LEMMA SettleKeepsCourse ==
    ASSUME NEW p, NEW fin, NEW hit, NEW st, Settle(p, fin, hit, st), st # "interrupted"
    PROVE  \A j \in Jobs : KeptOnCourse(j)
BY DEF Settle, KeptOnCourse

\* Nor does any step interrupt a held job or start a cancelled one.
LEMMA StepKeepsCourse ==
    ASSUME IInv, [Next]_vars
    PROVE  \A j \in Jobs : KeptOnCourse(j)
<1>1. CASE UNCHANGED vars
  BY <1>1 DEF vars, storeVars, runnerVars, KeptOnCourse
<1>2. ASSUME NEW p \in Procs, ProcStep(p) PROVE \A j \in Jobs : KeptOnCourse(j)
  <2>1. CASE Boot(p) \/ Exit(p) \/ ShutdownSweep(p) \/ InsertRequest(p) \/ Poll(p)
    BY <2>1 DEF Boot, Exit, ShutdownSweep, InsertRequest, Poll, KeptOnCourse, storeVars,
                runnerVars
  <2>2. CASE Reconcile(p)
    <3>1. ASSUME NEW j \in Jobs, status[j] # "interrupted", status'[j] = "interrupted"
          PROVE  controllers[j] = "none" \/ proc[OwnerOf(j)] = "sweeping"
      <4>1. isOrphanFor(j, p) /\ proc[p] \in {"starting", "sweeping"}
        BY <2>2, <3>1 DEF Reconcile
      <4>2. proc[OwnerOf(j)] \in {"starting", "sweeping", "down"}
        BY <4>1 DEF isOrphanFor, OwnerIsDead, isPidAlive
      <4>. QED  BY <4>2 DEF IInv, HeldByRunningProcess
    <3>. QED  BY <2>2, <3>1 DEF Reconcile, KeptOnCourse, runnerVars
  <2>3. CASE Shutdown(p)
    BY <2>3, SettleKeepsCourse DEF Shutdown, CancelJobs
  <2>4. CASE enqueue(p)
    BY <2>4 DEF enqueue, KeptOnCourse, IInv, TypeOK
  <2>5. CASE execute(p)
    <3>. DEFINE id == Head(queue[p])
    <3>1. CASE Skipped(id)
      BY <2>5, <3>1 DEF execute, KeptOnCourse
    <3>2. CASE ~Skipped(id)
      <4>1. /\ started' = started \union {id}
            /\ status' = [status EXCEPT ![id] = "running"]
            /\ controllers[id] # "none"
        BY <2>5, <3>2 DEF execute, Skipped
      <4>. HIDE DEF id
      <4>. QED  BY <4>1 DEF KeptOnCourse, IInv, TypeOK, WaitingIsQueued
    <3>. QED  BY <3>1, <3>2
  <2>6. CASE ApplyRequest(p)
    <3>1. PICK i \in batch[p] : ApplyRequest(p)!1!(i)
      BY <2>6 DEF ApplyRequest
    <3>2. CASE CancelJobs(p, {requests[i].job})
      BY <3>2, SettleKeepsCourse DEF CancelJobs
    <3>3. CASE ClearPrompt(requests[i].job)
      BY <3>3 DEF ClearPrompt, Resume, KeptOnCourse, IInv, TypeOK, runnerVars
    <3>4. CASE UNCHANGED <<status, runnerVars>>
      BY <3>4 DEF KeptOnCourse, runnerVars
    <3>. QED  BY <3>1, <3>2, <3>3, <3>4
  <2>. QED  BY <1>2, <2>1, <2>2, <2>3, <2>4, <2>5, <2>6 DEF ProcStep
<1>3. ASSUME NEW p \in Procs, NEW id \in Jobs, JobStep(p, id)
      PROVE  \A j \in Jobs : KeptOnCourse(j)
  <2>1. CASE RunEnds(p, id)
    BY <2>1, SettleKeepsCourse DEF RunEnds
  <2>2. CASE ExecStart(p, id) \/ ExecEnd(p, id)
             \/ \E action \in ControlAction : Ask(p, id, action)
    BY <2>2 DEF ExecStart, ExecEnd, Ask, KeptOnCourse, storeVars, runnerVars
  <2>3. CASE Output(p, id)
    BY <2>3 DEF Output, Resume, KeptOnCourse, IInv, TypeOK, runnerVars
  <2>4. CASE Check(p, id)
    BY <2>4 DEF Check, Fire, KeptOnCourse, IInv, TypeOK, runnerVars
  <2>5. CASE Abandon(p, id) \/ AbandonLeaked(p, id)
    BY <2>5, SettleKeepsCourse DEF Abandon, AbandonLeaked, CancelJobs
  <2>6. ASSUME NEW action \in ControlAction, ControlOwn(p, id, action)
        PROVE  \A j \in Jobs : KeptOnCourse(j)
    <3>1. CASE CancelJobs(p, {id})
      BY <3>1, SettleKeepsCourse DEF CancelJobs
    <3>2. CASE ClearPrompt(id)
      BY <3>2 DEF ClearPrompt, Resume, KeptOnCourse, IInv, TypeOK, runnerVars
    <3>. QED  BY <2>6, <3>1, <3>2 DEF ControlOwn
  <2>. QED  BY <1>3, <2>1, <2>2, <2>3, <2>4, <2>5, <2>6 DEF JobStep
<1>. QED  BY <1>1, <1>2, <1>3 DEF Next

\* A verdict on a control request is never touched again.
FinalRow(i) ==
    requests[i].result \in {"applied", "not-applicable"}
        => requests'[i] = requests[i] /\ ~requests[i].text

\* A sweep leaves every verdict alone.
LEMMA SweptIsFinal ==
    ASSUME IInv, NEW i \in RequestIds, NEW st, Swept(i, st)
    PROVE  FinalRow(i)
BY DEF Swept, FinalRow, IInv, HandledIsErased

\* So does finishCleanup.
LEMMA SettledIsFinal ==
    ASSUME IInv, NEW p, NEW fin, NEW hit, NEW st, Settle(p, fin, hit, st),
           requests' = SettledRequests(p, fin, st)
    PROVE  \A i \in RequestIds : FinalRow(i)
BY SettledAreSwept, SweptIsFinal

\* And so does every step: a pass that comes to a row another process swept
\* meanwhile writes the verdict the row already has.
LEMMA StepKeepsVerdicts ==
    ASSUME IInv, [Next]_vars
    PROVE  \A i \in RequestIds : FinalRow(i)
<1>0. \A i \in RequestIds : requests'[i] = requests[i] => FinalRow(i)
  BY DEF FinalRow, IInv, HandledIsErased
<1>1. CASE UNCHANGED vars
  BY <1>0, <1>1 DEF vars, storeVars
<1>2. ASSUME NEW p \in Procs, ProcStep(p) PROVE \A i \in RequestIds : FinalRow(i)
  <2>1. CASE Boot(p) \/ Exit(p) \/ ShutdownSweep(p) \/ enqueue(p) \/ execute(p)
    BY <1>0, <2>1 DEF Boot, Exit, ShutdownSweep, enqueue, execute, storeVars
  <2>2. CASE Reconcile(p) \/ Poll(p)
    <3>1. PICK st : requests' = closeStaleControlRequests(st)
      BY <2>2 DEF Reconcile, Poll
    <3>. QED  BY <3>1, SweptRow, SweptIsFinal DEF IInv
  <2>3. CASE Shutdown(p)
    BY <2>3, SettledIsFinal DEF Shutdown, CancelJobs, CancelledRequests
  <2>4. CASE InsertRequest(p)
    <3>1. PICK ask \in asking[p], k \in RequestIds : InsertRequest(p)!1!(ask, k)
      BY <2>4 DEF InsertRequest
    <3>2. \A i \in RequestIds \ {k} : requests'[i] = requests[i]
      BY <3>1 DEF IInv, TypeOK
    <3>3. FinalRow(k)
      BY <3>1 DEF FinalRow
    <3>. QED  BY <1>0, <3>2, <3>3
  <2>5. CASE ApplyRequest(p)
    <3>1. PICK k \in batch[p] : ApplyRequest(p)!1!(k)
      BY <2>5 DEF ApplyRequest
    <3>. DEFINE id == requests[k].job
    <3>2. k \in RequestIds /\ BatchIsCurrent!(p)!(k)
      BY DEF IInv, TypeOK, BatchIsCurrent
    <3>3. CASE /\ controllers[id] # "none"
               /\ CancelJobs(p, {id})
               /\ requests' = [CancelledRequests(p, {id}) EXCEPT ![k] =
                                    Handled(@, "applied")]
      <4>. DEFINE fin == Unstarted({id})
                  table == CancelledRequests(p, {id})
      <4>1. table = requests \/ \E st : table = closeStaleControlRequests(st)
        BY DEF CancelledRequests, SettledRequests
      <4>2. \A i \in RequestIds : table[i] = requests[i]
                                    \/ requests[i].result = "pending"
        BY <4>1 DEF closeStaleControlRequests
      <4>3. \A i \in RequestIds \ {k} : requests'[i] = table[i]
        <5>1. table \in [RequestIds -> ControlRequestRow]
          <6>1. fin \subseteq Jobs
            BY <3>2 DEF Unstarted, Held, IInv, TypeOK, ControlRequestRow
          <6>2. "cancelled" \in TerminalStatus
            BY DEF TerminalStatus
          <6>3. Settle(p, fin, Held({id}) \intersect started, "cancelled")
            BY <3>3 DEF CancelJobs
          <6>. HIDE DEF fin
          <6>4. SettledRequests(p, fin, "cancelled") \in [RequestIds -> ControlRequestRow]
            BY <6>1, <6>2, <6>3, SettleType DEF IInv
          <6>. QED  BY <6>4 DEF CancelledRequests, fin
        <5>2. requests' = [table EXCEPT ![k] = Handled(@, "applied")]
          BY <3>3
        <5>. HIDE DEF table
        <5>. QED  BY <5>1, <5>2
      <4>4. \A i \in RequestIds \ {k} : FinalRow(i)
        <5>. HIDE DEF table
        <5>. QED  BY <1>0, <4>2, <4>3 DEF FinalRow
      <4>5. FinalRow(k)
        BY <3>2, <3>3 DEF FinalRow
      <4>. QED  BY <4>4, <4>5
    <3>4. CASE /\ controllers[id] # "none"
               /\ requests' = [requests EXCEPT ![k] = Handled(@, "applied")]
      BY <1>0, <3>2, <3>4 DEF FinalRow, IInv, TypeOK
    <3>5. CASE requests' = [requests EXCEPT ![k] = Handled(@, "not-applicable")]
      <4>1. \A i \in RequestIds \ {k} : requests'[i] = requests[i]
        BY <3>5 DEF IInv, TypeOK
      <4>2. requests'[k] = Handled(requests[k], "not-applicable")
        BY <3>2, <3>5 DEF IInv, TypeOK
      <4>3. ASSUME requests[k].result \in {"applied", "not-applicable"}
            PROVE  requests'[k] = requests[k]
        <5>1. requests[k].result = "not-applicable" /\ ~requests[k].text
          BY <3>2, <4>3 DEF IInv, HandledIsErased
        <5>2. requests[k] \in ControlRequestRow
          BY <3>2 DEF IInv, TypeOK
        <5>. QED  BY <4>2, <5>1, <5>2 DEF Handled, ControlRequestRow
      <4>. QED  BY <1>0, <4>1, <4>3 DEF FinalRow
    <3>. QED  BY <3>1, <3>3, <3>4, <3>5
  <2>. QED  BY <1>2, <2>1, <2>2, <2>3, <2>4, <2>5 DEF ProcStep
<1>3. ASSUME NEW p \in Procs, NEW id \in Jobs, JobStep(p, id)
      PROVE  \A i \in RequestIds : FinalRow(i)
  <2>1. CASE RunEnds(p, id)
    BY <2>1, SettledIsFinal DEF RunEnds
  <2>2. CASE Abandon(p, id) \/ AbandonLeaked(p, id)
    BY <2>2, SettledIsFinal DEF Abandon, AbandonLeaked, CancelJobs, CancelledRequests
  <2>3. CASE ExecStart(p, id) \/ ExecEnd(p, id) \/ Output(p, id) \/ Check(p, id)
             \/ \E action \in ControlAction : Ask(p, id, action)
    BY <1>0, <2>3 DEF ExecStart, ExecEnd, Output, Check, Ask, storeVars
  <2>4. ASSUME NEW action \in ControlAction, ControlOwn(p, id, action)
        PROVE  \A i \in RequestIds : FinalRow(i)
    <3>1. CASE CancelJobs(p, {id}) /\ requests' = CancelledRequests(p, {id})
      BY <3>1, SettledIsFinal DEF CancelJobs, CancelledRequests
    <3>2. CASE UNCHANGED requests
      BY <1>0, <3>2
    <3>. QED  BY <2>4, <3>1, <3>2 DEF ControlOwn
  <2>. QED  BY <1>3, <2>1, <2>2, <2>3, <2>4 DEF JobStep
<1>. QED  BY <1>1, <1>2, <1>3 DEF Next

\* No sweep, at the boot of any process or at a shutdown, interrupts a job
\* whose runner still holds it, except the runner's own last sweep.
THEOREM LiveJobsSurviveSweeps == Spec => NeverInterruptsLiveJob
<1>1. IInv /\ [Next]_vars =>
        [\A j \in Jobs :
            status[j] # "interrupted" /\ status'[j] = "interrupted"
                => controllers[j] = "none" \/ proc[OwnerOf(j)] = "sweeping"]_vars
  BY StepKeepsCourse DEF KeptOnCourse
<1>. QED  BY <1>1, Invariance, PTL DEF Spec, NeverInterruptsLiveJob

\* A job cancelled before its turn never runs.
THEOREM CancelledStaysCancelled == Spec => CancelledInQueueNeverRuns
<1>1. IInv /\ [Next]_vars =>
        [\A j \in Jobs : status[j] = "cancelled" /\ j \notin started
            => j \notin started']_vars
  BY StepKeepsCourse DEF KeptOnCourse
<1>. QED  BY <1>1, Invariance, PTL DEF Spec, CancelledInQueueNeverRuns

\* A control request is judged once, however the owner's pass interleaves
\* with the sweeps of every other process, and its text stays erased.
THEOREM VerdictsAreFinal == Spec => VerdictIsFinal
<1>1. IInv /\ [Next]_vars =>
        [\A i \in RequestIds :
            requests[i].result \in {"applied", "not-applicable"}
                => requests'[i] = requests[i] /\ ~requests[i].text]_vars
  BY StepKeepsVerdicts DEF FinalRow
<1>. QED  BY <1>1, Invariance, PTL DEF Spec, VerdictIsFinal

=============================================================================
