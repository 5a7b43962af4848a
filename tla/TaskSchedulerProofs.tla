------------------------ MODULE TaskSchedulerProofs ------------------------
(***************************************************************************)
(* For every length of a day and every bound: a day gets no second         *)
(* scheduled run, no two runs are in progress at once, and the reported    *)
(* next run is the next one.                                               *)
(*                                                                         *)
(* The first two are not inductive.  What a start relies on is that the    *)
(* last start it loads is the latest of all the starts it has to know of:  *)
(* those recorded in the row, and those of its own process.  The row and   *)
(* the memory each bound one kind (Known), and comparing their times       *)
(* amounts to comparing their job ids because starts are ordered in time   *)
(* (Ordered).  Inv is stated over its arguments so that start-up, which    *)
(* closes orphaned jobs and then ticks in the same step, is taken in two   *)
(* halves.                                                                 *)
(***************************************************************************)
EXTENDS TaskScheduler, SequenceTheorems, TLAPS

Typed(n, r, m, b, u, js) ==
    /\ n \in Instant
    /\ r \in [tod : Minutes, enabled : BOOLEAN, last : StartedRun]
    /\ m \in StartedRun
    /\ b \in Nat
    /\ u \in BOOLEAN
    /\ js \in Seq(Run)
    /\ r.last.job <= Len(js) /\ m.job <= Len(js)

\* Starts are ordered in time and by process, none is in the future.
Ordered(n, b, js) ==
    /\ \A j, k \in DOMAIN js :
        j < k => Before(js[j].at, js[k].at) /\ js[j].boot <= js[k].boot
    /\ \A j \in DOMAIN js : ~Before(n, js[j].at) /\ js[j].boot <= b

\* The row and the memory hold real starts, the row one at least as late as
\* every recorded one, the memory the last one of its process.
Known(r, m, b, u, js) ==
    /\ r.last.job # 0 => js[r.last.job].at = r.last.at
    /\ m.job # 0 => u /\ js[m.job].at = m.at
    /\ \A j \in DOMAIN js :
        /\ js[j].recorded => j <= r.last.job
        /\ u /\ js[j].boot = b => j <= m.job

\* The only run in progress is the one the process remembers.
Active(m, b, u, js) ==
    /\ \A j, k \in DOMAIN js : js[j].active /\ js[k].active => j = k
    /\ u => \A j \in DOMAIN js : js[j].active => js[j].boot = b /\ m.job = j

Spaced(js) ==
    \A j, k \in DOMAIN js :
        (j < k /\ js[k].by = "scheduler" /\ js[j].at.day = js[k].at.day)
            => ~js[j].recorded /\ js[j].boot # js[k].boot

Inv(n, r, m, b, u, js) ==
    /\ Typed(n, r, m, b, u, js)
    /\ Ordered(n, b, js)
    /\ Known(r, m, b, u, js)
    /\ Active(m, b, u, js)
    /\ Spaced(js)

IInv == Inv(now, row, mem, boots, up, runs)

\* Later(t) is an instant, after t and on no earlier day (slotOn and the
\* Date constructor only ever move forward).
LEMMA LaterIsLater ==
    ASSUME NEW t \in Instant
    PROVE  /\ Later(t) \in Instant
           /\ Before(t, Later(t))
           /\ t.day <= Later(t).day
BY TimeAssumption DEF Later, Instant, Before, Minutes

\* The rows of the job store, one by one.
LEMMA RowsAreRuns ==
    ASSUME NEW js \in Seq(Run)
    PROVE  /\ Len(js) \in Nat
           /\ DOMAIN js = 1 .. Len(js)
           /\ \A j \in DOMAIN js :
               /\ js[j] \in Run
               /\ js[j].at \in Instant
               /\ js[j].boot \in Nat
               /\ js[j].active \in BOOLEAN
               /\ js[j].recorded \in BOOLEAN
<1>1. Len(js) \in Nat /\ DOMAIN js = 1 .. Len(js)
    OBVIOUS
<1>2. \A j \in DOMAIN js : js[j] \in Run
    BY <1>1
<1> QED BY <1>1, <1>2 DEF Run

\* loadSchedules returns a start that is at least as late as the row's and
\* the memory's, and is one of the two (scheduler.ts loadSchedules).
LEMMA LoadsTheLatest ==
    ASSUME NEW b, NEW u, NEW js,
           Typed(now, row, mem, b, u, js), Ordered(now, b, js),
           Known(row, mem, b, u, js)
    PROVE  /\ loadSchedules \in StartedRun
           /\ loadSchedules \in {row.last, mem}
           /\ loadSchedules.job <= Len(js)
           /\ loadSchedules.job >= row.last.job
           /\ loadSchedules.job >= mem.job
           /\ loadSchedules.job # 0 => js[loadSchedules.job].at = loadSchedules.at
<1>1. row.last \in StartedRun /\ mem \in StartedRun /\ js \in Seq(Run)
    BY DEF Typed
<1>2. row.last.job \in Nat /\ mem.job \in Nat /\ Len(js) \in Nat
    BY <1>1 DEF StartedRun
<1>3. row.last.job <= Len(js) /\ mem.job <= Len(js)
    BY DEF Typed
<1>4. DOMAIN js = 1 .. Len(js) /\ \A j \in 1 .. Len(js) : js[j].at \in Instant
    BY <1>1, RowsAreRuns
<1>5. ASSUME mem.job # 0, row.last.job # 0
      PROVE  mem.job > row.last.job <=> Before(row.last.at, mem.at)
    <2>1. mem.job \in DOMAIN js /\ row.last.job \in DOMAIN js
        BY <1>2, <1>3, <1>4, <1>5
    <2>2. js[mem.job].at = mem.at /\ js[row.last.job].at = row.last.at
        BY <1>5 DEF Known
    <2>3. CASE row.last.job < mem.job
        BY <2>1, <2>2, <2>3, <1>2 DEF Ordered
    <2>4. CASE mem.job < row.last.job
        <3>1. Before(mem.at, row.last.at)
            BY <2>1, <2>2, <2>4 DEF Ordered
        <3>2. mem.at \in Instant /\ row.last.at \in Instant
            BY <1>1 DEF StartedRun
        <3> QED BY <3>1, <3>2, <2>4, <1>2 DEF Before, Instant, Minutes
    <2>5. CASE mem.job = row.last.job
        BY <2>2, <2>5, <1>1, <1>2 DEF Before, StartedRun, Instant, Minutes
    <2> QED BY <2>3, <2>4, <2>5, <1>2
<1>6. CASE mem.job # 0 /\ (row.last.job = 0 \/ Before(row.last.at, mem.at))
    <2>1. loadSchedules = mem
        BY <1>6 DEF loadSchedules
    <2> QED BY <2>1, <1>1, <1>2, <1>3, <1>5, <1>6 DEF Known
<1>7. CASE ~(mem.job # 0 /\ (row.last.job = 0 \/ Before(row.last.at, mem.at)))
    <2>1. loadSchedules = row.last
        BY <1>7 DEF loadSchedules
    <2> QED BY <2>1, <1>1, <1>2, <1>3, <1>5, <1>7 DEF Known
<1> QED BY <1>6, <1>7

\* A start knows every earlier start it has to reckon with: the loaded one is
\* at least as late as each that was recorded or made by this process.
LEMMA LoadedIsKnown ==
    ASSUME NEW b, NEW js, Inv(now, row, mem, b, TRUE, js),
           NEW j \in DOMAIN js, js[j].recorded \/ js[j].boot = b
    PROVE  /\ loadSchedules.job # 0
           /\ j <= loadSchedules.job
           /\ js[j].at.day <= loadSchedules.at.day
<1>1. /\ Typed(now, row, mem, b, TRUE, js) /\ Ordered(now, b, js)
      /\ Known(row, mem, b, TRUE, js)
    BY DEF Inv
<1>2. /\ js \in Seq(Run) /\ row.last.job \in Nat /\ mem.job \in Nat
      /\ DOMAIN js = 1 .. Len(js)
    BY <1>1 DEF Typed, StartedRun
<1>3. j <= row.last.job \/ j <= mem.job
    BY <1>1 DEF Known
<1> DEFINE l == loadSchedules
<1>4. l \in StartedRun /\ l.job <= Len(js) /\ l.job >= row.last.job /\ l.job >= mem.job
        /\ (l.job # 0 => js[l.job].at = l.at)
    BY <1>1, LoadsTheLatest
<1>5. l.job \in Nat /\ j \in Nat \ {0} /\ Len(js) \in Nat
    BY <1>2, <1>4 DEF StartedRun
<1>6. l.job # 0 /\ j <= l.job /\ l.job \in DOMAIN js
    BY <1>2, <1>3, <1>4, <1>5
<1>7. js[j].at \in Instant /\ js[l.job].at \in Instant
    BY <1>2, <1>6, RowsAreRuns
<1>8. j = l.job \/ Before(js[j].at, js[l.job].at)
    BY <1>1, <1>5, <1>6 DEF Ordered
<1>9. js[j].at.day <= l.at.day
    BY <1>4, <1>6, <1>7, <1>8 DEF Before, Instant
<1> QED BY <1>6, <1>9

\* A due slot means that no start known to the process fell on the day of
\* the tick or later (slotIsDue, mostRecentSlot).
LEMMA DueIsANewDay ==
    ASSUME NEW b, NEW u, NEW js, Typed(now, row, mem, b, u, js), dueAt(now),
           loadSchedules \in StartedRun, loadSchedules.job # 0
    PROVE  loadSchedules.at.day < now.day
<1>1. now.day \in Nat /\ now.minute \in Minutes /\ row.tod \in Minutes
    BY DEF Typed, Instant
<1>2. loadSchedules.at.day \in Nat
    BY DEF StartedRun, Instant
<1> DEFINE slot == mostRecentSlot(now, row.tod)
<1>3. slot.day <= now.day /\ slot.day \in Int
    BY <1>1 DEF mostRecentSlot, slotOn
<1>4. loadSchedules.at.day < slot.day
    BY DEF dueAt, slotIsDue
<1> QED BY <1>1, <1>2, <1>3, <1>4

-----------------------------------------------------------------------------
(* Starting a run. *)

\* startRun preserves the invariant: at an instant t that is not before now,
\* over job rows for which the invariant holds, and, for the scheduler, when
\* no start it knows of fell on t's day or later.
LEMMA StartKeepsInv ==
    ASSUME NEW t \in Instant, NEW js, NEW by \in {"scheduler", "admin"},
           Inv(now, row, mem, boots', TRUE, js),
           t = now \/ Before(now, t),
           startRun(t, js, by),
           by = "scheduler" =>
               (loadSchedules.job # 0 => loadSchedules.at.day < t.day)
    PROVE  Inv(t, row', mem', boots', TRUE, runs')
<1> DEFINE b == boots'
           N == Len(js) + 1
           l == loadSchedules
<1>1. /\ Typed(now, row, mem, b, TRUE, js) /\ Ordered(now, b, js)
      /\ Known(row, mem, b, TRUE, js) /\ Active(mem, b, TRUE, js) /\ Spaced(js)
    BY DEF Inv
<1>2. PICK recorded \in BOOLEAN :
        /\ \A j \in DOMAIN js : js[j].at # t
        /\ activeJobId(l, js) = 0
        /\ runs' = Append(js, [at |-> t, by |-> by, active |-> TRUE,
                               boot |-> b, recorded |-> recorded])
        /\ mem' = [at |-> t, job |-> N]
        /\ row' = IF recorded THEN [row EXCEPT !.last = [at |-> t, job |-> N]] ELSE row
    BY DEF startRun, recordTaskRun
<1> DEFINE run == [at |-> t, by |-> by, active |-> TRUE, boot |-> b, recorded |-> recorded]
<1>3. js \in Seq(Run) /\ b \in Nat /\ now \in Instant
    BY <1>1 DEF Typed
<1>4. /\ Len(js) \in Nat /\ DOMAIN js = 1 .. Len(js)
      /\ \A j \in DOMAIN js : js[j].at \in Instant /\ js[j].boot \in Nat
    BY <1>3, RowsAreRuns
<1>5. run \in Run
    BY <1>3 DEF Run
<1>6. /\ runs' \in Seq(Run) /\ Len(runs') = N /\ DOMAIN runs' = 1 .. N
      /\ runs'[N] = run
      /\ \A j \in DOMAIN js : j \in DOMAIN runs' /\ runs'[j] = js[j]
    BY <1>2, <1>3, <1>4, <1>5
<1>7. N \in Nat \ {0} /\ DOMAIN runs' = DOMAIN js \union {N} /\ N \notin DOMAIN js
        /\ \A j \in DOMAIN js : j < N
    BY <1>4, <1>6
<1>8. \A j \in DOMAIN js : Before(js[j].at, t)
    <2> SUFFICES ASSUME NEW j \in DOMAIN js PROVE Before(js[j].at, t)
        OBVIOUS
    <2>1. ~Before(now, js[j].at) /\ js[j].at # t /\ js[j].at \in Instant
        BY <1>1, <1>2, <1>4 DEF Ordered
    <2>2. now \in Instant /\ (t = now \/ Before(now, t))
        BY <1>3
    <2>3. js[j].at = [day |-> js[j].at.day, minute |-> js[j].at.minute]
            /\ t = [day |-> t.day, minute |-> t.minute]
        BY <2>1 DEF Instant
    <2> QED BY <2>1, <2>2, <2>3 DEF Before, Instant, Minutes
<1>9. /\ l \in StartedRun /\ l \in {row.last, mem} /\ l.job <= Len(js)
      /\ l.job >= row.last.job /\ l.job >= mem.job
    BY <1>1, LoadsTheLatest
<1>10. l.job \in Nat /\ row.last.job \in Nat /\ mem.job \in Nat
    BY <1>1, <1>9 DEF StartedRun, Typed
<1>11. \A j \in DOMAIN js : ~js[j].active
    <2> SUFFICES ASSUME NEW j \in DOMAIN js, js[j].active PROVE FALSE
        OBVIOUS
    <2>1. js[j].boot = b /\ mem.job = j
        BY <1>1 DEF Active
    <2>2. j <= l.job /\ l.job # 0 /\ l.job \in DOMAIN js
        BY <2>1, <1>4, <1>9, <1>10
    <2>3. js[l.job].boot = b
        <3>1. js[l.job].boot <= b /\ js[j].boot <= js[l.job].boot
            BY <2>2, <1>1, <1>4, <1>10 DEF Ordered
        <3> QED BY <3>1, <2>1, <2>2, <1>3, <1>4
    <2>4. l.job <= mem.job
        BY <2>2, <2>3, <1>1 DEF Known
    <2>5. l.job = j
        BY <2>1, <2>2, <2>4, <1>10
    <2> QED BY <2>2, <2>5, <1>2 DEF activeJobId
<1>12. /\ row' \in [tod : Minutes, enabled : BOOLEAN, last : StartedRun]
       /\ mem' \in StartedRun /\ mem'.job = N /\ mem'.at = t
       /\ row'.last.job \in Nat
       /\ recorded => row'.last.job = N /\ row'.last.at = t
       /\ ~recorded => row'.last = row.last
       /\ row.last.job <= Len(js)
    BY <1>1, <1>2, <1>4, <1>7 DEF Typed, StartedRun
<1>13. Typed(t, row', mem', b, TRUE, runs')
    BY <1>12, <1>3, <1>4, <1>6, <1>7 DEF Typed
<1>14. Ordered(t, b, runs')
    <2>1. ASSUME NEW j \in DOMAIN runs', NEW k \in DOMAIN runs', j < k
          PROVE  Before(runs'[j].at, runs'[k].at) /\ runs'[j].boot <= runs'[k].boot
        <3>1. j \in DOMAIN js
            BY <2>1, <1>4, <1>6, <1>7
        <3>2. CASE k = N
            BY <3>1, <3>2, <1>1, <1>3, <1>6, <1>8 DEF Ordered
        <3>3. CASE k \in DOMAIN js
            BY <2>1, <3>1, <3>3, <1>1, <1>6 DEF Ordered
        <3> QED BY <3>2, <3>3, <1>7
    <2>2. ASSUME NEW j \in DOMAIN runs'
          PROVE  ~Before(t, runs'[j].at) /\ runs'[j].boot <= b
        <3>1. CASE j = N
            BY <3>1, <1>3, <1>6 DEF Before, Instant, Minutes
        <3>2. CASE j \in DOMAIN js
            <4>1. Before(js[j].at, t) /\ js[j].at \in Instant /\ runs'[j] = js[j]
                BY <3>2, <1>4, <1>6, <1>8
            <4>2. js[j].boot <= b
                BY <3>2, <1>1 DEF Ordered
            <4> QED BY <4>1, <4>2 DEF Before, Instant, Minutes
        <3> QED BY <3>1, <3>2, <1>7
    <2> QED BY <2>1, <2>2 DEF Ordered
<1>15. Known(row', mem', b, TRUE, runs')
    <2>1. row'.last.job # 0 => runs'[row'.last.job].at = row'.last.at
        <3>1. CASE recorded
            BY <3>1, <1>6, <1>12
        <3>2. CASE ~recorded /\ row.last.job # 0
            <4>1. row.last.job \in DOMAIN js
                BY <3>2, <1>4, <1>10, <1>12
            <4> QED BY <4>1, <3>2, <1>1, <1>6, <1>12 DEF Known
        <3> QED BY <3>1, <3>2, <1>12
    <2>2. runs'[mem'.job].at = mem'.at
        BY <1>6, <1>12
    <2>3. ASSUME NEW j \in DOMAIN runs'
          PROVE  (runs'[j].recorded => j <= row'.last.job) /\ j <= mem'.job
        <3>1. CASE j = N
            BY <3>1, <1>6, <1>7, <1>12
        <3>2. CASE j \in DOMAIN js
            <4>1. j < N /\ runs'[j] = js[j] /\ j \in Nat
                BY <3>2, <1>4, <1>6, <1>7
            <4>2. js[j].recorded => j <= row.last.job
                BY <3>2, <1>1 DEF Known
            <4>3. row.last.job <= row'.last.job
                BY <1>4, <1>10, <1>12
            <4> QED BY <4>1, <4>2, <4>3, <1>7, <1>10, <1>12
        <3> QED BY <3>1, <3>2, <1>7
    <2> QED BY <2>1, <2>2, <2>3 DEF Known
<1>16. Active(mem', b, TRUE, runs')
    BY <1>6, <1>7, <1>11, <1>12 DEF Active
<1>17. Spaced(runs')
    <2> SUFFICES ASSUME NEW j \in DOMAIN runs', NEW k \in DOMAIN runs', j < k,
                        runs'[k].by = "scheduler", runs'[j].at.day = runs'[k].at.day
                 PROVE  ~runs'[j].recorded /\ runs'[j].boot # runs'[k].boot
        BY DEF Spaced
    <2>1. j \in DOMAIN js
        BY <1>4, <1>6, <1>7
    <2>2. CASE k \in DOMAIN js
        BY <2>1, <2>2, <1>1, <1>6 DEF Spaced
    <2>3. CASE k = N
        <3>1. by = "scheduler" /\ js[j].at.day = t.day
            BY <2>1, <2>3, <1>6
        <3>2. SUFFICES ASSUME js[j].recorded \/ js[j].boot = b PROVE FALSE
            BY <2>1, <2>3, <1>6
        <3>3. l.job # 0 /\ js[j].at.day <= l.at.day
            BY <2>1, <3>2, LoadedIsKnown
        <3>4. l.at.day < t.day /\ l.at.day \in Nat
            BY <3>1, <3>3, <1>9 DEF StartedRun, Instant
        <3> QED BY <3>1, <3>3, <3>4 DEF Instant
    <2> QED BY <2>2, <2>3, <1>7
<1> QED BY <1>13, <1>14, <1>15, <1>16, <1>17 DEF Inv

\* A tick, of the timer or of start-up, preserves the invariant.
LEMMA TickKeepsInv ==
    ASSUME NEW js, Inv(now, row, mem, boots', TRUE, js), tick(js)
    PROVE  Inv(now', row', mem', boots', TRUE, runs')
<1>1. PICK t \in {now, Later(now)} :
        dueAt(now) /\ startRun(t, js, "scheduler") /\ now' = t
    BY DEF tick
<1>2. Typed(now, row, mem, boots', TRUE, js) /\ Ordered(now, boots', js)
        /\ Known(row, mem, boots', TRUE, js)
    BY DEF Inv
<1>3. now \in Instant
    BY <1>2 DEF Typed
<1>4. t \in Instant /\ (t = now \/ Before(now, t)) /\ now.day <= t.day /\ now.day \in Nat
    BY <1>1, <1>3, LaterIsLater DEF Instant
<1>5. loadSchedules \in StartedRun
    BY <1>2, LoadsTheLatest
<1>6. loadSchedules.job # 0 => loadSchedules.at.day < now.day
    BY <1>1, <1>2, <1>5, DueIsANewDay
<1>7. loadSchedules.job # 0 => loadSchedules.at.day < t.day
    BY <1>4, <1>5, <1>6 DEF StartedRun, Instant
<1> QED BY <1>1, <1>4, <1>7, StartKeepsInv

-----------------------------------------------------------------------------
(* The steps of the service. *)

\* Start-up closes every orphaned job, which leaves a new process nothing in
\* progress and nothing remembered (reconcileOrphanedJobs before start()).
LEMMA ReconcileKeepsInv ==
    ASSUME IInv, ~up
    PROVE  Inv(now, row, mem, boots + 1, TRUE, Reconciled(runs))
<1> DEFINE js == Reconciled(runs)
<1>1. /\ Typed(now, row, mem, boots, up, runs) /\ Ordered(now, boots, runs)
      /\ Known(row, mem, boots, up, runs) /\ Spaced(runs)
    BY DEF IInv, Inv
<1>2. runs \in Seq(Run) /\ boots \in Nat
    BY <1>1 DEF Typed
<1>3. /\ Len(runs) \in Nat /\ DOMAIN runs = 1 .. Len(runs)
      /\ \A j \in DOMAIN runs : runs[j] \in Run /\ runs[j].boot \in Nat
    BY <1>2, RowsAreRuns
<1>4. DOMAIN js = 1 .. Len(runs)
        /\ \A j \in 1 .. Len(runs) : js[j] = [runs[j] EXCEPT !.active = FALSE]
    BY <1>3 DEF Reconciled
<1>5. \A j \in 1 .. Len(runs) :
        /\ js[j] \in Run /\ ~js[j].active
        /\ js[j].at = runs[j].at /\ js[j].by = runs[j].by
        /\ js[j].boot = runs[j].boot /\ js[j].recorded = runs[j].recorded
    <2> SUFFICES ASSUME NEW j \in 1 .. Len(runs), NEW r, r = js[j]
                 PROVE  /\ r \in Run /\ ~r.active
                        /\ r.at = runs[j].at /\ r.by = runs[j].by
                        /\ r.boot = runs[j].boot /\ r.recorded = runs[j].recorded
        OBVIOUS
    <2>1. r = [runs[j] EXCEPT !.active = FALSE] /\ runs[j] \in Run
        BY <1>3, <1>4
    <2> HIDE DEF js
    <2> QED BY <2>1 DEF Run
<1>6. js \in [1 .. Len(runs) -> Run]
    BY <1>4, <1>5 DEF Reconciled
<1>7. js \in Seq(Run) /\ Len(js) = Len(runs)
    BY <1>3, <1>6, IsASeq, LenProperties
<1>8. Typed(now, row, mem, boots + 1, TRUE, js)
    BY <1>1, <1>2, <1>7 DEF Typed
<1>9. Ordered(now, boots + 1, js)
    <2>1. \A j \in DOMAIN js : js[j].boot <= boots /\ js[j].boot \in Nat
        BY <1>1, <1>3, <1>4, <1>5 DEF Ordered
    <2> QED BY <2>1, <1>1, <1>2, <1>3, <1>4, <1>5 DEF Ordered
<1>10. Known(row, mem, boots + 1, TRUE, js)
    <2>1. mem.job = 0
        BY <1>1 DEF Known
    <2>2. \A j \in DOMAIN js : js[j].boot # boots + 1
        BY <1>1, <1>2, <1>3, <1>4, <1>5 DEF Ordered
    <2>3. row.last.job # 0 => row.last.job \in 1 .. Len(runs)
        BY <1>1, <1>3 DEF Typed, StartedRun
    <2> QED BY <2>1, <2>2, <2>3, <1>1, <1>3, <1>4, <1>5 DEF Known
<1>11. Active(mem, boots + 1, TRUE, js)
    BY <1>4, <1>5 DEF Active
<1>12. Spaced(js)
    BY <1>1, <1>3, <1>4, <1>5 DEF Spaced
<1> QED BY <1>8, <1>9, <1>10, <1>11, <1>12 DEF Inv

\* A fresh install, not started yet, satisfies the invariant.
LEMMA InitIInv == Init => IInv
<1> SUFFICES ASSUME Init PROVE IInv
    OBVIOUS
<1>1. /\ now \in Instant /\ row.tod = DefaultTime /\ row.enabled = TRUE
      /\ row.last = NeverRun /\ mem = NeverRun /\ boots = 0 /\ up = FALSE /\ runs = <<>>
    BY DEF Init, Instant
<1>2. NeverRun \in StartedRun /\ NeverRun.job = 0
    BY TimeAssumption DEF NeverRun, StartedRun, Instant, Minutes
<1>3. runs \in Seq(Run) /\ Len(runs) = 0 /\ DOMAIN runs = {}
    BY <1>1
<1>4. row \in [tod : Minutes, enabled : BOOLEAN, last : StartedRun]
    BY <1>2, TimeAssumption DEF Init
<1>5. Typed(now, row, mem, boots, up, runs)
    <2>1. row.last.job = 0 /\ mem.job = 0 /\ mem \in StartedRun
        BY <1>1, <1>2
    <2>2. up \in BOOLEAN /\ boots \in Nat
        BY <1>1
    <2>3. row.last.job <= Len(runs) /\ mem.job <= Len(runs)
        BY <2>1, <1>3
    <2> QED BY <2>1, <2>2, <2>3, <1>1, <1>3, <1>4 DEF Typed
<1>6. Ordered(now, boots, runs) /\ Active(mem, boots, up, runs) /\ Spaced(runs)
    BY <1>3 DEF Ordered, Active, Spaced
<1>7. Known(row, mem, boots, up, runs)
    BY <1>1, <1>2, <1>3 DEF Known
<1> QED BY <1>5, <1>6, <1>7 DEF IInv, Inv

\* Every step of the service, its clock and its crashes keeps the invariant.
LEMMA NextIInv == IInv /\ [Next]_vars => IInv'
<1> SUFFICES ASSUME IInv, [Next]_vars PROVE IInv'
    OBVIOUS
<1>1. /\ Typed(now, row, mem, boots, up, runs) /\ Ordered(now, boots, runs)
      /\ Known(row, mem, boots, up, runs) /\ Active(mem, boots, up, runs) /\ Spaced(runs)
    BY DEF IInv, Inv
<1>2. /\ runs \in Seq(Run) /\ now \in Instant /\ boots \in Nat /\ mem \in StartedRun
      /\ row \in [tod : Minutes, enabled : BOOLEAN, last : StartedRun] /\ up \in BOOLEAN
    BY <1>1 DEF Typed
<1>3. /\ Len(runs) \in Nat /\ DOMAIN runs = 1 .. Len(runs)
      /\ \A j \in DOMAIN runs : runs[j] \in Run /\ runs[j].at \in Instant
    BY <1>2, RowsAreRuns
<1>4. CASE UNCHANGED vars
    BY <1>4 DEF vars, IInv
<1>5. CASE Boot
    <2>1. ~up /\ up' = TRUE /\ boots' = boots + 1
        BY <1>5 DEF Boot
    <2>2. Inv(now, row, mem, boots', TRUE, Reconciled(runs))
        BY <2>1, ReconcileKeepsInv
    <2>3. CASE tick(Reconciled(runs))
        BY <2>1, <2>2, <2>3, TickKeepsInv DEF IInv
    <2>4. CASE idleTick(Reconciled(runs))
        BY <2>1, <2>2, <2>4 DEF IInv, idleTick
    <2> QED BY <1>5, <2>3, <2>4 DEF Boot
<1>6. CASE Tick
    <2>1. up = TRUE /\ up' = TRUE /\ boots' = boots /\ tick(runs)
        BY <1>2, <1>6 DEF Tick
    <2>2. Inv(now, row, mem, boots', TRUE, runs)
        BY <2>1 DEF IInv
    <2> QED BY <2>1, <2>2, TickKeepsInv DEF IInv
<1>7. CASE RunNow
    <2>1. up = TRUE /\ up' = TRUE /\ boots' = boots /\ now' = now /\ startRun(now, runs, "admin")
        BY <1>2, <1>7 DEF RunNow
    <2>2. Inv(now, row, mem, boots', TRUE, runs)
        BY <2>1 DEF IInv
    <2>3. Inv(now, row', mem', boots', TRUE, runs')
        BY <2>1, <2>2, <1>2, StartKeepsInv
    <2> QED BY <2>1, <2>3 DEF IInv
<1>8. CASE Crash
    <2>1. up = TRUE /\ up' = FALSE /\ mem' = NeverRun /\ now' = now /\ row' = row
            /\ boots' = boots /\ runs' = runs
        BY <1>2, <1>8 DEF Crash
    <2>2. NeverRun \in StartedRun /\ NeverRun.job = 0
        BY TimeAssumption DEF NeverRun, StartedRun, Instant, Minutes
    <2>3. Typed(now, row, NeverRun, boots, FALSE, runs)
        BY <1>1, <1>3, <2>2 DEF Typed
    <2>4. Known(row, NeverRun, boots, FALSE, runs) /\ Active(NeverRun, boots, FALSE, runs)
        BY <1>1, <2>2 DEF Known, Active
    <2> QED BY <2>1, <2>3, <2>4, <1>1 DEF IInv, Inv
<1>9. CASE ClockAdvances
    <2>1. now' = Later(now) /\ row' = row /\ mem' = mem /\ boots' = boots /\ up' = up
            /\ runs' = runs
        BY <1>9 DEF ClockAdvances
    <2>2. Later(now) \in Instant /\ Before(now, Later(now))
        BY <1>2, LaterIsLater
    <2>3. Typed(Later(now), row, mem, boots, up, runs)
        BY <1>1, <2>2 DEF Typed
    <2>4. ASSUME NEW j \in DOMAIN runs PROVE ~Before(Later(now), runs[j].at)
        <3>1. ~Before(now, runs[j].at) /\ runs[j].at \in Instant
            BY <1>1, <1>3 DEF Ordered
        <3> QED BY <3>1, <2>2, <1>2 DEF Before, Instant, Minutes
    <2>5. Ordered(Later(now), boots, runs)
        BY <1>1, <2>4 DEF Ordered
    <2> QED BY <2>1, <2>3, <2>5, <1>1 DEF IInv, Inv
<1>10. CASE \E tod \in Times, enabled \in BOOLEAN : UpdateSchedule(tod, enabled)
    <2>1. PICK tod \in Times, enabled \in BOOLEAN : UpdateSchedule(tod, enabled)
        BY <1>10
    <2>2. /\ row' = [row EXCEPT !.tod = tod, !.enabled = enabled] /\ tod \in Minutes
          /\ now' = now /\ mem' = mem /\ boots' = boots /\ up' = up /\ runs' = runs
        BY <2>1 DEF UpdateSchedule, saveTaskSchedule, isValidTimeOfDay
    <2>3. row' \in [tod : Minutes, enabled : BOOLEAN, last : StartedRun]
            /\ row'.last = row.last
        BY <2>2, <1>2
    <2>4. Typed(now, row', mem, boots, up, runs) /\ Known(row', mem, boots, up, runs)
        BY <2>3, <1>1 DEF Typed, Known
    <2> QED BY <2>2, <2>4, <1>1 DEF IInv, Inv
<1>11. CASE \E j \in DOMAIN runs : JobEnds(j)
    <2>1. PICK i \in DOMAIN runs : JobEnds(i)
        BY <1>11
    <2>2. /\ runs' = [runs EXCEPT ![i] = [runs[i] EXCEPT !.active = FALSE]]
          /\ now' = now /\ row' = row /\ mem' = mem /\ boots' = boots /\ up' = up
        BY <2>1 DEF JobEnds
    <2>3. [runs[i] EXCEPT !.active = FALSE] \in Run
        BY <1>3 DEF Run
    <2>4. runs' \in Seq(Run) /\ Len(runs') = Len(runs) /\ DOMAIN runs' = DOMAIN runs
        BY <2>2, <2>3, <1>2, <1>3
    <2>5. \A j \in DOMAIN runs :
            /\ runs'[j].active => runs[j].active
            /\ runs'[j].at = runs[j].at /\ runs'[j].by = runs[j].by
            /\ runs'[j].boot = runs[j].boot /\ runs'[j].recorded = runs[j].recorded
        BY <2>2, <1>2, <1>3 DEF Run
    <2>6. Typed(now, row, mem, boots, up, runs')
        BY <1>1, <2>4 DEF Typed
    <2>7. Ordered(now, boots, runs') /\ Spaced(runs')
        BY <1>1, <2>4, <2>5 DEF Ordered, Spaced
    <2>8. Known(row, mem, boots, up, runs')
        <3>1. /\ row.last.job # 0 => row.last.job \in DOMAIN runs
              /\ mem.job # 0 => mem.job \in DOMAIN runs
            BY <1>1, <1>3 DEF Typed, StartedRun
        <3> QED BY <3>1, <1>1, <2>4, <2>5 DEF Known
    <2>9. Active(mem, boots, up, runs')
        BY <1>1, <2>4, <2>5 DEF Active
    <2> QED BY <2>2, <2>6, <2>7, <2>8, <2>9 DEF IInv, Inv
<1> QED BY <1>4, <1>5, <1>6, <1>7, <1>8, <1>9, <1>10, <1>11 DEF Next

\* The invariant holds in every reachable state.
THEOREM Invariance == Spec => []IInv
<1> QED BY InitIInv, NextIInv, PTL DEF Spec

\* The clock, the task_schedules row, startedRuns and the job rows stay in
\* their types.
THEOREM TypeCorrect == Spec => []TypeOK
<1>1. IInv => TypeOK
    BY DEF IInv, Inv, Typed, TypeOK
<1> QED BY <1>1, Invariance, PTL

\* No scheduled run starts on a day that already had a run, except after a
\* start whose record failed and whose process died (slotIsDue, startRun).
THEOREM ScheduleStartsOncePerDay == Spec => []OncePerDay
<1>1. IInv => OncePerDay
    BY DEF IInv, Inv, Spaced, OncePerDay
<1> QED BY <1>1, Invariance, PTL

\* The task never has two runs in progress, scheduled or by hand, although a
\* start may fail to be recorded (startRun, FR-004).
THEOREM TaskRunsOnce == Spec => []OneRunAtATime
<1>1. IInv => OneRunAtATime
    BY DEF IInv, Inv, Active, OneRunAtATime
<1> QED BY <1>1, Invariance, PTL

-----------------------------------------------------------------------------
(* The reported nextRun. *)

\* A slot is owed a run when the last start was on an earlier day.
LEMMA DueByDay ==
    ASSUME NEW last \in StartedRun, NEW d \in Int, NEW m \in Minutes
    PROVE  slotIsDue([day |-> d, minute |-> m], last) <=> (last.job = 0 \/ last.at.day < d)
<1>1. last.at.day \in Nat
    BY DEF StartedRun, Instant
<1> QED BY <1>1 DEF slotIsDue, Before

\* The slot after an instant is today's or tomorrow's.
LEMMA NextSlotIs ==
    ASSUME NEW t \in Instant, NEW tod \in Minutes
    PROVE  /\ nextSlot(t, tod) = [day |-> IF t.minute < tod THEN t.day ELSE t.day + 1, minute |-> tod]
           /\ nextSlot(t, tod) \in Instant
<1>1. t.day \in Nat /\ t.minute \in Nat /\ tod \in Nat
    BY TimeAssumption DEF Instant, Minutes
<1>2. Before(t, slotOn(t, tod, 0)) <=> t.minute < tod
    BY <1>1 DEF Before, slotOn
<1>3. slotOn(t, tod, 0) = [day |-> t.day, minute |-> tod] /\ slotOn(t, tod, 1) = [day |-> t.day + 1, minute |-> tod]
    BY <1>1 DEF slotOn
<1>4. nextSlot(t, tod) = [day |-> IF t.minute < tod THEN t.day ELSE t.day + 1, minute |-> tod]
    BY <1>2, <1>3 DEF nextSlot
<1>5. nextSlot(t, tod) \in Instant
    BY <1>1, <1>4 DEF Instant
<1> QED BY <1>4, <1>5

\* The loop of view ends: a function that skips the slots not owed a run exists.
LEMMA SkipExists ==
    ASSUME NEW last \in StartedRun, NEW tod \in Minutes
    PROVE  \E f : f = [slot \in Instant |-> IF slotIsDue(slot, last) THEN slot ELSE f[nextSlot(slot, tod)]]
<1> DEFINE first == [day |-> last.at.day + 1, minute |-> tod]
           then(slot) == IF slotIsDue(nextSlot(slot, tod), last) THEN nextSlot(slot, tod) ELSE first
           g == [slot \in Instant |-> IF slotIsDue(slot, last) THEN slot ELSE then(slot)]
<1>0. last.at.day \in Nat
    BY DEF StartedRun, Instant
<1>1. ASSUME NEW slot \in Instant, ~slotIsDue(slot, last)
      PROVE  then(slot) = g[nextSlot(slot, tod)]
    <2> DEFINE n == nextSlot(slot, tod)
    <2>1. n \in Instant /\ n.minute = tod /\ n.day \in Nat /\ n = [day |-> n.day, minute |-> tod]
        BY NextSlotIs DEF Instant
    <2> HIDE DEF n
    <2>2. CASE slotIsDue(n, last)
        BY <2>1, <2>2 DEF n
    <2>3. CASE ~slotIsDue(n, last)
        <3>1. last.job # 0 /\ n.day <= last.at.day
            BY <1>0, <2>1, <2>3, DueByDay
        <3>2. nextSlot(n, tod) = [day |-> n.day + 1, minute |-> tod]
            <4>1. ~(n.minute < tod)
                BY <2>1, TimeAssumption DEF Minutes
            <4> QED BY <2>1, <4>1, NextSlotIs
        <3>3. slotIsDue(nextSlot(n, tod), last) => n.day = last.at.day
            BY <1>0, <2>1, <3>1, <3>2, DueByDay
        <3>4. then(n) = first
            BY <3>2, <3>3
        <3>5. g[n] = then(n) /\ then(slot) = first
            BY <2>1, <2>3 DEF n
        <3> QED BY <3>4, <3>5 DEF n
    <2> QED BY <2>2, <2>3
<1>2. g = [slot \in Instant |-> IF slotIsDue(slot, last) THEN slot ELSE g[nextSlot(slot, tod)]]
    BY <1>1
<1> QED BY <1>2

\* What view reports: the first slot after both t and the last start, or the
\* one after it when that is on the last start's day.
LEMMA NextRunIs ==
    ASSUME loadSchedules \in StartedRun, row.tod \in Minutes, NEW t \in Instant,
           NEW after, after = IF loadSchedules.job # 0 /\ Before(t, loadSchedules.at) THEN loadSchedules.at ELSE t,
           NEW d, d = IF after.minute < row.tod THEN after.day ELSE after.day + 1
    PROVE  /\ after \in Instant
           /\ nextRun(t) = [day |-> IF loadSchedules.job = 0 \/ loadSchedules.at.day < d THEN d ELSE d + 1,
                            minute |-> row.tod]
<1> DEFINE last == loadSchedules
           tod == row.tod
           n == nextSlot(after, tod)
           skip == CHOOSE f : f = [slot \in Instant |-> IF slotIsDue(slot, loadSchedules) THEN slot
                                                        ELSE f[nextSlot(slot, row.tod)]]
<1>1. nextRun(t) = skip[nextSlot(IF loadSchedules.job # 0 /\ Before(t, loadSchedules.at)
                                 THEN loadSchedules.at ELSE t, row.tod)]
    BY Zenon DEF nextRun
<1>2. skip = [slot \in Instant |-> IF slotIsDue(slot, last) THEN slot ELSE skip[nextSlot(slot, tod)]]
    <2>1. \E f : f = [slot \in Instant |-> IF slotIsDue(slot, loadSchedules) THEN slot
                                           ELSE f[nextSlot(slot, row.tod)]]
        BY SkipExists
    <2> QED BY <2>1, Zenon
<1>3. nextRun(t) = skip[n]
    BY <1>1
<1> HIDE DEF skip
<1>4. /\ last \in StartedRun /\ last.at \in Instant /\ last.at.day \in Nat /\ tod \in Minutes
      /\ last.at.minute \in Minutes
    BY DEF StartedRun, Instant
<1>5. after \in Instant /\ after.day \in Nat /\ after.minute \in Nat /\ d \in Nat /\ tod \in Nat
    BY <1>4, TimeAssumption DEF Instant, Minutes
<1>6. n = [day |-> d, minute |-> tod] /\ n \in Instant
    BY <1>4, <1>5, NextSlotIs
<1>7. n.day = d /\ n.minute = tod /\ (slotIsDue(n, last) <=> last.job = 0 \/ last.at.day < d)
    BY <1>4, <1>5, <1>6, DueByDay
<1> HIDE DEF n
<1>8. CASE slotIsDue(n, last)
    <2>1. skip[n] = n
        BY <1>2, <1>6, <1>8
    <2> QED BY <1>3, <1>5, <1>6, <1>7, <1>8, <2>1
<1>9. CASE ~slotIsDue(n, last)
    <2>1. last.at.day <= after.day \/ last.job = 0
        BY <1>4, <1>5 DEF Before, Instant
    <2>2. d <= last.at.day /\ after.day <= d /\ last.at.day <= after.day
        BY <1>4, <1>5, <1>7, <1>9, <2>1
    <2>3. nextSlot(n, tod) = [day |-> d + 1, minute |-> tod] /\ nextSlot(n, tod) \in Instant
        <3>1. ~(n.minute < tod)
            BY <1>5, <1>7
        <3> QED BY <1>4, <1>6, <1>7, <3>1, NextSlotIs
    <2>4. slotIsDue(nextSlot(n, tod), last)
        <3>1. d + 1 \in Int /\ last.at.day < d + 1
            BY <1>4, <1>5, <2>2
        <3>2. slotIsDue([day |-> d + 1, minute |-> tod], last)
            BY <1>4, <3>1, DueByDay
        <3> QED BY <2>3, <3>2
    <2>5. skip[n] = nextSlot(n, tod)
        BY <1>2, <1>6, <1>9, <2>3, <2>4
    <2> QED BY <1>3, <1>4, <1>5, <1>7, <1>9, <2>3, <2>5
<1> QED BY <1>8, <1>9

\* Whether a tick at an instant finds its slot due.
LEMMA DueAtIs ==
    ASSUME loadSchedules \in StartedRun, row.tod \in Minutes, NEW t \in Instant
    PROVE  dueAt(t) <=> /\ row.enabled
                        /\ \/ loadSchedules.job = 0
                           \/ loadSchedules.at.day < (IF t.minute < row.tod THEN t.day - 1 ELSE t.day)
<1>1. t.day \in Nat /\ t.minute \in Nat /\ row.tod \in Nat
    BY TimeAssumption DEF Instant, Minutes
<1>2. slotOn(t, row.tod, 0) = [day |-> t.day, minute |-> row.tod]
    BY <1>1 DEF slotOn
<1>3. Before(t, slotOn(t, row.tod, 0)) <=> t.minute < row.tod
    BY <1>1, <1>2 DEF Before
<1>4. CASE t.minute < row.tod
    <2>1. mostRecentSlot(t, row.tod) = [day |-> t.day - 1, minute |-> row.tod]
        BY <1>3, <1>4 DEF mostRecentSlot
    <2> QED BY <1>1, <1>4, <2>1, DueByDay DEF dueAt
<1>5. CASE ~(t.minute < row.tod)
    <2>1. mostRecentSlot(t, row.tod) = [day |-> t.day, minute |-> row.tod]
        BY <1>2, <1>3, <1>5 DEF mostRecentSlot
    <2> QED BY <1>1, <1>5, <2>1, DueByDay DEF dueAt
<1> QED BY <1>4, <1>5

\* For every length of a day and every schedule, the nextRun that GET
\* /api/tasks reports is the instant of the next scheduled start: unless a
\* run is owed already, no tick before it finds a slot due, and one at it does
\* (view, slotIsDue).
THEOREM ReportedRunIsNext == Spec => []NextRunIsNext
<1>1. ASSUME IInv PROVE NextRunIsNext
    <2> SUFFICES ASSUME up, row.enabled, ~dueAt(now)
                 PROVE  /\ Before(now, nextRun(now))
                        /\ dueAt(nextRun(now))
                        /\ \A t \in [day : now.day .. nextRun(now).day, minute : Minutes] :
                             Before(now, t) /\ Before(t, nextRun(now)) => ~dueAt(t)
        BY DEF NextRunIsNext
    <2> DEFINE last == loadSchedules
               tod == row.tod
               after == IF loadSchedules.job # 0 /\ Before(now, loadSchedules.at) THEN loadSchedules.at ELSE now
               d == IF after.minute < row.tod THEN after.day ELSE after.day + 1
               e == IF loadSchedules.job = 0 \/ loadSchedules.at.day < d THEN d ELSE d + 1
    <2>1. now \in Instant /\ tod \in Minutes /\ last \in StartedRun
        BY <1>1 DEF IInv, Inv, Typed, loadSchedules
    <2>2. /\ now.day \in Nat /\ now.minute \in Nat /\ tod \in Nat
          /\ last.at.day \in Nat /\ last.at.minute \in Nat
        BY <2>1, TimeAssumption DEF Instant, Minutes, StartedRun
    <2>3. after \in Instant /\ nextRun(now) = [day |-> e, minute |-> tod]
        BY <2>1, NextRunIs
    <2>4. /\ last.job # 0
          /\ (IF now.minute < tod THEN now.day - 1 ELSE now.day) <= last.at.day
        BY <2>1, <2>2, DueAtIs
    <2>5. /\ last.at.day < e /\ e \in Nat
          /\ now.day <= e /\ (now.day = e => now.minute < tod)
          /\ \A k \in Int : k < e => k <= last.at.day
        BY <2>2, <2>4 DEF Before
    <2> HIDE DEF e, after, d
    <2>6. Before(now, nextRun(now))
        BY <2>2, <2>3, <2>5 DEF Before
    <2>7. nextRun(now) \in Instant /\ nextRun(now).day = e /\ nextRun(now).minute = tod
        BY <2>1, <2>3, <2>5 DEF Instant
    <2>8. dueAt(nextRun(now))
        BY <2>1, <2>2, <2>5, <2>7, DueAtIs
    <2>9. ASSUME NEW t \in [day : now.day .. nextRun(now).day, minute : Minutes], Before(t, nextRun(now))
          PROVE  ~dueAt(t)
        <3>1. t \in Instant /\ t.day \in Nat /\ t.minute \in Nat
            BY <2>2, <2>5, <2>7, TimeAssumption DEF Instant, Minutes
        <3>2. (IF t.minute < tod THEN t.day - 1 ELSE t.day) < e
            BY <2>2, <2>5, <2>7, <2>9, <3>1 DEF Before
        <3>3. (IF t.minute < tod THEN t.day - 1 ELSE t.day) <= last.at.day
            BY <2>5, <3>1, <3>2
        <3> QED BY <2>1, <2>2, <2>4, <3>1, <3>3, DueAtIs
    <2> QED BY <2>6, <2>8, <2>9
<1> QED BY <1>1, Invariance, PTL
============================================================================
