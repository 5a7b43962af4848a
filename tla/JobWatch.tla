------------------------------ MODULE JobWatch ------------------------------
(***************************************************************************)
(* Watching one job: calls of wait_for_job in the process that owns it,    *)
(* with the dialogs they open when it pauses on a prompt, and a job page   *)
(* in a browser, fed over a WebSocket by the web process' own events or,   *)
(* for a job of an MCP server, by polling the job's row and its log, and   *)
(* when the socket closes by requests of its own.                          *)
(*                                                                         *)
(* The job itself is the abstract of JobRunner: a status, a log, prompts   *)
(* numbered as they come.  A character of the log is two bytes, and a      *)
(* reader in another process may see the first without the second.         *)
(***************************************************************************)
EXTENDS Access, Sequences, FiniteSets

CONSTANTS
  Waiters,      \* the calls of wait_for_job
  CanElicit,    \* those whose client shows dialogs
  Scenes,       \* [owner, calls, viewer]: the process that owns the job ("web" or
                \* "mcp"), the calls made, who opens the page (or NoOne):
                \* [user, as, rules, hosts, creators, job]
  MaxBytes, MaxPrompts, MaxFaults, MaxPolls

ASSUME WatchAssumption ==
  /\ CanElicit \subseteq Waiters /\ MaxPolls \in Nat \ {0}
  /\ \A s \in Scenes : s.owner \in {"web", "mcp"} /\ s.calls \subseteq Waiters

VARIABLES
  owner, up,    \* the owner's process; which processes run
  status, prompt, log,  \* the row and the length of the log
  final,        \* history: the length of the log when its owner finished the job
  aborted,      \* the job's AbortController
  tracker,      \* PromptTracker: [gen, asking, handedOff, cancelling]
  wait,         \* waiter -> [pc, gen, aborted]
  viewer,       \* who has the page open
  tail,         \* the socket's server side: [at, off, status, prompt, row, rowPrompt]
  wire,         \* messages on their way to the page
  page,         \* useJobStream and JobView
  polls,        \* answers on their way to the page, oldest first
  told,         \* history: prompts somebody declined or cancelled the job at
  crossed,      \* history: an older answer reached the page after a newer one
  mistaken,     \* history: an answer went to another prompt than was shown
  repaused,     \* history: the job paused again without running in between
  faults

jobVars == <<status, prompt, log, final, aborted>>
waitVars == <<tracker, wait, told, mistaken>>
pageVars == <<tail, wire, page, polls, crossed>>
fixed == <<owner, viewer>>
vars == <<fixed, up, jobVars, repaused, waitVars, pageVars, faults>>

None == "none"
Terminal == {"success", "failed", "cancelled", "interrupted"}
Idle == [at |-> None, off |-> 0, status |-> None, prompt |-> 0, row |-> None, rowPrompt |-> 0]

Init ==
  /\ \E s \in Scenes :
       /\ owner = s.owner /\ viewer = s.viewer
       /\ wait = [w \in Waiters |-> [pc |-> IF w \in s.calls THEN "new" ELSE "done", gen |-> 0, aborted |-> FALSE]]
  /\ up = {"web", owner}
  /\ status = "queued" /\ prompt = 0 /\ log = 0 /\ final = 0 /\ aborted = FALSE
  /\ tracker = [gen |-> 0, asking |-> 0, handedOff |-> 0, cancelling |-> 0]
  /\ tail = Idle /\ wire = <<>> /\ polls = <<>>
  /\ page = [open |-> FALSE, sock |-> None, get |-> None, timer |-> FALSE, live |-> None,
             bytes |-> 0, torn |-> FALSE, prompt |-> 0, job |-> None]
  /\ told = {} /\ crossed = FALSE /\ mistaken = FALSE /\ repaused = FALSE /\ faults = 0

Fault == faults < MaxFaults /\ faults' = faults + 1

-----------------------------------------------------------------------------
(* Messages to the page.                                                   *)
Chunk(from, to) == [t |-> "chunk", from |-> from, to |-> to, status |-> None, prompt |-> 0]
Backlog(to) == [t |-> "backlog", from |-> 0, to |-> to, status |-> None, prompt |-> 0]
Status(s) == [t |-> "status", from |-> 0, to |-> 0, status |-> s, prompt |-> 0]
Prompt(p) == [t |-> "prompt", from |-> 0, to |-> 0, status |-> None, prompt |-> p]  \* 0: prompt-cleared
Close == [t |-> "close", from |-> 0, to |-> 0, status |-> None, prompt |-> 0]

(* onChunk, onStatus, onPrompt, onPromptCleared of a socket on the web's   *)
(* own job.                                                                *)
Emit(messages) == wire' = IF tail.at = "listening" THEN wire \o messages ELSE wire

-----------------------------------------------------------------------------
(* What the runner's events do to the calls of wait_for_job.  A status     *)
(* other than awaiting_input withdraws their dialogs.                      *)
Poked(ws) == [w \in Waiters |-> IF ws[w].pc = "sleep" THEN [ws[w] EXCEPT !.pc = "loop"] ELSE ws[w]]

\* Mutant: the status does not withdraw the dialogs.
mutOnStatus(ws, s) == Poked(ws)

onStatus(ws, s) ==
  LET withdrawn == [w \in Waiters |-> IF ws[w].pc = "dialog" /\ s # "awaiting_input"
                                      THEN [ws[w] EXCEPT !.pc = "withdrawn"] ELSE ws[w]]
  IN Poked(withdrawn)

-----------------------------------------------------------------------------
(* The job, in its owner's process.  An append is whole for that process   *)
(* itself.                                                                 *)
Whole == log % 2 = 0
Runs == owner \in up /\ Whole

Start ==
  /\ Runs /\ status = "queued"
  /\ status' = "running"
  /\ wait' = onStatus(wait, "running") /\ Emit(<<Status("running")>>)
  /\ UNCHANGED <<fixed, up, prompt, log, final, aborted, repaused, tracker, told, mistaken, tail, page, polls, crossed, faults>>

emitLogChunk ==
  /\ owner \in up /\ status = "running" /\ log + 2 <= MaxBytes
  /\ log' = log + (IF owner = "web" THEN 2 ELSE 1)
  /\ Emit(<<Chunk(log, log')>>)
  /\ UNCHANGED <<fixed, up, status, prompt, final, aborted, repaused, waitVars, tail, page, polls, crossed, faults>>

(* onPromptDetected; also of a second exec while the prompt of a first     *)
(* that ended is still open.                                               *)
onPromptDetected ==
  /\ Runs /\ status \in {"running", "awaiting_input"} /\ tracker.gen < MaxPrompts
  /\ repaused' = (repaused \/ status = "awaiting_input")
  /\ status' = "awaiting_input" /\ prompt' = tracker.gen + 1
  /\ tracker' = [tracker EXCEPT !.gen = @ + 1]
  /\ wait' = onStatus(wait, "awaiting_input")
  /\ Emit(<<Status("awaiting_input"), Prompt(prompt')>>)
  /\ UNCHANGED <<fixed, up, log, final, aborted, told, mistaken, tail, page, polls, crossed, faults>>

(* onPromptCleared, after an answer or a dismissal by w or from elsewhere. *)
Cleared(ws) ==
  /\ status' = "running" /\ prompt' = 0
  /\ wait' = onStatus(ws, "running")
  /\ Emit(<<Status("running"), Prompt(0)>>)

AnsweredElsewhere ==
  /\ Runs /\ status = "awaiting_input"
  /\ Cleared(wait)
  /\ UNCHANGED <<fixed, up, log, final, aborted, repaused, tracker, told, mistaken, tail, page, polls, crossed, faults>>

CancelledElsewhere ==
  /\ Runs /\ status \in {"running", "awaiting_input"} /\ ~aborted
  /\ aborted' = TRUE
  /\ UNCHANGED <<fixed, up, status, prompt, log, final, repaused, waitVars, pageVars, faults>>

(* The last line goes to the log before the row is finished; a queued job  *)
(* is finished by cancel() itself.                                         *)
markFinished ==
  /\ Runs /\ status \in {"queued", "running", "awaiting_input"}
  /\ status' \in IF status = "queued" THEN {"cancelled"}
                 ELSE {"success", IF aborted THEN "cancelled" ELSE "failed"}
  /\ prompt' = 0
  /\ log' = IF status' = "success" THEN log ELSE log + 2
  /\ final' = log'
  /\ wait' = onStatus(wait, status')
  /\ Emit((IF log' = log THEN <<>> ELSE <<Chunk(log, log')>>) \o <<Status(status')>>)
  /\ UNCHANGED <<fixed, up, aborted, repaused, tracker, told, mistaken, tail, page, polls, crossed, faults>>

(* A process ends, by itself or by a crash: its sockets close.  Later      *)
(* another, or the next of its kind, closes the row it left.               *)
Exits(p) ==
  /\ p \in up
  /\ IF p = "mcp" /\ status \in Terminal THEN UNCHANGED faults ELSE Fault
  /\ up' = up \ {p}
  /\ wait' = [w \in Waiters |-> IF p = owner /\ wait[w].pc # "done" THEN [wait[w] EXCEPT !.pc = "dead"] ELSE wait[w]]
  /\ tail' = IF p = "web" THEN Idle ELSE tail
  /\ wire' = IF p = "web" /\ page.sock \in {"asking", "row", "open"} THEN Append(wire, Close) ELSE wire
  /\ page' = IF p = "web" /\ page.sock \in {"asking", "row"} THEN [page EXCEPT !.sock = "open"] ELSE page
  /\ polls' = IF p = "web" THEN <<>> ELSE polls
  /\ UNCHANGED <<fixed, jobVars, repaused, tracker, told, mistaken, crossed>>

interruptOrphaned ==
  /\ owner \notin up
  /\ status' = IF status \in Terminal THEN status ELSE "interrupted"
  /\ prompt' = IF status \in Terminal THEN prompt ELSE 0
  /\ up' = up \cup {"web"}
  /\ <<status', up'>> # <<status, up>>
  /\ UNCHANGED <<fixed, log, final, aborted, repaused, waitVars, pageVars, faults>>

WebRestarts ==
  /\ owner = "mcp" /\ owner \in up /\ "web" \notin up
  /\ up' = up \cup {"web"}
  /\ UNCHANGED <<fixed, jobVars, repaused, waitVars, pageVars, faults>>

-----------------------------------------------------------------------------
(* wait_for_job.                                                           *)
claim ==
  CASE tracker.handedOff = tracker.gen -> "handed-off"
    [] tracker.handedOff # tracker.gen /\ tracker.gen \in {tracker.asking, tracker.cancelling} -> "busy"
    [] OTHER -> "ask"

release(t, gen, outcome) ==
  [t EXCEPT !.asking = IF @ = gen THEN 0 ELSE @,
            !.handedOff = IF outcome = "handed-off" THEN gen ELSE @,
            !.cancelling = IF outcome = "cancelling" THEN gen ELSE @]

(* requireOwned, the subscriptions, and the loop up to where it waits; the *)
(* deadline may have passed where it would sleep.                          *)
waitForJob(w) ==
  /\ owner \in up /\ Whole /\ wait[w].pc \in {"new", "loop"}
  /\ LET pending == status = "awaiting_input"
         ends == \/ wait[w].aborted \/ status \in Terminal
                 \/ pending /\ (w \notin CanElicit \/ claim = "handed-off")
     IN \/ ends /\ wait' = [wait EXCEPT ![w].pc = "done"] /\ UNCHANGED tracker
        \/ /\ ~ends /\ pending /\ claim = "ask"
           /\ tracker' = [tracker EXCEPT !.asking = tracker.gen]
           /\ wait' = [wait EXCEPT ![w].pc = "dialog", ![w].gen = tracker.gen]
        \/ /\ ~ends /\ ~(pending /\ claim = "ask")
           /\ \E pc \in {"sleep", "done"} : wait' = [wait EXCEPT ![w].pc = pc]
           /\ UNCHANGED tracker
  /\ UNCHANGED <<fixed, up, jobVars, repaused, told, mistaken, pageVars, faults>>

(* askHuman returns: the claim is released, which wakes the others.        *)
Released(w, ws, outcome, pc) ==
  /\ tracker' = release(tracker, wait[w].gen, outcome)
  /\ wait' = [Poked(ws) EXCEPT ![w].pc = pc]
  /\ told' = IF outcome = "resolved" THEN told ELSE told \cup {wait[w].gen}

DialogWithdrawn(w) ==
  /\ wait[w].pc = "withdrawn"
  /\ Released(w, wait, "resolved", "loop")
  /\ UNCHANGED <<fixed, up, jobVars, repaused, mistaken, pageVars, faults>>

(* No client answers, the dialog fails, or the person declines: handed to  *)
(* the model.                                                              *)
Declined(w) ==
  /\ Whole /\ wait[w].pc = "dialog"
  /\ IF status = "awaiting_input" THEN Released(w, wait, "handed-off", "done")
     ELSE Released(w, wait, "resolved", "loop")
  /\ UNCHANGED <<fixed, up, jobVars, repaused, mistaken, pageVars, faults>>

CancelJob(w) ==
  /\ Whole /\ wait[w].pc = "dialog"
  /\ aborted' = (aborted \/ status \notin Terminal)
  /\ Released(w, wait, "cancelling", "loop")
  /\ UNCHANGED <<fixed, up, status, prompt, log, final, repaused, mistaken, pageVars, faults>>

(* The answer, or the resumption, goes to whatever prompt is open; when    *)
(* there is none a note goes to the log.                                   *)
AnswerPrompt(w) ==
  /\ Whole /\ wait[w].pc = "dialog"
  /\ mistaken' = (mistaken \/ (status = "awaiting_input" /\ prompt # wait[w].gen))
  /\ IF status = "awaiting_input"
     THEN /\ status' = "running" /\ prompt' = 0
          /\ Released(w, onStatus([wait EXCEPT ![w].pc = "answered"], "running"), "resolved", "loop")
          /\ Emit(<<Status("running"), Prompt(0)>>)
     ELSE Released(w, wait, "resolved", "loop") /\ UNCHANGED <<status, prompt, wire>>
  /\ UNCHANGED <<fixed, up, log, final, aborted, repaused, tail, page, polls, crossed, faults>>

\* Mutant: the claim is kept when the call fails.
mutAskThrows(w) ==
  /\ Whole /\ wait[w].pc = "dialog"
  /\ Fault
  /\ wait' = [wait EXCEPT ![w].pc = "done"]
  /\ UNCHANGED <<fixed, up, jobVars, repaused, tracker, told, mistaken, pageVars>>

(* The channel is closed when the answer is written, or the store throws.  *)
AskThrows(w) ==
  /\ Whole /\ wait[w].pc = "dialog"
  /\ Fault
  /\ Released(w, wait, "resolved", "done")
  /\ UNCHANGED <<fixed, up, jobVars, repaused, mistaken, pageVars>>

(* The client cancels the call, or its connection drops; the deadline.     *)
CallAborts(w) ==
  /\ wait[w].pc \in {"sleep", "dialog", "loop"} /\ ~wait[w].aborted
  /\ wait' = [wait EXCEPT ![w].aborted = TRUE,
                          ![w].pc = CASE @ = "dialog" -> "withdrawn" [] @ = "sleep" -> "loop" [] OTHER -> @]
  /\ UNCHANGED <<fixed, up, jobVars, repaused, tracker, told, mistaken, pageVars, faults>>

DeadlinePasses(w) ==
  /\ wait[w].pc = "sleep"
  /\ wait' = [wait EXCEPT ![w].pc = "done"]
  /\ UNCHANGED <<fixed, up, jobVars, repaused, tracker, told, mistaken, pageVars, faults>>

-----------------------------------------------------------------------------
(* The page.                                                               *)
caller == overlay(viewer.user, viewer.as)
visible ==
  isJobVisible(viewer.rules, caller, viewer.job, guestCreators(viewer.hosts, viewer.creators))

(* setLiveStatus, and JobView's effect on the row it holds.                *)
setLive(pg, s) ==
  [pg EXCEPT !.live = s, !.job = IF @ # None /\ s # pg.live THEN s ELSE @]
startPolling(pg) == [pg EXCEPT !.sock = "closed", !.timer = TRUE]

OpenPage ==
  /\ ~page.open /\ viewer # NoOne
  /\ page' = [page EXCEPT !.open = TRUE, !.sock = "asking", !.get = "asked"]
  /\ UNCHANGED <<fixed, up, jobVars, repaused, waitVars, tail, wire, polls, crossed, faults>>

(* GET /api/jobs/:id, once when the page opens.                            *)
GetJob ==
  /\ page.get = "asked" /\ "web" \in up
  /\ page' = [page EXCEPT !.get = IF visible THEN status ELSE None]
  /\ UNCHANGED <<fixed, up, jobVars, repaused, waitVars, tail, wire, polls, crossed, faults>>

GetJobArrives ==
  /\ page.get \notin {None, "asked"}
  /\ page' = [page EXCEPT !.get = None, !.job = page.get]
  /\ crossed' = (crossed \/ page.live \notin {None, page.get})
  /\ UNCHANGED <<fixed, up, jobVars, repaused, waitVars, tail, wire, polls, faults>>

\* Mutant: the backlog is sent as it is read.
mutCompleteUtf8Length(bytes) == bytes

completeUtf8Length(bytes) == bytes - (bytes % 2)

Replay(s, p) == IF s = "awaiting_input" THEN <<Status(s), Prompt(p)>> ELSE <<Status(s)>>

(* The upgrade, once the user is resolved: refused, or the row is read,    *)
(* and for the web's own job everything is sent and subscribed at once.    *)
Upgrade ==
  /\ page.sock = "asking" /\ "web" \in up
  /\ \/ /\ ~visible
        /\ page' = startPolling(page) /\ UNCHANGED <<tail, wire>>
     \/ /\ visible /\ owner = "web"
        /\ page' = [page EXCEPT !.sock = "open"]
        /\ wire' = <<Backlog(log)>> \o Replay(status, prompt)
        /\ tail' = [Idle EXCEPT !.at = "listening"]
     \/ /\ visible /\ owner # "web"
        /\ page' = [page EXCEPT !.sock = "row"]
        /\ tail' = [Idle EXCEPT !.status = status, !.prompt = prompt]
        /\ UNCHANGED wire
  /\ UNCHANGED <<fixed, up, jobVars, repaused, waitVars, polls, crossed, faults>>

(* A job of another process: the log after the row, then the tail, unless  *)
(* the row was terminal.                                                   *)
UpgradeForeign ==
  /\ page.sock = "row" /\ "web" \in up
  /\ page' = [page EXCEPT !.sock = "open"]
  /\ LET off == completeUtf8Length(log)
     IN /\ wire' = <<Backlog(off)>> \o Replay(tail.status, tail.prompt)
        /\ tail' = [tail EXCEPT !.off = off, !.at = IF tail.status \in Terminal THEN None ELSE "tick"]
  /\ UNCHANGED <<fixed, up, jobVars, repaused, waitVars, polls, crossed, faults>>

(* One tick: the row, the log, the owner's pulse, each read while the      *)
(* owner goes on.                                                          *)
TickRow ==
  /\ tail.at = "tick"
  /\ tail' = [tail EXCEPT !.at = "log", !.row = status, !.rowPrompt = prompt]
  /\ UNCHANGED <<fixed, up, jobVars, repaused, waitVars, wire, page, polls, crossed, faults>>

TickLog ==
  /\ tail.at = "log"
  /\ LET from == tail.off - (tail.off % 2)
         to == log - (log % 2)   \* the decoder keeps half a character
     IN wire' = IF to > from THEN Append(wire, Chunk(from, to)) ELSE wire
  /\ tail' = [tail EXCEPT !.at = "rest", !.off = log]
  /\ UNCHANGED <<fixed, up, jobVars, repaused, waitVars, page, polls, crossed, faults>>

\* Mutant: a tail that stops leaves its socket open.
mutStop(messages) == tail' = Idle /\ wire' = wire \o messages

(* The interval is cleared and the socket closed.                          *)
Stop(messages) == tail' = Idle /\ wire' = Append(wire \o messages, Close)

TickRest ==
  /\ tail.at = "rest"
  /\ LET changed == (IF tail.row # tail.status THEN <<Status(tail.row)>> ELSE <<>>)
                      \o (IF tail.rowPrompt # tail.prompt THEN <<Prompt(tail.rowPrompt)>> ELSE <<>>)
     IN IF owner \notin up THEN Stop(<<>>)
        ELSE IF tail.row \in Terminal THEN Stop(changed)
        ELSE /\ wire' = wire \o changed
             /\ tail' = [tail EXCEPT !.at = "tick", !.status = tail.row, !.prompt = tail.rowPrompt]
  /\ UNCHANGED <<fixed, up, jobVars, repaused, waitVars, page, polls, crossed, faults>>

(* onmessage, onclose.                                                     *)
Deliver ==
  /\ wire # <<>> /\ page.sock = "open"
  /\ LET m == Head(wire)
     IN page' = CASE m.t = "backlog" -> [page EXCEPT !.bytes = m.to, !.torn = @ \/ m.to % 2 # 0]
                  [] m.t = "chunk" -> [page EXCEPT !.bytes = m.to, !.torn = @ \/ m.from # page.bytes]
                  [] m.t = "status" -> setLive(page, m.status)
                  [] m.t = "prompt" -> [page EXCEPT !.prompt = m.prompt]
                  [] m.t = "close" -> startPolling(page)
  /\ wire' = Tail(wire)
  /\ UNCHANGED <<fixed, up, jobVars, repaused, waitVars, tail, polls, crossed, faults>>

(* The connection breaks; the server side stops with it.                   *)
SocketBreaks ==
  /\ page.sock = "open" /\ tail.at \in {None, "listening", "tick"} /\ Fault
  /\ page' = startPolling(page) /\ tail' = Idle /\ wire' = <<>>
  /\ UNCHANGED <<fixed, up, jobVars, repaused, waitVars, polls, crossed>>

(* Every two seconds, whether or not the last answer is there.             *)
Poll ==
  /\ page.timer /\ Len(polls) < MaxPolls
  /\ "web" \in up /\ visible  \* otherwise it fails, and is tried again
  /\ tail.at \notin {"log", "rest"}
  /\ polls' = Append(polls, [status |-> status, prompt |-> prompt, bytes |-> log - (log % 2)])
  /\ UNCHANGED <<fixed, up, jobVars, repaused, waitVars, tail, wire, page, crossed, faults>>

PollArrives(i) ==
  /\ i \in DOMAIN polls
  /\ LET a == polls[i]
     IN page' = [setLive(page, a.status) EXCEPT !.bytes = a.bytes, !.prompt = a.prompt,
                   !.timer = @ /\ a.status \notin Terminal]
  /\ crossed' = (crossed \/ i # 1)
  /\ polls' = [j \in 1..(Len(polls) - 1) |-> polls[IF j < i THEN j ELSE j + 1]]
  /\ UNCHANGED <<fixed, up, jobVars, repaused, waitVars, tail, wire, faults>>

Next ==
  \/ Start \/ emitLogChunk \/ onPromptDetected \/ AnsweredElsewhere \/ CancelledElsewhere \/ markFinished
  \/ \E p \in {"web", "mcp"} : Exits(p)
  \/ interruptOrphaned \/ WebRestarts
  \/ \E w \in Waiters : \/ waitForJob(w) \/ DialogWithdrawn(w) \/ Declined(w) \/ CancelJob(w)
                        \/ AnswerPrompt(w) \/ AskThrows(w) \/ CallAborts(w) \/ DeadlinePasses(w)
  \/ OpenPage \/ GetJob \/ GetJobArrives \/ Upgrade \/ UpgradeForeign \/ TickRow \/ TickLog \/ TickRest
  \/ Deliver \/ SocketBreaks \/ Poll \/ \E i \in 1..MaxPolls : PollArrives(i)

Spec == Init /\ [][Next]_vars

-----------------------------------------------------------------------------
(* No call of wait_for_job sleeps through what it waits for: not the end   *)
(* of the job, not a prompt nobody is asking about, not its own            *)
(* cancellation; and a prompt that counts as being asked about is.         *)
NoMissedWakeup ==
  /\ \A w \in Waiters : wait[w].pc = "sleep" =>
       /\ status \notin Terminal /\ ~wait[w].aborted
       /\ status = "awaiting_input" => w \in CanElicit /\ claim = "busy"
  /\ owner \in up /\ status = "awaiting_input" /\ tracker.asking = tracker.gen =>
       \E w \in Waiters : wait[w].pc \in {"dialog", "withdrawn"} /\ wait[w].gen = tracker.gen

(* One prompt is shown in one dialog at a time, and in none once somebody  *)
(* declined it or cancelled the job there -- unless two prompts were open  *)
(* at once: the tracker remembers one generation.                          *)
AskedOnce ==
  \A w \in Waiters : wait[w].pc = "dialog" =>
    (wait[w].gen \in told => repaused) /\ \A v \in Waiters \ {w} : wait[v].pc = "dialog" => wait[v].gen # wait[w].gen

(* What a person types into a dialog answers the prompt it showed, except  *)
(* where the job paused on another one without running in between.         *)
AnswersTheirPrompt == mistaken => repaused

(* The dialogs of all calls together keep both promises.                   *)
DialogsFitPrompts == AskedOnce /\ AnswersTheirPrompt

(* The page shows the log from its start, without gaps, repeats or torn    *)
(* characters, and all of it once it says that the job ended.              *)
ShownIsLog ==
  /\ ~page.torn
  /\ page.live \in {"success", "failed", "cancelled"} => page.bytes >= final

(* An open page that does not show how the job ended is still fed: by a    *)
(* socket with something behind it, or by its timer -- unless an older     *)
(* answer overtook a newer one.                                            *)
PageIsFed ==
  page.open => \/ page.timer \/ wire # <<>> \/ tail.at # None \/ page.sock \in {"asking", "row"} \/ crossed
               \/ /\ status \in Terminal /\ page.live = status
                  /\ page.job \in {status, None}
               \/ status \in Terminal /\ polls # <<>>

(* A page shows a job of a guest or host only to whom the dashboard shows  *)
(* that guest or host.                                                     *)
HiddenJobsStayHidden ==
  page.live # None =>
    LET shown == filterInventoryForUser(viewer.rules, caller, viewer.hosts, viewer.creators)
    IN viewer.job.target \in (shown.hosts \cup shown.guests) \/ isAdmin(caller.groups)
=============================================================================
