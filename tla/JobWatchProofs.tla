--------------------------- MODULE JobWatchProofs ---------------------------
(***************************************************************************)
(* Proofs about JobWatch, for any calls of wait_for_job, any number of     *)
(* prompts and faults, and any viewer: no call sleeps through what it      *)
(* waits for, the dialogs fit the prompts, a page shows nothing of a job   *)
(* the dashboard would hide, and an open page shows the log as it is and   *)
(* is fed until it shows how the job ended.                                *)
(***************************************************************************)
EXTENDS JobWatch, TLAPS

Statuses == {"queued", "running", "awaiting_input"} \cup Terminal
WaitRow == [pc : {"new", "loop", "sleep", "dialog", "withdrawn", "answered", "done", "dead"},
            gen : Nat, aborted : BOOLEAN]
TrackerRow == [gen : Nat, asking : Nat, handedOff : Nat, cancelling : Nat]

WaitTypes ==
  /\ wait \in [Waiters -> WaitRow] /\ tracker \in TrackerRow
  /\ status \in Statuses /\ owner \in {"web", "mcp"} /\ repaused \in BOOLEAN /\ mistaken \in BOOLEAN

\* The tracker knows no later prompt than the last, which is the open one.
TrackerBehind ==
  /\ tracker.asking <= tracker.gen /\ tracker.handedOff <= tracker.gen /\ tracker.cancelling <= tracker.gen
  /\ told \subseteq 1..tracker.gen
  /\ status = "awaiting_input" => prompt = tracker.gen /\ tracker.gen > 0

\* A call whose dialog is open, or withdrawn and not yet taken back, holds
\* its prompt: nobody else does, and the tracker says so of the last one.
Held(w) == wait[w].pc \in {"dialog", "withdrawn"}
Holders ==
  /\ \A w \in Waiters : Held(w) => /\ wait[w].gen \in 1..tracker.gen
                                   /\ wait[w].gen = tracker.gen => tracker.asking = tracker.gen
  /\ \A v, w \in Waiters : Held(v) /\ Held(w) /\ v # w => wait[v].gen # wait[w].gen

\* While the owner is there, a prompt that is being asked about has a holder.
AskedIsHeld ==
  owner \in up /\ status \notin Terminal /\ tracker.asking = tracker.gen /\ tracker.gen > 0 =>
    \E w \in Waiters : Held(w) /\ wait[w].gen = tracker.gen

\* A dialog is open only while the job waits, and shows its prompt unless
\* the job paused twice.
DialogsAreCurrent ==
  \A w \in Waiters : wait[w].pc = "dialog" =>
    /\ status = "awaiting_input"
    /\ wait[w].gen = tracker.gen \/ repaused
    /\ wait[w].gen \in told => repaused

\* The tracker remembers how the last prompt was declined.
Remembered ==
  tracker.gen \in told /\ ~repaused => tracker.gen \in {tracker.handedOff, tracker.cancelling}

\* The calls end with the process they run in.
CallsEndWithOwner == owner \notin up => \A w \in Waiters : wait[w].pc \in {"done", "dead"}

Sleepers ==
  \A w \in Waiters : wait[w].pc = "sleep" =>
    /\ status \notin Terminal /\ ~wait[w].aborted
    /\ status = "awaiting_input" => w \in CanElicit /\ claim = "busy"

WaitInv ==
  /\ WaitTypes /\ TrackerBehind /\ Holders /\ AskedIsHeld /\ DialogsAreCurrent /\ Remembered
  /\ CallsEndWithOwner /\ Sleepers /\ AnswersTheirPrompt

\* The messages, and what the server side of the socket remembers.
Shown == Statuses \cup {None}
Message == [t : {"chunk", "backlog", "status", "prompt", "close"}, from : Nat, to : Nat, status : Shown, prompt : Nat]
TailRow == [at : {None, "listening", "tick", "log", "rest"}, off : Nat, status : Shown, prompt : Nat,
            row : Shown, rowPrompt : Nat]
WireTypes == log \in Nat /\ prompt \in Nat /\ tail \in TailRow /\ wire \in Seq(Message)

\* Nothing but the closing of a socket reaches a page that may not show the job.
MayShow == viewer # NoOne /\ visible
PageFields == {"open", "sock", "get", "timer", "live", "bytes", "torn", "prompt", "job"}
PageInv ==
  /\ DOMAIN page = PageFields
  /\ page.sock # None \/ page.timer => viewer # NoOne
  /\ \/ MayShow
     \/ /\ page.live = None /\ page.sock # "row" /\ tail.at = None /\ polls = <<>>
        /\ wire \in Seq({Close})

-----------------------------------------------------------------------------
(* What the runner's events do to the calls. *)

LEMMA PokedRows ==
  ASSUME NEW ws \in [Waiters -> WaitRow]
  PROVE  /\ Poked(ws) \in [Waiters -> WaitRow]
         /\ \A w \in Waiters : /\ Poked(ws)[w].gen = ws[w].gen /\ Poked(ws)[w].aborted = ws[w].aborted
                               /\ Poked(ws)[w].pc = IF ws[w].pc = "sleep" THEN "loop" ELSE ws[w].pc
<1>1. ASSUME NEW w \in Waiters
      PROVE  /\ Poked(ws)[w] \in WaitRow /\ Poked(ws)[w].gen = ws[w].gen /\ Poked(ws)[w].aborted = ws[w].aborted
             /\ Poked(ws)[w].pc = IF ws[w].pc = "sleep" THEN "loop" ELSE ws[w].pc
  <2>1. ws[w] \in WaitRow
    OBVIOUS
  <2>2. ws[w].aborted \in BOOLEAN
    BY <2>1 DEF WaitRow
  <2>3. CASE ws[w].pc = "sleep"
    <3>1. Poked(ws)[w] = [ws[w] EXCEPT !.pc = "loop"]
      BY <2>3 DEF Poked
    <3>. QED  BY <2>1, <2>2, <2>3, <3>1 DEF WaitRow
  <2>4. CASE ws[w].pc # "sleep"
    BY <2>1, <2>4 DEF Poked
  <2>. QED  BY <2>3, <2>4
<1>2. Poked(ws) \in [Waiters -> WaitRow]
  BY <1>1 DEF Poked
<1>. QED  BY <1>1, <1>2

\* Every call is woken, and a status other than awaiting_input withdraws the
\* dialogs; a call keeps its prompt.
LEMMA StatusRows ==
  ASSUME NEW ws \in [Waiters -> WaitRow], NEW s
  PROVE  /\ onStatus(ws, s) \in [Waiters -> WaitRow]
         /\ \A w \in Waiters :
              /\ onStatus(ws, s)[w].gen = ws[w].gen /\ onStatus(ws, s)[w].pc # "sleep"
              /\ onStatus(ws, s)[w].pc = "dialog" => ws[w].pc = "dialog" /\ s = "awaiting_input"
              /\ onStatus(ws, s)[w].pc \in {"dialog", "withdrawn"} <=> ws[w].pc \in {"dialog", "withdrawn"}
<1>. DEFINE withdrawn == [w \in Waiters |-> IF ws[w].pc = "dialog" /\ s # "awaiting_input"
                                            THEN [ws[w] EXCEPT !.pc = "withdrawn"] ELSE ws[w]]
<1>1. ASSUME NEW w \in Waiters
      PROVE  /\ withdrawn[w] \in WaitRow /\ withdrawn[w].gen = ws[w].gen
             /\ withdrawn[w].pc = IF ws[w].pc = "dialog" /\ s # "awaiting_input" THEN "withdrawn" ELSE ws[w].pc
  <2>1. ws[w] \in WaitRow
    OBVIOUS
  <2>2. ws[w].aborted \in BOOLEAN
    BY <2>1 DEF WaitRow
  <2>3. CASE ws[w].pc = "dialog" /\ s # "awaiting_input"
    <3>1. withdrawn[w] = [ws[w] EXCEPT !.pc = "withdrawn"]
      BY <2>3
    <3>. QED  BY <2>1, <2>2, <2>3, <3>1 DEF WaitRow
  <2>4. CASE ~(ws[w].pc = "dialog" /\ s # "awaiting_input")
    <3>1. withdrawn[w] = ws[w]
      BY <2>4
    <3>. QED  BY <2>1, <2>4, <3>1
  <2>. QED  BY <2>3, <2>4
<1>2. withdrawn \in [Waiters -> WaitRow] /\ onStatus(ws, s) = Poked(withdrawn)
  BY <1>1 DEF onStatus
<1>. HIDE DEF withdrawn
<1>3. /\ Poked(withdrawn) \in [Waiters -> WaitRow]
      /\ \A w \in Waiters : /\ Poked(withdrawn)[w].gen = withdrawn[w].gen
                            /\ Poked(withdrawn)[w].pc = IF withdrawn[w].pc = "sleep" THEN "loop" ELSE withdrawn[w].pc
  BY <1>2, PokedRows
<1>. QED  BY <1>1, <1>2, <1>3

-----------------------------------------------------------------------------
(* The invariant of the calls is inductive. *)

\* A step that leaves the job and the tracker alone, opens no dialog, lets no
\* prompt go and puts only those calls to sleep that may.
LEMMA CallStep ==
  ASSUME WaitInv, UNCHANGED <<owner, status, prompt, tracker, told, mistaken, repaused>>,
         owner \in up' <=> owner \in up,
         wait' \in [Waiters -> WaitRow],
         \A v \in Waiters :
           /\ wait'[v].gen = wait[v].gen
           /\ wait'[v].pc = "dialog" => wait[v].pc = "dialog"
           /\ Held(v)' <=> Held(v)
           /\ wait[v].pc \in {"done", "dead"} => wait'[v].pc \in {"done", "dead"}
           /\ wait'[v].pc = "sleep" => /\ status \notin Terminal /\ ~wait'[v].aborted
                                       /\ status = "awaiting_input" => v \in CanElicit /\ claim = "busy"
  PROVE  WaitInv'
<1>0. /\ WaitTypes /\ TrackerBehind /\ Holders /\ AskedIsHeld /\ DialogsAreCurrent /\ Remembered
      /\ CallsEndWithOwner /\ Sleepers /\ AnswersTheirPrompt
  BY DEF WaitInv
<1>1. WaitTypes' /\ TrackerBehind' /\ Remembered' /\ AnswersTheirPrompt'
  BY <1>0 DEF WaitTypes, TrackerBehind, Remembered, AnswersTheirPrompt
<1>2. Holders' /\ AskedIsHeld'
  BY <1>0 DEF Holders, AskedIsHeld
<1>3. DialogsAreCurrent' /\ CallsEndWithOwner'
  BY <1>0 DEF DialogsAreCurrent, CallsEndWithOwner
<1>4. Sleepers'
  BY <1>0 DEF Sleepers, claim
<1>. QED  BY <1>1, <1>2, <1>3, <1>4 DEF WaitInv

\* The job gets another status than awaiting_input: the dialogs go.
LEMMA RunStep ==
  ASSUME WaitInv, UNCHANGED <<owner, up, tracker, told, mistaken, repaused>>, owner \in up,
         status \notin Terminal, status' \in Statuses \ {"awaiting_input"}, wait' = onStatus(wait, status')
  PROVE  WaitInv'
<1>0. /\ WaitTypes /\ TrackerBehind /\ Holders /\ AskedIsHeld /\ DialogsAreCurrent /\ Remembered
      /\ CallsEndWithOwner /\ Sleepers /\ AnswersTheirPrompt
  BY DEF WaitInv
<1>1. /\ wait' \in [Waiters -> WaitRow]
      /\ \A v \in Waiters : /\ wait'[v].gen = wait[v].gen /\ wait'[v].pc # "sleep" /\ wait'[v].pc # "dialog"
                            /\ Held(v)' <=> Held(v)
  <2>1. wait \in [Waiters -> WaitRow]
    BY <1>0 DEF WaitTypes
  <2>2. /\ onStatus(wait, status') \in [Waiters -> WaitRow]
        /\ \A w \in Waiters :
             /\ onStatus(wait, status')[w].gen = wait[w].gen /\ onStatus(wait, status')[w].pc # "sleep"
             /\ onStatus(wait, status')[w].pc = "dialog" => wait[w].pc = "dialog" /\ status' = "awaiting_input"
             /\ onStatus(wait, status')[w].pc \in {"dialog", "withdrawn"} <=> wait[w].pc \in {"dialog", "withdrawn"}
    BY <2>1, StatusRows
  <2>. QED  BY <2>2 DEF Held
<1>2. WaitTypes' /\ TrackerBehind' /\ Remembered' /\ AnswersTheirPrompt'
  BY <1>0, <1>1 DEF WaitTypes, TrackerBehind, Remembered, AnswersTheirPrompt
<1>3. Holders' /\ AskedIsHeld'
  BY <1>0, <1>1 DEF Holders, AskedIsHeld
<1>4. DialogsAreCurrent' /\ CallsEndWithOwner' /\ Sleepers'
  BY <1>0, <1>1 DEF DialogsAreCurrent, CallsEndWithOwner, Sleepers
<1>. QED  BY <1>2, <1>3, <1>4 DEF WaitInv

\* A prompt is detected: nobody holds it, and no call sleeps.
LEMMA PromptStep ==
  ASSUME WaitInv, onPromptDetected
  PROVE  WaitInv'
<1>0. /\ WaitTypes /\ TrackerBehind /\ Holders /\ AskedIsHeld /\ DialogsAreCurrent /\ Remembered
      /\ CallsEndWithOwner /\ Sleepers /\ AnswersTheirPrompt
  BY DEF WaitInv
<1>1. /\ UNCHANGED <<owner, up, told, mistaken>> /\ status' = "awaiting_input" /\ prompt' = tracker.gen + 1
      /\ repaused' = (repaused \/ status = "awaiting_input") /\ owner \in up
  BY DEF onPromptDetected, fixed, Runs
<1>2. /\ tracker' \in TrackerRow /\ tracker'.gen = tracker.gen + 1 /\ tracker'.asking = tracker.asking
      /\ tracker'.handedOff = tracker.handedOff /\ tracker'.cancelling = tracker.cancelling
  BY <1>0 DEF onPromptDetected, WaitTypes, TrackerRow
<1>3. /\ wait' \in [Waiters -> WaitRow]
      /\ \A v \in Waiters : /\ wait'[v].gen = wait[v].gen /\ wait'[v].pc # "sleep"
                            /\ wait'[v].pc = "dialog" => wait[v].pc = "dialog"
                            /\ Held(v)' <=> Held(v)
  <2>1. wait \in [Waiters -> WaitRow] /\ wait' = onStatus(wait, "awaiting_input")
    BY <1>0 DEF WaitTypes, onPromptDetected
  <2>2. /\ onStatus(wait, "awaiting_input") \in [Waiters -> WaitRow]
        /\ \A w \in Waiters :
             /\ onStatus(wait, "awaiting_input")[w].gen = wait[w].gen /\ onStatus(wait, "awaiting_input")[w].pc # "sleep"
             /\ onStatus(wait, "awaiting_input")[w].pc = "dialog" => wait[w].pc = "dialog"
             /\ onStatus(wait, "awaiting_input")[w].pc \in {"dialog", "withdrawn"} <=> wait[w].pc \in {"dialog", "withdrawn"}
    BY <2>1, StatusRows
  <2>. QED  BY <2>1, <2>2 DEF Held
<1>4. tracker.gen \in Nat /\ tracker.asking \in Nat /\ tracker.handedOff \in Nat /\ tracker.cancelling \in Nat
  BY <1>0 DEF WaitTypes, TrackerRow
<1>5. WaitTypes'
  <2>1. repaused' \in BOOLEAN
    BY <1>0, <1>1 DEF WaitTypes
  <2>. QED  BY <1>0, <1>1, <1>2, <1>3, <2>1 DEF WaitTypes, Statuses
<1>6. TrackerBehind'
  BY <1>0, <1>1, <1>2, <1>4 DEF TrackerBehind
<1>7. Holders' /\ AskedIsHeld'
  <2>1. \A w \in Waiters : Held(w) => wait[w].gen \in 1..tracker.gen
    BY <1>0 DEF Holders
  <2>2. Holders'
    BY <1>0, <1>2, <1>3, <1>4, <2>1 DEF Holders
  <2>3. tracker'.asking # tracker'.gen
    BY <1>0, <1>2, <1>4 DEF TrackerBehind
  <2>. QED  BY <2>2, <2>3 DEF AskedIsHeld
<1>8. DialogsAreCurrent' /\ CallsEndWithOwner' /\ Sleepers'
  BY <1>0, <1>1, <1>3 DEF DialogsAreCurrent, CallsEndWithOwner, Sleepers
<1>9. Remembered' /\ AnswersTheirPrompt'
  <2>1. tracker'.gen \notin told'
    BY <1>0, <1>1, <1>2, <1>4 DEF TrackerBehind
  <2>2. AnswersTheirPrompt'
    BY <1>0, <1>1 DEF AnswersTheirPrompt
  <2>. QED  BY <2>1, <2>2 DEF Remembered
<1>. QED  BY <1>5, <1>6, <1>7, <1>8, <1>9 DEF WaitInv

\* The owner ends and its calls with it; or its row is closed by another.
LEMMA OwnerStep ==
  ASSUME WaitInv, NEW p \in {"web", "mcp"}, Exits(p) \/ interruptOrphaned
  PROVE  WaitInv'
<1>0. /\ WaitTypes /\ TrackerBehind /\ Holders /\ AskedIsHeld /\ DialogsAreCurrent /\ Remembered
      /\ CallsEndWithOwner /\ Sleepers /\ AnswersTheirPrompt /\ wait \in [Waiters -> WaitRow]
  BY DEF WaitInv, WaitTypes
<1>1. UNCHANGED <<owner, tracker, told, mistaken, repaused>>
  BY DEF Exits, interruptOrphaned, fixed, waitVars, jobVars
<1>2. ASSUME wait' \in [Waiters -> WaitRow], \A w \in Waiters : wait'[w].pc \in {"done", "dead"},
             status' \in Statuses, status' = "awaiting_input" => status = "awaiting_input" /\ prompt' = prompt,
             owner \notin up' \/ status' \in Terminal
      PROVE  WaitInv'
  <2>1. WaitTypes' /\ TrackerBehind' /\ Remembered' /\ AnswersTheirPrompt'
    BY <1>0, <1>1, <1>2 DEF WaitTypes, TrackerBehind, Remembered, AnswersTheirPrompt
  <2>2. Holders' /\ AskedIsHeld'
    BY <1>0, <1>1, <1>2 DEF Holders, AskedIsHeld, Held
  <2>3. DialogsAreCurrent' /\ CallsEndWithOwner' /\ Sleepers'
    BY <1>0, <1>2 DEF DialogsAreCurrent, CallsEndWithOwner, Sleepers
  <2>. QED  BY <2>1, <2>2, <2>3 DEF WaitInv
<1>3. CASE Exits(p) /\ p = owner
  <2>1. UNCHANGED <<status, prompt>> /\ owner \notin up' /\ status \in Statuses
    BY <1>0, <1>3 DEF Exits, jobVars, WaitTypes
  <2>2. \A w \in Waiters : wait'[w] = IF wait[w].pc # "done" THEN [wait[w] EXCEPT !.pc = "dead"] ELSE wait[w]
    BY <1>3 DEF Exits
  <2>3. ASSUME NEW w \in Waiters PROVE wait'[w] \in WaitRow /\ wait'[w].pc \in {"done", "dead"}
    <3>1. wait[w] \in WaitRow /\ wait[w].aborted \in BOOLEAN
      BY <1>0 DEF WaitRow
    <3>. QED  BY <2>2, <3>1 DEF WaitRow
  <2>4. wait' \in [Waiters -> WaitRow]
    BY <1>3, <2>3 DEF Exits
  <2>. QED  BY <1>2, <2>1, <2>3, <2>4
<1>4. CASE Exits(p) /\ p # owner
  <2>1. UNCHANGED <<status, prompt>> /\ (owner \in up' <=> owner \in up)
    BY <1>4 DEF Exits, jobVars
  <2>2. wait' = wait
    BY <1>0, <1>4 DEF Exits
  <2>3. \A v \in Waiters : Held(v)' <=> Held(v)
    BY <2>2 DEF Held
  <2>. QED  BY <1>0, <1>1, <2>1, <2>2, <2>3, CallStep DEF Sleepers
<1>5. CASE interruptOrphaned
  <2>1. UNCHANGED wait /\ owner \notin up /\ status' \in Terminal
    BY <1>5 DEF interruptOrphaned, waitVars, Terminal
  <2>2. status' \in Statuses /\ status' # "awaiting_input"
    BY <2>1 DEF Statuses, Terminal
  <2>. QED  BY <1>0, <1>2, <2>1, <2>2 DEF CallsEndWithOwner
<1>. QED  BY <1>3, <1>4, <1>5

\* A call lets go of its prompt and wakes the others.
LEMMA ReleaseStep ==
  ASSUME WaitInv, NEW w \in Waiters, Held(w), NEW ws \in [Waiters -> WaitRow],
         NEW outcome \in {"resolved", "handed-off", "cancelling"}, NEW pc \in {"loop", "done"},
         Released(w, ws, outcome, pc),
         outcome # "resolved" => wait[w].pc = "dialog",
         \A v \in Waiters \ {w} :
           /\ ws[v].gen = wait[v].gen
           /\ ws[v].pc = "dialog" => wait[v].pc = "dialog" /\ status' = "awaiting_input"
           /\ ws[v].pc \in {"dialog", "withdrawn"} <=> Held(v),
         UNCHANGED <<owner, up, repaused>>, mistaken' \in BOOLEAN, mistaken' => repaused,
         status' \in Statuses, status \in Terminal => status' \in Terminal,
         status' = "awaiting_input" => status = "awaiting_input" /\ prompt' = prompt
  PROVE  WaitInv'
<1>. DEFINE gen == wait[w].gen
<1>0. /\ WaitTypes /\ TrackerBehind /\ Holders /\ AskedIsHeld /\ DialogsAreCurrent /\ Remembered
      /\ CallsEndWithOwner /\ Sleepers /\ AnswersTheirPrompt /\ wait \in [Waiters -> WaitRow]
      /\ tracker \in TrackerRow
  BY DEF WaitInv, WaitTypes
<1>1. owner \in up
  BY <1>0 DEF CallsEndWithOwner, Held
<1>2. gen \in 1..tracker.gen /\ tracker.gen \in Nat /\ gen \in Nat
  BY <1>0 DEF Holders, TrackerRow
<1>3. told' = IF outcome = "resolved" THEN told ELSE told \cup {gen}
  BY DEF Released
<1>4. /\ tracker' \in TrackerRow /\ tracker'.gen = tracker.gen
      /\ tracker'.asking = IF tracker.asking = gen THEN 0 ELSE tracker.asking
      /\ tracker'.handedOff = IF outcome = "handed-off" THEN gen ELSE tracker.handedOff
      /\ tracker'.cancelling = IF outcome = "cancelling" THEN gen ELSE tracker.cancelling
  <2>1. tracker' = release(tracker, gen, outcome)
    BY DEF Released
  <2>. HIDE DEF gen
  <2>. QED  BY <1>0, <1>2, <2>1 DEF release, TrackerRow
<1>5. /\ wait' \in [Waiters -> WaitRow] /\ wait'[w].pc = pc
      /\ \A v \in Waiters \ {w} : /\ wait'[v].gen = wait[v].gen /\ wait'[v].pc # "sleep"
                                  /\ wait'[v].pc = "dialog" => wait[v].pc = "dialog" /\ status' = "awaiting_input"
                                  /\ Held(v)' <=> Held(v)
  <2>. DEFINE poked == Poked(ws)
  <2>1. /\ poked \in [Waiters -> WaitRow]
        /\ \A v \in Waiters : /\ poked[v].gen = ws[v].gen
                              /\ poked[v].pc = IF ws[v].pc = "sleep" THEN "loop" ELSE ws[v].pc
    BY PokedRows
  <2>2. wait' = [poked EXCEPT ![w].pc = pc]
    BY DEF Released
  <2>. HIDE DEF poked
  <2>3. wait'[w] = [poked[w] EXCEPT !.pc = pc] /\ \A v \in Waiters \ {w} : wait'[v] = poked[v]
    BY <2>1, <2>2
  <2>4. poked[w] \in WaitRow /\ poked[w].aborted \in BOOLEAN
    BY <2>1 DEF WaitRow
  <2>5. wait'[w] \in WaitRow /\ wait'[w].pc = pc
    BY <2>3, <2>4 DEF WaitRow
  <2>6. wait' \in [Waiters -> WaitRow]
    BY <2>1, <2>2, <2>3, <2>5
  <2>. QED  BY <2>1, <2>3, <2>5, <2>6 DEF Held
<1>6. ~Held(w)' /\ wait'[w].pc # "sleep" /\ wait'[w].pc # "dialog"
  BY <1>5 DEF Held
<1>7. WaitTypes'
  BY <1>0, <1>4, <1>5 DEF WaitTypes
<1>8. TrackerBehind'
  <2>1. tracker.asking \in Nat /\ tracker.handedOff \in Nat /\ tracker.cancelling \in Nat
    BY <1>0 DEF TrackerRow
  <2>2. /\ tracker'.asking <= tracker'.gen /\ tracker'.handedOff <= tracker'.gen /\ tracker'.cancelling <= tracker'.gen
    BY <1>0, <1>2, <1>4, <2>1 DEF TrackerBehind
  <2>3. told' \subseteq 1..tracker'.gen
    BY <1>0, <1>2, <1>3, <1>4 DEF TrackerBehind
  <2>. QED  BY <1>0, <1>4, <2>2, <2>3 DEF TrackerBehind
<1>9. Holders'
  <2>1. ASSUME NEW v \in Waiters, Held(v)'
        PROVE  /\ v # w /\ Held(v) /\ wait'[v].gen = wait[v].gen /\ wait[v].gen # gen
               /\ wait[v].gen \in 1..tracker.gen /\ (wait[v].gen = tracker.gen => tracker.asking = tracker.gen)
    BY <1>0, <1>5, <1>6, <2>1 DEF Holders
  <2>2. ASSUME NEW v \in Waiters, Held(v)'
        PROVE  /\ wait'[v].gen \in 1..tracker'.gen
               /\ wait'[v].gen = tracker'.gen => tracker'.asking = tracker'.gen
    BY <1>4, <2>1, <2>2
  <2>3. ASSUME NEW u \in Waiters, NEW v \in Waiters, Held(u)', Held(v)', u # v PROVE wait'[u].gen # wait'[v].gen
    BY <1>0, <2>1, <2>3 DEF Holders
  <2>. QED  BY <2>2, <2>3 DEF Holders
<1>10. AskedIsHeld'
  <2>1. ASSUME status' \notin Terminal, tracker'.asking = tracker'.gen, tracker'.gen > 0
        PROVE  \E v \in Waiters : Held(v)' /\ wait'[v].gen = tracker'.gen
    <3>1. tracker.asking # gen /\ tracker.asking = tracker.gen /\ tracker.gen > 0 /\ status \notin Terminal
      BY <1>2, <1>4, <2>1
    <3>2. PICK v \in Waiters : Held(v) /\ wait[v].gen = tracker.gen
      BY <1>0, <1>1, <3>1 DEF AskedIsHeld
    <3>. QED  BY <1>4, <1>5, <3>1, <3>2
  <2>. QED  BY <2>1 DEF AskedIsHeld
<1>11. DialogsAreCurrent'
  <2>1. ASSUME NEW v \in Waiters, wait'[v].pc = "dialog"
        PROVE  status' = "awaiting_input" /\ (wait'[v].gen = tracker'.gen \/ repaused') /\ (wait'[v].gen \in told' => repaused')
    <3>1. /\ v # w /\ wait[v].pc = "dialog" /\ status' = "awaiting_input" /\ wait'[v].gen = wait[v].gen
      BY <1>5, <1>6, <2>1
    <3>2. wait[v].gen # gen
      BY <1>0, <3>1 DEF Holders, Held
    <3>. QED  BY <1>0, <1>3, <1>4, <3>1, <3>2 DEF DialogsAreCurrent
  <2>. QED  BY <2>1 DEF DialogsAreCurrent
<1>12. Remembered'
  <2>1. CASE outcome = "resolved"
    BY <1>0, <1>3, <1>4, <2>1 DEF Remembered
  <2>2. CASE outcome # "resolved" /\ ~repaused
    <3>1. gen = tracker.gen
      BY <1>0, <2>2 DEF DialogsAreCurrent
    <3>. QED  BY <1>4, <2>2, <3>1 DEF Remembered
  <2>. QED  BY <2>1, <2>2 DEF Remembered
<1>13. CallsEndWithOwner' /\ Sleepers' /\ AnswersTheirPrompt'
  BY <1>1, <1>5, <1>6 DEF CallsEndWithOwner, Sleepers, AnswersTheirPrompt
<1>. QED  BY <1>7, <1>8, <1>9, <1>10, <1>11, <1>12, <1>13 DEF WaitInv

\* The row of one call, when only its place and its cancellation change.
LEMMA RowStep ==
  ASSUME WaitTypes, NEW w \in Waiters, NEW pc \in {"loop", "sleep", "done", "withdrawn"}, NEW cut, cut \in BOOLEAN,
         wait' = [wait EXCEPT ![w] = [wait[w] EXCEPT !.pc = pc, !.aborted = cut]]
  PROVE  /\ wait' \in [Waiters -> WaitRow] /\ \A v \in Waiters \ {w} : wait'[v] = wait[v]
         /\ wait'[w].pc = pc /\ wait'[w].gen = wait[w].gen /\ wait'[w].aborted = cut
<1>. DEFINE row == [wait[w] EXCEPT !.pc = pc, !.aborted = cut]
<1>1. wait \in [Waiters -> WaitRow] /\ wait[w] \in WaitRow
  BY DEF WaitTypes
<1>2. row \in WaitRow /\ row.pc = pc /\ row.gen = wait[w].gen /\ row.aborted = cut
  BY <1>1 DEF WaitRow
<1>. HIDE DEF row
<1>3. wait'[w] = row /\ \A v \in Waiters \ {w} : wait'[v] = wait[v]
  BY <1>1 DEF row
<1>4. wait' \in [Waiters -> WaitRow]
  BY <1>1, <1>2 DEF row
<1>. QED  BY <1>2, <1>3, <1>4

\* A call looks at the job: it returns, sleeps, or claims a prompt nobody has.
LEMMA LoopStep ==
  ASSUME WaitInv, NEW w \in Waiters, waitForJob(w)
  PROVE  WaitInv'
<1>0. /\ WaitTypes /\ TrackerBehind /\ Holders /\ AskedIsHeld /\ DialogsAreCurrent /\ Remembered
      /\ CallsEndWithOwner /\ Sleepers /\ AnswersTheirPrompt /\ wait \in [Waiters -> WaitRow]
      /\ tracker \in TrackerRow /\ wait[w] \in WaitRow
  BY DEF WaitInv, WaitTypes
<1>. DEFINE pending == status = "awaiting_input"
            ends == \/ wait[w].aborted \/ status \in Terminal
                    \/ pending /\ (w \notin CanElicit \/ claim = "handed-off")
<1>1. /\ UNCHANGED <<owner, up, status, prompt, told, mistaken, repaused>> /\ owner \in up
      /\ wait[w].pc \in {"new", "loop"} /\ ~Held(w) /\ wait[w].aborted \in BOOLEAN
  BY <1>0 DEF waitForJob, fixed, jobVars, Held, WaitRow
<1>2. ASSUME NEW pc \in {"sleep", "done"}, wait' = [wait EXCEPT ![w].pc = pc], UNCHANGED tracker,
             pc = "sleep" => ~ends /\ ~(pending /\ claim = "ask")
      PROVE  WaitInv'
  <2>1. wait' = [wait EXCEPT ![w] = [wait[w] EXCEPT !.pc = pc, !.aborted = wait[w].aborted]]
    <3>1. [wait[w] EXCEPT !.pc = pc] = [wait[w] EXCEPT !.pc = pc, !.aborted = wait[w].aborted]
      BY <1>0 DEF WaitRow
    <3>. QED  BY <1>2, <3>1
  <2>2. /\ wait' \in [Waiters -> WaitRow] /\ \A v \in Waiters \ {w} : wait'[v] = wait[v]
        /\ wait'[w].pc = pc /\ wait'[w].gen = wait[w].gen /\ wait'[w].aborted = wait[w].aborted
    BY <1>0, <1>1, <2>1, RowStep
  <2>3. \A v \in Waiters : Held(v)' <=> Held(v)
    BY <1>1, <1>2, <2>2 DEF Held
  <2>4. pc = "sleep" => /\ status \notin Terminal /\ ~wait[w].aborted
                        /\ status = "awaiting_input" => w \in CanElicit /\ claim = "busy"
    BY <1>2 DEF claim
  <2>5. \A v \in Waiters :
          /\ wait'[v].gen = wait[v].gen
          /\ wait'[v].pc = "dialog" => wait[v].pc = "dialog"
          /\ wait[v].pc \in {"done", "dead"} => wait'[v].pc \in {"done", "dead"}
          /\ wait'[v].pc = "sleep" => /\ status \notin Terminal /\ ~wait'[v].aborted
                                      /\ status = "awaiting_input" => v \in CanElicit /\ claim = "busy"
    BY <1>0, <1>1, <1>2, <2>2, <2>4 DEF Sleepers
  <2>. QED  BY <1>1, <1>2, <2>2, <2>3, <2>5, CallStep
<1>3. CASE /\ pending /\ claim = "ask"
           /\ tracker' = [tracker EXCEPT !.asking = tracker.gen]
           /\ wait' = [wait EXCEPT ![w].pc = "dialog", ![w].gen = tracker.gen]
  <2>1. tracker.gen \in Nat /\ tracker.gen > 0 /\ prompt = tracker.gen
    BY <1>0, <1>3 DEF TrackerRow, TrackerBehind
  <2>2. tracker.handedOff # tracker.gen /\ tracker.asking # tracker.gen /\ tracker.cancelling # tracker.gen
    BY <1>3 DEF claim
  <2>3. /\ tracker' \in TrackerRow /\ tracker'.gen = tracker.gen /\ tracker'.asking = tracker.gen
        /\ tracker'.handedOff = tracker.handedOff /\ tracker'.cancelling = tracker.cancelling
    BY <1>0, <1>3, <2>1 DEF TrackerRow
  <2>4. /\ wait'[w] = [pc |-> "dialog", gen |-> tracker.gen, aborted |-> wait[w].aborted]
        /\ \A v \in Waiters \ {w} : wait'[v] = wait[v]
    BY <1>0, <1>3 DEF WaitRow
  <2>5. wait'[w] \in WaitRow /\ wait'[w].pc = "dialog" /\ wait'[w].gen = tracker.gen
    BY <1>1, <2>1, <2>4 DEF WaitRow
  <2>6. wait' \in [Waiters -> WaitRow]
    BY <1>0, <1>3, <2>4, <2>5
  <2>7. \A v \in Waiters : Held(v) => wait[v].gen # tracker.gen
    BY <1>0, <2>2 DEF Holders
  <2>8. WaitTypes'
    BY <1>0, <1>1, <2>3, <2>6 DEF WaitTypes
  <2>9. TrackerBehind'
    BY <1>0, <1>1, <2>1, <2>3 DEF TrackerBehind
  <2>10. \A v \in Waiters \ {w} : Held(v)' <=> Held(v)
    BY <2>4 DEF Held
  <2>11. Holders'
    <3>1. ASSUME NEW v \in Waiters, Held(v)'
          PROVE  /\ wait'[v].gen \in 1..tracker'.gen
                 /\ wait'[v].gen = tracker'.gen => tracker'.asking = tracker'.gen
      BY <1>0, <2>1, <2>3, <2>4, <2>5, <2>10, <3>1 DEF Holders
    <3>2. ASSUME NEW u \in Waiters, NEW v \in Waiters, Held(u)', Held(v)', u # v PROVE wait'[u].gen # wait'[v].gen
      BY <1>0, <2>4, <2>5, <2>7, <2>10, <3>2 DEF Holders
    <3>. QED  BY <3>1, <3>2 DEF Holders
  <2>12. AskedIsHeld'
    <3>1. Held(w)' /\ wait'[w].gen = tracker'.gen
      BY <2>3, <2>5 DEF Held
    <3>. QED  BY <3>1 DEF AskedIsHeld
  <2>13. DialogsAreCurrent'
    <3>1. tracker.gen \in told => repaused
      BY <1>0, <2>2 DEF Remembered
    <3>. QED  BY <1>0, <1>1, <1>3, <2>3, <2>4, <2>5, <3>1 DEF DialogsAreCurrent
  <2>14. Remembered' /\ CallsEndWithOwner' /\ AnswersTheirPrompt'
    BY <1>0, <1>1, <2>3 DEF Remembered, CallsEndWithOwner, AnswersTheirPrompt
  <2>15. Sleepers'
    <3>1. \A v \in Waiters : wait'[v].pc # "sleep"
      BY <1>0, <1>3, <2>4, <2>5 DEF Sleepers
    <3>. QED  BY <3>1 DEF Sleepers
  <2>. QED  BY <2>8, <2>9, <2>11, <2>12, <2>13, <2>14, <2>15 DEF WaitInv
<1>4. \/ \E pc \in {"sleep", "done"} :
           /\ wait' = [wait EXCEPT ![w].pc = pc] /\ UNCHANGED tracker
           /\ pc = "sleep" => ~ends /\ ~(pending /\ claim = "ask")
      \/ /\ pending /\ claim = "ask"
         /\ tracker' = [tracker EXCEPT !.asking = tracker.gen]
         /\ wait' = [wait EXCEPT ![w].pc = "dialog", ![w].gen = tracker.gen]
  BY DEF waitForJob
<1>. QED  BY <1>2, <1>3, <1>4

\* A dialog is answered, declined, fails, or is taken back.
LEMMA DialogStep ==
  ASSUME WaitInv, NEW w \in Waiters,
         DialogWithdrawn(w) \/ Declined(w) \/ CancelJob(w) \/ AnswerPrompt(w) \/ AskThrows(w)
  PROVE  WaitInv'
<1>0. /\ WaitTypes /\ DialogsAreCurrent /\ AnswersTheirPrompt /\ TrackerBehind /\ wait \in [Waiters -> WaitRow]
      /\ status \in Statuses /\ mistaken \in BOOLEAN
  BY DEF WaitInv, WaitTypes
<1>1. Held(w) /\ UNCHANGED <<owner, up, repaused>>
  BY DEF DialogWithdrawn, Declined, CancelJob, AnswerPrompt, AskThrows, Held, fixed
<1>2. \A v \in Waiters : /\ wait[v].pc = "dialog" => status = "awaiting_input"
                         /\ wait[v].pc \in {"dialog", "withdrawn"} <=> Held(v)
  BY <1>0 DEF DialogsAreCurrent, Held
<1>3. ASSUME NEW outcome \in {"resolved", "handed-off", "cancelling"}, NEW pc \in {"loop", "done"},
             Released(w, wait, outcome, pc), outcome # "resolved" => wait[w].pc = "dialog",
             UNCHANGED <<status, prompt>>, mistaken' \in BOOLEAN, mistaken' => repaused
      PROVE  WaitInv'
  BY <1>0, <1>1, <1>2, <1>3, ReleaseStep
<1>4. mistaken => repaused
  BY <1>0 DEF AnswersTheirPrompt
<1>5. CASE DialogWithdrawn(w)
  <2>1. Released(w, wait, "resolved", "loop") /\ UNCHANGED <<status, prompt, mistaken>>
    BY <1>5 DEF DialogWithdrawn, jobVars
  <2>. QED  BY <1>0, <1>3, <1>4, <2>1
<1>6. CASE Declined(w)
  <2>1. /\ wait[w].pc = "dialog" /\ UNCHANGED <<status, prompt, mistaken>>
        /\ Released(w, wait, "handed-off", "done") \/ Released(w, wait, "resolved", "loop")
    BY <1>6 DEF Declined, jobVars
  <2>. QED  BY <1>0, <1>3, <1>4, <2>1
<1>7. CASE CancelJob(w)
  <2>1. wait[w].pc = "dialog" /\ Released(w, wait, "cancelling", "loop") /\ UNCHANGED <<status, prompt, mistaken>>
    BY <1>7 DEF CancelJob
  <2>. QED  BY <1>0, <1>3, <1>4, <2>1
<1>8. CASE AskThrows(w)
  <2>1. Released(w, wait, "resolved", "done") /\ UNCHANGED <<status, prompt, mistaken>>
    BY <1>8 DEF AskThrows, jobVars
  <2>. QED  BY <1>0, <1>3, <1>4, <2>1
<1>9. CASE AnswerPrompt(w)
  <2>1. wait[w].pc = "dialog" /\ status = "awaiting_input"
    BY <1>2, <1>9 DEF AnswerPrompt
  <2>2. mistaken' \in BOOLEAN /\ (mistaken' => repaused)
    <3>1. mistaken' = (mistaken \/ (status = "awaiting_input" /\ prompt # wait[w].gen))
      BY <1>9 DEF AnswerPrompt
    <3>2. prompt = wait[w].gen \/ repaused
      BY <1>0, <2>1 DEF DialogsAreCurrent, TrackerBehind
    <3>. QED  BY <1>0, <1>4, <3>1, <3>2
  <2>. DEFINE as == [wait EXCEPT ![w].pc = "answered"]
              ws == onStatus(as, "running")
  <2>3. status' = "running" /\ Released(w, ws, "resolved", "loop")
    BY <1>9, <2>1 DEF AnswerPrompt
  <2>4. as \in [Waiters -> WaitRow] /\ \A v \in Waiters \ {w} : as[v] = wait[v]
    <3>1. wait[w] \in WaitRow /\ wait[w].aborted \in BOOLEAN
      BY <1>0 DEF WaitRow
    <3>2. [wait[w] EXCEPT !.pc = "answered"] \in WaitRow
      BY <3>1 DEF WaitRow
    <3>. QED  BY <1>0, <3>2
  <2>. HIDE DEF as
  <2>5. /\ ws \in [Waiters -> WaitRow]
        /\ \A v \in Waiters : /\ ws[v].gen = as[v].gen /\ ws[v].pc # "dialog"
                              /\ ws[v].pc \in {"dialog", "withdrawn"} <=> as[v].pc \in {"dialog", "withdrawn"}
    BY <2>4, StatusRows, ZenonT(60)
  <2>. HIDE DEF ws
  <2>6. \A v \in Waiters \ {w} : /\ ws[v].gen = wait[v].gen /\ ws[v].pc # "dialog"
                                 /\ ws[v].pc \in {"dialog", "withdrawn"} <=> Held(v)
    BY <1>2, <2>4, <2>5
  <2>7. status' \in Statuses /\ status \notin Terminal
    BY <2>1, <2>3 DEF Statuses, Terminal
  <2>. QED  BY <1>1, <2>2, <2>3, <2>5, <2>6, <2>7, ReleaseStep
<1>. QED  BY <1>5, <1>6, <1>7, <1>8, <1>9

\* A call is cancelled, or its deadline passes.
LEMMA AbortStep ==
  ASSUME WaitInv, NEW w \in Waiters, CallAborts(w) \/ DeadlinePasses(w)
  PROVE  WaitInv'
<1>0. WaitTypes /\ Sleepers /\ wait \in [Waiters -> WaitRow] /\ wait[w] \in WaitRow /\ wait[w].aborted \in BOOLEAN
  BY DEF WaitInv, WaitTypes, WaitRow
<1>1. UNCHANGED <<owner, up, status, prompt, tracker, told, mistaken, repaused>>
  BY DEF CallAborts, DeadlinePasses, fixed, jobVars
<1>2. ASSUME NEW pc \in {"loop", "done", "withdrawn"}, NEW cut \in BOOLEAN,
             wait[w].pc \in {"sleep", "dialog", "loop"}, pc = "withdrawn" <=> wait[w].pc = "dialog",
             wait' = [wait EXCEPT ![w] = [wait[w] EXCEPT !.pc = pc, !.aborted = cut]]
      PROVE  WaitInv'
  <2>1. /\ wait' \in [Waiters -> WaitRow] /\ \A v \in Waiters \ {w} : wait'[v] = wait[v]
        /\ wait'[w].pc = pc /\ wait'[w].gen = wait[w].gen
    BY <1>0, <1>2, RowStep
  <2>2. \A v \in Waiters : Held(v)' <=> Held(v)
    BY <1>2, <2>1 DEF Held
  <2>3. \A v \in Waiters :
          /\ wait'[v].gen = wait[v].gen
          /\ wait'[v].pc = "dialog" => wait[v].pc = "dialog"
          /\ wait[v].pc \in {"done", "dead"} => wait'[v].pc \in {"done", "dead"}
          /\ wait'[v].pc = "sleep" => /\ status \notin Terminal /\ ~wait'[v].aborted
                                      /\ status = "awaiting_input" => v \in CanElicit /\ claim = "busy"
    BY <1>0, <1>2, <2>1 DEF Sleepers
  <2>. QED  BY <1>1, <2>1, <2>2, <2>3, CallStep
<1>3. CASE CallAborts(w)
  <2>. DEFINE pc == CASE wait[w].pc = "dialog" -> "withdrawn" [] wait[w].pc = "sleep" -> "loop" [] OTHER -> wait[w].pc
  <2>1. wait[w].pc \in {"sleep", "dialog", "loop"} /\ wait' = [wait EXCEPT ![w].aborted = TRUE, ![w].pc = pc]
    BY <1>0, <1>3 DEF CallAborts, WaitRow
  <2>2. pc \in {"loop", "done", "withdrawn"} /\ (pc = "withdrawn" <=> wait[w].pc = "dialog")
    BY <2>1
  <2>. HIDE DEF pc
  <2>3. wait' = [wait EXCEPT ![w] = [wait[w] EXCEPT !.pc = pc, !.aborted = TRUE]]
    <3>1. wait' = [wait EXCEPT ![w] = [[wait[w] EXCEPT !.aborted = TRUE] EXCEPT !.pc = pc]]
      BY <1>0, <2>1
    <3>2. [[wait[w] EXCEPT !.aborted = TRUE] EXCEPT !.pc = pc] = [wait[w] EXCEPT !.pc = pc, !.aborted = TRUE]
      BY <1>0 DEF WaitRow
    <3>. QED  BY <3>1, <3>2
  <2>. QED  BY <1>2, <2>1, <2>2, <2>3
<1>4. CASE DeadlinePasses(w)
  <2>1. wait[w].pc = "sleep" /\ wait' = [wait EXCEPT ![w] = [wait[w] EXCEPT !.pc = "done"]]
    BY <1>4 DEF DeadlinePasses
  <2>2. [wait[w] EXCEPT !.pc = "done"] = [wait[w] EXCEPT !.pc = "done", !.aborted = wait[w].aborted]
    BY <1>0 DEF WaitRow
  <2>. QED  BY <1>0, <1>2, <2>1, <2>2
<1>. QED  BY <1>3, <1>4

LEMMA WaitInit ==
  ASSUME Init
  PROVE  WaitInv
<1>1. PICK s \in Scenes :
        /\ owner = s.owner /\ viewer = s.viewer
        /\ wait = [w \in Waiters |-> [pc |-> IF w \in s.calls THEN "new" ELSE "done", gen |-> 0, aborted |-> FALSE]]
  BY DEF Init
<1>2. owner \in {"web", "mcp"} /\ owner \in up
  BY <1>1, WatchAssumption DEF Init
<1>3. /\ tracker \in TrackerRow /\ tracker.gen = 0 /\ tracker.asking = 0 /\ tracker.handedOff = 0 /\ tracker.cancelling = 0
      /\ status = "queued" /\ told = {} /\ mistaken = FALSE /\ repaused = FALSE
  BY DEF Init, TrackerRow
<1>4. wait \in [Waiters -> WaitRow] /\ \A w \in Waiters : wait[w].pc \in {"new", "done"}
  <2>1. \A x \in {"new", "done"} : [pc |-> x, gen |-> 0, aborted |-> FALSE] \in WaitRow
    BY DEF WaitRow
  <2>. QED  BY <1>1, <2>1
<1>5. WaitTypes
  BY <1>2, <1>3, <1>4 DEF WaitTypes, Statuses
<1>6. TrackerBehind /\ AskedIsHeld /\ Remembered /\ AnswersTheirPrompt /\ CallsEndWithOwner
  BY <1>2, <1>3 DEF TrackerBehind, AskedIsHeld, Remembered, AnswersTheirPrompt, CallsEndWithOwner
<1>7. Holders /\ DialogsAreCurrent /\ Sleepers
  BY <1>4 DEF Holders, DialogsAreCurrent, Sleepers, Held
<1>. QED  BY <1>5, <1>6, <1>7 DEF WaitInv

LEMMA WaitNext ==
  ASSUME WaitInv, [Next]_vars
  PROVE  WaitInv'
<1>0. Sleepers /\ WaitTypes
  BY DEF WaitInv
<1>1. ASSUME UNCHANGED <<owner, status, prompt, tracker, wait, told, mistaken, repaused>>,
             owner \in up' <=> owner \in up
      PROVE  WaitInv'
  <2>1. wait' \in [Waiters -> WaitRow] /\ \A v \in Waiters : Held(v)' <=> Held(v)
    BY <1>0, <1>1 DEF WaitTypes, Held
  <2>. QED  BY <1>0, <1>1, <2>1, CallStep DEF Sleepers
<1>2. CASE UNCHANGED vars
  BY <1>1, <1>2 DEF vars, fixed, jobVars, waitVars
<1>3. CASE Start
  <2>1. UNCHANGED <<owner, up, tracker, told, mistaken, repaused>> /\ owner \in up /\ status = "queued"
        /\ status' = "running" /\ wait' = onStatus(wait, status')
    BY <1>3 DEF Start, Runs, fixed
  <2>. QED  BY <2>1, RunStep DEF Statuses, Terminal
<1>4. CASE AnsweredElsewhere
  <2>1. UNCHANGED <<owner, up, tracker, told, mistaken, repaused>> /\ owner \in up /\ status = "awaiting_input"
        /\ status' = "running" /\ wait' = onStatus(wait, status')
    BY <1>4 DEF AnsweredElsewhere, Cleared, Runs, fixed
  <2>. QED  BY <2>1, RunStep DEF Statuses, Terminal
<1>5. CASE markFinished
  <2>1. UNCHANGED <<owner, up, tracker, told, mistaken, repaused>> /\ owner \in up
        /\ status \in {"queued", "running", "awaiting_input"}
        /\ status' \in {"cancelled", "success", "failed"} /\ wait' = onStatus(wait, status')
    BY <1>5 DEF markFinished, Runs, fixed
  <2>. QED  BY <2>1, RunStep DEF Statuses, Terminal
<1>6. CASE emitLogChunk \/ CancelledElsewhere
  BY <1>1, <1>6 DEF emitLogChunk, CancelledElsewhere, fixed, waitVars
<1>7. CASE WebRestarts
  BY <1>1, <1>7 DEF WebRestarts, fixed, waitVars, jobVars
<1>8. CASE OpenPage \/ GetJob \/ GetJobArrives \/ Upgrade \/ UpgradeForeign
  BY <1>1, <1>8 DEF OpenPage, GetJob, GetJobArrives, Upgrade, UpgradeForeign, fixed, waitVars, jobVars
<1>9. CASE TickRow \/ TickLog \/ TickRest \/ Deliver
  BY <1>1, <1>9 DEF TickRow, TickLog, TickRest, Deliver, fixed, waitVars, jobVars
<1>10. CASE SocketBreaks \/ Poll \/ \E i \in 1..MaxPolls : PollArrives(i)
  BY <1>1, <1>10 DEF SocketBreaks, Poll, PollArrives, fixed, waitVars, jobVars
<1>11. CASE Next
  BY <1>3, <1>4, <1>5, <1>6, <1>7, <1>8, <1>9, <1>10, <1>11, PromptStep, OwnerStep, LoopStep, DialogStep, AbortStep
     DEF Next
<1>. QED  BY <1>2, <1>11

LEMMA WaitInvariance == Spec => []WaitInv
<1>. QED  BY WaitInit, WaitNext, PTL DEF Spec

\* No call of wait_for_job sleeps through the end of the job, through a
\* prompt nobody is asking about, or through its own cancellation, and a
\* prompt that counts as being asked about is in somebody's hands.
THEOREM CallsWakeUp == Spec => []NoMissedWakeup
<1>1. ASSUME WaitInv PROVE NoMissedWakeup
  <2>1. owner \in up /\ status = "awaiting_input" /\ tracker.asking = tracker.gen =>
          \E w \in Waiters : wait[w].pc \in {"dialog", "withdrawn"} /\ wait[w].gen = tracker.gen
    BY <1>1 DEF WaitInv, TrackerBehind, AskedIsHeld, Held, Terminal
  <2>. QED  BY <1>1, <2>1 DEF WaitInv, Sleepers, NoMissedWakeup
<1>. QED  BY <1>1, WaitInvariance, PTL

\* A prompt is shown in one dialog at a time and in none once it was
\* declined, and an answer goes to the prompt that was shown, unless the job
\* paused on a second prompt without running in between.
THEOREM PromptsAreAskedOnce == Spec => []DialogsFitPrompts
<1>1. ASSUME WaitInv PROVE DialogsFitPrompts
  <2>1. AskedOnce
    BY <1>1 DEF WaitInv, DialogsAreCurrent, Holders, Held, AskedOnce
  <2>. QED  BY <1>1, <2>1 DEF WaitInv, DialogsFitPrompts
<1>. QED  BY <1>1, WaitInvariance, PTL

-----------------------------------------------------------------------------
(* Who sees the page. *)

\* A page that shows nothing and has nothing but closings to come.
Dark == /\ page.live = None /\ page.sock # "row" /\ tail.at = None /\ polls = <<>>
        /\ wire \in Seq({Close})

LEMMA MessageTypes ==
  /\ \A a, b \in Nat : Chunk(a, b) \in Message /\ Backlog(a) \in Message /\ Prompt(a) \in Message
  /\ \A s \in Shown : Status(s) \in Message
  /\ Close \in Message /\ Idle \in TailRow
  /\ \A s \in Shown, p \in Nat : Replay(s, p) \in Seq(Message)
  /\ \A n \in Nat : n - (n % 2) \in Nat
<1>1. None \in Shown /\ 0 \in Nat
  BY DEF Shown
<1>2. \A a, b \in Nat : Chunk(a, b) \in Message /\ Backlog(a) \in Message /\ Prompt(a) \in Message
  BY <1>1 DEF Chunk, Backlog, Prompt, Message
<1>3. \A s \in Shown : Status(s) \in Message
  BY <1>1 DEF Status, Message
<1>4. Close \in Message /\ Idle \in TailRow
  BY <1>1 DEF Close, Idle, Message, TailRow
<1>5. \A s \in Shown, p \in Nat : Replay(s, p) \in Seq(Message)
  BY <1>2, <1>3 DEF Replay
<1>6. \A n \in Nat : n - (n % 2) \in Nat
  OBVIOUS
<1>. QED  BY <1>2, <1>3, <1>4, <1>5, <1>6

\* Only messages go on the wire.
LEMMA WireNext ==
  ASSUME WireTypes, WaitTypes, [Next]_vars
  PROVE  WireTypes'
<1>0. log \in Nat /\ prompt \in Nat /\ tail \in TailRow /\ wire \in Seq(Message) /\ status \in Shown /\ tracker.gen \in Nat
  BY DEF WireTypes, WaitTypes, Shown, TrackerRow
<1>1. ASSUME NEW messages \in Seq(Message), Emit(messages) PROVE wire' \in Seq(Message)
  BY <1>0, <1>1 DEF Emit
<1>2. CASE UNCHANGED <<log, prompt, tail, wire>>
  BY <1>2 DEF WireTypes
<1>3. CASE Start \/ AnsweredElsewhere
  <2>1. "running" \in Shown
    BY DEF Shown, Statuses
  <2>2. <<Status("running")>> \in Seq(Message) /\ <<Status("running"), Prompt(0)>> \in Seq(Message)
    BY <2>1, MessageTypes
  <2>3. wire' \in Seq(Message)
    BY <1>1, <1>3, <2>2 DEF Start, AnsweredElsewhere, Cleared
  <2>4. UNCHANGED <<log, tail>> /\ prompt' \in Nat
    BY <1>0, <1>3 DEF Start, AnsweredElsewhere, Cleared
  <2>. QED  BY <2>3, <2>4 DEF WireTypes
<1>4. CASE emitLogChunk
  <2>1. log' \in Nat /\ UNCHANGED <<tail, prompt>>
    BY <1>0, <1>4 DEF emitLogChunk
  <2>2. <<Chunk(log, log')>> \in Seq(Message)
    BY <1>0, <2>1, MessageTypes
  <2>3. wire' \in Seq(Message)
    BY <1>1, <1>4, <2>2 DEF emitLogChunk
  <2>. QED  BY <1>0, <2>1, <2>3 DEF WireTypes
<1>5. CASE onPromptDetected
  <2>1. prompt' \in Nat /\ UNCHANGED <<tail, log>>
    BY <1>0, <1>5 DEF onPromptDetected
  <2>2. "awaiting_input" \in Shown
    BY DEF Shown, Statuses
  <2>3. <<Status("awaiting_input"), Prompt(prompt')>> \in Seq(Message)
    BY <2>1, <2>2, MessageTypes
  <2>4. wire' \in Seq(Message)
    BY <1>1, <1>5, <2>3 DEF onPromptDetected
  <2>. QED  BY <1>0, <2>1, <2>4 DEF WireTypes
<1>6. CASE markFinished
  <2>1. log' \in Nat /\ prompt' \in Nat /\ UNCHANGED tail /\ status' \in Shown
    BY <1>0, <1>6 DEF markFinished, Shown, Statuses, Terminal
  <2>. DEFINE messages == (IF log' = log THEN <<>> ELSE <<Chunk(log, log')>>) \o <<Status(status')>>
  <2>2. messages \in Seq(Message)
    BY <1>0, <2>1, MessageTypes
  <2>3. Emit(messages)
    BY <1>6 DEF markFinished
  <2>. HIDE DEF messages
  <2>4. wire' \in Seq(Message)
    BY <1>1, <2>2, <2>3
  <2>. QED  BY <1>0, <2>1, <2>4 DEF WireTypes
<1>7. ASSUME NEW w \in Waiters, AnswerPrompt(w) PROVE WireTypes'
  <2>1. "running" \in Shown
    BY DEF Shown, Statuses
  <2>2. <<Status("running"), Prompt(0)>> \in Seq(Message)
    BY <2>1, MessageTypes
  <2>3. wire' \in Seq(Message)
    BY <1>0, <1>1, <1>7, <2>2 DEF AnswerPrompt
  <2>4. UNCHANGED <<log, tail>> /\ prompt' \in Nat
    BY <1>0, <1>7 DEF AnswerPrompt
  <2>. QED  BY <1>0, <2>3, <2>4 DEF WireTypes
<1>8. ASSUME NEW p \in {"web", "mcp"}, Exits(p) PROVE WireTypes'
  <2>1. UNCHANGED <<log, prompt>> /\ tail' \in {Idle, tail} /\ wire' \in {Append(wire, Close), wire}
    BY <1>8 DEF Exits, jobVars
  <2>2. Close \in Message /\ Idle \in TailRow
    BY MessageTypes
  <2>3. Append(wire, Close) \in Seq(Message)
    BY <1>0, <2>2
  <2>. QED  BY <1>0, <2>1, <2>2, <2>3 DEF WireTypes
<1>9. CASE interruptOrphaned
  <2>1. UNCHANGED <<log, tail, wire>> /\ prompt' \in Nat
    BY <1>0, <1>9 DEF interruptOrphaned, pageVars
  <2>. QED  BY <1>0, <2>1 DEF WireTypes
<1>10. CASE Upgrade
  <2>1. UNCHANGED <<log, prompt>>
    BY <1>10 DEF Upgrade, jobVars
  <2>2. \/ UNCHANGED <<tail, wire>>
        \/ /\ wire' = <<Backlog(log)>> \o Replay(status, prompt)
           /\ tail' = [Idle EXCEPT !.at = "listening"]
        \/ /\ tail' = [Idle EXCEPT !.status = status, !.prompt = prompt]
           /\ UNCHANGED wire
    BY <1>10 DEF Upgrade
  <2>3. [Idle EXCEPT !.at = "listening"] \in TailRow /\ [Idle EXCEPT !.status = status, !.prompt = prompt] \in TailRow
    BY <1>0 DEF Idle, TailRow, Shown
  <2>4. <<Backlog(log)>> \o Replay(status, prompt) \in Seq(Message)
    BY <1>0, MessageTypes
  <2>. QED  BY <1>0, <2>1, <2>2, <2>3, <2>4 DEF WireTypes
<1>11. CASE UpgradeForeign
  <2>. DEFINE off == log - (log % 2)
  <2>1. off \in Nat /\ tail.status \in Shown /\ tail.prompt \in Nat
    BY <1>0, MessageTypes DEF TailRow
  <2>2. /\ UNCHANGED <<log, prompt>> /\ wire' = <<Backlog(off)>> \o Replay(tail.status, tail.prompt)
        /\ tail' = [tail EXCEPT !.off = off, !.at = IF tail.status \in Terminal THEN None ELSE "tick"]
    BY <1>11 DEF UpgradeForeign, completeUtf8Length, jobVars
  <2>. HIDE DEF off
  <2>3. wire' \in Seq(Message)
    BY <2>1, <2>2, MessageTypes
  <2>4. tail' \in TailRow
    BY <1>0, <2>1, <2>2 DEF TailRow
  <2>. QED  BY <1>0, <2>2, <2>3, <2>4 DEF WireTypes
<1>12. CASE TickRow
  <2>1. UNCHANGED <<log, prompt, wire>> /\ tail' = [tail EXCEPT !.at = "log", !.row = status, !.rowPrompt = prompt]
    BY <1>12 DEF TickRow, jobVars
  <2>2. tail' \in TailRow
    BY <1>0, <2>1 DEF TailRow
  <2>. QED  BY <1>0, <2>1, <2>2 DEF WireTypes
<1>13. CASE TickLog
  <2>. DEFINE from == tail.off - (tail.off % 2)
              to == log - (log % 2)
  <2>1. from \in Nat /\ to \in Nat
    BY <1>0, MessageTypes DEF TailRow
  <2>2. /\ UNCHANGED <<log, prompt>> /\ wire' \in {Append(wire, Chunk(from, to)), wire}
        /\ tail' = [tail EXCEPT !.at = "rest", !.off = log]
    BY <1>13 DEF TickLog, jobVars
  <2>. HIDE DEF from, to
  <2>3. wire' \in Seq(Message)
    <3>1. Chunk(from, to) \in Message
      BY <2>1, MessageTypes
    <3>2. Append(wire, Chunk(from, to)) \in Seq(Message)
      BY <1>0, <3>1
    <3>. QED  BY <1>0, <2>2, <3>2
  <2>4. tail' \in TailRow
    BY <1>0, <2>2 DEF TailRow
  <2>. QED  BY <1>0, <2>2, <2>3, <2>4 DEF WireTypes
<1>14. CASE TickRest
  <2>. DEFINE changed == (IF tail.row # tail.status THEN <<Status(tail.row)>> ELSE <<>>)
                           \o (IF tail.rowPrompt # tail.prompt THEN <<Prompt(tail.rowPrompt)>> ELSE <<>>)
  <2>1. tail.row \in Shown /\ tail.rowPrompt \in Nat
    BY <1>0 DEF TailRow
  <2>2. changed \in Seq(Message)
    BY <2>1, MessageTypes
  <2>3. /\ UNCHANGED <<log, prompt>>
        /\ wire' \in {Append(wire \o <<>>, Close), Append(wire \o changed, Close), wire \o changed}
        /\ tail' \in {Idle, [tail EXCEPT !.at = "tick", !.status = tail.row, !.prompt = tail.rowPrompt]}
    BY <1>14 DEF TickRest, Stop, jobVars
  <2>. HIDE DEF changed
  <2>4. wire' \in Seq(Message)
    <3>1. Close \in Message
      BY MessageTypes
    <3>2. wire \o <<>> \in Seq(Message) /\ wire \o changed \in Seq(Message)
      BY <1>0, <2>2
    <3>3. Append(wire \o <<>>, Close) \in Seq(Message) /\ Append(wire \o changed, Close) \in Seq(Message)
      BY <3>1, <3>2
    <3>. QED  BY <2>3, <3>2, <3>3
  <2>5. [tail EXCEPT !.at = "tick", !.status = tail.row, !.prompt = tail.rowPrompt] \in TailRow
    BY <1>0, <2>1 DEF TailRow
  <2>. QED  BY <1>0, <2>3, <2>4, <2>5, MessageTypes DEF WireTypes
<1>15. CASE Deliver
  BY <1>0, <1>15 DEF Deliver, jobVars, WireTypes
<1>16. CASE SocketBreaks
  BY <1>0, <1>16, MessageTypes DEF SocketBreaks, jobVars, WireTypes
<1>17. CASE UNCHANGED vars
  BY <1>2, <1>17 DEF vars, jobVars, pageVars
<1>18. CASE CancelledElsewhere \/ WebRestarts \/ OpenPage \/ GetJob \/ GetJobArrives \/ Poll
  BY <1>2, <1>18 DEF CancelledElsewhere, WebRestarts, OpenPage, GetJob, GetJobArrives, Poll, jobVars, pageVars
<1>19. ASSUME NEW w \in Waiters,
              \/ waitForJob(w) \/ DialogWithdrawn(w) \/ Declined(w) \/ CancelJob(w)
              \/ AskThrows(w) \/ CallAborts(w) \/ DeadlinePasses(w)
       PROVE  WireTypes'
  BY <1>2, <1>19 DEF waitForJob, DialogWithdrawn, Declined, CancelJob, AskThrows, CallAborts, DeadlinePasses,
     jobVars, pageVars
<1>20. ASSUME NEW i \in 1..MaxPolls, PollArrives(i) PROVE WireTypes'
  BY <1>2, <1>20 DEF PollArrives, jobVars
<1>. QED  BY <1>3, <1>4, <1>5, <1>6, <1>7, <1>8, <1>9, <1>10, <1>11, <1>12, <1>13, <1>14, <1>15, <1>16, <1>17,
             <1>18, <1>19, <1>20 DEF Next

LEMMA PageKept ==
  ASSUME UNCHANGED viewer, DOMAIN page' = PageFields, page'.sock # None \/ page'.timer => viewer # NoOne,
         MayShow \/ Dark'
  PROVE  PageInv'
<1>1. MayShow => MayShow'
  BY DEF MayShow, visible, caller
<1>. QED  BY <1>1 DEF PageInv, Dark

\* The job's own steps send nothing where nobody listens.
LEMMA PageJobStep ==
  ASSUME PageInv, UNCHANGED <<viewer, tail, page, polls>>, wire' = wire \/ tail.at = "listening"
  PROVE  PageInv'
<1>1. MayShow \/ Dark'
  BY DEF PageInv, Dark, None
<1>. QED  BY <1>1, PageKept DEF PageInv

LEMMA PageInit ==
  ASSUME Init
  PROVE  PageInv
<1>1. /\ DOMAIN page = PageFields /\ page.sock = None /\ page.timer = FALSE /\ page.live = None
      /\ wire = <<>> /\ polls = <<>> /\ tail.at = None
  BY DEF Init, PageFields, Idle
<1>. QED  BY <1>1 DEF PageInv, None

LEMMA PageNext ==
  ASSUME PageInv, WireTypes, [Next]_vars
  PROVE  PageInv'
<1>0. /\ DOMAIN page = PageFields
      /\ page.sock # None \/ page.timer => viewer # NoOne
      /\ MayShow \/ Dark
      /\ {"sock", "live", "timer", "get", "job", "bytes", "prompt", "torn", "open"} = PageFields
  BY DEF PageInv, Dark, PageFields
<1>1. CASE UNCHANGED vars
  BY <1>1, PageJobStep DEF vars, fixed, pageVars
<1>2. CASE Start \/ emitLogChunk \/ onPromptDetected \/ AnsweredElsewhere \/ CancelledElsewhere \/ markFinished
  <2>1. UNCHANGED <<viewer, tail, page, polls>>
    BY <1>2 DEF Start, emitLogChunk, onPromptDetected, AnsweredElsewhere, CancelledElsewhere, markFinished, fixed, pageVars
  <2>2. wire' = wire \/ tail.at = "listening"
    BY <1>2 DEF Start, emitLogChunk, onPromptDetected, AnsweredElsewhere, Cleared, CancelledElsewhere, markFinished,
       Emit, pageVars
  <2>. QED  BY <2>1, <2>2, PageJobStep
<1>3. CASE interruptOrphaned \/ WebRestarts
  BY <1>3, PageJobStep DEF interruptOrphaned, WebRestarts, fixed, pageVars
<1>4. ASSUME NEW w \in Waiters,
             \/ waitForJob(w) \/ DialogWithdrawn(w) \/ Declined(w) \/ CancelJob(w)
             \/ AnswerPrompt(w) \/ AskThrows(w) \/ CallAborts(w) \/ DeadlinePasses(w)
      PROVE  PageInv'
  <2>1. UNCHANGED <<viewer, tail, page, polls>>
    BY <1>4 DEF waitForJob, DialogWithdrawn, Declined, CancelJob, AnswerPrompt, AskThrows, CallAborts, DeadlinePasses,
       fixed, pageVars
  <2>2. wire' = wire \/ tail.at = "listening"
    BY <1>4 DEF waitForJob, DialogWithdrawn, Declined, CancelJob, AnswerPrompt, AskThrows, CallAborts, DeadlinePasses,
       Emit, pageVars
  <2>. QED  BY <2>1, <2>2, PageJobStep
<1>5. ASSUME NEW p \in {"web", "mcp"}, Exits(p) PROVE PageInv'
  <2>1. /\ UNCHANGED viewer
        /\ tail' = (IF p = "web" THEN Idle ELSE tail)
        /\ wire' = (IF p = "web" /\ page.sock \in {"asking", "row", "open"} THEN Append(wire, Close) ELSE wire)
        /\ page' = (IF p = "web" /\ page.sock \in {"asking", "row"} THEN [page EXCEPT !.sock = "open"] ELSE page)
        /\ polls' = (IF p = "web" THEN <<>> ELSE polls)
    BY <1>5 DEF Exits, fixed
  <2>2. /\ DOMAIN page' = PageFields /\ page'.live = page.live /\ page'.timer = page.timer
        /\ page'.sock = page.sock \/ (page'.sock = "open" /\ page.sock \in {"asking", "row"})
    BY <1>0, <2>1
  <2>3. Dark => Dark'
    <3>1. wire \in Seq({Close}) => Append(wire, Close) \in Seq({Close})
      OBVIOUS
    <3>. QED  BY <2>1, <2>2, <3>1 DEF Dark, Idle, None
  <2>. QED  BY <1>0, <2>1, <2>2, <2>3, PageKept DEF None
<1>6. CASE OpenPage
  <2>1. /\ viewer # NoOne /\ UNCHANGED <<viewer, tail, wire, polls>>
        /\ page' = [page EXCEPT !.open = TRUE, !.sock = "asking", !.get = "asked"]
    BY <1>6 DEF OpenPage, fixed
  <2>2. DOMAIN page' = PageFields /\ page'.live = page.live /\ page'.sock = "asking"
    BY <1>0, <2>1
  <2>3. Dark => Dark'
    BY <2>1, <2>2 DEF Dark
  <2>. QED  BY <1>0, <2>1, <2>2, <2>3, PageKept
<1>7. CASE GetJob \/ GetJobArrives
  <2>1. /\ UNCHANGED <<viewer, tail, wire, polls>> /\ DOMAIN page' = PageFields
        /\ page'.live = page.live /\ page'.sock = page.sock /\ page'.timer = page.timer
    BY <1>0, <1>7 DEF GetJob, GetJobArrives, fixed
  <2>2. Dark => Dark'
    BY <2>1 DEF Dark
  <2>. QED  BY <1>0, <2>1, <2>2, PageKept
<1>8. CASE Upgrade
  <2>1. page.sock = "asking" /\ UNCHANGED <<viewer, polls>> /\ viewer # NoOne
    BY <1>0, <1>8 DEF Upgrade, fixed, None
  <2>2. CASE visible
    <3>1. MayShow
      BY <2>1, <2>2 DEF MayShow
    <3>2. DOMAIN page' = PageFields
      BY <1>0, <1>8 DEF Upgrade, startPolling
    <3>. QED  BY <2>1, <3>1, <3>2, PageKept
  <2>3. CASE ~visible
    <3>1. page' = startPolling(page) /\ UNCHANGED <<tail, wire>>
      BY <1>8, <2>3 DEF Upgrade
    <3>2. DOMAIN page' = PageFields /\ page'.live = page.live /\ page'.sock = "closed"
      BY <1>0, <3>1 DEF startPolling
    <3>3. Dark => Dark'
      BY <2>1, <3>1, <3>2 DEF Dark
    <3>. QED  BY <1>0, <2>1, <3>2, <3>3, PageKept
  <2>. QED  BY <2>2, <2>3
<1>9. CASE UpgradeForeign \/ TickRow \/ TickLog \/ TickRest
  <2>1. UNCHANGED viewer /\ (page.sock = "row" \/ tail.at \in {"tick", "log", "rest"})
    BY <1>9 DEF UpgradeForeign, TickRow, TickLog, TickRest, fixed
  <2>2. MayShow
    BY <1>0, <2>1 DEF Dark, None
  <2>3. DOMAIN page' = PageFields
    BY <1>0, <1>9 DEF UpgradeForeign, TickRow, TickLog, TickRest
  <2>. QED  BY <2>1, <2>2, <2>3, PageKept DEF MayShow
<1>10. CASE Deliver
  <2>1. UNCHANGED <<viewer, tail, polls>> /\ viewer # NoOne /\ wire # <<>> /\ wire' = Tail(wire)
    BY <1>0, <1>10 DEF Deliver, fixed, None
  <2>2. CASE MayShow
    <3>1. Head(wire) \in Message
      BY <2>1 DEF WireTypes
    <3>2. Head(wire).t \in {"backlog", "chunk", "status", "prompt", "close"}
      BY <3>1 DEF Message
    <3>3. DOMAIN page' = PageFields
      BY <1>0, <1>10, <3>2 DEF Deliver, startPolling, setLive
    <3>. QED  BY <2>1, <2>2, <3>3, PageKept
  <2>3. CASE Dark
    <3>1. Head(wire) = Close /\ Tail(wire) \in Seq({Close})
      BY <2>1, <2>3 DEF Dark
    <3>2. page' = startPolling(page)
      BY <1>10, <3>1 DEF Deliver, Close
    <3>3. DOMAIN page' = PageFields /\ page'.live = page.live /\ page'.sock = "closed"
      BY <1>0, <3>2 DEF startPolling
    <3>4. Dark'
      BY <2>1, <2>3, <3>1, <3>3 DEF Dark
    <3>. QED  BY <2>1, <3>3, <3>4, PageKept
  <2>. QED  BY <1>0, <2>2, <2>3
<1>11. CASE SocketBreaks
  <2>1. /\ UNCHANGED <<viewer, polls>> /\ viewer # NoOne /\ page' = startPolling(page) /\ tail' = Idle /\ wire' = <<>>
    BY <1>0, <1>11 DEF SocketBreaks, fixed, None
  <2>2. DOMAIN page' = PageFields /\ page'.live = page.live /\ page'.sock = "closed"
    BY <1>0, <2>1 DEF startPolling
  <2>3. Dark => Dark'
    BY <2>1, <2>2 DEF Dark, Idle
  <2>. QED  BY <1>0, <2>1, <2>2, <2>3, PageKept
<1>12. CASE Poll
  <2>1. UNCHANGED <<viewer, page>> /\ viewer # NoOne /\ visible
    BY <1>0, <1>12 DEF Poll, fixed
  <2>. QED  BY <1>0, <2>1, PageKept DEF MayShow
<1>13. ASSUME NEW i \in 1..MaxPolls, PollArrives(i) PROVE PageInv'
  <2>1. UNCHANGED viewer /\ polls # <<>>
    BY <1>13 DEF PollArrives, fixed
  <2>2. MayShow /\ DOMAIN page' = PageFields
    BY <1>0, <1>13, <2>1 DEF PollArrives, Dark, setLive
  <2>. QED  BY <2>1, <2>2, PageKept DEF MayShow
<1>. QED  BY <1>1, <1>2, <1>3, <1>4, <1>5, <1>6, <1>7, <1>8, <1>9, <1>10, <1>11, <1>12, <1>13 DEF Next

\* Who has the page open is of the scene, to the end.
ViewerKnown == \E s \in Scenes : viewer = s.viewer

LEMMA ViewerStays ==
  ASSUME [Next]_vars
  PROVE  UNCHANGED viewer
<1>1. CASE UNCHANGED vars
  BY <1>1 DEF vars, fixed
<1>2. CASE Start \/ emitLogChunk \/ onPromptDetected \/ AnsweredElsewhere \/ CancelledElsewhere \/ markFinished
  BY <1>2 DEF Start, emitLogChunk, onPromptDetected, AnsweredElsewhere, CancelledElsewhere, markFinished, fixed
<1>3. CASE (\E p \in {"web", "mcp"} : Exits(p)) \/ interruptOrphaned \/ WebRestarts
  BY <1>3 DEF Exits, interruptOrphaned, WebRestarts, fixed
<1>4. ASSUME NEW w \in Waiters,
             \/ waitForJob(w) \/ DialogWithdrawn(w) \/ Declined(w) \/ CancelJob(w)
             \/ AnswerPrompt(w) \/ AskThrows(w) \/ CallAborts(w) \/ DeadlinePasses(w)
      PROVE  UNCHANGED viewer
  BY <1>4 DEF waitForJob, DialogWithdrawn, Declined, CancelJob, AnswerPrompt, AskThrows, CallAborts, DeadlinePasses, fixed
<1>5. CASE OpenPage \/ GetJob \/ GetJobArrives \/ Upgrade \/ UpgradeForeign \/ TickRow \/ TickLog \/ TickRest
  BY <1>5 DEF OpenPage, GetJob, GetJobArrives, Upgrade, UpgradeForeign, TickRow, TickLog, TickRest, fixed
<1>6. CASE Deliver \/ SocketBreaks \/ Poll \/ \E i \in 1..MaxPolls : PollArrives(i)
  BY <1>6 DEF Deliver, SocketBreaks, Poll, PollArrives, fixed
<1>. QED  BY <1>1, <1>2, <1>3, <1>4, <1>5, <1>6 DEF Next

LEMMA PageInvariance == Spec => [](PageInv /\ ViewerKnown)
<1>1. Init => WireTypes /\ ViewerKnown
  BY MessageTypes DEF Init, WireTypes, ViewerKnown
<1>2. WaitInv => WaitTypes
  BY DEF WaitInv
<1>3. ViewerKnown /\ [Next]_vars => ViewerKnown'
  BY ViewerStays DEF ViewerKnown
<1>. QED  BY <1>1, <1>2, <1>3, WaitInvariance, WireNext, PageInit, PageNext, PTL DEF Spec

\* The target is in the inventory (or there is none), and the rules know its
\* name only as what it is: no host and guest share it.
NamedOnce(v) ==
  LET t == v.job.target
  IN /\ t \in v.hosts \cup DOMAIN v.creators \cup {NoOne}
     /\ \A g \in DOMAIN v.rules : \A r \in v.rules[g].resources :
          r.name = t => r = [type |-> IF t \in v.hosts THEN "host" ELSE "guest", name |-> t]

\* A job that may be shown by its name alone is of a guest or host that may
\* be shown.
LEMMA VisibleIsShown ==
  ASSUME NEW v, NamedOnce(v), NEW who, ~isAdmin(who.groups),
         isJobVisible(v.rules, who, v.job, guestCreators(v.hosts, v.creators))
  PROVE  LET shown == filterInventoryForUser(v.rules, who, v.hosts, v.creators)
         IN v.job.target \in (shown.hosts \cup shown.guests)
<1>. DEFINE t == v.job.target
            made == guestCreators(v.hosts, v.creators)
            creator == IF t \in DOMAIN made THEN made[t] ELSE NoOne
            lift == isGuestCreator(creator, who) /\ startedSince(v.job.started, creator.since)
            type == IF t \in v.hosts THEN "host" ELSE "guest"
            ref == [type |-> type, name |-> t]
<1>1. /\ t # NoOne
      /\ \A g \in who.groups \cap DOMAIN v.rules :
           Allows(v.rules[g], \E r \in v.rules[g].resources : r.name = t, lift)
  BY DEF isJobVisible
<1>2. \A g \in DOMAIN v.rules : (\E r \in v.rules[g].resources : r.name = t) <=> ref \in v.rules[g].resources
  BY DEF NamedOnce
<1>3. lift => t \notin v.hosts /\ t \in DOMAIN v.creators /\ isGuestCreator(v.creators[t], who)
  BY DEF isGuestCreator, guestCreators
<1>. HIDE DEF lift
<1>4. CASE t \in v.hosts
  <2>1. ~lift /\ ref.type = "host" /\ ref = [type |-> "host", name |-> t]
    BY <1>3, <1>4
  <2>2. isAllowed(v.rules, who.groups, ref, ref.type = "guest" /\ isGuestCreator(NoOne, who))
    BY <1>1, <1>2, <2>1 DEF isAllowed, Allows
  <2>3. isResourceAllowed(v.rules, who, [type |-> "host", name |-> t], NoOne)
    BY <2>1, <2>2 DEF isResourceAllowed
  <2>. QED  BY <1>4, <2>3 DEF filterInventoryForUser
<1>5. CASE t \notin v.hosts
  <2>1. t \in DOMAIN v.creators /\ ref.type = "guest" /\ ref = [type |-> "guest", name |-> t]
    BY <1>1, <1>5 DEF NamedOnce
  <2>2. isAllowed(v.rules, who.groups, ref, ref.type = "guest" /\ isGuestCreator(v.creators[t], who))
    BY <1>1, <1>2, <1>3, <2>1 DEF isAllowed, Allows
  <2>3. isResourceAllowed(v.rules, who, [type |-> "guest", name |-> t], v.creators[t])
    BY <2>1, <2>2 DEF isResourceAllowed
  <2>. QED  BY <2>1, <2>3 DEF filterInventoryForUser
<1>. QED  BY <1>4, <1>5

\* A page shows a job only to an admin or to a person the dashboard shows its
\* guest or host, wherever the job runs, however its page is fed, and though
\* the check knows only the name of the target.
THEOREM HiddenJobsAreHidden ==
  ASSUME \A s \in Scenes : s.viewer # NoOne => NamedOnce(s.viewer)
  PROVE  Spec => []HiddenJobsStayHidden
<1>1. ASSUME PageInv, ViewerKnown PROVE HiddenJobsStayHidden
  <2>1. SUFFICES ASSUME page.live # None PROVE HiddenJobsStayHidden
    BY DEF HiddenJobsStayHidden
  <2>2. MayShow /\ NamedOnce(viewer)
    BY <1>1, <2>1 DEF PageInv, ViewerKnown, MayShow
  <2>3. \/ isAdmin(caller.groups)
        \/ LET shown == filterInventoryForUser(viewer.rules, caller, viewer.hosts, viewer.creators)
           IN viewer.job.target \in (shown.hosts \cup shown.guests)
    BY <2>2, VisibleIsShown DEF MayShow, visible
  <2>. QED  BY <2>3 DEF HiddenJobsStayHidden
<1>. QED  BY <1>1, PageInvariance, PTL

-----------------------------------------------------------------------------
(* What the page shows, and that it is fed.                                *)
(*                                                                         *)
(* The messages of a socket continue one another: delivered in order they  *)
(* take a page that has b bytes of the log to e bytes of it, and where one *)
(* tells a verdict the page has the f bytes of the finished log.           *)
Verdicts == {"success", "failed", "cancelled"}
Carries(m) == m.t \in {"backlog", "chunk"}
Unclosed(w) == \A i \in 1..Len(w) : w[i].t # "close"

Continues(w, b, f, at) ==
  /\ at \in [0..Len(w) -> Nat] /\ at[0] = b
  /\ \A i \in 1..Len(w) :
       /\ at[i] = IF Carries(w[i]) THEN w[i].to ELSE at[i - 1]
       /\ Carries(w[i]) => w[i].from = at[i - 1] /\ w[i].to >= w[i].from
       /\ w[i].t = "backlog" => w[i].to % 2 = 0
       /\ w[i].t = "status" /\ w[i].status \in Verdicts => at[i] >= f

Leads(w, b, f, e) == \E at : Continues(w, b, f, at) /\ at[Len(w)] = e

PageRow == [open : BOOLEAN, sock : {None, "asking", "row", "open", "closed"}, get : Shown \cup {"asked"},
            timer : BOOLEAN, live : Shown, bytes : Nat, torn : BOOLEAN, prompt : Nat, job : Shown]
Answer == [status : Statuses, prompt : Nat, bytes : Nat]
FeedTypes == page \in PageRow /\ polls \in Seq(Answer) /\ crossed \in BOOLEAN /\ final \in Nat

\* The log is whole where it is read as whole, and complete once there is a
\* verdict.
LogIsWhole ==
  /\ owner = "web" => log % 2 = 0
  /\ status \in Verdicts => final = log /\ log % 2 = 0

\* A page asks for a socket once, and for answers once the socket is closed.
Sockets ==
  /\ page.open <=> page.sock # None
  /\ page.sock \in {None, "asking", "row"} =>
       wire = <<>> /\ tail.at = None /\ page.bytes = 0 /\ page.live = None
  /\ page.sock = "closed" => tail.at = None
  /\ tail.at # None => Unclosed(wire)
  /\ page.sock # "closed" => ~page.timer /\ polls = <<>>

\* An ending somebody was told of, or is being told of, is how the job ended.
EndingsAreSo ==
  /\ \A s \in {page.live, tail.status, tail.row} : s \in Terminal => s = status
  /\ \A i \in 1..Len(wire) : wire[i].status \in Terminal => wire[i].status = status
  /\ \A i \in 1..Len(polls) : polls[i].status \in Terminal => polls[i].status = status

\* A page that was told a verdict has the whole log, and so has an answer
\* that brings one.
VerdictsComeLast ==
  /\ page.live \in Verdicts => page.bytes >= final
  /\ \A i \in 1..Len(polls) : polls[i].status \in Verdicts => polls[i].bytes >= final

\* The socket brings the page to where its server side is in the log; a
\* verdict in the row was read before the log was.
Ticking == tail.at \in {"tick", "log", "rest"}
Follows ==
  /\ page.sock = "open" =>
       \E e \in Nat : /\ Leads(wire, page.bytes, final, e)
                      /\ tail.at = "listening" => e = log
                      /\ Ticking => e = tail.off - (tail.off % 2)
  /\ Ticking => tail.off <= log
  /\ tail.at = "rest" /\ tail.row \in Verdicts => tail.off = log

\* A socket with nothing behind it is about to close or has told the end; a
\* timer stops when an answer told it, and answers still on their way agree.
EndsTold ==
  /\ page.sock = "open" /\ tail.at = None =>
       IF wire = <<>> THEN status \in Terminal /\ page.live = status
       ELSE wire[Len(wire)] = Close \/ (status \in Terminal /\ wire[Len(wire)] = Status(status))
  /\ page.sock = "closed" /\ ~page.timer /\ ~crossed =>
       /\ status \in Terminal /\ page.live = status
       /\ \A i \in 1..Len(polls) : polls[i].status = status
  /\ \A i, j \in 1..Len(polls) : i < j /\ polls[i].status \in Terminal => polls[j].status = polls[i].status
  /\ ~crossed /\ page.job # None /\ page.live # None => page.job = page.live

FeedInv ==
  /\ FeedTypes /\ LogIsWhole /\ Sockets /\ EndingsAreSo /\ VerdictsComeLast /\ Follows /\ EndsTold /\ ~page.torn

LEMMA LeadsEmpty ==
  ASSUME NEW b \in Nat, NEW f \in Nat
  PROVE  Leads(<<>>, b, f, b)
<1>. DEFINE at == [i \in 0..0 |-> b]
<1>1. at \in [0..Len(<<>>) -> Nat] /\ at[0] = b /\ 1..Len(<<>>) = {}
  OBVIOUS
<1>. HIDE DEF at
<1>2. Continues(<<>>, b, f, at) /\ at[Len(<<>>)] = b
  BY <1>1 DEF Continues
<1>. QED  BY <1>2 DEF Leads

\* One more message takes the page on.
LEMMA LeadsAppend ==
  ASSUME NEW w \in Seq(Message), NEW b \in Nat, NEW f \in Nat, NEW e \in Nat, Leads(w, b, f, e), NEW m \in Message,
         Carries(m) => m.from = e /\ m.to >= m.from,
         m.t = "backlog" => m.to % 2 = 0,
         m.t = "status" /\ m.status \in Verdicts => e >= f
  PROVE  Leads(Append(w, m), b, f, IF Carries(m) THEN m.to ELSE e)
<1>1. PICK at : Continues(w, b, f, at) /\ at[Len(w)] = e
  BY DEF Leads
<1>. DEFINE n == Len(w) + 1
            x == IF Carries(m) THEN m.to ELSE e
            new == [i \in 0..n |-> IF i = n THEN x ELSE at[i]]
<1>2. /\ Len(w) \in Nat /\ Len(Append(w, m)) = n /\ Append(w, m)[n] = m
      /\ \A i \in 1..Len(w) : Append(w, m)[i] = w[i]
  OBVIOUS
<1>3. x \in Nat
  BY DEF Message
<1>4. at \in [0..Len(w) -> Nat] /\ at[0] = b
  BY <1>1 DEF Continues
<1>5. new \in [0..n -> Nat] /\ new[n] = x /\ \A i \in 0..Len(w) : new[i] = at[i]
  BY <1>2, <1>3, <1>4
<1>. HIDE DEF new
<1>6. ASSUME NEW i \in 1..n
      PROVE  /\ new[i] = IF Carries(Append(w, m)[i]) THEN Append(w, m)[i].to ELSE new[i - 1]
             /\ Carries(Append(w, m)[i]) => Append(w, m)[i].from = new[i - 1] /\ Append(w, m)[i].to >= Append(w, m)[i].from
             /\ Append(w, m)[i].t = "backlog" => Append(w, m)[i].to % 2 = 0
             /\ Append(w, m)[i].t = "status" /\ Append(w, m)[i].status \in Verdicts => new[i] >= f
  <2>1. CASE i = n
    <3>1. new[i - 1] = e /\ new[i] = x /\ Append(w, m)[i] = m
      BY <1>1, <1>2, <1>5, <2>1
    <3>2. m.t = "status" => ~Carries(m)
      BY DEF Carries
    <3>. QED  BY <3>1, <3>2
  <2>2. CASE i # n
    <3>1. i \in 1..Len(w) /\ i - 1 \in 0..Len(w) /\ i \in 0..Len(w)
      BY <1>2, <2>2
    <3>2. new[i - 1] = at[i - 1] /\ new[i] = at[i] /\ Append(w, m)[i] = w[i]
      BY <1>2, <1>5, <3>1
    <3>. QED  BY <1>1, <3>1, <3>2 DEF Continues
  <2>. QED  BY <2>1, <2>2
<1>7. new[0] = b
  BY <1>2, <1>4, <1>5
<1>8. Continues(Append(w, m), b, f, new) /\ new[Len(Append(w, m))] = x
  BY <1>2, <1>5, <1>6, <1>7 DEF Continues
<1>. QED  BY <1>8 DEF Leads

\* The first message, and what is left when it was delivered.
LEMMA LeadsTail ==
  ASSUME NEW w \in Seq(Message), w # <<>>, NEW b \in Nat, NEW f \in Nat, NEW e \in Nat, Leads(w, b, f, e)
  PROVE  LET m == Head(w)
         IN /\ m = w[1] /\ m \in Message
            /\ Carries(m) => m.from = b /\ m.to >= b
            /\ m.t = "backlog" => m.to % 2 = 0
            /\ m.t = "status" /\ m.status \in Verdicts => b >= f
            /\ Leads(Tail(w), IF Carries(m) THEN m.to ELSE b, f, e)
<1>1. PICK at : Continues(w, b, f, at) /\ at[Len(w)] = e
  BY DEF Leads
<1>2. /\ Len(w) \in Nat \ {0} /\ Len(Tail(w)) = Len(w) - 1 /\ Head(w) = w[1] /\ Head(w) \in Message
      /\ \A i \in 1..(Len(w) - 1) : Tail(w)[i] = w[i + 1]
  OBVIOUS
<1>3. at \in [0..Len(w) -> Nat] /\ at[0] = b
  BY <1>1 DEF Continues
<1>4. 1 \in 1..Len(w) /\ 1 - 1 = 0
  BY <1>2
<1>5. /\ at[1] = IF Carries(w[1]) THEN w[1].to ELSE b
      /\ Carries(w[1]) => w[1].from = b /\ w[1].to >= w[1].from
      /\ w[1].t = "backlog" => w[1].to % 2 = 0
      /\ w[1].t = "status" /\ w[1].status \in Verdicts => at[1] >= f
  BY <1>1, <1>3, <1>4 DEF Continues
<1>. DEFINE n == Len(w) - 1
            new == [i \in 0..n |-> at[i + 1]]
<1>6. n \in Nat /\ new \in [0..n -> Nat] /\ \A i \in 0..n : new[i] = at[i + 1]
  BY <1>2, <1>3
<1>. HIDE DEF new
<1>7. ASSUME NEW i \in 1..n
      PROVE  /\ new[i] = IF Carries(Tail(w)[i]) THEN Tail(w)[i].to ELSE new[i - 1]
             /\ Carries(Tail(w)[i]) => Tail(w)[i].from = new[i - 1] /\ Tail(w)[i].to >= Tail(w)[i].from
             /\ Tail(w)[i].t = "backlog" => Tail(w)[i].to % 2 = 0
             /\ Tail(w)[i].t = "status" /\ Tail(w)[i].status \in Verdicts => new[i] >= f
  <2>1. /\ i + 1 \in 1..Len(w) /\ new[i] = at[i + 1] /\ new[i - 1] = at[(i + 1) - 1] /\ Tail(w)[i] = w[i + 1]
    BY <1>2, <1>6
  <2>. QED  BY <1>1, <2>1 DEF Continues
<1>8. new[0] = at[1] /\ new[n] = e
  BY <1>1, <1>2, <1>6
<1>9. Continues(Tail(w), at[1], f, new) /\ new[Len(Tail(w))] = e
  BY <1>2, <1>6, <1>7, <1>8 DEF Continues
<1>10. Leads(Tail(w), at[1], f, e)
  BY <1>9 DEF Leads
<1>11. w[1].t = "status" => ~Carries(w[1])
  BY DEF Carries
<1>. QED  BY <1>2, <1>5, <1>10, <1>11

\* While no verdict is on its way the length of the finished log is open.
LEMMA LeadsOpen ==
  ASSUME NEW w \in Seq(Message), NEW b, NEW f, NEW g, NEW e, Leads(w, b, f, e),
         \A i \in 1..Len(w) : w[i].status \notin Verdicts
  PROVE  Leads(w, b, g, e)
BY DEF Leads, Continues

\* What a step that only moves the job on has to keep.
LEMMA FeedJobStep ==
  ASSUME FeedInv, WireTypes, WireTypes', WaitTypes, WaitTypes',
         UNCHANGED <<owner, page, tail, polls, crossed>>, status \notin Terminal,
         log' >= log, final' \in Nat, owner = "web" => log' % 2 = 0,
         status' \in Verdicts => final' = log' /\ log' % 2 = 0,
         \A i \in 1..Len(wire') : wire'[i].status \in Terminal => wire'[i].status = status',
         tail.at = "listening" => Unclosed(wire'),
         tail.at = "listening" /\ page.sock = "open" => Leads(wire', page.bytes, final', log'),
         tail.at # "listening" => wire' = wire
  PROVE  FeedInv'
<1>1. FeedTypes' /\ LogIsWhole' /\ ~page'.torn /\ log \in Nat /\ log' \in Nat
  BY DEF FeedInv, FeedTypes, LogIsWhole, WireTypes
<1>2. Sockets'
  BY DEF FeedInv, Sockets, None
<1>3. /\ page.live \notin Terminal /\ tail.status \notin Terminal /\ tail.row \notin Terminal
      /\ \A i \in 1..Len(wire) : wire[i].status \notin Terminal
      /\ \A i \in 1..Len(polls) : polls[i].status \notin Terminal
  BY DEF FeedInv, EndingsAreSo
<1>4. Verdicts \subseteq Terminal
  BY DEF Verdicts, Terminal
<1>5. EndingsAreSo'
  BY <1>3 DEF EndingsAreSo
<1>6. VerdictsComeLast'
  BY <1>3, <1>4 DEF VerdictsComeLast
<1>7. Follows'
  <2>1. ASSUME page.sock = "open"
        PROVE  \E e \in Nat : /\ Leads(wire', page.bytes, final', e)
                              /\ tail.at = "listening" => e = log'
                              /\ Ticking => e = tail.off - (tail.off % 2)
    <3>1. CASE tail.at = "listening"
      BY <1>1, <2>1, <3>1 DEF Ticking
    <3>2. CASE tail.at # "listening"
      <4>1. PICK e \in Nat : Leads(wire, page.bytes, final, e) /\ (Ticking => e = tail.off - (tail.off % 2))
        BY <2>1 DEF FeedInv, Follows
      <4>2. Leads(wire, page.bytes, final', e)
        BY <1>3, <1>4, <4>1, LeadsOpen DEF WireTypes
      <4>. QED  BY <3>2, <4>1, <4>2
    <3>. QED  BY <3>1, <3>2
  <2>2. Ticking => tail.off <= log'
    BY <1>1 DEF FeedInv, Follows, WireTypes, TailRow
  <2>. QED  BY <1>3, <1>4, <2>1, <2>2 DEF Follows, Ticking
<1>8. EndsTold'
  <2>1. ASSUME page.sock = "open", tail.at = None PROVE wire' # <<>> /\ wire'[Len(wire')] = Close
    <3>1. wire' = wire
      BY <2>1 DEF None
    <3>2. wire # <<>> /\ wire[Len(wire)] = Close
      BY <2>1 DEF FeedInv, EndsTold
    <3>. QED  BY <3>1, <3>2
  <2>2. page.sock = "closed" => page.timer \/ crossed
    BY DEF FeedInv, EndsTold
  <2>. QED  BY <1>3, <2>1, <2>2 DEF EndsTold, FeedInv
<1>. QED  BY <1>1, <1>2, <1>5, <1>6, <1>7, <1>8 DEF FeedInv

\* A step of the socket and the page: the job stays as it is.
LEMMA FeedPageStep ==
  ASSUME FeedInv, UNCHANGED <<owner, status, log, final>>, FeedTypes', Sockets', EndingsAreSo', VerdictsComeLast',
         Follows', EndsTold', ~page'.torn
  PROVE  FeedInv'
BY DEF FeedInv, LogIsWhole

\* The job and the page stay as they are.
LEMMA FeedKept ==
  ASSUME FeedInv, UNCHANGED <<owner, status, log, final, pageVars>>
  PROVE  FeedInv'
BY DEF FeedInv, FeedTypes, LogIsWhole, Sockets, EndingsAreSo, VerdictsComeLast, Follows, Ticking, EndsTold, pageVars

\* A status, and a prompt after it, take the page no further in the log.
LEMMA LeadsStatus ==
  ASSUME NEW w \in Seq(Message), NEW b \in Nat, NEW f \in Nat, NEW e \in Nat, Leads(w, b, f, e),
         NEW s \in Shown, s \in Verdicts => e >= f, NEW p \in Nat
  PROVE  /\ Leads(Append(w, Status(s)), b, f, e) /\ Leads(Append(w, Prompt(p)), b, f, e)
         /\ Leads(Append(Append(w, Status(s)), Prompt(p)), b, f, e)
<1>1. Status(s) \in Message /\ Prompt(p) \in Message
  BY MessageTypes
<1>2. /\ ~Carries(Status(s)) /\ Status(s).status = s /\ Status(s).t = "status"
      /\ ~Carries(Prompt(p)) /\ Prompt(p).t = "prompt"
  BY DEF Status, Prompt, Carries
<1>3. Leads(Append(w, Status(s)), b, f, e)
  BY <1>1, <1>2, LeadsAppend
<1>4. Leads(Append(w, Prompt(p)), b, f, e)
  BY <1>1, <1>2, LeadsAppend
<1>5. Append(w, Status(s)) \in Seq(Message)
  BY <1>1
<1>6. Leads(Append(Append(w, Status(s)), Prompt(p)), b, f, e)
  BY <1>1, <1>2, <1>3, <1>5, LeadsAppend
<1>. QED  BY <1>3, <1>4, <1>6

LEMMA Sequel ==
  ASSUME NEW w \in Seq(Message), NEW a \in Message, NEW b \in Message
  PROVE  /\ w \o <<a>> = Append(w, a) /\ w \o <<a, b>> = Append(Append(w, a), b)
         /\ w \o (<<a>> \o <<b>>) = Append(Append(w, a), b) /\ w \o (<<>> \o <<a>>) = Append(w, a)
         /\ w \o <<>> = w /\ w \o (<<>> \o <<>>) = w /\ w \o (<<a>> \o <<>>) = Append(w, a)
<1>1. <<>> \o <<a>> = <<a>> /\ <<a>> \o <<>> = <<a>> /\ <<>> \o <<>> = <<>>
  <2>1. <<>> \o <<a>> = <<a>>
    OBVIOUS
  <2>2. <<a>> \o <<>> = <<a>>
    OBVIOUS
  <2>3. <<>> \o <<>> = <<>>
    OBVIOUS
  <2>. QED  BY <2>1, <2>2, <2>3
<1>2. w \o <<a>> = Append(w, a)
  OBVIOUS
<1>3. w \o <<a, b>> = Append(Append(w, a), b)
  OBVIOUS
<1>4. w \o <<>> = w
  OBVIOUS
<1>5. w \o (<<a>> \o <<b>>) = Append(Append(w, a), b)
  <2>1. <<a>> \o <<b>> = Append(<<a>>, b)
    OBVIOUS
  <2>2. w \o Append(<<a>>, b) = Append(w \o <<a>>, b)
    OBVIOUS
  <2>. QED  BY <1>2, <2>1, <2>2
<1>. QED  BY <1>1, <1>2, <1>3, <1>4, <1>5

\* What was on the wire is still there.
LEMMA AppendKeeps ==
  ASSUME NEW w \in Seq(Message), NEW m \in Message
  PROVE  /\ Len(Append(w, m)) = Len(w) + 1 /\ Append(w, m)[Len(w) + 1] = m /\ Append(w, m) # <<>>
         /\ Append(w, m)[Len(Append(w, m))] = m /\ Append(w, m) \in Seq(Message)
         /\ \A i \in 1..Len(Append(w, m)) :
              Append(w, m)[i] = m \/ (i \in 1..Len(w) /\ Append(w, m)[i] = w[i])
<1>1. /\ Len(w) \in Nat /\ Len(Append(w, m)) = Len(w) + 1 /\ Append(w, m)[Len(w) + 1] = m
      /\ Append(w, m) \in Seq(Message)
  OBVIOUS
<1>2. ASSUME NEW i \in 1..(Len(w) + 1)
      PROVE  Append(w, m)[i] = m \/ (i \in 1..Len(w) /\ Append(w, m)[i] = w[i])
  <2>1. CASE i = Len(w) + 1
    BY <1>1, <2>1
  <2>2. CASE i # Len(w) + 1
    <3>1. i \in 1..Len(w)
      BY <1>1, <2>2
    <3>. QED  BY <3>1
  <2>. QED  BY <2>1, <2>2
<1>3. Append(w, m) # <<>>
  BY <1>1
<1>. QED  BY <1>1, <1>2, <1>3

LEMMA AppendOpen ==
  ASSUME NEW w \in Seq(Message), Unclosed(w), NEW m \in Message, m.t # "close"
  PROVE  Unclosed(Append(w, m))
BY AppendKeeps DEF Unclosed

LEMMA Even ==
  ASSUME NEW n \in Nat
  PROVE  /\ (n + 2) % 2 = n % 2 /\ n % 2 \in {0, 1} /\ n - (n % 2) \in Nat /\ n - (n % 2) <= n
         /\ (n - (n % 2)) % 2 = 0
OBVIOUS

\* The start, a prompt, an answer and the end of the job.
LEMMA FeedJob ==
  ASSUME FeedInv, WireTypes, WireTypes', WaitTypes, WaitTypes',
         \/ Start \/ emitLogChunk \/ onPromptDetected \/ AnsweredElsewhere \/ markFinished
         \/ \E w \in Waiters : AnswerPrompt(w) /\ status = "awaiting_input"
  PROVE  FeedInv'
<1>1. /\ UNCHANGED <<owner, page, tail, polls, crossed>> /\ status \notin Terminal
  BY DEF Start, emitLogChunk, onPromptDetected, AnsweredElsewhere, markFinished, AnswerPrompt, fixed, Terminal
<1>2. /\ log \in Nat /\ tail \in TailRow /\ prompt \in Nat /\ wire \in Seq(Message) /\ status \in Shown
      /\ page.bytes \in Nat /\ final \in Nat /\ log' \in Nat /\ prompt' \in Nat /\ status' \in Shown
  BY DEF WireTypes, WaitTypes, FeedInv, FeedTypes, PageRow, Shown
<1>3. tail.at = "listening" => page.sock = "open" /\ Leads(wire, page.bytes, final, log)
  BY <1>2 DEF FeedInv, Sockets, Follows, None, FeedTypes, PageRow
<1>4. \A i \in 1..Len(wire) : wire[i].status \notin Terminal
  BY <1>1 DEF FeedInv, EndingsAreSo
<1>5. ASSUME NEW m \in Message
      PROVE  /\ Emit(<<m>>) => wire' = IF tail.at = "listening" THEN Append(wire, m) ELSE wire
             /\ \A n \in Message : Emit(<<m, n>>) =>
                  wire' = IF tail.at = "listening" THEN Append(Append(wire, m), n) ELSE wire
  BY <1>2, Sequel DEF Emit
<1>13. tail.at = "listening" => Unclosed(wire)
  BY DEF FeedInv, Sockets, None
<1>6. ASSUME NEW s \in Statuses, s \notin Terminal, NEW p \in Nat, UNCHANGED <<log, final>>, status' = s,
             wire' = (IF tail.at = "listening" THEN Append(Append(wire, Status(s)), Prompt(p)) ELSE wire)
               \/ wire' = (IF tail.at = "listening" THEN Append(wire, Status(s)) ELSE wire)
      PROVE  FeedInv'
  <2>1. /\ Status(s) \in Message /\ Prompt(p) \in Message /\ s \in Shown /\ s \notin Verdicts
        /\ Status(s).status = s /\ Prompt(p).status \notin Terminal
        /\ Status(s).t # "close" /\ Prompt(p).t # "close"
    BY <1>6, MessageTypes DEF Shown, Status, Prompt, Verdicts, Terminal, None
  <2>2. \A i \in 1..Len(wire') : wire'[i].status \notin Terminal
    <3>1. \A i \in 1..Len(Append(wire, Status(s))) : Append(wire, Status(s))[i].status \notin Terminal
      BY <1>2, <1>4, <1>6, <2>1, AppendKeeps
    <3>2. Append(wire, Status(s)) \in Seq(Message)
      BY <1>2, <2>1
    <3>3. \A i \in 1..Len(Append(Append(wire, Status(s)), Prompt(p))) :
             Append(Append(wire, Status(s)), Prompt(p))[i].status \notin Terminal
      BY <2>1, <3>1, <3>2, AppendKeeps
    <3>. QED  BY <1>4, <1>6, <3>1, <3>3
  <2>3. tail.at = "listening" => Leads(wire', page.bytes, final', log')
    <3>1. ASSUME tail.at = "listening"
          PROVE  /\ Leads(Append(wire, Status(s)), page.bytes, final, log)
                 /\ Leads(Append(Append(wire, Status(s)), Prompt(p)), page.bytes, final, log)
      BY <1>2, <1>3, <1>6, <2>1, <3>1, LeadsStatus
    <3>. QED  BY <1>6, <3>1
  <2>4. owner = "web" => log' % 2 = 0
    BY <1>6 DEF FeedInv, LogIsWhole
  <2>5. tail.at # "listening" => wire' = wire
    BY <1>6
  <2>6. log' >= log /\ final' \in Nat
    BY <1>2, <1>6
  <2>7. tail.at = "listening" => Unclosed(wire')
    <3>1. Append(wire, Status(s)) \in Seq(Message)
      BY <1>2, <2>1
    <3>. QED  BY <1>2, <1>6, <1>13, <2>1, <3>1, AppendOpen
  <2>. QED  BY <1>1, <1>6, <2>1, <2>2, <2>3, <2>4, <2>5, <2>6, <2>7, FeedJobStep
<1>7. CASE Start
  <2>1. Status("running") \in Message /\ "running" \in Statuses \ Terminal
    BY MessageTypes DEF Shown, Statuses, Terminal
  <2>. QED  BY <1>5, <1>6, <1>7, <2>1 DEF Start
<1>8. ASSUME NEW s \in Statuses \ Terminal, NEW p \in Nat, status' = s, UNCHANGED <<log, final>>,
             Emit(<<Status(s), Prompt(p)>>)
      PROVE  FeedInv'
  <2>1. Status(s) \in Message /\ Prompt(p) \in Message
    BY MessageTypes DEF Shown
  <2>. QED  BY <1>5, <1>6, <1>8, <2>1
<1>9. CASE onPromptDetected
  <2>1. "awaiting_input" \in Statuses \ Terminal
    BY DEF Statuses, Terminal
  <2>. QED  BY <1>2, <1>8, <1>9, <2>1 DEF onPromptDetected
<1>10. CASE AnsweredElsewhere \/ \E w \in Waiters : AnswerPrompt(w) /\ status = "awaiting_input"
  <2>1. "running" \in Statuses \ Terminal /\ 0 \in Nat
    BY DEF Statuses, Terminal
  <2>. QED  BY <1>8, <1>10, <2>1 DEF AnsweredElsewhere, Cleared, AnswerPrompt
<1>11. CASE emitLogChunk
  <2>1. /\ log' \in {log + 1, log + 2} /\ UNCHANGED <<status, final>>
        /\ owner = "web" => log' = log + 2
        /\ Emit(<<Chunk(log, log')>>)
    BY <1>11 DEF emitLogChunk
  <2>2. Chunk(log, log') \in Message
    BY <1>2, MessageTypes
  <2>3. /\ Carries(Chunk(log, log')) /\ Chunk(log, log').from = log /\ Chunk(log, log').to = log'
        /\ Chunk(log, log').t = "chunk" /\ Chunk(log, log').status \notin Terminal
    BY DEF Chunk, Carries, Terminal, None
  <2>4. wire' = IF tail.at = "listening" THEN Append(wire, Chunk(log, log')) ELSE wire
    BY <1>5, <2>1, <2>2
  <2>9. tail.at = "listening" => Unclosed(wire')
    BY <1>2, <1>13, <2>2, <2>3, <2>4, AppendOpen
  <2>5. \A i \in 1..Len(wire') : wire'[i].status \notin Terminal
    BY <1>2, <1>4, <2>2, <2>3, <2>4, AppendKeeps
  <2>6. tail.at = "listening" => Leads(wire', page.bytes, final', log')
    <3>1. log' \in Nat /\ log' >= log
      BY <1>2, <2>1
    <3>2. ASSUME tail.at = "listening" PROVE Leads(Append(wire, Chunk(log, log')), page.bytes, final, log')
      BY <1>2, <1>3, <2>2, <2>3, <3>1, <3>2, LeadsAppend
    <3>. QED  BY <2>1, <2>4, <3>2
  <2>7. log' >= log /\ (owner = "web" => log' % 2 = 0)
    <3>1. owner = "web" => log % 2 = 0
      BY DEF FeedInv, LogIsWhole
    <3>2. (log + 2) % 2 = log % 2
      BY <1>2, Even
    <3>3. log' >= log
      BY <1>2, <2>1
    <3>. QED  BY <2>1, <3>1, <3>2, <3>3
  <2>8. status' \notin Verdicts /\ final' \in Nat
    BY <1>1, <1>2, <2>1 DEF Verdicts, Terminal
  <2>. QED  BY <1>1, <2>4, <2>5, <2>6, <2>7, <2>8, <2>9, FeedJobStep
<1>12. CASE markFinished
  <2>1. /\ log % 2 = 0 /\ log' \in {log, log + 2} /\ final' = log' /\ status' \in Terminal
        /\ Emit((IF log' = log THEN <<>> ELSE <<Chunk(log, log')>>) \o <<Status(status')>>)
    BY <1>12 DEF markFinished, Runs, Whole, Terminal
  <2>2. /\ Chunk(log, log') \in Message /\ Status(status') \in Message
        /\ Status(status').status = status' /\ Status(status').t # "close"
    BY <1>2, MessageTypes DEF Status
  <2>3. /\ Carries(Chunk(log, log')) /\ Chunk(log, log').from = log /\ Chunk(log, log').to = log'
        /\ Chunk(log, log').t = "chunk" /\ Chunk(log, log').status \notin Terminal
    BY DEF Chunk, Carries, Terminal, None
  <2>. DEFINE before == IF log' = log THEN wire ELSE Append(wire, Chunk(log, log'))
  <2>4. wire' = IF tail.at = "listening" THEN Append(before, Status(status')) ELSE wire
    BY <1>2, <2>1, <2>2, Sequel DEF Emit
  <2>5. before \in Seq(Message) /\ \A i \in 1..Len(before) : before[i].status \notin Terminal
    BY <1>2, <1>4, <2>2, <2>3, AppendKeeps
  <2>6. tail.at = "listening" => Leads(before, page.bytes, final', log')
    <3>1. \A i \in 1..Len(wire) : wire[i].status \notin Verdicts
      BY <1>4 DEF Verdicts, Terminal
    <3>2. tail.at = "listening" => Leads(wire, page.bytes, final', log)
      BY <1>2, <1>3, <3>1, LeadsOpen
    <3>. QED  BY <1>2, <2>1, <2>2, <2>3, <3>2, LeadsAppend
  <2>11. tail.at = "listening" => Unclosed(before)
    BY <1>2, <1>13, <2>2, <2>3, AppendOpen
  <2>. HIDE DEF before
  <2>12. tail.at = "listening" => Unclosed(wire')
    BY <2>2, <2>4, <2>5, <2>11, AppendOpen
  <2>7. tail.at = "listening" => Leads(wire', page.bytes, final', log')
    <3>1. final' \in Nat /\ log' >= final'
      BY <1>2, <2>1
    <3>. QED  BY <1>2, <2>4, <2>5, <2>6, <3>1, LeadsStatus
  <2>8. \A i \in 1..Len(wire') : wire'[i].status \in Terminal => wire'[i].status = status'
    BY <1>4, <2>2, <2>4, <2>5, AppendKeeps
  <2>9. log' >= log /\ log' % 2 = 0 /\ final' \in Nat
    <3>1. (log + 2) % 2 = log % 2
      BY <1>2, Even
    <3>2. log' >= log /\ final' \in Nat
      BY <1>2, <2>1
    <3>. QED  BY <2>1, <3>1, <3>2
  <2>10. tail.at # "listening" => wire' = wire
    BY <2>4
  <2>. QED  BY <1>1, <2>1, <2>7, <2>8, <2>9, <2>10, <2>12, FeedJobStep
<1>. QED  BY <1>7, <1>9, <1>10, <1>11, <1>12

LEMMA FeedInit ==
  ASSUME Init
  PROVE  FeedInv
<1>1. /\ page = [open |-> FALSE, sock |-> None, get |-> None, timer |-> FALSE, live |-> None,
                 bytes |-> 0, torn |-> FALSE, prompt |-> 0, job |-> None]
      /\ wire = <<>> /\ polls = <<>> /\ crossed = FALSE /\ final = 0 /\ log = 0 /\ status = "queued"
      /\ tail.at = None /\ tail.status = None /\ tail.row = None
  BY DEF Init, Idle
<1>2. FeedTypes
  <2>1. None \in Shown /\ 0 \in Nat
    BY DEF Shown
  <2>2. page \in PageRow
    BY <1>1, <2>1 DEF PageRow
  <2>3. <<>> \in Seq(Answer)
    OBVIOUS
  <2>. QED  BY <1>1, <2>1, <2>2, <2>3 DEF FeedTypes
<1>3. None \notin Terminal /\ None \notin Verdicts /\ "queued" \notin Verdicts
  BY DEF None, Terminal, Verdicts
<1>4. LogIsWhole /\ Sockets /\ EndingsAreSo /\ VerdictsComeLast
  BY <1>1, <1>3 DEF LogIsWhole, Sockets, EndingsAreSo, VerdictsComeLast, None
<1>5. Follows /\ EndsTold
  BY <1>1 DEF Follows, Ticking, EndsTold, None
<1>. QED  BY <1>1, <1>2, <1>4, <1>5 DEF FeedInv

\* The row of an owner that is gone is closed, and nobody is told.
LEMMA FeedOrphaned ==
  ASSUME FeedInv, WireTypes, WireTypes', WaitTypes, WaitTypes', interruptOrphaned
  PROVE  FeedInv'
<1>1. UNCHANGED <<owner, log, final, pageVars>>
  BY DEF interruptOrphaned, fixed
<1>2. CASE status' = status
  BY <1>1, <1>2, FeedKept
<1>3. CASE status' # status
  <2>1. status \notin Terminal /\ status' = "interrupted" /\ status' \notin Verdicts
    BY <1>3 DEF interruptOrphaned, Verdicts
  <2>2. UNCHANGED <<page, tail, polls, crossed, wire>>
    BY <1>1 DEF pageVars
  <2>3. \A i \in 1..Len(wire) : wire[i].status \notin Terminal
    BY <2>1 DEF FeedInv, EndingsAreSo
  <2>4. log \in Nat /\ final \in Nat /\ (owner = "web" => log % 2 = 0)
    BY DEF WireTypes, FeedInv, FeedTypes, LogIsWhole
  <2>5. tail.at = "listening" /\ page.sock = "open" => Leads(wire, page.bytes, final, log)
    BY DEF FeedInv, Follows
  <2>6. log' >= log
    BY <1>1, <2>4
  <2>7. tail.at = "listening" => Unclosed(wire)
    BY DEF FeedInv, Sockets, None
  <2>. QED  BY <1>1, <2>1, <2>2, <2>3, <2>4, <2>5, <2>6, <2>7, FeedJobStep
<1>. QED  BY <1>2, <1>3

\* A process goes; the web process takes its sockets with it.
LEMMA FeedExits ==
  ASSUME FeedInv, WireTypes, NEW p \in {"web", "mcp"}, Exits(p)
  PROVE  FeedInv'
<1>1. UNCHANGED <<owner, status, log, final, crossed>>
  BY DEF Exits, fixed, jobVars
<1>2. CASE p # "web"
  BY <1>1, <1>2, FeedKept DEF Exits, pageVars
<1>3. CASE p = "web"
  <2>1. /\ tail' = Idle /\ polls' = <<>>
        /\ wire' = (IF page.sock \in {"asking", "row", "open"} THEN Append(wire, Close) ELSE wire)
        /\ page' = (IF page.sock \in {"asking", "row"} THEN [page EXCEPT !.sock = "open"] ELSE page)
    BY <1>3 DEF Exits
  <2>2. page \in PageRow /\ final \in Nat /\ wire \in Seq(Message) /\ crossed \in BOOLEAN
    BY DEF FeedInv, FeedTypes, WireTypes
  <2>3. page' \in PageRow
    BY <2>1, <2>2 DEF PageRow
  <2>4. FeedTypes'
    BY <1>1, <2>1, <2>2, <2>3 DEF FeedTypes
  <2>5. /\ page'.open = page.open /\ page'.timer = page.timer /\ page'.live = page.live /\ page'.bytes = page.bytes
        /\ page'.job = page.job /\ page'.torn = page.torn
        /\ page'.sock = IF page.sock \in {"asking", "row"} THEN "open" ELSE page.sock
    BY <2>1, <2>2 DEF PageRow
  <2>6. Close \in Message /\ Close.status = None /\ ~Carries(Close) /\ Close.t = "close"
    BY MessageTypes DEF Close, Carries
  <2>7. Idle.at = None /\ Idle.status = None /\ Idle.row = None /\ None \notin Terminal /\ None \notin Verdicts
    BY DEF Idle, None, Terminal, Verdicts
  <2>8. Sockets'
    BY <2>1, <2>5, <2>7 DEF FeedInv, Sockets, None
  <2>9. EndingsAreSo'
    <3>1. \A i \in 1..Len(wire') : wire'[i].status \in Terminal => wire'[i].status = status
      BY <2>1, <2>2, <2>6, <2>7, AppendKeeps DEF FeedInv, EndingsAreSo
    <3>. QED  BY <1>1, <2>1, <2>5, <2>7, <3>1 DEF FeedInv, EndingsAreSo
  <2>10. VerdictsComeLast'
    BY <1>1, <2>1, <2>5 DEF FeedInv, VerdictsComeLast
  <2>11. Follows'
    <3>1. ASSUME page'.sock = "open"
          PROVE  \E e \in Nat : Leads(wire', page'.bytes, final', e)
      <4>1. wire' = Append(wire, Close) /\ page.bytes \in Nat
        BY <2>1, <2>2, <2>5, <3>1 DEF PageRow
      <4>2. PICK e \in Nat : Leads(wire, page.bytes, final, e)
        <5>1. CASE page.sock = "open"
          BY <5>1 DEF FeedInv, Follows
        <5>2. CASE page.sock # "open"
          <6>1. wire = <<>>
            BY <2>5, <3>1, <5>2 DEF FeedInv, Sockets
          <6>. QED  BY <2>2, <4>1, <6>1, LeadsEmpty
        <5>. QED  BY <5>1, <5>2
      <4>3. Leads(wire', page.bytes, final, e)
        BY <2>2, <2>6, <4>1, <4>2, LeadsAppend
      <4>. QED  BY <1>1, <2>5, <4>3
    <3>. QED  BY <2>1, <2>7, <3>1 DEF Follows, Ticking, None
  <2>12. EndsTold'
    <3>1. page'.sock = "open" => wire' # <<>> /\ wire'[Len(wire')] = Close
      BY <2>1, <2>2, <2>5, <2>6, AppendKeeps
    <3>. QED  BY <1>1, <2>1, <2>5, <3>1 DEF FeedInv, EndsTold
  <2>13. ~page'.torn
    BY <2>5 DEF FeedInv
  <2>. QED  BY <1>1, <2>4, <2>8, <2>9, <2>10, <2>11, <2>12, <2>13, FeedPageStep
<1>. QED  BY <1>2, <1>3

\* The page opens, and its first request is answered.
LEMMA FeedGet ==
  ASSUME FeedInv, WireTypes, WaitTypes, OpenPage \/ GetJob \/ GetJobArrives
  PROVE  FeedInv'
<1>1. /\ UNCHANGED <<owner, status, log, final, tail, wire, polls>>
  BY DEF OpenPage, GetJob, GetJobArrives, fixed, jobVars
<1>2. page \in PageRow /\ crossed \in BOOLEAN /\ status \in Statuses
  BY DEF FeedInv, FeedTypes, WaitTypes
<1>3. CASE OpenPage
  <2>1. ~page.open /\ page' = [page EXCEPT !.open = TRUE, !.sock = "asking", !.get = "asked"] /\ UNCHANGED crossed
    BY <1>3 DEF OpenPage
  <2>2. /\ page' \in PageRow /\ page'.open /\ page'.sock = "asking" /\ page'.timer = page.timer /\ page'.live = page.live
        /\ page'.bytes = page.bytes /\ page'.job = page.job /\ page'.torn = page.torn
    BY <1>2, <2>1 DEF PageRow
  <2>3. page.sock = None
    BY <2>1 DEF FeedInv, Sockets
  <2>4. FeedTypes' /\ ~page'.torn
    BY <1>1, <2>1, <2>2 DEF FeedInv, FeedTypes
  <2>5. Sockets' /\ EndingsAreSo' /\ VerdictsComeLast'
    BY <1>1, <2>2, <2>3 DEF FeedInv, Sockets, EndingsAreSo, VerdictsComeLast, None
  <2>6. Follows' /\ EndsTold'
    BY <1>1, <2>1, <2>2, <2>3 DEF FeedInv, Follows, Ticking, EndsTold
  <2>. QED  BY <1>1, <2>4, <2>5, <2>6, FeedPageStep
<1>4. ASSUME page' \in PageRow, crossed' \in BOOLEAN, crossed => crossed', page'.open = page.open, page'.sock = page.sock,
             page'.timer = page.timer, page'.live = page.live, page'.bytes = page.bytes, page'.torn = page.torn,
             ~crossed' /\ page'.job # None /\ page'.live # None => page'.job = page'.live
      PROVE  FeedInv'
  <2>1. FeedTypes' /\ ~page'.torn
    BY <1>1, <1>4 DEF FeedInv, FeedTypes
  <2>2. Sockets' /\ EndingsAreSo' /\ VerdictsComeLast'
    BY <1>1, <1>4 DEF FeedInv, Sockets, EndingsAreSo, VerdictsComeLast
  <2>3. Follows'
    BY <1>1, <1>4 DEF FeedInv, Follows, Ticking
  <2>4. EndsTold'
    BY <1>1, <1>4 DEF FeedInv, EndsTold
  <2>. QED  BY <1>1, <2>1, <2>2, <2>3, <2>4, FeedPageStep
<1>5. CASE GetJob
  <2>1. \E g \in Shown : page' = [page EXCEPT !.get = g]
    BY <1>2, <1>5 DEF GetJob, Shown
  <2>2. UNCHANGED crossed
    BY <1>5 DEF GetJob
  <2>3. /\ page' \in PageRow /\ page'.open = page.open /\ page'.sock = page.sock /\ page'.timer = page.timer
        /\ page'.live = page.live /\ page'.bytes = page.bytes /\ page'.job = page.job /\ page'.torn = page.torn
    BY <1>2, <2>1 DEF PageRow
  <2>. QED  BY <1>2, <1>4, <2>2, <2>3 DEF FeedInv, EndsTold
<1>6. CASE GetJobArrives
  <2>1. /\ page.get \in Shown /\ page' = [page EXCEPT !.get = None, !.job = page.get]
        /\ crossed' = (crossed \/ page.live \notin {None, page.get})
    BY <1>2, <1>6 DEF GetJobArrives, PageRow
  <2>2. /\ page' \in PageRow /\ page'.open = page.open /\ page'.sock = page.sock /\ page'.timer = page.timer
        /\ page'.live = page.live /\ page'.bytes = page.bytes /\ page'.job = page.get /\ page'.torn = page.torn
    BY <1>2, <2>1 DEF PageRow, Shown
  <2>. QED  BY <1>2, <1>4, <2>1, <2>2
<1>. QED  BY <1>3, <1>5, <1>6

\* The backlog and what is replayed after it take a new page to where the
\* log was read.
LEMMA ReplayLeads ==
  ASSUME NEW off \in Nat, off % 2 = 0, NEW f \in Nat, NEW s \in Shown, s \in Verdicts => off >= f, NEW p \in Nat
  PROVE  LET w == <<Backlog(off)>> \o Replay(s, p)
         IN /\ Leads(w, 0, f, off) /\ w # <<>> /\ Unclosed(w)
            /\ \A i \in 1..Len(w) : w[i].status \in Terminal => w[i].status = s
            /\ s # "awaiting_input" => w[Len(w)] = Status(s)
<1>. DEFINE b == Append(<<>>, Backlog(off))
<1>1. Backlog(off) \in Message /\ Status(s) \in Message /\ Prompt(p) \in Message
  BY MessageTypes
<1>2. /\ Carries(Backlog(off)) /\ Backlog(off).from = 0 /\ Backlog(off).to = off /\ Backlog(off).t = "backlog"
      /\ Backlog(off).status \notin Terminal /\ Prompt(p).status \notin Terminal /\ Status(s).status = s
  BY DEF Backlog, Carries, Prompt, Status, Terminal, None
<1>3. <<>> \in Seq(Message) /\ b \in Seq(Message) /\ b = <<Backlog(off)>>
  BY <1>1
<1>4. Leads(<<>>, 0, f, 0)
  BY LeadsEmpty
<1>5. Leads(b, 0, f, off)
  <2>1. 0 \in Nat /\ off >= 0
    OBVIOUS
  <2>2. Leads(b, 0, f, IF Carries(Backlog(off)) THEN Backlog(off).to ELSE 0)
    BY <1>1, <1>2, <1>3, <1>4, <2>1, LeadsAppend
  <2>. QED  BY <1>2, <2>2
<1>6. \A i \in 1..Len(b) : b[i].status \notin Terminal
  BY <1>2, <1>3
<1>14. Unclosed(b)
  BY <1>2, <1>3 DEF Unclosed
<1>7. <<Backlog(off)>> \o Replay(s, p) =
        IF s = "awaiting_input" THEN Append(Append(b, Status(s)), Prompt(p)) ELSE Append(b, Status(s))
  <2>1. b \o <<Status(s)>> = Append(b, Status(s)) /\ b \o <<Status(s), Prompt(p)>> = Append(Append(b, Status(s)), Prompt(p))
    BY <1>1, <1>3, Sequel
  <2>. QED  BY <1>3, <2>1 DEF Replay
<1>. HIDE DEF b
<1>8. Leads(Append(b, Status(s)), 0, f, off) /\ Leads(Append(Append(b, Status(s)), Prompt(p)), 0, f, off)
  BY <1>3, <1>5, LeadsStatus
<1>9. \A i \in 1..Len(Append(b, Status(s))) :
        Append(b, Status(s))[i].status \in Terminal => Append(b, Status(s))[i].status = s
  BY <1>1, <1>2, <1>3, <1>6, AppendKeeps
<1>10. Append(b, Status(s)) \in Seq(Message)
  BY <1>1, <1>3
<1>11. \A i \in 1..Len(Append(Append(b, Status(s)), Prompt(p))) :
         Append(Append(b, Status(s)), Prompt(p))[i].status \in Terminal =>
           Append(Append(b, Status(s)), Prompt(p))[i].status = s
  BY <1>1, <1>2, <1>9, <1>10, AppendKeeps
<1>13. Unclosed(Append(b, Status(s))) /\ Unclosed(Append(Append(b, Status(s)), Prompt(p)))
  <2>1. Status(s).t # "close" /\ Prompt(p).t # "close"
    BY DEF Status, Prompt
  <2>. QED  BY <1>1, <1>3, <1>10, <1>14, <2>1, AppendOpen
<1>12. /\ Append(b, Status(s)) # <<>> /\ Append(b, Status(s))[Len(Append(b, Status(s)))] = Status(s)
       /\ Append(Append(b, Status(s)), Prompt(p)) # <<>>
  BY <1>1, <1>3, <1>10, AppendKeeps
<1>. QED  BY <1>7, <1>8, <1>9, <1>11, <1>12, <1>13

\* The socket is refused, or opened on the web's own job or on another's.
LEMMA FeedUpgrade ==
  ASSUME FeedInv, WireTypes, WireTypes', WaitTypes, Upgrade
  PROVE  FeedInv'
<1>1. UNCHANGED <<owner, status, log, final, polls, crossed>> /\ page.sock = "asking"
  BY DEF Upgrade, fixed, jobVars
<1>2. page \in PageRow /\ crossed \in BOOLEAN /\ status \in Shown /\ log \in Nat /\ prompt \in Nat /\ final \in Nat
  BY DEF FeedInv, FeedTypes, WaitTypes, WireTypes, Shown
<1>3. /\ wire = <<>> /\ tail.at = None /\ page.bytes = 0 /\ page.live = None /\ ~page.timer /\ polls = <<>> /\ page.open
      /\ None \notin Terminal /\ None \notin Verdicts
  BY <1>1 DEF FeedInv, Sockets, None, Terminal, Verdicts
<1>4. CASE page' = startPolling(page) /\ UNCHANGED <<tail, wire>>
  <2>1. /\ page' \in PageRow /\ page'.open = page.open /\ page'.sock = "closed" /\ page'.timer /\ page'.live = page.live
        /\ page'.bytes = page.bytes /\ page'.job = page.job /\ page'.torn = page.torn
    BY <1>2, <1>4 DEF startPolling, PageRow
  <2>2. FeedTypes' /\ ~page'.torn
    BY <1>1, <2>1 DEF FeedInv, FeedTypes
  <2>3. Sockets' /\ EndingsAreSo' /\ VerdictsComeLast'
    BY <1>1, <1>3, <1>4, <2>1 DEF FeedInv, Sockets, EndingsAreSo, VerdictsComeLast, None
  <2>4. Follows' /\ EndsTold'
    BY <1>1, <1>3, <1>4, <2>1 DEF FeedInv, Follows, Ticking, EndsTold, None
  <2>. QED  BY <1>1, <2>2, <2>3, <2>4, FeedPageStep
<1>5. CASE owner = "web" /\ page' = [page EXCEPT !.sock = "open"] /\ tail' = [Idle EXCEPT !.at = "listening"]
           /\ wire' = <<Backlog(log)>> \o Replay(status, prompt)
  <2>1. /\ page' \in PageRow /\ page'.open = page.open /\ page'.sock = "open" /\ page'.timer = page.timer
        /\ page'.live = page.live /\ page'.bytes = page.bytes /\ page'.job = page.job /\ page'.torn = page.torn
    BY <1>2, <1>5 DEF PageRow
  <2>2. tail'.at = "listening" /\ tail'.status = None /\ tail'.row = None
    BY <1>5 DEF Idle
  <2>3. log % 2 = 0 /\ (status \in Verdicts => log >= final)
    BY <1>2, <1>5 DEF FeedInv, LogIsWhole
  <2>4. /\ Leads(wire', 0, final, log) /\ Unclosed(wire')
        /\ \A i \in 1..Len(wire') : wire'[i].status \in Terminal => wire'[i].status = status
    BY <1>2, <1>5, <2>3, ReplayLeads
  <2>5. FeedTypes' /\ ~page'.torn
    BY <1>1, <2>1 DEF FeedInv, FeedTypes
  <2>6. Sockets' /\ EndingsAreSo' /\ VerdictsComeLast'
    BY <1>1, <1>3, <2>1, <2>2, <2>4 DEF FeedInv, Sockets, EndingsAreSo, VerdictsComeLast, None
  <2>7. Follows' /\ EndsTold'
    BY <1>1, <1>2, <1>3, <2>1, <2>2, <2>4 DEF FeedInv, Follows, Ticking, EndsTold, None
  <2>. QED  BY <1>1, <2>5, <2>6, <2>7, FeedPageStep
<1>6. CASE page' = [page EXCEPT !.sock = "row"] /\ tail' = [Idle EXCEPT !.status = status, !.prompt = prompt]
           /\ UNCHANGED wire
  <2>1. /\ page' \in PageRow /\ page'.open = page.open /\ page'.sock = "row" /\ page'.timer = page.timer
        /\ page'.live = page.live /\ page'.bytes = page.bytes /\ page'.job = page.job /\ page'.torn = page.torn
    BY <1>2, <1>6 DEF PageRow
  <2>2. tail'.at = None /\ tail'.status = status /\ tail'.row = None
    BY <1>6 DEF Idle
  <2>3. FeedTypes' /\ ~page'.torn
    BY <1>1, <2>1 DEF FeedInv, FeedTypes
  <2>4. Sockets' /\ EndingsAreSo' /\ VerdictsComeLast'
    BY <1>1, <1>3, <1>6, <2>1, <2>2 DEF FeedInv, Sockets, EndingsAreSo, VerdictsComeLast, None
  <2>5. Follows' /\ EndsTold'
    BY <1>1, <1>3, <2>1, <2>2 DEF FeedInv, Follows, Ticking, EndsTold, None
  <2>. QED  BY <1>1, <2>3, <2>4, <2>5, FeedPageStep
<1>. QED  BY <1>4, <1>5, <1>6 DEF Upgrade

LEMMA FeedUpgradeForeign ==
  ASSUME FeedInv, WireTypes, WireTypes', WaitTypes, UpgradeForeign
  PROVE  FeedInv'
<1>. DEFINE off == log - (log % 2)
<1>1. /\ UNCHANGED <<owner, status, log, final, polls, crossed>> /\ page.sock = "row"
      /\ page' = [page EXCEPT !.sock = "open"]
      /\ wire' = <<Backlog(off)>> \o Replay(tail.status, tail.prompt)
      /\ tail' = [tail EXCEPT !.off = off, !.at = IF tail.status \in Terminal THEN None ELSE "tick"]
  BY DEF UpgradeForeign, completeUtf8Length, fixed, jobVars
<1>2. page \in PageRow /\ crossed \in BOOLEAN /\ log \in Nat /\ tail \in TailRow /\ final \in Nat
  BY DEF FeedInv, FeedTypes, WireTypes
<1>3. /\ page.bytes = 0 /\ page.live = None /\ ~page.timer /\ polls = <<>> /\ page.open
      /\ None \notin Terminal /\ None \notin Verdicts
  BY <1>1 DEF FeedInv, Sockets, None, Terminal, Verdicts
<1>4. off \in Nat /\ off <= log /\ off % 2 = 0 /\ off - (off % 2) = off
  <2>1. off \in Nat /\ off <= log /\ off % 2 = 0
    BY <1>2, Even
  <2>. QED  BY <2>1
<1>5. tail.status \in Verdicts => off >= final
  <2>1. ASSUME tail.status \in Verdicts PROVE off >= final
    <3>1. tail.status = status
      BY <2>1 DEF FeedInv, EndingsAreSo, Verdicts, Terminal
    <3>2. final = log /\ log % 2 = 0
      BY <2>1, <3>1 DEF FeedInv, LogIsWhole
    <3>. QED  BY <1>2, <3>2
  <2>. QED  BY <2>1
<1>. HIDE DEF off
<1>6. /\ Leads(wire', 0, final, off) /\ wire' # <<>> /\ Unclosed(wire')
      /\ \A i \in 1..Len(wire') : wire'[i].status \in Terminal => wire'[i].status = tail.status
      /\ tail.status # "awaiting_input" => wire'[Len(wire')] = Status(tail.status)
  BY <1>1, <1>2, <1>4, <1>5, ReplayLeads DEF TailRow
<1>7. /\ page' \in PageRow /\ page'.open = page.open /\ page'.sock = "open" /\ page'.timer = page.timer
      /\ page'.live = page.live /\ page'.bytes = page.bytes /\ page'.job = page.job /\ page'.torn = page.torn
  BY <1>1, <1>2 DEF PageRow
<1>8. /\ tail'.status = tail.status /\ tail'.row = tail.row /\ tail'.off = off
      /\ tail'.at = IF tail.status \in Terminal THEN None ELSE "tick"
  BY <1>1, <1>2 DEF TailRow
<1>9. FeedTypes' /\ ~page'.torn
  BY <1>1, <1>7 DEF FeedInv, FeedTypes
<1>10. Sockets' /\ VerdictsComeLast'
  BY <1>1, <1>3, <1>6, <1>7 DEF FeedInv, Sockets, VerdictsComeLast, None
<1>11. EndingsAreSo'
  BY <1>1, <1>3, <1>6, <1>7, <1>8 DEF FeedInv, EndingsAreSo
<1>12. Follows'
  BY <1>1, <1>3, <1>4, <1>6, <1>7, <1>8 DEF FeedInv, Follows, Ticking, None
<1>13. EndsTold'
  <2>1. tail.status \in Terminal => tail.status = status /\ tail.status # "awaiting_input"
    BY DEF FeedInv, EndingsAreSo, Terminal
  <2>2. tail'.at = None => tail.status \in Terminal
    BY <1>8 DEF None
  <2>. QED  BY <1>1, <1>3, <1>6, <1>7, <2>1, <2>2 DEF FeedInv, EndsTold
<1>. QED  BY <1>1, <1>9, <1>10, <1>11, <1>12, <1>13, FeedPageStep

\* A step of the tail that leaves the page and the answers to it alone.
LEMMA FeedTailStep ==
  ASSUME FeedInv, UNCHANGED <<owner, status, log, final, page, polls, crossed>>, page.sock = "open",
         \A s \in {tail'.status, tail'.row} : s \in Terminal => s = status,
         \A i \in 1..Len(wire') : wire'[i].status \in Terminal => wire'[i].status = status,
         Follows', tail'.at = None => wire' # <<>> /\ wire'[Len(wire')] = Close,
         tail'.at # None => Unclosed(wire')
  PROVE  FeedInv'
<1>1. FeedTypes' /\ ~page'.torn
  BY DEF FeedInv, FeedTypes
<1>2. Sockets'
  BY DEF FeedInv, Sockets, None
<1>3. EndingsAreSo' /\ VerdictsComeLast'
  BY DEF FeedInv, EndingsAreSo, VerdictsComeLast
<1>4. EndsTold'
  BY DEF FeedInv, EndsTold
<1>. QED  BY <1>1, <1>2, <1>3, <1>4, FeedPageStep

\* Where there is a tail the socket is open.
LEMMA TailIsOpen ==
  ASSUME FeedInv, tail.at # None
  PROVE  page.sock = "open"
BY DEF FeedInv, FeedTypes, PageRow, Sockets

LEMMA FeedTickRow ==
  ASSUME FeedInv, WireTypes, TickRow
  PROVE  FeedInv'
<1>1. /\ UNCHANGED <<owner, status, log, final, page, polls, crossed, wire>> /\ tail.at = "tick"
      /\ tail' = [tail EXCEPT !.at = "log", !.row = status, !.rowPrompt = prompt]
  BY DEF TickRow, fixed, jobVars
<1>2. tail'.at = "log" /\ tail'.status = tail.status /\ tail'.row = status /\ tail'.off = tail.off
  BY <1>1 DEF WireTypes, TailRow
<1>3. page.sock = "open"
  BY <1>1, TailIsOpen DEF None
<1>4. Follows'
  BY <1>1, <1>2 DEF FeedInv, Follows, Ticking
<1>5. /\ \A i \in 1..Len(wire') : wire'[i].status \in Terminal => wire'[i].status = status
      /\ \A s \in {tail'.status, tail'.row} : s \in Terminal => s = status
  BY <1>1, <1>2 DEF FeedInv, EndingsAreSo
<1>6. Unclosed(wire)
  BY <1>1 DEF FeedInv, Sockets, None
<1>. QED  BY <1>1, <1>2, <1>3, <1>4, <1>5, <1>6, FeedTailStep DEF None

LEMMA FeedTickLog ==
  ASSUME FeedInv, WireTypes, TickLog
  PROVE  FeedInv'
<1>. DEFINE from == tail.off - (tail.off % 2)
            to == log - (log % 2)
<1>1. /\ UNCHANGED <<owner, status, log, final, page, polls, crossed>> /\ tail.at = "log"
      /\ wire' = (IF to > from THEN Append(wire, Chunk(from, to)) ELSE wire)
      /\ tail' = [tail EXCEPT !.at = "rest", !.off = log]
  BY DEF TickLog, fixed, jobVars
<1>2. tail'.at = "rest" /\ tail'.status = tail.status /\ tail'.row = tail.row /\ tail'.off = log
  BY <1>1 DEF WireTypes, TailRow
<1>3. page.sock = "open"
  BY <1>1, TailIsOpen DEF None
<1>4. /\ log \in Nat /\ tail.off \in Nat /\ wire \in Seq(Message) /\ page.bytes \in Nat /\ final \in Nat
      /\ tail.off <= log
  BY <1>1 DEF WireTypes, TailRow, FeedInv, FeedTypes, PageRow, Follows, Ticking
<1>5. from \in Nat /\ to \in Nat /\ from <= to
  <2>1. /\ from \in Nat /\ to \in Nat /\ tail.off % 2 \in {0, 1} /\ log % 2 \in {0, 1}
        /\ from % 2 = 0 /\ to % 2 = 0
    BY <1>4, Even
  <2>. QED  BY <1>4, <2>1
<1>. HIDE DEF from, to
<1>6. /\ Chunk(from, to) \in Message /\ Carries(Chunk(from, to)) /\ Chunk(from, to).from = from
      /\ Chunk(from, to).to = to /\ Chunk(from, to).t = "chunk" /\ Chunk(from, to).status \notin Terminal
  BY <1>5, MessageTypes DEF Chunk, Carries, Terminal, None
<1>7. \A i \in 1..Len(wire') : wire'[i].status \in Terminal => wire'[i].status = status
  BY <1>1, <1>4, <1>6, AppendKeeps DEF FeedInv, EndingsAreSo
<1>8. Leads(wire, page.bytes, final, from)
  BY <1>1, <1>3 DEF FeedInv, Follows, Ticking, from
<1>9. Leads(wire', page.bytes, final, to)
  <2>1. CASE to > from
    BY <1>1, <1>4, <1>5, <1>6, <1>8, <2>1, LeadsAppend
  <2>2. CASE ~(to > from)
    BY <1>1, <1>5, <1>8, <2>2
  <2>. QED  BY <2>1, <2>2
<1>10. Follows'
  BY <1>1, <1>2, <1>4, <1>5, <1>9 DEF Follows, Ticking, to
<1>11. \A s \in {tail'.status, tail'.row} : s \in Terminal => s = status
  BY <1>2 DEF FeedInv, EndingsAreSo
<1>12. Unclosed(wire')
  <2>1. Unclosed(wire)
    BY <1>1 DEF FeedInv, Sockets, None
  <2>. QED  BY <1>1, <1>4, <1>6, <2>1, AppendOpen
<1>. QED  BY <1>1, <1>2, <1>3, <1>7, <1>10, <1>11, <1>12, FeedTailStep DEF None

LEMMA FeedTickRest ==
  ASSUME FeedInv, WireTypes, TickRest
  PROVE  FeedInv'
<1>. DEFINE first == IF tail.row # tail.status THEN Append(wire, Status(tail.row)) ELSE wire
            changed == IF tail.rowPrompt # tail.prompt THEN Append(first, Prompt(tail.rowPrompt)) ELSE first
<1>1. UNCHANGED <<owner, status, log, final, page, polls, crossed>> /\ tail.at = "rest"
  BY DEF TickRest, fixed, jobVars
<1>2. page.sock = "open"
  BY <1>1, TailIsOpen DEF None
<1>3. /\ log \in Nat /\ tail.off \in Nat /\ wire \in Seq(Message) /\ page.bytes \in Nat /\ final \in Nat
      /\ tail.off <= log /\ tail.row \in Shown /\ tail.rowPrompt \in Nat /\ tail \in TailRow
  BY <1>1 DEF WireTypes, TailRow, FeedInv, FeedTypes, PageRow, Follows, Ticking
<1>4. /\ Status(tail.row) \in Message /\ Prompt(tail.rowPrompt) \in Message /\ Close \in Message
      /\ Status(tail.row).status = tail.row /\ Prompt(tail.rowPrompt).status \notin Terminal
      /\ Close.status \notin Terminal /\ ~Carries(Close) /\ Close.t = "close"
  BY <1>3, MessageTypes DEF Status, Prompt, Close, Carries, Terminal, None
<1>5. /\ wire \o ((IF tail.row # tail.status THEN <<Status(tail.row)>> ELSE <<>>)
                     \o (IF tail.rowPrompt # tail.prompt THEN <<Prompt(tail.rowPrompt)>> ELSE <<>>)) = changed
      /\ wire \o <<>> = wire
  BY <1>3, <1>4, Sequel
<1>6. \/ /\ wire' \in {Append(wire, Close), Append(changed, Close)}
         /\ tail' = Idle
      \/ /\ wire' = changed
         /\ tail' = [tail EXCEPT !.at = "tick", !.status = tail.row, !.prompt = tail.rowPrompt]
  BY <1>5 DEF TickRest, Stop
<1>7. \A i \in 1..Len(wire) : wire[i].status \in Terminal => wire[i].status = status
  BY DEF FeedInv, EndingsAreSo
<1>8. tail.row \in Terminal => tail.row = status
  BY DEF FeedInv, EndingsAreSo
<1>. DEFINE e == tail.off - (tail.off % 2)
<1>9. e \in Nat /\ Leads(wire, page.bytes, final, e) /\ (tail.row \in Verdicts => e >= final)
  <2>1. e \in Nat /\ Leads(wire, page.bytes, final, e)
    BY <1>1, <1>2, <1>3, Even DEF FeedInv, Follows, Ticking
  <2>2. ASSUME tail.row \in Verdicts PROVE e >= final
    <3>1. tail.off = log /\ status \in Verdicts
      BY <1>1, <1>8, <2>2 DEF FeedInv, Follows, Verdicts, Terminal
    <3>2. final = log /\ log % 2 = 0
      BY <3>1 DEF FeedInv, LogIsWhole
    <3>. QED  BY <1>3, <3>1, <3>2
  <2>. QED  BY <2>1, <2>2
<1>. HIDE DEF e
<1>10. /\ first \in Seq(Message) /\ Leads(first, page.bytes, final, e)
       /\ \A i \in 1..Len(first) : first[i].status \in Terminal => first[i].status = status
  <2>1. first \in Seq(Message) /\ Leads(first, page.bytes, final, e)
    BY <1>3, <1>4, <1>9, LeadsStatus
  <2>2. \A i \in 1..Len(first) : first[i].status \in Terminal => first[i].status = status
    BY <1>3, <1>4, <1>7, <1>8, AppendKeeps
  <2>. QED  BY <2>1, <2>2
<1>14. Unclosed(first)
  <2>1. Unclosed(wire)
    BY <1>1 DEF FeedInv, Sockets, None
  <2>2. Status(tail.row).t # "close"
    BY DEF Status
  <2>. QED  BY <1>3, <1>4, <2>1, <2>2, AppendOpen
<1>. HIDE DEF first
<1>15. Unclosed(changed)
  <2>1. Prompt(tail.rowPrompt).t # "close"
    BY DEF Prompt
  <2>. QED  BY <1>4, <1>10, <1>14, <2>1, AppendOpen
<1>11. /\ changed \in Seq(Message) /\ Leads(changed, page.bytes, final, e)
       /\ \A i \in 1..Len(changed) : changed[i].status \in Terminal => changed[i].status = status
  <2>1. changed \in Seq(Message) /\ Leads(changed, page.bytes, final, e)
    <3>2. ~Carries(Prompt(tail.rowPrompt)) /\ Prompt(tail.rowPrompt).t = "prompt"
      BY DEF Prompt, Carries
    <3>1. Leads(Append(first, Prompt(tail.rowPrompt)), page.bytes, final, e)
      BY <1>3, <1>4, <1>9, <1>10, <3>2, LeadsAppend
    <3>. QED  BY <1>4, <1>10, <3>1
  <2>2. \A i \in 1..Len(changed) : changed[i].status \in Terminal => changed[i].status = status
    BY <1>4, <1>10, AppendKeeps
  <2>. QED  BY <2>1, <2>2
<1>. HIDE DEF changed
<1>12. CASE wire' = changed /\ tail' = [tail EXCEPT !.at = "tick", !.status = tail.row, !.prompt = tail.rowPrompt]
  <2>1. tail'.at = "tick" /\ tail'.status = tail.row /\ tail'.row = tail.row /\ tail'.off = tail.off
    BY <1>3, <1>12 DEF TailRow
  <2>2. Follows'
    BY <1>1, <1>3, <1>9, <1>11, <1>12, <2>1 DEF Follows, Ticking, e
  <2>. QED  BY <1>1, <1>2, <1>8, <1>11, <1>12, <1>15, <2>1, <2>2, FeedTailStep DEF None
<1>13. CASE wire' \in {Append(wire, Close), Append(changed, Close)} /\ tail' = Idle
  <2>1. tail'.at = None /\ tail'.status = None /\ tail'.row = None /\ None \notin Terminal
    BY <1>13 DEF Idle, None, Terminal
  <2>2. /\ Leads(Append(wire, Close), page.bytes, final, e) /\ Leads(Append(changed, Close), page.bytes, final, e)
    BY <1>3, <1>4, <1>9, <1>11, LeadsAppend
  <2>3. \A i \in 1..Len(wire') : wire'[i].status \in Terminal => wire'[i].status = status
    <3>1. \A i \in 1..Len(Append(wire, Close)) :
            Append(wire, Close)[i].status \in Terminal => Append(wire, Close)[i].status = status
      BY <1>3, <1>4, <1>7, AppendKeeps
    <3>2. \A i \in 1..Len(Append(changed, Close)) :
            Append(changed, Close)[i].status \in Terminal => Append(changed, Close)[i].status = status
      BY <1>4, <1>11, AppendKeeps
    <3>. QED  BY <1>13, <3>1, <3>2
  <2>4. wire' # <<>> /\ wire'[Len(wire')] = Close
    BY <1>3, <1>4, <1>11, <1>13, AppendKeeps
  <2>5. Follows'
    BY <1>1, <1>9, <1>13, <2>1, <2>2 DEF Follows, Ticking, None
  <2>. QED  BY <1>1, <1>2, <2>1, <2>3, <2>4, <2>5, FeedTailStep
<1>. QED  BY <1>6, <1>12, <1>13

\* The first message is taken off the wire, and the page believes it.
LEMMA FeedDeliver ==
  ASSUME FeedInv, WireTypes, WireTypes', WaitTypes, Deliver
  PROVE  FeedInv'
<1>. DEFINE m == Head(wire)
            b == IF Carries(m) THEN m.to ELSE page.bytes
<1>1. /\ UNCHANGED <<owner, status, log, final, tail, polls, crossed>>
      /\ wire # <<>> /\ page.sock = "open" /\ wire' = Tail(wire)
      /\ m.t = "backlog" => page' = [page EXCEPT !.bytes = m.to, !.torn = @ \/ m.to % 2 # 0]
      /\ m.t = "chunk" => page' = [page EXCEPT !.bytes = m.to, !.torn = @ \/ m.from # page.bytes]
      /\ m.t = "status" => page' = setLive(page, m.status)
      /\ m.t = "prompt" => page' = [page EXCEPT !.prompt = m.prompt]
      /\ m.t = "close" => page' = startPolling(page)
  BY DEF Deliver, fixed, jobVars
<1>2. /\ page \in PageRow /\ wire \in Seq(Message) /\ crossed \in BOOLEAN /\ final \in Nat /\ page.bytes \in Nat
      /\ page.torn = FALSE
  BY DEF FeedInv, FeedTypes, WireTypes, PageRow
<1>3. /\ Len(wire) \in Nat \ {0} /\ Len(wire') = Len(wire) - 1 /\ m = wire[1] /\ m \in Message
      /\ \A i \in 1..Len(wire') : i + 1 \in 1..Len(wire) /\ wire'[i] = wire[i + 1]
  BY <1>1, <1>2
<1>4. PICK e \in Nat : /\ Leads(wire, page.bytes, final, e)
                       /\ tail.at = "listening" => e = log
                       /\ Ticking => e = tail.off - (tail.off % 2)
  BY <1>1 DEF FeedInv, Follows
<1>5. /\ Carries(m) => m.from = page.bytes /\ m.to >= page.bytes
      /\ m.t = "backlog" => m.to % 2 = 0
      /\ m.t = "status" /\ m.status \in Verdicts => page.bytes >= final
      /\ Leads(wire', b, final, e)
  BY <1>1, <1>2, <1>4, LeadsTail
<1>6. b \in Nat /\ b >= page.bytes
  BY <1>2, <1>3, <1>5 DEF Message
<1>7. /\ m.status \in Terminal => m.status = status
      /\ \A i \in 1..Len(wire') : wire'[i].status \in Terminal => wire'[i].status = status
  BY <1>3 DEF FeedInv, EndingsAreSo
<1>8. tail.at # None => Unclosed(wire') /\ m.t # "close"
  BY <1>3 DEF FeedInv, Sockets, Unclosed
<1>9. Follows' \/ page'.bytes # b
  BY <1>1, <1>4, <1>5 DEF FeedInv, Follows, Ticking
<1>10. page.open /\ ~page.timer /\ polls = <<>>
  BY <1>1 DEF FeedInv, Sockets, None
<1>. HIDE DEF m, b
<1>11. ASSUME page' \in PageRow, page'.open, page'.sock = "open", ~page'.timer, page'.bytes = b, page'.torn = FALSE,
              \/ page'.live = page.live /\ page'.job = page.job /\ m.t # "status"
              \/ /\ m.t = "status" /\ page'.live = m.status
                 /\ page'.job = IF page.job # None /\ m.status # page.live THEN m.status ELSE page.job
       PROVE  FeedInv'
  <2>1. FeedTypes' /\ ~page'.torn /\ Follows'
    BY <1>1, <1>9, <1>11 DEF FeedInv, FeedTypes
  <2>2. Sockets'
    BY <1>1, <1>8, <1>10, <1>11 DEF Sockets, None
  <2>3. EndingsAreSo'
    BY <1>1, <1>7, <1>11 DEF FeedInv, EndingsAreSo
  <2>4. VerdictsComeLast'
    <3>1. page.live \in Verdicts => page.bytes >= final
      BY DEF FeedInv, VerdictsComeLast
    <3>2. page'.live \in Verdicts => page'.bytes >= final
      BY <1>2, <1>5, <1>6, <1>11, <3>1
    <3>. QED  BY <1>1, <1>10, <3>2 DEF VerdictsComeLast
  <2>5. ASSUME tail.at = None
        PROVE  IF wire' = <<>> THEN status \in Terminal /\ page'.live = status
               ELSE wire'[Len(wire')] = Close \/ (status \in Terminal /\ wire'[Len(wire')] = Status(status))
    <3>1. wire[Len(wire)] = Close \/ (status \in Terminal /\ wire[Len(wire)] = Status(status))
      BY <1>1, <2>5 DEF FeedInv, EndsTold
    <3>2. CASE wire' = <<>>
      <4>1. m = wire[Len(wire)]
        <5>1. Len(wire') = 0
          BY <3>2
        <5>2. Len(wire) = 1
          BY <1>3, <5>1
        <5>. QED  BY <1>3, <5>2
      <4>2. m # Close
        <5>1. m.t = "close" => page'.sock = "closed"
          BY <1>1, <1>2 DEF startPolling, PageRow
        <5>. QED  BY <1>11, <5>1 DEF Close
      <4>3. m.t = "status" /\ m.status = status /\ status \in Terminal
        BY <3>1, <4>1, <4>2 DEF Status
      <4>. QED  BY <1>11, <3>2, <4>3
    <3>3. CASE wire' # <<>>
      <4>1. Len(wire') \in 1..Len(wire') /\ Len(wire') + 1 = Len(wire)
        BY <1>1, <1>2, <1>3, <3>3
      <4>. QED  BY <1>3, <3>1, <3>3, <4>1
    <3>. QED  BY <3>2, <3>3
  <2>6. ~crossed /\ page'.job # None /\ page'.live # None => page'.job = page'.live
    BY <1>11 DEF FeedInv, EndsTold
  <2>7. EndsTold'
    BY <1>1, <1>10, <1>11, <2>5, <2>6 DEF EndsTold
  <2>. QED  BY <1>1, <2>1, <2>2, <2>3, <2>4, <2>7, FeedPageStep
<1>12. CASE m.t = "backlog" \/ m.t = "chunk"
  <2>1. Carries(m) /\ b = m.to /\ m.to \in Nat
    BY <1>3, <1>12 DEF Carries, Message, b
  <2>2. page' = [page EXCEPT !.bytes = b, !.torn = FALSE]
    BY <1>1, <1>2, <1>5, <1>12, <2>1
  <2>. QED  BY <1>1, <1>2, <1>6, <1>10, <1>11, <1>12, <2>2 DEF PageRow
<1>13. CASE m.t = "status"
  <2>1. b = page.bytes /\ m.status \in Shown
    BY <1>3, <1>13 DEF Carries, Message, b
  <2>2. page' = [page EXCEPT !.live = m.status, !.job = IF @ # None /\ m.status # page.live THEN m.status ELSE @]
    BY <1>1, <1>13 DEF setLive
  <2>. QED  BY <1>1, <1>2, <1>10, <1>11, <1>13, <2>1, <2>2 DEF PageRow
<1>14. CASE m.t = "prompt"
  <2>1. b = page.bytes /\ m.prompt \in Nat
    BY <1>3, <1>14 DEF Carries, Message, b
  <2>. QED  BY <1>1, <1>2, <1>10, <1>11, <1>14, <2>1 DEF PageRow
<1>15. CASE m.t = "close"
  <2>1. page' \in PageRow /\ page'.open /\ page'.sock = "closed" /\ page'.timer /\ page'.live = page.live
        /\ page'.bytes = page.bytes /\ page'.job = page.job /\ page'.torn = FALSE
    BY <1>1, <1>2, <1>10, <1>15 DEF startPolling, PageRow
  <2>2. tail.at = None
    BY <1>8, <1>15
  <2>3. FeedTypes' /\ ~page'.torn
    BY <1>1, <2>1 DEF FeedInv, FeedTypes
  <2>4. Sockets' /\ VerdictsComeLast'
    BY <1>1, <2>1, <2>2 DEF FeedInv, Sockets, VerdictsComeLast, None
  <2>5. EndingsAreSo'
    BY <1>1, <1>7, <2>1 DEF FeedInv, EndingsAreSo
  <2>6. Follows' /\ EndsTold'
    BY <1>1, <1>10, <2>1, <2>2 DEF FeedInv, Follows, Ticking, EndsTold, None
  <2>. QED  BY <1>1, <2>3, <2>4, <2>5, <2>6, FeedPageStep
<1>. QED  BY <1>3, <1>12, <1>13, <1>14, <1>15 DEF Message

\* The connection breaks, and the page asks for itself.
LEMMA FeedSocketBreaks ==
  ASSUME FeedInv, WireTypes, SocketBreaks
  PROVE  FeedInv'
<1>1. /\ UNCHANGED <<owner, status, log, final, polls, crossed>> /\ page.sock = "open"
      /\ page' = startPolling(page) /\ tail' = Idle /\ wire' = <<>>
  BY DEF SocketBreaks, fixed, jobVars
<1>2. /\ page.open /\ polls = <<>> /\ page \in PageRow /\ crossed \in BOOLEAN
      /\ None \notin Terminal /\ None \notin Verdicts
  BY <1>1 DEF FeedInv, FeedTypes, Sockets, None, Terminal, Verdicts
<1>3. /\ page' \in PageRow /\ page'.open /\ page'.sock = "closed" /\ page'.timer /\ page'.live = page.live
      /\ page'.bytes = page.bytes /\ page'.job = page.job /\ page'.torn = page.torn
  BY <1>1, <1>2 DEF startPolling, PageRow
<1>4. tail'.at = None /\ tail'.status = None /\ tail'.row = None
  BY <1>1 DEF Idle
<1>5. FeedTypes' /\ ~page'.torn
  BY <1>1, <1>3 DEF FeedInv, FeedTypes
<1>6. Sockets' /\ EndingsAreSo' /\ VerdictsComeLast'
  BY <1>1, <1>2, <1>3, <1>4 DEF FeedInv, Sockets, EndingsAreSo, VerdictsComeLast, None
<1>7. Follows' /\ EndsTold'
  BY <1>1, <1>2, <1>3, <1>4 DEF FeedInv, Follows, Ticking, EndsTold, None
<1>. QED  BY <1>1, <1>5, <1>6, <1>7, FeedPageStep

\* The page asks: the answer has the log as far as it is whole.
LEMMA FeedPoll ==
  ASSUME FeedInv, WireTypes, WaitTypes, Poll
  PROVE  FeedInv'
<1>. DEFINE a == [status |-> status, prompt |-> prompt, bytes |-> log - (log % 2)]
            n == Len(polls) + 1
<1>1. /\ UNCHANGED <<owner, status, log, final, tail, wire, page, crossed>> /\ page.timer /\ polls' = Append(polls, a)
  BY DEF Poll, fixed, jobVars
<1>2. /\ log \in Nat /\ prompt \in Nat /\ status \in Statuses /\ final \in Nat /\ polls \in Seq(Answer)
  BY DEF WireTypes, WaitTypes, FeedInv, FeedTypes
<1>3. a \in Answer /\ a.status = status /\ (status \in Verdicts => a.bytes >= final)
  <2>1. log - (log % 2) \in Nat
    BY <1>2, Even
  <2>2. status \in Verdicts => log % 2 = 0 /\ final = log
    BY DEF FeedInv, LogIsWhole
  <2>. QED  BY <1>2, <2>1, <2>2 DEF Answer
<1>. HIDE DEF a
<1>4. /\ polls' \in Seq(Answer) /\ Len(polls') = n /\ n \in Nat /\ polls'[n] = a
      /\ \A i \in 1..n : i # n => i \in 1..Len(polls) /\ polls'[i] = polls[i]
  BY <1>1, <1>2, <1>3
<1>5. page.sock = "closed" /\ tail.at = None
  BY <1>1 DEF FeedInv, Sockets
<1>6. FeedTypes' /\ ~page'.torn
  BY <1>1, <1>4 DEF FeedInv, FeedTypes
<1>7. Sockets'
  BY <1>1, <1>5 DEF FeedInv, Sockets
<1>8. EndingsAreSo'
  <2>1. ASSUME NEW i \in 1..Len(polls'), polls'[i].status \in Terminal PROVE polls'[i].status = status
    BY <1>3, <1>4, <2>1 DEF FeedInv, EndingsAreSo
  <2>. QED  BY <1>1, <2>1 DEF FeedInv, EndingsAreSo
<1>9. VerdictsComeLast'
  <2>1. ASSUME NEW i \in 1..Len(polls'), polls'[i].status \in Verdicts PROVE polls'[i].bytes >= final
    BY <1>3, <1>4, <2>1 DEF FeedInv, VerdictsComeLast
  <2>. QED  BY <1>1, <2>1 DEF FeedInv, VerdictsComeLast
<1>10. Follows'
  BY <1>1 DEF FeedInv, Follows, Ticking
<1>11. EndsTold'
  <2>1. ASSUME NEW i \in 1..Len(polls'), NEW j \in 1..Len(polls'), i < j, polls'[i].status \in Terminal
        PROVE  polls'[j].status = polls'[i].status
    <3>1. i # n /\ i \in 1..Len(polls) /\ polls'[i] = polls[i]
      BY <1>4, <2>1
    <3>2. polls[i].status = status
      BY <2>1, <3>1 DEF FeedInv, EndingsAreSo
    <3>3. CASE j = n
      BY <1>3, <1>4, <3>1, <3>2, <3>3
    <3>4. CASE j # n
      <4>1. j \in 1..Len(polls) /\ polls'[j] = polls[j]
        BY <1>4, <3>4
      <4>. QED  BY <2>1, <3>1, <4>1 DEF FeedInv, EndsTold
    <3>. QED  BY <3>3, <3>4
  <2>. QED  BY <1>1, <1>5, <2>1 DEF FeedInv, EndsTold
<1>. QED  BY <1>1, <1>6, <1>7, <1>8, <1>9, <1>10, <1>11, FeedPageStep

\* An answer arrives, perhaps before an older one.
LEMMA FeedPollArrives ==
  ASSUME FeedInv, WireTypes, NEW i \in Nat, PollArrives(i)
  PROVE  FeedInv'
<1>. DEFINE a == polls[i]
            at(j) == IF j < i THEN j ELSE j + 1
<1>1. /\ UNCHANGED <<owner, status, log, final, tail, wire>> /\ i \in 1..Len(polls)
      /\ page' = [setLive(page, a.status) EXCEPT !.bytes = a.bytes, !.prompt = a.prompt,
                    !.timer = @ /\ a.status \notin Terminal]
      /\ crossed' = (crossed \/ i # 1)
      /\ polls' = [j \in 1..(Len(polls) - 1) |-> polls[at(j)]]
  <2>1. DOMAIN polls = 1..Len(polls)
    BY DEF FeedInv, FeedTypes
  <2>. QED  BY <2>1 DEF PollArrives, fixed, jobVars
<1>2. /\ page \in PageRow /\ polls \in Seq(Answer) /\ crossed \in BOOLEAN /\ final \in Nat /\ Len(polls) \in Nat
  BY DEF FeedInv, FeedTypes
<1>3. a \in Answer /\ a.status \in Shown
  <2>1. a \in Answer
    BY <1>1, <1>2
  <2>. QED  BY <2>1 DEF Answer, Shown
<1>4. /\ polls' \in Seq(Answer) /\ Len(polls') = Len(polls) - 1
      /\ \A j \in 1..Len(polls') : at(j) \in 1..Len(polls) /\ polls'[j] = polls[at(j)]
  <2>1. Len(polls) - 1 \in Nat
    BY <1>1, <1>2
  <2>2. \A j \in 1..(Len(polls) - 1) : at(j) \in 1..Len(polls) /\ polls[at(j)] \in Answer
    BY <1>1, <1>2
  <2>3. polls' \in [1..(Len(polls) - 1) -> Answer]
    BY <1>1, <2>2
  <2>4. polls' \in Seq(Answer) /\ Len(polls') = Len(polls) - 1
    BY <2>1, <2>3
  <2>. QED  BY <1>1, <2>2, <2>4
<1>5. page.sock = "closed" /\ page.open /\ tail.at = None
  <2>1. polls # <<>>
    BY <1>1, <1>2
  <2>. QED  BY <2>1 DEF FeedInv, Sockets, None
<1>6. /\ page' \in PageRow /\ page'.open /\ page'.sock = "closed" /\ page'.timer = (page.timer /\ a.status \notin Terminal)
      /\ page'.live = a.status /\ page'.bytes = a.bytes /\ page'.torn = page.torn
      /\ page'.job = IF page.job # None /\ a.status # page.live THEN a.status ELSE page.job
  <2>1. setLive(page, a.status) =
          [page EXCEPT !.live = a.status, !.job = IF page.job # None /\ a.status # page.live THEN a.status ELSE page.job]
    BY <1>2 DEF setLive, PageRow
  <2>2. a.bytes \in Nat /\ a.prompt \in Nat
    BY <1>3 DEF Answer
  <2>3. setLive(page, a.status) \in PageRow
    BY <1>2, <1>3, <2>1 DEF PageRow
  <2>. QED  BY <1>1, <1>2, <1>3, <1>5, <2>1, <2>2, <2>3 DEF PageRow
<1>7. /\ a.status \in Terminal => a.status = status
      /\ a.status \in Verdicts => a.bytes >= final
  BY <1>1 DEF FeedInv, EndingsAreSo, VerdictsComeLast
<1>. HIDE DEF a
<1>8. FeedTypes' /\ ~page'.torn
  BY <1>1, <1>2, <1>4, <1>6 DEF FeedInv, FeedTypes
<1>9. Sockets'
  BY <1>1, <1>5, <1>6 DEF Sockets, None
<1>10. EndingsAreSo'
  <2>1. \A j \in 1..Len(polls') : polls'[j].status \in Terminal => polls'[j].status = status
    BY <1>4 DEF FeedInv, EndingsAreSo
  <2>. QED  BY <1>1, <1>6, <1>7, <2>1 DEF FeedInv, EndingsAreSo
<1>11. VerdictsComeLast'
  <2>1. \A j \in 1..Len(polls') : polls'[j].status \in Verdicts => polls'[j].bytes >= final
    BY <1>4 DEF FeedInv, VerdictsComeLast
  <2>. QED  BY <1>1, <1>6, <1>7, <2>1 DEF VerdictsComeLast
<1>12. Follows'
  BY <1>1, <1>5, <1>6 DEF Follows, Ticking, None
<1>13. EndsTold'
  <2>1. ASSUME NEW j \in 1..Len(polls'), NEW k \in 1..Len(polls'), j < k, polls'[j].status \in Terminal
        PROVE  polls'[k].status = polls'[j].status
    <3>1. at(j) < at(k) /\ at(j) \in 1..Len(polls) /\ at(k) \in 1..Len(polls)
      BY <1>4, <2>1
    <3>. QED  BY <1>4, <2>1, <3>1 DEF FeedInv, EndsTold
  <2>2. ASSUME ~page'.timer, ~crossed'
        PROVE  /\ status \in Terminal /\ page'.live = status
               /\ \A j \in 1..Len(polls') : polls'[j].status = status
    <3>1. i = 1 /\ ~crossed
      BY <1>1, <2>2
    <3>2. \A j \in 1..Len(polls') : j + 1 \in 1..Len(polls) /\ 1 < j + 1 /\ polls'[j] = polls[j + 1]
      BY <1>4, <3>1
    <3>3. CASE page.timer
      <4>1. a.status \in Terminal /\ a.status = status
        BY <1>6, <1>7, <2>2, <3>3
      <4>2. \A j \in 1..Len(polls') : polls'[j].status = status
        BY <1>1, <3>1, <3>2, <4>1 DEF FeedInv, EndsTold, a
      <4>. QED  BY <1>6, <4>1, <4>2
    <3>4. CASE ~page.timer
      <4>1. status \in Terminal /\ \A j \in 1..Len(polls) : polls[j].status = status
        BY <1>5, <3>1, <3>4 DEF FeedInv, EndsTold
      <4>2. a.status = status
        BY <1>1, <4>1 DEF a
      <4>. QED  BY <1>6, <3>2, <4>1, <4>2
    <3>. QED  BY <3>3, <3>4
  <2>3. ~crossed' /\ page'.job # None /\ page'.live # None => page'.job = page'.live
    BY <1>1, <1>6 DEF FeedInv, EndsTold
  <2>4. \A j, k \in 1..Len(polls') : j < k /\ polls'[j].status \in Terminal => polls'[k].status = polls'[j].status
    BY <2>1
  <2>5. page'.sock # "open"
    BY <1>6
  <2>. HIDE DEF at
  <2>. QED  BY <1>1, <2>2, <2>3, <2>4, <2>5 DEF EndsTold
<1>. QED  BY <1>1, <1>8, <1>9, <1>10, <1>11, <1>12, <1>13, FeedPageStep

LEMMA FeedNext ==
  ASSUME FeedInv, WireTypes, WireTypes', WaitTypes, WaitTypes', [Next]_vars
  PROVE  FeedInv'
<1>1. CASE UNCHANGED vars
  BY <1>1, FeedKept DEF vars, fixed, jobVars
<1>2. CASE Start \/ emitLogChunk \/ onPromptDetected \/ AnsweredElsewhere \/ markFinished
  BY <1>2, FeedJob
<1>3. CASE CancelledElsewhere \/ WebRestarts
  BY <1>3, FeedKept DEF CancelledElsewhere, WebRestarts, fixed, jobVars
<1>4. ASSUME NEW p \in {"web", "mcp"}, Exits(p) PROVE FeedInv'
  BY <1>4, FeedExits
<1>5. CASE interruptOrphaned
  BY <1>5, FeedOrphaned
<1>6. ASSUME NEW w \in Waiters,
             \/ waitForJob(w) \/ DialogWithdrawn(w) \/ Declined(w) \/ CancelJob(w)
             \/ AskThrows(w) \/ CallAborts(w) \/ DeadlinePasses(w)
      PROVE  FeedInv'
  BY <1>6, FeedKept
     DEF waitForJob, DialogWithdrawn, Declined, CancelJob, AskThrows, CallAborts, DeadlinePasses, fixed, jobVars
<1>7. ASSUME NEW w \in Waiters, AnswerPrompt(w) PROVE FeedInv'
  <2>1. CASE status = "awaiting_input"
    BY <1>7, <2>1, FeedJob
  <2>2. CASE status # "awaiting_input"
    <3>1. UNCHANGED <<owner, status, log, final, pageVars>>
      BY <1>7, <2>2 DEF AnswerPrompt, fixed, pageVars
    <3>. QED  BY <3>1, FeedKept
  <2>. QED  BY <2>1, <2>2
<1>8. CASE OpenPage \/ GetJob \/ GetJobArrives
  BY <1>8, FeedGet
<1>9. CASE Upgrade \/ UpgradeForeign
  BY <1>9, FeedUpgrade, FeedUpgradeForeign
<1>10. CASE TickRow \/ TickLog \/ TickRest
  BY <1>10, FeedTickRow, FeedTickLog, FeedTickRest
<1>11. CASE Deliver \/ SocketBreaks \/ Poll
  BY <1>11, FeedDeliver, FeedSocketBreaks, FeedPoll
<1>12. ASSUME NEW i \in 1..MaxPolls, PollArrives(i) PROVE FeedInv'
  <2>1. i \in Nat
    BY WatchAssumption
  <2>. QED  BY <1>12, <2>1, FeedPollArrives
<1>. QED  BY <1>1, <1>2, <1>3, <1>4, <1>5, <1>6, <1>7, <1>8, <1>9, <1>10, <1>11, <1>12 DEF Next

LEMMA FeedInvariance == Spec => []FeedInv
<1>1. Init => WireTypes
  BY MessageTypes DEF Init, WireTypes
<1>2. WaitInv => WaitTypes
  BY DEF WaitInv
<1>. QED  BY <1>1, <1>2, WaitInvariance, WireNext, FeedInit, FeedNext, PTL DEF Spec

\* Whatever the socket loses or the process that feeds it dies of, whichever
\* way the page turns to for the rest, and however the tail cuts the log of
\* another process: no character is torn, missing or repeated, and a page
\* that tells how the job ended has its whole log.
THEOREM PagesShowTheLog == Spec => []ShownIsLog
<1>1. FeedInv => ShownIsLog
  BY DEF FeedInv, VerdictsComeLast, Verdicts, ShownIsLog
<1>. QED  BY <1>1, FeedInvariance, PTL

\* However a page's socket ends, and at whatever point of the job: a page
\* that is open and does not show the ending is still being told, or asks.
THEOREM PagesAreFed == Spec => []PageIsFed
<1>1. ASSUME FeedInv PROVE PageIsFed
  <2>1. SUFFICES ASSUME page.open, ~page.timer, wire = <<>>, tail.at = None, page.sock \notin {"asking", "row"}, ~crossed
                 PROVE  status \in Terminal /\ page.live = status /\ page.job \in {status, None}
    BY DEF PageIsFed
  <2>2. page.sock \in {"open", "closed"}
    BY <1>1, <2>1 DEF FeedInv, FeedTypes, PageRow, Sockets
  <2>3. status \in Terminal /\ page.live = status
    BY <1>1, <2>1, <2>2 DEF FeedInv, EndsTold
  <2>4. page.job # None /\ page.live # None => page.job = page.live
    BY <1>1, <2>1 DEF FeedInv, EndsTold
  <2>5. None \notin Terminal
    BY DEF None, Terminal
  <2>. QED  BY <2>3, <2>4, <2>5
<1>. QED  BY <1>1, FeedInvariance, PTL
=============================================================================
