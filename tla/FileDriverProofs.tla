-------------------------- MODULE FileDriverProofs --------------------------
(***************************************************************************)
(* Proofs about FileDriver, for any driver, any number of applies, and any *)
(* number of failing commands, signals and kills: one apply at a time      *)
(* implements ProxyConfig, and leaves everything clean.                    *)
(***************************************************************************)
EXTENDS FileDriver, TLAPS

Pcs == {"idle", "check", "backup", "write", "fill", "validate", "disarm", "reload", "restore"}
Row == [pc : Pcs, at : Places, gen : Gens, bak : Installed, gone : SUBSET Places,
        how : {"none", "exit", "signal"}, faults : Nat,
        result : {"none", "ok", "failed", "stuck", "killed"}]

Types ==
  /\ driver \in fileDrivers /\ disk \in Installed /\ served \in Installed
  /\ debris \subseteq Places /\ gens \in 0..MaxGen /\ torn \in BOOLEAN
  /\ script \in [Scripts -> Row]

\* What a script has done at each of its steps.
BackedUp(s) == At(s, "backup") => \A j \in Files : j < script[s].at => script[s].bak[j] = disk[j]
Writing(s) ==
  script[s].pc \in {"write", "fill"} => \A j \in Files : j < script[s].at => disk[j] = written(s, j)
Written(s) ==
  /\ script[s].pc \in {"validate", "disarm", "reload"} => \A j \in Files : disk[j] = written(s, j)
  /\ script[s].pc \in {"disarm", "reload"} /\ driver.validates => script[s].gen.ok
  /\ At(s, "disarm") /\ driver.watches /\ driver.validates => served = disk
Restoring(s) == At(s, "restore") => \A j \in Files : j < script[s].at => disk[j] = script[s].bak[j]
Succeeded(s) ==
  At(s, "idle") /\ script[s].result = "ok" =>
    /\ \A j \in Files : disk[j].gen = script[s].gen
    /\ driver.validates => served = disk

\* A generation is rendered before anything else, and no signal was caught
\* before the restore.
Rendering(s) ==
  /\ script[s].at \in Files
  /\ ~At(s, "idle") => script[s].gen # NoGen
  /\ script[s].pc \notin {"idle", "restore"} => script[s].how = "none"

Phases(s) == BackedUp(s) /\ Writing(s) /\ Written(s) /\ Restoring(s) /\ Succeeded(s) /\ Rendering(s)

\* The files of a watched directory, and their copies, are whole.
WatchedAreWhole ==
  driver.watches => \A i \in Places : /\ disk[i] \notin Partial /\ served[i] \notin Partial
                                      /\ \A s \in Scripts : script[s].bak[i] \notin Partial

\* Paths that are not the driver's hold nothing.
NothingElse == \A i \in Places \ Files : disk[i] = Absent

\* Temporary files lie about only while they are filled or taken away, or
\* after a script was killed.
Tidy ==
  /\ debris # {} => driver.watches
  /\ debris \subseteq Files
  /\ \A s \in Scripts : \/ debris = {}
                        \/ script[s].pc \in {"fill", "restore"}
                        \/ torn /\ script[s].pc \in {"idle", "check", "backup", "write"}

IInv == Types /\ (\A s \in Scripts : Phases(s)) /\ WatchedAreWhole /\ NothingElse /\ Tidy

-----------------------------------------------------------------------------
(* The drivers and the contents of files. *)

\* What the proofs know of a file driver: one file or two; a watched file is
\* renamed into place and is the only one; only a watched one may go unchecked.
LEMMA DriverFacts ==
  ASSUME driver \in fileDrivers
  PROVE  /\ Files \in {{1}, {1, 2}}
         /\ driver.watches \in BOOLEAN /\ driver.validates \in BOOLEAN
         /\ driver.watches => Files = {1}
         /\ ~driver.watches => driver.validates
         /\ \A i \in Files : driver.files[i].atomic <=> driver.watches
<1>1. CASE driver = caddyDriver
  BY <1>1 DEF caddyDriver, ManagedSection, Files
<1>2. CASE driver = nginxDriver
  BY <1>2 DEF nginxDriver, Owned, Files
<1>3. CASE driver = haproxyDriver
  BY <1>3 DEF haproxyDriver, Owned, Files
<1>4. CASE driver = traefikDriver(TRUE)
  BY <1>4 DEF traefikDriver, Owned, Files
<1>5. CASE driver = traefikDriver(FALSE)
  BY <1>5 DEF traefikDriver, Owned, Files
<1>. QED  BY <1>1, <1>2, <1>3, <1>4, <1>5 DEF fileDrivers

LEMMA ContentFacts ==
  /\ Absent \in Contents /\ Absent \notin Partial /\ Partial \subseteq Contents
  /\ \A h \in BOOLEAN, g \in Gens : /\ Whole(h, g) \in Contents /\ Whole(h, g) \notin Partial
                                    /\ Whole(h, g).what = "whole" /\ Whole(h, g).gen = g
<1>1. \A c \in Partial : c.what \in {"empty", "cut"}
  BY DEF Partial, Remains
<1>2. Absent.what = "absent"
  BY DEF Absent
<1>3. \A h \in BOOLEAN, g \in Gens : Whole(h, g).what = "whole" /\ Whole(h, g).gen = g
  BY DEF Whole
<1>4. Absent \in Contents /\ Partial \subseteq Contents
  BY DEF Contents
<1>5. \A h \in BOOLEAN, g \in Gens : Whole(h, g) \in Contents
  BY DEF Contents
<1>. QED  BY <1>1, <1>2, <1>3, <1>4, <1>5

\* What is written is whole and of the script's generation.
LEMMA WrittenFacts ==
  ASSUME Types, NEW s \in Scripts, NEW i \in Files
  PROVE  /\ written(s, i) \in Contents /\ written(s, i) \notin Partial
         /\ written(s, i).what = "whole" /\ written(s, i).gen = script[s].gen
         /\ \E h \in BOOLEAN : written(s, i) = Whole(h, script[s].gen)
<1>1. script[s].gen \in Gens
  BY DEF Types, Row
<1>2. (driver.files[i].mode = "managed-section" /\ script[s].bak[i].hand) \in BOOLEAN
  OBVIOUS
<1>3. PICK h \in BOOLEAN : written(s, i) = Whole(h, script[s].gen)
  BY <1>2 DEF written
<1>. QED  BY <1>1, <1>3, ContentFacts

\* The driver's own places, step by step.
LEMMA PlaceFacts ==
  ASSUME Types
  PROVE  /\ Files \subseteq Places /\ 1 \in Files /\ 1 \in Places
         /\ \A i \in Files : i + 1 \notin Files => \A j \in Files : j < i + 1
         /\ \A i \in Files : \A j \in Files : j < i + 1 => j < i \/ j = i
         /\ \A j \in Files : ~(j < 1)
         /\ driver.watches => Files = {1}
<1>1. Files \in {{1}, {1, 2}} /\ (driver.watches => Files = {1})
  BY DriverFacts DEF Types
<1>. QED  BY <1>1 DEF Places

-----------------------------------------------------------------------------
(* The invariant is inductive, when one apply runs at a time. *)

\* The new row of the only script.
LEMMA SetRow ==
  ASSUME NEW s, Scripts = {s}, Types, NEW r \in Row, Set(s, r)
  PROVE  script' \in [Scripts -> Row] /\ script'[s] = r
BY DEF Set, Types

LEMMA ControlStep ==
  ASSUME NEW s, Scripts = {s}, IInv, NEW r \in Row, Set(s, r),
         UNCHANGED <<driver, disk, served, debris>>, gens' \in 0..MaxGen, torn' \in BOOLEAN,
         Phases(s)',
         driver.watches => \A i \in Places : r.bak[i] \notin Partial,
         debris = {} \/ r.pc \in {"fill", "restore"} \/ (torn' /\ r.pc \in {"idle", "check", "backup", "write"})
  PROVE  IInv'
<1>0. Types /\ WatchedAreWhole /\ NothingElse /\ Tidy
  BY DEF IInv
<1>1. script' \in [Scripts -> Row] /\ script'[s] = r /\ Files' = Files
  BY <1>0, SetRow DEF Files
<1>2. Types'
  BY <1>0, <1>1 DEF Types
<1>3. WatchedAreWhole'
  BY <1>0, <1>1 DEF WatchedAreWhole
<1>4. NothingElse' /\ Tidy'
  BY <1>0, <1>1 DEF NothingElse, Tidy
<1>. QED  BY <1>2, <1>3, <1>4 DEF IInv

\* The apply begins, checks and backs up.
LEMMA PrepareStep ==
  ASSUME NEW s, Scripts = {s}, IInv, (\E ok \in BOOLEAN : apply(s, ok)) \/ CheckOwned(s) \/ BackUp(s)
  PROVE  IInv'
<1>0. /\ Types /\ Phases(s) /\ WatchedAreWhole /\ Tidy /\ script[s] \in Row /\ disk \in Installed
      /\ gens \in Nat /\ MaxGen \in Nat /\ gens \in 0..MaxGen /\ torn \in BOOLEAN /\ Rendering(s)
  BY FileDriverAssumption DEF IInv, Types, Phases
<1>1. UNCHANGED <<driver, disk, served, debris, torn>> /\ Files' = Files
  BY DEF apply, CheckOwned, BackUp, Files
<1>2. ASSUME NEW ok \in BOOLEAN, apply(s, ok) PROVE IInv'
  <2>. DEFINE gen == [n |-> gens + 1, ok |-> ok]
              r == [Idle EXCEPT !.pc = "check", !.gen = gen]
  <2>1. gens' = gens + 1 /\ gens' \in 0..MaxGen /\ At(s, "idle") /\ Set(s, r)
    <3>1. gens < MaxGen /\ gens' = gens + 1 /\ At(s, "idle")
      BY <1>2 DEF apply
    <3>2. Set(s, r)
      BY <1>2 DEF apply
    <3>. QED  BY <1>0, <3>1, <3>2
  <2>2. gen \in Gens /\ gen # NoGen
    <3>1. gens + 1 \in 1..MaxGen /\ gen.n = gens + 1 /\ NoGen.n = 0
      BY <1>0, <2>1 DEF NoGen
    <3>. QED  BY <1>0, <3>1 DEF Gens
  <2>. HIDE DEF gen
  <2>3. /\ r \in Row /\ r.pc = "check" /\ r.gen = gen /\ r.at = 1 /\ r.how = "none"
        /\ r.bak = [i \in Places |-> Absent]
    <3>. DEFINE none == [i \in Places |-> Absent]
    <3>1. none \in Installed
      BY ContentFacts DEF Installed
    <3>2. Idle = [pc |-> "idle", at |-> 1, gen |-> NoGen, bak |-> none, gone |-> {}, how |-> "none",
                  faults |-> 0, result |-> "none"]
      BY DEF Idle
    <3>. HIDE DEF none
    <3>3. NoGen \in Gens /\ 1 \in Places
      BY DEF Gens, Places
    <3>4. Idle \in Row
      BY <3>1, <3>2, <3>3 DEF Row, Pcs
    <3>5. r \in Row /\ r.pc = "check" /\ r.gen = gen
      BY <2>2, <3>4 DEF Row, Pcs
    <3>6. r.at = Idle.at /\ r.how = Idle.how /\ r.bak = Idle.bak
      BY <3>4 DEF Row
    <3>. QED  BY <3>2, <3>5, <3>6 DEF none
  <2>. HIDE DEF r
  <2>4. script'[s] = r
    BY <1>0, <2>1, <2>3, SetRow
  <2>5. 1 \in Files
    BY <1>0, PlaceFacts
  <2>6. Phases(s)'
    BY <1>1, <2>2, <2>3, <2>4, <2>5 DEF Phases, BackedUp, Writing, Written, Restoring, Succeeded, Rendering, At
  <2>7. \A i \in Places : r.bak[i] \notin Partial
    BY <2>3, ContentFacts
  <2>8. debris = {} \/ torn
    BY <1>0, <2>1 DEF Tidy, At
  <2>. QED  BY <1>0, <1>1, <2>1, <2>3, <2>6, <2>7, <2>8, ControlStep
<1>3. CASE CheckOwned(s)
  <2>1. PICK r \in {[script[s] EXCEPT !.pc = "idle", !.result = "failed"], [script[s] EXCEPT !.pc = "backup", !.at = 1]} :
          Set(s, r)
    BY <1>3 DEF CheckOwned, End, GoAt
  <2>2. At(s, "check") /\ UNCHANGED gens
    BY <1>3 DEF CheckOwned
  <2>3. /\ r \in Row /\ r.gen = script[s].gen /\ r.bak = script[s].bak /\ r.how = script[s].how
        /\ \/ r.pc = "idle" /\ r.result = "failed" /\ r.at = script[s].at
           \/ r.pc = "backup" /\ r.at = 1
    <3>1. CASE r = [script[s] EXCEPT !.pc = "idle", !.result = "failed"]
      BY <1>0, <3>1 DEF Row, Pcs
    <3>2. CASE r = [script[s] EXCEPT !.pc = "backup", !.at = 1]
      <4>1. 1 \in Places
        BY DEF Places
      <4>. QED  BY <1>0, <3>2, <4>1 DEF Row, Pcs
    <3>. QED  BY <2>1, <3>1, <3>2
  <2>4. script'[s] = r
    BY <1>0, <2>1, <2>3, SetRow
  <2>5. 1 \in Files /\ \A j \in Files : ~(j < 1)
    BY <1>0, PlaceFacts
  <2>6. Phases(s)'
    <3>1. BackedUp(s)' /\ Writing(s)' /\ Written(s)' /\ Restoring(s)' /\ Succeeded(s)'
      BY <1>1, <2>3, <2>4, <2>5 DEF BackedUp, Writing, Written, Restoring, Succeeded, At
    <3>2. Rendering(s)'
      BY <1>0, <1>1, <2>2, <2>3, <2>4, <2>5 DEF Rendering, At
    <3>. QED  BY <3>1, <3>2 DEF Phases
  <2>7. driver.watches => \A i \in Places : r.bak[i] \notin Partial
    BY <1>0, <2>3 DEF WatchedAreWhole
  <2>8. debris = {} \/ torn
    BY <1>0, <2>2 DEF Tidy, At
  <2>. QED  BY <1>0, <1>1, <2>1, <2>2, <2>3, <2>6, <2>7, <2>8, ControlStep
<1>4. CASE BackUp(s)
  <2>. DEFINE i == script[s].at
              copied == [script[s].bak EXCEPT ![i] = disk[i]]
              q == [script[s] EXCEPT !.bak = copied]
              r == IF i + 1 \in Files THEN [q EXCEPT !.at = i + 1] ELSE [q EXCEPT !.pc = "write", !.at = 1]
  <2>1. i \in Files /\ Files \subseteq Places /\ 1 \in Files
    BY <1>0, PlaceFacts DEF Rendering
  <2>2. At(s, "backup") /\ UNCHANGED gens /\ Set(s, r)
    BY <1>4 DEF BackUp
  <2>3. copied \in Installed /\ \A j \in Places : copied[j] = IF j = i THEN disk[j] ELSE script[s].bak[j]
    BY <1>0, <2>1 DEF Installed, Row
  <2>. HIDE DEF copied
  <2>4. q \in Row /\ q.pc = "backup" /\ q.gen = script[s].gen /\ q.bak = copied
    BY <1>0, <2>2, <2>3 DEF Row, At
  <2>. HIDE DEF q
  <2>5. /\ r \in Row /\ r.gen = script[s].gen /\ r.bak = copied
        /\ \/ i + 1 \in Files /\ r.pc = "backup" /\ r.at = i + 1
           \/ i + 1 \notin Files /\ r.pc = "write" /\ r.at = 1
        /\ r.how = q.how
    BY <2>1, <2>4 DEF Row, Pcs
  <2>. HIDE DEF r
  <2>6. script'[s] = r
    BY <1>0, <2>2, <2>5, SetRow
  <2>7. \A j \in Files : j < i + 1 => copied[j] = disk[j]
    BY <1>0, <2>1, <2>2, <2>3, PlaceFacts DEF Phases, BackedUp, Places
  <2>8. q.how = "none"
    BY <1>0, <2>2 DEF Rendering, At, q, Row
  <2>9. Phases(s)'
    <3>1. \A j \in Files : ~(j < 1)
      BY <1>0, PlaceFacts
    <3>2. BackedUp(s)'
      BY <1>1, <2>5, <2>6, <2>7 DEF BackedUp, At
    <3>3. Writing(s)' /\ Written(s)' /\ Restoring(s)' /\ Succeeded(s)'
      BY <1>1, <2>5, <2>6, <3>1 DEF Writing, Written, Restoring, Succeeded, At
    <3>4. Rendering(s)'
      BY <1>0, <1>1, <2>1, <2>2, <2>5, <2>6, <2>8 DEF Rendering, At
    <3>. QED  BY <3>2, <3>3, <3>4 DEF Phases
  <2>10. driver.watches => \A j \in Places : r.bak[j] \notin Partial
    BY <1>0, <2>3, <2>5 DEF WatchedAreWhole
  <2>11. debris = {} \/ torn
    BY <1>0, <2>2 DEF Tidy, At
  <2>. QED  BY <1>0, <1>1, <2>2, <2>5, <2>9, <2>10, <2>11, ControlStep
<1>. QED  BY <1>2, <1>3, <1>4

\* A step that writes at most one of the driver's files.
LEMMA DiskStep ==
  ASSUME NEW s, Scripts = {s}, IInv, NEW r \in Row, Set(s, r), r.bak = script[s].bak,
         NEW i \in Files, NEW c \in Contents, disk' = [disk EXCEPT ![i] = c],
         driver.watches => c \notin Partial,
         UNCHANGED <<driver, served, gens>>, torn' \in BOOLEAN,
         debris' \subseteq Files, debris' # {} => driver.watches,
         \/ debris' = {}
         \/ r.pc \in {"fill", "restore"}
         \/ torn' /\ r.pc \in {"idle", "check", "backup", "write"},
         Phases(s)'
  PROVE  IInv'
<1>0. Types /\ WatchedAreWhole /\ NothingElse /\ disk \in Installed /\ Files \subseteq Places
  BY PlaceFacts DEF IInv, Types
<1>1. script' \in [Scripts -> Row] /\ script'[s] = r /\ Files' = Files
  BY <1>0, SetRow DEF Files
<1>2. disk' \in Installed /\ \A j \in Places : disk'[j] = IF j = i THEN c ELSE disk[j]
  BY <1>0 DEF Installed
<1>3. Types'
  BY <1>0, <1>1, <1>2 DEF Types
<1>4. WatchedAreWhole'
  BY <1>0, <1>1, <1>2 DEF WatchedAreWhole
<1>5. NothingElse' /\ Tidy'
  BY <1>0, <1>1, <1>2 DEF NothingElse, Tidy
<1>. QED  BY <1>3, <1>4, <1>5 DEF IInv

\* A script that ends without success, or turns to its backups, owes nothing more.
LEMMA GiveUp ==
  ASSUME NEW s, Scripts = {s}, IInv, NEW r \in Row, Set(s, r), UNCHANGED driver,
         r.gen = script[s].gen,
         \/ r.pc = "idle" /\ r.result # "ok" /\ r.at = script[s].at
         \/ r.pc = "restore" /\ r.at = 1 /\ ~At(s, "idle")
  PROVE  Phases(s)'
<1>0. Types /\ Rendering(s) /\ 1 \in Files /\ \A j \in Files : ~(j < 1)
  BY PlaceFacts DEF IInv, Phases
<1>1. script'[s] = r /\ Files' = Files
  BY <1>0, SetRow DEF Files
<1>2. BackedUp(s)' /\ Writing(s)' /\ Written(s)' /\ Restoring(s)' /\ Succeeded(s)'
  BY <1>0, <1>1 DEF BackedUp, Writing, Written, Restoring, Succeeded, At
<1>3. Rendering(s)'
  BY <1>0, <1>1 DEF Rendering, At
<1>. QED  BY <1>2, <1>3 DEF Phases

\* What the steps read of the invariant.
LEMMA RowNow ==
  ASSUME NEW s, Scripts = {s}, IInv
  PROVE  /\ Types /\ Phases(s) /\ Rendering(s) /\ WatchedAreWhole /\ Tidy
         /\ script[s] \in Row /\ disk \in Installed /\ torn \in BOOLEAN /\ debris \subseteq Files
         /\ driver \in fileDrivers /\ driver.validates \in BOOLEAN /\ driver.watches \in BOOLEAN
         /\ script[s].at \in Files /\ Files \subseteq Places /\ 1 \in Files
         /\ \A i \in Files : disk[i] \in Contents /\ script[s].bak[i] \in Contents
         /\ \A i \in Files : debris \ {i} = {}
BY PlaceFacts, DriverFacts DEF IInv, Types, Phases, Rendering, Row, Installed, Tidy

\* A file is opened for writing, and filled.
LEMMA WriteStep ==
  ASSUME NEW s, Scripts = {s}, IInv, StartWrite(s) \/ FinishWrite(s)
  PROVE  IInv'
<1>. DEFINE i == script[s].at
<1>0. /\ Types /\ Phases(s) /\ Rendering(s) /\ WatchedAreWhole /\ Tidy
      /\ script[s] \in Row /\ disk \in Installed /\ torn \in BOOLEAN /\ debris \subseteq Files
      /\ i \in Files /\ Files \subseteq Places /\ 1 \in Files /\ disk[i] \in Contents
      /\ debris \ {i} = {} /\ driver \in fileDrivers /\ driver.validates \in BOOLEAN
  BY RowNow
<1>1. UNCHANGED <<driver, served, gens, torn>> /\ Files' = Files
  BY DEF StartWrite, FinishWrite, Files
<1>2. /\ \A j \in Files : ~(j < 1)
      /\ \A j \in Files : j < i + 1 => j < i \/ j = i
      /\ i + 1 \notin Files => \A j \in Files : j < i + 1
      /\ \A j \in Files : j \in Nat
      /\ driver.files[i].atomic <=> driver.watches
  BY <1>0, PlaceFacts, DriverFacts DEF Places
<1>3. script[s].pc \in {"write", "fill"} => \A j \in Files : j < i => disk[j] = written(s, j)
  BY <1>0 DEF Phases, Writing
<1>. HIDE DEF i
<1>4. CASE StartWrite(s)
  <2>. DEFINE r == [script[s] EXCEPT !.pc = "fill"]
  <2>1. At(s, "write") /\ Set(s, r)
    BY <1>4 DEF StartWrite, Go
  <2>2. /\ r \in Row /\ r.pc = "fill" /\ r.at = i /\ r.gen = script[s].gen /\ r.bak = script[s].bak
        /\ r.how = script[s].how
    BY <1>0 DEF Row, Pcs, i
  <2>. HIDE DEF r
  <2>3. script'[s] = r
    BY <1>0, <2>1, <2>2, SetRow
  <2>4. PICK c \in Contents : /\ disk' = [disk EXCEPT ![i] = c]
                              /\ driver.watches => c \notin Partial
                              /\ debris' \subseteq Files /\ (debris' # {} => driver.watches)
    <3>1. CASE driver.files[i].atomic
      <4>1. debris' = debris \cup {i} /\ UNCHANGED disk
        BY <1>4, <3>1 DEF StartWrite, Spec_, i
      <4>2. disk' = [disk EXCEPT ![i] = disk[i]] /\ (driver.watches => disk[i] \notin Partial)
        BY <1>0, <4>1 DEF Installed, WatchedAreWhole
      <4>. QED  BY <1>0, <1>2, <3>1, <4>1, <4>2
    <3>2. CASE ~driver.files[i].atomic
      <4>1. PICK c \in Partial : disk' = [disk EXCEPT ![i] = c] /\ UNCHANGED debris
        BY <1>4, <3>2 DEF StartWrite, Spec_, i
      <4>2. debris' # {} => driver.watches
        BY <1>0, <4>1 DEF Tidy
      <4>. QED  BY <1>0, <1>2, <3>2, <4>1, <4>2, ContentFacts
    <3>. QED  BY <3>1, <3>2
  <2>5. \A j \in Files : j < i => disk'[j] = disk[j]
    BY <1>0, <1>2, <2>4 DEF Installed
  <2>6. Writing(s)'
    BY <1>1, <1>3, <2>1, <2>2, <2>3, <2>5 DEF Writing, written, At
  <2>7. BackedUp(s)' /\ Written(s)' /\ Restoring(s)' /\ Succeeded(s)'
    BY <1>1, <2>2, <2>3 DEF BackedUp, Written, Restoring, Succeeded, At
  <2>8. Rendering(s)'
    BY <1>0, <1>1, <2>1, <2>2, <2>3 DEF Rendering, At
  <2>9. Phases(s)'
    BY <2>6, <2>7, <2>8 DEF Phases
  <2>10. torn' \in BOOLEAN
    BY <1>0, <1>1
  <2>. QED  BY <1>0, <1>1, <2>1, <2>2, <2>4, <2>9, <2>10, DiskStep
<1>5. CASE FinishWrite(s)
  <2>. DEFINE done == IF driver.validates THEN "validate" ELSE "disarm"
              r == IF i + 1 \in Files THEN [script[s] EXCEPT !.pc = "write", !.at = i + 1]
                   ELSE [script[s] EXCEPT !.pc = done, !.at = 1]
  <2>1. At(s, "fill") /\ disk' = [disk EXCEPT ![i] = written(s, i)] /\ debris' = {} /\ Set(s, r)
    BY <1>0, <1>5 DEF FinishWrite, NextFile, GoAt, i
  <2>2. /\ r \in Row /\ r.gen = script[s].gen /\ r.bak = script[s].bak /\ r.how = script[s].how
        /\ r.at \in Files
        /\ \/ i + 1 \in Files /\ r.pc = "write" /\ r.at = i + 1
           \/ i + 1 \notin Files /\ driver.validates /\ r.pc = "validate" /\ r.at = 1
           \/ i + 1 \notin Files /\ ~driver.validates /\ r.pc = "disarm" /\ r.at = 1
    BY <1>0 DEF Row, Pcs
  <2>. HIDE DEF r
  <2>3. script'[s] = r
    BY <1>0, <2>1, <2>2, SetRow
  <2>4. written(s, i) \in Contents /\ written(s, i) \notin Partial
    BY <1>0, WrittenFacts
  <2>5. \A j \in Files : j < i + 1 => disk'[j] = written(s, j)
    BY <1>0, <1>2, <1>3, <2>1 DEF Installed, At
  <2>6. \A j \in Files : written(s, j)' = written(s, j)
    BY <1>1, <2>2, <2>3 DEF written
  <2>7. Writing(s)'
    BY <1>1, <2>2, <2>3, <2>5, <2>6 DEF Writing
  <2>8. Written(s)'
    BY <1>1, <1>2, <2>2, <2>3, <2>5, <2>6 DEF Written, At
  <2>9. BackedUp(s)' /\ Restoring(s)' /\ Succeeded(s)'
    BY <1>1, <2>2, <2>3 DEF BackedUp, Restoring, Succeeded, At
  <2>10. Rendering(s)'
    BY <1>0, <1>1, <2>1, <2>2, <2>3 DEF Rendering, At
  <2>11. Phases(s)' /\ torn' \in BOOLEAN /\ debris' \subseteq Files
    BY <1>0, <1>1, <2>1, <2>7, <2>8, <2>9, <2>10 DEF Phases
  <2>. QED  BY <1>0, <1>1, <2>1, <2>2, <2>4, <2>11, DiskStep
<1>. QED  BY <1>4, <1>5

\* The files are checked, the traps disarmed.
LEMMA CheckStep ==
  ASSUME NEW s, Scripts = {s}, IInv, validate(s) \/ Disarm(s)
  PROVE  IInv'
<1>0. /\ Types /\ Phases(s) /\ Rendering(s) /\ WatchedAreWhole /\ Tidy
      /\ script[s] \in Row /\ torn \in BOOLEAN /\ 1 \in Files /\ script[s].at \in Files
      /\ Files \subseteq Places /\ gens \in 0..MaxGen /\ Written(s)
  BY RowNow DEF Types, Phases
<1>1. UNCHANGED <<driver, disk, served, debris, gens>> /\ Files' = Files /\ torn' \in BOOLEAN
  BY <1>0 DEF validate, Disarm, Files
<1>2. debris = {}
  BY <1>0 DEF Tidy, validate, Disarm, At
<1>3. driver.watches => \A j \in Places : script[s].bak[j] \notin Partial
  BY <1>0 DEF WatchedAreWhole
<1>4. \A j \in Files : disk[j] = written(s, j) /\ written(s, j).gen = script[s].gen
  BY <1>0, WrittenFacts DEF Written, validate, Disarm, At
<1>5. CASE validate(s) /\ Set(s, [script[s] EXCEPT !.pc = "restore", !.at = 1, !.how = "exit"])
  <2>. DEFINE r == [script[s] EXCEPT !.pc = "restore", !.at = 1, !.how = "exit"]
  <2>1. r \in Row /\ r.gen = script[s].gen /\ r.bak = script[s].bak /\ r.pc = "restore" /\ r.at = 1
    BY <1>0 DEF Row, Pcs
  <2>2. Set(s, r) /\ ~At(s, "idle")
    BY <1>5 DEF validate, At
  <2>. HIDE DEF r
  <2>3. Phases(s)'
    BY <1>1, <2>1, <2>2, GiveUp
  <2>. QED  BY <1>1, <1>2, <1>3, <1>0, <2>1, <2>2, <2>3, ControlStep
<1>6. CASE validate(s) /\ GoAt(s, "disarm", 1) /\ (IF driver.watches THEN buildApiCheck(s) ELSE accepted(disk))
  <2>. DEFINE r == [script[s] EXCEPT !.pc = "disarm", !.at = 1]
  <2>1. /\ r \in Row /\ r.gen = script[s].gen /\ r.bak = script[s].bak /\ r.pc = "disarm" /\ r.at = 1
        /\ r.how = script[s].how
    BY <1>0 DEF Row, Pcs
  <2>2. Set(s, r) /\ At(s, "validate")
    BY <1>6 DEF validate, GoAt
  <2>. HIDE DEF r
  <2>3. script'[s] = r
    BY <1>0, <2>1, <2>2, SetRow
  <2>4. (driver.watches => served = disk) /\ accepted(disk)
    BY <1>6 DEF buildApiCheck
  <2>5. script[s].gen.ok
    BY <1>0, <1>4, <2>4 DEF accepted
  <2>6. \A j \in Files : written(s, j)' = written(s, j)
    BY <1>1, <2>1, <2>3 DEF written
  <2>7. Written(s)'
    BY <1>1, <1>4, <2>1, <2>3, <2>4, <2>5, <2>6 DEF Written, At
  <2>8. BackedUp(s)' /\ Writing(s)' /\ Restoring(s)' /\ Succeeded(s)'
    BY <1>1, <2>1, <2>3 DEF BackedUp, Writing, Restoring, Succeeded, At
  <2>9. Rendering(s)'
    BY <1>0, <1>1, <2>1, <2>2, <2>3 DEF Rendering, At
  <2>10. Phases(s)'
    BY <2>7, <2>8, <2>9 DEF Phases
  <2>. QED  BY <1>0, <1>1, <1>2, <1>3, <2>1, <2>2, <2>10, ControlStep
<1>7. CASE Disarm(s)
  <2>. DEFINE r == IF driver.watches THEN [script[s] EXCEPT !.pc = "idle", !.result = "ok"]
                   ELSE [script[s] EXCEPT !.pc = "reload"]
  <2>1. /\ r \in Row /\ r.gen = script[s].gen /\ r.bak = script[s].bak /\ r.at = script[s].at
        /\ r.how = script[s].how
        /\ \/ driver.watches /\ r.pc = "idle"
           \/ ~driver.watches /\ r.pc = "reload"
    BY <1>0 DEF Row, Pcs
  <2>2. Set(s, r) /\ At(s, "disarm")
    BY <1>7 DEF Disarm, End, Go
  <2>. HIDE DEF r
  <2>3. script'[s] = r
    BY <1>0, <2>1, <2>2, SetRow
  <2>4. \A j \in Files : written(s, j)' = written(s, j)
    BY <1>1, <2>1, <2>3 DEF written
  <2>5. Written(s)'
    BY <1>0, <1>1, <1>4, <2>1, <2>2, <2>3, <2>4 DEF Written, At
  <2>6. Succeeded(s)'
    BY <1>0, <1>1, <1>4, <2>1, <2>2, <2>3 DEF Succeeded, Written, At
  <2>7. BackedUp(s)' /\ Writing(s)' /\ Restoring(s)'
    BY <1>1, <2>1, <2>3 DEF BackedUp, Writing, Restoring, At
  <2>8. Rendering(s)'
    BY <1>0, <1>1, <2>1, <2>2, <2>3 DEF Rendering, At
  <2>9. Phases(s)'
    BY <2>5, <2>6, <2>7, <2>8 DEF Phases
  <2>. QED  BY <1>0, <1>1, <1>2, <1>3, <2>1, <2>2, <2>9, ControlStep
<1>. QED  BY <1>5, <1>6, <1>7 DEF validate

\* The proxy reads the files, told to by the script or on its own.
LEMMA ReadStep ==
  ASSUME NEW s, Scripts = {s}, IInv, Reload(s) \/ Watch
  PROVE  IInv'
<1>0. /\ Types /\ Phases(s) /\ Rendering(s) /\ WatchedAreWhole /\ NothingElse /\ Tidy
      /\ script[s] \in Row /\ Written(s) /\ Succeeded(s) /\ Files \subseteq Places
  BY RowNow DEF IInv, Phases
<1>1. UNCHANGED <<driver, disk, debris, gens, torn>> /\ Files' = Files /\ served' \in {disk, served}
  BY DEF Reload, Watch, Files
<1>2. CASE Reload(s)
  <2>1. \A j \in Files : disk[j] = written(s, j) /\ written(s, j).gen = script[s].gen
    BY <1>0, <1>2, WrittenFacts DEF Written, Reload, At
  <2>2. PICK r \in {[script[s] EXCEPT !.pc = "idle", !.result = "ok"], [script[s] EXCEPT !.pc = "idle", !.result = "failed"]} :
          Set(s, r) /\ (r.result = "ok" => served' = disk)
    <3>1. CASE accepted(disk)
      BY <1>0, <1>2, <3>1 DEF Reload, End, Row
    <3>2. CASE ~accepted(disk)
      <4>1. Set(s, [script[s] EXCEPT !.pc = "idle", !.result = "failed"])
        BY <1>2, <3>2 DEF Reload, End
      <4>2. [script[s] EXCEPT !.pc = "idle", !.result = "failed"].result # "ok"
        BY <1>0 DEF Row
      <4>. QED  BY <4>1, <4>2
    <3>. QED  BY <3>1, <3>2
  <2>3. r \in Row /\ r.pc = "idle" /\ r.at = script[s].at /\ r.gen = script[s].gen /\ r.bak = script[s].bak
    BY <1>0, <2>2 DEF Row, Pcs
  <2>4. script'[s] = r /\ script' \in [Scripts -> Row]
    BY <1>0, <2>2, <2>3, SetRow
  <2>5. Succeeded(s)'
    BY <1>1, <2>1, <2>2, <2>3, <2>4 DEF Succeeded, At
  <2>6. BackedUp(s)' /\ Writing(s)' /\ Written(s)' /\ Restoring(s)' /\ Rendering(s)'
    BY <1>0, <1>1, <2>3, <2>4 DEF BackedUp, Writing, Written, Restoring, Rendering, At
  <2>7. Types'
    BY <1>0, <1>1, <2>4 DEF Types
  <2>8. WatchedAreWhole' /\ NothingElse'
    BY <1>0, <1>1, <2>3, <2>4 DEF WatchedAreWhole, NothingElse
  <2>9. At(s, "reload")
    BY <1>2 DEF Reload
  <2>10. Tidy'
    BY <1>0, <1>1, <2>9 DEF Tidy, At
  <2>. QED  BY <2>5, <2>6, <2>7, <2>8, <2>10 DEF IInv, Phases
<1>3. CASE Watch
  <2>1. UNCHANGED script /\ served # disk
    BY <1>3 DEF Watch
  <2>2. \A j \in Files : written(s, j)' = written(s, j)
    BY <1>1, <2>1 DEF written
  <2>3. BackedUp(s)' /\ Writing(s)' /\ Restoring(s)' /\ Rendering(s)'
    BY <1>0, <1>1, <2>1, <2>2 DEF Phases, BackedUp, Writing, Restoring, Rendering, At
  <2>4. Written(s)'
    BY <1>0, <1>1, <2>1, <2>2 DEF Written, At
  <2>5. Succeeded(s)'
    BY <1>0, <1>1, <2>1 DEF Succeeded, At
  <2>6. Types' /\ WatchedAreWhole' /\ NothingElse'
    BY <1>0, <1>1, <2>1 DEF Types, WatchedAreWhole, NothingElse
  <2>7. Tidy'
    BY <1>0, <1>1, <2>1 DEF Tidy
  <2>. QED  BY <2>3, <2>4, <2>5, <2>6, <2>7 DEF IInv, Phases
<1>. QED  BY <1>2, <1>3

\* A backup comes back, or is no longer there.
LEMMA RestoreStep ==
  ASSUME NEW s, Scripts = {s}, IInv, bellhop_restore_all(s)
  PROVE  IInv'
<1>. DEFINE i == script[s].at
            lost == i \in script[s].gone /\ script[s].bak[i].what # "absent"
<1>0. /\ Types /\ Phases(s) /\ Rendering(s) /\ WatchedAreWhole /\ Tidy
      /\ script[s] \in Row /\ disk \in Installed /\ torn \in BOOLEAN /\ debris \subseteq Files
      /\ i \in Files /\ Files \subseteq Places /\ 1 \in Files /\ script[s].bak[i] \in Contents
      /\ debris \ {i} = {} /\ disk[i] \in Contents /\ gens \in 0..MaxGen /\ Restoring(s)
  BY RowNow DEF Types, Phases
<1>1. UNCHANGED <<driver, served, gens>> /\ Files' = Files /\ At(s, "restore")
  BY DEF bellhop_restore_all, Files
<1>2. driver.watches => \A j \in Places : script[s].bak[j] \notin Partial
  BY <1>0 DEF WatchedAreWhole
<1>3. CASE lost
  <2>. DEFINE r == [script[s] EXCEPT !.pc = "idle", !.result = "failed"]
  <2>1. /\ r \in Row /\ r.pc = "idle" /\ r.result # "ok" /\ r.at = i /\ r.gen = script[s].gen
        /\ r.bak = script[s].bak
    BY <1>0 DEF Row, Pcs
  <2>2. Set(s, r) /\ torn' = TRUE /\ UNCHANGED <<disk, debris>>
    BY <1>3 DEF bellhop_restore_all, End
  <2>. HIDE DEF r
  <2>3. Phases(s)'
    BY <1>1, <2>1, <2>2, GiveUp
  <2>. QED  BY <1>0, <1>1, <1>2, <2>1, <2>2, <2>3, ControlStep
<1>4. CASE ~lost
  <2>. DEFINE q == [script[s] EXCEPT !.gone = @ \cup {i}]
              r == IF i + 1 \in Files THEN [q EXCEPT !.at = i + 1]
                   ELSE [q EXCEPT !.pc = "idle", !.result = "failed"]
  <2>1. Set(s, r) /\ UNCHANGED torn /\ disk' = [disk EXCEPT ![i] = script[s].bak[i]] /\ debris' = {}
    BY <1>0, <1>4 DEF bellhop_restore_all
  <2>2. /\ q \in Row /\ q.pc = "restore" /\ q.at = i /\ q.gen = script[s].gen /\ q.bak = script[s].bak
    <3>1. script[s].gone \cup {i} \in SUBSET Places
      BY <1>0 DEF Row
    <3>. HIDE DEF i
    <3>2. q \in Row /\ q.pc = "restore" /\ q.gen = script[s].gen /\ q.bak = script[s].bak /\ q.at = script[s].at
      BY <1>0, <1>1, <3>1 DEF Row, At
    <3>. QED  BY <3>2 DEF i
  <2>. HIDE DEF q
  <2>3. /\ r \in Row /\ r.gen = script[s].gen /\ r.bak = script[s].bak
        /\ \/ i + 1 \in Files /\ r.pc = "restore" /\ r.at = i + 1
           \/ i + 1 \notin Files /\ r.pc = "idle" /\ r.result = "failed" /\ r.at = i
    BY <1>0, <2>2 DEF Row, Pcs
  <2>. HIDE DEF r
  <2>4. script'[s] = r
    BY <1>0, <2>1, <2>3, SetRow
  <2>5. Phases(s)'
    <3>1. CASE r.pc = "idle"
      BY <1>1, <2>1, <2>3, <3>1, GiveUp
    <3>2. CASE i + 1 \in Files /\ r.pc = "restore" /\ r.at = i + 1
      <4>1. \A j \in Files : j < i + 1 => j < i \/ j = i
        BY <1>0, PlaceFacts
      <4>2. \A j \in Files : j < i + 1 => disk'[j] = script[s].bak[j]
        BY <1>0, <1>1, <2>1, <4>1 DEF Restoring, Installed
      <4>3. Restoring(s)'
        BY <1>1, <2>3, <2>4, <3>2, <4>2 DEF Restoring
      <4>4. BackedUp(s)' /\ Writing(s)' /\ Written(s)' /\ Succeeded(s)'
        BY <2>4, <3>2 DEF BackedUp, Writing, Written, Succeeded, At
      <4>5. Rendering(s)'
        BY <1>0, <1>1, <2>3, <2>4, <3>2 DEF Rendering, At
      <4>. QED  BY <4>3, <4>4, <4>5 DEF Phases
    <3>. QED  BY <2>3, <3>1, <3>2
  <2>6. torn' \in BOOLEAN /\ debris' \subseteq Files
    BY <1>0, <2>1
  <2>. QED  BY <1>0, <1>1, <1>2, <2>1, <2>3, <2>5, <2>6, DiskStep
<1>. QED  BY <1>3, <1>4

\* A command fails, or a signal comes.
LEMMA FaultStep ==
  ASSUME NEW s, Scripts = {s}, IInv, CommandFails(s) \/ bellhop_on_signal(s)
  PROVE  IInv'
<1>. DEFINE q == Faulted(s)
            ended == {[q EXCEPT !.pc = "idle", !.result = "failed"], [q EXCEPT !.pc = "idle", !.result = "stuck"],
                      [q EXCEPT !.pc = "idle", !.result = "killed"]}
            turned == {[q EXCEPT !.pc = "restore", !.at = 1, !.how = "exit"],
                       [q EXCEPT !.pc = "restore", !.at = 1, !.how = "signal"]}
<1>0. /\ Types /\ Rendering(s) /\ WatchedAreWhole /\ Tidy /\ script[s] \in Row /\ torn \in BOOLEAN
      /\ script[s].at \in Files /\ Files \subseteq Places /\ 1 \in Files /\ gens \in 0..MaxGen
  BY RowNow DEF Types
<1>1. UNCHANGED <<driver, disk, served, debris, gens>> /\ torn' \in BOOLEAN
  BY <1>0 DEF CommandFails, bellhop_on_signal
<1>2. PICK r : /\ Set(s, r)
               /\ \/ r \in turned /\ ~At(s, "idle")
                  \/ r \in ended /\ (script[s].pc \in {"check", "backup", "reload"} \/ torn')
  <2>1. CASE CommandFails(s)
    <3>1. CASE script[s].pc \in {"backup", "reload"}
      BY <2>1, <3>1 DEF CommandFails, At
    <3>2. CASE script[s].pc \in {"write", "fill", "validate"}
      BY <2>1, <3>2 DEF CommandFails, At
    <3>3. CASE At(s, "restore")
      BY <2>1, <3>3 DEF CommandFails, At
    <3>. QED  BY <2>1, <3>1, <3>2, <3>3 DEF CommandFails, At
  <2>2. CASE bellhop_on_signal(s)
    <3>1. ~At(s, "idle") /\ script[s].pc \in Pcs
      BY <1>0, <2>2 DEF bellhop_on_signal, Row
    <3>2. CASE Armed(s) /\ script[s].how # "signal"
      BY <2>2, <3>1, <3>2 DEF bellhop_on_signal
    <3>3. CASE ~(Armed(s) /\ script[s].how # "signal")
      <4>1. Set(s, [q EXCEPT !.pc = "idle", !.result = "killed"])
        BY <2>2, <3>3 DEF bellhop_on_signal
      <4>2. script[s].pc \in {"check", "backup", "reload"} \/ torn'
        BY <1>0, <2>2, <3>1, <3>3 DEF bellhop_on_signal, Armed, At, Rendering, Pcs
      <4>. QED  BY <3>1, <4>1, <4>2
    <3>. QED  BY <3>2, <3>3
  <2>. QED  BY <2>1, <2>2
<1>3. /\ q \in Row /\ q.at = script[s].at /\ q.gen = script[s].gen /\ q.bak = script[s].bak
  BY <1>0 DEF Faulted, Row
<1>. HIDE DEF q
<1>4. /\ r \in Row /\ r.gen = script[s].gen /\ r.bak = script[s].bak
      /\ \/ /\ r.pc = "idle" /\ r.result # "ok" /\ r.at = script[s].at
            /\ script[s].pc \in {"check", "backup", "reload"} \/ torn'
         \/ r.pc = "restore" /\ r.at = 1 /\ ~At(s, "idle")
  <2>1. CASE r \in ended /\ (script[s].pc \in {"check", "backup", "reload"} \/ torn')
    BY <1>3, <2>1 DEF Row, Pcs
  <2>2. CASE r \in turned /\ ~At(s, "idle")
    <3>1. 1 \in Places
      BY <1>0
    <3>. QED  BY <1>3, <2>2, <3>1 DEF Row, Pcs
  <2>. QED  BY <1>2, <2>1, <2>2
<1>. HIDE DEF ended, turned
<1>5. Phases(s)'
  BY <1>1, <1>2, <1>4, GiveUp
<1>6. driver.watches => \A j \in Places : r.bak[j] \notin Partial
  BY <1>0, <1>4 DEF WatchedAreWhole
<1>7. \/ debris = {} \/ r.pc \in {"fill", "restore"}
      \/ torn' /\ r.pc \in {"idle", "check", "backup", "write"}
  <2>1. script[s].pc \in {"check", "backup", "reload"} => debris = {} \/ torn
    BY <1>0 DEF Tidy
  <2>2. torn => torn'
    BY <1>0 DEF CommandFails, bellhop_on_signal
  <2>. QED  BY <1>2, <1>4, <2>1, <2>2
<1>. QED  BY <1>0, <1>1, <1>2, <1>4, <1>5, <1>6, <1>7, ControlStep

\* No trap runs.
LEMMA KillStep ==
  ASSUME NEW s, Scripts = {s}, IInv, Kill(s)
  PROVE  IInv'
<1>. DEFINE i == script[s].at
            r == [script[s] EXCEPT !.pc = "idle", !.result = "killed"]
<1>0. /\ Types /\ WatchedAreWhole /\ Tidy /\ script[s] \in Row /\ torn \in BOOLEAN /\ disk \in Installed
      /\ i \in Files /\ Files \subseteq Places /\ disk[i] \in Contents /\ debris \subseteq Files
      /\ driver \in fileDrivers
  BY RowNow DEF Types
<1>1. UNCHANGED <<driver, served, debris, gens>> /\ Set(s, r) /\ torn' = (torn \/ Armed(s)) /\ ~At(s, "idle")
  BY DEF Kill, End
<1>2. /\ r \in Row /\ r.pc = "idle" /\ r.result # "ok" /\ r.at = script[s].at /\ r.gen = script[s].gen
      /\ r.bak = script[s].bak
  BY <1>0 DEF Row, Pcs
<1>. HIDE DEF r
<1>3. Phases(s)'
  BY <1>1, <1>2, GiveUp
<1>4. debris = {} \/ torn'
  BY <1>0, <1>1 DEF Tidy, Armed, At
<1>5. PICK c \in Contents : disk' = [disk EXCEPT ![i] = c] /\ (driver.watches => c \notin Partial)
  <2>1. CASE UNCHANGED disk
    BY <1>0, <2>1 DEF Installed, WatchedAreWhole
  <2>2. ASSUME NEW c \in Partial, ~Spec_(s).atomic, disk' = [disk EXCEPT ![i] = c]
        PROVE  \E d \in Contents : disk' = [disk EXCEPT ![i] = d] /\ (driver.watches => d \notin Partial)
    <3>1. ~driver.watches
      BY <1>0, <2>2, DriverFacts DEF Spec_
    <3>. QED  BY <2>2, <3>1, ContentFacts
  <2>. QED  BY <2>1, <2>2 DEF Kill
<1>6. /\ torn' \in BOOLEAN /\ debris' \subseteq Files /\ (debris' # {} => driver.watches)
      /\ \/ debris' = {} \/ r.pc \in {"fill", "restore"}
         \/ torn' /\ r.pc \in {"idle", "check", "backup", "write"}
  BY <1>0, <1>1, <1>2, <1>4 DEF Tidy, Armed
<1>. HIDE DEF i
<1>. QED  BY <1>0, <1>1, <1>2, <1>3, <1>5, <1>6, DiskStep

LEMMA InvInit ==
  ASSUME NEW s, Scripts = {s}, Init
  PROVE  IInv
<1>1. Idle \in Row /\ Idle.pc = "idle" /\ Idle.at = 1 /\ Idle.result = "none" /\ Idle.bak = [i \in Places |-> Absent]
  <2>. DEFINE none == [i \in Places |-> Absent]
  <2>1. none \in Installed /\ NoGen \in Gens /\ 1 \in Places
    BY ContentFacts DEF Installed, Gens, Places
  <2>2. Idle = [pc |-> "idle", at |-> 1, gen |-> NoGen, bak |-> none, gone |-> {}, how |-> "none",
                faults |-> 0, result |-> "none"]
    BY DEF Idle
  <2>. HIDE DEF none
  <2>3. Idle \in Row
    BY <2>1, <2>2 DEF Row, Pcs
  <2>. QED  BY <2>2, <2>3 DEF none
<1>2. /\ driver \in fileDrivers /\ served = disk /\ debris = {} /\ gens = 0 /\ torn = FALSE
      /\ script = [t \in Scripts |-> Idle] /\ script[s] = Idle /\ MaxGen \in Nat
  BY FileDriverAssumption DEF Init
<1>3. PICK c \in {Absent, Whole(TRUE, NoGen), Whole(FALSE, NoGen)} :
        disk = [i \in Places |-> IF i \in Files THEN c ELSE Absent]
  BY DEF Init, Files
<1>4. c \in Contents /\ c \notin Partial /\ Absent \in Contents /\ Absent \notin Partial
  <2>1. NoGen \in Gens
    BY DEF Gens
  <2>. QED  BY <2>1, ContentFacts
<1>5. disk \in Installed /\ \A i \in Places : disk[i] = IF i \in Files THEN c ELSE Absent
  BY <1>3, <1>4 DEF Installed
<1>6. Types
  <2>1. script \in [Scripts -> Row] /\ gens \in 0..MaxGen
    BY <1>1, <1>2
  <2>. QED  BY <1>2, <1>5, <2>1 DEF Types
<1>7. 1 \in Files
  BY <1>6, PlaceFacts
<1>8. Phases(s)
  BY <1>1, <1>2, <1>7 DEF Phases, BackedUp, Writing, Written, Restoring, Succeeded, Rendering, At
<1>9. \A i \in Places : disk[i] \notin Partial /\ Idle.bak[i] \notin Partial
  BY <1>1, <1>4, <1>5
<1>10. WatchedAreWhole
  BY <1>2, <1>9 DEF WatchedAreWhole
<1>11. NothingElse /\ Tidy
  BY <1>2, <1>5 DEF NothingElse, Tidy
<1>. QED  BY <1>6, <1>8, <1>10, <1>11 DEF IInv

LEMMA InvNext ==
  ASSUME NEW s, Scripts = {s}, IInv, [Next]_vars
  PROVE  IInv'
<1>1. CASE UNCHANGED vars
  <2>1. Files' = Files /\ \A t \in Scripts, j \in Files : written(t, j)' = written(t, j)
    BY <1>1 DEF vars, Files, written
  <2>2. \A t \in Scripts : BackedUp(t)' = BackedUp(t) /\ Restoring(t)' = Restoring(t) /\ Rendering(t)' = Rendering(t)
    BY <1>1, <2>1 DEF vars, BackedUp, Restoring, Rendering, At
  <2>3. Phases(s)'
    BY <1>1, <2>1, <2>2 DEF IInv, vars, Phases, Writing, Written, Succeeded, At
  <2>4. Types' /\ WatchedAreWhole' /\ NothingElse' /\ Tidy'
    BY <1>1, <2>1 DEF IInv, vars, Types, WatchedAreWhole, NothingElse, Tidy
  <2>. QED  BY <2>3, <2>4 DEF IInv
<1>2. CASE (\E ok \in BOOLEAN : apply(s, ok)) \/ CheckOwned(s) \/ BackUp(s)
  BY <1>2, PrepareStep
<1>3. CASE StartWrite(s) \/ FinishWrite(s)
  BY <1>3, WriteStep
<1>4. CASE validate(s) \/ Disarm(s)
  BY <1>4, CheckStep
<1>5. CASE Reload(s) \/ Watch
  BY <1>5, ReadStep
<1>6. CASE bellhop_restore_all(s)
  BY <1>6, RestoreStep
<1>7. CASE CommandFails(s) \/ bellhop_on_signal(s)
  BY <1>7, FaultStep
<1>8. CASE Kill(s)
  BY <1>8, KillStep
<1>. QED  BY <1>1, <1>2, <1>3, <1>4, <1>5, <1>6, <1>7, <1>8 DEF Next, Step

LEMMA Invariance ==
  ASSUME NEW CONSTANT s, Scripts = {s}
  PROVE  Spec => []IInv
<1>1. Init => IInv
  BY InvInit
<1>2. IInv /\ [Next]_vars => IInv'
  BY InvNext
<1>. QED  BY <1>1, <1>2, PTL DEF Spec

-----------------------------------------------------------------------------
(* Results. *)

\* One apply at a time, whichever driver is installed and whatever fails or
\* kills the script and whenever: a proxy that watches its directory never
\* reads half a file, an apply that reports success has its generation on disk
\* and in the proxy, and no temporary file stays unless a script was killed.
THEOREM AppliesAreClean ==
  ASSUME NEW CONSTANT s, Scripts = {s}
  PROVE  Spec => []ApplyIsClean
<1>1. ASSUME IInv PROVE ApplyIsClean
  <2>0. /\ Types /\ WatchedAreWhole /\ Tidy /\ Phases(s) /\ Succeeded(s) /\ Files \subseteq Places
        /\ script[s].pc = "idle" => script[s].pc \notin {"fill", "restore"}
    BY <1>1, RowNow DEF Phases
  <2>1. WatcherSeesWhole
    BY <2>0 DEF WatcherSeesWhole, WatchedAreWhole
  <2>2. SuccessIsServed
    BY <2>0 DEF SuccessIsServed, Succeeded
  <2>3. NoDebris
    BY <2>0 DEF NoDebris, Tidy, At
  <2>. QED  BY <2>1, <2>2, <2>3 DEF ApplyIsClean
<1>. QED  BY <1>1, Invariance, PTL

-----------------------------------------------------------------------------
(* Applying a configuration implements ProxyConfig. *)

\* What the traps of the only script would put back.
Kept(s) == [i \in Places |-> IF i \in Files THEN script[s].bak[i] ELSE disk[i]]

LEMMA InstalledIs ==
  ASSUME NEW s, Scripts = {s}
  PROVE  /\ InstalledNow = IF Armed(s) THEN Kept(s) ELSE disk
         /\ InstalledNow' = IF Armed(s)' THEN Kept(s)' ELSE disk'
<1>1. InstalledNow = IF Armed(s) THEN Kept(s) ELSE disk
  <2>1. CASE Armed(s)
    <3>1. ArmedScripts = {s}
      BY <2>1 DEF ArmedScripts
    <3>2. (CHOOSE t \in ArmedScripts : TRUE) = s
      BY <3>1
    <3>. QED  BY <2>1, <3>1, <3>2 DEF InstalledNow, Kept
  <2>2. CASE ~Armed(s)
    <3>1. ArmedScripts = {}
      BY <2>2 DEF ArmedScripts
    <3>. QED  BY <2>2, <3>1 DEF InstalledNow
  <2>. QED  BY <2>1, <2>2
<1>2. InstalledNow' = IF Armed(s)' THEN Kept(s)' ELSE disk'
  <2>1. CASE Armed(s)'
    <3>1. ArmedScripts' = {s}
      BY <2>1 DEF ArmedScripts
    <3>2. (CHOOSE t \in ArmedScripts' : TRUE) = s
      BY <3>1
    <3>. QED  BY <2>1, <3>1, <3>2 DEF InstalledNow, Kept
  <2>2. CASE ~Armed(s)'
    <3>1. ArmedScripts' = {}
      BY <2>2 DEF ArmedScripts
    <3>. QED  BY <2>2, <3>1 DEF InstalledNow
  <2>. QED  BY <2>1, <2>2
<1>. QED  BY <1>1, <1>2

\* While the traps are armed, writing the driver's files changes nothing.
LEMMA ArmedKeeps ==
  ASSUME NEW s, Scripts = {s}, Armed(s), Armed(s)', UNCHANGED driver,
         script'[s].bak = script[s].bak,
         \A j \in Places \ Files : disk'[j] = disk[j]
  PROVE  InstalledNow' = InstalledNow
<1>1. Kept(s)' = Kept(s)
  BY DEF Kept, Files
<1>. QED  BY <1>1, InstalledIs

\* Taking the backups installs nothing, and arming the traps keeps what is there.
LEMMA PrepareKeeps ==
  ASSUME NEW s, Scripts = {s}, IInv, (\E ok \in BOOLEAN : apply(s, ok)) \/ CheckOwned(s) \/ BackUp(s)
  PROVE  InstalledNow' = InstalledNow
<1>0. /\ Types /\ Phases(s) /\ script[s] \in Row /\ disk \in Installed /\ script[s].at \in Files
      /\ Files \subseteq Places /\ BackedUp(s) /\ s \in Scripts /\ script \in [Scripts -> Row]
  BY RowNow DEF Phases, Types
<1>1. UNCHANGED <<driver, disk>> /\ Files' = Files
  BY DEF apply, CheckOwned, BackUp, Files
<1>2. script[s].pc \in {"idle", "check", "backup"}
  BY DEF apply, CheckOwned, BackUp, At
<1>3. InstalledNow = disk
  BY <1>2, InstalledIs DEF Armed
<1>4. CASE Armed(s)'
  <2>. DEFINE i == script[s].at
  <2>1. script'[s].pc \notin {"idle", "check", "backup"}
    BY <1>4 DEF Armed
  <2>2. BackUp(s)
    <3>1. ASSUME NEW ok \in BOOLEAN, apply(s, ok) PROVE FALSE
      <4>1. script'[s].pc = "check"
        BY <1>0, <3>1 DEF apply, Set, Idle
      <4>. QED  BY <2>1, <4>1
    <3>2. ASSUME CheckOwned(s) PROVE FALSE
      <4>1. script'[s].pc \in {"idle", "backup"}
        BY <1>0, <3>2 DEF CheckOwned, End, GoAt, Set, Row
      <4>. QED  BY <2>1, <4>1
    <3>. QED  BY <3>1, <3>2
  <2>3. /\ script'[s] = IF i + 1 \in Files THEN [[script[s] EXCEPT !.bak[i] = disk[i]] EXCEPT !.at = i + 1]
                        ELSE [[script[s] EXCEPT !.bak[i] = disk[i]] EXCEPT !.pc = "write", !.at = 1]
        /\ At(s, "backup")
    BY <1>0, <2>2 DEF BackUp, Set
  <2>4. i + 1 \notin Files
    BY <1>0, <2>1, <2>3 DEF Row, At
  <2>5. script'[s].bak = [script[s].bak EXCEPT ![i] = disk[i]]
    BY <1>0, <2>3, <2>4 DEF Row
  <2>6. \A j \in Files : script'[s].bak[j] = disk[j]
    <3>1. \A j \in Files : j < i \/ j = i
      BY <1>0, <2>4, PlaceFacts
    <3>2. script[s].bak \in [Places -> Contents]
      BY <1>0 DEF Row, Installed
    <3>. QED  BY <1>0, <2>3, <2>5, <3>1, <3>2 DEF BackedUp
  <2>7. Kept(s)' = disk
    BY <1>0, <1>1, <2>6 DEF Kept, Installed
  <2>. QED  BY <1>3, <1>4, <2>7, InstalledIs
<1>5. CASE ~Armed(s)'
  BY <1>1, <1>3, <1>5, InstalledIs
<1>. QED  BY <1>4, <1>5

\* Writing and checking happen under the traps.
LEMMA WriteKeeps ==
  ASSUME NEW s, Scripts = {s}, IInv, StartWrite(s) \/ FinishWrite(s) \/ validate(s)
  PROVE  InstalledNow' = InstalledNow
<1>0. /\ script[s] \in Row /\ disk \in Installed /\ script[s].at \in Files
      /\ Files \subseteq Places /\ s \in Scripts /\ script \in [Scripts -> Row]
  BY RowNow DEF Types
<1>1. UNCHANGED driver /\ Armed(s)
  BY DEF StartWrite, FinishWrite, validate, At, Armed
<1>2. script'[s].bak = script[s].bak /\ Armed(s)'
  <2>1. CASE StartWrite(s)
    BY <1>0, <2>1 DEF StartWrite, Go, Set, Row, Armed
  <2>2. CASE FinishWrite(s)
    <3>1. PICK pc \in {"write", "validate", "disarm"} : \E at : script'[s] = [script[s] EXCEPT !.pc = pc, !.at = at]
      BY <1>0, <2>2 DEF FinishWrite, NextFile, GoAt, Set
    <3>2. script'[s].bak = script[s].bak /\ script'[s].pc = pc
      BY <1>0, <3>1 DEF Row
    <3>. QED  BY <3>1, <3>2 DEF Armed
  <2>3. CASE validate(s)
    BY <1>0, <2>3 DEF validate, GoAt, Set, Row, Armed
  <2>. QED  BY <2>1, <2>2, <2>3
<1>3. \A j \in Places \ Files : disk'[j] = disk[j]
  BY <1>0 DEF StartWrite, FinishWrite, validate, Installed
<1>. QED  BY <1>1, <1>2, <1>3, ArmedKeeps

\* A restore that reaches its end has put every file back.
LEMMA RestoreKeeps ==
  ASSUME NEW s, Scripts = {s}, IInv, bellhop_restore_all(s), ~torn'
  PROVE  InstalledNow' = InstalledNow /\ torn' = torn
<1>. DEFINE i == script[s].at
<1>0. /\ Types /\ script[s] \in Row /\ disk \in Installed /\ i \in Files
      /\ Files \subseteq Places /\ s \in Scripts /\ script \in [Scripts -> Row] /\ Restoring(s)
      /\ script[s].bak \in [Places -> Contents]
  BY RowNow DEF Types, Phases, Row, Installed
<1>1. UNCHANGED <<driver, torn>> /\ Files' = Files /\ At(s, "restore") /\ Armed(s)
  BY DEF bellhop_restore_all, Files, At, Armed
<1>2. disk' = [disk EXCEPT ![i] = script[s].bak[i]]
  BY DEF bellhop_restore_all
<1>3. script'[s] = IF i + 1 \in Files THEN [[script[s] EXCEPT !.gone = @ \cup {i}] EXCEPT !.at = i + 1]
                   ELSE [[script[s] EXCEPT !.gone = @ \cup {i}] EXCEPT !.pc = "idle", !.result = "failed"]
  BY <1>0 DEF bellhop_restore_all, Set
<1>4. CASE i + 1 \in Files
  <2>1. script'[s].pc = "restore" /\ script'[s].bak = script[s].bak
    BY <1>0, <1>1, <1>3, <1>4 DEF Row, At
  <2>2. \A j \in Places \ Files : disk'[j] = disk[j]
    BY <1>0, <1>2 DEF Installed
  <2>. QED  BY <1>1, <2>1, <2>2, ArmedKeeps DEF Armed
<1>5. CASE i + 1 \notin Files
  <2>1. ~Armed(s)'
    BY <1>0, <1>3, <1>5 DEF Row, Armed
  <2>2. \A j \in Files : j < i \/ j = i
    BY <1>0, <1>5, PlaceFacts
  <2>3. \A j \in Places : disk'[j] = IF j \in Files THEN script[s].bak[j] ELSE disk[j]
    BY <1>0, <1>1, <1>2, <2>2 DEF Restoring, Installed
  <2>4. disk' = Kept(s)
    BY <1>0, <1>2, <2>3 DEF Kept, Installed
  <2>. QED  BY <1>1, <2>1, <2>4, InstalledIs
<1>. QED  BY <1>4, <1>5

\* A fault leaves the backups to put back, or there was nothing to put back.
LEMMA FaultKeeps ==
  ASSUME NEW s, Scripts = {s}, IInv, CommandFails(s) \/ bellhop_on_signal(s) \/ Kill(s), ~torn'
  PROVE  InstalledNow' = InstalledNow /\ torn' = torn
<1>0. /\ script[s] \in Row /\ torn \in BOOLEAN /\ Rendering(s)
      /\ s \in Scripts /\ script \in [Scripts -> Row] /\ Faulted(s) \in Row
      /\ Faulted(s).bak = script[s].bak
  <2>1. script[s] \in Row /\ torn \in BOOLEAN /\ Rendering(s) /\ s \in Scripts /\ script \in [Scripts -> Row]
    BY RowNow DEF Types
  <2>2. Faulted(s) \in Row /\ Faulted(s).bak = script[s].bak
    BY <2>1 DEF Row, Faulted
  <2>. QED  BY <2>1, <2>2
<1>1. UNCHANGED <<driver, torn>>
  <2>1. UNCHANGED driver
    BY DEF CommandFails, bellhop_on_signal, Kill
  <2>2. torn' = torn
    BY <1>0 DEF CommandFails, bellhop_on_signal, Kill
  <2>. QED  BY <2>1, <2>2
<1>2. CASE Armed(s)
  <2>1. script'[s].bak = script[s].bak /\ Armed(s)' /\ UNCHANGED disk
    <3>1. CASE CommandFails(s)
      BY <1>0, <1>2, <3>1, ZenonT(60) DEF CommandFails, At, Armed, Set, Row
    <3>2. CASE bellhop_on_signal(s)
      <4>1. script[s].how # "signal"
        BY <1>0, <1>2, <3>2 DEF bellhop_on_signal, At, Armed, Rendering
      <4>2. UNCHANGED disk /\ script'[s] = [Faulted(s) EXCEPT !.pc = "restore", !.at = 1, !.how = "signal"]
        BY <1>0, <1>2, <3>2, <4>1 DEF bellhop_on_signal, Set
      <4>. QED  BY <1>0, <4>2 DEF Row, Armed
    <3>3. CASE Kill(s)
      BY <1>2, <3>3 DEF Kill
    <3>. QED  BY <3>1, <3>2, <3>3
  <2>. QED  BY <1>1, <1>2, <2>1, ArmedKeeps
<1>3. CASE ~Armed(s)
  <2>1. UNCHANGED disk
    BY <1>3 DEF CommandFails, bellhop_on_signal, Kill, At, Armed
  <2>2. script'[s].pc = "idle"
    <3>1. CASE CommandFails(s)
      BY <1>0, <1>3, <3>1 DEF CommandFails, At, Armed, Set, Row
    <3>2. CASE bellhop_on_signal(s)
      <4>1. script'[s] = [Faulted(s) EXCEPT !.pc = "idle", !.result = "killed"]
        BY <1>0, <1>3, <3>2 DEF bellhop_on_signal, Set
      <4>. QED  BY <1>0, <4>1 DEF Row
    <3>3. CASE Kill(s)
      BY <1>0, <3>3 DEF Kill, End, Set, Row
    <3>. QED  BY <3>1, <3>2, <3>3
  <2>. QED  BY <1>1, <1>3, <2>1, <2>2, InstalledIs DEF Armed
<1>. QED  BY <1>2, <1>3

\* Disarming installs the files on disk: one generation, in every file, that
\* the driver's check has accepted.
LEMMA DisarmReplaces ==
  ASSUME NEW s, Scripts = {s}, IInv, Disarm(s)
  PROVE  /\ disk \in Rendered /\ (driver.validates => disk \in Checked)
         /\ InstalledNow' = disk /\ torn' = FALSE /\ UNCHANGED driver
<1>. DEFINE gen == script[s].gen
<1>0. /\ Types /\ Written(s) /\ script[s] \in Row /\ disk \in Installed /\ NothingElse
      /\ Files \subseteq Places /\ 1 \in Files /\ s \in Scripts /\ script \in [Scripts -> Row]
      /\ gen \in Gens /\ gen # NoGen
  <2>1. Phases(s) /\ At(s, "disarm")
    BY RowNow DEF Disarm
  <2>. QED  BY <2>1, RowNow DEF IInv, Types, Phases, Rendering, Row, At
<1>1. At(s, "disarm") /\ torn' = FALSE /\ UNCHANGED <<driver, disk>>
  BY DEF Disarm
<1>. HIDE DEF gen
<1>2. \A j \in Files : \E h \in BOOLEAN : disk[j] = Whole(h, gen)
  BY <1>0, <1>1, WrittenFacts DEF Written, At, gen
<1>3. \A j \in Places \ Files : disk[j] = Absent
  BY <1>0 DEF NothingElse
<1>4. \A h \in BOOLEAN : Whole(h, gen).what = "whole" /\ Whole(h, gen).gen = gen
  BY <1>0, ContentFacts
<1>5. disk[1].what = "whole" /\ disk[1].gen = gen
  BY <1>0, <1>2, <1>4
<1>6. \A j \in Places : disk[j].what = "whole" => disk[j].gen = gen
  <2>1. Absent.what # "whole"
    BY DEF Absent
  <2>. QED  BY <1>0, <1>2, <1>3, <1>4, <2>1
<1>7. disk \in [Places -> {Absent} \cup {Whole(h, g) : h \in BOOLEAN, g \in Gens \ {NoGen}}]
  <2>1. \A j \in Places : disk[j] \in {Absent} \cup {Whole(h, g) : h \in BOOLEAN, g \in Gens \ {NoGen}}
    BY <1>0, <1>2, <1>3
  <2>. QED  BY <1>0, <2>1 DEF Installed
<1>8. 2 \in Places
  BY DEF Places
<1>9. disk \in Rendered
  BY <1>5, <1>6, <1>7, <1>8 DEF Rendered
<1>10. driver.validates => disk \in Checked
  <2>1. driver.validates => gen.ok
    BY <1>0, <1>1 DEF Written, At, gen
  <2>. QED  BY <1>5, <1>9, <2>1 DEF Checked
<1>11. InstalledNow' = disk
  <2>1. script'[s].pc \in {"idle", "reload"}
    <3>1. \/ script'[s] = [script[s] EXCEPT !.pc = "idle", !.result = "ok"]
          \/ script'[s] = [script[s] EXCEPT !.pc = "reload"]
      BY <1>0 DEF Disarm, End, Go, Set
    <3>. QED  BY <1>0, <3>1 DEF Row
  <2>. QED  BY <1>1, <2>1, InstalledIs DEF Armed
<1>. QED  BY <1>1, <1>9, <1>10, <1>11

\* One apply at a time implements ProxyConfig, whichever driver is installed
\* and whatever fails and whenever: the configuration the traps keep, or the
\* one on disk when they are off, changes only by a disarm, to a complete
\* rendering that passed the driver's check; a script that was killed, or
\* whose restore was stopped, is the only way to anything else.
THEOREM AppliesSwap ==
  ASSUME NEW CONSTANT s, Scripts = {s}
  PROVE  Spec => Swaps
<1>1. Init => PC!Init
  <2>. SUFFICES ASSUME Init PROVE PC!Init
    OBVIOUS
  <2>1. torn = FALSE /\ driver \in fileDrivers
    BY DEF Init
  <2>. QED  BY <2>1, DriverFacts DEF PC!Init
<1>2. IInv /\ [Next]_vars => [PC!Next]_<<InstalledNow, torn, driver.validates>>
  <2>. SUFFICES ASSUME IInv, [Next]_vars PROVE [PC!Next]_<<InstalledNow, torn, driver.validates>>
    OBVIOUS
  <2>0. torn' \in BOOLEAN
    BY InvNext DEF IInv, Types
  <2>1. CASE torn' /\ UNCHANGED driver
    BY <2>0, <2>1 DEF PC!Next, PC!Die
  <2>2. CASE InstalledNow' = InstalledNow /\ UNCHANGED <<torn, driver>>
    BY <2>2
  <2>3. CASE UNCHANGED vars
    BY <2>3 DEF vars, InstalledNow, ArmedScripts, Armed, Files
  <2>4. CASE Disarm(s)
    BY <2>4, DisarmReplaces DEF PC!Next, PC!Replace
  <2>5. CASE (\E ok \in BOOLEAN : apply(s, ok)) \/ CheckOwned(s) \/ BackUp(s)
    BY <2>2, <2>5, PrepareKeeps DEF apply, CheckOwned, BackUp
  <2>6. CASE StartWrite(s) \/ FinishWrite(s) \/ validate(s)
    BY <2>2, <2>6, WriteKeeps DEF StartWrite, FinishWrite, validate
  <2>7. CASE Reload(s) \/ Watch
    <3>1. UNCHANGED <<disk, torn, driver>>
      BY <2>7 DEF Reload, Watch
    <3>2. CASE Reload(s)
      <4>1. ~Armed(s) /\ ~Armed(s)'
        <5>1. At(s, "reload") /\ script[s] \in Row /\ script \in [Scripts -> Row]
          BY <3>2, RowNow DEF Reload, Types
        <5>2. script'[s].pc = "idle"
          BY <3>2, <5>1 DEF Reload, End, Set, Row
        <5>. QED  BY <5>1, <5>2 DEF Armed, At
      <4>. QED  BY <2>2, <3>1, <4>1, InstalledIs
    <3>3. CASE Watch
      <4>1. UNCHANGED script
        BY <3>3 DEF Watch
      <4>2. Armed(s)' = Armed(s) /\ Kept(s)' = Kept(s)
        BY <3>1, <4>1 DEF Armed, Kept, Files
      <4>. QED  BY <2>2, <3>1, <4>2, InstalledIs
    <3>. QED  BY <2>7, <3>2, <3>3
  <2>8. CASE bellhop_restore_all(s)
    BY <2>1, <2>2, <2>8, RestoreKeeps DEF bellhop_restore_all
  <2>9. CASE CommandFails(s) \/ bellhop_on_signal(s) \/ Kill(s)
    <3>1. UNCHANGED driver
      BY <2>9 DEF CommandFails, bellhop_on_signal, Kill
    <3>. QED  BY <2>1, <2>2, <2>9, <3>1, FaultKeeps
  <2>. QED  BY <2>3, <2>4, <2>5, <2>6, <2>7, <2>8, <2>9 DEF Next, Step
<1>. QED  BY <1>1, <1>2, Invariance, PTL DEF Spec, Swaps, PC!Spec
=============================================================================
