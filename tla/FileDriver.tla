----------------------------- MODULE FileDriver -----------------------------
(***************************************************************************)
(* The script a file-configured driver runs on the proxy host: refuse a    *)
(* file that is not the driver's, back every file up, arm the traps, write *)
(* the files, validate, disarm, drop the backups, reload; on a failure or  *)
(* a signal restore the backups.  The proxy reads the files when it is     *)
(* reloaded, or (Traefik) whenever it looks at the directory.              *)
(*                                                                         *)
(* An in-place write is a truncation and a fill: in between the file is    *)
(* empty, or cut after its first line.  A file that exists is whole        *)
(* content: the operator's part (hand) and the generation Bellhop put in   *)
(* it.  The check accepts a generation or not (ok), whoever rendered it.   *)
(***************************************************************************)
EXTENDS ProxyDrivers

CONSTANTS
  Scripts,    \* the applies that may run at once
  MaxGen,     \* bound: applies in a behaviour
  MaxFaults   \* bound: failing commands and signals per apply

ASSUME FileDriverAssumption == MaxGen \in Nat /\ MaxFaults \in Nat

NoGen == [n |-> 0, ok |-> TRUE]
Gens == {NoGen} \cup [n : 1..MaxGen, ok : BOOLEAN]
Absent == [what |-> "absent", hand |-> FALSE, gen |-> NoGen]
Whole(hand, gen) == [what |-> "whole", hand |-> hand, gen |-> gen]
Remains(what) == [what |-> what, hand |-> FALSE, gen |-> NoGen]
Partial == {Remains("empty"), Remains("cut")}
Contents ==
  {Absent} \cup Partial \cup {Whole(h, g) : h \in BOOLEAN, g \in Gens}

Places == 1..2
Installed == [Places -> Contents]

VARIABLES
  driver,   \* the installed driver
  disk,     \* the files at the driver's paths
  served,   \* the files as the proxy last read them
  debris,   \* temporary files left in the watched directory
  script,   \* the applies in progress
  gens,     \* generations rendered so far
  torn      \* a script ended without putting its files back

vars == <<driver, disk, served, debris, script, gens, torn>>

Files == DOMAIN driver.files
Idle ==
  [pc |-> "idle", at |-> 1, gen |-> NoGen, bak |-> [i \in Places |-> Absent], gone |-> {},
   how |-> "none", faults |-> 0, result |-> "none"]

TypeOK ==
  /\ driver \in fileDrivers
  /\ disk \in Installed /\ served \in Installed
  /\ debris \subseteq Places
  /\ gens \in 0..MaxGen
  /\ torn \in BOOLEAN
  /\ \A s \in Scripts :
       /\ script[s].pc \in {"idle", "check", "backup", "write", "fill", "validate", "disarm",
                            "reload", "restore"}
       /\ script[s].at \in Places
       /\ script[s].bak \in Installed

(* The file may be the operator's own, absent, or a Bellhop file the proxy *)
(* is serving.  A managed section sits in the operator's file.             *)
Init ==
  /\ driver \in fileDrivers
  /\ \E c \in {Absent, Whole(TRUE, NoGen), Whole(FALSE, NoGen)} :
       disk = [i \in Places |-> IF i \in DOMAIN driver.files THEN c ELSE Absent]
  /\ served = disk
  /\ debris = {} /\ gens = 0 /\ torn = FALSE
  /\ script = [s \in Scripts |-> Idle]

At(s, pc) == script[s].pc = pc
Armed(s) == script[s].pc \in {"write", "fill", "validate", "disarm", "restore"}
Spec_(s) == driver.files[script[s].at]

Set(s, r) == script' = [script EXCEPT ![s] = r]
Go(s, pc) == Set(s, [script[s] EXCEPT !.pc = pc])
GoAt(s, pc, i) == Set(s, [script[s] EXCEPT !.pc = pc, !.at = i])
End(s, result) == Set(s, [script[s] EXCEPT !.pc = "idle", !.result = result])
NextFile(s, pc, done) ==
  IF script[s].at + 1 \in Files THEN GoAt(s, pc, script[s].at + 1) ELSE GoAt(s, done, 1)

Fault(s) == script[s].faults < MaxFaults
Faulted(s) == [script[s] EXCEPT !.faults = @ + 1]

-----------------------------------------------------------------------------
(* The driver's apply: render a generation and start the script.           *)
apply(s, ok) ==
  /\ At(s, "idle") /\ gens < MaxGen
  /\ gens' = gens + 1
  /\ Set(s, [Idle EXCEPT !.pc = "check", !.gen = [n |-> gens + 1, ok |-> ok]])
  /\ UNCHANGED <<driver, disk, served, debris, torn>>

(* Step 0: an owned file must start with the driver's header.              *)
hasOwnedHeader(c) == c.what = "cut" \/ (c.what = "whole" /\ ~c.hand)
refuses(f, c) == f.mode = "owned" /\ c.what # "absent" /\ ~hasOwnedHeader(c)

CheckOwned(s) ==
  /\ At(s, "check")
  /\ IF \E i \in Files : refuses(driver.files[i], disk[i])
       THEN End(s, "failed") ELSE GoAt(s, "backup", 1)
  /\ UNCHANGED <<driver, disk, served, debris, gens, torn>>

(* Step 1, then the traps are armed.                                       *)
BackUp(s) ==
  /\ At(s, "backup")
  /\ LET i == script[s].at
         r == [script[s] EXCEPT !.bak[i] = disk[i]]
     IN Set(s, IF i + 1 \in Files THEN [r EXCEPT !.at = i + 1]
               ELSE [r EXCEPT !.pc = "write", !.at = 1])
  /\ UNCHANGED <<driver, disk, served, debris, gens, torn>>

(* Step 2, first half: a temporary file beside an atomic file's path, the  *)
(* truncation of a file written in place.                                  *)
\* Mutant: every file is written in place.
mutStartWrite(s) ==
  /\ At(s, "write")
  /\ \E c \in Partial : disk' = [disk EXCEPT ![script[s].at] = c]
  /\ Go(s, "fill")
  /\ UNCHANGED <<driver, served, debris, gens, torn>>

StartWrite(s) ==
  /\ At(s, "write")
  /\ LET i == script[s].at
     IN IF Spec_(s).atomic
          THEN debris' = debris \cup {i} /\ UNCHANGED disk
          ELSE /\ \E c \in Partial : disk' = [disk EXCEPT ![i] = c]
               /\ UNCHANGED debris
  /\ Go(s, "fill")
  /\ UNCHANGED <<driver, served, gens, torn>>

(* The managed section keeps what the operator has around it: the script   *)
(* took the rest of the file before it truncated it.                       *)
written(s, i) ==
  Whole(driver.files[i].mode = "managed-section" /\ script[s].bak[i].hand, script[s].gen)

FinishWrite(s) ==
  /\ At(s, "fill")
  /\ disk' = [disk EXCEPT ![script[s].at] = written(s, script[s].at)]
  /\ debris' = debris \ {script[s].at}
  /\ NextFile(s, "write", IF driver.validates THEN "validate" ELSE "disarm")
  /\ UNCHANGED <<driver, served, gens, torn>>

(* Step 3.  Traefik's check polls its API until this generation is loaded  *)
(* and every router of it is enabled; the others check the files.          *)
accepted(f) == \A i \in Files : f[i].what = "whole" /\ f[i].gen.ok
buildApiCheck(s) == served = disk /\ accepted(served) /\ served[1].gen = script[s].gen
validate(s) ==
  /\ At(s, "validate")
  /\ \/ /\ IF driver.watches THEN buildApiCheck(s) ELSE accepted(disk)
        /\ GoAt(s, "disarm", 1)
     \/ /\ ~accepted(disk)
        /\ Set(s, [script[s] EXCEPT !.pc = "restore", !.at = 1, !.how = "exit"])
  /\ UNCHANGED <<driver, disk, served, debris, gens, torn>>

(* Step 4: traps off, backups gone, reload.                                *)
Disarm(s) ==
  /\ At(s, "disarm")
  /\ IF driver.watches THEN End(s, "ok") ELSE Go(s, "reload")
  /\ torn' = FALSE
  /\ UNCHANGED <<driver, disk, served, debris, gens>>

(* A proxy that is told to load a configuration it cannot use keeps its own *)

Reload(s) ==
  /\ At(s, "reload")
  /\ IF accepted(disk) THEN served' = disk /\ End(s, "ok")
                       ELSE UNCHANGED served /\ End(s, "failed")
  /\ UNCHANGED <<driver, disk, debris, gens, torn>>

(* bellhop_restore_all, file by file: the temporary file goes, the backup  *)
(* comes back (or the file goes), the backup is removed.  A backup an      *)
(* earlier, interrupted restore removed makes cp fail, which ends it all.  *)
\* Mutant: a file that did not exist before is not removed.
mutRestoreKeeps(s) ==
  /\ At(s, "restore")
  /\ LET i == script[s].at
     IN /\ disk' = [disk EXCEPT ![i] = IF script[s].bak[i] = Absent THEN @ ELSE script[s].bak[i]]
        /\ debris' = debris \ {i}
        /\ Set(s, IF i + 1 \in Files THEN [script[s] EXCEPT !.at = i + 1]
                  ELSE [script[s] EXCEPT !.pc = "idle", !.result = "failed"])
  /\ UNCHANGED <<driver, served, gens, torn>>

bellhop_restore_all(s) ==
  /\ At(s, "restore")
  /\ LET i == script[s].at
         lost == i \in script[s].gone /\ script[s].bak[i].what # "absent"
         r == [script[s] EXCEPT !.gone = @ \cup {i}]
     IN IF lost THEN End(s, "failed") /\ torn' = TRUE /\ UNCHANGED <<disk, debris>>
        ELSE /\ disk' = [disk EXCEPT ![i] = script[s].bak[i]]
             /\ debris' = debris \ {i}
             /\ UNCHANGED torn
             /\ Set(s, IF i + 1 \in Files THEN [r EXCEPT !.at = i + 1]
                       ELSE [r EXCEPT !.pc = "idle", !.result = "failed"])
  /\ UNCHANGED <<driver, served, gens>>

(* A command fails under set -e.  Unarmed it ends the script, armed it     *)
(* runs the EXIT trap; in the restore itself it ends it there.             *)
CommandFails(s) ==
  /\ Fault(s)
  /\ \/ At(s, "backup") /\ Set(s, [Faulted(s) EXCEPT !.pc = "idle", !.result = "failed"])
     \/ /\ script[s].pc \in {"write", "fill"} \/ (At(s, "validate") /\ driver.watches)
        /\ Set(s, [Faulted(s) EXCEPT !.pc = "restore", !.at = 1, !.how = "exit"])
     \/ At(s, "reload") /\ Set(s, [Faulted(s) EXCEPT !.pc = "idle", !.result = "failed"])
     \/ At(s, "restore") /\ Set(s, [Faulted(s) EXCEPT !.pc = "idle", !.result = "stuck"])
  /\ torn' = (torn \/ At(s, "restore"))
  /\ UNCHANGED <<driver, disk, served, debris, gens>>

(* HUP, INT or TERM: bellhop_on_signal while the traps are armed (the EXIT *)
(* restore included), the end of the script otherwise.                     *)
bellhop_on_signal(s) ==
  /\ Fault(s) /\ ~At(s, "idle")
  /\ IF Armed(s) /\ script[s].how # "signal"
       THEN Set(s, [Faulted(s) EXCEPT !.pc = "restore", !.at = 1, !.how = "signal"])
       ELSE Set(s, [Faulted(s) EXCEPT !.pc = "idle", !.result = "killed"])
  /\ torn' = (torn \/ (At(s, "restore") /\ script[s].how = "signal"))
  /\ UNCHANGED <<driver, disk, served, debris, gens>>

(* The proxy host goes down, or SIGKILL: no trap runs.  A restore that was *)
(* copying leaves what it had copied.                                      *)
Kill(s) ==
  /\ ~At(s, "idle")
  /\ End(s, "killed")
  /\ torn' = (torn \/ Armed(s))
  /\ \/ UNCHANGED disk
     \/ /\ At(s, "restore") /\ ~Spec_(s).atomic
        /\ \E c \in Partial : disk' = [disk EXCEPT ![script[s].at] = c]
  /\ UNCHANGED <<driver, served, debris, gens>>

(* Traefik's file provider reads the directory on its own.  It may reject  *)
(* a whole file it cannot use and keep what it had.                        *)
Watch ==
  /\ driver.watches /\ served # disk
  /\ \/ served' = disk
     \/ ~accepted(disk) /\ served' = served
  /\ UNCHANGED <<driver, disk, debris, script, gens, torn>>

Step(s) ==
  \/ CheckOwned(s) \/ BackUp(s) \/ StartWrite(s) \/ FinishWrite(s) \/ validate(s)
  \/ Disarm(s) \/ Reload(s) \/ bellhop_restore_all(s)

Next ==
  \/ Watch
  \/ \E s \in Scripts :
       \/ \E ok \in BOOLEAN : apply(s, ok)
       \/ Step(s)
       \/ CommandFails(s) \/ bellhop_on_signal(s) \/ Kill(s)

Spec == Init /\ [][Next]_vars

-----------------------------------------------------------------------------
(* The installed configuration is what the traps would put back while they *)
(* are armed, and what is on disk otherwise.                               *)
Rendered ==
  {f \in [Places -> {Absent} \cup {Whole(h, g) : h \in BOOLEAN, g \in Gens \ {NoGen}}] :
     /\ f[1].what = "whole"
     /\ f[2].what = "whole" => f[2].gen = f[1].gen}
Checked == {f \in Rendered : f[1].gen.ok}
ArmedScripts == {s \in Scripts : Armed(s)}
InstalledNow ==
  IF ArmedScripts = {} THEN disk
  ELSE LET s == CHOOSE s \in ArmedScripts : TRUE
       IN [i \in Places |-> IF i \in Files THEN script[s].bak[i] ELSE disk[i]]

PC == INSTANCE ProxyConfig WITH installed <- InstalledNow, checks <- driver.validates

(* Applying a configuration implements ProxyConfig: whatever fails, and    *)
(* whenever, the configuration is replaced as a whole by one that passed   *)
(* the check, or not at all, unless the script was killed or its restore   *)
(* was stopped.                                                            *)
Swaps == PC!Spec

(* A proxy that watches its directory never loads half a file: a watched   *)
(* file is only ever renamed into place, by the write and by the restore.  *)
WatcherSeesWhole ==
  driver.watches => \A i \in Files : served[i] \notin Partial

(* An apply that reported success left its own generation on disk and in   *)
(* the proxy (which the driver without a check cannot tell).               *)
SuccessIsServed ==
  \A s \in Scripts :
    (At(s, "idle") /\ script[s].result = "ok") =>
      /\ \A i \in Files : disk[i].gen = script[s].gen
      /\ driver.validates => served = disk

(* No temporary file stays in the proxy's own directory when a script ends *)
(* other than by being killed.                                             *)
NoDebris == (\A s \in Scripts : At(s, "idle")) /\ ~torn => debris = {}

(* What an apply promises besides the swap itself: a watching proxy reads  *)
(* whole files, success means served, and nothing is left lying about.     *)
ApplyIsClean == WatcherSeesWhole /\ SuccessIsServed /\ NoDebris
=============================================================================
