---------------------------- MODULE GuestsProofs ----------------------------
(***************************************************************************)
(* Proofs about Guests, for any hosts, processes, requests and failures:   *)
(* what a command saves after its remote work undoes nobody else's save; a *)
(* guest and its copy never both run; a command destroys only its own      *)
(* machine; a recorded migration moved all of it.                          *)
(***************************************************************************)
EXTENDS Guests, TLAPS

-----------------------------------------------------------------------------
(* The inductive invariant. *)

JobFields == {"pc", "op", "name", "to", "mode", "body", "entry", "id", "gw", "inv", "archive",
              "todo", "found", "failed", "alone", "torn"}

Entries(guests) == \A e \in guests : DOMAIN e = EntryFields /\ e.place \in Places
Stored(inv) ==
  /\ inv = [guests |-> inv.guests, stores |-> inv.stores, setting |-> inv.setting]
  /\ Entries(inv.guests)

\* The commands that reach the steps on the way to a save.
OpAt(pc, op) ==
  /\ pc \in {"create", "agent", "nfs"} => op \in Creates
  /\ pc = "probe" => op \in Creates \cup {"edit-guest"}
  /\ pc = "grant" => op = "create-vm"
  /\ pc = "check" => op \in {"migrate-guest", "install-app"}
  /\ pc \in {"backup", "restore", "reconfigure", "start", "wait", "acl"} => op = "migrate-guest"
  /\ pc \in {"status", "stop", "destroy"} => op \in {"migrate-guest", "delete-guest"}
  /\ pc \in {"teardown", "dump"} => op = "delete-guest"
  /\ pc = "guest-power" => op = "guest-power"
  /\ pc \in {"unmount", "attach", "verify"} => op \in Mounts
  /\ pc \in {"set", "dns", "reboot"} => op = "set-guest-vpn"
  /\ pc = "scan" => op = "sync-inventory"
  /\ pc \in {"reread", "save"} =>
       op \in Creates \cup {"migrate-guest", "delete-guest", "set-guest-vpn", "edit-guest",
                            "set-config", "sync-inventory"}

Working(j) ==
  /\ DOMAIN j = JobFields /\ OpAt(j.pc, j.op)
  /\ DOMAIN j.entry = EntryFields /\ Stored(j.inv)
  /\ j.op = "sync-inventory" => Entries(j.found)
  /\ j.op \in Creates => j.entry.name = j.name /\ j.entry.place = j.to
  /\ j.op \in Creates \cup {"migrate-guest"} => j.to \in Places
  /\ j.op \in OnGuest => j.entry.place \in Places
  /\ j.op = "migrate-guest" => j.to # j.entry.place

Shapes ==
  /\ Stored(disk)
  /\ DOMAIN mem = Procs /\ \A p \in Procs : Stored(mem[p])
  /\ DOMAIN job = Actors /\ \A a \in Actors : job[a] = Idle \/ Working(job[a])

\* What a job is about to save differs from the stored inventory d only in
\* what the command is about.
Other(j, guests) == {e \in guests : e.name # j.name /\ (j.op \in Creates => e.place # j.to)}
Keeps(j, inv, d) ==
  /\ j.op # "set-config" => inv.setting = d.setting
  /\ j.op \notin {"edit-guest", "set-guest-vpn", "sync-inventory"} =>
       Other(j, inv.guests) = Other(j, d.guests) /\ inv.stores = d.stores
SavesAreFresh ==
  \A a \in Actors : At(a, "save") /\ ~job[a].torn => Keeps(job[a], job[a].inv, disk)

IInv == Shapes /\ SavesAreFresh

-----------------------------------------------------------------------------
(* Entries and inventories. *)

LEMMA EntryShape ==
  /\ EntryFields = {"name", "type", "place", "ip", "port", "sub", "manual", "authGroup", "authMode",
                    "callback", "bellhop", "proxy", "authentik", "gateway", "vpn", "creator"}
  /\ \A name, type, place : /\ DOMAIN Entry(name, type, place) = EntryFields
                            /\ Entry(name, type, place).name = name
                            /\ Entry(name, type, place).place = place
BY DEF EntryFields, Entry

\* Each way to record a command keeps the inventory an inventory, and changes
\* only what the command is about.
LEMMA MigrationKeeps ==
  ASSUME NEW j, Working(j), NEW d, Stored(d), j.op = "migrate-guest"
  PROVE  Stored(recordMigration(j, d)) /\ Keeps(j, recordMigration(j, d), d)
<1>. DEFINE Moved(e) == [e EXCEPT !.place = j.to, !.ip = j.to]
            guests == {IF e.name = j.name THEN Moved(e) ELSE e : e \in d.guests}
<1>1. recordMigration(j, d) = [d EXCEPT !.guests = guests]
  BY DEF recordMigration, Change1
<1>2. \A e \in d.guests : DOMAIN Moved(e) = EntryFields /\ Moved(e).name = e.name /\ Moved(e).place = j.to
  BY EntryShape DEF Stored, Entries
<1>. HIDE DEF Moved
<1>3. Entries(guests)
  BY <1>2 DEF Stored, Entries, Working
<1>4. Other(j, guests) = Other(j, d.guests)
  BY <1>2 DEF Other, Creates
<1>. QED  BY <1>1, <1>3, <1>4 DEF Stored, Keeps, Creates

LEMMA DeletionKeeps ==
  ASSUME NEW j, Working(j), NEW d, Stored(d), j.op = "delete-guest"
  PROVE  Stored(recordDeletion(j, d)) /\ Keeps(j, recordDeletion(j, d), d)
<1>. DEFINE guests == {e \in d.guests : e.name # j.name}
<1>1. recordDeletion(j, d) = [d EXCEPT !.guests = guests]
  BY DEF recordDeletion
<1>2. Entries(guests) /\ Other(j, guests) = Other(j, d.guests)
  BY DEF Stored, Entries, Other, Creates
<1>. QED  BY <1>1, <1>2 DEF Stored, Keeps, Creates

LEMMA CreationKeeps ==
  ASSUME NEW j, Working(j), NEW d, Stored(d), j.op \in Creates
  PROVE  /\ Stored(recordGateway(j, d)) /\ Keeps(j, recordGateway(j, d), d)
         /\ Stored(recordProvisionedGuest(j, d)) /\ Keeps(j, recordProvisionedGuest(j, d), d)
<1>0. DOMAIN j.entry = EntryFields /\ j.entry.name = j.name /\ j.entry.place = j.to /\ j.to \in Places
  BY DEF Working
<1>1. ASSUME NEW guests, Entries(guests), Other(j, guests) = Other(j, d.guests)
      PROVE  Stored([d EXCEPT !.guests = guests]) /\ Keeps(j, [d EXCEPT !.guests = guests], d)
  BY <1>1 DEF Stored, Keeps
<1>2. Entries(d.guests \cup {j.entry}) /\ Other(j, d.guests \cup {j.entry}) = Other(j, d.guests)
  BY <1>0 DEF Stored, Entries, Other
<1>3. Entries(upsertGuestEntry(d.guests, j.entry)) /\ Other(j, upsertGuestEntry(d.guests, j.entry)) = Other(j, d.guests)
  <2>. DEFINE new == j.entry
              Merge(old) == [old EXCEPT !.name = new.name, !.type = new.type, !.ip = new.ip,
                               !.sub = @ \cup new.sub, !.port = @ \/ new.port,
                               !.creator = IF new.creator = "none" THEN @ ELSE new.creator]
              at == {e \in d.guests : e.place = new.place}
  <2>1. upsertGuestEntry(d.guests, new) = IF at = {} THEN d.guests \cup {new} ELSE (d.guests \ at) \cup {Merge(e) : e \in at}
    BY DEF upsertGuestEntry
  <2>2. \A e \in at : DOMAIN Merge(e) = EntryFields /\ Merge(e).place = e.place
    BY EntryShape DEF Stored, Entries
  <2>. HIDE DEF Merge
  <2>3. CASE at = {}
    BY <1>2, <2>1, <2>3
  <2>4. CASE at # {}
    <3>1. Entries((d.guests \ at) \cup {Merge(e) : e \in at})
      BY <2>2 DEF Stored, Entries
    <3>2. Other(j, (d.guests \ at) \cup {Merge(e) : e \in at}) = Other(j, d.guests)
      BY <1>0, <2>2 DEF Other
    <3>. QED  BY <2>1, <2>4, <3>1, <3>2
  <2>. QED  BY <2>3, <2>4
<1>. QED  BY <1>1, <1>2, <1>3 DEF recordGateway, recordProvisionedGuest

\* An edit and set-guest-vpn bring the stored settings, and the guests they held.
LEMMA EditKeeps ==
  ASSUME NEW j, Working(j), NEW d, Stored(d), NEW held, Stored(held)
  PROVE  /\ j.op = "set-guest-vpn" => Stored(recordVpn(j, d, held)) /\ Keeps(j, recordVpn(j, d, held), d)
         /\ j.op = "edit-guest" => Stored(commitGuestEdit(j, d, held)) /\ Keeps(j, commitGuestEdit(j, d, held), d)
<1>1. ASSUME NEW guests, Entries(guests)
      PROVE  LET r == withFreshSettings(d, [held EXCEPT !.guests = guests])
             IN Stored(r) /\ r.setting = d.setting
  <2>. DEFINE h == [held EXCEPT !.guests = guests]
              r == withFreshSettings(d, h)
  <2>1. h = [guests |-> guests, stores |-> held.stores, setting |-> held.setting]
    BY DEF Stored
  <2>. HIDE DEF h
  <2>2. r = [guests |-> guests, stores |-> held.stores, setting |-> d.setting]
    BY <2>1 DEF withFreshSettings
  <2>. HIDE DEF r
  <2>3. Stored(r) /\ r.setting = d.setting
    BY <1>1, <2>2 DEF Stored
  <2>. QED  BY <2>3 DEF h, r
<1>2. ASSUME j.op = "set-guest-vpn" PROVE Stored(recordVpn(j, d, held)) /\ Keeps(j, recordVpn(j, d, held), d)
  <2>. DEFINE Routed(e) == [e EXCEPT !.vpn = j.mode]
              guests == {IF e.name = j.name THEN Routed(e) ELSE e : e \in held.guests}
  <2>1. recordVpn(j, d, held) = withFreshSettings(d, [held EXCEPT !.guests = guests])
    BY DEF recordVpn, Change1
  <2>2. \A e \in held.guests : DOMAIN Routed(e) = EntryFields /\ Routed(e).place = e.place
    BY EntryShape DEF Stored, Entries
  <2>. HIDE DEF Routed
  <2>3. Entries(guests)
    BY <2>2 DEF Stored, Entries
  <2>. HIDE DEF guests
  <2>. QED  BY <1>1, <1>2, <2>1, <2>3 DEF Keeps
<1>3. ASSUME j.op = "edit-guest" PROVE Stored(commitGuestEdit(j, d, held)) /\ Keeps(j, commitGuestEdit(j, d, held), d)
  <2>. DEFINE guests == {IF e.name = j.name THEN j.entry ELSE e : e \in j.inv.guests}
  <2>1. commitGuestEdit(j, d, held) = withFreshSettings(d, [held EXCEPT !.guests = guests])
    BY DEF commitGuestEdit, Change1
  <2>2. Entries(guests)
    BY <1>3 DEF Working, Stored, Entries, OnGuest
  <2>. HIDE DEF guests
  <2>. QED  BY <1>1, <1>3, <2>1, <2>2 DEF Keeps
<1>. QED  BY <1>2, <1>3

LEMMA SettingKeeps ==
  ASSUME NEW j, Working(j), NEW d, Stored(d), j.op = "set-config"
  PROVE  Stored(runSetConfig(d)) /\ Keeps(j, runSetConfig(d), d)
<1>1. runSetConfig(d).guests = d.guests /\ runSetConfig(d).stores = d.stores /\ Stored(runSetConfig(d))
  BY DEF runSetConfig, Stored
<1>. QED  BY <1>1 DEF Keeps

LEMMA ScanKeeps ==
  ASSUME NEW j, Working(j), NEW d, Stored(d), NEW held, Stored(held), j.op = "sync-inventory"
  PROVE  Stored(recordScan(j, d, held)) /\ Keeps(j, recordScan(j, d, held), d)
<1>. DEFINE guests == j.found \cup {e \in held.guests : e.place[1] \in j.failed}
            stores == (d.stores \cap j.failed) \cup (BackupHosts \ j.failed)
<1>1. recordScan(j, d, held) = [d EXCEPT !.guests = guests, !.stores = stores]
  BY DEF recordScan
<1>2. Entries(guests)
  BY DEF Working, Stored, Entries
<1>. HIDE DEF guests, stores
<1>3. Stored(recordScan(j, d, held)) /\ recordScan(j, d, held).setting = d.setting
  BY <1>1, <1>2 DEF Stored
<1>. QED  BY <1>3 DEF Keeps

\* Whatever a command is, what it derives from the stored inventory and the
\* one its process holds.
LEMMA DerivedKeeps ==
  ASSUME NEW a \in Actors, Working(job[a]), At(a, "reread"), NEW d, Stored(d), NEW held, Stored(held)
  PROVE  Stored(derived(a, d, held)) /\ Keeps(job[a], derived(a, d, held), d)
<1>1. job[a].op \in Creates \cup {"migrate-guest", "delete-guest", "set-guest-vpn", "edit-guest",
                                "set-config", "sync-inventory"}
  BY DEF Working, OpAt, At
<1>2. CASE job[a].op = "migrate-guest"
  BY <1>2, MigrationKeeps DEF derived, Creates
<1>3. CASE job[a].op = "delete-guest"
  BY <1>3, DeletionKeeps DEF derived, Creates
<1>4. CASE job[a].op = "deploy-vpn-gateway"
  BY <1>4, CreationKeeps DEF derived, Creates
<1>5. CASE job[a].op \in Creates \ {"deploy-vpn-gateway"}
  BY <1>5, CreationKeeps DEF derived, Creates
<1>6. CASE job[a].op = "set-guest-vpn"
  BY <1>6, EditKeeps DEF derived, Creates
<1>7. CASE job[a].op = "edit-guest"
  BY <1>7, EditKeeps DEF derived, Creates
<1>8. CASE job[a].op = "set-config"
  BY <1>8, SettingKeeps DEF derived, Creates
<1>9. CASE job[a].op = "sync-inventory"
  BY <1>9, ScanKeeps DEF derived, Creates
<1>. QED  BY <1>1, <1>2, <1>3, <1>4, <1>5, <1>6, <1>7, <1>8, <1>9

-----------------------------------------------------------------------------
(* Steps that save nothing. *)

Same(r, j) ==
  /\ r.op = j.op /\ r.name = j.name /\ r.to = j.to /\ r.entry = j.entry
  /\ r.id = j.id /\ r.alone = j.alone
Moves(a) == \E r : Set(a, r) /\ (r = Idle \/ (Working(r) /\ r.pc # "save" /\ Same(r, job[a])))

LEMMA MoveKeeps ==
  ASSUME IInv, NEW a \in Actors, Moves(a), UNCHANGED <<disk, mem>>
  PROVE  IInv'
<1>1. PICK r : Set(a, r) /\ (r = Idle \/ (Working(r) /\ r.pc # "save"))
  BY DEF Moves
<1>2. DOMAIN job' = Actors /\ \A b \in Actors : job'[b] = IF b = a THEN r ELSE job[b]
  BY <1>1 DEF Set, IInv, Shapes
<1>3. r.pc # "save"
  BY <1>1 DEF Idle
<1>4. Shapes'
  BY <1>1, <1>2 DEF IInv, Shapes
<1>5. SavesAreFresh'
  BY <1>2, <1>3 DEF IInv, SavesAreFresh, At
<1>. QED  BY <1>4, <1>5 DEF IInv

LEMMA AtWork ==
  ASSUME IInv, NEW a \in Actors, ~At(a, "idle")
  PROVE  Working(job[a])
BY DEF IInv, Shapes, At, Idle

\* A step to another place in the command.
LEMMA GoMoves ==
  ASSUME IInv, NEW a \in Actors, ~At(a, "idle"),
         End(a) \/ \E pc : Go(a, pc) /\ pc # "save" /\ OpAt(pc, job[a].op)
  PROVE  Moves(a)
<1>1. CASE End(a)
  BY <1>1 DEF End, Moves
<1>2. ASSUME NEW pc, Go(a, pc), pc # "save", OpAt(pc, job[a].op) PROVE Moves(a)
  <2>. DEFINE r == [job[a] EXCEPT !.pc = pc]
  <2>1. Working(job[a])
    BY AtWork
  <2>2. /\ DOMAIN r = JobFields /\ r.pc = pc
        /\ \A f \in JobFields \ {"pc"} : r[f] = job[a][f]
    BY <2>1 DEF Working, JobFields
  <2>3. /\ r.op = job[a].op /\ r.entry = job[a].entry /\ r.inv = job[a].inv /\ r.found = job[a].found
        /\ r.name = job[a].name /\ r.to = job[a].to
    BY <2>2 DEF JobFields
  <2>. HIDE DEF r
  <2>4. Working(r)
    BY <1>2, <2>1, <2>2, <2>3 DEF Working
  <2>5. Set(a, r)
    BY <1>2 DEF Go, r
  <2>6. Same(r, job[a])
    BY <2>2 DEF Same, JobFields
  <2>. QED  BY <1>2, <2>2, <2>4, <2>5, <2>6 DEF Moves
<1>. QED  BY <1>1, <1>2

\* The steps of a migration.
LEMMA MigrateMoves ==
  ASSUME IInv, NEW a \in Actors, Migrate(a)
  PROVE  Moves(a) /\ UNCHANGED <<disk, mem>>
<1>1. UNCHANGED <<disk, mem>> /\ ~At(a, "idle")
  BY DEF Migrate, checkVmidAvailable, Backup, SourceStatus, StopSource, Stop, Restore, reconfigureGuestIp, StartCopy,
         waitForGuestRunning, copyGuestAcls, DestroySource, Remote, Look, At
<1>2. Working(job[a])
  BY <1>1, AtWork
<1>3. CASE checkVmidAvailable(a)
  <2>1. job[a].op \in {"migrate-guest", "install-app"}
    BY <1>2, <1>3 DEF checkVmidAvailable, Working, OpAt, At
  <2>2. IF job[a].op \in Creates THEN End(a) \/ Go(a, "create") ELSE End(a) \/ Go(a, "backup")
    BY <1>1, <1>3 DEF checkVmidAvailable, Remote, Look, Doing, At
  <2>3. IF job[a].op \in Creates THEN OpAt("create", job[a].op) ELSE OpAt("backup", job[a].op)
    BY <2>1 DEF OpAt, Creates
  <2>. QED  BY <1>1, <2>2, <2>3, GoMoves
<1>4. CASE SourceStatus(a) \/ StopSource(a)
  <2>1. job[a].op = "migrate-guest" /\ (End(a) \/ \E pc \in {"stop", "restore"} : Go(a, pc))
    BY <1>4 DEF SourceStatus, StopSource, Stop, Remote, Doing
  <2>2. \A pc \in {"stop", "restore"} : pc # "save" /\ OpAt(pc, job[a].op)
    BY <2>1 DEF OpAt
  <2>. QED  BY <1>1, <2>1, <2>2, GoMoves
<1>5. CASE Restore(a) \/ reconfigureGuestIp(a) \/ StartCopy(a) \/ waitForGuestRunning(a)
  <2>1. job[a].op = "migrate-guest"
    BY <1>2, <1>5 DEF Restore, reconfigureGuestIp, StartCopy, waitForGuestRunning, Working, OpAt, At
  <2>2. End(a) \/ \E pc \in {"reconfigure", "start", "wait", "acl"} : Go(a, pc)
    BY <1>5 DEF Restore, reconfigureGuestIp, StartCopy, waitForGuestRunning, Remote
  <2>3. \A pc \in {"reconfigure", "start", "wait", "acl"} : pc # "save" /\ OpAt(pc, job[a].op)
    BY <2>1 DEF OpAt
  <2>. QED  BY <1>1, <2>2, <2>3, GoMoves
<1>6. CASE DestroySource(a)
  BY <1>1, <1>6, GoMoves DEF DestroySource, Remote, Doing, OpAt
<1>7. CASE Backup(a)
  <2>0. job[a].op = "migrate-guest"
    BY <1>2, <1>7 DEF Backup, Working, OpAt, At
  <2>1. End(a) \/ \E archive : Set(a, [job[a] EXCEPT !.pc = "status", !.archive = archive])
    BY <1>7 DEF Backup, Remote
  <2>2. ASSUME NEW archive, Set(a, [job[a] EXCEPT !.pc = "status", !.archive = archive]) PROVE Moves(a)
    <3>. DEFINE r == [job[a] EXCEPT !.pc = "status", !.archive = archive]
    <3>1. /\ DOMAIN r = JobFields /\ r.pc = "status"
          /\ \A f \in JobFields \ {"pc", "archive"} : r[f] = job[a][f]
      BY <1>2 DEF Working, JobFields
    <3>. HIDE DEF r
    <3>2. OpAt("status", job[a].op)
      BY <2>0 DEF OpAt
    <3>3. Working(r)
      BY <1>2, <3>1, <3>2 DEF Working, JobFields
    <3>4. Set(a, r)
      BY <2>2 DEF r
    <3>5. Same(r, job[a])
      BY <3>1 DEF Same, JobFields
    <3>. QED  BY <3>1, <3>3, <3>4, <3>5 DEF Moves
  <2>. QED  BY <1>1, <2>1, <2>2, GoMoves
<1>8. CASE copyGuestAcls(a)
  <2>. DEFINE r == [job[a] EXCEPT !.pc = "destroy", !.failed = {"acl"}]
  <2>1. Go(a, "destroy") \/ Set(a, r)
    BY <1>8 DEF copyGuestAcls, Remote
  <2>2. /\ DOMAIN r = JobFields /\ r.pc = "destroy"
        /\ \A f \in JobFields \ {"pc", "failed"} : r[f] = job[a][f]
    BY <1>2 DEF Working, JobFields
  <2>. HIDE DEF r
  <2>3. job[a].op = "migrate-guest"
    BY <1>2, <1>8 DEF copyGuestAcls, Working, OpAt, At
  <2>4. OpAt("destroy", job[a].op)
    BY <2>3 DEF OpAt
  <2>5. Working(r) /\ Same(r, job[a])
    BY <1>2, <2>2, <2>4 DEF Working, Same, JobFields
  <2>. QED  BY <1>1, <2>1, <2>2, <2>4, <2>5, GoMoves DEF Moves
<1>. QED  BY <1>1, <1>3, <1>4, <1>5, <1>6, <1>7, <1>8 DEF Migrate

\* The steps of a deletion, and of a creation.
LEMMA DeleteMoves ==
  ASSUME IInv, NEW a \in Actors, Delete(a)
  PROVE  Moves(a) /\ UNCHANGED <<disk, mem>>
<1>1. UNCHANGED <<disk, mem>> /\ ~At(a, "idle")
  BY DEF Delete, Teardown, GuestStatus, StopGuest, Stop, Dump, DestroyGuest, Remote, Look, At
<1>2. CASE DestroyGuest(a)
  BY <1>1, <1>2, GoMoves DEF DestroyGuest, Remote, Doing, OpAt
<1>3. CASE Teardown(a) \/ GuestStatus(a) \/ StopGuest(a) \/ Dump(a)
  <2>1. job[a].op = "delete-guest"
    <3>1. CASE Teardown(a) \/ Dump(a)
      <4>1. Working(job[a])
        BY <1>1, AtWork
      <4>. QED  BY <3>1, <4>1 DEF Teardown, Dump, Working, OpAt, At
    <3>. QED  BY <1>3, <3>1 DEF GuestStatus, StopGuest, Doing
  <2>2. End(a) \/ \E pc \in {"status", "stop", "dump", "destroy"} : Go(a, pc)
    BY <1>3 DEF Teardown, GuestStatus, StopGuest, Stop, Dump, BeforeDestroy, Remote, Look
  <2>3. \A pc \in {"status", "stop", "dump", "destroy"} : pc # "save" /\ OpAt(pc, job[a].op)
    BY <2>1 DEF OpAt
  <2>. QED  BY <1>1, <2>2, <2>3, GoMoves
<1>. QED  BY <1>1, <1>2, <1>3 DEF Delete

LEMMA CreateMoves ==
  ASSUME IInv, NEW a \in Actors, Create(a)
  PROVE  Moves(a) /\ UNCHANGED <<disk, mem>>
<1>1. UNCHANGED <<disk, mem>> /\ ~At(a, "idle")
  BY DEF Create, CreateGuest, ProvisionAgent, AttachNew, Probe, grantCreatorAccess, Remote, Look, At
<1>2. /\ Working(job[a])
      /\ job[a].pc \in {"create", "agent", "nfs"} => job[a].op \in Creates
      /\ job[a].pc = "probe" => job[a].op \in Creates \cup {"edit-guest"}
  BY <1>1, AtWork DEF Working, OpAt
<1>3. record(job[a]) \in {"probe", "reread"}
  BY DEF record
<1>4. CASE CreateGuest(a)
  <2>1. job[a].op \in Creates
    BY <1>2, <1>4 DEF CreateGuest, At
  <2>2. End(a) \/ \E pc \in {"nfs", "probe", "reread", "agent"} : Go(a, pc)
    <3>1. /\ createLxc(job[a]).next \in {"nfs", "probe", "reread"} /\ createVm(job[a]).next \in {"probe", "reread"}
          /\ installApp(job[a]).next \in {"nfs", "probe", "reread"} /\ deployVpnGateway(job[a]).next = "agent"
      BY <1>3 DEF createLxc, createVm, installApp, deployVpnGateway
    <3>. QED  BY <1>4, <2>1, <3>1 DEF CreateGuest, Remote, Creates
  <2>3. \A pc \in {"nfs", "probe", "reread", "agent"} : pc # "save" /\ OpAt(pc, job[a].op)
    BY <2>1 DEF OpAt
  <2>. QED  BY <1>1, <2>2, <2>3, GoMoves
<1>5. CASE ProvisionAgent(a) \/ AttachNew(a) \/ Probe(a)
  <2>1. job[a].op \in Creates \cup {"edit-guest"}
    BY <1>2, <1>5 DEF ProvisionAgent, AttachNew, Probe, At
  <2>2. End(a) \/ Go(a, "reread") \/ (Go(a, "probe") /\ At(a, "nfs"))
    BY <1>3, <1>5 DEF ProvisionAgent, AttachNew, Probe, Remote, Look
  <2>3. OpAt("reread", job[a].op) /\ (At(a, "nfs") => OpAt("probe", job[a].op))
    BY <1>2, <2>1 DEF OpAt, At
  <2>. QED  BY <1>1, <2>2, <2>3, GoMoves
<1>6. CASE grantCreatorAccess(a)
  BY <1>1, <1>6, GoMoves DEF grantCreatorAccess, Remote
<1>. QED  BY <1>1, <1>4, <1>5, <1>6 DEF Create

\* What a host lists are entries.
LEMMA ListedAreEntries ==
  ASSUME NEW h, NEW guests, Entries(guests)
  PROVE  Entries(Listed(h, guests))
<1>. SUFFICES ASSUME NEW e \in Listed(h, guests) PROVE DOMAIN e = EntryFields /\ e.place \in Places
  BY DEF Entries
<1>1. PICK p \in {q \in Places : q[1] = h /\ Has(q)} :
        \/ \E ip : e = [Entry(pve[p].name, pve[p].type, p) EXCEPT !.ip = ip]
        \/ \E g \in guests : \E ip, type : e = [g EXCEPT !.type = type, !.ip = ip]
  BY ZenonT(60) DEF Listed
<1>2. ASSUME NEW ip, e = [Entry(pve[p].name, pve[p].type, p) EXCEPT !.ip = ip]
      PROVE  DOMAIN e = EntryFields /\ e.place = p
  BY <1>2, EntryShape
<1>3. ASSUME NEW g \in guests, NEW ip, NEW type, e = [g EXCEPT !.type = type, !.ip = ip]
      PROVE  DOMAIN e = EntryFields /\ e.place \in Places
  BY <1>3, EntryShape DEF Entries
<1>. QED  BY <1>1, <1>2, <1>3

\* The steps of the other commands.
LEMMA ChangeMoves ==
  ASSUME IInv, NEW a \in Actors, Change(a)
  PROVE  Moves(a) /\ UNCHANGED <<disk, mem>>
<1>1. UNCHANGED <<disk, mem>> /\ ~At(a, "idle")
  BY DEF Change, GuestPower, ReadNet0, SetNet0Gateway, ConfigureDns, Reboot, ReadMounts, Unmount, AttachMount,
         Verify, ConfigureGuest, ScanHost, Remote, Look, At
<1>2. /\ Working(job[a])
      /\ job[a].pc \in {"set", "dns", "reboot"} => job[a].op = "set-guest-vpn"
      /\ job[a].pc = "scan" => job[a].op = "sync-inventory"
  BY <1>1, AtWork DEF Working, OpAt
<1>3. CASE GuestPower(a) \/ Verify(a) \/ ConfigureGuest(a)
  BY <1>1, <1>3, GoMoves DEF GuestPower, Verify, ConfigureGuest, Remote, Look
<1>7. CASE Unmount(a) \/ AttachMount(a)
  <2>1. job[a].op \in Mounts
    BY <1>2, <1>7 DEF Unmount, AttachMount, Working, OpAt, At
  <2>2. \A pc \in {"attach", "verify"} : pc # "save" /\ OpAt(pc, job[a].op)
    BY <2>1 DEF OpAt
  <2>3. \E pc \in {"attach", "verify"} : Go(a, pc)
    BY <1>7 DEF Unmount, AttachMount, Remote
  <2>. QED  BY <1>1, <2>2, <2>3, GoMoves
<1>4. CASE ReadNet0(a) \/ SetNet0Gateway(a) \/ ConfigureDns(a) \/ Reboot(a)
  <2>1. job[a].op = "set-guest-vpn"
    BY <1>2, <1>4 DEF ReadNet0, SetNet0Gateway, ConfigureDns, Reboot, Doing, At
  <2>2. \A pc \in {"set", "dns", "reboot", "reread"} : pc # "save" /\ OpAt(pc, job[a].op)
    BY <2>1 DEF OpAt
  <2>3. End(a) \/ \E pc \in {"set", "dns", "reboot", "reread"} : Go(a, pc)
    BY <1>4 DEF ReadNet0, SetNet0Gateway, ConfigureDns, Reboot, Remote
  <2>. QED  BY <1>1, <2>2, <2>3, GoMoves
<1>5. CASE ReadMounts(a)
  <2>1. End(a) \/ \E pc \in {"unmount", "attach"} : \E found : Set(a, [job[a] EXCEPT !.pc = pc, !.found = found])
    BY <1>5 DEF ReadMounts, Remote
  <2>2. job[a].op \in Mounts /\ job[a].op # "sync-inventory"
    BY <1>5 DEF ReadMounts, Doing, Mounts
  <2>3. ASSUME NEW pc \in {"unmount", "attach"}, NEW found, Set(a, [job[a] EXCEPT !.pc = pc, !.found = found])
        PROVE  Moves(a)
    <3>. DEFINE r == [job[a] EXCEPT !.pc = pc, !.found = found]
    <3>1. /\ DOMAIN r = JobFields /\ r.pc = pc
          /\ \A f \in JobFields \ {"pc", "found"} : r[f] = job[a][f]
      BY <1>2 DEF Working, JobFields
    <3>. HIDE DEF r
    <3>2. OpAt(pc, job[a].op)
      BY <2>2 DEF OpAt
    <3>3. Working(r)
      BY <1>2, <2>2, <3>1, <3>2 DEF Working, JobFields
    <3>4. Set(a, r)
      BY <2>3 DEF r
    <3>5. Same(r, job[a])
      BY <3>1 DEF Same, JobFields
    <3>. QED  BY <3>1, <3>3, <3>4, <3>5 DEF Moves
  <2>. QED  BY <1>1, <2>1, <2>3, GoMoves
<1>6. CASE ScanHost(a)
  <2>1. At(a, "scan") /\ job[a].op = "sync-inventory"
    BY <1>2, <1>6 DEF ScanHost, At
  <2>. DEFINE h == CHOOSE x \in job[a].todo : TRUE
              rest == job[a].todo \ {h}
              pc == IF rest = {} THEN "reread" ELSE "scan"
              next == [job[a] EXCEPT !.todo = rest, !.pc = pc]
  <2>2. \/ Set(a, [next EXCEPT !.found = @ \cup Listed(h, mem[ProcOf(a)].guests)])
        \/ Set(a, [next EXCEPT !.failed = @ \cup {h}])
    BY <1>6 DEF ScanHost, Look, Remote
  <2>. HIDE DEF h
  <2>3. Working(next) /\ next.pc # "save" /\ next.op = "sync-inventory" /\ next.pc = pc /\ Same(next, job[a])
    BY <1>2, <2>1 DEF Working, JobFields, OpAt, Same
  <2>. HIDE DEF next
  <2>4. Entries(Listed(h, mem[ProcOf(a)].guests))
    BY ListedAreEntries DEF IInv, Shapes, Stored, Procs
  <2>5. CASE Set(a, [next EXCEPT !.found = @ \cup Listed(h, mem[ProcOf(a)].guests)])
    <3>. DEFINE r == [next EXCEPT !.found = @ \cup Listed(h, mem[ProcOf(a)].guests)]
    <3>1. /\ DOMAIN r = JobFields /\ r.pc = next.pc /\ r.op = next.op /\ r.entry = next.entry
          /\ r.inv = next.inv /\ r.name = next.name /\ r.to = next.to /\ r.id = next.id /\ r.alone = next.alone
          /\ r.found = next.found \cup Listed(h, mem[ProcOf(a)].guests)
      BY <2>3 DEF Working, JobFields
    <3>. HIDE DEF r
    <3>2. Working(r)
      BY <2>3, <2>4, <3>1 DEF Working, Entries
    <3>3. Set(a, r)
      BY <2>5 DEF r
    <3>. QED  BY <1>1, <2>3, <3>1, <3>2, <3>3 DEF Moves, Same
  <2>6. CASE Set(a, [next EXCEPT !.failed = @ \cup {h}])
    <3>. DEFINE r == [next EXCEPT !.failed = @ \cup {h}]
    <3>1. /\ DOMAIN r = JobFields /\ r.pc = next.pc /\ r.op = next.op /\ r.entry = next.entry
          /\ r.inv = next.inv /\ r.name = next.name /\ r.to = next.to /\ r.found = next.found
          /\ r.id = next.id /\ r.alone = next.alone
      BY <2>3 DEF Working, JobFields
    <3>. HIDE DEF r
    <3>2. Working(r)
      BY <2>3, <3>1 DEF Working
    <3>3. Set(a, r)
      BY <2>6 DEF r
    <3>. QED  BY <1>1, <2>3, <3>1, <3>2, <3>3 DEF Moves, Same
  <2>. QED  BY <1>1, <2>2, <2>5, <2>6
<1>. QED  BY <1>1, <1>3, <1>4, <1>5, <1>6, <1>7 DEF Change

-----------------------------------------------------------------------------
(* Steps that read the stored inventory or save one. *)

LEMMA BeginKeeps ==
  ASSUME IInv, NEW a \in Actors, NEW r \in Requests, Begin(a, r)
  PROVE  IInv'
<1>. DEFINE e == target(disk, r)
            id == IF r.op \in OnGuest /\ r.name \in Names(disk.guests)
                  THEN pve[Guest(disk.guests, r.name).place].id ELSE NewId
            new == [pc |-> firstStep(r, e), op |-> r.op, name |-> r.name, to |-> r.to,
                    mode |-> r.mode, body |-> r.body, entry |-> e, id |-> id,
                    gw |-> gatewayIp(disk, r), inv |-> disk, archive |-> NoArchive,
                    todo |-> Hosts, found |-> {}, failed |-> {},
                    alone |-> Meet(a, r, e) = {}, torn |-> FALSE]
<1>0. Shapes /\ SavesAreFresh /\ Stored(disk) /\ DOMAIN job = Actors
  BY DEF IInv, Shapes
<1>1. ~refuses(disk, r) /\ UNCHANGED disk /\ mem' = [mem EXCEPT ![ProcOf(a)] = disk]
  BY DEF Begin, refreshInventory, loadInventory
<1>2. /\ DOMAIN job' = Actors
      /\ \A b \in Actors \ {a} : job'[b] = job[b] \/ (b \in Meet(a, r, e) /\ job'[b] = [job[b] EXCEPT !.alone = FALSE])
  BY DEF Begin, refreshInventory, loadInventory
<1>3. job'[a] = new
  <2>1. a \notin Meet(a, r, e)
    BY DEF Meet
  <2>. QED  BY <2>1 DEF Begin, refreshInventory, loadInventory
<1>4. r.op \in Ops
  BY RequestsAssumption
<1>5. /\ DOMAIN e = EntryFields
      /\ r.op \in Creates => e.name = r.name /\ e.place = r.to
      /\ r.op \in OnGuest => e.place \in Places
  <2>1. CASE r.op \in OnGuest
    <3>1. r.name \in Names(disk.guests)
      BY <1>1, <2>1 DEF refuses
    <3>2. Guest(disk.guests, r.name) \in disk.guests
      BY <3>1 DEF Names, Guest
    <3>3. DOMAIN Guest(disk.guests, r.name) = EntryFields /\ Guest(disk.guests, r.name).place \in Places
      BY <1>0, <3>2 DEF Stored, Entries
    <3>4. e = IF r.op = "edit-guest" THEN applyGuestEdits(Guest(disk.guests, r.name), r.body)
              ELSE Guest(disk.guests, r.name)
      BY <2>1 DEF target, OnGuest
    <3>5. r.op \notin Creates
      BY <2>1 DEF OnGuest, Creates
    <3>6. r.op = "edit-guest" => "place" \notin DOMAIN r.body
      BY RequestsAssumption
    <3>. QED  BY <3>3, <3>4, <3>5, <3>6, EntryShape DEF applyGuestEdits
  <2>2. CASE r.op \notin OnGuest
    <3>1. e = [Entry(r.name, r.type, r.to) EXCEPT !.gateway = (r.op = "deploy-vpn-gateway"),
                 !.sub = r.body.sub, !.port = r.op = "install-app", !.creator = r.mode]
      BY <2>2 DEF target, OnGuest
    <3>. QED  BY <2>2, <3>1, EntryShape
  <2>. QED  BY <2>1, <2>2
<1>6. firstStep(r, e) # "save" /\ OpAt(firstStep(r, e), r.op)
  BY <1>4 DEF firstStep, OpAt, Ops, Creates, OnGuest, Mounts
<1>. HIDE DEF e, id
<1>7. Working(new) /\ new.pc # "save"
  <2>1. /\ DOMAIN new = JobFields /\ new.pc = firstStep(r, e) /\ new.op = r.op /\ new.entry = e
        /\ new.inv = disk /\ new.found = {} /\ new.name = r.name /\ new.to = r.to
    BY DEF JobFields
  <2>. HIDE DEF new
  <2>2. r.op \in Creates \cup {"migrate-guest"} => r.to \in Places
    BY <1>1 DEF refuses, migrateRefuses, resolves, OnGuest
  <2>3. r.op = "migrate-guest" => r.to # e.place
    BY <1>1 DEF e, refuses, migrateRefuses, target, OnGuest
  <2>. QED  BY <1>0, <1>5, <1>6, <2>1, <2>2, <2>3 DEF Working, Entries
<1>. HIDE DEF new
<1>8. ASSUME NEW b \in Actors \ {a}
      PROVE  /\ job'[b] = Idle \/ Working(job'[b])
             /\ At(b, "save")' /\ ~job'[b].torn => Keeps(job'[b], job'[b].inv, disk)
  <2>1. CASE job'[b] = job[b]
    BY <1>0, <2>1 DEF Shapes, SavesAreFresh, At
  <2>2. CASE b \in Meet(a, r, e) /\ job'[b] = [job[b] EXCEPT !.alone = FALSE]
    <3>1. Working(job[b])
      BY <1>0, <2>2 DEF Meet, Shapes, Idle
    <3>2. /\ DOMAIN job'[b] = JobFields /\ job'[b].pc = job[b].pc /\ job'[b].op = job[b].op
          /\ job'[b].entry = job[b].entry /\ job'[b].inv = job[b].inv /\ job'[b].name = job[b].name
          /\ job'[b].to = job[b].to /\ job'[b].found = job[b].found /\ job'[b].torn = job[b].torn
      BY <2>2, <3>1 DEF Working, JobFields
    <3>3. Working(job'[b])
      BY <3>1, <3>2 DEF Working
    <3>4. At(b, "save")' /\ ~job'[b].torn => Keeps(job'[b], job'[b].inv, disk)
      BY <1>0, <3>2 DEF SavesAreFresh, At, Keeps, Other
    <3>. QED  BY <3>3, <3>4
  <2>. QED  BY <1>2, <2>1, <2>2
<1>9. Shapes'
  <2>1. DOMAIN mem' = Procs /\ \A p \in Procs : mem'[p] \in {mem[p], disk}
    BY <1>0, <1>1 DEF Shapes
  <2>2. Stored(disk)' /\ \A p \in Procs : Stored(mem'[p])
    BY <1>0, <1>1, <2>1 DEF Shapes
  <2>3. \A b \in Actors : job'[b] = Idle \/ Working(job'[b])
    BY <1>3, <1>7, <1>8
  <2>. QED  BY <1>2, <2>1, <2>2, <2>3 DEF Shapes
<1>10. SavesAreFresh'
  <2>1. ~At(a, "save")'
    BY <1>3, <1>7 DEF At
  <2>. QED  BY <1>1, <1>8, <2>1 DEF SavesAreFresh
<1>. QED  BY <1>9, <1>10 DEF IInv

LEMMA RereadKeeps ==
  ASSUME IInv, NEW a \in Actors, Reread(a)
  PROVE  IInv'
<1>. DEFINE new == derived(a, disk, mem[ProcOf(a)])
            r == [job[a] EXCEPT !.pc = "save", !.inv = new]
<1>0. Shapes /\ SavesAreFresh /\ Stored(disk) /\ DOMAIN job = Actors /\ Stored(mem[ProcOf(a)]) /\ ProcOf(a) \in Procs
  BY DEF IInv, Shapes, Procs
<1>1. At(a, "reread") /\ UNCHANGED disk /\ Set(a, r) /\ Working(job[a])
  BY AtWork DEF Reread, At
<1>2. Stored(new) /\ Keeps(job[a], new, disk)
  BY <1>0, <1>1, DerivedKeeps
<1>. HIDE DEF new
<1>3. /\ DOMAIN r = JobFields /\ r.pc = "save" /\ r.op = job[a].op /\ r.inv = new /\ r.entry = job[a].entry
      /\ r.name = job[a].name /\ r.to = job[a].to /\ r.found = job[a].found
  BY <1>1 DEF Working, JobFields
<1>. HIDE DEF r
<1>4. OpAt("save", job[a].op)
  BY <1>1 DEF Working, OpAt, At
<1>5. Working(r) /\ Keeps(r, r.inv, disk)
  BY <1>1, <1>2, <1>3, <1>4 DEF Working, Keeps, Other
<1>6. DOMAIN job' = Actors /\ \A b \in Actors : job'[b] = IF b = a THEN r ELSE job[b]
  BY <1>0, <1>1 DEF Set
<1>7. DOMAIN mem' = Procs /\ \A p \in Procs : mem'[p] \in {mem[p], disk}
  BY <1>0 DEF Reread, Shapes
<1>8. Shapes'
  BY <1>0, <1>1, <1>5, <1>6, <1>7 DEF Shapes
<1>9. SavesAreFresh'
  BY <1>0, <1>1, <1>5, <1>6 DEF SavesAreFresh, At
<1>. QED  BY <1>8, <1>9 DEF IInv

\* A save marks every other one that is under way.
LEMMA SaveKeeps ==
  ASSUME IInv, NEW a \in Actors, saveInventory(a)
  PROVE  IInv'
<1>. DEFINE inv == job[a].inv
            ok == saveable(inv.guests)
<1>0. Shapes /\ SavesAreFresh /\ Stored(disk) /\ DOMAIN job = Actors /\ ProcOf(a) \in Procs
  BY DEF IInv, Shapes, Procs
<1>1. At(a, "save") /\ Working(job[a]) /\ Stored(inv)
  BY AtWork DEF saveInventory, At, Working
<1>2. disk' = IF ok THEN inv ELSE disk
  BY DEF saveInventory
<1>3. DOMAIN mem' = Procs /\ \A p \in Procs : Stored(mem'[p])
  <2>1. mem' = mem \/ \E x : mem' = [mem EXCEPT ![ProcOf(a)] = [inv EXCEPT !.setting = x]]
    BY DEF saveInventory
  <2>2. \A x : Stored([inv EXCEPT !.setting = x])
    BY <1>1 DEF Stored
  <2>. QED  BY <1>0, <2>1, <2>2 DEF Shapes
<1>4. /\ DOMAIN job' = Actors
      /\ \/ job'[a] = Idle
         \/ \E pc \in {"push", "grant"} :
              job'[a] = [job[a] EXCEPT !.pc = pc] /\ (pc = "grant" => job[a].op = "create-vm")
      /\ \A b \in Actors \ {a} : job'[b] = IF At(b, "save") /\ ok THEN [job[b] EXCEPT !.torn = TRUE] ELSE job[b]
  BY DEF saveInventory
<1>5. (job'[a] = Idle \/ Working(job'[a])) /\ job'[a].pc # "save"
  <2>1. ASSUME NEW pc \in {"push", "grant"}, job'[a] = [job[a] EXCEPT !.pc = pc], pc = "grant" => job[a].op = "create-vm"
        PROVE  Working(job'[a]) /\ job'[a].pc = pc
    <3>1. /\ DOMAIN job'[a] = JobFields /\ job'[a].pc = pc
          /\ \A f \in JobFields \ {"pc"} : job'[a][f] = job[a][f]
      BY <1>1, <2>1 DEF Working, JobFields
    <3>2. OpAt(pc, job[a].op)
      BY <2>1 DEF OpAt
    <3>. QED  BY <1>1, <3>1, <3>2 DEF Working, JobFields
  <2>. QED  BY <1>4, <2>1 DEF Idle
<1>6. ASSUME NEW b \in Actors \ {a}
      PROVE  /\ job'[b] = Idle \/ Working(job'[b])
             /\ At(b, "save")' /\ ~job'[b].torn => Keeps(job'[b], job'[b].inv, disk')
  <2>1. CASE At(b, "save") /\ ok
    <3>1. Working(job[b]) /\ job'[b] = [job[b] EXCEPT !.torn = TRUE]
      BY <1>4, <2>1, AtWork DEF At
    <3>2. /\ DOMAIN job'[b] = JobFields /\ job'[b].pc = job[b].pc /\ job'[b].op = job[b].op
          /\ job'[b].entry = job[b].entry /\ job'[b].inv = job[b].inv /\ job'[b].name = job[b].name
          /\ job'[b].to = job[b].to /\ job'[b].found = job[b].found /\ job'[b].torn
      BY <3>1 DEF Working, JobFields
    <3>. QED  BY <3>1, <3>2 DEF Working
  <2>2. CASE ~(At(b, "save") /\ ok)
    BY <1>0, <1>2, <1>4, <2>2 DEF Shapes, SavesAreFresh, At
  <2>. QED  BY <2>1, <2>2
<1>7. Shapes'
  <2>1. \A b \in Actors : job'[b] = Idle \/ Working(job'[b])
    BY <1>5, <1>6
  <2>. QED  BY <1>0, <1>1, <1>2, <1>3, <1>4, <2>1 DEF Shapes
<1>8. SavesAreFresh'
  BY <1>5, <1>6 DEF SavesAreFresh, At
<1>. QED  BY <1>7, <1>8 DEF IInv

LEMMA InvInit == Init => IInv
<1>. SUFFICES ASSUME Init PROVE IInv
  OBVIOUS
<1>1. PICK s \in Starts : disk = [guests |-> s.guests, stores |-> BackupHosts, setting |-> 0]
  BY DEF Init
<1>2. Stored(disk)
  BY <1>1, StartsAssumption DEF Stored, Entries
<1>3. mem = [p \in Procs |-> disk] /\ job = [a \in Actors |-> Idle]
  BY DEF Init
<1>4. Shapes
  BY <1>2, <1>3 DEF Shapes
<1>5. SavesAreFresh
  BY <1>3 DEF SavesAreFresh, At, Idle
<1>. QED  BY <1>4, <1>5 DEF IInv

LEMMA InvNext == IInv /\ [Next]_vars => IInv'
<1>. SUFFICES ASSUME IInv, [Next]_vars PROVE IInv'
  OBVIOUS
<1>1. CASE UNCHANGED <<disk, mem, job>>
  BY <1>1 DEF IInv, Shapes, SavesAreFresh, At
<1>2. ASSUME NEW a \in Actors, NEW r \in Requests, Begin(a, r) PROVE IInv'
  BY <1>2, BeginKeeps
<1>3. ASSUME NEW a \in Actors, Migrate(a) \/ Delete(a) \/ Create(a) \/ Change(a) PROVE IInv'
  BY <1>3, MigrateMoves, DeleteMoves, CreateMoves, ChangeMoves, MoveKeeps
<1>4. ASSUME NEW a \in Actors, Record(a) PROVE IInv'
  <2>1. CASE Push(a)
    <3>1. /\ ~At(a, "idle") /\ UNCHANGED <<disk, mem>>
          /\ End(a) \/ (Go(a, "grant") /\ job[a].op = "create-vm")
      BY <2>1 DEF Push, Look, Remote, At
    <3>2. job[a].op = "create-vm" => OpAt("grant", job[a].op)
      BY DEF OpAt
    <3>. QED  BY <3>1, <3>2, GoMoves, MoveKeeps
  <2>. QED  BY <1>4, <2>1, RereadKeeps, SaveKeeps DEF Record
<1>5. CASE WebRequest
  <2>1. /\ UNCHANGED <<disk, job>>
        /\ \E p \in Procs : mem' = [mem EXCEPT ![p] = disk]
    BY <1>5 DEF WebRequest, refreshInventory, loadInventory
  <2>2. Shapes'
    BY <2>1 DEF IInv, Shapes
  <2>3. SavesAreFresh'
    BY <2>1 DEF IInv, SavesAreFresh, At
  <2>. QED  BY <2>2, <2>3 DEF IInv
<1>6. ASSUME NEW p \in Procs, Crash(p) PROVE IInv'
  <2>1. UNCHANGED disk /\ mem' = [mem EXCEPT ![p] = disk]
    BY <1>6 DEF Crash
  <2>2. DOMAIN job' = Actors /\ \A a \in Actors : job'[a] \in {Idle, job[a]}
    BY <1>6 DEF Crash
  <2>3. Shapes'
    BY <2>1, <2>2 DEF IInv, Shapes
  <2>4. SavesAreFresh'
    BY <2>1, <2>2 DEF IInv, SavesAreFresh, At, Idle
  <2>. QED  BY <2>3, <2>4 DEF IInv
<1>7. ASSUME NEW p \in Places, GuestDies(p) PROVE IInv'
  BY <1>1, <1>7 DEF GuestDies
<1>8. CASE UNCHANGED vars
  BY <1>1, <1>8 DEF vars
<1>. QED  BY <1>2, <1>3, <1>4, <1>5, <1>6, <1>7, <1>8 DEF Next

-----------------------------------------------------------------------------
(* Where the machines are while commands work on them.                     *)
Active(a) == ~At(a, "idle")
TouchedBy(a) == Touches(job[a], job[a].entry)
Of(a) == {job[a].id} \cup meddled

Machines == DOMAIN pve = Places /\ \A p \in Places : Has(p) => DOMAIN pve[p] = MachineFields

\* A command runs where its request says, and two that touch one guest or
\* place are of two processes: neither is alone, and their machines are known
\* to be meddled with.
Requested == \A a \in Actors : Active(a) => \E r \in Requests : r.by = a /\ r.op = job[a].op
Apart ==
  /\ \A a \in Actors : Active(a) /\ ~job[a].alone => job[a].id \in meddled
  /\ \A a, b \in Actors :
       a # b /\ Active(a) /\ Active(b) /\ TouchedBy(a) \cap TouchedBy(b) # {} =>
         ~job[a].alone /\ job[a].id \in meddled

\* What stands at p is the machine the command is about.
Its(a, p) == Has(p) => pve[p].id \in Of(a) /\ (job[a].alone => pve[p].id = job[a].id)

\* The guest a command was given by name.
OnSource(a) ==
  job[a].op \in OnGuest \ {"edit-guest"} =>
    Its(a, Place(a)) /\ (At(a, "guest-power") => job[a].id \in meddled)

\* The guest a command made.
OnCreated(a) == job[a].op \in Creates /\ job[a].pc \notin {"check", "create"} => Its(a, job[a].to)

\* The archive a migration made of it.
OnArchive(a) ==
  job[a].op = "migrate-guest" /\ job[a].pc \notin {"check", "backup"} =>
    /\ job[a].archive.id \in Of(a) /\ DOMAIN job[a].archive = MachineFields
    /\ job[a].alone => job[a].archive.id = job[a].id
    /\ job[a].alone /\ Has(Place(a)) => job[a].archive.acl \subseteq pve[Place(a)].acl
    /\ At(a, "restore") /\ Up(Place(a)) => pve[Place(a)].id \in meddled

\* And the copy it restored from that.  No migration's source is started as
\* somebody's copy.
HasCopy(a) == job[a].op = "migrate-guest" /\ job[a].pc \notin {"check", "backup", "status", "stop", "restore"}
OnCopy(a) ==
  HasCopy(a) =>
    /\ Its(a, job[a].to)
    /\ job[a].pc \in {"reconfigure", "start"} => \A pair \in pairs : pair[1] = job[a].to => pair[3] \in meddled
    /\ job[a].alone =>
         /\ Has(job[a].to)
         /\ pve[job[a].to].gw = job[a].archive.gw /\ pve[job[a].to].mounts = job[a].archive.mounts
         /\ ~At(a, "reconfigure") => pve[job[a].to].ip = job[a].to
         /\ job[a].pc \notin {"reconfigure", "start", "wait"} => Up(job[a].to)
         /\ job[a].pc \notin {"reconfigure", "start", "wait", "acl"} =>
              job[a].archive.acl \subseteq pve[job[a].to].acl \/ job[a].failed # {}

Fits(a) == Active(a) => OnSource(a) /\ OnCreated(a) /\ OnArchive(a) /\ OnCopy(a)

\* The source of a migration was stopped before it was restored elsewhere, and
\* stays so.
SourcesRest ==
  \A pair \in pairs :
    pair[1] \in Places /\ Has(pair[1]) /\ (Up(pair[1]) /\ pve[pair[1]].id = pair[3] => pair[3] \in meddled)

\* A migration is about to save its own entry moved, and nothing else.
SavesMigration ==
  \A a \in Actors :
    At(a, "save") /\ job[a].op = "migrate-guest" /\ ~job[a].torn => job[a].inv = recordMigration(job[a], disk)

Whereabouts == Machines /\ Requested /\ Apart /\ (\A a \in Actors : Fits(a)) /\ SourcesRest /\ SavesMigration

-----------------------------------------------------------------------------
(* What a step does to Proxmox. *)

LEMMA MachineShape ==
  /\ MachineFields = {"id", "name", "type", "up", "ip", "gw", "mounts", "fstab", "acl"}
  /\ DOMAIN Free # MachineFields
  /\ \A id, name, type, up, ip : LET m == Machine(id, name, type, up, ip)
                                 IN DOMAIN m = MachineFields /\ m.id = id
BY DEF MachineFields, NoArchive, Machine, Free

LEMMA MachineEdits ==
  ASSUME NEW m, DOMAIN m = MachineFields, NEW v
  PROVE  /\ LET r == [m EXCEPT !.up = v]
            IN DOMAIN r = MachineFields /\ r.id = m.id /\ r.up = v /\ r.gw = m.gw /\ r.mounts = m.mounts
               /\ r.ip = m.ip /\ r.acl = m.acl
         /\ LET r == [m EXCEPT !.ip = v]
            IN DOMAIN r = MachineFields /\ r.id = m.id /\ r.up = m.up /\ r.gw = m.gw /\ r.mounts = m.mounts
               /\ r.ip = v /\ r.acl = m.acl
         /\ LET r == [m EXCEPT !.acl = v]
            IN DOMAIN r = MachineFields /\ r.id = m.id /\ r.up = m.up /\ r.gw = m.gw /\ r.mounts = m.mounts
               /\ r.ip = m.ip /\ r.acl = v
         /\ LET r == [m EXCEPT !.gw = v] IN DOMAIN r = MachineFields /\ r.id = m.id /\ r.up = m.up
         /\ LET r == [m EXCEPT !.mounts = v] IN DOMAIN r = MachineFields /\ r.id = m.id /\ r.up = m.up
         /\ LET r == [m EXCEPT !.fstab = v] IN DOMAIN r = MachineFields /\ r.id = m.id /\ r.up = m.up
BY MachineShape

\* A step of a leaves, where it works, nothing or a machine it is about, and
\* starts no migration's source.
Works(a) ==
  \A p \in Places : \/ pve'[p] = pve[p]
                    \/ p \in TouchedBy(a) /\ (pve'[p] = Free \/ pve'[p].id \in Of(a))
Remembers(a) ==
  \A pair \in pairs' : pair \in pairs \/ (pair[1] \in TouchedBy(a) /\ pair[3] \in Of(a))

Quiet(p, m) ==
  m.up => \/ m.id \in meddled
          \/ Up(p) /\ m.id = pve[p].id
          \/ \A pair \in pairs : pair[1] = p => pair[3] \in meddled

Placed(a, p, m) ==
  p \in Places /\ p \in TouchedBy(a) /\ (m = Free \/ (DOMAIN m = MachineFields /\ m.id \in Of(a) /\ Quiet(p, m)))

LEMMA PutWorks ==
  ASSUME Whereabouts, NEW a \in Actors, NEW p, NEW m, pve' \in {pve, Put(p, m)}, pve' # pve => Placed(a, p, m),
         pairs' = WithSource(pairs), UNCHANGED meddled
  PROVE  Works(a) /\ Remembers(a) /\ Machines' /\ SourcesRest'
<1>1. CASE pve' = pve
  <2>1. pairs' \subseteq pairs
    BY DEF WithSource
  <2>2. Works(a) /\ Remembers(a) /\ Machines'
    BY <1>1, <2>1 DEF Works, Remembers, Whereabouts, Machines, Has
  <2>3. SourcesRest'
    BY <1>1, <2>1 DEF Whereabouts, SourcesRest, Has, Up
  <2>. QED  BY <2>2, <2>3
<1>2. CASE pve' # pve
  <2>1. Placed(a, p, m) /\ pve' = [pve EXCEPT ![p] = m] /\ DOMAIN pve = Places
    BY <1>2 DEF Put, Whereabouts, Machines
  <2>2. DOMAIN pve' = Places /\ pve'[p] = m /\ \A q \in Places \ {p} : pve'[q] = pve[q]
    BY <2>1 DEF Placed
  <2>3. pairs' \subseteq pairs /\ \A pair \in pairs' : Has(pair[1])'
    BY DEF WithSource
  <2>4. Works(a) /\ Remembers(a)
    BY <2>1, <2>2, <2>3 DEF Works, Remembers, Placed
  <2>5. Machines'
    BY <2>1, <2>2 DEF Whereabouts, Machines, Has, Placed
  <2>6. ASSUME NEW pair \in pairs', Up(pair[1])', pve'[pair[1]].id = pair[3]
        PROVE  pair[3] \in meddled
    <3>1. pair \in pairs /\ pair[1] \in Places /\ Has(pair[1]) /\ (Up(pair[1]) /\ pve[pair[1]].id = pair[3] => pair[3] \in meddled)
      BY <2>3 DEF Whereabouts, SourcesRest
    <3>2. CASE pair[1] # p
      BY <2>2, <2>6, <3>1, <3>2 DEF Up, Has
    <3>3. CASE pair[1] = p
      <4>1. m # Free /\ m.up /\ m.id = pair[3]
        BY <2>2, <2>6, <3>3 DEF Up, Has
      <4>2. Quiet(p, m)
        BY <2>1, <4>1 DEF Placed
      <4>. QED  BY <3>1, <3>3, <4>1, <4>2 DEF Quiet
    <3>. QED  BY <3>2, <3>3
  <2>7. SourcesRest'
    <3>1. \A pair \in pairs' : pair[1] \in Places
      BY <2>3 DEF Whereabouts, SourcesRest
    <3>. QED  BY <2>3, <2>6, <3>1 DEF SourcesRest
  <2>. QED  BY <2>4, <2>5, <2>7
<1>. QED  BY <1>1, <1>2

\* What the others are about stays so: where two commands meet, both know.
LEMMA OthersFit ==
  ASSUME IInv, Whereabouts, NEW a \in Actors, Active(a), Works(a), Remembers(a), UNCHANGED meddled,
         NEW b \in Actors \ {a}, job'[b] = job[b]
  PROVE  Fits(b)'
<1>. SUFFICES ASSUME Active(b) PROVE (OnSource(b) /\ OnCreated(b) /\ OnArchive(b) /\ OnCopy(b))'
  BY DEF Fits, Active, At
<1>1. Working(job[b]) /\ OnSource(b) /\ OnCreated(b) /\ OnArchive(b) /\ OnCopy(b)
  BY AtWork DEF Whereabouts, Fits, Active
<1>. DEFINE src == Place(b)
            to == job[b].to
<1>2. /\ job[b].op \in OnGuest \ {"edit-guest"} => src \in Places /\ src \in TouchedBy(b)
      /\ job[b].op \in Creates \cup {"migrate-guest"} => to \in Places /\ to \in TouchedBy(b)
      /\ job[b].op = "migrate-guest" => job[b].op \in OnGuest \ {"edit-guest"}
  BY <1>1 DEF Working, TouchedBy, Touches, OnGuest, Creates, Place
<1>3. CASE TouchedBy(a) \cap TouchedBy(b) = {}
  <2>1. /\ job[b].op \in OnGuest \ {"edit-guest"} => pve'[src] = pve[src]
        /\ job[b].op \in Creates \cup {"migrate-guest"} => pve'[to] = pve[to]
    BY <1>2, <1>3 DEF Works
  <2>2. OnSource(b)'
    BY <1>1, <2>1 DEF OnSource, Its, Has, Of, At, Place
  <2>3. OnCreated(b)'
    BY <1>1, <2>1 DEF OnCreated, Its, Has, Of
  <2>4. OnArchive(b)'
    BY <1>1, <1>2, <2>1 DEF OnArchive, Has, Up, Of, At, Place
  <2>5. OnCopy(b)'
    <3>1. SUFFICES ASSUME HasCopy(b) PROVE OnCopy(b)'
      BY DEF OnCopy, HasCopy
    <3>2. pve'[to] = pve[to]
      BY <2>1, <3>1 DEF HasCopy
    <3>3. \A pair \in pairs' : pair[1] = to => pair \in pairs
      BY <1>2, <1>3, <3>1 DEF Remembers, HasCopy
    <3>. HIDE DEF to
    <3>. QED  BY <1>1, <3>1, <3>2, <3>3 DEF OnCopy, HasCopy, Its, Has, Up, Of, At, to
  <2>. QED  BY <2>2, <2>3, <2>4, <2>5
<1>4. CASE TouchedBy(a) \cap TouchedBy(b) # {}
  <2>1. ~job[b].alone /\ job[a].id \in meddled /\ job[b].id \in meddled
    BY <1>4 DEF Whereabouts, Apart
  <2>2. /\ \A p \in Places : pve'[p] = pve[p] \/ pve'[p] = Free \/ pve'[p].id \in meddled
        /\ \A pair \in pairs' : pair \in pairs \/ pair[3] \in meddled
    BY <2>1 DEF Works, Remembers, Of
  <2>3. OnSource(b)'
    BY <1>1, <1>2, <2>1, <2>2 DEF OnSource, Its, Has, Of, At, Place
  <2>4. OnCreated(b)'
    BY <1>1, <1>2, <2>1, <2>2 DEF OnCreated, Its, Has, Of
  <2>5. OnArchive(b)'
    BY <1>1, <1>2, <2>1, <2>2 DEF OnArchive, Has, Up, Of, At, Place
  <2>6. OnCopy(b)'
    BY <1>1, <1>2, <2>1, <2>2 DEF OnCopy, HasCopy, Its, Has, Of
  <2>. QED  BY <2>3, <2>4, <2>5, <2>6
<1>. QED  BY <1>3, <1>4

LEMMA LookWorks ==
  ASSUME Whereabouts, NEW a \in Actors, pve' = pve, pairs' = WithSource(pairs), UNCHANGED meddled
  PROVE  Works(a) /\ Remembers(a) /\ Machines' /\ SourcesRest'
<1>1. pve' \in {pve, Put(NoIp, Free)} /\ (pve' # pve => Placed(a, NoIp, Free))
  OBVIOUS
<1>. QED  BY <1>1, PutWorks

\* The places a command works at, and its machines there.
LEMMA AtItsPlace ==
  ASSUME IInv, Whereabouts, NEW a \in Actors, Active(a)
  PROVE  /\ Working(job[a])
         /\ job[a].op \in OnGuest \ {"edit-guest"} =>
              /\ Place(a) \in Places /\ Place(a) \in TouchedBy(a)
              /\ Has(Place(a)) => DOMAIN pve[Place(a)] = MachineFields /\ pve[Place(a)].id \in Of(a)
         /\ job[a].op \in Creates \cup {"migrate-guest"} => job[a].to \in Places /\ job[a].to \in TouchedBy(a)
         /\ (job[a].op \in Creates /\ job[a].pc \notin {"check", "create"}) \/ HasCopy(a) =>
              (Has(job[a].to) => DOMAIN pve[job[a].to] = MachineFields /\ pve[job[a].to].id \in Of(a))
<1>1. Working(job[a]) /\ OnSource(a) /\ OnCreated(a) /\ OnCopy(a)
  BY AtWork DEF Whereabouts, Fits, Active
<1>2. job[a].op \in OnGuest \ {"edit-guest"} => Place(a) \in Places /\ Place(a) \in TouchedBy(a)
  BY <1>1 DEF Working, TouchedBy, Touches, OnGuest, Place
<1>3. job[a].op \in Creates \cup {"migrate-guest"} => job[a].to \in Places /\ job[a].to \in TouchedBy(a)
  BY <1>1 DEF Working, TouchedBy, Touches, Creates
<1>4. \A p \in Places : Has(p) => DOMAIN pve[p] = MachineFields
  BY DEF Whereabouts, Machines
<1>5. HasCopy(a) => job[a].op = "migrate-guest"
  BY DEF HasCopy
<1>6. job[a].op \in OnGuest \ {"edit-guest"} => Its(a, Place(a))
  BY <1>1 DEF OnSource
<1>7. (job[a].op \in Creates /\ job[a].pc \notin {"check", "create"}) \/ HasCopy(a) => Its(a, job[a].to)
  BY <1>1 DEF OnCreated, OnCopy
<1>. QED  BY <1>1, <1>2, <1>3, <1>4, <1>5, <1>6, <1>7 DEF Its

\* Changing a field of a machine the command is about.
LEMMA EditWorks ==
  ASSUME IInv, Whereabouts, NEW a \in Actors, NEW p \in Places, p \in TouchedBy(a),
         Has(p) => pve[p].id \in Of(a), NEW m, pve' \in {pve, Put(p, m)}, pve' # pve => Has(p),
         \E v : m \in {[pve[p] EXCEPT !.ip = v], [pve[p] EXCEPT !.acl = v], [pve[p] EXCEPT !.gw = v],
                       [pve[p] EXCEPT !.mounts = v], [pve[p] EXCEPT !.fstab = v]},
         pairs' = WithSource(pairs), UNCHANGED meddled
  PROVE  Works(a) /\ Remembers(a) /\ Machines' /\ SourcesRest'
<1>1. CASE pve' = pve
  BY <1>1, LookWorks
<1>2. CASE pve' # pve
  <2>1. Has(p) /\ DOMAIN pve[p] = MachineFields /\ pve[p].id \in Of(a)
    BY <1>2 DEF Whereabouts, Machines
  <2>2. DOMAIN m = MachineFields /\ m.id = pve[p].id /\ m.up = pve[p].up
    BY <2>1, MachineShape
  <2>3. Placed(a, p, m)
    BY <2>1, <2>2 DEF Placed, Quiet, Up
  <2>. QED  BY <2>3, PutWorks
<1>. QED  BY <1>1, <1>2

\* Starting or stopping one.
LEMMA SwitchWorks ==
  ASSUME IInv, Whereabouts, NEW a \in Actors, NEW p \in Places, p \in TouchedBy(a),
         Has(p) => pve[p].id \in Of(a), NEW up, pve' \in {pve, Put(p, [pve[p] EXCEPT !.up = up])}, pve' # pve => Has(p),
         up => (Has(p) => pve[p].id \in meddled) \/ \A pair \in pairs : pair[1] = p => pair[3] \in meddled,
         pairs' = WithSource(pairs), UNCHANGED meddled
  PROVE  Works(a) /\ Remembers(a) /\ Machines' /\ SourcesRest'
<1>. DEFINE m == [pve[p] EXCEPT !.up = up]
<1>1. CASE pve' = pve
  BY <1>1, LookWorks
<1>2. CASE pve' # pve
  <2>1. Has(p) /\ DOMAIN pve[p] = MachineFields /\ pve[p].id \in Of(a)
    BY <1>2 DEF Whereabouts, Machines
  <2>2. DOMAIN m = MachineFields /\ m.id = pve[p].id /\ m.up = up
    BY <2>1, MachineEdits
  <2>3. pve' \in {pve, Put(p, m)}
    OBVIOUS
  <2>. HIDE DEF m
  <2>4. Placed(a, p, m)
    BY <2>1, <2>2 DEF Placed, Quiet
  <2>. QED  BY <2>3, <2>4, PutWorks
<1>. QED  BY <1>1, <1>2

Effects(a) == Works(a) /\ Remembers(a) /\ Machines' /\ SourcesRest' /\ UNCHANGED meddled

\* Calls that look, and change nothing.
Looks(a) ==
  \/ checkVmidAvailable(a) \/ Backup(a) \/ SourceStatus(a) \/ waitForGuestRunning(a)
  \/ Teardown(a) \/ GuestStatus(a) \/ Dump(a) \/ ProvisionAgent(a) \/ Probe(a)
  \/ ReadNet0(a) \/ ConfigureDns(a) \/ Reboot(a) \/ ReadMounts(a) \/ Verify(a) \/ ConfigureGuest(a)
  \/ ScanHost(a) \/ Push(a)

LEMMA LooksEffects ==
  ASSUME Whereabouts, NEW a \in Actors, Looks(a)
  PROVE  Effects(a) /\ Active(a) /\ pve' = pve
<1>1. CASE checkVmidAvailable(a) \/ Backup(a) \/ SourceStatus(a) \/ waitForGuestRunning(a) \/ Teardown(a) \/ GuestStatus(a)
  <2>1. Active(a) /\ pve' = pve /\ pairs' = WithSource(pairs) /\ UNCHANGED meddled
    BY <1>1 DEF checkVmidAvailable, Backup, SourceStatus, waitForGuestRunning, Teardown, GuestStatus, Look, Remote, At, Active
  <2>. QED  BY <2>1, LookWorks DEF Effects
<1>2. CASE Dump(a) \/ ProvisionAgent(a) \/ Probe(a) \/ ReadNet0(a) \/ ConfigureDns(a) \/ Reboot(a)
  <2>1. Active(a) /\ pve' = pve /\ pairs' = WithSource(pairs) /\ UNCHANGED meddled
    BY <1>2 DEF Dump, ProvisionAgent, Probe, ReadNet0, ConfigureDns, Reboot, Look, Remote, At, Active
  <2>. QED  BY <2>1, LookWorks DEF Effects
<1>3. CASE ReadMounts(a) \/ Verify(a) \/ ConfigureGuest(a) \/ ScanHost(a) \/ Push(a)
  <2>1. Active(a) /\ pve' = pve /\ pairs' = WithSource(pairs) /\ UNCHANGED meddled
    BY <1>3 DEF ReadMounts, Verify, ConfigureGuest, ScanHost, Push, Look, Remote, At, Active
  <2>. QED  BY <2>1, LookWorks DEF Effects
<1>. QED  BY <1>1, <1>2, <1>3 DEF Looks

LEMMA SwitchesEffects ==
  ASSUME IInv, Whereabouts, NEW a \in Actors, StopSource(a) \/ StopGuest(a) \/ StartCopy(a) \/ GuestPower(a)
  PROVE  Effects(a) /\ Active(a)
<1>1. Active(a) /\ pairs' = WithSource(pairs) /\ UNCHANGED meddled
  BY DEF StopSource, StopGuest, Stop, StartCopy, GuestPower, Remote, At, Active
<1>2. Working(job[a])
  BY <1>1, AtWork DEF Active
<1>3. CASE StopSource(a) \/ StopGuest(a)
  <2>1. job[a].op \in OnGuest \ {"edit-guest"}
    BY <1>3 DEF StopSource, StopGuest, Doing, OnGuest
  <2>2. pve' \in {pve, Put(Place(a), [pve[Place(a)] EXCEPT !.up = FALSE])} /\ (pve' # pve => Has(Place(a)))
    BY <1>3 DEF StopSource, StopGuest, Stop, Remote, Up
  <2>. QED  BY <1>1, <2>1, <2>2, AtItsPlace, SwitchWorks DEF Effects
<1>4. CASE StartCopy(a)
  <2>1. job[a].op = "migrate-guest" /\ At(a, "start") /\ HasCopy(a)
    BY <1>2, <1>4 DEF StartCopy, Working, OpAt, At, HasCopy
  <2>2. /\ pve' \in {pve, Put(job[a].to, [pve[job[a].to] EXCEPT !.up = TRUE])}
        /\ pve' # pve => Has(job[a].to)
    BY <1>4 DEF StartCopy, Remote
  <2>3. \A pair \in pairs : pair[1] = job[a].to => pair[3] \in meddled
    BY <1>1, <2>1 DEF Whereabouts, Fits, OnCopy, At
  <2>4. job[a].to \in Places /\ job[a].to \in TouchedBy(a) /\ (Has(job[a].to) => pve[job[a].to].id \in Of(a))
    BY <1>1, <2>1, AtItsPlace
  <2>. QED  BY <1>1, <2>2, <2>3, <2>4, SwitchWorks DEF Effects
<1>5. CASE GuestPower(a)
  <2>1. job[a].op = "guest-power" /\ At(a, "guest-power")
    BY <1>2, <1>5 DEF GuestPower, Working, OpAt, At
  <2>2. /\ pve' \in {pve, Put(Place(a), [pve[Place(a)] EXCEPT !.up = (job[a].mode = "start")])}
        /\ pve' # pve => Has(Place(a))
    BY <1>5 DEF GuestPower, Remote
  <2>3. job[a].id \in meddled
    BY <1>1, <2>1 DEF Whereabouts, Fits, OnSource, OnGuest
  <2>4. Place(a) \in Places /\ Place(a) \in TouchedBy(a) /\ (Has(Place(a)) => pve[Place(a)].id \in Of(a))
    BY <1>1, <2>1, AtItsPlace DEF OnGuest
  <2>5. Has(Place(a)) => pve[Place(a)].id \in meddled
    BY <2>3, <2>4 DEF Of
  <2>. QED  BY <1>1, <2>2, <2>4, <2>5, SwitchWorks DEF Effects
<1>. QED  BY <1>3, <1>4, <1>5

\* Calls that change one field of one machine.
Edited(p, m) ==
  \E v : m \in {[pve[p] EXCEPT !.ip = v], [pve[p] EXCEPT !.acl = v], [pve[p] EXCEPT !.gw = v],
                [pve[p] EXCEPT !.mounts = v], [pve[p] EXCEPT !.fstab = v]}
Edits(p) == (pve' # pve => Has(p)) /\ \E m : pve' \in {pve, Put(p, m)} /\ Edited(p, m)

LEMMA OneEdit ==
  ASSUME NEW a \in Actors
  PROVE  /\ reconfigureGuestIp(a) \/ copyGuestAcls(a) \/ AttachNew(a) \/ grantCreatorAccess(a) => Edits(job[a].to)
         /\ SetNet0Gateway(a) \/ Unmount(a) \/ AttachMount(a) => Edits(Place(a))
<1>1. reconfigureGuestIp(a) => Edits(job[a].to)
  BY DEF reconfigureGuestIp, Remote, Edits, Edited
<1>2. copyGuestAcls(a) => Edits(job[a].to)
  BY DEF copyGuestAcls, Remote, Edits, Edited
<1>3. AttachNew(a) => Edits(job[a].to)
  BY DEF AttachNew, Remote, Edits, Edited
<1>4. grantCreatorAccess(a) => Edits(job[a].to)
  BY DEF grantCreatorAccess, Remote, Edits, Edited
<1>5. SetNet0Gateway(a) => Edits(Place(a))
  BY DEF SetNet0Gateway, Remote, Edits, Edited
<1>6. Unmount(a) => Edits(Place(a))
  BY DEF Unmount, Remote, Up, Edits, Edited
<1>7. AttachMount(a) => Edits(Place(a))
  BY DEF AttachMount, Remote, Edits, Edited
<1>. QED  BY <1>1, <1>2, <1>3, <1>4, <1>5, <1>6, <1>7

LEMMA EditsEffects ==
  ASSUME IInv, Whereabouts, NEW a \in Actors,
         \/ reconfigureGuestIp(a) \/ copyGuestAcls(a) \/ AttachNew(a) \/ grantCreatorAccess(a)
         \/ SetNet0Gateway(a) \/ Unmount(a) \/ AttachMount(a)
  PROVE  Effects(a) /\ Active(a)
<1>1. Active(a) /\ pairs' = WithSource(pairs) /\ UNCHANGED meddled
  BY DEF reconfigureGuestIp, copyGuestAcls, AttachNew, grantCreatorAccess, SetNet0Gateway, Unmount, AttachMount,
         Remote, At, Active
<1>2. Working(job[a])
  BY <1>1, AtWork DEF Active
<1>3. CASE reconfigureGuestIp(a) \/ copyGuestAcls(a) \/ AttachNew(a) \/ grantCreatorAccess(a)
  <2>1. (job[a].op \in Creates /\ job[a].pc \notin {"check", "create"}) \/ HasCopy(a)
    BY <1>2, <1>3 DEF reconfigureGuestIp, copyGuestAcls, AttachNew, grantCreatorAccess, Working, OpAt, At, HasCopy, Creates
  <2>2. job[a].to \in Places /\ job[a].to \in TouchedBy(a) /\ (Has(job[a].to) => pve[job[a].to].id \in Of(a))
    BY <1>1, <2>1, AtItsPlace DEF HasCopy
  <2>3. Edits(job[a].to)
    BY <1>3, OneEdit
  <2>. QED  BY <1>1, <2>2, <2>3, EditWorks DEF Effects, Edits, Edited
<1>4. CASE SetNet0Gateway(a) \/ Unmount(a) \/ AttachMount(a)
  <2>1. job[a].op \in OnGuest \ {"edit-guest"}
    BY <1>2, <1>4 DEF SetNet0Gateway, Unmount, AttachMount, Working, OpAt, At, OnGuest, Mounts
  <2>2. Place(a) \in Places /\ Place(a) \in TouchedBy(a) /\ (Has(Place(a)) => pve[Place(a)].id \in Of(a))
    BY <1>1, <2>1, AtItsPlace
  <2>3. Edits(Place(a))
    BY <1>4, OneEdit
  <2>. QED  BY <1>1, <2>2, <2>3, EditWorks DEF Effects, Edits, Edited
<1>. QED  BY <1>3, <1>4

LEMMA DestroyEffects ==
  ASSUME IInv, Whereabouts, NEW a \in Actors, DestroySource(a) \/ DestroyGuest(a)
  PROVE  Effects(a) /\ Active(a)
<1>1. Active(a) /\ pairs' = WithSource(pairs) /\ UNCHANGED meddled /\ job[a].op \in OnGuest \ {"edit-guest"}
  BY DEF DestroySource, DestroyGuest, Remote, At, Active, Doing, OnGuest
<1>2. pve' \in {pve, Put(Place(a), Free)}
  BY DEF DestroySource, DestroyGuest, Remote
<1>3. Placed(a, Place(a), Free)
  BY <1>1, AtItsPlace DEF Placed
<1>. QED  BY <1>1, <1>2, <1>3, PutWorks DEF Effects

LEMMA CreateEffects ==
  ASSUME IInv, Whereabouts, NEW a \in Actors, CreateGuest(a)
  PROVE  /\ Effects(a) /\ Active(a)
         /\ pve' # pve => pve'[job[a].to].id = job[a].id
         /\ ~End(a) => pve'[job[a].to].id = job[a].id
<1>. DEFINE to == job[a].to
            new == CASE job[a].op = "create-lxc" -> createLxc(job[a]).new
                     [] job[a].op = "create-vm" -> createVm(job[a]).new
                     [] job[a].op = "install-app" -> installApp(job[a]).new
                     [] job[a].op = "deploy-vpn-gateway" -> deployVpnGateway(job[a]).new
<1>1. Active(a) /\ pairs' = WithSource(pairs) /\ UNCHANGED meddled
  BY DEF CreateGuest, Remote, At, Active
<1>2. Working(job[a]) /\ job[a].op \in Creates
  BY <1>1, AtWork DEF CreateGuest, Working, OpAt, At, Active
<1>3. pve' \in {pve, Put(to, new)} /\ (pve' # pve => ~Has(to)) /\ (~End(a) => pve' = Put(to, new))
  BY <1>2 DEF CreateGuest, Remote, Creates
<1>4. DOMAIN new = MachineFields /\ new.id = job[a].id
  <2>1. \E type, up : new = Machine(job[a].id, job[a].name, type, up, to)
    BY <1>2 DEF createLxc, createVm, installApp, deployVpnGateway, Creates
  <2>. HIDE DEF new
  <2>. QED  BY <2>1, MachineShape
<1>. HIDE DEF new
<1>5. to \in Places /\ to \in TouchedBy(a) /\ DOMAIN pve = Places
  BY <1>1, <1>2, AtItsPlace DEF Whereabouts, Machines
<1>6. pve' # pve => Placed(a, to, new)
  BY <1>3, <1>4, <1>5 DEF Placed, Quiet, Of, Whereabouts, SourcesRest
<1>7. Put(to, new)[to].id = job[a].id
  BY <1>4, <1>5 DEF Put
<1>. QED  BY <1>1, <1>3, <1>6, <1>7, PutWorks DEF Effects

\* The restored copy does not run, and neither does its source.
LEMMA RestoreEffects ==
  ASSUME IInv, Whereabouts, NEW a \in Actors, Restore(a)
  PROVE  Effects(a) /\ Active(a)
<1>. DEFINE to == job[a].to
            copy == [job[a].archive EXCEPT !.up = FALSE, !.acl = {}]
            pair == <<Place(a), to, copy.id>>
<1>1. Active(a) /\ At(a, "restore") /\ UNCHANGED meddled
  BY DEF Restore, At, Active
<1>2. Working(job[a]) /\ job[a].op = "migrate-guest"
  BY <1>1, AtWork DEF Working, OpAt, At, Active
<1>3. OnArchive(a) /\ job[a].pc = "restore"
  BY <1>1 DEF Whereabouts, Fits, At
<1>4. DOMAIN copy = MachineFields /\ copy.id = job[a].archive.id /\ copy.up = FALSE /\ copy.id \in Of(a)
  BY <1>2, <1>3, MachineShape DEF OnArchive
<1>5. /\ pve' \in {pve, Put(to, copy)} /\ (pve' # pve => ~Has(to))
      /\ pairs' = WithSource(pairs \cup {pair}) \/ (UNCHANGED <<pve, pairs>>)
  BY DEF Restore
<1>. HIDE DEF copy
<1>6. /\ Place(a) \in Places /\ Place(a) \in TouchedBy(a) /\ to \in Places /\ to \in TouchedBy(a) /\ to # Place(a)
      /\ DOMAIN pve = Places
  BY <1>1, <1>2, AtItsPlace DEF Whereabouts, Machines, Working, OnGuest, Place
<1>7. /\ DOMAIN pve' = Places /\ \A p \in Places \ {to} : pve'[p] = pve[p]
      /\ pve'[to] = pve[to] \/ (pve'[to] = copy /\ ~Has(to))
  BY <1>5, <1>6 DEF Put
<1>8. \A q \in pairs' : q \in pairs \/ q = pair
  BY <1>5 DEF WithSource
<1>9. \A q \in pairs' : q[1] \in Places /\ Has(q[1])'
  <2>1. CASE UNCHANGED <<pve, pairs>>
    BY <2>1 DEF Whereabouts, SourcesRest, Has
  <2>2. CASE pairs' = WithSource(pairs \cup {pair})
    BY <1>6, <1>8, <2>2 DEF WithSource, Whereabouts, SourcesRest
  <2>. QED  BY <1>5, <2>1, <2>2
<1>10. ASSUME NEW q \in pairs', Up(q[1])', pve'[q[1]].id = q[3]
       PROVE  q[3] \in meddled
  <2>1. q[1] # to => Up(q[1])
    BY <1>7, <1>9, <1>10 DEF Up, Has
  <2>2. CASE q \in pairs
    <3>1. Has(q[1]) /\ (Up(q[1]) /\ pve[q[1]].id = q[3] => q[3] \in meddled)
      BY <2>2 DEF Whereabouts, SourcesRest
    <3>. QED  BY <1>7, <1>9, <1>10, <3>1 DEF Up, Has
  <2>3. CASE q = pair
    <3>1. q[1] = Place(a) /\ q[1] # to /\ pve'[q[1]] = pve[q[1]]
      BY <1>6, <1>7, <2>3
    <3>2. Up(Place(a)) /\ pve[Place(a)].id = q[3]
      BY <1>10, <2>1, <3>1
    <3>. QED  BY <1>1, <1>2, <1>3, <3>2 DEF OnArchive
  <2>. QED  BY <1>8, <2>2, <2>3
<1>11. Machines' /\ SourcesRest'
  <2>1. Machines'
    BY <1>4, <1>7 DEF Whereabouts, Machines, Has
  <2>2. SUFFICES ASSUME NEW q \in pairs'
                 PROVE  q[1] \in Places /\ Has(q[1])' /\ (Up(q[1])' /\ pve'[q[1]].id = q[3] => q[3] \in meddled)
    BY <1>1, <2>1 DEF SourcesRest
  <2>. QED  BY <1>9, <1>10
<1>12. Works(a) /\ Remembers(a)
  BY <1>4, <1>6, <1>7, <1>8 DEF Works, Remembers
<1>. QED  BY <1>1, <1>11, <1>12 DEF Effects

-----------------------------------------------------------------------------
(* What a command knows after its own step. *)

Kept(a) ==
  /\ job'[a].op = job[a].op /\ job'[a].to = job[a].to /\ job'[a].entry = job[a].entry
  /\ job'[a].id = job[a].id /\ job'[a].alone = job[a].alone
Packed(a) == job'[a].archive = job[a].archive /\ job'[a].failed = job[a].failed

LEMMA SetOne ==
  ASSUME IInv, NEW a \in Actors, NEW r, Set(a, r)
  PROVE  DOMAIN job' = Actors /\ job'[a] = r /\ \A b \in Actors \ {a} : job'[b] = job[b]
BY DEF Set, IInv, Shapes

LEMMA WentOn ==
  ASSUME IInv, NEW a \in Actors, Active(a), NEW pc, Go(a, pc)
  PROVE  Kept(a) /\ Packed(a) /\ job'[a].pc = pc
<1>. DEFINE r == [job[a] EXCEPT !.pc = pc]
<1>1. Working(job[a]) /\ Set(a, r)
  BY AtWork DEF Active, Go
<1>2. /\ r.op = job[a].op /\ r.to = job[a].to /\ r.entry = job[a].entry /\ r.id = job[a].id
      /\ r.alone = job[a].alone /\ r.archive = job[a].archive /\ r.failed = job[a].failed /\ r.pc = pc
  BY <1>1 DEF Working, JobFields
<1>. HIDE DEF r
<1>3. job'[a] = r
  BY <1>1, SetOne
<1>. QED  BY <1>2, <1>3 DEF Kept, Packed

LEMMA EndFits ==
  ASSUME IInv, NEW a \in Actors, End(a)
  PROVE  Fits(a)'
<1>1. job'[a] = Idle
  BY SetOne DEF End
<1>. QED  BY <1>1 DEF Fits, Active, At, Idle

\* A command that does not migrate.
LEMMA PlainFits ==
  ASSUME IInv, Whereabouts, NEW a \in Actors, Active(a), job[a].op # "migrate-guest", Kept(a), UNCHANGED meddled,
         job'[a].pc # "guest-power",
         job[a].op \in OnGuest \ {"edit-guest"} /\ Has(Place(a))' => Has(Place(a)) /\ pve'[Place(a)].id = pve[Place(a)].id,
         job[a].op \in Creates /\ job'[a].pc \notin {"check", "create"} /\ Has(job[a].to)' =>
           \/ pve'[job[a].to].id = job[a].id
           \/ Has(job[a].to) /\ pve'[job[a].to].id = pve[job[a].to].id /\ job[a].pc \notin {"check", "create"}
  PROVE  Fits(a)'
<1>1. OnSource(a) /\ OnCreated(a)
  BY DEF Whereabouts, Fits
<1>2. OnSource(a)'
  BY <1>1 DEF OnSource, Its, Has, Of, At, Place, Kept
<1>3. OnCreated(a)'
  BY <1>1 DEF OnCreated, Its, Has, Of, Kept
<1>4. OnArchive(a)' /\ OnCopy(a)'
  BY DEF OnArchive, OnCopy, HasCopy, Kept
<1>. QED  BY <1>2, <1>3, <1>4 DEF Fits

\* Looking changes nothing of that, and neither does recording.
LEMMA PlainLooks ==
  ASSUME IInv, Whereabouts, NEW a \in Actors, Active(a), job[a].op # "migrate-guest", Kept(a), UNCHANGED <<pve, meddled>>,
         job'[a].pc # "guest-power",
         job[a].pc \in {"check", "create"} => job'[a].pc \in {"check", "create"}
  PROVE  Fits(a)'
BY PlainFits DEF Has, Place, Kept

\* A migration, before the copy is made ...
LEMMA EarlyFits ==
  ASSUME IInv, Whereabouts, NEW a \in Actors, Active(a), job[a].op = "migrate-guest", ~HasCopy(a),
         Kept(a), UNCHANGED meddled, ~HasCopy(a)', job'[a].pc # "guest-power",
         Has(Place(a))' => Has(Place(a)) /\ pve'[Place(a)].id = pve[Place(a)].id,
         OnArchive(a)'
  PROVE  Fits(a)'
<1>1. OnSource(a)
  BY DEF Whereabouts, Fits
<1>2. OnSource(a)'
  BY <1>1 DEF OnSource, Its, Has, Of, At, Place, Kept
<1>3. OnCreated(a)' /\ OnCopy(a)'
  BY DEF OnCreated, OnCopy, Kept, Creates
<1>. QED  BY <1>2, <1>3 DEF Fits

\* ... and after it: the source stays or goes, and the copy is still the copy.
LEMMA CopyFits ==
  ASSUME IInv, Whereabouts, NEW a \in Actors, Active(a), HasCopy(a), Kept(a), job'[a].archive = job[a].archive,
         UNCHANGED meddled, pairs' \subseteq pairs,
         job'[a].pc \in {"start", "wait", "acl", "destroy", "reread", "save", "push"},
         pve'[Place(a)] \in {pve[Place(a)], Free},
         Has(job[a].to)' => Has(job[a].to),
         Has(job[a].to) =>
           /\ Has(job[a].to)' /\ pve'[job[a].to].id = pve[job[a].to].id
           /\ pve'[job[a].to].gw = pve[job[a].to].gw /\ pve'[job[a].to].mounts = pve[job[a].to].mounts,
         job'[a].pc = "start" => job[a].pc = "reconfigure",
         job[a].alone =>
           /\ pve'[job[a].to].ip = job[a].to
           /\ job'[a].pc \notin {"start", "wait"} => Up(job[a].to)'
           /\ job'[a].pc \notin {"start", "wait", "acl"} =>
                job[a].archive.acl \subseteq pve'[job[a].to].acl \/ job'[a].failed # {}
  PROVE  Fits(a)'
<1>1. OnSource(a) /\ OnArchive(a) /\ OnCopy(a)
  BY DEF Whereabouts, Fits
<1>2. job[a].op = "migrate-guest" /\ job[a].pc \notin {"check", "backup"}
  BY DEF HasCopy
<1>3. OnSource(a)'
  BY <1>1 DEF OnSource, Its, Has, Of, At, Place, Kept
<1>4. OnCreated(a)'
  BY <1>2 DEF OnCreated, Kept, Creates
<1>5. OnArchive(a)'
  BY <1>1, <1>2 DEF OnArchive, Has, Of, At, Place, Kept
<1>6. OnCopy(a)'
  <2>1. Its(a, job[a].to) /\ Its(a, job[a].to)'
    BY <1>1 DEF OnCopy, Its, Of, Kept, Has
  <2>2. job'[a].pc \in {"reconfigure", "start"} => \A pair \in pairs' : pair[1] = job[a].to => pair[3] \in meddled
    BY <1>1 DEF OnCopy
  <2>3. job[a].alone =>
          /\ Has(job[a].to)' /\ pve'[job[a].to].gw = job[a].archive.gw /\ pve'[job[a].to].mounts = job[a].archive.mounts
    BY <1>1 DEF OnCopy
  <2>. QED  BY <2>1, <2>2, <2>3 DEF OnCopy, Kept, At, Its, Of, Has, Up
<1>. QED  BY <1>3, <1>4, <1>5, <1>6 DEF Fits

LEMMA CheckFits ==
  ASSUME IInv, Whereabouts, NEW a \in Actors, checkVmidAvailable(a)
  PROVE  Fits(a)'
<1>1. Active(a) /\ At(a, "check") /\ UNCHANGED <<pve, meddled>>
  BY DEF checkVmidAvailable, Look, Remote, At, Active
<1>2. job[a].op \in {"migrate-guest", "install-app"}
  BY <1>1, AtWork DEF Working, OpAt, At, Active
<1>3. End(a) \/ (job[a].op = "install-app" /\ Go(a, "create")) \/ (job[a].op = "migrate-guest" /\ Go(a, "backup"))
  BY <1>1, <1>2 DEF checkVmidAvailable, Look, Remote, Doing, Creates, At
<1>4. CASE job[a].op = "install-app" /\ Go(a, "create")
  <2>1. Kept(a) /\ job'[a].pc = "create"
    BY <1>1, <1>4, WentOn
  <2>. QED  BY <1>1, <1>4, <2>1, PlainLooks
<1>5. CASE job[a].op = "migrate-guest" /\ Go(a, "backup")
  <2>1. Kept(a) /\ job'[a].pc = "backup"
    BY <1>1, <1>5, WentOn
  <2>2. ~HasCopy(a) /\ ~HasCopy(a)' /\ OnArchive(a)'
    BY <1>1, <2>1 DEF HasCopy, OnArchive, At
  <2>3. Has(Place(a))' => Has(Place(a)) /\ pve'[Place(a)].id = pve[Place(a)].id
    BY <1>1, <2>1 DEF Has, Place, Kept
  <2>. QED  BY <1>1, <1>5, <2>1, <2>2, <2>3, EarlyFits
<1>. QED  BY <1>3, <1>4, <1>5, EndFits

LEMMA BackupFits ==
  ASSUME IInv, Whereabouts, NEW a \in Actors, Backup(a)
  PROVE  Fits(a)'
<1>. DEFINE r == [job[a] EXCEPT !.pc = "status", !.archive = pve[Place(a)]]
<1>1. Active(a) /\ At(a, "backup") /\ UNCHANGED <<pve, meddled>>
  BY DEF Backup, Remote, At, Active
<1>2. Working(job[a]) /\ job[a].op = "migrate-guest" /\ ~HasCopy(a)
  BY <1>1, AtWork DEF Working, OpAt, At, Active, HasCopy
<1>3. End(a) \/ (Has(Place(a)) /\ Set(a, r))
  BY DEF Backup, Remote
<1>4. CASE Has(Place(a)) /\ Set(a, r)
  <2>1. /\ r.op = job[a].op /\ r.to = job[a].to /\ r.entry = job[a].entry /\ r.id = job[a].id
        /\ r.alone = job[a].alone /\ r.archive = pve[Place(a)] /\ r.pc = "status"
    BY <1>2 DEF Working, JobFields
  <2>. HIDE DEF r
  <2>2. job'[a] = r
    BY <1>4, SetOne
  <2>3. Kept(a) /\ job'[a].pc = "status" /\ job'[a].archive = pve[Place(a)] /\ Place(a)' = Place(a)
    BY <2>1, <2>2 DEF Kept, Place
  <2>4. DOMAIN pve[Place(a)] = MachineFields /\ Its(a, Place(a))
    <3>1. job[a].op \in OnGuest \ {"edit-guest"}
      BY <1>2 DEF OnGuest
    <3>. QED  BY <1>1, <1>4, <3>1, AtItsPlace DEF Whereabouts, Fits, OnSource
  <2>5. ~HasCopy(a)'
    BY <2>3 DEF HasCopy
  <2>6. OnArchive(a)'
    BY <1>1, <1>4, <2>3, <2>4 DEF OnArchive, Its, Of, Kept, At, Has
  <2>. QED  BY <1>1, <1>2, <2>3, <2>5, <2>6, EarlyFits DEF Has
<1>. QED  BY <1>3, <1>4, EndFits

LEMMA SourceStatusFits ==
  ASSUME IInv, Whereabouts, NEW a \in Actors, SourceStatus(a)
  PROVE  Fits(a)'
<1>1. Active(a) /\ At(a, "status") /\ UNCHANGED <<pve, meddled>> /\ job[a].op = "migrate-guest"
  BY DEF SourceStatus, Remote, At, Active, Doing
<1>2. End(a) \/ Go(a, "stop") \/ (Go(a, "restore") /\ ~Up(Place(a)))
  BY DEF SourceStatus, Remote
<1>3. CASE Go(a, "stop") \/ (Go(a, "restore") /\ ~Up(Place(a)))
  <2>1. Kept(a) /\ Packed(a) /\ job'[a].pc \in {"stop", "restore"} /\ (job'[a].pc = "restore" => ~Up(Place(a)))
    BY <1>1, <1>3, WentOn
  <2>2. ~HasCopy(a) /\ ~HasCopy(a)' /\ OnArchive(a)
    BY <1>1, <2>1 DEF HasCopy, At, Whereabouts, Fits
  <2>3. OnArchive(a)'
    BY <1>1, <2>1, <2>2 DEF OnArchive, Kept, Packed, At, Has, Up, Of, Place
  <2>4. Has(Place(a))' => Has(Place(a)) /\ pve'[Place(a)].id = pve[Place(a)].id
    BY <1>1, <2>1 DEF Has, Place, Kept
  <2>. QED  BY <1>1, <2>1, <2>2, <2>3, <2>4, EarlyFits
<1>. QED  BY <1>2, <1>3, EndFits

LEMMA StopSourceFits ==
  ASSUME IInv, Whereabouts, NEW a \in Actors, StopSource(a)
  PROVE  Fits(a)'
<1>. DEFINE src == Place(a)
            m == [pve[src] EXCEPT !.up = FALSE]
<1>1. Active(a) /\ At(a, "stop") /\ UNCHANGED meddled /\ job[a].op = "migrate-guest"
  BY DEF StopSource, Stop, Remote, At, Active, Doing
<1>2. End(a) \/ (Go(a, "restore") /\ Up(src) /\ pve' = Put(src, m))
  BY DEF StopSource, Stop, Remote
<1>3. CASE Go(a, "restore") /\ Up(src) /\ pve' = Put(src, m)
  <2>1. Kept(a) /\ Packed(a) /\ job'[a].pc = "restore" /\ Place(a)' = src
    BY <1>1, <1>3, WentOn DEF Kept, Place
  <2>2. Has(src) /\ src \in Places /\ DOMAIN pve[src] = MachineFields /\ DOMAIN pve = Places
    BY <1>1, <1>3, AtItsPlace DEF Up, OnGuest, Whereabouts, Machines
  <2>3. m.id = pve[src].id /\ m.up = FALSE /\ m.acl = pve[src].acl
    BY <2>2, MachineEdits
  <2>. HIDE DEF m
  <2>4. pve'[src] = m
    BY <1>3, <2>2 DEF Put
  <2>5. ~HasCopy(a) /\ ~HasCopy(a)' /\ OnArchive(a)
    BY <1>1, <2>1 DEF HasCopy, At, Whereabouts, Fits
  <2>6. OnArchive(a)'
    BY <1>1, <2>1, <2>2, <2>3, <2>4, <2>5 DEF OnArchive, Kept, Packed, At, Has, Up, Of
  <2>. QED  BY <1>1, <2>1, <2>2, <2>3, <2>4, <2>5, <2>6, EarlyFits
<1>. QED  BY <1>2, <1>3, EndFits

LEMMA RestoreFits ==
  ASSUME IInv, Whereabouts, NEW a \in Actors, Restore(a)
  PROVE  Fits(a)'
<1>. DEFINE to == job[a].to
            src == Place(a)
            copy == [job[a].archive EXCEPT !.up = FALSE, !.acl = {}]
<1>1. Active(a) /\ At(a, "restore") /\ UNCHANGED meddled
  BY DEF Restore, At, Active
<1>2. Working(job[a]) /\ job[a].op = "migrate-guest"
  BY <1>1, AtWork DEF Working, OpAt, At, Active
<1>3. OnArchive(a) /\ OnSource(a) /\ ~HasCopy(a)
  BY <1>1 DEF Whereabouts, Fits, At, HasCopy
<1>4. /\ DOMAIN job[a].archive = MachineFields /\ job[a].archive.id \in Of(a)
      /\ job[a].alone => job[a].archive.id = job[a].id
      /\ job[a].alone /\ Has(src) => job[a].archive.acl \subseteq pve[src].acl
  BY <1>1, <1>2, <1>3 DEF OnArchive, At
<1>5. /\ DOMAIN copy = MachineFields /\ copy.id = job[a].archive.id
      /\ copy.gw = job[a].archive.gw /\ copy.mounts = job[a].archive.mounts
  BY <1>4, MachineShape
<1>6. /\ src \in Places /\ to \in Places /\ to # src /\ DOMAIN pve = Places
  BY <1>1, <1>2, AtItsPlace DEF Whereabouts, Machines, Working, OnGuest, Place
<1>7. \/ End(a)
      \/ /\ ~Has(to) /\ pve' = Put(to, copy) /\ Go(a, "reconfigure")
         /\ pairs' = WithSource(pairs \cup {<<src, to, copy.id>>})
  BY DEF Restore
<1>. HIDE DEF copy
<1>8. CASE /\ ~Has(to) /\ pve' = Put(to, copy) /\ Go(a, "reconfigure")
           /\ pairs' = WithSource(pairs \cup {<<src, to, copy.id>>})
  <2>1. Kept(a) /\ Packed(a) /\ job'[a].pc = "reconfigure" /\ Place(a)' = src
    BY <1>1, <1>8, WentOn DEF Kept, Place
  <2>2. pve'[to] = copy /\ pve'[src] = pve[src] /\ copy # Free
    BY <1>5, <1>6, <1>8, MachineShape DEF Put
  <2>3. OnSource(a)'
    BY <1>1, <1>3, <2>1, <2>2 DEF OnSource, Its, Has, Of, At, Place, Kept
  <2>4. OnArchive(a)'
    BY <1>1, <1>4, <2>1, <2>2 DEF OnArchive, Has, Of, At, Kept, Packed
  <2>5. \A pair \in pairs' : pair[1] # to
    <3>1. \A pair \in pairs : pair[1] # to
      BY <1>8 DEF Whereabouts, SourcesRest
    <3>. QED  BY <1>6, <1>8, <3>1 DEF WithSource
  <2>6. OnCopy(a)'
    BY <1>1, <1>4, <1>5, <2>1, <2>2, <2>5 DEF OnCopy, HasCopy, Its, Has, Of, At, Kept, Packed
  <2>7. OnCreated(a)'
    BY <1>2, <2>1 DEF OnCreated, Kept, Creates
  <2>. QED  BY <2>3, <2>4, <2>6, <2>7 DEF Fits
<1>. QED  BY <1>7, <1>8, EndFits

\* The steps on the copy.
LEMMA CopySteps ==
  ASSUME IInv, Whereabouts, NEW a \in Actors,
         \/ reconfigureGuestIp(a) \/ StartCopy(a) \/ waitForGuestRunning(a) \/ copyGuestAcls(a) \/ DestroySource(a)
  PROVE  /\ Active(a) /\ Working(job[a]) /\ HasCopy(a) /\ OnCopy(a) /\ OnArchive(a) /\ UNCHANGED meddled /\ pairs' \subseteq pairs
         /\ Place(a) \in Places /\ job[a].to \in Places /\ job[a].to # Place(a) /\ DOMAIN pve = Places
         /\ Has(job[a].to) => DOMAIN pve[job[a].to] = MachineFields
<1>1. Active(a) /\ UNCHANGED meddled /\ pairs' \subseteq pairs
  BY DEF reconfigureGuestIp, StartCopy, waitForGuestRunning, copyGuestAcls, DestroySource, Remote, At, Active, WithSource
<1>2. Working(job[a])
  BY <1>1, AtWork DEF Active
<1>3. job[a].op = "migrate-guest"
  BY <1>2 DEF reconfigureGuestIp, StartCopy, waitForGuestRunning, copyGuestAcls, DestroySource, Working, OpAt, At, Doing
<1>4. HasCopy(a)
  BY <1>3 DEF reconfigureGuestIp, StartCopy, waitForGuestRunning, copyGuestAcls, DestroySource, At, HasCopy
<1>5. Place(a) \in Places /\ job[a].to \in Places /\ job[a].to # Place(a)
  BY <1>1, <1>2, <1>3, AtItsPlace DEF Working, OnGuest, Place
<1>. QED  BY <1>1, <1>2, <1>4, <1>5 DEF Whereabouts, Fits, Machines

LEMMA ReconfigureFits ==
  ASSUME IInv, Whereabouts, NEW a \in Actors, reconfigureGuestIp(a)
  PROVE  Fits(a)'
<1>. DEFINE to == job[a].to
            m == [pve[to] EXCEPT !.ip = to]
<1>1. /\ Active(a) /\ HasCopy(a) /\ UNCHANGED meddled /\ pairs' \subseteq pairs
      /\ Place(a) \in Places /\ to \in Places /\ to # Place(a) /\ DOMAIN pve = Places
      /\ Has(to) => DOMAIN pve[to] = MachineFields
  BY CopySteps
<1>2. End(a) \/ (At(a, "reconfigure") /\ Go(a, "start") /\ Has(to) /\ pve' = Put(to, m))
  BY DEF reconfigureGuestIp, Remote
<1>3. CASE At(a, "reconfigure") /\ Go(a, "start") /\ Has(to) /\ pve' = Put(to, m)
  <2>1. Kept(a) /\ Packed(a) /\ job'[a].pc = "start"
    BY <1>1, <1>3, WentOn
  <2>2. DOMAIN m = MachineFields /\ m.id = pve[to].id /\ m.gw = pve[to].gw /\ m.mounts = pve[to].mounts /\ m.ip = to
    BY <1>1, <1>3, MachineEdits
  <2>. HIDE DEF m
  <2>3. pve'[to] = m /\ pve'[Place(a)] = pve[Place(a)] /\ m # Free
    BY <1>1, <1>3, <2>2, MachineShape DEF Put
  <2>4. Has(to)' /\ job'[a].archive = job[a].archive
    BY <2>1, <2>3 DEF Has, Kept, Packed
  <2>5. job[a].pc = "reconfigure"
    BY <1>3 DEF At
  <2>. QED  BY <1>1, <1>3, <2>1, <2>2, <2>3, <2>4, <2>5, CopyFits
<1>. QED  BY <1>2, <1>3, EndFits

LEMMA StartFits ==
  ASSUME IInv, Whereabouts, NEW a \in Actors, StartCopy(a)
  PROVE  Fits(a)'
<1>. DEFINE to == job[a].to
            m == [pve[to] EXCEPT !.up = TRUE]
<1>1. /\ Active(a) /\ HasCopy(a) /\ OnCopy(a) /\ UNCHANGED meddled /\ pairs' \subseteq pairs
      /\ Place(a) \in Places /\ to \in Places /\ to # Place(a) /\ DOMAIN pve = Places
      /\ Has(to) => DOMAIN pve[to] = MachineFields
  BY CopySteps
<1>2. End(a) \/ (At(a, "start") /\ Go(a, "wait") /\ Has(to) /\ pve' = Put(to, m))
  BY DEF StartCopy, Remote
<1>3. CASE At(a, "start") /\ Go(a, "wait") /\ Has(to) /\ pve' = Put(to, m)
  <2>1. Kept(a) /\ Packed(a) /\ job'[a].pc = "wait"
    BY <1>1, <1>3, WentOn
  <2>2. /\ DOMAIN m = MachineFields /\ m.id = pve[to].id /\ m.gw = pve[to].gw /\ m.mounts = pve[to].mounts
        /\ m.ip = pve[to].ip
    BY <1>1, <1>3, MachineEdits
  <2>. HIDE DEF m
  <2>3. pve'[to] = m /\ pve'[Place(a)] = pve[Place(a)] /\ m # Free
    BY <1>1, <1>3, <2>2, MachineShape DEF Put
  <2>4. Has(to)' /\ job'[a].archive = job[a].archive
    BY <2>1, <2>3 DEF Has, Kept, Packed
  <2>5. job[a].alone => pve[to].ip = to
    BY <1>1, <1>3 DEF OnCopy, At
  <2>. QED  BY <1>1, <1>3, <2>1, <2>2, <2>3, <2>4, <2>5, CopyFits
<1>. QED  BY <1>2, <1>3, EndFits

LEMMA WaitFits ==
  ASSUME IInv, Whereabouts, NEW a \in Actors, waitForGuestRunning(a)
  PROVE  Fits(a)'
<1>. DEFINE to == job[a].to
<1>1. Active(a) /\ HasCopy(a) /\ OnCopy(a) /\ UNCHANGED meddled /\ pairs' \subseteq pairs
  BY CopySteps
<1>2. pve' = pve /\ (End(a) \/ (At(a, "wait") /\ Go(a, "acl") /\ Up(to)))
  BY DEF waitForGuestRunning, Remote
<1>3. CASE At(a, "wait") /\ Go(a, "acl") /\ Up(to)
  <2>1. Kept(a) /\ Packed(a) /\ job'[a].pc = "acl"
    BY <1>1, <1>3, WentOn
  <2>2. job'[a].archive = job[a].archive /\ Has(to) /\ Has(to)' /\ Up(to)'
    BY <1>2, <1>3, <2>1 DEF Has, Up, Kept, Packed
  <2>3. job[a].alone => pve[to].ip = to
    BY <1>1, <1>3 DEF OnCopy, At
  <2>. QED  BY <1>1, <1>2, <2>1, <2>2, <2>3, CopyFits
<1>. QED  BY <1>2, <1>3, EndFits

LEMMA AclFits ==
  ASSUME IInv, Whereabouts, NEW a \in Actors, copyGuestAcls(a)
  PROVE  Fits(a)'
<1>. DEFINE to == job[a].to
            src == Place(a)
            m == [pve[to] EXCEPT !.acl = @ \cup pve[src].acl]
            r == [job[a] EXCEPT !.pc = "destroy", !.failed = {"acl"}]
<1>1. /\ Active(a) /\ Working(job[a]) /\ HasCopy(a) /\ OnCopy(a) /\ OnArchive(a) /\ UNCHANGED meddled /\ pairs' \subseteq pairs
      /\ src \in Places /\ to \in Places /\ to # src /\ DOMAIN pve = Places
      /\ Has(to) => DOMAIN pve[to] = MachineFields
  BY CopySteps
<1>2. /\ At(a, "acl")
      /\ \/ Has(src) /\ Has(to) /\ pve' = Put(to, m) /\ Go(a, "destroy")
         \/ (pve' = pve \/ (Has(to) /\ pve' = Put(to, m))) /\ Set(a, r)
  BY DEF copyGuestAcls, Remote
<1>3. Kept(a) /\ job'[a].archive = job[a].archive /\ job'[a].pc = "destroy" /\ (job'[a].failed # {} \/ Go(a, "destroy"))
  <2>1. CASE Go(a, "destroy")
    BY <1>1, <2>1, WentOn DEF Packed
  <2>2. CASE Set(a, r)
    <3>1. /\ r.op = job[a].op /\ r.to = job[a].to /\ r.entry = job[a].entry /\ r.id = job[a].id
          /\ r.alone = job[a].alone /\ r.archive = job[a].archive /\ r.failed = {"acl"} /\ r.pc = "destroy"
      BY <1>1 DEF Working, JobFields
    <3>. HIDE DEF r
    <3>2. job'[a] = r
      BY <2>2, SetOne
    <3>. QED  BY <3>1, <3>2 DEF Kept
  <2>. QED  BY <1>2, <2>1, <2>2
<1>4. ASSUME Has(to)
      PROVE  /\ DOMAIN m = MachineFields /\ m.id = pve[to].id /\ m.gw = pve[to].gw /\ m.mounts = pve[to].mounts
             /\ m.ip = pve[to].ip /\ m.up = pve[to].up /\ m.acl = pve[to].acl \cup pve[src].acl /\ m # Free
  BY <1>1, <1>4, MachineShape
<1>5. Has(to) => Put(to, m)[to] = m /\ Put(to, m)[src] = pve[src]
  BY <1>1 DEF Put
<1>. HIDE DEF m, r
<1>6. /\ pve'[src] = pve[src] /\ (Has(to)' => Has(to))
      /\ Has(to) =>
           /\ Has(to)' /\ pve'[to].id = pve[to].id /\ pve'[to].gw = pve[to].gw /\ pve'[to].mounts = pve[to].mounts
           /\ pve'[to].ip = pve[to].ip /\ pve'[to].up = pve[to].up
  <2>1. CASE pve' = pve
    BY <1>3, <2>1 DEF Has, Kept
  <2>2. CASE Has(to) /\ pve' = Put(to, m)
    BY <1>3, <1>4, <1>5, <2>2 DEF Has, Kept
  <2>. QED  BY <1>2, <2>1, <2>2
<1>7. job[a].alone => pve[to].ip = to /\ Up(to)
  BY <1>1, <1>2 DEF OnCopy, At
<1>8. job[a].alone => pve'[to].ip = to /\ Up(to)'
  BY <1>3, <1>6, <1>7 DEF Up, Kept
<1>9. job[a].alone => job[a].archive.acl \subseteq pve'[to].acl \/ job'[a].failed # {}
  <2>1. CASE Has(src) /\ Has(to) /\ pve' = Put(to, m) /\ Go(a, "destroy")
    <3>1. pve'[to].acl = pve[to].acl \cup pve[src].acl
      BY <1>4, <1>5, <2>1
    <3>2. job[a].alone => job[a].archive.acl \subseteq pve[src].acl
      BY <1>1, <2>1 DEF OnArchive, HasCopy
    <3>. QED  BY <3>1, <3>2
  <2>2. CASE Set(a, r)
    <3>1. r.failed = {"acl"}
      BY <1>1 DEF r, Working, JobFields
    <3>2. job'[a] = r
      BY <2>2, SetOne
    <3>. QED  BY <3>1, <3>2
  <2>. QED  BY <1>2, <2>1, <2>2
<1>. QED  BY <1>1, <1>3, <1>6, <1>8, <1>9, CopyFits

LEMMA DestroySourceFits ==
  ASSUME IInv, Whereabouts, NEW a \in Actors, DestroySource(a)
  PROVE  Fits(a)'
<1>. DEFINE to == job[a].to
            src == Place(a)
<1>1. /\ Active(a) /\ HasCopy(a) /\ OnCopy(a) /\ UNCHANGED meddled /\ pairs' \subseteq pairs
      /\ src \in Places /\ to \in Places /\ to # src /\ DOMAIN pve = Places
  BY CopySteps
<1>2. At(a, "destroy") /\ Go(a, "reread") /\ pve' \in {pve, Put(src, Free)}
  BY DEF DestroySource, Remote
<1>3. Kept(a) /\ Packed(a) /\ job'[a].pc = "reread"
  BY <1>1, <1>2, WentOn
<1>4. pve'[to] = pve[to] /\ pve'[src] \in {pve[src], Free}
  BY <1>1, <1>2 DEF Put
<1>5. job'[a].archive = job[a].archive /\ (Has(to)' <=> Has(to)) /\ (Up(to) => Up(to)')
  BY <1>3, <1>4 DEF Has, Up, Kept, Packed
<1>6. job[a].alone => /\ pve[to].ip = to /\ Up(to)
                      /\ job[a].archive.acl \subseteq pve[to].acl \/ job[a].failed # {}
  BY <1>1, <1>2 DEF OnCopy, At
<1>7. job'[a].failed = job[a].failed
  BY <1>3 DEF Packed
<1>. QED  BY <1>1, <1>3, <1>4, <1>5, <1>6, <1>7, CopyFits

LEMMA MigrateFits ==
  ASSUME IInv, Whereabouts, NEW a \in Actors, Migrate(a)
  PROVE  Fits(a)'
BY CheckFits, BackupFits, SourceStatusFits, StopSourceFits, RestoreFits, ReconfigureFits, StartFits, WaitFits, AclFits,
   DestroySourceFits DEF Migrate

\* A machine whose fields change is the same machine.
LEMMA EditSame ==
  ASSUME Machines, NEW p \in Places, NEW m, pve' \in {pve, Put(p, m)}, pve' # pve => Has(p),
         \E v : m \in {[pve[p] EXCEPT !.up = v], [pve[p] EXCEPT !.acl = v], [pve[p] EXCEPT !.gw = v],
                       [pve[p] EXCEPT !.mounts = v], [pve[p] EXCEPT !.fstab = v]}
  PROVE  pve'[p] # Free => Has(p) /\ pve'[p].id = pve[p].id
<1>1. CASE pve' = pve
  BY <1>1 DEF Has
<1>2. CASE pve' # pve
  <2>1. Has(p) /\ DOMAIN pve[p] = MachineFields /\ DOMAIN pve = Places
    BY <1>2 DEF Machines
  <2>2. m.id = pve[p].id
    BY <2>1, MachineShape
  <2>3. pve'[p] = m
    BY <1>2, <2>1 DEF Put
  <2>. QED  BY <2>1, <2>2, <2>3
<1>. QED  BY <1>1, <1>2

LEMMA DeleteFits ==
  ASSUME IInv, Whereabouts, NEW a \in Actors, Delete(a)
  PROVE  Fits(a)'
<1>1. Active(a) /\ UNCHANGED meddled
  BY DEF Delete, Teardown, GuestStatus, StopGuest, Stop, Dump, DestroyGuest, Remote, Look, At, Active
<1>2. Working(job[a]) /\ job[a].op = "delete-guest"
  <2>1. Working(job[a])
    BY <1>1, AtWork DEF Active
  <2>2. CASE Teardown(a) \/ Dump(a)
    BY <2>1, <2>2 DEF Teardown, Dump, Working, OpAt, At
  <2>. QED  BY <2>1, <2>2 DEF Delete, GuestStatus, StopGuest, DestroyGuest, Doing
<1>3. End(a) \/ \E pc \in {"status", "stop", "dump", "destroy", "reread"} : Go(a, pc)
  BY DEF Delete, Teardown, GuestStatus, StopGuest, Stop, Dump, DestroyGuest, BeforeDestroy, Remote, Look
<1>4. Place(a) \in Places /\ Machines
  BY <1>1, <1>2, AtItsPlace DEF OnGuest, Whereabouts
<1>5. pve'[Place(a)] # Free => Has(Place(a)) /\ pve'[Place(a)].id = pve[Place(a)].id
  <2>1. CASE StopGuest(a)
    <3>1. /\ pve' \in {pve, Put(Place(a), [pve[Place(a)] EXCEPT !.up = FALSE])}
          /\ pve' # pve => Has(Place(a))
      BY <2>1 DEF StopGuest, Stop, Remote, Up
    <3>. QED  BY <1>4, <3>1, EditSame
  <2>2. CASE DestroyGuest(a)
    <3>1. pve' \in {pve, Put(Place(a), Free)}
      BY <2>2 DEF DestroyGuest, Remote
    <3>. QED  BY <1>4, <3>1 DEF Put, Machines, Has
  <2>3. CASE Teardown(a) \/ GuestStatus(a) \/ Dump(a)
    <3>1. pve' = pve
      BY <2>3 DEF Teardown, GuestStatus, Dump, Look, Remote
    <3>. QED  BY <3>1 DEF Has
  <2>. QED  BY <2>1, <2>2, <2>3 DEF Delete
<1>6. ASSUME NEW pc \in {"status", "stop", "dump", "destroy", "reread"}, Go(a, pc)
      PROVE  Fits(a)'
  <2>1. Kept(a) /\ job'[a].pc = pc
    BY <1>1, <1>6, WentOn
  <2>2. Has(Place(a))' => pve'[Place(a)] # Free
    BY <2>1 DEF Has, Place, Kept
  <2>. QED  BY <1>1, <1>2, <1>5, <2>1, <2>2, PlainFits DEF Creates
<1>. QED  BY <1>3, <1>6, EndFits

LEMMA CreateFits ==
  ASSUME IInv, Whereabouts, NEW a \in Actors, Create(a)
  PROVE  Fits(a)'
<1>1. Active(a) /\ UNCHANGED meddled
  BY DEF Create, CreateGuest, ProvisionAgent, AttachNew, Probe, grantCreatorAccess, Remote, Look, At, Active
<1>2. Working(job[a]) /\ job[a].op \in Creates \cup {"edit-guest"}
  <2>1. Working(job[a])
    BY <1>1, AtWork DEF Active
  <2>. QED  BY <2>1 DEF Create, CreateGuest, ProvisionAgent, AttachNew, Probe, grantCreatorAccess, Working, OpAt, At, Creates
<1>3. record(job[a]) \in {"probe", "reread"}
  BY DEF record
<1>4. CASE CreateGuest(a)
  <2>1. job[a].op \in Creates
    BY <1>2, <1>4 DEF CreateGuest, Working, OpAt, At
  <2>2. End(a) \/ \E pc \in {"nfs", "probe", "reread", "agent"} : Go(a, pc)
    <3>1. /\ createLxc(job[a]).next \in {"nfs", "probe", "reread"} /\ createVm(job[a]).next \in {"probe", "reread"}
          /\ installApp(job[a]).next \in {"nfs", "probe", "reread"} /\ deployVpnGateway(job[a]).next = "agent"
      BY <1>3 DEF createLxc, createVm, installApp, deployVpnGateway
    <3>. QED  BY <1>4, <2>1, <3>1 DEF CreateGuest, Remote, Creates
  <2>3. ~End(a) => pve'[job[a].to].id = job[a].id
    BY <1>4, CreateEffects
  <2>4. ASSUME NEW pc \in {"nfs", "probe", "reread", "agent"}, Go(a, pc), ~End(a)
        PROVE  Fits(a)'
    <3>1. Kept(a) /\ job'[a].pc = pc
      BY <1>1, <2>4, WentOn
    <3>. QED  BY <1>1, <2>1, <2>3, <2>4, <3>1, PlainFits DEF Creates, OnGuest
  <2>. QED  BY <2>2, <2>4, EndFits
<1>5. CASE AttachNew(a)
  <2>1. job[a].op \in Creates /\ job[a].pc = "nfs"
    BY <1>2, <1>5 DEF AttachNew, Working, OpAt, At
  <2>2. End(a) \/ \E pc \in {"probe", "reread"} : Go(a, pc)
    BY <1>3, <1>5 DEF AttachNew, Remote
  <2>3. /\ pve' \in {pve, Put(job[a].to, [pve[job[a].to] EXCEPT !.mounts = {<<0, "new">>}])}
        /\ pve' # pve => Has(job[a].to)
    BY <1>5 DEF AttachNew, Remote
  <2>4. job[a].to \in Places /\ Machines
    BY <1>1, <2>1, AtItsPlace DEF Whereabouts
  <2>5. pve'[job[a].to] # Free => Has(job[a].to) /\ pve'[job[a].to].id = pve[job[a].to].id
    BY <2>3, <2>4, EditSame
  <2>6. ASSUME NEW pc \in {"probe", "reread"}, Go(a, pc)
        PROVE  Fits(a)'
    <3>1. Kept(a) /\ job'[a].pc = pc
      BY <1>1, <2>6, WentOn
    <3>2. Has(job[a].to)' => pve'[job[a].to] # Free
      BY <3>1 DEF Has, Kept
    <3>. QED  BY <1>1, <2>1, <2>5, <3>1, <3>2, PlainFits DEF Creates, OnGuest
  <2>. QED  BY <2>2, <2>6, EndFits
<1>6. CASE ProvisionAgent(a) \/ Probe(a)
  <2>1. UNCHANGED pve /\ (End(a) \/ Go(a, "reread")) /\ job[a].pc \in {"agent", "probe"}
    BY <1>6 DEF ProvisionAgent, Probe, Look, Remote, At
  <2>2. ASSUME Go(a, "reread") PROVE Fits(a)'
    <3>1. Kept(a) /\ job'[a].pc = "reread"
      BY <1>1, <2>2, WentOn
    <3>. QED  BY <1>1, <1>2, <2>1, <3>1, PlainLooks DEF Creates
  <2>. QED  BY <2>1, <2>2, EndFits
<1>7. CASE grantCreatorAccess(a)
  BY <1>7, EndFits DEF grantCreatorAccess, Remote
<1>. QED  BY <1>4, <1>5, <1>6, <1>7 DEF Create

LEMMA ChangeFits ==
  ASSUME IInv, Whereabouts, NEW a \in Actors, Change(a)
  PROVE  Fits(a)'
<1>1. Active(a) /\ UNCHANGED meddled
  BY DEF Change, GuestPower, ReadNet0, SetNet0Gateway, ConfigureDns, Reboot, ReadMounts, Unmount, AttachMount,
         Verify, ConfigureGuest, ScanHost, Remote, Look, At, Active
<1>2. Working(job[a])
  BY <1>1, AtWork DEF Active
<1>3. CASE GuestPower(a) \/ Verify(a) \/ ConfigureGuest(a)
  BY <1>3, EndFits DEF GuestPower, Verify, ConfigureGuest, Look, Remote
<1>4. CASE ReadNet0(a) \/ ConfigureDns(a) \/ Reboot(a)
  <2>1. UNCHANGED pve /\ job[a].op = "set-guest-vpn" /\ job[a].pc \in {"config", "dns", "reboot"}
    BY <1>2, <1>4 DEF ReadNet0, ConfigureDns, Reboot, Remote, Doing, Working, OpAt, At
  <2>2. End(a) \/ \E pc \in {"set", "reboot", "reread"} : Go(a, pc)
    BY <1>4 DEF ReadNet0, ConfigureDns, Reboot, Remote
  <2>3. ASSUME NEW pc \in {"set", "reboot", "reread"}, Go(a, pc) PROVE Fits(a)'
    <3>1. Kept(a) /\ job'[a].pc = pc
      BY <1>1, <2>3, WentOn
    <3>. QED  BY <1>1, <2>1, <3>1, PlainLooks
  <2>. QED  BY <2>2, <2>3, EndFits
<1>5. CASE SetNet0Gateway(a) \/ Unmount(a) \/ AttachMount(a)
  <2>1. job[a].op \in {"set-guest-vpn"} \cup Mounts
    BY <1>2, <1>5 DEF SetNet0Gateway, Unmount, AttachMount, Working, OpAt, At
  <2>2. End(a) \/ \E pc \in {"dns", "attach", "verify"} : Go(a, pc)
    BY <1>5 DEF SetNet0Gateway, Unmount, AttachMount, Remote
  <2>3. Place(a) \in Places /\ Machines
    BY <1>1, <2>1, AtItsPlace DEF OnGuest, Mounts, Whereabouts
  <2>4. /\ pve' # pve => Has(Place(a))
        /\ \E m : /\ pve' \in {pve, Put(Place(a), m)}
                  /\ \E v : m \in {[pve[Place(a)] EXCEPT !.up = v], [pve[Place(a)] EXCEPT !.acl = v],
                                   [pve[Place(a)] EXCEPT !.gw = v], [pve[Place(a)] EXCEPT !.mounts = v],
                                   [pve[Place(a)] EXCEPT !.fstab = v]}
    BY <1>5 DEF SetNet0Gateway, Unmount, AttachMount, Remote, Up
  <2>5. pve'[Place(a)] # Free => Has(Place(a)) /\ pve'[Place(a)].id = pve[Place(a)].id
    BY <2>3, <2>4, EditSame
  <2>6. ASSUME NEW pc \in {"dns", "attach", "verify"}, Go(a, pc) PROVE Fits(a)'
    <3>1. Kept(a) /\ job'[a].pc = pc
      BY <1>1, <2>6, WentOn
    <3>2. Has(Place(a))' => pve'[Place(a)] # Free
      BY <3>1 DEF Has, Place, Kept
    <3>. QED  BY <1>1, <2>1, <2>5, <3>1, <3>2, PlainFits DEF Creates, Mounts
  <2>. QED  BY <2>2, <2>6, EndFits
<1>6. CASE ReadMounts(a)
  <2>1. UNCHANGED pve /\ job[a].op \in Mounts /\ job[a].pc = "config"
    BY <1>6 DEF ReadMounts, Remote, Doing, At
  <2>2. End(a) \/ \E pc \in {"unmount", "attach"} : \E found : Set(a, [job[a] EXCEPT !.pc = pc, !.found = found])
    BY <1>6 DEF ReadMounts, Remote
  <2>3. ASSUME NEW pc \in {"unmount", "attach"}, NEW found, Set(a, [job[a] EXCEPT !.pc = pc, !.found = found])
        PROVE  Fits(a)'
    <3>1. job'[a] = [job[a] EXCEPT !.pc = pc, !.found = found]
      BY <2>3, SetOne
    <3>2. Kept(a) /\ job'[a].pc = pc
      BY <1>2, <3>1 DEF Kept, Working, JobFields
    <3>. QED  BY <1>1, <2>1, <3>2, PlainLooks DEF Mounts
  <2>. QED  BY <2>2, <2>3, EndFits
<1>7. CASE ScanHost(a)
  <2>1. UNCHANGED pve /\ job[a].op = "sync-inventory" /\ job[a].pc = "scan"
    BY <1>2, <1>7 DEF ScanHost, Look, Remote, Working, OpAt, At
  <2>. DEFINE h == CHOOSE x \in job[a].todo : TRUE
              rest == job[a].todo \ {h}
              pc == IF rest = {} THEN "reread" ELSE "scan"
              next == [job[a] EXCEPT !.todo = rest, !.pc = pc]
              Heard(r) == [r EXCEPT !.found = @ \cup Listed(h, mem[ProcOf(a)].guests)]
              Missed(r) == [r EXCEPT !.failed = @ \cup {h}]
  <2>2. job'[a] = Heard(next) \/ job'[a] = Missed(next)
    <3>1. Set(a, Heard(next)) \/ Set(a, Missed(next))
      BY <1>7 DEF ScanHost, Look, Remote
    <3>. QED  BY <3>1, SetOne
  <2>. HIDE DEF h, rest
  <2>3. /\ next.op = job[a].op /\ next.to = job[a].to /\ next.entry = job[a].entry /\ next.id = job[a].id
        /\ next.alone = job[a].alone /\ next.pc \in {"reread", "scan"} /\ DOMAIN next = JobFields
    BY <1>2 DEF Working, JobFields
  <2>. HIDE DEF next
  <2>4. \A r : DOMAIN r = JobFields =>
          \A t \in {Heard(r), Missed(r)} :
            t.op = r.op /\ t.to = r.to /\ t.entry = r.entry /\ t.id = r.id /\ t.alone = r.alone /\ t.pc = r.pc
    BY DEF JobFields
  <2>. HIDE DEF Heard, Missed
  <2>5. Kept(a) /\ job'[a].pc \in {"reread", "scan"}
    BY <2>2, <2>3, <2>4 DEF Kept
  <2>. QED  BY <1>1, <2>1, <2>5, PlainLooks
<1>. QED  BY <1>3, <1>4, <1>5, <1>6, <1>7 DEF Change

\* While a command records its result nothing moves.
LEMMA RecordFits ==
  ASSUME IInv, Whereabouts, NEW a \in Actors, Active(a), UNCHANGED <<pve, meddled>>, pairs' \subseteq pairs,
         job[a].pc \in {"reread", "save", "push"}, job'[a].pc \in {"save", "push", "grant"}, Kept(a), Packed(a)
  PROVE  Fits(a)'
<1>1. CASE job[a].op # "migrate-guest"
  BY <1>1, PlainLooks
<1>2. CASE job[a].op = "migrate-guest"
  <2>1. OnSource(a) /\ OnArchive(a) /\ OnCopy(a)
    BY DEF Whereabouts, Fits
  <2>2. OnSource(a)'
    BY <2>1 DEF OnSource, Its, Has, Of, At, Place, Kept
  <2>3. OnCreated(a)'
    BY <1>2 DEF OnCreated, Kept, Creates
  <2>4. OnArchive(a)'
    BY <1>2, <2>1 DEF OnArchive, Has, Up, Of, At, Place, Kept, Packed
  <2>5. OnCopy(a)'
    BY <1>2, <2>1 DEF OnCopy, HasCopy, Its, Has, Up, Of, At, Kept, Packed
  <2>. QED  BY <2>2, <2>3, <2>4, <2>5 DEF Fits
<1>. QED  BY <1>1, <1>2

-----------------------------------------------------------------------------
(* Whereabouts is invariant. *)

Whereabouts0 == Machines /\ Requested /\ Apart /\ (\A a \in Actors : Fits(a)) /\ SourcesRest

LEMMA WorkKeeps ==
  ASSUME IInv, Whereabouts, NEW a \in Actors, Active(a), Effects(a), Fits(a)', NEW r, Set(a, r),
         r = Idle \/ Same(r, job[a])
  PROVE  Whereabouts0'
<1>1. DOMAIN job' = Actors /\ job'[a] = r /\ \A b \in Actors \ {a} : job'[b] = job[b]
  BY SetOne
<1>2. Machines' /\ SourcesRest' /\ Works(a) /\ Remembers(a) /\ UNCHANGED meddled
  BY DEF Effects
<1>3. \A b \in Actors \ {a} : Fits(b)'
  BY <1>1, <1>2, OthersFit
<1>4. \A b \in Actors : Active(b)' => Active(b) /\ Same(job'[b], job[b])
  BY <1>1 DEF Active, At, Idle, Same
<1>5. Requested'
  BY <1>4 DEF Whereabouts, Requested, Same
<1>6. \A b \in Actors : Active(b)' => TouchedBy(b)' = TouchedBy(b)
  BY <1>4 DEF TouchedBy, Touches, Same
<1>7. Apart'
  BY <1>2, <1>4, <1>6 DEF Whereabouts, Apart, Same
<1>. QED  BY <1>2, <1>3, <1>5, <1>7 DEF Whereabouts0

\* What is said of a job stays so while Proxmox does, and more is known of
\* who met whom.
LEMMA StillFits ==
  ASSUME NEW b \in Actors, Fits(b), UNCHANGED <<pve, pairs>>, meddled \subseteq meddled', job'[b].pc = job[b].pc,
         job'[b].op = job[b].op, job'[b].to = job[b].to, job'[b].entry = job[b].entry, job'[b].id = job[b].id,
         job'[b].alone => job[b].alone, Packed(b)
  PROVE  Fits(b)'
<1>. SUFFICES ASSUME Active(b) PROVE (OnSource(b) /\ OnCreated(b) /\ OnArchive(b) /\ OnCopy(b))'
  BY DEF Fits, Active, At
<1>1. OnSource(b) /\ OnCreated(b) /\ OnArchive(b) /\ OnCopy(b)
  BY DEF Fits
<1>2. OnSource(b)'
  BY <1>1 DEF OnSource, Its, Has, Of, At, Place
<1>3. OnCreated(b)'
  BY <1>1 DEF OnCreated, Its, Has, Of
<1>4. OnArchive(b)'
  BY <1>1 DEF OnArchive, Has, Up, Of, At, Place, Packed
<1>5. OnCopy(b)'
  BY <1>1 DEF OnCopy, HasCopy, Its, Has, Up, Of, At, Packed
<1>. QED  BY <1>2, <1>3, <1>4, <1>5

\* Two that touch the same meet, unless they are of one process and one of
\* them touches nothing.
LEMMA MeetOrApart ==
  ASSUME Requested, NEW a \in Actors, NEW r \in Requests, r.by = a, NEW e, NEW b \in Actors \ {a}, Active(b),
         TouchedBy(b) \cap Touches(r, e) # {}
  PROVE  b \in Meet(a, r, e)
<1>1. PICK s \in Requests : s.by = b /\ s.op = job[b].op
  BY DEF Requested
<1>2. job[b].op \notin {"edit-guest", "set-config"} /\ r.op \notin {"edit-guest", "set-config"}
  BY DEF TouchedBy, Touches
<1>3. ProcOf(b) # ProcOf(a)
  BY <1>1, <1>2, WorkersAssumption
<1>. QED  BY <1>3 DEF Meet, TouchedBy, Active, At

LEMMA MigrationBy ==
  ASSUME NEW j, NEW k, k.name = j.name, k.to = j.to, NEW d
  PROVE  recordMigration(k, d) = recordMigration(j, d)
<1>. DEFINE G(name, to) == [d EXCEPT !.guests = {IF e.name = name THEN [e EXCEPT !.place = to, !.ip = to] ELSE e : e \in @}]
<1>1. recordMigration(k, d) = G(k.name, k.to) /\ recordMigration(j, d) = G(j.name, j.to)
  BY DEF recordMigration, Change1
<1>. HIDE DEF G
<1>. QED  BY <1>1

LEMMA BeginWhereabouts ==
  ASSUME IInv, Whereabouts, IInv', NEW a \in Actors, NEW r \in Requests, Begin(a, r)
  PROVE  Whereabouts'
<1>. DEFINE e == target(disk, r)
            met == Meet(a, r, e)
            id == IF r.op \in OnGuest /\ r.name \in Names(disk.guests)
                  THEN pve[Guest(disk.guests, r.name).place].id ELSE NewId
            new == [pc |-> firstStep(r, e), op |-> r.op, name |-> r.name, to |-> r.to,
                    mode |-> r.mode, body |-> r.body, entry |-> e, id |-> id,
                    gw |-> gatewayIp(disk, r), inv |-> disk, archive |-> NoArchive,
                    todo |-> Hosts, found |-> {}, failed |-> {},
                    alone |-> Meet(a, r, e) = {}, torn |-> FALSE]
<1>1. /\ r.by = a /\ ~refuses(disk, r) /\ UNCHANGED <<pve, disk, pairs>>
      /\ meddled' = meddled \cup {job[b].id : b \in met} \cup (IF met # {} \/ r.op = "guest-power" THEN {id} ELSE {})
  BY DEF Begin, refreshInventory, loadInventory
<1>2. /\ DOMAIN job' = Actors
      /\ \A b \in Actors \ {a} : job'[b] = IF b \in met THEN [job[b] EXCEPT !.alone = FALSE] ELSE job[b]
  BY DEF Begin, refreshInventory, loadInventory
<1>3. job'[a] = new
  <2>1. a \notin met
    BY DEF Meet
  <2>. QED  BY <2>1 DEF Begin, refreshInventory, loadInventory
<1>4. /\ new.pc = firstStep(r, e) /\ new.op = r.op /\ new.name = r.name /\ new.to = r.to /\ new.entry = e /\ new.id = id
      /\ new.alone = (met = {}) /\ new.torn = FALSE
  OBVIOUS
<1>5. r.op \in OnGuest \ {"edit-guest"} => e = Guest(disk.guests, r.name) /\ id = pve[e.place].id
  BY <1>1 DEF target, refuses
<1>6. /\ r.op \in Creates => firstStep(r, e) \in {"check", "create"}
      /\ r.op = "migrate-guest" => firstStep(r, e) = "check"
      /\ firstStep(r, e) = "guest-power" => r.op = "guest-power"
      /\ firstStep(r, e) \notin {"idle", "save"}
  BY RequestsAssumption DEF firstStep, Creates, Mounts, Ops, OnGuest
<1>. HIDE DEF e, id, new
<1>7. /\ \A b \in Actors \ {a} : Active(b)' = Active(b)
      /\ \A b \in Actors \ {a} : Active(b) =>
           /\ job'[b].pc = job[b].pc /\ job'[b].op = job[b].op /\ job'[b].name = job[b].name /\ job'[b].to = job[b].to
           /\ job'[b].entry = job[b].entry /\ job'[b].id = job[b].id /\ (job'[b].alone => job[b].alone /\ b \notin met)
           /\ Packed(b) /\ job'[b].inv = job[b].inv /\ job'[b].torn = job[b].torn
  <2>1. SUFFICES ASSUME NEW b \in Actors \ {a}
                 PROVE  /\ Active(b)' = Active(b)
                        /\ Active(b) =>
                             /\ job'[b].pc = job[b].pc /\ job'[b].op = job[b].op /\ job'[b].name = job[b].name
                             /\ job'[b].to = job[b].to /\ job'[b].entry = job[b].entry /\ job'[b].id = job[b].id
                             /\ (job'[b].alone => job[b].alone /\ b \notin met)
                             /\ Packed(b) /\ job'[b].inv = job[b].inv /\ job'[b].torn = job[b].torn
    BY Zenon
  <2>2. CASE b \notin met
    BY <1>2, <2>2 DEF Active, At, Packed
  <2>3. CASE b \in met
    <3>1. Active(b)
      BY <2>3 DEF Meet, Active, At
    <3>2. Working(job[b]) /\ job'[b] = [job[b] EXCEPT !.alone = FALSE]
      BY <1>2, <2>3, <3>1, AtWork DEF Active
    <3>. QED  BY <3>1, <3>2 DEF Working, JobFields, Active, At, Packed
  <2>. QED  BY <2>2, <2>3
<1>8. Machines' /\ SourcesRest'
  BY <1>1 DEF Whereabouts, Machines, SourcesRest, Has, Up
<1>9. Requested'
  BY <1>1, <1>3, <1>4, <1>7 DEF Whereabouts, Requested
<1>10. ASSUME NEW b \in Actors PROVE Fits(b)'
  <2>1. CASE b = a
    <3>1. OnSource(a)'
      BY <1>1, <1>3, <1>4, <1>5, <1>6 DEF OnSource, Its, Has, Of, At, Place
    <3>2. OnCreated(a)' /\ OnArchive(a)' /\ OnCopy(a)'
      BY <1>3, <1>4, <1>6 DEF OnCreated, OnArchive, OnCopy, HasCopy
    <3>. QED  BY <2>1, <3>1, <3>2 DEF Fits
  <2>2. CASE b # a /\ ~Active(b)
    BY <1>7, <2>2 DEF Fits
  <2>3. CASE b # a /\ Active(b)
    BY <1>1, <1>7, <2>3, StillFits DEF Whereabouts
  <2>. QED  BY <2>1, <2>2, <2>3
<1>11. Apart'
  <2>1. ~job'[a].alone => job'[a].id \in meddled'
    BY <1>1, <1>3, <1>4
  <2>2. ASSUME NEW b \in Actors \ {a}, Active(b)
        PROVE  /\ ~job'[b].alone => job'[b].id \in meddled'
               /\ b \in met => ~job'[b].alone /\ job'[b].id \in meddled' /\ ~job'[a].alone /\ job'[a].id \in meddled'
    <3>1. CASE b \in met
      BY <1>1, <1>3, <1>4, <1>7, <2>2, <3>1
    <3>2. CASE b \notin met
      BY <1>1, <1>2, <2>2, <3>2 DEF Whereabouts, Apart
    <3>. QED  BY <3>1, <3>2
  <2>3. TouchedBy(a)' = Touches(r, e) /\ \A b \in Actors \ {a} : Active(b) => TouchedBy(b)' = TouchedBy(b)
    BY <1>3, <1>4, <1>7 DEF TouchedBy, Touches
  <2>4. \A b \in Actors \ {a} : Active(b) /\ TouchedBy(b)' \cap TouchedBy(a)' # {} => b \in met
    BY <1>1, <2>3, MeetOrApart DEF Whereabouts
  <2>5. ASSUME NEW b \in Actors \ {a}, NEW c \in Actors \ {a}, b # c, Active(b), Active(c),
               TouchedBy(b) \cap TouchedBy(c) # {}
        PROVE  ~job'[b].alone /\ job'[b].id \in meddled'
    BY <1>1, <1>7, <2>5 DEF Whereabouts, Apart
  <2>6. ASSUME NEW b \in Actors, NEW c \in Actors, b # c, Active(b)', Active(c)',
               TouchedBy(b)' \cap TouchedBy(c)' # {}
        PROVE  ~job'[b].alone /\ job'[b].id \in meddled'
    <3>1. CASE b = a \/ c = a
      BY <1>7, <2>2, <2>4, <2>6, <3>1
    <3>2. CASE b # a /\ c # a
      BY <1>7, <2>3, <2>5, <2>6, <3>2
    <3>. QED  BY <3>1, <3>2
  <2>. QED  BY <1>7, <2>1, <2>2, <2>6 DEF Apart
<1>12. SavesMigration'
  <2>1. ~At(a, "save")'
    BY <1>3, <1>4, <1>6 DEF At
  <2>2. ASSUME NEW b \in Actors \ {a}, At(b, "save")', job'[b].op = "migrate-guest", ~job'[b].torn
        PROVE  job'[b].inv = recordMigration(job'[b], disk)
    <3>1. Active(b) /\ At(b, "save") /\ job[b].op = "migrate-guest" /\ ~job[b].torn
      BY <1>7, <2>2 DEF Active, At
    <3>2. job[b].inv = recordMigration(job[b], disk)
      BY <3>1 DEF Whereabouts, SavesMigration
    <3>3. recordMigration(job'[b], disk) = recordMigration(job[b], disk)
      BY <1>7, <3>1, MigrationBy
    <3>. QED  BY <1>7, <3>1, <3>2, <3>3
  <2>. QED  BY <1>1, <2>1, <2>2 DEF SavesMigration
<1>. QED  BY <1>8, <1>9, <1>10, <1>11, <1>12 DEF Whereabouts

LEMMA WorkWhereabouts ==
  ASSUME IInv, Whereabouts, NEW a \in Actors, Migrate(a) \/ Delete(a) \/ Create(a) \/ Change(a)
  PROVE  Whereabouts'
<1>1. Moves(a) /\ UNCHANGED disk
  BY MigrateMoves, DeleteMoves, CreateMoves, ChangeMoves
<1>2. PICK r : Set(a, r) /\ (r = Idle \/ (Working(r) /\ r.pc # "save" /\ Same(r, job[a])))
  BY <1>1 DEF Moves
<1>3. Effects(a) /\ Active(a)
  <2>1. CASE Looks(a)
    BY <2>1, LooksEffects
  <2>2. CASE Migrate(a)
    BY <2>1, <2>2, SwitchesEffects, EditsEffects, DestroyEffects, RestoreEffects DEF Migrate, Looks
  <2>3. CASE Delete(a)
    BY <2>1, <2>3, SwitchesEffects, DestroyEffects DEF Delete, Looks
  <2>4. CASE Create(a)
    BY <2>1, <2>4, EditsEffects, CreateEffects DEF Create, Looks
  <2>5. CASE Change(a)
    BY <2>1, <2>5, SwitchesEffects, EditsEffects DEF Change, Looks
  <2>. QED  BY <2>2, <2>3, <2>4, <2>5
<1>4. Fits(a)'
  BY MigrateFits, DeleteFits, CreateFits, ChangeFits
<1>5. Whereabouts0'
  BY <1>2, <1>3, <1>4, WorkKeeps
<1>6. SavesMigration'
  <2>1. job'[a] = r /\ r.pc # "save" /\ \A b \in Actors \ {a} : job'[b] = job[b]
    BY <1>2, SetOne DEF Idle
  <2>. QED  BY <1>1, <2>1 DEF Whereabouts, SavesMigration, At
<1>. QED  BY <1>5, <1>6 DEF Whereabouts, Whereabouts0

LEMMA RereadWhereabouts ==
  ASSUME IInv, Whereabouts, NEW a \in Actors, Reread(a)
  PROVE  Whereabouts'
<1>. DEFINE inv == derived(a, disk, mem[ProcOf(a)])
            r == [job[a] EXCEPT !.pc = "save", !.inv = inv]
<1>1. Active(a) /\ At(a, "reread") /\ UNCHANGED <<pve, disk, pairs, meddled>> /\ Set(a, r)
  BY DEF Reread, Active, At
<1>2. Working(job[a])
  BY <1>1, AtWork DEF Active
<1>3. job[a].op = "migrate-guest" => inv = recordMigration(job[a], disk)
  BY DEF derived, Creates
<1>. HIDE DEF inv
<1>4. /\ Same(r, job[a]) /\ r.pc = "save" /\ r.inv = inv /\ r.archive = job[a].archive /\ r.failed = job[a].failed
      /\ r.name = job[a].name /\ r.to = job[a].to
  BY <1>2 DEF Same, Working, JobFields
<1>. HIDE DEF r
<1>5. job'[a] = r /\ \A b \in Actors \ {a} : job'[b] = job[b]
  BY <1>1, SetOne
<1>6. Fits(a)'
  <2>1. Kept(a) /\ Packed(a) /\ job'[a].pc = "save" /\ job[a].pc = "reread"
    BY <1>1, <1>4, <1>5 DEF Kept, Packed, Same, At
  <2>. QED  BY <1>1, <2>1, RecordFits
<1>7. Effects(a)
  BY <1>1 DEF Effects, Works, Remembers, Whereabouts, Machines, SourcesRest, Has, Up
<1>8. Whereabouts0'
  BY <1>1, <1>4, <1>6, <1>7, WorkKeeps
<1>9. SavesMigration'
  <2>1. r.op = "migrate-guest" => r.inv = recordMigration(r, disk)
    BY <1>3, <1>4, MigrationBy DEF Same
  <2>. QED  BY <1>1, <1>5, <2>1 DEF Whereabouts, SavesMigration, At
<1>. QED  BY <1>8, <1>9 DEF Whereabouts, Whereabouts0

LEMMA PushWhereabouts ==
  ASSUME IInv, Whereabouts, NEW a \in Actors, Push(a)
  PROVE  Whereabouts'
<1>1. Active(a) /\ Effects(a) /\ pve' = pve
  BY LooksEffects DEF Looks
<1>2. At(a, "push") /\ UNCHANGED <<disk, meddled>> /\ pairs' \subseteq pairs /\ (End(a) \/ Go(a, "grant"))
  BY DEF Push, Look, Remote, WithSource
<1>3. Fits(a)'
  <2>1. CASE Go(a, "grant")
    <3>1. Kept(a) /\ Packed(a) /\ job'[a].pc = "grant" /\ job[a].pc = "push"
      BY <1>1, <1>2, <2>1, WentOn DEF At
    <3>. QED  BY <1>1, <1>2, <3>1, RecordFits
  <2>. QED  BY <1>2, <2>1, EndFits
<1>4. \E r : Set(a, r) /\ (r = Idle \/ Same(r, job[a])) /\ r.pc # "save"
  <2>1. Working(job[a])
    BY <1>1, AtWork DEF Active
  <2>2. LET r == [job[a] EXCEPT !.pc = "grant"] IN Same(r, job[a]) /\ r.pc # "save"
    BY <2>1 DEF Same, Working, JobFields
  <2>. QED  BY <1>2, <2>2 DEF End, Go, Idle
<1>5. Whereabouts0'
  BY <1>1, <1>3, <1>4, WorkKeeps
<1>6. SavesMigration'
  <2>1. job'[a].pc # "save" /\ \A b \in Actors \ {a} : job'[b] = job[b]
    BY <1>4, SetOne
  <2>. QED  BY <1>2, <2>1 DEF Whereabouts, SavesMigration, At
<1>. QED  BY <1>5, <1>6 DEF Whereabouts, Whereabouts0

\* A save marks every other one that is under way.
LEMMA SaveWhereabouts ==
  ASSUME IInv, Whereabouts, NEW a \in Actors, saveInventory(a)
  PROVE  Whereabouts'
<1>. DEFINE ok == saveable(job[a].inv.guests)
<1>1. /\ Active(a) /\ At(a, "save") /\ UNCHANGED <<pve, pairs, meddled>> /\ (~ok => UNCHANGED disk)
      /\ DOMAIN job' = Actors
      /\ job'[a] = Idle \/ \E pc \in {"push", "grant"} : job'[a] = [job[a] EXCEPT !.pc = pc]
      /\ \A b \in Actors \ {a} : job'[b] = IF At(b, "save") /\ ok THEN [job[b] EXCEPT !.torn = TRUE] ELSE job[b]
  BY DEF saveInventory, Active, At
<1>. HIDE DEF ok
<1>2. ASSUME NEW b \in Actors \ {a}
      PROVE  /\ Active(b)' = Active(b)
             /\ Active(b) => Same(job'[b], job[b]) /\ Packed(b) /\ job'[b].pc = job[b].pc /\ job'[b].inv = job[b].inv
             /\ Active(b) /\ ~job'[b].torn => ~job[b].torn /\ (At(b, "save") => UNCHANGED disk)
  <2>1. CASE At(b, "save") /\ ok
    <3>1. Active(b) /\ Working(job[b]) /\ job'[b] = [job[b] EXCEPT !.torn = TRUE]
      BY <1>1, <2>1, AtWork DEF Active, At
    <3>. QED  BY <3>1 DEF Working, JobFields, Active, At, Same, Packed
  <2>2. CASE ~(At(b, "save") /\ ok)
    BY <1>1, <2>2 DEF Active, At, Same, Packed
  <2>. QED  BY <2>1, <2>2
<1>3. job'[a] = Idle \/ (Same(job'[a], job[a]) /\ Packed(a) /\ job'[a].pc \in {"push", "grant"})
  <2>1. Working(job[a])
    BY <1>1, AtWork DEF Active
  <2>2. ASSUME NEW pc \in {"push", "grant"}, job'[a] = [job[a] EXCEPT !.pc = pc]
        PROVE  Same(job'[a], job[a]) /\ Packed(a) /\ job'[a].pc = pc
    BY <2>1, <2>2 DEF Working, JobFields, Same, Packed
  <2>. QED  BY <1>1, <2>2
<1>4. Machines' /\ SourcesRest'
  BY <1>1 DEF Whereabouts, Machines, SourcesRest, Has, Up
<1>5. \A b \in Actors : Active(b)' => Active(b) /\ Same(job'[b], job[b])
  BY <1>1, <1>2, <1>3 DEF Active, At, Idle
<1>6. Requested'
  BY <1>5 DEF Whereabouts, Requested, Same
<1>7. Apart'
  <2>1. \A b \in Actors : Active(b)' => TouchedBy(b)' = TouchedBy(b)
    BY <1>5 DEF TouchedBy, Touches, Same
  <2>. QED  BY <1>1, <1>5, <2>1 DEF Whereabouts, Apart, Same
<1>8. ASSUME NEW b \in Actors PROVE Fits(b)'
  <2>1. CASE b = a /\ job'[a] = Idle
    BY <2>1 DEF Fits, Active, At, Idle
  <2>2. CASE b = a /\ job'[a] # Idle
    <3>1. Kept(a) /\ Packed(a) /\ job'[a].pc \in {"push", "grant"} /\ job[a].pc = "save"
      BY <1>1, <1>3, <2>2 DEF Kept, Same, At
    <3>. QED  BY <1>1, <2>2, <3>1, RecordFits
  <2>3. CASE b # a /\ Active(b)
    <3>1. Fits(b) /\ job'[b].pc = job[b].pc /\ job'[b].op = job[b].op /\ job'[b].to = job[b].to /\ job'[b].entry = job[b].entry
          /\ job'[b].id = job[b].id /\ job'[b].alone = job[b].alone /\ Packed(b)
      BY <1>2, <2>3 DEF Same, Whereabouts
    <3>. QED  BY <1>1, <3>1, StillFits
  <2>4. CASE b # a /\ ~Active(b)
    BY <1>2, <2>4 DEF Fits
  <2>. QED  BY <2>1, <2>2, <2>3, <2>4
<1>9. SavesMigration'
  <2>1. SUFFICES ASSUME NEW b \in Actors, At(b, "save")', job'[b].op = "migrate-guest", ~job'[b].torn
                 PROVE  job'[b].inv = recordMigration(job'[b], disk')
    BY DEF SavesMigration
  <2>2. b # a
    BY <1>3, <2>1 DEF At, Idle
  <2>3. Active(b) /\ At(b, "save") /\ job[b].op = "migrate-guest" /\ ~job[b].torn /\ UNCHANGED disk
        /\ job'[b].inv = job[b].inv /\ job'[b].name = job[b].name /\ job'[b].to = job[b].to
    BY <1>2, <2>1, <2>2 DEF Active, At, Same
  <2>4. job[b].inv = recordMigration(job[b], disk)
    BY <2>3 DEF Whereabouts, SavesMigration
  <2>5. recordMigration(job'[b], disk) = recordMigration(job[b], disk)
    BY <2>3, MigrationBy
  <2>. QED  BY <2>3, <2>4, <2>5
<1>. QED  BY <1>4, <1>6, <1>7, <1>8, <1>9 DEF Whereabouts

\* The copy may go down while it is waited for.
LEMMA DiesWhereabouts ==
  ASSUME IInv, Whereabouts, NEW p \in Places, GuestDies(p)
  PROVE  Whereabouts'
<1>. DEFINE m == [pve[p] EXCEPT !.up = FALSE]
<1>1. PICK a \in Actors : At(a, "wait") /\ job[a].to = p
  BY DEF GuestDies
<1>2. /\ Up(p) /\ pve' = Put(p, m) /\ UNCHANGED <<disk, mem, job, meddled, pairs>> /\ DOMAIN pve = Places
      /\ Has(p) /\ DOMAIN pve[p] = MachineFields
  BY DEF GuestDies, Up, Whereabouts, Machines
<1>3. Active(a) /\ Working(job[a]) /\ job[a].op = "migrate-guest" /\ HasCopy(a)
  <2>1. Active(a) /\ Working(job[a])
    BY <1>1, AtWork DEF Active, At
  <2>2. job[a].op = "migrate-guest"
    BY <1>1, <2>1 DEF Working, OpAt, At
  <2>. QED  BY <1>1, <2>1, <2>2 DEF HasCopy, At
<1>4. p \in TouchedBy(a) /\ pve[p].id \in Of(a) /\ Place(a) \in Places /\ p # Place(a)
  BY <1>1, <1>2, <1>3, AtItsPlace DEF OnGuest, Working, Place
<1>5. DOMAIN m = MachineFields /\ m.id = pve[p].id /\ m.gw = pve[p].gw /\ m.mounts = pve[p].mounts /\ m.ip = pve[p].ip
  BY <1>2, MachineEdits
<1>6. Effects(a)
  <2>1. pairs' = WithSource(pairs)
    <3>1. \A q \in Places : Has(q) => Put(p, m)[q] # Free
      BY <1>2, <1>5, MachineShape DEF Put, Has
    <3>2. \A pair \in pairs : pve'[pair[1]] # Free
      BY <1>2, <3>1 DEF Whereabouts, SourcesRest
    <3>. QED  BY <1>2, <3>2 DEF WithSource, Has
  <2>2. /\ pve' \in {pve, Put(p, [pve[p] EXCEPT !.up = FALSE])} /\ (pve' # pve => Has(p)) /\ UNCHANGED meddled
        /\ Has(p) => pve[p].id \in Of(a)
    BY <1>2, <1>4
  <2>. QED  BY <1>4, <2>1, <2>2, SwitchWorks DEF Effects
<1>. HIDE DEF m
<1>7. pve'[p] = m /\ pve'[Place(a)] = pve[Place(a)] /\ m # Free
  BY <1>2, <1>4, <1>5, MachineShape DEF Put
<1>8. Fits(a)'
  <2>1. Kept(a) /\ job'[a].archive = job[a].archive /\ job'[a].pc = "wait"
    BY <1>1, <1>2 DEF Kept, At
  <2>2. job[a].alone => pve[p].ip = p
    BY <1>1, <1>3 DEF Whereabouts, Fits, OnCopy, At
  <2>3. Has(job[a].to)' /\ Has(job[a].to)
    BY <1>1, <1>2, <1>7 DEF Has
  <2>. QED  BY <1>1, <1>2, <1>3, <1>5, <1>7, <2>1, <2>2, <2>3, CopyFits
<1>9. ASSUME NEW b \in Actors PROVE Fits(b)'
  <2>1. CASE b # a
    BY <1>2, <1>3, <1>6, <2>1, OthersFit DEF Effects
  <2>. QED  BY <1>8, <2>1
<1>10. Requested' /\ Apart'
  BY <1>2 DEF Whereabouts, Requested, Apart, Active, At, TouchedBy
<1>11. SavesMigration'
  BY <1>2 DEF Whereabouts, SavesMigration, At
<1>. QED  BY <1>6, <1>9, <1>10, <1>11 DEF Whereabouts, Effects

LEMMA CrashWhereabouts ==
  ASSUME IInv, Whereabouts, UNCHANGED <<pve, disk, meddled, pairs>>, \A a \in Actors : job'[a] \in {Idle, job[a]}
  PROVE  Whereabouts'
<1>1. \A a \in Actors : Active(a)' => job'[a] = job[a] /\ Active(a)
  BY DEF Active, At, Idle
<1>2. Machines' /\ SourcesRest'
  BY DEF Whereabouts, Machines, SourcesRest, Has, Up
<1>3. Requested'
  BY <1>1 DEF Whereabouts, Requested
<1>4. Apart'
  BY <1>1 DEF Whereabouts, Apart, TouchedBy
<1>5. SavesMigration'
  BY DEF Whereabouts, SavesMigration, At, Idle
<1>6. ASSUME NEW a \in Actors PROVE Fits(a)'
  <2>1. CASE job'[a] = job[a]
    BY <2>1, StillFits DEF Whereabouts, Packed
  <2>2. CASE job'[a] # job[a]
    BY <1>1, <2>2 DEF Fits
  <2>. QED  BY <2>1, <2>2
<1>. QED  BY <1>2, <1>3, <1>4, <1>5, <1>6 DEF Whereabouts

LEMMA WhereaboutsInit == Init => Whereabouts
<1>. SUFFICES ASSUME Init PROVE Whereabouts
  OBVIOUS
<1>1. PICK s \in Starts : pve = [p \in Places |-> IF p \in DOMAIN s.machines THEN s.machines[p] ELSE Free]
  BY DEF Init
<1>2. job = [a \in Actors |-> Idle] /\ pairs = {}
  BY DEF Init
<1>3. Machines
  BY <1>1, StartsAssumption DEF Machines, Has
<1>4. \A a \in Actors : ~Active(a) /\ ~At(a, "save")
  BY <1>2 DEF Active, At, Idle
<1>. QED  BY <1>2, <1>3, <1>4 DEF Whereabouts, Requested, Apart, Fits, SourcesRest, SavesMigration

LEMMA WhereaboutsNext == IInv /\ Whereabouts /\ [Next]_vars => Whereabouts'
<1>. SUFFICES ASSUME IInv, Whereabouts, [Next]_vars PROVE Whereabouts'
  OBVIOUS
<1>0. IInv'
  BY InvNext
<1>1. CASE UNCHANGED <<pve, disk, job, meddled, pairs>>
  BY <1>1, CrashWhereabouts
<1>2. ASSUME NEW a \in Actors, NEW r \in Requests, Begin(a, r) PROVE Whereabouts'
  BY <1>0, <1>2, BeginWhereabouts
<1>3. ASSUME NEW a \in Actors, Migrate(a) \/ Delete(a) \/ Create(a) \/ Change(a) PROVE Whereabouts'
  BY <1>3, WorkWhereabouts
<1>4. ASSUME NEW a \in Actors, Record(a) PROVE Whereabouts'
  BY <1>4, RereadWhereabouts, SaveWhereabouts, PushWhereabouts DEF Record
<1>5. CASE WebRequest
  BY <1>1, <1>5 DEF WebRequest
<1>6. ASSUME NEW p \in Procs, Crash(p) PROVE Whereabouts'
  <2>1. UNCHANGED <<pve, disk, meddled, pairs>> /\ \A a \in Actors : job'[a] \in {Idle, job[a]}
    BY <1>6 DEF Crash
  <2>. QED  BY <2>1, CrashWhereabouts
<1>7. ASSUME NEW p \in Places, GuestDies(p) PROVE Whereabouts'
  BY <1>7, DiesWhereabouts
<1>8. CASE UNCHANGED vars
  BY <1>1, <1>8 DEF vars
<1>. QED  BY <1>2, <1>3, <1>4, <1>5, <1>6, <1>7, <1>8 DEF Next

LEMMA WhereaboutsInvariant == Spec => [](IInv /\ Whereabouts)
BY InvInit, InvNext, WhereaboutsInit, WhereaboutsNext, PTL DEF Spec

-----------------------------------------------------------------------------
(* What that means for a destroy and for a recorded migration. *)

\* Only the two destroys leave a place empty.
LEMMA MachinesStay ==
  ASSUME IInv, Whereabouts, NEW p \in Places, Has(p), [Next]_vars, ~Has(p)'
  PROVE  \E a \in Actors : (DestroySource(a) \/ DestroyGuest(a)) /\ Place(a) = p
<1>1. pve'[p] = Free /\ pve' # pve /\ DOMAIN pve = Places
  BY DEF Has, Whereabouts, Machines
<1>2. \A q \in Places : Has(q) => DOMAIN pve[q] = MachineFields
  BY DEF Whereabouts, Machines
<1>3. ASSUME NEW q, NEW m, Put(q, m) = pve' PROVE q = p /\ m = Free
  BY <1>1, <1>3 DEF Put, Has
<1>4. ASSUME NEW a \in Actors, StopSource(a) \/ StopGuest(a) \/ StartCopy(a) \/ GuestPower(a) PROVE FALSE
  <2>1. \E q, up : pve' = Put(q, [pve[q] EXCEPT !.up = up])
    BY <1>1, <1>4 DEF StopSource, StopGuest, Stop, StartCopy, GuestPower, Remote
  <2>2. PICK up : [pve[p] EXCEPT !.up = up] = Free
    BY <1>3, <2>1
  <2>. QED  BY <1>2, <2>2, MachineEdits, MachineShape
<1>5. ASSUME NEW a \in Actors,
             \/ reconfigureGuestIp(a) \/ copyGuestAcls(a) \/ AttachNew(a) \/ grantCreatorAccess(a)
             \/ SetNet0Gateway(a) \/ Unmount(a) \/ AttachMount(a)
      PROVE  FALSE
  <2>1. \E q, m : pve' = Put(q, m) /\ Edited(q, m)
    BY <1>1, <1>5, OneEdit DEF Edits
  <2>2. Edited(p, Free)
    BY <1>3, <2>1
  <2>3. \A m : Edited(p, m) => DOMAIN m = MachineFields
    BY <1>2, MachineShape DEF Edited
  <2>. QED  BY <2>2, <2>3, MachineShape
<1>6. ASSUME NEW a \in Actors, CreateGuest(a) \/ Restore(a) PROVE FALSE
  <2>1. \E m : pve' = Put(job[a].to, m) /\ ~Has(job[a].to)
    BY <1>1, <1>6 DEF CreateGuest, Restore, Remote
  <2>. QED  BY <1>3, <2>1
<1>7. ASSUME NEW a \in Actors, Migrate(a) \/ Delete(a) \/ Create(a) \/ Change(a) \/ Record(a)
      PROVE  (DestroySource(a) \/ DestroyGuest(a)) /\ Place(a) = p
  <2>1. CASE Looks(a) \/ Reread(a) \/ saveInventory(a)
    BY <1>1, <2>1, LooksEffects DEF Reread, saveInventory
  <2>2. CASE DestroySource(a) \/ DestroyGuest(a)
    <3>1. pve' = Put(Place(a), Free)
      BY <1>1, <2>2 DEF DestroySource, DestroyGuest, Remote
    <3>. QED  BY <1>3, <2>2, <3>1
  <2>. QED  BY <1>4, <1>5, <1>6, <1>7, <2>1, <2>2 DEF Migrate, Delete, Create, Change, Record, Looks
<1>8. ASSUME NEW q \in Places, GuestDies(q) PROVE FALSE
  <2>1. [pve[p] EXCEPT !.up = FALSE] = Free
    BY <1>3, <1>8 DEF GuestDies
  <2>. QED  BY <1>2, <2>1, MachineEdits, MachineShape
<1>. QED  BY <1>1, <1>7, <1>8 DEF Next, Begin, WebRequest, Crash, vars

LEMMA DestroysOwn ==
  ASSUME IInv, Whereabouts, NEW a \in Actors, DestroySource(a) \/ DestroyGuest(a), Has(Place(a)), job[a].alone
  PROVE  /\ pve[Place(a)].id = job[a].id
         /\ job[a].op = "migrate-guest" => Up(job[a].to) /\ pve[job[a].to].id = job[a].id
<1>1. At(a, "destroy") /\ Active(a) /\ job[a].op \in OnGuest \ {"edit-guest"}
  BY DEF DestroySource, DestroyGuest, At, Active, Doing, OnGuest
<1>2. OnSource(a) /\ OnCopy(a)
  BY <1>1 DEF Whereabouts, Fits
<1>3. pve[Place(a)].id = job[a].id
  BY <1>1, <1>2 DEF OnSource, Its
<1>4. ASSUME job[a].op = "migrate-guest" PROVE Up(job[a].to) /\ pve[job[a].to].id = job[a].id
  BY <1>1, <1>2, <1>4 DEF OnCopy, HasCopy, Its, At
<1>. QED  BY <1>3, <1>4

\* What a migration saves has its guest's stored entry moved.
LEMMA RecordMoves ==
  ASSUME NEW j, NEW d, Stored(d), recordMigration(j, d) # d
  PROVE  [Guest(d.guests, j.name) EXCEPT !.place = j.to, !.ip = j.to] \in recordMigration(j, d).guests
<1>. DEFINE Moved(e) == [e EXCEPT !.place = j.to, !.ip = j.to]
            guests == {IF e.name = j.name THEN Moved(e) ELSE e : e \in d.guests}
<1>1. recordMigration(j, d) = [d EXCEPT !.guests = guests] /\ recordMigration(j, d).guests = guests
  BY DEF recordMigration, Change1, Stored
<1>. HIDE DEF Moved
<1>2. \E e \in d.guests : e.name = j.name
  <2>1. SUFFICES ASSUME \A e \in d.guests : e.name # j.name PROVE FALSE
    OBVIOUS
  <2>2. guests = d.guests
    BY <2>1
  <2>. HIDE DEF guests
  <2>. QED  BY <1>1, <2>2 DEF Stored
<1>3. Guest(d.guests, j.name) \in d.guests /\ Guest(d.guests, j.name).name = j.name
  BY <1>2 DEF Guest
<1>4. Moved(Guest(d.guests, j.name)) \in guests
  BY <1>3
<1>. QED  BY <1>1, <1>4 DEF Moved

-----------------------------------------------------------------------------
(* Results. *)

\* For any hosts, processes, requests, failures and crashes: what a command
\* saves after its remote work (recordMigration, recordDeletion,
\* upsertGuestEntry, saveInventory) leaves every setting and every other entry
\* as they are stored at that moment, unless another process saved between its
\* reading and its saving; an edit, set-guest-vpn and sync-inventory leave the
\* settings.
THEOREM SavesUndoNobody == Spec => SavesKeepOthers
<1>1. Spec => []IInv
  BY InvInit, InvNext, PTL DEF Spec
<1>2. IInv => \A a \in Actors :
        At(a, "save") /\ ~job[a].torn /\ disk' = job[a].inv =>
          LET j == job[a]
              Rest(guests) == {e \in guests : e.name # j.name /\ (j.op \in Creates => e.place # j.to)}
          IN /\ j.op # "set-config" => disk'.setting = disk.setting
             /\ j.op \notin {"edit-guest", "set-guest-vpn", "sync-inventory"} =>
                  Rest(disk'.guests) = Rest(disk.guests) /\ disk'.stores = disk.stores
  BY DEF IInv, SavesAreFresh, Keeps, Other
<1>. QED  BY <1>1, <1>2, PTL DEF SavesKeepOthers

\* For any hosts, processes, requests, failures and crashes: a guest and the
\* copy migrate-guest restored of it never both run, unless somebody powered
\* one of them or another process worked on the guest meanwhile: the source is
\* seen stopped before the archive is restored.
THEOREM GuestsNeverRunTwice == Spec => []NeverTwice
<1>1. Whereabouts => NeverTwice
  BY DEF Whereabouts, SourcesRest, NeverTwice
<1>. QED  BY <1>1, WhereaboutsInvariant, PTL

\* For any hosts, processes, requests, failures and crashes: no machine goes
\* but by migrate-guest or delete-guest destroying the one its name stood for
\* when the command began, and migrate-guest does so only while the copy it
\* waited for runs at the target (unless another process met it there).
THEOREM DestroysOnlyItsOwn == Spec => DestroysItsOwn
<1>1. ASSUME IInv, Whereabouts, [Next]_vars, NEW p \in Places, Has(p), ~Has(p)'
      PROVE  \E a \in Actors :
               /\ At(a, "destroy") /\ Place(a) = p
               /\ job[a].alone =>
                    /\ pve[p].id = job[a].id
                    /\ job[a].op = "migrate-guest" =>
                         Up(job[a].to) /\ pve[job[a].to].id = job[a].id
  <2>1. PICK a \in Actors : (DestroySource(a) \/ DestroyGuest(a)) /\ Place(a) = p
    BY <1>1, MachinesStay
  <2>2. At(a, "destroy")
    BY <2>1 DEF DestroySource, DestroyGuest
  <2>. QED  BY <1>1, <2>1, <2>2, DestroysOwn
<1>2. IInv /\ Whereabouts /\ [Next]_vars =>
        \A p \in Places :
          Has(p) /\ ~Has(p)' =>
            \E a \in Actors :
              /\ At(a, "destroy") /\ Place(a) = p
              /\ job[a].alone =>
                   /\ pve[p].id = job[a].id
                   /\ job[a].op = "migrate-guest" =>
                        Up(job[a].to) /\ pve[job[a].to].id = job[a].id
  BY <1>1
<1>. QED  BY <1>2, WhereaboutsInvariant, PTL DEF Spec, DestroysItsOwn

\* For any hosts, processes, requests, failures and crashes: a migration that
\* is recorded (recordMigration, saveInventory) moved the whole guest: it runs
\* at the new place with its own address, the gateway and mounts of its
\* archive and its permissions, unless copying those failed, and its stored
\* entry has moved with it.
THEOREM MigrationsMoveAll == Spec => MigratesWhole
<1>1. IInv /\ Whereabouts =>
        \A a \in Actors :
          /\ At(a, "save") /\ job[a].op = "migrate-guest"
          /\ job[a].alone /\ ~job[a].torn
          /\ disk' # disk
          /\ disk' = job[a].inv
          => LET j == job[a]
                 m == pve[j.to]
             IN /\ m.id = j.id /\ m.up /\ m.ip = j.to
                /\ m.gw = j.archive.gw /\ m.mounts = j.archive.mounts
                /\ j.archive.acl \subseteq m.acl \/ j.failed # {}
                /\ [Guest(disk.guests, j.name) EXCEPT !.place = j.to, !.ip = j.to] \in disk'.guests
  <2>. SUFFICES ASSUME IInv, Whereabouts, NEW a \in Actors, At(a, "save"), job[a].op = "migrate-guest",
                       job[a].alone, ~job[a].torn, disk' # disk, disk' = job[a].inv
                PROVE  LET j == job[a]
                           m == pve[j.to]
                       IN /\ m.id = j.id /\ m.up /\ m.ip = j.to
                          /\ m.gw = j.archive.gw /\ m.mounts = j.archive.mounts
                          /\ j.archive.acl \subseteq m.acl \/ j.failed # {}
                          /\ [Guest(disk.guests, j.name) EXCEPT !.place = j.to, !.ip = j.to] \in disk'.guests
    OBVIOUS
  <2>1. OnCopy(a) /\ HasCopy(a) /\ job[a].pc = "save"
    BY DEF Whereabouts, Fits, Active, HasCopy, At
  <2>2. disk' = recordMigration(job[a], disk) /\ Stored(disk)
    BY DEF Whereabouts, SavesMigration, IInv, Shapes
  <2>3. [Guest(disk.guests, job[a].name) EXCEPT !.place = job[a].to, !.ip = job[a].to] \in disk'.guests
    BY <2>2, RecordMoves
  <2>. QED  BY <2>1, <2>3 DEF OnCopy, Its, At, Up
<1>. QED  BY <1>1, WhereaboutsInvariant, PTL DEF MigratesWhole
=============================================================================
