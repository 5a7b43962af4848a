------------------------------- MODULE Guests -------------------------------
(***************************************************************************)
(* The commands that change guests and the inventory that describes them:  *)
(* create, install, deploy a VPN gateway, migrate, delete, power, route    *)
(* through a VPN, attach an NFS mount, edit, sync-inventory, set-config.   *)
(*                                                                         *)
(* The web process runs one job at a time and serves requests beside it,   *)
(* on one inventory in memory; the CLI and the MCP server are processes of *)
(* their own with a copy of their own.  Everybody shares bellhop.db and    *)
(* Proxmox.  A command works through SSH calls that take minutes, any of   *)
(* which may fail, done or not done; a process may die between two.        *)
(*                                                                         *)
(* Pushing the result to the proxy and Authentik is PushLive's and         *)
(* AuthentikSync's; here it is a step that may fail.                       *)
(***************************************************************************)
EXTENDS Inventory

CONSTANTS
  Actors,       \* the web process' job runner and its requests, other processes
  ProcOf(_),
  Requests,     \* [by, op, name, type, to, body, mode]: what each actor may be asked to do
  Starts,       \* [guests, machines]: inventories and what Proxmox has, to start from
  BackupHosts,  \* hosts whose shared backup storage is mounted
  ForwardAuth,  \* the proxy driver can gate by forward-auth
  MaxJobs, MaxFaults   \* bounds

ASSUME GuestsAssumption == MaxJobs \in Nat /\ MaxFaults \in Nat

VARIABLES
  pve,      \* Proxmox: place -> machine or Free
  disk,     \* bellhop.db: [guests, stores, setting]
  mem,      \* process -> the inventory it holds
  job,      \* actor -> what it is working on
  meddled,  \* machines somebody else worked on, or started, meanwhile
  pairs,    \* <<source, target, machine>> of every migration whose source is still there
  count     \* [jobs, faults]

vars == <<pve, disk, mem, job, meddled, pairs, count>>
Procs == {ProcOf(a) : a \in Actors}

Free == [id |-> 0]
LanGateway == <<"lan">>
NewId == 10 + count.jobs   \* machines to start from have lower ones
Machine(id, name, type, up, ip) ==
  [id |-> id, name |-> name, type |-> type, up |-> up, ip |-> ip, gw |-> LanGateway,
   mounts |-> {}, fstab |-> {}, acl |-> {}]
Has(p) == pve[p] # Free
Up(p) == Has(p) /\ pve[p].up
WithSource(migrations) == {pair \in migrations : Has(pair[1])'}

NoArchive == Machine(0, "none", "lxc", FALSE, NoIp)
Idle == [pc |-> "idle"]

Creates == {"create-lxc", "create-vm", "install-app", "deploy-vpn-gateway"}
OnGuest == {"migrate-guest", "delete-guest", "guest-power", "set-guest-vpn", "attach-nfs-mount",
            "migrate-nfs-mount", "configure-guest", "edit-guest"}
Mounts == {"attach-nfs-mount", "migrate-nfs-mount"}
Ops == Creates \cup OnGuest \cup {"sync-inventory", "set-config"}

EntryFields == DOMAIN Entry("none", "lxc", NoIp)
MachineFields == DOMAIN NoArchive

(* An edit names neither the guest's name nor its place.                   *)
ASSUME RequestsAssumption ==
  \A r \in Requests : /\ r.op \in Ops
                      /\ r.op = "edit-guest" => {"name", "place"} \cap DOMAIN r.body = {}

(* The actors of one process are its job queue, which runs one job at a    *)
(* time, and requests that are served at once: edits and settings.         *)
ASSUME WorkersAssumption ==
  \A r, s \in Requests :
    r.by # s.by /\ ProcOf(r.by) = ProcOf(s.by) => {r.op, s.op} \cap {"edit-guest", "set-config"} # {}

ASSUME StartsAssumption ==
  \A s \in Starts :
    /\ \A e \in s.guests : DOMAIN e = EntryFields /\ e.place \in Places
    /\ \A p \in DOMAIN s.machines : DOMAIN s.machines[p] = MachineFields

Init ==
  /\ \E s \in Starts :
       /\ pve = [p \in Places |-> IF p \in DOMAIN s.machines THEN s.machines[p] ELSE Free]
       /\ disk = [guests |-> s.guests, stores |-> BackupHosts, setting |-> 0]
  /\ mem = [p \in Procs |-> disk]
  /\ job = [a \in Actors |-> Idle]
  /\ meddled = {} /\ pairs = {}
  /\ count = [jobs |-> 0, faults |-> 0]

At(a, pc) == job[a].pc = pc
Doing(a, ops) == job[a].pc # "idle" /\ job[a].op \in ops
Place(a) == job[a].entry.place
Set(a, r) == job' = [job EXCEPT ![a] = r]
Go(a, pc) == Set(a, [job[a] EXCEPT !.pc = pc])
End(a) == Set(a, Idle)

(* Reading the inventory again, deriving and saving is one synchronous     *)
(* stretch: nothing else of the process runs in it.                        *)
Clear(a) == \A b \in Actors \ {a} : ProcOf(b) = ProcOf(a) => ~At(b, "save")

(* A call over SSH: it does its work and answers, Proxmox refuses it, or   *)
(* it fails -- with the work done or not.                                  *)
Remote(a, works, new, Good, Bad) ==
  /\ Clear(a)
  /\ \/ works /\ pve' = new /\ Good /\ UNCHANGED count
     \/ ~works /\ Bad /\ UNCHANGED <<pve, count>>
     \/ /\ count.faults < MaxFaults
        /\ count' = [count EXCEPT !.faults = @ + 1]
        /\ pve' \in {pve, IF works THEN new ELSE pve}
        /\ Bad
  /\ pairs' = WithSource(pairs)
  /\ UNCHANGED <<disk, mem, meddled>>

Look(a, Good, Bad) == Remote(a, TRUE, pve, Good, Bad)
Put(p, m) == [pve EXCEPT ![p] = m]

-----------------------------------------------------------------------------
(* refreshInventory: every request, tool call and job starts from what is  *)
(* stored.  The web process also reads it again at every other request.    *)
loadInventory == disk
refreshInventory == loadInventory

WebRequest ==
  /\ \E p \in Procs : /\ \E a, b \in Actors : a # b /\ ProcOf(a) = p /\ ProcOf(b) = p
                      /\ \A a \in Actors : ProcOf(a) = p => ~At(a, "save")
                      /\ mem' = [mem EXCEPT ![p] = refreshInventory]
  /\ UNCHANGED <<pve, disk, job, meddled, pairs, count>>

(* What each command refuses before it changes anything.                   *)
migrateRefuses(inv, r, e) ==
  \/ e.gateway
  \/ ~resolves(r.to) \/ r.to = e.place
  \/ {e.place[1], r.to[1]} \ inv.stores # {}

gatewayIp(inv, r) ==
  IF r.mode = "none" THEN {LanGateway}
  ELSE {e.place : e \in {g \in inv.guests : g.name = r.mode /\ g.gateway /\ g.ip # NoIp}}

setVpnRefuses(inv, r, e) == e.type # "lxc" \/ e.gateway \/ gatewayIp(inv, r) = {}

editRefuses(inv, r, e) ==
  ~parses(r.body) \/
    LET new == applyGuestEdits(e, r.body)
        guests == (inv.guests \ {e}) \cup {new}
    IN \/ editDeletesOidcClient(e, new) /\ r.mode # "confirmed"
       \/ ~validateInventory(guests)
       \/ managedLoginLockoutError(inv.guests, guests)
       \/ oidcConfigErrors(new)
       \/ effectiveAuth(new) = "forward" /\ new.sub # {} /\ ~ForwardAuth

refuses(inv, r) ==
  \/ r.op \in OnGuest /\ r.name \notin Names(inv.guests)
  \/ r.op \in Creates /\ ~resolves(r.to)
  \/ r.op = "deploy-vpn-gateway" /\ r.name \in Names(inv.guests)
  \/ /\ r.op \in OnGuest /\ r.name \in Names(inv.guests)
     /\ LET e == Guest(inv.guests, r.name)
        IN \/ r.op = "migrate-guest" /\ migrateRefuses(inv, r, e)
           \/ r.op = "delete-guest" /\ e \in findProxyEntry(inv.guests)
           \/ r.op = "set-guest-vpn" /\ setVpnRefuses(inv, r, e)
           \/ r.op \in Mounts /\ (e.type # "lxc" \/ e.place[1] \notin inv.stores)
           \/ r.op = "configure-guest" /\ e.type = "vm"
           \/ r.op = "edit-guest" /\ editRefuses(inv, r, e)

firstStep(r, e) ==
  CASE r.op \in {"migrate-guest", "install-app"} -> "check"
    [] r.op \in Creates \ {"install-app"} -> "create"
    [] r.op = "delete-guest" ->
         IF e.authGroup # "none" /\ e.sub # {} THEN "teardown" ELSE "status"
    [] r.op \in Mounts \cup {"set-guest-vpn"} -> "config"
    [] r.op = "edit-guest" ->
         IF {"sub", "port"} \cap DOMAIN r.body # {} /\ e.port /\ e.sub # {} /\ ~e.manual
         THEN "probe" ELSE "reread"
    [] r.op = "sync-inventory" -> "scan"
    [] r.op = "set-config" -> "reread"
    [] OTHER -> r.op

(* The entry a command reads once and works on; for an edit, the edited    *)
(* one.                                                                    *)
target(inv, r) ==
  CASE r.op = "edit-guest" -> applyGuestEdits(Guest(inv.guests, r.name), r.body)
    [] r.op \in OnGuest \ {"edit-guest"} -> Guest(inv.guests, r.name)
    [] OTHER -> [Entry(r.name, r.type, r.to) EXCEPT !.gateway = (r.op = "deploy-vpn-gateway"),
                   !.sub = r.body.sub, !.port = r.op = "install-app", !.creator = r.mode]

(* Two processes at work on one guest or place.                            *)
Touches(r, e) == IF r.op \in {"set-config", "edit-guest"} THEN {} ELSE {e.place, r.to, r.name}
Meet(a, r, e) ==
  {b \in Actors : /\ ProcOf(b) # ProcOf(a) /\ job[b].pc # "idle"
                  /\ \/ Touches(job[b], job[b].entry) \cap Touches(r, e) # {}
                     \/ {job[b].op, r.op} \cap {"sync-inventory"} # {}}

Begin(a, r) ==
  /\ At(a, "idle") /\ r.by = a /\ count.jobs < MaxJobs
  /\ Clear(a)
  /\ LET inv == refreshInventory
         e == target(inv, r)
         met == Meet(a, r, e)
         id == IF r.op \in OnGuest /\ r.name \in Names(disk.guests)
               THEN pve[Guest(disk.guests, r.name).place].id ELSE NewId
     IN /\ ~refuses(inv, r)
        /\ mem' = [mem EXCEPT ![ProcOf(a)] = inv]
        /\ job' = [b \in Actors |->
             CASE b = a -> [pc |-> firstStep(r, e), op |-> r.op, name |-> r.name, to |-> r.to,
                            mode |-> r.mode, body |-> r.body, entry |-> e, id |-> id,
                            gw |-> gatewayIp(inv, r), inv |-> inv, archive |-> NoArchive,
                            todo |-> Hosts, found |-> {}, failed |-> {},
                            alone |-> met = {}, torn |-> FALSE]
               [] b \in met -> [job[b] EXCEPT !.alone = FALSE]
               [] OTHER -> job[b]]
        /\ meddled' = meddled \cup {job[b].id : b \in met}
             \cup (IF met # {} \/ r.op = "guest-power" THEN {id} ELSE {})
  /\ count' = [count EXCEPT !.jobs = @ + 1]
  /\ UNCHANGED <<pve, disk, pairs>>

-----------------------------------------------------------------------------
(* migrate-guest.  The source is backed up, made sure to be stopped, and   *)
(* restored and started elsewhere; only then is it destroyed.              *)

(* checkVmidAvailable: a probe that fails reads as a free VMID.            *)
checkVmidAvailable(a) ==
  /\ At(a, "check")
  /\ LET next == IF Doing(a, Creates) THEN "create" ELSE "backup"
     IN Look(a, IF Has(job[a].to) THEN End(a) ELSE Go(a, next), Go(a, next))

Backup(a) ==
  /\ At(a, "backup")
  /\ Remote(a, Has(Place(a)), pve,
            Set(a, [job[a] EXCEPT !.pc = "status", !.archive = pve[Place(a)]]), End(a))

\* Mutant: a status that cannot be read is taken for stopped, as delete-guest does.
mutSourceStatus(a) ==
  /\ At(a, "status") /\ Doing(a, {"migrate-guest"})
  /\ Look(a, Go(a, IF Up(Place(a)) THEN "stop" ELSE "restore"), Go(a, "restore"))

SourceStatus(a) ==
  /\ At(a, "status") /\ Doing(a, {"migrate-guest"})
  /\ Remote(a, Has(Place(a)), pve, Go(a, IF Up(Place(a)) THEN "stop" ELSE "restore"), End(a))

Stop(a, next) ==
  /\ At(a, "stop")
  /\ Remote(a, Up(Place(a)), Put(Place(a), [pve[Place(a)] EXCEPT !.up = FALSE]), Go(a, next), End(a))

StopSource(a) == Doing(a, {"migrate-guest"}) /\ Stop(a, "restore")

Restore(a) ==
  /\ At(a, "restore") /\ Clear(a)
  /\ LET to == job[a].to
         copy == [job[a].archive EXCEPT !.up = FALSE, !.acl = {}]
     IN \/ /\ ~Has(to) /\ pve' = Put(to, copy)
           /\ pairs' = WithSource(pairs \cup {<<Place(a), to, copy.id>>})
           /\ UNCHANGED count
           /\ Go(a, "reconfigure")
        \/ Has(to) /\ End(a) /\ UNCHANGED <<pve, pairs, count>>
        \/ /\ count.faults < MaxFaults /\ count' = [count EXCEPT !.faults = @ + 1]
           /\ pve' \in {pve, IF Has(to) THEN pve ELSE Put(to, copy)}
           /\ pairs' = WithSource(pairs \cup {<<Place(a), to, copy.id>>})
           /\ End(a)
  /\ UNCHANGED <<disk, mem, meddled>>

(* Only ip= is rewritten: a guest routed through a VPN gateway stays so.   *)
\* Mutant: the address is left as it was restored.
mutReconfigureGuestIp(a) == At(a, "reconfigure") /\ Look(a, Go(a, "start"), End(a))

reconfigureGuestIp(a) ==
  /\ At(a, "reconfigure")
  /\ Remote(a, Has(job[a].to), Put(job[a].to, [pve[job[a].to] EXCEPT !.ip = job[a].to]),
            Go(a, "start"), End(a))

StartCopy(a) ==
  /\ At(a, "start")
  /\ LET to == job[a].to
     IN Remote(a, Has(to) /\ ~Up(to), Put(to, [pve[to] EXCEPT !.up = TRUE]), Go(a, "wait"), End(a))

\* Mutant: the migration goes on when the copy never reports running.
mutWaitForGuestRunning(a) ==
  /\ At(a, "wait")
  /\ Look(a, Go(a, "acl"), Go(a, "acl"))

waitForGuestRunning(a) ==
  /\ At(a, "wait")
  /\ LET to == job[a].to IN Remote(a, Up(to), pve, Go(a, "acl"), End(a))

(* The copy may start and go down again by itself before it is verified.   *)
GuestDies(p) ==
  /\ Up(p) /\ count.faults < MaxFaults
  /\ \E a \in Actors : At(a, "wait") /\ job[a].to = p
  /\ pve' = Put(p, [pve[p] EXCEPT !.up = FALSE])
  /\ count' = [count EXCEPT !.faults = @ + 1]
  /\ UNCHANGED <<disk, mem, job, meddled, pairs>>

copyGuestAcls(a) ==
  /\ At(a, "acl")
  /\ LET to == job[a].to
         failed == Set(a, [job[a] EXCEPT !.pc = "destroy", !.failed = {"acl"}])
     IN Remote(a, Has(Place(a)) /\ Has(to), Put(to, [pve[to] EXCEPT !.acl = @ \cup pve[Place(a)].acl]),
               Go(a, "destroy"), failed)

(* Proxmox destroys no running guest.  A destroy that fails is only warned *)
(* about: the guest has moved.                                             *)
Destroyable(a) == Has(Place(a)) /\ ~Up(Place(a))

DestroySource(a) ==
  /\ At(a, "destroy") /\ Doing(a, {"migrate-guest"})
  /\ Remote(a, Destroyable(a), Put(Place(a), Free), Go(a, "reread"), Go(a, "reread"))
-----------------------------------------------------------------------------
(* delete-guest.  Authentik forgets a gated guest while the inventory      *)
(* still has it.                                                           *)
Teardown(a) == At(a, "teardown") /\ Look(a, Go(a, "status"), End(a))

BeforeDestroy(a) == IF job[a].mode = "backup" THEN "dump" ELSE "destroy"

GuestStatus(a) ==
  /\ At(a, "status") /\ Doing(a, {"delete-guest"})
  /\ Look(a, Go(a, IF Up(Place(a)) THEN "stop" ELSE BeforeDestroy(a)), Go(a, BeforeDestroy(a)))

StopGuest(a) == Doing(a, {"delete-guest"}) /\ Stop(a, BeforeDestroy(a))
Dump(a) == At(a, "dump") /\ Remote(a, Has(Place(a)), pve, Go(a, "destroy"), End(a))

DestroyGuest(a) ==
  /\ At(a, "destroy") /\ Doing(a, {"delete-guest"})
  /\ Remote(a, Destroyable(a), Put(Place(a), Free), Go(a, "reread"), End(a))

-----------------------------------------------------------------------------
(* create-lxc, create-vm, install-app, deploy-vpn-gateway: a guest that is *)
(* created and then fails a later step stays, unrecorded.                  *)
(* A TLS probe follows when there is a port to probe and a name to serve.  *)
record(j) == IF j.entry.port /\ j.entry.sub # {} /\ ~j.entry.manual THEN "probe" ELSE "reread"

createLxc(j) == [new |-> Machine(j.id, j.name, "lxc", TRUE, j.to),
                 next |-> IF j.body.nfs THEN "nfs" ELSE record(j)]
createVm(j) == [new |-> Machine(j.id, j.name, "vm", FALSE, j.to), next |-> record(j)]
installApp(j) == [new |-> Machine(j.id, j.name, "lxc", TRUE, j.to),
                  next |-> IF j.body.nfs THEN "nfs" ELSE record(j)]
deployVpnGateway(j) == [new |-> Machine(j.id, j.name, "lxc", TRUE, j.to), next |-> "agent"]

CreateGuest(a) ==
  /\ At(a, "create")
  /\ LET j == job[a]
         made == CASE j.op = "create-lxc" -> createLxc(j)
                   [] j.op = "create-vm" -> createVm(j)
                   [] j.op = "install-app" -> installApp(j)
                   [] j.op = "deploy-vpn-gateway" -> deployVpnGateway(j)
     IN Remote(a, ~Has(j.to), Put(j.to, made.new), Go(a, made.next), End(a))

ProvisionAgent(a) == At(a, "agent") /\ Remote(a, Up(job[a].to), pve, Go(a, "reread"), End(a))

AttachNew(a) ==
  /\ At(a, "nfs")
  /\ LET to == job[a].to
     IN Remote(a, Has(to), Put(to, [pve[to] EXCEPT !.mounts = {<<0, "new">>}]),
               Go(a, record(job[a])), End(a))

(* The TLS probe of a create and of an edit: SSH, with retries; what it    *)
(* answers is left out here.                                               *)
Probe(a) == At(a, "probe") /\ Look(a, Go(a, "reread"), Go(a, "reread"))

(* Never throws, and runs whether or not the guest could be recorded.      *)
grantCreatorAccess(a) ==
  /\ At(a, "grant")
  /\ LET to == job[a].to
         users == {job[a].entry.creator} \ {"none"}
     IN Remote(a, Has(to), Put(to, [pve[to] EXCEPT !.acl = @ \cup users]), End(a), End(a))

-----------------------------------------------------------------------------
(* Commands on an existing guest.                                          *)
GuestPower(a) ==
  /\ At(a, "guest-power")
  /\ LET p == Place(a)
         up == job[a].mode = "start"
     IN Remote(a, Has(p) /\ Up(p) # up, Put(p, [pve[p] EXCEPT !.up = up]), End(a), End(a))

ReadNet0(a) ==
  /\ At(a, "config") /\ Doing(a, {"set-guest-vpn"})
  /\ Remote(a, Has(Place(a)), pve, Go(a, "set"), End(a))

SetNet0Gateway(a) ==
  /\ At(a, "set")
  /\ LET p == Place(a)
         gw == CHOOSE g \in job[a].gw : TRUE
     IN Remote(a, Has(p), Put(p, [pve[p] EXCEPT !.gw = gw]), Go(a, "dns"), End(a))

ConfigureDns(a) == At(a, "dns") /\ Remote(a, Up(Place(a)), pve, Go(a, "reboot"), End(a))
Reboot(a) == At(a, "reboot") /\ Remote(a, Up(Place(a)), pve, Go(a, "reread"), End(a))

(* Both mount commands take the next free mpN of the configuration they    *)
(* read: one for a mount point not bound yet, the other for one the guest  *)
(* mounts itself.                                                          *)
nextFreeMpIndex(mounts) == CHOOSE n \in 0..Cardinality(mounts) :
                             /\ \A m \in mounts : m[1] # n
                             /\ \A k \in 0..(n - 1) : \E m \in mounts : m[1] = k
ReadMounts(a) ==
  /\ At(a, "config") /\ Doing(a, Mounts)
  /\ LET m == pve[Place(a)]
         own == Doing(a, {"migrate-nfs-mount"})
         fits == Has(Place(a)) /\ IF own THEN job[a].mode \in m.fstab
                                  ELSE \A b \in m.mounts : b[2] # job[a].mode
     IN Remote(a, fits, pve,
               Set(a, [job[a] EXCEPT !.pc = IF own THEN "unmount" ELSE "attach",
                                     !.found = {nextFreeMpIndex(m.mounts)}]),
               End(a))

Unmount(a) ==
  /\ At(a, "unmount")
  /\ LET p == Place(a)
     IN Remote(a, Up(p), Put(p, [pve[p] EXCEPT !.fstab = @ \ {job[a].mode}]),
               Go(a, "attach"), Go(a, "attach"))

(* The scripts' exit status is not looked at: the mount is verified.       *)
AttachMount(a) ==
  /\ At(a, "attach")
  /\ LET p == Place(a)
         mounts == {m \in pve[p].mounts : m[1] \notin job[a].found}
                     \cup {<<n, job[a].mode>> : n \in job[a].found}
     IN Remote(a, Has(p), Put(p, [pve[p] EXCEPT !.mounts = mounts]), Go(a, "verify"), Go(a, "verify"))

Verify(a) == At(a, "verify") /\ Look(a, End(a), End(a))
ConfigureGuest(a) == At(a, "configure-guest") /\ Remote(a, Up(Place(a)), pve, End(a), End(a))

(* sync-inventory asks one host after another; a host that does not answer *)
(* keeps its entries and its storages.                                     *)
Listed(h, guests) ==
  {LET m == pve[p]
       known == {e \in guests : e.place = p}
   IN IF known = {} THEN [Entry(m.name, m.type, p) EXCEPT !.ip = m.ip]
      ELSE [CHOOSE e \in known : TRUE EXCEPT !.type = m.type, !.ip = m.ip]
   : p \in {q \in Places : q[1] = h /\ Has(q)}}

ScanHost(a) ==
  /\ At(a, "scan")
  /\ LET h == CHOOSE x \in job[a].todo : TRUE
         rest == job[a].todo \ {h}
         next == [job[a] EXCEPT !.todo = rest, !.pc = IF rest = {} THEN "reread" ELSE "scan"]
     IN Look(a, Set(a, [next EXCEPT !.found = @ \cup Listed(h, mem[ProcOf(a)].guests)]),
                Set(a, [next EXCEPT !.failed = @ \cup {h}]))

-----------------------------------------------------------------------------
(* Recording it.  Most commands read the inventory again and change their  *)
(* own entry in it; an edit and set-guest-vpn save the guests they hold    *)
(* with fresh settings; sync-inventory replaces all guests.                *)
ReReads(op) == op \notin {"edit-guest", "set-guest-vpn"}

Change1(guests, name, F(_)) == {IF e.name = name THEN F(e) ELSE e : e \in guests}

recordMigration(j, fresh) ==
  LET Moved(e) == [e EXCEPT !.place = j.to, !.ip = j.to]
  IN [fresh EXCEPT !.guests = Change1(@, j.name, Moved)]
recordDeletion(j, fresh) == [fresh EXCEPT !.guests = {e \in @ : e.name # j.name}]
recordGateway(j, fresh) == [fresh EXCEPT !.guests = @ \cup {j.entry}]
recordProvisionedGuest(j, fresh) == [fresh EXCEPT !.guests = upsertGuestEntry(@, j.entry)]
recordVpn(j, fresh, held) ==
  LET Routed(e) == [e EXCEPT !.vpn = j.mode]
  IN withFreshSettings(fresh, [held EXCEPT !.guests = Change1(@, j.name, Routed)])

(* The guests an edit saves are those it was checked against, before its   *)
(* probe.                                                                  *)
commitGuestEdit(j, fresh, held) ==
  LET Edited(e) == j.entry
  IN withFreshSettings(fresh, [held EXCEPT !.guests = Change1(j.inv.guests, j.name, Edited)])

runSetConfig(fresh) == [fresh EXCEPT !.setting = 1 - @]
recordScan(j, fresh, held) ==
  [fresh EXCEPT
     !.guests = j.found \cup {e \in held.guests : e.place[1] \in j.failed},
     !.stores = (@ \cap j.failed) \cup (BackupHosts \ j.failed)]

derived(a, fresh, held) ==
  LET j == job[a]
  IN CASE j.op = "migrate-guest" -> recordMigration(j, fresh)
       [] j.op = "delete-guest" -> recordDeletion(j, fresh)
       [] j.op = "deploy-vpn-gateway" -> recordGateway(j, fresh)
       [] j.op \in Creates \ {"deploy-vpn-gateway"} -> recordProvisionedGuest(j, fresh)
       [] j.op = "set-guest-vpn" -> recordVpn(j, fresh, held)
       [] j.op = "edit-guest" -> commitGuestEdit(j, fresh, held)
       [] j.op = "set-config" -> runSetConfig(fresh)
       [] j.op = "sync-inventory" -> recordScan(j, fresh, held)

\* Mutant: what is saved is derived from the inventory held since the job began.
mutReread(a) ==
  /\ At(a, "reread") /\ Clear(a)
  /\ LET p == ProcOf(a)
     IN /\ Set(a, [job[a] EXCEPT !.pc = "save", !.inv = derived(a, mem[p], mem[p])])
        /\ UNCHANGED mem
  /\ UNCHANGED <<pve, disk, meddled, pairs, count>>

Reread(a) ==
  /\ At(a, "reread") /\ Clear(a)
  /\ LET p == ProcOf(a)
     IN /\ Set(a, [job[a] EXCEPT !.pc = "save", !.inv = derived(a, disk, mem[p])])
        /\ mem' = IF ReReads(job[a].op) THEN [mem EXCEPT ![p] = disk] ELSE mem
  /\ UNCHANGED <<pve, disk, meddled, pairs, count>>

(* saveInventory, in one transaction -- which may undo what another        *)
(* process stored since this one read.                                     *)
saveInventory(a) ==
  /\ At(a, "save")
  /\ LET inv == job[a].inv
         p == ProcOf(a)
         ok == saveable(inv.guests)
         next == IF ok /\ job[a].entry.sub # {} THEN "push"
                 ELSE IF job[a].op = "create-vm" THEN "grant" ELSE "idle"
     IN /\ disk' = IF ok THEN inv ELSE disk
        /\ mem' = IF ~ok THEN mem
                  ELSE [mem EXCEPT ![p] = [inv EXCEPT !.setting =
                          IF ReReads(job[a].op) THEN @ ELSE mem[p].setting]]
        /\ job' = [b \in Actors |->
             CASE b = a -> IF next = "idle" THEN Idle ELSE [job[a] EXCEPT !.pc = next]
               [] b # a /\ At(b, "save") /\ ok -> [job[b] EXCEPT !.torn = TRUE]
               [] OTHER -> job[b]]
  /\ UNCHANGED <<pve, meddled, pairs, count>>

Push(a) ==
  /\ At(a, "push")
  /\ LET next == IF job[a].op = "create-vm" THEN Go(a, "grant") ELSE End(a)
     IN Look(a, next, next)

Crash(p) ==
  /\ count.faults < MaxFaults
  /\ \E a \in Actors : ProcOf(a) = p /\ ~At(a, "idle")
  /\ count' = [count EXCEPT !.faults = @ + 1]
  /\ job' = [a \in Actors |-> IF ProcOf(a) = p THEN Idle ELSE job[a]]
  /\ mem' = [mem EXCEPT ![p] = disk]
  /\ UNCHANGED <<pve, disk, meddled, pairs>>

Migrate(a) ==
  \/ checkVmidAvailable(a) \/ Backup(a) \/ SourceStatus(a) \/ StopSource(a) \/ Restore(a)
  \/ reconfigureGuestIp(a) \/ StartCopy(a) \/ waitForGuestRunning(a) \/ copyGuestAcls(a)
  \/ DestroySource(a)
Delete(a) == Teardown(a) \/ GuestStatus(a) \/ StopGuest(a) \/ Dump(a) \/ DestroyGuest(a)
Create(a) == CreateGuest(a) \/ ProvisionAgent(a) \/ AttachNew(a) \/ Probe(a) \/ grantCreatorAccess(a)
Change(a) ==
  \/ GuestPower(a) \/ ReadNet0(a) \/ SetNet0Gateway(a) \/ ConfigureDns(a) \/ Reboot(a)
  \/ ReadMounts(a) \/ Unmount(a) \/ AttachMount(a) \/ Verify(a) \/ ConfigureGuest(a) \/ ScanHost(a)
Record(a) == Reread(a) \/ saveInventory(a) \/ Push(a)

Next ==
  \/ \E a \in Actors, r \in Requests : Begin(a, r)
  \/ \E a \in Actors : Migrate(a) \/ Delete(a) \/ Create(a) \/ Change(a) \/ Record(a)
  \/ WebRequest
  \/ \E p \in Places : GuestDies(p)
  \/ \E p \in Procs : Crash(p)

Spec == Init /\ [][Next]_vars

-----------------------------------------------------------------------------
(* A guest and the copy a migration made of it never both run, whatever    *)
(* call failed and wherever the process died, unless somebody started one  *)
(* or another process worked on the guest meanwhile (migrate-guest makes   *)
(* sure of it before it restores: two copies would write to one NAS).      *)
NeverTwice ==
  \A pair \in pairs :
    LET s == pair[1]  t == pair[2]  id == pair[3]
    IN ~(Up(s) /\ Up(t) /\ pve[s].id = id /\ pve[t].id = id) \/ id \in meddled

(* The machine a command destroys is the one its name stood for when it    *)
(* began; a migration destroys it only with a running copy in place.       *)
DestroysItsOwn ==
  [][\A p \in Places :
       Has(p) /\ ~Has(p)' =>
         \E a \in Actors :
           /\ At(a, "destroy") /\ Place(a) = p
           /\ job[a].alone =>
                /\ pve[p].id = job[a].id
                /\ job[a].op = "migrate-guest" =>
                     Up(job[a].to) /\ pve[job[a].to].id = job[a].id]_vars

(* A migration that is recorded moved the whole guest: the machine runs at *)
(* the new place with its own address, its route, its mounts and (unless   *)
(* copying them failed) its permissions, and the inventory's entry is the  *)
(* stored one with the place and the address changed.                      *)
MigratesWhole ==
  [][\A a \in Actors :
       /\ At(a, "save") /\ job[a].op = "migrate-guest"
       /\ job[a].alone /\ ~job[a].torn
       /\ disk' # disk
       /\ disk' = job[a].inv
       => LET j == job[a]
              m == pve[j.to]
          IN /\ m.id = j.id /\ m.up /\ m.ip = j.to
             /\ m.gw = j.archive.gw /\ m.mounts = j.archive.mounts
             /\ j.archive.acl \subseteq m.acl \/ j.failed # {}
             /\ [Guest(disk.guests, j.name) EXCEPT !.place = j.to, !.ip = j.to] \in disk'.guests]_vars

(* A save undoes nobody else's: after minutes of remote work a command     *)
(* leaves every setting and every other entry as stored.  An edit,         *)
(* set-guest-vpn and sync-inventory vouch for the settings only, and no    *)
(* process vouches for the instant between its reading and its saving.     *)
SavesKeepOthers ==
  [][\A a \in Actors :
       At(a, "save") /\ ~job[a].torn /\ disk' = job[a].inv =>
         LET j == job[a]
             Other(guests) == {e \in guests : e.name # j.name /\ (j.op \in Creates => e.place # j.to)}
         IN /\ j.op # "set-config" => disk'.setting = disk.setting
            /\ j.op \notin {"edit-guest", "set-guest-vpn", "sync-inventory"} =>
                 Other(disk'.guests) = Other(disk.guests) /\ disk'.stores = disk.stores]_vars
=============================================================================
