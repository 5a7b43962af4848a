------------------------------ MODULE Settings ------------------------------
(***************************************************************************)
(* The settings in bellhop.db, and opening that file.                      *)
(*                                                                         *)
(* Every load and every save opens the database anew and brings an older   *)
(* one up to date: a chain of migrations, each with its own transactions   *)
(* or none, that two processes may run at once and that may stop anywhere. *)
(* The web process changes settings on the Settings page, guests on the    *)
(* dashboard, and holds the client its sign-in uses; a command of the CLI  *)
(* imports the env files and sets one setting.                             *)
(*                                                                         *)
(* One non-secret and one secret key stand for the four of the web login.  *)
(***************************************************************************)
EXTENDS Naturals, Sequences, FiniteSets, Functions

CONSTANTS
  Actors, ProcOf(_),  \* the web process' requests and the CLI's commands
  Web,                \* the web process
  GuestNames,
  Databases,          \* what the file may hold at first
  Requests,           \* [by, op, set, secret, viaOidc]
  Env,                \* process -> the settings its environment pins
  EnvFile,            \* the settings in the data/*.env files
  GroupsOfAdmin,      \* the groups of the person at the Settings page
  Ladders,            \* value of authentikGroupLadder -> its rungs
  Unset, Invalid,
  MaxRequests, MaxFaults

ASSUME SettingsAssumption == MaxRequests \in Nat /\ MaxFaults \in Nat

VARIABLES
  db,       \* bellhop.db: [cols, guests, own, meta, secret, rules]
  mem,      \* the inventory the web process holds: whether Bellhop's guest qualifies
  client,   \* managed.ts current: a client was resolved for that guest
  flight,   \* the lookup under way: what it found in the inventory
  job,      \* actor -> what it is doing
  said,     \* what the database was told to mean
  renamed,  \* the rung renames applied
  excused,  \* somebody else wrote in between, or a write failed half way
  count     \* [requests, faults]

vars == <<db, mem, client, flight, job, said, renamed, excused, count>>

None == "none"
Idle == [pc |-> "idle"]
SETTINGS_KEYS == {"webUiAuthMode", "tlsSource", "proxyCertResolver", "proxyDriver",
                  "authentikGroupLadder", "webUiOidcIssuer", "authentikAdminGroup"}

At(a, pc) == job[a].pc = pc
Set(a, r) == job' = [job EXCEPT ![a] = r]
Go(a, pc) == Set(a, [job[a] EXCEPT !.pc = pc])
End(a) == Set(a, Idle)
Rests == {"idle", "refresh", "after"}  \* where a request awaits
Clear(a) == \A b \in Actors \ {a} : ProcOf(b) = ProcOf(a) => job[b].pc \in Rests

-----------------------------------------------------------------------------
(* Reading a setting.                                                      *)
effectiveValue(p, key, stored) == IF key \in DOMAIN Env[p] THEN Env[p][key] ELSE stored
configValueAt(p, key) == effectiveValue(p, key, db.meta[key])
Pinned(p, key) == key \in DOMAIN Env[p]

DEFAULT_GROUP_LADDER ==
  <<"bellhop-public-readonly", "bellhop-public", "bellhop-friends-family", "bellhop-admin-family",
    "authentik Admins">>
DEFAULT_ADMIN_GROUP == "authentik Admins"
PREVIOUS_DEFAULT_RUNG_RENAMES ==
  {<<"bellhop-users", "bellhop-admin-family">>, <<"bellhop-app-users", "bellhop-friends-family">>,
   <<"bellhop-app-users-open", "bellhop-public">>}

parseGroupLadder(value) == IF value = Unset THEN DEFAULT_GROUP_LADDER ELSE Ladders[value]
effectiveLadderOnHandle(p) == parseGroupLadder(configValueAt(p, "authentikGroupLadder"))
adminGroupsWith(p, set) ==
  LET value == IF "authentikAdminGroup" \in DOMAIN set THEN set["authentikAdminGroup"]
               ELSE configValueAt(p, "authentikAdminGroup")
  IN IF value = Unset THEN DEFAULT_ADMIN_GROUP ELSE value

(* Signing in: the custom settings when all are there, else the client of  *)
(* Bellhop's own guest.                                                    *)
readCustom(d) == effectiveValue(Web, "webUiOidcIssuer", d.meta["webUiOidcIssuer"]) # Unset
                   /\ (d.secret \/ Pinned(Web, "webUiOidcClientSecret"))
Mode(d) == effectiveValue(Web, "webUiAuthMode", d.meta["webUiAuthMode"])
webLoginStatus(d) == IF readCustom(d) THEN "custom" ELSE IF client THEN "managed" ELSE "none"

-----------------------------------------------------------------------------
(* What the stored values mean, before and after the migrations.           *)
legacyTarget(driver, caddyTls, resolver) ==
  IF driver \in {Unset, "caddy", "caddy-api"} THEN
    CASE caddyTls = "letsencrypt" -> "acme-http" [] caddyTls = "internal" -> "internal"
      [] caddyTls = "files" -> "files" [] OTHER -> Unset
  ELSE IF driver = "traefik" /\ resolver = "none" THEN "external" ELSE Unset

Meaning(d) ==
  [tls |-> IF d.meta["tlsSource"] # Unset THEN d.meta["tlsSource"]
           ELSE legacyTarget(d.meta["proxyDriver"], d.caddyTls, d.meta["proxyCertResolver"]),
   signIn |-> d.meta["webUiAuthMode"] \in {"authentik", "oidc"},
   gated |-> IF parseGroupLadder(d.meta["authentikGroupLadder"]) = <<>> THEN {}
             ELSE {g \in GuestNames : d.guests[g].req \/ d.guests[g].group # None},
   proxy |-> {g \in GuestNames : d.guests[g].proxy}]

(* Everybody has to sign in, and nobody can, or nobody is an administrator *)
(* when signed in.                                                         *)
LockedOut(d) ==
  /\ Mode(d) \in {"authentik", "oidc"}
  /\ \/ ~readCustom(d) /\ ~d.own
     \/ LET group == effectiveValue(Web, "authentikAdminGroup", d.meta["authentikAdminGroup"])
        IN (IF group = Unset THEN DEFAULT_ADMIN_GROUP ELSE group) \notin GroupsOfAdmin

Init ==
  /\ db \in Databases
  /\ mem = db.own
  /\ client = db.own
  /\ flight = None
  /\ job = [a \in Actors |-> Idle]
  /\ said = [meaning |-> Meaning(db), rules |-> db.rules]
  /\ renamed = {}
  /\ excused = LockedOut(db)
  /\ count = [requests |-> 0, faults |-> 0]

-----------------------------------------------------------------------------
(* Opening the database.  Every step may find it locked, and throws.       *)
Opening == {"caddy", "mode", "tls", "tlsTx", "columns", "requires", "requiresUpdate",
            "requiresDrop", "rungs", "rungsTx"}
Others == <<mem, client, flight, said, excused, count>>

migrateCaddyToProxy(a) ==
  /\ At(a, "caddy")
  /\ db' = [db EXCEPT !.cols = (@ \ {"caddy"}) \cup {"proxy"}]
  /\ Go(a, "mode")
  /\ UNCHANGED <<renamed, Others>>

migrateWebUiAuthMode(a) ==
  /\ At(a, "mode")
  /\ db' = [db EXCEPT !.meta["webUiAuthMode"] =
              CASE @ = "authentik" -> "oidc" [] @ = "auto" -> Unset [] OTHER -> @]
  /\ Go(a, "tls")
  /\ UNCHANGED <<renamed, Others>>

(* One query decides whether there is anything to convert; the conversion  *)
(* then reads everything again under the write lock.                       *)
hasLegacyRow == db.caddyTls # Unset \/ db.meta["proxyCertResolver"] = "none"

convertLegacyTlsSettings(d) ==
  LET to == legacyTarget(d.meta["proxyDriver"], d.caddyTls, d.meta["proxyCertResolver"])
  IN [d EXCEPT !.caddyTls = Unset,
        !.meta["proxyCertResolver"] = IF @ = "none" THEN Unset ELSE @,
        !.meta["tlsSource"] = IF @ = Unset THEN to ELSE @]

migrateLegacyTlsSettings(a) ==
  /\ \/ At(a, "tls") /\ Go(a, IF hasLegacyRow THEN "tlsTx" ELSE "columns") /\ UNCHANGED db
     \/ At(a, "tlsTx") /\ db' = convertLegacyTlsSettings(db) /\ Go(a, "columns")
  /\ UNCHANGED <<renamed, Others>>

ensureColumn(a) ==
  /\ At(a, "columns")
  /\ db' = [db EXCEPT !.cols = @ \cup {"auth_group"}]
  /\ Go(a, "requires")
  /\ UNCHANGED <<renamed, Others>>

(* A check, an UPDATE and an ALTER, each on its own: another process may   *)
(* drop the column first, and the statement then fails.                    *)
topRung(p) ==
  LET ladder == effectiveLadderOnHandle(p)
  IN IF ladder = <<>> THEN None ELSE ladder[Len(ladder)]

migrateRequiresAuthToAuthGroup(a) ==
  /\ \/ /\ At(a, "requires")
        /\ IF "requires_auth" \in db.cols
           THEN Set(a, [job[a] EXCEPT !.pc = "requiresUpdate", !.top = topRung(ProcOf(a))])
           ELSE Go(a, "rungs")
        /\ UNCHANGED db
     \/ /\ At(a, "requiresUpdate") /\ "requires_auth" \in db.cols
        /\ db' = [db EXCEPT !.guests = [g \in GuestNames |->
             IF @[g].req /\ @[g].group = None THEN [@[g] EXCEPT !.group = job[a].top] ELSE @[g]]]
        /\ Go(a, "requiresDrop")
     \/ /\ At(a, "requiresDrop") /\ "requires_auth" \in db.cols
        /\ db' = [db EXCEPT !.cols = @ \ {"requires_auth"},
                            !.guests = [g \in GuestNames |-> [@[g] EXCEPT !.req = FALSE]]]
        /\ Go(a, "rungs")
     \/ /\ job[a].pc \in {"requiresUpdate", "requiresDrop"} /\ "requires_auth" \notin db.cols
        /\ End(a) /\ UNCHANGED db
  /\ UNCHANGED <<renamed, Others>>

(* Which pairs apply is decided before the write lock is taken.            *)
holdsName(name) == db.rules[name] # None \/ \E g \in GuestNames : db.guests[g].group = name

applicable(p) ==
  LET ladder == Range(effectiveLadderOnHandle(p))
  IN {r \in PREVIOUS_DEFAULT_RUNG_RENAMES : holdsName(r[1]) /\ r[1] \notin ladder /\ r[2] \in ladder}

\* Mutant: the rule moves to the new name.
mutRenameRungs(d, pairs) ==
  [d EXCEPT
     !.guests = [g \in GuestNames |->
       [@[g] EXCEPT !.group = IF \E r \in pairs : r[1] = @ THEN (CHOOSE r \in pairs : r[1] = @)[2] ELSE @]],
     !.rules = [name \in DOMAIN @ |->
       LET from == {r \in pairs : r[2] = name}
       IN IF \E r \in pairs : r[1] = name THEN None
          ELSE IF @[name] = None /\ from # {} THEN @[(CHOOSE r \in from : TRUE)[1]] ELSE @[name]]]

(* Stored names change, a rule is copied: a group without one may do       *)
(* everything, and its members may carry either name.                      *)
renameRungs(d, pairs) ==
  [d EXCEPT
     !.guests = [g \in GuestNames |->
       [@[g] EXCEPT !.group = IF \E r \in pairs : r[1] = @ THEN (CHOOSE r \in pairs : r[1] = @)[2] ELSE @]],
     !.rules = [name \in DOMAIN @ |->
       LET from == {r \in pairs : r[2] = name}
       IN IF @[name] = None /\ from # {} THEN @[(CHOOSE r \in from : TRUE)[1]] ELSE @[name]]]

migratePreviousDefaultRungNames(a) ==
  /\ \/ /\ At(a, "rungs")
        /\ LET pairs == applicable(ProcOf(a))
           IN Set(a, [job[a] EXCEPT !.pc = IF pairs = {} THEN job[a].then ELSE "rungsTx", !.pairs = pairs])
        /\ UNCHANGED <<db, renamed>>
     \/ /\ At(a, "rungsTx")
        /\ db' = renameRungs(db, job[a].pairs)
        /\ renamed' = renamed \cup job[a].pairs
        /\ Go(a, job[a].then)
  /\ UNCHANGED Others

(* A step of an open or a write that throws; a write that throws half way  *)
(* leaves the rest undone.                                                 *)
Throws(a) ==
  /\ job[a].pc \in Opening \cup {"save", "secret"}
  /\ count.faults < MaxFaults
  /\ count' = [count EXCEPT !.faults = @ + 1]
  /\ excused' = (excused \/ At(a, "secret"))
  /\ End(a)
  /\ UNCHANGED <<db, mem, client, flight, said, renamed>>

-----------------------------------------------------------------------------
(* Requests.  On the web each begins by reading the inventory again; a     *)
(* command of the CLI begins with the import.                              *)
Job(r) ==
  [pc |-> "caddy", op |-> r.op, set |-> r.set, secret |-> r.secret, viaOidc |-> r.viaOidc,
   own |-> r.own, then |-> "load", stage |-> "request", top |-> None, pairs |-> {}, inv |-> db,
   todo |-> {}, switching |-> FALSE, missing |-> {}, admin |-> None, loaded |-> FALSE, raced |-> FALSE]

Begin(a, r) ==
  /\ At(a, "idle") /\ r.by = a /\ Clear(a)
  /\ count.requests < MaxRequests
  /\ count' = [count EXCEPT !.requests = @ + 1]
  /\ IF r.op = "set-config"
     THEN Set(a, [Job(r) EXCEPT !.pc = "import", !.stage = "write", !.todo = DOMAIN EnvFile])
     ELSE /\ Mode(db) = "oidc" => r.viaOidc
          /\ r.op = "patch" /\ r.viaOidc => adminGroupsWith(Web, <<>>) \in GroupsOfAdmin
          /\ Set(a, Job(r))
  /\ UNCHANGED <<db, mem, client, flight, said, renamed, excused>>

(* Only what is not stored yet, and is valid; what comes after is the      *)
(* command: a secret is written without opening the inventory.             *)
importEnvFiles(a) ==
  /\ At(a, "import")
  /\ \/ \E key \in job[a].todo :
          /\ db' = [db EXCEPT !.meta[key] =
                      IF @ = Unset /\ EnvFile[key] # Invalid THEN EnvFile[key] ELSE @]
          /\ Set(a, [job[a] EXCEPT !.todo = @ \ {key}])
     \/ /\ job[a].todo = {}
        /\ IF \E k \in DOMAIN job[a].set : job[a].set[k] = Invalid THEN End(a)
           ELSE Go(a, IF job[a].secret = "keep" THEN "caddy" ELSE "secret")
        /\ UNCHANGED db
  /\ UNCHANGED <<renamed, Others>>

(* For a request: the handler runs on.  For a write: open again, and save. *)
loadInventory(a) ==
  /\ At(a, "load")
  /\ LET fresh == IF job[a].op = "edit-guest" /\ job[a].stage = "write"
                  THEN [job[a].inv EXCEPT !.meta = db.meta] ELSE db
     IN Set(a, [job[a] EXCEPT !.inv = fresh, !.loaded = TRUE, !.then = "save",
                  !.pc = IF job[a].stage = "request" THEN "check" ELSE "caddy"])
  /\ mem' = IF job[a].stage = "request" THEN db.own ELSE mem
  /\ UNCHANGED <<db, client, flight, said, renamed, excused, count>>

Write(j) == [j EXCEPT !.pc = "caddy", !.stage = "write", !.then = "load"]

(* managedLoginLockoutError                                                *)
lockoutError(own) == Mode(db) = "oidc" /\ ~readCustom(db) /\ mem /\ ~own

CheckEdit(a) ==
  /\ At(a, "check") /\ job[a].op = "edit-guest"
  /\ IF lockoutError(job[a].own) THEN End(a)
     ELSE Set(a, [Write(job[a]) EXCEPT !.inv.own = job[a].own])
  /\ UNCHANGED <<db, renamed, Others>>

(* The login keys that will have no value once this is saved; while oidc   *)
(* stays in force only those this request clears.                          *)
missingKeys(j, switching) ==
  {k \in {"webUiOidcIssuer", "webUiOidcClientSecret"} :
     IF k = "webUiOidcIssuer"
     THEN IF k \in DOMAIN j.set THEN j.set[k] = Unset
          ELSE switching /\ configValueAt(Web, k) = Unset
     ELSE IF j.secret # "keep" THEN j.secret = "clear"
          ELSE switching /\ ~db.secret /\ ~Pinned(Web, k)}

patchRefused(j) ==
  \/ \E k \in DOMAIN j.set : j.set[k] = Invalid
  \/ \E k \in DOMAIN j.set : Pinned(Web, k)
  \/ j.secret # "keep" /\ Pinned(Web, "webUiOidcClientSecret")
  \/ /\ "authentikAdminGroup" \in DOMAIN j.set /\ j.viaOidc
     /\ adminGroupsWith(Web, j.set) \notin GroupsOfAdmin

(* resolve, up to its question to Authentik; a second asker joins the      *)
(* first.                                                                  *)
refreshManagedWebLogin(a, waiting, next) ==
  \/ flight # None /\ Set(a, [waiting EXCEPT !.pc = next]) /\ UNCHANGED <<client, flight>>
  \/ flight = None /\ mem' /\ flight' = "asking" /\ Set(a, [waiting EXCEPT !.pc = next]) /\ UNCHANGED client
  \/ /\ flight = None /\ ~mem' /\ client' = FALSE /\ UNCHANGED flight
     /\ IF next = "after" THEN End(a) ELSE Set(a, [waiting EXCEPT !.pc = "decide"])

CheckPatch(a) ==
  /\ At(a, "check") /\ job[a].op = "patch"
  /\ UNCHANGED mem
  /\ LET j == job[a]
         before == configValueAt(Web, "webUiAuthMode")
         after == IF "webUiAuthMode" \in DOMAIN j.set THEN j.set["webUiAuthMode"] ELSE before
         switching == after = "oidc" /\ before # "oidc"
         missing == IF after = "oidc" THEN missingKeys(j, switching) ELSE {}
         checked == [j EXCEPT !.switching = switching, !.missing = missing, !.pc = "decide",
                              !.admin = adminGroupsWith(Web, j.set)]
     IN IF patchRefused(j) THEN End(a) /\ UNCHANGED <<client, flight>>
        ELSE IF missing = {} THEN Set(a, checked) /\ UNCHANGED <<client, flight>>
        ELSE refreshManagedWebLogin(a, checked, "refresh")
  /\ UNCHANGED <<db, said, renamed, excused, count>>

(* Authentik answers, or it cannot be reached and the last client is kept, *)
(* or it no longer knows the guest as its own.                             *)
LookupEnds ==
  /\ flight # None /\ \A a \in Actors : ProcOf(a) = Web => job[a].pc \in Rests
  /\ flight' = None
  /\ \/ client' = TRUE /\ UNCHANGED <<count, excused>>
     \/ /\ count.faults < MaxFaults /\ count' = [count EXCEPT !.faults = @ + 1]
        /\ client' \in {client, FALSE}
        /\ UNCHANGED excused
  /\ job' = [a \in Actors |-> CASE At(a, "refresh") -> [job[a] EXCEPT !.pc = "decide"]
                               [] At(a, "after") -> Idle
                               [] OTHER -> job[a]]
  /\ UNCHANGED <<db, mem, said, renamed>>

\* Mutant: Bellhop's own guest excuses any gap.
mutDecidePatch(a) ==
  /\ At(a, "decide") /\ Clear(a)
  /\ LET j == job[a]
         unproved == j.switching /\ (~j.viaOidc \/ j.admin \notin GroupsOfAdmin)
     IN IF unproved THEN End(a)
        ELSE Set(a, IF DOMAIN j.set # {} THEN Write(j) ELSE [j EXCEPT !.pc = "secret"])
  /\ UNCHANGED <<db, renamed, Others>>

DecidePatch(a) ==
  /\ At(a, "decide") /\ Clear(a)
  /\ LET j == job[a]
         customInEffect == ~j.switching /\ webLoginStatus(db) = "custom"
         gap == j.missing # {} /\ (customInEffect \/ ~client)
         unproved == j.switching /\ (~j.viaOidc \/ j.admin \notin GroupsOfAdmin)
     IN IF gap \/ unproved THEN End(a)
        ELSE Set(a, IF DOMAIN j.set # {} THEN Write(j) ELSE [j EXCEPT !.pc = "secret"])
  /\ UNCHANGED <<db, renamed, Others>>

(* Anybody else who has read and not written is overtaken: a process       *)
(* cannot vouch for what another wrote since it looked, nor a change of    *)
(* settings for what was saved while it waited for Authentik.              *)
Overtake(a, j) ==
  job' = [b \in Actors |-> IF b = a THEN j
                        ELSE IF At(b, "idle") \/ (ProcOf(b) = ProcOf(a) /\ ~At(b, "refresh")) THEN job[b]
                        ELSE [job[b] EXCEPT !.raced = TRUE]]
Excuse(a) == excused' = (excused \/ ((job[a].raced \/ ProcOf(a) # Web) /\ LockedOut(db')))

Updated(meta, set) == [k \in DOMAIN meta |-> IF k \in DOMAIN set THEN set[k] ELSE meta[k]]

saveInventory(a) ==
  /\ At(a, "save")
  /\ LET j == job[a]
         next == IF j.op = "set-config" THEN Idle
                 ELSE [j EXCEPT !.pc = IF j.op = "patch" THEN "secret" ELSE "finish"]
     IN /\ db' = [db EXCEPT !.guests = j.inv.guests, !.own = j.inv.own,
                            !.meta = Updated(j.inv.meta, j.set)]
        /\ Overtake(a, next)
        /\ said' = [said EXCEPT !.meaning =
             IF j.raced THEN Meaning(db') ELSE Meaning([db EXCEPT !.meta = Updated(@, j.set)])]
        /\ mem' = IF j.op = "edit-guest" THEN j.inv.own ELSE mem
  /\ Excuse(a)
  /\ UNCHANGED <<client, flight, renamed, count>>

(* Secrets have a table of their own, written after the settings.          *)
writeSecrets(a) ==
  /\ At(a, "secret")
  /\ db' = [db EXCEPT !.secret = CASE job[a].secret = "set" -> TRUE
                                   [] job[a].secret = "clear" -> FALSE
                                   [] OTHER -> @]
  /\ Overtake(a, IF job[a].op = "patch" THEN [job[a] EXCEPT !.pc = "finish"] ELSE Idle)
  /\ Excuse(a)
  /\ UNCHANGED <<mem, client, flight, said, renamed, count>>

(* The held inventory is read again, and the client when it is used.       *)
Finish(a) ==
  /\ At(a, "finish")
  /\ mem' = db.own
  /\ IF readCustom(db) THEN End(a) /\ UNCHANGED <<client, flight>>
     ELSE refreshManagedWebLogin(a, job[a], "after")
  /\ UNCHANGED <<db, said, renamed, excused, count>>

Open(a) ==
  \/ migrateCaddyToProxy(a) \/ migrateWebUiAuthMode(a) \/ migrateLegacyTlsSettings(a) \/ ensureColumn(a)
  \/ migrateRequiresAuthToAuthGroup(a) \/ migratePreviousDefaultRungNames(a)

Next ==
  \/ \E a \in Actors, r \in Requests : Begin(a, r)
  \/ \E a \in Actors :
       \/ Open(a) \/ Throws(a) \/ importEnvFiles(a) \/ loadInventory(a) \/ CheckEdit(a) \/ CheckPatch(a)
       \/ DecidePatch(a) \/ saveInventory(a) \/ writeSecrets(a) \/ Finish(a)
  \/ LookupEnds

Spec == Init /\ [][Next]_vars

-----------------------------------------------------------------------------
(* Whatever the migrations did, in whatever interleaving and wherever they *)
(* stopped, the database means what it meant: the same guests are gated,   *)
(* the same TLS source serves, sign-in is asked for as before, the proxy   *)
(* is where it was; only a setting somebody set means something else.      *)
MeaningKept == Meaning(db) = said.meaning

(* A rung that was renamed is as restricted on the web under either name   *)
(* as the old one was, and no rule somebody made is written over.          *)
RenamesKeepRules ==
  /\ \A name \in DOMAIN db.rules : said.rules[name] # None => db.rules[name] = said.rules[name]
  /\ \A r \in renamed : said.rules[r[1]] # None => db.rules[r[2]] # None

(* Opening an older database changes its form and nothing it says.         *)
MigrationsKeepMeaning == MeaningKept /\ RenamesKeepRules

(* No change on the Settings page and no edit of a guest locks everybody   *)
(* out, except one that another write crosses or that fails half way.      *)
NoLockout ==
  LockedOut(db) =>
    excused \/ \E a \in Actors : ProcOf(a) = Web /\ job[a].pc \in {"secret", "finish"}
=============================================================================
