------------------------------ MODULE PushLive ------------------------------
(***************************************************************************)
(* Pushing an inventory live: sync-proxy through the active driver, the    *)
(* status page, Authentik, and the stale ACME challenge records.  Saves of *)
(* the Dashboard and jobs may push at the same time; the operator edits    *)
(* the inventory and, by hand, what the proxy holds.                       *)
(*                                                                         *)
(* A file driver's script is taken at its word here (ProxyConfig, which    *)
(* FileDriver implements): the files are replaced as a whole or not at     *)
(* all.  Authentik is the inventory it was last reconciled with            *)
(* (AuthentikSync has the steps).                                          *)
(***************************************************************************)
EXTENDS CaddyJson, NpmSync

CONSTANTS
  Order,        \* the entries in inventory order
  Inventories,  \* the inventories an operator edits to and fro
  Setups,       \* settings: [driver, tls, outpost, proxyEntry, page, authentik, cloudflare]
  CaddyStarts,  \* Caddy configurations to start from: [service, config]
  Adapted,      \* the hand-authored part of the Caddyfile, as caddy adapt prints it
  NpmStarts,    \* what NPM holds at the start: [hosts, certs]
  HandNames,    \* names an operator gives to routes and hosts of their own
  Paths,        \* request paths to compare the gate on
  Pushers,
  MaxEdits, MaxTouches, MaxPushes, MaxFaults   \* bounds

ASSUME PushLiveAssumption == {MaxEdits, MaxTouches, MaxPushes, MaxFaults} \subseteq Nat

VARIABLES
  setup, inv,
  live,      \* [routes (file drivers), service, caddy, hosts, certs, nextHost]
  page,      \* what the status page shows
  auth,      \* the inventory Authentik was last reconciled with
  records,   \* TXT and CNAME records of the zone
  push,
  count      \* [edits, touches, pushes, faults]

vars == <<setup, inv, live, page, auth, records, push, count>>

NoPlan == [etag |-> NoCaddyConfig, config |-> NoCaddyConfig, todo |-> <<>>, conflicts |-> FALSE]
NoInventory == [e \in ToSet(Order) |-> [names |-> <<>>, mode |-> "ungated", exempt |-> {}, manual |-> FALSE]]
NotPushed == [pc |-> "idle", inv |-> NoInventory, plan |-> NoPlan, perr |-> FALSE,
              how |-> "none", lone |-> FALSE]

(* Records of the zone: stale says that the last change is over 24 h ago.  *)
Record(type, challenge, managed, stale) ==
  [type |-> type, challenge |-> challenge, managed |-> managed, stale |-> stale]
Zone == {Record(t, c, m, s) : t \in {"TXT", "CNAME"}, c \in BOOLEAN, m \in BOOLEAN, s \in BOOLEAN}

D == setup.driver
Routes(i) == routesOf(Order, i)
Source == effectiveTlsSource(setup.tls, D)

Init ==
  /\ setup \in Setups
  /\ inv \in Inventories
  /\ \E c \in CaddyStarts, n \in NpmStarts :
       /\ c # (CHOOSE x \in CaddyStarts : TRUE) => setup.driver.id = "caddy-api"
       /\ n # (CHOOSE x \in NpmStarts : TRUE) => setup.driver.id = "nginx-proxy-manager"
       /\ live = [routes |-> <<>>, service |-> c.service, caddy |-> c.config,
                  hosts |-> n.hosts, certs |-> n.certs,
                  nextHost |-> Max({0} \cup {h.id : h \in n.hosts}) + 1]
  /\ page = [inv |-> NoInventory, live |-> <<>>] /\ auth = NoInventory
  /\ records = Zone
  /\ push = [p \in Pushers |-> NotPushed]
  /\ count = [edits |-> 0, touches |-> 0, pushes |-> 0, faults |-> 0]

At(p, pc) == push[p].pc = pc
Set(p, r) == push' = [push EXCEPT ![p] = r]
Go(p, pc) == Set(p, [push[p] EXCEPT !.pc = pc])
\* Mutant: the whole push stops at a proxy error.
mutProxyError(p) == Set(p, [push[p] EXCEPT !.pc = "idle", !.how = "proxy", !.plan = NoPlan])

ProxyError(p) == Set(p, [push[p] EXCEPT !.pc = "authentik", !.perr = TRUE, !.plan = NoPlan])
ProxyDone(p) == Set(p, [push[p] EXCEPT !.pc = "page", !.plan = NoPlan])
End(p, how) == Set(p, [push[p] EXCEPT !.pc = "idle", !.how = how, !.perr = FALSE])

Disturbed(q) == [q EXCEPT !.lone = FALSE]
Count(f) == count' = [count EXCEPT ![f] = @ + 1]
Fault == count.faults < MaxFaults /\ Count("faults")

-----------------------------------------------------------------------------
(* The operator.                                                           *)

Edit(i) ==
  /\ count.edits < MaxEdits /\ i # inv
  /\ inv' = i
  /\ Count("edits")
  /\ UNCHANGED <<setup, live, page, auth, records, push>>

Touch(new) ==
  /\ count.touches < MaxTouches /\ new # live
  /\ live' = new
  /\ push' = [p \in Pushers |-> Disturbed(push[p])]
  /\ Count("touches")
  /\ UNCHANGED <<setup, inv, page, auth, records>>

(* By hand, in Caddy: a route of one's own in front of, behind or instead  *)
(* of Bellhop's, or the switch of the service to the API configuration.    *)
TouchCaddy ==
  /\ D.id = "caddy-api"
  /\ \/ \E n \in HandNames, i \in HttpsServers(live.caddy.servers) :
          \/ Touch([live EXCEPT !.caddy.servers[i].routes = <<HandRoute({n})>> \o @])
          \/ Touch([live EXCEPT !.caddy.servers[i].routes = @ \o <<HandRoute({n})>>])
     \/ \E i \in HttpsServers(live.caddy.servers) :
          \/ Touch([live EXCEPT !.caddy.servers[i].routes = Hand(@) \o Bellhop(@)])
          \/ Touch([live EXCEPT !.caddy.servers[i].routes = Bellhop(@)])
     \/ Touch([live EXCEPT !.service = "api"])

(* By hand, in NPM: a host taken over (its marker removed), a redirection  *)
(* host of one's own, a host of one's own removed; a certificate expires.  *)
TouchNpm ==
  /\ D.id = "nginx-proxy-manager"
  /\ \/ \E h \in live.hosts :
          \/ isOwned(h) /\ Touch([live EXCEPT !.hosts = (@ \ {h}) \cup {[h EXCEPT !.own = FALSE]}])
          \/ ~isOwned(h) /\ Touch([live EXCEPT !.hosts = @ \ {h}])
     \/ \E n \in HandNames :
          /\ \A h \in live.hosts : n \notin ToSet(h.names)
          /\ Touch([live EXCEPT !.hosts = @ \cup
               {Host(1, "redirection", FALSE, <<n>>, desiredProxyHost(NoRoute), Request, TRUE)}])
     \/ \E c \in live.certs :
          Touch([live EXCEPT !.certs = (@ \ {c}) \cup {[c EXCEPT !.exp = 0]}])

-----------------------------------------------------------------------------
(* syncProxyLive.  Whoever pushes reads the inventory once.                *)

syncProxyLive(p) ==
  /\ At(p, "idle") /\ count.pushes < MaxPushes
  /\ push' = [q \in Pushers |->
                IF q = p THEN [NotPushed EXCEPT !.pc = "sync", !.inv = inv,
                                 !.lone = \A o \in Pushers : At(o, "idle")]
                ELSE Disturbed(push[q])]
  /\ Count("pushes")
  /\ UNCHANGED <<setup, inv, live, page, auth, records>>

(* What runSyncProxy refuses before it reads anything.                     *)
refused(i) ==
  \/ ~checkTlsSource(setup.tls, D)
  \/ ~setup.proxyEntry
  \/ buildRoutesThrows(Order, i, setup.outpost, "forward" \in D.authModes)
  \/ checkCapabilities(Routes(i), D) # {}

(* Each driver's plan() and what of it apply() gets.                       *)
planned(p) ==
  LET routes == Routes(push[p].inv)
      caddy == planCaddyConfig(live.caddy, routes, Source)
      npm == planNpmSync(live.hosts, live.certs, routes)
  IN CASE D.id = "caddy-api" ->
            [NoPlan EXCEPT !.etag = live.caddy, !.config = caddy.config,
                           !.conflicts = caddy.conflicts # {}]
       [] D.id = "nginx-proxy-manager" ->
            [NoPlan EXCEPT !.todo = npm.todo, !.conflicts = npm.conflicts # {}]
       [] OTHER -> NoPlan

planThrows(p) ==
  /\ D.id = "caddy-api"
  /\ \/ live.service = "caddyfile"   \* checkService
     \/ planCaddyConfig(live.caddy, Routes(push[p].inv), Source).throws

runSyncProxy(p) ==
  /\ At(p, "sync")
  /\ CASE ~managesProxy(D) -> ProxyDone(p) /\ UNCHANGED count
       [] managesProxy(D) /\ (refused(push[p].inv) \/ planThrows(p)) ->
            ProxyError(p) /\ UNCHANGED count
       [] OTHER ->
            \/ Set(p, [push[p] EXCEPT !.pc = "apply", !.plan = planned(p)]) /\ UNCHANGED count
            \/ D.files = <<>> /\ Fault /\ ProxyError(p)   \* the read fails
  /\ UNCHANGED <<setup, inv, live, page, auth, records>>

(* The file drivers' apply().                                              *)
applyFiles(p) ==
  /\ At(p, "apply") /\ D.files # <<>>
  /\ \/ /\ live' = [live EXCEPT !.routes = Routes(push[p].inv)]
        /\ ProxyDone(p) /\ UNCHANGED count
     \/ Fault /\ ProxyError(p) /\ UNCHANGED live
  /\ UNCHANGED <<setup, inv, page, auth, records>>

\* Mutant: no If-Match.
mutWriteCaddyConfig(etag, config, caddy) == config

(* PATCH with If-Match: 412 when the configuration is not the one read.    *)
writeCaddyConfig(etag, config, caddy) == IF caddy = etag THEN config ELSE caddy

(* caddy-api's apply(); the write may be refused, or answered too late.    *)
applyCaddyApi(p) ==
  /\ At(p, "apply") /\ D.id = "caddy-api"
  /\ LET plan == push[p].plan
         written == writeCaddyConfig(plan.etag, plan.config, live.caddy)
         fine == (plan.config = plan.etag \/ written = plan.config) /\ ~plan.conflicts
     IN \/ /\ IF plan.config = plan.etag THEN UNCHANGED live
              ELSE live' = [live EXCEPT !.caddy = written]
           /\ IF fine THEN ProxyDone(p) ELSE ProxyError(p)
           /\ UNCHANGED count
        \/ /\ plan.config # plan.etag
           /\ live' \in {live, [live EXCEPT !.caddy = written]}
           /\ Fault /\ ProxyError(p)
  /\ UNCHANGED <<setup, inv, page, auth, records>>

(* NPM refuses a name that another host, of any kind, holds.               *)
inUse(hosts, e) ==
  \E h \in hosts : ~(h.kind = "proxy" /\ h.id = e.id) /\ ToSet(h.names) \cap ToSet(e.names) # {}

NewCertificateId(certs) == Max({0} \cup {c.id : c \in certs}) + 1

(* certificateIdFor.                                                       *)
certificateIdFor(certs, e) == IF e.cert = Request THEN NewCertificateId(certs) ELSE e.cert
certsWith(certs, e) ==
  IF e.cert = Request THEN certs \cup {Certificate(NewCertificateId(certs), ToSet(e.names), 2)} ELSE certs

(* The hosts once an entry of the plan is carried out.                     *)
deleteProxyHost(hosts, e) == {h \in hosts : ~(h.kind = "proxy" /\ h.id = e.id)}
ProxyHosts(hosts) == {h \in hosts : h.kind = "proxy"}
createProxyHost(hosts, certs, e, online) ==
  hosts \cup {Host(live.nextHost, "proxy", TRUE, e.names, e.want,
                   certificateIdFor(certs, e), online)}
updateProxyHost(hosts, certs, e, online) ==
  deleteProxyHost(hosts, e)
    \cup {Host(e.id, "proxy", TRUE, e.names, e.want, certificateIdFor(certs, e), online)}

(* A host that is gone (deleted by hand or by another push) cannot be      *)
(* deleted or updated.                                                     *)
missing(hosts, e) == e.op # "create" /\ \A h \in ProxyHosts(hosts) : h.id # e.id

(* One entry of the plan: the certificate, the write, the read-back.  A    *)
(* host nginx does not load is saved all the same.                         *)
carryOut(p, e) ==
  LET hosts(online) == IF e.op = "create" THEN createProxyHost(live.hosts, live.certs, e, online)
                       ELSE updateProxyHost(live.hosts, live.certs, e, online)
      written(online) ==
        [live EXCEPT !.hosts = hosts(online), !.certs = certsWith(@, e),
                     !.nextHost = IF e.op = "create" THEN @ + 1 ELSE @]
      next == Set(p, [push[p] EXCEPT !.plan.todo = Tail(@)])
  IN \/ e.op = "delete" /\ live' = [live EXCEPT !.hosts = deleteProxyHost(@, e)]
          /\ next /\ UNCHANGED count
     \/ e.op # "delete" /\ live' = written(TRUE)
          /\ next /\ UNCHANGED count
     \/ e.op # "delete" /\ live' = written(FALSE)
          /\ Fault /\ ProxyError(p)

applyNpmPlan(p) ==
  /\ At(p, "apply") /\ D.id = "nginx-proxy-manager"
  /\ LET todo == push[p].plan.todo
         e == Head(todo)
     IN \/ /\ todo = <<>>
           /\ IF push[p].plan.conflicts THEN ProxyError(p) ELSE ProxyDone(p)
           /\ UNCHANGED <<live, count>>
        \/ /\ todo # <<>> /\ ~missing(live.hosts, e) /\ ~inUse(live.hosts, e)
           /\ carryOut(p, e)
        \/ /\ todo # <<>> /\ (missing(live.hosts, e) \/ inUse(live.hosts, e))
           /\ live' = [live EXCEPT !.certs = certsWith(@, e)]
           /\ ProxyError(p) /\ UNCHANGED count
        \/ todo # <<>> /\ Fault /\ ProxyError(p) /\ UNCHANGED live
  /\ UNCHANGED <<setup, inv, page, auth, records>>

Shown == CASE D.id = "caddy-api" -> live.caddy
           [] D.files # <<>> -> live.routes
           [] OTHER -> <<>>

statusPageSkipReason == ~managesProxy(D) \/ ~D.statusPage \/ ~setup.page

(* The inventory the push works with beside what the proxy really has.     *)
runRenderStatusPage(p) == page' = [inv |-> push[p].inv, live |-> Shown]

StatusPage(p) ==
  /\ At(p, "page")
  /\ CASE statusPageSkipReason -> Go(p, "authentik") /\ UNCHANGED <<page, count>>
       [] OTHER -> \/ runRenderStatusPage(p) /\ Go(p, "authentik") /\ UNCHANGED count
                   \/ Fault /\ End(p, "page") /\ UNCHANGED page
  /\ UNCHANGED <<setup, inv, live, auth, records>>

(* After a proxy error an error of Authentik is only logged and the first  *)
(* one is thrown.                                                          *)
syncAuthentikLive(p) ==
  /\ At(p, "authentik")
  /\ \/ /\ auth' = IF setup.authentik THEN push[p].inv ELSE auth
        /\ IF push[p].perr THEN End(p, "proxy") ELSE Go(p, "prune")
        /\ UNCHANGED count
     \/ /\ setup.authentik /\ Fault
        /\ End(p, IF push[p].perr THEN "both" ELSE "authentik")
        /\ UNCHANGED auth
  /\ UNCHANGED <<setup, inv, live, page, records>>

(* Only TXT challenge records of one's own, over a day old.                *)
runPruneAcmeChallenges ==
  {r \in records : r.type = "TXT" /\ r.challenge /\ ~r.managed /\ r.stale}

(* Nothing that goes wrong here fails the push.                            *)
pruneAcmeChallengesLive(p) ==
  /\ At(p, "prune")
  /\ IF managesProxy(D) /\ usesCloudflareDns01(setup.tls, D) /\ setup.cloudflare
       THEN \E kept \in SUBSET runPruneAcmeChallenges :
              /\ records' = (records \ runPruneAcmeChallenges) \cup kept
              /\ IF kept # {} THEN Fault ELSE UNCHANGED count
       ELSE UNCHANGED <<records, count>>
  /\ End(p, "ok")
  /\ UNCHANGED <<setup, inv, live, page, auth>>

(* convert-caddyfile, the first switch to the API: refused once Bellhop's  *)
(* objects are there.  The read and the write are one step here: the write *)
(* carries the Etag of the read.                                           *)
runConvertCaddyfile ==
  /\ D.id = "caddy-api" /\ count.pushes < MaxPushes
  /\ setup.proxyEntry /\ checkTlsSource(setup.tls, D)
  /\ ~hasBellhopObjects(live.caddy)
  /\ ~buildRoutesThrows(Order, inv, setup.outpost, TRUE)
  /\ LET plan == planCaddyConfig(Adapted, Routes(inv), Source)
     IN ~plan.throws /\ live' = [live EXCEPT !.caddy = plan.config]
  /\ push' = [p \in Pushers |-> Disturbed(push[p])]
  /\ Count("pushes")
  /\ UNCHANGED <<setup, inv, page, auth, records>>

Step(p) ==
  \/ runSyncProxy(p) \/ applyFiles(p) \/ applyCaddyApi(p) \/ applyNpmPlan(p)
  \/ StatusPage(p) \/ syncAuthentikLive(p) \/ pruneAcmeChallengesLive(p)

Next ==
  \/ \E i \in Inventories : Edit(i)
  \/ TouchCaddy \/ TouchNpm \/ runConvertCaddyfile
  \/ \E p \in Pushers : syncProxyLive(p) \/ Step(p)

Spec == Init /\ [][Next]_vars

-----------------------------------------------------------------------------
(* What the proxy does with a request for a name: the route it uses, as    *)
(* rendered, or <<>> when it has none of Bellhop's.                        *)
SiteOf(name) ==
  LET file == SelectSeq(live.routes, LAMBDA r : name \in ToSet(r.names))
      caddy == CaddyRouteFor(live.caddy, name)
      npm == {h \in live.hosts : isOwned(h) /\ h.online /\ name \in ToSet(h.names)}
  IN CASE D.id = "caddy-api" -> IF caddy # <<>> /\ caddy[1].own THEN <<caddy[1].route>> ELSE <<>>
       [] D.id = "nginx-proxy-manager" ->
            IF Cardinality(npm) # 1 THEN <<>>
            ELSE LET h == CHOOSE h \in npm : TRUE
                 IN <<[owner |-> "npm", names |-> h.names, mode |-> h.want.mode,
                       exempt |-> h.want.exempt]>>
       [] OTHER -> IF file = <<>> THEN <<>> ELSE <<Head(file)>>

(* Every name Bellhop's own objects answer to.                             *)
OwnNames ==
  CASE D.id = "caddy-api" ->
         UNION {UNION {r.names : r \in ToSet(Bellhop(s.routes))} : s \in ToSet(live.caddy.servers)}
           \cup UNION {p.names : p \in ToSet(Bellhop(live.caddy.policies))}
    [] D.id = "nginx-proxy-manager" -> UNION {ToSet(h.names) : h \in {k \in live.hosts : isOwned(k)}}
    [] OTHER -> NamesOf(live.routes)

(* Under acme-http an operator's own policy for a name is meant to apply.   *)
CertificateFits(name) ==
  CASE D.id = "caddy-api" ->
         \E s \in ToSet(live.caddy.servers) :
           /\ s.https
           /\ \/ IssuerFor(live.caddy, s, name) = Source
              \/ /\ Source = "acme-http" /\ IssuerFor(live.caddy, s, name) # "refused"
                 /\ \E p \in ToSet(Hand(live.caddy.policies)) : name \in p.names
    [] D.id = "nginx-proxy-manager" ->
         \E h \in live.hosts, c \in live.certs :
           name \in ToSet(h.names) /\ h.cert = c.id /\ qualifies(c, {name})
    [] OTHER -> TRUE

(* A push that went through, with nobody else at work since it started.    *)
Landed(p) ==
  At(p, "idle") /\ push[p].how = "ok" /\ push[p].lone /\ push[p].inv = inv /\ managesProxy(D)

(* Every public name of the inventory, and no other, is answered by        *)
(* Bellhop's own object with the certificate the TLS source promises; a    *)
(* request meets the gate, the outpost or the backend as the entry's mode  *)
(* and exempt paths say, whichever driver rendered them and whatever was   *)
(* there before.                                                           *)
ServedMatches ==
  \A p \in Pushers : Landed(p) =>
    /\ OwnNames = NamesOf(Routes(inv))
    /\ \A r \in ToSet(Routes(inv)), name \in NamesOf(Routes(inv)) : name \in ToSet(r.names) =>
         /\ CertificateFits(name)
         /\ SiteOf(name) # <<>>
         /\ \A path \in Paths : answers(D.id, SiteOf(name)[1], path) \subseteq Gate(r, path)

(* A push right after one that landed finds nothing to write.              *)
SecondPushIsEmpty ==
  \A p \in Pushers : Landed(p) =>
    CASE D.id = "caddy-api" -> planCaddyConfig(live.caddy, Routes(inv), Source).config = live.caddy
      [] D.id = "nginx-proxy-manager" -> planNpmSync(live.hosts, live.certs, Routes(inv)).todo = <<>>
      [] OTHER -> live.routes = Routes(inv)

(* NPM's "already in use" can only meet a push that runs alone when two    *)
(* hosts swap names or a name is held by a host that is not Bellhop's.     *)
NamesMoveFreely ==
  \A p \in Pushers :
    LET plan == push[p].plan IN
    (/\ At(p, "apply") /\ push[p].lone /\ plan.todo # <<>>
     /\ ~plan.conflicts /\ ~SwapCycle(plan.todo)) => ~inUse(live.hosts, Head(plan.todo))

(* A push on its own gets through wherever the proxy lets it, and has then *)
(* brought the proxy to the inventory, for good.                           *)
PushConverges == NamesMoveFreely /\ ServedMatches /\ SecondPushIsEmpty

(* Proxy, status page and Authentik show one inventory once a push landed; *)
(* a push whose proxy step failed has reconciled Authentik all the same.   *)
ArtifactsMoveTogether ==
  \A p \in Pushers :
    /\ Landed(p) /\ ~statusPageSkipReason => page = [inv |-> push[p].inv, live |-> Shown]
    /\ At(p, "idle") /\ push[p].how \in {"ok", "proxy"} /\ push[p].lone /\ setup.authentik =>
         auth = push[p].inv

HandConfig(config) ==
  [servers |-> [i \in DOMAIN config.servers |-> stripServer(config.servers[i])],
   policies |-> Hand(config.policies), files |-> Hand(config.files)]

(* A hand-authored Caddy site gets its certificate as it would without     *)
(* Bellhop's objects.                                                      *)
HandSitesKeepTls(config) ==
  \A i \in DOMAIN config.servers, r \in UNION {ToSet(Hand(s.routes)) : s \in ToSet(config.servers)} :
    (config.servers[i].https /\ r \in ToSet(config.servers[i].routes)) =>
      \A n \in r.names \ OwnNames :
        LET alone == IssuerFor(HandConfig(config), HandConfig(config).servers[i], n)
        IN alone = "refused" \/ IssuerFor(config, config.servers[i], n) = alone

(* A push writes nothing that is not Bellhop's: the hand-authored objects  *)
(* stay, in their order, whatever the operator did since the plan (but for *)
(* an NPM host handed back while a push is under way), and a hand-made     *)
(* Caddy site keeps its certificate.                                       *)
ForeignKept ==
  [][\A p \in Pushers : (Step(p) /\ D.id = "caddy-api" =>
                           /\ (live'.caddy.servers # <<>> /\ live.caddy.servers # <<>>) =>
                                HandConfig(live'.caddy) = HandConfig(live.caddy)
                           /\ HandSitesKeepTls(live'.caddy) \/ ~HandSitesKeepTls(live.caddy))
       /\ (Step(p) /\ push[p].lone => {h \in live.hosts : ~isOwned(h)} \subseteq live'.hosts)]_vars
=============================================================================
