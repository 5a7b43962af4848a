---------------------------- MODULE ProxyDrivers ----------------------------
(***************************************************************************)
(* The reverse-proxy drivers as data and pure functions: what each driver  *)
(* can do, which files it writes, how the inventory becomes routes, and    *)
(* how the configuration a driver renders answers a request.               *)
(*                                                                         *)
(* A path is its sequence of segments, a trailing "/" being a last empty   *)
(* segment: "/" is <<"">>, "/api/" is <<"api", "">>.  The outpost's        *)
(* namespace /outpost.goauthentik.io is the first segment "outpost".       *)
(***************************************************************************)
EXTENDS Naturals, Sequences, FiniteSets

TlsSources == {"acme-dns", "acme-http", "internal", "files", "external"}

(* A file a driver writes.                                                 *)
Owned(atomic) == [mode |-> "owned", atomic |-> atomic]
ManagedSection == [mode |-> "managed-section", atomic |-> FALSE]

caddyDriver ==
  [id |-> "caddy", authModes |-> {"forward", "oidc"},
   tlsSources |-> TlsSources \ {"external"}, defaultTlsSource |-> "acme-dns",
   statusPage |-> TRUE, files |-> <<ManagedSection>>, validates |-> TRUE, watches |-> FALSE]

nginxDriver ==
  [id |-> "nginx", authModes |-> {"forward", "oidc"},
   tlsSources |-> {"files"}, defaultTlsSource |-> "files",
   statusPage |-> TRUE, files |-> <<Owned(FALSE)>>, validates |-> TRUE, watches |-> FALSE]

haproxyDriver ==
  [id |-> "haproxy", authModes |-> {"oidc"},
   tlsSources |-> {"external"}, defaultTlsSource |-> "external",
   statusPage |-> FALSE, files |-> <<Owned(FALSE), Owned(FALSE)>>, validates |-> TRUE,
   watches |-> FALSE]

(* api: the proxyApiUrl setting is set, so a written file is checked.      *)
traefikDriver(api) ==
  [id |-> "traefik", authModes |-> {"forward", "oidc"},
   tlsSources |-> TlsSources \ {"internal"}, defaultTlsSource |-> "acme-dns",
   statusPage |-> FALSE, files |-> <<Owned(TRUE)>>, validates |-> api, watches |-> TRUE]

caddyApiDriver ==
  [id |-> "caddy-api", authModes |-> {"forward", "oidc"},
   tlsSources |-> TlsSources \ {"external"}, defaultTlsSource |-> "acme-dns",
   statusPage |-> TRUE, files |-> <<>>, validates |-> FALSE, watches |-> FALSE]

nginxProxyManagerDriver ==
  [id |-> "nginx-proxy-manager", authModes |-> {"forward", "oidc"},
   tlsSources |-> {"acme-http"}, defaultTlsSource |-> "acme-http",
   statusPage |-> FALSE, files |-> <<>>, validates |-> FALSE, watches |-> FALSE]

noneDriver ==
  [id |-> "none", authModes |-> {"forward", "oidc"},
   tlsSources |-> TlsSources, defaultTlsSource |-> "external",
   statusPage |-> FALSE, files |-> <<>>, validates |-> FALSE, watches |-> FALSE]

fileDrivers == {caddyDriver, nginxDriver, haproxyDriver, traefikDriver(TRUE), traefikDriver(FALSE)}

managesProxy(driver) == driver.id # "none"

-----------------------------------------------------------------------------
(* TLS sources.  "unset" is a setting that is not set.                     *)

effectiveTlsSource(tlsSource, driver) ==
  IF tlsSource = "unset" THEN driver.defaultTlsSource ELSE tlsSource

checkTlsSource(tlsSource, driver) == effectiveTlsSource(tlsSource, driver) \in driver.tlsSources

usesCloudflareDns01(tlsSource, driver) ==
  /\ managesProxy(driver)
  /\ checkTlsSource(tlsSource, driver)
  /\ effectiveTlsSource(tlsSource, driver) = "acme-dns"

-----------------------------------------------------------------------------
(* Routes.  An entry is [names, mode, exempt, manual]: its public names,   *)
(* canonical first, its effective auth mode, its unauthenticatedPaths.     *)

RootPrefix == [kind |-> "prefix", path |-> <<"">>]

hasRoute(entry) == ~entry.manual /\ entry.names # <<>>

deriveRoute(owner, entry) ==
  [owner |-> owner, names |-> entry.names, mode |-> entry.mode,
   exempt |-> IF entry.mode = "forward" THEN entry.exempt ELSE {}]

(* order: hosts, guests, external sites.  The entries that get a route.    *)
routeOwners(order, inv) == SelectSeq(order, LAMBDA e : hasRoute(inv[e]))
routesOf(order, inv) ==
  LET owners == routeOwners(order, inv)
  IN [i \in DOMAIN owners |-> deriveRoute(owners[i], inv[owners[i]])]

(* TRUE when buildRoutes throws: a forward-gated route and no outpost.     *)
buildRoutesThrows(order, inv, outpost, requireOutpost) ==
  /\ requireOutpost /\ ~outpost
  /\ \E i \in DOMAIN order : hasRoute(inv[order[i]]) /\ inv[order[i]].mode = "forward"

checkCapabilities(routes, driver) ==
  {i \in DOMAIN routes : routes[i].mode # "ungated" /\ routes[i].mode \notin driver.authModes}

-----------------------------------------------------------------------------
(* Matching a path against an exempt pattern.                              *)

HasPrefix(prefix, path) ==
  LET fixed == Len(prefix) - 1
  IN Len(path) > fixed /\ SubSeq(path, 1, fixed) = SubSeq(prefix, 1, fixed)

matches(pattern, path) ==
  IF pattern.kind = "exact" THEN path = pattern.path ELSE HasPrefix(pattern.path, path)

isRootPrefix(pattern) == pattern = RootPrefix

isOutpostPrefixed(pattern) == Head(pattern.path) = "outpost"

candidateExemptPatterns(route) ==
  IF route.mode # "forward" THEN {}
  ELSE {p \in route.exempt : ~isOutpostPrefixed(p)}

InOutpost(path) == Len(path) > 1 /\ Head(path) = "outpost"

(* What a visitor of this path must meet: the outpost, the backend without *)
(* a login, or the backend behind the login.  The bare namespace path is   *)
(* either the outpost's or gated.                                          *)
Gate(route, path) ==
  CASE route.mode # "forward" -> {"open"}
    [] route.mode = "forward" /\ InOutpost(path) -> {"outpost"}
    [] route.mode = "forward" /\ path = <<"outpost">> ->
         IF RootPrefix \in route.exempt THEN {"outpost", "open"} ELSE {"outpost", "gated"}
    [] OTHER -> IF \E p \in route.exempt : matches(p, path) THEN {"open"} ELSE {"gated"}

-----------------------------------------------------------------------------
(* nginx (and Nginx Proxy Manager): the locations of a server block.  An   *)
(* exact location wins, else the longest matching prefix.                  *)

Location(sel, path, to) == [sel |-> sel, path |-> path, to |-> to]

exemptLocations(patterns) ==
  {Location(p.kind, p.path, "open") : p \in {q \in patterns : ~isRootPrefix(q)}}

\* Mutant: no location for the outpost.
mutOutpostLocations == {}

outpostLocations == {Location("bare", <<"outpost">>, "outpost")}

renderServerBody(route) ==
  IF route.mode # "forward" THEN {Location("prefix", <<"">>, "open")}
  ELSE LET patterns == candidateExemptPatterns(route)
           root == IF \E p \in patterns : isRootPrefix(p) THEN "open" ELSE "gated"
       IN {Location("prefix", <<"">>, root)} \cup exemptLocations(patterns) \cup outpostLocations

locationMatches(l, path) ==
  CASE l.sel = "exact" -> path = l.path
    [] l.sel = "prefix" -> HasPrefix(l.path, path)
    [] l.sel = "bare" -> Head(path) = Head(l.path)
locationWeight(l) ==
  CASE l.sel = "exact" -> 100
    [] l.path = <<"">> -> 0
    [] OTHER -> Len(l.path)

nginxAnswers(route, path) ==
  LET hit == {l \in renderServerBody(route) : locationMatches(l, path)}
      best == {l \in hit : \A k \in hit : locationWeight(k) <= locationWeight(l)}
  IN {l.to : l \in best}

(* Traefik: the routers of a route; the longer rule has the priority, and  *)
(* the plain Host rule is the shortest.                                    *)
exemptPlan(route) ==
  LET patterns == candidateExemptPatterns(route)
      rootExempted == \E p \in patterns : isRootPrefix(p)
  IN [rootExempted |-> rootExempted, exemptTerms |-> IF rootExempted THEN {} ELSE patterns]

renderRouteObjects(route, path) ==
  LET plan == exemptPlan(route)
      main == IF route.mode = "forward" /\ ~plan.rootExempted THEN "gated" ELSE "open"
      outpost == IF route.mode = "forward" /\ InOutpost(path) THEN {"outpost"} ELSE {}
      exempt == IF \E p \in plan.exemptTerms : matches(p, path) THEN {"open"} ELSE {}
  IN IF outpost \cup exempt = {} THEN {main} ELSE outpost \cup exempt

(* Caddy, file and JSON alike: forward_auth behind "not path", then the    *)
(* outpost's handle, then the backend.  The raw patterns are used.         *)
renderCaddyRoute(route, path) ==
  CASE route.mode # "forward" -> {"open"}
    [] route.mode = "forward" /\ InOutpost(path) -> {"outpost"}
    [] OTHER -> IF \E p \in route.exempt : matches(p, path) THEN {"open"} ELSE {"gated"}

(* HAProxy renders no gate at all; render throws on a forward route.       *)
renderBackend(route) == {"open"}

answers(id, route, path) ==
  CASE id \in {"nginx", "nginx-proxy-manager"} -> nginxAnswers(route, path)
    [] id = "traefik" -> renderRouteObjects(route, path)
    [] id \in {"caddy", "caddy-api"} -> renderCaddyRoute(route, path)
    [] id = "haproxy" -> renderBackend(route)
=============================================================================
