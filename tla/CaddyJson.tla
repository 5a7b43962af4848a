----------------------------- MODULE CaddyJson ------------------------------
(***************************************************************************)
(* The caddy-api driver's planner.  A configuration is its servers, in     *)
(* order, and the TLS app's automation policies and load_files entries,    *)
(* each list in order: the first match wins in all of them.  An object is  *)
(* Bellhop's when it carries a bellhop @id (own).  A container that is     *)
(* absent is an empty list.                                                *)
(***************************************************************************)
EXTENDS ProxyDrivers, SequencesExt

NoRoute == [owner |-> "none", names |-> <<>>, mode |-> "ungated", exempt |-> {}]

OwnRoute(route) == [own |-> TRUE, names |-> ToSet(route.names), route |-> route]
HandRoute(names) == [own |-> FALSE, names |-> names, route |-> NoRoute]
Policy(own, names, issuer) == [own |-> own, names |-> names, issuer |-> issuer]
(* A connection policy without a match has names "any".                    *)
Connection(own, any, names) == [own |-> own, any |-> any, names |-> names]
Server(https, routes, conns) == [https |-> https, routes |-> routes, conns |-> conns]
NoCaddyConfig == [servers |-> <<>>, policies |-> <<>>, files |-> <<>>]

isBellhopObject(o) == o.own
Hand(list) == SelectSeq(list, LAMBDA o : ~isBellhopObject(o))
Bellhop(list) == SelectSeq(list, isBellhopObject)

hasBellhopObjects(config) ==
  \/ \E s \in ToSet(config.servers) : Bellhop(s.routes) \o Bellhop(s.conns) # <<>>
  \/ Bellhop(config.policies) \o Bellhop(config.files) # <<>>

NamesOf(routes) == UNION {ToSet(r.names) : r \in ToSet(routes)}

(* The objects one TLS source asks for.                                    *)
renderTlsObjects(names, source) ==
  [policy |-> IF source \in {"acme-dns", "internal"} THEN <<Policy(TRUE, names, source)>> ELSE <<>>,
   loadFile |-> IF source = "files" THEN <<Policy(TRUE, {}, "files")>> ELSE <<>>,
   connection |-> IF source = "files" THEN <<Connection(TRUE, FALSE, names)>> ELSE <<>>]

writesAutomationPolicy(source) == renderTlsObjects({}, source).policy # <<>>

renderDefaultConnectionPolicy == Connection(TRUE, TRUE, {})

(* Names an untagged object claims.                                        *)
claims(config, source) ==
  UNION {UNION {r.names : r \in ToSet(Hand(s.routes))} : s \in ToSet(config.servers)}
    \cup IF writesAutomationPolicy(source)
           THEN UNION {p.names : p \in ToSet(Hand(config.policies))} ELSE {}

caddyConflict(config, source, route) == ToSet(route.names) \cap claims(config, source) # {}

HttpsServers(servers) == {i \in DOMAIN servers : servers[i].https}
targetServerThrows(servers) == servers # <<>> /\ Cardinality(HttpsServers(servers)) # 1

stripServer(s) == [s EXCEPT !.routes = Hand(@), !.conns = Hand(@)]

(* Bellhop's SNI policy first; the catch-all last, unless there is one.    *)
placeConnections(conns, connection) ==
  IF connection = <<>> THEN conns
  ELSE connection \o conns
         \o IF \E c \in ToSet(conns) : c.any THEN <<>> ELSE <<renderDefaultConnectionPolicy>>

(* The configuration rebuilt: what is Bellhop's stripped, what the routes  *)
(* ask for put first.  No kept route, no TLS object.                       *)
planCaddyConfig(config, routes, source) ==
  LET kept == SelectSeq(routes, LAMBDA r : ~caddyConflict(config, source, r))
      tls == renderTlsObjects(NamesOf(kept), source)
      stripped == [i \in DOMAIN config.servers |-> stripServer(config.servers[i])]
      servers == IF stripped = <<>> THEN <<Server(TRUE, <<>>, <<>>)>> ELSE stripped
      target == CHOOSE i \in HttpsServers(servers) : TRUE
      own == [i \in DOMAIN kept |-> OwnRoute(kept[i])]
      filled == [servers EXCEPT
                   ![target].routes = own \o @,
                   ![target].conns = placeConnections(@, tls.connection)]
  IN [throws |-> kept # <<>> /\ targetServerThrows(stripped),
      conflicts |-> {r \in ToSet(routes) : caddyConflict(config, source, r)},
      config |->
        IF kept = <<>>
          THEN [servers |-> stripped, policies |-> Hand(config.policies),
                files |-> Hand(config.files)]
        ELSE IF targetServerThrows(stripped) THEN config
        ELSE [servers |-> filled,
              policies |-> tls.policy \o Hand(config.policies),
              files |-> tls.loadFile \o Hand(config.files)]]

-----------------------------------------------------------------------------
(* What Caddy does with a configuration.                                   *)

FirstMatch(list, Matches(_)) ==
  LET hits == {i \in DOMAIN list : Matches(list[i])}
  IN IF hits = {} THEN <<>> ELSE <<list[CHOOSE i \in hits : \A j \in hits : i <= j]>>

(* The route that answers a name on the HTTPS server.                      *)
CaddyRouteFor(config, name) ==
  LET https == {i \in DOMAIN config.servers : config.servers[i].https}
  IN IF https = {} THEN <<>>
     ELSE FirstMatch(config.servers[CHOOSE i \in https : TRUE].routes, LAMBDA r : name \in r.names)

(* The handshake: with connection policies, one of them has to match.      *)
HandshakeFor(server, name) ==
  IF server.conns = <<>> THEN <<Connection(FALSE, TRUE, {})>>
  ELSE FirstMatch(server.conns, LAMBDA c : c.any \/ name \in c.names)

(* Where the certificate of a name comes from.                             *)
IssuerFor(config, server, name) ==
  LET shake == HandshakeFor(server, name)
      policy == FirstMatch(config.policies, LAMBDA p : name \in p.names)
  IN CASE shake = <<>> -> "refused"
       [] shake # <<>> /\ shake[1].own /\ ~shake[1].any -> "files"
       [] OTHER -> IF policy = <<>> THEN "acme-http" ELSE policy[1].issuer
=============================================================================
