----------------------------- MODULE MCPushLive -----------------------------
(* Two entries with four names between them: aliases move, swap and cross  *)
(* to another entry; each inventory has other gates and exempt paths.      *)
EXTENDS PushLive

CONSTANTS e1, e2, a, b, c, d, site, p1, p2

Api == [kind |-> "prefix", path |-> <<"api", "">>]
Ping == [kind |-> "exact", path |-> <<"ping">>]
ApiPing == [kind |-> "exact", path |-> <<"api", "ping">>]
Entry(names, mode, exempt) == [names |-> names, mode |-> mode, exempt |-> exempt, manual |-> FALSE]
Off(names) == [Entry(names, "ungated", {}) EXCEPT !.manual = TRUE]
Inv(x, y) == (e1 :> x) @@ (e2 :> y)

Symmetry == Permutations(Pushers)

MCOrder == <<e1, e2>>
MCInventories == {
  Inv(Entry(<<a, b>>, "forward", {Api, Ping}), Entry(<<c, d>>, "ungated", {})),
  Inv(Entry(<<a>>, "oidc", {}), Entry(<<c, b>>, "forward", {RootPrefix, ApiPing})),
  Inv(Entry(<<a, d>>, "forward", {ApiPing}), Entry(<<c, b>>, "oidc", {Api})),
  Inv(Off(<<a, b>>), Entry(<<b, c>>, "ungated", {}))}
MCPaths == {<<"">>, <<"api">>, <<"api", "">>, <<"api", "ping">>, <<"ping">>, <<"ping", "">>,
            <<"outpost">>, <<"outpost", "start">>}

Setup(driver, tls, outpost) ==
  [driver |-> driver, tls |-> tls, outpost |-> outpost, proxyEntry |-> TRUE, page |-> TRUE,
   authentik |-> TRUE, cloudflare |-> TRUE]
MCSetups ==
  {Setup(dr, "unset", TRUE) : dr \in fileDrivers \cup {caddyApiDriver, nginxProxyManagerDriver, noneDriver}}
    \cup {Setup(caddyApiDriver, t, TRUE) : t \in {"files", "internal", "acme-http"}}
    \cup {Setup(nginxDriver, "acme-http", TRUE), Setup(nginxDriver, "unset", FALSE),
          [Setup(caddyDriver, "acme-dns", TRUE) EXCEPT !.proxyEntry = FALSE],
          [Setup(traefikDriver(FALSE), "files", TRUE) EXCEPT !.authentik = FALSE]}

MCAdapted == [servers |-> <<Server(TRUE, <<HandRoute({site})>>, <<>>)>>,
              policies |-> <<Policy(FALSE, {site}, "hand")>>, files |-> <<>>]
WithConns(conns) == [MCAdapted EXCEPT !.servers[1].conns = conns]
MCCaddyStarts == {
  [service |-> "api", config |-> NoCaddyConfig],
  [service |-> "caddyfile",
   config |-> [MCAdapted EXCEPT !.servers[1].routes = @ \o <<HandRoute({a})>>]],
  [service |-> "api", config |-> WithConns(<<Connection(FALSE, FALSE, {a}), Connection(FALSE, TRUE, {})>>)],
  [service |-> "api", config |-> [MCAdapted EXCEPT !.servers = <<Server(FALSE, <<>>, <<>>)>> \o @]],
  [service |-> "api", config |-> [MCAdapted EXCEPT !.servers = @ \o @]],
  [service |-> "api", config |-> [MCAdapted EXCEPT !.policies = <<Policy(FALSE, {b}, "hand")>> \o @]]}

Plain == desiredProxyHost(NoRoute)
MCNpmStarts == {
  [hosts |-> {}, certs |-> {}],
  [hosts |-> {Host(1, "proxy", TRUE, <<a, b>>, Plain, 1, TRUE), Host(2, "proxy", TRUE, <<c>>, Plain, 2, FALSE),
              Host(3, "proxy", FALSE, <<site>>, Plain, 1, TRUE)},
   certs |-> {Certificate(1, {a, b, c}, 1), Certificate(2, {a, c, d}, 2), Certificate(3, {c}, 0)}],
  [hosts |-> {Host(1, "dead", FALSE, <<b>>, Plain, 0, TRUE), Host(2, "proxy", TRUE, <<b, a>>, Plain, 0, TRUE)},
   certs |-> {Certificate(1, {a, b, c, d}, 2)}]}
=============================================================================
