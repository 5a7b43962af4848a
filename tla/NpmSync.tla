------------------------------ MODULE NpmSync -------------------------------
(***************************************************************************)
(* The Nginx Proxy Manager driver's planner.  NPM holds hosts (proxy,      *)
(* redirection and 404 ones) and certificates.  A proxy host is Bellhop's  *)
(* when its advanced_config starts with the marker (own); want is what     *)
(* Bellhop writes besides the names: the gate and its exempt paths.        *)
(* A certificate expires at exp; the time of a sync is 0.                  *)
(***************************************************************************)
EXTENDS ProxyDrivers, SequencesExt

Host(id, kind, own, names, want, cert, online) ==
  [id |-> id, kind |-> kind, own |-> own, names |-> names, want |-> want, cert |-> cert,
   online |-> online]
Certificate(id, names, exp) == [id |-> id, names |-> names, exp |-> exp]

isOwned(host) == host.kind = "proxy" /\ host.own

qualifies(cert, names) == cert.exp > 0 /\ names \subseteq cert.names

Request == 0   \* the certificate of a host that has to ask for one

(* The host's own while it qualifies, else the last to expire (the lowest  *)
(* id on a tie), else a new one.                                           *)
chooseCertificate(names, certificates, currentId) ==
  LET candidates == {c \in certificates : qualifies(c, names)}
      better(c, d) == c.exp > d.exp \/ (c.exp = d.exp /\ c.id <= d.id)
  IN CASE candidates = {} -> Request
       [] \E c \in candidates : c.id = currentId -> currentId
       [] OTHER -> (CHOOSE c \in candidates : \A d \in candidates : better(c, d)).id

desiredProxyHost(route) == [mode |-> route.mode, exempt |-> route.exempt]

(* The hosts of a plan: sequence of deletes, then updates, then creates.   *)
Delete(host) == [op |-> "delete", id |-> host.id, held |-> ToSet(host.names), names |-> <<>>,
                 want |-> desiredProxyHost([mode |-> "ungated", exempt |-> {}]), cert |-> Request]
Write(op, id, held, route, cert) ==
  [op |-> op, id |-> id, held |-> held, names |-> route.names,
   want |-> desiredProxyHost(route), cert |-> cert]

claimants(hosts, route) ==
  {h \in hosts : ~isOwned(h) /\ ToSet(h.names) \cap ToSet(route.names) # {}}

(* Rule 1: the owned host keyed by the route's canonical name.             *)
matching(hosts, route) ==
  {h \in hosts : isOwned(h) /\ h.names # <<>> /\ Head(h.names) = Head(route.names)}
Lowest(hosts) == CHOOSE h \in hosts : \A k \in hosts : h.id <= k.id

changedFields(host, route, cert) ==
  \/ host.names # route.names
  \/ host.want # desiredProxyHost(route)
  \/ cert = Request \/ host.cert # cert
  \/ ~host.online

(* "in use" swaps apart, an update that releases a name comes before the   *)
(* one that claims it; among the free ones the first.                      *)
mustPrecede(x, y) == x # y /\ x.held \cap ToSet(y.names) # {}

orderUpdates(updates) ==
  LET free(rest) == {j \in DOMAIN rest : \A i \in DOMAIN rest : ~mustPrecede(rest[i], rest[j])}
      next(rest) == IF free(rest) = {} THEN 1
                    ELSE CHOOSE j \in free(rest) : \A k \in free(rest) : j <= k
      step[k \in 0..Len(updates)] ==
        IF k = 0 THEN [ordered |-> <<>>, rest |-> updates]
        ELSE LET s == step[k - 1] IN
             [ordered |-> Append(s.ordered, s.rest[next(s.rest)]),
              rest |-> RemoveAt(s.rest, next(s.rest))]
  IN step[Len(updates)].ordered

planRoute(hosts, certificates, route) ==
  LET host == Lowest(matching(hosts, route))
      cert == chooseCertificate(ToSet(route.names), certificates,
                                IF matching(hosts, route) = {} THEN Request ELSE host.cert)
  IN CASE claimants(hosts, route) # {} -> <<>>
       [] claimants(hosts, route) = {} /\ matching(hosts, route) = {} ->
            <<Write("create", 0, {}, route, cert)>>
       [] OTHER -> IF changedFields(host, route, cert)
                     THEN <<Write("update", host.id, ToSet(host.names), route, cert)>> ELSE <<>>

(* Rule 2 deletes every owned host no route matched; a route in conflict   *)
(* keeps its own.                                                          *)
unmatched(hosts, routes) ==
  {h \in hosts : isOwned(h) /\ \A i \in DOMAIN routes :
     h \notin matching(hosts, routes[i]) \/ h # Lowest(matching(hosts, routes[i]))}

planNpmSync(hosts, certificates, routes) ==
  LET planned == FlattenSeq([i \in DOMAIN routes |-> planRoute(hosts, certificates, routes[i])])
      gone == SetToSortSeq(unmatched(hosts, routes), LAMBDA h, k : h.id < k.id)
  IN [todo |-> [i \in DOMAIN gone |-> Delete(gone[i])]
                 \o orderUpdates(SelectSeq(planned, LAMBDA e : e.op = "update"))
                 \o SelectSeq(planned, LAMBDA e : e.op = "create"),
      conflicts |-> {i \in DOMAIN routes : claimants(hosts, routes[i]) # {}}]

(* Two updates that each wait for the other cannot be ordered.             *)
SwapCycle(todo) ==
  \E i, j \in DOMAIN todo :
    /\ todo[i].op = "update" /\ todo[j].op = "update"
    /\ mustPrecede(todo[i], todo[j]) /\ mustPrecede(todo[j], todo[i])
=============================================================================
