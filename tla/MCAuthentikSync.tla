-------------------------- MODULE MCAuthentikSync --------------------------
(***************************************************************************)
(* Before the first run "wiki" is a gated forward application that fell    *)
(* off the outpost.  At the slug of "app" Authentik holds nothing, an      *)
(* unmarked OpenID client (adoptable), an application without provider, an *)
(* unused leftover of either kind under the slug's name, or a provider of  *)
(* that name which serves another application.                             *)
(***************************************************************************)
EXTENDS AuthentikSync, TLC

Hand(kind, mappings, elsewhere) ==
  [kind |-> kind, name |-> <<"app", FALSE>>,
   settings |-> [uris |-> {}, mappings |-> mappings, rest |-> FALSE],
   hand |-> TRUE, elsewhere |-> elsewhere]
At(id, marked) == [provider |-> id, marked |-> marked, exists |-> TRUE]
WikiApp == "wiki" :> At(2, FALSE)
WikiProvider ==
  2 :> [kind |-> "proxy", name |-> <<"wiki", FALSE>>,
        settings |-> [uris |-> {}, mappings |-> {}, rest |-> TRUE],
        hand |-> FALSE, elsewhere |-> FALSE]
Consent(stage, policy, uris, binding, attached) ==
  [stage |-> stage, policy |-> [kind |-> policy, uris |-> uris],
   binding |-> binding, policyBinding |-> attached]
Consents ==
  [absent |-> Consent("absent", "absent", {}, "absent", FALSE),
   foreign |-> Consent("foreign", "absent", {}, "absent", FALSE),
   drifted |-> Consent("drift", "own", {"wiki"}, "drift", TRUE)]
Holding(apps, providers, c, e, fs) ==
  [app |-> apps @@ WikiApp, provider |-> providers @@ WikiProvider,
   consent |-> Consents[c], slug |-> "app", entry |-> e, fields |-> fs]
NoApps == [x \in {} |-> NoApp]
Ask(gate, mode, mobile) ==
  [gate |-> gate, mode |-> mode, callbacks |-> TRUE, mobile |-> mobile]

(* Each start lets the operator edit the fields it is about.               *)
MCInitialHands ==
  {Holding(NoApps, NoApps, "absent", Ask("none", "forward", FALSE), {"gate", "mode"}),
   Holding(NoApps, NoApps, "absent", Ask("admins", "oidc", FALSE), {"mode", "callbacks"}),
   Holding(NoApps, NoApps, "absent", Ask("admins", "oidc", FALSE), {"mobile"}),
   Holding(NoApps, NoApps, "foreign", Ask("admins", "oidc", TRUE), {}),
   Holding(NoApps, NoApps, "drifted", Ask("admins", "oidc", TRUE), {}),
   Holding("app" :> At(NoId, FALSE), NoApps, "absent", Ask("friends", "forward", FALSE), {"mode"}),
   Holding(NoApps, 1 :> Hand("proxy", {}, FALSE), "absent", Ask("friends", "forward", FALSE), {"mode"}),
   Holding(NoApps, 1 :> Hand("oauth2", {"custom"}, FALSE), "absent",
           Ask("friends", "oidc", FALSE), {"mode"}),
   Holding(NoApps, 1 :> Hand("oauth2", {}, TRUE), "absent", Ask("friends", "oidc", FALSE), {"mode"}),
   Holding("app" :> At(1, FALSE), 1 :> Hand("oauth2", {"custom"}, FALSE), "absent",
           Ask("friends", "oidc", FALSE), {"gate"}),
   Holding("app" :> At(1, FALSE), 1 :> Hand("oauth2", {"unlisted"}, FALSE), "absent",
           Ask("admins", "forward", FALSE), {"mode"})}

MCInitialEntry ==
  [app |-> [gate |-> "none", mode |-> "forward", callbacks |-> TRUE, mobile |-> FALSE],
   wiki |-> [gate |-> "admins", mode |-> "forward", callbacks |-> FALSE, mobile |-> FALSE]]
MCEntries == <<"app", "wiki">>
MCLadder == <<"friends", "admins">>
=============================================================================
