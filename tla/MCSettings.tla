----------------------------- MODULE MCSettings -----------------------------
(* A database of before every migration, one half way, one up to date; a   *)
(* web process with two requests and a CLI with an env file.               *)
EXTENDS Settings

CONSTANTS req1, req2, cli, app, web

MCProcOf(a) == IF a = cli THEN cli ELSE web
MCEnv == [p \in {web, cli} |-> IF p = cli THEN [k \in {"authentikGroupLadder"} |-> "pinned"] ELSE <<>>]
MCEnvFile == [k \in {"authentikGroupLadder"} |-> "pinned"]
MCLadders == [l \in {"pinned", "empty"} |->
  IF l = "empty" THEN <<>> ELSE <<"bellhop-app-users-open", "bellhop-app-users", "authentik Admins">>]

Meta == [k \in SETTINGS_KEYS |-> Unset]
Rules(f) == [n \in UNION {{r[1], r[2]} : r \in PREVIOUS_DEFAULT_RUNG_RENAMES} |->
               IF n \in DOMAIN f THEN f[n] ELSE None]
Guest(req, group, proxy) == [g \in GuestNames |-> [req |-> req, group |-> group, proxy |-> proxy]]
Old == [cols |-> {"caddy", "requires_auth"}, guests |-> Guest(TRUE, None, TRUE), own |-> FALSE,
        meta |-> [Meta EXCEPT !["webUiAuthMode"] = "authentik"], caddyTls |-> "letsencrypt",
        secret |-> FALSE, rules |-> Rules(<<>>)]
Renaming == [Old EXCEPT !.cols = {"proxy", "auth_group"}, !.guests = Guest(FALSE, "bellhop-app-users", FALSE),
        !.meta = [Meta EXCEPT !["webUiAuthMode"] = "auto", !["proxyDriver"] = "traefik",
                              !["proxyCertResolver"] = "none"],
        !.caddyTls = Unset, !.own = TRUE,
        !.rules = Rules([n \in {"bellhop-app-users", "bellhop-users", "bellhop-admin-family"} |->
                           IF n = "bellhop-admin-family" THEN "own" ELSE "some"])]
Now == [Renaming EXCEPT !.guests = Guest(FALSE, "bellhop-public", FALSE), !.own = FALSE,
        !.meta = [Meta EXCEPT !["webUiAuthMode"] = "oidc", !["webUiOidcIssuer"] = "idp"],
        !.rules = Rules(<<>>), !.secret = TRUE]
Managed == [Now EXCEPT !.own = TRUE, !.secret = FALSE]
Off == [Now EXCEPT !.meta["webUiAuthMode"] = Unset]
Chosen == [Old EXCEPT !.meta["tlsSource"] = "files"]
MCDatabases == {Old, Chosen, Renaming, Now, Managed, Off}

Ask(by, op, set, secret) == [by |-> by, op |-> op, set |-> set, secret |-> secret, viaOidc |-> TRUE, own |-> FALSE]
One(k, v) == [x \in {k} |-> v]
MCRequests ==
  {Ask(by, "patch", One("webUiAuthMode", "oidc"), s) : by \in {req1}, s \in {"keep", "set"}}
  \cup {Ask(req1, "patch", One("webUiOidcIssuer", Unset), "keep"),
        Ask(req1, "patch", One("authentikAdminGroup", "others"), "keep"),
        Ask(req1, "patch", One("tlsSource", Invalid), "keep"),
        Ask(req1, "patch", <<>>, "clear"),
        [Ask(req1, "patch", One("authentikAdminGroup", "others"), "keep") EXCEPT !.viaOidc = FALSE],
        Ask(req2, "edit-guest", <<>>, "keep"),
        [Ask(req2, "edit-guest", <<>>, "keep") EXCEPT !.own = TRUE],
        Ask(req2, "patch", One("webUiAuthMode", Unset), "clear"),
        Ask(cli, "set-config", One("tlsSource", "files"), "keep"),
        Ask(cli, "set-config", One("webUiAuthMode", "oidc"), "keep"),
        Ask(cli, "set-config", One("authentikGroupLadder", "empty"), "keep"),
        Ask(cli, "set-config", One("tlsSource", Invalid), "keep"),
        Ask(cli, "set-config", <<>>, "clear")}
=============================================================================
