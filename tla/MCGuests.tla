------------------------------ MODULE MCGuests ------------------------------
(* A gated application, a VPN gateway it may be routed through and the     *)
(* Authentik guest, on two hosts with two places each.                     *)
EXTENDS Guests

CONSTANTS h1, h2, app, vpn, idp, box, runner, request, mcp, x, y

MCProcOf(a) == IF a = mcp THEN mcp ELSE "web"

A == <<h1, 1>>
Gated == [Entry(app, "lxc", A) EXCEPT !.sub = {x}, !.port = TRUE, !.authGroup = "friends",
            !.creator = "ann"]
Gateway == [Entry(vpn, "lxc", <<h1, 2>>) EXCEPT !.gateway = TRUE]
Idp == [Entry(idp, "vm", <<h2, 2>>) EXCEPT !.authentik = TRUE, !.proxy = TRUE]

MCStarts == {
  [guests |-> {Gated, Gateway, Idp},
   machines |-> [p \in {A, <<h1, 2>>, <<h2, 2>>} |->
     CASE p = A -> [Machine(1, app, "lxc", TRUE, A) EXCEPT !.gw = <<h1, 2>>,
                      !.mounts = {<<0, "media">>}, !.fstab = {"nas"}, !.acl = {"ann"}]
       [] p = <<h1, 2>> -> Machine(2, vpn, "lxc", TRUE, p)
       [] p = <<h2, 2>> -> Machine(3, idp, "vm", TRUE, p)]]}

Body(sub, nfs) == [sub |-> sub, nfs |-> nfs]
Ask(by, op, name, to, mode) ==
  [by |-> by, op |-> op, name |-> name, type |-> IF op = "create-vm" THEN "vm" ELSE "lxc",
   to |-> to, body |-> Body({}, FALSE), mode |-> mode]
MCRequests == {
  Ask(runner, "migrate-guest", app, <<h2, 1>>, "none"),
  Ask(runner, "delete-guest", app, A, "backup"),
  Ask(runner, "create-vm", box, A, "bob"),
  [Ask(runner, "install-app", box, <<h2, 1>>, "bob") EXCEPT !.body = Body({y}, TRUE)],
  Ask(runner, "set-guest-vpn", app, A, "none"),
  Ask(mcp, "migrate-guest", app, A, "none"),
  Ask(mcp, "delete-guest", app, A, "none"),
  Ask(mcp, "create-lxc", box, <<h2, 1>>, "none"),
  Ask(mcp, "deploy-vpn-gateway", box, A, "none"),
  Ask(mcp, "guest-power", app, A, "start"),
  Ask(mcp, "guest-power", vpn, A, "shutdown"),
  Ask(mcp, "attach-nfs-mount", app, A, "backup"),
  Ask(mcp, "migrate-nfs-mount", app, A, "nas"),
  Ask(mcp, "configure-guest", app, A, "none"),
  Ask(mcp, "sync-inventory", box, A, "none"),
  Ask(mcp, "set-config", box, A, "none"),
  [Ask(request, "edit-guest", app, A, "none") EXCEPT !.body = [sub |-> {x}, authGroup |-> "family"]],
  [Ask(request, "edit-guest", vpn, A, "none") EXCEPT !.body = [bellhop |-> TRUE]],
  Ask(request, "set-config", box, A, "none")}
=============================================================================
