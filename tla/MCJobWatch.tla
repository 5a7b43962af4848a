----------------------------- MODULE MCJobWatch -----------------------------
(* A guest and a host; people an allow list, a block list, an admin group  *)
(* or having made the guest lets see it, or not.                           *)
EXTENDS JobWatch, TLC

Ref(t, n) == [type |-> t, name |-> n]
MCRules == [g \in {"allow", "block", "others"} |->
  CASE g = "allow" -> [mode |-> "allow-list", resources |-> {Ref("guest", "app")}]
    [] g = "block" -> [mode |-> "block-list", resources |-> {Ref("guest", "app")}]
    [] g = "others" -> [mode |-> "allow-list", resources |-> {Ref("host", "pve")}]]
Maker(since) == [username |-> "ann", uid |-> "u1", since |-> since]
View(groups, as, creator, target) ==
  [user |-> [username |-> "ann", uid |-> NoUid, groups |-> groups], as |-> as, rules |-> MCRules,
   hosts |-> {"pve"}, creators |-> [g \in {"app"} |-> creator], job |-> [target |-> target, started |-> 2]]
MCViewers ==
  {View({"others"}, NoOne, Maker(1), "app"),
   View({"allow", "block"}, NoOne, NoOne, "app"),
   View({"admins"}, "block", Maker(1), "app"),
   View({"others"}, NoOne, Maker(3), "app"),
   View({"unruled"}, NoOne, NoOne, NoOne)}
MCScenes ==
  [owner : {"web", "mcp"}, calls : {{}}, viewer : MCViewers]
    \cup [owner : {"web", "mcp"}, calls : {Waiters}, viewer : {NoOne}]
Calls == Permutations(CanElicit)
=============================================================================
