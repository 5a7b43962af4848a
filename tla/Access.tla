------------------------------- MODULE Access -------------------------------
(***************************************************************************)
(* Who may see what: the group rules of lib/permissions.ts, the caller of  *)
(* web/access.ts, the overlay of an impersonated group, and which jobs a   *)
(* caller may see.  A user is [username, uid, groups], a caller one with   *)
(* the group it impersonates; rules map a group to its mode and resources, *)
(* a resource is [type, name]; a creator is [username, uid, since].        *)
(***************************************************************************)
EXTENDS Naturals

CONSTANTS AdminGroups, NoOne, NoUid, NotYet

isAdmin(groups) == groups \cap AdminGroups # {}

(* applyImpersonation: the group instead of one's own.                     *)
overlay(user, group) ==
  [username |-> user.username, uid |-> user.uid, impersonating |-> group,
   groups |-> IF group = NoOne THEN user.groups ELSE {group}]

(* The provider's uid decides when both sides have one.                    *)
isGuestCreator(creator, caller) ==
  /\ caller.impersonating = NoOne
  /\ creator # NoOne
  /\ IF creator.uid # NoUid /\ caller.uid # NoUid THEN creator.uid = caller.uid
     ELSE caller.username # NoOne /\ creator.username = caller.username

(* Each group can only narrow; one without a rule allows everything.       *)
Allows(rule, listed, lift) == IF rule.mode = "allow-list" THEN listed \/ lift ELSE ~listed

isAllowed(rules, groups, ref, isCreator) ==
  \A g \in groups \cap DOMAIN rules :
    Allows(rules[g], ref \in rules[g].resources, ref.type = "guest" /\ isCreator)

isResourceAllowed(rules, caller, ref, creator) ==
  isAdmin(caller.groups)
    \/ isAllowed(rules, caller.groups, ref, ref.type = "guest" /\ isGuestCreator(creator, caller))

(* The dashboard: creators maps the guests to theirs.                      *)
filterInventoryForUser(rules, caller, hosts, creators) ==
  [hosts |-> {h \in hosts : isResourceAllowed(rules, caller, [type |-> "host", name |-> h], NoOne)},
   guests |-> {g \in DOMAIN creators :
                 isResourceAllowed(rules, caller, [type |-> "guest", name |-> g], creators[g])}]

(* A job's target is a name without a type: a host's name lifts nothing.   *)
guestCreators(hosts, creators) ==
  [g \in {n \in DOMAIN creators : creators[n] # NoOne /\ n \notin hosts} |-> creators[g]]

startedSince(started, since) == started # NotYet /\ since # NotYet /\ started >= since

\* Mutant: the target is allowed as a guest or as a host.
mutIsJobVisible(rules, caller, job, creators) ==
  \/ isAdmin(caller.groups)
  \/ /\ job.target # NoOne
     /\ \E t \in {"guest", "host"} : isAllowed(rules, caller.groups, [type |-> t, name |-> job.target], FALSE)

(* By name alone: an untyped check of a block list could pass as the other *)
(* type.                                                                   *)
isJobVisible(rules, caller, job, creators) ==
  \/ isAdmin(caller.groups)
  \/ /\ job.target # NoOne
     /\ LET creator == IF job.target \in DOMAIN creators THEN creators[job.target] ELSE NoOne
            lift == isGuestCreator(creator, caller) /\ startedSince(job.started, creator.since)
        IN \A g \in caller.groups \cap DOMAIN rules :
             Allows(rules[g], \E r \in rules[g].resources : r.name = job.target, lift)
=============================================================================
