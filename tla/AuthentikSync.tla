--------------------------- MODULE AuthentikSync ---------------------------
(***************************************************************************)
(* sync-authentik and adopt-oidc-client: the inventory's gated entries are *)
(* reconciled with Authentik's applications, providers, embedded outpost,  *)
(* group bindings and the mobile consent step.  A run reads everything,    *)
(* plans once, and executes the plan call by call; any call may fail and   *)
(* the process may die between two of them, and the next run starts from   *)
(* whatever is there.                                                      *)
(*                                                                         *)
(* One run at a time.  Authentik is external: an id is free again once its *)
(* provider is gone, names of providers and slugs of applications are      *)
(* unique, and deleting an object also deletes what hangs on it.           *)
(***************************************************************************)
EXTENDS Naturals, Sequences, FiniteSets

CONSTANTS
  Entries,       \* the inventory's slugs, in inventory order
  Editable,      \* the slugs whose entry the operator edits
  Ladder,        \* AUTHENTIK_GROUP_LADDER, broadest rung first
  MissingRungs,  \* rungs that do not exist in Authentik
  Ids,           \* provider ids
  InitialEntry,  \* the inventory at the start
  InitialHands   \* what Authentik may hold at the start, hand-made or synced

Slugs == {Entries[i] : i \in DOMAIN Entries}
Rungs == {Ladder[i] : i \in DOMAIN Ladder}
NoId == 0

ASSUME SlugsAssumption == Editable \subseteq Slugs /\ NoId \notin Ids
ASSUME LadderAssumption ==
  /\ MissingRungs \subseteq Rungs
  /\ \A i, j \in DOMAIN Ladder : Ladder[i] = Ladder[j] => i = j
  /\ \A i, j \in DOMAIN Entries : Entries[i] = Entries[j] => i = j

(* An attached mapping outside this set is one the listing did not return. *)
ScopeNames == [openid |-> "openid", custom |-> "openid", email |-> "email"]
BuiltinMappings == {"openid", "email"}

(* gate: none, a rung, or "off" for a group that is not on the ladder.     *)
Entry == [gate : Rungs \cup {"none", "off"}, mode : {"forward", "oidc"},
          callbacks : BOOLEAN, mobile : BOOLEAN]
Settings == [uris : SUBSET {"web", "mobile"},
             mappings : SUBSET {"openid", "custom", "email", "unlisted"},
             rest : BOOLEAN]
Provider == [kind : {"proxy", "oauth2"}, name : Slugs \X BOOLEAN,
             settings : Settings, hand : BOOLEAN, elsewhere : BOOLEAN]
NoProvider == [kind |-> "none"]
NoApp == [provider |-> NoId, marked |-> FALSE, exists |-> FALSE]

VARIABLES
  entry,     \* the inventory: one record per slug
  app,       \* Authentik's application of a slug
  provider,  \* its providers, by id
  outpost,   \* the providers of the embedded outpost
  bound,     \* the groups bound to a slug's application
  consent,   \* the four objects of the mobile consent step
  fields,    \* a bound: the fields of an entry the operator edits
  run        \* the command in progress, and how the last one ended

vars == <<entry, app, provider, outpost, bound, consent, fields, run>>
remote == <<app, provider, outpost, bound, consent>>

-----------------------------------------------------------------------------
(* What the inventory asks for.                                            *)

effectiveAuth(e) ==
  IF e.gate = "none" THEN "ungated" ELSE e.mode

rungsAtOrAbove(group) ==
  {Ladder[j] : j \in {k \in DOMAIN Ladder :
                        \E i \in DOMAIN Ladder : Ladder[i] = group /\ i <= k}}

wantedRungs(e) == rungsAtOrAbove(e.gate) \ MissingRungs

desired(v) == {s \in Slugs : v[s].gate # "none"}
actionable(v) == {s \in desired(v) : rungsAtOrAbove(v[s].gate) # {}}
wantedKind(e) == IF effectiveAuth(e) = "oidc" THEN "oauth2" ELSE "proxy"

clientRedirectUris(e) == {"web"} \cup (IF e.mobile THEN {"mobile"} ELSE {})

desiredOAuth2Settings(e) ==
  [uris |-> clientRedirectUris(e), mappings |-> BuiltinMappings, rest |-> TRUE]

mobileUriSet(v) ==
  {s \in desired(v) : effectiveAuth(v[s]) = "oidc" /\ v[s].mobile}

-----------------------------------------------------------------------------
(* What Authentik holds, as a run sees it.  listed says whether the OAuth2 *)
(* listing succeeded.                                                      *)

Providers == {i \in Ids : provider[i] # NoProvider}
listOAuth2Providers(listed) ==
  {i \in Providers : provider[i].kind = "oauth2" /\ listed}
visible(listed) ==
  {i \in Providers : provider[i].kind = "proxy"} \cup listOAuth2Providers(listed)

mutOwnedProviderKind(s, listed) ==
  LET id == app[s].provider IN
  IF id = NoId THEN "none"
  ELSE IF provider[id].kind = "proxy" THEN "proxy"
  ELSE IF id \in listOAuth2Providers(listed) THEN "oauth2"
  ELSE "none"

ownedProviderKind(s, listed) ==
  LET id == app[s].provider IN
  IF id = NoId THEN "none"
  ELSE IF provider[id].kind = "proxy" THEN "proxy"
  ELSE IF id \in listOAuth2Providers(listed) /\ app[s].marked THEN "oauth2"
  ELSE "none"

(* The client whose credentials the entry's page shows, if any.            *)
runOidcCredentials(s) ==
  IF effectiveAuth(entry[s]) = "oidc" /\ ownedProviderKind(s, TRUE) = "oauth2"
  THEN app[s].provider ELSE NoId

usedBy(id) ==
  \/ provider[id].elsewhere
  \/ \E s \in Slugs : app[s].exists /\ app[s].provider = id

planProviderName(s, kind, outgoing, listed) ==
  LET others == visible(listed) \ {outgoing}
      rename == outgoing # NoId /\ provider[outgoing].name = <<s, FALSE>>
      named == {i \in others : provider[i].name = <<s, FALSE>>}
      replaced == {i \in others : provider[i].name = <<s, TRUE>>}
  IN [skip |-> \/ rename /\ replaced # {}
               \/ \E i \in named : usedBy(i) \/ provider[i].kind # kind,
      reuse |-> IF named = {} THEN NoId ELSE CHOOSE i \in named : TRUE,
      rename |-> rename]

diffMappings(current, wanted) ==
  IF current \subseteq DOMAIN ScopeNames
  THEN current \cup {m \in wanted \ current :
                       \A c \in current : ScopeNames[c] # ScopeNames[m]}
  ELSE current

diffOAuth2Settings(current, wanted, exact) ==
  [wanted EXCEPT !.mappings = IF exact THEN @ ELSE diffMappings(current.mappings, @)]

-----------------------------------------------------------------------------
(* The plan: a sequence of calls <<operation, slug, argument>>.            *)

When(condition, call) == IF condition THEN <<call>> ELSE <<>>

ForEach(S, Calls(_)) ==
  LET upTo[i \in 0..Len(Entries)] ==
        IF i = 0 THEN <<>>
        ELSE upTo[i - 1] \o (IF Entries[i] \in S THEN Calls(Entries[i]) ELSE <<>>)
  IN upTo[Len(Entries)]

(* The sets of entries each part of a run is about, for the inventory v.   *)
partition(v, listed, instanceOk) ==
  LET owned(s) == ownedProviderKind(s, listed)
      naming(s) == planProviderName(s, wantedKind(v[s]),
                                    IF owned(s) = "none" THEN NoId ELSE app[s].provider,
                                    listed)
      act == actionable(v)
      conflicting == {s \in act : owned(s) = "none" /\ app[s].exists}
      unclaimed == {s \in act : ~app[s].exists}
      newForward == {s \in unclaimed : wantedKind(v[s]) = "proxy"}
      oidcEntries == {s \in act : wantedKind(v[s]) = "oauth2"} \ conflicting
      withUris == {s \in oidcEntries : v[s].callbacks /\ instanceOk}
      newOidc == {s \in withUris : owned(s) # "oauth2"}
      backToForward == {s \in act : wantedKind(v[s]) = "proxy" /\ owned(s) = "oauth2"}
  IN [conflicts |-> conflicting,
      toCreate |-> {s \in newForward : ~naming(s).skip},
      forwardSwitches |-> {s \in backToForward : ~naming(s).skip},
      oidcCreates |-> {s \in newOidc : ~naming(s).skip},
      oidcUpdates |-> {s \in withUris : owned(s) = "oauth2"},
      skipped |-> {s \in newForward \cup backToForward \cup newOidc : naming(s).skip}
                    \cup (oidcEntries \ withUris),
      toRemove |-> {s \in Slugs \ desired(v) : owned(s) # "none"},
      switchFrom |-> {s \in newOidc : owned(s) = "proxy"},
      owned |-> [s \in Slugs |-> owned(s)],
      naming |-> [s \in Slugs |-> naming(s)]]

createCalls(p) ==
  LET calls(s) ==
        When(p.naming[s].reuse = NoId, <<"create-proxy", s, NoId>>)
          \o <<<<"create-app", s, NoId>>>>
  IN ForEach(p.toCreate, calls)

forwardSwitchCalls(p) ==
  LET calls(s) ==
        When(p.naming[s].rename, <<"rename", s, app[s].provider>>)
          \o When(p.naming[s].reuse = NoId, <<"create-proxy", s, NoId>>)
          \o <<<<"point", s, "proxy">>>>
  IN ForEach(p.forwardSwitches, calls)

oidcCreateCalls(p, v) ==
  LET reuse(s) == p.naming[s].reuse
      orphanDiff(s) ==
        diffOAuth2Settings(provider[reuse(s)].settings, desiredOAuth2Settings(v[s]), TRUE)
      calls(s) ==
        When(s \in p.switchFrom /\ p.naming[s].rename, <<"rename", s, app[s].provider>>)
          \o (IF reuse(s) = NoId
              THEN <<<<"create-oauth2", s, desiredOAuth2Settings(v[s])>>>>
              ELSE When(orphanDiff(s) # provider[reuse(s)].settings,
                        <<"patch", s, orphanDiff(s)>>))
          \o <<IF s \in p.switchFrom THEN <<"point", s, "oauth2">>
               ELSE <<"create-app", s, NoId>>>>
  IN ForEach(p.oidcCreates, calls)

oidcUpdateCalls(p, v) ==
  LET current(s) == provider[app[s].provider].settings
      diff(s) == diffOAuth2Settings(current(s), desiredOAuth2Settings(v[s]), FALSE)
      calls(s) == When(diff(s) # current(s), <<"patch", s, diff(s)>>)
  IN ForEach(p.oidcUpdates, calls)

mutOutpostRepairs(p, v) == {}

outpostRepairs(p, v) ==
  {app[s].provider : s \in {s \in actionable(v) : wantedKind(v[s]) = "proxy"
                                                  /\ p.owned[s] = "proxy"}} \ outpost

outpostRemovals(p) ==
  {app[s].provider : s \in {s \in p.toRemove : p.owned[s] = "proxy"}
                             \cup (p.oidcCreates \cap p.switchFrom)} \cap outpost

outpostCalls(p, v) ==
  LET joining == {s \in p.toCreate \cup p.forwardSwitches : p.naming[s].reuse \notin outpost}
  IN When(outpostRepairs(p, v) # {} \/ outpostRemovals(p) # {} \/ joining # {},
          <<"outpost", Entries[1], outpostRemovals(p)>>)

removeCalls(p) ==
  LET calls(s) == <<<<"delete-app", s, NoId>>,
                    <<"delete-provider", s, app[s].provider>>>>
      retire(s) == <<<<"delete-provider", s, app[s].provider>>>>
  IN ForEach(p.toRemove, calls)
       \o ForEach(p.oidcCreates \cap p.switchFrom, retire)
       \o ForEach(p.forwardSwitches, retire)

(* Bindings to add, then bindings to take away, of one entry.              *)
planBindingChanges(s, e, current) ==
  LET want == wantedRungs(e)
      calls == [i \in DOMAIN Ladder |->
                  When(Ladder[i] \in want \ current, <<"bind", s, Ladder[i]>>)]
      drops == [i \in DOMAIN Ladder |->
                  When(Ladder[i] \in current \ want, <<"unbind", s, Ladder[i]>>)]
      join(f) == LET upTo[i \in 0..Len(Ladder)] ==
                       IF i = 0 THEN <<>> ELSE upTo[i - 1] \o f[i]
                 IN upTo[Len(Ladder)]
  IN join(calls) \o join(drops)

bindingCalls(p, v) ==
  LET untouched == p.conflicts \cup {s \in p.skipped : p.owned[s] = "none"}
      calls(s) == planBindingChanges(s, v[s],
                                     IF p.owned[s] = "none" THEN {} ELSE bound[s])
  IN ForEach(actionable(v) \ untouched, calls)

mutPlanCalls(p, v) ==
  removeCalls(p) \o createCalls(p) \o forwardSwitchCalls(p) \o oidcCreateCalls(p, v)
    \o oidcUpdateCalls(p, v) \o outpostCalls(p, v) \o bindingCalls(p, v)

planCalls(p, v) ==
  createCalls(p) \o forwardSwitchCalls(p) \o oidcCreateCalls(p, v)
    \o oidcUpdateCalls(p, v) \o outpostCalls(p, v) \o removeCalls(p)
    \o bindingCalls(p, v)

(* The consent step: <<object, action>> in the order they are executed.    *)
planMobileConsent(v) ==
  LET uris == mobileUriSet(v)
      c == consent
  IN IF c.stage = "foreign" \/ c.policy.kind = "foreign" THEN <<>>
     ELSE IF uris # {}
     THEN When(c.stage = "absent", <<"stage", "create">>)
            \o When(c.stage = "drift", <<"stage", "update">>)
            \o When(c.policy.kind = "absent", <<"policy", "create">>)
            \o When(c.policy.kind = "own" /\ c.policy.uris # uris, <<"policy", "update">>)
            \o When(c.binding = "absent", <<"binding", "create">>)
            \o When(c.binding = "drift", <<"binding", "update">>)
            \o When(~c.policyBinding, <<"policy-binding", "create">>)
     ELSE When(c.policyBinding, <<"policy-binding", "delete">>)
            \o When(c.binding # "absent", <<"binding", "delete">>)
            \o When(c.policy.kind = "own", <<"policy", "delete">>)
            \o When(c.stage # "absent", <<"stage", "delete">>)

-----------------------------------------------------------------------------
Idle == [phase |-> "idle", todo |-> <<>>, consent |-> <<>>, view |-> InitialEntry,
         made |-> [s \in Slugs |-> NoId], joined |-> {}, outpost |-> {},
         done |-> {}, stuck |-> FALSE, listed |-> TRUE, instanceOk |-> TRUE, wanted |-> {}]

Init ==
  /\ outpost = {}
  /\ \E h \in InitialHands :
       /\ entry = [InitialEntry EXCEPT ![h.slug] = h.entry]
       /\ app = [s \in Slugs |-> IF s \in DOMAIN h.app THEN h.app[s] ELSE NoApp]
       /\ provider = [i \in Ids |-> IF i \in DOMAIN h.provider THEN h.provider[i]
                                    ELSE NoProvider]
       /\ bound = [s \in Slugs |-> IF s \in DOMAIN h.app THEN {"other"} ELSE {}]
       /\ consent = h.consent
       /\ fields = h.fields
  /\ run = Idle

Resting == run.phase \in {"idle", "done", "failed"}

(* The operator changes a field of an entry.  A run works on the inventory *)
(* it loaded, so an edit during a run is the same as one right after it.   *)
EditEntry(s) ==
  /\ Resting
  /\ \E f \in fields, e \in Entry :
       /\ e # entry[s] /\ \A g \in DOMAIN e \ {f} : e[g] = entry[s][g]
       /\ entry' = [entry EXCEPT ![s] = e]
  /\ UNCHANGED <<remote, fields, run>>

(* runSyncAuthentik up to its first write.  The OAuth2 listing may fail    *)
(* only where the run carries on without it; the consent step may be       *)
(* unreadable.                                                             *)
Plan ==
  /\ Resting
  /\ \E listed, instanceOk, readable \in BOOLEAN :
       /\ listed \/ \A s \in Slugs : entry[s].mode # "oidc"
       /\ LET p == partition(entry, listed, instanceOk) IN
          run' = [Idle EXCEPT
                    !.phase = "apply",
                    !.todo = planCalls(p, entry),
                    !.consent = IF readable THEN planMobileConsent(entry) ELSE <<>>,
                    !.view = entry,
                    !.made = [s \in Slugs |-> IF s \in p.oidcUpdates THEN app[s].provider
                                              ELSE p.naming[s].reuse],
                    !.joined = outpostRepairs(p, entry),
                    !.outpost = outpost,
                    !.listed = listed,
                    !.instanceOk = instanceOk,
                    !.wanted = mobileUriSet(entry)]
  /\ UNCHANGED <<remote, entry, fields>>

(* runAdoptOidcClient up to its first write: an unmarked OpenID client at  *)
(* the slug of an OIDC entry is marked, patched and bound.                 *)
Adopt(s) ==
  LET e == entry[s]
      id == app[s].provider
      diff == diffOAuth2Settings(provider[id].settings, desiredOAuth2Settings(e), FALSE)
  IN
  /\ Resting
  /\ effectiveAuth(e) = "oidc"
  /\ app[s].exists
  /\ ownedProviderKind(s, TRUE) = "none"
  /\ id # NoId
  /\ e.callbacks
  /\ s \in actionable(entry)
  /\ run' = [Idle EXCEPT
               !.phase = "adopt",
               !.todo = <<<<"mark", s, NoId>>>>
                          \o When(diff # provider[id].settings, <<"patch", s, diff>>)
                          \o planBindingChanges(s, e, bound[s]),
               !.view = entry,
               !.made[s] = id]
  /\ UNCHANGED <<remote, entry, fields>>

-----------------------------------------------------------------------------
(* One call of the plan.  The new run record is the plan without its head. *)

Busy == run.phase \in {"apply", "adopt"} /\ run.todo # <<>>
Call == run.todo[1]
Slug == Call[2]
Rest == [run EXCEPT !.todo = Tail(@)]
NameFree(name) == \A i \in Providers : provider[i].name # name

(* The new provider takes the lowest free id.                              *)
createProvider(kind, settings) ==
  /\ NameFree(<<Slug, FALSE>>)
  /\ LET id == CHOOSE i \in Ids \ Providers : \A j \in Ids \ Providers : i <= j IN
     /\ provider' = [provider EXCEPT ![id] =
          [kind |-> kind, name |-> <<Slug, FALSE>>, settings |-> settings,
           hand |-> FALSE, elsewhere |-> FALSE]]
     /\ run' = [Rest EXCEPT !.made[Slug] = id]
  /\ UNCHANGED <<app, outpost, bound, consent>>

createProxyProvider ==
  /\ Busy /\ Call[1] = "create-proxy" /\ Providers # Ids
  /\ createProvider("proxy", [uris |-> {}, mappings |-> {}, rest |-> TRUE])

createOAuth2Provider ==
  /\ Busy /\ Call[1] = "create-oauth2" /\ Providers # Ids
  /\ createProvider("oauth2", Call[3])

(* A proxy provider joins the outpost's list once its application is made. *)
createApplication ==
  /\ Busy /\ Call[1] = "create-app"
  /\ ~app[Slug].exists
  /\ LET id == run.made[Slug]
         oauth2 == provider[id].kind = "oauth2" IN
     /\ app' = [app EXCEPT ![Slug] = [provider |-> id, marked |-> oauth2, exists |-> TRUE]]
     /\ run' = [Rest EXCEPT !.joined = IF oauth2 THEN @ ELSE @ \cup {id}]
  /\ UNCHANGED <<provider, outpost, bound, consent>>

renameProvider ==
  /\ Busy /\ Call[1] = "rename"
  /\ NameFree(<<Slug, TRUE>>)
  /\ provider' = [provider EXCEPT ![Call[3]].name = <<Slug, TRUE>>]
  /\ run' = Rest
  /\ UNCHANGED <<app, outpost, bound, consent>>

updateApplication ==
  /\ Busy /\ Call[1] \in {"point", "mark"}
  /\ IF Call[1] = "mark"
     THEN app' = [app EXCEPT ![Slug].marked = TRUE] /\ run' = Rest
     ELSE LET id == run.made[Slug] IN
          /\ app' = [app EXCEPT ![Slug].provider = id, ![Slug].marked = Call[3] = "oauth2"]
          /\ run' = [Rest EXCEPT !.joined = IF Call[3] = "proxy" THEN @ \cup {id} ELSE @]
  /\ UNCHANGED <<provider, outpost, bound, consent>>

updateOAuth2Provider ==
  /\ Busy /\ Call[1] = "patch"
  /\ provider' = [provider EXCEPT ![run.made[Slug]].settings = Call[3]]
  /\ run' = Rest
  /\ UNCHANGED <<app, outpost, bound, consent>>

setOutpostProviders ==
  /\ Busy /\ Call[1] = "outpost"
  /\ outpost' = (run.outpost \cup run.joined) \ Call[3]
  /\ run' = Rest
  /\ UNCHANGED <<app, provider, bound, consent>>

deleteApplication ==
  /\ Busy /\ Call[1] = "delete-app"
  /\ app' = [app EXCEPT ![Slug] = NoApp]
  /\ bound' = [bound EXCEPT ![Slug] = {}]
  /\ run' = Rest
  /\ UNCHANGED <<provider, outpost, consent>>

(* Authentik clears the reference of an application that still points at   *)
(* a deleted provider, and takes the provider off the outpost.             *)
deleteProvider ==
  /\ Busy /\ Call[1] = "delete-provider"
  /\ provider' = [provider EXCEPT ![Call[3]] = NoProvider]
  /\ app' = [s \in Slugs |-> IF app[s].provider = Call[3]
                             THEN [app[s] EXCEPT !.provider = NoId] ELSE app[s]]
  /\ outpost' = outpost \ {Call[3]}
  /\ run' = Rest
  /\ UNCHANGED <<bound, consent>>

changePolicyBinding ==
  /\ Busy /\ Call[1] \in {"bind", "unbind"}
  /\ bound' = [bound EXCEPT ![Slug] = IF Call[1] = "bind" THEN @ \cup {Call[3]}
                                      ELSE @ \ {Call[3]}]
  /\ run' = Rest
  /\ UNCHANGED <<app, provider, outpost, consent>>

MakeCall ==
  /\ \/ createProxyProvider \/ createOAuth2Provider
     \/ createApplication \/ renameProvider
     \/ updateApplication \/ updateOAuth2Provider \/ setOutpostProviders
     \/ deleteApplication \/ deleteProvider \/ changePolicyBinding
  /\ UNCHANGED <<entry, fields>>

(* RealAuthentikClient.request throws: the run ends there.                 *)
CallFails ==
  /\ Busy
  /\ run' = [Idle EXCEPT !.phase = "failed"]
  /\ UNCHANGED <<remote, entry, fields>>

AdoptEnds ==
  /\ run.phase = "adopt" /\ run.todo = <<>>
  /\ run' = Idle
  /\ UNCHANGED <<remote, entry, fields>>

-----------------------------------------------------------------------------
(* The consent step, after every other call.                               *)

InConsent == run.phase = "apply" /\ run.todo = <<>> /\ run.consent # <<>>
Change == run.consent[1]

changed(c, change) ==
  CASE change[1] = "stage" ->
         [c EXCEPT !.stage = IF change[2] = "delete" THEN "absent" ELSE "ok"]
    [] change[1] = "policy" ->
         [c EXCEPT !.policy = IF change[2] = "delete" THEN [kind |-> "absent", uris |-> {}]
                              ELSE [kind |-> "own", uris |-> run.wanted]]
    [] change[1] = "binding" ->
         [c EXCEPT !.binding = IF change[2] = "delete" THEN "absent" ELSE "ok"]
    [] change[1] = "policy-binding" ->
         [c EXCEPT !.policyBinding = change[2] = "create"]

applyMobileConsent ==
  /\ InConsent
  /\ consent' = changed(consent, Change)
  /\ run' = [run EXCEPT !.consent = Tail(@), !.done = @ \cup {Change}]
  /\ UNCHANGED <<app, provider, outpost, bound, entry, fields>>

mutConsentFails ==
  /\ InConsent
  /\ run' = [run EXCEPT !.consent = <<>>]
  /\ UNCHANGED <<remote, entry, fields>>

(* A failed change ends the step.  When attaching the policy fails, a      *)
(* stage binding this run created is taken out again, which may also fail. *)
consentFails ==
  /\ InConsent
  /\ LET rollback == /\ Change = <<"policy-binding", "create">>
                     /\ <<"binding", "create">> \in run.done IN
     \E undone \in IF rollback THEN BOOLEAN ELSE {FALSE} :
       /\ consent' = IF undone THEN [consent EXCEPT !.binding = "absent"] ELSE consent
       /\ run' = [run EXCEPT !.consent = <<>>, !.stuck = rollback /\ ~undone]
  /\ UNCHANGED <<app, provider, outpost, bound, entry, fields>>

(* The result is returned; the discovery check only reads.                 *)
SyncEnds ==
  /\ run.phase = "apply" /\ run.todo = <<>> /\ run.consent = <<>>
  /\ run' = [Idle EXCEPT !.phase = "done", !.view = run.view, !.done = run.done,
                         !.stuck = run.stuck, !.listed = run.listed,
                         !.instanceOk = run.instanceOk]
  /\ UNCHANGED <<remote, entry, fields>>

(* The process dies between two calls.                                     *)
Die ==
  /\ ~Resting
  /\ run' = [Idle EXCEPT !.phase = "failed"]
  /\ UNCHANGED <<remote, entry, fields>>

Next ==
  \/ \E s \in Editable : EditEntry(s)
  \/ Plan
  \/ \E s \in Slugs : Adopt(s)
  \/ MakeCall
  \/ CallFails
  \/ AdoptEnds
  \/ applyMobileConsent
  \/ consentFails
  \/ SyncEnds
  \/ Die

Spec == Init /\ [][Next]_vars

-----------------------------------------------------------------------------
(* The variables have their types.                                         *)
TypeOK ==
  /\ entry \in [Slugs -> Entry]
  /\ app \in [Slugs -> [provider : Ids \cup {NoId}, marked : BOOLEAN, exists : BOOLEAN]]
  /\ provider \in [Ids -> Provider \cup {NoProvider}]
  /\ outpost \subseteq Ids
  /\ bound \in [Slugs -> SUBSET (Rungs \cup {"other"})]
  /\ consent \in [stage : {"absent", "ok", "drift", "foreign"},
                  policy : [kind : {"absent", "own", "foreign"}, uris : SUBSET Slugs],
                  binding : {"absent", "ok", "drift"},
                  policyBinding : BOOLEAN]
  /\ run.phase \in {"idle", "apply", "adopt", "done", "failed"}
  /\ run.made \in [Slugs -> Ids \cup {NoId}] /\ run.joined \subseteq Ids

Done == run.phase = "done" /\ run.view = entry

(* After a run that reached its end, whatever earlier runs left half done: *)
(* an entry whose gate was cleared has no owned application, an owned      *)
(* application is bound to exactly the rungs its entry asks for (and what  *)
(* was added by hand), a forward one is on the outpost, an OIDC one with   *)
(* callbacks has the callbacks of its entry, and an entry without an       *)
(* application has a reason the run reports.                               *)
Reconciled ==
  Done => \A s \in Slugs :
    LET kind == ownedProviderKind(s, run.listed)
        e == entry[s]
    IN /\ e.gate = "none" => kind = "none"
       /\ s \in actionable(entry) /\ kind # "none" => bound[s] \cap Rungs = wantedRungs(e)
       /\ s \in actionable(entry) /\ kind = "proxy" /\ wantedKind(e) = "proxy"
            => app[s].provider \in outpost
       /\ s \in actionable(entry) /\ kind = "oauth2" /\ wantedKind(e) = "oauth2"
            /\ e.callbacks /\ run.instanceOk
            => /\ provider[app[s].provider].settings.uris = clientRedirectUris(e)
               /\ app[s].provider \notin outpost
       /\ s \in actionable(entry) /\ ~app[s].exists
            => \/ wantedKind(e) = "oauth2" /\ ~(e.callbacks /\ run.instanceOk)
               \/ ~NameFree(<<s, FALSE>>)

(* A second run over an unchanged inventory has no call left to make: the  *)
(* preview after an apply is empty.                                        *)
Settled ==
  Done => planCalls(partition(entry, run.listed, run.instanceOk), entry) = <<>>

(* A run that came through leaves everything as wanted, at once and for    *)
(* good, whatever earlier runs left half done.                             *)
Converges == Reconciled /\ Settled

(* A stage binding the run itself created does not outlive a failed        *)
(* attachment of its policy, which would put the consent page in front of  *)
(* every login, unless taking it out failed too or the process died.       *)
ConsentRollsBack ==
  (run.phase = "done" /\ <<"binding", "create">> \in run.done /\ ~run.stuck)
    => (consent.binding # "absent" => consent.policyBinding)

HandMade(s) ==
  /\ app[s].exists
  /\ app[s].provider # NoId => provider[app[s].provider].kind = "oauth2" /\ ~app[s].marked

(* A sync leaves alone what it does not own: an application that is backed *)
(* by an unmarked OpenID client or by nothing, a provider that serves some *)
(* other application, and bindings to groups off the ladder.               *)
ForeignUntouched ==
  [][run.phase = "apply" =>
       /\ \A s \in Slugs :
            /\ HandMade(s) => app'[s] = app[s] /\ bound'[s] = bound[s]
            /\ app'[s].exists /\ "other" \in bound[s] => "other" \in bound'[s]
       /\ \A i \in Providers : provider[i].elsewhere => provider'[i] = provider[i]]_vars

(* While a mode is switched, a gate cleared or anything fails on the way,  *)
(* an application that has a provider never loses it; and a run never      *)
(* takes the OpenID client of an entry gated by OIDC away or swaps it for  *)
(* another: the credentials an app was configured with stay valid and on   *)
(* display, even when the entry lost its callbacks, names an unknown group *)
(* or is being adopted.                                                    *)
LoginSurvives ==
  [][\A s \in Slugs :
       LET id == app[s].provider
           shown == runOidcCredentials(s) IN
       /\ app[s].exists /\ id # NoId /\ app'[s].exists => app'[s].provider # NoId
       /\ run.phase \in {"apply", "adopt"} =>
            /\ shown # NoId => runOidcCredentials(s)' = shown
            /\ effectiveAuth(run.view[s]) = "oidc" /\ id # NoId /\ provider[id].kind = "oauth2"
                 => app'[s].provider = id /\ provider'[id].kind = "oauth2"]_vars
=============================================================================
