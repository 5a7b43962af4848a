------------------------------ MODULE McpGrants ------------------------------
(***************************************************************************)
(* MCP over HTTP: clients that register themselves, the consent a person   *)
(* gives, the sign-in it leads to, the grant with its rotating refresh     *)
(* token and its access tokens, the check of every request, and the hosted *)
(* MCP sessions.  The session behind a grant is WebSessions' promise: live *)
(* until it expires or the provider refuses it, with the groups last read. *)
(* Statements outside a transaction are separate: a crash may end each     *)
(* handler after any of them.                                              *)
(***************************************************************************)
EXTENDS Naturals

CONSTANTS
  Clients, Consents, SignIns,  \* bounds: how many there ever are
  Requests, Hosted,            \* bounds: how many at once
  MaxGrants, MaxRotations, MaxCrashes, MaxTime,
  PendingTtl, CodeTtl, AccessTtl, UnusedClientTtl, SessionMaxAge, SessionIdle

ASSUME TtlAssumption ==
  /\ {PendingTtl, CodeTtl, AccessTtl, SessionIdle} \subseteq Nat \ {0}
  /\ SessionMaxAge \in Nat
  /\ AccessTtl < SessionMaxAge

VARIABLES
  now,
  client,    \* mcp_clients
  pending,   \* mcp_pending, the cookie of the browser shown the page, what it posted
  signIn,    \* sign-in with the provider -> the consent it is for
  session,   \* the detached session a sign-in became
  code,      \* mcp_codes, by sign-in
  grant,     \* mcp_grants
  token,     \* mcp_access_tokens: [grant, exp]
  request,   \* requests to /mcp
  hosted,    \* McpHttpHost.sessions
  orphaned,  \* history: sign-ins whose grant was ended by a handler that crashed
  crashes

oauthVars == <<client, pending, signIn, code>>
hostVars == <<request, hosted>>
vars == <<now, oauthVars, session, grant, token, hostVars, orphaned, crashes>>

Grants == 1..MaxGrants
ApiKey == 0
None == "none"
Ready == [at |-> "new", grant |-> 0, exp |-> 0, host |-> None]
Closed == [state |-> "none", principal |-> 0, lastSeen |-> 0, active |-> 0]

Init ==
  /\ now = 0 /\ crashes = 0 /\ orphaned = {} /\ token = {}
  /\ client = [c \in Clients |-> [state |-> "none", used |-> FALSE, at |-> 0]]
  /\ pending = [p \in Consents |-> [state |-> "none", at |-> 0, client |-> None, cookie |-> FALSE, posted |-> {}]]
  /\ signIn = [n \in SignIns |-> [at |-> "none", consent |-> None]]
  /\ session = [n \in SignIns |-> [state |-> "none", created |-> 0, admin |-> FALSE]]
  /\ code = [n \in SignIns |-> [state |-> "none", created |-> 0, client |-> None]]
  /\ grant = [g \in Grants |-> [state |-> "none", client |-> None, signIn |-> None, refresh |-> 0, created |-> 0]]
  /\ request = [r \in Requests |-> Ready]
  /\ hosted = [h \in Hosted |-> Closed]

(* The rows of the tables and the requests in hand.                        *)
RowState == {"none", "live", "gone"}
Forms == {"shown", "other"} \X {"approve", "deny"}
ClientRow == [state : {"none", "known", "gone"}, used : BOOLEAN, at : Nat]
PendingRow == [state : {"none", "open", "gone"}, at : Nat, client : Clients \cup {None},
               cookie : BOOLEAN, posted : SUBSET Forms]
SignInRow == [at : {"none", "asking", "done"}, consent : Consents \cup {None}]
SessionRow == [state : RowState, created : Nat, admin : BOOLEAN]
CodeRow == [state : RowState, created : Nat, client : Clients \cup {None}]
GrantRow == [state : RowState, client : Clients \cup {None}, signIn : SignIns \cup {None},
             refresh : Nat, created : Nat]
Request == [at : {"new", "checking", "served"}, grant : Grants \cup {ApiKey}, exp : Nat,
            host : Hosted \cup {None}]

TypeOK ==
  /\ now \in Nat /\ orphaned \subseteq SignIns
  /\ client \in [Clients -> ClientRow] /\ pending \in [Consents -> PendingRow]
  /\ signIn \in [SignIns -> SignInRow] /\ session \in [SignIns -> SessionRow]
  /\ code \in [SignIns -> CodeRow] /\ grant \in [Grants -> GrantRow]
  /\ token \subseteq [grant : Grants, exp : Nat]
  /\ request \in [Requests -> Request] /\ DOMAIN hosted = Hosted

(* The process dies: what is in memory is lost.                            *)
Restarted ==
  /\ request' = [r \in Requests |-> Ready]
  /\ hosted' = [h \in Hosted |-> Closed]
  /\ crashes < MaxCrashes /\ crashes' = crashes + 1

(* A handler that runs to its end, or one cut short.                       *)
Completes(cut) == IF cut THEN Restarted ELSE UNCHANGED <<hostVars, crashes>>

-----------------------------------------------------------------------------
(* Clients and consents.                                                   *)
registerClient(c) ==
  /\ client[c].state = "none"
  /\ client' = [d \in Clients |->
       IF d = c THEN [state |-> "known", used |-> FALSE, at |-> now]
       ELSE IF client[d].state = "known" /\ ~client[d].used /\ client[d].at + UnusedClientTtl <= now
            THEN [state |-> "gone", used |-> FALSE, at |-> 0] ELSE client[d]]
  /\ UNCHANGED <<now, pending, signIn, session, code, grant, token, hostVars, orphaned, crashes>>

(* A row that is deleted keeps nothing but history; nothing asks for its   *)
(* cookie.                                                                 *)
Forgotten(row) == [row EXCEPT !.state = "gone", !.at = 0, !.cookie = FALSE]
unexpired(p) == pending[p].state = "open" /\ now < pending[p].at + PendingTtl

(* The page goes to a browser with a cookie.                               *)
authorize(c, p) ==
  /\ client[c].state = "known" /\ pending[p].state = "none"
  /\ pending' = [q \in Consents |->
       IF q = p THEN [state |-> "open", at |-> now, client |-> c, cookie |-> TRUE, posted |-> {}]
       ELSE IF pending[q].state = "open" /\ ~unexpired(q) THEN Forgotten(pending[q]) ELSE pending[q]]
  /\ UNCHANGED <<now, client, signIn, session, code, grant, token, hostVars, orphaned, crashes>>

(* The cookie runs out, or the answer to a post clears it.                 *)
CookieGone(p) ==
  /\ pending[p].cookie
  /\ pending' = [pending EXCEPT ![p].cookie = FALSE]
  /\ UNCHANGED <<now, client, signIn, session, code, grant, token, hostVars, orphaned, crashes>>

consumePending(p) == [pending EXCEPT ![p] = IF @.state = "open" THEN Forgotten(@) ELSE @]

(* A form posted by the browser that was shown the page or by another one, *)
(* twice perhaps.                                                          *)
Approve(p, from, n) ==
  /\ unexpired(p) /\ from = "shown" /\ pending[p].cookie
  /\ signIn[n].at = "none"
  /\ pending' = [pending EXCEPT ![p].at = now, ![p].posted = @ \cup {<<from, "approve">>}]
  /\ signIn' = [signIn EXCEPT ![n] = [at |-> "asking", consent |-> p]]
  /\ UNCHANGED <<now, client, session, code, grant, token, hostVars, orphaned, crashes>>

Deny(p, from) ==
  /\ unexpired(p) /\ from = "shown" /\ pending[p].cookie
  /\ pending' = [consumePending(p) EXCEPT ![p].posted = @ \cup {<<from, "deny">>}]
  /\ UNCHANGED <<now, client, signIn, session, code, grant, token, hostVars, orphaned, crashes>>

-----------------------------------------------------------------------------
(* The provider's answer.                                                  *)
failSignIn(n) ==
  /\ signIn[n].at = "asking"
  /\ signIn' = [signIn EXCEPT ![n].at = "done"]
  /\ pending' = consumePending(signIn[n].consent)
  /\ UNCHANGED <<now, client, session, code, grant, token, hostVars, orphaned, crashes>>

Used == [state |-> "gone", created |-> 0, client |-> None]

(* The consent is used up, the session made, the code issued, one after    *)
(* the other: steps of them happen.                                        *)
Issue(n, admin, steps) ==
  /\ session' = IF steps > 1 THEN [session EXCEPT ![n] = [state |-> "live", created |-> now, admin |-> admin]] ELSE session
  /\ code' = IF steps < 3 THEN code ELSE [m \in SignIns |->
       IF m = n THEN [state |-> "live", created |-> now, client |-> pending[signIn[n].consent].client]
       ELSE IF code[m].created + CodeTtl <= now /\ code[m].state = "live" THEN Used
       ELSE code[m]]

\* Mutant: the consent is read, not used up.
mutFinishSignIn(n, admin, steps) ==
  /\ signIn[n].at = "asking"
  /\ signIn' = [signIn EXCEPT ![n].at = "done"]
  /\ Completes(steps < 3)
  /\ IF unexpired(signIn[n].consent) /\ admin THEN Issue(n, admin, steps) ELSE UNCHANGED <<session, code>>
  /\ UNCHANGED <<now, client, pending, grant, token, orphaned>>

finishSignIn(n, admin, steps) ==
  /\ signIn[n].at = "asking"
  /\ signIn' = [signIn EXCEPT ![n].at = "done"]
  /\ pending' = consumePending(signIn[n].consent)
  /\ Completes(steps < 3)
  /\ IF unexpired(signIn[n].consent) /\ admin THEN Issue(n, admin, steps) ELSE UNCHANGED <<session, code>>
  /\ UNCHANGED <<now, client, grant, token, orphaned>>

-----------------------------------------------------------------------------
(* Tokens.                                                                 *)
Lives(n) == session[n].state = "live" /\ now < session[n].created + SessionMaxAge

issueAccess(toks, g) == {t \in toks : t.exp > now} \cup {[grant |-> g, exp |-> now + AccessTtl]}

Ended(row) == [row EXCEPT !.state = "gone", !.client = None, !.refresh = 0, !.created = 0]

deleteGrant(g) ==
  /\ token' = {t \in token : t.grant # g}
  /\ grant' = [grant EXCEPT ![g] = Ended(@)]

\* Mutant: grants are purged by the age of their tokens.
mutOld(g) == grant[g].state = "live" /\ grant[g].created + AccessTtl <= now

Old(g) == grant[g].state = "live" /\ grant[g].created + SessionMaxAge <= now

(* Old grants go, the client counts as used, the row and its first access  *)
(* token are written.                                                      *)
createGrant(c, n, g, steps) ==
  /\ client' = IF steps > 2 THEN [client EXCEPT ![c].used = TRUE] ELSE client
  /\ LET purged == [h \in Grants |-> IF steps > 1 /\ Old(h) THEN Ended(grant[h]) ELSE grant[h]]
         left == IF steps > 0 THEN {t \in token : ~Old(t.grant)} ELSE token
     IN /\ grant' = IF steps > 3 THEN [purged EXCEPT ![g] = [state |-> "live", client |-> c, signIn |-> n,
                                                            refresh |-> 0, created |-> now]] ELSE purged
        /\ token' = IF steps > 4 THEN issueAccess(left, g) ELSE left

(* The code is the client's own and its challenge was met (peekCode); the  *)
(* addresses may not match.                                                *)
exchangeAuthorizationCode(c, n, matches, steps) ==
  /\ client[c].state = "known" /\ code[n].client = c
  /\ code[n].state = "live" /\ now < code[n].created + CodeTtl
  /\ code' = [code EXCEPT ![n] = Used]
  /\ Completes(steps < 5)
  /\ IF matches /\ Lives(n)
     THEN \E g \in Grants :
            /\ grant[g].state = "none" /\ \A h \in Grants : h < g => grant[h].state # "none"
            /\ createGrant(c, n, g, steps)
     ELSE UNCHANGED <<client, grant, token>>
  /\ UNCHANGED <<now, pending, signIn, session, orphaned>>

(* Only the refresh token last handed out is found.                        *)
exchangeRefreshToken(c, g, steps) ==
  /\ client[c].state = "known" /\ grant[g].state = "live" /\ grant[g].client = c
  /\ grant[g].refresh < MaxRotations
  /\ Completes(steps < 2)
  /\ IF steps = 2 /\ ~Lives(grant[g].signIn) THEN deleteGrant(g)
     ELSE /\ grant' = [grant EXCEPT ![g].refresh = @ + 1]
          /\ token' = IF steps < 2 THEN token ELSE issueAccess(token, g)
  /\ UNCHANGED <<now, oauthVars, session, orphaned>>

ended(n) == [session EXCEPT ![n].state = "gone", ![n].created = 0]

(* revokeToken of a refresh token ends the grant, then its sign-in; of an  *)
(* access token, only that.                                                *)
RevokeGrant(c, g, steps) ==
  /\ client[c].state = "known" /\ grant[g].state = "live" /\ grant[g].client = c
  /\ deleteGrant(g)
  /\ Completes(steps < 2)
  /\ session' = IF steps < 2 THEN session ELSE ended(grant[g].signIn)
  /\ orphaned' = IF steps < 2 THEN orphaned \cup {grant[g].signIn} ELSE orphaned
  /\ UNCHANGED <<now, oauthVars>>

RevokeAccess(c, t) ==
  /\ client[c].state = "known" /\ grant[t.grant].client = c
  /\ token' = token \ {t}
  /\ UNCHANGED <<now, oauthVars, session, grant, hostVars, orphaned, crashes>>

-----------------------------------------------------------------------------
(* Requests to /mcp.                                                       *)
resolveAccess(r, t) ==
  /\ request[r].at = "new" /\ now < t.exp /\ grant[t.grant].state = "live"
  /\ request' = [request EXCEPT ![r] = [@ EXCEPT !.at = "checking", !.grant = t.grant, !.exp = t.exp]]
  /\ UNCHANGED <<now, oauthVars, session, grant, token, hosted, orphaned, crashes>>

(* McpHttpHost.handle: an initialize opens a session, anything else needs  *)
(* one of the same principal.  track counts it.                            *)
handle(r, principal, exp) ==
  \/ /\ request' = [request EXCEPT ![r] = Ready]  \* not found
     /\ UNCHANGED hosted
  \/ \E h \in Hosted :
       /\ hosted[h].state = "none"
       /\ request' = [request EXCEPT ![r] = Ready]
       /\ hosted' = [hosted EXCEPT ![h] = [state |-> "open", principal |-> principal, lastSeen |-> now, active |-> 0]]
  \/ \E h \in Hosted :
       /\ hosted[h].state = "open" /\ hosted[h].principal = principal
       /\ request' = [request EXCEPT ![r] = [at |-> "served", grant |-> principal, exp |-> exp, host |-> h]]
       /\ hosted' = [hosted EXCEPT ![h].lastSeen = now, ![h].active = @ + 1]

WithApiKey(r) ==
  /\ request[r].at = "new"
  /\ handle(r, ApiKey, now + 1)
  /\ UNCHANGED <<now, oauthVars, session, grant, token, orphaned, crashes>>

Refused(r) == request' = [request EXCEPT ![r] = Ready] /\ UNCHANGED hosted

\* Mutant: what was read before the provider was asked is believed.
mutUser(n, recheck) == recheck # "refused"

(* The row is read again after the provider has answered.                  *)
User(n, recheck) == Lives(n) /\ recheck # "refused"

(* resolveHash has answered: no re-check was due, or the provider said     *)
(* yes, said no, or was not reached.  The person must be an admin, and     *)
(* bearerAuth looks at the expiry again.                                   *)
verifyAccessToken(r, recheck, admin) ==
  /\ request[r].at = "checking"
  /\ LET g == request[r].grant
         n == grant[g].signIn
         checked == IF ~Lives(n) THEN session
                    ELSE CASE recheck = "ok" -> [session EXCEPT ![n].admin = admin]
                           [] recheck = "refused" -> ended(n)
                           [] OTHER -> session
         user == User(n, recheck)
     IN /\ session' = checked
        /\ IF user THEN UNCHANGED <<grant, token>> ELSE deleteGrant(g)
        /\ IF user /\ checked[n].admin /\ request[r].exp > now THEN handle(r, g, request[r].exp) ELSE Refused(r)
  /\ UNCHANGED <<now, oauthVars, orphaned, crashes>>

ResponseCloses(r) ==
  /\ request[r].at = "served"
  /\ request' = [request EXCEPT ![r] = Ready]
  /\ hosted' = [hosted EXCEPT ![request[r].host].active = @ - 1, ![request[r].host].lastSeen = now]
  /\ UNCHANGED <<now, oauthVars, session, grant, token, orphaned, crashes>>

(* The client ends its session: what was being answered is cut off.        *)
ClientCloses(h) ==
  /\ hosted[h].state = "open"
  /\ hosted' = [hosted EXCEPT ![h] = Closed]
  /\ request' = [r \in Requests |-> IF request[r].at = "served" /\ request[r].host = h
                                    THEN Ready ELSE request[r]]
  /\ UNCHANGED <<now, oauthVars, session, grant, token, orphaned, crashes>>

Idle(h) == hosted[h].state = "open" /\ hosted[h].active = 0 /\ hosted[h].lastSeen + SessionIdle <= now

sweep ==
  /\ \E h \in Hosted : Idle(h)
  /\ hosted' = [h \in Hosted |-> IF Idle(h) THEN Closed ELSE hosted[h]]
  /\ UNCHANGED <<now, oauthVars, session, grant, token, request, orphaned, crashes>>

Tick ==
  /\ now < MaxTime /\ now' = now + 1
  /\ UNCHANGED <<oauthVars, session, grant, token, hostVars, orphaned, crashes>>

Restart ==
  /\ Restarted
  /\ UNCHANGED <<now, oauthVars, session, grant, token, orphaned>>

Next ==
  \/ \E c \in Clients : registerClient(c) \/ \E p \in Consents : authorize(c, p)
  \/ \E p \in Consents, from \in {"shown", "other"} :
       CookieGone(p) \/ Deny(p, from) \/ \E n \in SignIns : Approve(p, from, n)
  \/ \E n \in SignIns : failSignIn(n) \/ \E admin \in BOOLEAN, s \in 1..3 : finishSignIn(n, admin, s)
  \/ \E c \in Clients, n \in SignIns, matches \in BOOLEAN, s \in 0..5 : exchangeAuthorizationCode(c, n, matches, s)
  \/ \E c \in Clients, g \in Grants, s \in 1..2 : exchangeRefreshToken(c, g, s) \/ RevokeGrant(c, g, s)
  \/ \E t \in token : (\E c \in Clients : RevokeAccess(c, t)) \/ \E r \in Requests : resolveAccess(r, t)
  \/ \E r \in Requests : \/ WithApiKey(r) \/ ResponseCloses(r)
                         \/ \E k \in {"none", "ok", "refused", "unreachable"}, admin \in BOOLEAN : verifyAccessToken(r, k, admin)
  \/ \E h \in Hosted : ClientCloses(h)
  \/ sweep \/ Tick \/ Restart

Spec == Init /\ [][Next]_vars

-----------------------------------------------------------------------------
(* Every grant there ever was goes back to one approval of the consent     *)
(* page, in the browser that was shown it, that was not denied; and one    *)
(* approval leads to one grant, however often the form was posted.         *)
GrantsAreConsented ==
  LET made == {g \in Grants : grant[g].state # "none"}
      consent(g) == signIn[grant[g].signIn].consent
  IN \A g \in made : /\ pending[consent(g)].posted = {<<"shown", "approve">>}
                     /\ \A h \in made \ {g} : consent(h) # consent(g)

(* A request reaches an MCP session only while its grant exists, its       *)
(* sign-in lives, the person is an admin as last read, and its token has   *)
(* not run out -- also when the grant was revoked while it was checked.    *)
RevokedIsRefused ==
  [][\A r \in Requests :
       request[r].at = "checking" /\ request'[r].at = "served" =>
         LET g == request[r].grant
         IN /\ grant[g].state = "live" /\ grant'[g].state = "live"
            /\ Lives(grant[g].signIn) /\ session'[grant[g].signIn].admin
            /\ request[r].exp > now]_vars

(* A grant that is gone has no live sign-in behind it, which would keep    *)
(* the provider's refresh token, unless the process died revoking it.      *)
GrantAndSignInEndTogether ==
  \A g \in Grants : grant[g].state = "gone" => ~Lives(grant[g].signIn) \/ grant[g].signIn \in orphaned

=============================================================================
