---------------------------- MODULE WebSessions ----------------------------
(***************************************************************************)
(* Bellhop's own web login: the session rows and sign-in attempts of       *)
(* login/session-store.ts, the re-checks of login/sessions.ts, the client  *)
(* of login/managed.ts and login/config.ts, the routes of routes/auth.ts.  *)
(*                                                                         *)
(* A request that finds its session due for a re-check asks the provider:  *)
(* it refreshes the managed client, presents the refresh token (which the  *)
(* provider replaces on every use) and reads the userinfo.  Each of these  *)
(* waits, and anything may happen meanwhile: other requests, a sign-out,   *)
(* a crash.  One process owns the store.  All sessions are one user's; the *)
(* user's standing with the provider is the groups it reports, or none.    *)
(***************************************************************************)
EXTENDS Integers, FiniteSets

CONSTANTS
    Sids,           \* bound: the sign-ins ever begun, and the sessions they become
    Requests,       \* bound: the requests ever made with a session cookie
    Groups,         \* the group lists the provider may report
    Deactivated,    \* a user the provider refuses
    NoCheck,        \* no re-check in flight
    SessionMaxAge,  \* SESSION_MAX_AGE_MS
    AttemptMaxAge,  \* ATTEMPT_MAX_AGE_MS
    CheckInterval,  \* CHECK_INTERVAL_MS
    CheckRetry,     \* CHECK_RETRY_MS
    MaxTime,        \* bound: the clock stops here
    MaxEvents       \* bound: crashes, settings changes and provider changes

ASSUME NamesAssumption == Deactivated \notin Groups /\ NoCheck \notin Requests

ASSUME TimesAssumption ==
    /\ SessionMaxAge \in Nat /\ AttemptMaxAge \in Nat
    /\ CheckInterval \in Nat /\ CheckRetry \in Nat \ {0}
    /\ MaxTime \in Nat /\ MaxEvents \in Nat

VARIABLES
    now,        \* the store's clock
    attempts,   \* login_attempts, and the callback that consumed one
    store,      \* the sessions table
    request,    \* the requests and the re-check a request started
    inflight,   \* SessionService.inflight: the request whose re-check to join
    source,     \* what the settings say: custom, managed, none, or invalid
    client,     \* managed.ts current: whether a client has been resolved
    reachable,  \* whether the provider answers
    standing,   \* the user's groups, or Deactivated
    valid,      \* the refresh token the provider accepts, per session
    events,     \* how many of the bounded events happened
    lost,       \* sessions whose new refresh token never reached the store
    changedAt,  \* when standing last changed
    failedAt    \* when a re-check last could not be made

bookVars == <<events, lost, changedAt, failedAt>>
idpVars == <<reachable, standing, valid>>
vars == <<now, attempts, store, request, inflight, source, client, idpVars, bookVars>>

Never == -1     \* last_attempt_at is NULL; the history variables' start
Nobody == "nobody"

Row == [state : {"none", "live", "gone"}, created : Nat, checked : Nat,
        attempt : Nat \union {Never}, token : Nat, groups : Groups \union {Deactivated}]

\* Where a request is; from "refresh" on it runs a re-check of its session,
\* with the row it read at the start and the token it holds.
Checking == {"refresh", "grant", "userinfo"}
Request == [at : {"new", "joined", "done"} \union Checking, sid : Sids,
            groups : Groups \union {Deactivated}, token : Nat,
            answer : Groups \union {Deactivated, Nobody}]

TypeOK ==
    /\ now \in Nat
    /\ attempts \in [Sids -> [state : {"none", "pending", "exchanging", "used"}, created : Nat]]
    /\ store \in [Sids -> Row]
    /\ request \in [Requests -> Request]
    /\ inflight \in [Sids -> Requests \union {NoCheck}]
    /\ source \in {"custom", "managed", "none", "invalid"}
    /\ client \in BOOLEAN
    /\ reachable \in BOOLEAN
    /\ standing \in Groups \union {Deactivated}
    /\ valid \in [Sids -> Nat]
    /\ events \in Nat
    /\ lost \subseteq Sids
    /\ changedAt \in Nat \union {Never} /\ failedAt \in Nat \union {Never}

Init ==
    /\ now = 0
    /\ attempts = [s \in Sids |-> [state |-> "none", created |-> 0]]
    /\ store \in [Sids -> {[state |-> "none", created |-> 0, checked |-> 0,
                            attempt |-> Never, token |-> 0, groups |-> Deactivated]}]
    /\ request \in [Requests -> [at : {"new"}, sid : Sids, groups : {Deactivated},
                                 token : {0}, answer : {Nobody}]]
    /\ inflight = [s \in Sids |-> NoCheck]
    /\ source \in {"custom", "managed"}
    /\ client = TRUE
    /\ reachable = TRUE
    /\ standing \in Groups
    /\ valid = [s \in Sids |-> 0]
    /\ events = 0
    /\ lost = {}
    /\ changedAt = Never /\ failedAt = Never

-----------------------------------------------------------------------------
(* The store. *)

expired(row) == now >= row.created + SessionMaxAge

\* Mutant: after a failed attempt it is the interval, not the retry time,
\* that has to pass.
checkDue_Interval(row) ==
    /\ now - row.checked >= CheckInterval
    /\ row.attempt = Never \/ now - row.attempt >= CheckInterval

checkDue(row) ==
    /\ now - row.checked >= CheckInterval
    /\ row.attempt = Never \/ now - row.attempt >= CheckRetry

\* getSessionByHash: a row past its age is deleted on the spot.
getSession(row) ==
    IF row.state = "live" /\ expired(row) THEN [row EXCEPT !.state = "gone"] ELSE row

deleteSession(row) == IF row.state = "live" THEN [row EXCEPT !.state = "gone"] ELSE row

updateAfterCheck(row, token, groups) ==
    IF row.state = "live"
    THEN [row EXCEPT !.token = token, !.groups = groups, !.checked = now, !.attempt = Never]
    ELSE row

\* Mutant: the token the grant already returned is dropped.
markCheckAttempt_NoToken(row, token) ==
    IF row.state = "live" THEN [row EXCEPT !.attempt = now] ELSE row

\* token is the one to keep: the granted one, or the one read at the start.
markCheckAttempt(row, token) ==
    IF row.state = "live" THEN [row EXCEPT !.attempt = now, !.token = token] ELSE row

attemptExpired(a) == now >= a.created + AttemptMaxAge

\* An attempt past its age is as good as used.
purgeAttempt(a) ==
    IF a.state = "pending" /\ attemptExpired(a) THEN [a EXCEPT !.state = "used"] ELSE a

-----------------------------------------------------------------------------
(* Re-checks. *)

\* webLoginConfig, with the managed client c; source is not invalid.
webLoginConfigured(c) == source = "custom" \/ (source = "managed" /\ c)

\* refreshManagedWebLoginIfUsed, at the moment it returns: not done with
\* complete custom settings; the client is cleared when no guest qualifies and
\* kept as it was when Authentik cannot answer.  Behind an invalid environment
\* value the guest may be either.
refreshManagedWebLogin ==
    client' \in CASE source = "custom" -> {client}
                  [] source = "managed" -> {client \/ reachable}
                  [] source = "none" -> {FALSE}
                  [] source = "invalid" -> {FALSE, client \/ reachable}

\* The re-check of r ends: its row is written, it and everyone who joined it
\* get the same answer, and the entry in inflight is removed.
Settle(r, row, answer) ==
    LET s == request[r].sid
        answered == {r} \union {q \in Requests : request[q].at = "joined" /\ request[q].sid = s}
    IN  /\ store' = [store EXCEPT ![s] = row]
        /\ request' = [q \in Requests |-> IF q \in answered
                        THEN [request[q] EXCEPT !.at = "done", !.answer = answer]
                        ELSE request[q]]
        /\ inflight' = [inflight EXCEPT ![s] = NoCheck]

\* Mutant: answered with what was read before the wait.
IfStillThere_Unread(row, answer) == answer

\* Read again after the wait: a sign-out, or the age, may have ended it.
IfStillThere(row, answer) == IF getSession(row).state = "live" THEN answer ELSE Nobody

\* Mutant: every request asks the provider for itself.
Resolve_NotShared(r) ==
    LET s == request[r].sid
        row == getSession(store[s])
    IN  /\ request[r].at = "new"
        /\ store' = [store EXCEPT ![s] = row]
        /\ IF row.state = "live" /\ checkDue(row)
           THEN /\ request' = [request EXCEPT ![r].at = "refresh", ![r].token = row.token,
                                              ![r].groups = row.groups]
                /\ inflight' = [inflight EXCEPT ![s] = r]
           ELSE /\ request' = [request EXCEPT ![r].at = "done",
                    ![r].answer = IF row.state = "live" THEN row.groups ELSE Nobody]
                /\ UNCHANGED inflight
        /\ UNCHANGED <<now, attempts, source, client, idpVars, bookVars>>

\* resolveHash: answered from the row, or joins the re-check in flight, or
\* starts one.
Resolve(r) ==
    LET s == request[r].sid
        row == getSession(store[s])
    IN  /\ request[r].at = "new"
        /\ store' = [store EXCEPT ![s] = row]
        /\ \/ /\ row.state # "live" \/ ~checkDue(row)
              /\ request' = [request EXCEPT ![r].at = "done",
                    ![r].answer = IF row.state = "live" THEN row.groups ELSE Nobody]
              /\ UNCHANGED inflight
           \/ /\ row.state = "live" /\ checkDue(row) /\ inflight[s] # NoCheck
              /\ request' = [request EXCEPT ![r].at = "joined"]
              /\ UNCHANGED inflight
           \/ /\ row.state = "live" /\ checkDue(row) /\ inflight[s] = NoCheck
              /\ request' = [request EXCEPT ![r].at = "refresh", ![r].token = row.token,
                                            ![r].groups = row.groups]
              /\ inflight' = [inflight EXCEPT ![s] = r]
        /\ UNCHANGED <<now, attempts, source, client, idpVars, bookVars>>

\* recheck up to the provider call: the client is refreshed, then the
\* settings read.  Invalid ones keep the identity and try again later; with
\* none the session is ended.
ReadConfig(r) ==
    LET row == store[request[r].sid]
    IN  /\ request[r].at = "refresh"
        /\ refreshManagedWebLogin
        /\ \/ /\ source = "invalid"
              /\ Settle(r, markCheckAttempt(row, row.token), request[r].groups)
              /\ failedAt' = now
           \/ /\ source # "invalid" /\ ~webLoginConfigured(client')
              /\ Settle(r, deleteSession(row), Nobody)
              /\ UNCHANGED failedAt
           \/ /\ source # "invalid" /\ webLoginConfigured(client')
              /\ request' = [request EXCEPT ![r].at = "grant"]
              /\ UNCHANGED <<store, inflight, failedAt>>
        /\ UNCHANGED <<now, attempts, source, idpVars, events, lost, changedAt>>

\* The provider's side of the refresh grant.
Accepts(r) == reachable /\ standing # Deactivated /\ request[r].token = valid[request[r].sid]
Rotated(s) == valid' = [valid EXCEPT ![s] = @ + 1]

\* refreshTokenGrant answers with a new token; the presented one is spent.
Grant(r) ==
    /\ request[r].at = "grant"
    /\ Accepts(r)
    /\ Rotated(request[r].sid)
    /\ request' = [request EXCEPT ![r].at = "userinfo", ![r].token = @ + 1]
    /\ UNCHANGED <<now, attempts, store, inflight, source, client, reachable, standing, bookVars>>

\* The provider could not be reached, or its answer was lost on the way back
\* (the token is then spent all the same).
GrantFails(r) ==
    LET s == request[r].sid
        kept == markCheckAttempt(store[s], store[s].token)
    IN  /\ request[r].at = "grant"
        /\ \/ ~reachable /\ UNCHANGED <<valid, lost>>
           \/ Accepts(r) /\ Rotated(s) /\ lost' = lost \union {s}
        /\ Settle(r, getSession(kept), IfStillThere(kept, request[r].groups))
        /\ failedAt' = now
        /\ UNCHANGED <<now, attempts, source, client, reachable, standing, events, changedAt>>

\* invalid_grant, or a 401 from userinfo: the session is ended.
Refused(r) ==
    /\ reachable
    /\ \/ request[r].at = "grant" /\ ~Accepts(r)
       \/ request[r].at = "userinfo" /\ standing = Deactivated
    /\ Settle(r, deleteSession(store[request[r].sid]), Nobody)
    /\ UNCHANGED <<now, attempts, source, client, idpVars, bookVars>>

UserInfo(r) ==
    LET row == updateAfterCheck(store[request[r].sid], request[r].token, standing)
    IN  /\ request[r].at = "userinfo"
        /\ reachable /\ standing # Deactivated
        /\ Settle(r, getSession(row), IfStillThere(row, standing))
        /\ UNCHANGED <<now, attempts, source, client, idpVars, bookVars>>

\* userinfo could not be reached: the granted token is kept.
UserInfoFails(r) ==
    LET row == markCheckAttempt(store[request[r].sid], request[r].token)
    IN  /\ request[r].at = "userinfo"
        /\ ~reachable
        /\ Settle(r, getSession(row), IfStillThere(row, request[r].groups))
        /\ failedAt' = now
        /\ UNCHANGED <<now, attempts, source, client, idpVars, events, lost, changedAt>>

-----------------------------------------------------------------------------
(* Signing in and out. *)

\* GET /auth/login: discovery succeeded, or was cached, and the attempt is
\* stored; expired ones go first.
BeginSignIn(s) ==
    /\ attempts[s].state = "none"
    /\ refreshManagedWebLogin
    /\ source # "invalid" /\ webLoginConfigured(client')
    /\ attempts' = [q \in Sids |-> IF q = s THEN [state |-> "pending", created |-> now]
                                   ELSE purgeAttempt(attempts[q])]
    /\ UNCHANGED <<now, store, request, inflight, source, idpVars, bookVars>>

\* GET /auth/callback: the attempt is consumed first, whatever comes next.
Callback(s) ==
    /\ attempts[s].state = "pending"
    /\ attempts' = [attempts EXCEPT ![s].state =
                        IF attemptExpired(attempts[s]) THEN "used" ELSE "exchanging"]
    /\ UNCHANGED <<now, store, request, inflight, source, client, idpVars, bookVars>>

\* The exchange succeeded.  The session this browser was signed in with, p
\* (or none: p = s), is ended, and one for the new identity stored.
SignedIn(s, p) ==
    /\ attempts[s].state = "exchanging"
    /\ refreshManagedWebLogin
    /\ source # "invalid" /\ webLoginConfigured(client')
    /\ reachable /\ standing # Deactivated
    /\ attempts' = [q \in Sids |-> IF q = s THEN [attempts[s] EXCEPT !.state = "used"]
                                   ELSE purgeAttempt(attempts[q])]
    /\ store' = [q \in Sids |->
                    CASE q = s -> [state |-> "live", created |-> now, checked |-> now,
                                   attempt |-> Never, token |-> valid[s], groups |-> standing]
                      [] q # s /\ (q = p \/ expired(store[q])) -> deleteSession(store[q])
                      [] OTHER -> store[q]]
    /\ UNCHANGED <<now, request, inflight, source, idpVars, bookVars>>

\* The exchange failed, for whatever reason.
SignInFails(s) ==
    /\ attempts[s].state = "exchanging"
    /\ refreshManagedWebLogin
    /\ attempts' = [attempts EXCEPT ![s].state = "used"]
    /\ UNCHANGED <<now, store, request, inflight, source, idpVars, bookVars>>

\* POST /auth/logout.
SignOut(s) ==
    /\ store[s].state = "live"
    /\ store' = [store EXCEPT ![s] = deleteSession(@)]
    /\ UNCHANGED <<now, attempts, request, inflight, source, client, idpVars, bookVars>>

-----------------------------------------------------------------------------
(* The surroundings. *)

Tick ==
    /\ now < MaxTime
    /\ now' = now + 1
    /\ UNCHANGED <<attempts, store, request, inflight, source, client, idpVars, bookVars>>

Event == events < MaxEvents /\ events' = events + 1

\* The process dies and a new one takes over: rows survive, re-checks and the
\* resolved client do not, and an environment value may have become invalid,
\* or been put right.
Restart ==
    /\ Event
    /\ source' \in IF source = "invalid" THEN {"custom", "managed", "invalid"}
                                         ELSE {source, "invalid"}
    /\ client' = FALSE
    /\ request' = [r \in Requests |-> IF request[r].at = "new" THEN request[r]
                                      ELSE [request[r] EXCEPT !.at = "done"]]
    /\ inflight' = [s \in Sids |-> NoCheck]
    /\ lost' = lost \union {request[r].sid : r \in {q \in Requests : request[q].at = "userinfo"}}
    /\ attempts' = [s \in Sids |-> IF attempts[s].state = "exchanging"
                                   THEN [attempts[s] EXCEPT !.state = "used"]
                                   ELSE purgeAttempt(attempts[s])]
    /\ store' = [s \in Sids |-> getSession(store[s])]
    /\ UNCHANGED <<now, idpVars, changedAt, failedAt>>

\* A refresh that no session waits for: by the settings routes, by a sign-in
\* that could not start, or the one at boot, made with custom settings too.
RefreshClient ==
    /\ refreshManagedWebLogin \/ (source = "custom" /\ client' \in {FALSE, client \/ reachable})
    /\ UNCHANGED <<now, attempts, store, request, inflight, source, idpVars, bookVars>>

\* Settings or the flagged guest change while the service runs; an invalid
\* environment value outranks them until the next start.
ChangeSettings ==
    /\ Event
    /\ source # "invalid"
    /\ source' \in {"custom", "managed", "none"} \ {source}
    /\ UNCHANGED <<now, attempts, store, request, inflight, client, idpVars, lost, changedAt, failedAt>>

ProviderOutage ==
    /\ reachable' = ~reachable
    /\ IF reachable THEN Event ELSE UNCHANGED events
    /\ UNCHANGED <<now, attempts, store, request, inflight, source, client, standing, valid, lost, changedAt, failedAt>>

ChangeStanding ==
    /\ Event
    /\ standing' \in (Groups \union {Deactivated}) \ {standing}
    /\ changedAt' = now
    /\ UNCHANGED <<now, attempts, store, request, inflight, source, client, reachable, valid, lost, failedAt>>

Check(r) ==
    ReadConfig(r) \/ Grant(r) \/ GrantFails(r) \/ Refused(r) \/ UserInfo(r) \/ UserInfoFails(r)

Next ==
    \/ \E r \in Requests : Resolve(r) \/ Check(r)
    \/ \E s \in Sids : BeginSignIn(s) \/ Callback(s) \/ SignInFails(s) \/ SignOut(s)
    \/ \E s, p \in Sids : SignedIn(s, p)
    \/ Tick \/ Restart \/ RefreshClient \/ ChangeSettings \/ ProviderOutage \/ ChangeStanding

Spec == Init /\ [][Next]_vars

-----------------------------------------------------------------------------
(* Properties. *)

\* The provider replaces the refresh token on every use, so presenting a
\* spent one would sign the user out.  Bellhop always holds the current one:
\* in the row, or in the one re-check that has just been granted it -- unless
\* the provider's answer, or the process holding it, was lost.
TokenIsCurrent ==
    \A s \in Sids \ lost : store[s].state = "live" =>
        \/ store[s].token = valid[s]
        \/ \E r \in Requests :
            request[r].at = "userinfo" /\ request[r].sid = s /\ request[r].token = valid[s]

\* A request is given its answer in this step, and it is an identity.
Identified(r) == request[r].at # "done" /\ request'[r].at = "done" /\ request'[r].answer # Nobody

\* A change the provider knows of lands: an answer with anything but the
\* user's present groups comes less than CHECK_INTERVAL after the change, or
\* less than CHECK_RETRY after a re-check that could not be made.
ChangeLands ==
    [][\A r \in Requests : Identified(r) /\ request'[r].answer # standing =>
        \/ changedAt # Never /\ now - changedAt < CheckInterval
        \/ failedAt' # Never /\ now - failedAt' < CheckRetry]_vars

\* A sign-out (or the end of the session's 30 days) that lands while the
\* provider is asked is not answered with the identity it ended ("must not be
\* answered with the stale identity").  Not so with invalid settings: that
\* branch of recheck does not read the row again.
AnsweredWhileSignedIn ==
    [][\A r \in Requests : Identified(r) /\ source # "invalid" =>
        store'[request[r].sid].state = "live"]_vars

\* A re-check ends a session for a reason: the user is deactivated, nothing
\* is configured any more, or its refresh token was lost.
EndedForCause ==
    [][\A r \in Requests :
        LET s == request[r].sid
        IN  (request[r].at \in Checking /\ store[s].state = "live" /\ store'[s].state = "gone"
                /\ request'[r].at = "done" /\ inflight[s] = r)
            => standing = Deactivated \/ s \in lost \/ ~webLoginConfigured(client') \/ expired(store[s])]_vars

============================================================================
