------------------------- MODULE WebSessionsProofs -------------------------
(***************************************************************************)
(* Proofs about WebSessions, for any number of sessions and requests, any  *)
(* group lists and any ages and intervals.                                 *)
(***************************************************************************)
EXTENDS WebSessions, TLAPS

-----------------------------------------------------------------------------
(* Types. *)

\* The updates of a session row yield a row again.
LEMMA RowType ==
    ASSUME TypeOK, NEW row \in Row, NEW token \in Nat, NEW groups \in Groups \union {Deactivated}
    PROVE  /\ getSession(row) \in Row /\ deleteSession(row) \in Row
           /\ updateAfterCheck(row, token, groups) \in Row
           /\ markCheckAttempt(row, token) \in Row
BY DEF TypeOK, Row, getSession, deleteSession, updateAfterCheck, markCheckAttempt

\* The answer after a wait is an answer.
LEMMA AnswerType ==
    ASSUME NEW row, NEW answer \in Groups \union {Deactivated, Nobody}
    PROVE  IfStillThere(row, answer) \in Groups \union {Deactivated, Nobody}
BY DEF IfStillThere

\* The end of a re-check keeps rows, requests and inflight in their types.
LEMMA SettleType ==
    ASSUME TypeOK, NEW r \in Requests, NEW row \in Row,
           NEW answer \in Groups \union {Deactivated, Nobody}, Settle(r, row, answer)
    PROVE  /\ store' \in [Sids -> Row] /\ request' \in [Requests -> Request]
           /\ inflight' \in [Sids -> Requests \union {NoCheck}]
<1>1. \A q \in Requests : [request[q] EXCEPT !.at = "done", !.answer = answer] \in Request
  BY DEF TypeOK, Request
<1>2. request' \in [Requests -> Request]
  BY <1>1 DEF TypeOK, Settle
<1>. QED  BY <1>2 DEF TypeOK, Settle

\* Refreshing the managed client leaves a client or none.
LEMMA ClientType == ASSUME TypeOK, refreshManagedWebLogin PROVE client' \in BOOLEAN
BY DEF TypeOK, refreshManagedWebLogin

\* A purged attempt is an attempt.
LEMMA PurgeType ==
    ASSUME NEW a \in [state : {"none", "pending", "exchanging", "used"}, created : Nat]
    PROVE  purgeAttempt(a) \in [state : {"none", "pending", "exchanging", "used"}, created : Nat]
BY DEF purgeAttempt

\* Every step keeps every variable in its type.
LEMMA TypeStep == TypeOK /\ [Next]_vars => TypeOK'
<1>. SUFFICES ASSUME TypeOK, [Next]_vars PROVE TypeOK'
  OBVIOUS
<1>1. CASE UNCHANGED vars
  BY <1>1 DEF TypeOK, vars, idpVars, bookVars
<1>2. ASSUME NEW r \in Requests, Resolve(r) PROVE TypeOK'
  <2>. DEFINE s == request[r].sid
              row == getSession(store[s])
  <2>1. s \in Sids /\ store[s] \in Row /\ row \in Row
    <3>1. s \in Sids /\ store[s] \in Row /\ 0 \in Nat
      BY DEF TypeOK, Request
    <3>. QED  BY <3>1, RowType DEF TypeOK
  <2>2. row.groups \in Groups \union {Deactivated} /\ row.token \in Nat
    BY <2>1 DEF Row
  <2>3. store' = [store EXCEPT ![s] = row]
    BY <1>2 DEF Resolve
  <2>4. store' \in [Sids -> Row]
    BY <2>1, <2>3 DEF TypeOK
  <2>5. request' \in [Requests -> Request] /\ inflight' \in [Sids -> Requests \union {NoCheck}]
    <3>1. CASE /\ request' = [request EXCEPT ![r].at = "done",
                    ![r].answer = IF row.state = "live" THEN row.groups ELSE Nobody]
               /\ UNCHANGED inflight
      <4>. DEFINE answer == IF row.state = "live" THEN row.groups ELSE Nobody
      <4>1. answer \in Groups \union {Deactivated, Nobody}
        BY <2>2
      <4>2. [request[r] EXCEPT !.at = "done", !.answer = answer] \in Request
        <5>. HIDE DEF answer
        <5>. QED  BY <4>1 DEF TypeOK, Request
      <4>3. request' = [request EXCEPT ![r] = [request[r] EXCEPT !.at = "done", !.answer = answer]]
        BY <3>1 DEF TypeOK, Request
      <4>. HIDE DEF answer
      <4>. QED  BY <3>1, <4>2, <4>3 DEF TypeOK
    <3>2. CASE request' = [request EXCEPT ![r].at = "joined"] /\ UNCHANGED inflight
      BY <3>2 DEF TypeOK, Request
    <3>3. CASE /\ request' = [request EXCEPT ![r].at = "refresh", ![r].token = row.token,
                                             ![r].groups = row.groups]
               /\ inflight' = [inflight EXCEPT ![s] = r]
      <4>1. [request[r] EXCEPT !.at = "refresh", !.token = row.token, !.groups = row.groups]
                \in Request
        <5>. HIDE DEF row
        <5>. QED  BY <2>2 DEF TypeOK, Request, Checking
      <4>2. request' = [request EXCEPT ![r] = [request[r] EXCEPT !.at = "refresh",
                            !.token = row.token, !.groups = row.groups]]
        <5>. HIDE DEF row
        <5>. QED  BY <3>3 DEF TypeOK, Request
      <4>. HIDE DEF row
      <4>. QED  BY <2>1, <3>3, <4>1, <4>2 DEF TypeOK
    <3>. QED  BY <1>2, <3>1, <3>2, <3>3 DEF Resolve
  <2>. QED  BY <1>2, <2>4, <2>5 DEF Resolve, TypeOK, idpVars, bookVars
<1>3. ASSUME NEW r \in Requests, Check(r) PROVE TypeOK'
  <2>. DEFINE s == request[r].sid
  <2>1. /\ s \in Sids /\ store[s] \in Row /\ store[s].token \in Nat /\ request[r].token \in Nat
        /\ request[r].groups \in Groups \union {Deactivated}
    BY DEF TypeOK, Request, Row
  <2>2. CASE ReadConfig(r)
    <3>1. client' \in BOOLEAN
      BY <2>2, ClientType DEF ReadConfig
    <3>2. CASE source = "invalid" /\ Settle(r, markCheckAttempt(store[s], store[s].token), request[r].groups)
               /\ failedAt' = now
      BY <2>1, <2>2, <3>1, <3>2, RowType, SettleType DEF ReadConfig, TypeOK, idpVars
    <3>3. CASE Settle(r, deleteSession(store[s]), Nobody) /\ UNCHANGED failedAt
      BY <2>1, <2>2, <3>1, <3>3, RowType, SettleType DEF ReadConfig, TypeOK, idpVars
    <3>4. CASE request' = [request EXCEPT ![r].at = "grant"] /\ UNCHANGED <<store, inflight, failedAt>>
      BY <2>2, <3>1, <3>4, ZenonT(60) DEF ReadConfig, TypeOK, Request, Checking, idpVars
    <3>. QED  BY <2>2, <3>2, <3>3, <3>4 DEF ReadConfig
  <2>3. CASE Grant(r)
    <3>1. valid' \in [Sids -> Nat]
      BY <2>1, <2>3 DEF Grant, Rotated, TypeOK
    <3>2. request' \in [Requests -> Request]
      BY <2>1, <2>3 DEF Grant, TypeOK, Request, Checking
    <3>. QED  BY <2>3, <3>1, <3>2 DEF Grant, TypeOK, bookVars
  <2>4. CASE GrantFails(r)
    <3>1. valid' \in [Sids -> Nat] /\ lost' \subseteq Sids
      BY <2>1, <2>4 DEF GrantFails, Rotated, TypeOK
    <3>2. markCheckAttempt(store[s], store[s].token) \in Row
      BY <2>1, RowType
    <3>3. getSession(markCheckAttempt(store[s], store[s].token)) \in Row
      BY <2>1, <3>2, RowType
    <3>4. /\ store' \in [Sids -> Row] /\ request' \in [Requests -> Request]
          /\ inflight' \in [Sids -> Requests \union {NoCheck}]
      BY <2>1, <2>4, <3>3, AnswerType, SettleType DEF GrantFails
    <3>. QED  BY <2>4, <3>1, <3>4 DEF GrantFails, TypeOK
  <2>5. CASE Refused(r)
    <3>1. /\ store' \in [Sids -> Row] /\ request' \in [Requests -> Request]
          /\ inflight' \in [Sids -> Requests \union {NoCheck}]
      BY <2>1, <2>5, RowType, SettleType DEF Refused
    <3>. QED  BY <2>5, <3>1 DEF Refused, TypeOK, idpVars, bookVars
  <2>6. CASE UserInfo(r)
    <3>1. updateAfterCheck(store[s], request[r].token, standing) \in Row
      BY <2>1, RowType DEF TypeOK
    <3>2. getSession(updateAfterCheck(store[s], request[r].token, standing)) \in Row
      BY <2>1, <3>1, RowType
    <3>3. /\ store' \in [Sids -> Row] /\ request' \in [Requests -> Request]
          /\ inflight' \in [Sids -> Requests \union {NoCheck}]
      BY <2>1, <2>6, <3>2, AnswerType, SettleType DEF UserInfo, TypeOK
    <3>. QED  BY <2>6, <3>3 DEF UserInfo, TypeOK, idpVars, bookVars
  <2>7. CASE UserInfoFails(r)
    <3>1. markCheckAttempt(store[s], request[r].token) \in Row
      BY <2>1, RowType
    <3>2. getSession(markCheckAttempt(store[s], request[r].token)) \in Row
      BY <2>1, <3>1, RowType
    <3>3. /\ store' \in [Sids -> Row] /\ request' \in [Requests -> Request]
          /\ inflight' \in [Sids -> Requests \union {NoCheck}]
      BY <2>1, <2>7, <3>2, AnswerType, SettleType DEF UserInfoFails
    <3>. QED  BY <2>7, <3>3 DEF UserInfoFails, TypeOK, idpVars
  <2>. QED  BY <1>3, <2>2, <2>3, <2>4, <2>5, <2>6, <2>7 DEF Check
<1>4. ASSUME NEW s \in Sids, BeginSignIn(s) \/ Callback(s) \/ SignInFails(s) PROVE TypeOK'
  <2>1. CASE BeginSignIn(s)
    <3>1. client' \in BOOLEAN
      BY <2>1, ClientType DEF BeginSignIn
    <3>. QED  BY <2>1, <3>1, PurgeType DEF BeginSignIn, TypeOK, idpVars, bookVars
  <2>2. CASE Callback(s)
    BY <2>2 DEF Callback, TypeOK, idpVars, bookVars
  <2>3. CASE SignInFails(s)
    <3>1. client' \in BOOLEAN
      BY <2>3, ClientType DEF SignInFails
    <3>. QED  BY <2>3, <3>1 DEF SignInFails, TypeOK, idpVars, bookVars
  <2>. QED  BY <1>4, <2>1, <2>2, <2>3
<1>5. ASSUME NEW s \in Sids, SignOut(s) PROVE TypeOK'
  <2>1. store[s] \in Row /\ deleteSession(store[s]) \in Row
    BY RowType DEF TypeOK, Row
  <2>. QED  BY <1>5, <2>1 DEF SignOut, TypeOK, idpVars, bookVars
<1>6. ASSUME NEW s \in Sids, NEW p \in Sids, SignedIn(s, p) PROVE TypeOK'
  <2>1. client' \in BOOLEAN
    BY <1>6, ClientType DEF SignedIn
  <2>2. \A q \in Sids : store[q] \in Row /\ deleteSession(store[q]) \in Row
    BY RowType DEF TypeOK, Row
  <2>3. [state |-> "live", created |-> now, checked |-> now,
         attempt |-> Never, token |-> valid[s], groups |-> standing] \in Row
    BY DEF TypeOK, Row
  <2>4. store' \in [Sids -> Row]
    BY <1>6, <2>2, <2>3 DEF SignedIn
  <2>5. attempts' \in [Sids -> [state : {"none", "pending", "exchanging", "used"}, created : Nat]]
    BY <1>6, PurgeType DEF SignedIn, TypeOK
  <2>. QED  BY <1>6, <2>1, <2>4, <2>5 DEF SignedIn, TypeOK, idpVars, bookVars
<1>7. CASE Restart
  <2>1. \A q \in Sids : getSession(store[q]) \in Row
    BY RowType DEF TypeOK, Row
  <2>2. store' \in [Sids -> Row]
    BY <1>7, <2>1 DEF Restart
  <2>3. request' \in [Requests -> Request]
    BY <1>7, ZenonT(60) DEF Restart, TypeOK, Request
  <2>4. attempts' \in [Sids -> [state : {"none", "pending", "exchanging", "used"}, created : Nat]]
    BY <1>7, PurgeType DEF Restart, TypeOK
  <2>5. lost' \subseteq Sids
    BY <1>7 DEF Restart, TypeOK, Request
  <2>6. source' \in {"custom", "managed", "none", "invalid"} /\ events' \in Nat
    BY <1>7 DEF Restart, Event, TypeOK
  <2>7. client' \in BOOLEAN /\ reachable' \in BOOLEAN
    BY <1>7 DEF Restart, TypeOK, idpVars
  <2>. QED  BY <1>7, <2>2, <2>3, <2>4, <2>5, <2>6, <2>7 DEF Restart, TypeOK, idpVars
<1>8. CASE RefreshClient
  <2>1. client' \in BOOLEAN
    BY <1>8, ClientType DEF RefreshClient, TypeOK
  <2>. QED  BY <1>8, <2>1 DEF RefreshClient, TypeOK, idpVars, bookVars
<1>9. CASE Tick \/ ChangeSettings \/ ProviderOutage \/ ChangeStanding
  <2>1. client' \in BOOLEAN
    BY <1>9 DEF Tick, ChangeSettings, ProviderOutage, ChangeStanding, TypeOK
  <2>2. reachable' \in BOOLEAN
    BY <1>9 DEF Tick, ChangeSettings, ProviderOutage, ChangeStanding, TypeOK, idpVars
  <2>3. events' \in Nat /\ now' \in Nat
    BY <1>9 DEF Tick, ChangeSettings, ProviderOutage, ChangeStanding, Event, TypeOK, bookVars
  <2>4. /\ source' \in {"custom", "managed", "none", "invalid"}
        /\ standing' \in Groups \union {Deactivated}
        /\ changedAt' \in Nat \union {Never} /\ failedAt' \in Nat \union {Never}
    BY <1>9 DEF Tick, ChangeSettings, ProviderOutage, ChangeStanding, TypeOK, idpVars, bookVars
  <2>5. UNCHANGED <<attempts, store, request, inflight, valid, lost>>
    BY <1>9 DEF Tick, ChangeSettings, ProviderOutage, ChangeStanding, idpVars, bookVars
  <2>. QED  BY <2>1, <2>2, <2>3, <2>4, <2>5 DEF TypeOK
<1>. QED  BY <1>1, <1>2, <1>3, <1>4, <1>5, <1>6, <1>7, <1>8, <1>9 DEF Next

-----------------------------------------------------------------------------
(* The inductive invariant. *)

\* A session has a row once its sign-in was used up, so a row is made once.
RowAfterSignIn == \A s \in Sids : store[s].state # "none" => attempts[s].state = "used"

\* inflight names the one re-check of each session, of a session with a row.
OneCheck ==
    /\ \A r \in Requests : request[r].at \in Checking =>
            inflight[request[r].sid] = r /\ store[request[r].sid].state # "none"
    /\ \A s \in Sids : inflight[s] # NoCheck =>
            request[inflight[s]].sid = s /\ request[inflight[s]].at \in Checking

\* The re-check under way holds the token the provider accepts.
CheckHoldsToken ==
    \A r \in Requests : request[r].at \in Checking /\ request[r].sid \notin lost =>
        request[r].token = valid[request[r].sid]

\* Nobody is answered before the end.
Unanswered == \A r \in Requests : request[r].at # "done" => request[r].answer = Nobody

\* Groups that differ from the provider's were overtaken by a change, and an
\* attempt that was noted was one that failed.
RowsAreDated ==
    /\ failedAt <= now
    /\ \A s \in Sids : store[s].state = "live" =>
         /\ store[s].groups # standing => changedAt # Never /\ store[s].checked <= changedAt
         /\ store[s].attempt # Never => failedAt # Never /\ store[s].attempt <= failedAt
         /\ store[s].checked <= now

IInv ==
    /\ TypeOK /\ RowAfterSignIn /\ OneCheck /\ CheckHoldsToken /\ TokenIsCurrent
    /\ Unanswered /\ RowsAreDated

\* A row the end of a re-check may write: it has the token the provider
\* accepts, its groups are the present ones or older than the last change,
\* and its attempt is not younger than the last failure.
Writable(row, s) ==
    /\ row \in Row /\ row.state # "none"
    /\ row.state = "live" =>
        /\ s \notin lost' => row.token = valid'[s]
        /\ row.groups # standing => changedAt # Never /\ row.checked <= changedAt
        /\ row.attempt # Never => failedAt' # Never /\ row.attempt <= failedAt'
        /\ row.checked <= now

\* The end of a re-check keeps the invariant.
LEMMA SettleKeeps ==
    ASSUME IInv, TypeOK', NEW r \in Requests, NEW row, NEW answer, Settle(r, row, answer),
           request[r].at \in Checking, Writable(row, request[r].sid),
           UNCHANGED <<now, attempts, standing, changedAt>>, lost \subseteq lost',
           \A q \in Sids \ {request[r].sid} : valid'[q] = valid[q],
           failedAt' \in {now, failedAt}
    PROVE  IInv'
<1>. DEFINE s == request[r].sid
<1>0. s \in Sids /\ inflight[s] = r /\ r # NoCheck /\ store[s].state # "none"
  BY NamesAssumption DEF IInv, TypeOK, Request, OneCheck
<1>1. /\ store' = [store EXCEPT ![s] = row]
      /\ inflight' = [inflight EXCEPT ![s] = NoCheck]
  BY DEF Settle
<1>a. \A q \in Requests : request'[q] =
            IF q = r \/ (request[q].at = "joined" /\ request[q].sid = s)
            THEN [request[q] EXCEPT !.at = "done", !.answer = answer] ELSE request[q]
  BY DEF Settle
<1>b. \A q \in Requests :
            LET done == [request[q] EXCEPT !.at = "done", !.answer = answer]
            IN done.at = "done" /\ done.sid = request[q].sid /\ done.token = request[q].token
  BY DEF IInv, TypeOK, Request
<1>2. \A q \in Requests : /\ request'[q].sid = request[q].sid /\ request'[q].token = request[q].token
                          /\ request'[q] = request[q] \/ request'[q].at = "done"
                          /\ request[q].at \in Checking \ {"done"} /\ q # r => request'[q] = request[q]
  BY <1>a, <1>b, ZenonT(60) DEF Checking
<1>3. request'[r].at = "done"
  BY <1>a, <1>b
<1>4. \A q \in Requests : q # r /\ request[q].at \in Checking => request[q].sid # s
  BY <1>0 DEF IInv, OneCheck
<1>5. \A q \in Requests : request'[q].at \in Checking =>
            q # r /\ request'[q] = request[q] /\ request[q].at \in Checking /\ request[q].sid \in Sids \ {s}
  BY <1>2, <1>3, <1>4 DEF Checking, IInv, TypeOK, Request
<1>6. \A q \in Sids \ {s} : store'[q] = store[q] /\ inflight'[q] = inflight[q]
  BY <1>1 DEF IInv, TypeOK
<1>7. store'[s] = row /\ inflight'[s] = NoCheck
  BY <1>0, <1>1 DEF IInv, TypeOK
<1>8. RowAfterSignIn'
  BY <1>0, <1>6, <1>7 DEF IInv, RowAfterSignIn
<1>9. OneCheck'
  <2>1. ASSUME NEW q \in Requests, request'[q].at \in Checking
        PROVE  inflight'[request'[q].sid] = q /\ store'[request'[q].sid].state # "none"
    BY <1>5, <1>6, <2>1 DEF IInv, OneCheck
  <2>2. ASSUME NEW q \in Sids, inflight'[q] # NoCheck
        PROVE  request'[inflight'[q]].sid = q /\ request'[inflight'[q]].at \in Checking
    <3>1. q # s /\ inflight'[q] = inflight[q]
      BY <1>6, <1>7, <2>2
    <3>2. inflight[q] \in Requests /\ inflight[q] # r
      BY <1>0, <2>2, <3>1 DEF IInv, TypeOK, OneCheck
    <3>3. request[inflight[q]].at \in Checking \ {"done"} /\ request[inflight[q]].sid = q
      BY <2>2, <3>1 DEF IInv, OneCheck, Checking
    <3>. QED  BY <1>2, <3>1, <3>2, <3>3
  <2>. QED  BY <2>1, <2>2 DEF OneCheck
<1>10. CheckHoldsToken'
  BY <1>5 DEF IInv, CheckHoldsToken
<1>11. TokenIsCurrent'
  <2>1. ASSUME NEW q \in Sids \ lost', store'[q].state = "live"
        PROVE  \/ store'[q].token = valid'[q]
               \/ \E p \in Requests :
                    request'[p].at = "userinfo" /\ request'[p].sid = q /\ request'[p].token = valid'[q]
    <3>1. CASE q = s
      BY <1>7, <2>1, <3>1 DEF Writable
    <3>2. CASE q # s
      <4>1. store'[q] = store[q] /\ valid'[q] = valid[q] /\ q \notin lost
        BY <1>6, <2>1, <3>2
      <4>2. \/ store[q].token = valid[q]
            \/ \E p \in Requests :
                 request[p].at = "userinfo" /\ request[p].sid = q /\ request[p].token = valid[q]
        BY <2>1, <4>1 DEF IInv, TokenIsCurrent
      <4>3. ASSUME NEW p \in Requests, request[p].at = "userinfo", request[p].sid = q
            PROVE  request'[p] = request[p]
        BY <1>2, <3>2, <4>3 DEF Checking
      <4>. QED  BY <4>1, <4>2, <4>3
    <3>. QED  BY <3>1, <3>2
  <2>. QED  BY <2>1 DEF TokenIsCurrent
<1>12. Unanswered'
  BY <1>2 DEF IInv, Unanswered
<1>13. RowsAreDated'
  <2>1. failedAt' <= now'
    BY DEF IInv, RowsAreDated, TypeOK, Never
  <2>2. ASSUME NEW q \in Sids, store'[q].state = "live"
        PROVE  /\ store'[q].groups # standing' => changedAt' # Never /\ store'[q].checked <= changedAt'
               /\ store'[q].attempt # Never => failedAt' # Never /\ store'[q].attempt <= failedAt'
               /\ store'[q].checked <= now'
    <3>1. CASE q = s
      BY <1>7, <2>2, <3>1 DEF Writable
    <3>2. CASE q # s
      <4>1. store'[q] = store[q] /\ store[q].attempt \in Nat \union {Never}
        BY <1>6, <3>2 DEF IInv, TypeOK, Row
      <4>. QED  BY <2>2, <4>1 DEF IInv, RowsAreDated, TypeOK, Never
    <3>. QED  BY <3>1, <3>2
  <2>. QED  BY <2>1, <2>2 DEF RowsAreDated
<1>. QED  BY <1>8, <1>9, <1>10, <1>11, <1>12, <1>13 DEF IInv

\* A row that may be written may still be once its age has ended it.
LEMMA WritableAged ==
    ASSUME NEW s \in Sids, NEW row, Writable(row, s)
    PROVE  Writable(getSession(row), s)
<1>1. CASE row.state = "live" /\ expired(row)
  BY <1>1 DEF Writable, getSession, Row
<1>. QED  BY <1>1 DEF getSession

\* Every way a re-check may end writes a row that may be written.
LEMMA WritableRows ==
    ASSUME IInv, NEW s \in Sids, store[s].state # "none", UNCHANGED <<now, standing, changedAt>>,
           NEW token \in Nat
    PROVE  /\ Writable(deleteSession(store[s]), s)
           /\ failedAt' = now /\ (store[s].state = "live" /\ s \notin lost' => token = valid'[s])
                => Writable(markCheckAttempt(store[s], token), s)
           /\ (s \notin lost' => token = valid'[s])
                => Writable(updateAfterCheck(store[s], token, standing), s)
<1>. DEFINE row == store[s]
<1>1. /\ row \in [state : {"none", "live", "gone"}, created : Nat, checked : Nat,
                   attempt : Nat \union {Never}, token : Nat, groups : Groups \union {Deactivated}]
      /\ row.state # "none" /\ now \in Nat
      /\ row.state = "live" => RowsAreDated!2!(s)!2
  BY DEF IInv, TypeOK, Row, RowsAreDated
<1>2. /\ deleteSession(row) \in Row /\ markCheckAttempt(row, token) \in Row
      /\ updateAfterCheck(row, token, standing) \in Row
  BY <1>1, RowType DEF IInv, TypeOK, Row
<1>. HIDE DEF row
<1>3. Writable(deleteSession(row), s)
  BY <1>1, <1>2 DEF Writable, deleteSession
<1>4. ASSUME failedAt' = now, row.state = "live" /\ s \notin lost' => token = valid'[s]
      PROVE  Writable(markCheckAttempt(row, token), s)
  BY <1>1, <1>2, <1>4 DEF Writable, markCheckAttempt, Never, row
<1>5. ASSUME s \notin lost' => token = valid'[s]
      PROVE  Writable(updateAfterCheck(row, token, standing), s)
  BY <1>1, <1>2, <1>5 DEF Writable, updateAfterCheck, Never
<1>. QED  BY <1>3, <1>4, <1>5 DEF row

\* A re-check that goes on, with the token the provider accepts, keeps the
\* invariant.
LEMMA CheckMoves ==
    ASSUME IInv, TypeOK', NEW r \in Requests, request[r].at \in Checking, request'[r].at \in Checking,
           request'[r].sid = request[r].sid, request'[r].answer = request[r].answer,
           \A q \in Requests \ {r} : request'[q] = request[q],
           UNCHANGED <<now, attempts, store, inflight, standing, lost, changedAt, failedAt>>,
           \A q \in Sids \ {request[r].sid} : valid'[q] = valid[q],
           request[r].sid \notin lost => request'[r].token = valid'[request[r].sid],
           \/ request'[r].at = "userinfo"
           \/ request[r].at # "userinfo" /\ valid' = valid
    PROVE  IInv'
<1>1. RowAfterSignIn' /\ RowsAreDated'
  BY DEF IInv, RowAfterSignIn, RowsAreDated
<1>2. OneCheck'
  BY DEF IInv, OneCheck, TypeOK
<1>3. CheckHoldsToken'
  BY DEF IInv, OneCheck, CheckHoldsToken, TypeOK, Request
<1>4. Unanswered'
  BY DEF IInv, Unanswered, Checking
<1>5. TokenIsCurrent'
  <2>1. ASSUME NEW s \in Sids \ lost', store'[s].state = "live"
        PROVE  \/ store'[s].token = valid'[s]
               \/ \E q \in Requests :
                    request'[q].at = "userinfo" /\ request'[q].sid = s /\ request'[q].token = valid'[s]
    <3>1. \/ store[s].token = valid[s]
          \/ \E q \in Requests :
               request[q].at = "userinfo" /\ request[q].sid = s /\ request[q].token = valid[s]
      BY <2>1 DEF IInv, TokenIsCurrent
    <3>2. CASE s = request[r].sid /\ request'[r].at = "userinfo"
      BY <2>1, <3>2
    <3>3. CASE s = request[r].sid /\ request[r].at # "userinfo" /\ valid' = valid
      BY <2>1, <3>1, <3>3
    <3>4. CASE s # request[r].sid
      BY <2>1, <3>1, <3>4
    <3>. QED  BY <3>2, <3>3, <3>4
  <2>. QED  BY <2>1 DEF TokenIsCurrent
<1>. QED  BY <1>1, <1>2, <1>3, <1>4, <1>5 DEF IInv

\* Every step of a re-check keeps the invariant.
LEMMA CheckStep == ASSUME IInv, TypeOK', NEW r \in Requests, Check(r) PROVE IInv'
<1>. DEFINE s == request[r].sid
<1>0. /\ s \in Sids /\ store[s] \in Row /\ store[s].token \in Nat /\ request[r].token \in Nat
      /\ request[r] \in Request /\ now \in Nat
  BY DEF IInv, TypeOK, Request, Row
<1>1. request[r].at \in Checking
  BY DEF Check, ReadConfig, Grant, GrantFails, Refused, UserInfo, UserInfoFails, Checking
<1>2. inflight[s] = r /\ store[s].state # "none" /\ (s \notin lost => request[r].token = valid[s])
  BY <1>1 DEF IInv, OneCheck, CheckHoldsToken
<1>3. \A q \in Requests : request[q].at \in Checking /\ request[q].sid = s => q = r
  BY <1>2 DEF IInv, OneCheck
<1>4. request[r].at # "userinfo" /\ s \notin lost /\ store[s].state = "live" => store[s].token = valid[s]
  BY <1>0, <1>3 DEF IInv, TokenIsCurrent, Checking
<1>5. CASE ReadConfig(r)
  <2>1. /\ UNCHANGED <<now, attempts, source, idpVars, events, lost, changedAt>>
        /\ UNCHANGED <<standing, valid>> /\ request[r].at = "refresh"
    BY <1>5 DEF ReadConfig, idpVars
  <2>2. CASE Settle(r, markCheckAttempt(store[s], store[s].token), request[r].groups) /\ failedAt' = now
    <3>1. Writable(markCheckAttempt(store[s], store[s].token), s)
      BY <1>0, <1>2, <1>4, <2>1, <2>2, WritableRows
    <3>. QED  BY <1>1, <2>1, <2>2, <3>1, SettleKeeps
  <2>3. CASE Settle(r, deleteSession(store[s]), Nobody) /\ UNCHANGED failedAt
    <3>1. Writable(deleteSession(store[s]), s)
      BY <1>0, <1>2, <2>1, WritableRows
    <3>. QED  BY <1>1, <2>1, <2>3, <3>1, SettleKeeps
  <2>4. CASE request' = [request EXCEPT ![r].at = "grant"] /\ UNCHANGED <<store, inflight, failedAt>>
    <3>1. /\ request'[r] = [request[r] EXCEPT !.at = "grant"]
          /\ \A q \in Requests \ {r} : request'[q] = request[q]
      BY <2>4 DEF IInv, TypeOK
    <3>2. /\ request'[r].at = "grant" /\ request'[r].sid = s /\ request'[r].token = request[r].token
          /\ request'[r].answer = request[r].answer
      BY <1>0, <3>1 DEF Request
    <3>. QED  BY <1>1, <1>2, <2>1, <2>4, <3>1, <3>2, CheckMoves DEF Checking
  <2>. QED  BY <1>5, <2>2, <2>3, <2>4 DEF ReadConfig
<1>6. CASE Grant(r)
  <2>1. /\ request'[r] = [request[r] EXCEPT !.at = "userinfo", !.token = @ + 1]
        /\ \A q \in Requests \ {r} : request'[q] = request[q]
    BY <1>0, <1>6 DEF Grant, IInv, TypeOK, Request
  <2>2. /\ request'[r].at = "userinfo" /\ request'[r].sid = s
        /\ request'[r].token = request[r].token + 1 /\ request'[r].answer = request[r].answer
    BY <1>0, <2>1 DEF Request
  <2>3. valid'[s] = valid[s] + 1 /\ \A q \in Sids \ {s} : valid'[q] = valid[q]
    BY <1>0, <1>6 DEF Grant, Rotated, IInv, TypeOK
  <2>4. UNCHANGED <<now, attempts, store, inflight, standing, lost, changedAt, failedAt>>
    BY <1>6 DEF Grant, bookVars
  <2>5. request[r].token = valid[s]
    BY <1>6 DEF Grant, Accepts
  <2>6. request'[r].token = valid'[s] /\ request'[r].at \in Checking
    BY <2>2, <2>3, <2>5 DEF Checking
  <2>7. \A q \in Sids \ {request[r].sid} : valid'[q] = valid[q]
    BY <2>3
  <2>. HIDE DEF s
  <2>8. request'[r].sid = request[r].sid
    BY <2>2 DEF s
  <2>9. request[r].sid \notin lost => request'[r].token = valid'[request[r].sid]
    BY <2>6 DEF s
  <2>. QED  BY <1>1, <2>1, <2>2, <2>4, <2>6, <2>7, <2>8, <2>9, CheckMoves
<1>7. CASE GrantFails(r)
  <2>. DEFINE kept == markCheckAttempt(store[s], store[s].token)
  <2>1. /\ UNCHANGED <<now, attempts, standing, changedAt>> /\ failedAt' = now
        /\ request[r].at = "grant" /\ Settle(r, getSession(kept), IfStillThere(kept, request[r].groups))
    BY <1>7 DEF GrantFails
  <2>2. /\ lost \subseteq lost' /\ \A q \in Sids \ {s} : valid'[q] = valid[q]
        /\ valid' = valid \/ s \in lost'
    BY <1>0, <1>7 DEF GrantFails, Rotated, IInv, TypeOK
  <2>3. Writable(kept, s)
    BY <1>0, <1>2, <1>4, <2>1, <2>2, WritableRows
  <2>4. Writable(getSession(kept), s)
    BY <1>0, <2>3, WritableAged
  <2>. QED  BY <1>1, <2>1, <2>2, <2>4, SettleKeeps
<1>8. CASE Refused(r)
  <2>1. /\ UNCHANGED <<now, attempts, standing, changedAt, lost, valid, failedAt>>
        /\ Settle(r, deleteSession(store[s]), Nobody)
    BY <1>8 DEF Refused, idpVars, bookVars
  <2>2. Writable(deleteSession(store[s]), s)
    BY <1>0, <1>2, <2>1, WritableRows
  <2>. QED  BY <1>1, <2>1, <2>2, SettleKeeps
<1>9. CASE UserInfo(r)
  <2>. DEFINE row == updateAfterCheck(store[s], request[r].token, standing)
  <2>1. /\ UNCHANGED <<now, attempts, standing, changedAt, lost, valid, failedAt>>
        /\ Settle(r, getSession(row), IfStillThere(row, standing))
    BY <1>9 DEF UserInfo, idpVars, bookVars
  <2>2. Writable(row, s)
    BY <1>0, <1>2, <2>1, WritableRows
  <2>3. Writable(getSession(row), s)
    BY <1>0, <2>2, WritableAged
  <2>. QED  BY <1>1, <2>1, <2>3, SettleKeeps
<1>10. CASE UserInfoFails(r)
  <2>. DEFINE row == markCheckAttempt(store[s], request[r].token)
  <2>1. /\ UNCHANGED <<now, attempts, standing, changedAt, lost, valid>> /\ failedAt' = now
        /\ Settle(r, getSession(row), IfStillThere(row, request[r].groups))
    BY <1>10 DEF UserInfoFails, idpVars
  <2>2. Writable(row, s)
    BY <1>0, <1>2, <2>1, WritableRows
  <2>3. Writable(getSession(row), s)
    BY <1>0, <2>2, WritableAged
  <2>. QED  BY <1>1, <2>1, <2>3, SettleKeeps
<1>. QED  BY <1>5, <1>6, <1>7, <1>8, <1>9, <1>10 DEF Check

\* A request that finds its session keeps the invariant.
LEMMA ResolveStep == ASSUME IInv, TypeOK', NEW r \in Requests, Resolve(r) PROVE IInv'
<1>. DEFINE s == request[r].sid
            row == getSession(store[s])
<1>0. s \in Sids /\ store[s] \in Row /\ request[r] \in Request /\ request[r].at = "new" /\ row \in Row
  <2>1. s \in Sids /\ store[s] \in Row /\ request[r] \in Request /\ 0 \in Nat
    BY DEF IInv, TypeOK, Request
  <2>. QED  BY <2>1, RowType DEF Resolve, IInv, TypeOK
<1>1. /\ row = store[s] \/ (row.state = "gone" /\ store[s].state = "live")
      /\ row.state # "none" <=> store[s].state # "none"
  BY <1>0 DEF getSession, Row
<1>2. /\ store'[s] = row /\ \A q \in Sids \ {s} : store'[q] = store[q]
      /\ UNCHANGED <<now, attempts, standing, valid, lost, changedAt, failedAt>>
  BY <1>0 DEF Resolve, IInv, TypeOK, idpVars, bookVars
<1>3. \A q \in Requests \ {r} : request'[q] = request[q]
  BY DEF Resolve, IInv, TypeOK
<1>4. request'[r].sid = s /\ (request'[r].at = "done" \/ request'[r].answer = request[r].answer)
  BY <1>0 DEF Resolve, IInv, TypeOK, Request
<1>5. \/ request'[r].at \in {"done", "joined"} /\ UNCHANGED inflight
      \/ /\ request'[r].at = "refresh" /\ inflight' = [inflight EXCEPT ![s] = r]
         /\ request'[r].token = row.token /\ row.state = "live" /\ inflight[s] = NoCheck
  BY <1>0 DEF Resolve, IInv, TypeOK, Request
<1>. HIDE DEF row
<1>6. \A q \in Sids : store'[q].state = "live" => store'[q] = store[q]
  BY <1>0, <1>1, <1>2
<1>7. \A q \in Sids : store'[q].state # "none" <=> store[q].state # "none"
  BY <1>0, <1>1, <1>2
<1>8. RowAfterSignIn'
  BY <1>2, <1>7 DEF IInv, RowAfterSignIn
<1>9. OneCheck'
  <2>1. \A q \in Requests : request[q].at \in Checking => q # r
    BY <1>0 DEF Checking
  <2>2. ASSUME NEW q \in Requests, request'[q].at \in Checking
        PROVE  inflight'[request'[q].sid] = q /\ store'[request'[q].sid].state # "none"
    <3>1. CASE q = r
      BY <1>0, <1>2, <1>4, <1>5, <2>2, <3>1 DEF Checking, IInv, TypeOK
    <3>2. CASE q # r
      <4>1. /\ request'[q] = request[q] /\ request[q].sid \in Sids
            /\ inflight[request[q].sid] = q /\ store[request[q].sid].state # "none"
        BY <1>3, <2>2, <3>2 DEF IInv, OneCheck, TypeOK, Request
      <4>2. inflight'[request[q].sid] = q
        BY <1>0, <1>5, <4>1, NamesAssumption DEF IInv, TypeOK
      <4>. QED  BY <1>7, <4>1, <4>2
    <3>. QED  BY <3>1, <3>2
  <2>3. ASSUME NEW q \in Sids, inflight'[q] # NoCheck
        PROVE  request'[inflight'[q]].sid = q /\ request'[inflight'[q]].at \in Checking
    <3>1. CASE inflight'[q] = inflight[q]
      <4>1. inflight[q] \in Requests \ {r}
        BY <2>1, <2>3, <3>1 DEF IInv, OneCheck, TypeOK
      <4>. QED  BY <1>3, <2>3, <3>1, <4>1 DEF IInv, OneCheck
    <3>2. CASE inflight'[q] # inflight[q]
      BY <1>0, <1>4, <1>5, <3>2 DEF IInv, TypeOK, Checking
    <3>. QED  BY <3>1, <3>2
  <2>. QED  BY <2>2, <2>3 DEF OneCheck
<1>10. CheckHoldsToken'
  <2>1. inflight[s] = NoCheck => \A q \in Requests : request[q].at \in Checking => request[q].sid # s
    BY NamesAssumption DEF IInv, OneCheck
  <2>2. CASE row.state = "live" /\ inflight[s] = NoCheck /\ s \notin lost /\ request'[r].token = row.token
    <3>1. row = store[s] /\ row.token = valid[s]
      BY <1>0, <1>1, <2>1, <2>2 DEF IInv, TokenIsCurrent, Checking
    <3>. QED  BY <1>0, <1>2, <1>3, <1>4, <2>2, <3>1 DEF IInv, CheckHoldsToken
  <2>. QED  BY <1>0, <1>2, <1>3, <1>4, <1>5, <2>2 DEF IInv, CheckHoldsToken, Checking
<1>11. TokenIsCurrent'
  <2>1. \A q \in Requests : request[q].at = "userinfo" => request'[q] = request[q]
    BY <1>0, <1>3
  <2>. QED  BY <1>2, <1>6, <2>1 DEF IInv, TokenIsCurrent
<1>12. Unanswered'
  BY <1>0, <1>3, <1>4 DEF IInv, Unanswered
<1>13. RowsAreDated'
  BY <1>2, <1>6 DEF IInv, RowsAreDated
<1>. QED  BY <1>8, <1>9, <1>10, <1>11, <1>12, <1>13 DEF IInv

\* Every step keeps the invariant.
LEMMA InvStep == IInv /\ [Next]_vars => IInv'
<1>. SUFFICES ASSUME IInv, [Next]_vars PROVE IInv'
  OBVIOUS
<1>0. TypeOK'
  BY TypeStep DEF IInv
<1>1. CASE UNCHANGED vars
  BY <1>0, <1>1 DEF IInv, RowAfterSignIn, OneCheck, CheckHoldsToken, TokenIsCurrent, Unanswered,
                    RowsAreDated, vars, idpVars, bookVars
<1>2. ASSUME NEW r \in Requests, Resolve(r) \/ Check(r) PROVE IInv'
  BY <1>0, <1>2, ResolveStep, CheckStep
<1>3. ASSUME NEW s \in Sids, BeginSignIn(s) \/ Callback(s) \/ SignInFails(s) PROVE IInv'
  <2>1. UNCHANGED <<now, store, request, inflight, standing, valid, lost, changedAt, failedAt>>
    BY <1>3 DEF BeginSignIn, Callback, SignInFails, idpVars, bookVars
  <2>2. \A q \in Sids : attempts[q].state = "used" => attempts'[q].state = "used"
    BY <1>3 DEF BeginSignIn, Callback, SignInFails, purgeAttempt, IInv, TypeOK
  <2>. QED  BY <1>0, <2>1, <2>2 DEF IInv, RowAfterSignIn, OneCheck, CheckHoldsToken, TokenIsCurrent,
                                    Unanswered, RowsAreDated
<1>4. ASSUME NEW s \in Sids, SignOut(s) PROVE IInv'
  <2>1. UNCHANGED <<now, attempts, request, inflight, standing, valid, lost, changedAt, failedAt>>
    BY <1>4 DEF SignOut, idpVars, bookVars
  <2>2. /\ store'[s].state = "gone" /\ store[s].state = "live"
        /\ \A q \in Sids \ {s} : store'[q] = store[q]
    BY <1>4 DEF SignOut, deleteSession, IInv, TypeOK, Row
  <2>3. OneCheck'
    <3>1. \A q \in Sids : store[q].state # "none" => store'[q].state # "none"
      BY <2>2
    <3>2. \A r \in Requests : request[r].sid \in Sids
      BY DEF IInv, TypeOK, Request
    <3>. QED  BY <2>1, <3>1, <3>2 DEF IInv, OneCheck
  <2>. QED  BY <1>0, <2>1, <2>2, <2>3 DEF IInv, RowAfterSignIn, CheckHoldsToken, TokenIsCurrent,
                                          Unanswered, RowsAreDated
<1>5. ASSUME NEW s \in Sids, NEW p \in Sids, SignedIn(s, p) PROVE IInv'
  <2>1. UNCHANGED <<now, request, inflight, standing, valid, lost, changedAt, failedAt>>
    BY <1>5 DEF SignedIn, idpVars, bookVars
  <2>2. store[s].state = "none"
    BY <1>5 DEF SignedIn, IInv, RowAfterSignIn
  <2>3. store'[s] = [state |-> "live", created |-> now, checked |-> now,
                     attempt |-> Never, token |-> valid[s], groups |-> standing]
    BY <1>5 DEF SignedIn
  <2>4. \A q \in Sids \ {s} : store'[q] = store[q] \/ store'[q] = deleteSession(store[q])
    BY <1>5 DEF SignedIn
  <2>5. \A q \in Sids \ {s} : /\ store'[q].state = "live" => store'[q] = store[q]
                              /\ store'[q].state # "none" <=> store[q].state # "none"
    BY <2>4 DEF deleteSession, IInv, TypeOK, Row
  <2>6. \A q \in Sids : attempts[q].state = "used" \/ q = s => attempts'[q].state = "used"
    BY <1>5 DEF SignedIn, purgeAttempt, IInv, TypeOK
  <2>7. RowAfterSignIn'
    <3>1. ASSUME NEW q \in Sids, store'[q].state # "none" PROVE attempts'[q].state = "used"
      BY <2>5, <2>6, <3>1 DEF IInv, RowAfterSignIn
    <3>. QED  BY <3>1 DEF RowAfterSignIn
  <2>8. OneCheck'
    BY <2>1, <2>2, <2>3, <2>5 DEF IInv, OneCheck, TypeOK, Request
  <2>9. TokenIsCurrent'
    <3>1. ASSUME NEW q \in Sids \ lost, q # s, store'[q].state = "live"
          PROVE  \/ store[q].token = valid[q]
                 \/ \E r \in Requests :
                      request[r].at = "userinfo" /\ request[r].sid = q /\ request[r].token = valid[q]
      BY <2>5, <3>1 DEF IInv, TokenIsCurrent
    <3>2. store'[s].token = valid[s]
      BY <2>3
    <3>. QED  BY <2>1, <2>5, <3>1, <3>2 DEF TokenIsCurrent
  <2>10. RowsAreDated'
    <3>1. ASSUME NEW q \in Sids, q # s, store'[q].state = "live"
          PROVE  store'[q] = store[q] /\ RowsAreDated!2!(q)!2
      BY <2>5, <3>1 DEF IInv, RowsAreDated
    <3>2. /\ store'[s].groups = standing /\ store'[s].attempt = Never /\ store'[s].checked = now
          /\ now \in Nat /\ failedAt <= now
      BY <2>3 DEF IInv, TypeOK, RowsAreDated
    <3>. QED  BY <2>1, <3>1, <3>2 DEF RowsAreDated
  <2>. QED  BY <1>0, <2>1, <2>7, <2>8, <2>9, <2>10 DEF IInv, CheckHoldsToken, Unanswered
<1>6. CASE Restart
  <2>1. UNCHANGED <<now, standing, valid, changedAt, failedAt>>
    BY <1>6 DEF Restart, idpVars
  <2>2. \A q \in Sids : /\ store'[q].state = "live" => store'[q] = store[q]
                        /\ store'[q].state # "none" <=> store[q].state # "none"
    BY <1>6 DEF Restart, getSession, IInv, TypeOK, Row
  <2>3. \A q \in Sids : attempts[q].state = "used" => attempts'[q].state = "used"
    BY <1>6 DEF Restart, purgeAttempt, IInv, TypeOK
  <2>4. \A r \in Requests : /\ request'[r].at \in {"new", "done"}
                            /\ request'[r].at # "done" => request'[r] = request[r]
    BY <1>6 DEF Restart, IInv, TypeOK, Request
  <2>5. \A q \in Sids : inflight'[q] = NoCheck
    BY <1>6 DEF Restart
  <2>6. /\ lost \subseteq lost'
        /\ \A r \in Requests : request[r].at = "userinfo" => request[r].sid \in lost'
    BY <1>6 DEF Restart
  <2>7. RowAfterSignIn'
    BY <2>2, <2>3 DEF IInv, RowAfterSignIn
  <2>8. OneCheck' /\ CheckHoldsToken'
    BY <2>4, <2>5 DEF OneCheck, CheckHoldsToken, Checking
  <2>9. TokenIsCurrent'
    BY <2>1, <2>2, <2>6 DEF IInv, TokenIsCurrent
  <2>10. Unanswered'
    BY <2>4 DEF IInv, Unanswered
  <2>11. RowsAreDated'
    BY <2>1, <2>2 DEF IInv, RowsAreDated
  <2>. QED  BY <1>0, <2>7, <2>8, <2>9, <2>10, <2>11 DEF IInv
<1>7. CASE ChangeStanding
  <2>1. /\ UNCHANGED <<now, attempts, store, request, inflight, valid, lost, failedAt>>
        /\ changedAt' = now /\ now \in Nat
    BY <1>7 DEF ChangeStanding, IInv, TypeOK
  <2>2. RowsAreDated'
    BY <2>1 DEF IInv, RowsAreDated, Never
  <2>. QED  BY <1>0, <2>1, <2>2 DEF IInv, RowAfterSignIn, OneCheck, CheckHoldsToken, TokenIsCurrent,
                                    Unanswered
<1>8. CASE Tick \/ RefreshClient \/ ChangeSettings \/ ProviderOutage
  <2>1. UNCHANGED <<attempts, store, request, inflight, standing, valid, lost, changedAt, failedAt>>
    BY <1>8 DEF Tick, RefreshClient, ChangeSettings, ProviderOutage, idpVars, bookVars
  <2>2. now' \in {now, now + 1} /\ now \in Nat
    BY <1>8 DEF Tick, RefreshClient, ChangeSettings, ProviderOutage, IInv, TypeOK
  <2>3. RowsAreDated'
    BY <2>1, <2>2 DEF IInv, RowsAreDated, TypeOK, Row, Never
  <2>. QED  BY <1>0, <2>1, <2>3 DEF IInv, RowAfterSignIn, OneCheck, CheckHoldsToken, TokenIsCurrent,
                                    Unanswered
<1>. QED  BY <1>1, <1>2, <1>3, <1>4, <1>5, <1>6, <1>7, <1>8 DEF Next

\* The initial states satisfy the invariant.
LEMMA InvInit == Init => IInv
<1>. SUFFICES ASSUME Init PROVE IInv
  OBVIOUS
<1>1. \A s \in Sids : store[s] = [state |-> "none", created |-> 0, checked |-> 0,
                                  attempt |-> Never, token |-> 0, groups |-> Deactivated]
  BY DEF Init
<1>2. TypeOK
  <2>1. store \in [Sids -> Row]
    BY <1>1 DEF Init, Row
  <2>2. request \in [Requests -> Request]
    BY DEF Init, Request
  <2>3. client \in BOOLEAN /\ reachable \in BOOLEAN
    BY DEF Init
  <2>. QED  BY <2>1, <2>2, <2>3 DEF Init, TypeOK
<1>3. \A r \in Requests : request[r].at = "new" /\ request[r].answer = Nobody
  BY DEF Init
<1>. QED  BY <1>1, <1>2, <1>3 DEF Init, IInv, RowAfterSignIn, OneCheck, CheckHoldsToken, TokenIsCurrent,
                                  Unanswered, RowsAreDated, Checking, Never

\* The invariant holds in every reachable state.
LEMMA Invariance == Spec => []IInv
<1>. QED  BY InvInit, InvStep, PTL DEF Spec

-----------------------------------------------------------------------------
(* The theorems. *)

\* All rows, attempts, requests and tokens have their types.
THEOREM TypeCorrect == Spec => []TypeOK
<1>1. IInv => TypeOK
  BY DEF IInv
<1>. QED  BY <1>1, Invariance, PTL

\* However re-checks, sign-ins, sign-outs and restarts interleave, Bellhop
\* holds the refresh token the provider accepts, in the row or in the one
\* re-check that was just granted it, unless an answer or a process was lost.
THEOREM TokenStaysCurrent == Spec => []TokenIsCurrent
<1>1. IInv => TokenIsCurrent
  BY DEF IInv
<1>. QED  BY <1>1, Invariance, PTL

\* Whoever gets an answer from the end of a re-check asked about its session.
LEMMA SettleAnswers ==
    ASSUME IInv, NEW q \in Requests, NEW row, NEW answer, Settle(q, row, answer),
           NEW r \in Requests, request[r].at # "done", request'[r].at = "done"
    PROVE  /\ request[r].sid = request[q].sid /\ request'[r].answer = answer
           /\ store'[request[r].sid] = row
<1>1. request[q].sid \in Sids
  BY DEF IInv, TypeOK, Request
<1>2. r = q \/ request[r].sid = request[q].sid
  BY DEF Settle
<1>3. request'[r] = [request[r] EXCEPT !.at = "done", !.answer = answer]
  BY DEF Settle
<1>4. request'[r].answer = answer
  BY <1>3 DEF IInv, TypeOK, Request
<1>. QED  BY <1>1, <1>2, <1>4 DEF Settle, IInv, TypeOK

\* Where an identity may come from: a live row that is not due, or the end of
\* a re-check of the same session -- made, failed, or behind invalid settings.
LEMMA WhereAnswersComeFrom ==
    ASSUME IInv, [Next]_vars, NEW r \in Requests, Identified(r)
    PROVE  LET s == request[r].sid
           IN  \/ /\ store[s].state = "live" /\ ~checkDue(store[s]) /\ store'[s] = store[s]
                  /\ request'[r].answer = store[s].groups
                  /\ UNCHANGED failedAt
               \/ store'[s].state = "live" /\ (request'[r].answer = standing \/ failedAt' = now)
               \/ source = "invalid" /\ failedAt' = now
<1>. DEFINE s == request[r].sid
            Goal == \/ /\ store[s].state = "live" /\ ~checkDue(store[s]) /\ store'[s] = store[s]
                       /\ request'[r].answer = store[s].groups
                       /\ UNCHANGED failedAt
                    \/ store'[s].state = "live" /\ (request'[r].answer = standing \/ failedAt' = now)
                    \/ source = "invalid" /\ failedAt' = now
<1>. SUFFICES Goal
  OBVIOUS
<1>0. s \in Sids /\ request[r] \in Request /\ request[r].at # "done" /\ request'[r].at = "done"
      /\ request'[r].answer # Nobody
  BY DEF IInv, TypeOK, Request, Identified
<1>1. request' # request
  BY <1>0
<1>2. ASSUME NEW q \in Requests, Resolve(q) PROVE Goal
  <2>. DEFINE row == getSession(store[s])
  <2>1. q = r
    BY <1>0, <1>2 DEF Resolve, IInv, TypeOK
  <2>2. /\ row.state = "live" /\ ~checkDue(row) /\ request'[r].answer = row.groups
        /\ store'[s] = row /\ UNCHANGED failedAt
    BY <1>0, <1>2, <2>1 DEF Resolve, IInv, TypeOK, Request, bookVars
  <2>3. row = store[s]
    BY <1>0, <2>2 DEF getSession, IInv, TypeOK, Row
  <2>. QED  BY <2>2, <2>3
<1>3. ASSUME NEW q \in Requests, Check(q) PROVE Goal
  <2>. DEFINE p == request[q].sid
  <2>1. CASE ReadConfig(q)
    <3>1. CASE source = "invalid" /\ failedAt' = now
      BY <3>1
    <3>2. CASE Settle(q, deleteSession(store[p]), Nobody)
      BY <1>0, <3>2, SettleAnswers
    <3>3. CASE request' = [request EXCEPT ![q].at = "grant"]
      BY <1>0, <3>3 DEF IInv, TypeOK, Request
    <3>. QED  BY <2>1, <3>1, <3>2, <3>3 DEF ReadConfig
  <2>2. CASE Grant(q)
    BY <1>0, <2>2 DEF Grant, IInv, TypeOK, Request
  <2>3. CASE GrantFails(q)
    <3>1. PICK row : Settle(q, getSession(row), IfStillThere(row, request[q].groups))
      BY <2>3 DEF GrantFails
    <3>2. getSession(row).state = "live" /\ store'[s] = getSession(row)
      BY <1>0, <3>1, SettleAnswers DEF IfStillThere
    <3>. QED  BY <2>3, <3>2 DEF GrantFails
  <2>4. CASE Refused(q)
    BY <1>0, <2>4, SettleAnswers DEF Refused
  <2>5. CASE UserInfo(q)
    <3>1. PICK row : Settle(q, getSession(row), IfStillThere(row, standing))
      BY <2>5 DEF UserInfo
    <3>2. /\ getSession(row).state = "live" /\ store'[s] = getSession(row)
          /\ request'[r].answer = standing
      BY <1>0, <3>1, SettleAnswers DEF IfStillThere
    <3>. QED  BY <3>2
  <2>6. CASE UserInfoFails(q)
    <3>1. PICK row : Settle(q, getSession(row), IfStillThere(row, request[q].groups))
      BY <2>6 DEF UserInfoFails
    <3>2. getSession(row).state = "live" /\ store'[s] = getSession(row)
      BY <1>0, <3>1, SettleAnswers DEF IfStillThere
    <3>. QED  BY <2>6, <3>2 DEF UserInfoFails
  <2>. QED  BY <1>3, <2>1, <2>2, <2>3, <2>4, <2>5, <2>6 DEF Check
<1>4. CASE Restart
  <2>1. request[r].answer = Nobody
    BY <1>0 DEF IInv, Unanswered
  <2>2. request'[r].answer = request[r].answer
    BY <1>0, <1>4 DEF Restart, Request
  <2>. QED  BY <1>0, <2>1, <2>2
<1>5. ASSUME UNCHANGED request PROVE Goal
  BY <1>1, <1>5
<1>. QED  BY <1>2, <1>3, <1>4, <1>5
          DEF Next, BeginSignIn, Callback, SignInFails, SignOut, SignedIn, Tick, RefreshClient,
              ChangeSettings, ProviderOutage, ChangeStanding, vars

\* A sign-out or the session's age that lands during a re-check is not
\* answered with the identity it ended.
THEOREM EndedSessionsAreNotAnswered == Spec => AnsweredWhileSignedIn
<1>1. IInv /\ [Next]_vars =>
        [\A r \in Requests : Identified(r) /\ source # "invalid" =>
            store'[request[r].sid].state = "live"]_vars
  BY WhereAnswersComeFrom
<1>. QED  BY <1>1, Invariance, PTL DEF Spec, AnsweredWhileSignedIn

\* A change of the user's groups reaches every answer within the re-check
\* interval, or the retry time after a re-check that could not be made.
THEOREM ChangesLand == Spec => ChangeLands
<1>1. ASSUME IInv, [Next]_vars, NEW r \in Requests, Identified(r), request'[r].answer # standing
      PROVE  \/ changedAt # Never /\ now - changedAt < CheckInterval
             \/ failedAt' # Never /\ now - failedAt' < CheckRetry
  <2>. DEFINE s == request[r].sid
  <2>1. /\ s \in Sids /\ now \in Nat /\ changedAt \in Nat \union {Never} /\ failedAt \in Nat \union {Never}
        /\ store[s].checked \in Nat /\ store[s].attempt \in Nat \union {Never}
    BY <1>1 DEF IInv, TypeOK, Request, Row
  <2>2. CASE failedAt' = now
    BY <2>1, <2>2, TimesAssumption DEF Never
  <2>3. CASE /\ store[s].state = "live" /\ ~checkDue(store[s])
             /\ store[s].groups # standing /\ UNCHANGED failedAt
    <3>1. RowsAreDated!2!(s)!2
      BY <1>1, <2>1, <2>3 DEF IInv, RowsAreDated
    <3>. QED  BY <2>1, <2>3, <3>1, TimesAssumption DEF checkDue, Never
  <2>. QED  BY <1>1, <2>2, <2>3, WhereAnswersComeFrom
<1>2. IInv /\ [Next]_vars =>
        [\A r \in Requests : Identified(r) /\ request'[r].answer # standing =>
            \/ changedAt # Never /\ now - changedAt < CheckInterval
            \/ failedAt' # Never /\ now - failedAt' < CheckRetry]_vars
  BY <1>1
<1>. QED  BY <1>2, Invariance, PTL DEF Spec, ChangeLands

\* A re-check never ends the session of a user in good standing whose token
\* reached the store: only the provider's no, the end of the web login's
\* configuration, a lost token or the session's age does.
THEOREM SessionsEndForCause == Spec => EndedForCause
<1>1. ASSUME IInv, [Next]_vars, NEW r \in Requests, request[r].at \in Checking,
             store[request[r].sid].state = "live", store'[request[r].sid].state = "gone",
             request'[r].at = "done"
      PROVE  \/ standing = Deactivated \/ request[r].sid \in lost
             \/ ~webLoginConfigured(client') \/ expired(store[request[r].sid])
  <2>. DEFINE s == request[r].sid
              row == store[s]
              Goal == standing = Deactivated \/ s \in lost \/ ~webLoginConfigured(client') \/ expired(row)
  <2>. SUFFICES Goal
    OBVIOUS
  <2>0. /\ s \in Sids /\ row \in Row /\ request[r] \in Request /\ request[r].at # "done"
        /\ s \notin lost => request[r].token = valid[s]
    BY <1>1 DEF IInv, TypeOK, Request, CheckHoldsToken, Checking
  <2>1. ASSUME NEW token, getSession(markCheckAttempt(row, token)).state = "gone" PROVE expired(row)
    BY <1>1, <2>0, <2>1 DEF markCheckAttempt, getSession, expired, Row
  <2>2. ASSUME NEW token, getSession(updateAfterCheck(row, token, standing)).state = "gone" PROVE expired(row)
    BY <1>1, <2>0, <2>2 DEF updateAfterCheck, getSession, expired, Row
  <2>3. ASSUME NEW q \in Requests, Check(q) PROVE Goal
    <3>1. q = r
      <4>1. request[q].at \in Checking
        BY <2>3 DEF Check, ReadConfig, Grant, GrantFails, Refused, UserInfo, UserInfoFails, Checking
      <4>2. request[q].sid = s
        <5>1. CASE \E w, answer : Settle(q, w, answer)
          BY <1>1, <2>0, <5>1, SettleAnswers
        <5>2. CASE UNCHANGED store
          BY <1>1, <5>2
        <5>. QED  BY <2>3, <5>1, <5>2 DEF Check, ReadConfig, Grant, GrantFails, Refused, UserInfo, UserInfoFails
      <4>. QED  BY <1>1, <4>1, <4>2 DEF IInv, OneCheck
    <3>2. CASE ReadConfig(r)
      <4>1. CASE Settle(r, markCheckAttempt(row, row.token), request[r].groups)
        <5>1. store'[s] = markCheckAttempt(row, row.token)
          BY <1>1, <2>0, <4>1 DEF Settle, IInv, TypeOK
        <5>. QED  BY <1>1, <2>0, <5>1 DEF markCheckAttempt, Row
      <4>2. CASE ~webLoginConfigured(client')
        BY <4>2
      <4>3. CASE UNCHANGED store
        BY <1>1, <4>3
      <4>. QED  BY <3>2, <4>1, <4>2, <4>3 DEF ReadConfig
    <3>3. CASE Grant(r)
      BY <1>1, <3>3 DEF Grant
    <3>4. CASE GrantFails(r)
      <4>1. store'[s] = getSession(markCheckAttempt(row, row.token))
        BY <1>1, <2>0, <3>4 DEF GrantFails, Settle, IInv, TypeOK
      <4>. QED  BY <1>1, <2>1, <4>1
    <3>5. CASE Refused(r)
      BY <2>0, <3>5 DEF Refused, Accepts
    <3>6. CASE UserInfo(r)
      <4>1. store'[s] = getSession(updateAfterCheck(row, request[r].token, standing))
        BY <1>1, <2>0, <3>6 DEF UserInfo, Settle, IInv, TypeOK
      <4>. QED  BY <1>1, <2>2, <4>1
    <3>7. CASE UserInfoFails(r)
      <4>1. store'[s] = getSession(markCheckAttempt(row, request[r].token))
        BY <1>1, <2>0, <3>7 DEF UserInfoFails, Settle, IInv, TypeOK
      <4>. QED  BY <1>1, <2>1, <4>1
    <3>. QED  BY <2>3, <3>1, <3>2, <3>3, <3>4, <3>5, <3>6, <3>7 DEF Check
  <2>4. CASE Restart
    BY <1>1, <2>0, <2>4 DEF Restart, getSession, Row
  <2>5. ASSUME NEW q \in Requests, Resolve(q) PROVE Goal
    <3>1. request[q].at = "new" /\ request[r].at # "new" /\ q # r
      BY <1>1, <2>5 DEF Resolve, Checking
    <3>2. request'[r] = request[r]
      BY <1>1, <2>5, <3>1 DEF Resolve, IInv, TypeOK
    <3>. QED  BY <1>1, <2>0, <3>2
  <2>6. CASE UNCHANGED request
    BY <1>1, <2>0, <2>6
  <2>. QED  BY <1>1, <2>3, <2>4, <2>5, <2>6
            DEF Next, BeginSignIn, Callback, SignInFails, SignOut, SignedIn, Tick, RefreshClient,
                ChangeSettings, ProviderOutage, ChangeStanding, vars
<1>2. IInv /\ [Next]_vars =>
        [\A r \in Requests :
            LET s == request[r].sid
            IN  (request[r].at \in Checking /\ store[s].state = "live" /\ store'[s].state = "gone"
                    /\ request'[r].at = "done" /\ inflight[s] = r)
                => standing = Deactivated \/ s \in lost \/ ~webLoginConfigured(client') \/ expired(store[s])]_vars
  BY <1>1
<1>. QED  BY <1>2, Invariance, PTL DEF Spec, EndedForCause
=============================================================================
