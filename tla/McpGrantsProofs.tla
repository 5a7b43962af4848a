--------------------------- MODULE McpGrantsProofs ---------------------------
(***************************************************************************)
(* Proofs about McpGrants, for any number of clients, consents, sign-ins,  *)
(* grants and requests and any life times.                                 *)
(***************************************************************************)
EXTENDS McpGrants, TLAPS

Approved == <<"shown", "approve">>
ConsentOf(n) == pending[signIn[n].consent]
Made(g) == grant[g].state # "none"

\* A consent that is open has at most been approved, in its own browser.
OpenIsUndenied ==
  \A p \in Consents : /\ pending[p].state = "none" => pending[p].posted = {}
                      /\ pending[p].state = "open" => pending[p].posted \subseteq {Approved}

\* A sign-in was asked for by an approval.
SignInsAreApproved ==
  \A n \in SignIns : signIn[n].at # "none" =>
    signIn[n].consent \in Consents /\ ConsentOf(n).state # "none" /\ Approved \in ConsentOf(n).posted

\* A session used up the consent of its sign-in, and the consent was not
\* denied; no two sessions used up the same one.
SessionsAreConsented ==
  /\ \A n \in SignIns : session[n].state # "none" =>
       signIn[n].at = "done" /\ ConsentOf(n).state = "gone" /\ ConsentOf(n).posted = {Approved}
  /\ \A n, m \in SignIns : session[n].state # "none" /\ session[m].state # "none" /\ n # m =>
       signIn[n].consent # signIn[m].consent

\* A code belongs to a session; a grant used up a code, each its own.
CodesAndGrants ==
  /\ \A n \in SignIns : code[n].state # "none" => session[n].state # "none"
  /\ \A g \in Grants : Made(g) => grant[g].signIn \in SignIns /\ code[grant[g].signIn].state = "gone"
  /\ \A g, h \in Grants : Made(g) /\ Made(h) /\ g # h => grant[g].signIn # grant[h].signIn

\* A grant is not older than its sign-in, which is not of the future.
GrantsAreYounger ==
  /\ \A n \in SignIns : session[n].created <= now
  /\ \A g \in Grants : grant[g].state = "live" => session[grant[g].signIn].created <= grant[g].created

\* A request being checked has a grant, or one whose sign-in ended with it:
\* a revocation that was cut short took the request with it.
CheckedHasGrant ==
  \A r \in Requests : request[r].at = "checking" =>
    /\ request[r].grant \in Grants /\ Made(request[r].grant)
    /\ grant[request[r].grant].state = "gone" => ~Lives(grant[request[r].grant].signIn)

IInv ==
  /\ TypeOK /\ OpenIsUndenied /\ SignInsAreApproved /\ SessionsAreConsented /\ CodesAndGrants
  /\ GrantsAreYounger /\ CheckedHasGrant /\ GrantAndSignInEndTogether

-----------------------------------------------------------------------------
(* Types. *)

\* The new values a row can get are rows.
LEMMA RowTypes ==
  ASSUME TypeOK
  PROVE  /\ Ready \in Request /\ Used \in CodeRow
         /\ \A row \in PendingRow : Forgotten(row) \in PendingRow
         /\ \A row \in GrantRow : Ended(row) \in GrantRow /\ Ended(row).signIn = row.signIn
                                /\ Ended(row).state = "gone"
<1>1. Ready \in Request
  BY DEF Ready, Request, ApiKey
<1>2. Used \in CodeRow
  BY DEF Used, CodeRow, RowState
<1>3. ASSUME NEW row \in PendingRow PROVE Forgotten(row) \in PendingRow
  BY DEF Forgotten, PendingRow
<1>4. ASSUME NEW row \in GrantRow
      PROVE  Ended(row) \in GrantRow /\ Ended(row).signIn = row.signIn /\ Ended(row).state = "gone"
  BY DEF Ended, GrantRow, RowState
<1>. QED  BY <1>1, <1>2, <1>3, <1>4

\* A handler that was cut short leaves no request; one that was not leaves
\* them alone.
LEMMA Completion ==
  ASSUME TypeOK, NEW cut \in BOOLEAN, Completes(cut)
  PROVE  /\ request' \in [Requests -> Request] /\ DOMAIN hosted' = Hosted
         /\ \A r \in Requests : request'[r].at = "checking" => request'[r] = request[r] /\ ~cut
<1>1. CASE cut
  BY <1>1, RowTypes DEF Completes, Restarted, Ready
<1>2. CASE ~cut
  BY <1>2 DEF Completes, hostVars, TypeOK
<1>. QED  BY <1>1, <1>2

\* A consent that is used up is forgotten; no other changes.
LEMMA Consumed ==
  ASSUME TypeOK, NEW p \in Consents
  PROVE  /\ consumePending(p) \in [Consents -> PendingRow]
         /\ \A q \in Consents \ {p} : consumePending(p)[q] = pending[q]
         /\ consumePending(p)[p].posted = pending[p].posted
         /\ consumePending(p)[p].state = IF pending[p].state = "open" THEN "gone" ELSE pending[p].state
<1>1. pending[p] \in PendingRow /\ Forgotten(pending[p]) \in PendingRow
  BY RowTypes DEF TypeOK
<1>2. Forgotten(pending[p]).posted = pending[p].posted /\ Forgotten(pending[p]).state = "gone"
  BY <1>1 DEF Forgotten, PendingRow
<1>. QED  BY <1>1, <1>2 DEF consumePending, TypeOK

\* A grant that is deleted keeps its sign-in; no other changes.
LEMMA Deleted ==
  ASSUME TypeOK, NEW g \in Grants, deleteGrant(g)
  PROVE  /\ grant' \in [Grants -> GrantRow] /\ token' \subseteq [grant : Grants, exp : Nat]
         /\ grant'[g].state = "gone" /\ grant'[g].signIn = grant[g].signIn
         /\ \A h \in Grants \ {g} : grant'[h] = grant[h]
<1>1. grant[g] \in GrantRow
  BY DEF TypeOK
<1>. QED  BY <1>1, RowTypes DEF deleteGrant, TypeOK

\* An access token is added for a grant.
LEMMA AccessType ==
  ASSUME TypeOK, NEW toks \in SUBSET [grant : Grants, exp : Nat], NEW g \in Grants
  PROVE  issueAccess(toks, g) \subseteq [grant : Grants, exp : Nat]
<1>1. now + AccessTtl \in Nat
  BY TtlAssumption DEF TypeOK
<1>. QED  BY <1>1 DEF issueAccess

\* A request is refused, opens a session or is served; it is not checked any
\* more, and no other changes.
LEMMA Handled ==
  ASSUME TypeOK, NEW r \in Requests, NEW principal \in Grants \cup {ApiKey}, NEW exp \in Nat,
         handle(r, principal, exp) \/ Refused(r)
  PROVE  /\ request' \in [Requests -> Request] /\ DOMAIN hosted' = Hosted
         /\ request'[r].at # "checking" /\ \A q \in Requests \ {r} : request'[q] = request[q]
<1>1. Ready \in Request /\ Ready.at = "new"
  BY RowTypes DEF Ready
<1>2. \A h \in Hosted : [at |-> "served", grant |-> principal, exp |-> exp, host |-> h] \in Request
  BY DEF Request
<1>3. CASE request' = [request EXCEPT ![r] = Ready]
  BY <1>1, <1>3 DEF handle, Refused, TypeOK
<1>4. ASSUME NEW h \in Hosted,
             request' = [request EXCEPT ![r] = [at |-> "served", grant |-> principal, exp |-> exp, host |-> h]]
      PROVE  /\ request' \in [Requests -> Request]
             /\ request'[r].at # "checking" /\ \A q \in Requests \ {r} : request'[q] = request[q]
  BY <1>2, <1>4 DEF TypeOK
<1>5. DOMAIN hosted' = Hosted
  BY DEF handle, Refused, TypeOK
<1>. QED  BY <1>3, <1>4, <1>5 DEF handle, Refused

-----------------------------------------------------------------------------
(* The invariant is inductive. *)

\* A step that keeps sessions, codes, grants and the clock, and under which
\* the consents of sessions and requests in hand stay as they are, keeps
\* what the invariant says of them.
LEMMA RestKept ==
  ASSUME IInv, TypeOK', UNCHANGED <<now, session, code, grant>>, orphaned \subseteq orphaned',
         \A n \in SignIns : session[n].state # "none" =>
           /\ signIn'[n] = signIn[n]
           /\ ConsentOf(n)'.state = ConsentOf(n).state /\ ConsentOf(n)'.posted = ConsentOf(n).posted,
         \A r \in Requests : request'[r].at = "checking" => request'[r] = request[r]
  PROVE  /\ SessionsAreConsented' /\ CodesAndGrants' /\ GrantsAreYounger' /\ CheckedHasGrant'
         /\ GrantAndSignInEndTogether'
<1>1. SessionsAreConsented'
  BY DEF IInv, SessionsAreConsented
<1>2. CodesAndGrants' /\ GrantsAreYounger'
  BY DEF IInv, CodesAndGrants, GrantsAreYounger, Made
<1>3. CheckedHasGrant' /\ GrantAndSignInEndTogether'
  BY DEF IInv, CheckedHasGrant, GrantAndSignInEndTogether, Made, Lives
<1>. QED  BY <1>1, <1>2, <1>3

\* A step of the consent page of p keeps the invariant when what p was used
\* for stays, and a sign-in begins only with an approval.
LEMMA PendingStep ==
  ASSUME IInv, NEW p \in Consents, pending' \in [Consents -> PendingRow], signIn' \in [SignIns -> SignInRow],
         UNCHANGED <<now, client, session, code, grant, token, request, hosted, orphaned>>,
         \A q \in Consents \ {p} : /\ pending'[q].posted = pending[q].posted
                                   /\ \/ pending'[q].state = pending[q].state
                                      \/ pending[q].state = "open" /\ pending'[q].state = "gone",
         pending[p].state = "gone" => pending'[p].state = "gone" /\ pending'[p].posted = pending[p].posted,
         pending[p].state # "none" => pending'[p].state # "none",
         pending[p].posted \subseteq pending'[p].posted,
         pending'[p].state = "none" => pending'[p].posted = {},
         pending'[p].state = "open" => pending'[p].posted \subseteq {Approved},
         \A n \in SignIns :
           \/ signIn'[n] = signIn[n]
           \/ signIn[n].at = "asking" /\ signIn'[n].consent = signIn[n].consent
           \/ /\ signIn[n].at = "none" /\ signIn'[n].consent = p
              /\ Approved \in pending'[p].posted /\ pending'[p].state # "none"
  PROVE  IInv'
<1>0. TypeOK
  BY DEF IInv
<1>1. TypeOK'
  BY <1>0 DEF TypeOK
<1>2. OpenIsUndenied'
  BY DEF IInv, OpenIsUndenied
<1>a. \A q \in Consents : /\ pending[q].state # "none" => pending'[q].state # "none"
                          /\ Approved \in pending[q].posted => Approved \in pending'[q].posted
  OBVIOUS
<1>3. SignInsAreApproved'
  <2>1. SUFFICES ASSUME NEW n \in SignIns, signIn'[n].at # "none"
                 PROVE  /\ signIn'[n].consent \in Consents
                        /\ pending'[signIn'[n].consent].state # "none"
                        /\ Approved \in pending'[signIn'[n].consent].posted
    BY DEF SignInsAreApproved, ConsentOf
  <2>2. CASE signIn[n].at # "none" /\ signIn'[n].consent = signIn[n].consent
    <3>1. /\ signIn[n].consent \in Consents /\ pending[signIn[n].consent].state # "none"
          /\ Approved \in pending[signIn[n].consent].posted
      BY <2>2 DEF IInv, SignInsAreApproved, ConsentOf
    <3>. QED  BY <2>2, <3>1, <1>a
  <2>3. CASE signIn'[n].consent = p /\ Approved \in pending'[p].posted /\ pending'[p].state # "none"
    BY <2>3
  <2>. QED  BY <2>1, <2>2, <2>3
<1>4. ASSUME NEW n \in SignIns, session[n].state # "none"
      PROVE  /\ signIn'[n] = signIn[n]
             /\ ConsentOf(n)'.state = ConsentOf(n).state /\ ConsentOf(n)'.posted = ConsentOf(n).posted
  <2>1. /\ signIn[n].at = "done" /\ ConsentOf(n).state = "gone" /\ signIn[n].consent \in Consents
    BY <1>4 DEF IInv, SessionsAreConsented, SignInsAreApproved
  <2>. QED  BY <2>1 DEF ConsentOf
<1>. QED  BY <1>1, <1>2, <1>3, <1>4, RestKept DEF IInv

\* Registering clients and showing, answering and losing consent pages.
LEMMA ConsentStep ==
  ASSUME IInv,
         \/ \E c \in Clients : registerClient(c) \/ \E p \in Consents : authorize(c, p)
         \/ \E p \in Consents, from \in {"shown", "other"} :
              CookieGone(p) \/ Deny(p, from) \/ \E n \in SignIns : Approve(p, from, n)
         \/ \E n \in SignIns : failSignIn(n)
  PROVE  IInv'
<1>0. /\ TypeOK /\ OpenIsUndenied
      /\ signIn \in [SignIns -> SignInRow] /\ pending \in [Consents -> PendingRow]
  BY DEF IInv, TypeOK
<1>1. ASSUME NEW c \in Clients, registerClient(c) PROVE IInv'
  <2>1. client' \in [Clients -> ClientRow]
    BY <1>0, <1>1 DEF registerClient, TypeOK, ClientRow
  <2>2. UNCHANGED <<now, pending, signIn, session, code, grant, token, request, hosted, orphaned>>
    BY <1>1 DEF registerClient, hostVars
  <2>3. TypeOK'
    BY <1>0, <2>1, <2>2 DEF TypeOK
  <2>4. OpenIsUndenied' /\ SignInsAreApproved'
    BY <2>2 DEF IInv, OpenIsUndenied, SignInsAreApproved, ConsentOf
  <2>. QED  BY <2>2, <2>3, <2>4, RestKept DEF IInv, ConsentOf
<1>2. ASSUME NEW c \in Clients, NEW p \in Consents, authorize(c, p) PROVE IInv'
  <2>1. pending'[p] = [state |-> "open", at |-> now, client |-> c, cookie |-> TRUE, posted |-> {}]
    BY <1>2 DEF authorize
  <2>2. \A q \in Consents \ {p} :
          pending'[q] = pending[q] \/ (pending[q].state = "open" /\ pending'[q] = Forgotten(pending[q]))
    BY <1>2 DEF authorize
  <2>3. pending'[p] \in PendingRow /\ pending'[p].state = "open" /\ pending'[p].posted = {}
    BY <1>0, <2>1 DEF TypeOK, PendingRow
  <2>4. \A q \in Consents : /\ Forgotten(pending[q]) \in PendingRow /\ Forgotten(pending[q]).state = "gone"
                            /\ Forgotten(pending[q]).posted = pending[q].posted
    BY <1>0 DEF Forgotten, PendingRow
  <2>5. pending' \in [Consents -> PendingRow]
    BY <1>0, <1>2, <2>2, <2>3, <2>4 DEF authorize
  <2>6. pending[p].posted = {} /\ pending[p].state = "none"
    BY <1>0, <1>2 DEF authorize, OpenIsUndenied
  <2>7. UNCHANGED <<now, client, signIn, session, code, grant, token, request, hosted, orphaned>>
    BY <1>2 DEF authorize, hostVars
  <2>8. \A q \in Consents \ {p} : /\ pending'[q].posted = pending[q].posted
                                  /\ \/ pending'[q].state = pending[q].state
                                     \/ pending[q].state = "open" /\ pending'[q].state = "gone"
    BY <2>2, <2>4
  <2>. QED  BY <1>0, <2>3, <2>5, <2>6, <2>7, <2>8, PendingStep
<1>3. ASSUME NEW p \in Consents, CookieGone(p) PROVE IInv'
  <2>1. /\ pending'[p] = [pending[p] EXCEPT !.cookie = FALSE]
        /\ \A q \in Consents \ {p} : pending'[q] = pending[q]
        /\ pending' \in [Consents -> PendingRow]
    BY <1>0, <1>3 DEF CookieGone, PendingRow
  <2>2. pending'[p].state = pending[p].state /\ pending'[p].posted = pending[p].posted
    BY <1>0, <2>1 DEF PendingRow
  <2>3. UNCHANGED <<now, client, signIn, session, code, grant, token, request, hosted, orphaned>>
    BY <1>3 DEF CookieGone, hostVars
  <2>. QED  BY <1>0, <2>1, <2>2, <2>3, PendingStep DEF OpenIsUndenied
<1>4. ASSUME NEW p \in Consents, NEW from \in {"shown", "other"}, Deny(p, from) PROVE IInv'
  <2>. DEFINE used == consumePending(p)
  <2>1. /\ used \in [Consents -> PendingRow] /\ used[p].state = "gone" /\ used[p].posted = pending[p].posted
        /\ pending[p].state = "open" /\ \A q \in Consents \ {p} : used[q] = pending[q]
    BY <1>0, <1>4, Consumed DEF Deny, unexpired
  <2>2. pending' = [used EXCEPT ![p].posted = @ \cup {<<from, "deny">>}]
    BY <1>4 DEF Deny
  <2>. HIDE DEF used
  <2>3. /\ pending'[p] = [used[p] EXCEPT !.posted = @ \cup {<<from, "deny">>}]
        /\ \A q \in Consents \ {p} : pending'[q] = used[q]
    BY <2>1, <2>2
  <2>4. used[p].posted \cup {<<from, "deny">>} \in SUBSET Forms
    BY <2>1 DEF PendingRow, Forms
  <2>5. /\ pending'[p] \in PendingRow /\ pending'[p].state = "gone"
        /\ pending'[p].posted = used[p].posted \cup {<<from, "deny">>}
    BY <2>1, <2>3, <2>4 DEF PendingRow
  <2>6. pending' \in [Consents -> PendingRow]
    BY <2>1, <2>2, <2>3, <2>5
  <2>7. UNCHANGED <<now, client, signIn, session, code, grant, token, request, hosted, orphaned>>
    BY <1>4 DEF Deny, hostVars
  <2>8. /\ pending[p].posted \subseteq pending'[p].posted
        /\ pending[p].state # "gone" /\ pending'[p].state # "none" /\ pending'[p].state # "open"
    BY <2>1, <2>5
  <2>9. \A q \in Consents \ {p} : pending'[q].posted = pending[q].posted /\ pending'[q].state = pending[q].state
    BY <2>1, <2>3
  <2>10. signIn' \in [SignIns -> SignInRow] /\ \A n \in SignIns : signIn'[n] = signIn[n]
    BY <1>0, <2>7
  <2>. QED  BY <2>6, <2>7, <2>8, <2>9, <2>10, PendingStep
<1>5. ASSUME NEW p \in Consents, NEW from \in {"shown", "other"}, NEW n \in SignIns, Approve(p, from, n)
      PROVE  IInv'
  <2>1. pending[p].state = "open" /\ from = "shown" /\ signIn[n].at = "none"
    BY <1>5 DEF Approve, unexpired
  <2>2. /\ pending'[p] = [pending[p] EXCEPT !.at = now, !.posted = @ \cup {Approved}]
        /\ \A q \in Consents \ {p} : pending'[q] = pending[q]
    BY <1>0, <1>5, <2>1 DEF Approve, Approved, PendingRow
  <2>3. pending[p].posted \cup {Approved} \in SUBSET Forms /\ now \in Nat
    BY <1>0 DEF PendingRow, Forms, Approved, TypeOK
  <2>4. /\ pending'[p] \in PendingRow /\ pending'[p].state = "open"
        /\ pending'[p].posted = pending[p].posted \cup {Approved}
    BY <1>0, <2>1, <2>2, <2>3 DEF PendingRow
  <2>5. pending' \in [Consents -> PendingRow]
    BY <1>0, <1>5, <2>2, <2>4 DEF Approve
  <2>6. /\ signIn'[n] = [at |-> "asking", consent |-> p] /\ \A m \in SignIns \ {n} : signIn'[m] = signIn[m]
        /\ signIn' \in [SignIns -> SignInRow]
    BY <1>0, <1>5 DEF Approve, SignInRow
  <2>7. UNCHANGED <<now, client, session, code, grant, token, request, hosted, orphaned>>
    BY <1>5 DEF Approve, hostVars
  <2>8. pending[p].posted \subseteq {Approved}
    BY <1>0, <2>1 DEF OpenIsUndenied
  <2>9. /\ pending[p].posted \subseteq pending'[p].posted /\ pending'[p].posted \subseteq {Approved}
        /\ pending[p].state # "gone" /\ pending'[p].state # "none"
    BY <2>1, <2>4, <2>8
  <2>10. \A q \in Consents \ {p} : pending'[q].posted = pending[q].posted /\ pending'[q].state = pending[q].state
    BY <2>2
  <2>11. \A m \in SignIns :
           \/ signIn'[m] = signIn[m]
           \/ /\ signIn[m].at = "none" /\ signIn'[m].consent = p
              /\ Approved \in pending'[p].posted /\ pending'[p].state # "none"
    BY <2>1, <2>4, <2>6
  <2>. QED  BY <2>5, <2>6, <2>7, <2>9, <2>10, <2>11, PendingStep
<1>6. ASSUME NEW n \in SignIns, failSignIn(n) PROVE IInv'
  <2>. DEFINE p == signIn[n].consent
  <2>1. p \in Consents /\ signIn[n].at = "asking"
    BY <1>6 DEF failSignIn, IInv, SignInsAreApproved
  <2>2. pending' = consumePending(p)
    BY <1>6 DEF failSignIn
  <2>3. /\ pending' \in [Consents -> PendingRow] /\ \A q \in Consents \ {p} : pending'[q] = pending[q]
        /\ pending'[p].posted = pending[p].posted
        /\ pending'[p].state = IF pending[p].state = "open" THEN "gone" ELSE pending[p].state
    BY <1>0, <2>1, <2>2, Consumed
  <2>4. /\ signIn'[n] = [signIn[n] EXCEPT !.at = "done"] /\ \A m \in SignIns \ {n} : signIn'[m] = signIn[m]
    BY <1>0, <1>6 DEF failSignIn
  <2>5. signIn'[n].consent = p /\ signIn' \in [SignIns -> SignInRow]
    BY <1>0, <1>6, <2>4 DEF failSignIn, SignInRow
  <2>6. UNCHANGED <<now, client, session, code, grant, token, request, hosted, orphaned>>
    BY <1>6 DEF failSignIn, hostVars
  <2>7. pending'[p].state = "none" => pending'[p].posted = {}
    BY <1>0, <2>1, <2>3 DEF OpenIsUndenied
  <2>. QED  BY <2>1, <2>3, <2>4, <2>5, <2>6, <2>7, PendingStep
<1>. QED  BY <1>1, <1>2, <1>3, <1>4, <1>5, <1>6

\* The provider's answer uses the consent up; the session it may lead to is
\* the first and only one of that consent.
LEMMA FinishStep ==
  ASSUME IInv, NEW n \in SignIns, NEW admin \in BOOLEAN, NEW s \in 1..3, finishSignIn(n, admin, s)
  PROVE  IInv'
<1>. DEFINE p == signIn[n].consent
<1>0. /\ TypeOK /\ OpenIsUndenied /\ SignInsAreApproved /\ SessionsAreConsented /\ CodesAndGrants
      /\ GrantsAreYounger /\ CheckedHasGrant /\ GrantAndSignInEndTogether
  BY DEF IInv
<1>1. /\ p \in Consents /\ signIn[n].at = "asking" /\ Approved \in pending[p].posted /\ pending[p].state # "none"
      /\ session[n].state = "none"
  BY <1>0 DEF finishSignIn, SignInsAreApproved, SessionsAreConsented, ConsentOf
<1>2. /\ pending' \in [Consents -> PendingRow] /\ \A q \in Consents \ {p} : pending'[q] = pending[q]
      /\ pending'[p].posted = pending[p].posted /\ pending'[p].state = "gone"
  <2>1. pending' = consumePending(p) /\ pending[p] \in PendingRow
    BY <1>0, <1>1 DEF finishSignIn, TypeOK
  <2>2. pending[p].state \in {"none", "open", "gone"}
    BY <2>1 DEF PendingRow
  <2>. QED  BY <1>0, <1>1, <2>1, <2>2, Consumed
<1>3. /\ signIn' \in [SignIns -> SignInRow] /\ signIn'[n].at = "done" /\ signIn'[n].consent = p
      /\ \A m \in SignIns \ {n} : signIn'[m] = signIn[m]
  <2>1. signIn[n] \in SignInRow /\ signIn \in [SignIns -> SignInRow]
    BY <1>0 DEF TypeOK
  <2>2. signIn'[n] = [signIn[n] EXCEPT !.at = "done"] /\ \A m \in SignIns \ {n} : signIn'[m] = signIn[m]
    BY <2>1 DEF finishSignIn
  <2>3. signIn'[n] \in SignInRow /\ signIn'[n].at = "done" /\ signIn'[n].consent = p
    BY <2>1, <2>2 DEF SignInRow
  <2>. QED  BY <2>1, <2>2, <2>3 DEF finishSignIn
<1>4. UNCHANGED <<now, client, grant, token, orphaned>>
  BY DEF finishSignIn
<1>5. /\ request' \in [Requests -> Request] /\ DOMAIN hosted' = Hosted
      /\ \A r \in Requests : request'[r].at = "checking" => request'[r] = request[r]
  <2>1. Completes(s < 3) /\ (s < 3) \in BOOLEAN
    BY DEF finishSignIn
  <2>. QED  BY <1>0, <2>1, Completion
<1>6. OpenIsUndenied'
  BY <1>0, <1>2 DEF OpenIsUndenied
<1>7. SignInsAreApproved'
  <2>1. ASSUME NEW m \in SignIns, signIn'[m].at # "none"
        PROVE  signIn'[m].consent \in Consents /\ ConsentOf(m)'.state # "none" /\ Approved \in ConsentOf(m)'.posted
    BY <1>0, <1>1, <1>2, <1>3, <2>1 DEF SignInsAreApproved, ConsentOf
  <2>. QED  BY <2>1 DEF SignInsAreApproved
<1>8. CASE UNCHANGED <<session, code>>
  <2>1. TypeOK'
    BY <1>0, <1>2, <1>3, <1>4, <1>5, <1>8 DEF TypeOK
  <2>2. ASSUME NEW m \in SignIns, session[m].state # "none"
        PROVE  /\ signIn'[m] = signIn[m]
               /\ ConsentOf(m)'.state = ConsentOf(m).state /\ ConsentOf(m)'.posted = ConsentOf(m).posted
    <3>1. signIn[m].at = "done" /\ ConsentOf(m).state = "gone" /\ signIn[m].consent \in Consents
      BY <1>0, <2>2 DEF SessionsAreConsented, SignInsAreApproved
    <3>. QED  BY <1>1, <1>2, <1>3, <3>1 DEF ConsentOf
  <2>. QED  BY <1>4, <1>5, <1>6, <1>7, <1>8, <2>1, <2>2, RestKept DEF IInv
<1>9. CASE unexpired(p) /\ Issue(n, admin, s) /\ s > 1
  <2>1. pending[p].state = "open" /\ pending[p].posted = {Approved}
    BY <1>0, <1>1, <1>9 DEF unexpired, OpenIsUndenied
  <2>2. code[n].state = "none" /\ \A g \in Grants : Made(g) => grant[g].signIn # n
    BY <1>0, <1>1 DEF CodesAndGrants, TypeOK, CodeRow, RowState
  <2>3. /\ session' = [session EXCEPT ![n] = [state |-> "live", created |-> now, admin |-> admin]]
        /\ [state |-> "live", created |-> now, admin |-> admin] \in SessionRow
    BY <1>0, <1>9 DEF Issue, SessionRow, RowState, TypeOK
  <2>4. /\ session' \in [SignIns -> SessionRow] /\ session'[n].state = "live" /\ session'[n].created = now
        /\ \A m \in SignIns \ {n} : session'[m] = session[m]
    BY <1>0, <2>3 DEF TypeOK
  <2>5. [state |-> "live", created |-> now, client |-> pending[p].client] \in CodeRow
    BY <1>0, <1>1 DEF CodeRow, RowState, TypeOK, PendingRow
  <2>6. /\ code' \in [SignIns -> CodeRow]
        /\ \A m \in SignIns \ {n} : code'[m] = code[m] \/ (code[m].state = "live" /\ code'[m] = Used)
        /\ code'[n].state # "gone"
    BY <1>0, <1>9, <2>2, <2>5, RowTypes DEF Issue, TypeOK
  <2>7. TypeOK'
    BY <1>0, <1>2, <1>3, <1>4, <1>5, <2>4, <2>6 DEF TypeOK
  <2>8. ASSUME NEW m \in SignIns, session[m].state # "none"
        PROVE  /\ signIn[m].at = "done" /\ ConsentOf(m).state = "gone" /\ signIn[m].consent \in Consents
               /\ ConsentOf(m).posted = {Approved} /\ signIn[m].consent # p /\ m # n
    BY <1>0, <1>1, <2>1, <2>8 DEF SessionsAreConsented, SignInsAreApproved, ConsentOf
  <2>9. SessionsAreConsented'
    <3>1. ASSUME NEW m \in SignIns, session'[m].state # "none"
          PROVE  signIn'[m].at = "done" /\ ConsentOf(m)'.state = "gone" /\ ConsentOf(m)'.posted = {Approved}
      <4>1. CASE m = n
        BY <1>1, <1>2, <1>3, <2>1, <4>1 DEF ConsentOf
      <4>2. CASE m # n
        <5>1. session[m].state # "none" /\ signIn'[m] = signIn[m]
          BY <1>3, <2>4, <3>1, <4>2
        <5>2. signIn[m].consent \in Consents \ {p} /\ ConsentOf(m).state = "gone"
              /\ ConsentOf(m).posted = {Approved} /\ signIn[m].at = "done"
          BY <2>8, <5>1
        <5>. QED  BY <1>2, <5>1, <5>2 DEF ConsentOf
      <4>. QED  BY <4>1, <4>2
    <3>2. ASSUME NEW m \in SignIns, NEW k \in SignIns, session'[m].state # "none", session'[k].state # "none", m # k
          PROVE  signIn'[m].consent # signIn'[k].consent
      BY <1>0, <1>3, <2>4, <2>8, <3>2 DEF SessionsAreConsented
    <3>. QED  BY <3>1, <3>2 DEF SessionsAreConsented
  <2>10. CodesAndGrants'
    <3>1. \A m \in SignIns : code'[m].state # "none" => session'[m].state # "none"
      BY <1>0, <2>4, <2>6 DEF CodesAndGrants
    <3>2. \A g \in Grants : Made(g) => grant[g].signIn \in SignIns \ {n} /\ code'[grant[g].signIn].state = "gone"
      BY <1>0, <2>2, <2>6 DEF CodesAndGrants
    <3>. QED  BY <1>0, <1>4, <3>1, <3>2 DEF CodesAndGrants, Made
  <2>11. \A g \in Grants : Made(g) => session'[grant[g].signIn] = session[grant[g].signIn]
    BY <1>0, <2>2, <2>4 DEF CodesAndGrants
  <2>12. GrantsAreYounger'
    <3>1. now \in Nat
      BY <1>0 DEF TypeOK
    <3>. QED  BY <1>0, <1>4, <2>4, <2>11, <3>1 DEF GrantsAreYounger, Made
  <2>13. CheckedHasGrant' /\ GrantAndSignInEndTogether'
    BY <1>0, <1>4, <1>5, <2>11 DEF CheckedHasGrant, GrantAndSignInEndTogether, Made, Lives
  <2>. QED  BY <1>6, <1>7, <2>7, <2>9, <2>10, <2>12, <2>13 DEF IInv
<1>10. UNCHANGED <<session, code>> \/ (unexpired(p) /\ Issue(n, admin, s) /\ s > 1)
  BY DEF finishSignIn, Issue
<1>. QED  BY <1>8, <1>9, <1>10

\* What a step may do to sessions, codes, grants and requests: sessions do
\* not come back, codes are used up, a grant stays, ends with its sign-in or
\* is the one grant made of a code, and a request is only checked for a grant
\* that was not orphaned.
Stays(g) == /\ grant'[g].state = grant[g].state /\ grant'[g].signIn = grant[g].signIn
            /\ grant[g].state = "live" => grant'[g].created = grant[g].created
Ends(g) == /\ grant[g].state = "live" /\ grant'[g].state = "gone" /\ grant'[g].signIn = grant[g].signIn
           /\ ~Lives(grant[g].signIn)' \/ grant[g].signIn \in orphaned'
Begins(g) == /\ grant[g].state = "none" /\ grant'[g].state = "live" /\ grant'[g].created = now
             /\ grant'[g].signIn \in SignIns
             /\ code[grant'[g].signIn].state = "live" /\ code'[grant'[g].signIn].state = "gone"

LEMMA GrantStep ==
  ASSUME IInv, TypeOK', UNCHANGED <<now, pending, signIn>>, orphaned \subseteq orphaned',
         \A n \in SignIns : /\ session'[n].created <= session[n].created
                            /\ session'[n].state = "none" <=> session[n].state = "none"
                            /\ Lives(n)' => Lives(n),
         \A n \in SignIns : /\ code'[n].state = "none" <=> code[n].state = "none"
                            /\ code[n].state = "gone" => code'[n].state = "gone",
         \A g \in Grants : Stays(g) \/ Ends(g) \/ Begins(g),
         \A g, h \in Grants : Begins(g) /\ Begins(h) => g = h,
         \A r \in Requests : request'[r].at = "checking" =>
           \/ /\ request'[r] = request[r]
              /\ \A g \in Grants : Ends(g) => ~Lives(grant[g].signIn)'
           \/ request'[r].grant \in Grants /\ grant'[request'[r].grant].state = "live"
  PROVE  IInv'
<1>0. /\ TypeOK /\ OpenIsUndenied /\ SignInsAreApproved /\ SessionsAreConsented /\ CodesAndGrants
      /\ GrantsAreYounger /\ CheckedHasGrant /\ GrantAndSignInEndTogether
  BY DEF IInv
<1>1. OpenIsUndenied' /\ SignInsAreApproved'
  BY <1>0 DEF OpenIsUndenied, SignInsAreApproved, ConsentOf
<1>2. SessionsAreConsented'
  BY <1>0 DEF SessionsAreConsented, ConsentOf
<1>3. \A n \in SignIns : session'[n].created <= now /\ session'[n].created \in Nat
  BY <1>0 DEF GrantsAreYounger, TypeOK, SessionRow
<1>4. ASSUME NEW g \in Grants, Made(g)
      PROVE  /\ grant[g].signIn \in SignIns /\ code[grant[g].signIn].state = "gone" /\ ~Begins(g)
             /\ code'[grant[g].signIn].state = "gone" /\ grant'[g].signIn = grant[g].signIn
  BY <1>0, <1>4 DEF CodesAndGrants, Made, Stays, Ends, Begins
<1>5. CodesAndGrants'
  <2>1. \A n \in SignIns : code'[n].state # "none" => session'[n].state # "none"
    BY <1>0 DEF CodesAndGrants
  <2>2. ASSUME NEW g \in Grants, Made(g)'
        PROVE  /\ Made(g) \/ Begins(g)
               /\ grant'[g].signIn \in SignIns /\ code'[grant'[g].signIn].state = "gone"
    BY <1>4, <2>2 DEF Made, Stays, Ends, Begins
  <2>3. ASSUME NEW g \in Grants, NEW h \in Grants, Made(g)', Made(h)', g # h
        PROVE  grant'[g].signIn # grant'[h].signIn
    <3>1. CASE Made(g) /\ Made(h)
      BY <1>0, <1>4, <2>3, <3>1 DEF CodesAndGrants
    <3>2. CASE Made(g) /\ Begins(h)
      <4>1. code[grant'[g].signIn].state = "gone" /\ code[grant'[h].signIn].state = "live"
        BY <1>4, <3>2 DEF Begins
      <4>. QED  BY <4>1
    <3>3. CASE Begins(g) /\ Made(h)
      <4>1. code[grant'[h].signIn].state = "gone" /\ code[grant'[g].signIn].state = "live"
        BY <1>4, <3>3 DEF Begins
      <4>. QED  BY <4>1
    <3>. QED  BY <2>2, <2>3, <3>1, <3>2, <3>3
  <2>. QED  BY <2>1, <2>2, <2>3 DEF CodesAndGrants
<1>6. GrantsAreYounger'
  <2>1. ASSUME NEW g \in Grants, grant'[g].state = "live"
        PROVE  session'[grant'[g].signIn].created <= grant'[g].created
    <3>1. CASE Begins(g)
      BY <1>3, <3>1 DEF Begins
    <3>2. CASE Stays(g)
      <4>1. Made(g) /\ grant[g].state = "live" /\ grant'[g].signIn = grant[g].signIn /\ grant'[g].created = grant[g].created
        BY <2>1, <3>2 DEF Stays, Made
      <4>2. grant[g].signIn \in SignIns /\ session[grant[g].signIn].created <= grant[g].created
        BY <1>0, <1>4, <4>1 DEF GrantsAreYounger
      <4>3. session[grant[g].signIn].created \in Nat /\ grant[g].created \in Nat
        BY <1>0, <4>2 DEF TypeOK, SessionRow, GrantRow
      <4>. QED  BY <1>3, <4>1, <4>2, <4>3
    <3>. QED  BY <2>1, <3>1, <3>2 DEF Ends
  <2>. QED  BY <1>3, <2>1 DEF GrantsAreYounger
<1>7. CheckedHasGrant'
  <2>1. ASSUME NEW r \in Requests, request'[r].at = "checking",
               request'[r] = request[r], \A g \in Grants : Ends(g) => ~Lives(grant[g].signIn)'
        PROVE  /\ request'[r].grant \in Grants /\ Made(request[r].grant)'
               /\ grant'[request'[r].grant].state = "gone" => ~Lives(grant[request[r].grant].signIn)'
    <3>. DEFINE g == request[r].grant
    <3>1. g \in Grants /\ Made(g) /\ (grant[g].state = "gone" => ~Lives(grant[g].signIn))
      BY <1>0, <2>1 DEF CheckedHasGrant
    <3>2. grant[g].signIn \in SignIns /\ grant'[g].signIn = grant[g].signIn /\ (Stays(g) \/ Ends(g))
      BY <1>4, <3>1
    <3>3. Made(g)'
      BY <2>1, <3>1, <3>2 DEF Stays, Ends, Made
    <3>4. grant'[g].state = "gone" => ~Lives(grant[g].signIn)'
      BY <2>1, <3>1, <3>2 DEF Stays
    <3>. QED  BY <2>1, <3>1, <3>3, <3>4
  <2>2. ASSUME NEW r \in Requests, request'[r].grant \in Grants, grant'[request'[r].grant].state = "live"
        PROVE  Made(request[r].grant)' /\ grant'[request'[r].grant].state # "gone"
    BY <2>2 DEF Made
  <2>. QED  BY <2>1, <2>2 DEF CheckedHasGrant
<1>8. GrantAndSignInEndTogether'
  <2>1. ASSUME NEW g \in Grants, grant'[g].state = "gone"
        PROVE  ~Lives(grant[g].signIn)' \/ grant'[g].signIn \in orphaned'
    <3>1. Made(g) /\ (Stays(g) \/ Ends(g))
      BY <2>1 DEF Stays, Ends, Begins, Made
    <3>2. grant[g].signIn \in SignIns /\ grant'[g].signIn = grant[g].signIn
      BY <1>4, <3>1
    <3>3. ~Lives(grant[g].signIn)' \/ grant[g].signIn \in orphaned'
      BY <1>0, <2>1, <3>1, <3>2 DEF Stays, Ends, GrantAndSignInEndTogether
    <3>. QED  BY <3>2, <3>3
  <2>. QED  BY <2>1 DEF GrantAndSignInEndTogether
<1>. QED  BY <1>1, <1>2, <1>5, <1>6, <1>7, <1>8 DEF IInv

\* A code is used up; a grant may be made of it, and the grants that are
\* purged are older than their sign-ins may get.
LEMMA ExchangeStep ==
  ASSUME IInv, NEW c \in Clients, NEW n \in SignIns, NEW matches \in BOOLEAN, NEW s \in 0..5,
         exchangeAuthorizationCode(c, n, matches, s)
  PROVE  IInv'
<1>0. /\ TypeOK /\ CodesAndGrants /\ GrantsAreYounger
      /\ now \in Nat /\ client \in [Clients -> ClientRow] /\ code \in [SignIns -> CodeRow]
      /\ session \in [SignIns -> SessionRow] /\ grant \in [Grants -> GrantRow]
      /\ token \subseteq [grant : Grants, exp : Nat]
  BY DEF IInv, TypeOK
<1>1. UNCHANGED <<now, pending, signIn, session, orphaned>> /\ code[n].state = "live"
  BY DEF exchangeAuthorizationCode
<1>2. code' \in [SignIns -> CodeRow] /\ code'[n].state = "gone" /\ \A m \in SignIns \ {n} : code'[m] = code[m]
  BY <1>0, RowTypes DEF exchangeAuthorizationCode, Used
<1>3. /\ request' \in [Requests -> Request] /\ DOMAIN hosted' = Hosted
      /\ \A r \in Requests : request'[r].at = "checking" => request'[r] = request[r]
  <2>1. Completes(s < 5) /\ (s < 5) \in BOOLEAN
    BY DEF exchangeAuthorizationCode
  <2>. QED  BY <1>0, <2>1, Completion
<1>4. \A m \in SignIns : Lives(m)' <=> Lives(m)
  BY <1>1 DEF Lives
<1>5. CASE UNCHANGED <<client, grant, token>>
  <2>1. TypeOK'
    BY <1>0, <1>1, <1>2, <1>3, <1>5 DEF TypeOK
  <2>2. \A g \in Grants : Stays(g) /\ ~Begins(g) /\ ~Ends(g)
    BY <1>5 DEF Stays, Begins, Ends
  <2>3. \A m \in SignIns : session[m].created \in Nat
    BY <1>0 DEF SessionRow
  <2>. QED  BY <1>1, <1>2, <1>3, <1>4, <2>1, <2>2, <2>3, GrantStep
<1>6. ASSUME NEW g \in Grants, grant[g].state = "none", createGrant(c, n, g, s) PROVE IInv'
  <2>. DEFINE purged == [h \in Grants |-> IF s > 1 /\ Old(h) THEN Ended(grant[h]) ELSE grant[h]]
              left == IF s > 0 THEN {t \in token : ~Old(t.grant)} ELSE token
              new == [state |-> "live", client |-> c, signIn |-> n, refresh |-> 0, created |-> now]
  <2>1. client' \in [Clients -> ClientRow]
    BY <1>0, <1>6 DEF createGrant, ClientRow
  <2>2. new \in GrantRow
    BY <1>0 DEF GrantRow, RowState
  <2>3. /\ purged \in [Grants -> GrantRow] /\ purged[g] = grant[g]
        /\ \A h \in Grants : \/ purged[h] = grant[h]
                             \/ /\ Old(h) /\ purged[h].state = "gone" /\ purged[h].signIn = grant[h].signIn
    BY <1>0, <1>6, RowTypes DEF Old
  <2>4. left \in SUBSET [grant : Grants, exp : Nat]
    BY <1>0
  <2>5. /\ grant' = IF s > 3 THEN [purged EXCEPT ![g] = new] ELSE purged
        /\ token' = IF s > 4 THEN issueAccess(left, g) ELSE left
    BY <1>6 DEF createGrant
  <2>. HIDE DEF purged, left
  <2>6. token' \subseteq [grant : Grants, exp : Nat]
    BY <1>0, <2>4, <2>5, AccessType
  <2>7. /\ grant' \in [Grants -> GrantRow]
        /\ grant'[g] = grant[g] \/ grant'[g] = new
        /\ \A h \in Grants \ {g} : grant'[h] = purged[h]
    BY <2>2, <2>3, <2>5
  <2>8. TypeOK'
    BY <1>0, <1>1, <1>2, <1>3, <2>1, <2>6, <2>7 DEF TypeOK
  <2>9. ASSUME NEW h \in Grants, Old(h) PROVE ~Lives(grant[h].signIn) /\ grant[h].signIn \in SignIns
    <3>1. /\ grant[h].state = "live" /\ grant[h].signIn \in SignIns
          /\ session[grant[h].signIn].created <= grant[h].created
      BY <1>0, <2>9 DEF Old, CodesAndGrants, GrantsAreYounger, Made
    <3>2. session[grant[h].signIn].created \in Nat /\ grant[h].created \in Nat /\ SessionMaxAge \in Nat
      BY <1>0, <3>1, TtlAssumption DEF SessionRow, GrantRow
    <3>. QED  BY <1>0, <2>9, <3>1, <3>2 DEF Old, Lives
  <2>10. ASSUME NEW h \in Grants \ {g} PROVE (Stays(h) \/ Ends(h)) /\ (Ends(h) => ~Lives(grant[h].signIn)')
    <3>1. CASE grant'[h] = grant[h]
      BY <3>1 DEF Stays, Ends
    <3>2. CASE Old(h) /\ grant'[h].state = "gone" /\ grant'[h].signIn = grant[h].signIn
      <4>1. ~Lives(grant[h].signIn)'
        BY <1>4, <2>9, <3>2
      <4>. QED  BY <3>2, <4>1 DEF Ends, Old
    <3>. QED  BY <2>3, <2>7, <3>1, <3>2
  <2>11. Stays(g) \/ Begins(g)
    <3>1. CASE grant'[g] = new
      BY <1>1, <1>2, <1>6, <3>1 DEF Begins
    <3>. QED  BY <2>7, <3>1 DEF Stays
  <2>12. /\ \A h \in Grants : Stays(h) \/ Ends(h) \/ Begins(h)
         /\ \A h \in Grants : Begins(h) => h = g
         /\ \A h \in Grants : Ends(h) => ~Lives(grant[h].signIn)'
    BY <1>6, <2>10, <2>11 DEF Stays, Ends, Begins
  <2>13. \A m \in SignIns : session[m].created \in Nat
    BY <1>0 DEF SessionRow
  <2>. QED  BY <1>1, <1>2, <1>3, <1>4, <2>8, <2>12, <2>13, GrantStep
<1>. QED  BY <1>5, <1>6 DEF exchangeAuthorizationCode

\* The refresh token is rotated, or the grant of a sign-in that is over ends.
LEMMA RefreshStep ==
  ASSUME IInv, NEW c \in Clients, NEW g \in Grants, NEW s \in 1..2, exchangeRefreshToken(c, g, s)
  PROVE  IInv'
<1>0. /\ TypeOK /\ CodesAndGrants /\ grant \in [Grants -> GrantRow] /\ grant[g] \in GrantRow
      /\ token \subseteq [grant : Grants, exp : Nat]
  BY DEF IInv, TypeOK
<1>1. UNCHANGED <<now, client, pending, signIn, code, session, orphaned>> /\ grant[g].state = "live"
  BY DEF exchangeRefreshToken, oauthVars
<1>2. /\ request' \in [Requests -> Request] /\ DOMAIN hosted' = Hosted
      /\ \A r \in Requests : request'[r].at = "checking" => request'[r] = request[r]
  <2>1. Completes(s < 2) /\ (s < 2) \in BOOLEAN
    BY DEF exchangeRefreshToken
  <2>. QED  BY <1>0, <2>1, Completion
<1>3. \A m \in SignIns : (Lives(m)' <=> Lives(m)) /\ session[m].created \in Nat
  BY <1>0, <1>1 DEF Lives, TypeOK, SessionRow
<1>4. /\ grant' \in [Grants -> GrantRow] /\ token' \subseteq [grant : Grants, exp : Nat]
      /\ Stays(g) \/ (Ends(g) /\ ~Lives(grant[g].signIn)')
      /\ \A h \in Grants \ {g} : Stays(h)
  <2>1. CASE deleteGrant(g) /\ ~Lives(grant[g].signIn)
    <3>1. /\ grant' \in [Grants -> GrantRow] /\ token' \subseteq [grant : Grants, exp : Nat]
          /\ grant'[g].state = "gone" /\ grant'[g].signIn = grant[g].signIn
          /\ \A h \in Grants \ {g} : grant'[h] = grant[h]
      BY <1>0, <2>1, Deleted
    <3>2. grant[g].signIn \in SignIns
      BY <1>0, <1>1 DEF CodesAndGrants, Made
    <3>3. ~Lives(grant[g].signIn)'
      BY <1>3, <2>1, <3>1, <3>2
    <3>. QED  BY <1>1, <3>1, <3>3 DEF Ends, Stays
  <2>2. CASE /\ grant' = [grant EXCEPT ![g].refresh = @ + 1]
             /\ token' = IF s < 2 THEN token ELSE issueAccess(token, g)
    <3>1. grant'[g] = [grant[g] EXCEPT !.refresh = @ + 1] /\ \A h \in Grants \ {g} : grant'[h] = grant[h]
      BY <1>0, <2>2
    <3>2. /\ grant'[g] \in GrantRow /\ grant'[g].state = grant[g].state
          /\ grant'[g].signIn = grant[g].signIn /\ grant'[g].created = grant[g].created
      BY <1>0, <3>1 DEF GrantRow
    <3>3. grant' \in [Grants -> GrantRow]
      BY <1>0, <2>2, <3>1, <3>2
    <3>4. token' \subseteq [grant : Grants, exp : Nat]
      BY <1>0, <2>2, AccessType
    <3>. QED  BY <3>1, <3>2, <3>3, <3>4 DEF Stays
  <2>. QED  BY <2>1, <2>2 DEF exchangeRefreshToken
<1>5. TypeOK'
  BY <1>0, <1>1, <1>2, <1>4 DEF TypeOK
<1>6. \A h \in Grants : /\ Stays(h) \/ Ends(h)
                        /\ ~Begins(h)
                        /\ Ends(h) => ~Lives(grant[h].signIn)'
  BY <1>4 DEF Stays, Ends, Begins
<1>. QED  BY <1>1, <1>2, <1>3, <1>5, <1>6, GrantStep

\* A session that is ended does not live, and no other changes.
LEMMA SessionEnds ==
  ASSUME TypeOK, NEW n \in SignIns, session[n].state # "none", session' = ended(n), UNCHANGED now
  PROVE  /\ session' \in [SignIns -> SessionRow] /\ ~Lives(n)'
         /\ \A m \in SignIns : /\ session'[m].created <= session[m].created
                               /\ session'[m].state = "none" <=> session[m].state = "none"
                               /\ Lives(m)' => Lives(m)
<1>1. session \in [SignIns -> SessionRow] /\ session[n] \in SessionRow /\ \A m \in SignIns : session[m].created \in Nat
  BY DEF TypeOK, SessionRow
<1>2. /\ session'[n] = [session[n] EXCEPT !.state = "gone", !.created = 0]
      /\ \A m \in SignIns \ {n} : session'[m] = session[m]
  BY <1>1 DEF ended, SessionRow
<1>3. session'[n] \in SessionRow /\ session'[n].state = "gone" /\ session'[n].created = 0
  <2>1. session[n].admin \in BOOLEAN
    BY <1>1 DEF SessionRow
  <2>2. session'[n] = [state |-> "gone", created |-> 0, admin |-> session[n].admin]
    BY <1>1, <1>2 DEF SessionRow
  <2>3. [state |-> "gone", created |-> 0, admin |-> session[n].admin] \in SessionRow
    BY <2>1 DEF SessionRow, RowState
  <2>. QED  BY <2>2, <2>3
<1>4. session' \in [SignIns -> SessionRow]
  BY <1>1, <1>2, <1>3 DEF ended
<1>5. \A m \in SignIns : m = n => ~Lives(m)'
  BY <1>3 DEF Lives
<1>6. \A m \in SignIns : m # n => (Lives(m)' <=> Lives(m))
  BY <1>2 DEF Lives
<1>7. \A m \in SignIns : /\ session'[m].created <= session[m].created
                         /\ session'[m].state = "none" <=> session[m].state = "none"
  <2>1. session'[n].created <= session[n].created /\ session'[n].state # "none"
    BY <1>1, <1>3
  <2>2. \A m \in SignIns \ {n} : session'[m] = session[m] /\ session[m].created <= session[m].created
    BY <1>1, <1>2
  <2>. QED  BY <2>1, <2>2
<1>. QED  BY <1>4, <1>5, <1>6, <1>7

\* Revoking a grant ends it with its sign-in, or orphans the sign-in and cuts
\* every request short.
LEMMA RevokeStep ==
  ASSUME IInv, NEW c \in Clients, NEW g \in Grants, NEW s \in 1..2, RevokeGrant(c, g, s)
  PROVE  IInv'
<1>. DEFINE n == grant[g].signIn
<1>0. /\ TypeOK /\ CodesAndGrants /\ grant \in [Grants -> GrantRow] /\ grant[g] \in GrantRow
  BY DEF IInv, TypeOK
<1>1. UNCHANGED <<now, client, pending, signIn, code>> /\ grant[g].state = "live"
  BY DEF RevokeGrant, oauthVars
<1>2. n \in SignIns /\ session[n].state # "none"
  BY <1>0, <1>1 DEF CodesAndGrants, Made
<1>3. /\ request' \in [Requests -> Request] /\ DOMAIN hosted' = Hosted
      /\ \A r \in Requests : request'[r].at = "checking" => request'[r] = request[r] /\ s = 2
  <2>1. Completes(s < 2) /\ (s < 2) \in BOOLEAN
    BY DEF RevokeGrant
  <2>2. /\ request' \in [Requests -> Request] /\ DOMAIN hosted' = Hosted
        /\ \A r \in Requests : request'[r].at = "checking" => request'[r] = request[r] /\ ~(s < 2)
    BY <1>0, <2>1, Completion
  <2>. QED  BY <2>2
<1>4. /\ grant' \in [Grants -> GrantRow] /\ token' \subseteq [grant : Grants, exp : Nat]
      /\ grant'[g].state = "gone" /\ grant'[g].signIn = grant[g].signIn
      /\ \A h \in Grants \ {g} : grant'[h] = grant[h]
  BY <1>0, Deleted DEF RevokeGrant
<1>5. /\ session' \in [SignIns -> SessionRow]
      /\ \A m \in SignIns : /\ session'[m].created <= session[m].created
                            /\ session'[m].state = "none" <=> session[m].state = "none"
                            /\ Lives(m)' => Lives(m)
      /\ orphaned \subseteq orphaned' /\ orphaned' \subseteq SignIns
      /\ IF s = 2 THEN ~Lives(grant[g].signIn)' ELSE n \in orphaned'
  <2>1. CASE s = 1
    <3>1. session' = session /\ orphaned' = orphaned \cup {n}
      BY <2>1 DEF RevokeGrant
    <3>2. \A m \in SignIns : session[m].created \in Nat
      BY <1>0 DEF TypeOK, SessionRow
    <3>. QED  BY <1>0, <1>1, <1>2, <2>1, <3>1, <3>2 DEF Lives, TypeOK
  <2>2. CASE s = 2
    <3>1. session' = ended(n) /\ orphaned' = orphaned
      BY <2>2 DEF RevokeGrant
    <3>2. /\ session' \in [SignIns -> SessionRow]
          /\ \A m \in SignIns : m = n => ~Lives(m)'
          /\ \A m \in SignIns : /\ session'[m].created <= session[m].created
                                /\ session'[m].state = "none" <=> session[m].state = "none"
                                /\ Lives(m)' => Lives(m)
      BY <1>0, <1>1, <1>2, <3>1, SessionEnds
    <3>3. ~Lives(grant[g].signIn)'
      BY <1>2, <1>4, <3>2
    <3>. QED  BY <1>0, <2>2, <3>1, <3>2, <3>3 DEF TypeOK
  <2>. QED  BY <2>1, <2>2
<1>6. TypeOK'
  BY <1>0, <1>1, <1>3, <1>4, <1>5 DEF TypeOK
<1>7. Ends(g) /\ (s = 2 => ~Lives(grant[g].signIn)')
  BY <1>1, <1>4, <1>5 DEF Ends
<1>8. \A h \in Grants : /\ Stays(h) \/ Ends(h)
                        /\ ~Begins(h)
                        /\ s = 2 /\ Ends(h) => ~Lives(grant[h].signIn)'
  BY <1>4, <1>7 DEF Stays, Ends, Begins
<1>. QED  BY <1>1, <1>3, <1>5, <1>6, <1>8, GrantStep

\* Steps that touch only access tokens, requests and hosted sessions.
LEMMA HostStep ==
  ASSUME IInv, UNCHANGED <<now, client, pending, signIn, code, session, grant, orphaned>>, token' \subseteq token,
         request' \in [Requests -> Request], DOMAIN hosted' = Hosted,
         \A r \in Requests : request'[r].at = "checking" =>
           request'[r] = request[r] \/ (request'[r].grant \in Grants /\ grant[request'[r].grant].state = "live")
  PROVE  IInv'
<1>0. TypeOK /\ token \subseteq [grant : Grants, exp : Nat]
  BY DEF IInv, TypeOK
<1>1. token' \subseteq [grant : Grants, exp : Nat]
  BY <1>0
<1>2. TypeOK'
  BY <1>0, <1>1 DEF TypeOK
<1>3. \A m \in SignIns : (Lives(m)' <=> Lives(m)) /\ session[m].created \in Nat
  BY <1>0 DEF Lives, TypeOK, SessionRow
<1>4. \A g \in Grants : Stays(g) /\ ~Ends(g) /\ ~Begins(g)
  BY DEF Stays, Ends, Begins
<1>. QED  BY <1>2, <1>3, <1>4, GrantStep

LEMMA RequestStep ==
  ASSUME IInv,
         \/ \E t \in token : (\E c \in Clients : RevokeAccess(c, t)) \/ \E r \in Requests : resolveAccess(r, t)
         \/ \E r \in Requests : WithApiKey(r) \/ ResponseCloses(r)
         \/ \E h \in Hosted : ClientCloses(h)
         \/ sweep \/ Restart
  PROVE  IInv'
<1>0. /\ TypeOK /\ now \in Nat /\ request \in [Requests -> Request] /\ DOMAIN hosted = Hosted
      /\ token \subseteq [grant : Grants, exp : Nat] /\ Ready \in Request /\ Ready.at = "new"
  BY RowTypes DEF IInv, TypeOK, Ready
<1>1. ASSUME NEW t \in token, NEW c \in Clients, RevokeAccess(c, t) PROVE IInv'
  BY <1>0, <1>1, HostStep DEF RevokeAccess, oauthVars, hostVars
<1>2. ASSUME NEW t \in token, NEW r \in Requests, resolveAccess(r, t) PROVE IInv'
  <2>1. t.grant \in Grants /\ t.exp \in Nat /\ request[r] \in Request /\ grant[t.grant].state = "live"
    BY <1>0, <1>2 DEF resolveAccess
  <2>2. request'[r] = [request[r] EXCEPT !.at = "checking", !.grant = t.grant, !.exp = t.exp]
        /\ \A q \in Requests \ {r} : request'[q] = request[q]
    BY <1>0, <1>2 DEF resolveAccess
  <2>3. request'[r] \in Request /\ request'[r].grant = t.grant
    BY <2>1, <2>2 DEF Request
  <2>4. request' \in [Requests -> Request]
    BY <1>0, <1>2, <2>2, <2>3 DEF resolveAccess
  <2>5. UNCHANGED <<now, client, pending, signIn, code, session, grant, token, hosted, orphaned>>
    BY <1>2 DEF resolveAccess, oauthVars
  <2>6. \A q \in Requests : request'[q] = request[q] \/ (request'[q].grant \in Grants /\ grant[request'[q].grant].state = "live")
    BY <2>1, <2>2, <2>3
  <2>. QED  BY <1>0, <2>4, <2>5, <2>6, HostStep
<1>3. ASSUME NEW r \in Requests, WithApiKey(r) PROVE IInv'
  <2>1. now + 1 \in Nat /\ handle(r, ApiKey, now + 1)
    BY <1>0, <1>3 DEF WithApiKey
  <2>2. /\ request' \in [Requests -> Request] /\ DOMAIN hosted' = Hosted
        /\ request'[r].at # "checking" /\ \A q \in Requests \ {r} : request'[q] = request[q]
    BY <1>0, <2>1, Handled
  <2>3. UNCHANGED <<now, client, pending, signIn, code, session, grant, token, orphaned>>
    BY <1>3 DEF WithApiKey, oauthVars
  <2>. QED  BY <2>2, <2>3, HostStep
<1>4. ASSUME NEW r \in Requests, ResponseCloses(r) PROVE IInv'
  <2>1. /\ request' \in [Requests -> Request] /\ DOMAIN hosted' = Hosted
        /\ \A q \in Requests : request'[q].at = "checking" => request'[q] = request[q]
    BY <1>0, <1>4 DEF ResponseCloses
  <2>2. UNCHANGED <<now, client, pending, signIn, code, session, grant, token, orphaned>>
    BY <1>4 DEF ResponseCloses, oauthVars
  <2>. QED  BY <2>1, <2>2, HostStep
<1>5. ASSUME NEW h \in Hosted, ClientCloses(h) PROVE IInv'
  <2>1. /\ request' \in [Requests -> Request] /\ DOMAIN hosted' = Hosted
        /\ \A q \in Requests : request'[q].at = "checking" => request'[q] = request[q]
    BY <1>0, <1>5 DEF ClientCloses
  <2>2. UNCHANGED <<now, client, pending, signIn, code, session, grant, token, orphaned>>
    BY <1>5 DEF ClientCloses, oauthVars
  <2>. QED  BY <2>1, <2>2, HostStep
<1>6. CASE sweep
  <2>1. DOMAIN hosted' = Hosted
        /\ UNCHANGED <<now, client, pending, signIn, code, session, grant, token, request, orphaned>>
    BY <1>6 DEF sweep, oauthVars
  <2>. QED  BY <1>0, <2>1, HostStep
<1>7. CASE Restart
  <2>1. /\ request' \in [Requests -> Request] /\ DOMAIN hosted' = Hosted
        /\ \A q \in Requests : request'[q].at # "checking"
    BY <1>0, <1>7 DEF Restart, Restarted
  <2>2. UNCHANGED <<now, client, pending, signIn, code, session, grant, token, orphaned>>
    BY <1>7 DEF Restart, oauthVars
  <2>. QED  BY <2>1, <2>2, HostStep
<1>. QED  BY <1>1, <1>2, <1>3, <1>4, <1>5, <1>6, <1>7

\* Time passing ends sessions and brings none back.
LEMMA TickStep ==
  ASSUME IInv, Tick
  PROVE  IInv'
<1>0. /\ TypeOK /\ OpenIsUndenied /\ SignInsAreApproved /\ SessionsAreConsented /\ CodesAndGrants
      /\ GrantsAreYounger /\ CheckedHasGrant /\ GrantAndSignInEndTogether
  BY DEF IInv
<1>1. /\ UNCHANGED <<client, pending, signIn, code, session, grant, token, request, hosted, orphaned>>
      /\ now \in Nat /\ now' = now + 1
  BY <1>0 DEF Tick, oauthVars, hostVars, TypeOK
<1>2. TypeOK'
  BY <1>0, <1>1 DEF TypeOK
<1>3. OpenIsUndenied' /\ SignInsAreApproved' /\ SessionsAreConsented' /\ CodesAndGrants'
  BY <1>0, <1>1 DEF OpenIsUndenied, SignInsAreApproved, SessionsAreConsented, CodesAndGrants, ConsentOf, Made
<1>4. \A n \in SignIns : session[n].created \in Nat
  BY <1>0 DEF TypeOK, SessionRow
<1>5. GrantsAreYounger'
  BY <1>0, <1>1, <1>4 DEF GrantsAreYounger
<1>6. \A n \in SignIns : Lives(n)' => Lives(n)
  BY <1>1, <1>4, TtlAssumption DEF Lives
<1>7. \A g \in Grants : Made(g) => grant[g].signIn \in SignIns /\ grant'[g] = grant[g]
  BY <1>0, <1>1 DEF CodesAndGrants
<1>8. CheckedHasGrant'
  <2>1. ASSUME NEW r \in Requests, request'[r].at = "checking"
        PROVE  /\ request'[r].grant \in Grants /\ Made(request[r].grant)'
               /\ grant'[request'[r].grant].state = "gone" => ~Lives(grant[request[r].grant].signIn)'
    <3>1. /\ request'[r] = request[r] /\ request[r].grant \in Grants /\ Made(request[r].grant)
          /\ grant[request[r].grant].state = "gone" => ~Lives(grant[request[r].grant].signIn)
      BY <1>0, <1>1, <2>1 DEF CheckedHasGrant
    <3>. QED  BY <1>1, <1>6, <1>7, <3>1 DEF Made
  <2>. QED  BY <2>1 DEF CheckedHasGrant
<1>9. GrantAndSignInEndTogether'
  BY <1>0, <1>1, <1>6, <1>7 DEF GrantAndSignInEndTogether, Made
<1>. QED  BY <1>2, <1>3, <1>5, <1>8, <1>9 DEF IInv

\* Checking a request: the session is read again, and a grant whose session
\* is over ends.
LEMMA VerifyStep ==
  ASSUME IInv, NEW r \in Requests, NEW k \in {"none", "ok", "refused", "unreachable"}, NEW admin \in BOOLEAN,
         verifyAccessToken(r, k, admin)
  PROVE  IInv'
<1>. DEFINE g == request[r].grant
            n == grant[g].signIn
            checked == IF ~Lives(n) THEN session
                       ELSE CASE k = "ok" -> [session EXCEPT ![n].admin = admin]
                              [] k = "refused" -> ended(n)
                              [] OTHER -> session
<1>0. /\ TypeOK /\ CodesAndGrants /\ CheckedHasGrant /\ session \in [SignIns -> SessionRow]
      /\ request[r] \in Request
  BY DEF IInv, TypeOK
<1>1. g \in Grants /\ Made(g) /\ (grant[g].state = "gone" => ~Lives(n)) /\ n \in SignIns /\ session[n].state # "none"
  BY <1>0 DEF verifyAccessToken, CheckedHasGrant, CodesAndGrants
<1>2. UNCHANGED <<now, client, pending, signIn, code, orphaned>>
  BY DEF verifyAccessToken, oauthVars
<1>3. /\ request' \in [Requests -> Request] /\ DOMAIN hosted' = Hosted
      /\ request'[r].at # "checking" /\ \A q \in Requests \ {r} : request'[q] = request[q]
  <2>1. (handle(r, g, request[r].exp) \/ Refused(r)) /\ request[r].exp \in Nat
    BY <1>0 DEF verifyAccessToken, Request
  <2>. QED  BY <1>0, <1>1, <2>1, Handled
<1>4. session' = checked /\ (IF User(n, k) THEN UNCHANGED <<grant, token>> ELSE deleteGrant(g))
  BY DEF verifyAccessToken
<1>. HIDE DEF g, n
<1>5. /\ session' \in [SignIns -> SessionRow]
      /\ \A m \in SignIns : /\ session'[m].created <= session[m].created
                            /\ session'[m].state = "none" <=> session[m].state = "none"
                            /\ Lives(m)' => Lives(m)
      /\ ~User(n, k) => \A m \in SignIns : m = n => ~Lives(m)'
  <2>1. \A m \in SignIns : session[m].created \in Nat
    BY <1>0 DEF SessionRow
  <2>2. CASE session' = session /\ (User(n, k) \/ ~Lives(n))
    BY <1>0, <1>2, <2>1, <2>2 DEF Lives
  <2>3. CASE session' = [session EXCEPT ![n].admin = admin] /\ User(n, k)
    <3>1. session[n] \in SessionRow /\ session'[n] = [session[n] EXCEPT !.admin = admin]
          /\ \A m \in SignIns \ {n} : session'[m] = session[m]
      BY <1>0, <1>1, <2>3
    <3>2. session'[n] \in SessionRow /\ session'[n].state = session[n].state /\ session'[n].created = session[n].created
      BY <3>1 DEF SessionRow
    <3>3. session' \in [SignIns -> SessionRow]
      BY <1>0, <2>3, <3>1, <3>2
    <3>. QED  BY <1>2, <2>1, <2>3, <3>1, <3>2, <3>3 DEF Lives
  <2>4. CASE session' = ended(n)
    BY <1>0, <1>1, <1>2, <2>4, SessionEnds
  <2>. QED  BY <1>4, <2>2, <2>3, <2>4 DEF User
<1>6. /\ grant' \in [Grants -> GrantRow] /\ token' \subseteq [grant : Grants, exp : Nat]
      /\ \A h \in Grants : /\ Stays(h) \/ Ends(h)
                           /\ ~Begins(h)
                           /\ Ends(h) => ~Lives(grant[h].signIn)'
  <2>1. CASE User(n, k)
    BY <1>0, <1>4, <2>1 DEF Stays, Ends, Begins, TypeOK
  <2>2. CASE ~User(n, k)
    <3>1. /\ grant' \in [Grants -> GrantRow] /\ token' \subseteq [grant : Grants, exp : Nat]
          /\ grant'[g].state = "gone" /\ grant'[g].signIn = grant[g].signIn
          /\ \A h \in Grants \ {g} : grant'[h] = grant[h]
      BY <1>0, <1>1, <1>4, <2>2, Deleted
    <3>2. \A h \in Grants : h = g => ~Lives(grant[h].signIn)'
      BY <1>1, <1>5, <2>2, <3>1 DEF n
    <3>3. grant[g].state \in {"live", "gone"}
      BY <1>0, <1>1 DEF TypeOK, GrantRow, RowState, Made
    <3>. QED  BY <3>1, <3>2, <3>3 DEF Stays, Ends, Begins
  <2>. QED  BY <2>1, <2>2
<1>7. TypeOK'
  BY <1>0, <1>2, <1>3, <1>5, <1>6 DEF TypeOK
<1>. QED  BY <1>2, <1>3, <1>5, <1>6, <1>7, GrantStep

LEMMA InvInit ==
  ASSUME Init
  PROVE  IInv
<1>1. TypeOK
  <2>1. now \in Nat /\ orphaned \subseteq SignIns /\ token \subseteq [grant : Grants, exp : Nat] /\ DOMAIN hosted = Hosted
    BY DEF Init
  <2>2. client \in [Clients -> ClientRow] /\ pending \in [Consents -> PendingRow] /\ signIn \in [SignIns -> SignInRow]
    BY DEF Init, ClientRow, PendingRow, SignInRow
  <2>3. session \in [SignIns -> SessionRow] /\ code \in [SignIns -> CodeRow] /\ grant \in [Grants -> GrantRow]
    BY DEF Init, SessionRow, CodeRow, GrantRow, RowState
  <2>4. request \in [Requests -> Request]
    BY DEF Init, Ready, Request, ApiKey
  <2>. QED  BY <2>1, <2>2, <2>3, <2>4 DEF TypeOK
<1>2. OpenIsUndenied /\ SignInsAreApproved /\ SessionsAreConsented
  BY DEF Init, OpenIsUndenied, SignInsAreApproved, SessionsAreConsented
<1>3. CodesAndGrants /\ GrantsAreYounger
  BY DEF Init, CodesAndGrants, GrantsAreYounger, Made
<1>4. CheckedHasGrant /\ GrantAndSignInEndTogether
  BY DEF Init, CheckedHasGrant, GrantAndSignInEndTogether, Ready
<1>. QED  BY <1>1, <1>2, <1>3, <1>4 DEF IInv

LEMMA InvNext ==
  ASSUME IInv, [Next]_vars
  PROVE  IInv'
<1>1. CASE UNCHANGED vars
  BY <1>1 DEF IInv, TypeOK, OpenIsUndenied, SignInsAreApproved, SessionsAreConsented, CodesAndGrants, GrantsAreYounger,
     CheckedHasGrant, GrantAndSignInEndTogether, ConsentOf, Made, Lives, vars, oauthVars, hostVars
<1>2. CASE Next
  BY <1>2, ConsentStep, FinishStep, ExchangeStep, RefreshStep, RevokeStep, RequestStep, VerifyStep, TickStep DEF Next
<1>. QED  BY <1>1, <1>2

LEMMA Invariance == Spec => []IInv
<1>. QED  BY InvInit, InvNext, PTL DEF Spec

-----------------------------------------------------------------------------
(* What the authorization server promises. *)

\* The tables, the requests and the access tokens keep their types: every
\* reference from a token, a request or a code names a row there can be.
THEOREM TypeCorrect == Spec => []TypeOK
<1>1. IInv => TypeOK
  BY DEF IInv
<1>. QED  BY <1>1, Invariance, PTL

\* Every grant goes back to one approval in the browser that was shown the
\* consent page, which nobody denied, and no approval leads to two grants,
\* however often its form was posted and wherever a handler was cut short.
THEOREM GrantsNeedConsent == Spec => []GrantsAreConsented
<1>1. ASSUME IInv PROVE GrantsAreConsented
  <2>1. ASSUME NEW g \in Grants, Made(g)
        PROVE  grant[g].signIn \in SignIns /\ session[grant[g].signIn].state # "none"
    BY <1>1, <2>1 DEF IInv, CodesAndGrants
  <2>2. ASSUME NEW g \in Grants, Made(g)
        PROVE  pending[signIn[grant[g].signIn].consent].posted = {<<"shown", "approve">>}
    BY <1>1, <2>1, <2>2 DEF IInv, SessionsAreConsented, ConsentOf, Approved
  <2>3. ASSUME NEW g \in Grants, NEW h \in Grants, Made(g), Made(h), h # g
        PROVE  signIn[grant[h].signIn].consent # signIn[grant[g].signIn].consent
    BY <1>1, <2>1, <2>3 DEF IInv, SessionsAreConsented, CodesAndGrants
  <2>. QED  BY <2>2, <2>3 DEF GrantsAreConsented, Made
<1>. QED  BY <1>1, Invariance, PTL

\* A grant that ended left no live sign-in behind, unless the process died
\* in the middle of revoking it.
THEOREM GrantsEndWithSignIns == Spec => []GrantAndSignInEndTogether
<1>1. IInv => GrantAndSignInEndTogether
  BY DEF IInv
<1>. QED  BY <1>1, Invariance, PTL

\* Only the check of a request lets it through to a hosted session.
LEMMA ServedByCheck ==
  ASSUME IInv, Next, NEW r \in Requests, request[r].at = "checking", request'[r].at = "served"
  PROVE  \E k \in {"none", "ok", "refused", "unreachable"}, admin \in BOOLEAN : verifyAccessToken(r, k, admin)
<1>0. TypeOK /\ request \in [Requests -> Request] /\ request'[r] # request[r] /\ request'[r] # Ready
  BY DEF IInv, TypeOK, Ready
<1>1. ASSUME NEW cut, Completes(cut) PROVE FALSE
  BY <1>0, <1>1 DEF Completes, Restarted, hostVars
<1>2. ASSUME UNCHANGED request PROVE FALSE
  BY <1>0, <1>2
<1>3. ~(\E c \in Clients : registerClient(c) \/ \E p \in Consents : authorize(c, p))
  BY <1>2 DEF registerClient, authorize, hostVars
<1>4. ~(\E p \in Consents, from \in {"shown", "other"} :
          CookieGone(p) \/ Deny(p, from) \/ \E n \in SignIns : Approve(p, from, n))
  BY <1>2 DEF CookieGone, Deny, Approve, hostVars
<1>5. ~(\E n \in SignIns : failSignIn(n) \/ \E admin \in BOOLEAN, s \in 1..3 : finishSignIn(n, admin, s))
  BY <1>1, <1>2 DEF failSignIn, finishSignIn, hostVars
<1>6. ~(\E c \in Clients, n \in SignIns, matches \in BOOLEAN, s \in 0..5 : exchangeAuthorizationCode(c, n, matches, s))
  BY <1>1 DEF exchangeAuthorizationCode
<1>7. ~(\E c \in Clients, g \in Grants, s \in 1..2 : exchangeRefreshToken(c, g, s) \/ RevokeGrant(c, g, s))
  BY <1>1 DEF exchangeRefreshToken, RevokeGrant
<1>8. ASSUME NEW t \in token, (\E c \in Clients : RevokeAccess(c, t)) \/ \E q \in Requests : resolveAccess(q, t)
      PROVE  FALSE
  BY <1>0, <1>2, <1>8 DEF RevokeAccess, resolveAccess, hostVars
<1>9. ASSUME NEW q \in Requests, WithApiKey(q) PROVE FALSE
  BY <1>0, <1>9 DEF WithApiKey, handle
<1>10. ASSUME NEW q \in Requests, ResponseCloses(q) PROVE FALSE
  BY <1>0, <1>10 DEF ResponseCloses
<1>11. ASSUME NEW h \in Hosted, ClientCloses(h) PROVE FALSE
  BY <1>0, <1>11 DEF ClientCloses
<1>12. ~(sweep \/ Tick \/ Restart)
  BY <1>0, <1>2 DEF sweep, Tick, Restart, Restarted, hostVars
<1>13. ASSUME NEW q \in Requests, NEW k \in {"none", "ok", "refused", "unreachable"}, NEW admin \in BOOLEAN,
              verifyAccessToken(q, k, admin)
       PROVE  q = r
  BY <1>0, <1>13 DEF verifyAccessToken, handle, Refused
<1>. QED  BY <1>3, <1>4, <1>5, <1>6, <1>7, <1>8, <1>9, <1>10, <1>11, <1>12, <1>13 DEF Next

\* A request is let through only while its grant exists, its sign-in lives,
\* the person is an admin as last read and its token has not run out, though
\* the grant may have been revoked while the provider was asked.
THEOREM RevokedRequestsAreRefused == Spec => RevokedIsRefused
<1>. DEFINE Refuses(r) ==
       request[r].at = "checking" /\ request'[r].at = "served" =>
         LET g == request[r].grant
         IN /\ grant[g].state = "live" /\ grant'[g].state = "live"
            /\ Lives(grant[g].signIn) /\ session'[grant[g].signIn].admin
            /\ request[r].exp > now
<1>1. ASSUME IInv, [Next]_vars, NEW r \in Requests, request[r].at = "checking", request'[r].at = "served"
      PROVE  Refuses(r)
  <2>. DEFINE g == request[r].grant
              n == grant[g].signIn
  <2>1. Next
    BY <1>1 DEF vars, hostVars
  <2>2. PICK k \in {"none", "ok", "refused", "unreachable"}, admin \in BOOLEAN : verifyAccessToken(r, k, admin)
    BY <1>1, <2>1, ServedByCheck
  <2>. DEFINE checked == IF ~Lives(n) THEN session
                         ELSE CASE k = "ok" -> [session EXCEPT ![n].admin = admin]
                                [] k = "refused" -> ended(n)
                                [] OTHER -> session
  <2>3. ~Refused(r)
    BY <1>1 DEF Refused, IInv, TypeOK, Ready
  <2>4. User(n, k) /\ checked[n].admin /\ request[r].exp > now /\ session' = checked /\ UNCHANGED grant
    BY <2>2, <2>3 DEF verifyAccessToken
  <2>5. /\ g \in Grants /\ Made(g)
        /\ grant[g].state = "gone" => ~Lives(n)
    BY <1>1 DEF IInv, CheckedHasGrant
  <2>6. grant[g].state = "live"
    BY <1>1, <2>4, <2>5 DEF User, Made, IInv, TypeOK, GrantRow, RowState
  <2>. QED  BY <2>4, <2>6 DEF User
<1>2. ASSUME IInv, [Next]_vars PROVE \A r \in Requests : Refuses(r)
  BY <1>1, <1>2
<1>3. IInv /\ [Next]_vars => [\A r \in Requests : Refuses(r)]_vars
  BY <1>2
<1>. QED  BY <1>3, Invariance, PTL DEF Spec, RevokedIsRefused
=============================================================================
