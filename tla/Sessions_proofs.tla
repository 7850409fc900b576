--------------------------- MODULE Sessions_proofs ---------------------------
(***************************************************************************)
(* Types of Sessions, what a session row can become, when idle expiry may  *)
(* end one, what a deprovisioning leaves behind and whom the middleware    *)
(* turns away, for any number of users, sessions, requests and SCIM        *)
(* transactions.                                                           *)
(***************************************************************************)
EXTENDS Sessions, TLAPS

(* A request past resolve() has the session it resolved, one past its insert  *)
(* the row it inserted: TypeOK is not inductive without it, since a rotation  *)
(* copies a field of the old row.                                            *)
Attached ==
    \A r \in Reqs :
      /\ req[r].pc \in {"mint", "insert"} /\ req[r].kind # "login"
           => req[r].sid \in minted
      /\ req[r].pc \in {"revokeOld", "reresolve", "handler"} => req[r].sid \in minted
      /\ req[r].pc \in {"revokeOld", "reresolve"} => req[r].fresh \in minted
      /\ req[r].pc = "idleRevoke" => req[r].cookie \in minted

Typed == TypeOK /\ Attached

-----------------------------------------------------------------------------
(* Types of the blank records and of the helpers the actions share.         *)

LEMMA BlankTypes ==
    /\ AnyUser \in Users
    /\ IdleReq \in Req
    /\ IdleScim \in Scim
    /\ 0 \in Time
    /\ BlankRow \in Row
<1>1. AnyUser \in Users
  BY UserAssumption DEF AnyUser
<1>2. 0 \in Time
  BY TimeAssumption DEF Time
<1> QED
  BY <1>1, <1>2 DEF IdleReq, Req, Pcs, AllKinds, SidOrNone, Outcomes,
                    IdleScim, Scim, ScimPcs, BlankRow, Row

LEMMA NewReqType ==
    ASSUME TypeOK, NEW u \in Users, NEW k \in AllKinds
    PROVE  /\ NewReq(k, u) \in Req
           /\ NewReq(k, u).pc = "resolve"
           /\ [NewReq(k, u) EXCEPT !.pc = "mint"] \in Req
           /\ \A c \in SidOrNone : [NewReq(k, u) EXCEPT !.csrf = c] \in Req
<1>1. IdleReq \in Req
  BY BlankTypes
<1>2. jar[u] \in SidOrNone /\ active[u] \in BOOLEAN /\ tenantUp \in BOOLEAN
  BY DEF TypeOK
<1>3. NewReq(k, u) \in Req /\ NewReq(k, u).pc = "resolve"
  BY <1>1, <1>2 DEF NewReq, Req, Pcs
<1>4. [NewReq(k, u) EXCEPT !.pc = "mint"] \in Req
  BY <1>3 DEF Req, Pcs
<1>5. \A c \in SidOrNone : [NewReq(k, u) EXCEPT !.csrf = c] \in Req
  BY <1>3 DEF Req
<1> QED
  BY <1>3, <1>4, <1>5

LEMMA AnswerType ==
    ASSUME TypeOK, NEW r \in Reqs, NEW outcome \in Outcomes, Answer(r, outcome)
    PROVE  /\ req' \in [Reqs -> Req]
           /\ req'[r].pc = "reply"
           /\ req'[r].sid \in {None, req[r].sid}
           /\ req'[r].kind = req[r].kind
           /\ req'[r].user = req[r].user /\ req'[r].set = req[r].set
           /\ req'[r].cookie = None /\ req'[r].fresh = None
           /\ req'[r].gone = FALSE /\ req'[r].held = FALSE
           /\ \A q \in Reqs \ {r} : req'[q] = req[q]
           /\ Attached /\ minted' = minted => Attached'
<1> DEFINE sid == IF req[r].kind = "me" THEN req[r].sid ELSE None
<1>1. /\ req[r].kind \in AllKinds /\ req[r].user \in Users
      /\ req[r].set \in SidOrNone /\ req[r].sid \in SidOrNone
  BY DEF TypeOK, Req
<1>2. sid \in SidOrNone /\ sid \in {None, req[r].sid}
  BY <1>1 DEF SidOrNone
<1> HIDE DEF sid
<1> DEFINE reply == [IdleReq EXCEPT !.pc = "reply", !.status = outcome,
              !.kind = req[r].kind, !.user = req[r].user, !.set = req[r].set,
              !.sid = sid]
<1>3. IdleReq \in Req
  BY BlankTypes
<1>4. reply \in Req /\ reply.pc = "reply" /\ reply.sid = sid
  BY <1>1, <1>2, <1>3 DEF Req, Pcs
<1>a. /\ reply.kind = req[r].kind
      /\ reply.user = req[r].user /\ reply.set = req[r].set
      /\ reply.cookie = None /\ reply.fresh = None
      /\ reply.gone = FALSE /\ reply.held = FALSE
  BY DEF IdleReq
<1> HIDE DEF reply
<1>5. req' = [req EXCEPT ![r] = reply]
  BY DEF Answer, reply, sid
<1>6. req \in [Reqs -> Req]
  BY DEF TypeOK
<1>7. /\ req' \in [Reqs -> Req] /\ req'[r] = reply
      /\ \A q \in Reqs \ {r} : req'[q] = req[q]
  BY <1>4, <1>5, <1>6
<1>8. Attached /\ minted' = minted => Attached'
  BY <1>2, <1>4, <1>7 DEF Attached
<1> QED
  BY <1>2, <1>4, <1>a, <1>7, <1>8

LEMMA RevokeType ==
    ASSUME TypeOK, NEW S, Revoke(S)
    PROVE  /\ row' \in [Sids -> Row]
           /\ \A s \in Sids :
                /\ row'[s].revoked <=> row[s].revoked \/ s \in S
                /\ row'[s].user = row[s].user
                /\ row'[s].from = row[s].from
  BY DEF Revoke, TypeOK, Row

-----------------------------------------------------------------------------
(* Type correctness.                                                        *)

(* Every state the middleware, the browsers, the un-awaited touches, the       *)
(* directory, the operator and the clock can reach is well typed.            *)
THEOREM TypeCorrect == Spec => []Typed
\* A step of a request: of the browser, where only the requests, the jar and
\* the pages change, of the middleware or of a handler, or a statement that
\* fails.
<1>r. ASSUME Typed, NEW r \in Reqs, BrowserStep(r) \/ ServerStep(r) \/ Fail(r)
      PROVE  Typed'
  <2> USE <1>r
  <2> USE DEF Typed, serverVars, browserVars, history
  <2>1. ASSUME BrowserStep(r)
        PROVE  Typed'
    <3>1. ASSUME NEW u \in Users, Login(r, u) PROVE Typed'
      <4>1. /\ [NewReq("login", u) EXCEPT !.pc = "mint"] \in Req
            /\ NewReq("login", u).kind = "login"
        BY NewReqType DEF AllKinds, NewReq, IdleReq
      <4>2. TypeOK'
        BY <3>1, <4>1 DEF Login, TypeOK
      <4>3. Attached'
        BY <3>1, <4>1 DEF Login, Attached, TypeOK, Req
      <4> QED
        BY <4>2, <4>3
    <3>2. ASSUME NEW u \in Users, LoadPage(r, u) PROVE Typed'
      <4>1. NewReq("me", u) \in Req /\ NewReq("me", u).pc = "resolve"
        BY NewReqType DEF AllKinds
      <4>2. TypeOK'
        BY <3>2, <4>1 DEF LoadPage, TypeOK, SidOrNone
      <4>3. Attached'
        BY <3>2, <4>1 DEF LoadPage, Attached, TypeOK
      <4> QED
        BY <4>2, <4>3
    <3>3. ASSUME NEW u \in Users, NEW k \in Kinds, Call(r, u, k) PROVE Typed'
      <4> DEFINE c == IF k = "read" THEN None ELSE page[u]
                 sent == [NewReq(k, u) EXCEPT !.csrf = c]
      <4>1. k \in AllKinds /\ c \in SidOrNone
        BY KindAssumption DEF TypeOK, SidOrNone
      <4>2. NewReq(k, u) \in Req /\ NewReq(k, u).pc = "resolve" /\ sent \in Req
        BY <4>1, NewReqType
      <4>3. sent.pc = "resolve"
        BY <4>2 DEF Req
      <4>4. req' = [req EXCEPT ![r] = sent]
        BY <3>3 DEF Call
      <4> HIDE DEF sent
      <4>5. TypeOK'
        BY <3>3, <4>2, <4>4 DEF Call, TypeOK
      <4>6. Attached'
        BY <3>3, <4>3, <4>4 DEF Call, Attached, TypeOK
      <4> QED
        BY <4>5, <4>6
    <3>4. ASSUME Receive(r) PROVE Typed'
      <4>1. IdleReq \in Req /\ IdleReq.pc = "idle"
        BY BlankTypes DEF IdleReq
      <4>2. /\ req[r].user \in Users /\ req[r].set \in SidOrNone
            /\ req[r].sid \in SidOrNone /\ None \in SidOrNone
        BY DEF TypeOK, Req, SidOrNone
      <4>3. jar' \in [Users -> SidOrNone]
        BY <3>4, <4>2 DEF Receive, TypeOK
      <4>4. page' \in [Users -> SidOrNone]
        BY <3>4, <4>2 DEF Receive, TypeOK
      <4>6. TypeOK'
        BY <3>4, <4>1, <4>3, <4>4 DEF Receive, TypeOK
      <4>7. Attached'
        BY <3>4, <4>1 DEF Receive, Attached, TypeOK
      <4> QED
        BY <4>6, <4>7
    <3>5. ASSUME Lose(r) PROVE Typed'
      <4>1. IdleReq \in Req /\ IdleReq.pc = "idle"
        BY BlankTypes DEF IdleReq
      <4>2. req[r].user \in Users /\ None \in SidOrNone
        BY DEF TypeOK, Req, SidOrNone
      <4>3. TypeOK'
        BY <3>5, <4>1, <4>2 DEF Lose, TypeOK
      <4>4. Attached'
        BY <3>5, <4>1 DEF Lose, Attached, TypeOK
      <4> QED
        BY <4>3, <4>4
    <3> QED
      BY <2>1, <3>1, <3>2, <3>3, <3>4, <3>5 DEF BrowserStep
  <2>2. ASSUME ServerStep(r)
        PROVE  Typed'
    <3> DEFINE q == req[r]
    <3>a. /\ q \in Req /\ q.user \in Users /\ q.kind \in AllKinds
          /\ {q.cookie, q.csrf, q.sid, q.fresh, q.set} \subseteq SidOrNone
      BY DEF TypeOK, Req
    <3>b. ASSUME NEW s, Usable(s)
          PROVE  s \in minted
      BY <3>b DEF Usable
    <3>c. ASSUME NEW s \in Sids, StartTouch(s)
          PROVE  touches' \subseteq Sids
      BY <3>c DEF StartTouch, TypeOK
    <3>1. ASSUME Refuse(r) PROVE Typed'
      <4>1. TypeOK'
        BY <3>1, AnswerType DEF Refuse, TypeOK, Outcomes
      <4>2. Attached'
        BY <3>1, AnswerType DEF Refuse, Outcomes
      <4> QED
        BY <4>1, <4>2
    <3>2. ASSUME FindAbandoned(r) PROVE Typed'
      <4>1. TypeOK'
        BY <3>2 DEF FindAbandoned, TypeOK, Req, Pcs
      <4>2. Attached'
        BY <3>2, <3>b DEF FindAbandoned, Attached, TypeOK, Req
      <4> QED
        BY <4>1, <4>2
    <3>3. ASSUME IdleRevoke(r) PROVE Typed'
      <4>1. row' \in [Sids -> Row]
        BY <3>3, RevokeType DEF IdleRevoke
      <4>2. TypeOK'
        BY <3>3, <4>1, AnswerType DEF IdleRevoke, TypeOK, Outcomes
      <4>3. Attached'
        BY <3>3, AnswerType DEF IdleRevoke, Outcomes
      <4> QED
        BY <4>2, <4>3
    <3>4. ASSUME RefuseSuspended(r) PROVE Typed'
      <4>1. q.cookie \in Sids
        BY <3>4, <3>b DEF RefuseSuspended, Resolves, TypeOK
      <4>2. touches' \subseteq Sids
        BY <3>4, <4>1, <3>c DEF RefuseSuspended
      <4>3. TypeOK'
        BY <3>4, <4>2, AnswerType DEF RefuseSuspended, TypeOK, Outcomes
      <4>4. Attached'
        BY <3>4, AnswerType DEF RefuseSuspended, Outcomes
      <4> QED
        BY <4>3, <4>4
    <3>5. ASSUME RefuseCsrf(r) PROVE Typed'
      <4>1. q.cookie \in Sids
        BY <3>5, <3>b DEF RefuseCsrf, Resolves, TypeOK
      <4>2. touches' \subseteq Sids
        BY <3>5, <4>1, <3>c DEF RefuseCsrf
      <4>3. TypeOK'
        BY <3>5, <4>2, AnswerType DEF RefuseCsrf, TypeOK, Outcomes
      <4>4. Attached'
        BY <3>5, AnswerType DEF RefuseCsrf, Outcomes
      <4> QED
        BY <4>3, <4>4
    <3>6. ASSUME Admit(r) PROVE Typed'
      <4>1. q.cookie \in minted
        BY <3>6, <3>b DEF Admit, Resolves
      <4>2. touches' \subseteq Sids
        BY <3>6, <4>1, <3>c DEF Admit, TypeOK
      <4> DEFINE next == IF ShouldRotate(q.cookie) THEN "mint" ELSE "handler"
                 passed == [q EXCEPT !.sid = q.cookie, !.cookie = None,
                                     !.csrf = None, !.pc = next]
      <4>3. next \in {"mint", "handler"}
        OBVIOUS
      <4>4. req' = [req EXCEPT ![r] = passed]
        BY <3>6, <3>a DEF Admit, TypeOK, Req
      <4> HIDE DEF next
      <4>5. /\ passed \in Req /\ passed.sid = q.cookie
            /\ passed.pc \in {"mint", "handler"}
        BY <3>a, <4>3 DEF Req, Pcs, SidOrNone
      <4> HIDE DEF passed
      <4>6. lastUse' \in [Sids -> Time]
        BY <3>6 DEF Admit, TypeOK
      <4>b. req' \in [Reqs -> Req]
        BY <4>4, <4>5 DEF TypeOK
      <4>7. TypeOK'
        BY <3>6, <4>2, <4>6, <4>b DEF Admit, TypeOK
      <4>8. Attached'
        BY <3>6, <4>1, <4>4, <4>5 DEF Admit, Attached, TypeOK
      <4> QED
        BY <4>7, <4>8
    <3>7. ASSUME InsertCheck(r) PROVE Typed'
      <4>1. CASE active[q.user]
        <5> DEFINE on == [q EXCEPT !.pc = "insert"]
        <5>1. req' = [req EXCEPT ![r] = on] /\ q.pc = "mint"
          BY <3>7, <4>1 DEF InsertCheck
        <5>a. on \in Req /\ on.pc = "insert" /\ on.sid = q.sid /\ on.kind = q.kind
          BY <3>a DEF Req, Pcs
        <5> HIDE DEF on
        <5>2. TypeOK'
          BY <3>7, <5>1, <5>a DEF InsertCheck, TypeOK
        <5>3. Attached'
          BY <3>7, <5>1, <5>a DEF InsertCheck, Attached, TypeOK
        <5> QED
          BY <5>2, <5>3
      <4>2. CASE ~active[q.user]
        <5>1. Answer(r, "500") /\ "500" \in Outcomes
          BY <3>7, <4>2 DEF InsertCheck, Outcomes
        <5>2. TypeOK'
          BY <3>7, <5>1, AnswerType DEF InsertCheck, TypeOK
        <5>3. Attached'
          BY <3>7, <5>1, AnswerType DEF InsertCheck
        <5> QED
          BY <5>2, <5>3
      <4> QED
        BY <4>1, <4>2
    <3>8. ASSUME InsertRow(r) PROVE Typed'
      <4> DEFINE login == q.kind = "login"
      <4>1. PICK s \in Sids \ minted :
              /\ minted' = minted \cup {s}
              /\ row' = [row EXCEPT ![s] =
                   [user |-> q.user, issued |-> now, seen |-> now, revoked |-> FALSE,
                    from |-> q.sid]]
              /\ raced' = IF active[q.user] THEN raced ELSE raced \cup {s}
              /\ lastUse' = [lastUse EXCEPT ![s] = now]
              /\ req' = [req EXCEPT ![r] =
                   IF login THEN [IdleReq EXCEPT !.pc = "reply", !.kind = "login",
                                    !.user = q.user, !.status = "ok", !.set = s]
                            ELSE [q EXCEPT !.pc = "revokeOld", !.fresh = s]]
        BY <3>8 DEF InsertRow
      <4>2. q.pc = "insert"
        BY <3>8 DEF InsertRow
      <4>3. ~login => q.sid \in minted
        BY <4>2 DEF Attached
      <4>5. row' \in [Sids -> Row]
        BY <3>a, <4>1 DEF TypeOK, Row
      <4>6. lastUse' \in [Sids -> Time]
        BY <4>1 DEF TypeOK
      <4>7. raced' \subseteq Sids /\ minted' \subseteq Sids
        BY <4>1 DEF TypeOK
      <4>8. CASE login
        <5> DEFINE done == [IdleReq EXCEPT !.pc = "reply", !.kind = "login",
                              !.user = q.user, !.status = "ok", !.set = s]
        <5>1. req' = [req EXCEPT ![r] = done]
          BY <4>1, <4>8
        <5>a. IdleReq \in Req /\ s \in SidOrNone
          BY BlankTypes DEF SidOrNone
        <5>2. done \in Req /\ done.pc = "reply"
          BY <3>a, <5>a DEF Req, Pcs, Outcomes, AllKinds
        <5> HIDE DEF done
        <5>3. TypeOK'
          BY <3>8, <4>5, <4>6, <4>7, <5>1, <5>2 DEF InsertRow, TypeOK
        <5>4. Attached'
          BY <4>1, <5>1, <5>2 DEF Attached, TypeOK
        <5> QED
          BY <5>3, <5>4
      <4>9. CASE ~login
        <5> DEFINE on == [q EXCEPT !.pc = "revokeOld", !.fresh = s]
        <5>1. req' = [req EXCEPT ![r] = on]
          BY <4>1, <4>9
        <5>2. on \in Req /\ on.pc = "revokeOld" /\ on.fresh = s /\ on.sid = q.sid
          BY <3>a DEF Req, Pcs, SidOrNone
        <5> HIDE DEF on
        <5>3. TypeOK'
          BY <3>8, <4>5, <4>6, <4>7, <5>1, <5>2 DEF InsertRow, TypeOK
        <5>4. Attached'
          BY <4>1, <4>3, <4>9, <5>1, <5>2 DEF Attached, TypeOK
        <5> QED
          BY <5>3, <5>4
      <4> QED
        BY <4>8, <4>9
    <3>9. ASSUME NoRowLeft(r) PROVE Typed'
      <4>1. TypeOK'
        BY <3>9, AnswerType DEF NoRowLeft, TypeOK, Outcomes
      <4>2. Attached'
        BY <3>9, AnswerType DEF NoRowLeft, Outcomes
      <4> QED
        BY <4>1, <4>2
    <3>10. ASSUME RevokeOld(r) PROVE Typed'
      <4>1. row' \in [Sids -> Row]
        BY <3>10, RevokeType DEF RevokeOld
      <4> DEFINE on == [q EXCEPT !.pc = "reresolve", !.set = q.fresh]
      <4>2. req' = [req EXCEPT ![r] = on]
        BY <3>10, <3>a DEF RevokeOld, TypeOK, Req
      <4>3. /\ on \in Req /\ on.pc = "reresolve" /\ on.sid = q.sid
            /\ on.fresh = q.fresh
        BY <3>a DEF Req, Pcs
      <4> HIDE DEF on
      <4>4. TypeOK'
        BY <3>10, <4>1, <4>2, <4>3 DEF RevokeOld, TypeOK
      <4>5. Attached'
        BY <3>10, <4>2, <4>3 DEF RevokeOld, Attached, TypeOK
      <4> QED
        BY <4>4, <4>5
    <3>11. ASSUME Reresolve(r) PROVE Typed'
      <4>1. q.fresh \in minted
        BY <3>11 DEF Reresolve, Attached
      <4>2. touches' \subseteq Sids
        BY <3>11, <4>1, <3>c DEF Reresolve, TypeOK
      <4>3. lastUse' \in [Sids -> Time]
        BY <3>11 DEF Reresolve, TypeOK
      <4> DEFINE on == [q EXCEPT !.pc = "handler", !.sid = q.fresh]
      <4>4. req' = [req EXCEPT ![r] = on]
        BY <3>11, <3>a DEF Reresolve, TypeOK, Req
      <4>5. on \in Req /\ on.pc = "handler" /\ on.sid = q.fresh
        BY <3>a DEF Req, Pcs
      <4> HIDE DEF on
      <4>6. TypeOK'
        BY <3>11, <4>2, <4>3, <4>4, <4>5 DEF Reresolve, TypeOK
      <4>7. Attached'
        BY <3>11, <4>1, <4>4, <4>5 DEF Reresolve, Attached, TypeOK
      <4> QED
        BY <4>6, <4>7
    <3>12. ASSUME ReresolveThrows(r) PROVE Typed'
      <4>1. q.fresh \in Sids
        BY <3>12 DEF ReresolveThrows, Attached, TypeOK
      <4>2. row' \in [Sids -> Row]
        BY <3>12, RevokeType DEF ReresolveThrows, TypeOK
      <4>3. touches' \subseteq Sids
        BY <3>12, <4>1, <3>c DEF ReresolveThrows, TypeOK
      <4>4. TypeOK'
        BY <3>12, <4>2, <4>3, AnswerType DEF ReresolveThrows, TypeOK, Outcomes
      <4>5. Attached'
        BY <3>12, AnswerType DEF ReresolveThrows, Outcomes
      <4> QED
        BY <4>4, <4>5
    <3>13. ASSUME Serve(r) PROVE Typed'
      <4>1. TypeOK'
        BY <3>13, AnswerType DEF Serve, TypeOK, Outcomes
      <4>2. Attached'
        BY <3>13, AnswerType DEF Serve, Outcomes
      <4> QED
        BY <4>1, <4>2
    <3>14. ASSUME Logout(r) PROVE Typed'
      <4>1. row' \in [Sids -> Row]
        BY <3>14, RevokeType DEF Logout
      <4>2. TypeOK'
        BY <3>14, <4>1, AnswerType DEF Logout, TypeOK, Outcomes
      <4>3. Attached'
        BY <3>14, AnswerType DEF Logout, Outcomes
      <4> QED
        BY <4>2, <4>3
    <3> QED
      BY <2>2, <3>1, <3>2, <3>3, <3>4, <3>5, <3>6, <3>7, <3>8, <3>9, <3>10, <3>11,
         <3>12, <3>13, <3>14 DEF ServerStep
  <2>3. ASSUME Fail(r)
        PROVE  Typed'
    <3>1. PICK o \in {"401", "500"} : Answer(r, o)
      BY <2>3 DEF Fail
    <3>2. o \in Outcomes
      BY DEF Outcomes
    <3>3. TypeOK'
      BY <2>3, <3>1, <3>2, AnswerType DEF Fail, TypeOK
    <3>4. Attached'
      BY <2>3, <3>1, <3>2, AnswerType DEF Fail
    <3> QED
      BY <3>3, <3>4
  <2> QED
    BY <2>1, <2>2, <2>3
<1>1. Init => Typed
  <2> SUFFICES ASSUME Init PROVE Typed
    OBVIOUS
  <2>1. TypeOK
    BY BlankTypes DEF Init, TypeOK, SidOrNone
  <2>2. Attached
    BY DEF Init, Attached, IdleReq
  <2> QED
    BY <2>1, <2>2 DEF Typed
<1>2. Typed /\ [Next]_vars => Typed'
  <2> SUFFICES ASSUME Typed, [Next]_vars PROVE Typed'
    OBVIOUS
  <2> USE DEF Typed, serverVars, browserVars, history
  <2>1. ASSUME NEW r \in Reqs, BrowserStep(r) \/ ServerStep(r) \/ Fail(r) PROVE Typed'
    BY <2>1, <1>r
  <2>2. ASSUME NEW s \in Sids, Touch(s) \/ LoseTouch(s)
        PROVE  Typed'
    <3>1. CASE Touch(s)
      <4>1. row' \in [Sids -> Row]
        BY <3>1 DEF Touch, TypeOK, Row
      <4> QED
        BY <3>1, <4>1 DEF Touch, TypeOK, Attached
    <3>2. CASE LoseTouch(s)
      BY <3>2 DEF LoseTouch, TypeOK, Attached
    <3> QED
      BY <2>2, <3>1, <3>2
  <2>3. ASSUME NEW p \in Scims, NEW u \in Users, NEW w \in BOOLEAN,
               ScimLock(p, u, w) \/ ScimStep(p) \/ ScimRollback(p)
        PROVE  Typed'
    <3>a. scim[p] \in Scim /\ IdleScim \in Scim
      BY BlankTypes DEF TypeOK
    <3>1. CASE ScimLock(p, u, w)
      <4>1. [pc |-> "locked", user |-> u, want |-> w, doomed |-> {}] \in Scim
        BY DEF Scim, ScimPcs
      <4> QED
        BY <3>1, <4>1 DEF ScimLock, TypeOK, Attached
    <3>2. CASE ScimRevoke(p)
      <4> DEFINE d == {s \in minted : row[s].user = scim[p].user /\ ~row[s].revoked}
                 on == [scim[p] EXCEPT !.pc = "revoked", !.doomed = d]
      <4>1. scim' = [scim EXCEPT ![p] = on]
        BY <3>2, <3>a DEF ScimRevoke, TypeOK, Scim
      <4>2. d \subseteq Sids
        BY DEF TypeOK
      <4> HIDE DEF d
      <4>3. on \in Scim
        BY <3>a, <4>2 DEF Scim, ScimPcs
      <4> HIDE DEF on
      <4> QED
        BY <3>2, <4>1, <4>3 DEF ScimRevoke, TypeOK, Attached
    <3>3. CASE ScimCommit(p)
      <4>1. row' \in [Sids -> Row]
        BY <3>3, RevokeType DEF ScimCommit
      <4>2. active' \in [Users -> BOOLEAN]
        BY <3>3, <3>a DEF ScimCommit, TypeOK, Scim
      <4>0. \A r \in Reqs : req[r] \in Req /\ [req[r] EXCEPT !.gone = FALSE] \in Req
        BY DEF TypeOK, Req
      <4>3. req' \in [Reqs -> Req]
        BY <3>3, <4>0 DEF ScimCommit
      <4>4. \A r \in Reqs : /\ req'[r].pc = req[r].pc /\ req'[r].kind = req[r].kind
                             /\ req'[r].sid = req[r].sid /\ req'[r].fresh = req[r].fresh
                             /\ req'[r].cookie = req[r].cookie
        BY <3>3 DEF ScimCommit, TypeOK, Req
      <4>5. TypeOK'
        BY <3>3, <3>a, <4>1, <4>2, <4>3 DEF ScimCommit, TypeOK
      <4>6. Attached'
        BY <3>3, <4>4 DEF ScimCommit, Attached
      <4> QED
        BY <4>5, <4>6
    <3>4. CASE ScimRollback(p)
      BY <3>4, <3>a DEF ScimRollback, TypeOK, Attached
    <3> QED
      BY <2>3, <3>1, <3>2, <3>3, <3>4 DEF ScimStep
  <2>4. ASSUME Operator \/ Tick
        PROVE  Typed'
    <3>1. CASE Suspend
      BY <3>1 DEF Suspend, TypeOK, Attached
    <3>2. CASE Activate
      <4>0. \A r \in Reqs : [req[r] EXCEPT !.held = FALSE] \in Req
        BY DEF TypeOK, Req
      <4>1. req' \in [Reqs -> Req]
        BY <3>2, <4>0 DEF Activate
      <4>2. \A r \in Reqs : /\ req'[r].pc = req[r].pc /\ req'[r].kind = req[r].kind
                             /\ req'[r].sid = req[r].sid /\ req'[r].fresh = req[r].fresh
                             /\ req'[r].cookie = req[r].cookie
        BY <3>2 DEF Activate, TypeOK, Req
      <4>3. TypeOK'
        BY <3>2, <4>1 DEF Activate, TypeOK
      <4>4. Attached'
        BY <3>2, <4>2 DEF Activate, Attached
      <4> QED
        BY <4>3, <4>4
    <3>3. CASE RevokeSessions
      <4>1. row' \in [Sids -> Row]
        BY <3>3, RevokeType DEF RevokeSessions
      <4> QED
        BY <3>3, <4>1 DEF RevokeSessions, TypeOK, Attached
    <3>4. CASE Tick
      <4>1. now' \in Time
        BY <3>4, TimeAssumption DEF Tick, TypeOK, Time
      <4> QED
        BY <3>4, <4>1 DEF Tick, TypeOK, Attached
    <3> QED
      BY <2>4, <3>1, <3>2, <3>3, <3>4 DEF Operator
  <2>5. ASSUME NEW p \in Scims, ScimStep(p) \/ ScimRollback(p) PROVE Typed'
    BY <2>3, <2>5, UserAssumption
  <2>6. CASE UNCHANGED vars
    BY <2>6 DEF vars, TypeOK, Attached
  <2> QED
    BY <2>1, <2>2, <2>3, <2>4, <2>5, <2>6 DEF Next
<1> QED
  BY <1>1, <1>2, PTL DEF Spec

-----------------------------------------------------------------------------
(* Every step of Sessions has one of five shapes, as far as the rows and the  *)
(* people they belong to are concerned.                                     *)

Quiet == UNCHANGED <<minted, row, active, scim, raced>>

RevokesOnly ==
    /\ \E S \in SUBSET Sids : Revoke(S)
    /\ UNCHANGED <<minted, active, scim, raced>>

Directory(p) ==
    \/ \E u \in Users, w \in BOOLEAN : ScimLock(p, u, w)
    \/ ScimStep(p)
    \/ ScimRollback(p)

LEMMA StepShape ==
    ASSUME Typed, [Next]_vars
    PROVE  \/ Quiet
           \/ RevokesOnly
           \/ \E s \in Sids : Touch(s)
           \/ \E r \in Reqs : InsertRow(r)
           \/ \E p \in Scims : Directory(p)
<1> USE DEF serverVars, browserVars, history
<1>1. ASSUME NEW r \in Reqs, BrowserStep(r) PROVE Quiet
  BY <1>1 DEF BrowserStep, Login, LoadPage, Call, Receive, Lose, Quiet
<1>2. ASSUME NEW r \in Reqs, ServerStep(r), ~InsertRow(r) PROVE Quiet \/ RevokesOnly
  <2>1. CASE Refuse(r) \/ FindAbandoned(r) \/ RefuseSuspended(r) \/ RefuseCsrf(r)
    BY <2>1 DEF Refuse, FindAbandoned, RefuseSuspended, RefuseCsrf, Quiet
  <2>2. CASE Admit(r) \/ InsertCheck(r) \/ NoRowLeft(r) \/ Reresolve(r) \/ Serve(r)
    BY <2>2 DEF Admit, InsertCheck, NoRowLeft, Reresolve, Serve, Quiet
  <2>3. CASE IdleRevoke(r)
    <3>1. {req[r].cookie} \in SUBSET Sids
      BY <2>3 DEF IdleRevoke, Typed, Attached, TypeOK
    <3> QED
      BY <2>3, <3>1 DEF IdleRevoke, RevokesOnly
  <2>4. CASE RevokeOld(r)
    <3>1. {req[r].sid} \in SUBSET Sids
      BY <2>4 DEF RevokeOld, Typed, Attached, TypeOK
    <3> QED
      BY <2>4, <3>1 DEF RevokeOld, RevokesOnly
  <2>5. CASE Logout(r)
    <3>1. {req[r].sid} \in SUBSET Sids
      BY <2>5 DEF Logout, Typed, Attached, TypeOK
    <3> QED
      BY <2>5, <3>1 DEF Logout, RevokesOnly
  <2>6. CASE ReresolveThrows(r)
    <3>1. {req[r].fresh} \in SUBSET Sids
      BY <2>6 DEF ReresolveThrows, Typed, Attached, TypeOK
    <3>2. UNCHANGED row \/ Revoke({req[r].fresh})
      BY <2>6 DEF ReresolveThrows
    <3>3. UNCHANGED <<minted, active, scim, raced>>
      BY <2>6 DEF ReresolveThrows
    <3> QED
      BY <3>1, <3>2, <3>3 DEF RevokesOnly, Quiet
  <2> QED
    BY <1>2, <2>1, <2>2, <2>3, <2>4, <2>5, <2>6 DEF ServerStep
<1>3. ASSUME NEW r \in Reqs, Fail(r) PROVE Quiet
  BY <1>3 DEF Fail, Quiet
<1>4. ASSUME NEW s \in Sids, LoseTouch(s) PROVE Quiet
  BY <1>4 DEF LoseTouch, Quiet
<1>5. ASSUME Operator \/ Tick PROVE Quiet \/ RevokesOnly
  <2>1. CASE Suspend \/ Activate \/ Tick
    BY <2>1 DEF Suspend, Activate, Tick, Quiet
  <2>2. CASE RevokeSessions
    BY <2>2 DEF RevokeSessions, RevokesOnly, Typed, TypeOK
  <2> QED
    BY <1>5, <2>1, <2>2 DEF Operator
<1>6. CASE UNCHANGED vars
  BY <1>6 DEF vars, Quiet
<1> QED
  BY <1>1, <1>2, <1>3, <1>4, <1>5, <1>6 DEF Next, Directory

-----------------------------------------------------------------------------
(* The rows themselves.                                                     *)

LEMMA InsertedRow ==
    ASSUME Typed, NEW r \in Reqs, InsertRow(r)
    PROVE  \E s \in Sids \ minted :
             /\ minted' = minted \cup {s}
             /\ row'[s].user = req[r].user /\ row'[s].from = req[r].sid
             /\ \A o \in minted : row'[o] = row[o]
             /\ raced' = IF active[req[r].user] THEN raced ELSE raced \cup {s}
             /\ req' = [req EXCEPT ![r] =
                  IF req[r].kind = "login"
                  THEN [IdleReq EXCEPT !.pc = "reply", !.kind = "login",
                          !.user = req[r].user, !.status = "ok", !.set = s]
                  ELSE [req[r] EXCEPT !.pc = "revokeOld", !.fresh = s]]
<1> DEFINE q == req[r]
           login == q.kind = "login"
           new == [user |-> q.user, issued |-> now, seen |-> now, revoked |-> FALSE,
                   from |-> q.sid]
<1>1. PICK s \in Sids \ minted :
        /\ minted' = minted \cup {s}
        /\ row' = [row EXCEPT ![s] = new]
        /\ raced' = IF active[q.user] THEN raced ELSE raced \cup {s}
        /\ lastUse' = [lastUse EXCEPT ![s] = now]
        /\ req' = [req EXCEPT ![r] =
             IF login THEN [IdleReq EXCEPT !.pc = "reply", !.kind = "login",
                              !.user = q.user, !.status = "ok", !.set = s]
                      ELSE [q EXCEPT !.pc = "revokeOld", !.fresh = s]]
  BY DEF InsertRow
<1>2. new.user = q.user /\ new.from = q.sid
  OBVIOUS
<1> HIDE DEF new
<1> QED
  BY <1>1, <1>2 DEF Typed, TypeOK

LEMMA RowsStep ==
    ASSUME Typed, [Next]_vars
    PROVE  RowsKept /\ minted \subseteq minted'
<1> USE DEF Typed, serverVars, browserVars, history
<1>1. CASE Quiet
  BY <1>1 DEF Quiet, RowsKept
<1>2. CASE RevokesOnly
  BY <1>2, RevokeType DEF RevokesOnly, RowsKept, TypeOK
<1>3. ASSUME NEW s \in Sids, Touch(s) PROVE RowsKept /\ minted \subseteq minted'
  BY <1>3 DEF Touch, RowsKept, TypeOK, Row
<1>4. ASSUME NEW r \in Reqs, InsertRow(r) PROVE RowsKept /\ minted \subseteq minted'
  <2>1. PICK s \in Sids \ minted :
          minted' = minted \cup {s} /\ \A o \in minted : row'[o] = row[o]
    BY <1>4, InsertedRow
  <2> QED
    BY <2>1 DEF RowsKept
<1>5. ASSUME NEW p \in Scims, Directory(p) PROVE RowsKept /\ minted \subseteq minted'
  <2>1. CASE ScimCommit(p)
    BY <2>1, RevokeType DEF ScimCommit, RowsKept, TypeOK
  <2>2. CASE ~ScimCommit(p)
    BY <1>5, <2>2 DEF Directory, ScimStep, ScimLock, ScimRevoke, ScimRollback, RowsKept
  <2> QED
    BY <2>1, <2>2
<1> QED
  BY <1>1, <1>2, <1>3, <1>4, <1>5, StepShape

(* A revoked session is revoked for good, and no row changes hands, whatever  *)
(* touches, rotations, rollbacks and concurrent revocations do.             *)
THEOREM RevokedIsFinal == Spec => RevokedForever
<1>1. Typed /\ [Next]_vars => [RowsKept]_vars
  BY RowsStep
<1> QED
  BY <1>1, TypeCorrect, PTL DEF Spec, RevokedForever

-----------------------------------------------------------------------------
(* What a deprovisioning leaves behind.                                     *)

(* A deprovisioning that has run its UPDATE sessions holds every unrevoked row *)
(* of its user until it commits: the FOR UPDATE lock keeps new ones out.      *)
(* OnlyOverlappingInsertSurvives is not inductive without it.                 *)
ScimHoldsAll ==
    \A p \in Scims : scim[p].pc = "revoked" =>
      \A s \in minted : row[s].user = scim[p].user /\ ~row[s].revoked
                          => s \in scim[p].doomed

Deprovisioning == Typed /\ ScimHoldsAll /\ OnlyOverlappingInsertSurvives

(* After a deprovisioning every row of the person is revoked, except those a   *)
(* sign-in or rotation already past the row policy inserted when the lock was *)
(* released.                                                                *)
THEOREM DeprovisioningRevokes == Spec => [](Typed /\ ScimHoldsAll /\ OnlyOverlappingInsertSurvives)
<1>1. Typed /\ Init => Deprovisioning
  BY DEF Init, Deprovisioning, ScimHoldsAll, OnlyOverlappingInsertSurvives, IdleScim
<1>2. Typed' /\ Deprovisioning /\ [Next]_vars => Deprovisioning'
  <2> SUFFICES ASSUME Typed', Deprovisioning, [Next]_vars PROVE Deprovisioning'
    OBVIOUS
  <2> USE DEF serverVars, browserVars, history
  <2>a. Typed /\ Typed' /\ RowsKept /\ minted \subseteq minted'
    BY RowsStep DEF Deprovisioning
  <2> DEFINE Goal == ScimHoldsAll' /\ OnlyOverlappingInsertSurvives'
  <2>1. CASE Quiet
    BY <2>1, <2>a DEF Quiet, Deprovisioning, ScimHoldsAll, OnlyOverlappingInsertSurvives
  <2>2. CASE RevokesOnly
    BY <2>2, <2>a DEF RevokesOnly, Deprovisioning, ScimHoldsAll,
                      OnlyOverlappingInsertSurvives, RowsKept
  <2>3. ASSUME NEW s \in Sids, Touch(s) PROVE Goal
    <3>1. \A o \in minted : row'[o].revoked = row[o].revoked
      BY <2>3, <2>a DEF Touch, Typed, TypeOK, Row
    <3> QED
      BY <2>3, <2>a, <3>1 DEF Touch, Deprovisioning, ScimHoldsAll,
                              OnlyOverlappingInsertSurvives, RowsKept
  <2>4. ASSUME NEW r \in Reqs, InsertRow(r) PROVE Goal
    <3>1. PICK s \in Sids \ minted :
            /\ minted' = minted \cup {s}
            /\ row'[s].user = req[r].user
            /\ \A o \in minted : row'[o] = row[o]
            /\ raced' = IF active[req[r].user] THEN raced ELSE raced \cup {s}
      BY <2>4, <2>a, InsertedRow
    <3>2. ~UserLocked(req[r].user) /\ UNCHANGED <<active, scim>>
      BY <2>4 DEF InsertRow
    <3>3. ScimHoldsAll'
      BY <3>1, <3>2 DEF Deprovisioning, ScimHoldsAll, UserLocked
    <3>4. OnlyOverlappingInsertSurvives'
      BY <3>1, <3>2 DEF Deprovisioning, OnlyOverlappingInsertSurvives
    <3> QED
      BY <3>3, <3>4
  <2>5. ASSUME NEW p \in Scims, Directory(p) PROVE Goal
    <3> USE DEF Deprovisioning
    <3>a. scim \in [Scims -> Scim] /\ IdleScim.pc = "idle"
      BY <2>a DEF Typed, TypeOK, IdleScim
    <3>1. ASSUME NEW u \in Users, NEW w \in BOOLEAN, ScimLock(p, u, w) PROVE Goal
      BY <3>1, <3>a DEF ScimLock, ScimHoldsAll, OnlyOverlappingInsertSurvives
    <3>2. CASE ScimRevoke(p)
      <4>1. /\ scim'[p].user = scim[p].user
            /\ scim'[p].doomed = {s \in minted : row[s].user = scim[p].user /\ ~row[s].revoked}
            /\ \A o \in Scims \ {p} : scim'[o] = scim[o]
            /\ UNCHANGED <<minted, row, active, raced>>
        BY <3>2, <3>a DEF ScimRevoke, Scim
      <4> QED
        BY <4>1 DEF ScimHoldsAll, OnlyOverlappingInsertSurvives
    <3>3. CASE ScimCommit(p)
      <4>1. UNCHANGED <<minted, raced>> /\ \A o \in Scims \ {p} : scim'[o] = scim[o]
        BY <3>3, <3>a DEF ScimCommit
      <4>2. scim'[p].pc = "idle"
        BY <3>3, <3>a DEF ScimCommit
      <4>3. ScimHoldsAll'
        BY <2>a, <4>1, <4>2 DEF ScimHoldsAll, RowsKept
      <4>4. ASSUME NEW s \in minted, row[s].user = scim[p].user, ~scim[p].want
            PROVE  row'[s].revoked
        <5>1. scim[p].pc = "revoked" /\ Revoke(scim[p].doomed)
          BY <3>3, <4>4 DEF ScimCommit
        <5>2. row[s].revoked \/ s \in scim[p].doomed
          BY <4>4, <5>1 DEF ScimHoldsAll
        <5> QED
          BY <2>a, <5>1, <5>2, RevokeType DEF Typed, TypeOK
      <4>5. ASSUME NEW s \in minted, ~active'[row[s].user]
            PROVE  \/ row[s].user = scim[p].user /\ ~scim[p].want
                   \/ ~active[row[s].user]
        BY <3>3, <4>5, <2>a DEF ScimCommit, Typed, TypeOK, Row
      <4>6. OnlyOverlappingInsertSurvives'
        BY <2>a, <4>1, <4>4, <4>5 DEF OnlyOverlappingInsertSurvives, RowsKept
      <4> QED
        BY <4>3, <4>6
    <3>4. CASE ScimRollback(p)
      BY <3>4, <3>a DEF ScimRollback, ScimHoldsAll, OnlyOverlappingInsertSurvives
    <3> QED
      BY <2>5, <3>1, <3>2, <3>3, <3>4 DEF Directory, ScimStep
  <2> QED
    BY <2>a, <2>1, <2>2, <2>3, <2>4, <2>5, StepShape DEF Deprovisioning
<1>3. Deprovisioning => Typed /\ ScimHoldsAll /\ OnlyOverlappingInsertSurvives
  BY DEF Deprovisioning
<1> QED
  BY <1>1, <1>2, <1>3, TypeCorrect, PTL DEF Spec
-----------------------------------------------------------------------------
(* Idle expiry.                                                             *)

(* The idle clock of a row lags behind its use by no more than the write-back  *)
(* interval, unless a touch is under way or was lost; a touch is only under way *)
(* for a row in use, so never for one a request found abandoned.             *)
Clocked ==
    /\ \A s \in minted : row[s].seen <= now /\ lastUse[s] <= now
    /\ \A s \in minted : s \in missed \cup touches
                           \/ lastUse[s] <= row[s].seen + TouchEvery
    /\ touches \subseteq minted
    /\ \A s \in touches : ~Abandoned(s)
    /\ \A r \in Reqs : req[r].pc = "idleRevoke" => Abandoned(req[r].cookie)

(* Idle expiry ends no session that was used within the limit, less the        *)
(* precision of the write-back, unless one of its touches was lost            *)
(* (session.js resolve).                                                    *)
THEOREM IdleExpiryIsHonest == Spec => IdleRevokesOnlyUnused
<1> DEFINE Honest(r) ==
      LET s == req[r].cookie IN
      IdleRevoke(r) /\ ~row[s].revoked =>
        s \in missed \/ now - lastUse[s] > IdleMax - TouchEvery
<1>1. Typed /\ Init => Clocked
  BY DEF Init, Clocked, IdleReq
<1>2. Typed /\ Typed' /\ Clocked /\ [Next]_vars => Clocked'
  <2> SUFFICES ASSUME Typed, Typed', Clocked, [Next]_vars PROVE Clocked'
    OBVIOUS
  <2> USE DEF serverVars, browserVars, history
  <2>t. /\ now \in Nat /\ now' \in Nat /\ TouchEvery \in Nat /\ IdleMax \in Nat
        /\ TouchEvery <= IdleMax
        /\ \A s \in Sids : row[s].seen \in Nat /\ row'[s].seen \in Nat
        /\ \A s \in Sids : lastUse[s] \in Nat /\ lastUse'[s] \in Nat
        /\ minted \subseteq Sids /\ req \in [Reqs -> Req]
        /\ \A r \in Reqs : req[r].pc = "idleRevoke" => req[r].cookie \in minted
    BY TimeAssumption DEF Typed, TypeOK, Attached, Row, Time
  \* A request keeps the cookie it found abandoned, or has just found one.
  <2> DEFINE Turned == \A r \in Reqs : req'[r].pc = "idleRevoke" =>
                         \/ req[r].pc = "idleRevoke" /\ req'[r].cookie = req[r].cookie
                         \/ Usable(req'[r].cookie) /\ Abandoned(req'[r].cookie)
             Rests == \A s \in minted : row'[s].seen = row[s].seen
             Started(s) == s \in minted /\ ~Abandoned(s) /\ StartTouch(s)
  \* What never touches the clocks, and at most starts a touch.
  <2>s. ASSUME Turned, Rests, UNCHANGED <<now, minted, lastUse, missed>>,
               touches' = touches \/ \E s \in minted : Started(s)
        PROVE  Clocked'
    <3>1. /\ touches \subseteq touches' /\ touches' \subseteq minted
          /\ \A s \in touches' : ~Abandoned(s)
      BY <2>s DEF StartTouch, Clocked
    <3>2. \A s \in minted : Abandoned(s)' = Abandoned(s)
      BY <2>s DEF Abandoned, IdleFor
    <3>3. \A r \in Reqs : req'[r].pc = "idleRevoke" => Abandoned(req[r].cookie)'
      BY <2>s, <2>t, <3>2 DEF Usable, Clocked
    <3> QED
      BY <2>s, <3>1, <3>2, <3>3 DEF Clocked
  \* A request is admitted under s.
  <2>a. ASSUME NEW s \in minted, Turned, Started(s), UNCHANGED <<now, minted, row, missed>>,
               lastUse' = [lastUse EXCEPT ![s] = now]
        PROVE  Clocked'
    <3>1. /\ touches \subseteq touches' /\ touches' \subseteq minted
          /\ \A o \in touches' : ~Abandoned(o)
      BY <2>a DEF StartTouch, Clocked
    <3>2. \A o \in minted : Abandoned(o)' = Abandoned(o)
      BY <2>a DEF Abandoned, IdleFor
    <3>3. \A r \in Reqs : req'[r].pc = "idleRevoke" => Abandoned(req[r].cookie)'
      BY <2>a, <2>t, <3>2 DEF Usable, Clocked
    <3>4. lastUse'[s] = now /\ \A o \in minted \ {s} : lastUse'[o] = lastUse[o]
      BY <2>a DEF Typed, TypeOK
    <3>5. s \in touches' \/ now <= row[s].seen + TouchEvery
      BY <2>a, <2>t DEF StartTouch, WantsTouch, IdleFor
    <3>6. \A o \in minted : o \in missed' \cup touches'
                              \/ lastUse'[o] <= row'[o].seen + TouchEvery
      BY <2>a, <3>1, <3>4, <3>5 DEF Clocked
    <3>7. \A o \in minted : row'[o].seen <= now' /\ lastUse'[o] <= now'
      BY <2>a, <2>t, <3>4 DEF Clocked
    <3> QED
      BY <2>a, <3>1, <3>2, <3>3, <3>6, <3>7 DEF Clocked
  <2>b. ASSUME NEW r \in Reqs, NEW o \in Outcomes, Answer(r, o)
        PROVE  Turned
    BY <2>b, AnswerType DEF Typed
  <2>c. {"401", "403", "500", "ok"} \subseteq Outcomes
    BY DEF Outcomes
  <2>d. ASSUME NEW S, Revoke(S) PROVE Rests
    BY <2>d DEF Revoke, Typed, TypeOK, Row
  <2>e. UNCHANGED row => Rests
    OBVIOUS
  <2>f. ASSUME NEW r \in Reqs, NEW n, req' = [req EXCEPT ![r] = n], n.pc # "idleRevoke"
        PROVE  Turned
    BY <2>f, <2>t
  <2> HIDE DEF Turned, Rests, Started
  <2>1. ASSUME NEW r \in Reqs, BrowserStep(r) PROVE Clocked'
    <3>1. UNCHANGED <<now, minted, row, touches, lastUse, missed>>
      BY <2>1 DEF BrowserStep, Login, LoadPage, Call, Receive, Lose
    <3>2. PICK n : req' = [req EXCEPT ![r] = n] /\ n.pc # "idleRevoke"
      <4>1. ASSUME NEW u \in Users, NEW k \in AllKinds
            PROVE  /\ NewReq(k, u).pc = "resolve"
                   /\ [NewReq(k, u) EXCEPT !.pc = "mint"].pc = "mint"
                   /\ \A c : [NewReq(k, u) EXCEPT !.csrf = c].pc = "resolve"
        BY DEF NewReq, IdleReq
      <4>2. IdleReq.pc = "idle" /\ {"login", "me"} \subseteq AllKinds /\ Kinds \subseteq AllKinds
        BY KindAssumption DEF IdleReq, AllKinds
      <4>3. ASSUME NEW u \in Users, Login(r, u)
            PROVE  \E n : req' = [req EXCEPT ![r] = n] /\ n.pc # "idleRevoke"
        BY <4>1, <4>2, <4>3 DEF Login
      <4>4. ASSUME NEW u \in Users, LoadPage(r, u)
            PROVE  \E n : req' = [req EXCEPT ![r] = n] /\ n.pc # "idleRevoke"
        BY <4>1, <4>2, <4>4 DEF LoadPage
      <4>5. ASSUME NEW u \in Users, NEW k \in Kinds, Call(r, u, k)
            PROVE  \E n : req' = [req EXCEPT ![r] = n] /\ n.pc # "idleRevoke"
        BY <4>1, <4>2, <4>5 DEF Call
      <4> QED
        BY <2>1, <4>2, <4>3, <4>4, <4>5 DEF BrowserStep, Receive, Lose
    <3> QED
      BY <3>1, <3>2, <2>e, <2>f, <2>s
  <2>2. ASSUME NEW r \in Reqs, ServerStep(r) PROVE Clocked'
    <3> DEFINE q == req[r]
    <3>1. CASE Refuse(r) \/ NoRowLeft(r) \/ Serve(r)
      <4>1. Turned
        BY <3>1, <2>b, <2>c DEF Refuse, NoRowLeft, Serve
      <4> QED
        BY <3>1, <4>1, <2>e, <2>s DEF Refuse, NoRowLeft, Serve
    <3>2. CASE FindAbandoned(r)
      <4>1. Turned
        BY <3>2, <2>t DEF FindAbandoned, Turned, Req
      <4> QED
        BY <3>2, <4>1, <2>e, <2>s DEF FindAbandoned
    <3>3. CASE IdleRevoke(r) \/ Logout(r)
      <4>1. Turned /\ Rests
        BY <3>3, <2>b, <2>c, <2>d DEF IdleRevoke, Logout
      <4> QED
        BY <3>3, <4>1, <2>s DEF IdleRevoke, Logout
    <3>4. CASE RefuseSuspended(r) \/ RefuseCsrf(r)
      <4>1. Turned /\ Started(q.cookie) /\ q.cookie \in minted
        BY <3>4, <2>b, <2>c DEF RefuseSuspended, RefuseCsrf, Started, Usable, Resolves
      <4> QED
        BY <3>4, <4>1, <2>e, <2>s DEF RefuseSuspended, RefuseCsrf
    <3>5. CASE Admit(r)
      <4>1. Started(q.cookie) /\ q.cookie \in minted
        BY <3>5 DEF Admit, Started, Usable, Resolves
      <4>2. req'[r].pc # "idleRevoke" /\ \A o \in Reqs \ {r} : req'[o] = req[o]
        BY <3>5, <2>t DEF Admit, Req
      <4>3. Turned
        BY <4>2 DEF Turned
      <4> QED
        BY <3>5, <4>1, <4>3, <2>a DEF Admit
    <3>6. CASE InsertCheck(r)
      <4>1. CASE active[q.user]
        <5>1. req'[r].pc # "idleRevoke" /\ \A o \in Reqs \ {r} : req'[o] = req[o]
          BY <3>6, <4>1, <2>t DEF InsertCheck, Req
        <5> QED
          BY <3>6, <5>1, <2>e, <2>s DEF InsertCheck, Turned
      <4>2. CASE ~active[q.user]
        BY <3>6, <4>2, <2>b, <2>c, <2>e, <2>s DEF InsertCheck
      <4> QED
        BY <4>1, <4>2
    <3>7. CASE RevokeOld(r)
      <4>1. req'[r].pc # "idleRevoke" /\ \A o \in Reqs \ {r} : req'[o] = req[o]
        BY <3>7, <2>t DEF RevokeOld, Req
      <4>2. Turned /\ Rests
        BY <3>7, <4>1, <2>d DEF RevokeOld, Turned
      <4> QED
        BY <3>7, <4>2, <2>s DEF RevokeOld
    <3>8. CASE Reresolve(r)
      <4>1. Started(q.fresh) /\ q.fresh \in minted
        BY <3>8 DEF Reresolve, Started, Usable, Resolves
      <4>2. req'[r].pc # "idleRevoke" /\ \A o \in Reqs \ {r} : req'[o] = req[o]
        BY <3>8, <2>t DEF Reresolve, Req
      <4>3. Turned
        BY <4>2 DEF Turned
      <4> QED
        BY <3>8, <4>1, <4>3, <2>a DEF Reresolve
    <3>9. CASE ReresolveThrows(r)
      <4>1. Turned
        BY <3>9, <2>b, <2>c DEF ReresolveThrows
      <4>2. Rests
        BY <3>9, <2>d, <2>e DEF ReresolveThrows
      <4>3. touches' = touches \/ \E s \in minted : Started(s)
        BY <3>9 DEF ReresolveThrows, Started, Usable
      <4> QED
        BY <3>9, <4>1, <4>2, <4>3, <2>s DEF ReresolveThrows
    <3>10. CASE InsertRow(r)
      <4>1. PICK s \in Sids \ minted :
              /\ minted' = minted \cup {s}
              /\ row' = [row EXCEPT ![s] =
                   [user |-> q.user, issued |-> now, seen |-> now, revoked |-> FALSE,
                    from |-> q.sid]]
              /\ lastUse' = [lastUse EXCEPT ![s] = now]
              /\ req' = [req EXCEPT ![r] =
                   IF q.kind = "login"
                   THEN [IdleReq EXCEPT !.pc = "reply", !.kind = "login",
                                    !.user = q.user, !.status = "ok", !.set = s]
                   ELSE [q EXCEPT !.pc = "revokeOld", !.fresh = s]]
        BY <3>10 DEF InsertRow
      <4>2. row'[s].seen = now /\ lastUse'[s] = now
        BY <4>1 DEF Typed, TypeOK
      <4>3. \A o \in minted : row'[o] = row[o] /\ lastUse'[o] = lastUse[o]
        BY <4>1 DEF Typed, TypeOK
      <4>4. UNCHANGED <<now, touches, missed>>
        BY <3>10 DEF InsertRow
      <4>5. req'[r].pc # "idleRevoke" /\ \A o \in Reqs \ {r} : req'[o] = req[o]
        <5>1. CASE q.kind = "login"
          BY <4>1, <5>1, <2>t DEF IdleReq
        <5>2. CASE q.kind # "login"
          BY <4>1, <5>2, <2>t DEF Req
        <5> QED
          BY <5>1, <5>2
      <4>6. \A o \in minted : Abandoned(o)' = Abandoned(o)
        BY <4>3, <4>4 DEF Abandoned, IdleFor
      <4>7. \A o \in Reqs : req'[o].pc = "idleRevoke" => Abandoned(req[o].cookie)'
        BY <2>t, <4>5, <4>6 DEF Clocked
      <4>8. \A o \in touches' : ~Abandoned(o)'
        BY <4>4, <4>6 DEF Clocked
      <4>9. \A o \in minted' : row'[o].seen <= now' /\ lastUse'[o] <= now'
        BY <2>t, <4>1, <4>2, <4>3, <4>4 DEF Clocked
      <4>10. \A o \in minted' : o \in missed' \cup touches'
                                  \/ lastUse'[o] <= row'[o].seen + TouchEvery
        BY <2>t, <4>1, <4>2, <4>3, <4>4 DEF Clocked
      <4> QED
        BY <4>1, <4>4, <4>7, <4>8, <4>9, <4>10 DEF Clocked
    <3> QED
      BY <2>2, <3>1, <3>2, <3>3, <3>4, <3>5, <3>6, <3>7, <3>8, <3>9, <3>10 DEF ServerStep
  <2>3. ASSUME NEW r \in Reqs, Fail(r) PROVE Clocked'
    <3>1. PICK o \in {"401", "500"} : Answer(r, o)
      BY <2>3 DEF Fail
    <3> QED
      BY <2>3, <3>1, <2>b, <2>c, <2>e, <2>s DEF Fail
  \* A touch makes the row more recent, and no request waits to revoke it.
  <2>4. ASSUME NEW s \in Sids, Touch(s) PROVE Clocked'
    <3>1. /\ s \in touches /\ touches' = touches \ {s}
          /\ row'[s].seen = now /\ \A o \in minted \ {s} : row'[o].seen = row[o].seen
          /\ UNCHANGED <<now, minted, req, lastUse, missed>>
      BY <2>4 DEF Touch, Typed, TypeOK, Row
    <3>2. \A o \in minted \ {s} : Abandoned(o)' = Abandoned(o)
      BY <3>1 DEF Abandoned, IdleFor
    <3>3. \A r \in Reqs : req[r].pc = "idleRevoke" => req[r].cookie # s
      BY <3>1 DEF Clocked
    <3>4. \A r \in Reqs : req'[r].pc = "idleRevoke" => Abandoned(req[r].cookie)'
      BY <2>t, <3>1, <3>2, <3>3 DEF Clocked
    <3>5. \A o \in touches' : ~Abandoned(o)'
      BY <3>1, <3>2 DEF Clocked
    <3>6. \A o \in minted : o \in missed' \cup touches'
                              \/ lastUse'[o] <= row'[o].seen + TouchEvery
      BY <2>t, <3>1 DEF Clocked
    <3>7. \A o \in minted : row'[o].seen <= now' /\ lastUse'[o] <= now'
      BY <2>t, <3>1 DEF Clocked
    <3> QED
      BY <3>1, <3>4, <3>5, <3>6, <3>7 DEF Clocked
  <2>5. ASSUME NEW s \in Sids, LoseTouch(s) PROVE Clocked'
    BY <2>5 DEF LoseTouch, Clocked, Abandoned, IdleFor
  <2>6. ASSUME NEW p \in Scims, Directory(p) PROVE Clocked'
    <3>1. UNCHANGED <<now, minted, touches, lastUse, missed>>
      BY <2>6 DEF Directory, ScimStep, ScimLock, ScimRevoke, ScimCommit, ScimRollback
    <3>2. Rests
      BY <2>6, <2>d, <2>e DEF Directory, ScimStep, ScimLock, ScimRevoke, ScimCommit, ScimRollback
    <3>3. \A r \in Reqs : req'[r].pc = req[r].pc /\ req'[r].cookie = req[r].cookie
      <4>1. CASE ScimCommit(p)
        BY <4>1, <2>t DEF ScimCommit, Req
      <4>2. CASE ~ScimCommit(p)
        BY <2>6, <4>2 DEF Directory, ScimStep, ScimLock, ScimRevoke, ScimRollback
      <4> QED
        BY <4>1, <4>2
    <3> QED
      BY <3>1, <3>2, <3>3, <2>s DEF Turned
  <2>7. CASE Operator
    <3>1. UNCHANGED <<now, minted, touches, lastUse, missed>>
      BY <2>7 DEF Operator, Suspend, Activate, RevokeSessions
    <3>2. Rests
      BY <2>7, <2>d, <2>e DEF Operator, Suspend, Activate, RevokeSessions
    <3>3. \A r \in Reqs : req'[r].pc = req[r].pc /\ req'[r].cookie = req[r].cookie
      BY <2>7, <2>t DEF Operator, Suspend, Activate, RevokeSessions, Req
    <3> QED
      BY <3>1, <3>2, <3>3, <2>s DEF Turned
  \* Time passes only while no touch is under way.
  <2>8. CASE Tick
    BY <2>8, <2>t DEF Tick, Clocked, Abandoned, IdleFor
  <2>9. CASE UNCHANGED vars
    BY <2>9 DEF vars, Clocked, Abandoned, IdleFor
  <2> QED
    BY <2>1, <2>2, <2>3, <2>4, <2>5, <2>6, <2>7, <2>8, <2>9 DEF Next, Directory
<1>3. Typed /\ Clocked => \A r \in Reqs : Honest(r)
  <2> SUFFICES ASSUME Typed, Clocked, NEW r \in Reqs, IdleRevoke(r),
                      req[r].cookie \notin missed
               PROVE  now - lastUse[req[r].cookie] > IdleMax - TouchEvery
    OBVIOUS
  <2>1. /\ req[r].cookie \in minted /\ req[r].cookie \in Sids
        /\ Abandoned(req[r].cookie)
    BY DEF IdleRevoke, Typed, Attached, TypeOK, Clocked
  <2>2. lastUse[req[r].cookie] <= row[req[r].cookie].seen + TouchEvery
    BY <2>1 DEF Clocked
  <2>3. /\ now \in Nat /\ row[req[r].cookie].seen \in Nat /\ lastUse[req[r].cookie] \in Nat
        /\ TouchEvery \in Nat /\ IdleMax \in Nat
    BY <2>1, TimeAssumption DEF Typed, TypeOK, Row, Time
  <2> QED
    BY <2>1, <2>2, <2>3 DEF Abandoned, IdleFor
<1> QED
  BY <1>1, <1>2, <1>3, TypeCorrect, PTL DEF Spec, IdleRevokesOnlyUnused

-----------------------------------------------------------------------------
(* Whom the middleware turns away, and what a rotation hands over: a request *)
(* of a deprovisioned person, one to a suspended tenant, and the stolen copy  *)
(* of a session that was replaced.                                           *)

(* A session id that is somebody's names a row of theirs.                    *)
Owned(s, u) == s # None => s \in minted /\ row[s].user = u

(* ... and whoever holds it, the one it replaced is dead.                    *)
Holds(s, u) ==
    s # None => /\ s \in minted /\ row[s].user = u
                /\ row[s].from # None => row[row[s].from].revoked

OwnedReq(q) ==
    /\ Holds(q.cookie, q.user)
    /\ Holds(q.sid, q.user)
    /\ Owned(q.fresh, q.user)
    /\ Holds(q.set, q.user)

Custody ==
    /\ \A u \in Users : Holds(jar[u], u)
    /\ \A r \in Reqs : OwnedReq(req[r])

(* No request or browser ever holds another person's session.                *)
Ownership ==
    /\ \A u \in Users : Owned(jar[u], u)
    /\ \A r \in Reqs : /\ Owned(req[r].cookie, req[r].user)
                        /\ Owned(req[r].sid, req[r].user)
                        /\ Owned(req[r].fresh, req[r].user)
                        /\ Owned(req[r].set, req[r].user)

(* A sign-in replaces nothing; a rotation replaces the session it was asked    *)
(* under, and hands the new one out only when that one is revoked.           *)
RotatesReq(q) ==
    /\ q.kind = "login" => q.sid = None /\ q.pc \in {"mint", "insert", "reply"}
    /\ q.pc = "revokeOld" => row[q.fresh].from = q.sid
    /\ q.pc = "reresolve" => q.set = q.fresh

Chained == \A s \in minted : row[s].from # None => row[s].from \in minted

(* A request sent by an inactive person passes no row policy, so it never      *)
(* rotates; one sent to a suspended tenant is never admitted.               *)
RefusedReq(q) ==
    /\ q.gone => /\ ~active[q.user]
                 /\ q.pc \notin {"insert", "revokeOld", "reresolve"}
                 /\ q.pc = "handler" => q.sid \in raced
    /\ q.held => ~tenantUp /\ q.pc # "handler"

Refuses ==
    /\ Custody
    /\ \A r \in Reqs : RefusedReq(req[r]) /\ RotatesReq(req[r])

Refusing == Deprovisioning /\ Chained /\ Refuses

-----------------------------------------------------------------------------

-----------------------------------------------------------------------------
(* The invariant, step by step: the browser, the middleware and the        *)
(* handlers, then the directory, the operator and the rest.                 *)
LEMMA RefusingAlways == Spec => []Refusing
\* Frames: what is left alone stays owned and refused.
<1>fr. ASSUME Refusing, RowsKept, minted \subseteq minted'
       PROVE  /\ \A s, u : Owned(s, u) => (s # None => s \in minted' /\ row'[s].user = u)
              /\ \A s, u : Holds(s, u) =>
                   (s # None => /\ s \in minted' /\ row'[s].user = u
                                /\ row'[s].from # None => row'[row'[s].from].revoked)
              /\ \A r \in Reqs : req[r].pc = "revokeOld" => row'[req[r].fresh].from = req[r].sid
  <2> USE <1>fr
  <2>1. \A r \in Reqs : req[r].pc = "revokeOld" => req[r].fresh \in minted
    BY DEF Refusing, Deprovisioning, Typed, Attached
  <2> QED
    BY <2>1 DEF RowsKept, Refusing, Refuses, Chained, Owned, Holds, RotatesReq
\* One request moves, and neither the person nor the tenant changes status.
<1>or. ASSUME Refusing, RowsKept, minted \subseteq minted', NEW r \in Reqs,
              UNCHANGED <<jar, active, tenantUp>>, raced \subseteq raced',
              \A o \in Reqs \ {r} : req'[o] = req[o],
              OwnedReq(req[r])', RefusedReq(req[r])', RotatesReq(req[r])'
       PROVE  Refuses'
  <2> USE <1>or
  <2>1. \A u \in Users : Holds(jar[u], u)'
    BY <1>fr DEF Refusing, Refuses, Custody, Holds
  <2>2. ASSUME NEW o \in Reqs \ {r}
        PROVE  OwnedReq(req[o])' /\ RefusedReq(req[o])' /\ RotatesReq(req[o])'
    <3>1. OwnedReq(req[o]) /\ RefusedReq(req[o]) /\ RotatesReq(req[o]) /\ req'[o] = req[o]
      BY DEF Refusing, Refuses, Custody
    <3>2. OwnedReq(req[o])'
      <4>1. /\ Holds(req[o].cookie, req[o].user) /\ Holds(req[o].sid, req[o].user)
            /\ Owned(req[o].fresh, req[o].user) /\ Holds(req[o].set, req[o].user)
        BY <3>1 DEF OwnedReq
      <4>2. Holds(req[o].cookie, req[o].user)'
        BY <3>1, <4>1, <1>fr DEF Holds
      <4>3. Holds(req[o].sid, req[o].user)'
        BY <3>1, <4>1, <1>fr DEF Holds
      <4>4. Owned(req[o].fresh, req[o].user)'
        BY <3>1, <4>1, <1>fr DEF Owned
      <4>5. Holds(req[o].set, req[o].user)'
        BY <3>1, <4>1, <1>fr DEF Holds
      <4> QED
        BY <4>2, <4>3, <4>4, <4>5 DEF OwnedReq
    <3>3. RefusedReq(req[o])'
      BY <3>1 DEF RefusedReq
    <3>4. RotatesReq(req[o])'
      BY <3>1, <1>fr DEF RotatesReq
    <3> QED
      BY <3>2, <3>3, <3>4
  <2> QED
    BY <2>1, <2>2 DEF Refuses, Custody
<1>ra. ASSUME Refusing, RowsKept, minted \subseteq minted', NEW r \in Reqs,
              UNCHANGED <<jar, active, tenantUp, raced>>,
              NEW outcome \in Outcomes, Answer(r, outcome)
       PROVE  Refuses'
  <2> USE <1>ra
  <2>1. /\ req'[r].pc = "reply" /\ req'[r].sid \in {None, req[r].sid}
        /\ req'[r].user = req[r].user /\ req'[r].set = req[r].set
        /\ req'[r].cookie = None /\ req'[r].fresh = None /\ req'[r].kind = req[r].kind
        /\ req'[r].gone = FALSE /\ req'[r].held = FALSE
        /\ \A o \in Reqs \ {r} : req'[o] = req[o]
    BY AnswerType DEF Refusing, Deprovisioning, Typed
  <2>2. OwnedReq(req[r]) /\ RotatesReq(req[r])
    BY DEF Refusing, Refuses, Custody
  <2>3. OwnedReq(req[r])'
    BY <2>1, <2>2, <1>fr, SMTT(40) DEF OwnedReq, Owned, Holds
  <2>4. RefusedReq(req[r])' /\ RotatesReq(req[r])'
    BY <2>1, <2>2 DEF RefusedReq, RotatesReq
  <2> QED
    BY <2>1, <2>3, <2>4, <1>or
<1>b. ASSUME Refusing, RowsKept, minted \subseteq minted', NEW r \in Reqs, BrowserStep(r)
      PROVE  Refuses'
  <2> USE <1>b
  <2> USE DEF serverVars, browserVars, history
  <2>a. TypeOK /\ req \in [Reqs -> Req]
    BY DEF Refusing, Deprovisioning, Typed, TypeOK
  <2>n. ASSUME NEW u \in Users, NEW k
        PROVE  LET q == NewReq(k, u) IN
               /\ q.user = u /\ q.cookie = jar[u] /\ q.gone = ~active[u]
               /\ q.held = ~tenantUp /\ q.pc = "resolve" /\ q.kind = k
               /\ q.sid = None /\ q.fresh = None /\ q.set = None
    BY DEF NewReq, IdleReq
  <2> DEFINE Sent(u, pc) ==
        /\ req'[r].kind = "login" <=> pc = "mint"
        /\ req'[r].user = u /\ req'[r].cookie = jar[u] /\ req'[r].gone = ~active[u]
        /\ req'[r].held = ~tenantUp /\ req'[r].pc = pc
        /\ req'[r].sid = None /\ req'[r].fresh = None /\ req'[r].set = None
        /\ \A o \in Reqs \ {r} : req'[o] = req[o]
        /\ UNCHANGED <<jar, active, tenantUp, raced>>
  <2>b. ASSUME NEW u \in Users, NEW pc \in {"mint", "resolve"}, Sent(u, pc)
        PROVE Refuses'
    <3>1. Holds(jar[u], u)
      BY DEF Refusing, Refuses, Custody
    <3>2. OwnedReq(req[r])'
      BY <2>b, <3>1, <1>fr, SMTT(40) DEF OwnedReq, Owned, Holds
    <3>3. RefusedReq(req[r])' /\ RotatesReq(req[r])'
      BY <2>b DEF RefusedReq, RotatesReq
    <3> QED
      BY <2>b, <3>2, <3>3, <1>or
  <2> HIDE DEF Sent
  <2>1. ASSUME NEW u \in Users, Login(r, u) PROVE Refuses'
    <3> DEFINE q == NewReq("login", u)
               n == [q EXCEPT !.pc = "mint"]
    <3>1. req' = [req EXCEPT ![r] = n] /\ UNCHANGED <<jar, active, tenantUp, raced>>
      BY <2>1 DEF Login
    <3>2. q \in Req /\ "login" \in AllKinds
      BY <2>a, NewReqType DEF AllKinds
    <3>3. /\ n.user = q.user /\ n.cookie = q.cookie /\ n.gone = q.gone
          /\ n.held = q.held /\ n.kind = q.kind /\ n.pc = "mint"
          /\ n.sid = q.sid /\ n.fresh = q.fresh /\ n.set = q.set /\ n.kind = q.kind
      BY <3>2 DEF Req
    <3>4. /\ q.user = u /\ q.cookie = jar[u] /\ q.gone = ~active[u] /\ q.kind = "login"
          /\ q.held = ~tenantUp /\ q.sid = None /\ q.fresh = None /\ q.set = None
      BY <2>n
    <3> HIDE DEF n, q
    <3>5. Sent(u, "mint")
      BY <2>a, <3>1, <3>3, <3>4 DEF Sent
    <3> QED
      BY <2>b, <3>5
  <2>2. ASSUME NEW u \in Users, LoadPage(r, u) PROVE Refuses'
    <3> DEFINE q == NewReq("me", u)
    <3>1. req' = [req EXCEPT ![r] = q] /\ UNCHANGED <<jar, active, tenantUp, raced>>
      BY <2>2 DEF LoadPage
    <3>2. /\ q.user = u /\ q.cookie = jar[u] /\ q.gone = ~active[u] /\ q.pc = "resolve" /\ q.kind = "me"
          /\ q.held = ~tenantUp /\ q.sid = None /\ q.fresh = None /\ q.set = None
      BY <2>n
    <3> HIDE DEF q
    <3>3. Sent(u, "resolve")
      BY <2>a, <3>1, <3>2 DEF Sent
    <3> QED
      BY <2>b, <3>3
  <2>3. ASSUME NEW u \in Users, NEW k \in Kinds, Call(r, u, k) PROVE Refuses'
    <3> DEFINE q == NewReq(k, u)
               n == [q EXCEPT !.csrf = IF k = "read" THEN None ELSE page[u]]
    <3>1. req' = [req EXCEPT ![r] = n] /\ UNCHANGED <<jar, active, tenantUp, raced>>
      BY <2>3 DEF Call
    <3>2. q \in Req
      BY <2>a, NewReqType, KindAssumption
    <3>3. /\ n.user = q.user /\ n.cookie = q.cookie /\ n.gone = q.gone
          /\ n.held = q.held /\ n.pc = q.pc
          /\ n.sid = q.sid /\ n.fresh = q.fresh /\ n.set = q.set /\ n.kind = q.kind
      BY <3>2 DEF Req
    <3>6. k # "login"
      BY <2>3 DEF Call
    <3>4. /\ q.user = u /\ q.cookie = jar[u] /\ q.gone = ~active[u] /\ q.pc = "resolve" /\ q.kind = k
          /\ q.held = ~tenantUp /\ q.sid = None /\ q.fresh = None /\ q.set = None
      BY <2>n
    <3> HIDE DEF n, q
    <3>5. Sent(u, "resolve")
      BY <2>a, <3>1, <3>3, <3>4, <3>6 DEF Sent
    <3> QED
      BY <2>b, <3>5
  <2>4. ASSUME Receive(r) \/ Lose(r) PROVE Refuses'
    <3>1. /\ req'[r] = IdleReq /\ \A o \in Reqs \ {r} : req'[o] = req[o]
          /\ UNCHANGED <<active, tenantUp, raced>>
      BY <2>4, <2>a DEF Receive, Lose
    <3>2. IdleReq.pc = "idle" /\ IdleReq.cookie = None /\ IdleReq.sid = None
          /\ IdleReq.fresh = None /\ IdleReq.set = None /\ ~IdleReq.gone /\ ~IdleReq.held
          /\ IdleReq.kind = "me"
      BY DEF IdleReq
    <3>3. OwnedReq(req[r])' /\ RefusedReq(req[r])' /\ RotatesReq(req[r])'
      BY <3>1, <3>2 DEF OwnedReq, Owned, Holds, RefusedReq, RotatesReq
    <3>4. ASSUME NEW u \in Users PROVE Holds(jar[u], u)'
      <4>1. \/ jar'[u] \in {None, jar[u]}
            \/ u = req[r].user /\ jar'[u] = req[r].set
        <5>1. CASE Lose(r)
          BY <5>1 DEF Lose
        <5>2. CASE Receive(r) /\ u # req[r].user
          BY <2>a, <5>2 DEF Receive, TypeOK
        <5>3. CASE Receive(r) /\ u = req[r].user
          <6>1. jar'[u] \in {None, req[r].set, jar[u]}
            BY <2>a, <5>3 DEF Receive, TypeOK
          <6> QED
            BY <5>3, <6>1
        <5> QED
          BY <2>4, <5>1, <5>2, <5>3
      <4>2. Holds(jar[u], u) /\ Holds(req[r].set, req[r].user)
        BY DEF Refusing, Refuses, Custody, OwnedReq
      <4> QED
        BY <4>1, <4>2, <1>fr DEF Holds
    <3>5. ASSUME NEW o \in Reqs \ {r}
          PROVE  OwnedReq(req[o])' /\ RefusedReq(req[o])' /\ RotatesReq(req[o])'
      <4>1. OwnedReq(req[o]) /\ RefusedReq(req[o]) /\ RotatesReq(req[o]) /\ req'[o] = req[o]
        BY <3>1 DEF Refusing, Refuses, Custody
      <4>2. OwnedReq(req[o])'
        BY <4>1, <1>fr, SMTT(40) DEF OwnedReq, Owned, Holds
      <4>3. RefusedReq(req[o])' /\ RotatesReq(req[o])'
        BY <3>1, <4>1, <1>fr DEF RefusedReq, RotatesReq
      <4> QED
        BY <4>2, <4>3
    <3> QED
      BY <3>3, <3>4, <3>5 DEF Refuses, Custody
  <2> QED
    BY <2>1, <2>2, <2>3, <2>4 DEF BrowserStep
<1>s. ASSUME Refusing, RowsKept, minted \subseteq minted', NEW r \in Reqs, ServerStep(r)
      PROVE  Refuses'
  <2> USE <1>s
  <2> USE DEF serverVars, browserVars, history
  <2>a. Typed /\ TypeOK /\ req \in [Reqs -> Req] /\ req[r] \in Req
    BY DEF Refusing, Deprovisioning, Typed, TypeOK
  <2>b. OwnedReq(req[r]) /\ RefusedReq(req[r]) /\ RotatesReq(req[r])
    BY DEF Refusing, Refuses, Custody
  \* A usable row of an inactive person is one the deprovisioning could not see.
  <2>u. ASSUME NEW s, NEW u, Holds(s, u), Usable(s), ~active[u]
        PROVE  s \in raced
    <3>1. s # None
      BY <2>a, <2>u, NoneAssumption DEF Usable, TypeOK
    <3> QED
      BY <2>u, <3>1 DEF Usable, Holds, Refusing, Deprovisioning, OnlyOverlappingInsertSurvives
  <2>o. {"401", "403", "500", "ok"} \subseteq Outcomes
    BY DEF Outcomes
  <2> DEFINE q == req[r]
  <2>1. CASE Refuse(r)
    BY <2>1, <2>o, <1>ra DEF Refuse
  <2>2. CASE IdleRevoke(r)
    BY <2>2, <2>o, <1>ra DEF IdleRevoke
  <2>3. CASE RefuseSuspended(r)
    BY <2>3, <2>o, <1>ra DEF RefuseSuspended
  <2>4. CASE RefuseCsrf(r)
    BY <2>4, <2>o, <1>ra DEF RefuseCsrf
  <2>5. CASE NoRowLeft(r)
    BY <2>5, <2>o, <1>ra DEF NoRowLeft
  <2>6. CASE ReresolveThrows(r)
    BY <2>6, <2>o, <1>ra DEF ReresolveThrows
  <2>7. CASE Serve(r)
    BY <2>7, <2>o, <1>ra DEF Serve
  <2>8. CASE Logout(r)
    BY <2>8, <2>o, <1>ra DEF Logout
  <2>9. CASE FindAbandoned(r)
    <3> DEFINE n == [q EXCEPT !.pc = "idleRevoke"]
    <3>1. req' = [req EXCEPT ![r] = n] /\ UNCHANGED <<jar, active, tenantUp, raced>>
      BY <2>9 DEF FindAbandoned
    <3>2. /\ n.user = q.user /\ n.cookie = q.cookie /\ n.sid = q.sid /\ n.fresh = q.fresh
          /\ n.set = q.set /\ n.gone = q.gone /\ n.held = q.held /\ n.kind = q.kind /\ n.pc = "idleRevoke"
      BY <2>a DEF Req
    <3> HIDE DEF n
    <3>3. OwnedReq(req[r])' /\ RefusedReq(req[r])' /\ RotatesReq(req[r])'
      <4>1. req'[r] = n
        BY <2>a, <3>1, <3>2
      <4>2. OwnedReq(req[r])'
        BY <2>b, <4>1, <3>2, <1>fr, SMTT(40) DEF OwnedReq, Owned, Holds
      <4>3. RefusedReq(req[r])' /\ RotatesReq(req[r])'
        <5>1. q.pc = "resolve"
          BY <2>9 DEF FindAbandoned
        <5> QED
          BY <2>b, <5>1, <4>1, <3>1, <3>2 DEF RefusedReq, RotatesReq
      <4> QED
        BY <4>2, <4>3
    <3> QED
      BY <2>a, <3>1, <3>3, <1>or
  <2>10. CASE Admit(r)
    <3> DEFINE next == IF ShouldRotate(q.cookie) THEN "mint" ELSE "handler"
               n == [q EXCEPT !.sid = q.cookie, !.cookie = None,
                              !.csrf = None, !.pc = next]
    <3>1. req' = [req EXCEPT ![r] = n] /\ UNCHANGED <<jar, active, tenantUp, raced>>
      BY <2>10, <2>a DEF Admit, Req
    <3>2. next \in {"mint", "handler"}
      OBVIOUS
    <3> HIDE DEF next
    <3>3. /\ n.user = q.user /\ n.cookie = None /\ n.sid = q.cookie /\ n.fresh = q.fresh
          /\ n.set = q.set /\ n.gone = q.gone /\ n.held = q.held /\ n.kind = q.kind
          /\ n.pc \in {"mint", "handler"}
      BY <2>a, <3>2 DEF Req
    <3> HIDE DEF n
    <3>4. Usable(q.cookie) /\ tenantUp
      BY <2>10 DEF Admit, Resolves
    <3>5. q.gone => q.cookie \in raced
      BY <2>b, <3>4, <2>u DEF OwnedReq, RefusedReq
    <3>6. OwnedReq(req[r])'
      BY <2>a, <2>b, <3>1, <3>3, <1>fr, SMTT(40) DEF OwnedReq, Owned, Holds
    <3>7. RefusedReq(req[r])' /\ RotatesReq(req[r])'
      <4>1. q.kind # "login"
        BY <2>b, <2>10 DEF Admit, RotatesReq
      <4> QED
        BY <2>a, <2>b, <3>1, <3>3, <3>4, <3>5, <4>1 DEF RefusedReq, RotatesReq
    <3> QED
      BY <2>a, <3>1, <3>6, <3>7, <1>or
  <2>11. CASE InsertCheck(r)
    <3>1. CASE ~active[q.user]
      BY <2>11, <3>1, <2>o, <1>ra DEF InsertCheck
    <3>2. CASE active[q.user]
      <4> DEFINE n == [q EXCEPT !.pc = "insert"]
      <4>1. req' = [req EXCEPT ![r] = n] /\ UNCHANGED <<jar, active, tenantUp, raced>>
        BY <2>11, <3>2 DEF InsertCheck
      <4>2. /\ n.user = q.user /\ n.cookie = q.cookie /\ n.sid = q.sid /\ n.fresh = q.fresh
            /\ n.set = q.set /\ n.gone = q.gone /\ n.held = q.held /\ n.kind = q.kind /\ n.pc = "insert"
        BY <2>a DEF Req
      <4> HIDE DEF n
      <4>3. OwnedReq(req[r])' /\ RefusedReq(req[r])' /\ RotatesReq(req[r])'
        <5>1. req'[r] = n
          BY <2>a, <3>2, <4>1, <4>2
        <5>2. OwnedReq(req[r])'
          BY <2>b, <5>1, <4>2, <1>fr, SMTT(40) DEF OwnedReq, Owned, Holds
        <5>3. RefusedReq(req[r])' /\ RotatesReq(req[r])'
          BY <2>b, <5>1, <2>a, <3>2, <4>1, <4>2, <1>fr DEF RefusedReq, RotatesReq
        <5> QED
          BY <5>2, <5>3
      <4> QED
        BY <2>a, <4>1, <4>3, <1>or
    <3> QED
      BY <3>1, <3>2
  <2>12. CASE InsertRow(r)
    <3> DEFINE login == q.kind = "login"
    <3>1. PICK s \in Sids \ minted :
            /\ minted' = minted \cup {s}
            /\ row'[s].user = q.user /\ row'[s].from = q.sid
            /\ raced \subseteq raced'
            /\ req' = [req EXCEPT ![r] =
                 IF login THEN [IdleReq EXCEPT !.pc = "reply", !.kind = "login",
                                  !.user = q.user, !.status = "ok", !.set = s]
                          ELSE [q EXCEPT !.pc = "revokeOld", !.fresh = s]]
      BY <2>12, <2>a, InsertedRow
    <3>a. s \in minted' /\ row'[s].user = q.user /\ row'[s].from = q.sid
      BY <3>1
    <3>2. q.pc = "insert" /\ UNCHANGED <<jar, active, tenantUp>>
      BY <2>12 DEF InsertRow
    <3>3. ~q.gone
      BY <2>b, <3>2 DEF RefusedReq
    <3>4. CASE login
      <4> DEFINE n == [IdleReq EXCEPT !.pc = "reply", !.kind = "login",
                         !.user = q.user, !.status = "ok", !.set = s]
      <4>1. req' = [req EXCEPT ![r] = n]
        BY <3>1, <3>4
      <4>2. /\ n.user = q.user /\ n.cookie = None /\ n.sid = None /\ n.fresh = None
            /\ n.set = s /\ ~n.gone /\ ~n.held /\ n.pc = "reply" /\ n.kind = "login"
        BY DEF IdleReq
      <4> HIDE DEF n
      <4>3. req'[r] = n
        BY <2>a, <4>1
      <4>a. OwnedReq(req[r])'
        <5>1. q.sid = None
          BY <2>b, <3>4 DEF RotatesReq
        <5> QED
          BY <3>a, <4>2, <4>3, <5>1 DEF OwnedReq, Owned, Holds
      <4>b. RefusedReq(req[r])' /\ RotatesReq(req[r])'
        BY <4>2, <4>3 DEF RefusedReq, RotatesReq
      <4>4. OwnedReq(req[r])' /\ RefusedReq(req[r])' /\ RotatesReq(req[r])'
        BY <4>a, <4>b
      <4> QED
        BY <2>a, <3>1, <3>2, <4>1, <4>4, <1>or
    <3>5. CASE ~login
      <4> DEFINE n == [q EXCEPT !.pc = "revokeOld", !.fresh = s]
      <4>1. req' = [req EXCEPT ![r] = n]
        BY <3>1, <3>5
      <4>2. /\ n.user = q.user /\ n.cookie = q.cookie /\ n.sid = q.sid /\ n.fresh = s
            /\ n.set = q.set /\ n.gone = q.gone /\ n.held = q.held /\ n.kind = q.kind /\ n.pc = "revokeOld"
        BY <2>a DEF Req
      <4> HIDE DEF n
      <4>3. req'[r] = n
        BY <2>a, <4>1
      <4>4. OwnedReq(req[r])'
        BY <2>b, <3>a, <4>2, <4>3, <1>fr, SMTT(40) DEF OwnedReq, Owned, Holds
      <4>5. RefusedReq(req[r])' /\ RotatesReq(req[r])'
        BY <2>b, <3>a, <3>2, <3>3, <3>5, <4>2, <4>3 DEF RefusedReq, RotatesReq
      <4> QED
        BY <2>a, <3>1, <3>2, <4>1, <4>4, <4>5, <1>or
    <3> QED
      BY <3>4, <3>5
  <2>13. CASE RevokeOld(r)
    <3> DEFINE n == [q EXCEPT !.pc = "reresolve", !.set = q.fresh]
    <3>1. /\ req' = [req EXCEPT ![r] = n] /\ q.pc = "revokeOld"
          /\ UNCHANGED <<jar, active, tenantUp, raced>>
      BY <2>13, <2>a DEF RevokeOld, Req
    <3>2. /\ n.user = q.user /\ n.cookie = q.cookie /\ n.sid = q.sid /\ n.fresh = q.fresh
          /\ n.set = q.fresh /\ n.gone = q.gone /\ n.held = q.held /\ n.kind = q.kind
          /\ n.pc = "reresolve"
      BY <2>a DEF Req
    <3> HIDE DEF n
    <3>3. req'[r] = n
      BY <2>a, <3>1
    \* The session the new one replaces is dead from here on.
    <3>4. q.sid \in Sids /\ row'[q.fresh].from = q.sid /\ row'[q.sid].revoked
      <4>1. q.sid \in Sids /\ Revoke({q.sid})
        BY <2>13, <2>a, <3>1 DEF RevokeOld, Typed, Attached, TypeOK
      <4> QED
        BY <2>a, <3>1, <4>1, RevokeType, <1>fr
    <3>5. OwnedReq(req[r])'
      BY <2>b, <3>2, <3>3, <3>4, <1>fr, SMTT(40) DEF OwnedReq, Owned, Holds
    <3>6. RefusedReq(req[r])' /\ RotatesReq(req[r])'
      BY <2>a, <2>b, <3>1, <3>2, <3>3 DEF RefusedReq, RotatesReq
    <3> QED
      BY <2>a, <3>1, <3>5, <3>6, <1>or
  <2>14. CASE Reresolve(r)
    <3> DEFINE n == [q EXCEPT !.pc = "handler", !.sid = q.fresh]
    <3>1. /\ req' = [req EXCEPT ![r] = n] /\ q.pc = "reresolve" /\ tenantUp
          /\ UNCHANGED <<jar, active, tenantUp, raced>>
      BY <2>14, <2>a DEF Reresolve, Resolves, Req
    <3>2. /\ n.user = q.user /\ n.cookie = q.cookie /\ n.sid = q.fresh /\ n.fresh = q.fresh
          /\ n.set = q.set /\ n.gone = q.gone /\ n.held = q.held /\ n.kind = q.kind /\ n.pc = "handler"
      BY <2>a DEF Req
    <3> HIDE DEF n
    <3>3. OwnedReq(req[r])' /\ RefusedReq(req[r])' /\ RotatesReq(req[r])'
      <4>1. req'[r] = n
        BY <2>a, <3>1, <3>2
      <4>2. OwnedReq(req[r])'
        <5>1. q.set = q.fresh
          BY <2>b, <3>1 DEF RotatesReq
        <5> QED
          BY <2>b, <5>1, <4>1, <3>2, <1>fr, SMTT(40) DEF OwnedReq, Owned, Holds
      <4>3. RefusedReq(req[r])' /\ RotatesReq(req[r])'
        BY <2>b, <4>1, <2>a, <3>1, <3>2 DEF RefusedReq, RotatesReq
      <4> QED
        BY <4>2, <4>3
    <3> QED
      BY <2>a, <3>1, <3>3, <1>or
  <2> QED
    BY <2>1, <2>2, <2>3, <2>4, <2>5, <2>6, <2>7, <2>8, <2>9, <2>10, <2>11, <2>12,
       <2>13, <2>14 DEF ServerStep
<1>o. ASSUME Refusing, RowsKept, minted \subseteq minted',
             \/ \E s \in Sids : Touch(s) \/ LoseTouch(s)
             \/ \E p \in Scims : Directory(p)
             \/ Operator \/ Tick \/ UNCHANGED vars
      PROVE  Refuses'
  <2> USE <1>o
  <2> USE DEF serverVars, browserVars, history
  <2>a. TypeOK /\ req \in [Reqs -> Req]
    BY DEF Refusing, Deprovisioning, Typed, TypeOK
  <2>b. \A r \in Reqs : /\ req[r].gone => ~active[req[r].user]
                        /\ req[r].held => ~tenantUp
    BY DEF Refusing, Refuses, RefusedReq
  \* Only the flags of requests change, and the rows and the jar are kept.
  <2>r. ASSUME UNCHANGED <<jar, raced>>,
               \A r \in Reqs :
                 /\ req'[r].user = req[r].user /\ req'[r].cookie = req[r].cookie
                 /\ req'[r].sid = req[r].sid /\ req'[r].fresh = req[r].fresh
                 /\ req'[r].set = req[r].set /\ req'[r].pc = req[r].pc /\ req'[r].kind = req[r].kind
                 /\ req'[r].gone => req[r].gone /\ ~active'[req[r].user]
                 /\ req'[r].held => req[r].held /\ ~tenantUp'
        PROVE  Refuses'
    <3>1. \A u \in Users : Holds(jar[u], u)'
      BY <2>r, <1>fr DEF Refusing, Refuses, Custody, Holds
    <3>2. ASSUME NEW r \in Reqs
          PROVE  OwnedReq(req[r])' /\ RefusedReq(req[r])' /\ RotatesReq(req[r])'
      <4>1. OwnedReq(req[r]) /\ RefusedReq(req[r]) /\ RotatesReq(req[r])
        BY DEF Refusing, Refuses, Custody
      <4>2. OwnedReq(req[r])'
        BY <2>r, <4>1, <1>fr, SMTT(40) DEF OwnedReq, Owned, Holds
      <4>3. RefusedReq(req[r])'
        BY <2>r, <4>1 DEF RefusedReq
      <4>4. RotatesReq(req[r])'
        BY <2>r, <4>1, <1>fr DEF RotatesReq
      <4> QED
        BY <4>2, <4>3, <4>4
    <3> QED
      BY <3>1, <3>2 DEF Refuses, Custody
  <2>1. CASE UNCHANGED <<req, jar, raced, active, tenantUp>>
    BY <2>1, <2>b, <2>r
  <2>2. ASSUME NEW p \in Scims, ScimCommit(p) PROVE Refuses'
    <3> DEFINE t == scim[p]
    <3>1. /\ UNCHANGED <<jar, raced, tenantUp>>
          /\ active' = [active EXCEPT ![t.user] = t.want]
          /\ req' = [r \in Reqs |-> IF req[r].user = t.user /\ t.want
                                THEN [req[r] EXCEPT !.gone = FALSE] ELSE req[r]]
      BY <2>2 DEF ScimCommit
    <3>2. ASSUME NEW r \in Reqs
          PROVE  /\ req'[r].user = req[r].user /\ req'[r].cookie = req[r].cookie
                 /\ req'[r].sid = req[r].sid /\ req'[r].fresh = req[r].fresh
                 /\ req'[r].set = req[r].set /\ req'[r].pc = req[r].pc /\ req'[r].kind = req[r].kind
                 /\ req'[r].held = req[r].held
                 /\ req'[r].gone => req[r].gone /\ ~(req[r].user = t.user /\ t.want)
      BY <2>a, <3>1 DEF Req
    <3>3. ASSUME NEW r \in Reqs, req[r].gone, ~(req[r].user = t.user /\ t.want)
          PROVE  ~active'[req[r].user]
      BY <2>a, <2>b, <3>1, <3>3 DEF TypeOK, Req
    <3> QED
      BY <2>b, <3>1, <3>2, <3>3, <2>r
  <2>3. CASE Activate
    <3>1. /\ UNCHANGED <<jar, raced, active>>
          /\ req' = [r \in Reqs |-> [req[r] EXCEPT !.held = FALSE]]
      BY <2>3 DEF Activate
    <3>2. ASSUME NEW r \in Reqs
          PROVE  /\ req'[r].user = req[r].user /\ req'[r].cookie = req[r].cookie
                 /\ req'[r].sid = req[r].sid /\ req'[r].fresh = req[r].fresh
                 /\ req'[r].set = req[r].set /\ req'[r].pc = req[r].pc /\ req'[r].kind = req[r].kind
                 /\ req'[r].gone = req[r].gone /\ ~req'[r].held
      BY <2>a, <3>1 DEF Req
    <3> QED
      BY <2>b, <3>1, <3>2, <2>r
  <2>4. CASE Suspend
    BY <2>4, <2>b, <2>r DEF Suspend
  <2>5. ASSUME NEW s \in Sids, Touch(s) \/ LoseTouch(s)
        PROVE  UNCHANGED <<req, jar, raced, active, tenantUp>>
    BY <2>5 DEF Touch, LoseTouch
  <2>6. ASSUME NEW p \in Scims, Directory(p), ~ScimCommit(p)
        PROVE  UNCHANGED <<req, jar, raced, active, tenantUp>>
    BY <2>6 DEF Directory, ScimStep, ScimLock, ScimRevoke, ScimRollback
  <2>7. CASE RevokeSessions \/ Tick \/ UNCHANGED vars
    BY <2>7, <2>1 DEF RevokeSessions, Tick, vars
  <2> QED
    BY <2>1, <2>2, <2>3, <2>4, <2>5, <2>6, <2>7 DEF Operator
<1>1. Deprovisioning /\ Init => Refusing
  <2> SUFFICES ASSUME Deprovisioning, Init PROVE Refusing
    OBVIOUS
  <2>1. \A r \in Reqs : req[r] = IdleReq
    BY DEF Init
  <2>2. OwnedReq(IdleReq) /\ RefusedReq(IdleReq) /\ RotatesReq(IdleReq)
    BY DEF OwnedReq, Owned, Holds, RefusedReq, RotatesReq, IdleReq
  <2> QED
    BY <2>1, <2>2 DEF Init, Refusing, Refuses, Chained, Custody, Holds
<1>2. Deprovisioning' /\ Refusing /\ [Next]_vars => Refusing'
  <2> SUFFICES ASSUME Deprovisioning', Refusing, [Next]_vars PROVE Refusing'
    OBVIOUS
  <2>1. Typed /\ RowsKept /\ minted \subseteq minted'
    BY RowsStep DEF Refusing, Deprovisioning
  <2>2. ASSUME NEW r \in Reqs, BrowserStep(r) PROVE Refuses'
    BY <2>1, <2>2, <1>b
  <2>3. ASSUME NEW r \in Reqs, ServerStep(r) PROVE Refuses'
    BY <2>1, <2>3, <1>s
  <2>4. ASSUME NEW r \in Reqs, Fail(r) PROVE Refuses'
    <3>1. PICK o \in {"401", "500"} : Answer(r, o)
      BY <2>4 DEF Fail
    <3>2. o \in Outcomes /\ UNCHANGED <<jar, active, tenantUp, raced>>
      BY <2>4 DEF Fail, Outcomes, serverVars, browserVars, history
    <3> QED
      BY <2>1, <3>1, <3>2, <1>ra
  <2>5. ASSUME \/ \E s \in Sids : Touch(s) \/ LoseTouch(s)
               \/ \E p \in Scims : Directory(p)
               \/ Operator \/ Tick \/ UNCHANGED vars
        PROVE  Refuses'
    BY <2>1, <2>5, <1>o
  <2>6. Refuses'
    BY <2>2, <2>3, <2>4, <2>5 DEF Next, Directory
  <2>7. Chained'
    <3>1. CASE UNCHANGED minted
      BY <2>1, <3>1 DEF Refusing, Chained, RowsKept
    <3>2. ASSUME NEW r \in Reqs, InsertRow(r) PROVE Chained'
      <4>1. PICK s \in Sids \ minted :
              /\ minted' = minted \cup {s} /\ row'[s].from = req[r].sid
              /\ \A o \in minted : row'[o] = row[o]
        BY <2>1, <3>2, InsertedRow
      <4>2. req[r].sid # None => req[r].sid \in minted
        BY DEF Refusing, Refuses, Custody, OwnedReq, Holds
      <4> QED
        BY <4>1, <4>2 DEF Refusing, Chained
    <3>3. (\E s \in Sids : Touch(s)) \/ Quiet \/ RevokesOnly => UNCHANGED minted
      BY DEF Touch, Quiet, RevokesOnly
    <3>4. ASSUME NEW p \in Scims, Directory(p) PROVE UNCHANGED minted
      BY <3>4 DEF Directory, ScimStep, ScimLock, ScimRevoke, ScimCommit, ScimRollback, serverVars
    <3> QED
      BY <2>1, <3>1, <3>2, <3>3, <3>4, StepShape
  <2> QED
    BY <2>6, <2>7 DEF Refusing
<1>3. Deprovisioning <=> Typed /\ ScimHoldsAll /\ OnlyOverlappingInsertSurvives
  BY DEF Deprovisioning
<1> QED
  BY <1>1, <1>2, <1>3, DeprovisioningRevokes, PTL DEF Spec

(* A request sent by a deprovisioned person reaches no handler, except under a *)
(* row that the deprovisioning raced with; rotation is no way round it.      *)
THEOREM DeprovisionedIsRefused == Spec => []DeprovisionedNeverServed
<1>1. Refusing => DeprovisionedNeverServed
  BY DEF Refusing, Refuses, RefusedReq, DeprovisionedNeverServed
<1> QED
  BY <1>1, RefusingAlways, PTL

(* A request sent while the tenant is suspended reaches no handler as long as  *)
(* the suspension lasts.                                                    *)
THEOREM SuspendedIsRefused == Spec => []SuspendedNeverServed
<1>1. Refusing => SuspendedNeverServed
  BY DEF Refusing, Refuses, RefusedReq, SuspendedNeverServed
<1> QED
  BY <1>1, RefusingAlways, PTL

(* No request and no browser ever holds a session of somebody else.           *)
THEOREM SessionsStayWithTheirOwner == Spec => []Ownership
<1>1. Refusing => Ownership
  BY DEF Refusing, Refuses, Custody, OwnedReq, Holds, Owned, Ownership
<1> QED
  BY <1>1, RefusingAlways, PTL

(* Once a browser or a handler holds a rotated session, the one it replaced is *)
(* dead, whatever else was under way with it (requireSession.js).            *)
THEOREM ReplacedIsDead == Spec => []SuccessorReplaces
<1>1. Refusing => SuccessorReplaces
  <2> SUFFICES ASSUME Refusing, NEW s \in minted, row[s].from # None,
                      (\E u \in Users : jar[u] = s) \/ (\E r \in Reqs : req[r].sid = s)
               PROVE  row[row[s].from].revoked
    BY DEF SuccessorReplaces
  <2>1. s # None
    BY NoneAssumption DEF Refusing, Deprovisioning, Typed, TypeOK
  <2> QED
    BY <2>1 DEF Refusing, Refuses, Custody, OwnedReq, Holds
<1> QED
  BY <1>1, RefusingAlways, PTL
=============================================================================
