------------------------------ MODULE Sessions ------------------------------
(***************************************************************************)
(* The life of a browser session of the deal API, for one tenant: the rows *)
(* of the `sessions` table, the requests that resolve, rotate, touch and   *)
(* revoke them one database statement at a time (server/src/auth/session.js *)
(* and server/src/middleware/requireSession.js), the SCIM transaction that *)
(* deprovisions a person (server/src/routes/scim.js writeUser), the        *)
(* operator commands that suspend a tenant or revoke its sessions, and the *)
(* browser: its cookie, and the page holding a CSRF token in memory.       *)
(*                                                                         *)
(* Each `await` on the database is a boundary between two actions.  The    *)
(* code between two awaits runs on one Node event loop and is atomic.      *)
(***************************************************************************)
EXTENDS Integers, FiniteSets

CONSTANTS
    Users,        \* people of the tenant; each has one browser
    Sids,         \* session rows that can ever be inserted (a bound)
    Reqs,         \* HTTP requests in flight at once (a bound)
    Scims,        \* SCIM transactions in flight at once (a bound)
    Kinds,        \* request kinds the browsers send, a subset of AllKinds
    Ttl,          \* SESSION_TTL_MS
    RotateAfter,  \* SESSION_ROTATE_MS
    IdleMax,      \* SESSION_IDLE_MS
    TouchEvery,   \* SESSION_TOUCH_INTERVAL_MS
    MaxTime,      \* the clock stops here (a bound)
    Faults,       \* what may go wrong around the code, a subset of AllFaults
    None          \* no session

AllKinds == {"login", "me", "read", "write", "logout"}

\* An answer lost on its way back, a statement that fails, an operator's command.
AllFaults == {"loss", "database", "operator"}

ASSUME TimeAssumption ==
    /\ {Ttl, RotateAfter, IdleMax, TouchEvery, MaxTime} \subseteq Nat
    /\ TouchEvery <= IdleMax
ASSUME KindAssumption == Kinds \subseteq AllKinds /\ Faults \subseteq AllFaults
ASSUME NoneAssumption == None \notin Sids
ASSUME UserAssumption == Users # {}

VARIABLES
    now,        \* the clock, in scaled units
    minted,     \* session ids whose row is committed
    row,        \* the row of each minted session
    active,     \* users.active, committed
    tenantUp,   \* tenants.status = 'active'
    touches,    \* un-awaited last_seen_at updates not yet executed
    jar,        \* the session cookie of each browser
    page,       \* the session each page's CSRF token was derived from
    req,        \* the requests
    scim,       \* the SCIM transactions
    \* history, read by properties only:
    raced,      \* rows whose policy check and commit straddled a deprovisioning
    lastUse,    \* when each session last admitted a request
    missed      \* sessions one of whose touches was lost

serverVars  == <<minted, row, active, tenantUp, touches>>
browserVars == <<jar, page>>
history     == <<raced, lastUse, missed>>
vars == <<now, serverVars, browserVars, req, scim, history>>

Time == 0 .. MaxTime
SidOrNone == Sids \cup {None}

\* The columns of a session row the code reads.  revoked is "revoked_at IS NOT
\* NULL"; from is the session this row replaced (history).
Row == [user : Users, issued : Time, seen : Time, revoked : BOOLEAN,
        from : SidOrNone]

Pcs == {"idle", "resolve", "idleRevoke", "mint", "insert", "revokeOld",
        "reresolve", "handler", "reply"}
Outcomes == {"none", "ok", "401", "403", "500"}

\* A request.  cookie and csrf are what the browser attached; sid is
\* req.session.sessionId; fresh is the row this request inserted; set is the
\* Set-Cookie header.  gone and held record that the user has been inactive,
\* or the tenant suspended, ever since the browser sent it (history).
Req == [pc : Pcs, kind : AllKinds, user : Users, cookie : SidOrNone,
        csrf : SidOrNone, sid : SidOrNone, fresh : SidOrNone,
        set : SidOrNone, status : Outcomes, gone : BOOLEAN, held : BOOLEAN]

ScimPcs == {"idle", "locked", "revoked"}
Scim == [pc : ScimPcs, user : Users, want : BOOLEAN, doomed : SUBSET Sids]

AnyUser == CHOOSE u \in Users : TRUE
IdleReq == [pc |-> "idle", kind |-> "me", user |-> AnyUser, cookie |-> None,
            csrf |-> None, sid |-> None, fresh |-> None, set |-> None,
            status |-> "none", gone |-> FALSE, held |-> FALSE]
IdleScim == [pc |-> "idle", user |-> AnyUser, want |-> TRUE, doomed |-> {}]
BlankRow == [user |-> AnyUser, issued |-> 0, seen |-> 0, revoked |-> FALSE,
             from |-> None]

TypeOK ==
    /\ now \in Time
    /\ minted \subseteq Sids
    /\ row \in [Sids -> Row]
    /\ active \in [Users -> BOOLEAN]
    /\ tenantUp \in BOOLEAN
    /\ touches \subseteq Sids
    /\ jar \in [Users -> SidOrNone]
    /\ page \in [Users -> SidOrNone]
    /\ req \in [Reqs -> Req]
    /\ scim \in [Scims -> Scim]
    /\ raced \subseteq Sids
    /\ lastUse \in [Sids -> Time]
    /\ missed \subseteq Sids

Init ==
    /\ now = 0
    /\ minted = {}
    /\ row = [s \in Sids |-> BlankRow]
    /\ active = [u \in Users |-> TRUE]
    /\ tenantUp = TRUE
    /\ touches = {}
    /\ jar = [u \in Users |-> None]
    /\ page = [u \in Users |-> None]
    /\ req = [r \in Reqs |-> IdleReq]
    /\ scim = [p \in Scims |-> IdleScim]
    /\ raced = {}
    /\ lastUse = [s \in Sids |-> 0]
    /\ missed = {}

-----------------------------------------------------------------------------
(* What the statements of session.js read.                                 *)

\* The row exists, is not revoked and has not reached expires_at.
Usable(s) == s \in minted /\ ~row[s].revoked /\ now < row[s].issued + Ttl

IdleFor(s)     == now - row[s].seen
Abandoned(s)   == IdleFor(s) > IdleMax
\* Mutant: the write-back compared with the idle limit, not its own interval.
WantsTouch_AtLimit(s) == IdleFor(s) > IdleMax

WantsTouch(s)  == IdleFor(s) > TouchEvery
ShouldRotate(s) == now - row[s].issued > RotateAfter

\* Mutant: the tenant's status is not read.
Resolves_AnyTenant(s) == Usable(s) /\ ~Abandoned(s)

\* resolve() returns a session for this cookie.
Resolves(s) == Usable(s) /\ ~Abandoned(s) /\ tenantUp

\* The token the page echoed was derived from this session's id.
CsrfValid(s, presented) == presented = s

\* Mutant: a plain SELECT where the person is read FOR UPDATE.
UserLocked_Never(u) == u \notin Users

\* Row locks: SELECT ... FOR UPDATE on the person, and the rows an uncommitted
\* UPDATE sessions has written.
UserLocked(u) == \E p \in Scims : scim[p].pc # "idle" /\ scim[p].user = u
RowLocked(s)  == \E p \in Scims : s \in scim[p].doomed

-----------------------------------------------------------------------------
(* The browser.                                                            *)

NewReq(k, u) ==
    [IdleReq EXCEPT !.pc = "resolve", !.kind = k, !.user = u,
                    !.cookie = jar[u], !.gone = ~active[u], !.held = ~tenantUp]

\* The SSO, magic-link or Duo callback has established who this is and calls
\* session.issue() at the end of a sign-in.
Login(r, u) ==
    /\ "login" \in Kinds
    /\ req[r].pc = "idle"
    /\ tenantUp
    /\ req' = [req EXCEPT ![r] = [NewReq("login", u) EXCEPT !.pc = "mint"]]
    /\ UNCHANGED <<now, serverVars, browserVars, scim, history>>

\* A page load: the page's memory is gone, and it asks /auth/me who it is.
LoadPage(r, u) ==
    /\ "me" \in Kinds
    /\ req[r].pc = "idle"
    /\ req' = [req EXCEPT ![r] = NewReq("me", u)]
    /\ page' = [page EXCEPT ![u] = None]
    /\ UNCHANGED <<now, serverVars, jar, scim, history>>

\* A signed-in page calls the API: the browser attaches its cookie and
\* api.js the CSRF token, on state-changing methods only.
Call(r, u, k) ==
    /\ k \in Kinds \cap {"read", "write", "logout"}
    /\ req[r].pc = "idle"
    /\ page[u] # None
    /\ req' = [req EXCEPT ![r] =
                [NewReq(k, u) EXCEPT !.csrf = IF k = "read" THEN None ELSE page[u]]]
    /\ UNCHANGED <<now, serverVars, browserVars, scim, history>>

\* The answer arrives.  The cookie jar takes Set-Cookie whatever the status;
\* me() keeps the token it was handed, or forgets it on 401; signOut() ends on
\* the sign-in screen whatever the server said.
Receive(r) ==
    LET q == req[r]  u == q.user
        cleared == q.kind = "logout" /\ q.status = "ok" IN
    /\ q.pc = "reply"
    /\ jar' = [jar EXCEPT ![u] = IF cleared THEN None
                                 ELSE IF q.set # None THEN q.set ELSE @]
    /\ page' = [page EXCEPT ![u] =
                  CASE q.kind = "me" /\ q.status = "ok"  -> q.sid
                    [] q.kind = "me" /\ q.status = "401" -> None
                    [] q.kind \in {"logout", "login"}    -> None
                    [] OTHER -> @]
    /\ req' = [req EXCEPT ![r] = IdleReq]
    /\ UNCHANGED <<now, serverVars, scim, history>>

\* The connection drops: fetch() rejects, and no header is seen.
Lose(r) ==
    LET q == req[r] IN
    /\ "loss" \in Faults
    /\ q.pc = "reply"
    /\ page' = IF q.kind = "logout" THEN [page EXCEPT ![q.user] = None] ELSE page
    /\ req' = [req EXCEPT ![r] = IdleReq]
    /\ UNCHANGED <<now, serverVars, jar, scim, history>>

-----------------------------------------------------------------------------
(* The server: requireSession(), one action per outcome of an awaited       *)
(* statement, then the route's handler.                                     *)


Revoke(S) == row' = [s \in Sids |->
    IF s \in S THEN [row[s] EXCEPT !.revoked = TRUE] ELSE row[s]]

\* Only the status, Set-Cookie and, for /me, the session reach the browser.
Answer(r, outcome) ==
    req' = [req EXCEPT ![r] = [IdleReq EXCEPT
              !.pc = "reply", !.status = outcome, !.kind = req[r].kind,
              !.user = req[r].user, !.set = req[r].set,
              !.sid = IF req[r].kind = "me" THEN req[r].sid ELSE None]]

\* resolve() writes the idle clock back without awaiting it.
StartTouch(s) == touches' = IF WantsTouch(s) THEN touches \cup {s} ELSE touches

\* Absent, revoked or expired: 401.
Refuse(r) ==
    /\ req[r].pc = "resolve"
    /\ ~Usable(req[r].cookie)
    /\ Answer(r, "401")
    /\ UNCHANGED <<now, serverVars, browserVars, scim, history>>

\* Unused for too long: the row is to be revoked before the 401.
FindAbandoned(r) ==
    /\ req[r].pc = "resolve"
    /\ Usable(req[r].cookie)
    /\ Abandoned(req[r].cookie)
    /\ req' = [req EXCEPT ![r].pc = "idleRevoke"]
    /\ UNCHANGED <<now, serverVars, browserVars, scim, history>>

IdleRevoke(r) ==
    /\ req[r].pc = "idleRevoke"
    /\ ~RowLocked(req[r].cookie)
    /\ Revoke({req[r].cookie})
    /\ Answer(r, "401")
    /\ UNCHANGED <<now, minted, active, tenantUp, touches, browserVars, scim, history>>

\* The tenant is suspended: 401, after the touch.
RefuseSuspended(r) ==
    LET s == req[r].cookie IN
    /\ req[r].pc = "resolve"
    /\ Usable(s) /\ ~Abandoned(s)
    /\ ~tenantUp
    /\ StartTouch(s)
    /\ Answer(r, "401")
    /\ UNCHANGED <<now, minted, row, active, tenantUp, browserVars, scim, history>>

CsrfChecked(r) ==
    req[r].kind \in {"write", "logout"} => CsrfValid(req[r].cookie, req[r].csrf)

RefuseCsrf(r) ==
    LET s == req[r].cookie IN
    /\ req[r].pc = "resolve"
    /\ Resolves(s)
    /\ ~CsrfChecked(r)
    /\ StartTouch(s)
    /\ Answer(r, "403")
    /\ UNCHANGED <<now, minted, row, active, tenantUp, browserVars, scim, history>>

\* Admitted: straight to the handler, or to the rotation of an old session.
Admit(r) ==
    LET s == req[r].cookie IN
    /\ req[r].pc = "resolve"
    /\ Resolves(s)
    /\ CsrfChecked(r)
    /\ StartTouch(s)
    /\ lastUse' = [lastUse EXCEPT ![s] = now]
    /\ req' = [req EXCEPT ![r].sid = s, ![r].cookie = None, ![r].csrf = None,
                          ![r].pc = IF ShouldRotate(s) THEN "mint" ELSE "handler"]
    /\ UNCHANGED <<now, minted, row, active, tenantUp, browserVars, scim, raced, missed>>

\* INSERT INTO sessions, first half: the row policy auth_session_active_user
\* reads users.active in the statement's snapshot.
InsertCheck(r) ==
    /\ req[r].pc = "mint"
    /\ IF active[req[r].user]
       THEN req' = [req EXCEPT ![r].pc = "insert"]
       ELSE Answer(r, "500")
    /\ UNCHANGED <<now, serverVars, browserVars, scim, history>>

\* Second half: the foreign key takes a key share lock on the users row, which
\* waits for a SELECT ... FOR UPDATE, and the statement commits.  A login's row
\* is the cookie.
InsertRow(r) ==
    LET q == req[r]  login == q.kind = "login" IN
    /\ q.pc = "insert"
    /\ ~UserLocked(q.user)
    /\ \E s \in Sids \ minted :
         /\ minted' = minted \cup {s}
         /\ row' = [row EXCEPT ![s] =
              [user |-> q.user, issued |-> now, seen |-> now, revoked |-> FALSE,
               from |-> q.sid]]
         /\ raced' = IF active[q.user] THEN raced ELSE raced \cup {s}
         /\ lastUse' = [lastUse EXCEPT ![s] = now]
         /\ req' = [req EXCEPT ![r] =
              IF login THEN [IdleReq EXCEPT !.pc = "reply", !.kind = "login",
                               !.user = q.user, !.status = "ok", !.set = s]
                       ELSE [q EXCEPT !.pc = "revokeOld", !.fresh = s]]
    /\ UNCHANGED <<now, active, tenantUp, touches, browserVars, scim, missed>>

\* The bound on Sids is reached: the insert counts as failed.
NoRowLeft(r) ==
    /\ req[r].pc = "insert"
    /\ minted = Sids
    /\ Answer(r, "500")
    /\ UNCHANGED <<now, serverVars, browserVars, scim, history>>

\* Mutant: the rotation leaves the old row to expire.
RevokeOld_Forgotten(r) ==
    /\ req[r].pc = "revokeOld"
    /\ req' = [req EXCEPT ![r].pc = "reresolve", ![r].set = req[r].fresh]
    /\ UNCHANGED <<now, serverVars, browserVars, scim, history>>

\* session.revoke(old), then Set-Cookie.
RevokeOld(r) ==
    /\ req[r].pc = "revokeOld"
    /\ ~RowLocked(req[r].sid)
    /\ Revoke({req[r].sid})
    /\ req' = [req EXCEPT ![r].pc = "reresolve", ![r].set = req[r].fresh]
    /\ UNCHANGED <<now, minted, active, tenantUp, touches, browserVars, scim, history>>

\* (await session.resolve(rotated.token)).sessionId
Reresolve(r) ==
    LET s == req[r].fresh IN
    /\ req[r].pc = "reresolve"
    /\ Resolves(s)
    /\ StartTouch(s)
    /\ lastUse' = [lastUse EXCEPT ![s] = now]
    /\ req' = [req EXCEPT ![r].pc = "handler", ![r].sid = s]
    /\ UNCHANGED <<now, minted, row, active, tenantUp, browserVars, scim, raced, missed>>

\* resolve() returned null, and reading .sessionId of it throws.
ReresolveThrows(r) ==
    LET s == req[r].fresh
        stale == Usable(s) /\ Abandoned(s) IN
    /\ req[r].pc = "reresolve"
    /\ ~Resolves(s)
    /\ IF stale /\ ~RowLocked(s) THEN Revoke({s}) ELSE UNCHANGED row
    /\ IF Usable(s) /\ ~stale THEN StartTouch(s) ELSE UNCHANGED touches
    /\ Answer(r, "500")
    /\ UNCHANGED <<now, minted, active, tenantUp, browserVars, scim, history>>

\* The route runs with req.session: /me, or a call that reads or writes deals.
Serve(r) ==
    /\ req[r].pc = "handler"
    /\ req[r].kind # "logout"
    /\ Answer(r, "ok")
    /\ UNCHANGED <<now, serverVars, browserVars, scim, history>>

\* POST /auth/logout
Logout(r) ==
    /\ req[r].pc = "handler"
    /\ req[r].kind = "logout"
    /\ ~RowLocked(req[r].sid)
    /\ Revoke({req[r].sid})
    /\ Answer(r, "ok")
    /\ UNCHANGED <<now, minted, active, tenantUp, touches, browserVars, scim, history>>

\* A statement fails: no connection, or statement_timeout while it waits for a
\* lock.  Only the idle revocation swallows it.
Fail(r) ==
    /\ "database" \in Faults
    /\ \/ req[r].pc \in {"resolve", "idleRevoke", "mint", "insert", "revokeOld", "reresolve"}
       \/ req[r].pc = "handler" /\ req[r].kind = "logout"
    /\ Answer(r, IF req[r].pc = "idleRevoke" THEN "401" ELSE "500")
    /\ UNCHANGED <<now, serverVars, browserVars, scim, history>>

\* Mutant: the touch writes back the row as resolve() read it, unrevoked.
Touch_WritesRow(s) ==
    /\ s \in touches
    /\ ~RowLocked(s)
    /\ row' = [row EXCEPT ![s].seen = now, ![s].revoked = FALSE]
    /\ touches' = touches \ {s}
    /\ UNCHANGED <<now, minted, active, tenantUp, browserVars, req, scim, history>>

\* A touch executes, or fails and is forgotten.
Touch(s) ==
    /\ s \in touches
    /\ ~RowLocked(s)
    /\ row' = [row EXCEPT ![s].seen = now]
    /\ touches' = touches \ {s}
    /\ UNCHANGED <<now, minted, active, tenantUp, browserVars, req, scim, history>>

LoseTouch(s) ==
    /\ s \in touches
    /\ touches' = touches \ {s}
    /\ missed' = missed \cup {s}
    /\ UNCHANGED <<now, minted, row, active, tenantUp, browserVars, req, scim,
                   raced, lastUse>>

-----------------------------------------------------------------------------
(* The directory and the operator.                                         *)

\* SELECT ... FROM users WHERE id = $1 FOR UPDATE
ScimLock(p, u, want) ==
    /\ scim[p].pc = "idle"
    /\ ~UserLocked(u)
    /\ scim' = [scim EXCEPT ![p] =
                 [pc |-> "locked", user |-> u, want |-> want, doomed |-> {}]]
    /\ UNCHANGED <<now, serverVars, browserVars, req, history>>

\* Mutant: only one session of the person is revoked.
ScimRevoke_One(p) ==
    /\ scim[p].pc = "locked"
    /\ ~scim[p].want
    /\ LET theirs == {s \in minted : row[s].user = scim[p].user /\ ~row[s].revoked}
       IN  \E d \in SUBSET theirs :
             /\ Cardinality(d) = IF theirs = {} THEN 0 ELSE 1
             /\ scim' = [scim EXCEPT ![p].pc = "revoked", ![p].doomed = d]
    /\ UNCHANGED <<now, serverVars, browserVars, req, history>>

\* UPDATE sessions SET revoked_at ... when deactivating, uncommitted.
ScimRevoke(p) ==
    /\ scim[p].pc = "locked"
    /\ ~scim[p].want
    /\ scim' = [scim EXCEPT ![p].pc = "revoked",
         ![p].doomed = {s \in minted : row[s].user = scim[p].user /\ ~row[s].revoked}]
    /\ UNCHANGED <<now, serverVars, browserVars, req, history>>

\* Mutant: the connection goes back to the pool with its transaction open.
ScimCommit_Leaked(p) ==
    LET t == scim[p] IN
    /\ t.pc = IF t.want THEN "locked" ELSE "revoked"
    /\ UNCHANGED <<now, serverVars, browserVars, req, scim, history>>

\* UPDATE users, the audit entry, COMMIT.
ScimCommit(p) ==
    LET t == scim[p] IN
    /\ t.pc = IF t.want THEN "locked" ELSE "revoked"
    /\ Revoke(t.doomed)
    /\ active' = [active EXCEPT ![t.user] = t.want]
    /\ scim' = [scim EXCEPT ![p] = IdleScim]
    /\ req' = [r \in Reqs |-> IF req[r].user = t.user /\ t.want
                              THEN [req[r] EXCEPT !.gone = FALSE] ELSE req[r]]
    /\ UNCHANGED <<now, minted, tenantUp, touches, browserVars, history>>

ScimRollback(p) ==
    /\ scim[p].pc # "idle"
    /\ scim' = [scim EXCEPT ![p] = IdleScim]
    /\ UNCHANGED <<now, serverVars, browserVars, req, history>>

\* tenants.js setStatus
Suspend ==
    /\ tenantUp
    /\ tenantUp' = FALSE
    /\ UNCHANGED <<now, minted, row, active, touches, browserVars, req, scim, history>>

Activate ==
    /\ ~tenantUp
    /\ tenantUp' = TRUE
    /\ req' = [r \in Reqs |-> [req[r] EXCEPT !.held = FALSE]]
    /\ UNCHANGED <<now, minted, row, active, touches, browserVars, scim, history>>

\* tenants.js revokeSessions: one UPDATE, which waits for rows already locked.
RevokeSessions ==
    /\ \A s \in Sids : ~RowLocked(s)
    /\ \E s \in minted : ~row[s].revoked
    /\ Revoke(minted)
    /\ UNCHANGED <<now, minted, active, tenantUp, touches, browserVars, req, scim, history>>

\* Time passes.  statement_timeout (15 s) is far below a unit of this clock, so
\* a touch or an insert is over before the unit is; a request may straddle one.
Tick ==
    /\ now < MaxTime
    /\ touches = {}
    /\ \A r \in Reqs : req[r].pc \notin {"mint", "insert"}
    /\ now' = now + 1
    /\ UNCHANGED <<serverVars, browserVars, req, scim, history>>

-----------------------------------------------------------------------------
ServerStep(r) ==
    \/ Refuse(r) \/ FindAbandoned(r) \/ IdleRevoke(r) \/ RefuseSuspended(r)
    \/ RefuseCsrf(r) \/ Admit(r) \/ InsertCheck(r) \/ InsertRow(r) \/ NoRowLeft(r)
    \/ RevokeOld(r) \/ Reresolve(r) \/ ReresolveThrows(r) \/ Serve(r) \/ Logout(r)

BrowserStep(r) ==
    \/ \E u \in Users : Login(r, u) \/ LoadPage(r, u)
    \/ \E u \in Users, k \in Kinds : Call(r, u, k)
    \/ Receive(r) \/ Lose(r)

ScimStep(p) == ScimRevoke(p) \/ ScimCommit(p)

Operator ==
    /\ "operator" \in Faults
    /\ Suspend \/ Activate \/ RevokeSessions

Next ==
    \/ \E r \in Reqs : BrowserStep(r) \/ ServerStep(r) \/ Fail(r)
    \/ \E s \in Sids : Touch(s) \/ LoseTouch(s)
    \/ \E p \in Scims : \/ \E u \in Users, w \in BOOLEAN : ScimLock(p, u, w)
                        \/ ScimStep(p) \/ ScimRollback(p)
    \/ Operator
    \/ Tick

Spec == Init /\ [][Next]_vars

\* Node runs every ready callback; Postgres grants a lock in queue order, so a
\* statement that waits for one is not passed over forever; a SCIM transaction
\* runs to its COMMIT unless it is rolled back.
Fairness ==
    /\ \A r \in Reqs : SF_vars(ServerStep(r)) /\ WF_vars(Receive(r))
    /\ \A p \in Scims : WF_vars(ScimStep(p))

FairSpec == Spec /\ Fairness

-----------------------------------------------------------------------------
(* Properties.                                                             *)

Live(s) == Usable(s)

\* Only a sign-in or rotation already past the policy check when the directory
\* deprovisioned its user leaves a usable row behind; every other row of an
\* inactive user is revoked (scim.js writeUser, migration 007).
OnlyOverlappingInsertSurvives ==
    \A s \in minted : ~active[row[s].user] /\ ~row[s].revoked => s \in raced

\* A request sent after its user was deprovisioned reaches no handler, except
\* under such a row; the rotation it may start on the way is no way round.
DeprovisionedNeverServed ==
    \A r \in Reqs : req[r].pc = "handler" /\ req[r].gone
                      => req[r].sid \in raced

\* A request sent while the tenant is suspended reaches no handler as long as
\* the suspension lasts, whatever it rotates meanwhile (session.js resolve).
SuspendedNeverServed ==
    \A r \in Reqs : req[r].pc = "handler" => ~req[r].held

\* Once the browser or a handler holds a rotated session, the session it
\* replaced is dead: "the stolen copy stops working rather than continuing
\* beside the new one" (requireSession.js).
SuccessorReplaces ==
    \A s \in minted :
      LET held == (\E u \in Users : jar[u] = s) \/ (\E r \in Reqs : req[r].sid = s)
      IN  held /\ row[s].from # None => row[row[s].from].revoked

\* A revoked row is never usable again, and no row changes hands: nothing in
\* the interleaving of touches, rotations and rollbacks resurrects a session.
RowsKept ==
    \A s \in minted :
      /\ row[s].revoked => row'[s].revoked
      /\ row'[s].user = row[s].user /\ row'[s].from = row[s].from

RevokedForever == [][RowsKept]_vars

\* Idle expiry only ends a session unused for IdleMax less the precision of the
\* write-back, unless one of its touches was lost (session.js resolve).
IdleRevokesOnlyUnused ==
    [][\A r \in Reqs :
         LET s == req[r].cookie IN
         IdleRevoke(r) /\ ~row[s].revoked =>
           s \in missed \/ now - lastUse[s] > IdleMax - TouchEvery]_vars

\* Every request is answered, whatever holds the locks it waits for.
EveryRequestAnswered ==
    \A r \in Reqs : req[r].pc # "idle" ~> req[r].pc = "idle"

-----------------------------------------------------------------------------
(* What comments of the code say, and the interleavings contradict.        *)

\* "A deprovisioning that leaves a session alive is not a deprovisioning."
DeprovisionEndsEverySession ==
    \A s \in minted : ~active[row[s].user] => ~Live(s)
=============================================================================
