------------------------------ MODULE Directory ------------------------------
(***************************************************************************)
(* A firm's directory at the SCIM endpoint: the token and limits in front  *)
(* of it (requireScimToken, provisioning.js), the handlers of routes/      *)
(* scim.js, one transaction each, and the sign-in that may create the same *)
(* account just in time.  The directory is the environment: it may send    *)
(* any request at any time, again after a lost answer, and reads the list  *)
(* of users page by page.                                                  *)
(*                                                                         *)
(* An address is its normal form, a number in the order of the alphabet;   *)
(* Odd stands for any value of a wrong type.  Names and external ids are   *)
(* left out, and so are the sessions a deactivation revokes, which         *)
(* Sessions models.  A limit's window lapses when it likes.                *)
(***************************************************************************)
EXTENDS Integers, FiniteSets, Sequences, SequencesExt, FiniteSetsExt

CONSTANTS
    Users,           \* ids an account can have, numbers
    Known,           \* accounts there are at the start: [Users -> address], partial
    Callers,         \* requests in flight at once (a bound)
    MaxCalls,        \* requests sent in all (a bound)
    MaxSignIns,      \* sign-ins of new people in all (a bound)
    Addresses,
    Bodies,          \* what POST and PUT send: [userName, active]; a userName is
                     \* Odd or [of |-> address, mixed |-> BOOLEAN], an active
                     \* TRUE, FALSE, Odd or Absent
    Patches,         \* Operations sent by PATCH
    Tokens,          \* tokens an operator may issue
    Forged,          \* a made-up token, another one every time
    NoToken,         \* no Authorization header
    Odd, Absent, Nobody,
    PageSize,
    PerTokenLimit, AnonymousLimit, FailureLimit

\* What is missing or of a wrong type is told from every value, as are the
\* requests from nobody.
ASSUME DirectoryAssumption ==
    /\ Users \subseteq Nat /\ IsFiniteSet(Users) /\ DOMAIN Known \subseteq Users
    /\ IsFiniteSet(Callers) /\ Nobody \notin Callers
    /\ Odd \notin BOOLEAN /\ Absent \notin BOOLEAN \cup {Odd}
    /\ \A b \in Bodies : b.active \in BOOLEAN \cup {Odd, Absent}
    /\ PageSize \in Nat /\ FailureLimit \in Nat

\* Operations are in order, and each names one attribute.
ASSUME PatchAssumption ==
    \A operations \in Patches :
        /\ operations \in Seq(Range(operations))
        /\ \A i \in DOMAIN operations : operations[i].attr = "active"
                => operations[i].op = "remove" \/ operations[i].value \in BOOLEAN \cup {Odd}

VARIABLES
    users,     \* committed rows
    trail,     \* committed scim entries of audit_log, by id
    lock,      \* who holds a user's row FOR UPDATE
    req,       \* the requests in flight
    calls,     \* requests sent
    signIn,    \* the just-in-time provisioning in progress
    signIns,   \* those begun
    clock,     \* transactions begun, for created_at
    token,     \* state of the tokens
    firm,      \* tenants.status
    spent,     \* buckets by presented token
    failures,  \* the scim:fail bucket of the directory's address
    listing,   \* the directory's reading of the list
    \* history, read by properties only:
    probes     \* failed authentications since that bucket opened

rowVars == <<users, trail, lock, clock>>
gateVars == <<token, firm, spent, failures, probes>>
vars == <<rowVars, gateVars, req, calls, signIn, signIns, listing>>

----------------------------------------------------------------------------
(* What a body means *)

\* normaliseUserName: login.js spells an asserted address the same way.
NormaliseUserName(raw) == IF raw = Odd THEN Odd ELSE raw.of

Unchanged == [address |-> Absent, active |-> Absent]
Faulty(patch) == Odd \in {patch.address, patch.active}

\* An absent active leaves the account as it is.
PutPatch(body) == [address |-> NormaliseUserName(body.userName), active |-> body.active]
DeletePatch == [address |-> Absent, active |-> FALSE]

\* What an operation makes of the attribute it names.
Asked(operation) ==
    IF operation.attr = "userName" THEN NormaliseUserName(operation.value)
    ELSE IF operation.op = "remove" THEN FALSE
    ELSE operation.value

\* The operations about an attribute, in order: the last one stands.
About(operations, attr) == {i \in DOMAIN operations : operations[i].attr = attr}
Asks(operations, attr) ==
    LET about == About(operations, attr)
    IN IF about = {} THEN Absent ELSE Asked(operations[Max(about)])

\* applyPatch: attributes not stored are passed over; a fault in one operation
\* refuses them all, and so does nothing that is stored.
ApplyPatch(operations) ==
    LET patch == [address |-> Asks(operations, "userName"), active |-> Asks(operations, "active")]
        stored == About(operations, "userName") \cup About(operations, "active")
    IN IF stored = {} \/ \E i \in stored : Asked(operations[i]) = Odd
       THEN [Unchanged EXCEPT !.active = Odd]
       ELSE patch

\* The requests a directory sends, by what the handler makes of the body.
Whole(body) == IF body.active = Absent THEN [body EXCEPT !.active = TRUE] ELSE body
Reading(kind) == [kind |-> kind, user |-> Nobody, patch |-> Unchanged]
Creation(body) == [kind |-> "create", user |-> Nobody, patch |-> PutPatch(Whole(body))]
Change(u, patch) == [kind |-> "write", user |-> u, patch |-> patch]
Changes == {PutPatch(b) : b \in Bodies}
           \cup {ApplyPatch(operations) : operations \in Patches} \cup {DeletePatch}
Requests == {Reading("list"), Reading("read")} \cup {Creation(b) : b \in Bodies}
            \cup {Change(u, p) : u \in Users, p \in Changes}

----------------------------------------------------------------------------
(* The tables *)

Rows == DOMAIN users
Free == Users \ Rows
Taken(address, except) == \E u \in Rows \ {except} : users[u].address = address
Row(address, active, born) == [address |-> address, active |-> active, born |-> born]
Insert(u, row) == users' = [v \in Rows \cup {u} |-> IF v = u THEN row ELSE users[v]]
Entry(subject, action, active) == [subject |-> subject, action |-> action, active |-> active]

\* Mutant: people are listed by their address.
Before_ByAddress(u, v) == users[u].address < users[v].address

\* ORDER BY created_at, id: by the start of the transaction that inserted a row.
Before(u, v) == \/ users[u].born < users[v].born
                \/ users[u].born = users[v].born /\ u < v

Place(u) == 1 + Cardinality({v \in Rows : Before(v, u)})

\* LIMIT and OFFSET, from the first row still to come.
Page(from) == {u \in Rows : Place(u) \in from..(from + PageSize - 1)}

----------------------------------------------------------------------------
(* requireScimToken *)

Idle == [pc |-> "idle", kind |-> "none", user |-> Nobody, patch |-> Unchanged,
         by |-> Nobody, was |-> Absent, born |-> 0]
End(c) == req' = [req EXCEPT ![c] = Idle]
Goto(c, pc) == req' = [req EXCEPT ![c].pc = pc]

Limit(presented) == IF presented = NoToken THEN AnonymousLimit ELSE PerTokenLimit

\* The address has failed too often: whatever is presented is refused.
FailedTooOften == failures > FailureLimit

\* A made-up token has a bucket of its own every time; beyond its limit a
\* bucket's count makes no difference.
Spend(presented) ==
    spent' = IF presented = Forged \/ spent[presented] = Limit(presented) THEN spent
             ELSE [spent EXCEPT ![presented] = @ + 1]

\* Both ceilings are looked at before the await; a 429 ends the request.
Arrive(c, request, presented) ==
    /\ req[c].pc = "idle"
    /\ calls < MaxCalls
    /\ calls' = calls + 1
    /\ IF FailedTooOften THEN UNCHANGED <<spent, req>>
       ELSE /\ Spend(presented)
            /\ IF presented # Forged /\ spent[presented] = Limit(presented) THEN UNCHANGED req
               ELSE req' = [req EXCEPT ![c] = [Idle EXCEPT !.pc = "token", !.kind = request.kind,
                                    !.user = request.user, !.patch = request.patch, !.by = presented]]
    /\ UNCHANGED <<rowVars, token, firm, failures, probes, signIn, signIns, listing>>

\* authenticate: revocation, expiry and suspension bite on the next request.
Authentic(presented) ==
    /\ presented \in Tokens
    /\ token[presented] = "live"
    /\ firm = "active"

\* Mutant: failures are counted on the token that failed.
Failed_ByToken(presented) == failures' = failures

\* A failure counts against the address, whatever was presented.
Failed(presented) == failures' = failures + 1

\* The lookup returns: to the handler, or to a 401 that is counted only now.
Authenticate(c) ==
    /\ req[c].pc = "token"
    /\ IF Authentic(req[c].by)
       THEN Goto(c, req[c].kind) /\ UNCHANGED <<failures, probes>>
       ELSE Failed(req[c].by) /\ probes' = probes + 1 /\ End(c)
    /\ UNCHANGED <<rowVars, token, firm, spent, calls, signIn, signIns, listing>>

\* A bucket's minute is over.
LapseFailures ==
    /\ failures > 0
    /\ failures' = 0
    /\ probes' = 0
    /\ UNCHANGED <<rowVars, token, firm, spent, req, calls, signIn, signIns, listing>>

LapseSpent(presented) ==
    /\ spent[presented] > 0
    /\ spent' = [spent EXCEPT ![presented] = 0]
    /\ UNCHANGED <<rowVars, token, firm, failures, probes, req, calls, signIn, signIns, listing>>

----------------------------------------------------------------------------
(* The handlers *)

Finish(c, entry) ==
    /\ trail' = Append(trail, entry)
    /\ End(c)

\* GET /Users: one page and its entry in one transaction.  The directory goes
\* on until it has asked beyond the total it was last told.
List(c) ==
    /\ req[c].pc = "list"
    /\ LET from == IF listing.done THEN 1 ELSE listing.next
           page == Page(from)
       IN listing' = [next |-> from + Cardinality(page),
                      seen |-> page \cup (IF from = 1 THEN {} ELSE listing.seen),
                      due |-> IF from = 1 THEN Rows ELSE listing.due,
                      done |-> from + Cardinality(page) > Cardinality(Rows)]
    /\ Finish(c, Entry(Nobody, "listed", Absent))
    /\ UNCHANGED <<users, lock, clock, gateVars, calls, signIn, signIns>>

\* GET /Users/:id, or the lookup by filter, found or not.
Read(c) ==
    /\ req[c].pc = "read"
    /\ Finish(c, Entry(Nobody, "read", Absent))
    /\ UNCHANGED <<users, lock, clock, gateVars, calls, signIn, signIns, listing>>

\* A body that does not say what it must: 400 before any transaction.
Reject(c) ==
    /\ req[c].pc \in {"create", "write"}
    /\ Faulty(req[c].patch)
    /\ End(c)
    /\ UNCHANGED <<rowVars, gateVars, calls, signIn, signIns, listing>>

\* POST /Users: the row is as old as its transaction.
BeginCreate(c) ==
    /\ req[c].pc = "create"
    /\ ~Faulty(req[c].patch)
    /\ clock' = clock + 1
    /\ req' = [req EXCEPT ![c].pc = "insert", ![c].born = clock + 1]
    /\ UNCHANGED <<users, trail, lock, gateVars, calls, signIn, signIns, listing>>

\* The insert and its entry commit, or the address is taken: 409.
Create(c) ==
    /\ req[c].pc = "insert"
    /\ LET patch == req[c].patch IN
       IF Taken(patch.address, Nobody) THEN End(c) /\ UNCHANGED <<users, trail>>
       ELSE \E u \in Free :
              /\ Insert(u, Row(patch.address, patch.active, req[c].born))
              /\ Finish(c, Entry(u, "created", patch.active))
    /\ UNCHANGED <<lock, clock, gateVars, calls, signIn, signIns, listing>>

\* Mutant: the row is read without FOR UPDATE.
TakeRow_Unlocked(c, u) == UNCHANGED lock

TakeRow(c, u) == lock[u] = Nobody /\ lock' = [lock EXCEPT ![u] = c]
FreeRow(c) == lock' = [u \in Users |-> IF lock[u] = c THEN Nobody ELSE lock[u]]

\* writeUser, for PUT, PATCH and DELETE: the row as it is, locked; or 404.
ReadUser(c) ==
    /\ req[c].pc = "write"
    /\ ~Faulty(req[c].patch)
    /\ LET u == req[c].user IN
       IF u \in Rows
       THEN TakeRow(c, u) /\ req' = [req EXCEPT ![c].pc = "update", ![c].was = users[u].active]
       ELSE End(c) /\ UNCHANGED lock
    /\ UNCHANGED <<users, trail, clock, gateVars, calls, signIn, signIns, listing>>

\* Named for what was asked, but for a reactivation, which is one only of an
\* account that was inactive.
Action(patch, was) ==
    IF patch.active = FALSE THEN "deactivated"
    ELSE IF patch.active = TRUE /\ was = FALSE THEN "reactivated"
    ELSE "updated"

\* The update and its entry commit together; a rename onto an address in use
\* is a 409 and rolls back.
Update(c) ==
    /\ req[c].pc = "update"
    /\ LET u == req[c].user
           patch == req[c].patch
           kept(value, old) == IF value = Absent THEN old ELSE value
       IN IF patch.address # Absent /\ Taken(patch.address, u)
          THEN End(c) /\ UNCHANGED <<users, trail>>
          ELSE /\ users' = [users EXCEPT ![u] = Row(kept(patch.address, @.address),
                                                   kept(patch.active, @.active), @.born)]
               /\ Finish(c, Entry(u, Action(patch, req[c].was), Absent))
    /\ FreeRow(c)
    /\ UNCHANGED <<clock, gateVars, calls, signIn, signIns, listing>>

\* A statement or the audit insert fails, or the connection is lost: 500.
Fail(c) ==
    /\ req[c].pc \in {"list", "read", "insert", "update"}
    /\ End(c)
    /\ FreeRow(c)
    /\ UNCHANGED <<users, trail, clock, gateVars, calls, signIn, signIns, listing>>

----------------------------------------------------------------------------
(* Sign-in and operators *)

\* login.complete creates an account on first sight of an address.
BeginSignIn(address) ==
    /\ signIn = Nobody
    /\ signIns < MaxSignIns
    /\ signIns' = signIns + 1
    /\ clock' = clock + 1
    /\ signIn' = [address |-> address, born |-> clock + 1]
    /\ UNCHANGED <<users, trail, lock, gateVars, req, calls, listing>>

\* ON CONFLICT the account stays as it is, active or not.
SignIn ==
    /\ signIn # Nobody
    /\ signIn' = Nobody
    /\ IF Taken(signIn.address, Nobody) THEN UNCHANGED users
       ELSE \E u \in Free : Insert(u, Row(signIn.address, TRUE, signIn.born))
    /\ UNCHANGED <<trail, lock, clock, gateVars, req, calls, signIns, listing>>

Issue(k) ==
    /\ token[k] = "none"
    /\ token' = [token EXCEPT ![k] = "live"]
    /\ UNCHANGED <<rowVars, firm, spent, failures, probes, req, calls, signIn, signIns, listing>>

\* revoke, revoke-all, or the end of the lifetime an operator gave it.
EndTokens(ks) ==
    /\ \E k \in ks : token[k] = "live"
    /\ token' = [k \in Tokens |-> IF k \in ks /\ token[k] = "live" THEN "ended" ELSE token[k]]
    /\ UNCHANGED <<rowVars, firm, spent, failures, probes, req, calls, signIn, signIns, listing>>

SetStatus(status) ==
    /\ firm # status
    /\ firm' = status
    /\ UNCHANGED <<rowVars, token, spent, failures, probes, req, calls, signIn, signIns, listing>>

----------------------------------------------------------------------------

Init ==
    /\ users = [u \in DOMAIN Known |-> Row(Known[u], TRUE, 0)]
    /\ trail = <<>>
    /\ lock = [u \in Users |-> Nobody]
    /\ req = [c \in Callers |-> Idle]
    /\ calls = 0
    /\ signIn = Nobody
    /\ signIns = 0
    /\ clock = 0
    /\ token = [k \in Tokens |-> "none"]
    /\ firm = "active"
    /\ spent = [k \in Tokens \cup {NoToken} |-> 0]
    /\ failures = 0
    /\ probes = 0
    /\ listing = [next |-> 1, seen |-> {}, due |-> {}, done |-> TRUE]

\* The directory reads one page at a time.
Paging == \E c \in Callers : req[c].kind = "list"

Send(c) ==
    \E request \in Requests, presented \in Tokens \cup {Forged, NoToken} :
        /\ presented \in Tokens \/ request.kind = "read"
        /\ request.kind = "list" => ~Paging
        /\ Arrive(c, request, presented)

Handle(c) == \/ Authenticate(c) \/ List(c) \/ Read(c) \/ Reject(c)
             \/ BeginCreate(c) \/ Create(c) \/ ReadUser(c) \/ Update(c) \/ Fail(c)

Operate == \/ \E k \in Tokens : Issue(k)
           \/ \E ks \in SUBSET Tokens : EndTokens(ks)
           \/ \E status \in {"active", "suspended"} : SetStatus(status)

Lapse == LapseFailures \/ \E presented \in DOMAIN spent : LapseSpent(presented)

Next == \/ \E c \in Callers : Send(c) \/ Handle(c)
        \/ \E address \in Addresses : BeginSignIn(address)
        \/ SignIn \/ Operate \/ Lapse

Spec == Init /\ [][Next]_vars

----------------------------------------------------------------------------
(* Properties *)

\* The entries that tell whether an account is open, and what the last of them
\* says; somebody never mentioned there is known to be in.
Tells(e) == e.action \in {"created", "deactivated", "reactivated"}
Said(e) == IF e.action = "created" THEN e.active ELSE e.action = "reactivated"
Mentions(u) == {i \in DOMAIN trail : trail[i].subject = u /\ Tells(trail[i])}
Told(u) == IF Mentions(u) = {} THEN TRUE ELSE Said(trail[Max(Mentions(u))])

\* Whoever reads the trail knows of every account whether it is open: each
\* readmission is recorded as one however requests about one person race, an
\* update alone never readmits, and no sign-in opens what the directory shut.
TrailTellsWhoIsIn == \A u \in Rows : users[u].active = Told(u)

\* A directory that reads the list to its end has read everybody there was when
\* it began, whoever was created, renamed or shut out between its pages.
EveryoneIsListed == listing.done => listing.due \subseteq listing.seen

\* However many tokens are made up at once, an address gets no more of them
\* looked up in a window than its ceiling and the requests already past it.
ProbesAreBounded == probes <= FailureLimit + Cardinality(Callers)
=============================================================================
