-------------------------------- MODULE Login --------------------------------
(***************************************************************************)
(* Signing in to one tenant, as one person, by SSO or by a mailed link,    *)
(* with or without Duo as a second factor: server/src/auth/login.js and    *)
(* the single-use rows of magicLink.js and mfa.js.                          *)
(*                                                                         *)
(* A callback is a request presenting a credential: an SSO `state`, a link *)
(* token, or the state and nonce of a parked Duo challenge.  The same      *)
(* credential may be presented any number of times, at once or later.      *)
(* While callbacks run, await by await, operators change the tenant's      *)
(* policy.  Everything a flow decides is traced back to its root: the SSO  *)
(* state or link it began with, a Duo challenge included.                  *)
(***************************************************************************)
EXTENDS Integers

CONSTANTS
    States,      \* SSO states outstanding at the start
    Links,       \* mailed links outstanding at the start
    Chals,       \* Duo challenges that can ever be parked: one per root is enough
    Procs,       \* callbacks in flight at once (a bound)
    MaxChanges,  \* policy changes (a bound)
    Faults,      \* {"database"} when statements may fail, {} otherwise
    None         \* no credential

ASSUME CredAssumption ==
    /\ States \cap Links = {}
    /\ (States \cup Links) \cap Chals = {}
    /\ None \notin States \cup Links \cup Chals
ASSUME BoundAssumption == MaxChanges \in Nat /\ Faults \subseteq {"database"}

VARIABLES
    pol,      \* the tenant's policy, as the tables hold it now
    changes,  \* policy changes so far
    cred,     \* each root: "open", "consumed" or "expired"
    chal,     \* each challenge row of mfa_pending
    proc,     \* the callbacks
    opened,   \* how many sessions each root has opened
    sess,     \* the session each root opened last
    trail,    \* the audit entries that name a root's sign-in
    \* history, read by properties only:
    steady,   \* policy fields unchanged since the root was claimed
    duoSaid   \* the answers Duo gave about each root

policyVars == <<pol, changes>>
rowVars    == <<cred, chal>>
resultVars == <<opened, sess, trail>>
history    == <<steady, duoSaid>>
vars == <<policyVars, rowVars, proc, resultVars, history>>

Roots == States \cup Links
RootOrNone == Roots \cup {None}

\* tenants.status, 'magic_link' in auth_methods, require_mfa, the domain's
\* verified_at, the Duo integration and its fail mode, and users.active.
DuoModes == {"off", "closed", "open"}
Policy == [active : BOOLEAN, magic : BOOLEAN, mfa : BOOLEAN, domain : BOOLEAN,
           duo : DuoModes, person : BOOLEAN]
Fields == {"active", "magic", "mfa", "domain", "duo", "person"}

Factors == {"none", "idp", "duo", "duo_failopen"}
Answers == {"healthy", "ok", "unreachable", "refused"}

Chal == [st : {"absent", "parked", "open", "consumed", "expired"},
         root : RootOrNone, idp : BOOLEAN]
NoChal == [st |-> "absent", root |-> None, idp |-> FALSE]

Pcs == {"idle", "claim", "exchange", "tenant", "assertDuo", "domain",
        "provision", "config", "health", "park", "tell",
        "recheck", "reconfig", "verify", "failopen", "audit", "issue"}

\* A callback: its root, the challenge it presents or parked, and what it has
\* read so far: mfaAsserted of the profile, require_mfa, the Duo row.
Proc == [pc : Pcs, root : RootOrNone, chal : Chals \cup {None}, idp : BOOLEAN,
         mfa : BOOLEAN, duo : DuoModes, factor : Factors]
IdleProc == [pc |-> "idle", root |-> None, chal |-> None, idp |-> FALSE,
             mfa |-> FALSE, duo |-> "off", factor |-> "none"]

\* A session row, with the policy in force when it was inserted and the fields
\* of it that had been unchanged since the claim.
Session == [factor : Factors, idp : BOOLEAN, pol : Policy, steady : SUBSET Fields]
NoSession == [factor |-> "none", idp |-> FALSE, steady |-> {},
              pol |-> [active |-> FALSE, magic |-> FALSE, mfa |-> FALSE,
                       domain |-> FALSE, duo |-> "off", person |-> FALSE]]

TypeOK ==
    /\ pol \in Policy
    /\ changes \in 0 .. MaxChanges
    /\ cred \in [Roots -> {"open", "consumed", "expired"}]
    /\ chal \in [Chals -> Chal]
    /\ proc \in [Procs -> Proc]
    /\ opened \in [Roots -> Nat]
    /\ sess \in [Roots -> Session]
    /\ trail \subseteq Roots \X (Factors \cup {"mfa_failopen"})
    /\ steady \in [Roots -> SUBSET Fields]
    /\ duoSaid \in [Roots -> SUBSET Answers]

\* What magicLink.issue() asserts before it mails a link.
LinkAllowed(p) == p.active /\ p.magic /\ (p.mfa => p.duo # "off")

Init ==
    /\ pol \in {p \in Policy : /\ p.active /\ p.domain /\ p.person
                               /\ Links # {} => LinkAllowed(p)}
    /\ changes = 0
    /\ cred = [c \in Roots |-> "open"]
    /\ chal = [h \in Chals |-> NoChal]
    /\ proc = [p \in Procs |-> IdleProc]
    /\ opened = [c \in Roots |-> 0]
    /\ sess = [c \in Roots |-> NoSession]
    /\ trail = {}
    /\ steady = [c \in Roots |-> {}]
    /\ duoSaid = [c \in Roots |-> {}]

-----------------------------------------------------------------------------
(* Outside the callbacks.                                                  *)

\* admin/tenants.js, admin/duo.js or a SCIM call writes one field.
ChangePolicy(f) ==
    /\ changes < MaxChanges
    /\ pol' \in {q \in Policy : q[f] # pol[f] /\ \A g \in Fields \ {f} : q[g] = pol[g]}
    /\ changes' = changes + 1
    /\ steady' = [c \in Roots |-> steady[c] \ {f}]
    /\ UNCHANGED <<rowVars, proc, resultVars, duoSaid>>

\* expires_at passes, for a credential nobody claimed.
ExpireRoot(c) ==
    /\ cred[c] = "open"
    /\ cred' = [cred EXCEPT ![c] = "expired"]
    /\ UNCHANGED <<policyVars, chal, proc, resultVars, history>>

ExpireChal(h) ==
    /\ chal[h].st = "open"
    /\ chal' = [chal EXCEPT ![h].st = "expired"]
    /\ UNCHANGED <<policyVars, cred, proc, resultVars, history>>

-----------------------------------------------------------------------------
(* The callbacks.                                                          *)

Goto(p, pc) == proc' = [proc EXCEPT ![p].pc = pc]
End(p)      == proc' = [proc EXCEPT ![p] = IdleProc]

\* A browser, a mail scanner or a second click presents a root, used or not.
PresentRoot(p, c) ==
    /\ proc[p].pc = "idle"
    /\ proc' = [proc EXCEPT ![p] = [IdleProc EXCEPT !.pc = "claim", !.root = c]]
    /\ UNCHANGED <<policyVars, rowVars, resultVars, history>>

\* The same for the redirect back from Duo.
PresentChal(p, h) ==
    /\ proc[p].pc = "idle"
    /\ chal[h].st \notin {"absent", "parked"}
    /\ proc' = [proc EXCEPT ![p] = [IdleProc EXCEPT !.pc = "claim", !.chal = h]]
    /\ UNCHANGED <<policyVars, rowVars, resultVars, history>>

\* consumeState() and magicLink.claim(): UPDATE ... WHERE consumed_at IS NULL
\* AND expires_at > now() RETURNING.  An SSO callback goes on to the broker.
ClaimRoot(p) ==
    LET c == proc[p].root IN
    /\ proc[p].pc = "claim"
    /\ c # None
    /\ IF cred[c] = "open"
       THEN /\ cred' = [cred EXCEPT ![c] = "consumed"]
            /\ steady' = [steady EXCEPT ![c] = Fields]
            /\ Goto(p, IF c \in States THEN "exchange" ELSE "tenant")
       ELSE /\ End(p)
            /\ UNCHANGED <<cred, steady>>
    /\ UNCHANGED <<policyVars, chal, resultVars, duoSaid>>

\* Mutant: the challenge is read, not consumed.
ClaimChal_Reusable(p) ==
    LET h == proc[p].chal IN
    /\ proc[p].pc = "claim"
    /\ h # None
    /\ IF chal[h].st = "open"
       THEN proc' = [proc EXCEPT ![p].pc = "recheck", ![p].root = chal[h].root,
                                 ![p].idp = chal[h].idp]
       ELSE End(p)
    /\ UNCHANGED <<policyVars, rowVars, resultVars, history>>

\* mfa.consumePending(): the row, and only the row, says who this is.
ClaimChal(p) ==
    LET h == proc[p].chal IN
    /\ proc[p].pc = "claim"
    /\ h # None
    /\ IF chal[h].st = "open"
       THEN /\ chal' = [chal EXCEPT ![h].st = "consumed"]
            /\ proc' = [proc EXCEPT ![p].pc = "recheck", ![p].root = chal[h].root,
                                    ![p].idp = chal[h].idp]
       ELSE /\ End(p)
            /\ UNCHANGED chal
    /\ UNCHANGED <<policyVars, cred, resultVars, history>>

\* broker().exchange(code): no usable profile, or one that may assert MFA.
Exchange(p) ==
    /\ proc[p].pc = "exchange"
    /\ \/ \E asserted \in BOOLEAN :
            proc' = [proc EXCEPT ![p].pc = "tenant", ![p].idp = asserted]
       \/ End(p)
    /\ UNCHANGED <<policyVars, rowVars, resultVars, history>>

\* SELECT status, require_mfa, auth_methods FROM tenants.  A suspended tenant
\* ends here; so does a link whose method was revoked.  A link to a tenant that
\* requires MFA goes by assertMagicLinkAllowed's read of the Duo row.
ReadTenant(p) ==
    LET link == proc[p].root \in Links IN
    /\ proc[p].pc = "tenant"
    /\ IF pol.active /\ (link => pol.magic)
       THEN proc' = [proc EXCEPT ![p].mfa = pol.mfa,
                       ![p].pc = IF link /\ pol.mfa THEN "assertDuo" ELSE "domain"]
       ELSE End(p)
    /\ UNCHANGED <<policyVars, rowVars, resultVars, history>>

AssertDuo(p) ==
    /\ proc[p].pc = "assertDuo"
    /\ IF pol.duo # "off" THEN Goto(p, "domain") ELSE End(p)
    /\ UNCHANGED <<policyVars, rowVars, resultVars, history>>

\* Mutant: require_mfa is not held against the assertion.
ReadDomain_AnyFactor(p) ==
    /\ proc[p].pc = "domain"
    /\ IF pol.domain THEN Goto(p, "provision") ELSE End(p)
    /\ UNCHANGED <<policyVars, rowVars, resultVars, history>>

\* The domain must be verified; then, for SSO, the tenant's require_mfa as it
\* was read is held against what the identity provider asserted.
ReadDomain(p) ==
    LET q == proc[p] IN
    /\ q.pc = "domain"
    /\ IF pol.domain /\ (q.root \in States /\ q.mfa => q.idp)
       THEN Goto(p, "provision")
       ELSE End(p)
    /\ UNCHANGED <<policyVars, rowVars, resultVars, history>>

\* INSERT INTO users ... ON CONFLICT DO UPDATE: the account exists from here on.
Provision(p) ==
    /\ proc[p].pc = "provision"
    /\ Goto(p, "config")
    /\ UNCHANGED <<policyVars, rowVars, resultVars, history>>

\* mfa.configFor(): straight to the session without Duo, to Duo with it.
ReadConfig(p) ==
    /\ proc[p].pc = "config"
    /\ proc' = [proc EXCEPT
         ![p].duo = pol.duo,
         ![p].pc = IF pol.duo = "off" THEN "audit" ELSE "health",
         ![p].factor = IF pol.duo = "off" /\ proc[p].idp THEN "idp" ELSE "none"]
    /\ UNCHANGED <<policyVars, rowVars, resultVars, history>>

Heard(p, answer) ==
    duoSaid' = [duoSaid EXCEPT ![proc[p].root] = @ \cup {answer}]

\* Mutant: fail_mode covers a refusal too.
DuoFailure_AnyAnswer(p) ==
    \E answer \in {"unreachable", "refused"} :
      /\ Heard(p, answer)
      /\ IF proc[p].duo = "open" THEN Goto(p, "failopen") ELSE End(p)

\* duoFailure(): only a Duo nobody could reach, and only for a tenant whose row
\* (as read) fails open, lets the login go on.
DuoFailure(p) ==
    /\ \/ Heard(p, "unreachable") /\ (IF proc[p].duo = "open" THEN Goto(p, "failopen") ELSE End(p))
       \/ Heard(p, "refused") /\ End(p)

\* client.healthCheck() in challengeDuo()
Health(p) ==
    /\ proc[p].pc = "health"
    /\ \/ Heard(p, "healthy") /\ Goto(p, "park")
       \/ DuoFailure(p)
    /\ UNCHANGED <<policyVars, rowVars, resultVars, steady>>

\* mfa.challenge(): INSERT INTO mfa_pending.
Park(p) ==
    /\ proc[p].pc = "park"
    /\ \E h \in Chals :
         /\ chal[h].st = "absent"
         /\ chal' = [chal EXCEPT ![h] =
              [st |-> "parked", root |-> proc[p].root, idp |-> proc[p].idp]]
         /\ proc' = [proc EXCEPT ![p].pc = "tell", ![p].chal = h]
    /\ UNCHANGED <<policyVars, cred, resultVars, history>>

\* The auth.mfa_challenged entry, then the redirect: the browser has the nonce.
Tell(p) ==
    /\ proc[p].pc = "tell"
    /\ chal' = [chal EXCEPT ![proc[p].chal].st = "open"]
    /\ End(p)
    /\ UNCHANGED <<policyVars, cred, resultVars, history>>

\* completeDuo() re-reads the tenant's status, and no more of its policy.
Recheck(p) ==
    /\ proc[p].pc = "recheck"
    /\ IF pol.active THEN Goto(p, "reconfig") ELSE End(p)
    /\ UNCHANGED <<policyVars, rowVars, resultVars, history>>

\* Duo turned off meanwhile, or the redirect carries an error: refused.
Reconfig(p) ==
    /\ proc[p].pc = "reconfig"
    /\ \/ pol.duo # "off" /\ proc' = [proc EXCEPT ![p].pc = "verify", ![p].duo = pol.duo]
       \/ End(p)
    /\ UNCHANGED <<policyVars, rowVars, resultVars, history>>

\* client.exchange(code, pending.duo_username)
Verify(p) ==
    /\ proc[p].pc = "verify"
    /\ \/ Heard(p, "ok") /\ proc' = [proc EXCEPT ![p].pc = "audit", ![p].factor = "duo"]
       \/ DuoFailure(p)
    /\ UNCHANGED <<policyVars, rowVars, resultVars, steady>>

\* Mutant: failing open leaves no entry of its own.
FailOpen_Silent(p) ==
    /\ proc[p].pc = "failopen"
    /\ proc' = [proc EXCEPT ![p].pc = "audit", ![p].factor = "duo_failopen"]
    /\ UNCHANGED <<policyVars, rowVars, resultVars, history>>

\* The auth.mfa_failopen entry.
FailOpen(p) ==
    /\ proc[p].pc = "failopen"
    /\ trail' = trail \cup {<<proc[p].root, "mfa_failopen">>}
    /\ proc' = [proc EXCEPT ![p].pc = "audit", ![p].factor = "duo_failopen"]
    /\ UNCHANGED <<policyVars, rowVars, opened, sess, history>>

\* issueSession(), first await: the auth.login entry commits.
AuditLogin(p) ==
    /\ proc[p].pc = "audit"
    /\ trail' = trail \cup {<<proc[p].root, proc[p].factor>>}
    /\ Goto(p, "issue")
    /\ UNCHANGED <<policyVars, rowVars, opened, sess, history>>

\* issueSession(), second await: session.issue(), refused by the row policy for
\* a deactivated person.
IssueSession(p) ==
    LET q == proc[p]  c == q.root IN
    /\ q.pc = "issue"
    /\ IF pol.person
       THEN /\ opened' = [opened EXCEPT ![c] = @ + 1]
            /\ sess' = [sess EXCEPT ![c] = [factor |-> q.factor, idp |-> q.idp,
                                            pol |-> pol, steady |-> steady[c]]]
       ELSE UNCHANGED <<opened, sess>>
    /\ End(p)
    /\ UNCHANGED <<policyVars, rowVars, trail, history>>

\* A statement fails: the callback answers an error.
Abort(p) ==
    /\ "database" \in Faults
    /\ proc[p].pc # "idle"
    /\ End(p)
    /\ UNCHANGED <<policyVars, rowVars, resultVars, history>>

-----------------------------------------------------------------------------
\* login.complete() and login.completeMagicLink()
FirstLeg(p) ==
    \/ ClaimRoot(p) \/ Exchange(p) \/ ReadTenant(p) \/ AssertDuo(p) \/ ReadDomain(p)
    \/ Provision(p) \/ ReadConfig(p) \/ Health(p) \/ Park(p) \/ Tell(p)

\* login.completeDuo()
DuoLeg(p) == ClaimChal(p) \/ Recheck(p) \/ Reconfig(p) \/ Verify(p)

\* duoFailure() and issueSession(), where both legs end.
Ending(p) == FailOpen(p) \/ AuditLogin(p) \/ IssueSession(p)

Step(p) == FirstLeg(p) \/ DuoLeg(p) \/ Ending(p)

Next ==
    \/ \E p \in Procs : \/ \E c \in Roots : PresentRoot(p, c)
                        \/ \E h \in Chals : PresentChal(p, h)
                        \/ Step(p) \/ Abort(p)
    \/ \E f \in Fields : ChangePolicy(f)
    \/ \E c \in Roots : ExpireRoot(c)
    \/ \E h \in Chals : ExpireChal(h)

Spec == Init /\ [][Next]_vars

-----------------------------------------------------------------------------
(* Properties.                                                             *)

\* A session says "duo" only if Duo vouched for this very sign-in,
\* "duo_failopen" only if Duo could not be reached during it, "idp" only if the
\* provider asserted it (login.js issueSession, duoFailure).
FactorIsEarned ==
    \A c \in Roots : opened[c] > 0 =>
      CASE sess[c].factor = "duo"          -> "ok" \in duoSaid[c]
        [] sess[c].factor = "duo_failopen" -> "unreachable" \in duoSaid[c]
        [] sess[c].factor = "idp"          -> sess[c].idp
        [] OTHER -> TRUE

\* Policy that did not change from the claim to the session was enforced, on
\* every path: suspension, the domain, the link method, require_mfa, and Duo
\* with its fail mode.
SteadyPolicyEnforced ==
    \A c \in Roots : opened[c] > 0 =>
      LET s == sess[c] IN
      /\ "active" \in s.steady => s.pol.active
      /\ "domain" \in s.steady => s.pol.domain
      /\ c \in Links /\ "magic" \in s.steady => s.pol.magic
      /\ c \in States /\ "mfa" \in s.steady /\ s.pol.mfa => s.idp
      /\ c \in Links /\ {"mfa", "duo"} \subseteq s.steady /\ s.pol.mfa
           => s.factor \in {"duo", "duo_failopen"}
      /\ "duo" \in s.steady =>
           CASE s.pol.duo = "closed" -> s.factor = "duo"
             [] s.pol.duo = "open"   -> s.factor \in {"duo", "duo_failopen"}
             [] OTHER -> s.factor \in {"none", "idp"}

\* No session without its auth.login entry, naming the same factor; and none
\* that failed open without the entry that says so.
SessionsAreAudited ==
    \A c \in Roots : opened[c] > 0 =>
      /\ <<c, sess[c].factor>> \in trail
      /\ sess[c].factor = "duo_failopen" => <<c, "mfa_failopen">> \in trail

\* The root is on its way: a callback works on it past its claim, or the
\* browser holds a challenge for it.
InFlight(c) ==
    \/ \E p \in Procs : proc[p].root = c /\ proc[p].pc \notin {"idle", "claim"}
    \/ \E h \in Chals : chal[h].st = "open" /\ chal[h].root = c

\* Single use, as an abstract machine per root: see Admission.
Stage == [c \in Roots |-> IF cred[c] = "open" THEN "offered"
                          ELSE IF InFlight(c) THEN "claimed" ELSE "spent"]

Admission == INSTANCE Admission WITH
    Credentials <- Roots, stage <- Stage, admitted <- opened

\* However often and however concurrently a state, a link or a challenge is
\* presented, each root goes offered, claimed, spent, and admits at most once.
ImplementsAdmission == Admission!Spec
=============================================================================
