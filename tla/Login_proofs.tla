----------------------------- MODULE Login_proofs -----------------------------
(***************************************************************************)
(* Signing in, for any number of states, links, challenges, callbacks and  *)
(* policy changes: single use, by refinement of Admission, and what a      *)
(* session can be relied on for.                                           *)
(***************************************************************************)
EXTENDS Login, TLAPS

Idle(q) == q.pc \in {"idle", "claim"}

Late == {"provision", "config", "health", "park", "tell", "recheck", "reconfig",
         "verify", "failopen", "audit", "issue"}

(* Policy a root has been held against since its claim, where it has not      *)
(* changed: before and after the domain is read.                              *)
MethodHeld(c) ==
    /\ "active" \in steady[c] => pol.active
    /\ c \in Links /\ "magic" \in steady[c] => pol.magic

LinkHasDuo(c) ==
    c \in Links /\ "mfa" \in steady[c] /\ "duo" \in steady[c] /\ pol.mfa => pol.duo # "off"

PolicyHeld(c, idp) ==
    /\ MethodHeld(c) /\ LinkHasDuo(c)
    /\ "domain" \in steady[c] => pol.domain
    /\ c \in States /\ "mfa" \in steady[c] /\ pol.mfa => idp

(* What a callback at its end knows of the factor it is about to record.      *)
FactorHeld(c, factor, idp) ==
    /\ factor = "duo" => "ok" \in duoSaid[c] /\ ("duo" \in steady[c] => pol.duo # "off")
    /\ factor = "duo_failopen" =>
         /\ "unreachable" \in duoSaid[c] /\ <<c, "mfa_failopen">> \in trail
         /\ "duo" \in steady[c] => pol.duo = "open"
    /\ factor = "idp" => idp
    /\ factor \in {"none", "idp"} /\ "duo" \in steady[c] => pol.duo = "off"

(* The one flow of a consumed root, which has opened nothing.                 *)
Claimed(c) == c \in Roots /\ cred[c] = "consumed" /\ opened[c] = 0

WorkInv(q) ==
    /\ Claimed(q.root)
    /\ q.pc \notin {"exchange", "tenant"} => MethodHeld(q.root)
    /\ q.pc \in {"assertDuo", "domain"} /\ "mfa" \in steady[q.root] => q.mfa = pol.mfa
    /\ q.pc = "domain" => LinkHasDuo(q.root)
    /\ q.pc \in Late => PolicyHeld(q.root, q.idp)
    /\ q.pc \in {"health", "verify", "failopen"} =>
         q.duo # "off" /\ ("duo" \in steady[q.root] => q.duo = pol.duo)
    /\ q.pc = "failopen" => q.duo = "open" /\ "unreachable" \in duoSaid[q.root]
    /\ q.pc \in {"audit", "issue"} => FactorHeld(q.root, q.factor, q.idp)
    /\ q.pc = "issue" => <<q.root, q.factor>> \in trail
    /\ q.pc = "tell" => /\ q.chal \in Chals /\ chal[q.chal].st = "parked"
                        /\ chal[q.chal].root = q.root /\ chal[q.chal].idp = q.idp

ProcInv(q) ==
    /\ q.pc = "claim" => \/ q.root \in Roots /\ q.chal = None
                         \/ q.root = None /\ q.chal \in Chals
    /\ ~Idle(q) => WorkInv(q)

ChalInv(h) == chal[h].st = "open" => Claimed(chal[h].root) /\ PolicyHeld(chal[h].root, chal[h].idp)

(* At most one flow or challenge is on its way for a root.                    *)
OneHolder ==
    /\ \A p, q \in Procs : p # q /\ ~Idle(proc[p]) /\ ~Idle(proc[q]) => proc[p].root # proc[q].root
    /\ \A p \in Procs, h \in Chals :
         ~Idle(proc[p]) /\ chal[h].st = "open" => proc[p].root # chal[h].root
    /\ \A g, h \in Chals :
         g # h /\ chal[g].st = "open" /\ chal[h].st = "open" => chal[g].root # chal[h].root

RootInv(c) ==
    /\ opened[c] \in {0, 1}
    /\ opened[c] > 0 => cred[c] # "open"

Properties == FactorIsEarned /\ SteadyPolicyEnforced /\ SessionsAreAudited

IInv ==
    /\ TypeOK
    /\ \A p \in Procs : ProcInv(proc[p])
    /\ \A h \in Chals : ChalInv(h)
    /\ \A c \in Roots : RootInv(c)
    /\ OneHolder
    /\ Properties

-----------------------------------------------------------------------------

(* However often and however concurrently a state, a link or a challenge is   *)
(* presented, a root goes offered, claimed, spent and admits its bearer once  *)
(* or not at all: the sign-in implements Admission, on an invariant that      *)
(* gives each consumed root one holder.                                       *)
THEOREM SignInImplementsAdmission == Spec => []IInv /\ ImplementsAdmission
\* A callback's knowledge survives whatever leaves its root and policy alone.
<1>kk. ASSUME NEW q \in Proc, ProcInv(q), UNCHANGED pol, trail \subseteq trail',
              ~Idle(q) => /\ cred'[q.root] = cred[q.root] /\ opened'[q.root] = opened[q.root]
                          /\ steady'[q.root] = steady[q.root]
                          /\ duoSaid[q.root] \subseteq duoSaid'[q.root]
                          /\ q.pc = "tell" => chal'[q.chal] = chal[q.chal]
       PROVE  ProcInv(q)'
  BY <1>kk DEF ProcInv, Idle, WorkInv, Claimed, MethodHeld, LinkHasDuo, PolicyHeld, FactorHeld
\* What is recorded of sessions survives as well, as answers and entries are
\* only ever added.
<1>rk. ASSUME Properties, UNCHANGED <<opened, sess>>, trail \subseteq trail',
              \A c \in Roots : duoSaid[c] \subseteq duoSaid'[c]
       PROVE  Properties'
  <2> USE <1>rk
  <2>1. FactorIsEarned'
    BY DEF Properties, FactorIsEarned
  <2>2. SteadyPolicyEnforced'
    BY DEF Properties, SteadyPolicyEnforced
  <2>3. SessionsAreAudited'
    BY DEF Properties, SessionsAreAudited
  <2> QED
    BY <2>1, <2>2, <2>3 DEF Properties
\* One callback moves on with its root, ends, or is presented: no row changes.
<1>cm. ASSUME IInv, NEW p \in Procs, NEW n \in Proc, ProcInv(n)',
              proc' = [proc EXCEPT ![p] = n],
              ~Idle(n) => ~Idle(proc[p]) /\ n.root = proc[p].root,
              UNCHANGED <<policyVars, rowVars, opened, sess, steady>>,
              trail \subseteq trail', trail' \subseteq Roots \X (Factors \cup {"mfa_failopen"}),
              duoSaid' \in [Roots -> SUBSET Answers],
              \A c \in Roots : duoSaid[c] \subseteq duoSaid'[c]
       PROVE  IInv' /\ [Admission!Next]_Admission!vars
  <2> USE <1>cm
  <2> USE DEF policyVars, rowVars
  <2>1. TypeOK'
    BY DEF IInv, TypeOK
  <2>2. \A r \in Procs : ProcInv(proc[r])'
    <3> SUFFICES ASSUME NEW r \in Procs PROVE ProcInv(proc[r])'
      OBVIOUS
    <3>1. proc'[r] = IF r = p THEN n ELSE proc[r]
      BY DEF IInv, TypeOK
    <3>2. CASE r = p
      BY <3>1, <3>2
    <3>3. CASE r # p
      <4>1. PICK q \in Proc : q = proc[r]
        BY DEF IInv, TypeOK
      <4>2. ~Idle(q) => q.root \in Roots
        BY <4>1 DEF IInv, ProcInv, WorkInv, Claimed
      <4>3. ProcInv(q)'
        BY <4>1, <4>2, <1>kk DEF IInv
      <4> QED
        BY <3>1, <3>3, <4>1, <4>3
    <3> QED
      BY <3>2, <3>3
  <2>3. \A h \in Chals : ChalInv(h)'
    BY DEF IInv, ChalInv, Claimed, PolicyHeld, MethodHeld, LinkHasDuo
  <2>4. \A c \in Roots : RootInv(c)'
    BY DEF IInv, RootInv
  <2>5. OneHolder'
    BY DEF IInv, OneHolder, TypeOK, Idle
  <2>6. Properties'
    BY <1>rk DEF IInv
  <2>7. [Admission!Next]_Admission!vars
    <3>1. CASE Idle(proc[p]) \/ ~Idle(n)
      <4>1. ASSUME NEW c \in Roots PROVE InFlight(c)' = InFlight(c)
        BY <3>1 DEF InFlight, Idle, IInv, TypeOK
      <4>2. Stage' = Stage
        BY <4>1 DEF Stage
      <4> QED
        BY <4>2 DEF Admission!vars
    <3>2. CASE ~Idle(proc[p]) /\ Idle(n)
      <4>1. PICK c \in Roots : c = proc[p].root /\ cred[c] = "consumed"
        BY <3>2 DEF IInv, ProcInv, WorkInv, Claimed
      <4>2. InFlight(c) /\ ~InFlight(c)'
        BY <3>2, <4>1 DEF InFlight, Idle, IInv, OneHolder, TypeOK
      <4>3. ASSUME NEW d \in Roots, d # c PROVE InFlight(d)' = InFlight(d)
        BY <3>2, <4>1, <4>3 DEF InFlight, Idle, IInv, TypeOK
      <4>4. Stage[c] = "claimed" /\ Stage' = [Stage EXCEPT ![c] = "spent"]
        BY <4>1, <4>2, <4>3 DEF Stage
      <4>5. Admission!Forfeit(c)
        BY <4>4 DEF Admission!Forfeit
      <4> QED
        BY <4>1, <4>5 DEF Admission!Next
    <3> QED
      BY <3>1, <3>2
  <2> QED
    BY <2>1, <2>2, <2>3, <2>4, <2>5, <2>6, <2>7 DEF IInv
\* Every step keeps the invariant, and is a step of Admission or none.
<1>sk. ASSUME IInv, [Next]_vars
       PROVE  IInv' /\ [Admission!Next]_Admission!vars
  <2> USE <1>sk
  <2> USE DEF policyVars, rowVars, resultVars, history
  <2>1. TypeOK /\ (\A p \in Procs : ProcInv(proc[p]) /\ proc[p] \in Proc)
    BY DEF IInv, TypeOK
  <2>2. IdleProc \in Proc /\ Idle(IdleProc) /\ ProcInv(IdleProc)'
    BY DEF IdleProc, Proc, Pcs, RootOrNone, DuoModes, Factors, Idle, ProcInv
  <2>3. ASSUME NEW p \in Procs, End(p),
               UNCHANGED <<policyVars, rowVars, opened, sess, steady>>,
               trail' = trail, duoSaid' \in [Roots -> SUBSET Answers],
               \A c \in Roots : duoSaid[c] \subseteq duoSaid'[c]
        PROVE  IInv' /\ [Admission!Next]_Admission!vars
    <3>1. trail' \subseteq Roots \X (Factors \cup {"mfa_failopen"})
      BY <2>1, <2>3 DEF TypeOK
    <3> QED
      BY <2>2, <2>3, <3>1, <1>cm DEF End
  <2>4. ASSUME NEW p \in Procs, NEW c \in Roots, PresentRoot(p, c)
        PROVE  IInv' /\ [Admission!Next]_Admission!vars
    <3>1. PICK n \in Proc : n = [IdleProc EXCEPT !.pc = "claim", !.root = c]
      BY <2>2 DEF IdleProc, Proc, Pcs, RootOrNone
    <3>2. n.pc = "claim" /\ n.root = c /\ n.chal = None
      BY <3>1 DEF IdleProc
    <3>3. ProcInv(n)' /\ Idle(n)
      BY <3>2 DEF ProcInv, Idle
    <3> QED
      BY <2>1, <2>4, <3>1, <3>3, <1>cm DEF PresentRoot, TypeOK
  <2>5. ASSUME NEW p \in Procs, NEW h \in Chals, PresentChal(p, h)
        PROVE  IInv' /\ [Admission!Next]_Admission!vars
    <3>1. PICK n \in Proc : n = [IdleProc EXCEPT !.pc = "claim", !.chal = h]
      BY <2>2 DEF IdleProc, Proc, Pcs
    <3>2. n.pc = "claim" /\ n.root = None /\ n.chal = h
      BY <3>1 DEF IdleProc
    <3>3. ProcInv(n)' /\ Idle(n)
      BY <3>2 DEF ProcInv, Idle
    <3> QED
      BY <2>1, <2>5, <3>1, <3>3, <1>cm DEF PresentChal, TypeOK
  <2>6. ASSUME NEW p \in Procs, Abort(p) PROVE IInv' /\ [Admission!Next]_Admission!vars
    BY <2>1, <2>3, <2>6 DEF Abort, TypeOK
  <2>7. ASSUME NEW p \in Procs, NEW n \in Proc, proc' = [proc EXCEPT ![p] = n], ProcInv(n)',
               ~Idle(proc[p]), n.root = proc[p].root,
               UNCHANGED <<policyVars, rowVars, resultVars, history>>
        PROVE  IInv' /\ [Admission!Next]_Admission!vars
    BY <2>1, <2>7, <1>cm DEF TypeOK
  <2>8. ASSUME NEW p \in Procs, ClaimRoot(p), cred[proc[p].root] # "open"
        PROVE  IInv' /\ [Admission!Next]_Admission!vars
    BY <2>1, <2>3, <2>8 DEF ClaimRoot, TypeOK
  <2>9. ASSUME NEW p \in Procs, ClaimChal(p), chal[proc[p].chal].st # "open"
        PROVE  IInv' /\ [Admission!Next]_Admission!vars
    BY <2>1, <2>3, <2>9 DEF ClaimChal, TypeOK
  <2>10. ASSUME NEW p \in Procs, Exchange(p) PROVE IInv' /\ [Admission!Next]_Admission!vars
    <3>1. CASE End(p)
      BY <2>1, <2>3, <2>10, <3>1 DEF Exchange, TypeOK
    <3>2. CASE ~End(p)
      <4>1. PICK q \in Proc : q = proc[p]
        BY <2>1
      <4>2. PICK asserted \in BOOLEAN :
              proc' = [proc EXCEPT ![p].pc = "tenant", ![p].idp = asserted]
        BY <2>10, <3>2 DEF Exchange
      <4>3. PICK n \in Proc : n = [q EXCEPT !.pc = "tenant", !.idp = asserted]
        BY DEF Proc, Pcs
      <4>4. proc' = [proc EXCEPT ![p] = n]
        BY <2>1, <4>1, <4>2, <4>3 DEF TypeOK, Proc
      <4>5. q.pc = "exchange" /\ n.pc = "tenant" /\ n.root = q.root
        BY <2>10, <4>1, <4>3 DEF Exchange, Proc
      <4>6. ProcInv(n)'
        BY <2>1, <2>10, <4>1, <4>5 DEF ProcInv, WorkInv, Claimed, Idle, Late, Exchange
      <4> QED
        BY <2>7, <2>10, <4>1, <4>4, <4>5, <4>6 DEF Exchange, Idle
    <3> QED
      BY <3>1, <3>2
  <2>11. ASSUME NEW p \in Procs, ReadTenant(p) PROVE IInv' /\ [Admission!Next]_Admission!vars
    <3>1. CASE End(p)
      BY <2>1, <2>3, <2>11, <3>1 DEF ReadTenant, TypeOK
    <3>2. CASE ~End(p)
      <4>1. PICK q \in Proc : q = proc[p]
        BY <2>1
      <4>2. PICK to \in {"assertDuo", "domain"} :
              to = IF q.root \in Links /\ pol.mfa THEN "assertDuo" ELSE "domain"
        OBVIOUS
      <4>3. PICK n \in Proc : n = [q EXCEPT !.pc = to, !.mfa = pol.mfa]
        BY <2>1 DEF Proc, Pcs, TypeOK, Policy
      <4>4. proc' = [proc EXCEPT ![p] = n] /\ pol.active /\ (q.root \in Links => pol.magic)
        BY <2>1, <2>11, <3>2, <4>1, <4>2, <4>3 DEF ReadTenant, TypeOK, Proc
      <4>5. q.pc = "tenant" /\ n.pc = to /\ n.root = q.root /\ n.mfa = pol.mfa
        BY <2>11, <4>1, <4>3 DEF ReadTenant, Proc
      <4>6. ProcInv(n)'
        BY <2>1, <2>11, <4>1, <4>2, <4>4, <4>5
        DEF ProcInv, WorkInv, Claimed, Idle, Late, ReadTenant, MethodHeld, LinkHasDuo, TypeOK
      <4> QED
        BY <2>7, <2>11, <4>1, <4>4, <4>5, <4>6 DEF ReadTenant, Idle
    <3> QED
      BY <3>1, <3>2
  <2>12. ASSUME NEW p \in Procs, AssertDuo(p) PROVE IInv' /\ [Admission!Next]_Admission!vars
    <3>1. CASE End(p)
      BY <2>1, <2>3, <2>12, <3>1 DEF AssertDuo, TypeOK
    <3>2. CASE ~End(p)
      <4>1. PICK q \in Proc : q = proc[p]
        BY <2>1
      <4>2. PICK n \in Proc : n = [q EXCEPT !.pc = "domain"]
        BY DEF Proc, Pcs
      <4>3. proc' = [proc EXCEPT ![p] = n] /\ pol.duo # "off"
        BY <2>1, <2>12, <3>2, <4>1, <4>2 DEF AssertDuo, Goto, TypeOK, Proc
      <4>4. q.pc = "assertDuo" /\ n.pc = "domain" /\ n.root = q.root /\ n.mfa = q.mfa
        BY <2>12, <4>1, <4>2 DEF AssertDuo, Proc
      <4>5. ProcInv(n)'
        BY <2>1, <2>12, <4>1, <4>3, <4>4
        DEF ProcInv, WorkInv, Claimed, Idle, Late, AssertDuo, MethodHeld, LinkHasDuo
      <4> QED
        BY <2>7, <2>12, <4>1, <4>3, <4>4, <4>5 DEF AssertDuo, Idle
    <3> QED
      BY <3>1, <3>2
  <2>13. ASSUME NEW p \in Procs, ReadDomain(p) PROVE IInv' /\ [Admission!Next]_Admission!vars
    <3>1. CASE End(p)
      BY <2>1, <2>3, <2>13, <3>1 DEF ReadDomain, TypeOK
    <3>2. CASE ~End(p)
      <4>1. PICK q \in Proc : q = proc[p]
        BY <2>1
      <4>2. PICK n \in Proc : n = [q EXCEPT !.pc = "provision"]
        BY DEF Proc, Pcs
      <4>3. proc' = [proc EXCEPT ![p] = n] /\ pol.domain /\ (q.root \in States /\ q.mfa => q.idp)
        BY <2>1, <2>13, <3>2, <4>1, <4>2 DEF ReadDomain, Goto, TypeOK, Proc
      <4>4. q.pc = "domain" /\ n.pc = "provision" /\ n.root = q.root /\ n.idp = q.idp
        BY <2>13, <4>1, <4>2 DEF ReadDomain, Proc
      <4>5. ProcInv(n)'
        BY <2>1, <2>13, <4>1, <4>3, <4>4
        DEF ProcInv, WorkInv, Claimed, Idle, Late, ReadDomain, MethodHeld, LinkHasDuo, PolicyHeld
      <4> QED
        BY <2>7, <2>13, <4>1, <4>3, <4>4, <4>5 DEF ReadDomain, Idle
    <3> QED
      BY <3>1, <3>2
  <2>14. ASSUME NEW p \in Procs, Provision(p) PROVE IInv' /\ [Admission!Next]_Admission!vars
    <3>1. PICK q \in Proc : q = proc[p]
      BY <2>1
    <3>2. PICK n \in Proc : n = [q EXCEPT !.pc = "config"]
      BY DEF Proc, Pcs
    <3>3. proc' = [proc EXCEPT ![p] = n]
      BY <2>1, <2>14, <3>1, <3>2 DEF Provision, Goto, TypeOK, Proc
    <3>4. q.pc = "provision" /\ n.pc = "config" /\ n.root = q.root /\ n.idp = q.idp
      BY <2>14, <3>1, <3>2 DEF Provision, Proc
    <3>5. ProcInv(n)'
      BY <2>1, <2>14, <3>1, <3>4
      DEF ProcInv, WorkInv, Claimed, Idle, Late, Provision, MethodHeld, LinkHasDuo, PolicyHeld
    <3> QED
      BY <2>7, <2>14, <3>1, <3>3, <3>4, <3>5 DEF Provision, Idle
  <2>15. ASSUME NEW p \in Procs, ReadConfig(p) PROVE IInv' /\ [Admission!Next]_Admission!vars
    <3>1. PICK q \in Proc : q = proc[p]
      BY <2>1
    <3>2. PICK to \in {"audit", "health"} : to = IF pol.duo = "off" THEN "audit" ELSE "health"
      OBVIOUS
    <3>3. PICK f \in {"idp", "none"} : f = IF pol.duo = "off" /\ q.idp THEN "idp" ELSE "none"
      OBVIOUS
    <3>4. PICK n \in Proc : n = [q EXCEPT !.duo = pol.duo, !.pc = to, !.factor = f]
      BY <2>1 DEF Proc, Pcs, TypeOK, Policy, Factors
    <3>5. proc' = [proc EXCEPT ![p] = n]
      BY <2>1, <2>15, <3>1, <3>2, <3>3, <3>4 DEF ReadConfig, TypeOK, Proc
    <3>6. /\ q.pc = "config" /\ n.pc = to /\ n.root = q.root /\ n.idp = q.idp
          /\ n.factor = f /\ n.duo = pol.duo
      BY <2>15, <3>1, <3>4 DEF ReadConfig, Proc
    <3>7. ProcInv(n)'
      BY <2>1, <2>15, <3>1, <3>2, <3>3, <3>6
      DEF ProcInv, WorkInv, Claimed, Idle, Late, ReadConfig, MethodHeld, LinkHasDuo, PolicyHeld, FactorHeld
    <3> QED
      BY <2>7, <2>15, <3>1, <3>2, <3>5, <3>6, <3>7 DEF ReadConfig, Idle
  <2>16. ASSUME NEW p \in Procs, NEW answer \in Answers, Heard(p, answer), ~Idle(proc[p])
         PROVE  /\ duoSaid' \in [Roots -> SUBSET Answers]
                /\ \A c \in Roots : duoSaid[c] \subseteq duoSaid'[c]
                /\ answer \in duoSaid'[proc[p].root]
    <3>1. PICK c \in Roots : c = proc[p].root
      BY <2>1, <2>16 DEF ProcInv, WorkInv, Claimed
    <3> QED
      BY <2>1, <2>16, <3>1 DEF Heard, TypeOK
  <2>17. ASSUME NEW p \in Procs, NEW n \in Proc, proc' = [proc EXCEPT ![p] = n], ProcInv(n)',
                NEW answer \in Answers, Heard(p, answer),
                ~Idle(proc[p]), n.root = proc[p].root,
                UNCHANGED <<policyVars, rowVars, resultVars, steady>>
         PROVE  IInv' /\ [Admission!Next]_Admission!vars
    BY <2>1, <2>16, <2>17, <1>cm DEF TypeOK
  <2>18. ASSUME NEW p \in Procs, NEW answer \in Answers, Heard(p, answer), End(p), ~Idle(proc[p]),
                UNCHANGED <<policyVars, rowVars, resultVars, steady>>
         PROVE  IInv' /\ [Admission!Next]_Admission!vars
    BY <2>1, <2>3, <2>16, <2>18 DEF TypeOK
  <2>19. ASSUME NEW p \in Procs, DuoFailure(p), proc[p].pc \in {"health", "verify"},
                UNCHANGED <<policyVars, rowVars, resultVars, steady>>
         PROVE  IInv' /\ [Admission!Next]_Admission!vars
    <3>1. CASE End(p)
      BY <2>18, <2>19, <3>1 DEF DuoFailure, Answers, Idle
    <3>2. CASE ~End(p)
      <4>1. PICK q \in Proc : q = proc[p]
        BY <2>1
      <4>2. PICK n \in Proc : n = [q EXCEPT !.pc = "failopen"]
        BY DEF Proc, Pcs
      <4>3. Heard(p, "unreachable") /\ q.duo = "open" /\ proc' = [proc EXCEPT ![p] = n]
        BY <2>1, <2>19, <3>2, <4>1, <4>2 DEF DuoFailure, Goto, TypeOK, Proc
      <4>4. n.pc = "failopen" /\ n.root = q.root /\ n.idp = q.idp /\ n.duo = q.duo
        BY <4>2 DEF Proc
      <4>5. "unreachable" \in duoSaid'[q.root]
        BY <2>16, <2>19, <4>1, <4>3 DEF Answers, Idle
      <4>6. ProcInv(n)'
        BY <2>1, <2>19, <4>1, <4>3, <4>4, <4>5
        DEF ProcInv, WorkInv, Claimed, Idle, Late, MethodHeld, LinkHasDuo, PolicyHeld
      <4> QED
        BY <2>17, <2>19, <4>1, <4>3, <4>4, <4>6 DEF Answers, Idle
    <3> QED
      BY <3>1, <3>2
  <2>20. ASSUME NEW p \in Procs, Health(p) PROVE IInv' /\ [Admission!Next]_Admission!vars
    <3>1. CASE DuoFailure(p)
      BY <2>19, <2>20, <3>1 DEF Health
    <3>2. CASE Heard(p, "healthy") /\ Goto(p, "park")
      <4>1. PICK q \in Proc : q = proc[p]
        BY <2>1
      <4>2. PICK n \in Proc : n = [q EXCEPT !.pc = "park"]
        BY DEF Proc, Pcs
      <4>3. proc' = [proc EXCEPT ![p] = n]
        BY <2>1, <3>2, <4>1, <4>2 DEF Goto, TypeOK, Proc
      <4>4. n.pc = "park" /\ n.root = q.root /\ n.idp = q.idp
        BY <4>2 DEF Proc
      <4>5. ProcInv(n)'
        BY <2>1, <2>20, <4>1, <4>4
        DEF ProcInv, WorkInv, Claimed, Idle, Late, MethodHeld, LinkHasDuo, PolicyHeld, Health
      <4> QED
        BY <2>17, <2>20, <3>2, <4>1, <4>3, <4>4, <4>5 DEF Answers, Idle, Health
    <3> QED
      BY <2>20, <3>1, <3>2 DEF Health
  <2>21. ASSUME NEW p \in Procs, Recheck(p) PROVE IInv' /\ [Admission!Next]_Admission!vars
    <3>1. CASE End(p)
      BY <2>1, <2>3, <2>21, <3>1 DEF Recheck, TypeOK
    <3>2. CASE ~End(p)
      <4>1. PICK q \in Proc : q = proc[p]
        BY <2>1
      <4>2. PICK n \in Proc : n = [q EXCEPT !.pc = "reconfig"]
        BY DEF Proc, Pcs
      <4>3. proc' = [proc EXCEPT ![p] = n]
        BY <2>1, <2>21, <3>2, <4>1, <4>2 DEF Recheck, Goto, TypeOK, Proc
      <4>4. q.pc = "recheck" /\ n.pc = "reconfig" /\ n.root = q.root /\ n.idp = q.idp
        BY <2>21, <4>1, <4>2 DEF Recheck, Proc
      <4>5. ProcInv(n)'
        BY <2>1, <2>21, <4>1, <4>4
        DEF ProcInv, WorkInv, Claimed, Idle, Late, Recheck, MethodHeld, LinkHasDuo, PolicyHeld
      <4> QED
        BY <2>7, <2>21, <4>1, <4>3, <4>4, <4>5 DEF Recheck, Idle
    <3> QED
      BY <3>1, <3>2
  <2>22. ASSUME NEW p \in Procs, Reconfig(p) PROVE IInv' /\ [Admission!Next]_Admission!vars
    <3>1. CASE End(p)
      BY <2>1, <2>3, <2>22, <3>1 DEF Reconfig, TypeOK
    <3>2. CASE ~End(p)
      <4>1. PICK q \in Proc : q = proc[p]
        BY <2>1
      <4>2. PICK n \in Proc : n = [q EXCEPT !.pc = "verify", !.duo = pol.duo]
        BY <2>1 DEF Proc, Pcs, TypeOK, Policy
      <4>3. proc' = [proc EXCEPT ![p] = n] /\ pol.duo # "off"
        BY <2>1, <2>22, <3>2, <4>1, <4>2 DEF Reconfig, TypeOK, Proc
      <4>4. q.pc = "reconfig" /\ n.pc = "verify" /\ n.root = q.root /\ n.idp = q.idp /\ n.duo = pol.duo
        BY <2>22, <4>1, <4>2 DEF Reconfig, Proc
      <4>5. ProcInv(n)'
        BY <2>1, <2>22, <4>1, <4>3, <4>4
        DEF ProcInv, WorkInv, Claimed, Idle, Late, Reconfig, MethodHeld, LinkHasDuo, PolicyHeld
      <4> QED
        BY <2>7, <2>22, <4>1, <4>3, <4>4, <4>5 DEF Reconfig, Idle
    <3> QED
      BY <3>1, <3>2
  <2>23. ASSUME NEW p \in Procs, Verify(p) PROVE IInv' /\ [Admission!Next]_Admission!vars
    <3>1. CASE DuoFailure(p)
      BY <2>19, <2>23, <3>1 DEF Verify
    <3>2. CASE ~DuoFailure(p)
      <4>1. PICK q \in Proc : q = proc[p]
        BY <2>1
      <4>2. PICK n \in Proc : n = [q EXCEPT !.pc = "audit", !.factor = "duo"]
        BY DEF Proc, Pcs, Factors
      <4>3. proc' = [proc EXCEPT ![p] = n] /\ Heard(p, "ok")
        BY <2>1, <2>23, <3>2, <4>1, <4>2 DEF Verify, TypeOK, Proc
      <4>4. q.pc = "verify" /\ n.pc = "audit" /\ n.root = q.root /\ n.idp = q.idp /\ n.factor = "duo"
        BY <2>23, <4>1, <4>2 DEF Verify, Proc
      <4>5. "ok" \in duoSaid'[q.root]
        BY <2>16, <4>1, <4>3, <4>4 DEF Answers, Idle
      <4>6. ProcInv(n)'
        BY <2>1, <2>23, <4>1, <4>4, <4>5
        DEF ProcInv, WorkInv, Claimed, Idle, Late, MethodHeld, LinkHasDuo, PolicyHeld, FactorHeld, Verify
      <4> QED
        BY <2>17, <2>23, <4>1, <4>3, <4>4, <4>6 DEF Answers, Idle, Verify
    <3> QED
      BY <3>1, <3>2
  <2>24. ASSUME NEW p \in Procs, FailOpen(p) PROVE IInv' /\ [Admission!Next]_Admission!vars
    <3>1. PICK q \in Proc : q = proc[p]
      BY <2>1
    <3>2. PICK n \in Proc : n = [q EXCEPT !.pc = "audit", !.factor = "duo_failopen"]
      BY DEF Proc, Pcs, Factors
    <3>3. proc' = [proc EXCEPT ![p] = n] /\ <<q.root, "mfa_failopen">> \in trail'
      BY <2>1, <2>24, <3>1, <3>2 DEF FailOpen, TypeOK, Proc
    <3>4. /\ q.pc = "failopen" /\ n.pc = "audit" /\ n.root = q.root /\ n.idp = q.idp
          /\ n.factor = "duo_failopen"
      BY <2>24, <3>1, <3>2 DEF FailOpen, Proc
    <3>5. ProcInv(q) /\ q.root \in Roots
      BY <2>1, <3>1, <3>4 DEF ProcInv, WorkInv, Claimed, Idle
    <3>6. ProcInv(n)'
      BY <2>24, <3>3, <3>4, <3>5
      DEF ProcInv, WorkInv, Claimed, Idle, Late, FailOpen, MethodHeld, LinkHasDuo, PolicyHeld, FactorHeld
    <3>7. trail \subseteq trail' /\ trail' \subseteq Roots \X (Factors \cup {"mfa_failopen"})
      BY <2>1, <2>24, <3>1, <3>5 DEF FailOpen, TypeOK
    <3> QED
      BY <2>1, <2>24, <3>1, <3>3, <3>4, <3>6, <3>7, <1>cm DEF FailOpen, Idle, TypeOK
  <2>25. ASSUME NEW p \in Procs, AuditLogin(p) PROVE IInv' /\ [Admission!Next]_Admission!vars
    <3>1. PICK q \in Proc : q = proc[p]
      BY <2>1
    <3>2. PICK n \in Proc : n = [q EXCEPT !.pc = "issue"]
      BY DEF Proc, Pcs
    <3>3. proc' = [proc EXCEPT ![p] = n] /\ <<q.root, q.factor>> \in trail'
      BY <2>1, <2>25, <3>1, <3>2 DEF AuditLogin, Goto, TypeOK, Proc
    <3>4. /\ q.pc = "audit" /\ n.pc = "issue" /\ n.root = q.root /\ n.idp = q.idp
          /\ n.factor = q.factor
      BY <2>25, <3>1, <3>2 DEF AuditLogin, Proc
    <3>5. ProcInv(q) /\ q.root \in Roots /\ q.factor \in Factors
      BY <2>1, <3>1, <3>4 DEF ProcInv, WorkInv, Claimed, Idle, Proc
    <3>6. ProcInv(n)'
      BY <2>25, <3>3, <3>4, <3>5
      DEF ProcInv, WorkInv, Claimed, Idle, Late, AuditLogin, MethodHeld, LinkHasDuo, PolicyHeld, FactorHeld
    <3>7. trail \subseteq trail' /\ trail' \subseteq Roots \X (Factors \cup {"mfa_failopen"})
      BY <2>1, <2>25, <3>1, <3>5 DEF AuditLogin, TypeOK
    <3> QED
      BY <2>1, <2>25, <3>1, <3>3, <3>4, <3>6, <3>7, <1>cm DEF AuditLogin, Idle, TypeOK
  <2>26. ASSUME NEW p \in Procs, IssueSession(p), ~pol.person
         PROVE  IInv' /\ [Admission!Next]_Admission!vars
    BY <2>1, <2>3, <2>26 DEF IssueSession, TypeOK
  (* The last step of a flow: the session, its factor and its policy.           *)
  <2>27. ASSUME NEW p \in Procs, IssueSession(p), pol.person
         PROVE  IInv' /\ [Admission!Next]_Admission!vars
    <3>1. PICK q \in Proc, c \in Roots : q = proc[p] /\ c = q.root /\ q.pc = "issue" /\ ~Idle(q)
      BY <2>1, <2>27 DEF IssueSession, ProcInv, WorkInv, Claimed, Idle
    <3>2. WorkInv(q)
      BY <2>1, <3>1 DEF ProcInv
    <3>3. opened[c] = 0 /\ cred[c] = "consumed"
      BY <3>1, <3>2 DEF WorkInv, Claimed
    <3>4. PICK s \in Session :
            s = [factor |-> q.factor, idp |-> q.idp, pol |-> pol, steady |-> steady[c]]
      BY <2>1, <3>1 DEF Session, Proc, TypeOK
    <3>5. /\ opened' = [opened EXCEPT ![c] = 1] /\ sess' = [sess EXCEPT ![c] = s]
          /\ proc' = [proc EXCEPT ![p] = IdleProc]
          /\ UNCHANGED <<policyVars, rowVars, trail, history>>
      BY <2>27, <3>1, <3>3, <3>4 DEF IssueSession, End
    <3>6. TypeOK'
      BY <2>1, <2>2, <3>5 DEF TypeOK
    <3>7. ASSUME NEW r \in Procs PROVE ProcInv(proc[r])'
      <4>1. CASE r = p
        BY <2>1, <2>2, <3>5, <4>1 DEF TypeOK
      <4>2. CASE r # p
        <5>1. PICK w \in Proc : w = proc[r] /\ w = proc'[r]
          BY <2>1, <3>5, <4>2 DEF TypeOK
        <5>2. ~Idle(w) => w.root \in Roots
          BY <2>1, <5>1 DEF ProcInv, WorkInv, Claimed
        <5>3. ~Idle(w) => w.root # c
          BY <3>1, <4>2, <5>1 DEF IInv, OneHolder
        <5>4. ProcInv(w)'
          BY <2>1, <3>5, <5>1, <5>2, <5>3, <1>kk DEF TypeOK
        <5> QED
          BY <5>1, <5>4
      <4> QED
        BY <4>1, <4>2
    <3>8. ASSUME NEW h \in Chals PROVE ChalInv(h)'
      BY <2>1, <3>1, <3>5 DEF IInv, OneHolder, ChalInv, Claimed, PolicyHeld, MethodHeld, LinkHasDuo, TypeOK
    <3>9. \A d \in Roots : RootInv(d)'
      BY <2>1, <3>3, <3>5 DEF IInv, RootInv, TypeOK
    <3>10. OneHolder'
      BY <2>1, <2>2, <3>5 DEF IInv, OneHolder, TypeOK
    <3>11. s.factor = q.factor /\ s.idp = q.idp /\ s.pol = pol /\ s.steady = steady[c]
      BY <3>4 DEF Session
    <3>12. FactorIsEarned'
      BY <2>1, <3>2, <3>1, <3>5, <3>11
      DEF IInv, Properties, FactorIsEarned, WorkInv, FactorHeld, TypeOK
    <3>13. SessionsAreAudited'
      BY <2>1, <3>2, <3>1, <3>5, <3>11
      DEF IInv, Properties, SessionsAreAudited, WorkInv, FactorHeld, TypeOK
    <3>14. ASSUME NEW d \in Roots, d # c, SteadyPolicyEnforced
           PROVE  sess'[d] = sess[d] /\ opened'[d] = opened[d]
      BY <2>1, <3>5, <3>14 DEF TypeOK
    <3>15. /\ "active" \in s.steady => s.pol.active
           /\ "domain" \in s.steady => s.pol.domain
           /\ c \in Links /\ "magic" \in s.steady => s.pol.magic
           /\ c \in States /\ "mfa" \in s.steady /\ s.pol.mfa => s.idp
      BY <3>1, <3>2, <3>11 DEF WorkInv, Late, PolicyHeld, MethodHeld
    <3>16. "duo" \in s.steady =>
             /\ s.pol.duo = "closed" => s.factor = "duo"
             /\ s.pol.duo = "open" => s.factor \in {"duo", "duo_failopen"}
             /\ s.pol.duo = "off" => s.factor \in {"none", "idp"}
      BY <3>1, <3>2, <3>11 DEF WorkInv, FactorHeld, Proc, Factors
    <3>17. c \in Links /\ {"mfa", "duo"} \subseteq s.steady /\ s.pol.mfa
             => s.factor \in {"duo", "duo_failopen"}
      BY <2>1, <3>1, <3>2, <3>11, <3>16
      DEF WorkInv, Late, PolicyHeld, LinkHasDuo, TypeOK, Policy, DuoModes
    <3>18. SteadyPolicyEnforced'
      <4>1. s.pol.duo \in DuoModes
        BY <3>4 DEF Session, Policy
      <4>2. sess'[c] = s
        BY <2>1, <3>5 DEF TypeOK
      <4> QED
        BY <2>1, <3>14, <3>15, <3>16, <3>17, <4>1, <4>2
        DEF IInv, Properties, SteadyPolicyEnforced, DuoModes
    <3>19. [Admission!Next]_Admission!vars
      <4>1. InFlight(c) /\ ~InFlight(c)'
        BY <2>1, <2>2, <3>1, <3>5 DEF InFlight, Idle, IInv, OneHolder, TypeOK
      <4>2. ASSUME NEW d \in Roots, d # c PROVE InFlight(d)' = InFlight(d)
        BY <2>1, <2>2, <3>1, <3>5, <4>2 DEF InFlight, Idle, TypeOK
      <4>3. Stage[c] = "claimed" /\ Stage' = [Stage EXCEPT ![c] = "spent"]
        BY <3>3, <3>5, <4>1, <4>2 DEF Stage
      <4>4. Admission!Admit(c)
        BY <2>1, <3>3, <3>5, <4>3 DEF Admission!Admit, TypeOK
      <4> QED
        BY <4>4 DEF Admission!Next
    <3> QED
      BY <3>6, <3>7, <3>8, <3>9, <3>10, <3>12, <3>13, <3>18, <3>19 DEF IInv, Properties
  (* The one callback that finds the root open starts its flow.                 *)
  <2>28. ASSUME NEW p \in Procs, ClaimRoot(p), cred[proc[p].root] = "open"
         PROVE  IInv' /\ [Admission!Next]_Admission!vars
    <3>1. PICK q \in Proc, c \in Roots : q = proc[p] /\ c = q.root /\ q.pc = "claim" /\ Idle(q)
      BY <2>1, <2>28 DEF ClaimRoot, ProcInv, Idle
    <3>2. PICK to \in {"exchange", "tenant"} : to = IF c \in States THEN "exchange" ELSE "tenant"
      OBVIOUS
    <3>3. PICK n \in Proc : n = [q EXCEPT !.pc = to]
      BY DEF Proc, Pcs
    <3>4. n.pc = to /\ n.root = c /\ ~Idle(n)
      BY <3>1, <3>2, <3>3 DEF Proc, Idle
    <3>5. /\ proc' = [proc EXCEPT ![p] = n] /\ cred' = [cred EXCEPT ![c] = "consumed"]
          /\ steady' = [steady EXCEPT ![c] = Fields]
          /\ UNCHANGED <<policyVars, chal, resultVars, duoSaid>>
      BY <2>1, <2>28, <3>1, <3>2, <3>3 DEF ClaimRoot, Goto, TypeOK, Proc
    <3>6. TypeOK'
      BY <2>1, <3>5 DEF TypeOK
    <3>7. cred[c] = "open" /\ opened[c] = 0
      BY <2>28, <3>1 DEF IInv, RootInv
    <3>8. ASSUME NEW r \in Procs, ~Idle(proc[r]) PROVE proc[r].root \in Roots /\ proc[r].root # c
      BY <2>1, <3>7, <3>8 DEF ProcInv, WorkInv, Claimed
    <3>9. ASSUME NEW h \in Chals, chal[h].st = "open"
          PROVE  chal[h].root \in Roots /\ chal[h].root # c
      BY <3>7, <3>9 DEF IInv, ChalInv, Claimed
    <3>10. ASSUME NEW r \in Procs PROVE ProcInv(proc[r])'
      <4>1. CASE r = p
        <5>1. ProcInv(n)'
          BY <2>1, <3>1, <3>2, <3>4, <3>5, <3>7 DEF ProcInv, WorkInv, Claimed, Late, Idle, TypeOK
        <5> QED
          BY <2>1, <3>5, <4>1, <5>1 DEF TypeOK
      <4>2. CASE r # p
        <5>1. PICK w \in Proc : w = proc[r] /\ w = proc'[r]
          BY <2>1, <3>5, <4>2 DEF TypeOK
        <5>2. ProcInv(w)'
          BY <2>1, <3>5, <3>8, <5>1, <1>kk DEF TypeOK
        <5> QED
          BY <5>1, <5>2
      <4> QED
        BY <4>1, <4>2
    <3>11. ASSUME NEW h \in Chals PROVE ChalInv(h)'
      BY <2>1, <3>5, <3>9 DEF IInv, ChalInv, Claimed, PolicyHeld, MethodHeld, LinkHasDuo, TypeOK
    <3>12. \A d \in Roots : RootInv(d)'
      BY <2>1, <3>5, <3>7 DEF IInv, RootInv, TypeOK
    <3>13. OneHolder'
      <4>1. ASSUME NEW r \in Procs, r # p PROVE proc'[r] = proc[r]
        BY <2>1, <3>5, <4>1 DEF TypeOK
      <4>2. proc'[p] = n
        BY <2>1, <3>5 DEF TypeOK
      <4> QED
        BY <3>4, <3>5, <3>8, <3>9, <4>1, <4>2 DEF IInv, OneHolder
    <3>14. Properties'
      BY <3>5, <1>rk DEF IInv
    <3>15. [Admission!Next]_Admission!vars
      <4>1. ~InFlight(c) /\ InFlight(c)'
        BY <2>1, <3>4, <3>5, <3>8, <3>9 DEF InFlight, Idle, TypeOK
      <4>2. ASSUME NEW d \in Roots, d # c PROVE InFlight(d)' = InFlight(d)
        BY <2>1, <3>1, <3>4, <3>5, <4>2 DEF InFlight, Idle, TypeOK
      <4>3. \A d \in Roots : cred'[d] = IF d = c THEN "consumed" ELSE cred[d]
        BY <2>1, <3>5 DEF TypeOK
      <4>4. Stage[c] = "offered" /\ Stage' = [Stage EXCEPT ![c] = "claimed"]
        BY <3>7, <4>1, <4>2, <4>3 DEF Stage
      <4>5. Admission!Claim(c)
        BY <3>5, <4>4 DEF Admission!Claim
      <4> QED
        BY <4>5 DEF Admission!Next
    <3> QED
      BY <3>6, <3>10, <3>11, <3>12, <3>13, <3>14, <3>15 DEF IInv
  (* A challenge hands its root to the one callback that consumes it.           *)
  <2>29. ASSUME NEW p \in Procs, ClaimChal(p), chal[proc[p].chal].st = "open"
         PROVE  IInv' /\ [Admission!Next]_Admission!vars
    <3>1. PICK q \in Proc, h \in Chals :
            q = proc[p] /\ h = q.chal /\ q.pc = "claim" /\ Idle(q) /\ chal[h].st = "open"
      BY <2>1, <2>29 DEF ClaimChal, ProcInv, Idle
    <3>2. PICK c \in Roots, idp \in BOOLEAN :
            c = chal[h].root /\ idp = chal[h].idp /\ Claimed(c) /\ PolicyHeld(c, idp)
      BY <2>1, <3>1 DEF IInv, ChalInv, Claimed, TypeOK, Chal
    <3>3. PICK n \in Proc : n = [q EXCEPT !.pc = "recheck", !.root = c, !.idp = idp]
      BY DEF Proc, Pcs, RootOrNone
    <3>4. n.pc = "recheck" /\ n.root = c /\ n.idp = idp /\ ~Idle(n)
      BY <3>3 DEF Proc, Idle
    <3>5. PICK g \in Chal : g = [chal[h] EXCEPT !.st = "consumed"]
      BY <2>1 DEF TypeOK, Chal
    <3>6. /\ proc' = [proc EXCEPT ![p] = n] /\ chal' = [chal EXCEPT ![h] = g]
          /\ UNCHANGED <<policyVars, cred, resultVars, history>>
      BY <2>1, <2>29, <3>1, <3>2, <3>3, <3>5 DEF ClaimChal, TypeOK, Proc, Chal
    <3>7. g.st = "consumed"
      BY <2>1, <3>5 DEF TypeOK, Chal
    <3>8. TypeOK'
      BY <2>1, <3>6 DEF TypeOK
    <3>9. ASSUME NEW r \in Procs, ~Idle(proc[r]) PROVE proc[r].root # c
      BY <3>1, <3>2, <3>9 DEF IInv, OneHolder
    <3>10. ASSUME NEW j \in Chals, j # h, chal[j].st = "open" PROVE chal[j].root # c
      BY <3>1, <3>2, <3>10 DEF IInv, OneHolder
    <3>11. \A j \in Chals : chal'[j] = IF j = h THEN g ELSE chal[j]
      BY <2>1, <3>6 DEF TypeOK
    <3>12. \A r \in Procs : proc'[r] = IF r = p THEN n ELSE proc[r]
      BY <2>1, <3>6 DEF TypeOK
    <3>13. ASSUME NEW r \in Procs PROVE ProcInv(proc[r])'
      <4>1. CASE r = p
        <5>1. ProcInv(n)'
          BY <3>2, <3>4, <3>6
          DEF ProcInv, WorkInv, Claimed, Late, Idle, PolicyHeld, MethodHeld, LinkHasDuo
        <5> QED
          BY <3>12, <4>1, <5>1
      <4>2. CASE r # p
        <5>1. PICK w \in Proc : w = proc[r] /\ w = proc'[r]
          BY <2>1, <3>12, <4>2
        <5>2. w.pc = "tell" => w.chal \in Chals /\ chal[w.chal].st = "parked"
          BY <2>1, <5>1 DEF ProcInv, WorkInv, Idle
        <5>3. w.pc = "tell" => chal'[w.chal] = chal[w.chal]
          BY <3>1, <3>11, <5>2
        <5>4. ProcInv(w)'
          BY <2>1, <3>6, <5>1, <5>3, <1>kk
        <5> QED
          BY <5>1, <5>4
      <4> QED
        BY <4>1, <4>2
    <3>14. ASSUME NEW j \in Chals PROVE ChalInv(j)'
      BY <3>6, <3>7, <3>11 DEF IInv, ChalInv, Claimed, PolicyHeld, MethodHeld, LinkHasDuo
    <3>15. \A d \in Roots : RootInv(d)'
      BY <3>6 DEF IInv, RootInv
    <3>16. OneHolder'
      BY <3>4, <3>7, <3>9, <3>10, <3>11, <3>12 DEF IInv, OneHolder
    <3>17. Properties'
      BY <3>6, <1>rk DEF IInv
    <3>18. [Admission!Next]_Admission!vars
      <4>1. InFlight(c) /\ InFlight(c)'
        BY <3>1, <3>2, <3>4, <3>12 DEF InFlight, Idle
      <4>2. ASSUME NEW d \in Roots, d # c PROVE InFlight(d)' = InFlight(d)
        BY <3>1, <3>2, <3>4, <3>7, <3>11, <3>12, <4>2 DEF InFlight, Idle
      <4>3. Stage' = Stage
        BY <3>6, <4>1, <4>2 DEF Stage
      <4> QED
        BY <3>6, <4>3 DEF Admission!vars
    <3> QED
      BY <3>8, <3>13, <3>14, <3>15, <3>16, <3>17, <3>18 DEF IInv
  (* Parking writes a row the browser cannot use yet; telling it opens the row. *)
  <2>30. ASSUME NEW p \in Procs, Park(p) PROVE IInv' /\ [Admission!Next]_Admission!vars
    <3>1. PICK q \in Proc : q = proc[p] /\ q.pc = "park" /\ ~Idle(q) /\ WorkInv(q)
      BY <2>1, <2>30 DEF Park, ProcInv, Idle
    <3>2. PICK h \in Chals :
            /\ chal[h].st = "absent"
            /\ chal' = [chal EXCEPT ![h] = [st |-> "parked", root |-> q.root, idp |-> q.idp]]
            /\ proc' = [proc EXCEPT ![p].pc = "tell", ![p].chal = h]
      BY <2>30, <3>1 DEF Park
    <3>3. PICK g \in Chal : g = [st |-> "parked", root |-> q.root, idp |-> q.idp]
      BY DEF Chal, Proc
    <3>4. g.st = "parked" /\ g.root = q.root /\ g.idp = q.idp
      BY <3>3
    <3>5. PICK n \in Proc : n = [q EXCEPT !.pc = "tell", !.chal = h]
      BY DEF Proc, Pcs
    <3>6. n.pc = "tell" /\ n.root = q.root /\ n.chal = h /\ n.idp = q.idp /\ ~Idle(n)
      BY <3>5 DEF Proc, Idle
    <3>7. /\ proc' = [proc EXCEPT ![p] = n] /\ chal' = [chal EXCEPT ![h] = g]
          /\ UNCHANGED <<policyVars, cred, resultVars, history>>
      BY <2>1, <2>30, <3>1, <3>2, <3>3, <3>5 DEF Park, TypeOK, Proc
    <3>8. TypeOK'
      BY <2>1, <3>7 DEF TypeOK
    <3>9. \A j \in Chals : chal'[j] = IF j = h THEN g ELSE chal[j]
      BY <2>1, <3>7 DEF TypeOK
    <3>10. \A r \in Procs : proc'[r] = IF r = p THEN n ELSE proc[r]
      BY <2>1, <3>7 DEF TypeOK
    <3>11. ASSUME NEW r \in Procs PROVE ProcInv(proc[r])'
      <4>1. CASE r = p
        <5>1. ProcInv(n)'
          BY <3>1, <3>4, <3>6, <3>7, <3>9
          DEF ProcInv, WorkInv, Claimed, Late, Idle, PolicyHeld, MethodHeld, LinkHasDuo
        <5> QED
          BY <3>10, <4>1, <5>1
      <4>2. CASE r # p
        <5>1. PICK w \in Proc : w = proc[r] /\ w = proc'[r]
          BY <2>1, <3>10, <4>2
        <5>2. w.pc = "tell" => w.chal \in Chals /\ chal[w.chal].st = "parked"
          BY <2>1, <5>1 DEF ProcInv, WorkInv, Idle
        <5>3. w.pc = "tell" => chal'[w.chal] = chal[w.chal]
          BY <3>2, <3>9, <5>2
        <5>4. ProcInv(w)'
          BY <2>1, <3>7, <5>1, <5>3, <1>kk
        <5> QED
          BY <5>1, <5>4
      <4> QED
        BY <4>1, <4>2
    <3>12. ASSUME NEW j \in Chals PROVE ChalInv(j)'
      BY <3>4, <3>7, <3>9 DEF IInv, ChalInv, Claimed, PolicyHeld, MethodHeld, LinkHasDuo
    <3>13. \A d \in Roots : RootInv(d)'
      BY <3>7 DEF IInv, RootInv
    <3>14. ASSUME NEW j \in Chals
           PROVE  /\ chal'[j].st = "open" <=> chal[j].st = "open"
                  /\ chal[j].st = "open" => chal'[j].root = chal[j].root
      BY <3>2, <3>4, <3>9
    <3>15. ASSUME NEW r \in Procs
           PROVE  (Idle(proc'[r]) <=> Idle(proc[r])) /\ proc'[r].root = proc[r].root
      BY <3>1, <3>6, <3>10
    <3>16. OneHolder'
      BY <3>14, <3>15 DEF IInv, OneHolder
    <3>17. Properties'
      BY <3>7, <1>rk DEF IInv
    <3>18. [Admission!Next]_Admission!vars
      <4>1. ASSUME NEW d \in Roots PROVE InFlight(d)' = InFlight(d)
        BY <3>14, <3>15 DEF InFlight, Idle
      <4>2. Stage' = Stage
        BY <3>7, <4>1 DEF Stage
      <4> QED
        BY <3>7, <4>2 DEF Admission!vars
    <3> QED
      BY <3>8, <3>11, <3>12, <3>13, <3>16, <3>17, <3>18 DEF IInv
  <2>31. ASSUME NEW p \in Procs, Tell(p) PROVE IInv' /\ [Admission!Next]_Admission!vars
    <3>1. PICK q \in Proc : q = proc[p] /\ q.pc = "tell" /\ ~Idle(q) /\ WorkInv(q)
      BY <2>1, <2>31 DEF Tell, ProcInv, Idle
    <3>2. PICK h \in Chals : h = q.chal /\ chal[h].st = "parked" /\ chal[h].root = q.root
      BY <3>1 DEF WorkInv
    <3>3. PICK g \in Chal : g = [chal[h] EXCEPT !.st = "open"]
      BY <2>1 DEF TypeOK, Chal
    <3>4. g.st = "open" /\ g.root = q.root /\ g.idp = q.idp
      BY <2>1, <3>1, <3>2, <3>3 DEF TypeOK, Chal, WorkInv
    <3>5. /\ proc' = [proc EXCEPT ![p] = IdleProc] /\ chal' = [chal EXCEPT ![h] = g]
          /\ UNCHANGED <<policyVars, cred, resultVars, history>>
      BY <2>1, <2>31, <3>1, <3>2, <3>3 DEF Tell, End, TypeOK, Chal
    <3>6. TypeOK'
      BY <2>1, <2>2, <3>5 DEF TypeOK
    <3>7. \A j \in Chals : chal'[j] = IF j = h THEN g ELSE chal[j]
      BY <2>1, <3>5 DEF TypeOK
    <3>8. \A r \in Procs : proc'[r] = IF r = p THEN IdleProc ELSE proc[r]
      BY <2>1, <3>5 DEF TypeOK
    <3>9. ASSUME NEW r \in Procs PROVE ProcInv(proc[r])'
      <4>1. CASE r = p
        BY <2>2, <3>8, <4>1
      <4>2. CASE r # p
        <5>1. PICK w \in Proc : w = proc[r] /\ w = proc'[r]
          BY <2>1, <3>8, <4>2
        <5>2. w.pc = "tell" => w.chal \in Chals /\ chal[w.chal].root = w.root /\ ~Idle(w)
          BY <2>1, <5>1 DEF ProcInv, WorkInv, Idle
        <5>3. w.pc = "tell" => w.chal # h
          BY <3>1, <3>2, <4>2, <5>1, <5>2 DEF IInv, OneHolder
        <5>4. ProcInv(w)'
          BY <2>1, <3>5, <3>7, <5>1, <5>2, <5>3, <1>kk
        <5> QED
          BY <5>1, <5>4
      <4> QED
        BY <4>1, <4>2
    <3>10. ASSUME NEW j \in Chals PROVE ChalInv(j)'
      <4>1. CASE j = h
        BY <3>1, <3>4, <3>5, <3>7, <4>1
        DEF ChalInv, WorkInv, Late, Claimed, PolicyHeld, MethodHeld, LinkHasDuo
      <4>2. CASE j # h
        BY <3>5, <3>7, <4>2 DEF IInv, ChalInv, Claimed, PolicyHeld, MethodHeld, LinkHasDuo
      <4> QED
        BY <4>1, <4>2
    <3>11. \A d \in Roots : RootInv(d)'
      BY <3>5 DEF IInv, RootInv
    <3>12. OneHolder'
      BY <2>2, <3>1, <3>4, <3>7, <3>8 DEF IInv, OneHolder
    <3>13. Properties'
      BY <3>5, <1>rk DEF IInv
    <3>14. [Admission!Next]_Admission!vars
      <4>1. ASSUME NEW d \in Roots PROVE InFlight(d)' = InFlight(d)
        BY <2>2, <3>1, <3>2, <3>4, <3>7, <3>8 DEF InFlight, Idle
      <4>2. Stage' = Stage
        BY <3>5, <4>1 DEF Stage
      <4> QED
        BY <3>5, <4>2 DEF Admission!vars
    <3> QED
      BY <3>6, <3>9, <3>10, <3>11, <3>12, <3>13, <3>14 DEF IInv
  <2>32. ASSUME NEW c \in Roots, ExpireRoot(c) PROVE IInv' /\ [Admission!Next]_Admission!vars
    <3>1. /\ cred[c] = "open" /\ cred' = [cred EXCEPT ![c] = "expired"]
          /\ UNCHANGED <<policyVars, chal, proc, resultVars, history>>
      BY <2>32 DEF ExpireRoot
    <3>2. TypeOK'
      BY <2>1, <3>1 DEF TypeOK
    <3>3. \A d \in Roots : cred'[d] = IF d = c THEN "expired" ELSE cred[d]
      BY <2>1, <3>1 DEF TypeOK
    <3>4. ASSUME NEW r \in Procs PROVE ProcInv(proc[r])'
      <4>1. PICK w \in Proc : w = proc[r] /\ w = proc'[r]
        BY <2>1, <3>1
      <4>2. ~Idle(w) => cred'[w.root] = cred[w.root]
        BY <2>1, <3>1, <3>3, <4>1 DEF ProcInv, WorkInv, Claimed
      <4>3. ProcInv(w)'
        BY <2>1, <3>1, <4>1, <4>2, <1>kk
      <4> QED
        BY <4>1, <4>3
    <3>5. ASSUME NEW j \in Chals PROVE ChalInv(j)'
      BY <3>1, <3>3 DEF IInv, ChalInv, Claimed, PolicyHeld, MethodHeld, LinkHasDuo
    <3>6. \A d \in Roots : RootInv(d)'
      BY <3>1, <3>3 DEF IInv, RootInv
    <3>7. OneHolder' /\ Properties'
      BY <3>1, <1>rk DEF IInv, OneHolder
    <3>8. [Admission!Next]_Admission!vars
      <4>1. ~InFlight(c)
        BY <2>1, <3>1 DEF InFlight, IInv, ProcInv, WorkInv, Idle, ChalInv, Claimed
      <4>2. ASSUME NEW d \in Roots PROVE InFlight(d)' = InFlight(d)
        BY <3>1 DEF InFlight
      <4>3. ASSUME NEW d \in Roots PROVE cred'[d] = "open" <=> d # c /\ cred[d] = "open"
        BY <3>3
      <4>4. ~InFlight(c)'
        BY <4>1, <4>2
      <4>5. Stage[c] = "offered" /\ Stage' = [Stage EXCEPT ![c] = "spent"]
        BY <3>1, <4>2, <4>3, <4>4 DEF Stage
      <4>6. Admission!Forfeit(c)
        BY <3>1, <4>5 DEF Admission!Forfeit
      <4> QED
        BY <4>6 DEF Admission!Next
    <3> QED
      BY <3>2, <3>4, <3>5, <3>6, <3>7, <3>8 DEF IInv
  <2>33. ASSUME NEW h \in Chals, ExpireChal(h) PROVE IInv' /\ [Admission!Next]_Admission!vars
    <3>1. PICK g \in Chal : g = [chal[h] EXCEPT !.st = "expired"]
      BY <2>1 DEF TypeOK, Chal
    <3>2. /\ chal[h].st = "open" /\ chal' = [chal EXCEPT ![h] = g]
          /\ UNCHANGED <<policyVars, cred, proc, resultVars, history>>
      BY <2>1, <2>33, <3>1 DEF ExpireChal, TypeOK, Chal
    <3>3. g.st = "expired"
      BY <2>1, <3>1 DEF TypeOK, Chal
    <3>4. TypeOK'
      BY <2>1, <3>2 DEF TypeOK
    <3>5. \A j \in Chals : chal'[j] = IF j = h THEN g ELSE chal[j]
      BY <2>1, <3>2 DEF TypeOK
    <3>6. ASSUME NEW r \in Procs PROVE ProcInv(proc[r])'
      <4>1. PICK w \in Proc : w = proc[r] /\ w = proc'[r]
        BY <2>1, <3>2
      <4>2. w.pc = "tell" => w.chal \in Chals /\ chal[w.chal].st = "parked"
        BY <2>1, <4>1 DEF ProcInv, WorkInv, Idle
      <4>3. w.pc = "tell" => chal'[w.chal] = chal[w.chal]
        BY <3>2, <3>5, <4>2
      <4>4. ProcInv(w)'
        BY <2>1, <3>2, <4>1, <4>3, <1>kk
      <4> QED
        BY <4>1, <4>4
    <3>7. ASSUME NEW j \in Chals PROVE ChalInv(j)'
      BY <3>2, <3>3, <3>5 DEF IInv, ChalInv, Claimed, PolicyHeld, MethodHeld, LinkHasDuo
    <3>8. \A d \in Roots : RootInv(d)'
      BY <3>2 DEF IInv, RootInv
    <3>9. OneHolder' /\ Properties'
      BY <3>2, <3>3, <3>5, <1>rk DEF IInv, OneHolder
    <3>10. [Admission!Next]_Admission!vars
      <4>1. PICK c \in Roots : c = chal[h].root /\ cred[c] = "consumed"
        BY <3>2 DEF IInv, ChalInv, Claimed
      <4>2. \A r \in Procs : ~Idle(proc[r]) => proc[r].root # c
        BY <3>2, <4>1 DEF IInv, OneHolder
      <4>3. \A j \in Chals : j # h /\ chal[j].st = "open" => chal[j].root # c
        BY <3>2, <4>1 DEF IInv, OneHolder
      <4>4. InFlight(c) /\ ~InFlight(c)'
        BY <3>2, <3>3, <3>5, <4>1, <4>2, <4>3 DEF InFlight, Idle
      <4>5. ASSUME NEW d \in Roots, d # c PROVE InFlight(d)' = InFlight(d)
        BY <3>2, <3>3, <3>5, <4>1, <4>5 DEF InFlight
      <4>6. Stage[c] = "claimed" /\ Stage' = [Stage EXCEPT ![c] = "spent"]
        BY <3>2, <4>1, <4>4, <4>5 DEF Stage
      <4>7. Admission!Forfeit(c)
        BY <3>2, <4>6 DEF Admission!Forfeit
      <4> QED
        BY <4>7 DEF Admission!Next
    <3> QED
      BY <3>4, <3>6, <3>7, <3>8, <3>9, <3>10 DEF IInv
  (* A change of policy takes its field out of what is steady for every root.   *)
  <2>34. ASSUME NEW f \in Fields, ChangePolicy(f) PROVE IInv' /\ [Admission!Next]_Admission!vars
    <3>1. /\ pol' \in Policy /\ \A g \in Fields \ {f} : pol'[g] = pol[g]
          /\ steady' = [c \in Roots |-> steady[c] \ {f}]
          /\ changes < MaxChanges /\ changes' = changes + 1
          /\ UNCHANGED <<rowVars, proc, resultVars, duoSaid>>
      BY <2>34 DEF ChangePolicy
    <3>2. TypeOK'
      BY <2>1, <3>1, BoundAssumption DEF TypeOK
    <3>3. ASSUME NEW c \in Roots
          PROVE  /\ "active" \in steady'[c] => "active" \in steady[c] /\ pol'.active = pol.active
                 /\ "magic" \in steady'[c] => "magic" \in steady[c] /\ pol'.magic = pol.magic
                 /\ "mfa" \in steady'[c] => "mfa" \in steady[c] /\ pol'.mfa = pol.mfa
                 /\ "domain" \in steady'[c] => "domain" \in steady[c] /\ pol'.domain = pol.domain
                 /\ "duo" \in steady'[c] => "duo" \in steady[c] /\ pol'.duo = pol.duo
      <4>1. ASSUME NEW g \in Fields, g \in steady'[c] PROVE g \in steady[c] /\ pol'[g] = pol[g]
        BY <3>1, <4>1
      <4>2. pol \in Policy /\ pol' \in Policy
        BY <2>1, <3>1 DEF TypeOK
      <4> QED
        BY <4>1, <4>2 DEF Fields, Policy
    <3>4. ASSUME NEW c \in Roots, MethodHeld(c) PROVE MethodHeld(c)'
      BY <3>3, <3>4 DEF MethodHeld
    <3>5. ASSUME NEW c \in Roots, LinkHasDuo(c) PROVE LinkHasDuo(c)'
      BY <3>3, <3>5 DEF LinkHasDuo
    <3>6. ASSUME NEW c \in Roots, NEW idp \in BOOLEAN, PolicyHeld(c, idp) PROVE PolicyHeld(c, idp)'
      BY <3>3, <3>4, <3>5, <3>6 DEF PolicyHeld
    <3>7. ASSUME NEW r \in Procs PROVE ProcInv(proc[r])'
      <4>1. PICK w \in Proc : w = proc[r] /\ w = proc'[r] /\ ProcInv(w)
        BY <2>1, <3>1
      <4>2. CASE Idle(w)
        BY <4>1, <4>2 DEF ProcInv, Idle
      <4>3. CASE ~Idle(w)
        <5>1. PICK c \in Roots : c = w.root /\ WorkInv(w) /\ Claimed(c) /\ Claimed(c)'
          BY <3>1, <4>1, <4>3 DEF ProcInv, WorkInv, Claimed
        <5>2. w.pc \in {"audit", "issue"} => FactorHeld(c, w.factor, w.idp)'
          BY <3>1, <3>3, <5>1 DEF WorkInv, FactorHeld
        <5>3. w.pc \in Late => PolicyHeld(c, w.idp)'
          BY <3>6, <5>1 DEF WorkInv, Proc
        <5>4. /\ w.pc \in {"assertDuo", "domain"} /\ "mfa" \in steady'[c] => w.mfa = pol'.mfa
              /\ w.pc \in {"health", "verify", "failopen"} =>
                   w.duo # "off" /\ ("duo" \in steady'[c] => w.duo = pol'.duo)
          BY <3>3, <5>1 DEF WorkInv
        <5>5. /\ w.pc \notin {"exchange", "tenant"} => MethodHeld(c)'
              /\ w.pc = "domain" => LinkHasDuo(c)'
          BY <3>4, <3>5, <5>1 DEF WorkInv
        <5>6. WorkInv(w)'
          BY <3>1, <5>1, <5>2, <5>3, <5>4, <5>5 DEF WorkInv
        <5> QED
          BY <4>1, <4>3, <5>6 DEF ProcInv, Idle
      <4> QED
        BY <4>2, <4>3
    <3>8. ASSUME NEW j \in Chals PROVE ChalInv(j)'
      <4>1. chal[j].idp \in BOOLEAN
        BY <2>1 DEF TypeOK, Chal
      <4> QED
        BY <3>1, <3>6, <4>1 DEF IInv, ChalInv, Claimed
    <3>9. (\A d \in Roots : RootInv(d)') /\ OneHolder'
      BY <3>1 DEF IInv, RootInv, OneHolder
    <3>10. Properties'
      BY <3>1, <1>rk DEF IInv
    <3>11. Stage' = Stage
      BY <3>1 DEF Stage, InFlight
    <3> QED
      BY <3>1, <3>2, <3>7, <3>8, <3>9, <3>10, <3>11 DEF IInv, Admission!vars
  <2>35. CASE UNCHANGED vars
    <3>1. \A w \in Proc : ProcInv(w)' <=> ProcInv(w)
      BY <2>35 DEF vars, ProcInv, Idle, WorkInv, Claimed, MethodHeld, LinkHasDuo, PolicyHeld, FactorHeld
    <3>2. \A h \in Chals : ChalInv(h)' <=> ChalInv(h)
      BY <2>35 DEF vars, ChalInv, Claimed, PolicyHeld, MethodHeld, LinkHasDuo
    <3>3. Stage' = Stage
      BY <2>35 DEF vars, Stage, InFlight
    <3>4. IInv'
      BY <2>1, <2>35, <3>1, <3>2
      DEF IInv, vars, TypeOK, RootInv, OneHolder, Properties, FactorIsEarned,
          SteadyPolicyEnforced, SessionsAreAudited
    <3> QED
      BY <2>35, <3>3, <3>4 DEF vars, Admission!vars
  <2>36. ASSUME NEW p \in Procs, Step(p) PROVE IInv' /\ [Admission!Next]_Admission!vars
    <3>1. CASE FirstLeg(p)
      BY <2>8, <2>10, <2>11, <2>12, <2>13, <2>14, <2>15, <2>20, <2>28, <2>30, <2>31, <3>1 DEF FirstLeg
    <3>2. CASE DuoLeg(p)
      BY <2>9, <2>21, <2>22, <2>23, <2>29, <3>2 DEF DuoLeg
    <3>3. CASE Ending(p)
      BY <2>24, <2>25, <2>26, <2>27, <3>3 DEF Ending
    <3> QED
      BY <2>36, <3>1, <3>2, <3>3 DEF Step
  <2> QED
    BY <2>4, <2>5, <2>6, <2>32, <2>33, <2>34, <2>35, <2>36 DEF Next
<1>1. ASSUME Init PROVE IInv /\ Admission!Init
  <2> USE <1>1 DEF Init
  <2>1. IdleProc \in Proc /\ NoChal \in Chal /\ NoSession \in Session
    BY DEF IdleProc, Proc, Pcs, RootOrNone, DuoModes, Factors, NoChal, Chal, NoSession,
           Session, Policy, Fields
  <2>2. TypeOK
    BY <2>1, BoundAssumption DEF TypeOK
  <2>3. IdleProc.pc = "idle" /\ NoChal.st = "absent"
    BY DEF IdleProc, NoChal
  <2>4. IInv
    BY <2>2, <2>3
    DEF IInv, ProcInv, ChalInv, RootInv, OneHolder, Idle, Properties, FactorIsEarned,
        SteadyPolicyEnforced, SessionsAreAudited
  <2>5. Admission!Init
    BY DEF Admission!Init, Stage
  <2> QED
    BY <2>4, <2>5
<1> QED
  BY <1>1, <1>sk, PTL DEF Spec, ImplementsAdmission, Admission!Spec

(* One session at most from one SSO state or one mailed link.                 *)
THEOREM AtMostOnce == Spec => []Admission!SingleUse
<1>1. IInv => Admission!SingleUse
  BY DEF IInv, RootInv, Admission!SingleUse
<1> QED
  BY <1>1, SignInImplementsAdmission, PTL

(* A session's factor was earned during this sign-in: Duo vouched for it, Duo *)
(* could not be reached, or the identity provider asserted it.                *)
THEOREM FactorsAreEarned == Spec => []FactorIsEarned
<1>1. IInv => FactorIsEarned
  BY DEF IInv, Properties
<1> QED
  BY <1>1, SignInImplementsAdmission, PTL

(* Policy that stood from the claim to the session was enforced on it, on     *)
(* every path and whatever else operators changed meanwhile.                  *)
THEOREM SteadyPolicyHolds == Spec => []SteadyPolicyEnforced
<1>1. IInv => SteadyPolicyEnforced
  BY DEF IInv, Properties
<1> QED
  BY <1>1, SignInImplementsAdmission, PTL

(* Every session was written to the trail before it was issued, with its      *)
(* factor, and with an entry of its own when the second factor failed open.   *)
THEOREM SignInsAreAudited == Spec => []SessionsAreAudited
<1>1. IInv => SessionsAreAudited
  BY DEF IInv, Properties
<1> QED
  BY <1>1, SignInImplementsAdmission, PTL
=============================================================================
