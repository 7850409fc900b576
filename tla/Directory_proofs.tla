--------------------------- MODULE Directory_proofs ---------------------------
(***************************************************************************)
(* The directory's endpoint for any number of accounts, callers, pages and *)
(* attempts: what the trail says of an account is so, a list read to its   *)
(* end has left nobody out, and made-up tokens are looked up no more often *)
(* than the ceiling and the callers allow.                                 *)
(***************************************************************************)
EXTENDS Directory, FiniteSetTheorems, WellFoundedInduction, TLAPS

Actives == BOOLEAN \cup {Odd, Absent}
Spellings == {q.patch.address : q \in Requests} \cup {Absent}
Patch == [address : Spellings, active : Actives]
Pcs == {"idle", "token", "list", "read", "create", "write", "insert", "update"}
Presented == Tokens \cup {Forged, NoToken, Nobody}
Subjects == Users \cup {Nobody}
Request == [pc : Pcs, kind : {"none", "list", "read", "create", "write"}, user : Subjects,
            patch : Patch, by : Presented, was : BOOLEAN \cup {Absent}, born : Nat]
Pages == [next : Nat, seen : SUBSET Users, due : SUBSET Users, done : BOOLEAN]
Actions == {"listed", "read", "created", "deactivated", "reactivated", "updated"}
Entries == [subject : Subjects, action : Actions, active : BOOLEAN \cup {Absent}]
SignIns == [address : Addresses, born : Nat]

(* A request to change an account is about one, and what is past the check  *)
(* of its body says all it must.                                            *)
Sound(q) ==
    /\ q.pc \in {"insert", "update"} => q.patch.active # Odd
    /\ q.kind = "create" => q.patch.active # Absent
    /\ q.kind = "write" => q.user \in Users
    /\ q.pc = "token" => q.kind # "none"
    /\ q.pc \in {"list", "read", "create", "write"} => q.kind = q.pc
    /\ q.pc = "insert" => q.kind = "create"
    /\ q.pc = "update" => q.kind = "write"

Table(t) ==
    /\ DOMAIN t \subseteq Users
    /\ \A u \in DOMAIN t : t[u].born \in Nat /\ t[u].active \in BOOLEAN

Typed ==
    /\ Table(users)
    /\ trail \in Seq(Entries)
    /\ lock \in [Users -> Callers \cup {Nobody}]
    /\ req \in [Callers -> Request]
    /\ \A c \in Callers : Sound(req[c])
    /\ signIn # Nobody => signIn \in SignIns
    /\ clock \in Nat
    /\ listing \in Pages

-----------------------------------------------------------------------------
(* A nonempty set of places in a sequence has a last one.                    *)
LEMMA LastPlace ==
    ASSUME NEW n \in Nat, NEW S \in SUBSET (1..n), S # {}
    PROVE  Max(S) \in S /\ \A j \in S : j <= Max(S)
<1> DEFINE Up(i) == {j \in S : i <= j}
           F == {Up(i) : i \in S}
<1>1. IsFiniteSet(S) /\ \A i \in S : i \in Int
  <2>1. IsFiniteSet(1..n)
    BY FS_Interval, 1 \in Int, n \in Int
  <2>2. \A i \in S : i \in Int
    OBVIOUS
  <2> QED
    BY <2>1, <2>2, FS_Subset
<1>2. ASSUME NEW i \in S PROVE Up(i) \in FiniteSubsetsOf(S)
  BY <1>1, FS_Subset, Up(i) \in SUBSET S DEF FiniteSubsetsOf
<1>3. F \subseteq FiniteSubsetsOf(S) /\ F # {}
  BY <1>2
<1>4. PICK U \in F : \A V \in F : ~(<<V, U>> \in StrictSubsetOrdering(S))
  <2> HIDE DEF F
  <2> QED
    BY <1>3, FS_StrictSubsetOrderingWellFounded, WFMin
<1>5. PICK i \in S : U = Up(i)
  BY <1>4
<1>6. ASSUME NEW j \in S, ~(j <= i) PROVE FALSE
  <2>1. Up(j) \subseteq U
    <3>1. ASSUME NEW k \in S, j <= k PROVE i <= k
      BY <1>1, <1>6, <3>1
    <3> QED
      BY <1>5, <3>1
  <2>2. i \in U /\ i \notin Up(j)
    BY <1>1, <1>5, <1>6
  <2>3. Up(j) \in F /\ U \in SUBSET S
    BY <1>5
  <2>4. <<Up(j), U>> \in StrictSubsetOrdering(S)
    BY <2>1, <2>2, <2>3 DEF StrictSubsetOrdering
  <2> QED
    BY <1>4, <2>3, <2>4
<1>7. \E x \in S : \A y \in S : x >= y
  BY <1>1, <1>6
<1> QED
  BY <1>1, <1>7 DEF Max

-----------------------------------------------------------------------------
(* Types, and what a request has passed when it gets to the tables.          *)
LEMMA TypesAlways == Spec => []Typed
\* What a directory sends asks for TRUE, FALSE, something odd or nothing.
<1>p. ASSUME NEW q \in Requests
      PROVE  /\ q.kind \in {"list", "read", "create", "write"} /\ q.user \in Subjects
             /\ q.patch \in Patch
             /\ q.kind = "create" => q.patch.active # Absent
             /\ q.kind = "write" => q.user \in Users
  <2>1. ASSUME NEW p, p.active \in Actives, q.patch = [address |-> p.address, active |-> p.active]
        PROVE  q.patch \in Patch
    BY <2>1 DEF Patch, Spellings
  <2>2. ASSUME NEW operations \in Patches
        PROVE  ApplyPatch(operations).active \in Actives
    <3> DEFINE about == About(operations, "active")
    <3>1. ASSUME about # {} PROVE Asked(operations[Max(about)]) \in Actives
      <4>1. Max(about) \in about
        <5>1. about \in SUBSET (1..Len(operations)) /\ Len(operations) \in Nat
          BY PatchAssumption DEF About
        <5> HIDE DEF about
        <5> QED
          BY <3>1, <5>1, LastPlace
      <4> QED
        BY <4>1, PatchAssumption DEF About, Asked, Actives
    <3>2. Asks(operations, "active") \in Actives
      <4> HIDE DEF about
      <4> QED
        BY <3>1 DEF Asks, about, Actives
    <3> HIDE DEF about
    <3> QED
      BY <3>2 DEF ApplyPatch, Unchanged, Actives
  <2>3. ASSUME NEW b \in Bodies
        PROVE  /\ PutPatch(b).active \in Actives
               /\ PutPatch(Whole(b)).active \in Actives \ {Absent}
    <3>1. Whole(b).active \in BOOLEAN \cup {Odd}
      BY DirectoryAssumption DEF Whole
    <3>2. PutPatch(b).active = b.active /\ PutPatch(Whole(b)).active = Whole(b).active
      BY DEF PutPatch
    <3> QED
      BY <3>1, <3>2, DirectoryAssumption DEF Actives
  <2>4. ASSUME NEW p \in Changes
        PROVE  p.active \in Actives /\ p = [address |-> p.address, active |-> p.active]
    <3>1. ASSUME NEW b \in Bodies, p = PutPatch(b)
          PROVE  p = [address |-> p.address, active |-> p.active]
      BY <3>1 DEF PutPatch
    <3>2. ASSUME NEW o \in Patches, p = ApplyPatch(o)
          PROVE  p = [address |-> p.address, active |-> p.active]
      BY <3>2 DEF ApplyPatch, Unchanged
    <3>3. ASSUME p = DeletePatch
          PROVE  p.active \in Actives /\ p = [address |-> p.address, active |-> p.active]
      BY <3>3 DEF DeletePatch, Actives
    <3> QED
      BY <2>2, <2>3, <3>1, <3>2, <3>3 DEF Changes
  <2>5. ASSUME NEW b \in Bodies, q = Creation(b)
        PROVE  /\ q.kind = "create" /\ q.user = Nobody
               /\ q.patch.active \in Actives \ {Absent}
               /\ q.patch = [address |-> q.patch.address, active |-> q.patch.active]
    <3>1. q.kind = "create" /\ q.user = Nobody /\ q.patch = PutPatch(Whole(b))
      BY <2>5 DEF Creation
    <3>2. PutPatch(Whole(b)) = [address |-> PutPatch(Whole(b)).address,
                                active |-> PutPatch(Whole(b)).active]
      BY DEF PutPatch
    <3> QED
      BY <2>3, <3>1, <3>2
  <2>6. ASSUME NEW u \in Users, NEW p \in Changes, q = Change(u, p)
        PROVE  q.kind = "write" /\ q.user = u /\ q.patch = p
    BY <2>6 DEF Change
  <2>7. ASSUME NEW k \in {"list", "read"}, q = Reading(k)
        PROVE  q.kind = k /\ q.user = Nobody /\ q.patch = Unchanged
    BY <2>7 DEF Reading
  <2>8. Unchanged.active \in Actives
        /\ Unchanged = [address |-> Unchanged.address, active |-> Unchanged.active]
    BY DEF Unchanged, Actives
  <2>9. \/ \E k \in {"list", "read"} : q = Reading(k)
        \/ \E b \in Bodies : q = Creation(b)
        \/ \E u \in Users, p \in Changes : q = Change(u, p)
    BY DEF Requests
  <2>10. CASE \E k \in {"list", "read"} : q = Reading(k)
    BY <2>1, <2>7, <2>8, <2>10 DEF Subjects
  <2>11. CASE \E b \in Bodies : q = Creation(b)
    BY <2>1, <2>5, <2>11 DEF Subjects
  <2>12. CASE \E u \in Users, p \in Changes : q = Change(u, p)
    BY <2>1, <2>4, <2>6, <2>12 DEF Subjects
  <2> QED
    BY <2>9, <2>10, <2>11, <2>12
<1>b. Idle \in Request /\ Sound(Idle)
  BY DEF Idle, Request, Sound, Pcs, Subjects, Patch, Spellings, Unchanged, Actives, Presented
<1>i. ASSUME Init PROVE Typed
  <2> USE <1>i DEF Init
  <2>1. Table(users)
    BY DirectoryAssumption DEF Table, Row
  <2>2. req \in [Callers -> Request] /\ \A c \in Callers : Sound(req[c])
    BY <1>b
  <2>3. listing \in Pages
    BY DEF Pages
  <2> QED
    BY <2>1, <2>2, <2>3 DEF Typed
\* A request moves on, keeping what it asks for.
<1>r. ASSUME Typed, NEW c \in Callers, NEW q \in Request, Sound(q), req' = [req EXCEPT ![c] = q]
      PROVE  req' \in [Callers -> Request] /\ \A d \in Callers : Sound(req'[d])
  BY <1>r DEF Typed
<1>e. ASSUME Typed, NEW c \in Callers, End(c)
      PROVE  req' \in [Callers -> Request] /\ \A d \in Callers : Sound(req'[d])
  BY <1>e, <1>r, <1>b DEF End
<1>f. ASSUME Typed, NEW c \in Callers, NEW e \in Entries, Finish(c, e)
      PROVE  /\ req' \in [Callers -> Request] /\ \A d \in Callers : Sound(req'[d])
             /\ trail' \in Seq(Entries)
  <2>1. trail' \in Seq(Entries)
    BY <1>f DEF Typed, Finish
  <2> QED
    BY <1>e, <1>f, <2>1 DEF Finish
<1>t. ASSUME Typed, NEW u \in Users, NEW row, row.born \in Nat, row.active \in BOOLEAN,
             users' = [users EXCEPT ![u] = row] \/ Insert(u, row)
      PROVE  Table(users')
  BY <1>t DEF Typed, Table, Insert, Rows
<1>l. ASSUME Typed, NEW c \in Callers, NEW u \in Users, TakeRow(c, u) \/ FreeRow(c)
      PROVE  lock' \in [Users -> Callers \cup {Nobody}]
  BY <1>l DEF Typed, TakeRow, FreeRow
<1>n. ASSUME Typed, [Next]_vars PROVE Typed'
  <2> USE <1>n
  <2>s. ASSUME NEW c \in Callers, NEW q \in Requests, NEW presented \in Tokens \cup {Forged, NoToken},
               Arrive(c, q, presented)
        PROVE  Typed'
    <3> DEFINE new == [Idle EXCEPT !.pc = "token", !.kind = q.kind, !.user = q.user,
                                   !.patch = q.patch, !.by = presented]
    <3>1. new \in Request /\ Sound(new)
      BY <1>p, <1>b DEF Request, Sound, Pcs, Presented
    <3>2. req' = req \/ req' = [req EXCEPT ![c] = new]
      BY <2>s DEF Arrive
    <3> HIDE DEF new
    <3>3. req' \in [Callers -> Request] /\ \A d \in Callers : Sound(req'[d])
      BY <1>r, <3>1, <3>2 DEF Typed
    <3> QED
      BY <2>s, <3>3 DEF Arrive, rowVars, Typed
  <2>a. ASSUME NEW c \in Callers, Authenticate(c) PROVE Typed'
    <3> DEFINE new == [req[c] EXCEPT !.pc = req[c].kind]
    <3>1. ASSUME Goto(c, req[c].kind) PROVE new \in Request /\ Sound(new) /\ req' = [req EXCEPT ![c] = new]
      BY <2>a, <3>1 DEF Typed, Authenticate, Goto, Request, Sound, Pcs
    <3> HIDE DEF new
    <3>2. req' \in [Callers -> Request] /\ \A d \in Callers : Sound(req'[d])
      BY <2>a, <3>1, <1>r, <1>e DEF Authenticate
    <3> QED
      BY <2>a, <3>2 DEF Authenticate, rowVars, Typed
  <2>l. ASSUME NEW c \in Callers, List(c) PROVE Typed'
    <3>1. Page(1) \subseteq Users /\ Page(listing.next) \subseteq Users /\ Rows \subseteq Users
      BY DEF Page, Rows, Typed, Table
    <3>2. \A f \in {1, listing.next} : f + Cardinality(Page(f)) \in Nat
      <4>1. \A f \in {1, listing.next} : f \in Nat /\ Cardinality(Page(f)) \in Nat
        BY <3>1, FS_Subset, FS_CardinalityType, DirectoryAssumption DEF Typed, Pages
      <4> QED
        BY <4>1
    <3>3. listing' \in Pages
      BY <2>l, <3>1, <3>2 DEF List, Typed, Pages
    <3>4. Entry(Nobody, "listed", Absent) \in Entries
      BY DEF Entry, Entries, Subjects, Actions
    <3> QED
      BY <2>l, <3>3, <3>4, <1>f DEF List, Typed
  <2>g. ASSUME NEW c \in Callers, Read(c) PROVE Typed'
    <3>1. Entry(Nobody, "read", Absent) \in Entries
      BY DEF Entry, Entries, Subjects, Actions
    <3> QED
      BY <2>g, <3>1, <1>f DEF Read, Typed
  <2>j. ASSUME NEW c \in Callers, Reject(c) PROVE Typed'
    BY <2>j, <1>e DEF Reject, Typed, rowVars
  <2>b. ASSUME NEW c \in Callers, BeginCreate(c) PROVE Typed'
    <3> DEFINE new == [req[c] EXCEPT !.pc = "insert", !.born = clock + 1]
    <3>1. new \in Request /\ Sound(new)
      <4>1. /\ req[c] \in Request /\ clock + 1 \in Nat
            /\ req[c].kind = "create" /\ req[c].patch.active \notin {Odd, Absent}
        BY <2>b DEF BeginCreate, Typed, Sound, Faulty
      <4>2. new \in Request
        BY <4>1 DEF Request, Pcs
      <4>3. /\ new.pc = "insert" /\ new.kind = "create" /\ new.patch = req[c].patch
            /\ new.user = req[c].user
        BY <4>1 DEF Request
      <4> HIDE DEF new
      <4> QED
        BY <4>1, <4>2, <4>3 DEF Sound
    <3>2. req' = [req EXCEPT ![c] = new] /\ clock' \in Nat
      <4>1. req' = [req EXCEPT ![c].pc = "insert", ![c].born = clock + 1] /\ req \in [Callers -> Request]
        BY <2>b DEF BeginCreate, Typed
      <4>2. clock' \in Nat
        BY <2>b DEF BeginCreate, Typed
      <4> QED
        BY <4>1, <4>2
    <3> HIDE DEF new
    <3>3. req' \in [Callers -> Request] /\ \A d \in Callers : Sound(req'[d])
      BY <3>1, <3>2, <1>r
    <3> QED
      BY <2>b, <3>2, <3>3 DEF BeginCreate, Typed
  <2>c. ASSUME NEW c \in Callers, Create(c) PROVE Typed'
    <3> DEFINE patch == req[c].patch
    <3>1. patch.active \in BOOLEAN /\ req[c].born \in Nat
      BY <2>c DEF Create, Typed, Request, Sound, Patch, Actives
    <3>2. CASE End(c) /\ UNCHANGED <<users, trail>>
      BY <2>c, <3>2, <1>e DEF Create, Typed
    <3>3. CASE \E u \in Free :
                 /\ Insert(u, Row(patch.address, patch.active, req[c].born))
                 /\ Finish(c, Entry(u, "created", patch.active))
      <4>1. PICK u \in Free : /\ Insert(u, Row(patch.address, patch.active, req[c].born))
                              /\ Finish(c, Entry(u, "created", patch.active))
        BY <3>3
      <4> HIDE DEF patch
      <4>2. Entry(u, "created", patch.active) \in Entries /\ u \in Users
        BY <3>1, <4>1 DEF Entry, Entries, Subjects, Actions, Free
      <4>3. Table(users')
        BY <3>1, <4>1, <4>2, <1>t DEF Row
      <4> QED
        BY <2>c, <4>1, <4>2, <4>3, <1>f DEF Create, Typed
    <3> QED
      BY <2>c, <3>2, <3>3 DEF Create
  <2>u. ASSUME NEW c \in Callers, ReadUser(c) PROVE Typed'
    <3>1. CASE End(c) /\ UNCHANGED lock
      BY <2>u, <3>1, <1>e DEF ReadUser, Typed
    <3>2. CASE req[c].user \in Rows /\ TakeRow(c, req[c].user)
      <4> DEFINE new == [req[c] EXCEPT !.pc = "update", !.was = users[req[c].user].active]
      <4>1. req' = [req EXCEPT ![c] = new]
        BY <2>u, <3>2 DEF ReadUser, Typed
      <4>2. new \in Request /\ Sound(new)
        BY <2>u, <3>2 DEF ReadUser, Typed, Table, Rows, Request, Sound, Pcs, Faulty
      <4>3. req[c].user \in Users
        BY <3>2 DEF Typed, Table, Rows
      <4> HIDE DEF new
      <4> QED
        BY <2>u, <3>2, <4>1, <4>2, <4>3, <1>r, <1>l DEF ReadUser, Typed
    <3> QED
      BY <2>u, <3>1, <3>2 DEF ReadUser
  <2>w. ASSUME NEW c \in Callers, Update(c) PROVE Typed'
    <3> DEFINE u == req[c].user
               patch == req[c].patch
    <3>1. u \in Users /\ patch.active \in BOOLEAN \cup {Absent}
      BY <2>w DEF Update, Typed, Request, Sound, Patch, Actives
    <3>2. CASE End(c) /\ UNCHANGED <<users, trail>>
      BY <2>w, <3>1, <3>2, <1>e, <1>l DEF Update, Typed
    <3>3. CASE Finish(c, Entry(u, Action(patch, req[c].was), Absent))
      <4>1. Entry(u, Action(patch, req[c].was), Absent) \in Entries
        BY <3>1 DEF Entry, Entries, Subjects, Actions, Action
      <4>2. Table(users')
        <5> DEFINE kept(value, old) == IF value = Absent THEN old ELSE value
                   row == Row(kept(patch.address, users[u].address),
                              kept(patch.active, users[u].active), users[u].born)
        <5>1. users' = [users EXCEPT ![u] = row] \/ UNCHANGED users
          BY <2>w DEF Update
        <5>2. u \in DOMAIN users => row.born \in Nat /\ row.active \in BOOLEAN
          BY <3>1 DEF Typed, Table, Row
        <5> HIDE DEF u, row
        <5>3. CASE u \in DOMAIN users
          BY <3>1, <5>1, <5>2, <5>3, <1>t DEF Typed
        <5>4. CASE u \notin DOMAIN users
          BY <5>1, <5>4 DEF Typed, Table
        <5> QED
          BY <5>3, <5>4
      <4> HIDE DEF u, patch
      <4> QED
        BY <2>w, <3>1, <3>3, <4>1, <4>2, <1>f, <1>l DEF Update, Typed
    <3> QED
      BY <2>w, <3>2, <3>3 DEF Update
  <2>f. ASSUME NEW c \in Callers, Fail(c) PROVE Typed'
    <3>1. lock' \in [Users -> Callers \cup {Nobody}]
      BY <2>f DEF Fail, FreeRow, Typed
    <3> QED
      BY <2>f, <3>1, <1>e DEF Fail, Typed
  <2>v. ASSUME NEW address \in Addresses, BeginSignIn(address) PROVE Typed'
    BY <2>v DEF BeginSignIn, Typed, SignIns
  <2>i. ASSUME SignIn PROVE Typed'
    <3>1. CASE UNCHANGED users
      BY <2>i, <3>1 DEF SignIn, Typed
    <3>2. ASSUME NEW u \in Free, Insert(u, Row(signIn.address, TRUE, signIn.born)) PROVE Typed'
      <4>1. u \in Users /\ signIn.born \in Nat
        BY <2>i DEF SignIn, Typed, SignIns, Free
      <4>2. Table(users')
        <5> DEFINE row == Row(signIn.address, TRUE, signIn.born)
        <5>1. row.born \in Nat /\ row.active \in BOOLEAN
          BY <4>1 DEF Row
        <5>2. Insert(u, row)
          BY <3>2
        <5> HIDE DEF row
        <5> QED
          BY <4>1, <5>1, <5>2, <1>t
      <4> QED
        BY <2>i, <4>2 DEF SignIn, Typed
    <3> QED
      BY <2>i, <3>1, <3>2 DEF SignIn
  <2>o. ASSUME Operate \/ Lapse \/ UNCHANGED vars PROVE Typed'
    BY <2>o DEF Operate, Issue, EndTokens, SetStatus, Lapse, LapseFailures, LapseSpent, vars,
       rowVars, Typed
  <2> QED
    BY <2>s, <2>a, <2>l, <2>g, <2>j, <2>b, <2>c, <2>u, <2>w, <2>f, <2>v, <2>i, <2>o
    DEF Next, Send, Handle
<1> QED
  BY <1>i, <1>n, PTL DEF Spec

-----------------------------------------------------------------------------
(* Lookups in progress: what they may still fail is within the bound.        *)
Waiting == {c \in Callers : req[c].pc = "token"}
Attempts ==
    /\ failures \in Nat /\ probes = failures
    /\ failures + Cardinality(Waiting) <= FailureLimit + Cardinality(Callers)

(* However many tokens are made up, and however the answers of their lookups *)
(* interleave, an address has no more of them fail in a window than its      *)
(* ceiling and one for each caller that was already past it.                 *)
THEOREM ProbesStayBounded == Spec => []ProbesAreBounded
<1>c. \A S \in SUBSET Callers : IsFiniteSet(S) /\ Cardinality(S) \in Nat
                                /\ Cardinality(S) <= Cardinality(Callers)
  BY DirectoryAssumption, FS_Subset, FS_CardinalityType
<1>l. FailureLimit \in Nat /\ Cardinality(Callers) \in Nat
  BY <1>c, DirectoryAssumption
<1>i. Init => Attempts
  <2>1. Init => Waiting = {} /\ failures = 0 /\ probes = 0
    BY DEF Init, Waiting, Idle
  <2> QED
    BY <1>l, <2>1, FS_EmptySet DEF Attempts
<1>w. ASSUME Attempts, Waiting' \subseteq Waiting, failures' \in 0..failures,
             UNCHANGED <<failures, probes>> \/ (failures' = 0 /\ probes' = 0)
      PROVE  Attempts'
  <2>1. Waiting \in SUBSET Callers /\ Waiting' \in SUBSET Waiting
    BY <1>w DEF Waiting
  <2>2. Cardinality(Waiting') <= Cardinality(Waiting) /\ Cardinality(Waiting') \in Nat
        /\ Cardinality(Waiting) \in Nat
    BY <1>c, <2>1, FS_Subset, FS_CardinalityType
  <2> QED
    BY <1>w, <1>l, <2>2 DEF Attempts
<1>e. ASSUME NEW c \in Callers, Typed, End(c)
      PROVE  Waiting' = Waiting \ {c}
  BY <1>e DEF End, Idle, Typed, Waiting
<1>s. ASSUME Typed, Attempts, NEW c \in Callers, Send(c) PROVE Attempts'
  <2>1. PICK q \in Requests, presented \in Tokens \cup {Forged, NoToken} : Arrive(c, q, presented)
    BY <1>s DEF Send
  <2>2. UNCHANGED <<failures, probes>> /\ (FailedTooOften => req' = req)
    BY <2>1 DEF Arrive
  <2>3. CASE failures > FailureLimit
    BY <1>s, <1>w, <2>2, <2>3 DEF Waiting, FailedTooOften, Attempts
  <2>4. CASE ~(failures > FailureLimit)
    <3>1. Waiting' \in SUBSET Callers
      BY DEF Waiting
    <3>2. Cardinality(Waiting') \in Nat /\ Cardinality(Waiting') <= Cardinality(Callers)
      BY <1>c, <3>1
    <3> QED
      BY <1>s, <1>l, <2>2, <2>4, <3>2 DEF Attempts
  <2> QED
    BY <2>3, <2>4
<1>a. ASSUME Typed, Attempts, NEW c \in Callers, Authenticate(c) PROVE Attempts'
  <2>1. CASE Goto(c, req[c].kind) /\ UNCHANGED <<failures, probes>>
    <3>1. req[c].kind # "token"
      BY <1>a DEF Typed, Request
    <3>2. Waiting' \subseteq Waiting
      BY <1>a, <2>1, <3>1 DEF Goto, Typed, Request, Waiting
    <3>3. failures' \in 0..failures
      BY <1>a, <2>1 DEF Attempts
    <3> QED
      BY <1>a, <1>w, <2>1, <3>2, <3>3
  <2>2. CASE Failed(req[c].by) /\ probes' = probes + 1 /\ End(c)
    <3>1. Waiting' = Waiting \ {c} /\ c \in Waiting /\ Waiting \in SUBSET Callers
      BY <1>a, <1>e, <2>2 DEF Authenticate, Waiting
    <3>2. Cardinality(Waiting') = Cardinality(Waiting) - 1 /\ Cardinality(Waiting) \in Nat
          /\ Cardinality(Waiting') \in Nat
      BY <1>c, <3>1, FS_RemoveElement, FS_CardinalityType
    <3> QED
      BY <1>a, <1>l, <2>2, <3>2 DEF Attempts, Failed
  <2> QED
    BY <1>a, <2>1, <2>2 DEF Authenticate
<1>h. ASSUME Typed, Attempts, NEW c \in Callers, Handle(c), ~Authenticate(c) PROVE Attempts'
  <2>1. UNCHANGED <<failures, probes>>
    BY <1>h DEF Handle, List, Read, Reject, BeginCreate, Create, ReadUser, Update, Fail, gateVars
  <2>2. \/ End(c)
        \/ req' = [req EXCEPT ![c].pc = "insert", ![c].born = clock + 1]
        \/ req' = [req EXCEPT ![c].pc = "update", ![c].was = users[req[c].user].active]
    BY <1>h DEF Handle, List, Read, Reject, BeginCreate, Create, ReadUser, Update, Fail, Finish
  <2>3. Waiting' \subseteq Waiting
    <3>1. CASE End(c)
      BY <1>e, <1>h, <3>1
    <3>2. CASE req' = [req EXCEPT ![c].pc = "insert", ![c].born = clock + 1]
      BY <1>h, <3>2 DEF Typed, Request, Waiting
    <3>3. CASE req' = [req EXCEPT ![c].pc = "update", ![c].was = users[req[c].user].active]
      BY <1>h, <3>3 DEF Typed, Request, Waiting
    <3> QED
      BY <2>2, <3>1, <3>2, <3>3
  <2>4. failures' \in 0..failures
    BY <1>h, <2>1 DEF Attempts
  <2> QED
    BY <1>h, <1>w, <2>1, <2>3, <2>4
<1>o. ASSUME Typed, Attempts,
             \/ \E address \in Addresses : BeginSignIn(address)
             \/ SignIn \/ Operate \/ Lapse \/ UNCHANGED vars
      PROVE  Attempts'
  <2>1. req' = req /\ (UNCHANGED <<failures, probes>> \/ (failures' = 0 /\ probes' = 0))
    <3>1. CASE \/ \E address \in Addresses : BeginSignIn(address)
               \/ SignIn \/ UNCHANGED vars
      BY <3>1 DEF BeginSignIn, SignIn, vars, gateVars
    <3>2. CASE Operate
      BY <3>2 DEF Operate, Issue, EndTokens, SetStatus
    <3>3. CASE Lapse
      BY <3>3 DEF Lapse, LapseFailures, LapseSpent
    <3> QED
      BY <1>o, <3>1, <3>2, <3>3
  <2>2. Waiting' = Waiting
    BY <2>1 DEF Waiting
  <2>3. failures' \in 0..failures
    BY <1>o, <2>1 DEF Attempts
  <2> QED
    BY <1>o, <1>w, <2>1, <2>2, <2>3
<1>n. Typed /\ Attempts /\ [Next]_vars => Attempts'
  BY <1>s, <1>a, <1>h, <1>o DEF Next
<1>p. Attempts => ProbesAreBounded
  <2>1. Waiting \in SUBSET Callers
    BY DEF Waiting
  <2>2. Cardinality(Waiting) \in Nat
    BY <1>c, <2>1
  <2> QED
    BY <1>l, <2>2 DEF Attempts, ProbesAreBounded
<1> QED
  BY <1>i, <1>n, <1>p, TypesAlways, PTL DEF Spec

-----------------------------------------------------------------------------
(* Who was there when a reading of the list began and has not been read is   *)
(* still to come.                                                            *)
Pending ==
    /\ listing.due \subseteq Rows
    /\ listing.done => listing.due \subseteq listing.seen
    /\ ~listing.done => \A u \in listing.due \ listing.seen : Place(u) >= listing.next

(* A directory that asks for one page after another until it has been told   *)
(* there are no more has read everybody there was when it began: rows are    *)
(* never taken out, and a new one can only move others to a later place.     *)
THEOREM ListingIsComplete == Spec => []EveryoneIsListed
<1>f. ASSUME Typed, NEW S \in SUBSET Rows
      PROVE  IsFiniteSet(S) /\ Cardinality(S) \in Nat /\ Cardinality(S) <= Cardinality(Rows)
             /\ (Cardinality(S) = Cardinality(Rows) => S = Rows)
  <2>1. IsFiniteSet(Rows)
    BY <1>f, DirectoryAssumption, FS_Subset DEF Typed, Table, Rows
  <2> QED
    BY <2>1, FS_Subset, FS_CardinalityType
<1>p. ASSUME Typed, NEW u \in Rows
      PROVE  Place(u) \in 1..Cardinality(Rows)
  <2> DEFINE B == {v \in Rows : Before(v, u)}
  <2>1. B \in SUBSET Rows /\ u \notin B
    <3>1. u \in Nat /\ users[u].born \in Nat
      BY <1>p, DirectoryAssumption DEF Typed, Table, Rows
    <3> QED
      BY <3>1 DEF Before
  <2> HIDE DEF B
  <2>2. /\ Cardinality(B) \in Nat /\ Cardinality(Rows) \in Nat /\ Cardinality(B) <= Cardinality(Rows)
        /\ Cardinality(B) # Cardinality(Rows)
    BY <1>p, <1>f, <2>1
  <2>3. Place(u) = 1 + Cardinality(B)
    BY DEF Place, B
  <2> QED
    BY <2>2, <2>3
<1>o. ASSUME Typed, NEW u \in Rows, NEW v \in Rows, Before(u, v)
      PROVE  Place(u) < Place(v)
  <2> DEFINE B(x) == {w \in Rows : Before(w, x)}
  <2>1. \A w \in Rows : w \in Nat /\ users[w].born \in Nat
    BY <1>o, DirectoryAssumption DEF Typed, Table, Rows
  <2>2. B(u) \in SUBSET B(v) /\ u \in B(v) /\ u \notin B(u) /\ B(v) \in SUBSET Rows
    BY <1>o, <2>1 DEF Before
  <2> HIDE DEF B
  <2>3. /\ IsFiniteSet(B(v)) /\ Cardinality(B(v)) \in Nat /\ Cardinality(B(u)) \in Nat
        /\ Cardinality(B(u)) <= Cardinality(B(v)) /\ Cardinality(B(u)) # Cardinality(B(v))
    BY <1>f, <1>o, <2>2, FS_Subset, FS_CardinalityType
  <2>4. Place(u) = 1 + Cardinality(B(u)) /\ Place(v) = 1 + Cardinality(B(v))
    BY DEF Place, B
  <2> QED
    BY <2>3, <2>4
<1>g. ASSUME Typed, NEW from \in Nat
      PROVE  Cardinality(Page(from)) \in 0..PageSize
  <2> DEFINE T == from..(from + PageSize - 1)
             place == [u \in Page(from) |-> Place(u)]
  <2>1. Page(from) \in SUBSET Rows
    BY DEF Page
  <2>2. IsFiniteSet(T) /\ Cardinality(T) = PageSize
    <3>1. from \in Int /\ from + PageSize - 1 \in Int /\ PageSize \in Nat
      BY DirectoryAssumption
    <3>2. IsFiniteSet(T) /\ Cardinality(T) = IF from > from + PageSize - 1 THEN 0
                                             ELSE (from + PageSize - 1) - from + 1
      BY <3>1, FS_Interval
    <3> QED
      BY <3>1, <3>2
  <2>3. ASSUME NEW u \in Page(from), NEW v \in Page(from), u # v PROVE Place(u) # Place(v)
    <3>1. u \in Rows /\ v \in Rows
      BY <2>1
    <3>2. Before(u, v) \/ Before(v, u)
      BY <1>g, <2>3, <3>1, DirectoryAssumption DEF Before, Typed, Table, Rows
    <3>3. Place(u) \in Int /\ Place(v) \in Int
      BY <1>g, <1>p, <3>1
    <3> QED
      BY <1>g, <1>o, <3>1, <3>2, <3>3
  <2>4. place \in Injection(Page(from), T)
    BY <2>3 DEF Injection, IsInjective, Page
  <2>5. Cardinality(Page(from)) <= Cardinality(T)
    <3> HIDE DEF T, place
    <3> QED
      BY <2>2, <2>4, FS_Injection
  <2>6. Cardinality(Page(from)) \in Nat
    BY <1>f, <1>g, <2>1
  <2> QED
    BY <2>2, <2>5, <2>6, DirectoryAssumption
<1>i. Init => Pending
  BY DEF Init, Pending
\* New rows, and changes that leave every row its age, only move others back.
<1>m. ASSUME Typed, Typed', Pending, Rows \subseteq Rows', UNCHANGED listing,
             \A u \in Rows : users'[u].born = users[u].born
      PROVE  Pending'
  <2>1. ASSUME NEW u \in Rows
        PROVE  Place(u)' >= Place(u) /\ Place(u) \in Nat /\ Place(u)' \in Nat
    <3> DEFINE B == {v \in Rows : Before(v, u)}
               C == {v \in Rows' : Before(v, u)'}
    <3>1. B \in SUBSET C
      BY <1>m, <2>1 DEF Before
    <3>2. IsFiniteSet(C)
      <4>1. Rows' \in SUBSET Users /\ C \in SUBSET Rows'
        BY <1>m DEF Typed, Table, Rows
      <4> HIDE DEF C
      <4> QED
        BY <4>1, DirectoryAssumption, FS_Subset
    <3>3. Place(u) = 1 + Cardinality(B) /\ Place(u)' = 1 + Cardinality(C)
      BY DEF Place
    <3> HIDE DEF B, C
    <3>4. Cardinality(B) <= Cardinality(C) /\ Cardinality(B) \in Nat /\ Cardinality(C) \in Nat
      BY <3>1, <3>2, FS_Subset, FS_CardinalityType
    <3> QED
      BY <3>3, <3>4
  <2>2. ASSUME ~listing.done, NEW u \in listing.due \ listing.seen PROVE Place(u)' >= listing.next
    <3>1. u \in Rows /\ Place(u) >= listing.next
      BY <1>m, <2>2 DEF Pending
    <3>2. listing.next \in Nat
      BY <1>m DEF Typed, Pages
    <3> QED
      BY <2>1, <3>1, <3>2
  <2> QED
    BY <1>m, <2>2 DEF Pending
<1>l. ASSUME Typed, Pending, NEW c \in Callers, List(c) PROVE Pending'
  <2> DEFINE from == IF listing.done THEN 1 ELSE listing.next
             size == Cardinality(Page(from))
             read == Page(from) \cup (IF from = 1 THEN {} ELSE listing.seen)
             due == IF from = 1 THEN Rows ELSE listing.due
  <2>1. from \in Nat /\ size \in 0..PageSize /\ Cardinality(Rows) \in Nat
    BY <1>f, <1>g, <1>l DEF Typed, Pages
  <2>2. /\ listing'.next = from + size /\ listing'.seen = read
        /\ listing'.due = due /\ listing'.done = (from + size > Cardinality(Rows))
        /\ Rows' = Rows /\ users' = users
    BY <1>l DEF List, Rows
  <2>3. due \subseteq Rows
    BY <1>l DEF Pending
  <2>4. ASSUME NEW u \in due \ read
        PROVE  Place(u) \in Nat /\ Place(u) >= from + size /\ Place(u) <= Cardinality(Rows)
    <3>1. u \in Rows /\ u \notin Page(from) /\ Place(u) \in 1..Cardinality(Rows)
      BY <1>l, <1>p, <2>3, <2>4
    <3>2. Place(u) >= from
      BY <1>l, <2>4, <3>1 DEF Pending
    <3>3. Place(u) \notin from..(from + PageSize - 1)
      BY <3>1 DEF Page
    <3> HIDE DEF from, size
    <3> QED
      BY <2>1, <3>1, <3>2, <3>3, DirectoryAssumption
  <2>5. \A u : Place(u)' = Place(u)
    BY <2>2 DEF Place, Before
  <2> HIDE DEF from, size, read, due
  <2>6. listing'.due \subseteq Rows'
    BY <2>2, <2>3
  <2>7. listing'.done => listing'.due \subseteq listing'.seen
    <3>1. ASSUME from + size > Cardinality(Rows), NEW u \in due PROVE u \in read
      BY <2>1, <2>4, <3>1
    <3> QED
      BY <2>2, <3>1
  <2>8. \A u \in listing'.due \ listing'.seen : Place(u)' >= listing'.next
    BY <2>2, <2>4, <2>5
  <2> QED
    BY <2>6, <2>7, <2>8 DEF Pending
<1>n. Typed /\ Typed' /\ Pending /\ [Next]_vars => Pending'
  <2> SUFFICES ASSUME Typed, Typed', Pending, [Next]_vars PROVE Pending'
    OBVIOUS
  <2>1. ASSUME NEW c \in Callers, Send(c) \/ Handle(c), ~List(c), ~Create(c), ~Update(c)
        PROVE  UNCHANGED <<users, listing>>
    BY <2>1 DEF Send, Arrive, Handle, Authenticate, Read, Reject, BeginCreate, ReadUser, Fail, rowVars
  <2>2. ASSUME Operate \/ Lapse \/ UNCHANGED vars \/ \E address \in Addresses : BeginSignIn(address)
        PROVE  UNCHANGED <<users, listing>>
    BY <2>2 DEF Operate, Issue, EndTokens, SetStatus, Lapse, LapseFailures, LapseSpent, vars,
       rowVars, BeginSignIn
  <2>3. ASSUME UNCHANGED <<users, listing>> PROVE Pending'
    BY <2>3, <1>m DEF Rows
  <2>4. ASSUME NEW u \in Free, NEW row, Insert(u, row), UNCHANGED listing PROVE Pending'
    <3>1. Rows \subseteq Rows' /\ \A v \in Rows : users'[v] = users[v]
      BY <2>4 DEF Insert, Rows, Free
    <3> QED
      BY <1>m, <2>4, <3>1
  <2>5. ASSUME NEW c \in Callers, Create(c) PROVE Pending'
    BY <2>3, <2>4, <2>5 DEF Create
  <2>6. ASSUME SignIn PROVE Pending'
    BY <2>3, <2>4, <2>6 DEF SignIn
  <2>7. ASSUME NEW c \in Callers, Update(c) PROVE Pending'
    <3>1. Rows' = Rows /\ UNCHANGED listing
      BY <2>7 DEF Update, Rows
    <3>2. \A v \in Rows : users'[v].born = users[v].born
      BY <2>7 DEF Update, Rows, Row
    <3> QED
      BY <1>m, <3>1, <3>2
  <2> QED
    BY <1>l, <2>1, <2>2, <2>3, <2>5, <2>6, <2>7 DEF Next
<1> QED
  BY <1>i, <1>n, TypesAlways, PTL DEF Spec, Pending, EveryoneIsListed

-----------------------------------------------------------------------------
(* What the trail says of an account is so: the last entry that mentions it. *)
ToldRight(u) ==
    \/ Mentions(u) = {} /\ users[u].active = TRUE
    \/ \E i \in Mentions(u) :
          (\A j \in Mentions(u) : j <= i) /\ Said(trail[i]) = users[u].active

(* A request about to write has the row, and it is as the request read it.   *)
Holds(c) ==
    req[c].pc = "update" =>
        /\ req[c].user \in Rows
        /\ lock[req[c].user] = c
        /\ users[req[c].user].active = req[c].was

Trailed ==
    /\ \A i \in DOMAIN trail : Tells(trail[i]) => trail[i].subject \in Rows
    /\ \A u \in Rows : ToldRight(u)
    /\ \A c \in Callers : Holds(c)

(* Whoever reads the trail from its first entry to its last knows who is in: *)
(* a readmission is written down as one however requests about one person    *)
(* race, because the row is locked from the read its entry is named after.   *)
THEOREM TrailIsTrue == Spec => []TrailTellsWhoIsIn
<1>i. ASSUME Init PROVE Trailed
  <2>1. /\ DOMAIN trail = {} /\ \A u \in Rows : users[u].active = TRUE
        /\ \A c \in Callers : req[c].pc = "idle"
    BY <1>i DEF Init, Rows, Row, Idle
  <2> QED
    BY <2>1 DEF Trailed, ToldRight, Mentions, Holds
<1>a. ASSUME Typed, NEW e \in Entries, trail' = Append(trail, e)
      PROVE  /\ DOMAIN trail' = 1..(Len(trail) + 1) /\ DOMAIN trail = 1..Len(trail)
             /\ Len(trail) \in Nat /\ trail'[Len(trail) + 1] = e
             /\ \A i \in DOMAIN trail : trail'[i] = trail[i]
  BY <1>a DEF Typed
<1>m. ASSUME Typed, NEW e \in Entries, trail' = Append(trail, e), NEW u
      PROVE  Mentions(u)' = Mentions(u) \cup (IF e.subject = u /\ Tells(e) THEN {Len(trail) + 1} ELSE {})
  BY <1>a, <1>m DEF Mentions, Tells
\* An entry that does not tell of u leaves what is known of u as it was.
<1>k. ASSUME Typed, NEW u, ToldRight(u), users'[u].active = users[u].active,
             \/ trail' = trail
             \/ \E e \in Entries : trail' = Append(trail, e) /\ ~(e.subject = u /\ Tells(e))
      PROVE  ToldRight(u)'
  <2>1. Mentions(u)' = Mentions(u) /\ \A i \in Mentions(u) : trail'[i] = trail[i]
    <3>1. CASE trail' = trail
      BY <3>1 DEF Mentions
    <3>2. ASSUME NEW e \in Entries, trail' = Append(trail, e), ~(e.subject = u /\ Tells(e))
          PROVE  Mentions(u)' = Mentions(u) /\ \A i \in Mentions(u) : trail'[i] = trail[i]
      <4>1. Mentions(u)' = Mentions(u)
        BY <1>k, <1>m, <3>2
      <4> QED
        BY <1>k, <1>a, <3>2, <4>1 DEF Mentions
    <3> QED
      BY <1>k, <3>1, <3>2
  <2> QED
    BY <1>k, <2>1 DEF ToldRight, Said
\* One that does says how it is now.
<1>w. ASSUME Typed, NEW e \in Entries, trail' = Append(trail, e), Tells(e),
             Said(e) = users'[e.subject].active
      PROVE  ToldRight(e.subject)'
  <2>0. PICK n : n = Len(trail) + 1
    OBVIOUS
  <2>1. Mentions(e.subject)' = Mentions(e.subject) \cup {n}
    BY <1>m, <1>w, <2>0
  <2>2. Mentions(e.subject) \subseteq 1..Len(trail) /\ Len(trail) \in Nat /\ trail'[n] = e
    BY <1>a, <1>w, <2>0 DEF Mentions
  <2>3. n \in Mentions(e.subject)' /\ \A j \in Mentions(e.subject)' : j <= n
    BY <2>0, <2>1, <2>2
  <2>4. Said(trail[n])' = Said(e)
    BY <2>2 DEF Said
  <2> QED
    BY <1>w, <2>3, <2>4 DEF ToldRight
<1>s. ASSUME Typed, Trailed, NEW e \in Entries, trail' = Append(trail, e) \/ trail' = trail,
             Rows \subseteq Rows', Tells(e) => e.subject \in Rows'
      PROVE  \A i \in DOMAIN trail' : Tells(trail'[i]) => trail'[i].subject \in Rows'
  BY <1>a, <1>s DEF Trailed
<1>h. ASSUME NEW d \in Callers, Holds(d), Rows \subseteq Rows', req'[d] = req[d],
             req[d].pc = "update" => UNCHANGED <<lock[req[d].user], users[req[d].user].active>>
      PROVE  Holds(d)'
  BY <1>h DEF Holds
\* Only one request changes, and it does not go to the tables.
<1>o. ASSUME Typed, Trailed, NEW c \in Callers, UNCHANGED <<users, lock>>,
             \A d \in Callers \ {c} : req'[d] = req[d], req'[c].pc # "update",
             NEW e \in Entries, trail' = Append(trail, e) \/ trail' = trail, ~Tells(e)
      PROVE  Trailed'
  <2>1. Rows' = Rows
    BY <1>o DEF Rows
  <2>2. \A u \in Rows' : ToldRight(u)'
    BY <1>k, <1>o, <2>1 DEF Trailed
  <2>3. \A d \in Callers : Holds(d)'
    BY <1>h, <1>o, <2>1 DEF Trailed, Holds
  <2>4. \A i \in DOMAIN trail' : Tells(trail'[i]) => trail'[i].subject \in Rows'
    BY <1>o, <1>s, <2>1
  <2> QED
    BY <2>2, <2>3, <2>4 DEF Trailed
\* A new row, opened by an entry of its own or never mentioned before.
<1>c. ASSUME Typed, Trailed, NEW u \in Free, NEW row, Insert(u, row), UNCHANGED lock,
             \A d \in Callers : req'[d] = req[d] \/ req'[d].pc # "update",
             \/ trail' = trail /\ row.active = TRUE
             \/ \E e \in Entries : trail' = Append(trail, e) /\ Tells(e) /\ e.subject = u
                                   /\ Said(e) = row.active
      PROVE  Trailed'
  <2>1. /\ Rows' = Rows \cup {u} /\ u \notin Rows /\ users'[u] = row
        /\ \A v \in Rows : users'[v] = users[v] /\ v # u
    BY <1>c DEF Insert, Rows, Free
  <2>2. \A d \in Callers : Holds(d)'
    BY <1>c, <1>h, <2>1 DEF Trailed, Holds
  <2>3. CASE trail' = trail /\ row.active = TRUE
    <3>1. Mentions(u) = {} /\ \A v : Mentions(v)' = Mentions(v)
      BY <1>c, <2>1, <2>3 DEF Trailed, Mentions
    <3>2. ToldRight(u)'
      BY <2>1, <2>3, <3>1 DEF ToldRight
    <3>3. \A v \in Rows : ToldRight(v)'
      BY <1>c, <1>k, <2>1, <2>3 DEF Trailed
    <3> QED
      BY <1>c, <2>1, <2>2, <2>3, <3>2, <3>3 DEF Trailed
  <2>4. ASSUME NEW e \in Entries, trail' = Append(trail, e), Tells(e), e.subject = u,
               Said(e) = row.active
        PROVE  Trailed'
    <3>1. ToldRight(u)'
      BY <1>c, <1>w, <2>1, <2>4
    <3>2. \A v \in Rows : ToldRight(v)'
      BY <1>c, <1>k, <2>1, <2>4 DEF Trailed
    <3>3. \A i \in DOMAIN trail' : Tells(trail'[i]) => trail'[i].subject \in Rows'
      BY <1>c, <1>s, <2>1, <2>4
    <3> QED
      BY <2>1, <2>2, <3>1, <3>2, <3>3 DEF Trailed
  <2> QED
    BY <1>c, <2>3, <2>4
<1>r. ASSUME Typed, Trailed, NEW c \in Callers, Create(c) PROVE Trailed'
  <2> DEFINE patch == req[c].patch
  <2>1. patch.active \in BOOLEAN
    BY <1>r DEF Create, Typed, Request, Sound, Patch, Actives
  <2>2. CASE End(c) /\ UNCHANGED <<users, trail>>
    <3>1. Entry(Nobody, "read", Absent) \in Entries /\ ~Tells(Entry(Nobody, "read", Absent))
      BY DEF Entry, Entries, Subjects, Actions, Tells
    <3>2. \A d \in Callers \ {c} : req'[d] = req[d]
      BY <2>2 DEF End
    <3>3. req'[c].pc # "update"
      BY <1>r, <2>2 DEF End, Idle, Typed
    <3> QED
      BY <1>o, <1>r, <2>2, <3>1, <3>2, <3>3 DEF Create
  <2>3. ASSUME NEW u \in Free, Insert(u, Row(patch.address, patch.active, req[c].born)),
               Finish(c, Entry(u, "created", patch.active))
        PROVE  Trailed'
    <3> DEFINE e == Entry(u, "created", patch.active)
               row == Row(patch.address, patch.active, req[c].born)
    <3>1. e \in Entries /\ Tells(e) /\ e.subject = u /\ Said(e) = patch.active
      BY <2>1 DEF Entry, Entries, Subjects, Actions, Tells, Said, Free
    <3>2. row.active = patch.active
      BY DEF Row
    <3>3. /\ \A d \in Callers : req'[d] = req[d] \/ req'[d].pc # "update"
          /\ trail' = Append(trail, e) /\ Insert(u, row) /\ UNCHANGED lock
      BY <1>r, <2>3 DEF Finish, End, Idle, Typed, Create
    <3> HIDE DEF e, row, patch
    <3> QED
      BY <1>c, <1>r, <3>1, <3>2, <3>3
  <2> QED
    BY <1>r, <2>2, <2>3 DEF Create
<1>g. ASSUME Typed, Trailed, SignIn PROVE Trailed'
  <2>1. ASSUME NEW u \in Free, Insert(u, Row(signIn.address, TRUE, signIn.born)) PROVE Trailed'
    <3> DEFINE row == Row(signIn.address, TRUE, signIn.born)
    <3>1. row.active = TRUE /\ Insert(u, row) /\ UNCHANGED <<trail, lock, req>>
      BY <1>g, <2>1 DEF Row, SignIn
    <3> HIDE DEF row
    <3> QED
      BY <1>c, <1>g, <3>1
  <2>2. ASSUME UNCHANGED users PROVE Trailed'
    <3>1. UNCHANGED <<trail, lock, req>>
      BY <1>g DEF SignIn
    <3> QED
      BY <1>g, <2>2, <3>1 DEF Trailed, Holds, ToldRight, Mentions, Rows
  <2> QED
    BY <1>g, <2>1, <2>2 DEF SignIn
\* The row is read and locked together.
<1>u. ASSUME Typed, Trailed, NEW c \in Callers, ReadUser(c) PROVE Trailed'
  <2> DEFINE u == req[c].user
  <2>0. UNCHANGED <<users, trail>> /\ Rows' = Rows /\ \A d \in Callers \ {c} : req'[d] = req[d]
    <3>1. UNCHANGED <<users, trail>>
      BY <1>u DEF ReadUser
    <3>2. \A d \in Callers \ {c} : req'[d] = req[d]
      BY <1>u DEF ReadUser, End, Typed
    <3> QED
      BY <3>1, <3>2 DEF Rows
  <2>1. CASE End(c) /\ UNCHANGED lock
    <3>1. Entry(Nobody, "read", Absent) \in Entries /\ ~Tells(Entry(Nobody, "read", Absent))
      BY DEF Entry, Entries, Subjects, Actions, Tells
    <3>2. req'[c].pc # "update"
      BY <1>u, <2>1 DEF End, Idle, Typed
    <3> QED
      BY <1>o, <1>u, <2>0, <2>1, <3>1, <3>2
  <2>2. CASE u \in Rows /\ TakeRow(c, u)
            /\ req' = [req EXCEPT ![c].pc = "update", ![c].was = users[u].active]
    <3>1. u \in Users /\ lock[u] = Nobody /\ lock' = [lock EXCEPT ![u] = c]
      BY <1>u, <2>2 DEF Typed, Table, Rows, TakeRow
    <3>2. Holds(c)'
      BY <1>u, <2>0, <2>2, <3>1 DEF Holds, Typed, Request
    <3>3. ASSUME NEW d \in Callers \ {c} PROVE Holds(d)'
      <4>1. ASSUME req[d].pc = "update" PROVE lock'[req[d].user] = lock[req[d].user]
        <5>1. lock[req[d].user] = d /\ d # Nobody
          BY <1>u, <3>3, <4>1, DirectoryAssumption DEF Trailed, Holds
        <5> QED
          BY <1>u, <3>1, <5>1 DEF Typed
      <4> QED
        BY <1>u, <1>h, <2>0, <3>3, <4>1 DEF Trailed
    <3>4. \A v \in Rows' : ToldRight(v)'
      BY <1>u, <1>k, <2>0 DEF Trailed
    <3> QED
      BY <1>u, <2>0, <3>2, <3>3, <3>4 DEF Trailed
  <2> QED
    BY <1>u, <2>1, <2>2 DEF ReadUser
<1>d. ASSUME Typed, Trailed, NEW c \in Callers, FreeRow(c),
             NEW d \in Callers \ {c}, req[d].pc = "update"
      PROVE  /\ lock'[req[d].user] = lock[req[d].user]
             /\ req[c].pc = "update" => req[d].user # req[c].user
  BY <1>d, DirectoryAssumption DEF Trailed, Holds, FreeRow, Typed, Table, Rows
\* What a request asks for is what is recorded, and the row agrees.
<1>y. ASSUME Typed, Trailed, NEW c \in Callers, Update(c) PROVE Trailed'
  <2> DEFINE u == req[c].user
             patch == req[c].patch
             e == Entry(u, Action(patch, req[c].was), Absent)
  <2>1. /\ u \in Rows /\ u \in Users /\ users[u].active = req[c].was
        /\ users[u].active \in BOOLEAN /\ patch.active \in BOOLEAN \cup {Absent}
    BY <1>y DEF Update, Trailed, Holds, Typed, Table, Rows, Request, Sound, Patch, Actives
  <2>2. FreeRow(c) /\ End(c) /\ (trail' = Append(trail, e) \/ UNCHANGED <<users, trail>>)
    BY <1>y DEF Update, Finish
  <2>3. /\ Rows' = Rows /\ \A v \in Rows \ {u} : users'[v] = users[v]
        /\ trail' = Append(trail, e) =>
              users'[u].active = (IF patch.active = Absent THEN users[u].active ELSE patch.active)
    BY <1>y, <2>1 DEF Update, Rows, Row
  <2>4. /\ e \in Entries /\ e.subject = u
        /\ Tells(e) => Said(e) = (IF patch.active = Absent THEN users[u].active ELSE patch.active)
        /\ ~Tells(e) => users[u].active = (IF patch.active = Absent THEN users[u].active ELSE patch.active)
    <3>1. e = [subject |-> u, action |-> Action(patch, req[c].was), active |-> Absent]
      BY DEF Entry
    <3> DEFINE action == Action(patch, req[c].was)
    <3> HIDE DEF e, u, patch
    <3>2. \/ action = "deactivated" /\ patch.active = FALSE
          \/ action = "reactivated" /\ patch.active = TRUE
          \/ action = "updated" /\ (patch.active = Absent \/ patch.active = req[c].was)
      BY <2>1 DEF Action
    <3>3. e.subject = u /\ e.action = action
      BY <3>1
    <3>4. e \in Entries
      BY <2>1, <3>1, <3>2 DEF Entries, Subjects, Actions
    <3>5. Absent # TRUE /\ Absent # FALSE
      BY DirectoryAssumption
    <3> HIDE DEF action
    <3> QED
      BY <2>1, <3>2, <3>3, <3>4, <3>5 DEF Tells, Said
  <2>5. ASSUME NEW v \in Rows PROVE ToldRight(v)'
    <3> HIDE DEF u, patch, e
    <3>1. CASE UNCHANGED <<users, trail>>
      BY <1>k, <1>y, <2>5, <3>1 DEF Trailed
    <3>2. CASE trail' = Append(trail, e) /\ v # u
      BY <1>k, <1>y, <2>3, <2>4, <2>5, <3>2 DEF Trailed
    <3>3. CASE trail' = Append(trail, e) /\ v = u /\ Tells(e)
      BY <1>w, <1>y, <2>3, <2>4, <3>3
    <3>4. CASE trail' = Append(trail, e) /\ v = u /\ ~Tells(e)
      BY <1>k, <1>y, <2>1, <2>3, <2>4, <3>4 DEF Trailed
    <3> QED
      BY <2>2, <3>1, <3>2, <3>3, <3>4
  <2>6. ASSUME NEW d \in Callers PROVE Holds(d)'
    <3>1. CASE d = c
      BY <1>y, <2>2, <3>1 DEF Holds, End, Idle, Typed
    <3>2. CASE d # c
      <4>1. req'[d] = req[d] /\ req[c].pc = "update"
        BY <1>y, <2>2, <3>2 DEF End, Typed, Update
      <4>2. ASSUME req[d].pc = "update"
            PROVE  UNCHANGED <<lock[req[d].user], users[req[d].user].active>>
        <5>1. req[d].user \in Rows
          BY <1>y, <4>2 DEF Trailed, Holds
        <5> QED
          BY <1>d, <1>y, <2>2, <2>3, <3>2, <4>1, <4>2, <5>1
      <4> QED
        BY <1>h, <1>y, <2>3, <4>1, <4>2 DEF Trailed
    <3> QED
      BY <3>1, <3>2
  <2> HIDE DEF u, patch, e
  <2>7. \A i \in DOMAIN trail' : Tells(trail'[i]) => trail'[i].subject \in Rows'
    BY <1>s, <1>y, <2>1, <2>2, <2>3, <2>4
  <2> QED
    BY <2>3, <2>5, <2>6, <2>7 DEF Trailed
<1>f. ASSUME Typed, Trailed, NEW c \in Callers, Fail(c) PROVE Trailed'
  <2>1. FreeRow(c) /\ UNCHANGED <<users, trail>> /\ Rows' = Rows
        /\ (\A d \in Callers \ {c} : req'[d] = req[d]) /\ req'[c].pc = "idle"
    BY <1>f DEF Fail, End, Idle, Typed, Rows
  <2>2. ASSUME NEW d \in Callers PROVE Holds(d)'
    <3>1. CASE d = c
      BY <2>1, <3>1 DEF Holds
    <3>2. CASE d # c
      BY <1>d, <1>f, <1>h, <2>1, <3>2 DEF Trailed
    <3> QED
      BY <3>1, <3>2
  <2>3. \A v \in Rows' : ToldRight(v)'
    BY <1>f, <1>k, <2>1 DEF Trailed
  <2> QED
    BY <1>f, <2>1, <2>2, <2>3 DEF Trailed
<1>n. Typed /\ Trailed /\ [Next]_vars => Trailed'
  <2> SUFFICES ASSUME Typed, Trailed, [Next]_vars PROVE Trailed'
    OBVIOUS
  <2>e. /\ Entry(Nobody, "read", Absent) \in Entries /\ ~Tells(Entry(Nobody, "read", Absent))
        /\ Entry(Nobody, "listed", Absent) \in Entries /\ ~Tells(Entry(Nobody, "listed", Absent))
    BY DEF Entry, Entries, Subjects, Actions, Tells
  <2>1. ASSUME NEW c \in Callers, Send(c) \/ Authenticate(c) \/ Reject(c) \/ BeginCreate(c)
        PROVE  Trailed'
    <3>1. UNCHANGED <<users, lock, trail>>
      BY <2>1 DEF Send, Arrive, Authenticate, Reject, BeginCreate, rowVars
    <3>2. \/ req' = req
          \/ End(c) \/ Goto(c, req[c].kind)
          \/ req' = [req EXCEPT ![c].pc = "insert", ![c].born = clock + 1]
          \/ \E q : req' = [req EXCEPT ![c] = q] /\ q.pc = "token"
      <4>1. ASSUME NEW q \in Requests, NEW presented \in Tokens \cup {Forged, NoToken},
                   Arrive(c, q, presented)
            PROVE  req' = req \/ \E new : req' = [req EXCEPT ![c] = new] /\ new.pc = "token"
        <5> DEFINE new == [Idle EXCEPT !.pc = "token", !.kind = q.kind, !.user = q.user,
                                       !.patch = q.patch, !.by = presented]
        <5>1. new.pc = "token" /\ (req' = req \/ req' = [req EXCEPT ![c] = new])
          BY <4>1 DEF Arrive, Idle
        <5> HIDE DEF new
        <5> QED
          BY <5>1
      <4>2. CASE Send(c)
        BY <4>1, <4>2 DEF Send
      <4>3. CASE Authenticate(c)
        BY <4>3 DEF Authenticate
      <4>4. CASE Reject(c)
        BY <4>4 DEF Reject
      <4>5. CASE BeginCreate(c)
        BY <4>5 DEF BeginCreate
      <4> QED
        BY <2>1, <4>2, <4>3, <4>4, <4>5
    <3>3. CASE req' = req
      BY <3>1, <3>3 DEF Trailed, Holds, ToldRight, Mentions, Rows
    <3>4. CASE req' # req
      <4>1. (\A d \in Callers \ {c} : req'[d] = req[d]) /\ req'[c].pc # "update"
        BY <3>2, <3>4 DEF End, Goto, Idle, Typed, Request
      <4> QED
        BY <1>o, <2>e, <3>1, <4>1
    <3> QED
      BY <3>3, <3>4
  <2>2. ASSUME NEW c \in Callers, List(c) \/ Read(c) PROVE Trailed'
    <3>1. UNCHANGED <<users, lock>> /\ End(c)
          /\ (trail' = Append(trail, Entry(Nobody, "read", Absent))
              \/ trail' = Append(trail, Entry(Nobody, "listed", Absent)))
      BY <2>2 DEF List, Read, Finish
    <3>2. (\A d \in Callers \ {c} : req'[d] = req[d]) /\ req'[c].pc # "update"
      BY <3>1 DEF End, Idle, Typed
    <3> QED
      BY <1>o, <2>e, <3>1, <3>2
  <2>3. ASSUME Operate \/ Lapse \/ UNCHANGED vars \/ \E address \in Addresses : BeginSignIn(address)
        PROVE  Trailed'
    <3>1. UNCHANGED <<users, lock, trail, req>>
      BY <2>3 DEF Operate, Issue, EndTokens, SetStatus, Lapse, LapseFailures, LapseSpent, vars,
         rowVars, BeginSignIn
    <3> QED
      BY <3>1 DEF Trailed, Holds, ToldRight, Mentions, Rows
  <2> QED
    BY <1>r, <1>g, <1>u, <1>y, <1>f, <2>1, <2>2, <2>3 DEF Next, Handle
<1>t. Typed /\ Trailed => TrailTellsWhoIsIn
  <2> SUFFICES ASSUME Typed, Trailed, NEW u \in Rows PROVE users[u].active = Told(u)
    BY DEF TrailTellsWhoIsIn
  <2>1. CASE Mentions(u) = {}
    BY <2>1 DEF Trailed, ToldRight, Told
  <2>2. CASE Mentions(u) # {}
    <3>1. PICK i \in Mentions(u) :
             (\A j \in Mentions(u) : j <= i) /\ Said(trail[i]) = users[u].active
      BY <2>2 DEF Trailed, ToldRight
    <3>2. Mentions(u) \in SUBSET (1..Len(trail)) /\ Len(trail) \in Nat
      BY DEF Mentions, Typed
    <3>3. Max(Mentions(u)) \in Mentions(u) /\ \A j \in Mentions(u) : j <= Max(Mentions(u))
      BY <2>2, <3>2, LastPlace
    <3>4. Max(Mentions(u)) = i
      BY <3>1, <3>2, <3>3
    <3> QED
      BY <2>2, <3>1, <3>4 DEF Told
  <2> QED
    BY <2>1, <2>2
<1> QED
  BY <1>i, <1>n, <1>t, TypesAlways, PTL DEF Spec
=============================================================================
