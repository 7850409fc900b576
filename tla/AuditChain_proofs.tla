--------------------------- MODULE AuditChain_proofs ---------------------------
(***************************************************************************)
(* The audit log, for any number of writers, firms, entries and page sizes: *)
(* where its chain may break, that tampering shows, and that a reader is    *)
(* given every entry owed to it.                                            *)
(***************************************************************************)
EXTENDS AuditChain, FiniteSetTheorems, WellFoundedInduction, TLAPS

(* An id belongs to one transaction or one entry.                             *)
IdsInv ==
    /\ IsFiniteSet(log)
    /\ \A e, f \in log : e.id = f.id => e = f
    /\ \A e \in log : e.id < nextId
    /\ \A w \in Writers : Busy(w) =>
         /\ tx[w].id \in Ids /\ tx[w].id < nextId
         /\ \A e \in log : e.id # tx[w].id
         /\ \A v \in Writers : v # w /\ Busy(v) => tx[v].id # tx[w].id

(* A writer that overlaps nobody is alone, and nothing was committed above it. *)
AloneInv ==
    /\ \A v, w \in Writers : v # w /\ Busy(v) /\ Busy(w) => tx[w].id \in overlapped
    /\ tamper # "inserted" =>
         \A w \in Writers, e \in log : Busy(w) /\ tx[w].id < e.id
           => tx[w].id \in overlapped /\ e.id \in overlapped

(* The trigger's work: contents everywhere, links where nobody overlapped, and *)
(* a digest about to be chained that is still the newest.                      *)
ChainInv ==
    tamper = "none" =>
      /\ \A e \in log : ContentHolds(e) /\ e.body # Forged
      /\ \A e \in log : e.id \notin overlapped => LinkHolds(log, e)
      /\ \A w \in Writers : tx[w].pc = "inserted" /\ tx[w].id \notin overlapped
           => tx[w].prev = LastDigest(log)

(* The entry that gives the tampering away.                                   *)
TamperInv ==
    /\ tamper = "altered" => \E e \in log : ~ContentHolds(e)
    /\ tamper = "inserted" => \E e \in log : e.digest = NoDigest
    /\ tamper = "removed" /\ overlapped = {} => \E e \in log : ~LinkHolds(log, e)

(* What is owed has been given or is still ahead of the cursor.               *)
PageInv ==
    tamper = "none" =>
      /\ page.pc = "paging" => page.owed \subseteq page.got \cup {e.id : e \in Visible(page.before)}
      /\ page.pc = "done" => page.owed \subseteq page.got

IInv == TypeOK /\ IdsInv /\ AloneInv /\ ChainInv /\ TamperInv /\ PageInv
-----------------------------------------------------------------------------
(* Greatest and least elements, and the newest entry of a log.               *)

(* A bounded set of naturals has a greatest element, and a least one.         *)
LEMMA Extremes ==
  ASSUME NEW n \in Nat, NEW T \in SUBSET (0 .. n), T # {}
  PROVE  /\ \E i \in T : \A j \in T : j <= i
         /\ \E i \in T : \A j \in T : i <= j
<1>1. ASSUME NEW S \in SUBSET (0 .. n), S # {} PROVE \E i \in S : \A j \in S : j <= i
  <2> DEFINE Up(i) == {j \in S : i <= j}
             F == {Up(i) : i \in S}
  <2>1. IsFiniteSet(S)
    BY FS_Interval, FS_Subset, 0 \in Int, n \in Int
  <2>2. ASSUME NEW i \in S PROVE Up(i) \in FiniteSubsetsOf(S)
    <3>1. Up(i) \in SUBSET S
      OBVIOUS
    <3> QED
      BY <2>1, <3>1, FS_Subset DEF FiniteSubsetsOf
  <2>3. F \subseteq FiniteSubsetsOf(S) /\ F # {}
    BY <1>1, <2>2
  <2>4. PICK U \in F : \A V \in F : ~(<<V, U>> \in StrictSubsetOrdering(S))
    <3> HIDE DEF F
    <3> QED
      BY <2>3, FS_StrictSubsetOrderingWellFounded, WFMin
  <2>5. PICK i \in S : U = Up(i)
    BY <2>4
  <2>6. ASSUME NEW j \in S, ~(j <= i) PROVE FALSE
    <3>1. i \in Int /\ j \in Int
      BY <1>1
    <3>2. Up(j) \subseteq U
      <4>1. ASSUME NEW k \in S, j <= k PROVE i <= k
        <5>1. k \in Int
          BY <1>1
        <5> QED
          BY <2>6, <3>1, <4>1, <5>1
      <4> QED
        BY <2>5, <4>1
    <3>3. i \in U /\ i \notin Up(j)
      BY <2>5, <2>6, <3>1
    <3>4. Up(j) \in F /\ U \in SUBSET S
      BY <2>5
    <3>5. <<Up(j), U>> \in StrictSubsetOrdering(S)
      BY <3>2, <3>3, <3>4 DEF StrictSubsetOrdering
    <3> QED
      BY <2>4, <3>4, <3>5
  <2> QED
    BY <2>6
<1>2. \E i \in T : \A j \in T : i <= j
  <2> DEFINE S == {n - j : j \in T}
  <2>1. S \in SUBSET (0 .. n) /\ S # {}
    <3>1. \A j \in T : j \in Int /\ 0 <= j /\ j <= n
      OBVIOUS
    <3>2. \A j \in T : n - j \in 0 .. n
      BY <3>1
    <3> QED
      BY <3>2
  <2>2. PICK k \in S : \A j \in S : j <= k
    <3> HIDE DEF S
    <3> QED
      BY <1>1, <2>1
  <2>3. PICK i \in T : k = n - i
    BY <2>2
  <2>4. ASSUME NEW j \in T PROVE i <= j
    <3>1. n - j <= n - i
      BY <2>2, <2>3
    <3> QED
      BY <3>1
  <2> QED
    BY <2>4
<1> QED
  BY <1>1, <1>2

(* Newest and the walk's Below do what their names say on any part of the log. *)
LEMMA NewestIs ==
  ASSUME TypeOK, NEW S \in SUBSET log, S # {}
  PROVE  Newest(S) \in S /\ \A f \in S : f.id <= Newest(S).id
<1> DEFINE T == {f.id : f \in S}
<1>1. T \in SUBSET (0 .. MaxId) /\ T # {}
  BY AuditAssumption DEF TypeOK, Entry, Ids
<1>2. PICK i \in T : \A j \in T : j <= i
  <2> HIDE DEF T
  <2> QED
    BY <1>1, Extremes, AuditAssumption
<1>3. \E e \in S : \A f \in S : f.id <= e.id
  BY <1>2
<1> QED
  BY <1>3 DEF Newest

-----------------------------------------------------------------------------
(* The invariant, action by action: an id has one owner, a writer that         *)
(* overlaps nobody chains to the newest entry, tampering leaves a trace, and   *)
(* what the reader is owed lies behind or ahead of the cursor.                 *)
LEMMA AuditInvariant == Spec => []IInv
\* A page holds the highest ids of what the reader may see, without gaps, and
\* is short only when it holds them all.
<1>pf. ASSUME TypeOK, IdsInv, NEW S \in SUBSET log
       PROVE  /\ TopIds(S, Limit) \subseteq {e.id : e \in S}
              /\ \A e \in S, i \in TopIds(S, Limit) : i <= e.id => e.id \in TopIds(S, Limit)
              /\ Cardinality(TopIds(S, Limit)) # Limit => \A e \in S : e.id \in TopIds(S, Limit)
  <2> USE <1>pf
  <2> DEFINE Above(e) == {f \in S : f.id > e.id}
             m == Cardinality(S)
             r == [e \in S |-> Cardinality(Above(e))]
             Top == {e \in S : Cardinality(Above(e)) < Limit}
  <2>1. IsFiniteSet(S) /\ m \in Nat
    BY FS_Subset, FS_CardinalityType DEF IdsInv
  <2>2. TopIds(S, Limit) = {e.id : e \in Top} /\ Top \subseteq S
    BY DEF TopIds
  <2>3. ASSUME NEW e \in S PROVE e.id \in Int
    BY DEF TypeOK, Entry, Ids
  <2>4. ASSUME NEW e \in S, NEW f \in S
        PROVE  /\ e.id < f.id => Cardinality(Above(f)) < Cardinality(Above(e))
               /\ e.id <= f.id => Cardinality(Above(f)) <= Cardinality(Above(e))
               /\ Cardinality(Above(e)) \in Nat /\ Cardinality(Above(e)) < m
    <3>1. \A g \in S : IsFiniteSet(Above(g)) /\ Cardinality(Above(g)) \in Nat
      BY <2>1, FS_Subset, FS_CardinalityType
    <3>2. ASSUME e.id <= f.id
          PROVE  /\ e.id < f.id => Cardinality(Above(f)) < Cardinality(Above(e))
                 /\ Cardinality(Above(f)) <= Cardinality(Above(e))
      <4>1. Above(f) \in SUBSET Above(e)
        <5>1. ASSUME NEW g \in S, g.id > f.id PROVE g.id > e.id
          BY <2>3, <3>2, <5>1
        <5> QED
          BY <5>1
      <4>2. e.id < f.id => f \in Above(e) /\ f \notin Above(f)
        BY <2>3
      <4>3. /\ Cardinality(Above(f)) <= Cardinality(Above(e))
            /\ Cardinality(Above(e)) = Cardinality(Above(f)) => Above(e) = Above(f)
        <5> HIDE DEF Above
        <5> QED
          BY <3>1, <4>1, FS_Subset
      <4>4. e.id < f.id => Above(e) # Above(f)
        BY <4>2
      <4> HIDE DEF Above
      <4> QED
        BY <3>1, <4>3, <4>4
    <3>3. Cardinality(Above(e)) < m
      <4>1. Above(e) \in SUBSET S /\ Above(e) # S
        BY <2>3
      <4>2. Cardinality(Above(e)) <= m /\ (m = Cardinality(Above(e)) => S = Above(e))
        <5> HIDE DEF Above
        <5> QED
          BY <2>1, <4>1, FS_Subset
      <4> QED
        BY <2>1, <3>1, <4>1, <4>2
    <3> HIDE DEF Above, m
    <3> QED
      BY <2>3, <3>1, <3>2, <3>3
  <2>5. ASSUME NEW e \in S, NEW i \in TopIds(S, Limit), i <= e.id PROVE e.id \in TopIds(S, Limit)
    <3>1. PICK f \in Top : i = f.id
      BY <2>2
    <3>2. Cardinality(Above(e)) < Limit
      <4> HIDE DEF Above
      <4> QED
        BY <2>4, <2>5, <3>1, AuditAssumption
    <3> QED
      BY <2>2, <3>2
  <2>6. ASSUME NEW x \in S, x.id \notin TopIds(S, Limit) PROVE Cardinality(TopIds(S, Limit)) = Limit
    <3> DEFINE g == [e \in Top |-> Cardinality(Above(e))]
               h == [e \in Top |-> e.id]
               K == 0 .. (Limit - 1)
               M == 0 .. (m - 1)
    <3>1. ~(Cardinality(Above(x)) < Limit)
      BY <2>2, <2>6
    <3>2. Limit < m
      <4> HIDE DEF Above, m
      <4> QED
        BY <2>1, <2>4, <3>1, AuditAssumption
    <3>3. r \in Injection(S, M)
      <4> HIDE DEF Above
      <4>1. r \in [S -> M]
        BY <2>1, <2>4
      <4>2. ASSUME NEW e \in S, NEW f \in S, e # f PROVE r[e] # r[f]
        <5>1. e.id < f.id \/ f.id < e.id
          BY <2>3, <4>2 DEF IdsInv
        <5> QED
          BY <2>4, <5>1
      <4> QED
        BY <4>1, <4>2 DEF Injection, IsInjective
    <3>4. r \in Surjection(S, M)
      <4>1. IsFiniteSet(M) /\ Cardinality(M) = m
        <5>1. 0 \in Int /\ m - 1 \in Int /\ ~(0 > m - 1)
          BY <2>1, <3>2, AuditAssumption
        <5>2. IsFiniteSet(0 .. (m - 1)) /\ Cardinality(0 .. (m - 1)) = (m - 1) - 0 + 1
          BY <5>1, FS_Interval
        <5> QED
          BY <2>1, <5>2
      <4> QED
        BY <3>3, <4>1, FS_Injection
    <3>5. g \in Bijection(Top, K)
      <4> HIDE DEF Above
      <4>1. g \in [Top -> K]
        BY <2>4, AuditAssumption
      <4>2. ASSUME NEW e \in Top, NEW f \in Top, g[e] = g[f] PROVE e = f
        BY <3>3, <4>2 DEF Injection, IsInjective
      <4>3. ASSUME NEW k \in K PROVE \E e \in Top : g[e] = k
        <5>1. k \in M /\ k < Limit
          BY <2>1, <3>2, AuditAssumption
        <5>2. PICK e \in S : r[e] = k
          BY <3>4, <5>1 DEF Surjection
        <5> QED
          BY <5>1, <5>2
      <4> QED
        BY <4>1, <4>2, <4>3 DEF Bijection, Injection, Surjection, IsInjective
    <3>6. IsFiniteSet(Top) /\ Cardinality(Top) = Limit
      <4>1. IsFiniteSet(Top)
        BY <2>1, FS_Subset
      <4>2. Cardinality(K) = Cardinality(Top)
        <5> HIDE DEF Top, g, K
        <5> QED
          BY <3>5, <4>1, FS_Bijection DEF ExistsBijection
      <4>3. Cardinality(0 .. (Limit - 1)) = (Limit - 1) - 0 + 1
        <5>1. 0 \in Int /\ Limit - 1 \in Int /\ ~(0 > Limit - 1)
          BY AuditAssumption
        <5> QED
          BY <5>1, FS_Interval
      <4> QED
        BY <4>1, <4>2, <4>3, AuditAssumption
    <3>7. h \in Bijection(Top, TopIds(S, Limit))
      <4>1. ASSUME NEW e \in Top, NEW f \in Top, h[e] = h[f] PROVE e = f
        <5> HIDE DEF Above
        <5> QED
          BY <4>1 DEF IdsInv
      <4>2. h \in [Top -> TopIds(S, Limit)]
        <5> HIDE DEF Top
        <5> QED
          BY <2>2
      <4>3. ASSUME NEW i \in TopIds(S, Limit) PROVE \E e \in Top : h[e] = i
        <5> HIDE DEF Top
        <5> QED
          BY <2>2
      <4> QED
        BY <4>1, <4>2, <4>3 DEF Bijection, Injection, Surjection, IsInjective
    <3> HIDE DEF h, Top
    <3> QED
      BY <3>6, <3>7, FS_Bijection DEF ExistsBijection
  <2> QED
    BY <2>2, <2>5, <2>6
<1>1. Init => IInv
  <2> SUFFICES ASSUME Init PROVE IInv
    OBVIOUS
  <2>1. IdleTx \in Tx /\ IdleTx.pc = "idle" /\ IdlePage \in Page /\ IdlePage.pc = "idle"
    BY AuditAssumption DEF IdleTx, Tx, IdlePage, Page, NoDigest, Ids
  <2>2. TypeOK
    BY <2>1, AuditAssumption DEF Init, TypeOK
  <2>3. IdsInv
    BY <2>1, FS_EmptySet DEF Init, IdsInv, Busy
  <2>4. AloneInv /\ ChainInv /\ TamperInv /\ PageInv
    BY <2>1 DEF Init, AloneInv, ChainInv, TamperInv, PageInv, Busy
  <2> QED
    BY <2>2, <2>3, <2>4 DEF IInv
<1>2. ASSUME IInv, [Next]_vars PROVE IInv'
  <2>1. /\ \A e \in log : /\ e \in Entry /\ e.id \in Ids /\ e.tenant \in Tenants
                          /\ e.prev \in Seq(Tenants \X Ids) /\ e.digest \in Seq(Tenants \X Ids)
        /\ \A w \in Writers : tx[w] \in Tx /\ tx[w].prev \in Seq(Tenants \X Ids)
        /\ nextId \in Nat /\ MaxId \in Nat /\ Ids = 1 .. MaxId
    BY <1>2, AuditAssumption DEF IInv, TypeOK, Entry, Tx, Ids
  <2>2. IdleTx \in Tx /\ IdleTx.pc = "idle"
    BY AuditAssumption DEF IdleTx, Tx, NoDigest
  <2>3. LastDigest(log) \in Seq(Tenants \X Ids)
    BY <1>2, <2>1, NewestIs DEF LastDigest, IInv, NoDigest
  (* A digest commits to its entry and is longer than what it chains to.      *)
  <2>4. ASSUME NEW d \in Seq(Tenants \X Ids), NEW t \in Tenants, NEW b \in Ids
        PROVE  /\ Digest(d, t, b) \in Seq(Tenants \X Ids)
               /\ Digest(d, t, b) # NoDigest /\ Digest(d, t, b) # d
               /\ Digest(d, t, b) # Digest(d, t, Forged)
    <3>1. Forged \notin Ids /\ Forged # b
      BY <2>1 DEF Forged
    <3>2. <<t, b>> \in Tenants \X Ids
      OBVIOUS
    <3>3. Len(Digest(d, t, b)) = Len(d) + 1 /\ Digest(d, t, b)[Len(d) + 1] = <<t, b>>
      BY <3>2 DEF Digest
    <3>4. Digest(d, t, Forged)[Len(d) + 1] = <<t, Forged>>
      BY DEF Digest
    <3>5. <<t, b>> # <<t, Forged>>
      BY <3>1
    <3>6. Digest(d, t, b) \in Seq(Tenants \X Ids)
      BY <3>2 DEF Digest
    <3>7. Len(NoDigest) = 0 /\ Len(d) \in Nat
      BY DEF NoDigest
    <3>8. Digest(d, t, b) # NoDigest /\ Digest(d, t, b) # d
      BY <3>3, <3>7
    <3> QED
      BY <3>3, <3>4, <3>5, <3>6, <3>8
  (* While the log stands, so does what its links and pages say.              *)
  <2>5. ASSUME UNCHANGED <<log, tamper>>, overlapped \subseteq overlapped'
        PROVE  /\ TamperInv'
               /\ tamper' = "none" =>
                    /\ \A e \in log' : ContentHolds(e) /\ e.body # Forged
                    /\ \A e \in log' : e.id \notin overlapped' => LinkHolds(log', e)
    BY <1>2, <2>5 DEF IInv, TamperInv, ChainInv
  <2>6. ASSUME UNCHANGED <<log, tamper, page>> PROVE PageInv'
    BY <1>2, <2>6 DEF IInv, PageInv, Visible
  <2>7. ASSUME NEW w \in Writers, NEW t \in Tenants, Number(w, t) PROVE IInv'
    <3>1. PICK n \in Tx : n = [IdleTx EXCEPT !.pc = "numbered", !.id = nextId, !.tenant = t]
      <4>1. nextId \in Ids
        BY <1>2, <2>1, <2>7 DEF Number, IInv, TypeOK
      <4> QED
        BY <2>2, <4>1 DEF Tx
    <3>2. n.pc = "numbered" /\ n.id = nextId
      BY <3>1, <2>2 DEF Tx
    <3>3. /\ \A v \in Writers : tx'[v] = IF v = w THEN n ELSE tx[v]
          /\ tx' \in [Writers -> Tx] /\ tx[w].pc = "idle"
          /\ nextId' = nextId + 1 /\ nextId \in Ids
          /\ UNCHANGED <<log, page, tamper>>
      BY <1>2, <2>1, <2>7, <3>1 DEF Number, IInv, TypeOK
    <3>4. \A v \in Writers : Busy(v)' <=> (v = w \/ Busy(v))
      BY <3>2, <3>3 DEF Busy
    <3>5. /\ overlapped \subseteq overlapped'
          /\ overlapped' \subseteq Ids
          /\ \A v \in Writers : Busy(v) => nextId \in overlapped' /\ tx[v].id \in overlapped'
      BY <1>2, <2>7, <3>3 DEF Number, IInv, TypeOK, IdsInv
    <3>6. TypeOK'
      BY <1>2, <2>1, <3>3, <3>5 DEF IInv, TypeOK
    <3>7. IdsInv'
      <4>1. ASSUME NEW v \in Writers, Busy(v)'
            PROVE  /\ tx'[v].id \in Ids /\ tx'[v].id < nextId'
                   /\ \A e \in log : e.id # tx'[v].id
                   /\ \A u \in Writers : u # v /\ Busy(u)' => tx'[u].id # tx'[v].id
        <5>1. CASE v = w
          BY <1>2, <2>1, <3>2, <3>3, <3>4, <5>1 DEF IInv, IdsInv
        <5>2. CASE v # w
          <6>1. Busy(v) /\ tx'[v] = tx[v]
            BY <3>3, <3>4, <4>1, <5>2
          <6>2. /\ tx[v].id \in Ids /\ tx[v].id < nextId
                /\ \A e \in log : e.id # tx[v].id
                /\ \A u \in Writers : u # v /\ Busy(u) => tx[u].id # tx[v].id
            BY <1>2, <6>1 DEF IInv, IdsInv
          <6>3. tx[v].id < nextId' /\ tx[v].id # nextId
            BY <2>1, <3>3, <6>2
          <6> QED
            BY <3>2, <3>3, <3>4, <6>1, <6>2, <6>3
        <5> QED
          BY <5>1, <5>2
      <4>2. \A e \in log : e.id < nextId'
        BY <1>2, <2>1, <3>3 DEF IInv, IdsInv
      <4> QED
        BY <1>2, <3>3, <4>1, <4>2 DEF IInv, IdsInv
    <3>8. AloneInv'
      <4>1. ASSUME NEW v \in Writers, NEW u \in Writers, v # u, Busy(v)', Busy(u)'
            PROVE  tx'[u].id \in overlapped'
        BY <1>2, <3>2, <3>3, <3>4, <3>5, <4>1 DEF IInv, AloneInv, Busy
      <4>2. ASSUME NEW v \in Writers, NEW e \in log, tamper # "inserted", Busy(v)', tx'[v].id < e.id
            PROVE  tx'[v].id \in overlapped' /\ e.id \in overlapped'
        <5>1. v # w
          BY <1>2, <2>1, <3>2, <3>3, <4>2 DEF IInv, IdsInv
        <5> QED
          BY <1>2, <3>3, <3>4, <3>5, <4>2, <5>1 DEF IInv, AloneInv
      <4> QED
        BY <3>3, <4>1, <4>2 DEF AloneInv
    <3>9. ChainInv'
      <4>1. ASSUME NEW v \in Writers, tamper = "none", tx'[v].pc = "inserted", tx'[v].id \notin overlapped'
            PROVE  tx'[v].prev = LastDigest(log)
        BY <1>2, <3>2, <3>3, <3>5, <4>1 DEF IInv, ChainInv
      <4> QED
        BY <2>5, <3>3, <3>5, <4>1 DEF ChainInv
    <3> QED
      BY <2>5, <2>6, <3>3, <3>5, <3>6, <3>7, <3>8, <3>9 DEF IInv
  <2>8. ASSUME NEW w \in Writers, Chain(w) PROVE IInv'
    <3>1. PICK n \in Tx : n = [tx[w] EXCEPT !.pc = "inserted", !.prev = LastDigest(log)]
      BY <2>1, <2>3 DEF Tx
    <3>2. n.pc = "inserted" /\ n.id = tx[w].id /\ n.prev = LastDigest(log)
      BY <2>1, <3>1 DEF Tx
    <3>3. /\ \A v \in Writers : tx'[v] = IF v = w THEN n ELSE tx[v]
          /\ tx' \in [Writers -> Tx] /\ tx[w].pc = "numbered"
          /\ UNCHANGED <<nextId, log, page, tamper, overlapped>>
      BY <1>2, <2>1, <2>8, <3>1 DEF Chain, IInv, TypeOK, Tx
    <3>4. \A v \in Writers : (Busy(v)' <=> Busy(v)) /\ tx'[v].id = tx[v].id
      BY <3>2, <3>3 DEF Busy
    <3>5. TypeOK'
      BY <1>2, <3>3 DEF IInv, TypeOK
    <3>6. IdsInv' /\ AloneInv'
      BY <1>2, <3>3, <3>4 DEF IInv, IdsInv, AloneInv
    <3>7. ChainInv'
      <4>1. ASSUME NEW v \in Writers, tamper = "none", tx'[v].pc = "inserted", tx'[v].id \notin overlapped'
            PROVE  tx'[v].prev = LastDigest(log)
        BY <1>2, <3>2, <3>3, <4>1 DEF IInv, ChainInv
      <4> QED
        BY <2>5, <3>3, <4>1 DEF ChainInv
    <3> QED
      BY <2>5, <2>6, <3>3, <3>5, <3>6, <3>7 DEF IInv
  <2>9. ASSUME NEW w \in Writers, Rollback(w) PROVE IInv'
    <3>1. /\ \A v \in Writers : tx'[v] = IF v = w THEN IdleTx ELSE tx[v]
          /\ tx' \in [Writers -> Tx]
          /\ UNCHANGED <<nextId, log, page, tamper, overlapped>>
      BY <1>2, <2>2, <2>9 DEF Rollback, IInv, TypeOK
    <3>2. \A v \in Writers : (Busy(v)' <=> Busy(v) /\ v # w)
      BY <2>2, <3>1 DEF Busy
    <3>3. TypeOK'
      BY <1>2, <3>1 DEF IInv, TypeOK
    <3>4. IdsInv' /\ AloneInv'
      BY <1>2, <3>1, <3>2 DEF IInv, IdsInv, AloneInv
    <3>5. ChainInv'
      <4>1. ASSUME NEW v \in Writers, tamper = "none", tx'[v].pc = "inserted", tx'[v].id \notin overlapped'
            PROVE  tx'[v].prev = LastDigest(log)
        BY <1>2, <2>2, <3>1, <4>1 DEF IInv, ChainInv
      <4> QED
        BY <2>5, <3>1, <4>1 DEF ChainInv
    <3> QED
      BY <2>5, <2>6, <3>1, <3>3, <3>4, <3>5 DEF IInv
  (* An entry added above every other leaves their links as they were.        *)
  <2>10. ASSUME NEW n \in Entry, NEW e \in log, e.id < n.id
         PROVE  LinkHolds(log \cup {n}, e) <=> LinkHolds(log, e)
    <3>1. e.id \in Int /\ n.id \in Int
      BY <2>1, <2>10 DEF Entry
    <3>2. Below(log \cup {n}, e) = Below(log, e)
      BY <2>10, <3>1 DEF Below
    <3> QED
      BY <3>2 DEF LinkHolds
  <2>11. ASSUME NEW w \in Writers, Commit(w) PROVE IInv'
    <3>1. PICK t \in Tx : t = tx[w] /\ t.pc = "inserted" /\ Busy(w)
      BY <2>1, <2>11 DEF Commit, Busy
    <3>2. t.id \in Ids /\ t.tenant \in Tenants /\ t.prev \in Seq(Tenants \X Ids)
      BY <1>2, <3>1 DEF IInv, IdsInv, Tx
    <3>3. PICK d \in Seq(Tenants \X Ids) : d = Digest(t.prev, t.tenant, t.id) /\ d # NoDigest
      BY <2>4, <3>2
    <3>4. PICK n \in Entry : n = [id |-> t.id, tenant |-> t.tenant, body |-> t.id,
                                  prev |-> t.prev, digest |-> d]
      BY <3>2, <3>3 DEF Entry
    <3>5. n.id = t.id /\ n.body = t.id /\ n.prev = t.prev /\ n.digest = d /\ n.tenant = t.tenant
      BY <3>4
    <3>6. /\ log' = log \cup {n}
          /\ \A v \in Writers : tx'[v] = IF v = w THEN IdleTx ELSE tx[v]
          /\ tx' \in [Writers -> Tx]
          /\ UNCHANGED <<nextId, page, tamper, overlapped>>
      BY <1>2, <2>2, <2>11, <3>1, <3>3, <3>4 DEF Commit, IInv, TypeOK
    <3>7. \A v \in Writers : Busy(v)' <=> Busy(v) /\ v # w
      BY <2>2, <3>6 DEF Busy
    <3>8. TypeOK'
      BY <1>2, <3>6 DEF IInv, TypeOK
    <3>9. IdsInv'
      <4>1. IsFiniteSet(log')
        BY <1>2, <3>6, FS_AddElement DEF IInv, IdsInv
      <4>2. /\ \A e, f \in log' : e.id = f.id => e = f
            /\ \A e \in log' : e.id < nextId'
        BY <1>2, <3>1, <3>5, <3>6 DEF IInv, IdsInv
      <4>3. ASSUME NEW v \in Writers, Busy(v)'
            PROVE  /\ tx'[v].id \in Ids /\ tx'[v].id < nextId'
                   /\ \A e \in log' : e.id # tx'[v].id
                   /\ \A u \in Writers : u # v /\ Busy(u)' => tx'[u].id # tx'[v].id
        <5>1. Busy(v) /\ v # w /\ tx'[v] = tx[v]
          BY <3>6, <3>7, <4>3
        <5>2. n.id # tx[v].id
          BY <1>2, <3>1, <3>5, <5>1 DEF IInv, IdsInv
        <5> QED
          BY <1>2, <3>6, <3>7, <5>1, <5>2 DEF IInv, IdsInv
      <4> QED
        BY <4>1, <4>2, <4>3 DEF IdsInv
    <3>10. ASSUME NEW e \in log, tamper # "inserted", n.id \notin overlapped \/ e.id \notin overlapped
           PROVE  e.id < n.id
      BY <1>2, <2>1, <3>1, <3>2, <3>5, <3>10 DEF IInv, IdsInv, AloneInv, Ids
    <3>11. AloneInv'
      <4>1. ASSUME NEW v \in Writers, NEW u \in Writers, v # u, Busy(v)', Busy(u)'
            PROVE  tx'[u].id \in overlapped'
        BY <1>2, <3>6, <3>7, <4>1 DEF IInv, AloneInv
      <4>2. ASSUME NEW v \in Writers, NEW e \in log', tamper # "inserted", Busy(v)', tx'[v].id < e.id
            PROVE  tx'[v].id \in overlapped' /\ e.id \in overlapped'
        <5>1. Busy(v) /\ v # w /\ tx'[v] = tx[v]
          BY <3>6, <3>7, <4>2
        <5>2. CASE e = n
          BY <1>2, <3>1, <3>5, <3>6, <5>1, <5>2 DEF IInv, AloneInv
        <5>3. CASE e \in log
          BY <1>2, <3>6, <4>2, <5>1, <5>3 DEF IInv, AloneInv
        <5> QED
          BY <3>6, <5>2, <5>3
      <4> QED
        BY <3>6, <4>1, <4>2 DEF AloneInv
    <3>12. ChainInv'
      <4> SUFFICES ASSUME tamper = "none" PROVE ChainInv'
        BY <3>6 DEF ChainInv
      <4>1. ContentHolds(n) /\ n.body # Forged
        BY <2>1, <3>2, <3>3, <3>5 DEF ContentHolds, Forged
      <4>2. ASSUME n.id \notin overlapped PROVE LinkHolds(log \cup {n}, n)
        <5>1. Below(log \cup {n}, n) = log
          <6>1. \A e \in log : e.id < n.id
            BY <3>10, <4>2
          <6> QED
            BY <2>1, <3>2, <3>5, <6>1 DEF Below
        <5>2. n.prev = LastDigest(log)
          BY <1>2, <3>1, <3>5, <4>2 DEF IInv, ChainInv
        <5> QED
          BY <5>1, <5>2 DEF LinkHolds, LastDigest
      <4>3. ASSUME NEW e \in log, e.id \notin overlapped PROVE LinkHolds(log \cup {n}, e)
        <5>1. e.id < n.id
          BY <3>10, <4>3
        <5> QED
          BY <1>2, <2>10, <4>3, <5>1 DEF IInv, ChainInv
      <4>4. ASSUME NEW v \in Writers, tx'[v].pc = "inserted", tx'[v].id \notin overlapped'
            PROVE  tx'[v].prev = LastDigest(log)'
        <5>1. v # w /\ Busy(v) /\ tx'[v] = tx[v]
          BY <2>2, <3>6, <4>4 DEF Busy
        <5> QED
          BY <1>2, <3>1, <3>6, <4>4, <5>1 DEF IInv, AloneInv
      <4> QED
        BY <1>2, <3>6, <4>1, <4>2, <4>3, <4>4 DEF ChainInv, IInv
    <3>13. TamperInv'
      <4>1. ASSUME tamper = "removed", overlapped = {} PROVE \E e \in log' : ~LinkHolds(log', e)
        <5>1. PICK e \in log : ~LinkHolds(log, e)
          BY <1>2, <4>1 DEF IInv, TamperInv
        <5>2. e.id < n.id
          BY <3>10, <4>1
        <5> QED
          BY <2>10, <3>6, <5>1, <5>2
      <4> QED
        BY <1>2, <3>6, <4>1 DEF IInv, TamperInv
    <3>14. PageInv'
      BY <1>2, <3>6 DEF IInv, PageInv, Visible
    <3> QED
      BY <3>8, <3>9, <3>11, <3>12, <3>13, <3>14 DEF IInv
  <2>12. ASSUME NEW e \in log, Alter(e) PROVE IInv'
    <3>1. PICK n \in Entry : n = [e EXCEPT !.body = Forged]
      BY <2>1 DEF Entry
    <3>2. n.id = e.id /\ n.body = Forged /\ n.prev = e.prev /\ n.digest = e.digest /\ n.tenant = e.tenant
      BY <2>1, <3>1 DEF Entry
    <3>3. /\ log' = (log \ {e}) \cup {n} /\ tamper = "none" /\ tamper' = "altered"
          /\ UNCHANGED <<nextId, tx, page, overlapped>>
      BY <2>12, <3>1 DEF Alter
    <3>4. TypeOK'
      BY <1>2, <3>3 DEF IInv, TypeOK
    <3>5. IsFiniteSet(log')
      BY <1>2, <3>3, FS_AddElement, FS_RemoveElement DEF IInv, IdsInv
    <3>6. IdsInv' /\ AloneInv'
      BY <1>2, <3>2, <3>3, <3>5 DEF IInv, IdsInv, AloneInv, Busy
    <3>7. ~ContentHolds(n)
      <4>1. e.digest = Digest(e.prev, e.tenant, e.body) /\ e.body \in Ids
        BY <1>2, <2>1, <3>3 DEF IInv, ChainInv, ContentHolds, Entry
      <4> QED
        BY <2>1, <2>4, <3>2, <4>1 DEF ContentHolds
    <3>8. TamperInv'
      BY <3>3, <3>7 DEF TamperInv
    <3> QED
      BY <3>3, <3>4, <3>6, <3>8 DEF IInv, ChainInv, PageInv
  <2>13. ASSUME NEW e \in log, Remove(e) PROVE IInv'
    <3>1. /\ log' = log \ {e} /\ tamper = "none" /\ tamper' \in {"removed", "truncated"}
          /\ tamper' = "removed" => Below(log, e) # {} /\ Newest(log) # e
          /\ UNCHANGED <<nextId, tx, page, overlapped>>
      BY <2>13 DEF Remove
    <3>2. TypeOK'
      BY <1>2, <3>1 DEF IInv, TypeOK
    <3>3. IdsInv' /\ AloneInv'
      BY <1>2, <3>1, FS_RemoveElement DEF IInv, IdsInv, AloneInv, Busy
    (* The entry above the gap still names the one that filled it.            *)
    <3>4. ASSUME tamper' = "removed", overlapped = {} PROVE \E s \in log' : ~LinkHolds(log', s)
      <4>1. \A f \in log : ContentHolds(f) /\ LinkHolds(log, f) /\ f.body \in Ids /\ f.id \in Int
        BY <1>2, <2>1, <3>1, <3>4 DEF IInv, ChainInv, Entry
      <4>2. PICK s \in log : e.id < s.id /\ \A f \in log : e.id < f.id => s.id <= f.id
        <5> DEFINE T == {f.id : f \in {f \in log : e.id < f.id}}
        <5>1. Newest(log) \in log /\ e.id <= Newest(log).id
          BY <1>2, NewestIs DEF IInv
        <5>2. e.id < Newest(log).id
          BY <1>2, <3>1, <3>4, <4>1, <5>1 DEF IInv, IdsInv
        <5>3. T \in SUBSET (0 .. MaxId) /\ T # {}
          BY <2>1, <5>1, <5>2
        <5>4. PICK i \in T : \A j \in T : i <= j
          <6> HIDE DEF T
          <6> QED
            BY <5>3, Extremes, <2>1
        <5> QED
          BY <5>4
      <4>3. e \in Below(log, s) /\ \A f \in Below(log, s) : f.id <= e.id
        BY <4>1, <4>2 DEF Below
      <4>4. Newest(Below(log, s)) = e
        <5>1. Below(log, s) \in SUBSET log
          BY DEF Below
        <5>2. /\ Newest(Below(log, s)) \in Below(log, s)
              /\ e.id <= Newest(Below(log, s)).id
          BY <1>2, <4>3, <5>1, NewestIs DEF IInv
        <5> QED
          BY <1>2, <4>1, <4>3, <5>1, <5>2 DEF IInv, IdsInv
      <4>5. s.prev = e.digest
        BY <4>1, <4>3, <4>4 DEF LinkHolds
      <4>6. Below(log', s) = Below(log, e)
        <5>1. ASSUME NEW f \in log PROVE f.id < s.id /\ f # e <=> f.id < e.id
          BY <1>2, <4>1, <4>2, <5>1 DEF IInv, IdsInv
        <5> QED
          BY <3>1, <5>1 DEF Below
      <4>7. e.prev = Newest(Below(log, e)).digest
        BY <3>1, <3>4, <4>1 DEF LinkHolds
      <4>8. e.digest # e.prev
        BY <2>1, <2>4, <4>1 DEF ContentHolds
      <4>9. s \in log' /\ ~LinkHolds(log', s)
        BY <3>1, <3>4, <4>1, <4>2, <4>5, <4>6, <4>7, <4>8 DEF LinkHolds
      <4> QED
        BY <4>9
    <3> QED
      BY <3>1, <3>2, <3>3, <3>4 DEF IInv, ChainInv, PageInv, TamperInv
  <2>14. ASSUME NEW t \in Tenants, InsertAround(t) PROVE IInv'
    <3>1. nextId \in Ids /\ NoDigest \in Seq(Tenants \X Ids)
      BY <1>2, <2>1, <2>14 DEF InsertAround, IInv, TypeOK, NoDigest
    <3>2. PICK n \in Entry : n = [id |-> nextId, tenant |-> t, body |-> Forged,
                                  prev |-> NoDigest, digest |-> NoDigest]
      BY <3>1 DEF Entry
    <3>3. n.id = nextId /\ n.digest = NoDigest
      BY <3>2
    <3>4. /\ log' = log \cup {n} /\ nextId' = nextId + 1 /\ tamper' = "inserted"
          /\ UNCHANGED <<tx, page, overlapped>>
      BY <2>14, <3>2 DEF InsertAround
    <3>5. TypeOK'
      BY <1>2, <2>1, <3>1, <3>4 DEF IInv, TypeOK
    <3>6. IdsInv'
      <4>1. IsFiniteSet(log')
        BY <1>2, <3>4, FS_AddElement DEF IInv, IdsInv
      <4>2. /\ \A e, f \in log' : e.id = f.id => e = f
            /\ \A e \in log' : e.id < nextId'
        BY <1>2, <2>1, <3>3, <3>4 DEF IInv, IdsInv
      <4>3. ASSUME NEW v \in Writers, Busy(v)'
            PROVE  /\ tx'[v].id \in Ids /\ tx'[v].id < nextId'
                   /\ \A e \in log' : e.id # tx'[v].id
                   /\ \A u \in Writers : u # v /\ Busy(u)' => tx'[u].id # tx'[v].id
        <5>1. /\ tx[v].id \in Ids /\ tx[v].id < nextId
              /\ \A e \in log : e.id # tx[v].id
              /\ \A u \in Writers : u # v /\ Busy(u) => tx[u].id # tx[v].id
          BY <1>2, <3>4, <4>3 DEF IInv, IdsInv, Busy
        <5>2. tx[v].id < nextId' /\ tx[v].id # nextId
          BY <2>1, <3>4, <5>1
        <5> QED
          BY <3>3, <3>4, <5>1, <5>2 DEF Busy
      <4> QED
        BY <4>1, <4>2, <4>3 DEF IdsInv
    <3>7. AloneInv' /\ ChainInv' /\ TamperInv' /\ PageInv'
      BY <1>2, <3>3, <3>4 DEF IInv, AloneInv, ChainInv, TamperInv, PageInv, Busy
    <3> QED
      BY <3>5, <3>6, <3>7 DEF IInv
  (* A turn of the page gives what is at the top and keeps the rest ahead.    *)
  <2>15. ASSUME NEW before \in 1 .. MaxId + 1, NEW got \in SUBSET Ids, NEW owed \in SUBSET Ids,
                tamper = "none" => owed \subseteq got \cup {e.id : e \in Visible(before)},
                Turn(before, got, owed), UNCHANGED <<nextId, log, tx, tamper, overlapped>>
         PROVE  IInv'
    <3>1. PICK ids : ids = TopIds(Visible(before), Limit)
      OBVIOUS
    <3>2. Visible(before) \in SUBSET log
      BY DEF Visible
    <3>3. /\ ids \subseteq {e.id : e \in Visible(before)}
          /\ \A e \in Visible(before), i \in ids : i <= e.id => e.id \in ids
          /\ Cardinality(ids) # Limit => \A e \in Visible(before) : e.id \in ids
      BY <1>2, <3>1, <3>2, <1>pf DEF IInv
    <3>4. ids \in SUBSET Ids
      BY <2>1, <3>2, <3>3
    <3>5. page' \in Page /\ PageInv'
      <4>1. CASE Cardinality(ids) = Limit
        <5>1. ids # {}
          BY <4>1, FS_EmptySet, AuditAssumption
        <5>2. ids \in SUBSET (0 .. MaxId)
          BY <2>1, <3>4
        <5>3. PICK i \in ids : i = (CHOOSE k \in ids : \A j \in ids : k <= j) /\ \A j \in ids : i <= j
          BY <2>1, <5>1, <5>2, Extremes
        <5>4. page' = [pc |-> "paging", got |-> got \cup ids, owed |-> owed, before |-> i]
          BY <2>15, <3>1, <4>1, <5>3 DEF Turn
        <5>5. page'.pc = "paging" /\ page'.got = got \cup ids /\ page'.owed = owed /\ page'.before = i
          BY <5>4
        <5>6. page' \in Page
          BY <2>1, <3>4, <5>4 DEF Page
        <5>7. ASSUME NEW e \in Visible(before), e.id \notin ids PROVE e \in Visible(i)
          <6>1. e \in log /\ e.id \in Int /\ i \in Int
            BY <2>1, <3>2, <3>4
          <6>2. ~(i <= e.id)
            BY <3>3, <5>7
          <6> QED
            BY <6>1, <6>2 DEF Visible
        <5>8. tamper = "none" => owed \subseteq (got \cup ids) \cup {e.id : e \in Visible(i)}
          BY <2>15, <5>7
        <5>9. Visible(i)' = Visible(i)
          BY <2>15 DEF Visible
        <5> QED
          BY <2>15, <5>5, <5>6, <5>8, <5>9 DEF PageInv
      <4>2. CASE Cardinality(ids) # Limit
        <5>1. page' = [pc |-> "done", got |-> got \cup ids, owed |-> owed, before |-> before]
          BY <2>15, <3>1, <4>2 DEF Turn
        <5>2. page'.pc = "done" /\ page'.got = got \cup ids /\ page'.owed = owed
          BY <5>1
        <5>3. page' \in Page
          BY <3>4, <5>1 DEF Page
        <5> QED
          BY <2>15, <3>3, <4>2, <5>2, <5>3 DEF PageInv
      <4> QED
        BY <4>1, <4>2
    <3>6. TypeOK'
      BY <1>2, <2>15, <3>5 DEF IInv, TypeOK
    <3>7. IdsInv' /\ AloneInv' /\ ChainInv' /\ TamperInv'
      BY <1>2, <2>15 DEF IInv, IdsInv, AloneInv, ChainInv, TamperInv, Busy
    <3> QED
      BY <3>5, <3>6, <3>7 DEF IInv
  <2>16. CASE FirstPage
    <3>1. {e.id : e \in Visible(MaxId + 1)} \in SUBSET Ids
      BY <2>1 DEF Visible
    <3>2. MaxId + 1 \in 1 .. MaxId + 1
      BY <2>1
    <3> QED
      BY <2>15, <2>16, <3>1, <3>2 DEF FirstPage
  <2>17. CASE NextPage
    <3>1. page.before \in 1 .. MaxId + 1 /\ page.got \in SUBSET Ids /\ page.owed \in SUBSET Ids
      BY <1>2 DEF IInv, TypeOK, Page
    <3>2. tamper = "none" => page.owed \subseteq page.got \cup {e.id : e \in Visible(page.before)}
      BY <1>2, <2>17 DEF NextPage, IInv, PageInv
    <3> QED
      BY <2>15, <2>17, <3>1, <3>2 DEF NextPage
  <2>18. CASE Leave \/ UNCHANGED vars
    <3>1. IdlePage \in Page /\ IdlePage.pc = "idle"
      BY <2>1 DEF IdlePage, Page, Ids
    <3>2. page' = page \/ page' = IdlePage
      BY <2>18 DEF Leave, vars
    <3>3. UNCHANGED <<nextId, log, tx, tamper, overlapped>>
      BY <2>18 DEF Leave, vars
    <3>4. TypeOK'
      BY <1>2, <3>1, <3>2, <3>3 DEF IInv, TypeOK
    <3>5. IdsInv' /\ AloneInv' /\ ChainInv' /\ TamperInv'
      BY <1>2, <3>3 DEF IInv, IdsInv, AloneInv, ChainInv, TamperInv, Busy
    <3>6. PageInv'
      BY <1>2, <3>1, <3>2, <3>3 DEF IInv, PageInv, Visible
    <3> QED
      BY <3>4, <3>5, <3>6 DEF IInv
  <2> QED
    BY <1>2, <2>7, <2>8, <2>9, <2>11, <2>12, <2>13, <2>14, <2>16, <2>17, <2>18 DEF Next
<1> QED
  BY <1>1, <1>2, PTL DEF Spec

(* A log nobody tampered with breaks at most at an entry of two transactions   *)
(* that overlapped, however many write and whatever is rolled back.            *)
THEOREM OnlyOverlapBreaks == Spec => []BreaksOnlyWhereWritersOverlapped
<1>1. ASSUME IInv PROVE BreaksOnlyWhereWritersOverlapped
  <2> SUFFICES ASSUME tamper = "none", NEW e \in log, e.id \notin overlapped PROVE Sound(log, e)
    BY DEF BreaksOnlyWhereWritersOverlapped
  <2>1. LinkHolds(log, e) /\ ContentHolds(e)
    BY <1>1 DEF IInv, ChainInv
  <2>2. e.digest # NoDigest
    <3>1. e.prev \in Seq(Tenants \X Ids) /\ e.digest \in Seq(Tenants \X Ids)
      BY <1>1 DEF IInv, TypeOK, Entry
    <3>2. Len(e.digest) = Len(e.prev) + 1 /\ Len(e.prev) \in Nat
      BY <2>1, <3>1 DEF ContentHolds, Digest
    <3> QED
      BY <3>1, <3>2 DEF NoDigest
  <2> QED
    BY <2>1, <2>2 DEF Sound
<1> QED
  BY <1>1, AuditInvariant, PTL

(* What is altered or inserted shows for good, forks or not; what is removed   *)
(* from between others shows in a log without overlaps.                        *)
THEOREM TamperingIsSeen == Spec => []TamperingShows
<1>1. IInv => TamperingShows
  BY DEF IInv, TamperInv, TamperingShows, Intact, Sound
<1> QED
  BY <1>1, AuditInvariant, PTL

(* Whoever pages to the end has been given every entry of the firm that was   *)
(* committed before the first page.                                           *)
THEOREM PagingIsComplete == Spec => []PagesAreComplete
<1>1. IInv => PagesAreComplete
  BY DEF IInv, PageInv, PagesAreComplete
<1> QED
  BY <1>1, AuditInvariant, PTL
=============================================================================
