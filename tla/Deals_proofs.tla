---------------------------- MODULE Deals_proofs ----------------------------
(***************************************************************************)
(* What is known of deals and kept of them, for any processes, contents    *)
(* and bounds: the pipeline's snapshots stay and its canonical layer reads *)
(* the same, a browser keeps what is typed into a deal, and the desk's     *)
(* break-evens, verdicts and cash flows are what they claim to be.         *)
(***************************************************************************)
EXTENDS Snapshot, CanonicalLayer, ClientDeals, Underwriting, FiniteSetTheorems, WellFoundedInduction, TLAPS

Pcs == {"idle", "live", "quarantine", "prev", "keep", "write"}
Answers == {"none", "absent", "corrupt", "present", "unavailable", "unsupported-version",
            "saved", "failed"}
Held == Contents \cup {Nothing}
Keys == Raws \cup {NoRaw}
Calls == [pc : Pcs, kind : Kinds, saw : Keys, prior : Held, demote : Keys, stale : BOOLEAN,
          owed : Held, answer : Answers]

TypeOK ==
  /\ store \in [live : Keys, prev : Keys]
  /\ held \in [Procs -> Contents]
  /\ op \in [Procs -> Calls]
  /\ damage \in Nat /\ excused \in BOOLEAN
  /\ promise \in Held /\ fallback \in Held

(* The live key is passed over, and the fallback read.                       *)
Falls(raw) == raw = NoRaw \/ (raw # NoRaw /\ DecodeError(raw) = "corrupt")

(* What a save that writes next knows of the two keys.                       *)
Ready(o) ==
  \/ /\ o.demote # NoRaw /\ Decodes(o.demote) /\ store.prev = o.demote
     /\ o.prior = o.demote.content
     /\ store.live = o.demote \/ Falls(store.live)
  \/ /\ o.demote = NoRaw /\ Falls(store.live)
     /\ o.kind # "replace" => ~Decodes(store.prev)

(* What a call nobody has written beside knows of the two keys.              *)
Knowing(o) ==
  /\ o.pc = "quarantine" =>
       o.saw = store.live /\ o.kind # "list" /\ store.live # NoRaw /\ Falls(store.live)
  /\ o.pc = "prev" /\ o.kind # "list" => o.saw = store.live /\ Falls(store.live)
  /\ o.pc = "prev" /\ o.kind = "list" => store.live = NoRaw
  /\ o.pc = "keep" =>
       /\ o.demote # NoRaw /\ Decodes(o.demote) /\ o.prior = o.demote.content
       /\ \/ store.live = o.demote
          \/ Falls(store.live) /\ store.prev = o.demote
  /\ o.pc = "write" => Ready(o)

(* Only saves write, what is demoted was read, and a call under way has not  *)
(* answered.                                                                 *)
Shape(o) ==
  /\ o.pc \in {"live", "quarantine", "prev"} => o.demote = NoRaw
  /\ o.pc = "keep" => o.demote # NoRaw
  /\ o.pc \in {"keep", "write"} => o.kind \in {"merge", "replace"}
  /\ o.pc = "prev" => o.kind # "replace"
  /\ o.pc # "idle" => o.answer = "none"

KeysInv ==
  ~excused =>
    /\ Includes(Readable, promise)
    /\ Decodes(store.prev) => Includes(store.prev.content, fallback)
    /\ damage = 0 /\ fallback # Nothing => Decodes(store.prev)
    /\ damage = 0 /\ Decodes(store.prev) => Decodes(store.live)
CallOK(o) ==
  /\ Shape(o)
  /\ ~excused /\ o.pc # "idle" /\ o.owed # Nothing => promise # Nothing
  /\ ~excused /\ ~o.stale => Knowing(o)
  /\ ~excused /\ ~o.stale /\ o.answer = "absent" => o.owed = Nothing
CallsInv == \A p \in Procs : CallOK(op[p])

IInv == TypeOK /\ KeysInv /\ CallsInv
-----------------------------------------------------------------------------
(* Induction and recursion up to a bound.                                    *)

(* What holds of 0 and passes from one number to the next holds of all.      *)
LEMMA UpTo ==
  ASSUME NEW n \in Nat, NEW S, 0 \in S, \A i \in 1 .. n : i - 1 \in S => i \in S
  PROVE  \A i \in 0 .. n : i \in S
<1> DEFINE T == (0 .. n) \ S
           Up(i) == {j \in T : j <= i}
           F == {Up(i) : i \in T}
<1> SUFFICES ASSUME T # {} PROVE FALSE
  OBVIOUS
<1>1. IsFiniteSet(T)
  BY FS_Interval, FS_Subset, 0 \in Int, n \in Int
<1>2. ASSUME NEW i \in T PROVE Up(i) \in FiniteSubsetsOf(T)
  <2>1. Up(i) \in SUBSET T
    OBVIOUS
  <2> QED
    BY <1>1, <2>1, FS_Subset DEF FiniteSubsetsOf
<1>3. F \subseteq FiniteSubsetsOf(T) /\ F # {}
  BY <1>2
<1>4. PICK U \in F : \A V \in F : ~(<<V, U>> \in StrictSubsetOrdering(T))
  <2> HIDE DEF F
  <2> QED
    BY <1>3, FS_StrictSubsetOrderingWellFounded, WFMin
<1>5. PICK i \in T : U = Up(i)
  BY <1>4
<1>6. i \in 1 .. n /\ i - 1 \in T
  OBVIOUS
<1>7. Up(i - 1) \subseteq U /\ i \in U /\ i \notin Up(i - 1)
  <2>1. \A j \in T : j <= i - 1 => j <= i
    BY <1>6
  <2>2. ~(i <= i - 1) /\ i <= i
    BY <1>6
  <2> QED
    BY <1>5, <2>1, <2>2
<1>8. Up(i - 1) \in F /\ U \in SUBSET T
  BY <1>5, <1>6
<1> QED
  BY <1>4, <1>7, <1>8 DEF StrictSubsetOrdering

Steps(n, V) == [1 .. n -> [V -> V]]
Computed(f, n, V, first, step) ==
  f \in [0 .. n -> V] /\ f[0] = first /\ \A i \in 1 .. n : f[i] = step[i][f[i - 1]]

(* A first value, and each value from the last: there is such a function.    *)
LEMMA Recursion ==
  ASSUME NEW n \in Nat, NEW V, NEW first \in V, NEW step \in Steps(n, V)
  PROVE  \E f : Computed(f, n, V, first, step)
<1> USE DEF Steps, Computed
<1> DEFINE Computes(f, m) == f[0] = first /\ \A i \in 1 .. m : f[i] = step[i][f[i - 1]]
           S == {m \in 0 .. n : \E f \in [0 .. m -> V] : Computes(f, m)}
<1>1. 0 \in S
  <2> DEFINE g == [i \in 0 .. 0 |-> first]
  <2>1. g \in [0 .. 0 -> V] /\ Computes(g, 0) /\ 0 \in 0 .. n
    OBVIOUS
  <2> HIDE DEF g, Computes
  <2> QED
    BY <2>1
<1>2. ASSUME NEW m \in 1 .. n, m - 1 \in S PROVE m \in S
  <2>1. PICK f \in [0 .. m - 1 -> V] : Computes(f, m - 1)
    BY <1>2
  <2> DEFINE g == [i \in 0 .. m |-> IF i = m THEN step[m][f[m - 1]] ELSE f[i]]
  <2>2. g \in [0 .. m -> V]
    <3>1. step[m][f[m - 1]] \in V
      OBVIOUS
    <3> QED
      BY <3>1
  <2>3. \A i \in 0 .. m - 1 : g[i] = f[i]
    OBVIOUS
  <2>4. g[m] = step[m][g[m - 1]]
    BY <2>3
  <2>5. Computes(g, m)
    <3> HIDE DEF g
    <3>1. g[0] = first
      BY <2>1, <2>3
    <3>2. ASSUME NEW i \in 1 .. m PROVE g[i] = step[i][g[i - 1]]
      <4>1. CASE i = m
        BY <2>4, <4>1
      <4>2. CASE i # m
        <5>1. i \in 1 .. m - 1 /\ i \in 0 .. m - 1 /\ i - 1 \in 0 .. m - 1
          BY <4>2
        <5> QED
          BY <2>1, <2>3, <5>1
      <4> QED
        BY <4>1, <4>2
    <3> QED
      BY <3>1, <3>2
  <2> HIDE DEF g, Computes
  <2> QED
    BY <2>2, <2>5
<1> HIDE DEF S
<1>3. \A i \in 1 .. n : i - 1 \in S => i \in S
  BY <1>2
<1>4. \A i \in 0 .. n : i \in S
  BY ONLY n \in Nat, <1>1, <1>3, UpTo
<1> QED
  BY <1>4 DEF S

-----------------------------------------------------------------------------
(* A save that was acknowledged stays readable, and "nothing was ever saved"  *)
(* is never made up, whatever crashes, damage and failed calls come between.  *)
THEOREM PromisesAreKept == Spec => []PromisesHold
\* What joins goes to the end.
<1>jg. ASSUME NEW T, NEW rows \in Seq(T), NEW more \in Seq(T), NEW wanted
       PROVE  /\ Joined(rows, more, wanted) \in Seq(T)
              /\ Len(rows) <= Len(Joined(rows, more, wanted))
              /\ \A i \in DOMAIN rows : Joined(rows, more, wanted)[i] = rows[i]
  <2> USE <1>jg
  <2> DEFINE n == Len(more)
             After(i, s) == IF more[i] \in wanted \ ToSet(s) THEN Append(s, more[i]) ELSE s
             sum[i \in 0 .. n] == IF i = 0 THEN rows ELSE After(i, sum[i - 1])
             step == [i \in 1 .. n |-> [s \in Seq(T) |-> After(i, s)]]
  <2>1. n \in Nat /\ \A i \in 1 .. n : more[i] \in T
    OBVIOUS
  <2>2. Joined(rows, more, wanted) = sum[n]
    BY DEF Joined
  <2>3. \A i \in 1 .. n, s \in Seq(T) : After(i, s) \in Seq(T)
    BY <2>1
  <2> HIDE DEF After
  <2>4. step \in [1 .. n -> [Seq(T) -> Seq(T)]]
    BY <2>3
  <2>5. PICK f \in [0 .. n -> Seq(T)] : f[0] = rows /\ \A i \in 1 .. n : f[i] = step[i][f[i - 1]]
    <3> DEFINE V == Seq(T)
    <3>1. rows \in V /\ step \in Steps(n, V) /\ n \in Nat
      BY <2>1, <2>4 DEF Steps
    <3> HIDE DEF step, n, V
    <3>2. \E f : Computed(f, n, V, rows, step)
      BY ONLY <3>1, Recursion
    <3> QED
      BY <3>2 DEF V, Computed
  <2>6. f = [i \in 0 .. n |-> IF i = 0 THEN rows ELSE After(i, f[i - 1])]
    <3>1. ASSUME NEW i \in 1 .. n PROVE f[i] = After(i, f[i - 1])
      <4>1. i - 1 \in 0 .. n /\ f[i - 1] \in Seq(T)
        <5> HIDE DEF n, step
        <5> QED
          BY <2>1, <2>5
      <4>2. step[i][f[i - 1]] = After(i, f[i - 1])
        BY <4>1
      <4> QED
        BY <2>5, <4>2
    <3> QED
      BY <2>1, <2>5, <3>1
  <2>7. sum = [i \in 0 .. n |-> IF i = 0 THEN rows ELSE After(i, sum[i - 1])]
    BY <2>6
  <2> DEFINE Growing(s) == /\ s \in Seq(T) /\ Len(rows) <= Len(s)
                         /\ \A i \in DOMAIN rows : s[i] = rows[i]
             S == {i \in 0 .. n : Growing(sum[i])}
  <2>8. sum[0] = rows /\ \A i \in 1 .. n : sum[i] = After(i, sum[i - 1])
    <3> HIDE DEF sum, n
    <3> QED
      BY <2>1, <2>7
  <2> HIDE DEF sum
  <2>9. ASSUME NEW s, NEW i \in 1 .. n, Growing(s)
        PROVE  Growing(After(i, s))
    <3>1. CASE After(i, s) = s
      BY <2>9, <3>1
    <3>2. CASE After(i, s) = Append(s, more[i])
      BY <2>1, <2>9, <3>2
    <3> QED
      BY <3>1, <3>2 DEF After
  <2> HIDE DEF Growing
  <2>10. 0 \in S
    BY <2>1, <2>8 DEF Growing
  <2>11. \A i \in 1 .. n : i - 1 \in S => i \in S
    BY <2>8, <2>9
  <2> HIDE DEF S, n
  <2>12. n \in S
    <3>1. \A i \in 0 .. n : i \in S
      BY ONLY <2>1, <2>10, <2>11, UpTo
    <3> QED
      BY <2>1, <3>1
  <2> QED
    BY <2>2, <2>12 DEF S, Growing
\* What contents include, and what a merge keeps.
<1>or. /\ \A c \in Held : Includes(c, c)
       /\ \A c, d, e \in Held : Includes(c, d) /\ Includes(d, e) => Includes(c, e)
  <2>1. ASSUME NEW c \in Contents PROVE Includes(c, c)
    <3> DEFINE place == [i \in DOMAIN c.facts |-> i]
    <3>1. /\ place \in [DOMAIN c.facts -> DOMAIN c.facts]
          /\ \A i, j \in DOMAIN c.facts : i < j => place[i] < place[j]
          /\ \A i \in DOMAIN c.facts : c.facts[place[i]] = c.facts[i]
      OBVIOUS
    <3>2. InOrder(c.facts, c.facts)
      <4> HIDE DEF place
      <4> QED
        BY <3>1 DEF InOrder
    <3>3. c # Nothing
      BY SnapshotAssumption
    <3> QED
      BY <3>2, <3>3 DEF Includes, Knows
  <2>2. ASSUME NEW c \in Contents, NEW d \in Contents, NEW e \in Contents,
               Includes(c, d), Includes(d, e)
        PROVE  Includes(c, e)
    <3>1. c # Nothing /\ d # Nothing /\ e # Nothing
      BY SnapshotAssumption
    <3>2. PICK f \in [DOMAIN d.facts -> DOMAIN c.facts] :
            /\ \A i, j \in DOMAIN d.facts : i < j => f[i] < f[j]
            /\ \A i \in DOMAIN d.facts : c.facts[f[i]] = d.facts[i]
      BY <2>2, <3>1 DEF Includes, InOrder
    <3>3. PICK g \in [DOMAIN e.facts -> DOMAIN d.facts] :
            /\ \A i, j \in DOMAIN e.facts : i < j => g[i] < g[j]
            /\ \A i \in DOMAIN e.facts : d.facts[g[i]] = e.facts[i]
      BY <2>2, <3>1 DEF Includes, InOrder
    <3> DEFINE place == [i \in DOMAIN e.facts |-> f[g[i]]]
    <3>4. /\ place \in [DOMAIN e.facts -> DOMAIN c.facts]
          /\ \A i, j \in DOMAIN e.facts : i < j => place[i] < place[j]
          /\ \A i \in DOMAIN e.facts : c.facts[place[i]] = e.facts[i]
      BY <3>2, <3>3
    <3>5. InOrder(e.facts, c.facts)
      <4> HIDE DEF place
      <4> QED
        BY <3>4 DEF InOrder
    <3> QED
      BY <2>2, <3>1, <3>5 DEF Includes, Knows
  <2> QED
    BY <2>1, <2>2 DEF Held, Includes
<1>mk. ASSUME NEW t \in Contents, NEW i \in Contents
       PROVE  MergeInto(t, i) \in Contents /\ Includes(MergeInto(t, i), t)
  <2> USE <1>mk
  <2> DEFINE Rows2 == [from : Ids, type : EDGE_TYPES, to : Ids]
             nodes == MergeNodes(t.graph.nodes, i.graph.nodes)
             edges == MergeEdges(nodes, t.graph.edges, i.graph.edges)
             ratings == MergeFacts(t.facts, i.facts)
             m == [graph |-> [nodes |-> nodes, edges |-> edges], facts |-> ratings]
  <2>1. t # Nothing /\ MergeInto(t, i) = m
    BY SnapshotAssumption DEF MergeInto
  <2>2. nodes \in UNION {[known -> NODE_TYPES] : known \in SUBSET Ids}
    <3>1. PICK A \in SUBSET Ids : t.graph.nodes \in [A -> NODE_TYPES]
      BY DEF Contents
    <3>2. PICK B \in SUBSET Ids : i.graph.nodes \in [B -> NODE_TYPES]
      BY DEF Contents
    <3>3. nodes \in [A \cup B -> NODE_TYPES]
      BY <3>1, <3>2 DEF MergeNodes
    <3> QED
      BY <3>3
  <2>3. /\ edges \in Seq(Rows2)
        /\ Len(t.graph.edges) <= Len(edges)
        /\ \A k \in DOMAIN t.graph.edges : edges[k] = t.graph.edges[k]
    <3>1. t.graph.edges \in Seq(Rows2) /\ i.graph.edges \in Seq(Rows2)
      BY DEF Contents
    <3> HIDE DEF Rows2, nodes
    <3> QED
      BY <3>1, <1>jg DEF MergeEdges
  <2>4. /\ ratings \in Seq(Rows)
        /\ Len(t.facts) <= Len(ratings)
        /\ \A k \in DOMAIN t.facts : ratings[k] = t.facts[k]
    <3>1. t.facts \in Seq(Rows) /\ i.facts \in Seq(Rows)
      BY DEF Contents
    <3> QED
      BY <3>1, <1>jg DEF MergeFacts
  <2>5. \A id \in DOMAIN t.graph.nodes : id \in DOMAIN nodes /\ nodes[id] = t.graph.nodes[id]
    BY DEF MergeNodes
  <2>6. t.graph.edges \in Seq(Rows2) /\ t.facts \in Seq(Rows)
    BY DEF Contents
  <2> HIDE DEF nodes, edges, ratings
  <2>7. m \in Contents
    BY <2>2, <2>3, <2>4 DEF Contents
  <2>8. ToSet(t.graph.edges) \subseteq ToSet(edges)
    BY <2>3, <2>6 DEF ToSet
  <2>9. InOrder(t.facts, ratings)
    <3> DEFINE place == [k \in DOMAIN t.facts |-> k]
    <3>1. /\ place \in [DOMAIN t.facts -> DOMAIN ratings]
          /\ \A k, l \in DOMAIN t.facts : k < l => place[k] < place[l]
          /\ \A k \in DOMAIN t.facts : ratings[place[k]] = t.facts[k]
      BY <2>4, <2>6
    <3> HIDE DEF place
    <3> QED
      BY <3>1 DEF InOrder
  <2>10. m # Nothing
    BY <2>7, SnapshotAssumption
  <2>11. Includes(m, t)
    <3>1. m.graph.nodes = nodes /\ m.graph.edges = edges /\ m.facts = ratings
      OBVIOUS
    <3> HIDE DEF m
    <3> QED
      BY <2>5, <2>8, <2>9, <2>10, <3>1 DEF Includes, Knows
  <2> QED
    BY <2>1, <2>7, <2>11
\* What the forms of a payload decide.
<1>fo. /\ \A raw : Decodes(raw) => raw # NoRaw /\ ~Falls(raw)
       /\ \A raw : raw # NoRaw /\ DecodeError(raw) = "unsupported-version" => ~Falls(raw)
       /\ \A raw : raw # NoRaw /\ DecodeError(raw) = "corrupt" => Falls(raw)
       /\ ~Decodes(NoRaw) /\ Falls(NoRaw)
       /\ \A c \in Contents :
            /\ \A form \in {"cut", "edited"} :
                 Raw(form, c) \in Raws /\ ~Decodes(Raw(form, c)) /\ Falls(Raw(form, c))
            /\ Raw("v2", c) \in Raws /\ Decodes(Raw("v2", c)) /\ Raw("v2", c).content = c
  <2>1. \A raw : Decodes(raw) => raw # NoRaw /\ ~Falls(raw)
    BY DEF Decodes, Falls
  <2>2. \A raw : raw # NoRaw /\ DecodeError(raw) = "unsupported-version" => ~Falls(raw)
    BY DEF Falls
  <2>3. \A raw : raw # NoRaw /\ DecodeError(raw) = "corrupt" => Falls(raw)
    BY DEF Falls
  <2>4. ~Decodes(NoRaw) /\ Falls(NoRaw)
    BY DEF Decodes, Falls
  <2>5. ASSUME NEW c \in Contents, NEW form \in {"cut", "edited"}
        PROVE  Raw(form, c) \in Raws /\ ~Decodes(Raw(form, c)) /\ Falls(Raw(form, c))
    <3>1. Raw(form, c) \in Raws
      BY DEF Raw, Raws
    <3>2. DecodeError(Raw(form, c)) = "corrupt"
      BY DEF DecodeError, Raw
    <3> QED
      BY <3>1, <3>2, SnapshotAssumption DEF Decodes, Falls
  <2>6. ASSUME NEW c \in Contents
        PROVE  Raw("v2", c) \in Raws /\ Decodes(Raw("v2", c)) /\ Raw("v2", c).content = c
    <3>1. Raw("v2", c) \in Raws /\ Raw("v2", c).content = c
      BY DEF Raw, Raws
    <3>2. DecodeError(Raw("v2", c)) = "none"
      BY DEF DecodeError, Raw
    <3> QED
      BY <3>1, <3>2, SnapshotAssumption DEF Decodes
  <2> QED
    BY <2>1, <2>2, <2>3, <2>4, <2>5, <2>6
\* A call moves, and the store, what is promised and the exceptions stay.
<1>al. ASSUME IInv, UNCHANGED <<store, promise, fallback>>, damage' = damage, held' \in [Procs -> Contents],
              excused' \in BOOLEAN, excused => excused',
              NEW p \in Procs, NEW o \in Calls, op' = [op EXCEPT ![p] = o],
              CallOK(o)'
       PROVE  IInv'
  <2> USE <1>al
  <2>1. TypeOK'
    BY DEF IInv, TypeOK
  <2>2. KeysInv'
    BY DEF IInv, KeysInv, Readable
  <2>3. ASSUME NEW q \in Procs PROVE CallOK(op[q])'
    <3>1. CASE q = p
      <4>1. op'[q] = o
        BY <3>1 DEF IInv, TypeOK
      <4> QED
        BY <4>1 DEF CallOK, Knowing, Ready
    <3>2. CASE q # p
      <4>1. op'[q] = op[q] /\ CallOK(op[q])
        BY <3>2 DEF IInv, TypeOK, CallsInv
      <4> QED
        BY <4>1 DEF CallOK, Knowing, Ready
    <3> QED
      BY <3>1, <3>2
  <2> QED
    BY <2>1, <2>2, <2>3 DEF IInv, CallsInv
\* A call has written: whoever read before it is out of date.
<1>wr. ASSUME IInv, NEW p \in Procs, NEW o \in Calls,
              op' = Outdating(p, [op EXCEPT ![p] = o]), CallOK(o)',
              excused => excused', promise # Nothing => promise' # Nothing
       PROVE  op' \in [Procs -> Calls] /\ CallsInv'
  <2> USE <1>wr
  <2> DEFINE others == [op EXCEPT ![p] = o]
             Late(q) == q # p /\ others[q].pc \in {"quarantine", "prev", "keep", "write"}
  <2>1. others \in [Procs -> Calls] /\ others[p] = o /\ \A q \in Procs \ {p} : others[q] = op[q]
    BY DEF IInv, TypeOK
  <2> HIDE DEF others
  <2>2. \A q \in Procs : op'[q] = IF Late(q) THEN [others[q] EXCEPT !.stale = TRUE] ELSE others[q]
    BY DEF Outdating, others
  <2>3. \A q \in Procs : [others[q] EXCEPT !.stale = TRUE] \in Calls
    BY <2>1 DEF Calls
  <2>4. op' \in [Procs -> Calls]
    <3>1. DOMAIN op' = Procs /\ op' = [q \in Procs |-> op'[q]]
      BY DEF Outdating
    <3> QED
      BY <2>1, <2>2, <2>3, <3>1
  <2>5. ASSUME NEW q \in Procs PROVE CallOK(op[q])'
    <3>1. CASE q = p
      <4>1. op'[q] = o
        BY <2>1, <2>2, <3>1
      <4> QED
        BY <4>1 DEF CallOK, Knowing, Ready
    <3>2. CASE q # p /\ ~Late(q)
      <4>1. op'[q] = op[q] /\ CallOK(op[q]) /\ op[q].pc \notin {"quarantine", "prev", "keep", "write"}
        BY <2>1, <2>2, <3>2 DEF IInv, CallsInv
      <4> QED
        BY <4>1 DEF CallOK, Knowing
    <3>3. CASE Late(q)
      <4> DEFINE s == [op[q] EXCEPT !.stale = TRUE]
      <4>1. /\ op'[q] = s /\ op[q] \in Calls /\ CallOK(op[q])
            /\ op[q].pc \in {"quarantine", "prev", "keep", "write"}
        BY <2>1, <2>2, <3>3 DEF IInv, TypeOK, CallsInv
      <4>2. /\ s.pc = op[q].pc /\ s.kind = op[q].kind /\ s.owed = op[q].owed
            /\ s.answer = op[q].answer /\ s.demote = op[q].demote /\ s.stale
        BY <4>1 DEF Calls
      <4> HIDE DEF s
      <4> QED
        BY <4>1, <4>2 DEF CallOK, Shape
    <3> QED
      BY <3>1, <3>2, <3>3
  <2> QED
    BY <2>4, <2>5 DEF CallsInv
<1>a. ASSUME IInv, NEW p \in Procs
      PROVE  /\ op[p] \in Calls /\ CallOK(op[p])
             /\ \A a \in Answers : /\ Ending(p, a)[p] \in Calls
                                  /\ Ending(p, a) = [op EXCEPT ![p] = Ending(p, a)[p]]
                                  /\ Ending(p, a)[p].pc = "idle"
                                  /\ Ending(p, a)[p].answer = a
                                  /\ Ending(p, a)[p].stale = op[p].stale
                                  /\ Ending(p, a)[p].owed = op[p].owed
             /\ Idle \in Calls /\ CallOK(Idle) /\ CallOK(Idle)'
  <2>1. op[p] \in Calls /\ CallOK(op[p]) /\ op \in [Procs -> Calls]
    BY <1>a DEF IInv, TypeOK, CallsInv
  <2>2. Idle \in Calls
    <3>1. NoRaw \in Keys /\ Nothing \in Held
      BY DEF Keys, Held
    <3> QED
      BY <3>1 DEF Idle, Calls, Pcs, Kinds, Answers
  <2>3. CallOK(Idle) /\ CallOK(Idle)'
    BY DEF CallOK, Shape, Knowing, Idle
  <2>4. ASSUME NEW a \in Answers
        PROVE  /\ Ending(p, a)[p] \in Calls
               /\ Ending(p, a) = [op EXCEPT ![p] = Ending(p, a)[p]]
               /\ Ending(p, a)[p].pc = "idle"
               /\ Ending(p, a)[p].answer = a
               /\ Ending(p, a)[p].stale = op[p].stale
               /\ Ending(p, a)[p].owed = op[p].owed
    <3> DEFINE o == [Idle EXCEPT !.answer = a, !.owed = op[p].owed, !.stale = op[p].stale]
    <3>1. Ending(p, a) = [op EXCEPT ![p] = o] /\ Ending(p, a)[p] = o
      BY <2>1 DEF Ending
    <3>2. /\ o \in Calls /\ o.pc = "idle" /\ o.answer = a
          /\ o.stale = op[p].stale /\ o.owed = op[p].owed
      BY <2>1, <2>2 DEF Calls, Idle
    <3> HIDE DEF o
    <3> QED
      BY <3>1, <3>2
  <2> QED
    BY <2>1, <2>2, <2>3, <2>4
<1>b. ASSUME IInv
      PROVE  /\ Decodes(store.live) => Readable = store.live.content
             /\ Falls(store.live) /\ Decodes(store.prev) => Readable = store.prev.content
             /\ Falls(store.live) /\ ~Decodes(store.prev) => Readable = Nothing
             /\ Readable \in Held
  <2>1. store.live \in Keys /\ store.prev \in Keys
    BY <1>b DEF IInv, TypeOK
  <2>2. \A raw \in Keys : Decodes(raw) => raw.content \in Held
    BY DEF Decodes, Keys, Raws, Held
  <2>3. Readable \in Held
    BY <2>1, <2>2 DEF Readable, Held
  <2>4. Falls(store.live) => ~Decodes(store.live)
    BY <1>fo
  <2> QED
    BY <2>3, <2>4 DEF Readable, Falls
(* Ending without an answer of emptiness, or with one that is excused.       *)
<1>c. ASSUME IInv, NEW p \in Procs, NEW a \in Answers, End(p, a),
             UNCHANGED <<store, promise, fallback, damage>>, held' \in [Procs -> Contents],
             excused' \in BOOLEAN, excused => excused',
             a = "absent" => excused' \/ op[p].stale \/ op[p].owed = Nothing
      PROVE  IInv'
  <2>1. PICK o \in Calls :
          /\ op' = [op EXCEPT ![p] = o]
          /\ o.pc = "idle" /\ o.answer = a /\ o.stale = op[p].stale /\ o.owed = op[p].owed
    BY <1>c, <1>a DEF End
  <2>2. CallOK(o)'
    BY <1>c, <2>1 DEF CallOK, Shape, Knowing
  <2> QED
    BY <1>c, <2>1, <2>2, <1>al
(* Going on under the same kind and promise.                                 *)
<1>d. ASSUME IInv, NEW p \in Procs, NEW o \in Calls, op' = [op EXCEPT ![p] = o],
             o.kind = op[p].kind, o.owed = op[p].owed, o.stale = op[p].stale,
             o.answer = op[p].answer, op[p].pc # "idle", o.pc # "idle",
             UNCHANGED <<store, promise, fallback, damage, held>>,
             excused' \in BOOLEAN, excused => excused',
             o.pc \in {"keep", "write"} => o.kind \in {"merge", "replace"},
             o.pc = "prev" => o.kind # "replace",
             o.pc \in {"live", "quarantine", "prev"} => o.demote = NoRaw,
             o.pc = "keep" => o.demote # NoRaw,
             ~excused' /\ ~o.stale => Knowing(o)
      PROVE  IInv'
  <2>1. CallOK(op[p])
    BY <1>d, <1>a
  <2>2. CallOK(o)'
    BY <1>d, <2>1 DEF CallOK, Shape, Knowing, Ready
  <2>3. /\ held' \in [Procs -> Contents] /\ damage' = damage
        /\ UNCHANGED <<store, promise, fallback>>
    BY <1>d DEF IInv, TypeOK
  <2> QED
    BY <1>d, <2>2, <2>3, <1>al
(* A read has found what it looked for.                                      *)
<1>e. ASSUME IInv, NEW p \in Procs, NEW saw \in Keys, NEW raw \in Keys, Settle(p, saw, raw),
             op[p].pc \in {"live", "prev"}, op[p].kind # "list",
             op[p].kind = "replace" => raw # NoRaw,
             Decodes(raw) \/ raw = NoRaw,
             UNCHANGED <<store, promise, fallback, damage>>,
             excused' \in BOOLEAN, excused => excused',
             ~excused' /\ ~op[p].stale =>
               /\ raw # NoRaw => store.live = raw \/ (Falls(store.live) /\ store.prev = raw)
               /\ raw = NoRaw => Falls(store.live) /\ ~Decodes(store.prev)
      PROVE  IInv'
  <2> DEFINE prior == IF raw = NoRaw THEN Nothing ELSE raw.content
             verdict == IF saw = NoRaw /\ raw = NoRaw THEN "absent"
                       ELSE IF raw = NoRaw THEN "corrupt" ELSE "present"
             o == [op[p] EXCEPT !.saw = saw, !.prior = prior, !.demote = raw]
             pc == IF raw = NoRaw THEN "write" ELSE "keep"
             n == [o EXCEPT !.pc = pc]
  <2>0. raw # NoRaw => raw.content \in Contents
    BY <1>e DEF Keys, Raws
  <2>1. op[p] \in Calls /\ CallOK(op[p]) /\ prior \in Held /\ verdict \in Answers
    <3>1. op[p] \in Calls /\ CallOK(op[p])
      BY <1>a, <1>e
    <3>2. prior \in Held /\ verdict \in Answers
      BY <2>0 DEF Held, Answers
    <3> QED
      BY <3>1, <3>2
  <2>2. CASE op[p].kind \in {"load", "into"}
    <3>1. End(p, verdict)
      BY <1>e, <2>1, <2>2 DEF Settle, Calls
    <3>2. held' \in [Procs -> Contents]
      <4>1. held \in [Procs -> Contents]
        BY <1>e DEF IInv, TypeOK
      <4>2. \/ held' = held
            \/ raw # NoRaw /\ held' = [held EXCEPT ![p] = MergeInto(held[p], raw.content)]
        BY <1>e, <2>1, <2>2 DEF Settle, Calls
      <4>3. raw # NoRaw => MergeInto(held[p], raw.content) \in Contents
        BY <4>1, <1>e, <1>mk DEF Keys, Raws
      <4> QED
        BY <4>1, <4>2, <4>3
    <3>3. verdict = "absent" => excused' \/ op[p].stale \/ op[p].owed = Nothing
      <4> SUFFICES ASSUME verdict = "absent", ~excused', ~op[p].stale
                   PROVE  op[p].owed = Nothing
        OBVIOUS
      <4>1. raw = NoRaw
        OBVIOUS
      <4>2. Readable = Nothing /\ ~excused
        BY <1>b, <1>e, <4>1
      <4>3. promise = Nothing
        BY <1>e, <4>2 DEF IInv, KeysInv, Includes
      <4> QED
        BY <1>e, <2>1, <4>2, <4>3 DEF CallOK
    <3> HIDE DEF verdict
    <3> QED
      BY <1>c, <1>e, <2>1, <3>1, <3>2, <3>3
  <2>3. CASE op[p].kind \notin {"load", "into"}
    <3>1. o \in Calls /\ o.kind = op[p].kind /\ o.owed = op[p].owed /\ o.stale = op[p].stale
          /\ o.answer = op[p].answer /\ o.prior = prior /\ o.demote = raw
      BY <1>e, <2>1 DEF Calls
    <3>2. op' = [op EXCEPT ![p] = n] /\ held' = held
      BY <1>e, <2>1, <2>3, <3>1 DEF Settle
    <3>3. op[p].kind \in {"merge", "replace"}
      BY <1>e, <2>1, <2>3 DEF Calls, Kinds
    <3>5. pc \in Pcs /\ pc \in {"keep", "write"}
          /\ (pc = "write" <=> raw = NoRaw)
      BY DEF Pcs
    <3>7. raw # NoRaw => prior = raw.content
      OBVIOUS
    <3> HIDE DEF o, pc, prior
    <3>4. /\ n \in Calls /\ n.kind = op[p].kind /\ n.owed = op[p].owed /\ n.stale = op[p].stale
          /\ n.answer = op[p].answer /\ n.prior = prior /\ n.demote = raw /\ n.pc = pc
      BY <3>1, <3>5 DEF Calls
    <3> HIDE DEF n
    <3>6. ~excused' /\ ~n.stale => Knowing(n)
      BY <1>e, <3>4, <3>5, <3>7 DEF Knowing, Ready
    <3> QED
      BY <1>d, <1>e, <3>2, <3>3, <3>4, <3>5, <3>6
  <2> QED
    BY <2>2, <2>3
<1>o. ASSUME IInv, NEW p \in Procs
      PROVE  /\ Outgoing(p) \in Contents
             /\ op[p].prior \in Contents /\ op[p].kind = "merge" => Includes(Outgoing(p), op[p].prior)
  <2>1. op[p].prior \in Held /\ held[p] \in Contents
    BY <1>o, <1>a DEF Calls, IInv, TypeOK
  <2>2. CASE op[p].kind # "merge"
    BY <2>1, <2>2 DEF Outgoing, Wants
  <2>3. CASE op[p].kind = "merge" /\ op[p].prior = Nothing
    BY <2>1, <2>3, SnapshotAssumption DEF Outgoing, Wants, MergeInto
  <2>4. CASE op[p].kind = "merge" /\ op[p].prior # Nothing
    <3>1. op[p].prior \in Contents /\ Outgoing(p) = MergeInto(op[p].prior, held[p])
      BY <2>1, <2>4 DEF Outgoing, Wants, Held
    <3> QED
      BY <2>1, <3>1, <1>mk
  <2> QED
    BY <2>2, <2>3, <2>4
(* What a save leaves when its write is whole.                               *)
<1>w. ASSUME IInv, NEW p \in Procs, At(p, "write"),
             store' = [store EXCEPT !.live = Raw("v2", Outgoing(p))], Promised(p)
      PROVE  /\ store' \in [live : Keys, prev : Keys]
             /\ promise' \in Held /\ promise' # Nothing /\ fallback' \in Held
             /\ excused' \in BOOLEAN /\ (excused => excused')
             /\ damage' \in Nat => KeysInv'
  <2> DEFINE out == Outgoing(p)
  <2>1. op[p] \in Calls /\ CallOK(op[p]) /\ held[p] \in Contents
        /\ store \in [live : Keys, prev : Keys] /\ promise \in Held
        /\ op[p].kind \in {"merge", "replace"} /\ op[p].pc = "write"
    BY <1>w, <1>a DEF IInv, TypeOK, CallOK, Shape, At
  <2>2. /\ out \in Contents
        /\ op[p].prior \in Contents /\ op[p].kind = "merge" => Includes(out, op[p].prior)
    BY <1>w, <1>o
  <2> HIDE DEF out
  <2>3. /\ store'.live = Raw("v2", out) /\ store'.prev = store.prev
        /\ store' \in [live : Keys, prev : Keys]
        /\ Decodes(store'.live) /\ store'.live.content = out
    BY <1>w, <2>1, <2>2, <1>fo DEF Keys, out
  <2>4. promise' \in Contents /\ promise' # Nothing /\ fallback' \in Held
    <3>1. promise' = out \/ promise' = MergeInto(promise, held[p])
      BY <1>w DEF Promised, out
    <3>2. MergeInto(promise, held[p]) \in Contents
      BY <2>1, <1>mk DEF MergeInto, Held
    <3> QED
      BY <1>w, <2>2, <3>1, <3>2, SnapshotAssumption DEF Promised, Held, IInv, TypeOK
  <2>5. excused' \in BOOLEAN /\ (excused => excused') /\ (~excused' => ~excused /\ ~op[p].stale)
    BY <1>w, <2>1 DEF Promised, Overlaps, Calls, IInv, TypeOK
  <2>6. ASSUME ~excused' PROVE promise' = out
    <3> SUFFICES ASSUME op[p].kind = "merge" PROVE Includes(out, promise)
      BY <1>w, <2>1 DEF Promised, Wants, out
    <3>1. Ready(op[p]) /\ Includes(Readable, promise)
      BY <1>w, <2>1, <2>5, <2>6 DEF CallOK, Knowing, IInv, KeysInv
    <3>2. CASE op[p].demote = NoRaw
      <4>1. Readable = Nothing
        BY <1>w, <1>b, <2>1, <3>1, <3>2 DEF Ready
      <4> QED
        BY <3>1, <4>1 DEF Includes
    <3>3. CASE op[p].demote # NoRaw
      <4>1. Readable = op[p].prior /\ op[p].prior \in Contents
        <5>1. /\ Decodes(op[p].demote) /\ store.prev = op[p].demote
              /\ op[p].prior = op[p].demote.content /\ op[p].demote \in Raws
              /\ store.live = op[p].demote \/ Falls(store.live)
          BY <2>1, <3>1, <3>3 DEF Ready, Calls, Keys
        <5> QED
          BY <1>w, <1>b, <5>1 DEF Raws
      <4> QED
        BY <2>1, <2>2, <3>1, <4>1, <1>or DEF Held
    <3> QED
      BY <3>2, <3>3
  <2>7. damage' \in Nat => KeysInv'
    <3>1. Readable' = out
      BY <2>3 DEF Readable
    <3>2. ~excused' => Includes(Readable, promise)'
      BY <2>2, <2>6, <3>1, <1>or DEF Held
    <3>3. ~excused' /\ Decodes(store'.prev) => Includes(store'.prev.content, fallback')
      BY <1>w, <2>3, <2>5 DEF Promised, IInv, KeysInv
    <3>4. fallback' # Nothing => Decodes(store'.prev)
      BY <1>w, <2>3 DEF Promised
    <3> QED
      BY <2>3, <3>2, <3>3, <3>4 DEF KeysInv
  <2>8. promise' \in Held
    BY <2>4 DEF Held
  <2> HIDE DEF KeysInv
  <2> QED
    BY <2>3, <2>4, <2>5, <2>7, <2>8
<1>s. ASSUME IInv
      PROVE  /\ store \in [live : Keys, prev : Keys] /\ held \in [Procs -> Contents]
             /\ op \in [Procs -> Calls] /\ damage \in Nat /\ excused \in BOOLEAN
             /\ promise \in Held /\ fallback \in Held
  BY <1>s DEF IInv, TypeOK
<1>g. ASSUME IInv, NEW p \in Procs, NEW pc \in Pcs
      PROVE  \E o \in Calls :
               /\ Going(p, pc) = [op EXCEPT ![p] = o]
               /\ o.pc = pc /\ o.kind = op[p].kind /\ o.owed = op[p].owed /\ o.stale = op[p].stale
               /\ o.answer = op[p].answer /\ o.saw = op[p].saw /\ o.demote = op[p].demote
               /\ o.prior = op[p].prior
  <2> DEFINE o == [op[p] EXCEPT !.pc = pc]
  <2>1. /\ o \in Calls /\ Going(p, pc) = [op EXCEPT ![p] = o]
        /\ o.pc = pc /\ o.kind = op[p].kind /\ o.owed = op[p].owed /\ o.stale = op[p].stale
        /\ o.answer = op[p].answer /\ o.saw = op[p].saw /\ o.demote = op[p].demote
        /\ o.prior = op[p].prior
    BY <1>a, <1>g, <1>s DEF Calls, Going
  <2> QED
    BY <2>1
<1>1. ASSUME IInv, NEW p \in Procs, NEW kind \in Kinds, Begin(p, kind) PROVE IInv'
  <2> DEFINE o == [Idle EXCEPT !.pc = "live", !.kind = kind, !.owed = promise]
  <2>1. /\ o \in Calls /\ o.pc = "live" /\ o.kind = kind /\ o.owed = promise
        /\ o.demote = NoRaw /\ o.answer = "none" /\ ~o.stale
    <3>1. Idle \in Calls /\ Idle.demote = NoRaw /\ Idle.answer = "none" /\ ~Idle.stale
      BY <1>1, <1>a DEF Idle
    <3> QED
      BY <1>1, <1>s, <3>1 DEF Calls, Pcs
  <2> HIDE DEF o
  <2>2. PICK n \in Calls : n = o
    BY <2>1
  <2>3. op' = [op EXCEPT ![p] = n] /\ UNCHANGED <<store, promise, fallback, excused>>
        /\ damage' = damage /\ held' = held
    BY <1>1, <2>2 DEF Begin, ghosts, o
  <2>4. CallOK(n)'
    BY <2>1, <2>2, <2>3 DEF CallOK, Shape, Knowing
  <2> QED
    BY <1>1, <1>s, <2>3, <2>4, <1>al
<1>2. ASSUME IInv, NEW p \in Procs, ReadLive(p) PROVE IInv'
  <2>1. /\ op[p] \in Calls /\ CallOK(op[p]) /\ op[p].pc = "live" /\ op[p].kind # "list"
        /\ UNCHANGED <<store, promise, fallback, damage, excused>> /\ excused' \in BOOLEAN
        /\ store.live \in Keys /\ op[p].demote = NoRaw
    BY <1>2, <1>a, <1>s DEF ReadLive, At, Wants, Reading, ghosts, CallOK, Shape
  <2>2. CASE Decodes(store.live) /\ Settle(p, store.live, store.live)
    <3>1. store.live # NoRaw
      BY <2>2, <1>fo
    <3> QED
      BY <1>2, <1>e, <2>1, <2>2, <3>1
  <2>3. CASE End(p, "unsupported-version") /\ UNCHANGED held
    <3>1. held' \in [Procs -> Contents] /\ "unsupported-version" \in Answers
      BY <1>2, <1>s, <2>3 DEF Answers
    <3> QED
      BY <1>2, <1>c, <2>1, <2>3, <3>1
  <2>4. ASSUME NEW pc \in {"quarantine", "prev", "write"}, See(p, store.live, pc),
               Falls(store.live),
               pc = "quarantine" => store.live # NoRaw,
               pc = "prev" => op[p].kind # "replace",
               pc = "write" => op[p].kind = "replace"
        PROVE  IInv'
    <3> DEFINE n == [[op[p] EXCEPT !.saw = store.live] EXCEPT !.pc = pc]
    <3>1. /\ n \in Calls /\ n.pc = pc /\ n.kind = op[p].kind /\ n.owed = op[p].owed
          /\ n.stale = op[p].stale /\ n.answer = op[p].answer /\ n.demote = op[p].demote
          /\ n.saw = store.live
      BY <2>1, <2>4 DEF Calls, Pcs
    <3>2. op' = [op EXCEPT ![p] = n] /\ held' = held
      BY <1>2, <1>s, <2>1, <2>4 DEF See
    <3> HIDE DEF n
    <3>3. PICK o \in Calls : o = n
      BY <3>1
    <3>4. ~excused' /\ ~o.stale => Knowing(o)
      BY <2>1, <2>4, <3>1, <3>3 DEF Knowing, Ready
    <3> QED
      BY <1>2, <1>d, <2>1, <2>4, <3>1, <3>2, <3>3, <3>4
  <2>5. CASE store.live # NoRaw /\ DecodeError(store.live) = "corrupt" /\ See(p, store.live, "quarantine")
    BY <2>4, <2>5, <1>fo
  <2>6. CASE store.live = NoRaw
             /\ See(p, store.live, IF Wants(p, {"replace"}) THEN "write" ELSE "prev")
    BY <2>4, <2>6, <1>fo DEF Wants
  <2> QED
    BY <1>2, <2>2, <2>3, <2>5, <2>6 DEF ReadLive
<1>3. ASSUME IInv, NEW p \in Procs, ReadLiveFails(p) PROVE IInv'
  <2>1. /\ op[p] \in Calls /\ CallOK(op[p]) /\ op[p].pc = "live" /\ op[p].demote = NoRaw
        /\ UNCHANGED <<store, promise, fallback, damage, held>>
        /\ excused' \in BOOLEAN /\ (excused => excused')
        /\ held' \in [Procs -> Contents]
    BY <1>3, <1>a, <1>s DEF ReadLiveFails, At, Reading, CallOK, Shape
  <2>2. CASE op[p].kind = "replace"
    <3>1. excused' /\ op' = Going(p, "write") /\ "write" \in Pcs
      BY <1>3, <2>2 DEF ReadLiveFails, Wants, Goto, Pcs
    <3>2. PICK o \in Calls :
            /\ op' = [op EXCEPT ![p] = o] /\ o.pc = "write" /\ o.kind = "replace"
            /\ o.owed = op[p].owed /\ o.stale = op[p].stale /\ o.answer = op[p].answer
      BY <1>3, <1>g, <2>2, <3>1
    <3> QED
      BY <1>3, <1>d, <2>1, <2>2, <3>1, <3>2
  <2>3. CASE op[p].kind # "replace"
    <3>1. End(p, "unavailable") /\ "unavailable" \in Answers
      BY <1>3, <2>3 DEF ReadLiveFails, Wants, Answers
    <3> QED
      BY <1>3, <1>c, <2>1, <3>1
  <2> QED
    BY <2>2, <2>3
<1>4. ASSUME IInv, NEW p \in Procs, Quarantine(p) PROVE IInv'
  <2>1. /\ op[p] \in Calls /\ CallOK(op[p]) /\ op[p].pc = "quarantine" /\ op[p].demote = NoRaw
        /\ UNCHANGED <<store, promise, fallback, damage, held, excused>> /\ excused' \in BOOLEAN
    BY <1>4, <1>a, <1>s DEF Quarantine, At, ghosts, CallOK, Shape
  <2> DEFINE pc == IF op[p].kind = "replace" THEN "write" ELSE "prev"
  <2>2. pc \in Pcs /\ op' = Going(p, pc) /\ ((pc = "write" /\ op[p].kind = "replace")
                                             \/ (pc = "prev" /\ op[p].kind # "replace"))
    BY <1>4 DEF Quarantine, Wants, Goto, Pcs
  <2> HIDE DEF pc
  <2>3. PICK o \in Calls :
          /\ op' = [op EXCEPT ![p] = o] /\ o.pc = pc /\ o.kind = op[p].kind
          /\ o.owed = op[p].owed /\ o.stale = op[p].stale /\ o.answer = op[p].answer
          /\ o.saw = op[p].saw /\ o.demote = NoRaw
    BY <1>4, <1>g, <2>1, <2>2
  <2>4. ~excused' /\ ~o.stale => Knowing(o)
    BY <2>1, <2>2, <2>3 DEF CallOK, Knowing, Ready
  <2>5. o.pc = "write" => o.kind \in {"merge", "replace"}
    BY <2>2, <2>3
  <2> QED
    BY <1>4, <1>d, <2>1, <2>2, <2>3, <2>4, <2>5
<1>5. ASSUME IInv, NEW p \in Procs, ReadPrev(p) PROVE IInv'
  <2> DEFINE raw == IF Decodes(store.prev) THEN store.prev ELSE NoRaw
  <2>1. /\ op[p] \in Calls /\ CallOK(op[p]) /\ op[p].pc = "prev" /\ op[p].kind # "list"
        /\ op[p].kind # "replace" /\ op[p].saw \in Keys
        /\ UNCHANGED <<store, promise, fallback, damage, excused>> /\ excused' \in BOOLEAN
        /\ Settle(p, op[p].saw, raw)
    BY <1>5, <1>a, <1>s DEF ReadPrev, At, Wants, Reading, ghosts, CallOK, Shape, Calls
  <2>2. raw \in Keys /\ (Decodes(raw) \/ raw = NoRaw) /\ (raw # NoRaw => raw = store.prev)
        /\ (raw = NoRaw => ~Decodes(store.prev))
    BY <1>5, <1>s, <1>fo DEF Keys
  <2>3. ~excused' /\ ~op[p].stale => Falls(store.live)
    BY <2>1 DEF CallOK, Knowing
  <2> HIDE DEF raw
  <2> QED
    BY <1>5, <1>e, <2>1, <2>2, <2>3
<1>6. ASSUME IInv, NEW p \in Procs, ReadPrevFails(p) PROVE IInv'
  <2>1. /\ op[p] \in Calls /\ CallOK(op[p]) /\ op[p].pc = "prev"
        /\ op[p].kind # "replace" /\ op[p].saw \in Keys /\ NoRaw \in Keys
        /\ UNCHANGED <<store, promise, fallback, damage>> /\ excused' /\ excused' \in BOOLEAN
    BY <1>6, <1>a, <1>s DEF ReadPrevFails, At, Reading, CallOK, Shape, Calls, Keys
  <2>2. CASE op[p].kind = "list"
    <3>1. End(p, "absent") /\ "absent" \in Answers /\ held' \in [Procs -> Contents]
      BY <1>6, <1>s, <2>2 DEF ReadPrevFails, Wants, Answers
    <3> QED
      BY <1>6, <1>c, <2>1, <3>1
  <2>3. CASE op[p].kind # "list"
    <3>1. Settle(p, op[p].saw, NoRaw)
      BY <1>6, <2>3 DEF ReadPrevFails, Wants
    <3> QED
      BY <1>6, <1>e, <2>1, <2>3, <3>1
  <2> QED
    BY <2>2, <2>3
<1>7. ASSUME IInv, NEW p \in Procs, ListLive(p) PROVE IInv'
  <2>1. /\ op[p] \in Calls /\ CallOK(op[p]) /\ op[p].pc = "live" /\ op[p].kind = "list"
        /\ op[p].demote = NoRaw
        /\ UNCHANGED <<store, promise, fallback, damage, held>> /\ held' \in [Procs -> Contents]
        /\ excused' \in BOOLEAN /\ (excused => excused')
    <3>1. CallOK(op[p]) /\ op[p] \in Calls /\ held \in [Procs -> Contents] /\ excused \in BOOLEAN
      BY <1>7, <1>a, <1>s
    <3>2. excused' = excused \/ excused' = TRUE
      BY <1>7 DEF ListLive
    <3>3. /\ op[p].pc = "live" /\ op[p].kind = "list"
          /\ UNCHANGED <<store, promise, fallback, damage, held>>
      BY <1>7 DEF ListLive, At, Wants, Reading
    <3> QED
      BY <3>1, <3>2, <3>3 DEF CallOK, Shape
  <2>2. CASE End(p, "present")
    <3>1. "present" \in Answers
      BY DEF Answers
    <3> QED
      BY <1>7, <1>c, <2>1, <2>2, <3>1
  <2>3. CASE Goto(p, "prev") /\ (store.live = NoRaw \/ excused')
    <3>1. op' = Going(p, "prev") /\ "prev" \in Pcs
      BY <2>3 DEF Goto, Pcs
    <3>2. PICK o \in Calls :
            /\ op' = [op EXCEPT ![p] = o] /\ o.pc = "prev" /\ o.kind = "list"
            /\ o.owed = op[p].owed /\ o.stale = op[p].stale /\ o.answer = op[p].answer
            /\ o.demote = NoRaw
      BY <1>7, <1>g, <2>1, <3>1
    <3>3. ~excused' /\ ~o.stale => Knowing(o)
      BY <2>3, <3>2 DEF Knowing
    <3> QED
      BY <1>7, <1>d, <2>1, <3>2, <3>3
  <2> QED
    BY <1>7, <2>2, <2>3 DEF ListLive
<1>8. ASSUME IInv, NEW p \in Procs, ListPrev(p) PROVE IInv'
  <2> DEFINE a == IF store.prev = NoRaw THEN "absent" ELSE "present"
  <2>1. /\ op[p] \in Calls /\ CallOK(op[p]) /\ op[p].pc = "prev" /\ op[p].kind = "list"
        /\ UNCHANGED <<store, promise, fallback, damage, excused>> /\ excused' \in BOOLEAN
        /\ held' \in [Procs -> Contents]
        /\ End(p, a) /\ a \in Answers
    BY <1>8, <1>a, <1>s DEF ListPrev, At, Wants, Reading, ghosts, Answers
  <2>2. ASSUME a = "absent", ~excused, ~op[p].stale PROVE op[p].owed = Nothing
    <3>1. store.live = NoRaw /\ store.prev = NoRaw
      BY <2>1, <2>2 DEF CallOK, Knowing
    <3>2. Readable = Nothing
      BY <1>8, <1>b, <3>1, <1>fo
    <3>3. promise = Nothing
      BY <1>8, <2>2, <3>2 DEF IInv, KeysInv, Includes
    <3> QED
      BY <2>1, <2>2, <3>3 DEF CallOK
  <2> HIDE DEF a
  <2> QED
    BY <1>8, <1>c, <2>1, <2>2
<1>9. ASSUME IInv, NEW p \in Procs, Keep(p) PROVE IInv'
  <2>1. /\ op[p] \in Calls /\ CallOK(op[p]) /\ op[p].pc = "keep"
        /\ store' = [store EXCEPT !.prev = op[p].demote]
        /\ fallback' = promise /\ UNCHANGED <<held, damage, promise>>
        /\ excused' = (excused \/ op[p].stale) /\ "write" \in Pcs
    BY <1>9, <1>a DEF Keep, At, Overlaps, Pcs
  <2>2. store'.live = store.live /\ store'.prev = op[p].demote
        /\ store' \in [live : Keys, prev : Keys]
    BY <1>9, <1>s, <2>1 DEF Calls
  <2>3. PICK o \in Calls :
          /\ Going(p, "write") = [op EXCEPT ![p] = o] /\ o.pc = "write" /\ o.kind = op[p].kind
          /\ o.owed = op[p].owed /\ o.stale = op[p].stale /\ o.answer = op[p].answer
          /\ o.prior = op[p].prior /\ o.demote = op[p].demote
    BY <1>9, <1>g, <2>1
  <2>4. excused' \in BOOLEAN /\ (excused => excused') /\ (~excused' => ~excused /\ ~op[p].stale)
    BY <1>9, <1>s, <2>1 DEF Calls
  <2>5. ~excused' => /\ op[p].demote # NoRaw /\ Decodes(op[p].demote)
                     /\ op[p].prior = op[p].demote.content
                     /\ store.live = op[p].demote \/ (Falls(store.live) /\ store.prev = op[p].demote)
    BY <2>1, <2>4 DEF CallOK, Knowing
  <2>6. CallOK(o)'
    <3>1. Shape(o)
      BY <2>1, <2>3 DEF CallOK, Shape
    <3>2. ~excused' => Ready(o)'
      BY <2>2, <2>3, <2>5 DEF Ready
    <3> QED
      BY <2>1, <2>3, <2>4, <3>1, <3>2 DEF CallOK, Shape, Knowing
  <2>7. op' \in [Procs -> Calls] /\ CallsInv'
    BY <1>9, <2>1, <2>3, <2>4, <2>6, <1>wr DEF Keep
  <2>8. KeysInv'
    <3> SUFFICES ASSUME ~excused' PROVE
           /\ Includes(Readable, promise)'
           /\ Decodes(store'.prev) => Includes(store'.prev.content, fallback')
           /\ damage' = 0 /\ fallback' # Nothing => Decodes(store'.prev)
           /\ damage' = 0 /\ Decodes(store'.prev) => Decodes(store'.live)
      BY DEF KeysInv
    <3>1. Includes(Readable, promise) /\ (damage = 0 /\ Decodes(store.prev) => Decodes(store.live))
      BY <1>9, <2>4 DEF IInv, KeysInv
    <3>2. Readable = op[p].demote.content /\ Readable' = Readable
      <4>1. CASE store.live = op[p].demote
        BY <2>2, <2>5, <4>1 DEF Readable
      <4>2. CASE Falls(store.live) /\ store.prev = op[p].demote
        <5>1. store' = store
          BY <1>9, <1>s, <2>1, <4>2
        <5>2. Readable = op[p].demote.content
          BY <1>9, <1>b, <2>5, <4>2
        <5> QED
          BY <5>1, <5>2 DEF Readable
      <4> QED
        BY <2>5, <4>1, <4>2
    <3>3. damage = 0 => Decodes(store.live)
      BY <2>5, <3>1
    <3> QED
      BY <2>1, <2>2, <2>5, <3>1, <3>2, <3>3
  <2> QED
    BY <1>9, <1>s, <2>1, <2>2, <2>4, <2>7, <2>8 DEF IInv, TypeOK
<1>10. ASSUME IInv, NEW p \in Procs, Write(p) PROVE IInv'
  <2>1. /\ At(p, "write") /\ store' = [store EXCEPT !.live = Raw("v2", Outgoing(p))]
        /\ Promised(p) /\ damage' = 0 /\ held' = held
        /\ op' = Outdating(p, Ending(p, "saved")) /\ "saved" \in Answers
    BY <1>10 DEF Write, Answers
  <2>2. /\ store' \in [live : Keys, prev : Keys] /\ KeysInv'
        /\ promise' \in Held /\ promise' # Nothing /\ fallback' \in Held
        /\ excused' \in BOOLEAN /\ (excused => excused')
    BY <1>10, <1>w, <2>1
  <2>3. PICK o \in Calls :
          /\ Ending(p, "saved") = [op EXCEPT ![p] = o] /\ o.pc = "idle" /\ o.answer = "saved"
    BY <1>10, <1>a, <2>1
  <2>4. CallOK(o)'
    BY <2>3 DEF CallOK, Shape, Knowing
  <2>5. op' \in [Procs -> Calls] /\ CallsInv'
    BY <1>10, <2>1, <2>2, <2>3, <2>4, <1>wr
  <2> QED
    BY <1>10, <1>s, <2>1, <2>2, <2>5 DEF IInv, TypeOK
<1>11. ASSUME IInv, NEW p \in Procs, WriteFails(p) PROVE IInv'
  <2>1. /\ End(p, "failed") /\ "failed" \in Answers /\ held' \in [Procs -> Contents]
        /\ UNCHANGED <<store, promise, fallback, damage, excused>> /\ excused' \in BOOLEAN
    BY <1>11, <1>s DEF WriteFails, ghosts, Answers
  <2> QED
    BY <1>11, <1>c, <2>1
<1>12. ASSUME IInv, NEW p \in Procs, CrashInWrite(p) PROVE IInv'
  <2> DEFINE whole == IF At(p, "keep") THEN op[p].demote.content ELSE Outgoing(p)
  <2>1. /\ op[p] \in Calls /\ CallOK(op[p]) /\ op[p].pc \in {"keep", "write"}
        /\ damage' = damage + 1 /\ damage' \in Nat /\ damage' # 0
        /\ UNCHANGED <<held, promise, fallback>>
        /\ excused' = (excused \/ op[p].stale \/ damage' > 1)
        /\ op' = Outdating(p, [op EXCEPT ![p] = Idle])
    BY <1>12, <1>a, <1>s DEF CrashInWrite, Hurt, Overlaps
  <2>2. excused' \in BOOLEAN /\ (excused => excused')
        /\ (~excused' => ~excused /\ ~op[p].stale /\ damage = 0)
    <3>1. ~(damage' > 1) => damage = 0
      BY <1>12, <1>s, <2>1
    <3>2. excused \in BOOLEAN /\ op[p].stale \in BOOLEAN
      BY <1>12, <1>s, <2>1 DEF Calls
    <3> QED
      BY <2>1, <3>1, <3>2
  <2>3. PICK rest \in {NoRaw, Raw("cut", whole)} :
          store' = [store EXCEPT ![IF At(p, "keep") THEN "prev" ELSE "live"] = rest]
    BY <1>12 DEF CrashInWrite
  <2>4. ~Decodes(rest) /\ Falls(rest)
    <3>1. DecodeError(Raw("cut", whole)) = "corrupt"
      BY DEF DecodeError, Raw
    <3> QED
      BY <2>3, <3>1, <1>fo DEF Decodes, Falls
  <2>5. op' \in [Procs -> Calls] /\ CallsInv'
    <3>1. Idle \in Calls /\ CallOK(Idle)'
      BY <1>12, <1>a
    <3>2. PICK o \in Calls : o = Idle
      BY <3>1
    <3>3. CallOK(o)'
      BY <3>2 DEF CallOK, Shape, Knowing, Idle
    <3> QED
      BY <1>12, <2>1, <2>2, <3>2, <3>3, <1>wr
  <2>6. CASE op[p].pc = "keep"
    <3>1. store'.live = store.live /\ store'.prev = rest /\ store' \in [live : Keys, prev : Keys]
      <4>1. whole \in Contents
        BY <2>1, <2>6 DEF At, Calls, Keys, Raws, CallOK, Shape
      <4>2. rest \in Keys
        BY <2>3, <4>1, <1>fo DEF Keys
      <4> QED
        BY <1>12, <1>s, <2>3, <2>6, <4>2 DEF At
    <3>2. ~excused' => Decodes(store.live) /\ Readable' = Readable
      <4> SUFFICES ASSUME ~excused' PROVE Decodes(store.live) /\ Readable' = Readable
        OBVIOUS
      <4>1. /\ Decodes(op[p].demote)
            /\ store.live = op[p].demote \/ (Falls(store.live) /\ store.prev = op[p].demote)
        BY <2>1, <2>2, <2>6 DEF CallOK, Knowing
      <4>2. Decodes(store.prev) => Decodes(store.live)
        BY <1>12, <2>2 DEF IInv, KeysInv
      <4>3. Decodes(store.live)
        BY <4>1, <4>2
      <4> QED
        BY <3>1, <4>3 DEF Readable
    <3>3. KeysInv'
      BY <1>12, <2>1, <2>2, <2>4, <3>1, <3>2 DEF IInv, KeysInv
    <3> QED
      BY <1>12, <1>s, <2>1, <2>2, <2>5, <3>1, <3>3 DEF IInv, TypeOK
  <2>7. CASE op[p].pc = "write"
    <3>1. store'.live = rest /\ store'.prev = store.prev /\ store' \in [live : Keys, prev : Keys]
      <4>1. whole \in Contents
        BY <1>12, <1>o, <2>7 DEF At
      <4>2. rest \in Keys
        BY <2>3, <4>1, <1>fo DEF Keys
      <4> QED
        BY <1>12, <1>s, <2>3, <2>7, <4>2 DEF At
    <3>2. ~excused' => Readable' = Readable
      <4> SUFFICES ASSUME ~excused' PROVE Readable' = Readable
        OBVIOUS
      <4>1. Ready(op[p])
        BY <2>1, <2>2, <2>7 DEF CallOK, Knowing
      <4>2. Readable' = IF Decodes(store.prev) THEN store.prev.content ELSE Nothing
        BY <2>4, <3>1 DEF Readable, Falls
      <4>3. CASE Falls(store.live)
        BY <1>12, <1>b, <4>2, <4>3
      <4>4. CASE /\ Decodes(op[p].demote) /\ store.prev = op[p].demote
                 /\ store.live = op[p].demote
        BY <1>12, <1>b, <4>2, <4>4
      <4> QED
        BY <4>1, <4>3, <4>4 DEF Ready
    <3>3. KeysInv'
      BY <1>12, <2>1, <2>2, <2>4, <3>1, <3>2 DEF IInv, KeysInv
    <3> QED
      BY <1>12, <1>s, <2>1, <2>2, <2>5, <3>1, <3>3 DEF IInv, TypeOK
  <2> QED
    BY <2>1, <2>6, <2>7
<1>13. ASSUME IInv, NEW p \in Procs, Crash(p) PROVE IInv'
  <2>0. PICK o \in Calls : o = Idle /\ CallOK(o)'
    <3>1. Idle \in Calls
      BY <1>13, <1>a
    <3>2. PICK o \in Calls : o = Idle
      BY <3>1
    <3>3. CallOK(o)'
      BY <3>2 DEF CallOK, Shape, Knowing, Idle
    <3> QED
      BY <3>2, <3>3
  <2>1. CASE op' = [op EXCEPT ![p] = Idle] /\ UNCHANGED <<store, ghosts>>
    <3>1. /\ UNCHANGED <<store, promise, fallback>> /\ damage' = damage
          /\ held' \in [Procs -> Contents] /\ excused' \in BOOLEAN /\ (excused => excused')
          /\ op' = [op EXCEPT ![p] = o]
      BY <1>13, <1>s, <2>0, <2>1 DEF Crash, ghosts
    <3> QED
      BY <1>13, <2>0, <3>1, <1>al
  <2>2. CASE /\ At(p, "write")
             /\ store' = [store EXCEPT !.live = Raw("v2", Outgoing(p))]
             /\ op' = Outdating(p, [op EXCEPT ![p] = Idle])
             /\ Promised(p)
    <3>1. held' = held /\ damage' = damage /\ damage' \in Nat
      BY <1>13, <1>s DEF Crash
    <3>2. /\ store' \in [live : Keys, prev : Keys] /\ KeysInv'
          /\ promise' \in Held /\ promise' # Nothing /\ fallback' \in Held
          /\ excused' \in BOOLEAN /\ (excused => excused')
      BY <1>13, <1>w, <2>2, <3>1
    <3>3. op' \in [Procs -> Calls] /\ CallsInv'
      BY <1>13, <2>0, <2>2, <3>2, <1>wr
    <3> QED
      BY <1>13, <1>s, <3>1, <3>2, <3>3 DEF IInv, TypeOK
  <2> QED
    BY <1>13, <2>1, <2>2 DEF Crash
<1>14. ASSUME IInv, Spoil PROVE IInv'
  <2>1. PICK key \in {"live", "prev"} :
          /\ Decodes(store[key]) /\ Hurt
          /\ \E rest \in {NoRaw, Raw("edited", store[key].content)} :
               store' = [store EXCEPT ![key] = rest]
          /\ promise' = IF key = "live" THEN fallback ELSE promise
          /\ op' = [p \in Procs |->
                [op[p] EXCEPT !.owed = IF op[p].owed = Nothing THEN op[p].owed ELSE promise']]
          /\ excused' = (excused \/ damage' > 1 \/ \E p \in Procs : InSave(p))
          /\ UNCHANGED <<held, fallback>>
    BY <1>14 DEF Spoil
  <2>2. PICK rest \in {NoRaw, Raw("edited", store[key].content)} :
          store' = [store EXCEPT ![key] = rest]
    BY <2>1
  <2>3. rest \in Keys /\ ~Decodes(rest) /\ Falls(rest)
    <3>1. store[key] \in Raws
      BY <1>14, <1>s, <2>1, <1>fo DEF Keys
    <3>2. store[key].content \in Contents
      BY <3>1 DEF Raws
    <3> QED
      BY <2>2, <3>2, <1>fo DEF Keys
  <2>4. /\ store' \in [live : Keys, prev : Keys] /\ store'[key] = rest
        /\ \A k \in {"live", "prev"} \ {key} : store'[k] = store[k]
    BY <1>14, <1>s, <2>2, <2>3
  <2>5. damage' = damage + 1 /\ damage' \in Nat /\ damage' # 0
        /\ (~(damage' > 1) => damage = 0)
    <3>1. damage \in Nat /\ damage' = damage + 1
      BY <1>14, <1>s, <2>1 DEF Hurt
    <3> QED
      BY <3>1
  <2>6. excused' \in BOOLEAN /\ (excused => excused')
        /\ (~excused' => ~excused /\ damage = 0 /\ \A p \in Procs : ~InSave(p))
    <3>1. excused \in BOOLEAN
      BY <1>14, <1>s
    <3> QED
      BY <2>1, <2>5, <3>1
  <2>7. promise' \in Held /\ fallback' \in Held /\ held' \in [Procs -> Contents]
    BY <1>14, <1>s, <2>1
  <2>8. ASSUME NEW p \in Procs PROVE op'[p] \in Calls /\ CallOK(op[p])'
    <3> DEFINE owed == IF op[p].owed = Nothing THEN op[p].owed ELSE promise'
               o == [op[p] EXCEPT !.owed = owed]
    <3>1. op[p] \in Calls /\ CallOK(op[p]) /\ op'[p] = o
      BY <1>14, <1>a, <2>1
    <3>2. owed \in Held /\ (op[p].owed = Nothing => owed = Nothing) /\ (owed # Nothing => owed = promise')
      BY <2>7, <3>1 DEF Calls
    <3> HIDE DEF owed
    <3>3. /\ o \in Calls /\ o.pc = op[p].pc /\ o.kind = op[p].kind /\ o.owed = owed
          /\ o.stale = op[p].stale /\ o.answer = op[p].answer /\ o.demote = op[p].demote
      BY <3>1, <3>2 DEF Calls
    <3> HIDE DEF o
    <3>4. ~excused' => op[p].pc \notin {"quarantine", "prev", "keep", "write"}
      BY <2>6 DEF InSave
    <3>5. PICK n \in Calls : n = o
      BY <3>3
    <3>6. CallOK(n)'
      BY <2>6, <3>1, <3>2, <3>3, <3>4, <3>5 DEF CallOK, Shape, Knowing
    <3> QED
      BY <3>1, <3>3, <3>5, <3>6
  <2>9. op' \in [Procs -> Calls] /\ CallsInv'
    BY <2>1, <2>8 DEF CallsInv
  <2>10. KeysInv'
    <3> SUFFICES ASSUME ~excused' PROVE
           /\ Includes(Readable, promise)'
           /\ Decodes(store'.prev) => Includes(store'.prev.content, fallback')
      BY <2>5 DEF KeysInv
    <3>1. /\ Includes(Readable, promise)
          /\ Decodes(store.prev) => Includes(store.prev.content, fallback)
          /\ fallback # Nothing => Decodes(store.prev)
          /\ Decodes(store.prev) => Decodes(store.live)
      BY <1>14, <2>6 DEF IInv, KeysInv
    <3>2. CASE key = "live"
      <4>1. store'.live = rest /\ store'.prev = store.prev /\ promise' = fallback /\ fallback' = fallback
        BY <2>1, <2>4, <3>2
      <4>2. Readable' = IF Decodes(store.prev) THEN store.prev.content ELSE Nothing
        BY <2>3, <4>1 DEF Readable, Falls
      <4>3. Includes(Readable', fallback)
        BY <3>1, <4>2 DEF Includes
      <4> QED
        BY <3>1, <4>1, <4>3
    <3>3. CASE key = "prev"
      <4>1. store'.live = store.live /\ store'.prev = rest /\ promise' = promise
        BY <2>1, <2>4, <3>3
      <4>2. Decodes(store.live)
        BY <2>1, <3>1, <3>3
      <4> QED
        BY <2>3, <3>1, <4>1, <4>2 DEF Readable
    <3> QED
      BY <3>2, <3>3
  <2> QED
    BY <2>4, <2>5, <2>6, <2>7, <2>9, <2>10 DEF IInv, TypeOK
<1>15. ASSUME IInv, UNCHANGED vars PROVE IInv'
  <2>1. TypeOK' /\ KeysInv'
    BY <1>15 DEF IInv, TypeOK, KeysInv, Readable, vars
  <2>2. CallsInv'
    BY <1>15 DEF IInv, CallsInv, CallOK, Knowing, Ready, vars
  <2> QED
    BY <2>1, <2>2 DEF IInv
<1>16. Init => IInv
  <2> SUFFICES ASSUME Init PROVE IInv
    OBVIOUS
  <2>1. store.live \in Keys /\ store.prev = NoRaw /\ store \in [live : Keys, prev : Keys]
    BY SnapshotAssumption DEF Init, Keys
  <2>2. promise = IF Decodes(store.live) THEN store.live.content ELSE Nothing
    BY DEF Init
  <2>3. promise \in Held /\ Readable = promise
    <3>1. Decodes(store.live) => store.live.content \in Contents
      BY <2>1, <1>fo DEF Keys, Raws
    <3>2. Readable = promise
      BY <2>1, <2>2, <1>fo DEF Readable
    <3> QED
      BY <2>2, <3>1, <3>2 DEF Held
  <2>4. KeysInv
    BY <2>1, <2>3, <1>or, <1>fo DEF KeysInv, Init, Includes
  <2>5. Idle \in Calls /\ CallOK(Idle)
    <3>1. NoRaw \in Keys /\ Nothing \in Held
      BY DEF Keys, Held
    <3> QED
      BY <3>1 DEF Idle, Calls, Pcs, Kinds, Answers, CallOK, Shape, Knowing
  <2>6. CallsInv /\ op \in [Procs -> Calls]
    BY <2>5 DEF Init, CallsInv
  <2>7. held \in [Procs -> Contents] /\ damage \in Nat /\ excused \in BOOLEAN /\ fallback \in Held
    BY SnapshotAssumption DEF Init, Held
  <2> QED
    BY <2>1, <2>3, <2>4, <2>6, <2>7 DEF IInv, TypeOK
<1>17. IInv /\ [Next]_vars => IInv'
  BY <1>1, <1>2, <1>3, <1>4, <1>5, <1>6, <1>7, <1>8, <1>9, <1>10, <1>11, <1>12, <1>13, <1>14, <1>15
     DEF Next, Step
<1>18. IInv => PromisesHold
  BY DEF IInv, KeysInv, CallsInv, CallOK, PromisesHold, PromiseKept, NothingPromisedIsDenied
<1> QED
  BY <1>16, <1>17, <1>18, PTL DEF Spec
-----------------------------------------------------------------------------
(* The canonical layer: what a committee was told.                        *)

FactRows == {Fact(v, w, r) : v \in Values, w \in Windows, r \in Nat}

(* The position that answers, built fact by fact.                            *)
Answering(best, s, validAt, admitted) ==
  LET answers(i) == i \in admitted /\ About(s[i], "metro", "rate") /\ Covers(s[i], validAt)
  IN best = [i \in 0 .. Len(s) |->
               IF i = 0 THEN NoFact
               ELSE IF answers(i) /\ (best[i - 1] = NoFact \/ Outranks(s[i], s[best[i - 1]]))
               THEN i ELSE best[i - 1]]

(* What a committee was told is what the pinned clocks answer for ever, over *)
(* any facts, windows and clocks: what runs learn later, or bring from other *)
(* stores, changes no answer unless it is stamped no later than the pin.     *)
THEOREM AnswersStand == LayerSpec => []PastAnswersStand
\* A fact the pinned moment does not know changes no answer.
<1>ai. ASSUME NEW s \in Seq(FactRows), NEW validAt, NEW admitted
       PROVE  \E best \in [0 .. Len(s) -> Nat] :
                /\ Answering(best, s, validAt, admitted)
                /\ \A i \in 0 .. Len(s) : best[i] <= i
                /\ Resolve(s, "metro", "rate", validAt, admitted) = best[Len(s)]
  <2> USE <1>ai
  <2> DEFINE n == Len(s)
             answers(i) == i \in admitted /\ About(s[i], "metro", "rate") /\ Covers(s[i], validAt)
             After(i, b) == IF answers(i) /\ (b = NoFact \/ Outranks(s[i], s[b])) THEN i ELSE b
             best[i \in 0 .. n] ==
               IF i = 0 THEN NoFact
               ELSE LET before == best[i - 1] IN
                    IF answers(i) /\ (before = NoFact \/ Outranks(s[i], s[before])) THEN i ELSE before
             step == [i \in 1 .. n |-> [b \in Nat |-> After(i, b)]]
  <2>1. n \in Nat /\ NoFact \in Nat
    BY DEF NoFact
  <2>2. Resolve(s, "metro", "rate", validAt, admitted) = best[n]
    BY DEF Resolve
  <2>3. \A i \in 1 .. n, b \in Nat : After(i, b) \in Nat
    OBVIOUS
  <2>4. PICK f \in [0 .. n -> Nat] : f[0] = NoFact /\ \A i \in 1 .. n : f[i] = step[i][f[i - 1]]
    <3> DEFINE V == Nat
    <3>1. NoFact \in V /\ step \in Steps(n, V) /\ n \in Nat
      <4> HIDE DEF After
      <4> QED
        BY <2>1, <2>3 DEF Steps
    <3> HIDE DEF step, n, V
    <3>2. \E f : Computed(f, n, V, NoFact, step)
      BY ONLY <3>1, Recursion
    <3> QED
      BY <3>2 DEF V, Computed
  <2>5. ASSUME NEW i \in 1 .. n PROVE f[i] = After(i, f[i - 1])
    <3>1. i - 1 \in 0 .. n /\ f[i - 1] \in Nat
      <4> HIDE DEF n, step
      <4> QED
        BY <2>1, <2>4
    <3>2. step[i][f[i - 1]] = After(i, f[i - 1])
      <4> HIDE DEF After
      <4> QED
        BY <3>1
    <3> QED
      BY <2>4, <3>2
  <2>6. f = [i \in 0 .. n |-> IF i = 0 THEN NoFact ELSE After(i, f[i - 1])]
    <3> HIDE DEF After, step
    <3> QED
      BY <2>1, <2>4, <2>5
  <2>7. best = [i \in 0 .. n |-> IF i = 0 THEN NoFact ELSE After(i, best[i - 1])]
    BY <2>6
  <2>8. Answering(best, s, validAt, admitted)
    BY <2>7 DEF Answering
  <2> DEFINE S == {i \in 0 .. n : best[i] \in 0 .. i}
  <2>9. best[0] = NoFact /\ \A i \in 1 .. n : best[i] = After(i, best[i - 1])
    <3> HIDE DEF best, After, n
    <3> QED
      BY <2>1, <2>7
  <2> HIDE DEF best, step
  <2>10. 0 \in S
    BY <2>1, <2>9 DEF NoFact
  <2>11. ASSUME NEW i \in 1 .. n, i - 1 \in S PROVE i \in S
    <3>1. best[i - 1] \in 0 .. i - 1
      BY <2>11
    <3>2. After(i, best[i - 1]) \in {i, best[i - 1]}
      OBVIOUS
    <3> HIDE DEF After, n
    <3> QED
      BY <2>9, <3>1, <3>2
  <2>12. \A i \in 0 .. n : i \in S
    <3> HIDE DEF S, n
    <3> QED
      BY ONLY <2>1, <2>10, <2>11, UpTo
  <2>13. best \in [0 .. n -> Nat]
    <3>1. DOMAIN best = 0 .. n
      BY <2>7
    <3>2. \A i \in 0 .. n : best[i] \in Nat
      BY <2>12
    <3> HIDE DEF n
    <3> QED
      BY <2>7, <3>1, <3>2
  <2> QED
    BY <2>2, <2>8, <2>12, <2>13
<1>as. ASSUME NEW s \in Seq(FactRows), NEW f \in FactRows, NEW validAt, NEW knownAt,
              ~(f.recorded <= knownAt)
       PROVE  Ask(Append(s, f), validAt, knownAt) = Ask(s, validAt, knownAt)
  <2> USE <1>as
  <2> DEFINE more == Append(s, f)
             n == Len(s)
             before == KnownAt(s, knownAt)
             after == KnownAt(more, knownAt)
  <2>1. n \in Nat /\ more \in Seq(FactRows) /\ Len(more) = n + 1
    OBVIOUS
  <2>2. more[n + 1] = f /\ \A i \in 1 .. n : more[i] = s[i]
    OBVIOUS
  <2>3. n + 1 \notin after /\ \A i \in 1 .. n : i \in after <=> i \in before
    BY <2>1, <2>2 DEF KnownAt
  <2>4. PICK b \in [0 .. n -> Nat] :
          /\ Answering(b, s, validAt, before)
          /\ \A i \in 0 .. n : b[i] <= i
          /\ Ask(s, validAt, knownAt) = b[n]
    BY <1>ai DEF Ask, Get
  <2>5. PICK c \in [0 .. n + 1 -> Nat] :
          /\ Answering(c, more, validAt, after)
          /\ \A i \in 0 .. n + 1 : c[i] <= i
          /\ Ask(more, validAt, knownAt) = c[n + 1]
    BY <2>1, <1>ai DEF Ask, Get
  <2> HIDE DEF more, before, after, n
  <2> DEFINE S == {i \in 0 .. n : b[i] = c[i]}
  <2>6. 0 \in S /\ c[n + 1] = c[n]
    BY <2>1, <2>3, <2>4, <2>5 DEF Answering, n
  <2>7. ASSUME NEW i \in 1 .. n, i - 1 \in S PROVE i \in S
    <3>1. /\ b[i - 1] = c[i - 1] /\ b[i - 1] \in Nat /\ b[i - 1] <= i - 1
          /\ i \in 0 .. n /\ i \in 0 .. n + 1 /\ i # 0
      BY <2>1, <2>4, <2>7
    <3>2. b[i - 1] # NoFact => b[i - 1] \in 1 .. n
      BY <2>1, <3>1 DEF NoFact
    <3>3. more[i] = s[i] /\ (b[i - 1] # NoFact => more[b[i - 1]] = s[b[i - 1]])
      BY <2>2, <3>2
    <3>4. b[i] = IF i \in before /\ About(s[i], "metro", "rate") /\ Covers(s[i], validAt)
                    /\ (b[i - 1] = NoFact \/ Outranks(s[i], s[b[i - 1]]))
                 THEN i ELSE b[i - 1]
      BY <2>4, <3>1 DEF Answering, n
    <3>5. c[i] = IF i \in after /\ About(more[i], "metro", "rate") /\ Covers(more[i], validAt)
                    /\ (c[i - 1] = NoFact \/ Outranks(more[i], more[c[i - 1]]))
                 THEN i ELSE c[i - 1]
      BY <2>1, <2>5, <3>1 DEF Answering
    <3> QED
      BY <2>3, <3>1, <3>3, <3>4, <3>5
  <2>8. \A i \in 0 .. n : i \in S
    <3> HIDE DEF S
    <3> QED
      BY ONLY <2>1, <2>6, <2>7, UpTo
  <2>9. b[n] = c[n]
    BY <2>1, <2>8
  <2> QED
    BY <2>4, <2>5, <2>6, <2>9 DEF more
<1> DEFINE Typed == /\ facts \in Seq(FactRows) /\ clock \in Nat
                    /\ decision \in [validAt : Moments \cup {0}, knownAt : Nat,
                                     answer : Nat, overtaken : BOOLEAN]
           LInv == Typed /\ PastAnswersStand
<1>1. LayerInit => LInv
  BY DEF LayerInit, PastAnswersStand, Undecided, NoFact
<1>2. ASSUME LInv, [LayerNext]_layerVars PROVE LInv'
  <2>1. ASSUME NEW f \in FactRows, Learn(f) PROVE LInv'
    <3>1. facts' = AssertFact(facts, f) /\ clock' = clock
          /\ decision' = [decision EXCEPT !.overtaken = @ \/ f.recorded <= decision.knownAt]
      BY <2>1 DEF Learn
    <3>2. Typed'
      <4>1. f.recorded \in Nat
        BY <2>1 DEF FactRows, Fact
      <4>2. (decision.overtaken \/ f.recorded <= decision.knownAt) \in BOOLEAN
        BY <1>2, <4>1
      <4> DEFINE late == decision.overtaken \/ f.recorded <= decision.knownAt
      <4>3. late \in BOOLEAN /\ decision' = [decision EXCEPT !.overtaken = late]
        BY <3>1, <4>2
      <4>4. facts' \in Seq(FactRows)
        BY <1>2, <2>1, <3>1 DEF AssertFact
      <4> HIDE DEF late
      <4> QED
        BY <1>2, <3>1, <4>3, <4>4
    <3>3. PastAnswersStand'
      <4> SUFFICES ASSUME decision' # Undecided, ~decision'.overtaken
                   PROVE  Ask(facts', decision'.validAt, decision'.knownAt) = decision'.answer
        BY DEF PastAnswersStand
      <4>1. ~decision.overtaken /\ ~(f.recorded <= decision.knownAt)
        BY <1>2, <3>1
      <4>2. decision' = decision
        <5>1. decision.overtaken = FALSE /\ (f.recorded <= decision.knownAt) = FALSE
          BY <1>2, <4>1
        <5>2. decision' = [decision EXCEPT !.overtaken = FALSE]
          BY <3>1, <5>1
        <5> QED
          BY <1>2, <5>1, <5>2
      <4>3. Ask(facts, decision.validAt, decision.knownAt) = decision.answer
        BY <1>2, <4>1, <4>2 DEF PastAnswersStand
      <4> QED
        BY <1>2, <2>1, <3>1, <4>1, <4>2, <4>3, <1>as DEF AssertFact
    <3> QED
      BY <3>2, <3>3
  <2>2. CASE Ingest
    <3>1. PICK v \in Values, w \in Windows : Learn(Fact(v, w, clock))
      BY <2>2 DEF Ingest
    <3> QED
      BY <1>2, <2>1, <3>1 DEF FactRows
  <2>3. CASE MergeIn
    <3>1. PICK v \in Values, w \in Windows, r \in 1 .. clock - 1 : Learn(Fact(v, w, r))
      BY <2>3 DEF MergeIn
    <3> QED
      BY <1>2, <2>1, <3>1 DEF FactRows
  <2>4. CASE Tick
    BY <1>2, <2>4 DEF Tick, PastAnswersStand
  <2>5. CASE Decide
    <3>1. \A m \in Moments : Ask(facts, m, clock) \in Nat
      <4>1. Len(facts) \in 0 .. Len(facts)
        BY <1>2
      <4> QED
        BY <1>2, <4>1, <1>ai DEF Ask, Get
    <3> QED
      BY <1>2, <2>5, <3>1 DEF Decide, PastAnswersStand
  <2>6. CASE UNCHANGED <<facts, clock, decision>>
    BY <1>2, <2>6 DEF PastAnswersStand
  <2>7. Own \/ Control => UNCHANGED <<facts, clock, decision>>
    BY DEF Own, Control, Connect
  <2> QED
    BY <1>2, <2>2, <2>3, <2>4, <2>5, <2>6, <2>7 DEF LayerNext, layerVars
<1> QED
  BY <1>1, <1>2, PTL DEF LayerSpec
-----------------------------------------------------------------------------
(* The canonical layer: who owns what.                                    *)

Ends(g, U) == \A e \in ToSet(g.edges) : e.from \in U /\ e.to \in U

(* B holds what is within each distance of start.                            *)
Within(B, g, U, start, types, direction, n) ==
  /\ B \in [0 .. n -> SUBSET U] /\ B[0] = {start}
  /\ \A k \in 1 .. n : B[k] = B[k - 1] \cup OtherEnds(g, B[k - 1], types, direction)

Grows(B, n) == \A k \in 0 .. n : \A j \in 0 .. k : B[j] \subseteq B[k]
Agree(B, C, n) == \A k \in 0 .. n : B[k] = C[k]

DeedRows == [from : Parcels \cup Entities, type : {"owned_by", "controlled_by"}, to : Entities]

(* Parcels are known from the start; entities as edges name them.            *)
Deeds(g) ==
  /\ g \in [nodes : UNION {[S -> {"Parcel", "Entity"}] : S \in SUBSET (Parcels \cup Entities)},
            edges : Seq(DeedRows)]
  /\ Parcels \subseteq DOMAIN g.nodes
  /\ \A e \in Entities \cap DOMAIN g.nodes : g.nodes[e] = "Entity"
  /\ \A e \in ToSet(g.edges) :
       /\ e.from \in DOMAIN g.nodes /\ e.to \in DOMAIN g.nodes
       /\ IF e.type = "owned_by" THEN e.from \in Parcels ELSE e.from \in Entities

Ownership == {"owned_by", "controlled_by"}
Ruling == {"controlled_by"}
OwnersOf(g, p) == OtherEnds(g, {p}, {"owned_by"}, "out")

DeedsHeld == Deeds(graph)

(* Whatever deeds runs bring, in whatever order: who owns a parcel, what an  *)
(* entity holds and who is related to whom never contradict one another.     *)
THEOREM OwnershipReadsAgree == LayerSpec => []OwnersAndPortfoliosAgree
\* The ways ownership is read agree, in a graph of deeds.
\* <1>ba only grow, and how far one looks changes none of the nearer.
\* The walk's balls, how they grow, and that walking back is walking forth.
<1>re. ASSUME NEW g, NEW U, NEW n \in Nat, NEW types, Ends(g, U)
       PROVE  /\ \A x \in U, direction \in {"out", "in"} :
                   Within(Ball(g, x, types, direction, n), g, U, x, types, direction, n)
              /\ \A x, y \in U, k \in 0 .. n :
                   y \in Ball(g, x, types, "out", n)[k] <=> x \in Ball(g, y, types, "in", n)[k]
  <2> USE <1>re
  <2> DEFINE Hop(S, direction) == OtherEnds(g, S, types, direction)
             Dirs == {"out", "in"}
  <2>1. /\ \A S \in SUBSET U, direction \in Dirs : Hop(S, direction) \in SUBSET U
        /\ \A S, y, direction : y \in Hop(S, direction) <=> \E s \in S : y \in Hop({s}, direction)
        /\ \A x, y \in U : y \in Hop({x}, "out") <=> x \in Hop({y}, "in")
    BY DEF OtherEnds, EdgesAt, Near, Far, Ends
  <2>2. ASSUME NEW x \in U, NEW direction \in Dirs
        PROVE  Within(Ball(g, x, types, direction, n), g, U, x, types, direction, n)
    <3> DEFINE V == SUBSET U
               After(S) == S \cup Hop(S, direction)
               step == [k \in 1 .. n |-> [S \in V |-> After(S)]]
               within[k \in 0 .. n] ==
                 IF k = 0 THEN {x}
                 ELSE LET nearer == within[k - 1]
                      IN nearer \cup OtherEnds(g, nearer, types, direction)
    <3>1. \A S \in V : After(S) \in V
      BY <2>1
    <3>2. Ball(g, x, types, direction, n) = within
      BY DEF Ball
    <3> HIDE DEF Hop
    <3>3. PICK f \in [0 .. n -> V] : f[0] = {x} /\ \A k \in 1 .. n : f[k] = step[k][f[k - 1]]
      <4>1. {x} \in V /\ step \in Steps(n, V) /\ n \in Nat
        <5> HIDE DEF After
        <5> QED
          BY <3>1 DEF Steps
      <4> HIDE DEF step, V
      <4>2. \E f : Computed(f, n, V, {x}, step)
        BY ONLY <4>1, Recursion
      <4> QED
        BY <4>2 DEF Computed
    <3>4. ASSUME NEW k \in 1 .. n PROVE f[k] = After(f[k - 1])
      <4>1. k - 1 \in 0 .. n /\ f[k - 1] \in V
        <5> HIDE DEF step, V
        <5> QED
          BY <3>3
      <4>2. step[k][f[k - 1]] = After(f[k - 1])
        <5> HIDE DEF After, V
        <5> QED
          BY <4>1
      <4> QED
        BY <3>3, <4>2
    <3>5. f = [k \in 0 .. n |-> IF k = 0 THEN {x} ELSE After(f[k - 1])]
      <4> HIDE DEF After, step, V
      <4> QED
        BY <3>3, <3>4
    <3>6. within = [k \in 0 .. n |-> IF k = 0 THEN {x} ELSE After(within[k - 1])]
      <4> DEFINE Rec(h) == h = [k \in 0 .. n |-> IF k = 0 THEN {x} ELSE After(h[k - 1])]
      <4>1. Rec(f)
        BY <3>5
      <4>2. within = CHOOSE h : Rec(h)
        BY DEF Hop
      <4> HIDE DEF within, Rec
      <4>3. Rec(within)
        BY ONLY <4>1, <4>2
      <4> QED
        BY ONLY <4>3 DEF Rec
    <3> HIDE DEF within
    <3>7. within[0] = {x} /\ \A k \in 1 .. n : within[k] = After(within[k - 1])
      <4> HIDE DEF After
      <4>1. ASSUME NEW k \in 0 .. n PROVE within[k] = IF k = 0 THEN {x} ELSE After(within[k - 1])
        BY ONLY <3>6, k \in 0 .. n
      <4> QED
        BY ONLY <4>1, n \in Nat
    <3> DEFINE W == {k \in 0 .. n : within[k] \in V}
    <3>8. 0 \in W
      BY <3>7
    <3>9. ASSUME NEW k \in 1 .. n, k - 1 \in W PROVE k \in W
      <4> HIDE DEF After, V
      <4> QED
        BY <3>1, <3>7, <3>9
    <3>10. \A k \in 0 .. n : k \in W
      <4> HIDE DEF W
      <4> QED
        BY ONLY n \in Nat, <3>8, <3>9, UpTo
    <3>11. within \in [0 .. n -> V]
      <4> HIDE DEF V, After
      <4> QED
        BY <3>6, <3>10
    <3> QED
      BY <3>2, <3>7, <3>11 DEF Within, Hop
  <2> DEFINE O(x) == Ball(g, x, types, "out", n)
             I(x) == Ball(g, x, types, "in", n)
  <2> HIDE DEF Hop
  <2>1b. ASSUME NEW S, NEW y, NEW direction PROVE y \in Hop(S, direction) <=> \E s \in S : y \in Hop({s}, direction)
    BY <2>1
  <2>3. ASSUME NEW x \in U
        PROVE  /\ O(x) \in [0 .. n -> SUBSET U] /\ O(x)[0] = {x}
               /\ I(x) \in [0 .. n -> SUBSET U] /\ I(x)[0] = {x}
               /\ \A k \in 1 .. n : O(x)[k] = O(x)[k - 1] \cup Hop(O(x)[k - 1], "out")
               /\ \A k \in 1 .. n : I(x)[k] = I(x)[k - 1] \cup Hop(I(x)[k - 1], "in")
    BY <2>2 DEF Within, Hop
  <2> HIDE DEF O, I
  (* One step on, from the near end: that of each neighbour as well.           *)
  <2> DEFINE Left(k) == \A y \in U : I(y)[k] = I(y)[k - 1] \cup UNION {I(z)[k - 1] : z \in Hop({y}, "in")}
             L == {k \in 0 .. n : k = 0 \/ Left(k)}
  <2>4. ASSUME NEW k \in 1 .. n, k - 1 \in L PROVE k \in L
    <3>1. CASE k = 1
      <4>1. ASSUME NEW y \in U
            PROVE  I(y)[1] = I(y)[0] \cup UNION {I(z)[0] : z \in Hop({y}, "in")}
        <5>1. Hop({y}, "in") \in SUBSET U
          BY <2>1
        <5>2. \A z \in Hop({y}, "in") : I(z)[0] = {z}
          BY <2>3, <5>1
        <5>3. I(y)[1] = {y} \cup Hop({y}, "in") /\ I(y)[0] = {y}
          <6>1. 1 \in 1 .. n /\ 1 - 1 = 0
            BY <3>1
          <6>2. I(y)[1] = I(y)[1 - 1] \cup Hop(I(y)[1 - 1], "in") /\ I(y)[0] = {y}
            BY ONLY <2>3, <6>1, y \in U
          <6> QED
            BY ONLY <6>1, <6>2
        <5>4. ASSUME NEW v PROVE v \in UNION {I(z)[0] : z \in Hop({y}, "in")} <=> v \in Hop({y}, "in")
          <6>1. v \in UNION {I(z)[0] : z \in Hop({y}, "in")} <=> \E z \in Hop({y}, "in") : v \in I(z)[0]
            OBVIOUS
          <6> QED
            BY ONLY <5>2, <6>1
        <5> QED
          BY ONLY <5>3, <5>4
      <4> QED
        BY <3>1, <4>1
    <3>2. CASE k # 1
      <4>1. k - 1 \in 1 .. n /\ (k - 1) - 1 = k - 2 /\ Left(k - 1) /\ k - 2 \in 0 .. n
        BY <2>4, <3>2
      <4> HIDE DEF L
      <4>2. ASSUME NEW y \in U
            PROVE  I(y)[k] = I(y)[k - 1] \cup UNION {I(z)[k - 1] : z \in Hop({y}, "in")}
        <5>1. Hop({y}, "in") \in SUBSET U
          BY <2>1
        <5>2. I(y)[k - 1] = I(y)[k - 2] \cup UNION {I(z)[k - 2] : z \in Hop({y}, "in")}
          <6>1. I(y)[k - 1] = I(y)[(k - 1) - 1] \cup UNION {I(z)[(k - 1) - 1] : z \in Hop({y}, "in")}
            BY <4>1
          <6>2. (k - 1) - 1 = k - 2
            BY <4>1
          <6> HIDE DEF I, Hop
          <6> QED
            BY ONLY <6>1, <6>2, Zenon
        <5>3. /\ I(y)[k] = I(y)[k - 1] \cup Hop(I(y)[k - 1], "in")
              /\ I(y)[k - 1] = I(y)[k - 2] \cup Hop(I(y)[k - 2], "in")
          BY <2>3, <4>1
        <5>4. \A z \in Hop({y}, "in") : I(z)[k - 1] = I(z)[k - 2] \cup Hop(I(z)[k - 2], "in")
          BY <2>3, <4>1, <5>1
        <5>5. ASSUME NEW v \in I(y)[k] PROVE v \in I(y)[k - 1] \cup UNION {I(z)[k - 1] : z \in Hop({y}, "in")}
          <6>1. CASE v \in Hop(I(y)[k - 1], "in")
            <7>1. PICK s \in I(y)[k - 1] : v \in Hop({s}, "in")
              BY ONLY <2>1b, <6>1
            <7>2. CASE s \in I(y)[k - 2]
              <8>1. v \in Hop(I(y)[k - 2], "in")
                BY ONLY <2>1b, <7>1, <7>2
              <8> QED
                BY ONLY <5>3, <8>1
            <7>3. CASE \E z \in Hop({y}, "in") : s \in I(z)[k - 2]
              <8>1. PICK z \in Hop({y}, "in") : s \in I(z)[k - 2]
                BY <7>3
              <8>2. v \in Hop(I(z)[k - 2], "in")
                BY <2>1, <7>1, <8>1
              <8> QED
                BY <5>4, <8>1, <8>2
            <7> QED
              BY <5>2, <7>1, <7>2, <7>3
          <6> QED
            BY <5>3, <5>5, <6>1
        <5>6. ASSUME NEW z \in Hop({y}, "in"), NEW v \in I(z)[k - 1] PROVE v \in I(y)[k]
          <6>1. CASE v \in I(z)[k - 2]
            BY <5>2, <5>3, <6>1
          <6>2. CASE v \in Hop(I(z)[k - 2], "in")
            <7>1. PICK s \in I(z)[k - 2] : v \in Hop({s}, "in")
              BY ONLY <2>1b, <6>2
            <7>2. s \in I(y)[k - 1]
              BY <5>2, <7>1
            <7> QED
              BY ONLY <2>1b, <5>3, <7>1, <7>2
          <6> QED
            BY <5>4, <5>6, <6>1, <6>2
        <5> QED
          BY <5>3, <5>5, <5>6
      <4> QED
        BY <4>2 DEF L
    <3> QED
      BY <3>1, <3>2
  <2>5. \A k \in 0 .. n : k \in L
    <3>1. 0 \in L
      OBVIOUS
    <3> HIDE DEF L
    <3> QED
      BY ONLY n \in Nat, <2>4, <3>1, UpTo
  <2> DEFINE D == {k \in 0 .. n : \A x, y \in U : y \in O(x)[k] <=> x \in I(y)[k]}
  <2>6. 0 \in D
    BY <2>3
  <2>7. ASSUME NEW k \in 1 .. n, k - 1 \in D PROVE k \in D
    <3>1. Left(k)
      <4>1. k \in L /\ k # 0
        BY ONLY <2>5, k \in 1 .. n, n \in Nat
      <4> QED
        BY ONLY <4>1
    <3>2. \A x, y \in U : y \in O(x)[k - 1] <=> x \in I(y)[k - 1]
      BY <2>7
    <3> HIDE DEF D, L
    <3>3. ASSUME NEW x \in U, NEW y \in U PROVE y \in O(x)[k] <=> x \in I(y)[k]
      <4>1. /\ O(x)[k] = O(x)[k - 1] \cup Hop(O(x)[k - 1], "out") /\ O(x)[k - 1] \in SUBSET U
            /\ I(y)[k] = I(y)[k - 1] \cup UNION {I(z)[k - 1] : z \in Hop({y}, "in")}
            /\ Hop({y}, "in") \in SUBSET U
        <5>1. I(y)[k] = I(y)[k - 1] \cup UNION {I(z)[k - 1] : z \in Hop({y}, "in")}
          BY ONLY <3>1, y \in U
        <5>2. Hop({y}, "in") \in SUBSET U
          BY ONLY <2>1, y \in U
        <5>3. k - 1 \in 0 .. n
          BY ONLY n \in Nat, k \in 1 .. n
        <5> QED
          BY ONLY <2>3, <5>1, <5>2, <5>3, x \in U, k \in 1 .. n
      <4> HIDE DEF Left
      <4>2. y \in Hop(O(x)[k - 1], "out") <=> \E z \in O(x)[k - 1] : y \in Hop({z}, "out")
        BY ONLY <2>1b
      <4>3. (\E z \in O(x)[k - 1] : y \in Hop({z}, "out")) <=> \E z \in Hop({y}, "in") : x \in I(z)[k - 1]
        BY <2>1, <3>2, <4>1
      <4> QED
        BY <3>2, <4>1, <4>2, <4>3
    <3> QED
      BY <3>3 DEF D
  <2>8. \A k \in 0 .. n : k \in D
    <3> HIDE DEF D
    <3> QED
      BY ONLY n \in Nat, <2>6, <2>7, UpTo
  <2> QED
    BY <2>2, <2>8 DEF O, I
<1>ba. ASSUME NEW g, NEW U, NEW n \in Nat, NEW types, NEW x \in U, NEW direction, NEW B, NEW C,
              Within(B, g, U, x, types, direction, n), Within(C, g, U, x, types, direction, n + 1)
       PROVE  Grows(B, n) /\ Agree(B, C, n)
  <2> USE <1>ba
  <2> DEFINE Hop(S) == OtherEnds(g, S, types, direction)
             Growing == {k \in 0 .. n : \A j \in 0 .. k : B[j] \subseteq B[k]}
             Same == {k \in 0 .. n : B[k] = C[k]}
  <2>1. /\ B[0] = {x} /\ \A k \in 1 .. n : B[k] = B[k - 1] \cup Hop(B[k - 1])
        /\ C[0] = {x} /\ \A k \in 1 .. n + 1 : C[k] = C[k - 1] \cup Hop(C[k - 1])
    BY DEF Within
  <2> HIDE DEF Hop
  <2>2. 0 \in Growing /\ 0 \in Same
    <3>1. 0 \in 0 .. n /\ \A j \in 0 .. 0 : j = 0
      OBVIOUS
    <3> QED
      BY ONLY <2>1, <3>1
  <2>3. ASSUME NEW k \in 1 .. n, k - 1 \in Growing PROVE k \in Growing
    <3>1. ASSUME NEW j \in 0 .. k PROVE B[j] \subseteq B[k]
      <4>1. CASE j = k
        BY <4>1
      <4>2. CASE j # k
        <5>1. j \in 0 .. k - 1
          BY <4>2
        <5> QED
          BY <2>1, <2>3, <5>1
      <4> QED
        BY <4>1, <4>2
    <3> QED
      BY <3>1
  <2>4. ASSUME NEW k \in 1 .. n, k - 1 \in Same PROVE k \in Same
    <3>1. k \in 0 .. n /\ k \in 1 .. n + 1 /\ k \in 1 .. n
      OBVIOUS
    <3>2. B[k] = B[k - 1] \cup Hop(B[k - 1]) /\ C[k] = C[k - 1] \cup Hop(C[k - 1])
      BY ONLY <2>1, <3>1
    <3> QED
      BY ONLY <2>4, <3>1, <3>2
  <2>5. \A k \in 0 .. n : k \in Growing
    <3> HIDE DEF Growing
    <3> QED
      BY ONLY n \in Nat, <2>2, <2>3, UpTo
  <2>6. \A k \in 0 .. n : k \in Same
    <3> HIDE DEF Same
    <3> QED
      BY ONLY n \in Nat, <2>2, <2>4, UpTo
  <2> QED
    BY <2>5, <2>6 DEF Grows, Agree
<1>da. ASSUME NEW g, Deeds(g), NEW p \in Parcels, NEW e \in Entities \cap DOMAIN g.nodes
       PROVE  LET owners == BeneficialOwners(g, p, MaxDepth)
                  holds == p \in PortfolioOf(g, e, MaxDepth)
                  distance == Traverse(g, p, Ownership, "out", MaxDepth + 1)
              IN /\ e \in DOMAIN owners => holds
                 /\ holds /\ Controllers(g, e) = {} => e \in DOMAIN owners \/ distance[e] = MaxDepth + 1
                 /\ holds => \E o \in OwnersOf(g, p) : RelatedParty(g, o, e, MaxDepth)
  <2> USE <1>da
  (* What is met from a parcel is what is met from its owners of record, one   *)
  (* step further on.                                                          *)
  <2>ch. ASSUME NEW n \in Nat
         PROVE  \A k \in 1 .. n :
                  Ball(g, p, Ownership, "out", n)[k]
                    = {p} \cup UNION {Ball(g, o, Ruling, "out", n)[k - 1] : o \in OwnersOf(g, p)}
    <3> USE <2>ch
    <3> DEFINE U == DOMAIN g.nodes
               P == Ball(g, p, Ownership, "out", n)
               O(o) == Ball(g, o, Ruling, "out", n)
               Hop(S) == OtherEnds(g, S, Ownership, "out")
               HopC(S) == OtherEnds(g, S, Ruling, "out")
               E == U \cap Entities
               record == OwnersOf(g, p)
    <3>1. Ends(g, U) /\ p \in U /\ record \in SUBSET E /\ E \in SUBSET U /\ p \notin E
      <4>1. \A r \in ToSet(g.edges) : r \in DeedRows
        BY DEF Deeds, ToSet
      <4> QED
        BY <4>1, LayerAssumption DEF Ends, Deeds, OwnersOf, OtherEnds, EdgesAt, Near, Far, DeedRows
    <3>2. /\ Hop({p}) = record
          /\ \A S \in SUBSET E : Hop(S) = HopC(S) /\ HopC(S) \in SUBSET E
          /\ \A S, T : Hop(S \cup T) = Hop(S) \cup Hop(T)
          /\ \A S, y : y \in HopC(S) <=> \E s \in S : y \in HopC({s})
      <4>1. \A r \in ToSet(g.edges) : r \in DeedRows
        BY DEF Deeds, ToSet
      <4>2. Hop({p}) = record
        BY <4>1, LayerAssumption DEF Ends, Deeds, OwnersOf, OtherEnds, EdgesAt, Near, Far, DeedRows, Ownership
      <4>3. ASSUME NEW S \in SUBSET E PROVE Hop(S) = HopC(S) /\ HopC(S) \in SUBSET E
        BY <4>1, LayerAssumption DEF Ends, Deeds, OtherEnds, EdgesAt, Near, Far, DeedRows, Ownership, Ruling
      <4>4. ASSUME NEW S, NEW T PROVE Hop(S \cup T) = Hop(S) \cup Hop(T)
        BY DEF OtherEnds, EdgesAt
      <4>5. ASSUME NEW S, NEW y PROVE y \in HopC(S) <=> \E s \in S : y \in HopC({s})
        BY DEF OtherEnds, EdgesAt, Near
      <4> QED
        BY <4>2, <4>3, <4>4, <4>5
    <3>3. /\ P \in [0 .. n -> SUBSET U] /\ P[0] = {p}
          /\ \A k \in 1 .. n : P[k] = P[k - 1] \cup Hop(P[k - 1])
      <4>1. Within(P, g, U, p, Ownership, "out", n)
        <5> HIDE DEF U
        <5> QED
          BY ONLY <3>1, n \in Nat, <1>re
      <4> HIDE DEF P
      <4> QED
        BY <4>1 DEF Within
    <3>4. ASSUME NEW o \in E
          PROVE  /\ O(o) \in [0 .. n -> SUBSET U] /\ O(o)[0] = {o}
                 /\ \A k \in 1 .. n : O(o)[k] = O(o)[k - 1] \cup HopC(O(o)[k - 1])
      <4>1. Within(O(o), g, U, o, Ruling, "out", n)
        <5> HIDE DEF U
        <5> QED
          BY ONLY <3>1, o \in U, n \in Nat, <1>re
      <4> HIDE DEF O
      <4> QED
        BY <4>1 DEF Within
    <3> HIDE DEF U, P, O, Hop, HopC, E, record
    <3> DEFINE Entity(k) == \A o \in E : O(o)[k] \in SUBSET E
               W == {k \in 0 .. n : Entity(k)}
    <3>5. 0 \in W
      BY <3>4
    <3>6. ASSUME NEW k \in 1 .. n, k - 1 \in W PROVE k \in W
      BY <3>2, <3>4, <3>6
    <3>7. \A k \in 0 .. n : k \in W
      <4> HIDE DEF W
      <4> QED
        BY ONLY n \in Nat, <3>5, <3>6, UpTo
    <3> DEFINE From(k) == UNION {O(o)[k] : o \in record}
               Q == {k \in 0 .. n : k = 0 \/ P[k] = {p} \cup From(k - 1)}
    <3>8. ASSUME NEW k \in 1 .. n PROVE From(k - 1) \in SUBSET E
      <4>1. k - 1 \in W
        BY ONLY <3>7, k \in 1 .. n, n \in Nat
      <4> QED
        BY ONLY <3>1, <4>1
    <3>9. ASSUME NEW k \in 1 .. n, k - 1 \in Q PROVE k \in Q
      <4>1. CASE k = 1
        <5>1. From(0) = record
          BY ONLY <3>1, <3>4
        <5>2. P[1] = P[0] \cup Hop(P[0])
          <6>1. 1 \in 1 .. n /\ 1 - 1 = 0
            BY <4>1
          <6> QED
            BY ONLY <3>3, <6>1
        <5>3. P[1] = {p} \cup From(0)
          BY ONLY <3>2, <3>3, <5>1, <5>2
        <5> QED
          BY ONLY <4>1, <5>3, k \in 1 .. n, n \in Nat
      <4>2. CASE k # 1
        <5>1. k - 1 \in 1 .. n /\ k \in 1 .. n /\ (k - 1) - 1 = k - 2 /\ k - 2 \in 0 .. n /\ k - 1 # 0
          BY <4>2
        <5>2. P[k - 1] = {p} \cup From(k - 2)
          BY ONLY <3>9, <5>1
        <5>3. From(k - 2) \in SUBSET E
          BY ONLY <3>8, <5>1
        <5>4. P[k] = {p} \cup From(k - 2) \cup record \cup HopC(From(k - 2))
          <6> HIDE DEF From
          <6>1. P[k] = P[k - 1] \cup Hop(P[k - 1])
            BY ONLY <3>3, <5>1
          <6>2. Hop({p} \cup From(k - 2)) = Hop({p}) \cup Hop(From(k - 2))
            BY ONLY <3>2
          <6>3. Hop({p}) = record /\ Hop(From(k - 2)) = HopC(From(k - 2))
            BY ONLY <3>2, <5>3
          <6> QED
            BY ONLY <5>2, <6>1, <6>2, <6>3
        <5>5. \A o \in record : O(o)[k - 1] = O(o)[k - 2] \cup HopC(O(o)[k - 2])
          BY ONLY <3>1, <3>4, <5>1
        <5>6. HopC(From(k - 2)) = UNION {HopC(O(o)[k - 2]) : o \in record}
          <6>1. ASSUME NEW y PROVE y \in HopC(From(k - 2)) <=> \E o \in record : y \in HopC(O(o)[k - 2])
            <7>1. y \in HopC(From(k - 2)) <=> \E s \in From(k - 2) : y \in HopC({s})
              BY ONLY <3>2
            <7>2. \A o \in record : y \in HopC(O(o)[k - 2]) <=> \E s \in O(o)[k - 2] : y \in HopC({s})
              BY ONLY <3>2
            <7> QED
              BY ONLY <7>1, <7>2
          <6> QED
            BY ONLY <6>1
        <5>7. From(k - 1) = From(k - 2) \cup HopC(From(k - 2))
          BY ONLY <5>5, <5>6
        <5>8. record \subseteq From(k - 1)
          <6>1. ASSUME NEW o \in record PROVE o \in O(o)[k - 1]
            <7> DEFINE H == {i \in 0 .. n : o \in O(o)[i]}
            <7>1. 0 \in H
              BY ONLY <3>1, <3>4, n \in Nat
            <7>2. ASSUME NEW i \in 1 .. n, i - 1 \in H PROVE i \in H
              BY ONLY <3>1, <3>4, <7>2, n \in Nat
            <7>3. \A i \in 0 .. n : i \in H
              <8> HIDE DEF H
              <8> QED
                BY ONLY n \in Nat, <7>1, <7>2, UpTo
            <7> QED
              BY ONLY <5>1, <7>3, n \in Nat
          <6> QED
            BY ONLY <6>1
        <5>9. P[k] = {p} \cup From(k - 1)
          BY ONLY <5>4, <5>7, <5>8
        <5> QED
          BY ONLY <5>9, k \in 1 .. n, n \in Nat
      <4> QED
        BY <4>1, <4>2
    <3>10. \A k \in 0 .. n : k \in Q
      <4>1. 0 \in Q
        OBVIOUS
      <4> HIDE DEF Q
      <4> QED
        BY ONLY n \in Nat, <3>9, <4>1, UpTo
    <3>11. ASSUME NEW k \in 1 .. n PROVE P[k] = {p} \cup From(k - 1)
      BY ONLY <3>10, k \in 1 .. n, n \in Nat
    <3> QED
      BY <3>11 DEF P, O, record
  <2> DEFINE M == MaxDepth
             U == DOMAIN g.nodes
             P == Ball(g, p, Ownership, "out", M)
             Further == Ball(g, p, Ownership, "out", M + 1)
             O(o) == Ball(g, o, Ruling, "out", M)
             further(o) == Ball(g, o, Ruling, "out", M + 1)
             I(x) == Ball(g, x, Ruling, "in", M)
             record == OwnersOf(g, p)
             holds == p \in PortfolioOf(g, e, MaxDepth)
  <2>1. M \in Nat \ {0} /\ M + 1 \in Nat /\ M \in 1 .. M + 1 /\ M + 1 \in 1 .. M + 1 /\ M \in 1 .. M
        /\ (M + 1) - 1 = M /\ M - 1 \in 0 .. M /\ M \in 0 .. M
    BY LayerAssumption
  <2>2. Ends(g, U) /\ p \in U /\ e \in U /\ record \in SUBSET U /\ p # e
    <3>1. \A r \in ToSet(g.edges) : r \in DeedRows
      BY DEF Deeds, ToSet
    <3> QED
      BY <3>1, LayerAssumption DEF Ends, Deeds, OwnersOf, OtherEnds, EdgesAt, Near, Far, DeedRows
  <2>3. record = {o \in U : \E r \in ToSet(g.edges) : r.type = "owned_by" /\ r.from = p /\ r.to = o}
    BY <2>2 DEF OwnersOf, OtherEnds, EdgesAt, Near, Far
  <2>4. /\ Within(P, g, U, p, Ownership, "out", M) /\ Within(Further, g, U, p, Ownership, "out", M + 1)
        /\ \A o \in U : Within(O(o), g, U, o, Ruling, "out", M)
        /\ \A o \in U : Within(further(o), g, U, o, Ruling, "out", M + 1)
        /\ \A o \in U : Within(I(o), g, U, o, Ruling, "in", M)
        /\ \A x, y \in U : \A k \in 0 .. M : y \in O(x)[k] <=> x \in I(y)[k]
    <3> HIDE DEF U
    <3> QED
      BY ONLY <2>1, <2>2, <1>re
  <2>5. /\ P[M] = {p} \cup UNION {O(o)[M - 1] : o \in record}
        /\ Further[M + 1] = {p} \cup UNION {further(o)[M] : o \in record}
    <3>1. P[M] = {p} \cup UNION {O(o)[M - 1] : o \in record}
      BY ONLY <2>1, <2>ch, Deeds(g), p \in Parcels
    <3>2. Further[M + 1] = {p} \cup UNION {further(o)[M] : o \in record}
      BY ONLY <2>1, <2>ch, Deeds(g), p \in Parcels
    <3> QED
      BY <3>1, <3>2
  <2> HIDE DEF M, U, P, Further, O, further, I, record
  <2>6. /\ Agree(P, Further, M) /\ P[M] = Further[M]
        /\ Grows(Further, M + 1)
    <3>1. Agree(P, Further, M)
      BY ONLY <2>1, <2>2, <2>4, <1>ba
    <3>2. \E C : Within(C, g, U, p, Ownership, "out", (M + 1) + 1)
      <4>1. (M + 1) + 1 \in Nat
        BY ONLY <2>1
      <4> QED
        BY ONLY <2>2, <4>1, <1>re
    <3>3. Grows(Further, M + 1)
      BY ONLY <2>1, <2>2, <2>4, <3>2, <1>ba
    <3> QED
      BY ONLY <2>1, <3>1, <3>3 DEF Agree
  <2>7. ASSUME NEW o \in U
        PROVE  O(o)[M] = further(o)[M] /\ O(o)[M - 1] \subseteq O(o)[M]
    <3>1. Agree(O(o), further(o), M) /\ Grows(O(o), M)
      BY ONLY <2>1, <2>4, o \in U, <1>ba
    <3>2. M - 1 \in 0 .. M /\ M \in 0 .. M
      BY ONLY <2>1
    <3> QED
      BY ONLY <3>1, <3>2 DEF Agree, Grows
  <2>8. e \in I(e)[M]
    <3>1. \E C : Within(C, g, U, e, Ruling, "in", M + 1)
      BY ONLY <2>1, <2>2, <1>re
    <3>2. Grows(I(e), M)
      BY ONLY <2>1, <2>2, <2>4, <3>1, <1>ba
    <3>3. I(e)[0] = {e}
      BY ONLY <2>2, <2>4 DEF Within
    <3> QED
      BY ONLY <2>1, <3>2, <3>3 DEF Grows
  <2>9. holds <=> \E o \in record : e \in O(o)[M]
    <3>1. holds <=> \E o \in record : o \in I(e)[M]
      <4>1. DOMAIN Traverse(g, e, {"controlled_by"}, "in", MaxDepth) = I(e)[M] \ {e}
        BY <2>2 DEF Traverse, Knows, I, M, U, Ruling
      <4>2. holds <=> p \in OtherEnds(g, I(e)[M], {"owned_by"}, "in")
        BY <2>8, <4>1 DEF PortfolioOf
      <4>3. I(e)[M] \in SUBSET U
        BY <2>1, <2>2, <2>4 DEF Within
      <4> QED
        BY <2>3, <4>2, <4>3 DEF OtherEnds, EdgesAt, Near, Far
    <3>2. \A o \in record : e \in O(o)[M] <=> o \in I(e)[M]
      BY ONLY <2>1, <2>2, <2>4
    <3> QED
      BY ONLY <3>1, <3>2
  <2>10. e \in DOMAIN BeneficialOwners(g, p, MaxDepth) <=> e \in P[M] /\ Controllers(g, e) = {}
    <3>1. DOMAIN Traverse(g, p, Ownership, "out", MaxDepth) = P[M] \ {p}
      BY <2>2 DEF Traverse, Knows, P, M, U
    <3>2. g.nodes[e] = "Entity"
      BY <2>2 DEF Deeds, U
    <3> QED
      BY <2>2, <3>1, <3>2 DEF BeneficialOwners, Ownership
  <2>11. ASSUME e \in DOMAIN BeneficialOwners(g, p, MaxDepth) PROVE holds
    <3>1. e \in P[M]
      BY <2>10, <2>11
    <3>2. PICK o \in record : e \in O(o)[M - 1]
      BY <2>2, <2>5, <3>1
    <3> QED
      BY <2>2, <2>7, <2>9, <3>2
  <2>12. ASSUME holds, Controllers(g, e) = {}, e \notin DOMAIN BeneficialOwners(g, p, MaxDepth)
         PROVE  Traverse(g, p, Ownership, "out", MaxDepth + 1)[e] = MaxDepth + 1
    <3>1. e \notin Further[M]
      BY <2>6, <2>10, <2>12
    <3>2. e \in Further[M + 1]
      <4>1. PICK o \in record : e \in O(o)[M]
        BY <2>9, <2>12
      <4>2. e \in further(o)[M]
        BY <2>2, <2>7, <4>1
      <4> QED
        BY <2>5, <4>2
    <3> DEFINE Met(d) == e \in Further[d] \ Further[d - 1]
    <3>3. Traverse(g, p, Ownership, "out", MaxDepth + 1)[e] = CHOOSE d \in 1 .. M + 1 : Met(d)
      BY <2>2, <3>2 DEF Traverse, Knows, Further, M, U
    <3>4. Met(M + 1)
      BY <2>1, <3>1, <3>2
    <3>5. ASSUME NEW d \in 1 .. M + 1, Met(d) PROVE d = M + 1
      <4> SUFFICES ASSUME d # M + 1 PROVE FALSE
        OBVIOUS
      <4>1. d \in 0 .. M /\ M \in 0 .. M + 1
        BY <2>1
      <4>2. Further[d] \subseteq Further[M]
        BY ONLY <2>6, <4>1 DEF Grows
      <4> QED
        BY <3>1, <3>5, <4>2
    <3> HIDE DEF Met
    <3> QED
      BY <2>1, <3>3, <3>4, <3>5 DEF M
  <2>13. ASSUME holds PROVE \E o \in record : RelatedParty(g, o, e, MaxDepth)
    <3>1. PICK o \in record : e \in O(o)[M]
      BY <2>9, <2>13
    <3>2. Upward(g, o, MaxDepth) = {o} \cup O(o)[M] /\ e \in Upward(g, e, MaxDepth)
      BY <2>2 DEF Upward, Traverse, Knows, O, M, U, Ruling
    <3> QED
      BY <3>1, <3>2 DEF RelatedParty
  <2> QED
    BY <2>11, <2>12, <2>13 DEF record
\* Runs only ever add deeds.
<1>do. LayerSpec => []DeedsHeld
  <2>1. LayerInit => DeedsHeld
    <3> SUFFICES ASSUME LayerInit PROVE Deeds(graph)
      BY DEF DeedsHeld
    <3> DEFINE nodes == [p \in Parcels |-> "Parcel"]
    <3>1. graph = [nodes |-> nodes, edges |-> <<>>] /\ DOMAIN nodes = Parcels
      BY DEF LayerInit, EmptyGraph
    <3>2. nodes \in [Parcels -> {"Parcel", "Entity"}]
      OBVIOUS
    <3>3. nodes \in UNION {[S -> {"Parcel", "Entity"}] : S \in SUBSET (Parcels \cup Entities)}
      BY ONLY <3>2
    <3>4. <<>> \in Seq(DeedRows) /\ ToSet(<<>>) = {}
      BY DEF ToSet
    <3> HIDE DEF nodes
    <3> QED
      BY <3>1, <3>3, <3>4, LayerAssumption DEF Deeds
  <2>2. ASSUME DeedsHeld, [LayerNext]_layerVars PROVE DeedsHeld'
    <3>0. Deeds(graph)
      BY <2>2 DEF DeedsHeld
    <3> SUFFICES Deeds(graph')
      BY DEF DeedsHeld
    <3>1. CASE UNCHANGED graph
      BY <2>2, <3>0, <3>1
    <3>2. ASSUME NEW d \in DeedRows, Connect(d), d.from \in DOMAIN graph.nodes,
                 IF d.type = "owned_by" THEN d.from \in Parcels ELSE d.from \in Entities
          PROVE  Deeds(graph')
      <4> DEFINE N == DOMAIN graph.nodes \cup {d.to}
                 types == {"Parcel", "Entity"}
                 nodes == [x \in N |-> IF x \in DOMAIN graph.nodes THEN graph.nodes[x] ELSE "Entity"]
                 edges == IF d \in ToSet(graph.edges) THEN graph.edges ELSE Append(graph.edges, d)
      <4>1. d.to \in Entities /\ graph.edges \in Seq(DeedRows)
            /\ N \in SUBSET (Parcels \cup Entities) /\ nodes \in [N -> types]
        BY <3>0 DEF Deeds, DeedRows
      <4>2. graph' = [nodes |-> nodes, edges |-> edges]
        BY <2>2, <3>0, <3>2 DEF Deeds, Connect, AddNode, AddEdge
      <4>3. edges \in Seq(DeedRows) /\ ToSet(edges) = ToSet(graph.edges) \cup {d}
        <5> DEFINE old == graph.edges
        <5>1. old \in Seq(DeedRows) /\ d \in DeedRows
          BY <4>1
        <5> HIDE DEF old
        <5>2. CASE d \in ToSet(old)
          BY <5>1, <5>2 DEF old
        <5>3. CASE d \notin ToSet(old)
          <6>1. Append(old, d) \in Seq(DeedRows) /\ DOMAIN Append(old, d) = 1 .. Len(old) + 1
            BY <5>1
          <6>2. /\ \A i \in 1 .. Len(old) : Append(old, d)[i] = old[i]
                /\ Append(old, d)[Len(old) + 1] = d /\ Len(old) \in Nat /\ DOMAIN old = 1 .. Len(old)
            BY <5>1
          <6>3. ToSet(Append(old, d)) = ToSet(old) \cup {d}
            BY ONLY <6>1, <6>2 DEF ToSet
          <6> QED
            BY <5>3, <6>1, <6>3 DEF old
        <5> QED
          BY <5>2, <5>3
      <4> HIDE DEF edges
      <4>4. /\ Parcels \subseteq DOMAIN nodes /\ DOMAIN nodes = N
            /\ \A e \in Entities \cap DOMAIN nodes : nodes[e] = "Entity"
        BY <3>0 DEF Deeds
      <4>5. \A e \in ToSet(edges) :
              /\ e.from \in N /\ e.to \in N
              /\ IF e.type = "owned_by" THEN e.from \in Parcels ELSE e.from \in Entities
        BY <2>2, <3>0, <3>2, <4>3 DEF Deeds
      <4>6. nodes \in UNION {[S -> types] : S \in SUBSET (Parcels \cup Entities)}
        BY ONLY <4>1
      <4> HIDE DEF N, nodes
      <4> QED
        BY <4>2, <4>3, <4>4, <4>5, <4>6 DEF Deeds
    <3>3. CASE Own
      <4>1. PICK p \in Parcels, e \in Entities : Connect(Edge(p, "owned_by", e))
        BY <3>3 DEF Own
      <4> QED
        BY <2>2, <3>0, <3>2, <4>1 DEF Edge, DeedRows, Deeds
    <3>4. CASE Control
      <4>1. PICK a \in Entities, b \in Entities :
              Knows(graph, a) /\ Connect(Edge(a, "controlled_by", b))
        BY <3>4 DEF Control
      <4> QED
        BY <3>2, <4>1 DEF Edge, DeedRows, Knows
    <3> QED
      BY <2>2, <3>0, <3>1, <3>3, <3>4 DEF LayerNext, layerVars, Ingest, MergeIn, Learn, Tick, Decide
  <2>3. LayerSpec => LayerInit /\ [][LayerNext]_layerVars
    BY DEF LayerSpec
  <2> QED
    BY <2>1, <2>2, <2>3, PTL
<1>1. DeedsHeld => OwnersAndPortfoliosAgree
  BY <1>da DEF DeedsHeld, OwnersAndPortfoliosAgree, Ownership, OwnersOf
<1> QED
  BY <1>1, <1>do, PTL
-----------------------------------------------------------------------------
(* The deals a browser holds.                                             *)

Collections == UNION {[deals -> Nat] : deals \in SUBSET AllDeals}
Pages == [screen : {"closed", "loading", "open"}, deals : Collections, placed : BOOLEAN,
          dirty : BOOLEAN, available : BOOLEAN,
          loadError : {"none", "quota", "corrupt", "unavailable", "unreachable"},
          writeError : {"none", "quota", "unavailable", "write-failed"},
          seeded : BOOLEAN, seen : Access, excused : SUBSET AllDeals]
ListCalls == [tab : Tabs, kind : {"list"}, rows : Collections \cup {NothingSaved}]
WriteCalls == [tab : Tabs, kind : {"create", "update"}, deal : AllDeals, edit : Nat,
               placed : BOOLEAN, heard : BOOLEAN, done : BOOLEAN]

StoreTypes ==
  /\ mode \in {"local", "remote", "off"}
  /\ backend \in Collections \cup {NothingSaved, Damaged, Alien}
  /\ tab \in [Tabs -> Pages]
  /\ calls \subseteq ListCalls \cup WriteCalls
  /\ edits \in Nat

Replaceable == ({"deals", "damaged"} \X {"refusing", "absent"})
               \cup ({"damaged"} \X {"tight", "full"}) \cup ({"alien"} \X Access)

\* One document: a page that is not to write shows it, and samples stand for
\* what may be replaced.
DocumentInv ==
  /\ calls = {}
  /\ \A t \in Tabs : LET p == tab[t] IN
       /\ p.screen = "open" /\ ~p.dirty /\ ~Said(p) =>
            \A d \in DOMAIN p.deals \ p.excused : d \in DOMAIN Kept /\ Kept[d] = p.deals[d]
       /\ p.seeded => p.screen = "open"
       /\ p.seeded /\ p.excused = {} /\ backend \notin {NothingSaved} \cup copies
            => <<Kind(backend), p.seen>> \in Replaceable

Heard(t) == {c \in Writes : c.tab = t /\ c.heard}
Shown(t, d) == d \in DOMAIN tab[t].deals \ tab[t].excused
Saved(t, d) == d \in DOMAIN backend /\ backend[d] = tab[t].deals[d]

\* A row per deal: what a page shows is saved, on its way, or given up.
PageInv(t) ==
  /\ tab[t].screen = "open" => \A d \in AllDeals : Shown(t, d) =>
       \/ Saved(t, d) \/ tab[t].writeError # "none"
       \/ \E c \in Heard(t) : c.deal = d /\ ~c.done
  /\ tab[t].screen = "open" => \A c \in Heard(t) : Shown(t, c.deal) =>
       IF c.done THEN Saved(t, c.deal) ELSE c.edit = tab[t].deals[c.deal]
  /\ tab[t].screen # "open" => \A c \in Heard(t) : c.kind = "create"
ListInv(l) ==
  /\ tab[l.tab].screen = "loading"
  /\ \A c \in Lists(l.tab) : c = l
  /\ l.rows # NothingSaved =>
       /\ DOMAIN l.rows \subseteq DOMAIN backend
       /\ \A d \in DOMAIN l.rows \ tab[l.tab].excused : backend[d] = l.rows[d]
Creates == {c \in Writes : c.kind = "create"}
RowsInv ==
  /\ backend \in Collections /\ Sample \notin DOMAIN backend
  /\ \A t \in Tabs : Sample \notin DOMAIN tab[t].deals /\ ~tab[t].seeded
  /\ \A c \in Writes : c.deal # Sample
  /\ \A c \in Creates : c.deal = Fresh /\ (~c.done => Fresh \notin DOMAIN backend)
  /\ \A c, e \in Creates : c = e
  /\ \A t \in Tabs : PageInv(t)
  /\ \A l \in calls : l.kind = "list" => ListInv(l)

CInv ==
  /\ StoreTypes
  /\ buried \subseteq Replaceable
  /\ mode = "local" => DocumentInv
  /\ mode = "remote" => RowsInv
  /\ mode = "off" => \A t \in Tabs : tab[t].screen = "closed"

(* What the analyst typed is saved or said not to be, and no sample takes    *)
(* the place of what was saved: over any tabs, deals and edits, in either    *)
(* build, whatever the browser or the server refuses, loses or answers late. *)
THEOREM WorkIsAlwaysKept == StoreSpec => []WorkIsKept
\* In one document.
\* Collections, and the payloads that are none.
<1>pl. /\ \A f \in Collections : /\ f \notin {NothingSaved, Damaged, Alien}
                                 /\ DOMAIN f \subseteq AllDeals /\ \A d \in DOMAIN f : f[d] \in Nat
       /\ \A f \in Collections, d \in AllDeals, e \in Nat :
            /\ Put(f, d, e) \in Collections /\ DOMAIN Put(f, d, e) = DOMAIN f \cup {d}
            /\ Put(f, d, e)[d] = e /\ \A x \in DOMAIN f \ {d} : Put(f, d, e)[x] = f[x]
       /\ NoDeals \in Collections /\ DOMAIN NoDeals = {}
       /\ SampleDeals \in Collections /\ DOMAIN SampleDeals = {Sample}
       /\ \A d \in AllDeals : [x \in {d} |-> 0] \in Collections
  <2>1. ASSUME NEW f \in Collections
        PROVE  /\ f \notin {NothingSaved, Damaged, Alien}
               /\ DOMAIN f \subseteq AllDeals /\ \A d \in DOMAIN f : f[d] \in Nat
    <3>1. PICK D \in SUBSET AllDeals : f \in [D -> Nat]
      BY DEF Collections
    <3>2. f # NothingSaved /\ f # Damaged /\ f # Alien
      BY <3>1, StoreAssumption
    <3> QED
      BY <3>1, <3>2
  <2>2. ASSUME NEW f \in Collections, NEW d \in AllDeals, NEW e \in Nat
        PROVE  /\ Put(f, d, e) \in Collections /\ DOMAIN Put(f, d, e) = DOMAIN f \cup {d}
               /\ Put(f, d, e)[d] = e /\ \A x \in DOMAIN f \ {d} : Put(f, d, e)[x] = f[x]
    <3>1. PICK D \in SUBSET AllDeals : f \in [D -> Nat]
      BY DEF Collections
    <3>2. Put(f, d, e) \in [D \cup {d} -> Nat]
      BY <3>1 DEF Put
    <3> QED
      BY <3>1, <3>2 DEF Put, Collections
  <2>3. \A D \in SUBSET AllDeals : [d \in D |-> 0] \in Collections
    BY DEF Collections
  <2> QED
    BY <2>1, <2>2, <2>3 DEF NoDeals, SampleDeals, AllDeals
<1>ds. ASSUME StoreTypes, DocumentInv, mode = "local", buried \subseteq Replaceable, NEW t \in Tabs,
              \/ Hydrate(t) \/ Save(t) \/ NewDeal(t) \/ Reload(t)
              \/ \E d \in AllDeals : UpdateDeal(t, d)
       PROVE  StoreTypes' /\ DocumentInv' /\ mode' = mode /\ buried' \subseteq Replaceable
  <2> USE <1>ds
  <2>a. /\ tab \in [Tabs -> Pages] /\ edits \in Nat /\ calls = {}
        /\ backend \in Collections \cup {NothingSaved, Damaged, Alien}
    BY DEF StoreTypes, DocumentInv
  <2>c. Closed \in Pages /\ Closed.screen = "closed" /\ ~Closed.seeded
    BY <1>pl DEF Closed, Pages, Access
  <2>1. CASE Hydrate(t)
    <3>1. PICK access \in Access, content \in Content :
            LET status == StorageStatus(access, content)
                load == LoadDeals(status)
                none == load.deals = NothingSaved
            IN /\ tab' = [tab EXCEPT ![t] =
                      [Closed EXCEPT !.screen = "open", !.dirty = TRUE,
                           !.deals = IF none THEN SampleDeals ELSE load.deals,
                           !.available = status = "available", !.loadError = load.error,
                           !.seeded = none, !.seen = IF none THEN access ELSE "ok"]]
               /\ copies' = SetAside(access, load.error)
      BY <2>1 DEF Hydrate
    <3> DEFINE status == StorageStatus(access, content)
               load == LoadDeals(status)
               none == load.deals = NothingSaved
               deals == IF none THEN SampleDeals ELSE load.deals
               there == status = "available"
               p == [Closed EXCEPT !.screen = "open", !.dirty = TRUE, !.deals = deals,
                        !.available = there, !.loadError = load.error, !.seeded = none,
                        !.seen = IF none THEN access ELSE "ok"]
    <3>2. UNCHANGED <<mode, backend, calls, edits, buried>> /\ tab' = [tab EXCEPT ![t] = p]
      BY <2>1, <3>1 DEF Hydrate
    <3>3. /\ status \in {"available", "quota", "unavailable"}
          /\ status = "available" => access \in {"ok", "tight"}
          /\ status = "quota" => access = "full"
          /\ status = "unavailable" =>
               \/ access \in {"refusing", "absent"}
               \/ backend = NothingSaved
      BY DEF StorageStatus, QuotaOrAbsent, Content, Access
    <3>4. /\ load.deals \in Collections \cup {NothingSaved}
          /\ load.error \in {"none", "quota", "corrupt", "unavailable"}
          /\ none => status = "unavailable" \/ backend \in {NothingSaved, Damaged, Alien}
          /\ status # "unavailable" /\ backend = Damaged => load.error = "corrupt"
      <4>1. CASE status = "unavailable"
        BY <4>1 DEF LoadDeals
      <4>2. CASE status # "unavailable" /\ backend = Damaged
        BY <3>3, <4>2, StoreAssumption DEF LoadDeals
      <4>3. CASE status # "unavailable" /\ backend \in {NothingSaved, Alien}
        BY <3>3, <4>3, StoreAssumption DEF LoadDeals
      <4>4. CASE status # "unavailable" /\ backend \notin {NothingSaved, Damaged, Alien}
        <5>1. load = [deals |-> backend, error |-> IF status = "quota" THEN "quota" ELSE "none"]
          BY <3>3, <4>4 DEF LoadDeals
        <5> QED
          BY <2>a, <4>4, <5>1
      <4> QED
        BY <4>1, <4>2, <4>3, <4>4
    <3>5. /\ copies \subseteq copies'
          /\ load.error = "corrupt" /\ access = "ok" => backend \in copies'
      BY <3>1 DEF SetAside
    <3> HIDE DEF there
    <3>6. /\ p \in Pages /\ p.screen = "open" /\ p.dirty /\ p.excused = {}
          /\ p.seeded = none /\ (none => p.seen = access)
      <4>1. none \in BOOLEAN /\ there \in BOOLEAN /\ deals \in Collections
        BY <3>4, <1>pl DEF there
      <4> HIDE DEF none, deals
      <4> QED
        BY <2>c, <3>4, <4>1 DEF Pages, Access, Closed
    <3>7. none /\ backend \notin {NothingSaved} \cup copies' => <<Kind(backend), access>> \in Replaceable
      BY <2>a, <3>3, <3>4, <3>5, StoreAssumption DEF Kind, Replaceable, Access
    <3> HIDE DEF p
    <3>8. ASSUME NEW x \in Tabs, x # t PROVE tab'[x] = tab[x]
      BY <2>a, <3>2, <3>8
    <3>9. tab'[t] = p
      BY <2>a, <3>2
    <3>10. StoreTypes'
      BY <3>2, <3>6 DEF StoreTypes
    <3> HIDE DEF status, load, none, deals
    <3>11. DocumentInv'
      BY <2>a, <3>2, <3>5, <3>6, <3>7, <3>8, <3>9 DEF DocumentInv, Said, Kept
    <3> QED
      BY <3>2, <3>10, <3>11
  <2>2. CASE Save(t)
    <3>1. PICK access \in Access, content \in Content : \E error \in SaveError(access, content) :
             IF error # "none"
             THEN /\ tab' = [tab EXCEPT ![t].dirty = FALSE, ![t].writeError = error]
                  /\ UNCHANGED <<backend, buried>>
             ELSE /\ backend' = tab[t].deals
                  /\ buried' = Buried(t)
                  /\ tab' = [x \in Tabs |->
                        IF x = t THEN [tab[x] EXCEPT !.dirty = FALSE, !.writeError = "none",
                                                     !.seeded = FALSE, !.seen = "ok", !.excused = {}]
                        ELSE IF tab[x].screen = "closed" THEN tab[x]
                        ELSE [tab[x] EXCEPT !.excused = AllDeals]]
      BY <2>2 DEF Save
    <3>2. UNCHANGED <<mode, copies, calls, edits>> /\ tab[t] \in Pages
      BY <2>a, <2>2 DEF Save
    <3>3. PICK error \in SaveError(access, content) :
             IF error # "none"
             THEN /\ tab' = [tab EXCEPT ![t].dirty = FALSE, ![t].writeError = error]
                  /\ UNCHANGED <<backend, buried>>
             ELSE /\ backend' = tab[t].deals
                  /\ buried' = Buried(t)
                  /\ tab' = [x \in Tabs |->
                        IF x = t THEN [tab[x] EXCEPT !.dirty = FALSE, !.writeError = "none",
                                                     !.seeded = FALSE, !.seen = "ok", !.excused = {}]
                        ELSE IF tab[x].screen = "closed" THEN tab[x]
                        ELSE [tab[x] EXCEPT !.excused = AllDeals]]
      BY <3>1
    <3>4. error \in {"none", "quota", "unavailable", "write-failed"}
      BY <3>3 DEF SaveError, QuotaOrAbsent, Access
    <3>5. CASE error # "none"
      <4>1. /\ UNCHANGED <<backend, buried>>
            /\ tab' = [tab EXCEPT ![t] = [tab[t] EXCEPT !.dirty = FALSE, !.writeError = error]]
        BY <2>a, <3>3, <3>5
      <4>2. [tab[t] EXCEPT !.dirty = FALSE, !.writeError = error] \in Pages
        BY <3>2, <3>4 DEF Pages
      <4>3. StoreTypes'
        BY <2>a, <3>2, <4>1, <4>2 DEF StoreTypes
      <4>4. /\ \A x \in Tabs \ {t} : tab'[x] = tab[x]
            /\ tab'[t].screen = tab[t].screen /\ tab'[t].writeError = error
            /\ tab'[t].seeded = tab[t].seeded /\ tab'[t].seen = tab[t].seen
            /\ tab'[t].excused = tab[t].excused
        BY <2>a, <3>2, <4>1 DEF Pages
      <4>5. DocumentInv'
        BY <3>2, <3>5, <4>1, <4>4 DEF DocumentInv, Said, Kept
      <4> QED
        BY <3>2, <4>1, <4>3, <4>5
    <3>6. CASE error = "none"
      <4> DEFINE p == [tab[t] EXCEPT !.dirty = FALSE, !.writeError = "none",
                                     !.seeded = FALSE, !.seen = "ok", !.excused = {}]
      <4>1. /\ backend' = tab[t].deals
            /\ buried' = Buried(t)
            /\ tab' = [x \in Tabs |->
                  IF x = t THEN p ELSE IF tab[x].screen = "closed" THEN tab[x]
                  ELSE [tab[x] EXCEPT !.excused = AllDeals]]
        BY <3>3, <3>6
      <4>2. p \in Pages /\ p.deals = tab[t].deals /\ ~p.seeded /\ p.deals \in Collections
        BY <3>2 DEF Pages, Access
      <4>3. ASSUME NEW x \in Tabs, x # t
            PROVE  /\ tab'[x] \in Pages
                   /\ tab'[x].screen = tab[x].screen /\ tab'[x].seeded = tab[x].seeded
                   /\ tab'[x].deals \in Collections
                   /\ tab[x].screen # "closed" => tab'[x].excused = AllDeals
        <5>1. tab[x] \in Pages
          BY <2>a
        <5>2. tab'[x] = IF tab[x].screen = "closed" THEN tab[x] ELSE [tab[x] EXCEPT !.excused = AllDeals]
          BY <4>1, <4>3
        <5> QED
          BY <5>1, <5>2 DEF Pages
      <4>4. tab'[t] = p
        BY <4>1
      <4> HIDE DEF p
      <4>5. StoreTypes'
        <5>1. tab' \in [Tabs -> Pages]
          BY <4>1, <4>2, <4>3, <4>4
        <5> QED
          BY <2>a, <3>2, <4>1, <4>2, <5>1 DEF StoreTypes
      <4>6. DocumentInv'
        <5>1. Kept' = p.deals
          BY <4>1, <4>2, <1>pl DEF Kept
        <5>2. ASSUME NEW x \in Tabs, x # t
              PROVE  /\ tab'[x].screen = "open" => DOMAIN tab'[x].deals \ tab'[x].excused = {}
                     /\ tab'[x].seeded => tab'[x].screen = "open" /\ tab'[x].excused # {}
          <6>1. tab'[x].screen = "open" => tab'[x].excused = AllDeals
            BY <4>3, <5>2
          <6>2. tab'[x].seeded => tab'[x].screen = "open"
            BY <4>3, <5>2 DEF DocumentInv
          <6> QED
            BY <4>3, <5>2, <6>1, <6>2, <1>pl DEF AllDeals
        <5> QED
          BY <2>a, <3>2, <4>2, <4>4, <5>1, <5>2 DEF DocumentInv
      <4>7. buried' \subseteq Replaceable
        BY <4>1 DEF Buried, DocumentInv
      <4> QED
        BY <3>2, <4>5, <4>6, <4>7
    <3> QED
      BY <3>5, <3>6
  <2>3. ASSUME NEW d \in AllDeals, NEW placed \in BOOLEAN, tab[t].screen = "open",
               tab' = [tab EXCEPT ![t] = Written(t, d, placed)], edits' = edits + 1,
               UNCHANGED <<mode, backend, copies, calls, buried>>
        PROVE  StoreTypes' /\ DocumentInv'
    <3>1. tab[t] \in Pages /\ edits + 1 \in Nat /\ tab[t].deals \in Collections
      BY <2>a DEF Pages
    <3> DEFINE p == Written(t, d, placed)
    <3>2. p = [tab[t] EXCEPT !.deals = Put(tab[t].deals, d, edits + 1), !.dirty = TRUE,
                             !.placed = placed, !.excused = tab[t].excused]
      BY <3>1 DEF Written, Pages
    <3>3. Put(tab[t].deals, d, edits + 1) \in Collections
      BY <3>1, <1>pl
    <3>4. p \in Pages /\ p.dirty /\ p.screen = "open" /\ p.seeded = tab[t].seeded
          /\ p.seen = tab[t].seen /\ p.excused = tab[t].excused
      BY <2>3, <3>1, <3>2, <3>3 DEF Pages
    <3> HIDE DEF p
    <3>5. tab'[t] = p /\ tab' \in [Tabs -> Pages] /\ \A x \in Tabs \ {t} : tab'[x] = tab[x]
      BY <2>a, <2>3, <3>4 DEF p
    <3>6. StoreTypes'
      BY <2>a, <2>3, <3>1, <3>5 DEF StoreTypes
    <3>7. DocumentInv'
      BY <2>a, <2>3, <3>4, <3>5 DEF DocumentInv, Said, Kept
    <3> QED
      BY <3>6, <3>7
  <2>4. CASE NewDeal(t)
    <3>1. Fresh \in AllDeals
      BY DEF AllDeals
    <3> QED
      BY <2>3, <2>4, <3>1 DEF NewDeal
  <2>5. ASSUME NEW d \in AllDeals, UpdateDeal(t, d) PROVE StoreTypes' /\ DocumentInv' /\ mode' = mode /\ buried' = buried
    <3>1. tab[t].placed \in BOOLEAN
      BY <2>a DEF Pages
    <3> QED
      BY <2>3, <2>5, <3>1 DEF UpdateDeal
  <2>6. CASE Reload(t)
    <3>1. /\ tab' = [tab EXCEPT ![t] = Closed] /\ calls' = {}
          /\ UNCHANGED <<mode, backend, copies, edits, buried>>
      BY <2>a, <2>6 DEF Reload
    <3>2. tab'[t] = Closed /\ tab' \in [Tabs -> Pages] /\ \A x \in Tabs \ {t} : tab'[x] = tab[x]
      BY <2>a, <2>c, <3>1
    <3>3. StoreTypes'
      BY <2>a, <3>1, <3>2 DEF StoreTypes
    <3>4. DocumentInv'
      BY <2>c, <3>1, <3>2 DEF DocumentInv, Said, Kept
    <3> QED
      BY <3>1, <3>3, <3>4
  <2> QED
    BY <2>1, <2>2, <2>4, <2>5, <2>6 DEF NewDeal
\* A row per deal, behind the server.
<1>rs. ASSUME StoreTypes, RowsInv, mode = "remote", StoreNext
       PROVE  StoreTypes' /\ RowsInv' /\ UNCHANGED <<mode, buried>>
  <2> USE <1>rs
  <2> DEFINE Inv == StoreTypes /\ RowsInv
             Kinds2 == /\ \A c \in Creates : c.deal = Fresh /\ (~c.done => Fresh \notin DOMAIN backend)
                       /\ \A c, e \in Creates : c = e
             NoSample == /\ \A t \in Tabs : Sample \notin DOMAIN tab[t].deals /\ ~tab[t].seeded
                         /\ \A c \in Writes : c.deal # Sample
  <2>a. /\ tab \in [Tabs -> Pages] /\ edits \in Nat /\ backend \in Collections
        /\ calls \subseteq ListCalls \cup WriteCalls /\ mode \in {"local", "remote", "off"}
        /\ Sample \notin DOMAIN backend /\ DOMAIN backend \subseteq AllDeals
        /\ Kept = backend
    BY <1>pl DEF StoreTypes, RowsInv, Kept
  <2>b. /\ \A c \in calls : c.kind = "list" => c \in ListCalls
        /\ \A c \in calls : c.kind # "list" => c \in WriteCalls
        /\ \A c \in ListCalls : c.kind = "list" /\ c.tab \in Tabs
        /\ \A c \in WriteCalls : c.kind # "list" /\ c.tab \in Tabs
    BY <2>a DEF ListCalls, WriteCalls
  <2>c. /\ Closed \in Pages /\ Closed.screen = "closed" /\ ~Closed.seeded
        /\ Closed.deals = NoDeals /\ Closed.writeError = "none"
        /\ Sample \notin DOMAIN NoDeals /\ DOMAIN NoDeals = {}
    BY <1>pl DEF Closed, Pages, Access
  <2>i. /\ \A t \in Tabs : PageInv(t)
        /\ \A l \in calls : l.kind = "list" => ListInv(l)
        /\ Kinds2 /\ NoSample
    BY DEF RowsInv
  (* A page and a list that a step leaves as they were, but for excuses.       *)
  <2>p. ASSUME NEW x \in Tabs, backend' = backend, Heard(x)' = Heard(x),
               tab'[x].screen = tab[x].screen, tab'[x].deals = tab[x].deals,
               tab'[x].writeError = tab[x].writeError, tab[x].excused \subseteq tab'[x].excused
        PROVE  PageInv(x)'
    BY <2>i, <2>p DEF PageInv, Shown, Saved
  <2>l. ASSUME NEW l \in calls, l.kind = "list", backend' = backend, Lists(l.tab)' \subseteq Lists(l.tab),
               tab'[l.tab].screen = tab[l.tab].screen, tab[l.tab].excused \subseteq tab'[l.tab].excused
        PROVE  ListInv(l)'
    BY <2>i, <2>l DEF ListInv
  (* All of it.                                                                *)
  <2>q. ASSUME backend' \in Collections, Sample \notin DOMAIN backend', Kinds2', NoSample',
               \A t \in Tabs : PageInv(t)', \A l \in calls' : l.kind = "list" => ListInv(l)',
               tab' \in [Tabs -> Pages], calls' \subseteq ListCalls \cup WriteCalls, edits' \in Nat,
               UNCHANGED mode
        PROVE  StoreTypes' /\ RowsInv'
    BY <2>a, <2>q DEF StoreTypes, RowsInv
  <2>1. ASSUME NEW t \in Tabs, SignedIn(t) PROVE StoreTypes' /\ RowsInv' /\ UNCHANGED <<mode, buried>>
    <3> DEFINE l == ListCall(t)
               p == [Closed EXCEPT !.screen = "loading"]
    <3>1. /\ tab[t].screen = "closed" /\ tab' = [tab EXCEPT ![t] = p] /\ calls' = calls \cup {l}
          /\ UNCHANGED <<mode, backend, copies, edits, buried>>
      BY <2>1 DEF SignedIn
    <3>2. /\ l \in ListCalls /\ l.kind = "list" /\ l.tab = t /\ l.rows = NothingSaved
      BY DEF ListCall, ListCalls
    <3>3. p \in Pages /\ p.screen = "loading" /\ p.deals = NoDeals /\ ~p.seeded
      BY <2>c DEF Pages
    <3>4. \A m \in calls : m.kind = "list" => m.tab # t
      BY <2>i, <3>1 DEF ListInv
    <3> HIDE DEF l, p
    <3>5. Writes' = Writes /\ Creates' = Creates /\ (\A x \in Tabs : Heard(x)' = Heard(x))
      <4>1. Writes' = Writes
        BY <3>1, <3>2 DEF Writes
      <4> QED
        BY <4>1 DEF Creates, Heard
    <3>6. tab'[t] = p /\ tab' \in [Tabs -> Pages] /\ \A x \in Tabs \ {t} : tab'[x] = tab[x]
      BY <2>a, <3>1, <3>3
    <3>7. Lists(t)' = {l} /\ \A x \in Tabs \ {t} : Lists(x)' = Lists(x)
      BY <3>1, <3>2, <3>4 DEF Lists
    <3>8. \A x \in Tabs : PageInv(x)'
      <4>1. PageInv(t)'
        BY <2>i, <3>1, <3>3, <3>5, <3>6 DEF PageInv
      <4>2. ASSUME NEW x \in Tabs, x # t PROVE PageInv(x)'
        BY <2>p, <3>1, <3>5, <3>6, <4>2
      <4> QED
        BY <4>1, <4>2
    <3>9. \A m \in calls' : m.kind = "list" => ListInv(m)'
      <4>1. ListInv(l)'
        BY <3>2, <3>3, <3>6, <3>7 DEF ListInv
      <4>2. ASSUME NEW m \in calls, m.kind = "list" PROVE ListInv(m)'
        <5>1. m.tab \in Tabs \ {t}
          BY <2>b, <3>4, <4>2
        <5> QED
          BY <2>l, <3>1, <3>6, <3>7, <4>2, <5>1
      <4> QED
        BY <3>1, <4>1, <4>2
    <3>10. Kinds2' /\ NoSample'
      BY <2>c, <2>i, <3>1, <3>3, <3>5, <3>6
    <3> QED
      BY <2>a, <2>q, <3>1, <3>2, <3>6, <3>8, <3>9, <3>10
  <2>2. ASSUME NEW c \in calls, ServeList(c) PROVE StoreTypes' /\ RowsInv' /\ UNCHANGED <<mode, buried>>
    <3>1. /\ c \in ListCalls /\ c.kind = "list" /\ c.rows = NothingSaved /\ c.tab \in Tabs
          /\ calls' = (calls \ {c}) \cup {[c EXCEPT !.rows = backend]}
          /\ tab' = [tab EXCEPT ![c.tab].excused = {}]
          /\ UNCHANGED <<mode, backend, copies, edits, buried>>
      BY <2>b, <2>2 DEF ServeList
    <3>2. PICK l \in ListCalls : l = [c EXCEPT !.rows = backend]
      BY <2>a, <3>1 DEF ListCalls
    <3>3. l.kind = "list" /\ l.tab = c.tab /\ l.rows = backend /\ calls' = (calls \ {c}) \cup {l}
      BY <3>1, <3>2 DEF ListCalls
    <3>4. ListInv(c)
      BY <2>i, <3>1
    <3>5. Writes' = Writes /\ Creates' = Creates /\ (\A x \in Tabs : Heard(x)' = Heard(x))
      <4>1. Writes' = Writes
        BY <3>1, <3>3 DEF Writes
      <4> QED
        BY <4>1 DEF Creates, Heard
    <3>6. /\ tab' \in [Tabs -> Pages] /\ \A x \in Tabs \ {c.tab} : tab'[x] = tab[x]
          /\ tab'[c.tab].screen = "loading" /\ tab'[c.tab].deals = tab[c.tab].deals
          /\ tab'[c.tab].seeded = tab[c.tab].seeded
      <4>1. tab[c.tab] \in Pages /\ tab[c.tab].screen = "loading"
        BY <2>a, <3>1, <3>4 DEF ListInv
      <4>2. [tab[c.tab] EXCEPT !.excused = {}] \in Pages
        BY <4>1 DEF Pages
      <4>3. tab' = [tab EXCEPT ![c.tab] = [tab[c.tab] EXCEPT !.excused = {}]]
        BY <3>1
      <4> QED
        BY <2>a, <3>1, <4>1, <4>2, <4>3 DEF Pages
    <3>7. Lists(c.tab)' = {l} /\ \A x \in Tabs \ {c.tab} : Lists(x)' = Lists(x)
      BY <3>1, <3>3, <3>4 DEF Lists, ListInv
    <3>8. \A x \in Tabs : PageInv(x)'
      <4>1. PageInv(c.tab)'
        BY <2>i, <3>1, <3>4, <3>5, <3>6 DEF PageInv, ListInv
      <4>2. ASSUME NEW x \in Tabs, x # c.tab PROVE PageInv(x)'
        BY <2>p, <3>1, <3>5, <3>6, <4>2
      <4> QED
        BY <4>1, <4>2
    <3>9. \A m \in calls' : m.kind = "list" => ListInv(m)'
      <4>1. ListInv(l)'
        BY <3>1, <3>3, <3>6, <3>7 DEF ListInv
      <4>2. ASSUME NEW m \in calls, m.kind = "list", m # c PROVE ListInv(m)'
        <5>1. m.tab \in Tabs \ {c.tab}
          BY <2>b, <3>4, <4>2 DEF ListInv, Lists
        <5> QED
          BY <2>l, <3>1, <3>6, <3>7, <4>2, <5>1
      <4> QED
        BY <3>3, <4>1, <4>2
    <3>10. Kinds2' /\ NoSample'
      BY <2>i, <3>1, <3>5, <3>6
    <3> QED
      BY <2>a, <2>q, <3>1, <3>3, <3>6, <3>8, <3>9, <3>10
  (* A list that is over, however the page takes it.                           *)
  <2>3. ASSUME NEW c \in calls, NEW p \in Pages, c.kind = "list",
               calls' = calls \ {c}, tab' = [tab EXCEPT ![c.tab] = p], ~p.seeded,
               \/ p.screen = "open" /\ p.deals = c.rows /\ p.deals # NothingSaved
                  /\ p.excused = tab[c.tab].excused
               \/ p.deals = NoDeals,
               UNCHANGED <<mode, backend, copies, edits, buried>>
        PROVE  StoreTypes' /\ RowsInv'
    <3>1. c.tab \in Tabs /\ ListInv(c)
      BY <2>b, <2>i, <2>3
    <3>2. Writes' = Writes /\ Creates' = Creates /\ (\A x \in Tabs : Heard(x)' = Heard(x))
      <4>1. Writes' = Writes
        BY <2>3 DEF Writes
      <4> QED
        BY <4>1 DEF Creates, Heard
    <3>3. tab'[c.tab] = p /\ tab' \in [Tabs -> Pages] /\ \A x \in Tabs \ {c.tab} : tab'[x] = tab[x]
      BY <2>a, <2>3, <3>1
    <3>4. Lists(c.tab)' = {} /\ \A x \in Tabs \ {c.tab} : Lists(x)' = Lists(x)
      BY <2>3, <3>1 DEF Lists, ListInv
    <3>5. ASSUME NEW d \in DOMAIN p.deals \ p.excused
          PROVE  d \in DOMAIN backend /\ backend[d] = p.deals[d]
      BY <2>c, <2>3, <3>1 DEF ListInv
    <3>6. \A x \in Tabs : PageInv(x)'
      <4>1. \A e \in Heard(c.tab) : e.kind = "create" /\ e \in Creates
        BY <2>i, <3>1 DEF PageInv, ListInv, Heard, Creates
      <4>2. \A e \in Heard(c.tab) : ~e.done => e.deal \notin DOMAIN backend
        BY <2>i, <4>1
      <4>3. PageInv(c.tab)'
        BY <2>3, <3>2, <3>3, <3>5, <4>1, <4>2 DEF PageInv, Shown, Saved
      <4>4. ASSUME NEW x \in Tabs, x # c.tab PROVE PageInv(x)'
        BY <2>p, <2>3, <3>2, <3>3, <4>4
      <4> QED
        BY <4>3, <4>4
    <3>7. ASSUME NEW m \in calls', m.kind = "list" PROVE ListInv(m)'
      <4>1. m \in calls /\ m.tab \in Tabs \ {c.tab}
        BY <2>b, <2>3, <3>1, <3>7 DEF ListInv, Lists
      <4> QED
        BY <2>l, <2>3, <3>3, <3>4, <3>7, <4>1
    <3>8. NoSample'
      <4>1. Sample \notin DOMAIN p.deals
        BY <2>a, <2>c, <2>3, <3>1 DEF ListInv
      <4> QED
        BY <2>i, <2>3, <3>2, <3>3, <4>1
    <3>9. Kinds2'
      BY <2>i, <2>3, <3>2
    <3> QED
      BY <2>a, <2>q, <2>3, <3>3, <3>6, <3>7, <3>8, <3>9
  <2>4. ASSUME NEW c \in calls, ListAnswered(c) \/ ListFailed(c)
        PROVE  StoreTypes' /\ RowsInv' /\ UNCHANGED <<mode, buried>>
    <3>1. /\ c.kind = "list" /\ c.tab \in Tabs /\ c \in ListCalls /\ tab[c.tab] \in Pages
          /\ ~tab[c.tab].seeded /\ calls' = calls \ {c}
          /\ UNCHANGED <<mode, backend, copies, edits, buried>>
      BY <2>a, <2>b, <2>i, <2>4 DEF ListAnswered, ListFailed
    <3>2. CASE ListAnswered(c)
      <4> DEFINE p == [tab[c.tab] EXCEPT
                         !.screen = "open", !.deals = c.rows, !.placed = TRUE,
                         !.available = TRUE, !.loadError = "none", !.writeError = "none"]
      <4>1. c.rows \in Collections /\ c.rows # NothingSaved /\ tab' = [tab EXCEPT ![c.tab] = p]
        BY <3>1, <3>2 DEF ListAnswered, ListCalls
      <4>2. p \in Pages /\ p.screen = "open" /\ p.deals = c.rows /\ ~p.seeded
            /\ p.excused = tab[c.tab].excused
        BY <3>1, <4>1 DEF Pages
      <4> HIDE DEF p
      <4> QED
        BY <2>3, <3>1, <4>1, <4>2
    <3>3. CASE ListFailed(c)
      <4> DEFINE p == [tab[c.tab] EXCEPT
                         !.screen = "open", !.deals = NoDeals, !.placed = TRUE, !.excused = {},
                         !.available = FALSE, !.loadError = "unreachable", !.writeError = "none"]
      <4>1. tab' = [tab EXCEPT ![c.tab] = p] \/ tab' = [tab EXCEPT ![c.tab] = Closed]
        BY <3>1, <3>3 DEF ListFailed
      <4>2. p \in Pages /\ p.deals = NoDeals /\ ~p.seeded
        BY <3>1, <1>pl DEF Pages
      <4> HIDE DEF p
      <4> QED
        BY <2>3, <2>c, <3>1, <4>1, <4>2
    <3> QED
      BY <2>4, <3>2, <3>3
  <2>5. ASSUME NEW c \in calls, Serve(c) PROVE StoreTypes' /\ RowsInv' /\ UNCHANGED <<mode, buried>>
    <3>1. /\ c \in WriteCalls /\ c.kind # "list" /\ c \in Writes /\ c.tab \in Tabs /\ ~c.done
          /\ c.deal \in AllDeals /\ c.edit \in Nat
          /\ c.placed => c.kind = "update" /\ c.deal \in DOMAIN backend
          /\ ~c.placed => c.kind = "create"
          /\ backend' = Put(backend, c.deal, c.edit)
          /\ UNCHANGED <<mode, copies, edits, buried>>
      BY <2>b, <2>5 DEF Serve, Writes, WriteCalls
    <3>2. PICK e \in WriteCalls : e = [c EXCEPT !.done = TRUE]
      BY <3>1 DEF WriteCalls
    <3>3. /\ e.kind = c.kind /\ e.tab = c.tab /\ e.deal = c.deal /\ e.edit = c.edit
          /\ e.heard = c.heard /\ e.done /\ e.kind # "list"
          /\ calls' = (calls \ {c}) \cup (IF c.heard THEN {e} ELSE {})
      BY <2>5, <3>1, <3>2 DEF Serve, WriteCalls
    <3>4. /\ backend' \in Collections /\ DOMAIN backend' = DOMAIN backend \cup {c.deal}
          /\ backend'[c.deal] = c.edit /\ \A d \in DOMAIN backend \ {c.deal} : backend'[d] = backend[d]
      <4>1. \A f \in Collections, d \in AllDeals, n \in Nat :
              /\ Put(f, d, n) \in Collections /\ DOMAIN Put(f, d, n) = DOMAIN f \cup {d}
              /\ Put(f, d, n)[d] = n /\ \A x \in DOMAIN f \ {d} : Put(f, d, n)[x] = f[x]
        BY <1>pl
      <4> HIDE DEF Inv
      <4>2. backend \in Collections /\ c.deal \in AllDeals /\ c.edit \in Nat
        BY <2>a, <3>1
      <4> DEFINE new == Put(backend, c.deal, c.edit)
      <4>3. /\ new \in Collections /\ DOMAIN new = DOMAIN backend \cup {c.deal}
            /\ new[c.deal] = c.edit /\ \A x \in DOMAIN backend \ {c.deal} : new[x] = backend[x]
        BY ONLY <4>1, <4>2
      <4>4. backend' = new
        BY <3>1
      <4> HIDE DEF new
      <4> QED
        BY <4>3, <4>4
    <3>5. tab' = [x \in Tabs |->
            IF \/ x # c.tab /\ tab[x].screen # "closed"
               \/ \E l \in Lists(x) : l.rows # NothingSaved
               \/ ~c.heard
            THEN [tab[x] EXCEPT !.excused = tab[x].excused \cup {c.deal}] ELSE tab[x]]
      BY <2>5 DEF Serve
    <3>6. ASSUME NEW x \in Tabs
          PROVE  /\ tab'[x] \in Pages
                 /\ tab'[x].screen = tab[x].screen /\ tab'[x].deals = tab[x].deals
                 /\ tab'[x].writeError = tab[x].writeError /\ tab'[x].seeded = tab[x].seeded
                 /\ tab[x].excused \subseteq tab'[x].excused
                 /\ (x # c.tab /\ tab[x].screen # "closed") \/ ~c.heard
                    \/ (\E l \in Lists(x) : l.rows # NothingSaved) => c.deal \in tab'[x].excused
      <4>1. tab[x] \in Pages
        BY <2>a
      <4>2. [tab[x] EXCEPT !.excused = tab[x].excused \cup {c.deal}] \in Pages
        BY <3>1, <4>1 DEF Pages
      <4>3. \/ /\ tab'[x] = [tab[x] EXCEPT !.excused = tab[x].excused \cup {c.deal}]
            \/ /\ tab'[x] = tab[x]
               /\ ~(x # c.tab /\ tab[x].screen # "closed") /\ c.heard
               /\ ~(\E l \in Lists(x) : l.rows # NothingSaved)
        BY <3>1, <3>5 DEF WriteCalls
      <4> QED
        BY <4>1, <4>2, <4>3 DEF Pages
    <3>7. Writes' = (Writes \ {c}) \cup (IF c.heard THEN {e} ELSE {})
      BY <3>1, <3>3 DEF Writes
    <3>8. ASSUME NEW x \in Tabs
          PROVE  /\ Lists(x)' = Lists(x)
                 /\ Heard(x)' = IF c \in Heard(x) THEN (Heard(x) \ {c}) \cup {e} ELSE Heard(x)
      BY <3>1, <3>3, <3>7 DEF Lists, Heard
    <3>9. ASSUME NEW x \in Tabs PROVE PageInv(x)'
      <4>1. CASE tab[x].screen # "open"
        BY <2>i, <3>3, <3>6, <3>8, <4>1 DEF PageInv
      <4>2. CASE tab[x].screen = "open"
        <5>1. \A d \in AllDeals : Shown(x, d)' => Shown(x, d) /\ (d = c.deal => c \in Heard(x))
          BY <3>1, <3>6, <4>2 DEF Shown, Heard
        <5>2. c \in Heard(x) /\ Shown(x, c.deal)' => Saved(x, c.deal)'
          BY <2>i, <3>1, <3>4, <3>6, <4>2, <5>1 DEF PageInv, Saved
        <5>3. \A d \in AllDeals \ {c.deal} : Saved(x, d) => Saved(x, d)'
          BY <3>4, <3>6 DEF Saved
        <5>4. ASSUME NEW d \in AllDeals, Shown(x, d)'
              PROVE  \/ Saved(x, d)' \/ tab'[x].writeError # "none"
                     \/ \E f \in Heard(x)' : f.deal = d /\ ~f.done
          <6>1. CASE d = c.deal
            BY <5>1, <5>2, <5>4, <6>1
          <6>2. CASE d # c.deal
            <7>1. \A f \in Heard(x) : f.deal = d => f \in Heard(x)'
              BY <3>8, <6>2
            <7>2. \/ Saved(x, d) \/ tab[x].writeError # "none"
                  \/ \E f \in Heard(x) : f.deal = d /\ ~f.done
              BY <2>i, <4>2, <5>1, <5>4 DEF PageInv
            <7> QED
              BY <3>6, <5>3, <6>2, <7>1, <7>2
          <6> QED
            BY <6>1, <6>2
        <5>5. ASSUME NEW f \in Heard(x)', Shown(x, f.deal)'
              PROVE  IF f.done THEN Saved(x, f.deal)' ELSE f.edit = tab'[x].deals[f.deal]
          <6>1. f.deal \in AllDeals
            BY <5>5, <3>6 DEF Shown, Pages, Collections
          <6>2. CASE f \in Heard(x)
            BY <2>i, <3>6, <4>2, <5>1, <5>2, <5>3, <5>5, <6>1, <6>2 DEF PageInv
          <6>3. CASE f = e /\ c \in Heard(x)
            BY <3>3, <5>2, <5>5, <6>3
          <6> QED
            BY <3>8, <6>2, <6>3
        <5> QED
          BY <3>6, <4>2, <5>4, <5>5 DEF PageInv
      <4> QED
        BY <4>1, <4>2
    <3>10. ASSUME NEW m \in calls', m.kind = "list" PROVE ListInv(m)'
      <4>1. m \in calls /\ ListInv(m) /\ m.tab \in Tabs
        BY <2>b, <2>i, <3>3, <3>10
      <4>2. m.rows # NothingSaved => c.deal \in tab'[m.tab].excused
        BY <3>6, <3>10, <4>1 DEF Lists
      <4> QED
        BY <3>4, <3>6, <3>8, <4>1, <4>2 DEF ListInv
    <3>11. Kinds2'
      <4>1. \A f \in Creates' : (f \in Creates /\ f # c) \/ (f = e /\ c \in Creates)
        BY <3>1, <3>3, <3>7 DEF Creates
      <4>2. \A f \in Creates : f # c => f.done \/ c.deal # Fresh
        BY <2>i, <3>1 DEF Creates
      <4> QED
        BY <2>i, <3>3, <3>4, <4>1, <4>2
    <3>12. NoSample' /\ Sample \notin DOMAIN backend'
      BY <2>a, <2>i, <3>1, <3>3, <3>4, <3>6, <3>7
    <3>13. tab' \in [Tabs -> Pages] /\ calls' \subseteq ListCalls \cup WriteCalls
      BY <2>a, <3>3, <3>5, <3>6
    <3> QED
      BY <2>a, <2>q, <3>1, <3>4, <3>9, <3>10, <3>11, <3>12, <3>13
  (* A write the page has heard the end of, or never will.                     *)
  <2>6. ASSUME NEW c \in calls, WriteAnswered(c) \/ WriteFailed(c) \/ Lost(c)
        PROVE  StoreTypes' /\ RowsInv' /\ UNCHANGED <<mode, buried>>
    <3>1. /\ c \in WriteCalls /\ c.kind # "list" /\ c \in Writes /\ c.tab \in Tabs /\ tab[c.tab] \in Pages
          /\ c.deal \in AllDeals /\ UNCHANGED <<mode, backend, copies, edits, buried>>
      <4>1. c.kind # "list"
        BY <2>6 DEF WriteAnswered, WriteFailed, Lost
      <4>2. c \in WriteCalls
        BY <2>b, <4>1
      <4> QED
        BY <2>a, <2>6, <4>1, <4>2 DEF WriteAnswered, WriteFailed, Lost, Writes, WriteCalls
    <3>2. PICK e \in WriteCalls : e = [c EXCEPT !.heard = FALSE]
      BY <3>1 DEF WriteCalls
    <3>3. e.kind = c.kind /\ e.tab = c.tab /\ e.deal = c.deal /\ e.done = c.done /\ ~e.heard
          /\ e.kind # "list"
      BY <3>1, <3>2 DEF WriteCalls
    <3>4. calls' = calls \ {c} \/ (calls' = (calls \ {c}) \cup {e} /\ WriteFailed(c))
      BY <2>6, <3>2 DEF WriteAnswered, WriteFailed, Lost
    <3>5. Writes' = Writes \ {c} \/ Writes' = (Writes \ {c}) \cup {e}
      BY <3>3, <3>4 DEF Writes
    <3>6. ASSUME NEW x \in Tabs
          PROVE  /\ Lists(x)' = Lists(x)
                 /\ x # c.tab \/ ~c.heard => Heard(x)' = Heard(x)
                 /\ Heard(x)' \subseteq Heard(x) /\ Heard(x) \ {c} \subseteq Heard(x)'
      <4>1. Lists(x)' = Lists(x)
        BY <3>1, <3>3, <3>4 DEF Lists
      <4>2. c \in Heard(x) => x = c.tab /\ c.heard
        BY DEF Heard
      <4>3. e \notin Heard(x)'
        BY <3>3 DEF Heard
      <4>4. Heard(x)' = Heard(x) \ {c}
        BY <3>1, <3>5, <4>3 DEF Heard
      <4> QED
        BY <4>1, <4>2, <4>4
    <3>7. Kinds2'
      <4>1. \A f \in Creates' : (f \in Creates /\ f # c) \/ (f = e /\ c \in Creates)
        BY <3>1, <3>3, <3>5 DEF Creates
      <4> QED
        BY <2>i, <3>1, <3>3, <4>1
    <3>8. ASSUME NEW p \in Pages, tab' = [tab EXCEPT ![c.tab] = p],
                 p.screen = tab[c.tab].screen, p.deals = tab[c.tab].deals, p.seeded = tab[c.tab].seeded,
                 tab[c.tab].excused \subseteq p.excused, PageInv(c.tab)'
          PROVE  StoreTypes' /\ RowsInv'
      <4>1. tab'[c.tab] = p /\ tab' \in [Tabs -> Pages] /\ \A x \in Tabs \ {c.tab} : tab'[x] = tab[x]
        BY <2>a, <3>1, <3>8
      <4>2. \A x \in Tabs : PageInv(x)'
        BY <2>p, <3>1, <3>6, <3>8, <4>1
      <4>3. ASSUME NEW m \in calls', m.kind = "list" PROVE ListInv(m)'
        <5>1. m \in calls /\ m.tab \in Tabs
          BY <2>b, <3>3, <3>4, <4>3
        <5> QED
          BY <2>l, <3>1, <3>6, <3>8, <4>1, <4>3, <5>1
      <4>4. NoSample'
        BY <2>i, <3>1, <3>3, <3>5, <3>8, <4>1
      <4> QED
        BY <2>a, <2>q, <3>1, <3>4, <3>7, <4>1, <4>2, <4>3, <4>4
    <3>9. CASE WriteAnswered(c)
      <4> DEFINE told == IF tab[c.tab].writeError = "none" THEN tab[c.tab].excused
                         ELSE tab[c.tab].excused \cup (AllDeals \ {c.deal})
                 placed == tab[c.tab].placed \/ c.kind = "create"
                 p == [tab[c.tab] EXCEPT !.writeError = "none", !.placed = placed, !.excused = told]
      <4>1. c.done /\ c.heard /\ tab' = [tab EXCEPT ![c.tab] = p]
        BY <3>9, Zenon DEF WriteAnswered
      <4>2. told \in SUBSET AllDeals /\ placed \in BOOLEAN
        BY <3>1 DEF Pages
      <4> HIDE DEF placed
      <4>3. /\ p \in Pages /\ p.screen = tab[c.tab].screen /\ p.deals = tab[c.tab].deals
            /\ p.seeded = tab[c.tab].seeded /\ p.excused = told /\ p.writeError = "none"
        <5> HIDE DEF told
        <5> QED
          BY <3>1, <4>2 DEF Pages
      <4> HIDE DEF p
      <4>4. tab'[c.tab] = p
        BY <2>a, <3>1, <4>1
      <4>5. c \in Heard(c.tab)
        BY <3>1, <4>1 DEF Heard
      <4>6. PageInv(c.tab)'
        <5>1. \A d \in AllDeals : Shown(c.tab, d)' => Shown(c.tab, d)
          BY <4>3, <4>4 DEF Shown
        <5>2. \A d \in AllDeals : Saved(c.tab, d) => Saved(c.tab, d)'
          BY <3>1, <4>3, <4>4 DEF Saved
        <5>3. ASSUME NEW d \in AllDeals, Shown(c.tab, d)', tab[c.tab].screen = "open"
              PROVE  Saved(c.tab, d)' \/ \E f \in Heard(c.tab)' : f.deal = d /\ ~f.done
          <6>1. CASE tab[c.tab].writeError # "none"
            <7>1. d = c.deal
              BY <4>3, <4>4, <5>3, <6>1 DEF Shown
            <7> QED
              BY <2>i, <3>1, <4>1, <4>5, <5>1, <5>2, <5>3, <7>1 DEF PageInv
          <6>2. CASE tab[c.tab].writeError = "none"
            BY <2>i, <3>1, <3>6, <4>1, <5>1, <5>2, <5>3, <6>2 DEF PageInv
          <6> QED
            BY <6>1, <6>2
        <5>4. ASSUME NEW f \in Heard(c.tab)', Shown(c.tab, f.deal)', tab[c.tab].screen = "open"
              PROVE  IF f.done THEN Saved(c.tab, f.deal)' ELSE f.edit = tab'[c.tab].deals[f.deal]
          <6>1. f.deal \in AllDeals
            BY <4>3, <4>4, <5>4 DEF Shown, Pages, Collections
          <6> QED
            BY <2>i, <3>1, <3>6, <4>3, <4>4, <5>1, <5>2, <5>4, <6>1 DEF PageInv
        <5>5. tab[c.tab].screen # "open" => \A f \in Heard(c.tab)' : f.kind = "create"
          BY <2>i, <3>1, <3>6 DEF PageInv
        <5> QED
          BY <4>3, <4>4, <5>3, <5>4, <5>5 DEF PageInv
      <4> QED
        BY <3>1, <3>8, <4>1, <4>2, <4>3, <4>6
    <3>10. CASE WriteFailed(c)
      <4> DEFINE p == [tab[c.tab] EXCEPT !.writeError = "write-failed"]
      <4>1. tab' = [tab EXCEPT ![c.tab] = p]
        BY <3>1, <3>10 DEF WriteFailed, FailedNotice
      <4>2. /\ p \in Pages /\ p.screen = tab[c.tab].screen /\ p.deals = tab[c.tab].deals
            /\ p.seeded = tab[c.tab].seeded /\ p.excused = tab[c.tab].excused
            /\ p.writeError = "write-failed"
        BY <3>1 DEF Pages
      <4> HIDE DEF p
      <4>3. tab'[c.tab] = p
        BY <2>a, <3>1, <4>1
      <4>4. PageInv(c.tab)'
        BY <2>i, <3>1, <3>6, <4>2, <4>3 DEF PageInv, Shown, Saved
      <4> QED
        BY <3>1, <3>8, <4>1, <4>2, <4>4
    <3>11. CASE Lost(c)
      <4>1. ~c.heard /\ tab' = tab /\ tab' = [tab EXCEPT ![c.tab] = tab[c.tab]]
        BY <2>a, <3>1, <3>11 DEF Lost
      <4>2. PageInv(c.tab)'
        BY <2>p, <3>1, <3>6, <4>1
      <4>3. PICK p \in Pages : p = tab[c.tab]
        BY <3>1
      <4> QED
        BY <3>1, <3>8, <4>1, <4>2, <4>3
    <3> QED
      BY <2>6, <3>1, <3>9, <3>10, <3>11
  (* An edit, sent.                                                            *)
  <2>7. ASSUME NEW t \in Tabs, NEW d \in AllDeals, NEW kind \in {"create", "update"},
               NEW placed \in BOOLEAN, NEW known \in BOOLEAN,
               d # Sample, tab[t].screen # "closed",
               \/ kind = "update" /\ tab[t].screen = "open"
               \/ kind = "create" /\ d = Fresh /\ ~UnderWay(Fresh) /\ Fresh \notin DOMAIN backend,
               tab' = [tab EXCEPT ![t] = Written(t, d, placed)], edits' = edits + 1,
               calls' = calls \cup {Call(t, kind, d, edits + 1, known)},
               UNCHANGED <<mode, backend, copies, buried>>
        PROVE  StoreTypes' /\ RowsInv'
    <3> DEFINE p == Written(t, d, placed)
               still == IF UnderWay(d) THEN tab[t].excused \cup {d} ELSE tab[t].excused \ {d}
               deals == Put(tab[t].deals, d, edits + 1)
    <3>1. tab[t] \in Pages /\ edits + 1 \in Nat
      BY <2>a
    <3>2. PICK n \in WriteCalls : n = Call(t, kind, d, edits + 1, known)
      BY <3>1 DEF Call, WriteCalls
    <3>3. /\ n.tab = t /\ n.kind = kind /\ n.deal = d /\ n.edit = edits + 1 /\ n.heard /\ ~n.done
          /\ n.kind # "list" /\ calls' = calls \cup {n}
      BY <2>7, <3>2 DEF Call
    <3>4. /\ deals \in Collections /\ DOMAIN deals = DOMAIN tab[t].deals \cup {d}
          /\ deals[d] = edits + 1 /\ \A x \in DOMAIN tab[t].deals \ {d} : deals[x] = tab[t].deals[x]
      <4>1. \A f \in Collections, x \in AllDeals, e \in Nat :
              /\ Put(f, x, e) \in Collections /\ DOMAIN Put(f, x, e) = DOMAIN f \cup {x}
              /\ Put(f, x, e)[x] = e /\ \A y \in DOMAIN f \ {x} : Put(f, x, e)[y] = f[y]
        BY <1>pl
      <4>2. tab[t].deals \in Collections
        BY <3>1 DEF Pages
      <4> QED
        BY ONLY <3>1, <4>1, <4>2, d \in AllDeals
    <3>5. still \in SUBSET AllDeals
      BY <3>1 DEF Pages
    <3>6. p = [tab[t] EXCEPT !.deals = deals, !.dirty = FALSE, !.placed = placed, !.excused = still]
      <4>1. (mode = "local") = FALSE /\ mode # "local"
        OBVIOUS
      <4> QED
        BY <4>1 DEF Written
    <3> HIDE DEF deals, p
    <3>7. /\ p \in Pages /\ p.screen = tab[t].screen /\ p.deals = deals /\ p.excused = still
          /\ p.seeded = tab[t].seeded /\ p.writeError = tab[t].writeError
      <4> HIDE DEF still
      <4> QED
        BY <3>1, <3>4, <3>5, <3>6 DEF Pages
    <3>8. tab'[t] = p /\ tab' \in [Tabs -> Pages] /\ \A x \in Tabs \ {t} : tab'[x] = tab[x]
      BY <2>a, <2>7, <3>7 DEF p
    <3>9. Writes' = Writes \cup {n}
      BY <3>3 DEF Writes
    <3>10. ASSUME NEW x \in Tabs
           PROVE  Lists(x)' = Lists(x) /\ Heard(x)' = IF x = t THEN Heard(x) \cup {n} ELSE Heard(x)
      BY <3>3, <3>9 DEF Lists, Heard
    <3>11. PageInv(t)'
      <4>1. \A x \in AllDeals \ {d} : /\ Shown(t, x)' => Shown(t, x)
                                      /\ x \in DOMAIN tab[t].deals => deals[x] = tab[t].deals[x]
                                      /\ Shown(t, x)' /\ Saved(t, x) => Saved(t, x)'
        BY <2>7, <3>4, <3>7, <3>8 DEF Shown, Saved
      <4>2. ASSUME NEW x \in AllDeals, Shown(t, x)', tab[t].screen = "open"
            PROVE  \/ Saved(t, x)' \/ tab'[t].writeError # "none"
                   \/ \E c \in Heard(t)' : c.deal = x /\ ~c.done
        <5>1. CASE x = d
          BY <3>3, <3>10, <5>1
        <5>2. CASE x # d
          BY <2>i, <3>7, <3>8, <3>10, <4>1, <4>2, <5>2 DEF PageInv
        <5> QED
          BY <5>1, <5>2
      <4>3. ASSUME NEW c \in Heard(t)', Shown(t, c.deal)', tab[t].screen = "open"
            PROVE  IF c.done THEN Saved(t, c.deal)' ELSE c.edit = tab'[t].deals[c.deal]
        <5>1. CASE c = n
          BY <3>3, <3>4, <3>7, <3>8, <5>1
        <5>2. CASE c # n /\ c.deal = d
          <6>1. c \in Writes
            BY <3>10, <5>2 DEF Heard
          <6>2. UnderWay(d)
            BY <5>2, <6>1 DEF UnderWay
          <6> QED
            BY <3>7, <3>8, <4>3, <5>2, <6>2 DEF Shown
        <5>3. CASE c # n /\ c.deal # d
          <6>1. c \in Heard(t)
            BY <3>10, <5>3
          <6>2. c.deal \in AllDeals \ {d} /\ c.deal \in DOMAIN deals
            BY <3>4, <3>7, <3>8, <4>3, <5>3, <1>pl DEF Shown
          <6>3. c.deal \in DOMAIN tab[t].deals /\ Shown(t, c.deal) /\ deals[c.deal] = tab[t].deals[c.deal]
            BY <3>4, <4>1, <4>3, <6>2 DEF Shown
          <6> QED
            BY <2>i, <3>7, <3>8, <4>1, <4>3, <6>1, <6>2, <6>3 DEF PageInv
        <5> QED
          BY <5>1, <5>2, <5>3
      <4>4. tab[t].screen # "open" => \A c \in Heard(t)' : c.kind = "create"
        BY <2>i, <2>7, <3>3, <3>10 DEF PageInv
      <4> QED
        BY <3>7, <3>8, <4>2, <4>3, <4>4 DEF PageInv
    <3>12. \A x \in Tabs : PageInv(x)'
      BY <2>p, <2>7, <3>8, <3>10, <3>11
    <3>13. ASSUME NEW m \in calls', m.kind = "list" PROVE ListInv(m)'
      <4>1. m \in calls /\ m.tab \in Tabs /\ ListInv(m)
        BY <2>b, <2>i, <3>3, <3>13
      <4>2. CASE m.tab # t
        BY <2>l, <2>7, <3>8, <3>10, <3>13, <4>1, <4>2
      <4>3. CASE m.tab = t
        <5>1. d \notin DOMAIN backend
          BY <2>7, <4>1, <4>3 DEF ListInv
        <5>2. \A x \in DOMAIN backend : x \in still <=> x \in tab[t].excused
          BY <5>1
        <5> QED
          BY <2>7, <3>7, <3>8, <3>10, <4>1, <4>3, <5>2 DEF ListInv
      <4> QED
        BY <4>2, <4>3
    <3>14. Kinds2'
      <4>1. CASE kind = "update"
        <5>1. Creates' = Creates
          BY <3>3, <3>9, <4>1 DEF Creates
        <5> QED
          BY <2>i, <2>7, <5>1
      <4>2. CASE kind = "create"
        <5>1. Creates = {}
          BY <2>i, <2>7, <4>2 DEF Creates, UnderWay
        <5>2. Creates' = {n}
          BY <3>3, <3>9, <4>2, <5>1 DEF Creates
        <5> QED
          BY <2>7, <3>3, <4>2, <5>2
      <4> QED
        BY <4>1, <4>2
    <3>15. NoSample'
      BY <2>i, <2>7, <3>3, <3>4, <3>7, <3>8, <3>9
    <3> QED
      BY <2>a, <2>q, <2>7, <3>1, <3>3, <3>8, <3>12, <3>13, <3>14, <3>15
  <2>8. ASSUME NEW t \in Tabs, NewDeal(t) PROVE StoreTypes' /\ RowsInv' /\ UNCHANGED <<mode, buried>>
    <3>1. Fresh \in AllDeals /\ Fresh # Sample
      BY StoreAssumption DEF AllDeals
    <3>2. /\ tab[t].screen # "closed" /\ ~UnderWay(Fresh) /\ Fresh \notin DOMAIN backend
          /\ tab' = [tab EXCEPT ![t] = Written(t, Fresh, FALSE)] /\ edits' = edits + 1
          /\ calls' = calls \cup {Call(t, "create", Fresh, edits + 1, FALSE)}
          /\ UNCHANGED <<mode, backend, copies, buried>>
      <4>1. (mode = "local") = FALSE /\ mode # "local"
        OBVIOUS
      <4> QED
        BY <2>a, <2>8, <4>1 DEF NewDeal
    <3> QED
      BY <2>7, <3>1, <3>2
  <2>9. ASSUME NEW t \in Tabs, NEW d \in AllDeals, UpdateDeal(t, d)
        PROVE  StoreTypes' /\ RowsInv' /\ UNCHANGED <<mode, buried>>
    <3> DEFINE known == d # Fresh \/ tab[t].placed
    <3>1. /\ tab[t].screen = "open" /\ d # Sample /\ tab[t].placed \in BOOLEAN
      BY <2>a, <2>i, <2>9 DEF UpdateDeal, Pages
    <3>2. /\ tab' = [tab EXCEPT ![t] = Written(t, d, tab[t].placed)] /\ edits' = edits + 1
          /\ calls' = calls \cup {Call(t, "update", d, edits + 1, known)}
          /\ UNCHANGED <<mode, backend, copies, buried>>
      BY <2>9 DEF UpdateDeal
    <3>3. PICK now \in BOOLEAN, then \in BOOLEAN : now = tab[t].placed /\ then = known
      BY <3>1
    <3> HIDE DEF known
    <3> QED
      BY <2>7, <3>1, <3>2, <3>3
  <2>10. ASSUME NEW t \in Tabs, Reload(t) PROVE StoreTypes' /\ RowsInv' /\ UNCHANGED <<mode, buried>>
    <3> DEFINE Unheard(c) == [c EXCEPT !.heard = FALSE]
               Mine == {c \in Writes : c.tab = t /\ ~c.done}
               Others == {c \in calls \ Lists(t) : c.kind = "list" \/ c.tab # t}
    <3>1. /\ tab' = [tab EXCEPT ![t] = Closed] /\ UNCHANGED <<mode, backend, copies, edits, buried>>
      BY <2>10 DEF Reload
    <3>2. calls' = Others \cup {Unheard(c) : c \in Mine}
      BY <2>10 DEF Reload, Writes, Lists
    <3>3. ASSUME NEW c \in Mine
          PROVE  /\ Unheard(c) \in WriteCalls /\ Unheard(c).tab = t /\ Unheard(c).kind = c.kind
                 /\ Unheard(c).deal = c.deal /\ ~Unheard(c).heard /\ ~Unheard(c).done
                 /\ Unheard(c).kind # "list"
      <4>1. c \in WriteCalls /\ c.kind # "list"
        BY <2>b DEF Writes
      <4> QED
        BY <4>1 DEF WriteCalls
    <3> HIDE DEF Unheard
    <3>4. Writes' = {c \in Writes : c.tab # t} \cup {Unheard(c) : c \in Mine}
      BY <3>2, <3>3 DEF Writes, Lists
    <3>5. ASSUME NEW x \in Tabs
          PROVE  /\ Lists(x)' = IF x = t THEN {} ELSE Lists(x)
                 /\ Heard(x)' = IF x = t THEN {} ELSE Heard(x)
      <4>1. Lists(x)' = IF x = t THEN {} ELSE Lists(x)
        BY <3>2, <3>3 DEF Lists
      <4>2. Heard(x)' = IF x = t THEN {} ELSE Heard(x)
        BY <3>3, <3>4 DEF Heard
      <4> QED
        BY <4>1, <4>2
    <3>6. tab'[t] = Closed /\ tab' \in [Tabs -> Pages] /\ \A x \in Tabs \ {t} : tab'[x] = tab[x]
      BY <2>a, <2>c, <3>1
    <3>7. \A x \in Tabs : PageInv(x)'
      <4>1. PageInv(t)'
        BY <2>c, <3>5, <3>6 DEF PageInv
      <4>2. ASSUME NEW x \in Tabs, x # t PROVE PageInv(x)'
        BY <2>p, <3>1, <3>5, <3>6, <4>2
      <4> QED
        BY <4>1, <4>2
    <3>8. ASSUME NEW m \in calls', m.kind = "list" PROVE ListInv(m)'
      <4>1. m \in calls /\ m.tab \in Tabs \ {t}
        BY <2>b, <3>2, <3>3, <3>8 DEF Lists
      <4> QED
        BY <2>l, <3>1, <3>5, <3>6, <3>8, <4>1
    <3>9. Kinds2'
      <4>1. \A f \in Creates' : \/ f \in Creates /\ f.tab # t
                                \/ \E c \in Creates : c \in Mine /\ f = Unheard(c)
        BY <3>3, <3>4 DEF Creates
      <4>2. \A f, g \in Creates' : f = g
        BY <2>i, <4>1
      <4>3. \A f \in Creates' : f.deal = Fresh /\ (~f.done => Fresh \notin DOMAIN backend)
        BY <2>i, <3>3, <4>1
      <4> QED
        BY <3>1, <4>2, <4>3
    <3>10. NoSample'
      BY <2>c, <2>i, <3>1, <3>3, <3>4, <3>6
    <3>11. calls' \subseteq ListCalls \cup WriteCalls
      BY <2>a, <3>2, <3>3
    <3> QED
      BY <2>a, <2>q, <3>1, <3>6, <3>7, <3>8, <3>9, <3>10, <3>11
  <2>11. ASSUME NEW t \in Tabs PROVE ~Hydrate(t) /\ ~Save(t)
    BY DEF Hydrate, Save
  <2> QED
    BY <2>1, <2>2, <2>4, <2>5, <2>6, <2>8, <2>9, <2>10, <2>11 DEF StoreNext
<1>1. StoreInit \/ StoreIdle => CInv
  <2>1. Closed \in Pages /\ Closed.screen = "closed" /\ ~Closed.seeded /\ Closed.deals = NoDeals
    BY <1>pl DEF Closed, Pages, Access
  <2>2. CASE StoreInit
    <3>1. /\ mode \in {"local", "remote"} /\ calls = {} /\ edits = 0 /\ buried = {}
          /\ tab = [t \in Tabs |-> Closed]
          /\ backend \in Collections \cup {NothingSaved, Damaged, Alien}
          /\ mode = "remote" => backend \in Collections /\ Sample \notin DOMAIN backend
      BY <2>2, <1>pl, StoreAssumption DEF StoreInit, AllDeals
    <3>2. \A t \in Tabs : tab[t] = Closed
      BY <3>1
    <3>3. StoreTypes
      BY <2>1, <3>1 DEF StoreTypes
    <3>4. DocumentInv
      BY <2>1, <3>1, <3>2 DEF DocumentInv
    <3>5. mode = "remote" => RowsInv
      BY <2>1, <3>1, <3>2, <1>pl DEF RowsInv, Creates, Writes, PageInv, Heard
    <3> QED
      BY <3>1, <3>3, <3>4, <3>5 DEF CInv
  <2>3. CASE StoreIdle
    BY <2>1, <2>3 DEF StoreIdle, CInv, StoreTypes
  <2> QED
    BY <2>2, <2>3
<1>2. CInv /\ [mode # "off" /\ StoreNext]_storeVars => CInv'
  <2> SUFFICES ASSUME CInv, [mode # "off" /\ StoreNext]_storeVars PROVE CInv'
    OBVIOUS
  <2>1. CASE UNCHANGED storeVars
    BY <2>1 DEF CInv, storeVars, StoreTypes, DocumentInv, RowsInv, Kept, PageInv, ListInv, Lists,
                Heard, Writes, Creates, Shown, Saved, Said, Kind
  <2>2. CASE mode = "remote" /\ StoreNext
    BY <2>2, <1>rs DEF CInv
  <2>3. CASE mode = "local" /\ StoreNext
    <3>1. calls = {}
      BY <2>3 DEF CInv, DocumentInv
    <3>2. PICK t \in Tabs : \/ Hydrate(t) \/ Save(t) \/ NewDeal(t) \/ Reload(t)
                            \/ \E d \in AllDeals : UpdateDeal(t, d)
      BY <2>3, <3>1 DEF StoreNext, SignedIn
    <3> QED
      BY <2>3, <3>2, <1>ds DEF CInv
  <2> QED
    BY <2>1, <2>2, <2>3 DEF CInv, StoreTypes
<1>3. CInv => WorkIsKept
  <2> SUFFICES ASSUME CInv PROVE WorkIsKept
    OBVIOUS
  <2>1. SamplesReplaceNothing
    BY <1>pl DEF CInv, SamplesReplaceNothing, Replaceable, Access, RowsInv, Kept
  <2>2. ASSUME NEW t \in Tabs, tab[t].screen = "open", ~tab[t].dirty, \A c \in calls : c.tab # t,
               ~Said(tab[t]), NEW d \in DOMAIN tab[t].deals \ tab[t].excused
        PROVE  d \in DOMAIN Kept /\ Kept[d] = tab[t].deals[d]
    <3>1. CASE mode = "local"
      BY <2>2, <3>1 DEF CInv, DocumentInv
    <3>2. CASE mode = "remote"
      <4>1. Heard(t) = {} /\ d \in AllDeals /\ Shown(t, d)
        BY <2>2 DEF CInv, StoreTypes, Heard, Writes, Shown, Pages, Collections
      <4>2. Saved(t, d) /\ Kept = backend
        BY <2>2, <3>2, <4>1, <1>pl DEF CInv, RowsInv, PageInv, Said, Kept
      <4> QED
        BY <4>2 DEF Saved
    <3> QED
      BY <2>2, <3>1, <3>2 DEF CInv, StoreTypes
  <2> QED
    BY <2>1, <2>2 DEF WorkIsKept, WorkIsSavedOrSaid
<1> QED
  BY <1>1, <1>2, <1>3, PTL DEF StoreSpec
-----------------------------------------------------------------------------
(* The desk: solving for a break-even.                                       *)

(* BreakevenIsARoot holds of every metric.                                   *)
Samples == {i \in 0 .. Reach : i % Sampling = 0}
Smooth(i) == \A x \in i .. (i + Sampling) :
               /\ curve[x] # NoValue
               /\ x > i => curve[x] - curve[x - 1] \in -1 .. 1
(* No root at the sample, and none on the way to the next one scanned.       *)
Passed(i) ==
  /\ curve[i] # 0
  /\ i + Sampling \in Samples /\ i + Sampling < at =>
       ~(Smooth(i) /\ Opposite(curve[i], curve[i + Sampling]))

ScanInv ==
  \/ curve = <<>> /\ answer = NoValue
  \/ /\ curve \in [0 .. Reach -> Int \cup {NoValue}]
     /\ at \in Nat /\ at % Sampling = 0 /\ answer \in Int \cup {NoValue, Open}
     /\ answer = Open /\ at = 0 => left = NoValue
     /\ answer = Open /\ at > 0 =>
          /\ at - Sampling \in Samples
          /\ left = IF curve[at - Sampling] = NoValue THEN NoValue ELSE at - Sampling
     /\ answer \in {Open, NoValue} => \A i \in Samples : i < at => Passed(i)
     /\ answer = NoValue => at > Reach
     /\ answer \in Int => curve[answer] = 0

THEOREM BreakevensAreRoots == ScanSpec => []BreakevenIsARoot
<1> USE ScanAssumption
<1>bs. ASSUME NEW f \in [0 .. Reach -> Int \cup {NoValue}], NEW from \in 0 .. Reach, NEW to \in 0 .. Reach,
              from <= to
       PROVE  /\ Bisected(f, from, to) \in Int \cup {NoValue}
              /\ /\ to - from <= Sampling /\ Opposite(f[from], f[to])
                 /\ \A x \in from .. to : f[x] # NoValue /\ (x > from => f[x] - f[x - 1] \in -1 .. 1)
                 => Bisected(f, from, to) \in 0 .. Reach /\ f[Bisected(f, from, to)] = 0
  <2> USE <1>bs
  <2> DEFINE Whole == [a |-> from, b |-> to, root |-> Open]
             Middle(s) == (s.a + s.b) \div 2
             After(s) ==
                    IF s.root # Open THEN s
                    ELSE IF f[Middle(s)] = NoValue THEN [s EXCEPT !.root = NoValue]
                    ELSE IF f[Middle(s)] = 0 \/ s.b - s.a <= 1 THEN [s EXCEPT !.root = Middle(s)]
                    ELSE IF Opposite(f[s.a], f[Middle(s)]) THEN [s EXCEPT !.b = Middle(s)]
                    ELSE [s EXCEPT !.a = Middle(s)]
             V == {s \in [a : 0 .. Reach, b : 0 .. Reach, root : Int \cup {NoValue, Open}] : s.a <= s.b}
             step[k \in 0 .. Halvings] == IF k = 0 THEN Whole ELSE After(step[k - 1])
             rule == [k \in 1 .. Halvings |-> [s \in V |-> After(s)]]
  <2>1. Bisected(f, from, to) =
          IF step[Halvings].root = Open THEN Middle(step[Halvings]) ELSE step[Halvings].root
    BY DEF Bisected
  <2>2. ASSUME NEW s \in V
        PROVE /\ Middle(s) \in 0 .. Reach /\ s.a <= Middle(s) /\ Middle(s) <= s.b
              /\ 2 * Middle(s) \in {s.a + s.b, s.a + s.b - 1}
    <3>1. s.a \in 0 .. Reach /\ s.b \in 0 .. Reach /\ s.a <= s.b
      OBVIOUS
    <3>2. ASSUME NEW a \in 0 .. Reach, NEW b \in 0 .. Reach, a <= b, NEW m, m = (a + b) \div 2
          PROVE  m \in 0 .. Reach /\ a <= m /\ m <= b /\ 2 * m \in {a + b, a + b - 1}
      BY ONLY <3>2, Reach \in Nat
    <3> QED
      BY ONLY <3>1, <3>2
  <2> HIDE DEF Middle
  <2>3. ASSUME NEW s \in V PROVE After(s) \in V
    BY <2>2, <2>3
  <2>4. Whole \in V
    OBVIOUS
  <2> HIDE DEF V, After, Whole
  <2>5. PICK g : Computed(g, Halvings, V, Whole, rule)
    <3>1. rule \in Steps(Halvings, V)
      BY <2>3 DEF Steps
    <3> HIDE DEF rule
    <3> QED
      BY ONLY <2>4, <3>1, Halvings \in Nat, Recursion
  <2>6. g \in [0 .. Halvings -> V] /\ g[0] = Whole /\ \A k \in 1 .. Halvings : g[k] = After(g[k - 1])
    <3>1. ASSUME NEW k \in 1 .. Halvings PROVE g[k] = After(g[k - 1])
      <4>1. g[k - 1] \in V /\ g[k] = rule[k][g[k - 1]]
        <5>1. k - 1 \in 0 .. Halvings
          OBVIOUS
        <5> HIDE DEF rule
        <5> QED
          BY <2>5, <5>1 DEF Computed
      <4> QED
        BY <4>1
    <3> QED
      BY <2>5, <3>1 DEF Computed
  <2>7. \A k \in 0 .. Halvings : step[k] = g[k]
    <3>1. g = [k \in 0 .. Halvings |-> IF k = 0 THEN Whole ELSE After(g[k - 1])]
      BY <2>6
    <3>2. step = [k \in 0 .. Halvings |-> IF k = 0 THEN Whole ELSE After(step[k - 1])]
      BY <3>1
    <3> HIDE DEF step
    <3> DEFINE T == {k \in 0 .. Halvings : step[k] = g[k]}
    <3>3. 0 \in T /\ \A k \in 1 .. Halvings : k - 1 \in T => k \in T
      BY <2>6, <3>2
    <3> HIDE DEF T
    <3>4. \A k \in 0 .. Halvings : k \in T
      BY ONLY Halvings \in Nat, <3>3, UpTo
    <3> QED
      BY <3>4 DEF T
  <2>8. Bisected(f, from, to) = IF g[Halvings].root = Open THEN Middle(g[Halvings]) ELSE g[Halvings].root
    <3> HIDE DEF step
    <3> QED
      BY <2>1, <2>7
  <2> HIDE DEF step, rule
  <2>9. g[Halvings] \in V /\ Halvings \in 0 .. Halvings
    BY <2>6
  <2>10. Bisected(f, from, to) \in Int \cup {NoValue}
    <3>1. g[Halvings].root \in Int \cup {NoValue, Open}
      BY <2>9 DEF V
    <3> QED
      BY <2>2, <2>8, <2>9, <3>1
  <2>11. ASSUME to - from <= Sampling, Opposite(f[from], f[to]),
                \A x \in from .. to : f[x] # NoValue /\ (x > from => f[x] - f[x - 1] \in -1 .. 1)
         PROVE  Bisected(f, from, to) \in 0 .. Reach /\ f[Bisected(f, from, to)] = 0
    <3> DEFINE halved[k \in 0 .. Halvings] == IF k = 0 THEN 1 ELSE 2 * halved[k - 1]
               double == [k \in 1 .. Halvings |-> [x \in Nat |-> 2 * x]]
    <3>1. PICK w : Computed(w, Halvings, Nat, 1, double)
      <4>1. double \in Steps(Halvings, Nat) /\ 1 \in Nat
        BY DEF Steps
      <4> HIDE DEF double
      <4> QED
        BY ONLY <4>1, Halvings \in Nat, Recursion
    <3>2. w \in [0 .. Halvings -> Nat] /\ w[0] = 1 /\ \A k \in 1 .. Halvings : w[k] = 2 * w[k - 1]
      <4>1. ASSUME NEW k \in 1 .. Halvings PROVE w[k] = 2 * w[k - 1]
        <5>1. w[k - 1] \in Nat /\ w[k] = double[k][w[k - 1]]
          <6>1. k - 1 \in 0 .. Halvings
            OBVIOUS
          <6> HIDE DEF double
          <6> QED
            BY <3>1, <6>1 DEF Computed
        <5> QED
          BY <5>1
      <4> QED
        BY <3>1, <4>1 DEF Computed
    <3>3. \A k \in 0 .. Halvings : halved[k] = w[k]
      <4>1. w = [k \in 0 .. Halvings |-> IF k = 0 THEN 1 ELSE 2 * w[k - 1]]
        BY <3>2
      <4>2. halved = [k \in 0 .. Halvings |-> IF k = 0 THEN 1 ELSE 2 * halved[k - 1]]
        BY <4>1
      <4>3. ASSUME NEW h, h = [k \in 0 .. Halvings |-> IF k = 0 THEN 1 ELSE 2 * h[k - 1]]
            PROVE  \A k \in 0 .. Halvings : h[k] = w[k]
        <5> DEFINE T == {k \in 0 .. Halvings : h[k] = w[k]}
        <5>0. h[0] = 1 /\ \A k \in 1 .. Halvings : h[k] = 2 * h[k - 1]
          BY ONLY <4>3, Halvings \in Nat
        <5>1. 0 \in T /\ \A k \in 1 .. Halvings : k - 1 \in T => k \in T
          BY <3>2, <5>0
        <5> HIDE DEF T
        <5>2. \A k \in 0 .. Halvings : k \in T
          BY ONLY Halvings \in Nat, <5>1, UpTo
        <5> QED
          BY <5>2 DEF T
      <4> HIDE DEF halved
      <4> QED
        BY <4>2, <4>3
    <3>4. Sampling <= w[Halvings]
      <4>1. Sampling <= halved[Halvings]
        OBVIOUS
      <4> HIDE DEF halved
      <4> QED
        BY <3>3, <4>1
    <3> HIDE DEF halved, double
    <3> DEFINE Sound(s, k) ==
                 /\ from <= s.a /\ s.b <= to
                 /\ s.root = Open => Opposite(f[s.a], f[s.b]) /\ s.b - s.a <= w[Halvings - k]
                 /\ s.root # Open => s.root \in 0 .. Reach /\ f[s.root] = 0
               T == {k \in 0 .. Halvings : Sound(g[k], k)}
    <3>5. 0 \in T
      <4>1. g[0] = Whole /\ Whole.a = from /\ Whole.b = to /\ Whole.root = Open
        BY <2>6 DEF Whole
      <4>2. to - from <= w[Halvings - 0]
        BY <2>11, <3>2, <3>4
      <4> QED
        BY <2>11, <4>1, <4>2
    <3>6. ASSUME NEW s \in V, s.root = Open, from <= s.a, s.b <= to, Opposite(f[s.a], f[s.b])
          PROVE  s.b - s.a >= 2 /\ f[Middle(s)] # NoValue /\ f[Middle(s)] \in Int
      <4>1. s.a \in Int /\ s.b \in Int /\ s.a <= s.b /\ Middle(s) \in from .. to
        BY <2>2, <3>6 DEF V
      <4>2. s.a # s.b
        <5>1. s.a \in from .. to /\ f[s.a] \in Int
          <6>1. s.a \in from .. to /\ s.a \in 0 .. Reach
            BY <3>6, <4>1
          <6> QED
            BY <2>11, <6>1
        <5>2. Opposite(f[s.a], f[s.b])
          BY <3>6
        <5>3. ASSUME NEW x \in Int PROVE ~Opposite(x, x)
          BY ONLY <5>3 DEF Opposite
        <5> QED
          BY ONLY <5>1, <5>2, <5>3
      <4>3. s.b # s.a + 1
        <5> SUFFICES ASSUME s.b = s.a + 1 PROVE FALSE
          OBVIOUS
        <5>1. s.b \in from .. to /\ s.b > from /\ s.a \in from .. to /\ s.b - 1 = s.a
          BY <3>6, <4>1
        <5>2. f[s.b] - f[s.a] \in -1 .. 1 /\ f[s.a] \in Int /\ f[s.b] \in Int
          <6>1. s.a \in 0 .. Reach /\ s.b \in 0 .. Reach
            BY <3>6 DEF V
          <6> QED
            BY <2>11, <5>1, <6>1
        <5>3. ASSUME NEW x \in Int, NEW y \in Int, y - x \in -1 .. 1 PROVE ~Opposite(x, y)
          BY ONLY <5>3 DEF Opposite
        <5>4. Opposite(f[s.a], f[s.b])
          BY <3>6
        <5> QED
          BY ONLY <5>2, <5>3, <5>4
      <4>4. f[Middle(s)] # NoValue /\ f[Middle(s)] \in Int
        BY <2>2, <2>11, <4>1, <3>6
      <4> QED
        BY <4>1, <4>2, <4>3, <4>4
    <3>7. ASSUME NEW k \in 1 .. Halvings, k - 1 \in T PROVE k \in T
      <4> DEFINE s == g[k - 1]
                 m == Middle(s)
      <4>1. s \in V /\ Sound(s, k - 1) /\ g[k] = After(s) /\ k - 1 \in 0 .. Halvings
        BY <2>6, <3>7
      <4>2. w[Halvings - (k - 1)] = 2 * w[Halvings - k] /\ w[Halvings - k] \in Nat
        <5>1. Halvings - (k - 1) \in 1 .. Halvings /\ Halvings - k \in 0 .. Halvings
              /\ (Halvings - (k - 1)) - 1 = Halvings - k
          OBVIOUS
        <5> QED
          BY <3>2, <5>1
      <4> HIDE DEF s
      <4>3. Sound(After(s), k)
        <5>1. CASE s.root # Open
          BY <4>1, <5>1 DEF After
        <5>2. CASE s.root = Open
          <6>1. /\ s.b - s.a >= 2 /\ f[m] # NoValue /\ f[m] \in Int
                /\ s.a \in 0 .. Reach /\ s.b \in 0 .. Reach /\ from <= s.a /\ s.b <= to
                /\ m \in 0 .. Reach /\ s.a <= m /\ m <= s.b /\ 2 * m \in {s.a + s.b, s.a + s.b - 1}
                /\ s.b - s.a <= 2 * w[Halvings - k]
                /\ Opposite(f[s.a], f[s.b])
            <7>1. /\ from <= s.a /\ s.b <= to /\ Opposite(f[s.a], f[s.b])
                  /\ s.b - s.a <= 2 * w[Halvings - k]
              BY <4>1, <4>2, <5>2
            <7>2. s.b - s.a >= 2 /\ f[m] # NoValue /\ f[m] \in Int
              BY <3>6, <4>1, <5>2, <7>1
            <7>3. s.a \in 0 .. Reach /\ s.b \in 0 .. Reach
              BY <4>1 DEF V
            <7> QED
              BY <2>2, <4>1, <7>1, <7>2, <7>3
          <6> HIDE DEF m
          <6>5. /\ m - s.a <= w[Halvings - k] /\ s.b - m <= w[Halvings - k]
                /\ from <= m /\ m <= to
            <7>1. ASSUME NEW a \in Int, NEW b \in Int, NEW h \in Int, NEW v \in Int,
                         2 * h \in {a + b, a + b - 1}, b - a <= 2 * v
                  PROVE  h - a <= v /\ b - h <= v
              BY <7>1
            <7>2. s.a \in Int /\ s.b \in Int /\ m \in Int /\ w[Halvings - k] \in Int
              BY <4>2, <6>1
            <7>3. m - s.a <= w[Halvings - k] /\ s.b - m <= w[Halvings - k]
              BY ONLY <6>1, <7>1, <7>2
            <7>4. from <= m /\ m <= to
              <8>1. from \in Int /\ to \in Int /\ from <= s.a /\ s.a <= m /\ m <= s.b /\ s.b <= to
                BY <6>1
              <8> QED
                BY ONLY <7>2, <8>1
            <7> QED
              BY <7>3, <7>4
          <6>2. CASE f[m] = 0
            <7>1. After(s) = [s EXCEPT !.root = m]
              BY <5>2, <6>1, <6>2 DEF After, m
            <7>2. After(s).root = m /\ After(s).a = s.a /\ After(s).b = s.b
              BY <4>1, <7>1 DEF V
            <7>3. m # Open
              BY <6>1
            <7> QED
              BY <6>1, <6>2, <7>2, <7>3
          <6>3. CASE f[m] # 0 /\ Opposite(f[s.a], f[m])
            <7>1. After(s) = [s EXCEPT !.b = m]
              BY <5>2, <6>1, <6>3 DEF After, m
            <7>2. After(s).root = Open /\ After(s).a = s.a /\ After(s).b = m
              BY <4>1, <5>2, <7>1 DEF V
            <7>3. m - s.a <= w[Halvings - k] /\ m <= to
              BY <6>5
            <7> QED
              BY <6>1, <6>3, <7>2, <7>3
          <6>4. CASE f[m] # 0 /\ ~Opposite(f[s.a], f[m])
            <7>1. After(s) = [s EXCEPT !.a = m]
              BY <5>2, <6>1, <6>4 DEF After, m
            <7>2. After(s).root = Open /\ After(s).a = m /\ After(s).b = s.b
              BY <4>1, <5>2, <7>1 DEF V
            <7>3. s.b - m <= w[Halvings - k] /\ from <= m
              BY <6>5
            <7>4. Opposite(f[m], f[s.b])
              BY <6>1, <6>4 DEF Opposite
            <7> QED
              BY <6>1, <7>2, <7>3, <7>4
          <6> QED
            BY <6>2, <6>3, <6>4
        <5> QED
          BY <5>1, <5>2
      <4> QED
        BY <4>1, <4>3
    <3>8. Halvings \in T
      <4>1. 0 \in T /\ \A k \in 1 .. Halvings : k - 1 \in T => k \in T
        BY <3>5, <3>7
      <4> HIDE DEF T
      <4>2. \A k \in 0 .. Halvings : k \in T
        BY ONLY <4>1, Halvings \in Nat, UpTo
      <4> QED
        BY <2>9, <4>2
    <3>9. g[Halvings].root # Open
      <4> SUFFICES ASSUME g[Halvings].root = Open PROVE FALSE
        OBVIOUS
      <4> DEFINE s == g[Halvings]
      <4>1. s \in V /\ Sound(s, Halvings) /\ s.root = Open
        BY <2>9, <3>8
      <4> HIDE DEF s
      <4>2. s.b - s.a >= 2 /\ s.b - s.a <= 1
        <5>1. w[Halvings - Halvings] = 1
          BY <3>2
        <5> QED
          BY <3>6, <4>1, <5>1
      <4>3. s.a \in Int /\ s.b \in Int
        BY <4>1 DEF V
      <4> QED
        BY <4>2, <4>3
    <3> QED
      BY <2>8, <3>8, <3>9
  <2> QED
    BY <2>10, <2>11
<1>mu. ASSUME NEW a \in Int, NEW b \in Int, NEW s \in Nat, s > 0, s * a < s * b
       PROVE  s * a + s <= s * b
  <2>1. a < b
    BY <1>mu, Z3
  <2>2. PICK d \in Nat : b = a + 1 + d
    <3>1. b - a - 1 \in Nat /\ b = a + 1 + (b - a - 1)
      BY <2>1
    <3> QED
      BY <3>1
  <2>3. s * b = s * a + s + s * d /\ s * d \in Nat
    BY <2>2, Z3
  <2> QED
    BY <2>3, Z3
<1>dv. ASSUME NEW i \in Nat, NEW s \in Nat, s > 0
       PROVE  \E q \in Int, r \in 0 .. s - 1 : r = i % s /\ i = s * q + r
  <2>1. i \div s \in Int /\ i % s \in 0 .. s - 1 /\ i = s * (i \div s) + (i % s)
    BY <1>dv
  <2> QED
    BY ONLY <2>1
<1>nx. ASSUME NEW i \in Nat, NEW j \in Nat, NEW s \in Nat, s > 0, i % s = 0, j % s = 0, i < j
       PROVE  i + s <= j
  <2>1. PICK a \in Int : i = s * a
    BY ONLY <1>nx, Z3
  <2>2. PICK b \in Int : j = s * b
    BY ONLY <1>nx, Z3
  <2>3. s * a < s * b
    BY ONLY <1>nx, <2>1, <2>2
  <2>4. s * a + s <= s * b
    BY ONLY <1>mu, <1>nx, <2>3
  <2> QED
    BY ONLY <2>1, <2>2, <2>4
<1>nz. ASSUME NEW i \in Nat, NEW s \in Nat, s > 0, i % s = 0
       PROVE  (i + s) % s = 0
  <2>1. PICK q \in Int : i = s * q
    BY ONLY <1>nz, Z3
  <2>2. PICK p \in Int, r \in 0 .. s - 1 : r = (i + s) % s /\ i + s = s * p + r
    BY ONLY <1>dv, <1>nz, i + s \in Nat
  <2>3. PICK t \in Int : t = q + 1 /\ s * t = s * q + s
    BY ONLY <1>nz, q \in Int, Z3
  <2>4. ~(r > 0)
    <3> SUFFICES ASSUME r > 0 PROVE FALSE
      OBVIOUS
    <3>1. s * p \in Int /\ s * t \in Int
      BY ONLY <1>nz, p \in Int, t \in Int, Z3
    <3>2. s * p < s * t /\ s * t = s * p + r
      BY ONLY <2>1, <2>2, <2>3, <3>1, r > 0, r \in Int
    <3>3. s * p + s <= s * t
      BY ONLY <1>mu, <1>nz, <3>2, p \in Int, t \in Int
    <3> QED
      BY ONLY <3>1, <3>2, <3>3, <1>nz, r \in 0 .. s - 1
  <2> QED
    BY ONLY <2>2, <2>4, r \in 0 .. s - 1, s \in Nat
<1>1. NoScan \/ StartScan => ScanInv
  <2>1. CASE NoScan
    BY <2>1 DEF NoScan, ScanInv
  <2>2. CASE StartScan
    <3>1. at = 0 /\ at % Sampling = 0 /\ answer = Open /\ left = NoValue
      BY <2>2 DEF StartScan
    <3>2. curve \in [0 .. Reach -> Int \cup {NoValue}]
      BY <2>2 DEF StartScan
    <3>3. \A i \in Samples : ~(i < at)
      BY <3>1 DEF Samples
    <3> QED
      BY <3>1, <3>2, <3>3 DEF ScanInv
  <2> QED
    BY <2>1, <2>2
<1>2. ASSUME ScanInv, Scan PROVE ScanInv'
  <2> DEFINE crossed == left # NoValue /\ curve[at] # NoValue /\ Opposite(curve[left], curve[at])
             root == IF crossed THEN Bisected(curve, left, at) ELSE NoValue
  <2>1. /\ curve \in [0 .. Reach -> Int \cup {NoValue}]
        /\ at \in Nat /\ at % Sampling = 0 /\ at <= Reach /\ answer = Open
        /\ at = 0 => left = NoValue
        /\ at > 0 => /\ at - Sampling \in Samples
                     /\ left = IF curve[at - Sampling] = NoValue THEN NoValue ELSE at - Sampling
        /\ \A i \in Samples : i < at => Passed(i)
    <3>1. answer # NoValue /\ answer \in {Open, NoValue}
      BY <1>2 DEF Scan
    <3> QED
      BY <1>2, <3>1 DEF Scan, ScanInv
  <2>2. curve' = curve /\ at' = at + Sampling
    BY <1>2 DEF Scan
  <2>3. at' \in Nat /\ at' % Sampling = 0 /\ at' > 0 /\ at' - Sampling = at /\ at \in Samples
    <3>1. (at + Sampling) % Sampling = 0
      BY ONLY <1>nz, <2>1, Sampling \in Nat, Sampling > 0
    <3> QED
      BY <2>1, <2>2, <3>1 DEF Samples
  <2>4. ASSUME NEW r \in Int, answer' = r, curve[r] = 0 PROVE ScanInv'
    <3>1. r # Open /\ r # NoValue
      OBVIOUS
    <3> QED
      BY <2>1, <2>2, <2>3, <2>4, <3>1 DEF ScanInv
  <2>5. root \in Int \cup {NoValue}
    <3>1. CASE crossed
      <4>1. left \in 0 .. Reach /\ at \in 0 .. Reach /\ left <= at
        BY <2>1, <3>1 DEF Samples
      <4>2. Bisected(curve, left, at) \in Int \cup {NoValue}
        BY ONLY <1>bs, <2>1, <4>1
      <4> QED
        BY <4>2
    <3> QED
      BY <3>1
  <2>6. ASSUME answer' = answer,
               left' = IF curve[at] = NoValue THEN NoValue ELSE at,
               curve[at] # 0,
               at > 0 => ~(Smooth(at - Sampling) /\ Opposite(curve[at - Sampling], curve[at]))
        PROVE  ScanInv'
    <3>1. ASSUME NEW i \in Samples, i < at' PROVE Passed(i)'
      <4>1. Samples' = Samples /\ Smooth(i)' = Smooth(i) /\ i \in Nat /\ i % Sampling = 0
        BY <2>2 DEF Samples, Smooth
      <4>2. CASE i = at
        <5>1. ~(i + Sampling < at')
          BY <2>1, <2>2, <4>2
        <5> QED
          BY <2>2, <2>6, <4>2, <5>1 DEF Passed
      <4>3. CASE i # at
        <5>1. i < at
          <6> SUFFICES ASSUME at < i PROVE FALSE
            BY <2>1, <4>1, <4>3
          <6>1. at + Sampling <= i
            BY ONLY <1>nx, <2>1, <4>1, at < i, Sampling \in Nat, Sampling > 0
          <6> QED
            BY <2>1, <2>2, <3>1, <4>1, <6>1
        <5>2. i + Sampling <= at
          BY ONLY <1>nx, <2>1, <4>1, <5>1, Sampling \in Nat, Sampling > 0
        <5>3. Passed(i)
          BY <2>1, <5>1
        <5>4. CASE i + Sampling = at
          <6>1. at > 0 /\ i = at - Sampling
            BY <2>1, <4>1, <5>4
          <6> QED
            BY <2>2, <2>6, <4>1, <5>3, <5>4, <6>1 DEF Passed
        <5>5. CASE i + Sampling # at
          <6>1. i + Sampling < at
            BY <2>1, <4>1, <5>2, <5>5
          <6> QED
            BY <2>2, <4>1, <5>3, <6>1 DEF Passed
        <5> QED
          BY <5>4, <5>5
      <4> QED
        BY <4>2, <4>3
    <3>2. answer' = Open /\ Open # NoValue /\ Open \notin Int /\ Samples' = Samples
      BY <2>1, <2>6 DEF Samples
    <3> QED
      BY <2>1, <2>2, <2>3, <2>6, <3>1, <3>2 DEF ScanInv
  <2>7. CASE curve[at] = NoValue
    <3>1. left' = NoValue /\ answer' = answer
      BY <1>2, <2>7 DEF Scan
    <3>2. at > 0 => ~Smooth(at - Sampling)
      BY <2>1, <2>7 DEF Smooth, Samples
    <3>3. curve[at] # 0
      BY <2>7
    <3> QED
      BY <2>6, <2>7, <3>1, <3>2, <3>3
  <2>8. CASE curve[at] # NoValue /\ curve[at] = 0
    <3>1. answer' = at
      BY <1>2, <2>8 DEF Scan
    <3> QED
      BY <2>1, <2>4, <2>8, <3>1
  <2>9. CASE curve[at] # NoValue /\ curve[at] # 0 /\ Verified(curve, root)
    <3>1. answer' = root
      BY <1>2, <2>9 DEF Scan
    <3>2. root \in Int /\ curve[root] = 0
      BY <2>5, <2>9 DEF Verified
    <3> HIDE DEF root
    <3> QED
      BY <2>4, <3>1, <3>2
  <2>10. CASE curve[at] # NoValue /\ curve[at] # 0 /\ ~Verified(curve, root)
    <3>1. left' = at /\ answer' = answer
      BY <1>2, <2>10 DEF Scan
    <3>2. ASSUME at > 0, Smooth(at - Sampling), Opposite(curve[at - Sampling], curve[at]) PROVE FALSE
      <4> DEFINE from == at - Sampling
      <4>1. from \in 0 .. Reach /\ at \in 0 .. Reach /\ from <= at /\ at - from <= Sampling
        BY <2>1, <3>2 DEF Samples
      <4>2. \A x \in from .. at : curve[x] # NoValue /\ (x > from => curve[x] - curve[x - 1] \in -1 .. 1)
        <5>1. at = (at - Sampling) + Sampling
          BY <2>1
        <5> QED
          BY <3>2, <5>1 DEF Smooth
      <4>3. left = from
        BY <2>1, <3>2, <4>1, <4>2
      <4>4. crossed
        BY <2>10, <3>2, <4>1, <4>3
      <4>5. Bisected(curve, from, at) \in 0 .. Reach /\ curve[Bisected(curve, from, at)] = 0
        <5>1. Opposite(curve[from], curve[at])
          BY <3>2
        <5> HIDE DEF from
        <5> QED
          BY ONLY <1>bs, <2>1, <4>1, <4>2, <5>1
      <4>6. root = Bisected(curve, from, at) /\ root # NoValue
        BY <4>3, <4>4, <4>5
      <4> QED
        BY <2>10, <4>5, <4>6 DEF Verified
    <3> QED
      BY <2>6, <2>10, <3>1, <3>2
  <2> QED
    BY <2>7, <2>8, <2>9, <2>10
<1>3. ASSUME ScanInv, GiveUp PROVE ScanInv'
  <2>1. /\ answer = Open /\ answer' = NoValue /\ curve' = curve /\ at' = at /\ at > Reach
        /\ curve \in [0 .. Reach -> Int \cup {NoValue}] /\ at \in Nat /\ at % Sampling = 0
        /\ \A i \in Samples : i < at => Passed(i)
    <3>1. answer = Open /\ answer # NoValue
      BY <1>3 DEF GiveUp
    <3> QED
      BY <1>3, <3>1 DEF GiveUp, ScanInv
  <2>2. Samples' = Samples /\ \A i \in Samples : Passed(i)' = Passed(i)
    BY <2>1 DEF Samples, Passed, Smooth
  <2>3. NoValue # Open /\ NoValue \notin Int
    OBVIOUS
  <2> QED
    BY <2>1, <2>2, <2>3 DEF ScanInv
<1>4. ASSUME ScanInv, UNCHANGED scanVars PROVE ScanInv'
  BY <1>4 DEF scanVars, ScanInv, Samples, Passed, Smooth
<1>5. ScanInv => BreakevenIsARoot
  <2> SUFFICES ASSUME ScanInv, curve # <<>>, answer # Open PROVE
                 /\ answer # NoValue => curve[answer] = 0
                 /\ answer = NoValue =>
                      \A i \in Samples :
                         /\ curve[i] # 0
                         /\ i + Sampling \in Samples /\ Smooth(i) =>
                              ~Opposite(curve[i], curve[i + Sampling])
    BY DEF BreakevenIsARoot, Samples, Smooth
  <2>1. answer \in Int => curve[answer] = 0
    BY DEF ScanInv
  <2>2. answer \in Int \cup {NoValue}
    BY DEF ScanInv
  <2>3. ASSUME answer = NoValue, NEW i \in Samples
        PROVE  /\ curve[i] # 0
               /\ i + Sampling \in Samples /\ Smooth(i) =>
                    ~Opposite(curve[i], curve[i + Sampling])
    <3>1. at \in Nat /\ at > Reach /\ \A j \in Samples : j < at => Passed(j)
      BY <2>3 DEF ScanInv
    <3>2. Passed(i) /\ (i + Sampling \in Samples => i + Sampling < at)
      BY <3>1 DEF Samples
    <3> QED
      BY <3>2 DEF Passed
  <2> QED
    BY <2>1, <2>2, <2>3
<1> QED
  BY <1>1, <1>2, <1>3, <1>4, <1>5, PTL DEF ScanSpec, ScanNext
-----------------------------------------------------------------------------
(* The desk: testing a roll against the box.                                 *)

(* NothingPassesUnmeasured holds of every roll that can be keyed in.         *)
THEOREM PassesAreMeasured == RollSpec => []NothingPassesUnmeasured
<1> DEFINE IRoll == roll \in Seq(Bays)
<1>no. ASSUME NEW n \in Nat PROVE Total([i \in 1 .. n |-> 0]) = 0
  <2> DEFINE zeros == [i \in 1 .. n |-> 0]
             sum[i \in 0 .. n] == IF i = 0 THEN 0 ELSE sum[i - 1] + zeros[i]
             g == [i \in 0 .. n |-> 0]
             T == {i \in 0 .. n : sum[i] = 0}
  <2>1. Total(zeros) = sum[n]
    <3>1. Len(zeros) = n /\ zeros \in Seq(Nat)
      BY <1>no
    <3> HIDE DEF zeros
    <3> QED
      BY <3>1 DEF Total
  <2>2. g = [i \in 0 .. n |-> IF i = 0 THEN 0 ELSE g[i - 1] + zeros[i]]
    BY <1>no
  <2>3. sum = [i \in 0 .. n |-> IF i = 0 THEN 0 ELSE sum[i - 1] + zeros[i]]
    BY <2>2
  <2> QED
    <3> HIDE DEF sum
    <3>1. sum[0] = 0 /\ \A i \in 1 .. n : sum[i] = sum[i - 1] + 0
      BY <1>no, <2>3
    <3>2. 0 \in T /\ \A i \in 1 .. n : i - 1 \in T => i \in T
      BY <1>no, <3>1
    <3> HIDE DEF T
    <3>3. \A i \in 0 .. n : i \in T
      BY ONLY <3>2, n \in Nat, UpTo
    <3> QED
      BY <1>no, <2>1, <3>3 DEF T
<1>em. ASSUME NEW bays \in Seq(Bays), NEW picked, picked \cap Keyed(bays, "area") = {}
       PROVE  AreaOf(bays, picked) = 0
  <2>1. AreaOf(bays, picked) = Total([i \in 1 .. Len(bays) |-> 0])
    BY <1>em DEF AreaOf, SumOver
  <2> QED
    BY <1>no, <2>1
<1>er. ASSUME NEW bays \in Seq(Bays), NEW picked, picked \cap WithRent(bays) = {}
       PROVE  RentOf(bays, picked) = 0
  <2>1. RentOf(bays, picked) = Total([i \in 1 .. Len(bays) |-> 0])
    BY <1>er DEF RentOf, SumOver
  <2> QED
    BY <1>no, <2>1
<1>1. NoRoll => IRoll
  BY DEF NoRoll
<1>2. ASSUME IRoll, [\E bay \in Bays : Key(bay)]_<<roll, header>> PROVE IRoll'
  BY <1>2 DEF Key
<1>3. ASSUME IRoll PROVE NothingPassesUnmeasured
  <2> DEFINE Let(field) == \E i \in DOMAIN roll :
                              ~IsVacant(roll[i]) /\ roll[i].rent # Unknown /\ roll[i][field] # Unknown
             keys == {c.key : c \in Criteria}
  <2> SUFFICES ASSUME Verdict = "pass"
               PROVE  /\ {"price", "pricePSF"} \cap keys # {} => header.price # Unknown
                      /\ "walt" \in keys => Let("end")
                      /\ "rentVsMarket" \in keys => Let("market") /\ Let("area")
                      /\ "largestTenant" \in keys => Let("tenant")
                      /\ "occupancy" \in keys => AreaKnown(roll) \/ header.vacancy # Unknown
    BY DEF NothingPassesUnmeasured
  <2>1. ASSUME NEW key \in keys PROVE Measured[key] # Unknown
    <3>1. PICK c \in Criteria : c.key = key
      OBVIOUS
    <3>2. Test(c) # "unknown"
      BY DEF Verdict, Tested
    <3> QED
      BY <3>1, <3>2 DEF Test
  <2>2. ASSUME NEW i \in WithRent(roll)
        PROVE  i \in DOMAIN roll /\ ~IsVacant(roll[i]) /\ roll[i].rent # Unknown
    BY DEF WithRent, Occupied, Keyed
  <2>3. ASSUME "price" \in keys PROVE header.price # Unknown
    <3>1. Measured["price"] = header.price
      BY DEF Measured
    <3> QED
      BY <2>1, <2>3, <3>1
  <2>4. ASSUME "pricePSF" \in keys PROVE header.price # Unknown
    <3>1. Measured["pricePSF"] = Ratio(IF header.price = Unknown THEN Unknown ELSE header.price * 1000, BuildingSize)
      BY DEF Measured
    <3> QED
      BY <2>1, <2>4, <3>1 DEF Ratio
  <2>5. ASSUME "walt" \in keys PROVE Let("end")
    <3>1. Measured["walt"] = WaltYears(roll)
      BY DEF Measured
    <3>2. RentOf(roll, Keyed(roll, "end")) > 0
      BY <2>1, <2>5, <3>1 DEF WaltYears
    <3>3. Keyed(roll, "end") \cap WithRent(roll) # {}
      <4> SUFFICES ASSUME Keyed(roll, "end") \cap WithRent(roll) = {} PROVE FALSE
        OBVIOUS
      <4>1. RentOf(roll, Keyed(roll, "end")) = 0
        BY <1>3, <1>er
      <4> QED
        BY <3>2, <4>1
    <3> QED
      BY <2>2, <3>3 DEF Keyed
  <2>6. ASSUME "rentVsMarket" \in keys PROVE Let("market") /\ Let("area")
    <3>1. Measured["rentVsMarket"] = RentVsMarket(roll)
      BY DEF Measured
    <3>2. WithRent(roll) \cap Keyed(roll, "market") \cap Keyed(roll, "area") # {}
      BY <2>1, <2>6, <3>1 DEF RentVsMarket
    <3> QED
      BY <2>2, <3>2 DEF Keyed
  <2>7. ASSUME "largestTenant" \in keys PROVE Let("tenant")
    <3>1. Measured["largestTenant"] = LargestTenantShare(roll)
      BY DEF Measured
    <3>2. PICK i \in WithRent(roll) : TRUE
      BY <2>1, <2>7, <3>1 DEF LargestTenantShare, RentKnown
    <3>3. roll[i].tenant # Unknown
      BY <1>3, <2>2, BaysAssumption
    <3> QED
      BY <2>2, <3>3
  <2>8. ASSUME "occupancy" \in keys PROVE AreaKnown(roll) \/ header.vacancy # Unknown
    <3>1. Measured["occupancy"] = IF roll # <<>> /\ OccupancyPct(roll) # Unknown THEN OccupancyPct(roll)
                                  ELSE IF header.vacancy = Unknown THEN Unknown ELSE 100 - header.vacancy
      BY DEF Measured
    <3>2. CASE OccupancyPct(roll) # Unknown
      <4>1. AreaOf(roll, DOMAIN roll) # 0
        BY <3>2 DEF OccupancyPct, TotalArea
      <4>2. DOMAIN roll \cap Keyed(roll, "area") # {}
        BY <1>3, <1>em, <4>1
      <4> QED
        BY <4>2 DEF AreaKnown
    <3>3. CASE OccupancyPct(roll) = Unknown
      BY <2>1, <2>8, <3>1, <3>3
    <3> QED
      BY <3>2, <3>3
  <2> QED
    BY <2>3, <2>4, <2>5, <2>6, <2>7, <2>8
<1> QED
  BY <1>1, <1>2, <1>3, PTL DEF RollSpec
-----------------------------------------------------------------------------
(* The desk: the monthly model.                                              *)

(* A month of the schedule, and what a draw has come to.                     *)
Lines == {"cost", "noi", "interest", "debtService", "equityFlow"}
Statements == [cost : Int, noi : Int, interest : Int, debtService : Int, equityFlow : Int]
Draws == [balance : Nat, loan : Int, equity : Int, capitalized : Nat, months : Seq(Statements)]
Column(rows, line) == [i \in DOMAIN rows |-> rows[i][line]]

(* So far equity has what the deal made, and what is owed on top of it.      *)
Balanced(rows, owed) ==
  Total(Column(rows, "equityFlow"))
    = Total(Column(rows, "noi")) - Total(Column(rows, "cost")) - Total(Column(rows, "interest")) + owed

(* A deal the model takes on.                                                *)
Good(d) == d \in Inputs /\ Modellable(d)

(* The share that is asked for, and what may be tried for it.                *)
Asked ==
  /\ share \in Int \X Int /\ share[2] > 0
  /\ equity \in Int /\ bracket \in Int \X Int

(* The months so far.  A build draws what it owes month by month; without    *)
(* one the closing, and what it leaves owed, falls in the first month.       *)
Running ==
  /\ months \in Seq(Statements) /\ balance \in Nat
  /\ deal.build <= Len(months) /\ Len(months) <= deal.build + deal.hold
  /\ Len(months) > 0 => Balanced(months, balance)

Sold ==
  /\ months \in Seq(Statements) /\ Len(months) = deal.build + deal.hold
  /\ Sum("equityFlow") = Sum("noi") - Sum("cost") + sale.gross - sale.cost - Sum("interest")

DeskInv ==
  /\ roll \in Seq(Bays) /\ deal \in Inputs
  /\ stage \in {"aside", "roll", "open", "incomplete", "solve", "fund", "operate", "judge", "done"}
  /\ stage \in {"solve", "fund", "operate", "judge", "done"} => Good(deal)
  /\ stage \in {"solve", "fund"} => Asked
  /\ stage \in {"operate", "judge", "done"} => equity \in Int /\ capitalized \in Nat
  /\ stage = "operate" => Running
  /\ stage \in {"judge", "done"} => Sold

(* Sums, payments and statements of whole numbers are whole numbers.         *)
Sums(f, n, g) ==
  g \in [0 .. n -> Int] /\ g[0] = 0 /\ (\A i \in 1 .. n : g[i] = g[i - 1] + f[i]) /\ Total(f) = g[n]

LEMMA Totals ==
  ASSUME NEW n \in Nat, NEW f \in [1 .. n -> Int]
  PROVE  /\ Total(f) \in Int
         /\ n = 0 => Total(f) = 0
         /\ (\A i \in 1 .. n : f[i] >= 0) => Total(f) >= 0
         /\ \A h \in [1 .. n + 1 -> Int] :
              (\A i \in 1 .. n : h[i] = f[i]) => Total(h) = Total(f) + h[n + 1]
<1>1. ASSUME NEW m \in Nat, NEW e \in [1 .. m -> Int] PROVE \E g : Sums(e, m, g)
  <2> DEFINE sum[i \in 0 .. m] == IF i = 0 THEN 0 ELSE sum[i - 1] + e[i]
             step == [i \in 1 .. m |-> [x \in Int |-> x + e[i]]]
  <2>1. PICK g : Computed(g, m, Int, 0, step)
    <3>1. step \in Steps(m, Int) /\ 0 \in Int
      BY <1>1 DEF Steps
    <3> HIDE DEF step
    <3> QED
      BY ONLY <3>1, m \in Nat, Recursion
  <2>2. g \in [0 .. m -> Int] /\ g[0] = 0 /\ \A i \in 1 .. m : g[i] = g[i - 1] + e[i]
    <3>1. ASSUME NEW i \in 1 .. m PROVE g[i] = g[i - 1] + e[i]
      <4>1. i - 1 \in 0 .. m
        BY <1>1
      <4>2. g[i - 1] \in Int /\ g[i] = step[i][g[i - 1]]
        <5> HIDE DEF step
        <5> QED
          BY <2>1, <4>1 DEF Computed
      <4> QED
        BY <4>2
    <3> QED
      BY <2>1, <3>1 DEF Computed
  <2>3. \A i \in 0 .. m : sum[i] = g[i]
    <3>1. g = [i \in 0 .. m |-> IF i = 0 THEN 0 ELSE g[i - 1] + e[i]]
      BY <1>1, <2>2
    <3>2. sum = [i \in 0 .. m |-> IF i = 0 THEN 0 ELSE sum[i - 1] + e[i]]
      BY <3>1
    <3> HIDE DEF sum
    <3> DEFINE T == {i \in 0 .. m : sum[i] = g[i]}
    <3>3. 0 \in T /\ \A i \in 1 .. m : i - 1 \in T => i \in T
      BY <1>1, <2>2, <3>2
    <3> HIDE DEF T
    <3>4. \A i \in 0 .. m : i \in T
      BY ONLY m \in Nat, <3>3, UpTo
    <3> QED
      BY <3>4 DEF T
  <2>4. Total(e) = sum[m]
    <3>1. Len(e) = m
      BY <1>1
    <3> QED
      BY <3>1 DEF Total
  <2> HIDE DEF sum
  <2>5. sum[m] = g[m]
    BY <1>1, <2>3
  <2> QED
    BY <2>2, <2>4, <2>5 DEF Sums
<1>2. PICK g : Sums(f, n, g)
  BY <1>1
<1>3. n \in 0 .. n /\ g[n] \in Int
  BY <1>2 DEF Sums
<1>4. ASSUME \A i \in 1 .. n : f[i] >= 0 PROVE Total(f) >= 0
  <2> DEFINE T == {i \in 0 .. n : g[i] >= 0}
  <2>1. 0 \in T
    BY <1>2 DEF Sums
  <2>2. ASSUME NEW i \in 1 .. n, i - 1 \in T PROVE i \in T
    <3>1. g[i] = g[i - 1] + f[i] /\ g[i - 1] \in Int /\ g[i - 1] >= 0 /\ f[i] \in Int /\ f[i] >= 0 /\ i \in 0 .. n
      BY <1>2, <1>4, <2>2 DEF Sums
    <3> QED
      BY <3>1
  <2> HIDE DEF T
  <2>3. \A i \in 1 .. n : i - 1 \in T => i \in T
    BY <2>2
  <2>4. \A i \in 0 .. n : i \in T
    BY ONLY <2>1, <2>3, n \in Nat, UpTo
  <2> QED
    BY <1>2, <1>3, <2>4 DEF T, Sums
<1>5. ASSUME NEW h \in [1 .. n + 1 -> Int], \A i \in 1 .. n : h[i] = f[i]
      PROVE  Total(h) = Total(f) + h[n + 1]
  <2>1. PICK k : Sums(h, n + 1, k)
    BY <1>1, n + 1 \in Nat
  <2> DEFINE T == {i \in 0 .. n : k[i] = g[i]}
  <2>2. 0 \in T
    BY <1>2, <2>1 DEF Sums
  <2>3. ASSUME NEW i \in 1 .. n, i - 1 \in T PROVE i \in T
    <3>1. g[i] = g[i - 1] + f[i] /\ k[i] = k[i - 1] + h[i] /\ h[i] = f[i] /\ k[i - 1] = g[i - 1]
      <4>1. i \in 1 .. n + 1
        OBVIOUS
      <4> QED
        BY <1>2, <1>5, <2>1, <2>3, <4>1 DEF Sums
    <3> QED
      BY <3>1
  <2> HIDE DEF T
  <2>4. \A i \in 1 .. n : i - 1 \in T => i \in T
    BY <2>3
  <2>5. \A i \in 0 .. n : i \in T
    BY ONLY <2>2, <2>4, n \in Nat, UpTo
  <2>6. k[n] = g[n]
    BY <1>3, <2>5 DEF T
  <2>7. k[n + 1] = k[n] + h[n + 1]
    <3>1. n + 1 \in 1 .. n + 1 /\ (n + 1) - 1 = n
      OBVIOUS
    <3> QED
      BY <2>1, <3>1 DEF Sums
  <2> QED
    BY <1>2, <2>1, <2>6, <2>7 DEF Sums
<1>6. Total(f) \in Int /\ (n = 0 => Total(f) = 0)
  BY <1>2, <1>3 DEF Sums
<1> QED
  BY <1>4, <1>5, <1>6
THEOREM LeverageIsInterest == DeskSpec => []LeverageOnlyCostsItsInterest
<1>sc. Scale \in Nat /\ Scale > 0 /\ Scale <= 1000 /\ MonthsPerYear \in Nat /\ MonthsPerYear > 0
       /\ UnitLoan \in Nat /\ EquityPasses \in Nat /\ Tolerance \in Nat /\ Unknown \notin Int
  BY MoneyAssumption, ModelAssumption
<1>dv. ASSUME NEW x \in Int, NEW y \in Nat, y > 0 PROVE x \div y \in Int
  BY <1>dv
<1>ml. ASSUME NEW x \in Int, NEW y \in Int PROVE x * y \in Int
  BY <1>ml
<1>pt. ASSUME NEW x \in Int, NEW p \in Int PROVE Part(x, p) \in Int
  <2>1. x * p \in Int
    BY <1>ml
  <2>2. (x * p) \div Scale \in Int
    BY ONLY <1>dv, <1>sc, <2>1
  <2> QED
    BY <2>2 DEF Part
<1>pu. \A x, p \in Int : Part(x, p) \in Int
  BY <1>pt
<1>lm. ASSUME NEW x \in Int, NEW y \in Int
       PROVE  /\ Least(x, y) \in Int /\ Least(x, y) <= x /\ Least(x, y) <= y /\ Least(x, y) \in {x, y}
              /\ Most(x, y) \in Int /\ Most(x, y) >= x /\ Most(x, y) >= y /\ Most(x, y) \in {x, y}
  BY <1>lm DEF Least, Most
<1>lt. \A x, y \in Int : Least(x, y) \in Int /\ Most(x, y) \in Int
  BY <1>lm
<1>gr. ASSUME NEW x \in Int, NEW r \in Int, NEW n \in Nat
       PROVE  /\ Grown(x, r, n) \in Int
              /\ x = 1000 /\ r > 0 /\ n > 0 => Grown(x, r, n) > 1000
  <2> DEFINE grown[k \in 0 .. n] == IF k = 0 THEN x ELSE grown[k - 1] + Part(grown[k - 1], r)
             step == [k \in 1 .. n |-> [y \in Int |-> y + Part(y, r)]]
  <2>1. PICK g : Computed(g, n, Int, x, step)
    <3>1. step \in Steps(n, Int)
      BY <1>pt DEF Steps
    <3> HIDE DEF step
    <3> QED
      BY ONLY <3>1, x \in Int, n \in Nat, Recursion
  <2>2. g \in [0 .. n -> Int] /\ g[0] = x /\ \A k \in 1 .. n : g[k] = g[k - 1] + Part(g[k - 1], r)
    <3>1. ASSUME NEW k \in 1 .. n PROVE g[k] = g[k - 1] + Part(g[k - 1], r)
      <4>1. k - 1 \in 0 .. n
        BY <1>gr
      <4>2. g[k - 1] \in Int /\ g[k] = step[k][g[k - 1]]
        <5> HIDE DEF step
        <5> QED
          BY <2>1, <4>1 DEF Computed
      <4> QED
        BY <4>2
    <3> QED
      BY <2>1, <3>1 DEF Computed
  <2>3. \A k \in 0 .. n : grown[k] = g[k]
    <3>1. g = [k \in 0 .. n |-> IF k = 0 THEN x ELSE g[k - 1] + Part(g[k - 1], r)]
      BY <1>gr, <2>2
    <3>2. grown = [k \in 0 .. n |-> IF k = 0 THEN x ELSE grown[k - 1] + Part(grown[k - 1], r)]
      BY <3>1
    <3> HIDE DEF grown
    <3> DEFINE T == {k \in 0 .. n : grown[k] = g[k]}
    <3>3. 0 \in T /\ \A k \in 1 .. n : k - 1 \in T => k \in T
      BY <1>gr, <2>2, <3>2
    <3> HIDE DEF T
    <3>4. \A k \in 0 .. n : k \in T
      BY ONLY n \in Nat, <3>3, UpTo
    <3> QED
      BY <3>4 DEF T
  <2>4. Grown(x, r, n) = grown[n]
    BY DEF Grown
  <2> HIDE DEF grown, step
  <2>5. Grown(x, r, n) = g[n] /\ g[n] \in Int /\ n \in 0 .. n
    BY <1>gr, <2>2, <2>3, <2>4
  <2>6. ASSUME x = 1000, r > 0, n > 0 PROVE g[n] > 1000
    <3> DEFINE T == {k \in 0 .. n : g[k] >= 1000 + k}
    <3>1. 0 \in T
      BY <1>gr, <2>2, <2>6
    <3>2. ASSUME NEW k \in 1 .. n, k - 1 \in T PROVE k \in T
      <4>1. g[k - 1] \in Int /\ g[k - 1] >= 1000 + (k - 1) /\ g[k] = g[k - 1] + Part(g[k - 1], r) /\ k \in 0 .. n
        BY <2>2, <3>2
      <4>2. ASSUME NEW v \in Int, v >= 1000 PROVE Part(v, r) \in Int /\ Part(v, r) >= 1
        <5>1. v * r \in Int /\ v * r >= v
          BY <1>gr, <2>6, <4>2, Z3
        <5>2. ASSUME NEW p \in Int, NEW s \in Nat, s > 0, p >= s PROVE p \div s >= 1
          BY ONLY <5>2, Z3
        <5>3. (v * r) \div Scale >= 1
          BY ONLY <5>1, <5>2, <1>sc, <4>2, v \in Int
        <5> QED
          BY <1>gr, <1>pt, <5>3 DEF Part
      <4>3. Part(g[k - 1], r) \in Int /\ Part(g[k - 1], r) >= 1
        BY <4>1, <4>2
      <4> QED
        BY <4>1, <4>3
    <3> HIDE DEF T
    <3>3. \A k \in 1 .. n : k - 1 \in T => k \in T
      BY <3>2
    <3>4. \A k \in 0 .. n : k \in T
      BY ONLY <3>1, <3>3, n \in Nat, UpTo
    <3> QED
      BY <1>gr, <2>5, <2>6, <3>4 DEF T
  <2> QED
    BY <2>5, <2>6
<1>gi. \A x, r \in Int, n \in Nat : Grown(x, r, n) \in Int
  BY <1>gr
<1>lp. ASSUME NEW p \in Int, NEW r \in Nat, NEW n \in Nat PROVE LevelPayment(p, r, n) \in Int
  <2> DEFINE growth == Grown(1000, r, n)
  <2>1. growth \in Int
    BY <1>gr, <1>lp
  <2>2. CASE p <= 0 \/ n <= 0
    BY <2>2 DEF LevelPayment
  <2>3. CASE p > 0 /\ n > 0 /\ r = 0
    <3>1. LevelPayment(p, r, n) = CeilDiv(p, n)
      BY <1>lp, <2>3 DEF LevelPayment
    <3>2. (-p) \div n \in Int
      BY ONLY <1>dv, <2>3, <1>lp, -p \in Int
    <3> QED
      BY <3>1, <3>2 DEF CeilDiv
  <2>4. CASE p > 0 /\ n > 0 /\ r # 0
    <3>1. growth > 1000
      BY <1>gr, <1>lp, <2>4
    <3> HIDE DEF growth
    <3>2. p * r * growth \in Int /\ -(p * r * growth) \in Int
      BY <1>ml, <1>lp, <2>1
    <3>3. Scale * (growth - 1000) \in Nat /\ Scale * (growth - 1000) > 0
      BY <1>sc, <2>1, <3>1, Z3
    <3>4. (-(p * r * growth)) \div (Scale * (growth - 1000)) \in Int
      BY ONLY <1>dv, <3>2, <3>3
    <3>5. LevelPayment(p, r, n) = CeilDiv(p * r * growth, Scale * (growth - 1000))
      BY <1>lp, <2>4 DEF LevelPayment, growth
    <3> QED
      BY <3>4, <3>5 DEF CeilDiv
  <2> QED
    BY <1>lp, <2>2, <2>3, <2>4
<1>gd. ASSUME NEW d, Good(d)
       PROVE  /\ d.land \in Int /\ d.hard \in Int /\ d.soft \in Int /\ d.contingency \in Int /\ d.fees \in Int
              /\ d.build \in Nat /\ d.hold \in Nat /\ d.hold > 0 /\ d.inPlace \in BOOLEAN /\ d.let \in Int
              /\ d.revenue \in Int /\ d.occ \in Int /\ d.houseOcc \in Int /\ d.initialOcc \in Int /\ d.leaseUp \in Nat
              /\ d.opex \in Int /\ d.variable \in Int /\ d.tax \in Int /\ d.recovery \in Int /\ d.reserve \in Int
              /\ d.rentGrowth \in Int /\ d.costGrowth \in Int /\ d.assessGrowth \in Int
              /\ d.down \in Int /\ d.rate \in Nat /\ d.term \in Nat /\ d.interestOnly \in Nat
              /\ d.exitCap \in Int /\ d.saleCost \in Int /\ d.maxLTC \in Int /\ d.minDSCR \in Int /\ d.minYield \in Int
  <2>1. d \in Inputs /\ \A input \in DOMAIN d : d[input] # Unknown
    BY <1>gd DEF Good, Modellable
  <2>2. DOMAIN d = {"land", "hard", "soft", "contingency", "fees", "build", "hold", "inPlace", "let", "revenue",
                    "occ", "houseOcc", "initialOcc", "leaseUp", "opex", "variable", "tax", "recovery", "reserve",
                    "rentGrowth", "costGrowth", "assessGrowth", "down", "rate", "term", "interestOnly", "exitCap",
                    "saleCost", "entryCap", "basis", "size", "sized", "maxLTC", "minDSCR", "minYield"}
    BY <2>1 DEF Inputs
  <2>3. /\ d.land # Unknown /\ d.hard # Unknown /\ d.soft # Unknown /\ d.contingency # Unknown /\ d.fees # Unknown
        /\ d.build # Unknown /\ d.hold # Unknown /\ d.let # Unknown /\ d.revenue # Unknown /\ d.occ # Unknown
        /\ d.houseOcc # Unknown /\ d.initialOcc # Unknown /\ d.leaseUp # Unknown /\ d.opex # Unknown
    BY <2>1, <2>2
  <2>4. /\ d.variable # Unknown /\ d.tax # Unknown /\ d.recovery # Unknown /\ d.reserve # Unknown
        /\ d.rentGrowth # Unknown /\ d.costGrowth # Unknown /\ d.assessGrowth # Unknown
        /\ d.down # Unknown /\ d.rate # Unknown /\ d.term # Unknown /\ d.interestOnly # Unknown
        /\ d.exitCap # Unknown /\ d.saleCost # Unknown
        /\ d.maxLTC # Unknown /\ d.minDSCR # Unknown /\ d.minYield # Unknown
    BY <2>1, <2>2
  <2>5. d.hold > 0
    BY <1>gd DEF Good, Modellable
  <2> HIDE DEF Good
  <2> QED
    BY <2>1, <2>3, <2>4, <2>5 DEF Inputs, Figures, Counts
<1>ba. ASSUME NEW d, Good(d)
       PROVE  Spread(d) \in Int /\ Base(d) \in Int /\ Base(d) > 0
  <2>1. /\ d.land \in Int /\ d.hard \in Int /\ d.soft \in Int /\ d.contingency \in Int /\ d.fees \in Int
        /\ d.build \in Int /\ d.tax \in Int
    BY <1>ba, <1>gd
  <2>2. SoftCost(d) \in Int
    BY <1>pt, <2>1 DEF SoftCost
  <2>3. Contingency(d) \in Int
    <3>1. d.hard + SoftCost(d) \in Int
      BY ONLY <2>1, <2>2
    <3>2. Part(d.hard + SoftCost(d), d.contingency) \in Int
      BY ONLY <1>pt, <2>1, <3>1
    <3> QED
      BY <3>2 DEF Contingency
  <2>4. LandCarry(d) \in Int
    <3>1. Part(d.land, d.tax) \in Int
      BY <1>pt, <2>1
    <3>2. Part(d.land, d.tax) * d.build \in Int
      BY ONLY <1>ml, <2>1, <3>1
    <3> QED
      BY <3>2 DEF LandCarry
  <2>5. Spread(d) \in Int
    BY <2>1, <2>2, <2>3, <2>4 DEF Spread
  <2>6. Base(d) \in Int
    BY <2>1, <2>5 DEF Base
  <2> QED
    BY <1>ba, <2>5, <2>6 DEF Good, Modellable
<1>ox. ASSUME NEW d, Good(d), NEW x \in Int, NEW occ \in Int PROVE OpexAt(d, x, occ) \in Int
  <2>1. d.variable \in Int /\ d.houseOcc \in Int
    BY <1>ox, <1>gd
  <2>2. (Scale - d.variable) * d.houseOcc \in Int /\ d.variable * occ \in Int
    BY <1>ml, <1>sc, <2>1
  <2>3. x * ((Scale - d.variable) * d.houseOcc + d.variable * occ) \in Int
    <3>1. (Scale - d.variable) * d.houseOcc + d.variable * occ \in Int
      BY ONLY <2>2
    <3> QED
      BY ONLY <1>ml, <3>1, x \in Int
  <2>4. Scale * Scale \in Nat /\ Scale * Scale > 0
    BY <1>sc, Z3
  <2> QED
    BY <1>dv, <2>3, <2>4 DEF OpexAt
<1>ip. ASSUME NEW d, Good(d) PROVE InPlaceNOI(d) \in Int
  <2>1. /\ d.land \in Int /\ d.let \in Int /\ d.revenue \in Int /\ d.opex \in Int /\ d.tax \in Int
        /\ d.recovery \in Int /\ d.reserve \in Int /\ d.inPlace \in BOOLEAN
    BY <1>ip, <1>gd
  <2>2. InPlaceRevenue(d) \in Int
    <3>1. Most(0, d.let) \in Int
      BY ONLY <1>lt, <2>1, 0 \in Int
    <3> QED
      BY <3>1 DEF InPlaceRevenue
  <2>3. InPlaceOcc(d) \in Int
    <3>1. InPlaceRevenue(d) * Scale \in Int
      BY <1>ml, <1>sc, <2>2
    <3>2. ASSUME d.revenue > 0 PROVE (InPlaceRevenue(d) * Scale) \div d.revenue \in Int
      BY <1>dv, <2>1, <3>1, <3>2
    <3> QED
      BY <1>lm, <1>sc, <3>2 DEF InPlaceOcc
  <2>4. Part(d.revenue, d.opex) \in Int /\ Part(d.land, d.tax) \in Int
    BY <1>pt, <2>1
  <2>5. OpexAt(d, Part(d.revenue, d.opex), InPlaceOcc(d)) \in Int
    BY <1>ip, <1>ox, <2>3, <2>4
  <2> DEFINE opex == OpexAt(d, Part(d.revenue, d.opex), InPlaceOcc(d))
             tax == Part(d.land, d.tax)
             recoveries == Part(Part(opex + tax, d.recovery), InPlaceOcc(d))
  <2>6. InPlaceNOI(d) = IF d.inPlace THEN InPlaceRevenue(d) + recoveries - opex - tax - d.reserve ELSE 0
    BY DEF InPlaceNOI
  <2>7. opex \in Int /\ tax \in Int
    BY <2>4, <2>5
  <2> HIDE DEF opex, tax
  <2>8. recoveries \in Int
    <3>1. opex + tax \in Int
      BY ONLY <2>7
    <3>2. Part(opex + tax, d.recovery) \in Int
      BY ONLY <1>pt, <2>1, <3>1
    <3> QED
      BY ONLY <1>pt, <2>3, <3>2 DEF recoveries
  <2> HIDE DEF recoveries
  <2> QED
    BY <2>1, <2>2, <2>6, <2>7, <2>8
<1>oc. ASSUME NEW d, Good(d), NEW t \in Nat PROVE Occupancy(d, t) \in Int
  <2>1. d.initialOcc \in Int /\ d.occ \in Int /\ d.leaseUp \in Nat
    BY <1>oc, <1>gd
  <2>2. ASSUME t < d.leaseUp PROVE ((d.occ - d.initialOcc) * (t + 1)) \div d.leaseUp \in Int
    <3>1. (d.occ - d.initialOcc) * (t + 1) \in Int
      BY <1>ml, <2>1
    <3> QED
      BY <1>dv, <2>1, <2>2, <3>1
  <2> QED
    BY <2>1, <2>2 DEF Occupancy
<1>om. ASSUME NEW d, Good(d), NEW total \in Int, NEW t \in Nat PROVE Operating(d, total, t).noi \in Int
  <2>1. /\ d.revenue \in Int /\ d.opex \in Int /\ d.tax \in Int /\ d.recovery \in Int /\ d.reserve \in Int
        /\ d.rentGrowth \in Int /\ d.costGrowth \in Int /\ d.assessGrowth \in Int
    BY <1>om, <1>gd
  <2> DEFINE gpr == Grown(d.revenue, d.rentGrowth, t)
             opexFull == Grown(Part(d.revenue, d.opex), d.costGrowth, t)
             opex == OpexAt(d, opexFull, Occupancy(d, t))
             tax == Part(Grown(total, d.assessGrowth, t), d.tax)
             reserve == Grown(d.reserve, d.costGrowth, t)
             recoveries == Part(Part(opex + tax, d.recovery), Occupancy(d, t))
  <2>2. Operating(d, total, t).noi = Part(gpr, Occupancy(d, t)) + recoveries - opex - tax - reserve
    BY DEF Operating
  <2>3. Occupancy(d, t) \in Int
    BY <1>om, <1>oc
  <2>4. gpr \in Int /\ reserve \in Int
    BY ONLY <1>gi, <2>1, t \in Nat DEF gpr, reserve
  <2>5. opexFull \in Int
    <3>1. Part(d.revenue, d.opex) \in Int
      BY <1>pt, <2>1
    <3> QED
      BY ONLY <1>gi, <2>1, <3>1, t \in Nat DEF opexFull
  <2>6. tax \in Int
    <3>1. Grown(total, d.assessGrowth, t) \in Int
      BY ONLY <1>gi, <2>1, total \in Int, t \in Nat
    <3> QED
      BY ONLY <1>pt, <2>1, <3>1 DEF tax
  <2> HIDE DEF gpr, opexFull, tax, reserve
  <2>7. opex \in Int
    BY <1>om, <1>ox, <2>3, <2>5
  <2> HIDE DEF opex
  <2>8. recoveries \in Int /\ Part(gpr, Occupancy(d, t)) \in Int
    <3>1. opex + tax \in Int
      BY ONLY <2>6, <2>7
    <3>2. Part(opex + tax, d.recovery) \in Int
      BY ONLY <1>pt, <2>1, <3>1
    <3>3. recoveries \in Int
      BY ONLY <1>pt, <2>3, <3>2 DEF recoveries
    <3> QED
      BY ONLY <1>pt, <2>3, <2>4, <3>3
  <2> HIDE DEF recoveries
  <2> QED
    BY <2>2, <2>4, <2>6, <2>7, <2>8
<1>ca. ASSUME NEW d, Good(d), NEW i \in 0 .. d.build - 1 PROVE CostAt(d, i) \in Int
  <2>1. d.land \in Int /\ d.fees \in Int /\ d.build \in Nat /\ d.build > 0 /\ Spread(d) \in Int /\ i \in Nat
    BY <1>ca, <1>gd, <1>ba
  <2>2. Spread(d) * (i + 1) \in Int /\ Spread(d) * i \in Int
    BY <1>ml, <2>1
  <2>3. (Spread(d) * (i + 1)) \div d.build \in Int /\ (Spread(d) * i) \div d.build \in Int
    BY ONLY <1>dv, <2>1, <2>2
  <2> QED
    BY <2>1, <2>3 DEF CostAt
<1>co. ASSUME NEW rows \in Seq(Statements), NEW line \in Lines
       PROVE  /\ Column(rows, line) \in [1 .. Len(rows) -> Int]
              /\ Total(Column(rows, line)) \in Int
              /\ \A row \in Statements :
                   Total(Column(Append(rows, row), line)) = Total(Column(rows, line)) + row[line]
  <2>1. \A row \in Statements : row[line] \in Int
    BY DEF Lines, Statements
  <2>2. DOMAIN rows = 1 .. Len(rows) /\ Len(rows) \in Nat /\ \A i \in 1 .. Len(rows) : rows[i] \in Statements
    BY <1>co
  <2>3. Column(rows, line) \in [1 .. Len(rows) -> Int]
    BY <2>1, <2>2 DEF Column
  <2>4. Total(Column(rows, line)) \in Int
    BY ONLY <2>2, <2>3, Totals
  <2>5. ASSUME NEW row \in Statements
        PROVE  Total(Column(Append(rows, row), line)) = Total(Column(rows, line)) + row[line]
    <3> DEFINE h == Column(Append(rows, row), line)
    <3>1. /\ Append(rows, row) \in Seq(Statements) /\ Len(Append(rows, row)) = Len(rows) + 1
          /\ DOMAIN Append(rows, row) = 1 .. Len(rows) + 1
          /\ Append(rows, row)[Len(rows) + 1] = row
          /\ \A i \in 1 .. Len(rows) : Append(rows, row)[i] = rows[i]
      BY <1>co, <2>5
    <3>2. \A i \in 1 .. Len(rows) + 1 : Append(rows, row)[i] \in Statements
      BY <3>1
    <3>3. h \in [1 .. Len(rows) + 1 -> Int]
      BY <2>1, <3>1, <3>2 DEF Column
    <3>4. h[Len(rows) + 1] = row[line] /\ \A i \in 1 .. Len(rows) : h[i] = Column(rows, line)[i]
      BY <2>2, <3>1 DEF Column
    <3> HIDE DEF h
    <3>5. Total(h) = Total(Column(rows, line)) + h[Len(rows) + 1]
      BY ONLY <2>2, <2>3, <3>3, <3>4, Totals
    <3> QED
      BY <3>4, <3>5 DEF h
  <2> QED
    BY <2>3, <2>4, <2>5
<1>nl. Column(<< >>, "equityFlow") = << >> /\ Balanced(<< >>, 0)
  <2>1. \A line \in Lines : Total(Column(<< >>, line)) = 0
    <3> SUFFICES ASSUME NEW line \in Lines PROVE Total(Column(<< >>, line)) = 0
      OBVIOUS
    <3>1. << >> \in Seq(Statements) /\ Len(<< >>) = 0
      OBVIOUS
    <3>2. Column(<< >>, line) \in [1 .. 0 -> Int]
      BY <1>co, <3>1
    <3> QED
      BY ONLY <3>2, 0 \in Nat, Totals
  <2>2. Column(<< >>, "equityFlow") = << >>
    BY DEF Column
  <2> QED
    BY <2>1, <2>2 DEF Balanced, Lines
<1>ap. ASSUME NEW rows \in Seq(Statements), NEW row \in Statements, NEW before \in Int, NEW after \in Int,
              Balanced(rows, before),
              row.equityFlow = row.noi - row.cost - row.interest + after - before
       PROVE  Balanced(Append(rows, row), after)
  <2>1. \A line \in Lines : Total(Column(rows, line)) \in Int
                            /\ Total(Column(Append(rows, row), line)) = Total(Column(rows, line)) + row[line]
    BY <1>co, <1>ap
  <2> DEFINE e == Total(Column(rows, "equityFlow"))
             v == Total(Column(rows, "noi"))
             c == Total(Column(rows, "cost"))
             i == Total(Column(rows, "interest"))
             re == row.equityFlow
             rv == row.noi
             rc == row.cost
             ri == row.interest
  <2>2. e \in Int /\ v \in Int /\ c \in Int /\ i \in Int /\ re \in Int /\ rv \in Int /\ rc \in Int /\ ri \in Int
    BY <2>1 DEF Lines, Statements
  <2>3. /\ Total(Column(Append(rows, row), "equityFlow")) = e + re
        /\ Total(Column(Append(rows, row), "noi")) = v + rv
        /\ Total(Column(Append(rows, row), "cost")) = c + rc
        /\ Total(Column(Append(rows, row), "interest")) = i + ri
    BY <2>1 DEF Lines
  <2>4. e = v - c - i + before
    BY <1>ap DEF Balanced
  <2>5. re = rv - rc - ri + after - before /\ before \in Int /\ after \in Int
    BY <1>ap
  <2>6. Balanced(Append(rows, row), after) <=> e + re = (v + rv) - (c + rc) - (i + ri) + after
    BY ONLY <2>3 DEF Balanced
  <2> HIDE DEF e, v, c, i, re, rv, rc, ri
  <2> QED
    BY ONLY <2>2, <2>4, <2>5, <2>6
<1>mt. ASSUME NEW cost \in Int, NEW noi \in Int, NEW interest \in Int, NEW owed \in Int, NEW flow \in Int
       PROVE  /\ Month(cost, noi, interest, owed, flow) \in Statements
              /\ Month(cost, noi, interest, owed, flow).cost = cost
              /\ Month(cost, noi, interest, owed, flow).noi = noi
              /\ Month(cost, noi, interest, owed, flow).interest = interest
              /\ Month(cost, noi, interest, owed, flow).equityFlow = flow
  BY DEF Month, Statements
(* A month of the build: what is drawn and capitalised is owed.              *)
<1>dm. ASSUME NEW d, Good(d), NEW plan \in Int, NEW r \in Draws, NEW i \in 0 .. d.build - 1,
              Balanced(r.months, r.balance), Len(r.months) = i
       PROVE  /\ DrawMonth(d, plan, r, i) \in Draws
              /\ Balanced(DrawMonth(d, plan, r, i).months, DrawMonth(d, plan, r, i).balance)
              /\ Len(DrawMonth(d, plan, r, i).months) = i + 1
  <2> DEFINE cost == CostAt(d, i)
             noi == InPlaceNOI(d)
             interest == Part(r.balance, d.rate)
             planned == Least(cost, Most(0, plan - r.equity))
             loan == Least(cost - planned, Most(0, Base(d) - plan - r.loan))
             fromEquity == cost - loan
             unpaid == Shortfall(noi, interest)
             paid == Most(0, Least(noi, interest))
             flow == Most(0, noi - interest) - fromEquity
             row == Month(cost, noi, interest, paid, flow)
  <2>1. DrawMonth(d, plan, r, i) =
          [balance |-> r.balance + loan + unpaid, loan |-> r.loan + loan,
           equity |-> r.equity + fromEquity, capitalized |-> r.capitalized + unpaid,
           months |-> Append(r.months, row)]
    BY DEF DrawMonth
  <2>2. /\ r.balance \in Nat /\ r.loan \in Int /\ r.equity \in Int /\ r.capitalized \in Nat
        /\ r.months \in Seq(Statements) /\ d.rate \in Int /\ Base(d) \in Int
    <3>1. d.rate \in Int /\ Base(d) \in Int
      BY <1>dm, <1>gd, <1>ba
    <3> QED
      BY <3>1 DEF Draws
  <2>3. cost \in Int /\ noi \in Int
    BY <1>dm, <1>ca, <1>ip
  <2>4. interest \in Int
    <3>1. r.balance \in Int
      BY ONLY <2>2
    <3> QED
      BY ONLY <1>pu, <2>2, <3>1 DEF interest
  <2> HIDE DEF cost, noi, interest
  <2>5. planned \in Int /\ planned <= cost
    <3>1. plan - r.equity \in Int
      BY ONLY <2>2, plan \in Int
    <3>2. Most(0, plan - r.equity) \in Int
      BY ONLY <1>lt, <3>1, 0 \in Int
    <3> QED
      BY ONLY <1>lm, <2>3, <3>2
  <2> HIDE DEF planned
  <2>6. loan \in Nat
    <3>1. Base(d) - plan - r.loan \in Int
      BY ONLY <2>2, plan \in Int
    <3>2. Most(0, Base(d) - plan - r.loan) \in Int /\ Most(0, Base(d) - plan - r.loan) >= 0
      BY ONLY <1>lm, <3>1, 0 \in Int
    <3>3. cost - planned \in Int /\ cost - planned >= 0
      BY ONLY <2>3, <2>5
    <3>4. loan \in Int /\ loan \in {cost - planned, Most(0, Base(d) - plan - r.loan)}
      BY ONLY <1>lm, <3>2, <3>3
    <3> QED
      BY ONLY <3>2, <3>3, <3>4
  <2> HIDE DEF loan
  <2>7. unpaid \in Nat /\ Most(0, noi - interest) \in Int /\ Most(0, noi - interest) = noi - interest + unpaid
    BY <2>3, <2>4 DEF Shortfall, Most
  <2>8. paid \in Int
    BY ONLY <1>lt, <2>3, <2>4, 0 \in Int DEF paid
  <2> HIDE DEF unpaid, paid
  <2>9. flow \in Int /\ fromEquity \in Int
        /\ flow = noi - cost - interest + (r.balance + loan + unpaid) - r.balance
    <3>2. loan \in Int /\ unpaid \in Int /\ r.balance \in Int
      BY ONLY <2>2, <2>6, <2>7
    <3> DEFINE beyond == Most(0, noi - interest)
    <3>3. beyond \in Int /\ beyond = noi - interest + unpaid
      BY <2>7
    <3>4. flow = beyond - (cost - loan)
      OBVIOUS
    <3> HIDE DEF beyond
    <3>1. flow = noi - interest + unpaid - (cost - loan) /\ fromEquity = cost - loan
      BY ONLY <2>3, <2>4, <3>2, <3>3, <3>4 DEF fromEquity
    <3> HIDE DEF flow, fromEquity
    <3> QED
      BY ONLY <2>3, <2>4, <3>1, <3>2
  <2> HIDE DEF flow, fromEquity
  <2>10. /\ row \in Statements /\ row.cost = cost /\ row.noi = noi /\ row.interest = interest /\ row.equityFlow = flow
    BY ONLY <2>3, <2>4, <2>8, <2>9 DEF row, Month, Statements
  <2> HIDE DEF row
  <2>11. r.balance + loan + unpaid \in Nat /\ r.loan + loan \in Int /\ r.equity + fromEquity \in Int
         /\ r.capitalized + unpaid \in Nat
    <3>1. r.balance + loan + unpaid \in Nat
      BY ONLY <2>2, <2>6, <2>7
    <3>2. r.loan + loan \in Int
      BY ONLY <2>2, <2>6, loan \in Int
    <3>3. r.equity + fromEquity \in Int
      BY ONLY <2>2, <2>9
    <3>4. r.capitalized + unpaid \in Nat
      BY ONLY <2>2, <2>7
    <3> QED
      BY <3>1, <3>2, <3>3, <3>4
  <2>12. Append(r.months, row) \in Seq(Statements) /\ Len(Append(r.months, row)) = i + 1
    BY <1>dm, <2>2, <2>10
  <2>13. Balanced(Append(r.months, row), r.balance + loan + unpaid)
    <3>1. row.equityFlow = row.noi - row.cost - row.interest + (r.balance + loan + unpaid) - r.balance
      BY ONLY <2>9, <2>10
    <3> QED
      BY ONLY <1>ap, <1>dm, <2>2, <2>10, <2>11, <3>1, r.balance \in Int, r.balance + loan + unpaid \in Int
  <2> QED
    BY ONLY <2>1, <2>11, <2>12, <2>13 DEF Draws
<1>dc. ASSUME NEW d, Good(d), NEW plan \in Int
       PROVE  /\ DrawConstruction(d, plan) \in Draws
              /\ Balanced(DrawConstruction(d, plan).months, DrawConstruction(d, plan).balance)
              /\ Len(DrawConstruction(d, plan).months) = d.build
  <2> DEFINE n == d.build
             first == [balance |-> 0, loan |-> 0, equity |-> 0, capitalized |-> 0, months |-> << >>]
             drawn[i \in 0 .. n] == IF i = 0 THEN first ELSE DrawMonth(d, plan, drawn[i - 1], i - 1)
             V(i) == {r \in Draws : Balanced(r.months, r.balance) /\ Len(r.months) = i}
             W == UNION {V(i) : i \in 0 .. n}
             step == [i \in 1 .. n |-> [r \in W |-> IF r \in V(i - 1) THEN DrawMonth(d, plan, r, i - 1) ELSE first]]
  <2>1. n \in Nat
    BY <1>dc, <1>gd
  <2>2. DrawConstruction(d, plan) = drawn[n]
    BY DEF DrawConstruction
  <2>3. first \in V(0)
    <3>1. first \in Draws /\ first.months = << >> /\ first.balance = 0
      BY DEF Draws
    <3> QED
      BY <1>nl, <3>1
  <2> HIDE DEF n, first
  <2>4. ASSUME NEW i \in 1 .. n, NEW r \in V(i - 1) PROVE DrawMonth(d, plan, r, i - 1) \in V(i)
    <3>1. i - 1 \in 0 .. d.build - 1 /\ (i - 1) + 1 = i
      BY <2>1 DEF n
    <3>2. r \in Draws /\ Balanced(r.months, r.balance) /\ Len(r.months) = i - 1
      BY <2>4
    <3> QED
      BY ONLY <1>dc, <1>dm, <3>1, <3>2
  <2> HIDE DEF V
  <2>5. first \in W /\ step \in Steps(n, W)
    <3>1. first \in W
      BY <2>1, <2>3
    <3>2. ASSUME NEW i \in 1 .. n, NEW r \in W
          PROVE  (IF r \in V(i - 1) THEN DrawMonth(d, plan, r, i - 1) ELSE first) \in W
      <4>1. i \in 0 .. n
        BY <2>1
      <4> QED
        BY <2>4, <3>1, <4>1
    <3> HIDE DEF W
    <3> QED
      BY <3>1, <3>2 DEF Steps
  <2>6. PICK g : Computed(g, n, W, first, step)
    <3> HIDE DEF W, step
    <3> QED
      BY ONLY <2>1, <2>5, Recursion
  <2>7. g[0] = first /\ \A i \in 1 .. n : i - 1 \in 0 .. n /\ g[i - 1] \in W /\ g[i] = step[i][g[i - 1]]
    <3> HIDE DEF W, step
    <3>1. \A i \in 1 .. n : i - 1 \in 0 .. n
      BY <2>1
    <3> QED
      BY <2>6, <3>1 DEF Computed
  <2>8. \A i \in 1 .. n : g[i - 1] \in V(i - 1) => g[i] = DrawMonth(d, plan, g[i - 1], i - 1)
    <3> HIDE DEF W
    <3> QED
      BY <2>7
  <2> DEFINE T == {i \in 0 .. n : g[i] \in V(i)}
  <2>9. \A i \in 0 .. n : i \in T
    <3>1. 0 \in T
      BY <2>1, <2>3, <2>7
    <3>2. \A i \in 1 .. n : i - 1 \in T => i \in T
      <4> SUFFICES ASSUME NEW i \in 1 .. n, i - 1 \in T PROVE i \in T
        OBVIOUS
      <4>1. g[i - 1] \in V(i - 1) /\ i \in 0 .. n
        BY <2>1
      <4>2. g[i] = DrawMonth(d, plan, g[i - 1], i - 1)
        BY <2>8, <4>1
      <4>3. g[i] \in V(i)
        BY <2>4, <4>1, <4>2
      <4> QED
        BY <4>1, <4>3
    <3> HIDE DEF T
    <3> QED
      BY ONLY <2>1, <3>1, <3>2, UpTo
  <2> HIDE DEF step
  <2>10. \A i \in 0 .. n : drawn[i] = g[i]
    <3>1. \A i \in 1 .. n : g[i] = DrawMonth(d, plan, g[i - 1], i - 1)
      BY <2>7, <2>8, <2>9
    <3>2. g \in [0 .. n -> W]
      BY <2>6 DEF Computed
    <3> HIDE DEF W, T
    <3>3. g = [i \in 0 .. n |-> IF i = 0 THEN first ELSE DrawMonth(d, plan, g[i - 1], i - 1)]
      BY <2>1, <2>7, <3>1, <3>2
    <3>4. drawn = [i \in 0 .. n |-> IF i = 0 THEN first ELSE DrawMonth(d, plan, drawn[i - 1], i - 1)]
      BY <3>3
    <3> HIDE DEF drawn
    <3> DEFINE S == {i \in 0 .. n : drawn[i] = g[i]}
    <3>5. 0 \in S /\ \A i \in 1 .. n : i - 1 \in S => i \in S
      BY <2>1, <2>7, <3>1, <3>4
    <3> HIDE DEF S
    <3>6. \A i \in 0 .. n : i \in S
      BY ONLY <2>1, <3>5, UpTo
    <3> QED
      BY <3>6 DEF S
  <2> HIDE DEF drawn
  <2>11. DrawConstruction(d, plan) \in V(n)
    <3>1. n \in 0 .. n
      BY <2>1
    <3> QED
      BY <2>2, <2>9, <2>10, <3>1
  <2> QED
    BY <2>11 DEF V, n
(* The sums of a roll.                                                       *)
<1>ar. ASSUME NEW bays \in Seq(Bays), NEW picked
       PROVE  AreaOf(bays, picked) \in Nat /\ RentOf(bays, picked) \in Nat
  <2>1. Len(bays) \in Nat /\ DOMAIN bays = 1 .. Len(bays) /\ \A i \in 1 .. Len(bays) : bays[i] \in Bays
    BY <1>ar
  <2>2. \A bay \in Bays : /\ bay.area # Unknown => bay.area \in Nat
                          /\ bay.rent # Unknown => bay.rent \in Nat
    BY BaysAssumption DEF Counts
  <2>3. ASSUME NEW f \in [1 .. Len(bays) -> Nat] PROVE Total(f) \in Nat
    <3>1. f \in [1 .. Len(bays) -> Int] /\ \A i \in 1 .. Len(bays) : f[i] >= 0
      BY <2>3
    <3>2. Total(f) \in Int /\ Total(f) >= 0
      BY ONLY <2>1, <3>1, Totals
    <3> QED
      BY <3>2
  <2> DEFINE areas == [i \in DOMAIN bays |-> IF i \in picked \cap Keyed(bays, "area") THEN bays[i].area ELSE 0]
             rents == [i \in DOMAIN bays |-> IF i \in picked \cap WithRent(bays) THEN bays[i].rent ELSE 0]
  <2>4. areas \in [1 .. Len(bays) -> Nat]
    BY <2>1, <2>2 DEF Keyed
  <2>5. rents \in [1 .. Len(bays) -> Nat]
    BY <2>1, <2>2 DEF Keyed, WithRent
  <2>6. AreaOf(bays, picked) = Total(areas) /\ RentOf(bays, picked) = Total(rents)
    BY DEF AreaOf, RentOf, SumOver
  <2> HIDE DEF areas, rents
  <2> QED
    BY <2>3, <2>4, <2>5, <2>6
<1>ei. ASSUME NEW bays \in Seq(Bays), EngineInputs(bays) # Unknown
       PROVE  /\ EngineInputs(bays).revenue \in Figures
              /\ EngineInputs(bays).vacancy \in Figures
              /\ EngineInputs(bays).recovery \in Figures
  <2>1. /\ EngineInputs(bays).revenue = FullyLet(bays)
        /\ EngineInputs(bays).vacancy = IF OccupancyPct(bays) = Unknown THEN Unknown ELSE 100 - OccupancyPct(bays)
        /\ EngineInputs(bays).recovery = NetShare(bays)
    BY <1>ei DEF EngineInputs
  <2>2. \A picked : AreaOf(bays, picked) \in Nat
    BY <1>ar
  <2>3. \A picked : RentOf(bays, picked) \in Nat
    BY <1>ar
  <2>4. TotalArea(bays) \in Nat /\ GrossRent(bays) \in Nat
    BY <2>2, <2>3 DEF TotalArea, GrossRent
  <2>5. ASSUME NEW part \in Int, NEW whole \in Nat, whole > 0 PROVE Percent(part, whole) \in Int
    <3>1. part * 100 \in Int
      BY <2>5
    <3> QED
      BY <1>dv, <2>5, <3>1 DEF Percent
  <2>6. OccupancyPct(bays) \in Figures
    BY <2>2, <2>4, <2>5 DEF OccupancyPct, Figures
  <2>7. NetShare(bays) \in Figures
    BY <2>3, <2>4, <2>5 DEF NetShare, RentShare, RentKnown, Figures
  <2>8. FullyLet(bays) \in Figures
    <3> DEFINE leased == AreaOf(bays, WithRent(bays))
    <3>1. leased \in Nat
      BY <2>2
    <3>2. FullyLet(bays) = IF leased > 0 THEN (GrossRent(bays) * TotalArea(bays)) \div leased ELSE Unknown
      BY DEF FullyLet
    <3> HIDE DEF leased
    <3>3. GrossRent(bays) * TotalArea(bays) \in Int
      BY <1>ml, <2>4
    <3>4. leased > 0 => (GrossRent(bays) * TotalArea(bays)) \div leased \in Int
      BY ONLY <1>dv, <3>1, <3>3
    <3> QED
      BY <3>2, <3>4 DEF Figures
  <2> QED
    BY <2>1, <2>6, <2>7, <2>8 DEF Figures
<1>fr. ASSUME NEW d \in Inputs, NEW bays \in Seq(Bays), EngineInputs(bays) # Unknown
       PROVE  FromRoll(d, EngineInputs(bays)) \in Inputs
  <2> DEFINE inputs == EngineInputs(bays)
             revenue == IF inputs.revenue = Unknown THEN Unknown ELSE inputs.revenue \div MonthsPerYear
             occ == IF inputs.vacancy = Unknown THEN d.occ ELSE Most(1, 100 - inputs.vacancy)
             recovery == IF inputs.recovery = Unknown THEN d.recovery ELSE inputs.recovery
  <2>1. inputs.revenue \in Figures /\ inputs.vacancy \in Figures /\ inputs.recovery \in Figures
    BY <1>ei, <1>fr
  <2>2. FromRoll(d, inputs) = [d EXCEPT !.revenue = revenue, !.occ = occ, !.recovery = recovery]
    BY <1>fr DEF FromRoll, Inputs
  <2> HIDE DEF inputs
  <2>3. revenue \in Figures
    BY <1>dv, <1>sc, <2>1 DEF Figures
  <2>4. occ \in Figures
    <3>1. d.occ \in Figures
      BY <1>fr DEF Inputs
    <3>2. ASSUME inputs.vacancy # Unknown PROVE Most(1, 100 - inputs.vacancy) \in Int
      <4>1. 100 - inputs.vacancy \in Int
        BY <2>1, <3>2 DEF Figures
      <4> QED
        BY ONLY <1>lt, <4>1, 1 \in Int
    <3> QED
      BY <3>1, <3>2 DEF Figures
  <2>5. recovery \in Figures
    BY <1>fr, <2>1 DEF Inputs, Figures
  <2> HIDE DEF revenue, occ, recovery
  <2>6. [d EXCEPT !.revenue = revenue, !.occ = occ, !.recovery = recovery] \in Inputs
    BY <1>fr, <2>3, <2>4, <2>5 DEF Inputs
  <2> QED
    BY <2>2, <2>6 DEF inputs
(* Where a set of natural numbers has an element, it has a least one.        *)
<1>le. ASSUME NEW L \in SUBSET Nat, L # {} PROVE Min(L) \in L
  <2>1. PICK m \in L : TRUE
    BY <1>le
  <2> DEFINE least == \E x \in L : \A y \in L : x <= y
             T == {i \in 0 .. m : (\E x \in L : x <= i) => least}
  <2>2. m \in Nat
    OBVIOUS
  <2>3. 0 \in T
    <3>1. ASSUME NEW x \in L, x <= 0 PROVE least
      <4>1. \A y \in L : x <= y
        BY <3>1
      <4> QED
        BY <4>1
    <3> HIDE DEF least
    <3> QED
      BY <2>2, <3>1
  <2>4. ASSUME NEW i \in 1 .. m, i - 1 \in T PROVE i \in T
    <3>1. CASE \E x \in L : x <= i - 1
      BY <2>4, <3>1
    <3>2. CASE ~\E x \in L : x <= i - 1
      <4>1. \A y \in L : i <= y
        BY <3>2
      <4>2. ASSUME NEW x \in L, x <= i PROVE least
        <5>1. x = i
          BY <4>1, <4>2
        <5> QED
          BY <4>1, <5>1
      <4> HIDE DEF least
      <4> QED
        BY <2>2, <4>2
    <3> QED
      BY <3>1, <3>2
  <2>5. \A i \in 1 .. m : i - 1 \in T => i \in T
    BY <2>4
  <2> HIDE DEF T
  <2>6. \A i \in 0 .. m : i \in T
    BY ONLY <2>2, <2>3, <2>5, UpTo
  <2>7. least
    <3>1. m \in 0 .. m /\ m <= m
      BY <2>2
    <3> QED
      BY <2>6, <3>1 DEF T
  <2> QED
    BY <2>7 DEF Min
<1>yr. ASSUME NEW f \in [1 .. MonthsPerYear -> Int] PROVE Total(f) \in Int
  <2>1. MonthsPerYear \in Nat
    BY <1>sc
  <2> QED
    BY ONLY <2>1, <1>yr, Totals
<1>pn. ASSUME Good(deal), capitalized \in Nat, NEW t \in Nat PROVE ProjectedNOI(t) \in Int
  <2> DEFINE f == [k \in 1 .. MonthsPerYear |-> Operating(deal, TotalCost, t + k - 1).noi]
  <2>1. ProjectedNOI(t) = Total(f)
    BY DEF ProjectedNOI, YearSum
  <2>2. TotalCost \in Int
    BY <1>pn, <1>ba DEF TotalCost
  <2>3. ASSUME NEW k \in 1 .. MonthsPerYear PROVE Operating(deal, TotalCost, t + k - 1).noi \in Int
    <3>1. t + k - 1 \in Nat
      BY <1>pn, <1>sc
    <3> QED
      BY <1>om, <1>pn, <2>2, <3>1
  <2>4. f \in [1 .. MonthsPerYear -> Int]
    BY <2>3
  <2> HIDE DEF f
  <2> QED
    BY <1>yr, <2>1, <2>4
<1>ss. ASSUME Good(deal) PROVE StabStart \in Nat
  <2>1. deal.leaseUp \in Nat /\ deal.hold - MonthsPerYear \in Int
    BY <1>ss, <1>gd, <1>sc
  <2> QED
    BY <2>1 DEF StabStart, Least, Most
<1>us. ASSUME Good(deal), NEW t \in Nat PROVE UnitDebtService(t) \in Int
  <2> DEFINE n == t + 1
             payment == LevelPayment(UnitLoan, deal.rate, deal.term)
             first == [owed |-> UnitLoan, paid |-> 0]
             Interest(b) == Part(b.owed, deal.rate)
             Due(b) == Least(payment, b.owed + Interest(b))
             Next_(b, k) == IF k > deal.hold THEN [b EXCEPT !.paid = payment]
                            ELSE IF k <= deal.interestOnly THEN [b EXCEPT !.paid = Interest(b)]
                            ELSE [owed |-> Most(0, b.owed + Interest(b) - Due(b)), paid |-> Due(b)]
             after[k \in 0 .. n] == IF k = 0 THEN first ELSE Next_(after[k - 1], k)
             V == [owed : Int, paid : Int]
             step == [k \in 1 .. n |-> [b \in V |-> Next_(b, k)]]
  <2>1. UnitDebtService(t) = after[n].paid
    BY DEF UnitDebtService
  <2>2. n \in Nat /\ payment \in Int /\ first \in V /\ deal.rate \in Int
    <3>1. deal.rate \in Nat /\ deal.term \in Nat
      BY <1>us, <1>gd
    <3>2. payment \in Int
      <4>1. UnitLoan \in Int
        BY <1>sc
      <4> QED
        BY ONLY <1>lp, <3>1, <4>1 DEF payment
    <3> QED
      BY <1>sc, <1>us, <3>1, <3>2
  <2> HIDE DEF payment, first, n
  <2>3. ASSUME NEW b \in V, NEW k \in 1 .. n PROVE Next_(b, k) \in V
    <3>1. b.owed \in Int /\ b.paid \in Int
      OBVIOUS
    <3>2. Interest(b) \in Int
      BY ONLY <1>pu, <2>2, <3>1
    <3> HIDE DEF Interest
    <3>3. b.owed + Interest(b) \in Int
      BY ONLY <3>1, <3>2
    <3>4. Due(b) \in Int
      BY ONLY <1>lt, <2>2, <3>3 DEF Due
    <3> HIDE DEF Due
    <3>5. Most(0, b.owed + Interest(b) - Due(b)) \in Int
      <4>1. b.owed + Interest(b) - Due(b) \in Int
        BY ONLY <3>1, <3>2, <3>4
      <4> QED
        BY ONLY <1>lt, <4>1, 0 \in Int
    <3> QED
      BY <2>2, <3>2, <3>4, <3>5
  <2> HIDE DEF Next_, V
  <2>4. step \in Steps(n, V)
    BY <2>3 DEF Steps
  <2>5. PICK g : Computed(g, n, V, first, step)
    <3> HIDE DEF step
    <3> QED
      BY ONLY <2>2, <2>4, Recursion
  <2>6. g \in [0 .. n -> V] /\ g[0] = first /\ \A k \in 1 .. n : g[k] = Next_(g[k - 1], k)
    <3>1. ASSUME NEW k \in 1 .. n PROVE g[k] = Next_(g[k - 1], k)
      <4>1. k - 1 \in 0 .. n
        BY <2>2
      <4>2. g[k - 1] \in V /\ g[k] = step[k][g[k - 1]]
        <5> HIDE DEF step
        <5> QED
          BY <2>5, <4>1 DEF Computed
      <4> QED
        BY <4>2
    <3> QED
      BY <2>5, <3>1 DEF Computed
  <2>7. \A k \in 0 .. n : after[k] = g[k]
    <3>1. g = [k \in 0 .. n |-> IF k = 0 THEN first ELSE Next_(g[k - 1], k)]
      BY <2>2, <2>6
    <3>2. after = [k \in 0 .. n |-> IF k = 0 THEN first ELSE Next_(after[k - 1], k)]
      BY <3>1
    <3> HIDE DEF after
    <3> DEFINE T == {k \in 0 .. n : after[k] = g[k]}
    <3>3. 0 \in T /\ \A k \in 1 .. n : k - 1 \in T => k \in T
      BY <2>2, <2>6, <3>2
    <3> HIDE DEF T
    <3>4. \A k \in 0 .. n : k \in T
      BY ONLY <2>2, <3>3, UpTo
    <3> QED
      BY <3>4 DEF T
  <2> HIDE DEF after
  <2>8. n \in 0 .. n /\ g[n] \in V
    BY <2>2, <2>6
  <2> QED
    BY <2>1, <2>7, <2>8 DEF V
<1>yn. ASSUME months \in Seq(Statements), Len(months) = deal.build + deal.hold, Good(deal),
              NEW t \in CompleteYears
       PROVE  YearNOI(t) \in Int
  <2> DEFINE f == [k \in 1 .. MonthsPerYear |-> Operation(t + k - 1).noi]
  <2>1. YearNOI(t) = Total(f)
    BY DEF YearNOI, YearSum
  <2>2. ASSUME NEW k \in 1 .. MonthsPerYear PROVE Operation(t + k - 1).noi \in Int
    <3>1. deal.build \in Nat /\ deal.hold \in Nat /\ t \in Nat /\ t + MonthsPerYear <= deal.hold
      BY <1>yn, <1>gd DEF CompleteYears
    <3>2. deal.build + (t + k - 1) + 1 \in 1 .. Len(months)
      BY <1>sc, <1>yn, <3>1
    <3>3. Operation(t + k - 1) \in Statements
      BY <1>yn, <3>2 DEF Operation
    <3> QED
      BY <3>3 DEF Statements
  <2>3. f \in [1 .. MonthsPerYear -> Int]
    BY <2>2
  <2> HIDE DEF f
  <2> QED
    BY <1>yr, <2>1, <2>3
<1>sl. ASSUME months \in Seq(Statements), Len(months) = deal.build + deal.hold, Good(deal),
              capitalized \in Nat, SizedLoan # Unknown
       PROVE  SizedLoan \in Nat
  <2> DEFINE price(t) == YearSum(UnitDebtService, t)
             covered == {w \in CoverageWindows : w.perUnit > 0}
             dscrLimit(w) == Most(0, (w.noi * UnitLoan * Scale) \div (deal.minDSCR * w.perUnit))
             L == {c.loan : c \in Constraints}
  <2>1. /\ deal.maxLTC \in Int /\ deal.minDSCR \in Int /\ deal.minYield \in Int /\ StabStart \in Nat
        /\ StabilizedNOI \in Int /\ TotalCost \in Nat /\ UnitLoan \in Int
    <3>1. StabStart \in Nat /\ StabilizedNOI \in Int
      BY <1>pn, <1>sl, <1>ss DEF StabilizedNOI
    <3>2. TotalCost \in Nat
      BY <1>ba, <1>sl DEF TotalCost
    <3> QED
      BY <1>gd, <1>sc, <1>sl, <3>1, <3>2
  <2>2. ASSUME NEW t \in Nat PROVE price(t) \in Int
    <3> DEFINE f == [k \in 1 .. MonthsPerYear |-> UnitDebtService(t + k - 1)]
    <3>1. price(t) = Total(f)
      BY DEF YearSum
    <3>2. ASSUME NEW k \in 1 .. MonthsPerYear PROVE UnitDebtService(t + k - 1) \in Int
      <4>1. t + k - 1 \in Nat
        BY <1>sc
      <4> QED
        BY <1>sl, <1>us, <4>1
    <3>3. f \in [1 .. MonthsPerYear -> Int]
      BY <3>2
    <3> HIDE DEF f, price
    <3> QED
      BY <1>yr, <3>1, <3>3
  <2>3. \A w \in CoverageWindows : w.noi \in Int /\ w.perUnit \in Int
    <3>1. CoverageWindows = {[noi |-> StabilizedNOI, perUnit |-> price(StabStart)]}
                            \cup {[noi |-> YearNOI(t), perUnit |-> price(t)] : t \in {y \in CompleteYears : y >= StabStart}}
      BY DEF CoverageWindows
    <3>2. \A t \in CompleteYears : t \in Nat /\ YearNOI(t) \in Int
      <4>1. \A t \in CompleteYears : t \in Nat
        BY DEF CompleteYears
      <4>2. \A t \in CompleteYears : YearNOI(t) \in Int
        BY <1>sl, <1>yn
      <4> QED
        BY <4>1, <4>2
    <3> HIDE DEF price
    <3> QED
      BY <2>1, <2>2, <3>1, <3>2
  <2>4. ASSUME deal.maxLTC >= 0 PROVE Part(TotalCost, deal.maxLTC) \in Nat
    <3>1. TotalCost * deal.maxLTC \in Nat
      BY ONLY <2>1, <2>4, Z3
    <3>2. ASSUME NEW x \in Nat, NEW y \in Nat, y > 0 PROVE x \div y \in Nat
      BY ONLY <3>2, Z3
    <3> QED
      BY ONLY <1>sc, <3>1, <3>2 DEF Part
  <2>5. ASSUME deal.minDSCR > 0, NEW w \in covered PROVE dscrLimit(w) \in Nat
    <3>1. w.noi \in Int /\ w.perUnit \in Int /\ w.perUnit > 0
      BY <2>3
    <3>2. w.noi * UnitLoan * Scale \in Int
      <4>1. w.noi * UnitLoan \in Int
        BY ONLY <1>ml, <2>1, <3>1
      <4>2. Scale \in Int
        BY ONLY <1>sc
      <4> QED
        BY ONLY <1>ml, <4>1, <4>2
    <3>3. deal.minDSCR * w.perUnit \in Nat /\ deal.minDSCR * w.perUnit > 0
      BY ONLY <2>1, <2>5, <3>1, Z3
    <3>4. (w.noi * UnitLoan * Scale) \div (deal.minDSCR * w.perUnit) \in Int
      BY ONLY <1>dv, <3>2, <3>3
    <3> QED
      BY <3>4 DEF Most
  <2>6. ASSUME deal.minYield > 0 PROVE Most(0, (StabilizedNOI * Scale) \div deal.minYield) \in Nat
    <3>1. StabilizedNOI * Scale \in Int
      BY <1>ml, <1>sc, <2>1
    <3>2. (StabilizedNOI * Scale) \div deal.minYield \in Int
      BY <1>dv, <2>1, <2>6, <3>1
    <3> QED
      BY <3>2 DEF Most
  <2> HIDE DEF dscrLimit, covered
  <2>7. Constraints =
          (IF deal.maxLTC >= 0 THEN {[test |-> "ltc", loan |-> Part(TotalCost, deal.maxLTC)]} ELSE {})
          \cup (IF deal.minDSCR > 0 THEN {[test |-> "dscr", loan |-> dscrLimit(w)] : w \in covered} ELSE {})
          \cup (IF deal.minYield > 0
                THEN {[test |-> "debtYield", loan |-> Most(0, (StabilizedNOI * Scale) \div deal.minYield)]} ELSE {})
    BY DEF Constraints, dscrLimit, covered
  <2>8. \A c \in Constraints : c.loan \in Nat
    <3> SUFFICES ASSUME NEW c \in Constraints PROVE c.loan \in Nat
      OBVIOUS
    <3>1. CASE deal.maxLTC >= 0 /\ c = [test |-> "ltc", loan |-> Part(TotalCost, deal.maxLTC)]
      BY <2>4, <3>1
    <3>2. CASE deal.minDSCR > 0 /\ c \in {[test |-> "dscr", loan |-> dscrLimit(w)] : w \in covered}
      BY <2>5, <3>2
    <3>3. CASE /\ deal.minYield > 0
               /\ c = [test |-> "debtYield", loan |-> Most(0, (StabilizedNOI * Scale) \div deal.minYield)]
      BY <2>6, <3>3
    <3> QED
      BY <2>7, <3>1, <3>2, <3>3
  <2>9. L \in SUBSET Nat /\ L # {} /\ SizedLoan = Min(L)
    BY <1>sl, <2>8 DEF SizedLoan
  <2> HIDE DEF L
  <2> QED
    BY <1>le, <2>9
(* What equity commits, and what it has put in when the draw stands.         *)
<1>et. ASSUME NEW d, Good(d), NEW stated \in Int \X Int, stated[2] > 0, NEW plan \in Int
       PROVE  EquityTarget(d, stated, plan) \in Int
  <2>1. Base(d) \in Int /\ DrawConstruction(d, plan).capitalized \in Int
    <3>1. Base(d) \in Int /\ DrawConstruction(d, plan) \in Draws
      BY <1>ba, <1>dc, <1>et
    <3> QED
      BY <3>1 DEF Draws
  <2> DEFINE cost == Base(d) + DrawConstruction(d, plan).capitalized
  <2>2. EquityTarget(d, stated, plan) = Least(Base(d), Most(0, (cost * stated[1]) \div stated[2]))
    BY DEF EquityTarget
  <2>3. cost \in Int
    BY <2>1
  <2> HIDE DEF cost
  <2>4. (cost * stated[1]) \div stated[2] \in Int
    <3>1. cost * stated[1] \in Int
      BY <1>ml, <2>3
    <3> QED
      BY <1>dv, <1>et, <3>1
  <2>5. Most(0, (cost * stated[1]) \div stated[2]) \in Int
    BY ONLY <1>lt, <2>4, 0 \in Int
  <2> QED
    BY ONLY <1>lt, <2>1, <2>2, <2>5
(* A sale moves the last month only.                                         *)
<1>sa. ASSUME NEW rows \in Seq(Statements), Len(rows) > 0, NEW x \in Int,
              NEW after \in Seq(Statements), Len(after) = Len(rows),
              \A i \in 1 .. Len(rows) - 1 : after[i] = rows[i],
              after[Len(rows)].equityFlow = rows[Len(rows)].equityFlow + x
       PROVE  Total(Column(after, "equityFlow")) = Total(Column(rows, "equityFlow")) + x
  <2> DEFINE n == Len(rows) - 1
  <2>1. n \in Nat /\ n + 1 = Len(rows) /\ DOMAIN rows = 1 .. n + 1 /\ \A i \in 1 .. n + 1 : rows[i] \in Statements
    BY <1>sa
  <2>4. /\ Len(after) = Len(rows) /\ DOMAIN after = 1 .. n + 1
        /\ after[n + 1].equityFlow = rows[n + 1].equityFlow + x /\ \A i \in 1 .. n : after[i] = rows[i]
    BY <1>sa, <2>1
  <2> HIDE DEF n
  <2> DEFINE f == [i \in 1 .. n |-> rows[i].equityFlow]
             h == Column(rows, "equityFlow")
             k == Column(after, "equityFlow")
  <2>5. f \in [1 .. n -> Int] /\ Total(f) \in Int
    <3>1. f \in [1 .. n -> Int]
      BY <2>1 DEF Statements
    <3> HIDE DEF f
    <3> QED
      BY ONLY <2>1, <3>1, Totals
  <2>6. h \in [1 .. n + 1 -> Int] /\ k \in [1 .. n + 1 -> Int]
    <3>1. h \in [1 .. n + 1 -> Int]
      BY <1>co, <1>sa, <2>1 DEF Lines
    <3>2. k \in [1 .. n + 1 -> Int]
      BY <1>co, <1>sa, <2>1, <2>4 DEF Lines
    <3> QED
      BY <3>1, <3>2
  <2>7. /\ \A i \in 1 .. n : h[i] = f[i] /\ k[i] = f[i]
        /\ h[n + 1] = rows[n + 1].equityFlow /\ k[n + 1] = rows[n + 1].equityFlow + x
    BY <2>1, <2>4 DEF Column
  <2>8. h[n + 1] \in Int /\ k[n + 1] = h[n + 1] + x
    BY <2>1, <2>6, <2>7
  <2> HIDE DEF f, h, k
  <2>9. Total(h) = Total(f) + h[n + 1]
    <3>1. \A i \in 1 .. n : h[i] = f[i]
      BY <2>7
    <3> QED
      BY ONLY <2>1, <2>5, <2>6, <3>1, Totals
  <2>10. Total(k) = Total(f) + k[n + 1]
    <3>1. \A i \in 1 .. n : k[i] = f[i]
      BY <2>7
    <3> QED
      BY ONLY <2>1, <2>5, <2>6, <3>1, Totals
  <2>11. Total(k) = Total(h) + x
    BY <1>sa, <2>5, <2>8, <2>9, <2>10
  <2> QED
    BY <2>11 DEF h, k
<1>1. DeskInit => DeskInv
  <2> SUFFICES ASSUME DeskInit PROVE DeskInv
    OBVIOUS
  <2>1. \A d \in Deals : d \in Inputs
    BY ModelAssumption
  <2>2. roll = << >>
    BY DEF DeskInit, DeskIdle, NoRoll
  <2>3. deal \in Inputs /\ stage \in {"aside", "roll", "open"}
    <3>1. (CHOOSE d \in Deals : TRUE) \in Deals
      BY DeskAssumption
    <3>2. CASE \E d \in Deals : ModelInit(d, "open")
      BY <2>1, <3>2 DEF ModelInit
    <3>3. CASE \E d \in RollDeals : ModelInit(d, "roll")
      BY <3>3, DeskAssumption DEF ModelInit
    <3>4. CASE ModelInit(CHOOSE d \in Deals : TRUE, "aside")
      BY <2>1, <3>1, <3>4 DEF ModelInit
    <3> QED
      BY <3>2, <3>3, <3>4 DEF DeskInit, DeskIdle
  <2> QED
    BY <2>2, <2>3 DEF DeskInv
<1>2. ASSUME DeskInv, UNCHANGED modelVars, roll' \in Seq(Bays) PROVE DeskInv'
  BY <1>2 DEF DeskInv, modelVars, Asked, Running, Sold, Sum
<1>3. ASSUME DeskInv, KeyBay PROVE DeskInv'
  <2>1. roll' \in Seq(Bays)
    <3>1. roll \in Seq(Bays) /\ \E bay \in Bays : roll' = Append(roll, bay)
      BY <1>3 DEF DeskInv, KeyBay, Key
    <3> QED
      BY <3>1
  <2> QED
    BY <1>2, <1>3, <2>1 DEF KeyBay
<1>4. ASSUME DeskInv, Underwrite PROVE DeskInv'
  <2>1. roll \in Seq(Bays) /\ deal \in Inputs /\ roll' = roll /\ stage' = "open"
        /\ EngineInputs(roll) # Unknown /\ deal' = FromRoll(deal, EngineInputs(roll))
    BY <1>4 DEF DeskInv, Underwrite, rollVars
  <2>2. FromRoll(deal, EngineInputs(roll)) \in Inputs
    BY ONLY <1>fr, <2>1
  <2> QED
    BY <2>1, <2>2 DEF DeskInv
(* The model may go on from where a deal is solved for a share.              *)
<1>5. ASSUME NEW stated \in Int \X Int, stated[2] > 0, DeskInv, Good(deal), SolveFrom(deal, stated),
             deal' = deal, roll' = roll
      PROVE  DeskInv'
  <2>1. Base(deal) \in Int
    BY <1>5, <1>ba
  <2>2. (Base(deal) * stated[1]) \div stated[2] \in Int
    <3>1. Base(deal) * stated[1] \in Int
      BY <1>ml, <2>1
    <3> QED
      BY <1>dv, <1>5, <3>1
  <2>3. Asked' /\ stage' = "solve"
    BY <1>5, <2>1, <2>2 DEF SolveFrom, Asked
  <2> QED
    BY <1>5, <2>3 DEF DeskInv
<1>6. ASSUME DeskInv, Degenerate, roll' = roll PROVE DeskInv'
  BY <1>6 DEF DeskInv, Degenerate
<1>7. ASSUME DeskInv, Start, roll' = roll PROVE DeskInv'
  <2>1. Good(deal)
    BY <1>7 DEF DeskInv, Start, Good
  <2>2. deal.down \in Int /\ SolveFrom(deal, <<deal.down, Scale>>) /\ deal' = deal
    BY <1>gd, <1>7, <2>1 DEF Start
  <2>3. <<deal.down, Scale>> \in Int \X Int /\ <<deal.down, Scale>>[2] > 0
    BY <1>sc, <2>2
  <2> QED
    BY <1>5, <1>7, <2>1, <2>2, <2>3
<1>8. ASSUME DeskInv, Pass, roll' = roll PROVE DeskInv'
  <2>1. Good(deal) /\ Asked /\ deal' = deal /\ share' = share /\ bracket' = bracket /\ stage' \in {"solve", "fund"}
        /\ equity' \in {equity, EquityTarget(deal, share, equity)}
    BY <1>8 DEF DeskInv, Pass
  <2>2. EquityTarget(deal, share, equity) \in Int
    BY <1>et, <2>1 DEF Asked
  <2>3. Asked'
    BY <2>1, <2>2 DEF Asked
  <2> QED
    BY <1>8, <2>1, <2>3 DEF DeskInv
<1>9. ASSUME DeskInv, Bisect, roll' = roll PROVE DeskInv'
  <2> DEFINE middle == (bracket[1] + bracket[2]) \div 2
  <2>1. Good(deal) /\ Asked /\ deal' = deal /\ share' = share /\ stage' \in {"solve", "fund"}
        /\ bracket' \in {bracket, <<middle, bracket[2]>>, <<bracket[1], middle>>}
        /\ equity' \in {equity, bracket[1]}
    BY <1>9 DEF DeskInv, Bisect
  <2>2. middle \in Int /\ bracket[1] \in Int /\ bracket[2] \in Int
    BY <2>1 DEF Asked
  <2> HIDE DEF middle
  <2>3. Asked'
    BY <2>1, <2>2 DEF Asked
  <2> QED
    BY <1>9, <2>1, <2>3 DEF DeskInv
<1>10. ASSUME DeskInv, Fund, roll' = roll PROVE DeskInv'
  <2> DEFINE draw == DrawConstruction(deal, equity)
             closing == Least(Base(deal), Most(0, equity))
  <2>1. /\ Good(deal) /\ equity \in Int /\ deal' = deal /\ equity' = equity /\ stage' = "operate"
        /\ months' = draw.months /\ capitalized' = draw.capitalized
        /\ balance' = IF deal.build > 0 THEN draw.balance ELSE Base(deal) - closing
    BY <1>10 DEF DeskInv, Fund, Asked
  <2>2. draw \in Draws /\ Balanced(draw.months, draw.balance) /\ Len(draw.months) = deal.build
    BY <1>dc, <2>1
  <2> HIDE DEF draw
  <2>3. draw.months \in Seq(Statements) /\ draw.capitalized \in Nat /\ draw.balance \in Nat
    BY <2>2 DEF Draws
  <2>4. Base(deal) - closing \in Nat
    <3>1. Base(deal) \in Int
      BY <1>ba, <2>1
    <3>2. Most(0, equity) \in Int
      BY <1>lm, <2>1
    <3>3. closing \in Int /\ closing <= Base(deal)
      BY ONLY <1>lm, <3>1, <3>2
    <3> HIDE DEF closing
    <3> QED
      BY <3>1, <3>3
  <2> HIDE DEF closing
  <2>5. deal.build \in Nat /\ deal.hold \in Nat
    BY <1>gd, <2>1
  <2>6. Running'
    <3>1. balance' \in Nat /\ months' \in Seq(Statements) /\ Len(months') = deal.build
      BY <2>1, <2>2, <2>3, <2>4
    <3>2. Len(months') > 0 => Balanced(months', balance')
      BY <2>1, <2>2
    <3>3. deal'.build <= Len(months') /\ Len(months') <= deal'.build + deal'.hold
      BY <2>1, <2>5, <3>1
    <3> QED
      BY <3>1, <3>2, <3>3 DEF Running, Balanced
  <2> QED
    BY <1>10, <2>1, <2>3, <2>6 DEF DeskInv
<1>11. ASSUME DeskInv, Operate, roll' = roll PROVE DeskInv'
  <2> DEFINE t == Len(months) - deal.build
             noi == Operating(deal, TotalCost, t).noi
             interest == Part(balance, deal.rate)
             payment == LevelPayment(PermanentLoan, deal.rate, deal.term)
             debtService == IF t < deal.interestOnly THEN interest ELSE Least(payment, balance + interest)
             flow == noi - debtService - ClosingEquity
             row == Month(ClosingCost, noi, interest, debtService, flow)
  <2>1. /\ Good(deal) /\ equity \in Int /\ capitalized \in Nat /\ Running
        /\ deal' = deal /\ equity' = equity /\ capitalized' = capitalized /\ stage' = "operate"
        /\ t < deal.hold /\ balance' = Most(0, balance + interest - debtService) /\ months' = Append(months, row)
    BY <1>11 DEF DeskInv, Operate
  <2>2. /\ months \in Seq(Statements) /\ balance \in Nat /\ Len(months) \in Nat /\ t \in Nat
        /\ deal.build \in Nat /\ deal.hold \in Nat /\ Base(deal) \in Int /\ Base(deal) > 0
        /\ deal.rate \in Nat /\ deal.term \in Nat
    BY <1>ba, <1>gd, <2>1 DEF Running
  <2>3. noi \in Int
    <3>1. TotalCost \in Int
      BY <2>1, <2>2 DEF TotalCost
    <3> QED
      BY ONLY <1>om, <2>1, <2>2, <3>1
  <2>4. interest \in Int /\ balance + interest \in Int
    <3>1. balance \in Int /\ deal.rate \in Int
      BY ONLY <2>2
    <3>2. interest \in Int
      BY ONLY <1>pu, <3>1 DEF interest
    <3> QED
      BY ONLY <3>1, <3>2
  <2>5. payment \in Int
    <3>1. PermanentLoan \in Int
      BY <2>1, <2>2 DEF PermanentLoan
    <3> QED
      BY ONLY <1>lp, <2>2, <3>1 DEF payment
  <2> HIDE DEF t, noi, interest, payment
  <2>6. debtService \in Int /\ balance' \in Nat /\ balance' = balance + interest - debtService
    <3>1. CASE t < deal.interestOnly
      <4>1. debtService = interest
        BY <3>1
      <4> HIDE DEF debtService
      <4> QED
        BY <2>1, <2>2, <2>4, <4>1 DEF Most
    <3>2. CASE ~(t < deal.interestOnly)
      <4>1. debtService = Least(payment, balance + interest)
        BY <3>2
      <4> HIDE DEF debtService
      <4>2. debtService \in Int /\ debtService <= balance + interest
        BY ONLY <1>lm, <2>4, <2>5, <4>1
      <4>3. balance \in Int
        BY ONLY <2>2
      <4> QED
        BY ONLY <2>1, <2>4, <4>2, <4>3 DEF Most
    <3> QED
      BY <3>1, <3>2
  <2> HIDE DEF debtService
  <2>7. /\ ClosingCost \in Int /\ ClosingEquity \in Int
        /\ Len(months) > 0 => ClosingCost = 0 /\ ClosingEquity = 0
        /\ Len(months) = 0 => ClosingEquity = ClosingCost - balance
    BY <2>1, <2>2 DEF ClosingCost, ClosingEquity, Running
  <2> HIDE DEF flow
  <2>8. flow \in Int
    BY <2>3, <2>6, <2>7 DEF flow
  <2>9. /\ row \in Statements /\ row.cost = ClosingCost /\ row.noi = noi /\ row.interest = interest
        /\ row.equityFlow = flow
    BY ONLY <2>3, <2>4, <2>6, <2>7, <2>8 DEF row, Month, Statements
  <2> HIDE DEF row
  <2>10. ASSUME NEW before \in Int, Balanced(months, before), flow = noi - ClosingCost - interest + balance' - before
         PROVE  Balanced(months', balance')
    <3>1. Balanced(Append(months, row), balance')
      <4>1. row.equityFlow = row.noi - row.cost - row.interest + balance' - before /\ balance' \in Int
        BY <2>6, <2>9, <2>10
      <4> QED
        BY ONLY <1>ap, <2>2, <2>9, <2>10, <4>1
    <3> QED
      BY <2>1, <3>1
  <2>11. Balanced(months', balance')
    <3>1. CASE Len(months) > 0
      <4>1. flow = noi - ClosingCost - interest + balance' - balance /\ balance \in Int
        BY <2>2, <2>3, <2>4, <2>6, <2>7, <3>1 DEF flow
      <4> QED
        BY <2>1, <2>10, <3>1, <4>1 DEF Running
    <3>2. CASE Len(months) = 0
      <4>1. months = << >>
        BY <2>2, <3>2
      <4>2. flow = noi - ClosingCost - interest + balance' - 0
        BY <2>2, <2>3, <2>4, <2>6, <2>7, <3>2 DEF flow
      <4> QED
        BY <1>nl, <2>10, <4>1, <4>2
    <3> QED
      BY <2>2, <3>1, <3>2
  <2>12. months' \in Seq(Statements) /\ Len(months') = Len(months) + 1
    BY <2>1, <2>2, <2>9
  <2>13. Running'
    <3>1. deal'.build <= Len(months') /\ Len(months') <= deal'.build + deal'.hold
      <4>1. Len(months) - deal.build < deal.hold /\ deal.build <= Len(months)
        BY <2>1 DEF t, Running
      <4> QED
        BY <2>1, <2>2, <2>12, <4>1
    <3> QED
      BY <2>6, <2>11, <2>12, <3>1 DEF Running, Balanced
  <2> QED
    BY <1>11, <2>1, <2>13 DEF DeskInv
<1>12. ASSUME DeskInv, Sell, roll' = roll PROVE DeskInv'
  <2> DEFINE gross == IF deal.exitCap > 0 THEN (ProjectedNOI(deal.hold) * Scale) \div deal.exitCap ELSE TotalCost
             cost == Part(gross, deal.saleCost)
             rise == gross - cost - balance
  <2>1. /\ Good(deal) /\ equity \in Int /\ capitalized \in Nat /\ Running
        /\ deal' = deal /\ equity' = equity /\ capitalized' = capitalized /\ stage' = "judge"
        /\ Len(months) = deal.build + deal.hold
        /\ sale' = [gross |-> gross, cost |-> cost, payoff |-> balance]
    BY <1>12 DEF DeskInv, Sell
  <2>2. /\ months \in Seq(Statements) /\ balance \in Int /\ deal.build \in Nat /\ deal.hold \in Nat /\ deal.hold > 0
        /\ deal.exitCap \in Int /\ deal.saleCost \in Int /\ TotalCost \in Int
    <3>1. Base(deal) \in Int
      BY <1>ba, <2>1
    <3> QED
      BY <1>gd, <2>1, <3>1 DEF Running, TotalCost
  <2>3. gross \in Int /\ cost \in Int /\ rise \in Int
    <3>1. ProjectedNOI(deal.hold) * Scale \in Int
      <4>1. ProjectedNOI(deal.hold) \in Int /\ Scale \in Int
        BY <1>pn, <1>sc, <2>1, <2>2
      <4> QED
        BY ONLY <1>ml, <4>1
    <3>2. ASSUME deal.exitCap > 0 PROVE (ProjectedNOI(deal.hold) * Scale) \div deal.exitCap \in Int
      <4>1. deal.exitCap \in Nat
        BY <2>2, <3>2
      <4> QED
        BY ONLY <1>dv, <3>1, <3>2, <4>1
    <3>3. gross \in Int
      BY <2>2, <3>2
    <3> HIDE DEF gross
    <3>4. cost \in Int
      BY ONLY <1>pu, <2>2, <3>3 DEF cost
    <3> HIDE DEF cost
    <3> QED
      BY <2>2, <3>3, <3>4
  <2> HIDE DEF gross, cost
  <2>4. months' = [months EXCEPT ![Len(months)].equityFlow = @ + rise]
    <3>1. months' = [months EXCEPT ![Len(months)].equityFlow = @ + gross - cost - balance]
      BY <1>12 DEF Sell, gross, cost
    <3>2. months[Len(months)].equityFlow \in Int
      <4>1. Len(months) \in 1 .. Len(months)
        BY <2>1, <2>2
      <4>2. months[Len(months)] \in Statements
        BY <2>2, <4>1
      <4> QED
        BY <4>2 DEF Statements
    <3>3. months[Len(months)].equityFlow + gross - cost - balance = months[Len(months)].equityFlow + rise
      BY <2>2, <2>3, <3>2
    <3> HIDE DEF rise
    <3> QED
      BY <3>1, <3>3
  <2>5. Len(months) > 0 /\ Balanced(months, balance)
    <3>1. Len(months) > 0
      BY <2>1, <2>2
    <3> QED
      BY <2>1, <3>1 DEF Running
  <2> HIDE DEF rise
  <2> DEFINE n == Len(months)
             was == months[n]
             last == [was EXCEPT !.equityFlow = @ + rise]
  <2>6. n \in Nat /\ n > 0 /\ was \in Statements /\ was.equityFlow \in Int
    <3>1. n \in 1 .. n
      BY <2>2, <2>5
    <3>2. was \in Statements
      BY <2>2, <3>1
    <3> HIDE DEF was
    <3> QED
      BY <2>2, <2>5, <3>2 DEF Statements
  <2>13. months' = [months EXCEPT ![n] = last]
    BY <2>4
  <2> HIDE DEF was
  <2>14. last \in Statements
    BY <2>3, <2>6 DEF Statements
  <2>15. last.equityFlow = was.equityFlow + rise /\ \A line \in Lines \ {"equityFlow"} : last[line] = was[line]
    BY <2>6 DEF Statements, Lines
  <2> HIDE DEF last, n
  <2>16. /\ months' \in Seq(Statements) /\ Len(months') = n /\ n = Len(months)
         /\ months'[n] = last /\ months[n] = was /\ \A i \in 1 .. n - 1 : months'[i] = months[i]
    BY <2>2, <2>6, <2>13, <2>14 DEF n, was
  <2>17. Total(Column(months', "equityFlow")) = Total(Column(months, "equityFlow")) + rise
    <3>1. months'[Len(months)].equityFlow = months[Len(months)].equityFlow + rise
      BY <2>15, <2>16
    <3>2. Len(months') = Len(months) /\ \A i \in 1 .. Len(months) - 1 : months'[i] = months[i]
      BY <2>16
    <3> QED
      BY ONLY <1>sa, <2>2, <2>3, <2>5, <2>16, <3>1, <3>2
  <2>18. ASSUME NEW line \in Lines \ {"equityFlow"} PROVE Column(months', line) = Column(months, line)
    <3>1. DOMAIN months = 1 .. n /\ DOMAIN months' = 1 .. n
      BY <2>2, <2>16
    <3>2. \A i \in 1 .. n : months'[i][line] = months[i][line]
      BY <2>6, <2>15, <2>16
    <3> QED
      BY <3>1, <3>2 DEF Column
  <2>7. /\ Column(months', "noi") = Column(months, "noi") /\ Column(months', "cost") = Column(months, "cost")
        /\ Column(months', "interest") = Column(months, "interest")
    BY <2>18 DEF Lines
  <2> DEFINE e == Total(Column(months, "equityFlow"))
             v == Total(Column(months, "noi"))
             c == Total(Column(months, "cost"))
             i == Total(Column(months, "interest"))
  <2>8. e \in Int /\ v \in Int /\ c \in Int /\ i \in Int
    BY <1>co, <2>2 DEF Lines
  <2>9. e = v - c - i + balance
    BY <2>5 DEF Balanced
  <2>10. /\ Sum("equityFlow")' = e + rise /\ Sum("noi")' = v /\ Sum("cost")' = c /\ Sum("interest")' = i
         /\ sale'.gross = gross /\ sale'.cost = cost
    BY <2>1, <2>17, <2>7 DEF Sum, Column
  <2> HIDE DEF e, v, c, i
  <2>11. e + rise = v - c + gross - cost - i
    BY <2>2, <2>3, <2>8, <2>9 DEF rise
  <2>12. Sold'
    BY <2>1, <2>10, <2>11, <2>16 DEF Sold
  <2> QED
    BY <1>12, <2>1, <2>12 DEF DeskInv
<1>13. ASSUME DeskInv, Resize, roll' = roll PROVE DeskInv'
  <2> DEFINE stated == <<Base(deal) - Commitment(SizedLoan), TotalCost>>
  <2>1. /\ Good(deal) /\ capitalized \in Nat /\ Sold /\ SizedLoan # Unknown
        /\ SolveFrom(deal, stated) /\ deal' = deal
    BY <1>13 DEF DeskInv, Resize
  <2>2. Base(deal) \in Int /\ Base(deal) > 0
    BY <1>ba, <2>1
  <2>3. SizedLoan \in Nat
    BY <1>sl, <2>1 DEF Sold
  <2>4. Commitment(SizedLoan) \in Int
    <3>1. SizedLoan - capitalized \in Int
      BY <2>1, <2>3
    <3>2. Most(0, SizedLoan - capitalized) \in Int
      BY ONLY <1>lt, <3>1, 0 \in Int
    <3>3. Least(Base(deal), Most(0, SizedLoan - capitalized)) \in Int
      BY ONLY <1>lt, <2>2, <3>2
    <3> QED
      BY <3>3 DEF Commitment
  <2>5. TotalCost \in Int /\ TotalCost > 0
    BY <2>1, <2>2 DEF TotalCost
  <2>6. stated \in Int \X Int /\ stated[2] > 0
    BY <2>2, <2>4, <2>5
  <2> HIDE DEF stated
  <2> QED
    BY ONLY <1>5, <1>13, <2>1, <2>6
<1>14. ASSUME DeskInv, NothingToSizeTo \/ Finish, roll' = roll PROVE DeskInv'
  <2>1. /\ Good(deal) /\ equity \in Int /\ capitalized \in Nat /\ Sold /\ deal \in Inputs
        /\ deal' = deal /\ equity' = equity /\ capitalized' = capitalized /\ months' = months /\ sale' = sale
        /\ stage' = "done"
    BY <1>14 DEF DeskInv, NothingToSizeTo, Finish
  <2>2. Sold'
    BY <2>1 DEF Sold, Sum
  <2> QED
    BY <1>14, <2>1, <2>2 DEF DeskInv
<1>15. ASSUME DeskInv, Model PROVE DeskInv'
  <2>1. ModelNext /\ roll' = roll
    BY <1>15 DEF Model, rollVars
  <2> QED
    BY <1>6, <1>7, <1>8, <1>9, <1>10, <1>11, <1>12, <1>13, <1>14, <1>15, <2>1 DEF ModelNext
<1>16. ASSUME DeskInv, [DeskNext]_deskVars PROVE DeskInv'
  <2>1. ASSUME UNCHANGED modelVars, UNCHANGED rollVars PROVE DeskInv'
    <3>1. roll' \in Seq(Bays)
      BY <1>16, <2>1 DEF DeskInv, rollVars
    <3> QED
      BY <1>2, <1>16, <2>1, <3>1
  <2>2. CASE KeyBay
    BY <1>3, <1>16, <2>2
  <2>3. CASE Underwrite
    BY <1>4, <1>16, <2>3
  <2>4. CASE Model
    BY <1>15, <1>16, <2>4
  <2>5. CASE Split \/ SplitSeries \/ RunSplit \/ Solve
    BY <2>1, <2>5 DEF Split, SplitSeries, RunSplit, Solve
  <2>6. CASE UNCHANGED deskVars
    BY <2>1, <2>6 DEF deskVars
  <2> QED
    BY <1>16, <2>2, <2>3, <2>4, <2>5, <2>6 DEF DeskNext
<1>17. DeskInv => LeverageOnlyCostsItsInterest
  BY DEF DeskInv, LeverageOnlyCostsItsInterest, Finished, Sold
<1> QED
  BY <1>1, <1>16, <1>17, PTL DEF DeskSpec
=============================================================================
